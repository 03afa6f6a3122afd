------------------------- MODULE CaptureLoop_proofs -------------------------
(***************************************************************************)
(* The safety of capture_loop together with the capture IP, both DMAs and  *)
(* the cache, for windows of any length, any number of captures, any depth *)
(* of the RX DMA and any number of resets of the data clock domain.        *)
(*                                                                         *)
(* None of the properties is inductive.  What the software may conclude    *)
(* depends on how old the status is that it looks at, so LoopInv says, for *)
(* each place of the program, which states the snapshot in the registers,  *)
(* the one on its way and the IP itself may be in (Handshake), what the    *)
(* DMAs may be doing (OnAir, RxStage, Transfer), and which words the       *)
(* buffer and the cache hold (Buffer).                                     *)
(***************************************************************************)
EXTENDS CaptureLoop, TLAPS

RxWord == [win : 0 .. NumCaptures, idx : 0 .. CaptureLen]

Typed ==
  /\ TypeOK
  /\ fifo \in Seq(RxWord) /\ taken <= CaptureLen
  /\ rx_eot \in BOOLEAN /\ overflowed \in BOOLEAN
  /\ active_reg \in 0 .. CaptureLen /\ errors \in Nat /\ resets \in Nat

-----------------------------------------------------------------------------
(* What the software can know of the IP *)

BeforeScan == {"probe", "probeReset", "probeWait", "arm", "rxStart", "scan"}
Captured == {"waitEot", "invalidate", "readActive", "prepare", "flush", "txStart", "begin"}

Seen(states) == status.st \in states /\ (flight # None => flight.st \in states)

\* The states of one attempt to capture follow one another in this order.
InOrder(a, b) ==
  \/ a = "SCAN" /\ b \in {"SCAN", "CAPTURE", "PENDING", "IDLE"}
  \/ a = "CAPTURE" /\ b \in {"CAPTURE", "PENDING", "IDLE"}
  \/ a = "PENDING" /\ b \in {"PENDING", "IDLE"}
  \/ a = "IDLE" /\ b = "IDLE"

\* A snapshot taken since the SCAN of this attempt arrived.
Current(s) ==
  /\ InOrder(s.st, phase)
  /\ resets = 0 => s.st # "IDLE" /\ (s.st = "PENDING" => s.act = active)

StatusCurrent ==
  Current(status) /\ (flight # None => InOrder(status.st, flight.st))

\* The IP stays in `state', as far as anybody can tell.
Quiet(state) ==
  /\ phase \in {state, "IDLE"} /\ Seen({state, "IDLE"})
  /\ resets = 0 => phase = state /\ Seen({state})

\* A command has taken the IP from one state to the other; the snapshots follow.
Turned(from, to) ==
  /\ phase \in {to, "IDLE"} /\ Seen({from, to, "IDLE"})
  /\ resets = 0 => phase = to /\ Seen({from, to})
  /\ lag = 0 => status.st \in {to, "IDLE"}
  /\ flight # None /\ (lag <= 1 \/ status.st = to) => flight.st \in {to, "IDLE"}

AtRest ==
  pc \in BeforeScan \cup {"done"} =>
    /\ phase \in {"IDLE", "PENDING"} /\ Seen({"IDLE", "PENDING"})
    /\ cmd # None => cmd = "RESET" /\ pc \in {"probeWait", "arm"}

ScanSent ==
  pc = "waitScan" =>
    /\ cmd = "SCAN" => phase \in {"IDLE", "PENDING"} /\ Seen({"IDLE", "PENDING"})
    /\ cmd # "SCAN" =>
         /\ cmd = None /\ phase # "REPLAY" /\ Seen({"SCAN", "CAPTURE", "PENDING", "IDLE"})
         /\ resets = 0 => phase # "IDLE"
         /\ lag = 0 \/ status.st \in {"SCAN", "CAPTURE"} => StatusCurrent
         /\ flight # None /\ (\/ lag <= 1 \/ flight.st \in {"SCAN", "CAPTURE"}
                              \/ status.st \in {"SCAN", "CAPTURE"}) => Current(flight)

ScanSeen ==
  pc = "waitCapture" =>
    /\ cmd = None /\ phase # "REPLAY"
    /\ resets = 0 => phase # "IDLE"
    /\ StatusCurrent
    /\ flight # None => Current(flight)

CaptureSeen ==
  pc \in Captured =>
    /\ cmd = None /\ Quiet("PENDING")
    /\ resets = 0 => status.act = active /\ (flight # None => flight.act = active)

ReplayTurn ==
  /\ pc = "waitReplay" => IF cmd = None THEN Turned("PENDING", "REPLAY")
                          ELSE cmd = "REPLAY_BEGIN" /\ Quiet("PENDING")
  /\ pc \in {"play", "end"} => cmd = None /\ Quiet("REPLAY")
  /\ pc = "waitPending" => IF cmd = None THEN Turned("REPLAY", "PENDING")
                           ELSE cmd = "REPLAY_END" /\ Quiet("REPLAY")

Aborting ==
  /\ pc = "reset" => cmd = None
  /\ pc = "rxStop" => \/ cmd = "RESET"
                      \/ /\ cmd = None /\ phase = "IDLE"
                         /\ lag = 0 => status.st = "IDLE"
                         /\ flight # None /\ lag <= 1 => flight.st = "IDLE"
  /\ pc \in {"rxClear", "waitIdle"} => cmd = None /\ phase = "IDLE" /\ Seen({"IDLE"})

Handshake ==
  AtRest /\ ScanSent /\ ScanSeen /\ CaptureSeen /\ ReplayTurn /\ Aborting

-----------------------------------------------------------------------------
(* The DMAs, the buffer and the counters *)

Replaying == {"begin", "waitReplay", "play"}
Receiving == {"rxStart", "scan", "waitScan", "waitCapture", "waitEot", "invalidate",
              "readActive", "prepare", "flush", "txStart"}

OnAir ==
  /\ tx # "off" => phase \notin {"SCAN", "CAPTURE"} /\ cmd # "SCAN"
  /\ tx = "on" <=> pc \in Replaying
  /\ pc \in Receiving => tx = "off"

Word(i) == [win |-> window, idx |-> i, scaled |-> FALSE]
Scaled(i) == [win |-> window, idx |-> i, scaled |-> TRUE]

\* The scan is about to be asked for, asked for or running: no word has come yet.
Armed == phase = "SCAN" \/ cmd = "SCAN" \/ pc = "scan"
InWindow == {"waitScan", "waitCapture", "waitEot"}

\* Every word the DMA has taken is the one of its place in the window.
InPlace ==
  /\ \A i \in 1 .. stored : mem[i] = Word(i)
  /\ \A i \in 1 .. Len(fifo) : fifo[i] = [win |-> window, idx |-> stored + i]

\* A transfer with a word missing stays short of its last word, so its end is never
\* reported.
Transfer ==
  /\ rx \in {"off", "idle"} => fifo = <<>> /\ stored = 0
  /\ Armed => rx = "busy" /\ ~rx_eot /\ fifo = <<>> /\ stored = 0
  /\ cmd = "SCAN" \/ pc = "scan" => phase \in {"IDLE", "PENDING"}
  /\ phase = "CAPTURE" =>
       /\ rx = "busy" /\ taken <= count /\ count < CaptureLen
       /\ ~overflowed => taken = count
  /\ rx = "busy" => \/ InPlace
                    \/ phase = "CAPTURE" /\ taken < count
                    \/ phase # "CAPTURE" /\ taken < CaptureLen

RxStage ==
  /\ pc \in {"probe", "probeReset", "probeWait", "arm", "done"} => rx # "busy"
  /\ pc = "rxStart" => rx \in {"off", "idle"} /\ ~rx_eot
  /\ pc \in InWindow => \/ rx = "busy" /\ ~rx_eot
                        \/ rx = "idle" /\ rx_eot /\ \A i \in Slots : mem[i] = Word(i)
  /\ pc \in InWindow /\ cmd = None /\ phase = "PENDING" /\ rx = "busy" /\ ~overflowed =>
       taken = CaptureLen
  /\ pc \in (Captured \ {"waitEot"}) \cup {"waitReplay", "play", "end", "waitPending"} =>
       rx = "idle"
  /\ pc \in {"reset", "rxStop"} => rx \in {"busy", "idle"}
  /\ pc \in {"rxClear", "waitIdle"} => rx \in {"stopping", "off"}

\* Whose word is the newer one, the memory's or the cache's, while the window goes
\* through both.
Buffer ==
  /\ pc \in {"invalidate", "readActive", "prepare"} => \A i \in Slots : mem[i] = Word(i)
  /\ pc \in {"readActive", "prepare"} => \A i \in Slots : cache[i] \in {None, mem[i]}
  /\ pc # "flush" => dirty = {}
  /\ pc = "flush" =>
       /\ dirty \subseteq 1 .. active_reg
       /\ \A i \in 1 .. active_reg : (IF i \in dirty THEN cache[i] ELSE mem[i]) = Scaled(i)
  /\ pc \in {"txStart"} \cup Replaying => \A i \in 1 .. active_reg : mem[i] = Scaled(i)

ActiveLength ==
  /\ phase = "CAPTURE" => active <= count /\ (active = count \/ active >= HangLen)
  /\ phase \in {"PENDING", "REPLAY"} => active >= 1
  /\ pc \in {"prepare", "flush", "txStart"} \cup Replaying =>
       active_reg \in 1 .. CaptureLen /\ (resets = 0 => active_reg = active)

Counting ==
  /\ window <= iter
  /\ pc \in BeforeScan \cup {"done"} \/ Armed => window < iter
  /\ pc # "done" => iter <= NumCaptures

LoopInv ==
  /\ Typed /\ Handshake /\ OnAir /\ Transfer /\ RxStage /\ Buffer /\ ActiveLength
  /\ Counting /\ NoFalseAlarm

-----------------------------------------------------------------------------

LEMMA NoneFacts ==
  /\ \A c \in IPCommands : c # None
  /\ \A s \in Snapshot : s # None
  /\ \A c \in Content : c # None
  BY NoneAssumption

\* Every step keeps what the software knows of the IP true: a command or a reset
\* makes snapshots stale, and two later ones, at most, are current again.
LEMMA HandshakeStep ==
  ASSUME Typed, OnAir, Handshake, Next
  PROVE  Handshake'
<1> USE NoneFacts
    DEF Typed, TypeOK, IPCommands, Snapshot, Phases, Handshake, AtRest, ScanSent, ScanSeen,
        CaptureSeen, ReplayTurn, Aborting, Seen, InOrder, Current, StatusCurrent, Quiet,
        Turned, BeforeScan, Captured, ipVars, gateVars, linkVars, rxVars, bufVars, swVars,
        At, OnlyPc, Failed, Settled, Reached, GivesUp, SendCommand, NextIteration
<1>1. CASE Probe \/ ProbeReset \/ ProbeWait \/ RxArm \/ RxStart \/ Scan
  BY <1>1 DEF Probe, ProbeReset, ProbeWait, RxArm, RxStart, Scan
<1>2. CASE WaitScan
  <2>1. CASE Reached("SCAN", "waitScan", "waitCapture")
    BY <2>1
  <2>2. CASE GivesUp("SCAN") /\ At("waitScan", "waitCapture") /\ OnlyPc
    BY <2>2
  <2>3. CASE GivesUp("SCAN") /\ At("waitScan", "reset") /\ Failed
    BY <2>3
  <2> QED BY <1>2, <2>1, <2>2, <2>3 DEF WaitScan
<1>3. CASE WaitCapture
  BY <1>3 DEF WaitCapture
<1>4. CASE \/ WaitEot \/ Invalidate \/ ReadActive \/ Prepare \/ Flush \/ TxStart \/ Begin
  BY <1>4 DEF WaitEot, Invalidate, ReadActive, Prepare, Flush, TxStart, Begin
<1>5. CASE WaitReplay
  BY <1>5 DEF WaitReplay
<1>6. CASE Play \/ End
  BY <1>6 DEF Play, End
<1>7. CASE WaitPending
  BY <1>7 DEF WaitPending
<1>8. CASE AbortReset \/ AbortStop \/ AbortClear
  BY <1>8 DEF AbortReset, AbortStop, AbortClear
<1>9. CASE AbortWait
  BY <1>9 DEF AbortWait
<1>10. CASE CommandArrives
  BY <1>10 DEF CommandArrives, Abort, Arm, BeginReplay, EndReplay
<1>11. CASE TakeStatus
  BY <1>11 DEF TakeStatus
<1>12. CASE StatusArrives
  BY <1>12 DEF StatusArrives
<1>13. CASE Detect \/ Stream
  <2>1. CASE Detect
    BY <2>1 DEF Detect, Trigger
  <2>2. CASE Stream
    BY <2>2 DEF Stream, Forward
  <2> QED BY <1>13, <2>1, <2>2
<1>14. CASE DataReset
  BY <1>14 DEF DataReset, PowerUp
<1>15. CASE StoreWord \/ EndOfTransfer \/ RxStopped \/ TxStopped \/ Cache
  <2>1. UNCHANGED <<pc, phase, active, cmd, flight, status, lag, resets>>
    BY <1>15 DEF StoreWord, EndOfTransfer, RxStopped, TxStopped, Cache, Prefetch, Evict
  <2> QED BY <2>1
<1> QED
  BY <1>1, <1>2, <1>3, <1>4, <1>5, <1>6, <1>7, <1>8, <1>9, <1>10, <1>11, <1>12, <1>13,
     <1>14, <1>15 DEF Next, Software, Link, Dma

\* The transmitter is on only where the software replays, and the IP does not scan then.
LEMMA OnAirStep ==
  ASSUME Typed, OnAir, Handshake, Next
  PROVE  OnAir'
<1> USE NoneFacts
    DEF Typed, TypeOK, IPCommands, OnAir, Replaying, Receiving, Handshake, CaptureSeen,
        Captured, Quiet, ipVars, gateVars, linkVars, rxVars, bufVars, swVars,
        At, OnlyPc, Failed, Settled, Reached, GivesUp, SendCommand, NextIteration
<1>1. CASE Probe \/ ProbeReset \/ ProbeWait \/ RxArm \/ RxStart \/ Scan
  BY <1>1 DEF Probe, ProbeReset, ProbeWait, RxArm, RxStart, Scan
<1>2. CASE WaitScan \/ WaitCapture \/ WaitEot \/ Invalidate \/ ReadActive
  BY <1>2 DEF WaitScan, WaitCapture, WaitEot, Invalidate, ReadActive
<1>3. CASE Prepare \/ Flush \/ TxStart \/ Begin
  BY <1>3 DEF Prepare, Flush, TxStart, Begin
<1>4. CASE WaitReplay \/ Play \/ End \/ WaitPending
  BY <1>4 DEF WaitReplay, Play, End, WaitPending
<1>5. CASE AbortReset \/ AbortStop \/ AbortClear \/ AbortWait
  BY <1>5 DEF AbortReset, AbortStop, AbortClear, AbortWait
<1>6. CASE CommandArrives
  BY <1>6 DEF CommandArrives, Abort, Arm, BeginReplay, EndReplay
<1>7. CASE TakeStatus \/ StatusArrives
  BY <1>7 DEF TakeStatus, StatusArrives
<1>8. CASE Detect \/ Stream \/ DataReset
  BY <1>8 DEF Detect, Stream, DataReset, Trigger, Forward, PowerUp
<1>9. CASE StoreWord \/ EndOfTransfer \/ RxStopped \/ TxStopped \/ Cache
  BY <1>9 DEF StoreWord, EndOfTransfer, RxStopped, TxStopped, Cache, Prefetch, Evict
<1> QED
  BY <1>1, <1>2, <1>3, <1>4, <1>5, <1>6, <1>7, <1>8, <1>9 DEF Next, Software, Link, Dma

-----------------------------------------------------------------------------

LEMMA FifoFacts ==
  ASSUME Typed
  PROVE  /\ Len(fifo) \in Nat /\ stored \in Nat /\ taken \in Nat
         /\ fifo = <<>> <=> Len(fifo) = 0
         /\ fifo # <<>> =>
              /\ Len(Tail(fifo)) = Len(fifo) - 1 /\ Tail(fifo) \in Seq(RxWord)
              /\ Head(fifo) = fifo[1] /\ Head(fifo) \in RxWord
              /\ \A i \in 1 .. Len(fifo) - 1 : Tail(fifo)[i] = fifo[i + 1]
         /\ \A w \in RxWord :
              /\ Append(fifo, w) \in Seq(RxWord)
              /\ Len(Append(fifo, w)) = Len(fifo) + 1
              /\ Append(fifo, w)[Len(fifo) + 1] = w
              /\ \A i \in 1 .. Len(fifo) : Append(fifo, w)[i] = fifo[i]
  BY LoopAssumption, GateAssumption DEF Typed, TypeOK, taken

\* Steps that leave the transfer alone, unless they are about to ask for a scan.
LEMMA TransferKept ==
  ASSUME Transfer, pc' # "scan", cmd' # "SCAN" \/ cmd' = cmd,
         UNCHANGED <<phase, count, window, rx, fifo, stored, rx_eot, overflowed, mem>>
  PROVE  Transfer'
<1>1. InPlace => InPlace'
  BY DEF InPlace, Word
<1> QED BY <1>1 DEF Transfer, Armed, taken

LEMMA TransferStep ==
  ASSUME Typed, OnAir, Handshake, Transfer, RxStage, Buffer, Next
  PROVE  Transfer'
<1> USE NoneFacts, FifoFacts, GateAssumption, LoopAssumption
<1> USE DEF ipVars, gateVars, linkVars, rxVars, bufVars, swVars, At, OnlyPc, Failed, Settled,
        SendCommand, NextIteration, IPCommands
<1>1. CASE Probe \/ ProbeReset \/ ProbeWait
  BY <1>1, TransferKept DEF Probe, ProbeReset, ProbeWait
<1>2. CASE RxArm
  BY <1>2 DEF RxArm, Transfer, Armed, RxStage, InPlace, Word, Handshake, AtRest, BeforeScan, taken
<1>3. CASE RxStart
  <2>1. /\ rx # "busy" /\ fifo = <<>> /\ stored = 0 /\ ~rx_eot
        /\ phase \in {"IDLE", "PENDING"}
    BY <1>3 DEF RxStart, RxStage, Transfer, Handshake, AtRest, BeforeScan
  <2>2. /\ pc' = "scan" /\ rx' = "busy"
        /\ UNCHANGED <<phase, count, window, fifo, stored, rx_eot, overflowed, mem, cmd>>
    BY <1>3, <2>1 DEF RxStart
  <2> QED BY <2>1, <2>2 DEF Transfer, Armed, InPlace, taken
<1>4. CASE Scan
  BY <1>4 DEF Scan, Transfer, Armed, InPlace, Word, taken
<1>5. CASE WaitScan \/ WaitCapture
  BY <1>5, TransferKept DEF WaitScan, WaitCapture, Reached
<1>6. CASE WaitEot
  <2>1. pc = "waitEot" /\ phase \in {"PENDING", "IDLE"} /\ cmd = None
    BY <1>6 DEF WaitEot, Handshake, CaptureSeen, Captured, Quiet
  <2>2. /\ pc' # "scan" /\ (rx_eot' => rx_eot)
        /\ UNCHANGED <<phase, count, window, fifo, stored, rx, overflowed, mem, cmd>>
    BY <1>6, <2>1 DEF WaitEot
  <2> QED BY <2>1, <2>2 DEF Transfer, Armed, InPlace, Word, taken
<1>7. CASE Invalidate \/ ReadActive \/ Prepare
  BY <1>7, TransferKept DEF Invalidate, ReadActive, Prepare
<1>8. CASE Flush
  <2>1. rx = "idle" /\ phase \in {"PENDING", "IDLE"} /\ cmd = None
    BY <1>8 DEF Flush, RxStage, Handshake, CaptureSeen, Captured, Quiet
  <2> QED BY <1>8, <2>1 DEF Flush, Transfer, Armed
<1>9. CASE TxStart \/ Begin \/ WaitReplay \/ Play \/ End \/ WaitPending
  BY <1>9, TransferKept DEF TxStart, Begin, WaitReplay, Play, End, WaitPending, Reached
<1>10. CASE AbortReset \/ AbortWait
  BY <1>10, TransferKept DEF AbortReset, AbortWait
<1>11. CASE AbortStop
  <2>1. phase = "IDLE" /\ cmd = None
    BY <1>11 DEF AbortStop, Handshake, Aborting
  <2>2. rx \in {"busy", "idle"}
    BY <1>11 DEF AbortStop, RxStage
  <2> QED BY <1>11, <2>1, <2>2 DEF AbortStop, Transfer, Armed
<1>12. CASE AbortClear
  <2>1. phase = "IDLE" /\ cmd = None
    BY <1>12 DEF AbortClear, Handshake, Aborting
  <2> QED BY <1>12, <2>1 DEF AbortClear, Transfer, Armed, InPlace, Word, taken
<1>13. CASE CommandArrives
  <2> USE DEF CommandArrives, Abort, Arm, BeginReplay, EndReplay
  <2>1. /\ pc # "scan" /\ pc' = pc /\ cmd # None /\ cmd' = None
        /\ UNCHANGED <<count, window, rx, fifo, stored, rx_eot, overflowed, mem>>
    BY <1>13 DEF Handshake, AtRest, BeforeScan
  <2>2. /\ phase' = "SCAN" => Armed
        /\ phase' = "CAPTURE" => phase = "CAPTURE"
    BY <1>13 DEF Armed
  <2>3. phase = "CAPTURE" /\ phase' # "CAPTURE" => (taken < count => taken < CaptureLen)
    BY DEF Typed, TypeOK
  <2>4. InPlace => InPlace'
    BY <2>1 DEF InPlace, Word
  <2> QED BY <2>1, <2>2, <2>3, <2>4 DEF Transfer, Armed, taken, Typed, TypeOK
<1>14. CASE TakeStatus \/ StatusArrives \/ TxStopped
  <2>1. UNCHANGED <<pc, cmd, phase, count, window, rx, fifo, stored, rx_eot, overflowed, mem>>
    BY <1>14 DEF TakeStatus, StatusArrives, TxStopped
  <2> QED BY <2>1 DEF Transfer, Armed, InPlace, Word, taken
<1>15. CASE Detect
  BY <1>15 DEF Detect, Trigger, Typed, TypeOK, Transfer, Armed, InPlace, taken, xfer_req
<1>16. CASE Stream
  <2> DEFINE w == [win |-> window, idx |-> count']
  <2>1. /\ phase = "CAPTURE" /\ count \in Nat /\ count < CaptureLen /\ count' = count + 1
        /\ phase' = IF count' = CaptureLen THEN "PENDING" ELSE "CAPTURE"
        /\ UNCHANGED <<pc, cmd, window, rx, stored, rx_eot, mem>>
    BY <1>16 DEF Stream, Forward, Typed, TypeOK
  <2>2. rx = "busy" /\ taken <= count /\ (~overflowed => taken = count)
    BY <2>1 DEF Transfer
  <2>3. w \in RxWord
    BY <2>1 DEF Typed, TypeOK, RxWord
  <2>4. ~Armed'
    BY <2>1 DEF Armed, Transfer
  <2>5. CASE fifo' = Append(fifo, w) /\ UNCHANGED overflowed
    <3>1. taken' = taken + 1
      BY <2>1, <2>3, <2>5 DEF taken
    <3>2. ASSUME InPlace, taken = count
          PROVE  InPlace'
      <4>1. \A i \in 1 .. stored' : mem'[i] = Word(i)'
        BY <2>1, <3>2 DEF InPlace, Word
      <4>2. ASSUME NEW i \in 1 .. Len(fifo')
            PROVE  fifo'[i] = [win |-> window', idx |-> stored' + i]
        <5>1. CASE i \in 1 .. Len(fifo)
          BY <2>1, <2>3, <2>5, <3>2, <5>1 DEF InPlace
        <5>2. CASE i = Len(fifo) + 1
          BY <2>1, <2>3, <2>5, <3>2, <5>2 DEF taken
        <5> QED BY <2>3, <2>5, <5>1, <5>2
      <4> QED BY <4>1, <4>2 DEF InPlace
    <3>3. InPlace' \/ taken' < count'
      BY <2>1, <2>2, <3>1, <3>2 DEF Transfer
    <3> QED BY <2>1, <2>2, <2>4, <2>5, <3>1, <3>3 DEF Transfer
  <2>6. CASE UNCHANGED fifo /\ overflowed'
    <3>1. taken' = taken
      BY <2>1, <2>6 DEF taken
    <3> QED BY <2>1, <2>2, <2>4, <2>6, <3>1 DEF Transfer
  <2> QED BY <1>16, <2>5, <2>6 DEF Stream
<1>17. CASE DataReset
  BY <1>17 DEF DataReset, PowerUp, Typed, TypeOK, Transfer, Armed, InPlace, Word, taken
<1>18. CASE StoreWord
  <2>1. /\ fifo # <<>> /\ stored < CaptureLen /\ fifo' = Tail(fifo) /\ stored' = stored + 1
        /\ mem' = [mem EXCEPT ![stored + 1] =
                     [win |-> Head(fifo).win, idx |-> Head(fifo).idx, scaled |-> FALSE]]
        /\ UNCHANGED <<pc, cmd, phase, count, window, rx, rx_eot, overflowed>>
    BY <1>18 DEF StoreWord
  <2>2. taken' = taken /\ ~Armed'
    BY <2>1 DEF taken, Armed, Transfer
  <2>3. ASSUME InPlace
        PROVE  InPlace'
    <3>1. mem'[stored + 1] = Word(stored + 1)
      <4>1. Head(fifo) = [win |-> window, idx |-> stored + 1]
        <5>1. 1 \in 1 .. Len(fifo)
          BY <2>1
        <5> QED BY <2>1, <2>3, <5>1 DEF InPlace
      <4>2. stored + 1 \in Slots
        BY <2>1 DEF Slots
      <4>3. mem \in [Slots -> Content]
        BY DEF Typed, TypeOK
      <4>4. Head(fifo).win = window /\ Head(fifo).idx = stored + 1
        BY <4>1
      <4>5. mem'[stored + 1] = [win |-> Head(fifo).win, idx |-> Head(fifo).idx, scaled |-> FALSE]
        BY <2>1, <4>2, <4>3
      <4> QED BY <4>4, <4>5 DEF Word
    <3>2. ASSUME NEW i \in 1 .. stored'
          PROVE  mem'[i] = Word(i)'
      <4>1. CASE i = stored + 1
        BY <2>1, <3>1, <4>1 DEF Word
      <4>2. CASE i \in 1 .. stored
        <5>1. mem'[i] = mem[i]
          BY <2>1, <4>2 DEF Typed, TypeOK, Slots
        <5> QED BY <2>1, <2>3, <4>2, <5>1 DEF InPlace, Word
      <4> QED BY <2>1, <4>1, <4>2
    <3>3. \A i \in 1 .. Len(fifo') : fifo'[i] = [win |-> window', idx |-> stored' + i]
      BY <2>1, <2>3 DEF InPlace
    <3> QED BY <3>2, <3>3 DEF InPlace
  <2> QED BY <2>1, <2>2, <2>3 DEF Transfer
<1>19. CASE EndOfTransfer
  <2>1. taken = stored /\ stored = CaptureLen /\ fifo = <<>>
    BY <1>19 DEF EndOfTransfer, Typed, TypeOK, taken
  <2>2. phase # "CAPTURE" /\ ~Armed
    BY <2>1 DEF Transfer, Typed, TypeOK
  <2> QED BY <1>19, <2>1, <2>2 DEF EndOfTransfer, Transfer, Armed
<1>20. CASE RxStopped
  BY <1>20 DEF RxStopped, Transfer, Armed
<1>21. CASE Cache
  <2>1. UNCHANGED <<pc, cmd, phase, count, window, rx, fifo, stored, rx_eot, overflowed>>
    BY <1>21 DEF Cache, Prefetch, Evict
  <2>2. rx = "busy" => mem' = mem
    BY <1>21 DEF Cache, Prefetch, Evict, Buffer, RxStage, Captured, Typed, TypeOK
  <2> QED BY <2>1, <2>2 DEF Transfer, Armed, InPlace, Word, taken
<1> QED
  BY <1>1, <1>2, <1>3, <1>4, <1>5, <1>6, <1>7, <1>8, <1>9, <1>10, <1>11, <1>12, <1>13, <1>14,
     <1>15, <1>16, <1>17, <1>18, <1>19, <1>20, <1>21 DEF Next, Software, Link, Dma

-----------------------------------------------------------------------------

\* What the RX DMA is doing goes with the place of the program.
LEMMA RxStageStep ==
  ASSUME Typed, OnAir, Handshake, Transfer, RxStage, Buffer, Next
  PROVE  RxStage'
<1> USE NoneFacts, FifoFacts
<1> USE DEF ipVars, gateVars, linkVars, rxVars, bufVars, swVars, At, OnlyPc, Failed, Settled,
        SendCommand, NextIteration, RxStage, InWindow, Captured, BeforeScan
<1>1. CASE Probe \/ ProbeReset \/ ProbeWait \/ RxArm
  BY <1>1 DEF Probe, ProbeReset, ProbeWait, RxArm, Typed, TypeOK
<1>2. CASE RxStart
  BY <1>2 DEF RxStart
<1>3. CASE Scan
  BY <1>3 DEF Scan, Transfer, Armed, IPCommands
<1>4. CASE WaitScan
  <2>1. /\ pc = "waitScan" /\ pc' \in {"waitCapture", "reset"}
        /\ UNCHANGED <<cmd, phase, window, rx, fifo, stored, rx_eot, overflowed, mem>>
    BY <1>4 DEF WaitScan, Reached
  <2> QED BY <2>1 DEF Word, taken
<1>5. CASE WaitCapture
  <2>1. /\ pc = "waitCapture" /\ pc' \in {"waitEot", "reset"}
        /\ UNCHANGED <<cmd, phase, window, rx, fifo, stored, rx_eot, overflowed, mem>>
    BY <1>5 DEF WaitCapture, Reached
  <2> QED BY <2>1 DEF Word, taken
<1>6. CASE WaitEot
  BY <1>6 DEF WaitEot
<1>7. CASE Invalidate \/ ReadActive \/ Prepare \/ Flush \/ Begin
  BY <1>7 DEF Invalidate, ReadActive, Prepare, Flush, Begin
<1>8. CASE TxStart
  BY <1>8 DEF TxStart
<1>9. CASE WaitReplay
  BY <1>9 DEF WaitReplay, Reached, GivesUp
<1>10. CASE Play \/ End \/ WaitPending
  BY <1>10 DEF Play, End, WaitPending
<1>11. CASE AbortReset \/ AbortStop \/ AbortClear \/ AbortWait
  BY <1>11 DEF AbortReset, AbortStop, AbortClear, AbortWait
<1>12. CASE CommandArrives
  BY <1>12 DEF CommandArrives, Abort, Arm, BeginReplay, EndReplay, Word, Transfer, Armed,
     Handshake, ScanSent, ScanSeen, CaptureSeen
<1>13. CASE TakeStatus \/ StatusArrives \/ TxStopped
  <2>1. UNCHANGED <<pc, cmd, phase, window, rx, fifo, stored, rx_eot, overflowed, mem>>
    BY <1>13 DEF TakeStatus, StatusArrives, TxStopped
  <2> QED BY <2>1 DEF Word, taken
<1>14. CASE Detect
  BY <1>14 DEF Detect, Trigger, Transfer, Armed, xfer_req
<1>15. CASE Stream
  <2> DEFINE w == [win |-> window, idx |-> count']
  <2>1. /\ phase = "CAPTURE" /\ count' = count + 1 /\ rx = "busy"
        /\ phase' = "PENDING" => count' = CaptureLen
        /\ UNCHANGED <<pc, cmd, window, rx, stored, rx_eot, mem>>
    BY <1>15 DEF Stream, Forward, Transfer
  <2>2. w \in RxWord
    BY <1>15, <2>1, GateAssumption DEF Stream, Forward, Typed, TypeOK, RxWord
  <2>3. phase' = "PENDING" /\ ~overflowed' => taken' = CaptureLen
    <3>1. CASE xfer_req /\ Len(fifo) < FifoDepth
      BY <1>15, <2>1, <2>2, <3>1 DEF Stream, Transfer, taken
    <3>2. CASE ~(xfer_req /\ Len(fifo) < FifoDepth)
      BY <1>15, <3>2 DEF Stream
    <3> QED BY <3>1, <3>2
  <2> QED BY <2>1, <2>3
<1>16. CASE DataReset
  BY <1>16 DEF DataReset, PowerUp, Word
<1>17. CASE StoreWord
  <2>1. rx # "idle" /\ taken' = taken /\ UNCHANGED <<pc, cmd, phase, rx, rx_eot, overflowed>>
    BY <1>17 DEF StoreWord, Transfer, taken
  <2> QED BY <2>1
<1>18. CASE EndOfTransfer
  <2>1. stored = CaptureLen /\ taken = CaptureLen /\ rx \in {"busy", "stopping"}
    BY <1>18, GateAssumption DEF EndOfTransfer, Typed, TypeOK, taken
  <2>2. /\ phase # "CAPTURE" /\ phase # "SCAN" /\ cmd # "SCAN" /\ pc # "scan"
    BY <2>1, GateAssumption DEF Transfer, Armed, Typed, TypeOK
  <2>3. rx = "busy" => \A i \in Slots : mem[i] = Word(i)
    <3>1. ~(taken < CaptureLen)
      BY <2>1, GateAssumption
    <3>2. rx = "busy" => InPlace
      BY <2>2, <3>1 DEF Transfer
    <3> QED BY <2>1, <3>2 DEF InPlace, Slots
  <2> QED BY <1>18, <2>1, <2>2, <2>3 DEF EndOfTransfer, Word
<1>19. CASE RxStopped
  BY <1>19 DEF RxStopped
<1>20. CASE Cache
  <2>1. /\ UNCHANGED <<pc, cmd, phase, window, rx, fifo, stored, rx_eot, overflowed>>
        /\ pc \in InWindow => mem' = mem
    BY <1>20 DEF Cache, Prefetch, Evict, Buffer, Typed, TypeOK
  <2> QED BY <2>1 DEF Word, taken
<1> QED
  BY <1>1, <1>2, <1>3, <1>4, <1>5, <1>6, <1>7, <1>8, <1>9, <1>10, <1>11, <1>12, <1>13, <1>14,
     <1>15, <1>16, <1>17, <1>18, <1>19, <1>20 DEF Next, Software, Link, Dma

-----------------------------------------------------------------------------

\* Steps that leave the buffer alone and do not enter a place that asks more of it.
LEMMA BufferKept ==
  ASSUME Buffer, UNCHANGED <<mem, cache, dirty, active_reg, window>>,
         \/ pc' = pc
         \/ pc # "flush" /\ pc' \notin {"invalidate", "readActive", "prepare", "flush", "txStart"}
              /\ (pc' \in Replaying => pc \in {"txStart"} \cup Replaying)
  PROVE  Buffer'
  BY DEF Buffer, Replaying, Word, Scaled

\* The window goes from the RX DMA to memory, through the cache and back, and none of
\* the copies left over on the way is ever taken for it.
LEMMA BufferStep ==
  ASSUME Typed, Handshake, Transfer, RxStage, Buffer, ActiveLength, Next
  PROVE  Buffer'
<1> USE NoneFacts DEF ipVars, gateVars, linkVars, rxVars, bufVars, swVars, At, OnlyPc, Failed,
        SendCommand, NextIteration
<1>1. CASE Probe \/ ProbeReset \/ ProbeWait \/ RxStart \/ Scan
  BY <1>1, BufferKept DEF Probe, ProbeReset, ProbeWait, RxStart, Scan, Replaying
<1>2. CASE WaitScan \/ WaitCapture
  BY <1>2, BufferKept DEF WaitScan, WaitCapture, Reached, Replaying
<1>3. CASE RxArm
  BY <1>3 DEF RxArm, Buffer, Replaying
<1>4. CASE WaitEot
  <2>1. CASE rx_eot
    <3>1. /\ pc = "waitEot" /\ pc' = "invalidate"
          /\ UNCHANGED <<mem, cache, dirty, active_reg, window>>
      BY <1>4, <2>1 DEF WaitEot
    <3>2. \A i \in Slots : mem[i] = Word(i)
      BY <2>1, <3>1 DEF RxStage, InWindow
    <3> QED BY <3>1, <3>2 DEF Buffer, Replaying, Word
  <2>2. CASE ~rx_eot
    BY <1>4, <2>2, BufferKept DEF WaitEot, Replaying
  <2> QED BY <2>1, <2>2
<1>5. CASE Invalidate
  BY <1>5 DEF Invalidate, Buffer, Replaying, Word
<1>6. CASE ReadActive
  BY <1>6 DEF ReadActive, Buffer, Replaying, Word
<1>7. CASE Prepare
  <2>1. /\ pc = "prepare" /\ pc' = "flush" /\ dirty' = dirty \cup 1 .. active_reg
        /\ cache' = [i \in Slots |-> IF i <= active_reg THEN [View(i) EXCEPT !.scaled = TRUE]
                                                          ELSE cache[i]]
        /\ UNCHANGED <<mem, active_reg, window>>
    BY <1>7 DEF Prepare
  <2>2. dirty = {} /\ active_reg \in 1 .. CaptureLen
    BY <2>1 DEF Buffer, ActiveLength
  <2>3. ASSUME NEW i \in 1 .. active_reg
        PROVE  cache'[i] = Scaled(i)
    <3>1. i \in Slots /\ i <= active_reg
      BY <2>2, GateAssumption DEF Slots
    <3>2. View(i) = Word(i)
      BY <2>1, <3>1 DEF Buffer, View
    <3>3. cache'[i] = [Word(i) EXCEPT !.scaled = TRUE]
      BY <2>1, <3>1, <3>2
    <3> QED BY <3>3 DEF Word, Scaled
  <2> QED BY <2>1, <2>2, <2>3 DEF Buffer, Scaled, Replaying
<1>8. CASE Flush
  <2>1. /\ pc = "flush" /\ pc' = "txStart" /\ dirty' = dirty \ 1 .. active_reg
        /\ mem' = [i \in Slots |-> IF i <= active_reg /\ i \in dirty THEN cache[i] ELSE mem[i]]
        /\ UNCHANGED <<active_reg, window>>
    BY <1>8 DEF Flush
  <2>2. active_reg \in 1 .. CaptureLen
    BY <2>1 DEF ActiveLength
  <2>3. \A i \in 1 .. active_reg : mem'[i] = Scaled(i)
    BY <2>1, <2>2, GateAssumption DEF Buffer, Slots
  <2> QED BY <2>1, <2>3 DEF Buffer, Scaled, Replaying
<1>9. CASE TxStart \/ Begin
  BY <1>9, BufferKept DEF TxStart, Begin, Replaying
<1>10. CASE WaitReplay \/ Play \/ End \/ WaitPending
  BY <1>10, BufferKept DEF WaitReplay, Play, End, WaitPending, Reached, Replaying
<1>11. CASE AbortReset \/ AbortStop \/ AbortClear \/ AbortWait
  BY <1>11, BufferKept DEF AbortReset, AbortStop, AbortClear, AbortWait, Replaying
<1>12. CASE CommandArrives \/ TakeStatus \/ StatusArrives \/ Stream \/ DataReset
  BY <1>12, BufferKept DEF CommandArrives, TakeStatus, StatusArrives, Stream, DataReset
<1>13. CASE EndOfTransfer \/ RxStopped \/ TxStopped
  BY <1>13, BufferKept DEF EndOfTransfer, RxStopped, TxStopped
<1>14. CASE Detect
  <2>1. phase = "SCAN" /\ pc' = pc /\ UNCHANGED <<mem, cache, dirty, active_reg>>
    BY <1>14 DEF Detect, Trigger
  <2>2. pc \notin Captured \cup {"waitReplay", "play"}
    BY <2>1, <1>14 DEF Transfer, Armed, RxStage, Captured, Handshake, CaptureSeen, Quiet
  <2> QED BY <2>1, <2>2 DEF Buffer, Captured, Replaying
<1>15. CASE StoreWord
  <2>1. rx # "idle" /\ UNCHANGED <<pc, cache, dirty, active_reg, window>>
    BY <1>15 DEF StoreWord, Transfer
  <2>2. pc \notin (Captured \ {"waitEot"}) \cup {"waitReplay", "play"}
    BY <2>1 DEF RxStage
  <2> QED BY <2>1, <2>2 DEF Buffer, Captured, Replaying
<1>16. CASE Cache
  <2>1. UNCHANGED <<pc, active_reg, window>>
    BY <1>16 DEF Cache, Prefetch, Evict
  <2>2. ASSUME NEW i \in Slots, Prefetch(i)
        PROVE  Buffer'
    <3>1. /\ cache[i] = None /\ cache' = [cache EXCEPT ![i] = mem[i]]
          /\ UNCHANGED <<mem, dirty>> /\ i \notin dirty
      BY <2>2 DEF Prefetch, Typed, TypeOK
    <3>2. \A j \in Slots : cache'[j] = IF j = i THEN mem[i] ELSE cache[j]
      BY <3>1 DEF Typed, TypeOK
    <3>3. dirty \subseteq Slots
      BY DEF Typed, TypeOK
    <3> QED BY <2>1, <3>1, <3>2, <3>3 DEF Buffer, Replaying, Word, Scaled
  <2>3. ASSUME NEW i \in Slots, Evict(i)
        PROVE  Buffer'
    <3>1. /\ cache' = [cache EXCEPT ![i] = None] /\ dirty' = dirty \ {i}
          /\ mem' = [mem EXCEPT ![i] = IF i \in dirty THEN cache[i] ELSE mem[i]]
      BY <2>3 DEF Evict
    <3>2. \A j \in Slots : /\ cache'[j] = IF j = i THEN None ELSE cache[j]
                           /\ mem'[j] = IF j = i /\ i \in dirty THEN cache[i] ELSE mem[j]
      BY <3>1 DEF Typed, TypeOK
    <3>3. dirty \subseteq Slots /\ 1 .. active_reg \subseteq Slots
      BY GateAssumption DEF Typed, TypeOK, Slots
    <3> QED BY <2>1, <3>1, <3>2, <3>3 DEF Buffer, Replaying, Word, Scaled
  <2> QED BY <1>16, <2>2, <2>3 DEF Cache
<1> QED
  BY <1>1, <1>2, <1>3, <1>4, <1>5, <1>6, <1>7, <1>8, <1>9, <1>10, <1>11, <1>12, <1>13, <1>14,
     <1>15, <1>16 DEF Next, Software, Link, Dma

-----------------------------------------------------------------------------

\* The active length of the replay is that of the window.
LEMMA ActiveLengthStep ==
  ASSUME Typed, Handshake, Transfer, ActiveLength, Next
  PROVE  ActiveLength'
<1> USE NoneFacts, GateAssumption
    DEF ipVars, gateVars, linkVars, rxVars, bufVars, swVars, At, OnlyPc, Failed,
        SendCommand, NextIteration, ActiveLength, Replaying
<1>1. CASE Probe \/ ProbeReset \/ ProbeWait \/ RxArm \/ RxStart \/ Scan \/ WaitScan \/ WaitCapture
  BY <1>1 DEF Probe, ProbeReset, ProbeWait, RxArm, RxStart, Scan, WaitScan, WaitCapture, Reached
<1>2. CASE WaitEot \/ Invalidate \/ Prepare \/ Flush \/ TxStart \/ Begin
  BY <1>2 DEF WaitEot, Invalidate, Prepare, Flush, TxStart, Begin
<1>3. CASE ReadActive
  BY <1>3 DEF ReadActive, Handshake, CaptureSeen, Captured, Quiet, Typed, TypeOK, Snapshot
<1>4. CASE WaitReplay \/ Play \/ End \/ WaitPending
  BY <1>4 DEF WaitReplay, Play, End, WaitPending, Reached
<1>5. CASE AbortReset \/ AbortStop \/ AbortClear \/ AbortWait
  BY <1>5 DEF AbortReset, AbortStop, AbortClear, AbortWait
<1>6. CASE CommandArrives
  BY <1>6 DEF CommandArrives, Abort, Arm, BeginReplay, EndReplay
<1>7. CASE TakeStatus \/ StatusArrives
  BY <1>7 DEF TakeStatus, StatusArrives
<1>8. CASE Detect
  BY <1>8 DEF Detect, Trigger, Handshake, CaptureSeen, Captured, Quiet, ReplayTurn, Turned
<1>9. CASE Stream
  <2>1. pc \notin {"prepare", "flush", "txStart"} \cup Replaying
    BY <1>9 DEF Stream, Forward, Handshake, CaptureSeen, Captured, Quiet, ReplayTurn, Turned
  <2> QED BY <1>9, <2>1 DEF Stream, Forward, Typed, TypeOK
<1>10. CASE DataReset
  BY <1>10 DEF DataReset, PowerUp, Typed
<1>11. CASE StoreWord \/ EndOfTransfer \/ RxStopped \/ TxStopped \/ Cache
  BY <1>11 DEF StoreWord, EndOfTransfer, RxStopped, TxStopped, Cache, Prefetch, Evict
<1> QED
  BY <1>1, <1>2, <1>3, <1>4, <1>5, <1>6, <1>7, <1>8, <1>9, <1>10, <1>11
     DEF Next, Software, Link, Dma

\* An iteration starts at most one window.
LEMMA CountingStep ==
  ASSUME Typed, Handshake, Transfer, Counting, Next
  PROVE  Counting'
<1> USE NoneFacts, LoopAssumption
    DEF ipVars, gateVars, linkVars, rxVars, bufVars, swVars, At, OnlyPc, Failed,
        SendCommand, NextIteration, Counting, Armed, BeforeScan, Typed, TypeOK
<1>1. CASE Probe \/ ProbeReset \/ ProbeWait \/ RxArm \/ RxStart \/ Scan \/ WaitScan \/ WaitCapture
  BY <1>1 DEF Probe, ProbeReset, ProbeWait, RxArm, RxStart, Scan, WaitScan, WaitCapture, Reached
<1>2. CASE \/ WaitEot \/ Invalidate \/ ReadActive \/ Prepare \/ Flush \/ TxStart \/ Begin
  BY <1>2 DEF WaitEot, Invalidate, ReadActive, Prepare, Flush, TxStart, Begin
<1>3. CASE WaitReplay \/ Play \/ End
  BY <1>3 DEF WaitReplay, Play, End, Reached
<1>4. CASE AbortReset \/ AbortStop \/ AbortClear
  BY <1>4 DEF AbortReset, AbortStop, AbortClear
<1>5. CASE WaitPending
  BY <1>5 DEF WaitPending
<1>6. CASE AbortWait
  BY <1>6 DEF AbortWait
<1>7. CASE CommandArrives
  BY <1>7 DEF CommandArrives, Abort, Arm, BeginReplay, EndReplay, IPCommands
<1>8. CASE TakeStatus \/ StatusArrives
  BY <1>8 DEF TakeStatus, StatusArrives
<1>9. CASE Detect
  <2>1. phase = "SCAN" /\ phase' = "CAPTURE" /\ window' = window + 1 /\ UNCHANGED <<pc, cmd, iter>>
    BY <1>9 DEF Detect, Trigger
  <2>2. pc \notin BeforeScan \cup {"done"} /\ cmd # "SCAN"
    BY <2>1 DEF Transfer, Handshake, AtRest
  <2> QED BY <2>1, <2>2
<1>10. CASE Stream \/ DataReset
  BY <1>10 DEF Stream, Forward, DataReset, PowerUp
<1>11. CASE StoreWord \/ EndOfTransfer \/ RxStopped \/ TxStopped \/ Cache
  BY <1>11 DEF StoreWord, EndOfTransfer, RxStopped, TxStopped, Cache, Prefetch, Evict
<1> QED
  BY <1>1, <1>2, <1>3, <1>4, <1>5, <1>6, <1>7, <1>8, <1>9, <1>10, <1>11
     DEF Next, Software, Link, Dma

\* The places where the loop counts an error are reached only after a word was dropped
\* or the data domain was reset.
LEMMA AlarmStep ==
  ASSUME Typed, Handshake, OnAir, Transfer, RxStage, ActiveLength, NoFalseAlarm, Next
  PROVE  NoFalseAlarm'
<1> USE NoneFacts, GateAssumption
    DEF ipVars, gateVars, linkVars, rxVars, bufVars, swVars, At, OnlyPc, SendCommand,
        NextIteration, NoFalseAlarm, Typed
<1>1. CASE UNCHANGED <<errors, resets>> /\ (overflowed => overflowed')
  BY <1>1
<1>2. CASE RxStart
  BY <1>2 DEF RxStart, RxStage
<1>3. CASE WaitScan
  BY <1>3 DEF WaitScan, Reached, GivesUp, Settled, Failed, Handshake, ScanSent, StatusCurrent,
     Current, InOrder, IPCommands
<1>4. CASE WaitCapture
  BY <1>4 DEF WaitCapture, Reached, Failed, Handshake, ScanSeen, StatusCurrent, Current
<1>5. CASE WaitEot
  <2>1. CASE ~rx_eot /\ fifo = <<>> /\ stored < CaptureLen /\ Failed /\ pc = "waitEot"
    <3>1. taken # CaptureLen /\ rx = "busy"
      BY <2>1 DEF RxStage, InWindow, TypeOK, taken
    <3>2. overflowed \/ resets > 0
      BY <2>1, <3>1 DEF RxStage, InWindow, Handshake, CaptureSeen, Captured, Quiet
    <3> QED BY <2>1, <3>2 DEF Failed
  <2>2. CASE UNCHANGED <<errors, resets, overflowed>>
    BY <2>2
  <2> QED BY <1>5, <2>1, <2>2 DEF WaitEot
<1>6. CASE ReadActive
  BY <1>6 DEF ReadActive, Handshake, CaptureSeen, Captured, Quiet, ActiveLength, TypeOK
<1>7. CASE TxStart
  BY <1>7 DEF TxStart, OnAir, Receiving
<1>8. CASE WaitReplay
  BY <1>8 DEF WaitReplay, Reached, GivesUp, Settled, Handshake, ReplayTurn, Turned, Seen
<1>9. CASE WaitPending
  BY <1>9 DEF WaitPending, GivesUp, Settled, Failed, Handshake, ReplayTurn, Turned, Seen
<1>10. CASE DataReset
  BY <1>10 DEF DataReset
<1>11. CASE \/ Probe \/ ProbeReset \/ ProbeWait \/ RxArm \/ Scan \/ Invalidate \/ Prepare \/ Flush
            \/ Begin \/ Play \/ End \/ AbortReset \/ AbortStop \/ AbortClear \/ AbortWait
  BY <1>1, <1>11 DEF Probe, ProbeReset, ProbeWait, RxArm, Scan, Invalidate, Prepare, Flush,
     Begin, Play, End, AbortReset, AbortStop, AbortClear, AbortWait
<1>12. CASE Link \/ Detect \/ Stream \/ Dma \/ Cache
  BY <1>1, <1>12 DEF Link, CommandArrives, TakeStatus, StatusArrives, Detect, Stream,
     Dma, StoreWord, EndOfTransfer, RxStopped, TxStopped, Cache, Prefetch, Evict
<1> QED
  BY <1>2, <1>3, <1>4, <1>5, <1>6, <1>7, <1>8, <1>9, <1>10, <1>11, <1>12 DEF Next, Software

-----------------------------------------------------------------------------

\* What the software, and what everything else, leaves alone.
LEMMA SoftwareFrame ==
  ASSUME Software
  PROVE  /\ UNCHANGED <<phase, count, active, window, resets, flight, status, lag, fifo, stored,
                        overflowed>>
         /\ cmd' \in IPCommands \cup {cmd}
         /\ rx' \in {rx, "off", "busy", "stopping"} /\ tx' \in {tx, "on", "stopping"}
         /\ rx_eot' \in {rx_eot, FALSE}
         /\ errors' \in {errors, errors + 1}
         /\ \/ RxArm \/ Invalidate \/ Prepare \/ Flush
            \/ UNCHANGED <<mem, cache, dirty>>
         /\ ReadActive \/ active_reg' = active_reg
         /\ \/ WaitPending \/ AbortWait
            \/ iter' = iter
<1> USE DEF ipVars, gateVars, linkVars, rxVars, bufVars, swVars, At, OnlyPc, Failed,
        SendCommand, NextIteration, IPCommands
<1>1. CASE Probe \/ ProbeReset \/ ProbeWait \/ RxArm \/ RxStart \/ Scan \/ WaitScan \/ WaitCapture
  BY <1>1 DEF Probe, ProbeReset, ProbeWait, RxArm, RxStart, Scan, WaitScan, WaitCapture, Reached
<1>2. CASE WaitEot \/ Invalidate \/ ReadActive \/ Prepare \/ Flush \/ TxStart \/ Begin
  BY <1>2 DEF WaitEot, Invalidate, ReadActive, Prepare, Flush, TxStart, Begin
<1>3. CASE WaitReplay \/ Play \/ End \/ WaitPending
  BY <1>3 DEF WaitReplay, Play, End, WaitPending, Reached
<1>4. CASE AbortReset \/ AbortStop \/ AbortClear \/ AbortWait
  BY <1>4 DEF AbortReset, AbortStop, AbortClear, AbortWait
<1> QED BY <1>1, <1>2, <1>3, <1>4 DEF Software

Hardware == Link \/ Detect \/ Stream \/ DataReset \/ Dma \/ Cache

LEMMA HardwareFrame ==
  ASSUME Hardware
  PROVE  /\ UNCHANGED <<pc, iter, active_reg, errors>>
         /\ CommandArrives \/ Detect \/ Stream \/ DataReset \/ UNCHANGED <<phase, count, active>>
         /\ DataReset \/ UNCHANGED resets
         /\ Detect \/ UNCHANGED window
         /\ Link \/ DataReset \/ UNCHANGED <<cmd, flight, status, lag>>
         /\ Dma \/ UNCHANGED <<rx, tx, rx_eot>>
         /\ overflowed' \in {overflowed, TRUE}
         /\ Stream \/ Dma \/ UNCHANGED <<fifo, stored>>
         /\ StoreWord \/ Cache \/ UNCHANGED <<mem, cache, dirty>>
<1> USE DEF ipVars, gateVars, linkVars, rxVars, bufVars, swVars
<1>1. CASE Link
  BY <1>1 DEF Link, CommandArrives, TakeStatus, StatusArrives
<1>2. CASE Detect \/ Stream \/ DataReset
  BY <1>2 DEF Detect, Stream, DataReset
<1>3. CASE Dma
  BY <1>3 DEF Dma, StoreWord, EndOfTransfer, RxStopped, TxStopped
<1>4. CASE Cache
  BY <1>4 DEF Cache, Prefetch, Evict
<1> QED BY <1>1, <1>2, <1>3, <1>4 DEF Hardware

LEMMA TypedStep ==
  ASSUME Typed, Handshake, Transfer, RxStage, ActiveLength, Counting, Counting', Next
  PROVE  Typed'
<1> USE NoneFacts, GateAssumption, LoopAssumption
<1>0. Software \/ Hardware
  BY DEF Next, Hardware
<1>1. /\ phase' \in Phases /\ count' \in 0 .. CaptureLen /\ active' \in 0 .. CaptureLen
      /\ resets' \in Nat
  <2> USE DEF Typed, TypeOK, Phases, ipVars, gateVars
  <2>1. CASE CommandArrives
    BY <2>1 DEF CommandArrives, Abort, Arm, BeginReplay, EndReplay
  <2>2. CASE Detect
    BY <2>2 DEF Detect, Trigger
  <2>3. CASE Stream
    BY <2>3 DEF Stream, Forward, ActiveLength
  <2>4. CASE DataReset
    BY <2>4 DEF DataReset, PowerUp
  <2> QED BY <1>0, <2>1, <2>2, <2>3, <2>4, SoftwareFrame, HardwareFrame
<1>2. /\ cmd' \in IPCommands \cup {None} /\ lag' \in 0 .. 2
      /\ flight' \in Snapshot \cup {None} /\ status' \in Snapshot
  <2> USE DEF Typed, TypeOK
  <2>1. CASE CommandArrives
    BY <2>1 DEF CommandArrives
  <2>2. CASE TakeStatus
    BY <2>2 DEF TakeStatus, Snapshot
  <2>3. CASE StatusArrives
    BY <2>3 DEF StatusArrives
  <2>4. CASE DataReset
    BY <2>4 DEF DataReset
  <2> QED BY <1>0, <2>1, <2>2, <2>3, <2>4, SoftwareFrame, HardwareFrame DEF Link
<1>3. /\ rx' \in {"off", "idle", "busy", "stopping"} /\ tx' \in {"off", "on", "stopping"}
      /\ rx_eot' \in BOOLEAN /\ overflowed' \in BOOLEAN
  <2> USE DEF Typed, TypeOK
  <2>1. CASE Dma
    BY <2>1 DEF Dma, StoreWord, EndOfTransfer, RxStopped, TxStopped, rxVars
  <2> QED BY <1>0, <2>1, SoftwareFrame, HardwareFrame
<1>4. /\ fifo' \in Seq(RxWord) /\ Len(fifo') <= FifoDepth /\ stored' \in 0 .. CaptureLen
      /\ taken' <= CaptureLen
  <2>1. CASE UNCHANGED <<fifo, stored>>
    BY <2>1 DEF Typed, TypeOK, taken
  <2>2. CASE Stream
    <3> DEFINE w == [win |-> window, idx |-> count']
    <3>1. w \in RxWord /\ UNCHANGED stored
      BY <2>2 DEF Stream, Forward, Typed, TypeOK, RxWord
    <3>2. CASE fifo' = Append(fifo, w) /\ taken < CaptureLen /\ Len(fifo) < FifoDepth
      BY <3>1, <3>2, FifoFacts DEF taken, Typed, TypeOK
    <3> QED BY <2>1, <2>2, <3>1, <3>2 DEF Stream, xfer_req
  <2>3. CASE StoreWord
    BY <2>3, FifoFacts DEF StoreWord, taken, Typed, TypeOK
  <2>4. CASE EndOfTransfer
    BY <2>4, FifoFacts DEF EndOfTransfer, taken, Typed, TypeOK
  <2>5. CASE RxStopped
    BY <2>5 DEF RxStopped, taken, Typed, TypeOK
  <2>6. CASE TxStopped
    BY <2>1, <2>6 DEF TxStopped, rxVars
  <2> QED BY <1>0, <2>1, <2>2, <2>3, <2>4, <2>5, <2>6, SoftwareFrame, HardwareFrame DEF Dma
<1>5. /\ mem' \in [Slots -> Content] /\ cache' \in [Slots -> Content \cup {None}]
      /\ dirty' \subseteq {i \in Slots : cache'[i] # None}
  <2>1. CASE UNCHANGED <<mem, cache, dirty>>
    BY <2>1 DEF Typed, TypeOK
  <2>2. CASE RxArm \/ Invalidate
    BY <2>2 DEF RxArm, Invalidate, Typed, TypeOK
  <2>3. CASE Prepare
    <3>1. ASSUME NEW i \in Slots
          PROVE  [View(i) EXCEPT !.scaled = TRUE] \in Content
      <4>1. View(i) \in Content
        BY DEF View, Typed, TypeOK
      <4> QED BY <4>1 DEF Content
    <3>2. /\ cache' = [i \in Slots |-> IF i <= active_reg THEN [View(i) EXCEPT !.scaled = TRUE]
                                                          ELSE cache[i]]
          /\ dirty' = dirty \cup 1 .. active_reg /\ mem' = mem
      BY <2>3 DEF Prepare
    <3>3. 1 .. active_reg \subseteq Slots
      BY DEF Typed, Slots
    <3>4. \A i \in 1 .. active_reg : cache'[i] # None
      BY <3>1, <3>2, <3>3
    <3> HIDE DEF Content, View
    <3> QED BY <3>1, <3>2, <3>3, <3>4 DEF Typed, TypeOK
  <2>4. CASE Flush
    BY <2>4 DEF Flush, Typed, TypeOK
  <2>5. CASE StoreWord
    BY <2>5, FifoFacts DEF StoreWord, Typed, TypeOK, RxWord, Content
  <2>6. CASE Cache
    BY <2>6 DEF Cache, Prefetch, Evict, Typed, TypeOK
  <2> QED BY <1>0, <2>1, <2>2, <2>3, <2>4, <2>5, <2>6, SoftwareFrame, HardwareFrame
<1>6. active_reg' \in 0 .. CaptureLen /\ errors' \in Nat /\ iter' \in 1 .. NumCaptures + 1
  <2> USE DEF Typed, TypeOK
  <2>1. ReadActive => active_reg' \in 0 .. CaptureLen
    BY DEF ReadActive, Snapshot
  <2>2. WaitPending \/ AbortWait => iter' \in 1 .. NumCaptures + 1
    BY DEF WaitPending, AbortWait, NextIteration, Failed, OnlyPc, At, Counting
  <2>3. CASE Software
    <3>1. errors' \in Nat
      BY <2>3, SoftwareFrame
    <3>2. active_reg' \in 0 .. CaptureLen
      BY <2>1, <2>3, SoftwareFrame
    <3>3. iter' \in 1 .. NumCaptures + 1
      BY <2>2, <2>3, SoftwareFrame
    <3> QED BY <3>1, <3>2, <3>3
  <2>4. CASE Hardware
    BY <2>4, HardwareFrame
  <2> QED BY <1>0, <2>3, <2>4
<1>7. window' \in 0 .. NumCaptures
  <2>1. window' \in {window, window + 1}
    BY <1>0, SoftwareFrame, HardwareFrame DEF Detect
  <2>2. window' \in Nat
    BY <2>1 DEF Typed, TypeOK
  <2> QED BY <1>6, <2>2 DEF Counting
<1> QED BY <1>1, <1>2, <1>3, <1>4, <1>5, <1>6, <1>7 DEF Typed, TypeOK

-----------------------------------------------------------------------------

LEMMA InitLoopInv == Init => LoopInv
<1> SUFFICES ASSUME Init PROVE LoopInv
  OBVIOUS
<1> USE GateAssumption, LoopAssumption, NoneFacts DEF Init, GateInit
<1>1. phase \in {"IDLE", "PENDING"} /\ count \in 0 .. CaptureLen /\ active \in 0 .. CaptureLen
  BY DEF Slots
<1>2. Typed
  <2>1. mem \in [Slots -> Content] /\ cache \in [Slots -> Content \cup {None}]
    BY DEF Blank, Content
  <2>2. fifo \in Seq(RxWord) /\ Len(fifo) = 0
    OBVIOUS
  <2>3. status \in Snapshot
    BY <1>1 DEF Snapshot, Phases
  <2>4. TypeOK
    BY <1>1, <2>1, <2>2, <2>3 DEF TypeOK, Phases
  <2>5. taken = 0
    BY <2>2 DEF taken
  <2>6. taken <= CaptureLen
    BY <2>5
  <2>7. active_reg \in 0 .. CaptureLen /\ errors \in Nat /\ resets \in Nat
    OBVIOUS
  <2>8. rx_eot \in BOOLEAN /\ overflowed \in BOOLEAN
    BY Zenon
  <2> HIDE DEF Init
  <2> QED BY <2>2, <2>4, <2>6, <2>7, <2>8 DEF Typed
<1>3. Handshake
  BY <1>1 DEF Handshake, AtRest, ScanSent, ScanSeen, CaptureSeen, ReplayTurn, Aborting, Seen,
     BeforeScan, Captured
<1>4. OnAir /\ Transfer /\ RxStage
  BY <1>1 DEF OnAir, Replaying, Receiving, Transfer, Armed, RxStage, InWindow, Captured, IPCommands
<1>5. Buffer /\ ActiveLength /\ Counting /\ NoFalseAlarm
  BY <1>1 DEF Buffer, Replaying, ActiveLength, Counting, Armed, NoFalseAlarm, IPCommands, Slots
<1> QED BY <1>2, <1>3, <1>4, <1>5 DEF LoopInv

LEMMA LoopInvStep == LoopInv /\ [Next]_vars => LoopInv'
<1> SUFFICES ASSUME LoopInv, [Next]_vars PROVE LoopInv'
  OBVIOUS
<1> USE DEF LoopInv
<1>1. CASE Next
  <2>1. Counting'
    BY <1>1, CountingStep
  <2>2. Typed'
    BY <1>1, <2>1, TypedStep
  <2>3. Handshake' /\ OnAir'
    BY <1>1, HandshakeStep, OnAirStep
  <2>4. Transfer' /\ RxStage' /\ Buffer'
    BY <1>1, TransferStep, RxStageStep, BufferStep
  <2>5. ActiveLength' /\ NoFalseAlarm'
    BY <1>1, ActiveLengthStep, AlarmStep
  <2> QED BY <2>1, <2>2, <2>3, <2>4, <2>5
<1>2. CASE UNCHANGED vars
  <2> USE <1>2 DEF vars, ipVars, gateVars, linkVars, rxVars, bufVars, swVars
  <2>1. Typed' /\ NoFalseAlarm' /\ Counting' /\ ActiveLength'
    BY DEF Typed, TypeOK, taken, NoFalseAlarm, Counting, Armed, ActiveLength
  <2>2. Handshake'
    BY DEF Handshake, AtRest, ScanSent, ScanSeen, CaptureSeen, ReplayTurn, Aborting, Seen,
       InOrder, Current, StatusCurrent, Quiet, Turned
  <2>3. OnAir' /\ Transfer' /\ RxStage' /\ Buffer'
    BY DEF OnAir, Transfer, Armed, InPlace, RxStage, Buffer, Word, Scaled, taken
  <2> QED BY <2>1, <2>2, <2>3
<1> QED BY <1>1, <1>2

LEMMA LoopInvHolds == Spec => []LoopInv
  BY InitLoopInv, LoopInvStep, PTL DEF Spec

-----------------------------------------------------------------------------

\* The variables stay in their types: in particular no iteration starts a second window,
\* and the processor's dirty lines are lines it holds.
THEOREM TypeHolds == Spec => []TypeOK
  BY LoopInvHolds, PTL DEF LoopInv, Typed

\* What is replayed is the capture of this iteration, every active word of it, scaled
\* once and in memory (replay_prepare, the flush and the RX DMA before it).
THEOREM ReplaysCaptureHolds == Spec => []ReplaysCapture
<1>1. LoopInv => ReplaysCapture
  BY DEF LoopInv, OnAir, Buffer, Scaled, ReplaysCapture
<1> QED BY <1>1, LoopInvHolds, PTL

\* The length of the replay is the active length of the window that is replayed.
THEOREM ReplaysActivePartHolds == Spec => []ReplaysActivePart
<1>1. LoopInv => ReplaysActivePart
  BY DEF LoopInv, OnAir, ActiveLength, Replaying, ReplaysActivePart
<1> QED BY <1>1, LoopInvHolds, PTL

\* The detector is off while the board transmits.
THEOREM NeverHearsItselfHolds == Spec => []NeverHearsItself
<1>1. LoopInv => NeverHearsItself
  BY DEF LoopInv, OnAir, NeverHearsItself
<1> QED BY <1>1, LoopInvHolds, PTL

\* However an iteration ended, the next one submits its transfer to a DMA at rest and
\* its SCAN to an IP that accepts it.
THEOREM CleanArmHolds == Spec => []CleanArm
<1>1. LoopInv => CleanArm
  BY DEF LoopInv, Handshake, AtRest, BeforeScan, Transfer, RxStage, OnAir, Receiving, CleanArm
<1> QED BY <1>1, LoopInvHolds, PTL

\* A trigger finds the transfer untouched, so the DMA takes the window from its first
\* word on.
THEOREM WholeTransferHolds == Spec => []WholeTransfer
<1>1. LoopInv => WholeTransfer
  BY DEF LoopInv, Transfer, WholeTransfer
<1> QED BY <1>1, LoopInvHolds, PTL

\* The loop counts an error only after a word was dropped or the data domain was reset:
\* no handshake times out, no old state is taken for a new one.
THEOREM NoFalseAlarmHolds == Spec => []NoFalseAlarm
  BY LoopInvHolds, PTL DEF LoopInv

-----------------------------------------------------------------------------
(* The machine as a whole: a refinement of RecordAndReplay *)

\* A TX DMA that has been told to stop still plays the same words.
Fading ==
  tx = "stopping" =>
    /\ pc \in {"end", "reset"} /\ rx = "idle"
    /\ active_reg \in 1 .. CaptureLen /\ \A i \in 1 .. active_reg : mem[i] = Scaled(i)

\* While something is on the air neither the words nor their number change: the RX DMA
\* is empty, no line is dirty, and the software does not come near the buffer.
LEMMA AirStands ==
  ASSUME LoopInv, Fading, Next, tx # "off"
  PROVE  /\ UNCHANGED <<window, active_reg, mem, rx>>
         /\ tx' = "stopping" => pc' \in {"end", "reset"}
<1> USE DEF ipVars, gateVars, linkVars, rxVars, bufVars, swVars, At, OnlyPc, Failed, Settled,
            Reached, GivesUp, SendCommand, NextIteration
<1>1. /\ \/ tx = "on" /\ pc \in {"begin", "waitReplay", "play"}
         \/ tx = "stopping" /\ pc \in {"end", "reset"}
      /\ rx = "idle" /\ fifo = <<>> /\ dirty = {} /\ mem \in [Slots -> Content]
      /\ phase \notin {"SCAN", "CAPTURE"} /\ tx \in {"on", "stopping"}
  BY DEF LoopInv, Typed, TypeOK, OnAir, Fading, RxStage, Transfer, Buffer, Replaying, Captured
<1>2. CASE Software
  <2>1. Begin \/ WaitReplay \/ Play
    BY <1>1, <1>2
    DEF Software, Probe, ProbeReset, ProbeWait, RxArm, RxStart, Scan, WaitScan, WaitCapture,
        WaitEot, Invalidate, ReadActive, Prepare, Flush, TxStart, End, WaitPending,
        AbortReset, AbortStop, AbortClear, AbortWait
  <2> QED BY <1>1, <2>1 DEF Begin, WaitReplay, Play
<1>3. CASE Link \/ DataReset
  BY <1>1, <1>3 DEF Link, CommandArrives, TakeStatus, StatusArrives, DataReset
<1>4. CASE Detect \/ Stream
  BY <1>1, <1>4 DEF Detect, Trigger, Stream, Forward
<1>5. CASE Dma
  BY <1>1, <1>5 DEF Dma, StoreWord, EndOfTransfer, RxStopped, TxStopped
<1>6. ASSUME NEW i \in Slots, Prefetch(i) \/ Evict(i)
      PROVE  UNCHANGED <<window, active_reg, mem, rx, tx, pc>>
  BY <1>1, <1>6 DEF Prefetch, Evict
<1> QED BY <1>1, <1>2, <1>3, <1>4, <1>5, <1>6 DEF Next, Cache

\* The words on the air are those of the last take, from its first on.
LEMMA OnTheAir ==
  ASSUME LoopInv, Fading, tx # "off"
  PROVE  active_reg \in 1 .. CaptureLen /\ \A i \in 1 .. active_reg : mem[i] = Scaled(i)
  BY DEF LoopInv, Typed, TypeOK, OnAir, Buffer, ActiveLength, Fading, Replaying

LEMMA FadingStep ==
  ASSUME LoopInv, Fading, [Next]_vars, LoopInv'
  PROVE  Fading'
<1>1. CASE Next /\ tx # "off"
  <2>1. rx = "idle"
    BY <1>1 DEF LoopInv, Typed, TypeOK, OnAir, Fading, RxStage, Replaying, Captured
  <2> QED BY <1>1, <2>1, AirStands, OnTheAir DEF Fading, Scaled
<1>2. CASE Next /\ tx = "off"
  <2>1. tx' # "stopping"
    BY <1>2 DEF Next, Software, Probe, ProbeReset, ProbeWait, RxArm, RxStart, Scan, WaitScan, WaitCapture,
        WaitEot, Invalidate, ReadActive, Prepare, Flush, TxStart, Begin, WaitReplay, Play, End,
        WaitPending, AbortReset, AbortStop, AbortClear, AbortWait, Link, CommandArrives, TakeStatus,
        StatusArrives, DataReset, Detect, Stream, Dma, StoreWord, EndOfTransfer, RxStopped,
        TxStopped, Cache, Prefetch, Evict, At, OnlyPc, Failed, Reached, SendCommand, NextIteration,
        LoopInv, OnAir, Replaying
  <2> QED BY <2>1 DEF Fading
<1>3. CASE UNCHANGED vars
  BY <1>3 DEF Fading, Scaled, vars, ipVars, rxVars, bufVars, swVars
<1> QED BY <1>1, <1>2, <1>3

\* Who scans has no take yet.
LEMMA ScanIsNoTake == LoopInv /\ phase = "SCAN" => ~Taken
<1> SUFFICES ASSUME LoopInv, phase = "SCAN" PROVE ~Taken
  OBVIOUS
<1>1. rx = "busy" /\ fifo = <<>> /\ stored = 0
  BY DEF LoopInv, Transfer, Armed
<1>2. taken = 0
  BY <1>1 DEF taken
<1>3. pc \notin Captured
  BY DEF LoopInv, Handshake, CaptureSeen, Quiet
<1> QED BY <1>1, <1>2, <1>3 DEF Taken, Captured

LEMMA ScanIsNoTakeNext == LoopInv' /\ (phase = "SCAN")' => (~Taken)'
  BY ScanIsNoTake, PTL

\* A take begins with a trigger, and with nothing else.
LEMMA TakesBeginByTrigger ==
  ASSUME LoopInv, LoopInv', Next, tx = "off", tx' = "off", ~Detect
  PROVE  /\ Taken' => Taken
         /\ phase' = "SCAN" /\ phase # "SCAN" => ~Taken
         /\ window' = window
<1>0. phase' = "SCAN" => ~Taken'
  BY ScanIsNoTakeNext
<1> USE DEF ipVars, gateVars, linkVars, rxVars, bufVars, swVars, At, OnlyPc, Failed,
            Reached, GivesUp, SendCommand, NextIteration, Taken
<1>1. CASE Probe \/ ProbeReset \/ ProbeWait \/ RxArm \/ RxStart \/ Scan \/ WaitScan
  BY <1>1 DEF Probe, ProbeReset, ProbeWait, RxArm, RxStart, Scan, WaitScan, taken
<1>2. CASE WaitCapture
  BY <1>2 DEF WaitCapture, taken
<1>3. CASE WaitEot
  <2>1. pc = "waitEot" /\ cmd = None /\ (rx_eot => rx = "idle")
    BY <1>3 DEF WaitEot, LoopInv, Handshake, CaptureSeen, Captured, RxStage, InWindow
  <2>2. cmd # "SCAN"
    BY <2>1, NoneFacts DEF IPCommands
  <2> QED BY <1>3, <2>1, <2>2 DEF WaitEot, taken
<1>4. CASE \/ Invalidate \/ ReadActive \/ Prepare \/ Flush \/ TxStart \/ Begin \/ WaitReplay
           \/ Play \/ End
  BY <1>4 DEF Invalidate, ReadActive, Prepare, Flush, TxStart, Begin, WaitReplay, Play, End
<1>5. CASE WaitPending \/ AbortReset \/ AbortStop \/ AbortClear \/ AbortWait
  BY <1>5 DEF WaitPending, AbortReset, AbortStop, AbortClear, AbortWait
<1>6. CASE CommandArrives
  <2>1. pc \notin {"waitCapture"} \cup Captured /\ (pc = "waitScan" => cmd = "SCAN")
    BY <1>6 DEF CommandArrives, LoopInv, Handshake, ScanSent, ScanSeen, CaptureSeen
  <2>2. cmd = "SCAN" => phase \in {"IDLE", "PENDING"}
    BY DEF LoopInv, Transfer
  <2> QED
    BY <1>6, <1>0, <2>1, <2>2
    DEF CommandArrives, Abort, Arm, BeginReplay, EndReplay, Captured
<1>7. CASE TakeStatus \/ StatusArrives \/ DataReset
  BY <1>7 DEF TakeStatus, StatusArrives, DataReset, PowerUp, taken
<1>8. CASE Stream
  BY <1>8 DEF Stream, Forward
<1>9. CASE StoreWord
  <2>1. taken' = taken
    BY <1>9 DEF StoreWord, taken, LoopInv, Typed, TypeOK
  <2> QED BY <1>9, <2>1 DEF StoreWord
<1>10. CASE EndOfTransfer
  <2>1. taken > 0
    BY <1>10, GateAssumption DEF EndOfTransfer, taken, LoopInv, Typed
  <2> QED BY <1>10, <2>1 DEF EndOfTransfer
<1>11. CASE RxStopped
  <2>1. taken' = 0
    BY <1>11 DEF RxStopped, taken
  <2> QED BY <1>11, <2>1 DEF RxStopped
<1>12. CASE TxStopped
  BY <1>12 DEF TxStopped
<1>13. CASE Cache
  BY <1>13 DEF Cache, Prefetch, Evict, taken
<1> QED
  BY <1>1, <1>2, <1>3, <1>4, <1>5, <1>6, <1>7, <1>8, <1>9, <1>10, <1>11, <1>12, <1>13
  DEF Next, Software, Link, Dma

-----------------------------------------------------------------------------

\* From a replay to silence, or on with it.
LEMMA OnAirStepIsMachine ==
  ASSUME LoopInv, Fading, Next, tx # "off"
  PROVE  Machine!Next \/ UNCHANGED <<Stage, window, Air>>
<1>1. Stage = "playing" /\ UNCHANGED <<window, active_reg, mem>>
  BY AirStands DEF Stage
<1>2. CASE tx' # "off"
  <2>1. Stage' = "playing"
    BY <1>2 DEF Stage
  <2>2. Air' = Air
    BY <1>1, <1>2 DEF Air
  <2> QED BY <1>1, <2>1, <2>2
<1>3. CASE tx' = "off"
  <2>1. pc \in {"end", "reset", "waitReplay", "play", "begin"} /\ phase \notin {"SCAN", "CAPTURE"}
    BY DEF LoopInv, Typed, TypeOK, OnAir, Fading, Replaying
  <2>2. tx' # tx => TxStopped
    BY <2>1, <1>3 DEF Next, Software, Probe, ProbeReset, ProbeWait, RxArm, RxStart, Scan, WaitScan, WaitCapture,
        WaitEot, Invalidate, ReadActive, Prepare, Flush, TxStart, Begin, WaitReplay, Play, End,
        WaitPending, AbortReset, AbortStop, AbortClear, AbortWait, Link, CommandArrives, TakeStatus,
        StatusArrives, DataReset, Detect, Stream, Dma, StoreWord, EndOfTransfer, RxStopped,
        Cache, Prefetch, Evict, At, OnlyPc, Failed, Reached, SendCommand, NextIteration
  <2>3. UNCHANGED <<pc, phase>>
    BY <1>3, <2>2 DEF TxStopped, ipVars, gateVars, swVars
  <2>4. Stage' = "rest"
    BY <1>3, <2>1, <2>3 DEF Stage, Taken
  <2>5. Air' = Machine!Silence
    BY <1>3 DEF Air, Machine!Silence
  <2> QED BY <1>1, <2>4, <2>5 DEF Machine!Next, Machine!Rest
<1> QED BY <1>2, <1>3

\* TX DMA on: what goes on the air is the take of this iteration.
LEMMA TxStartIsReplay ==
  ASSUME LoopInv, Next, tx = "off", tx' # "off"
  PROVE  Machine!Replay
<1>1. TxStart
  BY DEF Next, Software, Probe, ProbeReset, ProbeWait, RxArm, RxStart, Scan, WaitScan, WaitCapture,
      WaitEot, Invalidate, ReadActive, Prepare, Flush, Begin, WaitReplay, Play, End,
      WaitPending, AbortReset, AbortStop, AbortClear, AbortWait, Link, CommandArrives, TakeStatus,
      StatusArrives, DataReset, Detect, Stream, Dma, StoreWord, EndOfTransfer, RxStopped, TxStopped,
      Cache, Prefetch, Evict, At, OnlyPc, Failed, Reached, SendCommand, NextIteration,
      LoopInv, OnAir, Replaying
<1>2. pc = "txStart" /\ UNCHANGED <<window, mem, active_reg>>
  BY <1>1 DEF TxStart, At, OnlyPc, Failed, ipVars, bufVars
<1>3. active_reg \in 1 .. CaptureLen /\ \A i \in 1 .. active_reg : mem[i] = Scaled(i)
  BY <1>2 DEF LoopInv, Buffer, ActiveLength
<1>4. Stage = "recording" /\ Stage' = "playing"
  BY <1>2 DEF Stage, Taken
<1>5. Air' = Machine!Part(window, active_reg)
  <2>1. Air' = [i \in 1 .. active_reg |-> mem[i]]
    BY <1>2 DEF Air
  <2> QED BY <1>3, <2>1 DEF Machine!Part, Scaled
<1> QED BY <1>2, <1>3, <1>4, <1>5 DEF Machine!Replay

\* While nothing is on the air the machine listens, records or gives up.
LEMMA SilentStepIsMachine ==
  ASSUME LoopInv, LoopInv', Next, tx = "off", tx' = "off"
  PROVE  Machine!Next \/ UNCHANGED <<Stage, window, Air>>
<1>1. Air = Machine!Silence /\ Air' = Machine!Silence
  BY DEF Air, Machine!Silence
<1>2. CASE Detect
  <2>1. phase = "SCAN" /\ phase' = "CAPTURE" /\ window' = window + 1
    BY <1>2 DEF Detect, Trigger
  <2>2. Stage = "listening" /\ Stage' = "recording"
    BY <2>1, ScanIsNoTake DEF Stage, Taken
  <2>3. window < NumCaptures
    BY <2>1, LoopAssumption DEF LoopInv, Typed, TypeOK
  <2> QED BY <1>1, <2>1, <2>2, <2>3 DEF Machine!Next, Machine!Record
<1>3. CASE ~Detect
  <2>1. /\ Taken' => Taken
        /\ phase' = "SCAN" /\ phase # "SCAN" => ~Taken
        /\ window' = window
    BY <1>3, TakesBeginByTrigger
  <2>2. phase = "SCAN" => ~Taken
    BY ScanIsNoTake
  <2>3. \/ Stage' = Stage
        \/ Stage' = "rest"
        \/ Stage = "rest" /\ Stage' = "listening"
    BY <2>1, <2>2 DEF Stage
  <2> QED BY <1>1, <2>1, <2>3 DEF Machine!Next, Machine!Listen, Machine!Rest
<1> QED BY <1>2, <1>3

\* capture_loop, the IP, both DMAs and the cache together implement the machine that
\* listens while it is silent and plays each take at most once, as it was recorded.
THEOREM ImplementsMachineHolds == Spec => ImplementsMachine
<1>1. Init => Machine!Init /\ Fading
  BY DEF Init, GateInit, Machine!Init, Machine!Silence, Stage, Taken, Air, Fading
<1>2. LoopInv /\ Fading /\ [Next]_vars /\ LoopInv' => Fading'
  BY FadingStep
<1>3. LoopInv /\ LoopInv' /\ Fading /\ [Next]_vars => [Machine!Next]_(Machine!machineVars)
  <2> SUFFICES ASSUME LoopInv, LoopInv', Fading, [Next]_vars
               PROVE  Machine!Next \/ UNCHANGED <<Stage, window, Air>>
    BY DEF Machine!machineVars
  <2>1. CASE Next
    BY <2>1, OnAirStepIsMachine, TxStartIsReplay, SilentStepIsMachine DEF Machine!Next
  <2>2. CASE UNCHANGED vars
    BY <2>2 DEF Stage, Taken, taken, Air, vars, ipVars, gateVars, linkVars, rxVars, bufVars, swVars
  <2> QED BY <2>1, <2>2
<1> QED
  BY <1>1, <1>2, <1>3, LoopInvHolds, PTL DEF Spec, ImplementsMachine, Machine!MachineSpec

-----------------------------------------------------------------------------
(* The contracts of the components *)

\* In the loop the IP does what CaptureGate allows and nothing else: every theorem
\* about the contract, and what module CaptureCore shows of it, speaks of this IP.
THEOREM IPKeepsContract == Spec => [][GateNext]_gateVars
<1>1. [Next]_vars => [GateNext]_gateVars
  <2> SUFFICES ASSUME [Next]_vars
               PROVE  GateNext \/ UNCHANGED gateVars
    OBVIOUS
  <2> USE DEF GateNext
  <2>1. CASE CommandArrives
    BY <2>1 DEF CommandArrives
  <2>2. CASE Detect \/ Stream \/ DataReset
    BY <2>2 DEF Detect, Stream, DataReset
  <2>3. CASE UNCHANGED ipVars
    BY <2>3 DEF ipVars
  <2>4. Software \/ Dma \/ Cache \/ TakeStatus \/ StatusArrives => UNCHANGED ipVars
    BY DEF Software, Probe, ProbeReset, ProbeWait, RxArm, RxStart, Scan, WaitScan, WaitCapture,
        WaitEot, Invalidate, ReadActive, Prepare, Flush, TxStart, Begin, WaitReplay, Play, End,
        WaitPending, AbortReset, AbortStop, AbortClear, AbortWait, TakeStatus, StatusArrives,
        Dma, StoreWord, EndOfTransfer, RxStopped, TxStopped, Cache, Prefetch, Evict,
        At, OnlyPc, Failed, Reached, SendCommand, NextIteration
  <2> QED BY <2>1, <2>2, <2>3, <2>4 DEF Next, Link, vars
<1> QED BY <1>1, PTL DEF Spec

\* What a step does to the IP and to its status on the way, as the mailbox has it.
LEMMA StatusStep ==
  ASSUME TypeOK', [Next]_vars
  PROVE  StatusPath!Next \/ UNCHANGED <<phase, active, flight, status>>
<1>1. [st |-> phase', act |-> active'] \in Snapshot
  BY DEF TypeOK, Snapshot
<1> USE DEF StatusPath!Next
<1>2. CASE CommandArrives \/ Detect \/ Stream
  <2>1. UNCHANGED <<flight, status>>
    BY <1>2 DEF CommandArrives, Detect, Stream, linkVars
  <2> QED BY <1>1, <2>1 DEF StatusPath!Set
<1>3. CASE DataReset
  BY <1>1, <1>3 DEF DataReset, StatusPath!Set, StatusPath!Lose
<1>4. CASE TakeStatus
  BY <1>4 DEF TakeStatus, ipVars, gateVars, StatusPath!Take
<1>5. CASE StatusArrives
  BY <1>5 DEF StatusArrives, ipVars, gateVars, StatusPath!Deliver
<1>6. Software \/ Dma \/ Cache => UNCHANGED <<phase, active, flight, status>>
  BY DEF Software, Probe, ProbeReset, ProbeWait, RxArm, RxStart, Scan, WaitScan, WaitCapture,
      WaitEot, Invalidate, ReadActive, Prepare, Flush, TxStart, Begin, WaitReplay, Play, End,
      WaitPending, AbortReset, AbortStop, AbortClear, AbortWait,
      Dma, StoreWord, EndOfTransfer, RxStopped, TxStopped, Cache, Prefetch, Evict,
      At, OnlyPc, Failed, Reached, SendCommand, NextIteration, ipVars, gateVars, linkVars
<1>7. CASE UNCHANGED vars
  BY <1>7 DEF vars, ipVars, gateVars, linkVars
<1> QED BY <1>2, <1>3, <1>4, <1>5, <1>6, <1>7 DEF Next, Link

\* The status registers follow the IP as a clock-domain crossing of gate_cdc has them
\* follow: whole snapshots, in order, none invented; one may be lost when the data
\* domain is reset, and at no other time.
THEOREM StatusIsMailbox == Spec => StatusPath!MailSpec
<1>1. Init => StatusPath!Init
  BY GateAssumption DEF Init, GateInit, StatusPath!Init, Snapshot, Phases, Slots
<1>2. TypeOK' /\ [Next]_vars => [StatusPath!Next]_(StatusPath!mailVars)
  BY StatusStep DEF StatusPath!mailVars
<1> QED BY <1>1, <1>2, TypeHolds, PTL DEF Spec, StatusPath!MailSpec

\* The places of capture_loop.
Places ==
  BeforeScan \cup {"waitScan", "waitCapture"} \cup Captured
    \cup {"waitReplay", "play", "end", "waitPending", "reset", "rxStop", "rxClear", "waitIdle", "done"}

LEMMA PlacesHold == Spec => [](pc \in Places)
<1>1. Init => pc \in Places
  BY DEF Init, Places, BeforeScan
<1>2. pc \in Places /\ [Next]_vars => (pc \in Places)'
  <2> SUFFICES ASSUME pc \in Places, Next PROVE pc' \in Places
    BY DEF vars, swVars
  <2>1. Link \/ Detect \/ Stream \/ DataReset \/ Dma \/ Cache => pc' = pc
    BY DEF Link, CommandArrives, TakeStatus, StatusArrives, DataReset, Detect, Stream, Dma,
        StoreWord, EndOfTransfer, RxStopped, TxStopped, Cache, Prefetch, Evict, swVars
  <2>2. Software => pc' \in Places
    BY DEF Software, Probe, ProbeReset, ProbeWait, RxArm, RxStart, Scan, WaitScan, WaitCapture,
        WaitEot, Invalidate, ReadActive, Prepare, Flush, TxStart, Begin, WaitReplay, Play, End,
        WaitPending, AbortReset, AbortStop, AbortClear, AbortWait, At, Reached, SendCommand,
        NextIteration, Places, BeforeScan, Captured
  <2> QED BY <2>1, <2>2 DEF Next
<1> QED BY <1>1, <1>2, PTL DEF Spec

\* rfc_cmd looks at a status that may be late, and the write takes its time: still
\* every command finds the IP in a state that takes it, unless the data domain was reset.
THEOREM EveryCommandTaken == Spec => []CommandsTaken
<1>1. LoopInv /\ pc \in Places => CommandsTaken
  <2> SUFFICES ASSUME LoopInv, pc \in Places, cmd # None, resets = 0
               PROVE  phase \in Takes(cmd)
    BY DEF CommandsTaken
  <2>1. cmd \in IPCommands /\ phase \in Phases
    BY DEF LoopInv, Typed, TypeOK
  <2>2. CASE cmd = "RESET"
    BY <2>1, <2>2 DEF Takes
  <2>3. CASE cmd = "SCAN"
    BY <2>3 DEF Takes, LoopInv, Transfer
  <2>4. CASE cmd \in {"REPLAY_BEGIN", "REPLAY_END"}
    <3>1. \/ pc = "waitReplay" /\ cmd = "REPLAY_BEGIN" /\ Quiet("PENDING")
          \/ pc = "waitPending" /\ cmd = "REPLAY_END" /\ Quiet("REPLAY")
      BY <2>4, NoneFacts
      DEF LoopInv, Handshake, AtRest, ScanSent, ScanSeen, CaptureSeen, ReplayTurn, Aborting, Places
    <3> QED BY <3>1 DEF Quiet, Takes
  <2> QED BY <2>1, <2>2, <2>3, <2>4 DEF IPCommands
<1> QED BY <1>1, LoopInvHolds, PlacesHold, PTL
=============================================================================
