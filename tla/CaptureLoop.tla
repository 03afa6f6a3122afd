---------------------------- MODULE CaptureLoop ----------------------------
(***************************************************************************)
(* The whole machine: capture_loop of main.c on the processor, the capture *)
(* IP (its contract, module CaptureGate), the RX DMA that fills            *)
(* capture_buf, the data cache between them, and the TX DMA that plays the *)
(* buffer back.  A register access of the software is one step; between    *)
(* two of them the hardware may do anything it can do.                     *)
(*                                                                         *)
(* Commands and status cross between the clocks as modules CommandPath and *)
(* CdcLink say: a command some time after its write, the status as whole   *)
(* snapshots, in order and late.  What makes the software correct is in    *)
(* part that printing a line takes longer than all of that: `Settled'.     *)
(***************************************************************************)
EXTENDS CaptureGate, Sequences, FiniteSets

CONSTANTS
  NumCaptures,  \* NUM_CAPTURES; 0, the endless loop, is not an instance
  FifoDepth,    \* words the RX DMA holds that are not in memory yet
  MaxResets,    \* resets of the data clock domain
  None

ASSUME LoopAssumption ==
  /\ NumCaptures \in Nat \ {0} /\ FifoDepth \in Nat \ {0} /\ MaxResets \in Nat

VARIABLES
  pc,          \* where capture_loop is
  iter,
  active_reg,  \* the local variable `active' (words to replay)
  errors,
  cmd,         \* the command on its way to the IP, or None
  flight,      \* the status snapshot on its way to the processor, or None
  status,      \* the status registers of axi_lite_cfg
  lag,         \* snapshots still to arrive before `status' shows the last command
  rx,          \* RX DMA: "off", "idle", "busy" with a transfer, "stopping"
  fifo,        \* words it holds, each as [win, idx]
  stored,      \* words of the transfer it has put into memory
  rx_eot,      \* its IRQ_PENDING.EOT
  tx,          \* TX DMA: "off", "on" (cyclic), "stopping"
  mem,         \* capture_buf in memory
  cache,       \* the lines of capture_buf in the data cache, or None
  dirty,       \* those the processor has written
  window,      \* history: windows started so far
  resets,      \* history: resets of the data clock domain
  overflowed   \* history: the RX DMA has dropped a word

ipVars == <<gateVars, window, resets>>
linkVars == <<cmd, flight, status, lag>>
rxVars == <<rx, fifo, stored, rx_eot, overflowed>>
bufVars == <<mem, cache, dirty>>
swVars == <<pc, iter, active_reg, errors>>
vars == <<ipVars, linkVars, rxVars, tx, bufVars, swVars>>

IPCommands == {"SCAN", "RESET", "REPLAY_BEGIN", "REPLAY_END"}
Phases == {"IDLE", "SCAN", "CAPTURE", "PENDING", "REPLAY"}
Slots == 1 .. CaptureLen
Content == [win : 0 .. NumCaptures, idx : 0 .. CaptureLen, scaled : BOOLEAN]
Blank == [win |-> 0, idx |-> 0, scaled |-> FALSE]
Snapshot == [st : Phases, act : 0 .. CaptureLen]

ASSUME NoneAssumption == None \notin IPCommands \cup Snapshot \cup Content

-----------------------------------------------------------------------------
(* The capture IP *)

CommandArrives ==
  /\ cmd # None
  /\ IF cmd = "RESET" THEN Abort
     ELSE IF cmd = "SCAN" /\ phase \in {"IDLE", "PENDING"} THEN Arm
     ELSE IF cmd = "REPLAY_BEGIN" /\ phase = "PENDING" THEN BeginReplay
     ELSE IF cmd = "REPLAY_END" /\ phase = "REPLAY" THEN EndReplay
     ELSE UNCHANGED gateVars
  /\ cmd' = None
  /\ lag' = IF flight = None THEN 1 ELSE 2
  /\ UNCHANGED <<window, resets, flight, status, rxVars, tx, bufVars, swVars>>

taken == stored + Len(fifo)
xfer_req == rx = "busy" /\ taken < CaptureLen

Detect ==
  /\ Trigger
  /\ xfer_req
  /\ window' = window + 1
  /\ UNCHANGED <<resets, linkVars, rxVars, tx, bufVars, swVars>>

\* A word of the window goes to the RX DMA, which drops it when it has no room.
Stream ==
  /\ Forward
  /\ phase' # "IDLE"
  /\ IF xfer_req /\ Len(fifo) < FifoDepth
       THEN /\ fifo' = Append(fifo, [win |-> window, idx |-> count'])
            /\ UNCHANGED overflowed
       ELSE overflowed' = TRUE /\ UNCHANGED fifo
  /\ UNCHANGED <<window, resets, linkVars, rx, stored, rx_eot, tx, bufVars, swVars>>

\* The data clock domain is reset: the status on its way may be lost.
DataReset ==
  /\ resets < MaxResets
  /\ PowerUp
  /\ resets' = resets + 1
  /\ flight' \in {flight, None}
  /\ lag' = 2
  /\ UNCHANGED <<window, cmd, status, rxVars, tx, bufVars, swVars>>

\* Mutant: state and active length cross separately.
TakeStatusTorn ==
  /\ flight = None
  /\ \E a \in {active, status.act} : flight' = [st |-> phase, act |-> a]
  /\ UNCHANGED <<ipVars, cmd, status, lag, rxVars, tx, bufVars, swVars>>

TakeStatus ==
  /\ flight = None
  /\ flight' = [st |-> phase, act |-> active]
  /\ UNCHANGED <<ipVars, cmd, status, lag, rxVars, tx, bufVars, swVars>>

StatusArrives ==
  /\ flight # None
  /\ status' = flight
  /\ flight' = None
  /\ lag' = IF lag = 0 THEN 0 ELSE lag - 1
  /\ UNCHANGED <<ipVars, cmd, rxVars, tx, bufVars, swVars>>

-----------------------------------------------------------------------------
(* The DMAs and the cache *)

\* The transfer always starts at the first word of the buffer.
StoreWord ==
  /\ fifo # <<>> /\ stored < CaptureLen
  /\ mem' = [mem EXCEPT ![stored + 1] =
               [win |-> Head(fifo).win, idx |-> Head(fifo).idx, scaled |-> FALSE]]
  /\ fifo' = Tail(fifo)
  /\ stored' = stored + 1
  /\ UNCHANGED <<ipVars, linkVars, rx, rx_eot, overflowed, tx, cache, dirty, swVars>>

\* The last word is in memory.  A DMA that is being stopped completes what it has
\* begun, so it may still report the end of the transfer.
EndOfTransfer ==
  /\ rx \in {"busy", "stopping"} /\ stored = CaptureLen
  /\ rx_eot' = TRUE
  /\ rx' = IF rx = "busy" THEN "idle" ELSE "off"
  /\ stored' = 0
  /\ UNCHANGED <<ipVars, linkVars, fifo, overflowed, tx, bufVars, swVars>>

RxStopped ==
  /\ rx = "stopping"
  /\ rx' = "off"
  /\ fifo' = <<>>
  /\ stored' = 0
  /\ UNCHANGED <<ipVars, linkVars, rx_eot, overflowed, tx, bufVars, swVars>>

TxStopped ==
  /\ tx = "stopping"
  /\ tx' = "off"
  /\ UNCHANGED <<ipVars, linkVars, rxVars, bufVars, swVars>>

\* The processor fetches lines ahead of any access to them.
Prefetch(i) ==
  /\ cache[i] = None
  /\ cache' = [cache EXCEPT ![i] = mem[i]]
  /\ UNCHANGED <<ipVars, linkVars, rxVars, tx, mem, dirty, swVars>>

Evict(i) ==
  /\ cache[i] # None
  /\ mem' = [mem EXCEPT ![i] = IF i \in dirty THEN cache[i] ELSE mem[i]]
  /\ cache' = [cache EXCEPT ![i] = None]
  /\ dirty' = dirty \ {i}
  /\ UNCHANGED <<ipVars, linkVars, rxVars, tx, swVars>>

\* What the processor reads.
View(i) == IF cache[i] = None THEN mem[i] ELSE cache[i]

-----------------------------------------------------------------------------
(* The software.  A step that follows a line of output, or a millisecond of  *)
(* polling, finds everything settled that takes microseconds.                *)

Settled == cmd = None /\ lag = 0 /\ rx # "stopping" /\ tx # "stopping"

At(here, next) == pc = here /\ pc' = next

\* rfc_cmd: the write, then a line of output.
SendCommand(c, here, next) ==
  /\ At(here, next)
  /\ Settled
  /\ cmd' = c
  /\ UNCHANGED <<ipVars, flight, status, lag, rxVars, tx, bufVars, iter, active_reg, errors>>

OnlyPc == UNCHANGED <<ipVars, linkVars, rxVars, tx, bufVars, iter, active_reg>>
Failed == errors' = errors + 1 /\ OnlyPc

\* rfc_wait_state: polls until the state is there, or for 10 ms.
Reached(want, here, next) ==
  /\ status.st = want
  /\ At(here, next)
  /\ UNCHANGED errors
  /\ OnlyPc

GivesUp(want) == Settled /\ status.st # want

\* rfc_probe: an IP that an earlier run left in another state is reset.
Probe ==
  /\ Settled
  /\ At("probe", IF status.st = "IDLE" THEN "arm" ELSE "probeReset")
  /\ UNCHANGED errors
  /\ OnlyPc

ProbeReset == SendCommand("RESET", "probeReset", "probeWait")

ProbeWait ==
  /\ status.st = "IDLE" \/ GivesUp("IDLE")
  /\ At("probeWait", IF status.st = "IDLE" THEN "arm" ELSE "done")
  /\ UNCHANGED errors
  /\ OnlyPc

\* rx_arm: the lines of the buffer are dropped, the pending interrupts cleared ...
RxArm ==
  /\ Settled
  /\ At("arm", "rxStart")
  /\ cache' = [i \in Slots |-> None]
  /\ dirty' = {}
  /\ rx_eot' = FALSE
  /\ UNCHANGED <<ipVars, linkVars, rx, fifo, stored, overflowed, tx, mem,
                 iter, active_reg, errors>>

\* ... and the transfer submitted, which the driver refuses while one is queued.
RxStart ==
  IF rx = "busy"
    THEN At("rxStart", "reset") /\ Failed
    ELSE /\ At("rxStart", "scan")
         /\ rx' = "busy"
         /\ UNCHANGED <<ipVars, linkVars, fifo, stored, rx_eot, overflowed, tx, bufVars,
                        iter, active_reg, errors>>

Scan == SendCommand("SCAN", "scan", "waitScan")

\* Mutant: only SCAN itself is taken for a started scan.
WaitScanExactly ==
  \/ Reached("SCAN", "waitScan", "waitCapture")
  \/ GivesUp("SCAN") /\ At("waitScan", "reset") /\ Failed

\* A capture may already have started, or ended, by the first look at the state.
WaitScan ==
  \/ Reached("SCAN", "waitScan", "waitCapture")
  \/ /\ GivesUp("SCAN") /\ status.st \in {"CAPTURE", "PENDING"}
     /\ At("waitScan", "waitCapture") /\ UNCHANGED errors /\ OnlyPc
  \/ /\ GivesUp("SCAN") /\ status.st \notin {"CAPTURE", "PENDING"}
     /\ At("waitScan", "reset") /\ Failed

\* wait_for_capture: a timeout only while the state is still SCAN.
WaitCapture ==
  \/ Reached("PENDING", "waitCapture", "waitEot")
  \/ status.st = "IDLE" /\ At("waitCapture", "reset") /\ Failed
  \/ status.st = "SCAN" /\ At("waitCapture", "reset") /\ UNCHANGED errors /\ OnlyPc

\* Mutant: no timeout.
WaitEotForever ==
  /\ rx_eot /\ At("waitEot", "invalidate")
  /\ rx_eot' = FALSE
  /\ UNCHANGED <<ipVars, linkVars, rx, fifo, stored, overflowed, tx, bufVars,
                 iter, active_reg, errors>>

\* dma_wait_eot: its second is far more than the DMA needs to empty itself.
WaitEot ==
  \/ /\ rx_eot /\ At("waitEot", "invalidate")
     /\ rx_eot' = FALSE
     /\ UNCHANGED <<ipVars, linkVars, rx, fifo, stored, overflowed, tx, bufVars,
                    iter, active_reg, errors>>
  \/ /\ ~rx_eot /\ fifo = <<>> /\ stored < CaptureLen /\ phase # "CAPTURE"
     /\ At("waitEot", "reset") /\ Failed

\* Mutant: the lines fetched during the capture stay in the cache.
InvalidateNothing ==
  /\ At("invalidate", "readActive")
  /\ UNCHANGED <<ipVars, linkVars, rxVars, tx, bufVars, iter, active_reg, errors>>

Invalidate ==
  /\ At("invalidate", "readActive")
  /\ cache' = [i \in Slots |-> None]
  /\ dirty' = {}
  /\ UNCHANGED <<ipVars, linkVars, rxVars, tx, mem, iter, active_reg, errors>>

ReadActive ==
  /\ active_reg' = status.act
  /\ IF status.act = 0 \/ status.act > CaptureLen
       THEN At("readActive", "reset") /\ errors' = errors + 1
       ELSE At("readActive", "prepare") /\ UNCHANGED errors
  /\ UNCHANGED <<ipVars, linkVars, rxVars, tx, bufVars, iter>>

\* replay_prepare: the active samples are scaled in place, through the cache ...
Prepare ==
  /\ At("prepare", "flush")
  /\ cache' = [i \in Slots |->
                 IF i <= active_reg THEN [View(i) EXCEPT !.scaled = TRUE] ELSE cache[i]]
  /\ dirty' = dirty \cup 1 .. active_reg
  /\ UNCHANGED <<ipVars, linkVars, rxVars, tx, mem, iter, active_reg, errors>>

\* ... and flushed to memory, where the TX DMA reads them.
Flush ==
  /\ At("flush", "txStart")
  /\ mem' = [i \in Slots |-> IF i <= active_reg /\ i \in dirty THEN cache[i] ELSE mem[i]]
  /\ cache' = [i \in Slots |-> IF i <= active_reg THEN None ELSE cache[i]]
  /\ dirty' = dirty \ 1 .. active_reg
  /\ UNCHANGED <<ipVars, linkVars, rxVars, tx, iter, active_reg, errors>>

TxStart ==
  /\ Settled
  /\ IF tx = "on"
       THEN At("txStart", "reset") /\ Failed
       ELSE /\ At("txStart", "begin")
            /\ tx' = "on"
            /\ UNCHANGED <<ipVars, linkVars, rxVars, bufVars, iter, active_reg, errors>>

\* Mutant: the wrong bit of CMD.
BeginWrongBit == SendCommand("SCAN", "begin", "waitReplay")

Begin == SendCommand("REPLAY_BEGIN", "begin", "waitReplay")

\* Mutant: a replay that the IP does not answer is tried again.
WaitReplayAgain ==
  \/ Reached("REPLAY", "waitReplay", "play")
  \/ /\ GivesUp("REPLAY") /\ At("waitReplay", "txStart") /\ tx' = "stopping"
     /\ UNCHANGED <<ipVars, linkVars, rxVars, bufVars, iter, active_reg, errors>>

WaitReplay ==
  \/ Reached("REPLAY", "waitReplay", "play")
  \/ /\ GivesUp("REPLAY") /\ At("waitReplay", "reset") /\ errors' = errors + 1
     /\ tx' = "stopping"
     /\ UNCHANGED <<ipVars, linkVars, rxVars, bufVars, iter, active_reg>>

\* The time of the replay is over.
Play ==
  /\ At("play", "end")
  /\ tx' = "stopping"
  /\ UNCHANGED <<ipVars, linkVars, rxVars, bufVars, iter, active_reg, errors>>

End == SendCommand("REPLAY_END", "end", "waitPending")

\* Mutant: one capture too many.
NextIterationLate(here) ==
  /\ At(here, IF iter > NumCaptures THEN "done" ELSE "arm")
  /\ iter' = iter + 1
  /\ UNCHANGED <<ipVars, linkVars, rxVars, tx, bufVars, active_reg, errors>>

NextIteration(here) ==
  /\ At(here, IF iter = NumCaptures THEN "done" ELSE "arm")
  /\ iter' = iter + 1
  /\ UNCHANGED <<ipVars, linkVars, rxVars, tx, bufVars, active_reg, errors>>

WaitPending ==
  \/ status.st = "PENDING" /\ NextIteration("waitPending")
  \/ GivesUp("PENDING") /\ At("waitPending", "reset") /\ Failed

\* abort_capture: whether IDLE was reached is not looked at.
AbortReset == SendCommand("RESET", "reset", "rxStop")

\* Mutant: the RX DMA is left armed.
AbortStopNothing ==
  /\ Settled
  /\ At("rxStop", "rxClear")
  /\ UNCHANGED <<ipVars, linkVars, rxVars, tx, bufVars, iter, active_reg, errors>>

AbortStop ==
  /\ Settled
  /\ At("rxStop", "rxClear")
  /\ rx' = IF rx = "busy" THEN "stopping" ELSE "off"
  /\ UNCHANGED <<ipVars, linkVars, fifo, stored, rx_eot, overflowed, tx, bufVars,
                 iter, active_reg, errors>>

AbortClear ==
  /\ At("rxClear", "waitIdle")
  /\ rx_eot' = FALSE
  /\ UNCHANGED <<ipVars, linkVars, rx, fifo, stored, overflowed, tx, bufVars,
                 iter, active_reg, errors>>

AbortWait ==
  /\ status.st = "IDLE" \/ GivesUp("IDLE")
  /\ NextIteration("waitIdle")

-----------------------------------------------------------------------------

Software ==
  \/ Probe \/ ProbeReset \/ ProbeWait
  \/ RxArm \/ RxStart \/ Scan \/ WaitScan \/ WaitCapture
  \/ WaitEot \/ Invalidate \/ ReadActive
  \/ Prepare \/ Flush \/ TxStart \/ Begin \/ WaitReplay \/ Play \/ End \/ WaitPending
  \/ AbortReset \/ AbortStop \/ AbortClear \/ AbortWait

Link == CommandArrives \/ TakeStatus \/ StatusArrives
Dma == StoreWord \/ EndOfTransfer \/ RxStopped \/ TxStopped
Cache == \E i \in Slots : Prefetch(i) \/ Evict(i)

\* A run of the software may find the IP as an earlier run left it: in PENDING.
Init ==
  /\ \/ GateInit
     \/ phase = "PENDING" /\ count = CaptureLen /\ active \in Slots
  /\ cmd = None /\ flight = None /\ lag = 0
  /\ status = [st |-> phase, act |-> active]
  /\ rx = "off" /\ fifo = <<>> /\ stored = 0 /\ rx_eot = FALSE
  /\ tx = "off"
  /\ mem = [i \in Slots |-> Blank]
  /\ cache = [i \in Slots |-> None] /\ dirty = {}
  /\ pc = "probe" /\ iter = 1 /\ active_reg = 0 /\ errors = 0
  /\ window = 0 /\ resets = 0 /\ overflowed = FALSE

Next == Software \/ Link \/ Detect \/ Stream \/ DataReset \/ Dma \/ Cache

Spec == Init /\ [][Next]_vars

\* The processor runs, the clocks run, the ADC delivers, the DMAs move.  Nothing
\* is assumed of the signal: a trigger may never come.
Fairness ==
  /\ WF_vars(Software) /\ WF_vars(CommandArrives)
  /\ WF_vars(TakeStatus) /\ WF_vars(StatusArrives)
  /\ WF_vars(Stream) /\ WF_vars(StoreWord) /\ WF_vars(EndOfTransfer)
  /\ WF_vars(RxStopped) /\ WF_vars(TxStopped)

FairSpec == Spec /\ Fairness

-----------------------------------------------------------------------------
(* Properties *)

TypeOK ==
  /\ phase \in Phases /\ count \in 0 .. CaptureLen /\ active \in 0 .. CaptureLen
  /\ cmd \in IPCommands \cup {None}
  /\ flight \in Snapshot \cup {None} /\ status \in Snapshot /\ lag \in 0 .. 2
  /\ rx \in {"off", "idle", "busy", "stopping"} /\ tx \in {"off", "on", "stopping"}
  /\ Len(fifo) <= FifoDepth /\ stored \in 0 .. CaptureLen
  /\ mem \in [Slots -> Content] /\ cache \in [Slots -> Content \cup {None}]
  /\ dirty \subseteq {i \in Slots : cache[i] # None}
  /\ iter \in 1 .. NumCaptures + 1 /\ window \in 0 .. NumCaptures

\* What is on the air during a replay is the capture of this iteration, scaled
\* once, from its first word to the last active one, as it stands in memory and
\* not in the cache: never a part of an older window, and never a word that the
\* RX DMA, the scaling or the flush had not yet delivered.
ReplaysCapture ==
  tx = "on" =>
    \A i \in 1 .. active_reg : mem[i] = [win |-> window, idx |-> i, scaled |-> TRUE]

\* The length of the replay is the active length of the window that is replayed,
\* although STATE and ACTIVE are read apart, and late.
ReplaysActivePart ==
  tx = "on" /\ resets = 0 => active_reg = active /\ active_reg \in 1 .. CaptureLen

\* The detector is off while the board transmits.
NeverHearsItself == tx # "off" => phase \notin {"SCAN", "CAPTURE"}

\* However an iteration ended, the next one finds an IP that accepts SCAN and no
\* transfer under way, though abort_capture ignores whether its reset was seen.
CleanArm ==
  pc = "rxStart" =>
    /\ phase \in {"IDLE", "PENDING"} /\ cmd = None
    /\ rx \in {"off", "idle"} /\ fifo = <<>> /\ stored = 0 /\ ~rx_eot
    /\ tx = "off"

\* A trigger finds a transfer that is submitted and untouched: no window is cut.
WholeTransfer == phase = "CAPTURE" /\ rx = "busy" /\ ~overflowed => taken = count

\* Every error the loop counts has a cause outside the loop: as long as no word
\* was dropped and the data domain was not reset, no timeout of a handshake, no
\* stale state and no late interrupt makes it abort.
NoFalseAlarm == errors > 0 => overflowed \/ resets > 0

\* The machine as a whole.  What is on the air is what the TX DMA reads, until it has
\* stopped; a window that the DMA has not begun, or that nobody waits for any more,
\* is no take.
Air == IF tx = "off" THEN [i \in 1 .. 0 |-> 0] ELSE [i \in 1 .. active_reg |-> mem[i]]

Taken ==
  \/ phase = "CAPTURE"
  \/ pc \in {"waitScan", "waitCapture", "waitEot"} /\ cmd # "SCAN"
       /\ (phase = "PENDING" \/ taken > 0 \/ rx = "idle")
  \/ pc \in {"invalidate", "readActive", "prepare", "flush", "txStart"}

Stage ==
  CASE tx # "off" -> "playing"
    [] tx = "off" /\ Taken -> "recording"
    [] tx = "off" /\ ~Taken -> IF phase = "SCAN" THEN "listening" ELSE "rest"

Machine == INSTANCE RecordAndReplay WITH stage <- Stage, take <- window, air <- Air

\* capture_loop listens while it is silent, and plays what it has just recorded, once.
ImplementsMachine == Machine!MachineSpec

\* The status crosses as one snapshot of STATE and ACTIVE at a time: what the loop
\* relies on of the path is what module CdcLink shows of gate_cdc, and no more.
StatusPath == INSTANCE Mailbox
                WITH Payload <- Snapshot, in <- [st |-> phase, act |-> active],
                     slot <- flight, out <- status

\* The states of the IP in which a command does what it is for.
Takes(c) ==
  CASE c = "SCAN" -> {"IDLE", "PENDING"}
    [] c = "REPLAY_BEGIN" -> {"PENDING"}
    [] c = "REPLAY_END" -> {"REPLAY"}
    [] c = "RESET" -> Phases

\* No command is lost on the IP: as long as the data domain was not reset, each one
\* arrives in a state that takes it, although the software chose it by a late status.
CommandsTaken == cmd # None /\ resets = 0 => phase \in Takes(cmd)

\* Every iteration ends: the loop gets through all of its captures, whether or not
\* a signal comes, words are dropped or the data domain is reset.
LoopEnds == <>(pc = "done")
=============================================================================
