----------------------------- MODULE AxiLiteCfg -----------------------------
(***************************************************************************)
(* The register file of the capture IP behind its AXI4-Lite slave port.    *)
(* The five channels are independent: the master raises a valid when it    *)
(* likes and, as AXI asks of it, holds it with its payload until it meets  *)
(* a ready.  One action is one edge of s_axi_aclk, of slave and master.    *)
(* A channel is None while its valid is low, else it is its payload.       *)
(***************************************************************************)
EXTENDS Naturals

CONSTANTS
  Addresses,      \* decoded addresses: the registers, and any other
  Data,           \* written words, as sets of bits
  MAX_THRESHOLD,  \* reset value of the threshold
  Status,         \* values of STATE, ACTIVE_SAMPLES and PWR from gate_cdc
  None

Readable == {"STATE", "THRESHOLD", "CAPTURE_SAMPLES", "ACTIVE_SAMPLES", "PWR"}

ASSUME DataAssumption ==
  /\ None \notin Addresses
  /\ None \notin [data : Data, full : BOOLEAN]
  /\ None \notin {"OK", "DECERR"}
  /\ None \notin [data : Data \cup Status \cup {MAX_THRESHOLD}, resp : {"OK", "DECERR"}]
  /\ {} \in Data
  /\ \A s \in Data, t \in Data : (s \ t) \cup (t \ s) \in Data

VARIABLES
  aw, w, bready, ar, rready,  \* what the master drives
  wr_ready,     \* s_axi_awready and s_axi_wready, which are always equal
  b,            \* the write response: None, "OK" or "DECERR"
  ar_ready,
  r,            \* the read response: None or [data, resp]
  cmd_tgl, threshold_reg,
  unanswered,   \* history: writes the master has handed over and not seen answered
  unread,       \* history: reads likewise
  toggled,      \* history: bits toggled an odd number of times by such writes
  last          \* history: the last threshold handed over

masterVars == <<aw, w, bready, ar, rready>>
writeVars == <<wr_ready, b, cmd_tgl, threshold_reg>>
readVars == <<ar_ready, r>>
historyVars == <<unanswered, unread, toggled, last>>
vars == <<masterVars, writeVars, readVars, historyVars>>

Writes == [data : Data, full : BOOLEAN]  \* full: all four strobes are set
Xor(s, t) == (s \ t) \cup (t \ s)

-----------------------------------------------------------------------------
(* The slave *)

\* Mutants: the ready stays up, and a request is accepted over an answer.
WriteReadyStays ==
  wr_ready' = (aw # None /\ w # None /\ b = None)

WriteReadyOverAnswer ==
  wr_ready' = (aw # None /\ w # None /\ ~wr_ready)

WriteReady ==
  wr_ready' = (aw # None /\ w # None /\ ~wr_ready /\ b = None)

\* Mutant: the strobes are ignored.
WritableAnyStrobe == aw \in {"CMD", "THRESHOLD"}

\* What a write does to the registers: only a full word to CMD or THRESHOLD counts.
Writable == w.full /\ aw \in {"CMD", "THRESHOLD"}

WriteRegisters ==
  IF wr_ready
    THEN /\ b' = IF Writable THEN "OK" ELSE "DECERR"
         /\ cmd_tgl' = IF Writable /\ aw = "CMD" THEN Xor(cmd_tgl, w.data) ELSE cmd_tgl
         /\ threshold_reg' = IF Writable /\ aw = "THRESHOLD" THEN w.data ELSE threshold_reg
    ELSE /\ b' = IF bready THEN None ELSE b
         /\ UNCHANGED <<cmd_tgl, threshold_reg>>

\* Mutant: a read waits for the write address channel to be free.
ReadReadyAfterWrites == ar_ready' = (ar # None /\ ~ar_ready /\ r = None /\ aw = None)

ReadReady == ar_ready' = (ar # None /\ ~ar_ready /\ r = None)

ReadData(status) ==
  [data |-> IF ar = "THRESHOLD" THEN threshold_reg ELSE IF ar \in Readable THEN status ELSE {},
   resp |-> IF ar \in Readable THEN "OK" ELSE "DECERR"]

\* Mutant: the answer is there for one cycle.
ReadResponseOneCycle(status) ==
  r' = IF ar # None /\ ar_ready /\ r = None THEN ReadData(status) ELSE None

ReadResponse(status) ==
  IF ar # None /\ ar_ready /\ r = None THEN r' = ReadData(status)
  ELSE r' = IF rready THEN None ELSE r

-----------------------------------------------------------------------------
(* The master: any that obeys AXI *)

Hold(channel, ready, payloads, next) ==
  IF channel # None /\ ~ready THEN next = channel ELSE next \in payloads \cup {None}

Master ==
  /\ Hold(aw, wr_ready, Addresses, aw')
  /\ Hold(w, wr_ready, Writes, w')
  /\ Hold(ar, ar_ready, Addresses, ar')
  /\ bready' \in BOOLEAN
  /\ rready' \in BOOLEAN

\* What the master has handed over, by its own view of the channels.
Account ==
  LET given == aw # None /\ w # None /\ wr_ready
      read == ar # None /\ ar_ready
  IN  /\ unanswered' = (unanswered + IF given THEN 1 ELSE 0)
                         - IF b # None /\ bready THEN 1 ELSE 0
      /\ unread' = (unread + IF read THEN 1 ELSE 0) - IF r # None /\ rready THEN 1 ELSE 0
      /\ toggled' = IF given /\ w.full /\ aw = "CMD" THEN Xor(toggled, w.data) ELSE toggled
      /\ last' = IF given /\ w.full /\ aw = "THRESHOLD" THEN w.data ELSE last

-----------------------------------------------------------------------------

Edge ==
  /\ WriteReady
  /\ WriteRegisters
  /\ ReadReady
  /\ \E status \in Status : ReadResponse(status)
  /\ Master
  /\ Account

\* The reset of the bus reaches both sides.
Reset ==
  /\ aw' = None /\ w' = None /\ bready' = FALSE /\ ar' = None /\ rready' = FALSE
  /\ wr_ready' = FALSE /\ b' = None /\ ar_ready' = FALSE /\ r' = None
  /\ cmd_tgl' = {} /\ threshold_reg' = MAX_THRESHOLD
  /\ unanswered' = 0 /\ unread' = 0 /\ toggled' = {} /\ last' = MAX_THRESHOLD

Init ==
  /\ aw = None /\ w = None /\ bready = FALSE /\ ar = None /\ rready = FALSE
  /\ wr_ready = FALSE /\ b = None /\ ar_ready = FALSE /\ r = None
  /\ cmd_tgl = {} /\ threshold_reg = MAX_THRESHOLD
  /\ unanswered = 0 /\ unread = 0 /\ toggled = {} /\ last = MAX_THRESHOLD

Next == Edge \/ Reset

Spec == Init /\ [][Next]_vars

\* The clock runs, and the master takes the answers to what it asked.
FairSpec ==
  /\ Spec
  /\ WF_vars(Edge /\ bready' /\ rready')
  /\ WF_vars(Edge)

-----------------------------------------------------------------------------
(* Properties *)

TypeOK ==
  /\ aw \in Addresses \cup {None} /\ w \in Writes \cup {None}
  /\ ar \in Addresses \cup {None}
  /\ bready \in BOOLEAN /\ rready \in BOOLEAN
  /\ wr_ready \in BOOLEAN /\ ar_ready \in BOOLEAN
  /\ b \in {"OK", "DECERR", None}
  /\ threshold_reg \in Data \cup {MAX_THRESHOLD}
  /\ unanswered \in Nat /\ unread \in Nat

\* Every request that was handed over has one answer outstanding, and nothing else
\* has: no answer is lost to a request that follows it closely, none is made up.
OneAnswerEach ==
  /\ unanswered = IF b = None THEN 0 ELSE 1
  /\ unread = IF r = None THEN 0 ELSE 1

\* The registers are what the handed-over writes make of them, each counted once
\* and none refused counted, although the slave writes on its own ready and never
\* looks at the valids then.
WritesCountOnce == cmd_tgl = toggled /\ threshold_reg = last

\* The invariant behind both: a ready is up for one cycle, with the request still
\* there and no answer in its way.
ReadyIsAsked ==
  /\ wr_ready => aw # None /\ w # None /\ b = None
  /\ ar_ready => ar # None /\ r = None

AxiInv == TypeOK /\ ReadyIsAsked /\ OneAnswerEach /\ WritesCountOnce

\* An answer stays as it is until the master has taken it.
AnswersHold ==
  [][/\ b # None /\ ~bready => b' = b \/ Reset
     /\ r # None /\ ~rready => r' = r \/ Reset]_vars

\* Every write and every read that is asked for is handed over: neither channel
\* waits for ever on a response, or on the other channel.
RequestsServed ==
  /\ (aw # None /\ w # None) ~> (wr_ready \/ aw = None)
  /\ (ar # None) ~> (ar_ready \/ ar = None)
=============================================================================
