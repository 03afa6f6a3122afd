---------------------------- MODULE CaptureCore ----------------------------
(***************************************************************************)
(* The data-clock half of the zavadi_rf_capture IP: the power detector,    *)
(* the record counter, the capture state machine and the write gate        *)
(* between the ADC FIFO and the RX DMA.  All of it runs on one clock, so   *)
(* one action is one clock edge and every register is written in it.  An   *)
(* edge with s_fifo_wr_en low is NoSample, one with it high is Sample, one *)
(* in reset is Reset.                                                      *)
(*                                                                         *)
(* The pulses of gate_cdc, the threshold, the DMA's xfer_req and the       *)
(* samples are inputs: any of their values may come on any edge.           *)
(***************************************************************************)
EXTENDS Naturals, Sequences

CONSTANTS
  HIT_LEN,          \* samples above threshold that make a hit
  CAPTURE_SAMPLES,  \* 64-bit words (two samples each) in a window
  HANG_SAMPLES,     \* quiet words that end the active phase
  Power,            \* I^2 + Q^2 of a sample
  Thresholds,       \* values of the threshold register
  Pulses            \* sets of commands whose pulses may come on one edge

ASSUME HitLenAssumption == HIT_LEN \in Nat \ {0}
ASSUME CaptureAssumption == CAPTURE_SAMPLES \in Nat \ {0}
ASSUME HangAssumption == HANG_SAMPLES \in Nat \ {0}
ASSUME PowerAssumption == Power \subseteq Nat /\ 0 \in Power /\ Thresholds \subseteq Nat

VARIABLES
  state,            \* capture_fsm.current_state
  sq,               \* power_detector, first pipeline stage (the squares)
  pwr,              \* power_detector, second stage (pwr0 and pwr1)
  hit_counter,
  capture_counter,
  active_samples,
  hang_counter,
  hang_exceeded,
  win,              \* history: the words handed to the DMA in this window, "hit" or "quiet"
  seen              \* history: the last samples compared, newest first

detectorVars == <<sq, pwr, hit_counter, seen>>
recordVars == <<capture_counter, active_samples, hang_counter, hang_exceeded, win>>
vars == <<state, detectorVars, recordVars>>

States == {"IDLE", "SCAN", "CAPTURE", "PENDING", "REPLAY"}
Commands == {"SCAN", "RESET", "REPLAY_BEGIN", "REPLAY_END"}

ASSUME PulsesAssumption == Pulses \subseteq SUBSET Commands

\* A word holds two samples, s1 the later one.  `own' marks (for the properties
\* only) a word sampled while the board replays its own capture.
Words == [s0 : Power, s1 : Power, own : BOOLEAN]
ZeroWord == [s0 |-> 0, s1 |-> 0, own |-> FALSE]

WordMarks == {"hit", "quiet"}
Classes == {"quiet", "air", "own"}
Unseen == [i \in 1 .. HIT_LEN + 1 |-> "quiet"]

-----------------------------------------------------------------------------
(* capture_fsm *)

\* Mutant: the detector is not switched off while the board plays its capture.
DetectorOnInReplay == state \in {"SCAN", "CAPTURE", "REPLAY"}

detector_en == state \in {"SCAN", "CAPTURE"}
capture_en == state = "CAPTURE"

\* `trigger' stands for hit && data_en && dma_ready.
NextState(cmd, trigger, capture_done) ==
  IF "RESET" \in cmd THEN "IDLE"
  ELSE CASE state = "IDLE" /\ "SCAN" \in cmd             -> "SCAN"
         [] state = "SCAN" /\ trigger                    -> "CAPTURE"
         [] state = "CAPTURE" /\ capture_done            -> "PENDING"
         [] state = "PENDING" /\ "REPLAY_BEGIN" \in cmd  -> "REPLAY"
         [] state = "PENDING" /\ "REPLAY_BEGIN" \notin cmd
                              /\ "SCAN" \in cmd          -> "SCAN"
         [] state = "REPLAY" /\ "REPLAY_END" \in cmd     -> "PENDING"
         [] OTHER                                        -> state

-----------------------------------------------------------------------------
(* power_detector *)

hit == hit_counter >= HIT_LEN

\* Mutant: a quiet first sample does not break the run.
HitCounterUnbroken(thresh) ==
  IF pwr.s0 >= thresh /\ pwr.s1 >= thresh
    THEN IF hit_counter < HIT_LEN THEN hit_counter + 2 ELSE HIT_LEN
    ELSE IF pwr.s1 >= thresh /\ hit_counter < HIT_LEN THEN hit_counter + 1 ELSE 0

\* Samples are compared two words late, with the threshold of this edge.
NextHitCounter(thresh) ==
  IF pwr.s0 >= thresh /\ pwr.s1 >= thresh
    THEN IF hit_counter < HIT_LEN THEN hit_counter + 2 ELSE HIT_LEN
    ELSE IF pwr.s1 >= thresh THEN 1 ELSE 0

Class(p, own, thresh) ==
  IF p < thresh THEN "quiet" ELSE IF own THEN "own" ELSE "air"

Compared(thresh) ==
  [i \in 1 .. HIT_LEN + 1 |->
     IF i = 1 THEN Class(pwr.s1, pwr.own, thresh)
     ELSE IF i = 2 THEN Class(pwr.s0, pwr.own, thresh)
     ELSE seen[i - 2]]

Detect(word, thresh) ==
  /\ sq' = word
  /\ pwr' = sq
  /\ hit_counter' = IF detector_en THEN NextHitCounter(thresh) ELSE 0
  /\ seen' = IF detector_en THEN Compared(thresh) ELSE Unseen

DetectNothing ==
  /\ hit_counter' = IF detector_en THEN hit_counter ELSE 0
  /\ seen' = IF detector_en THEN seen ELSE Unseen
  /\ UNCHANGED <<sq, pwr>>

-----------------------------------------------------------------------------
(* record_counter *)

\* Mutants: the window is ended a word early or a word late.
LastWordEarly == capture_counter = CAPTURE_SAMPLES - 2
LastWordLate == capture_counter = CAPTURE_SAMPLES

LastWord == capture_counter = CAPTURE_SAMPLES - 1

\* Mutant: the gap counted in the last window is carried into the next.
StartWindowKeepsGap ==
  /\ capture_counter' = 0
  /\ active_samples' = 0
  /\ hang_counter' = hang_counter
  /\ hang_exceeded' = FALSE
  /\ win' = <<>>

\* start: a new window begins with the next forwarded word.
StartWindow ==
  /\ capture_counter' = 0
  /\ active_samples' = 0
  /\ hang_counter' = 0
  /\ hang_exceeded' = FALSE
  /\ win' = <<>>

\* Mutant: a hit does not restart the hang.
RecordActiveNoRestart ==
  IF hang_exceeded
    THEN UNCHANGED <<active_samples, hang_counter, hang_exceeded>>
    ELSE /\ active_samples' = capture_counter + 1
         /\ hang_counter' = IF ~hit /\ hang_counter < HANG_SAMPLES - 1
                              THEN hang_counter + 1 ELSE hang_counter
         /\ hang_exceeded' = (~hit /\ hang_counter >= HANG_SAMPLES - 1)

RecordActive ==
  IF hang_exceeded
    THEN UNCHANGED <<active_samples, hang_counter, hang_exceeded>>
    ELSE /\ active_samples' = capture_counter + 1
         /\ hang_counter' = IF hit THEN 0
                            ELSE IF hang_counter < HANG_SAMPLES - 1 THEN hang_counter + 1
                            ELSE hang_counter
         /\ hang_exceeded' = (~hit /\ hang_counter >= HANG_SAMPLES - 1)

RecordWord ==
  /\ capture_counter' = IF capture_counter <= CAPTURE_SAMPLES - 1
                          THEN capture_counter + 1 ELSE capture_counter
  /\ RecordActive
  /\ win' = Append(win, IF hit THEN "hit" ELSE "quiet")

-----------------------------------------------------------------------------
(* The clock edges *)

Reset ==
  /\ state' = "IDLE"
  /\ sq' = ZeroWord
  /\ pwr' = ZeroWord
  /\ hit_counter' = 0
  /\ seen' = Unseen
  /\ StartWindow

NoSample(cmd) ==
  /\ state' = NextState(cmd, FALSE, FALSE)
  /\ DetectNothing
  /\ UNCHANGED recordVars

\* Mutant: `start' is a level, and restarts the window on every word of it.
SampleLevelStart(cmd, s0, s1, thresh, dma_ready) ==
  LET next == NextState(cmd, hit /\ dma_ready, capture_en /\ LastWord)
  IN  /\ Detect([s0 |-> s0, s1 |-> s1, own |-> state = "REPLAY"], thresh)
      /\ state' = next
      /\ \/ next = "CAPTURE" /\ StartWindow
         \/ capture_en /\ next # "CAPTURE" /\ RecordWord
         \/ ~capture_en /\ next # "CAPTURE" /\ UNCHANGED recordVars

Sample(cmd, s0, s1, thresh, dma_ready) ==
  LET next == NextState(cmd, hit /\ dma_ready, capture_en /\ LastWord)
      start == state = "SCAN" /\ next = "CAPTURE"
  IN  /\ Detect([s0 |-> s0, s1 |-> s1, own |-> state = "REPLAY"], thresh)
      /\ state' = next
      /\ \/ start /\ StartWindow
         \/ capture_en /\ RecordWord
         \/ ~start /\ ~capture_en /\ UNCHANGED recordVars

Init ==
  /\ state = "IDLE"
  /\ sq = ZeroWord
  /\ pwr = ZeroWord
  /\ hit_counter = 0
  /\ seen = Unseen
  /\ capture_counter = 0
  /\ active_samples = 0
  /\ hang_counter = 0
  /\ hang_exceeded = FALSE
  /\ win = <<>>

SampleStep ==
  \E cmd \in Pulses, s0 \in Power, s1 \in Power,
     thresh \in Thresholds, dma_ready \in BOOLEAN :
       Sample(cmd, s0, s1, thresh, dma_ready)

Next ==
  \/ Reset
  \/ \E cmd \in Pulses : NoSample(cmd)
  \/ SampleStep

Spec == Init /\ [][Next]_vars

\* The ADC delivers words for as long as the radio runs: s_fifo_wr_en never stops.
FairSpec == Spec /\ WF_vars(SampleStep)

-----------------------------------------------------------------------------
(* Properties *)

\* Every register stays in the range its RTL width holds: capture_counter has
\* $clog2(CAPTURE_SAMPLES + 1) bits, hang_counter $clog2(HANG_SAMPLES), and the
\* hit counter overshoots HIT_LEN by at most one.
TypeOK ==
  /\ state \in States
  /\ sq \in Words
  /\ pwr \in Words
  /\ hit_counter \in 0 .. HIT_LEN + 1
  /\ capture_counter \in 0 .. CAPTURE_SAMPLES
  /\ active_samples \in 0 .. CAPTURE_SAMPLES
  /\ hang_counter \in 0 .. HANG_SAMPLES - 1
  /\ hang_exceeded \in BOOLEAN
  /\ win \in Seq(WordMarks)
  /\ seen \in [1 .. HIT_LEN + 1 -> Classes]

\* What the software trusts when it reads PENDING (or REPLAY): the window handed
\* to the RX DMA has exactly the CAPTURE_SAMPLES words the DMA was programmed for,
\* and the active length lies in 1..CAPTURE_SAMPLES, whatever the commands and
\* the pauses of the stream were.
FullWindow ==
  state \in {"PENDING", "REPLAY"} =>
    /\ Len(win) = CAPTURE_SAMPLES
    /\ active_samples \in 1 .. CAPTURE_SAMPLES

\* The HANG_SAMPLES words of w up to its k-th were all without a hit.
QuietUpTo(w, k) ==
  k >= HANG_SAMPLES /\ \A i \in (k - HANG_SAMPLES + 1) .. k : w[i] = "quiet"

\* record_counter against its definition on the whole window: the active phase
\* ends at the first word that closes HANG_SAMPLES words in a row without a hit,
\* or, when there is none, with the last word written.
ActivePhase ==
  /\ active_samples <= Len(win)
  /\ \A k \in 1 .. active_samples - 1 : ~QuietUpTo(win, k)
  /\ active_samples < Len(win) => QuietUpTo(win, active_samples)

\* power_detector against its definition on the samples: the hit counter, which
\* moves by two samples at a time, raises `hit' on a word boundary exactly when
\* the last HIT_LEN samples compared since the detector was enabled were all at
\* or above the threshold.
HitIsRun == hit <=> \A i \in 1 .. HIT_LEN : seen[i] # "quiet"

\* The detector does not trigger on the board's own transmission: the pipeline
\* may still hold words of the replay when a scan starts, but never a whole run.
NoSelfTrigger == hit => \E i \in 1 .. HIT_LEN : seen[i] = "air"

\* final_project/README.md:67: the capture starts as soon as the power is above
\* the threshold for HIT_LEN samples in a row.  Here: a run that ends at the first
\* sample of a word is a hit too.
EveryRunHits == (\A i \in 2 .. HIT_LEN + 1 : seen[i] # "quiet") => hit

\* The inductive invariant, in four named parts beside TypeOK.  The hit counter is
\* the length of the run of samples at or above the threshold, up to HIT_LEN.
CounterIsRun ==
  /\ \A i \in 1 .. HIT_LEN : i <= hit_counter => seen[i] # "quiet"
  /\ hit_counter < HIT_LEN => seen[hit_counter + 1] = "quiet"

\* The capture counter is the number of words handed over; it reaches
\* CAPTURE_SAMPLES only when the state machine leaves CAPTURE.
CounterIsWindow ==
  /\ Len(win) = capture_counter
  /\ active_samples <= capture_counter
  /\ capture_counter > 0 => active_samples > 0
  /\ state = "CAPTURE" => capture_counter < CAPTURE_SAMPLES
  /\ state \in {"PENDING", "REPLAY"} => capture_counter = CAPTURE_SAMPLES

\* Until the hang ends, hang_counter is the number of words since the last hit
\* (or since the start of the window).
HangIsGap ==
  /\ \A k \in 1 .. active_samples - 1 : ~QuietUpTo(win, k)
  /\ hang_exceeded => QuietUpTo(win, active_samples)
  /\ ~hang_exceeded =>
       /\ active_samples = capture_counter
       /\ hang_counter <= capture_counter
       /\ \A i \in (capture_counter - hang_counter + 1) .. capture_counter : win[i] = "quiet"
       /\ hang_counter < capture_counter => win[capture_counter - hang_counter] = "hit"

\* A word of the replay is followed by at most one more in the pipeline, so the
\* samples of the board's own signal are at most four, and the oldest, of a run.
OwnIsShort ==
  /\ sq.own => \A i \in 1 .. HIT_LEN + 1 : seen[i] = "quiet"
  /\ pwr.own => \A i \in 3 .. HIT_LEN + 1 : seen[i] = "quiet"
  /\ \A i \in 1 .. HIT_LEN + 1 : seen[i] = "own" =>
       \A k \in i + 4 .. HIT_LEN + 1 : seen[k] = "quiet"

CoreInv == TypeOK /\ CounterIsRun /\ OwnIsShort /\ CounterIsWindow /\ HangIsGap

\* A started window ends: as long as samples arrive the machine leaves CAPTURE,
\* to PENDING or by a reset.
CaptureEnds == state = "CAPTURE" ~> state # "CAPTURE"

\* The contract the RX DMA and the software rely on (module CaptureGate).
Gate == INSTANCE CaptureGate
          WITH CaptureLen <- CAPTURE_SAMPLES, HangLen <- HANG_SAMPLES,
               phase <- state, count <- Len(win), active <- active_samples

\* The detector, counters and state machine together implement the contract.
ImplementsGate == Gate!GateSpec
=============================================================================
