------------------------ MODULE CaptureCore_proofs ------------------------
(***************************************************************************)
(* CoreInv is inductive, and with it the safety properties of CaptureCore  *)
(* hold for every HIT_LEN, CAPTURE_SAMPLES, HANG_SAMPLES, set of powers    *)
(* and set of thresholds.                                                  *)
(***************************************************************************)
EXTENDS CaptureCore, TLAPS

\* Appending to the history of the window leaves its earlier words alone.
LEMMA AppendFacts ==
  ASSUME NEW s \in Seq(WordMarks), NEW b \in WordMarks
  PROVE  /\ Append(s, b) \in Seq(WordMarks)
         /\ Len(Append(s, b)) = Len(s) + 1
         /\ \A i \in 1 .. Len(s) : Append(s, b)[i] = s[i]
         /\ Append(s, b)[Len(s) + 1] = b
  OBVIOUS

\* The next state is a state, and tells what the step was.
LEMMA NextStateFacts ==
  ASSUME TypeOK, NEW cmd, NEW trigger \in BOOLEAN, NEW done \in BOOLEAN
  PROVE  LET next == NextState(cmd, trigger, done)
         IN  /\ next \in States
             /\ next = "CAPTURE" => \/ state = "SCAN" /\ trigger
                                    \/ state = "CAPTURE" /\ ~done
             /\ next \in {"PENDING", "REPLAY"} => \/ state \in {"PENDING", "REPLAY"}
                                                  \/ state = "CAPTURE" /\ done
  BY DEF TypeOK, States, NextState

LEMMA InitInv == Init => CoreInv
<1> SUFFICES ASSUME Init PROVE CoreInv
  OBVIOUS
<1> USE HitLenAssumption, CaptureAssumption, HangAssumption, PowerAssumption DEF Init
<1>1. TypeOK
  <2>1. /\ state \in States
        /\ hit_counter \in 0 .. HIT_LEN + 1
        /\ capture_counter \in 0 .. CAPTURE_SAMPLES
        /\ active_samples \in 0 .. CAPTURE_SAMPLES
        /\ hang_counter \in 0 .. HANG_SAMPLES - 1
    BY DEF States
  <2>5. hang_exceeded \in BOOLEAN
    OBVIOUS
  <2>2. sq \in Words /\ pwr \in Words
    BY DEF Words, ZeroWord
  <2>3. win \in Seq(WordMarks)
    OBVIOUS
  <2>4. seen \in [1 .. HIT_LEN + 1 -> Classes]
    BY DEF Unseen, Classes
  <2> QED BY <2>1, <2>2, <2>3, <2>4, <2>5 DEF TypeOK
<1>2. CounterIsRun
  BY DEF CounterIsRun, Unseen
<1>4. OwnIsShort
  BY DEF OwnIsShort, Unseen
<1>3. CounterIsWindow /\ HangIsGap
  BY DEF CounterIsWindow, HangIsGap, QuietUpTo
<1> QED BY <1>1, <1>2, <1>3, <1>4 DEF CoreInv

\* The detector's part of the invariant, which the window's part does not touch.
LEMMA DetectStep ==
  ASSUME TypeOK, CounterIsRun, NEW word \in Words, NEW thresh \in Thresholds,
         Detect(word, thresh)
  PROVE  /\ sq' \in Words /\ pwr' \in Words
         /\ hit_counter' \in 0 .. HIT_LEN + 1
         /\ seen' \in [1 .. HIT_LEN + 1 -> Classes]
         /\ CounterIsRun'
<1> USE HitLenAssumption, PowerAssumption
<1>1. sq' \in Words /\ pwr' \in Words
  BY DEF TypeOK, Detect
<1>2. /\ pwr.s0 \in Nat /\ pwr.s1 \in Nat /\ thresh \in Nat
  BY DEF TypeOK, Words
<1>3. CASE ~detector_en
  BY <1>1, <1>3 DEF Detect, Unseen, Classes, CounterIsRun
<1>4. CASE detector_en
  <2>1. /\ hit_counter' = NextHitCounter(thresh)
        /\ seen' = Compared(thresh)
    BY <1>4 DEF Detect
  <2>2. hit_counter' \in 0 .. HIT_LEN + 1
    BY <2>1, <1>2 DEF NextHitCounter, TypeOK
  <2>3. seen' \in [1 .. HIT_LEN + 1 -> Classes]
    BY <2>1 DEF Compared, Class, Classes, TypeOK
  <2>4. /\ seen'[1] = Class(pwr.s1, pwr.own, thresh)
        /\ seen'[2] = Class(pwr.s0, pwr.own, thresh)
        /\ \A i \in 3 .. HIT_LEN + 1 : seen'[i] = seen[i - 2]
    BY <2>1 DEF Compared
  <2>5. /\ seen'[1] = "quiet" <=> ~(pwr.s1 >= thresh)
        /\ seen'[2] = "quiet" <=> ~(pwr.s0 >= thresh)
    BY <2>4, <1>2 DEF Class
  <2>6. CounterIsRun'
    <3>1. CASE pwr.s0 >= thresh /\ pwr.s1 >= thresh
      <4>1. hit_counter' = IF hit_counter < HIT_LEN THEN hit_counter + 2 ELSE HIT_LEN
        BY <2>1, <3>1 DEF NextHitCounter
      <4>2. ASSUME NEW i \in 1 .. HIT_LEN, i <= hit_counter' PROVE seen'[i] # "quiet"
        BY <4>1, <4>2, <2>4, <2>5, <3>1 DEF TypeOK, CounterIsRun
      <4>3. hit_counter' < HIT_LEN => seen'[hit_counter' + 1] = "quiet"
        BY <4>1, <2>4 DEF TypeOK, CounterIsRun
      <4> QED BY <4>2, <4>3 DEF CounterIsRun
    <3>2. CASE ~(pwr.s0 >= thresh) /\ pwr.s1 >= thresh
      <4>1. hit_counter' = 1
        BY <2>1, <3>2 DEF NextHitCounter
      <4> QED BY <4>1, <2>5, <3>2 DEF CounterIsRun
    <3>3. CASE ~(pwr.s1 >= thresh)
      <4>1. hit_counter' = 0
        BY <2>1, <3>3 DEF NextHitCounter
      <4> QED BY <4>1, <2>5, <3>3 DEF CounterIsRun
    <3> QED BY <3>1, <3>2, <3>3
  <2> QED BY <1>1, <2>2, <2>3, <2>6
<1> QED BY <1>3, <1>4

\* On an edge without a sample the detector keeps its run or is cleared.
LEMMA DetectNothingStep ==
  ASSUME TypeOK, CounterIsRun, DetectNothing
  PROVE  /\ sq' \in Words /\ pwr' \in Words
         /\ hit_counter' \in 0 .. HIT_LEN + 1
         /\ seen' \in [1 .. HIT_LEN + 1 -> Classes]
         /\ CounterIsRun'
<1> USE HitLenAssumption DEF TypeOK, DetectNothing
<1>1. CASE ~detector_en
  BY <1>1 DEF Unseen, Classes, CounterIsRun
<1>2. CASE detector_en
  BY <1>2 DEF CounterIsRun
<1> QED BY <1>1, <1>2

\* What record_counter keeps true, whatever the state machine does.
RecordTypes ==
  /\ capture_counter \in 0 .. CAPTURE_SAMPLES
  /\ active_samples \in 0 .. CAPTURE_SAMPLES
  /\ hang_counter \in 0 .. HANG_SAMPLES - 1
  /\ hang_exceeded \in BOOLEAN
  /\ win \in Seq(WordMarks)

RecordInv ==
  /\ RecordTypes
  /\ Len(win) = capture_counter
  /\ active_samples <= capture_counter
  /\ capture_counter > 0 => active_samples > 0
  /\ HangIsGap

LEMMA StartStep ==
  ASSUME StartWindow
  PROVE  RecordInv' /\ capture_counter' = 0
<1> USE CaptureAssumption, HangAssumption DEF StartWindow
<1>1. /\ capture_counter' = 0
      /\ active_samples' = 0
      /\ hang_counter' = 0
      /\ win' = <<>>
  OBVIOUS
<1>2. hang_exceeded' = FALSE
  OBVIOUS
<1>3. RecordTypes'
  <2>1. win' \in Seq(WordMarks)
    BY <1>1
  <2>2. hang_exceeded' \in BOOLEAN
    BY <1>2
  <2> QED BY <1>1, <2>1, <2>2 DEF RecordTypes
<1>4. HangIsGap'
  BY <1>1, <1>2 DEF HangIsGap
<1> QED BY <1>1, <1>3, <1>4 DEF RecordInv

\* Whether a prefix ends in a gap does not depend on what follows it.
LEMMA QuietPrefix ==
  ASSUME NEW v, NEW w, NEW n \in Nat, \A i \in 1 .. n : w[i] = v[i]
  PROVE  \A k \in 0 .. n : QuietUpTo(w, k) <=> QuietUpTo(v, k)
<1> SUFFICES ASSUME NEW k \in 0 .. n, k >= HANG_SAMPLES
             PROVE  QuietUpTo(w, k) <=> QuietUpTo(v, k)
  BY DEF QuietUpTo
<1>1. \A i \in (k - HANG_SAMPLES + 1) .. k : i \in 1 .. n
  BY HangAssumption
<1> QED BY <1>1, Zenon DEF QuietUpTo

\* One word more: the active phase and the gap are those of the longer window.
LEMMA RecordStep ==
  ASSUME RecordInv, RecordWord, capture_counter < CAPTURE_SAMPLES
  PROVE  RecordInv' /\ capture_counter' = capture_counter + 1
<1> USE CaptureAssumption, HangAssumption
<1>1. /\ capture_counter \in 0 .. CAPTURE_SAMPLES
      /\ active_samples \in 0 .. CAPTURE_SAMPLES
      /\ hang_counter \in 0 .. HANG_SAMPLES - 1
      /\ hang_exceeded \in BOOLEAN
      /\ win \in Seq(WordMarks)
      /\ Len(win) = capture_counter
      /\ active_samples <= capture_counter
      /\ capture_counter > 0 => active_samples > 0
  BY DEF RecordInv, RecordTypes
<1>2. capture_counter' = capture_counter + 1
  BY <1>1 DEF RecordWord
<1>3. win' = Append(win, IF hit THEN "hit" ELSE "quiet")
  BY DEF RecordWord
<1>4. /\ win' \in Seq(WordMarks)
      /\ Len(win') = capture_counter + 1
      /\ \A i \in 1 .. capture_counter : win'[i] = win[i]
      /\ win'[capture_counter + 1] = IF hit THEN "hit" ELSE "quiet"
  BY <1>1, <1>3, AppendFacts DEF WordMarks
<1>5. \A k \in 0 .. capture_counter : QuietUpTo(win', k) <=> QuietUpTo(win, k)
  <2>1. capture_counter \in Nat
    BY <1>1
  <2> QED BY <2>1, <1>4, QuietPrefix, Zenon
<1>6. CASE hang_exceeded
  <2>1. UNCHANGED <<active_samples, hang_counter, hang_exceeded>>
    BY <1>6 DEF RecordWord, RecordActive
  <2>2. HangIsGap'
    <3>1. \A k \in 1 .. active_samples' - 1 : ~QuietUpTo(win', k)
      BY <1>1, <1>5, <2>1 DEF RecordInv, HangIsGap
    <3>2. QuietUpTo(win', active_samples')
      BY <1>1, <1>5, <1>6, <2>1 DEF RecordInv, HangIsGap, QuietUpTo
    <3> QED BY <1>6, <2>1, <3>1, <3>2 DEF HangIsGap
  <2>3. hang_exceeded' \in BOOLEAN
    BY <1>1, <2>1
  <2>4. RecordTypes'
    BY <1>1, <1>2, <1>4, <2>1, <2>3 DEF RecordTypes
  <2>5. active_samples > 0
    BY <1>1, <1>6 DEF RecordInv, HangIsGap, QuietUpTo
  <2> QED BY <1>1, <1>2, <1>4, <2>1, <2>2, <2>4, <2>5 DEF RecordInv
<1>7. CASE ~hang_exceeded
  <2>1. /\ active_samples' = capture_counter + 1
        /\ hang_counter' = IF hit THEN 0
                           ELSE IF hang_counter < HANG_SAMPLES - 1 THEN hang_counter + 1
                           ELSE hang_counter
        /\ hang_exceeded' = (~hit /\ hang_counter >= HANG_SAMPLES - 1)
    BY <1>7 DEF RecordWord, RecordActive
  <2>2. /\ active_samples = capture_counter
        /\ hang_counter <= capture_counter
        /\ \A i \in (capture_counter - hang_counter + 1) .. capture_counter : win[i] = "quiet"
        /\ hang_counter < capture_counter => win[capture_counter - hang_counter] = "hit"
        /\ \A k \in 1 .. active_samples - 1 : ~QuietUpTo(win, k)
    BY <1>7 DEF RecordInv, HangIsGap
  <2>3. ~QuietUpTo(win, capture_counter)
    BY <1>1, <2>2 DEF QuietUpTo
  <2>4. RecordTypes'
    <3>1. hang_exceeded' \in BOOLEAN
      BY <2>1
    <3>2. /\ capture_counter' \in 0 .. CAPTURE_SAMPLES
          /\ active_samples' \in 0 .. CAPTURE_SAMPLES
          /\ hang_counter' \in 0 .. HANG_SAMPLES - 1
      BY <1>1, <1>2, <2>1
    <3> QED BY <1>4, <3>1, <3>2 DEF RecordTypes
  <2>5. \A k \in 1 .. active_samples' - 1 : ~QuietUpTo(win', k)
    BY <1>1, <1>5, <2>1, <2>2, <2>3
  <2>6. CASE hit
    <3>1. ~hang_exceeded' /\ hang_counter' = 0
      BY <2>1, <2>6
    <3>2. HangIsGap'
      BY <1>1, <1>2, <1>4, <2>1, <2>5, <2>6, <3>1 DEF HangIsGap
    <3> QED BY <1>1, <1>2, <1>4, <2>1, <2>4, <3>2 DEF RecordInv
  <2>7. CASE ~hit /\ hang_counter < HANG_SAMPLES - 1
    <3>0. ~(hang_counter >= HANG_SAMPLES - 1)
      BY <1>1, <2>7
    <3>1. ~hang_exceeded'
      BY <3>0, <2>1, Zenon
    <3>5. hang_counter' = hang_counter + 1
      BY <2>1, <2>7
    <3>2. \A i \in (capture_counter' - hang_counter' + 1) .. capture_counter' : win'[i] = "quiet"
      BY <1>1, <1>2, <1>4, <2>2, <2>7, <3>5
    <3>3. hang_counter' < capture_counter' => win'[capture_counter' - hang_counter'] = "hit"
      BY <1>1, <1>2, <1>4, <2>2, <3>5
    <3>4. HangIsGap'
      BY <1>1, <1>2, <2>1, <2>2, <2>5, <3>1, <3>2, <3>3, <3>5 DEF HangIsGap
    <3> QED BY <1>1, <1>2, <1>4, <2>1, <2>4, <3>4 DEF RecordInv
  <2>8. CASE ~hit /\ hang_counter >= HANG_SAMPLES - 1
    <3>0. hang_counter = HANG_SAMPLES - 1
      BY <1>1, <2>8
    <3>1. hang_exceeded'
      BY <2>1, <2>8
    <3>2. QuietUpTo(win', active_samples')
      BY <1>1, <1>4, <2>1, <2>2, <2>8, <3>0 DEF QuietUpTo
    <3>3. HangIsGap'
      BY <2>5, <3>1, <3>2 DEF HangIsGap
    <3> QED BY <1>1, <1>2, <1>4, <2>1, <2>4, <3>3 DEF RecordInv
  <2> QED BY <1>1, <2>6, <2>7, <2>8
<1> QED BY <1>2, <1>6, <1>7

\* Words of the replay enter the pipeline only while the detector is cleared, and
\* move through `seen' two samples at a time.
LEMMA OwnStep ==
  ASSUME TypeOK, OwnIsShort, NEW s0 \in Power, NEW s1 \in Power, NEW thresh \in Thresholds,
         Detect([s0 |-> s0, s1 |-> s1, own |-> state = "REPLAY"], thresh)
  PROVE  OwnIsShort'
<1> USE HitLenAssumption
<1>1. sq'.own <=> state = "REPLAY"
  BY DEF Detect
<1>2. pwr' = sq
  BY DEF Detect
<1>3. CASE ~detector_en
  <2>1. \A i \in 1 .. HIT_LEN + 1 : seen'[i] = "quiet"
    BY <1>3 DEF Detect, Unseen
  <2> QED BY <2>1 DEF OwnIsShort
<1>4. CASE detector_en
  <2>1. ~sq'.own
    BY <1>1, <1>4 DEF detector_en
  <2>2. seen' = Compared(thresh)
    BY <1>4 DEF Detect
  <2>3. \A i \in 3 .. HIT_LEN + 1 : seen'[i] = seen[i - 2]
    BY <2>2 DEF Compared
  <2>4. (seen'[1] = "own" \/ seen'[2] = "own") => pwr.own
    BY <2>2 DEF Compared, Class
  <2>5. pwr'.own => \A i \in 3 .. HIT_LEN + 1 : seen'[i] = "quiet"
    BY <1>2, <2>3 DEF OwnIsShort
  <2>6. ASSUME NEW i \in 1 .. HIT_LEN + 1, seen'[i] = "own",
               NEW k \in i + 4 .. HIT_LEN + 1
        PROVE  seen'[k] = "quiet"
    <3>1. k \in 3 .. HIT_LEN + 1 /\ seen'[k] = seen[k - 2]
      BY <2>3
    <3>2. CASE i \in {1, 2}
      <4>1. pwr.own
        BY <2>4, <2>6, <3>2
      <4> QED BY <4>1, <3>1, <3>2 DEF OwnIsShort
    <3>3. CASE i \in 3 .. HIT_LEN + 1
      <4>1. seen[i - 2] = "own"
        BY <2>3, <2>6, <3>3
      <4> QED BY <4>1, <3>1, <3>3 DEF OwnIsShort
    <3> QED BY <3>2, <3>3
  <2> QED BY <2>1, <2>5, <2>6 DEF OwnIsShort
<1> QED BY <1>3, <1>4

LEMMA StepInv == CoreInv /\ [Next]_vars => CoreInv'
<1> SUFFICES ASSUME CoreInv, [Next]_vars PROVE CoreInv'
  OBVIOUS
<1> USE HitLenAssumption, CaptureAssumption, HangAssumption, PowerAssumption
<1>0. TypeOK /\ CounterIsRun /\ OwnIsShort /\ CounterIsWindow /\ HangIsGap /\ RecordInv
  BY DEF CoreInv, TypeOK, CounterIsWindow, RecordInv, RecordTypes
<1>1. CASE Reset
  <2>1. state' = "IDLE" /\ StartWindow
    BY <1>1 DEF Reset
  <2>2. RecordInv' /\ capture_counter' = 0
    BY <2>1, StartStep
  <2>3. CounterIsWindow' /\ HangIsGap'
    BY <2>1, <2>2 DEF CounterIsWindow, RecordInv
  <2>4. /\ sq' = ZeroWord /\ pwr' = ZeroWord
        /\ hit_counter' = 0 /\ seen' = Unseen
    BY <1>1 DEF Reset
  <2>5. sq' \in Words /\ pwr' \in Words /\ seen' \in [1 .. HIT_LEN + 1 -> Classes]
    BY <2>4 DEF Words, ZeroWord, Unseen, Classes
  <2>6. TypeOK'
    BY <2>1, <2>2, <2>4, <2>5 DEF TypeOK, States, RecordInv, RecordTypes
  <2>7. CounterIsRun' /\ OwnIsShort'
    BY <2>4 DEF CounterIsRun, OwnIsShort, Unseen
  <2> QED BY <2>3, <2>6, <2>7 DEF CoreInv
<1>2. ASSUME NEW cmd \in Pulses, NoSample(cmd)
      PROVE  CoreInv'
  <2>1. DetectNothing /\ state' = NextState(cmd, FALSE, FALSE)
    BY <1>2 DEF NoSample
  <2>2. /\ sq' \in Words /\ pwr' \in Words
        /\ hit_counter' \in 0 .. HIT_LEN + 1
        /\ seen' \in [1 .. HIT_LEN + 1 -> Classes]
        /\ CounterIsRun'
    BY <1>0, <2>1, DetectNothingStep
  <2>3. OwnIsShort'
    BY <1>0, <2>1 DEF OwnIsShort, DetectNothing, Unseen
  <2>4. UNCHANGED recordVars
    BY <1>2 DEF NoSample
  <2>5. /\ state' \in States
        /\ state' = "CAPTURE" => state = "CAPTURE"
        /\ state' \in {"PENDING", "REPLAY"} => state \in {"PENDING", "REPLAY"}
    BY <1>0, <2>1, NextStateFacts
  <2>6. CounterIsWindow' /\ HangIsGap'
    BY <1>0, <2>4, <2>5 DEF CounterIsWindow, HangIsGap, recordVars
  <2>7. TypeOK'
    BY <1>0, <2>2, <2>4, <2>5 DEF TypeOK, recordVars
  <2> QED BY <2>2, <2>3, <2>6, <2>7 DEF CoreInv
<1>3. ASSUME NEW cmd \in Pulses, NEW s0 \in Power, NEW s1 \in Power,
             NEW thresh \in Thresholds, NEW dma_ready \in BOOLEAN,
             Sample(cmd, s0, s1, thresh, dma_ready)
      PROVE  CoreInv'
  <2> DEFINE word == [s0 |-> s0, s1 |-> s1, own |-> state = "REPLAY"]
             done == capture_en /\ LastWord
             next == NextState(cmd, hit /\ dma_ready, done)
             start == state = "SCAN" /\ next = "CAPTURE"
  <2>1. /\ state' = next
        /\ Detect(word, thresh)
        /\ \/ start /\ StartWindow
           \/ capture_en /\ RecordWord
           \/ ~start /\ ~capture_en /\ UNCHANGED recordVars
    BY <1>3 DEF Sample
  <2>2. word \in Words
    BY DEF Words
  <2>3. /\ sq' \in Words /\ pwr' \in Words
        /\ hit_counter' \in 0 .. HIT_LEN + 1
        /\ seen' \in [1 .. HIT_LEN + 1 -> Classes]
        /\ CounterIsRun'
    BY <1>0, <2>1, <2>2, DetectStep
  <2>4. OwnIsShort'
    BY <1>0, <2>1, OwnStep
  <2>5. done \in BOOLEAN /\ (hit /\ dma_ready) \in BOOLEAN
    OBVIOUS
  <2>6. /\ next \in States
        /\ next = "CAPTURE" => \/ state = "SCAN" /\ hit /\ dma_ready
                               \/ state = "CAPTURE" /\ ~done
        /\ next \in {"PENDING", "REPLAY"} => \/ state \in {"PENDING", "REPLAY"}
                                             \/ state = "CAPTURE" /\ done
    BY <1>0, <2>5, NextStateFacts
  <2>7. RecordInv' /\ CounterIsWindow'
    <3>1. CASE start /\ StartWindow
      <4>1. RecordInv' /\ capture_counter' = 0
        BY <3>1, StartStep
      <4> QED BY <2>1, <3>1, <4>1 DEF CounterIsWindow, RecordInv
    <3>2. CASE capture_en /\ RecordWord
      <4>1. capture_counter < CAPTURE_SAMPLES /\ state = "CAPTURE"
        BY <1>0, <3>2 DEF CounterIsWindow, capture_en
      <4>2. RecordInv' /\ capture_counter' = capture_counter + 1
        BY <1>0, <3>2, <4>1, RecordStep
      <4>3. done <=> capture_counter = CAPTURE_SAMPLES - 1
        BY <3>2 DEF LastWord
      <4>4. /\ next = "CAPTURE" => capture_counter # CAPTURE_SAMPLES - 1
            /\ next \in {"PENDING", "REPLAY"} => capture_counter = CAPTURE_SAMPLES - 1
        BY <2>6, <4>1, <4>3
      <4>5. capture_counter \in Nat
        BY <1>0 DEF TypeOK
      <4> QED BY <2>1, <4>1, <4>2, <4>4, <4>5 DEF CounterIsWindow, RecordInv
    <3>3. CASE ~start /\ ~capture_en /\ UNCHANGED recordVars
      <4>1. next # "CAPTURE"
        BY <2>6, <3>3 DEF capture_en
      <4>2. next \in {"PENDING", "REPLAY"} => state \in {"PENDING", "REPLAY"}
        BY <2>6, <3>3 DEF capture_en
      <4>3. RecordInv'
        BY <1>0, <3>3 DEF RecordInv, RecordTypes, HangIsGap, recordVars
      <4> QED BY <1>0, <2>1, <3>3, <4>1, <4>2, <4>3 DEF CounterIsWindow, recordVars
    <3> QED BY <2>1, <3>1, <3>2, <3>3
  <2>8. TypeOK'
    BY <2>1, <2>3, <2>6, <2>7 DEF TypeOK, RecordInv, RecordTypes
  <2> QED BY <2>3, <2>4, <2>7, <2>8 DEF CoreInv, RecordInv
<1>4. CASE UNCHANGED vars
  BY <1>0, <1>4 DEF CoreInv, TypeOK, CounterIsRun, OwnIsShort, CounterIsWindow, HangIsGap,
                    vars, detectorVars, recordVars
<1> QED BY <1>1, <1>2, <1>3, <1>4 DEF Next, SampleStep

\* The inductive invariant of the data path: types, the meaning of the hit counter,
\* of the window counter and of the hang counter.
THEOREM CoreInvHolds == Spec => []CoreInv
  BY InitInv, StepInv, PTL DEF Spec

\* No register leaves the range its width in the RTL holds.
THEOREM TypeCorrect == Spec => []TypeOK
<1>1. CoreInv => TypeOK
  BY DEF CoreInv
<1> QED BY <1>1, CoreInvHolds, PTL

\* In PENDING and REPLAY the window has exactly CAPTURE_SAMPLES words and the
\* active length is in 1..CAPTURE_SAMPLES.
THEOREM FullWindowHolds == Spec => []FullWindow
<1>1. CoreInv => FullWindow
  BY CaptureAssumption DEF CoreInv, TypeOK, CounterIsWindow, FullWindow
<1> QED BY <1>1, CoreInvHolds, PTL

\* The active length is the one its definition on the whole window gives.
THEOREM ActivePhaseHolds == Spec => []ActivePhase
<1>1. CoreInv => ActivePhase
  BY DEF CoreInv, TypeOK, CounterIsWindow, HangIsGap, ActivePhase
<1> QED BY <1>1, CoreInvHolds, PTL

\* The two-at-a-time hit counter decides whether the last HIT_LEN samples are all
\* at or above the threshold.
THEOREM HitIsRunHolds == Spec => []HitIsRun
<1>1. CoreInv => HitIsRun
  <2> SUFFICES ASSUME CoreInv PROVE HitIsRun
    OBVIOUS
  <2>1. hit_counter \in Nat /\ HIT_LEN \in Nat
    BY HitLenAssumption DEF CoreInv, TypeOK
  <2>2. CASE hit_counter >= HIT_LEN
    BY <2>1, <2>2 DEF CoreInv, CounterIsRun, HitIsRun, hit
  <2>3. CASE hit_counter < HIT_LEN
    <3>1. hit_counter + 1 \in 1 .. HIT_LEN /\ seen[hit_counter + 1] = "quiet"
      BY <2>1, <2>3 DEF CoreInv, CounterIsRun
    <3> QED BY <2>1, <2>3, <3>1 DEF HitIsRun, hit
  <2> QED BY <2>1, <2>2, <2>3
<1> QED BY <1>1, CoreInvHolds, PTL

\* A hit never consists of the board's own signal alone, once HIT_LEN is more than
\* the four samples the pipeline can carry over from a replay.
THEOREM NoSelfTriggerHolds ==
  ASSUME HIT_LEN > 4
  PROVE  Spec => []NoSelfTrigger
<1>1. CoreInv => NoSelfTrigger
  <2> SUFFICES ASSUME CoreInv, hit PROVE \E i \in 1 .. HIT_LEN : seen[i] = "air"
    BY DEF NoSelfTrigger
  <2>1. \A i \in 1 .. HIT_LEN : seen[i] \in {"air", "own"}
    BY HitLenAssumption DEF CoreInv, TypeOK, CounterIsRun, hit, Classes
  <2>2. 1 \in 1 .. HIT_LEN /\ 5 \in 1 + 4 .. HIT_LEN + 1 /\ 5 \in 1 .. HIT_LEN
    BY HitLenAssumption
  <2>3. seen[1] # "own"
    <3> SUFFICES ASSUME seen[1] = "own" PROVE seen[5] = "quiet"
      BY <2>1, <2>2
    <3>1. 1 \in 1 .. HIT_LEN + 1
      BY HitLenAssumption
    <3> QED BY <3>1, <2>2 DEF CoreInv, OwnIsShort
  <2> QED BY <2>1, <2>2, <2>3
<1> QED BY <1>1, CoreInvHolds, PTL

\* The initial states and the steps of the detector, counters and state machine are
\* those of the contract.
THEOREM ImplementsGateHolds == Spec => ImplementsGate
<1> USE HitLenAssumption, CaptureAssumption, HangAssumption
<1>1. Init => Gate!GateInit
  BY DEF Init, Gate!GateInit
<1>2. CoreInv /\ CoreInv' /\ [Next]_vars => [Gate!GateNext]_(Gate!gateVars)
  <2> SUFFICES ASSUME CoreInv, CoreInv', [Next]_vars
               PROVE  Gate!GateNext \/ UNCHANGED <<state, Len(win), active_samples>>
    BY DEF Gate!gateVars
  <2>0. /\ Len(win) = capture_counter /\ Len(win') = capture_counter'
        /\ TypeOK /\ CounterIsWindow /\ CounterIsWindow' /\ HangIsGap
    BY DEF CoreInv, CounterIsWindow
  <2>1. CASE Reset
    BY <2>1 DEF Reset, StartWindow, Gate!GateNext, Gate!PowerUp
  <2>2. ASSUME NEW cmd \in Pulses, NoSample(cmd)
        PROVE  Gate!GateNext \/ UNCHANGED <<state, Len(win), active_samples>>
    BY <2>0, <2>2 DEF NoSample, NextState, recordVars, TypeOK, States, Gate!GateNext,
       Gate!Arm, Gate!BeginReplay, Gate!EndReplay, Gate!Abort
  <2>3. ASSUME NEW cmd \in Pulses, NEW s0 \in Power, NEW s1 \in Power,
               NEW thresh \in Thresholds, NEW dma_ready \in BOOLEAN,
               Sample(cmd, s0, s1, thresh, dma_ready)
        PROVE  Gate!GateNext \/ UNCHANGED <<state, Len(win), active_samples>>
    <3>1. CASE state = "SCAN" /\ state' = "CAPTURE" /\ StartWindow
      BY <3>1 DEF StartWindow, Gate!GateNext, Gate!Trigger
    <3>2. CASE state = "CAPTURE" /\ RecordWord
      <4>1. /\ capture_counter \in Nat /\ capture_counter < CAPTURE_SAMPLES
            /\ active_samples \in Nat
        BY <2>0, <3>2 DEF TypeOK, CounterIsWindow
      <4>2. capture_counter' = capture_counter + 1
        BY <4>1, <3>2 DEF RecordWord
      <4>3. \/ active_samples = capture_counter /\ active_samples' = capture_counter + 1
            \/ active_samples >= HANG_SAMPLES /\ active_samples' = active_samples
        BY <2>0, <3>2 DEF RecordWord, RecordActive, HangIsGap, QuietUpTo
      <4>4. state' \in {IF capture_counter' = CAPTURE_SAMPLES THEN "PENDING" ELSE "CAPTURE", "IDLE"}
        BY <2>3, <3>2, <4>1, <4>2 DEF Sample, NextState, capture_en, LastWord
      <4> QED BY <2>0, <3>2, <4>1, <4>2, <4>3, <4>4 DEF Gate!GateNext, Gate!Forward
    <3>3. CASE state # "CAPTURE" /\ state' # "CAPTURE" /\ UNCHANGED recordVars
      BY <2>0, <2>3, <3>3 DEF Sample, NextState, recordVars, TypeOK, States, Gate!GateNext,
         Gate!Arm, Gate!BeginReplay, Gate!EndReplay, Gate!Abort
    <3>4. QED
      <4> DEFINE next == NextState(cmd, hit /\ dma_ready, capture_en /\ LastWord)
                 start == state = "SCAN" /\ next = "CAPTURE"
      <4>1. /\ state' = next
            /\ \/ start /\ StartWindow
               \/ capture_en /\ RecordWord
               \/ ~start /\ ~capture_en /\ UNCHANGED recordVars
        BY <2>3 DEF Sample
      <4>2. state # "SCAN" /\ state # "CAPTURE" => next # "CAPTURE"
        BY <2>0, <2>3, NextStateFacts
      <4> QED BY <4>1, <4>2, <3>1, <3>2, <3>3 DEF capture_en
  <2>4. CASE UNCHANGED vars
    BY <2>4 DEF vars, recordVars
  <2> QED BY <2>1, <2>2, <2>3, <2>4 DEF Next, SampleStep
<1> QED BY <1>1, <1>2, CoreInvHolds, PTL DEF Spec, ImplementsGate, Gate!GateSpec
=============================================================================
