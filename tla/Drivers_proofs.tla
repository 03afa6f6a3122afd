--------------------------- MODULE Drivers_proofs ---------------------------
(***************************************************************************)
(* The two drivers.  That of the DMA, for cores of any kind, any length of *)
(* a segment and any size of a transfer: the interrupts cut a transfer     *)
(* into segments that tile it.  That of the radio, for the boards, chips   *)
(* and calls of Radio_proofs: the radio stays in tune.                     *)
(*                                                                         *)
(* What a step of the radio's driver does to the tuning is said with Keeps *)
(* of a set of parts: the lemmas go through the operators from the bottom  *)
(* up, each for every set that does not name what the operator sets.       *)
(***************************************************************************)
EXTENDS Radio_proofs, SequenceTheorems, FiniteSets, FiniteSetTheorems

Directions == {"DEV_TO_MEM", "MEM_TO_DEV", "MEM_TO_MEM", "INVALID_DIR"}

Dmacs ==
  [irq_option : {c.irq : c \in Caps}, direction : Directions, hw_cyclic : {c.cyclic : c \in Caps},
   max_length : {MaxLength}, size : Nat, cyclic : BOOLEAN, transfer_done : BOOLEAN,
   init_addr : Nat, remaining_size : Nat, next_src_addr : Nat, next_dest_addr : Nat]

Segments == [len : Nat, src : Nat, dest : Nat]

\* Bytes in a queue of at most two segments.
Bytes(q) ==
  IF Len(q) = 0 THEN 0 ELSE IF Len(q) = 1 THEN q[1].len ELSE q[1].len + q[2].len

Typed ==
  /\ dmac \in Dmacs
  /\ pc \in {"idle", "starting", "waiting", "ready", "failed"}
  /\ covered \in Nat /\ moved \in Nat
  /\ sot \in BOOLEAN /\ eot \in BOOLEAN /\ torn \in BOOLEAN
  /\ queued \in Seq(Segments) /\ Len(queued) <= 1
  /\ active \in Seq(Segments) /\ Len(active) <= 2

AtRest == queued = <<>> /\ active = <<>> /\ ~sot /\ ~eot

JustBegun ==
  /\ dmac.size \in Sizes
  /\ dmac.cyclic => dmac.direction \notin {"DEV_TO_MEM", "MEM_TO_MEM"}

\* Before the first segment the hardware rests.
Unstarted ==
  /\ pc \in {"idle", "starting", "failed"} => AtRest /\ covered = 0
  /\ pc = "starting" => /\ JustBegun /\ dmac.remaining_size = dmac.size /\ moved = 0
                        /\ dmac.next_src_addr = 0 /\ dmac.next_dest_addr = 0

\* A transfer that is not cyclic: what is not submitted yet is what the driver still
\* counts, and what is submitted has moved or is in the hardware.
Straight ==
  /\ covered = dmac.size - dmac.remaining_size
  /\ moved + Bytes(queued) + Bytes(active) = covered
  /\ dmac.remaining_size > 0 =>
       /\ Dma!Src(dmac) => dmac.next_src_addr = covered
       /\ Dma!Dest(dmac) => dmac.next_dest_addr = covered

\* A cyclic one begins again at its first byte, and not before its last.
Round ==
  /\ dmac.next_src_addr = dmac.size - dmac.remaining_size
  /\ covered = IF dmac.remaining_size = 0 THEN 0 ELSE dmac.next_src_addr

\* As long as something is left to submit, the interrupt that will do it is still to
\* come, and it will find the place of the waiting segment free.
UnderWay ==
  pc \in {"waiting", "ready"} =>
    /\ JustBegun /\ dmac.direction # "INVALID_DIR" /\ dmac.init_addr = 0
    /\ sot => queued = <<>>
    /\ dmac.remaining_size % 2 = 0 /\ dmac.remaining_size < dmac.size
    /\ dmac.remaining_size > 0 \/ dmac.cyclic => queued # <<>> \/ sot
    /\ ~dmac.cyclic => Straight
    /\ dmac.cyclic => Round

Undisturbed == ~disturbed => ~torn /\ Unstarted /\ UnderWay

DmaInv == Typed /\ Undisturbed

-----------------------------------------------------------------------------
(* The operators of the driver *)

\* The fields a step through a transfer leaves alone.
SameDma(d, e) ==
  /\ e.irq_option = d.irq_option /\ e.direction = d.direction /\ e.hw_cyclic = d.hw_cyclic
  /\ e.size = d.size /\ e.cyclic = d.cyclic /\ e.init_addr = d.init_addr

\* The next segment is as long as the hardware takes, or as long as what is left.
LEMMA SegmentOf ==
  ASSUME NEW d \in Dmacs
  PROVE  /\ Dma!Segment(d) \in Segments
         /\ Dma!Segment(d).len =
              (IF d.remaining_size > MaxLength THEN MaxLength + 1 ELSE d.remaining_size)
         /\ Dma!Segment(d).src = IF Dma!Src(d) THEN d.next_src_addr ELSE 0
         /\ Dma!Segment(d).dest = IF Dma!Dest(d) THEN d.next_dest_addr ELSE 0
<1>1. Dma!BurstSize(d) + 1 = IF d.remaining_size > MaxLength THEN MaxLength + 1 ELSE d.remaining_size
  BY DmaAssumption DEF Dma!BurstSize, Dmacs
<1>2. Dma!BurstSize(d) + 1 \in Nat /\ d.next_src_addr \in Nat /\ d.next_dest_addr \in Nat
  BY <1>1, DmaAssumption DEF Dmacs
<1> QED BY <1>1, <1>2 DEF Dma!Segment, Segments

\* Its length is even like that of the transfer, not more than what is left, and not
\* zero while something is left.
LEMMA SegmentFits ==
  ASSUME NEW d \in Dmacs
  PROVE  /\ Dma!Segment(d).len \in Nat /\ Dma!Segment(d).len <= d.remaining_size
         /\ d.remaining_size > 0 => Dma!Segment(d).len > 0
         /\ d.remaining_size % 2 = 0 => (d.remaining_size - Dma!Segment(d).len) % 2 = 0
<1>1. d.remaining_size \in Nat
  BY DEF Dmacs
<1> QED BY <1>1, SegmentOf, DmaAssumption

\* What a submitted segment changes of the transfer.
LEMMA AdvancedBy ==
  ASSUME NEW d \in Dmacs
  PROVE  /\ Dma!Advanced(d) \in Dmacs
         /\ SameDma(d, Dma!Advanced(d))
         /\ Dma!Advanced(d).remaining_size = d.remaining_size - Dma!Segment(d).len
         /\ Dma!Src(d) => Dma!Advanced(d).next_src_addr = d.next_src_addr + Dma!Segment(d).len
         /\ Dma!Dest(d) => Dma!Advanced(d).next_dest_addr = d.next_dest_addr + Dma!Segment(d).len
<1> DEFINE step == Dma!BurstSize(d) + 1
<1>1. step = Dma!Segment(d).len /\ step \in Nat /\ d.remaining_size - step \in Nat
  <2>1. step = Dma!Segment(d).len
    BY DEF Dma!Segment
  <2>2. d.remaining_size \in Nat
    BY DEF Dmacs
  <2> HIDE DEF step
  <2> QED BY <2>1, <2>2, SegmentFits
<1>2. Dma!Advanced(d) = [d EXCEPT !.remaining_size = @ - step,
                                  !.next_src_addr = IF Dma!Src(d) THEN @ + step ELSE @,
                                  !.next_dest_addr = IF Dma!Dest(d) THEN @ + step ELSE @]
  BY DEF Dma!Advanced
<1>3. d.next_src_addr \in Nat /\ d.next_dest_addr \in Nat
  BY DEF Dmacs
<1> HIDE DEF step
<1> DEFINE left == d.remaining_size - step
           src == IF Dma!Src(d) THEN d.next_src_addr + step ELSE d.next_src_addr
           dest == IF Dma!Dest(d) THEN d.next_dest_addr + step ELSE d.next_dest_addr
<1>4. left \in Nat /\ src \in Nat /\ dest \in Nat
  BY <1>1, <1>3
<1>5. \A r, s, t \in Nat :
        [d EXCEPT !.remaining_size = r, !.next_src_addr = s, !.next_dest_addr = t] \in Dmacs
  BY DEF Dmacs
<1>6. Dma!Advanced(d) =
        [d EXCEPT !.remaining_size = left, !.next_src_addr = src, !.next_dest_addr = dest]
  BY <1>2
<1>7. /\ left = d.remaining_size - step
      /\ Dma!Src(d) => src = d.next_src_addr + step
      /\ Dma!Dest(d) => dest = d.next_dest_addr + step
  OBVIOUS
<1> HIDE DEF left, src, dest
<1>8. Dma!Advanced(d) \in Dmacs
  BY <1>4, <1>5, <1>6, ZenonT(60)
<1>9. /\ Dma!Advanced(d).remaining_size = left
      /\ Dma!Advanced(d).next_src_addr = src
      /\ Dma!Advanced(d).next_dest_addr = dest
  BY <1>6 DEF Dmacs
<1>10. SameDma(d, Dma!Advanced(d))
  BY <1>6 DEF Dmacs, SameDma
<1> QED BY <1>1, <1>7, <1>8, <1>9, <1>10

\* A cyclic transfer begins again at its first byte.
LEMMA RewoundTo ==
  ASSUME NEW d \in Dmacs
  PROVE  Dma!Rewound(d) \in Dmacs /\ SameDma(d, Dma!Rewound(d))
  BY DEF Dma!Rewound, Dmacs, SameDma

\* In the interrupt the last segment of a copy moves the source once more.
LEMMA FollowedBy ==
  ASSUME NEW d \in Dmacs
  PROVE  /\ Dma!Followed(d) \in Dmacs
         /\ SameDma(d, Dma!Followed(d))
         /\ Dma!Followed(d).remaining_size = Dma!Advanced(d).remaining_size
         /\ Dma!Followed(d).next_dest_addr = Dma!Advanced(d).next_dest_addr
         /\ d.direction = "MEM_TO_DEV" \/ Dma!Advanced(d).remaining_size # 0 =>
              Dma!Followed(d).next_src_addr = Dma!Advanced(d).next_src_addr
<1> DEFINE a == Dma!Advanced(d)
<1>1. a \in Dmacs /\ SameDma(d, a)
  BY AdvancedBy
<1>2. Dma!BurstSize(d) + 1 \in Nat
  BY DmaAssumption DEF Dma!BurstSize, Dmacs
<1>3. Dma!Followed(d) = IF d.direction = "MEM_TO_MEM" /\ a.remaining_size = 0
        THEN [a EXCEPT !.next_src_addr = @ + (Dma!BurstSize(d) + 1)] ELSE a
  <2>1. \A x \in Nat : x + Dma!BurstSize(d) + 1 = x + (Dma!BurstSize(d) + 1)
    BY DmaAssumption DEF Dma!BurstSize, Dmacs
  <2>2. a.next_src_addr \in Nat
    BY <1>1 DEF Dmacs
  <2> HIDE DEF a
  <2> QED BY <2>1, <2>2 DEF Dma!Followed, a
<1> HIDE DEF a
<1> QED BY <1>1, <1>2, <1>3 DEF Dmacs, SameDma, a

\* The end of a transfer forgets the addresses only.
LEMMA FinishedAs ==
  ASSUME NEW d \in Dmacs
  PROVE  /\ Dma!Finished(d) \in Dmacs
         /\ SameDma(d, Dma!Finished(d))
         /\ Dma!Finished(d).remaining_size = d.remaining_size
  BY DEF Dma!Finished, Dmacs, SameDma

\* Bytes pass from the waiting segment to those under way, and from those to moved.
LEMMA HeldAppend ==
  ASSUME NEW q \in Seq(Segments), NEW a \in Seq(Segments), Len(q) = 1, Len(a) < 2
  PROVE  /\ a \o q \in Seq(Segments) /\ Len(a \o q) <= 2
         /\ Bytes(q) \in Nat /\ Bytes(a) \in Nat
         /\ Bytes(a \o q) = Bytes(q) + Bytes(a)
<1>1. q[1] \in Segments
  BY ElementOfSeq
<1>2. q[1].len \in Nat
  BY <1>1 DEF Segments
<1>3. /\ a \o q \in Seq(Segments) /\ Len(a \o q) = Len(a) + Len(q)
      /\ \A i \in 1 .. Len(a) + Len(q) :
           (a \o q)[i] = IF i <= Len(a) THEN a[i] ELSE q[i - Len(a)]
  BY ConcatProperties, Zenon
<1>4. Len(a) \in Nat
  BY LenProperties
<1>5. CASE Len(a) = 0
  <2>1. (a \o q)[1] = q[1] /\ Len(a \o q) = 1
    BY <1>3, <1>5
  <2> QED BY <1>2, <1>3, <1>5, <2>1 DEF Bytes
<1>6. CASE Len(a) = 1
  <2>1. a[1] \in Segments
    BY <1>6, ElementOfSeq
  <2>2. a[1].len \in Nat
    BY <2>1 DEF Segments
  <2>3. (a \o q)[1] = a[1] /\ (a \o q)[2] = q[1] /\ Len(a \o q) = 2
    BY <1>3, <1>6
  <2>4. Bytes(a \o q) = a[1].len + q[1].len /\ Bytes(a) = a[1].len /\ Bytes(q) = q[1].len
    BY <1>6, <2>3 DEF Bytes
  <2> QED BY <1>2, <1>3, <2>2, <2>3, <2>4
<1> QED BY <1>4, <1>5, <1>6

\* What is held is a number of bytes.
LEMMA HeldNat ==
  ASSUME NEW a \in Seq(Segments), Len(a) <= 2
  PROVE  Bytes(a) \in Nat
<1>1. \A n \in 1 .. Len(a) : a[n] \in Segments
  BY ElementOfSeq, Zenon
<1>2. \A n \in 1 .. Len(a) : a[n].len \in Nat
  BY <1>1, Zenon DEF Segments
<1>3. Len(a) \in Nat
  BY LenProperties
<1>4. CASE Len(a) = 0
  BY <1>4 DEF Bytes
<1>5. CASE Len(a) = 1
  <2>1. a[1].len \in Nat
    BY <1>2, <1>5
  <2> QED BY <1>5, <2>1 DEF Bytes
<1>6. CASE Len(a) = 2
  <2>1. a[1].len \in Nat /\ a[2].len \in Nat
    BY <1>2, <1>6
  <2>2. Bytes(a) = a[1].len + a[2].len
    BY <1>6 DEF Bytes
  <2> QED BY <2>1, <2>2
<1>7. \A n \in Nat : n <= 2 => n = 0 \/ n = 1 \/ n = 2
  OBVIOUS
<1>8. Len(a) = 0 \/ Len(a) = 1 \/ Len(a) = 2
  BY <1>3, <1>7, Zenon
<1> QED BY <1>4, <1>5, <1>6, <1>8, Zenon

\* What ends first is no longer held.
LEMMA HeldTail ==
  ASSUME NEW a \in Seq(Segments), a # <<>>, Len(a) <= 2
  PROVE  /\ Tail(a) \in Seq(Segments) /\ Len(Tail(a)) <= 2
         /\ Head(a).len \in Nat /\ Bytes(a) \in Nat /\ Bytes(Tail(a)) \in Nat
         /\ Head(a).len + Bytes(Tail(a)) = Bytes(a)
<1>1. /\ Head(a) \in Segments /\ Tail(a) \in Seq(Segments) /\ Len(Tail(a)) = Len(a) - 1
      /\ \A i \in 1 .. Len(Tail(a)) : Tail(a)[i] = a[i + 1]
  BY HeadTailProperties, Zenon
<1>2. Head(a) = a[1]
  OBVIOUS
<1>3. Head(a).len \in Nat
  BY <1>1, Zenon DEF Segments
<1>4. Len(a) \in Nat \ {0}
  BY EmptySeq, Zenon
<1> DEFINE t == Tail(a)
           h == Head(a).len
<1>5. t \in Seq(Segments) /\ Len(t) = Len(a) - 1 /\ h \in Nat
  BY <1>1, <1>3
<1>6. \A i \in 1 .. Len(t) : t[i] = a[i + 1]
  BY <1>1
<1>7. h = a[1].len
  BY <1>2
<1> HIDE DEF t, h
<1>8. \A n \in 1 .. Len(a) : a[n] \in Segments
  BY ElementOfSeq, Zenon
<1>9. Bytes(a) \in Nat /\ Bytes(t) \in Nat /\ h + Bytes(t) = Bytes(a)
  <2>1. CASE Len(a) = 1
    <3>1. Len(t) = 0
      BY <1>5, <2>1
    <3>2. Bytes(t) = 0 /\ Bytes(a) = a[1].len
      BY <2>1, <3>1 DEF Bytes
    <3> QED BY <1>5, <1>7, <3>2
  <2>2. CASE Len(a) = 2
    <3>1. Len(t) = 1
      BY <1>5, <2>2
    <3>2. a[2] \in Segments
      BY <1>8, <2>2
    <3>3. a[2].len \in Nat
      BY <3>2, Zenon DEF Segments
    <3>4. t[1] = a[2]
      BY <1>6, <3>1
    <3>5. Bytes(t) = a[2].len
      BY <3>1, <3>4 DEF Bytes
    <3>6. Bytes(a) = a[1].len + a[2].len
      BY <2>2 DEF Bytes
    <3> QED BY <1>5, <1>7, <3>3, <3>5, <3>6
  <2>3. \A n \in Nat \ {0} : n <= 2 => n = 1 \/ n = 2
    OBVIOUS
  <2>4. Len(a) = 1 \/ Len(a) = 2
    BY <1>4, <2>3, Zenon
  <2> QED BY <2>1, <2>2, <2>4, Zenon
<1>10. Len(t) <= 2
  BY <1>4, <1>5
<1> QED BY <1>5, <1>9, <1>10 DEF t, h

-----------------------------------------------------------------------------
(* A segment goes to the hardware *)

\* A transfer with something left to submit, at the byte that comes next.
At(w) ==
  /\ w.size \in Sizes /\ w.direction # "INVALID_DIR" /\ w.init_addr = 0
  /\ w.cyclic => w.direction \notin {"DEV_TO_MEM", "MEM_TO_MEM"}
  /\ w.remaining_size % 2 = 0 /\ 0 < w.remaining_size /\ w.remaining_size <= w.size
  /\ covered = w.size - w.remaining_size
  /\ Dma!Src(w) => w.next_src_addr = covered
  /\ Dma!Dest(w) => w.next_dest_addr = covered

\* Its next segment begins there and does not pass the end.
LEMMA NextContinues ==
  ASSUME Typed, NEW w \in Dmacs, At(w)
  PROVE  /\ Dma!Continues(Dma!Segment(w), w)
         /\ covered + Dma!Segment(w).len = w.size - (w.remaining_size - Dma!Segment(w).len)
<1>1. /\ Dma!Segment(w).src = IF Dma!Src(w) THEN w.next_src_addr ELSE 0
      /\ Dma!Segment(w).dest = IF Dma!Dest(w) THEN w.next_dest_addr ELSE 0
  BY SegmentOf
<1>2. Dma!Segment(w).len \in Nat /\ Dma!Segment(w).len <= w.remaining_size
  BY SegmentFits
<1>3. w.size \in Nat /\ w.remaining_size \in Nat /\ covered \in Nat
  BY DEF Typed, Dmacs
<1>4. covered = w.size - w.remaining_size /\ w.init_addr = 0
  BY DEF At
<1> DEFINE len == Dma!Segment(w).len
<1> HIDE DEF len
<1>5. covered + len <= w.size /\ covered + len = w.size - (w.remaining_size - len)
  BY <1>2, <1>3, <1>4 DEF len
<1>6. Dma!Src(w) => Dma!Segment(w).src = w.init_addr + covered
  BY <1>1, <1>3, <1>4 DEF At
<1>7. w.direction = "DEV_TO_MEM" => Dma!Segment(w).dest = w.init_addr + covered
  BY <1>1, <1>3, <1>4 DEF At, Dma!Dest
<1> QED BY <1>5, <1>6, <1>7 DEF Dma!Continues, len

\* The step of the driver that submits it, whether the driver then looks for the end.
Submission(w, e) ==
  /\ Dma!Submitted(Dma!Segment(w), w, torn, covered)
  /\ dmac' = e \/ (Dma!Ended(e) /\ dmac' = Dma!Finished(e))
  /\ UNCHANGED <<active, moved>>
  /\ pc' \in {"idle", "starting", "waiting", "ready", "failed"}
  /\ sot' \in BOOLEAN /\ eot' \in BOOLEAN

\* How the driver counts after it.
Counted(w, e) ==
  /\ SameDma(w, e)
  /\ e.remaining_size = w.remaining_size - Dma!Segment(w).len
  /\ e.remaining_size > 0 \/ w.cyclic =>
       /\ Dma!Src(w) => e.next_src_addr = w.next_src_addr + Dma!Segment(w).len
       /\ Dma!Dest(w) => e.next_dest_addr = w.next_dest_addr + Dma!Segment(w).len

LEMMA SubmissionType ==
  ASSUME Typed, NEW w \in Dmacs, NEW e \in Dmacs, Submission(w, e)
  PROVE  Typed'
<1>1. Dma!Segment(w) \in Segments
  BY SegmentOf
<1>2. queued' \in Seq(Segments) /\ Len(queued') = 1
  BY <1>1 DEF Submission, Dma!Submitted
<1>3. dmac' \in Dmacs
  BY FinishedAs DEF Submission
<1>4. Dma!Segment(w).len \in Nat
  BY SegmentFits
<1> DEFINE len == Dma!Segment(w).len
<1>5. covered' = 0 \/ covered' = covered + len
  BY DEF Submission, Dma!Submitted
<1> HIDE DEF len
<1>6. covered' \in Nat
  BY <1>4, <1>5 DEF len, Typed
<1>7. torn' \in BOOLEAN
  BY DEF Submission, Dma!Submitted
<1>8. /\ active' = active /\ moved' = moved /\ sot' \in BOOLEAN /\ eot' \in BOOLEAN
      /\ pc' \in {"idle", "starting", "waiting", "ready", "failed"}
  BY DEF Submission
<1> QED BY <1>2, <1>3, <1>6, <1>7, <1>8 DEF Typed

\* After it a transfer that is not cyclic is still cut straight.
LEMMA SubmissionStraight ==
  ASSUME Typed, NEW w \in Dmacs, NEW e \in Dmacs, At(w), Counted(w, e), Submission(w, e),
         ~w.cyclic, queued = <<>>, moved + Bytes(active) = covered
  PROVE  Straight'
<1> DEFINE len == Dma!Segment(w).len
           left == e.remaining_size
<1>1. len \in Nat /\ left \in Nat /\ left = w.remaining_size - len
  BY SegmentFits DEF Counted, Dmacs
<1>2. covered' = covered + len
  BY DEF Submission, Dma!Submitted
<1>3. covered + len = w.size - left
  BY NextContinues, <1>1
<1>4. /\ dmac'.remaining_size = left /\ dmac'.size = w.size
      /\ dmac'.direction = w.direction
  BY FinishedAs DEF Submission, Counted, SameDma
<1>5. left > 0 => dmac' = e
  BY <1>1 DEF Submission, Dma!Ended
<1>6. Bytes(queued') = len
  <2>1. queued' = <<Dma!Segment(w)>>
    BY DEF Submission, Dma!Submitted
  <2>2. Len(queued') = 1 /\ queued'[1] = Dma!Segment(w)
    BY <2>1
  <2> QED BY <2>2 DEF Bytes
<1>7. active' = active /\ moved' = moved /\ Bytes(active) \in Nat /\ moved \in Nat
  BY HeldNat DEF Submission, Typed
<1>8. left > 0 =>
        /\ Dma!Src(w) => e.next_src_addr = covered + len
        /\ Dma!Dest(w) => e.next_dest_addr = covered + len
  BY DEF Counted, At
<1>9. (Dma!Src(dmac'))  <=> Dma!Src(w)
  BY <1>4 DEF Dma!Src
<1>10. (Dma!Dest(dmac')) <=> Dma!Dest(w)
  BY <1>4 DEF Dma!Dest
<1> HIDE DEF len, left
<1>11. covered' = dmac'.size - dmac'.remaining_size
  BY <1>2, <1>3, <1>4
<1>12. moved' + Bytes(queued') + Bytes(active') = covered'
  BY <1>1, <1>2, <1>6, <1>7
<1>13. dmac'.remaining_size > 0 =>
         /\ Dma!Src(dmac') => dmac'.next_src_addr = covered'
         /\ Dma!Dest(dmac') => dmac'.next_dest_addr = covered'
  BY <1>2, <1>4, <1>5, <1>8, <1>9, <1>10, Zenon
<1> QED BY <1>11, <1>12, <1>13 DEF Straight, Dma!Src, Dma!Dest

\* A cyclic one has come round, or is still cut from its first byte.
LEMMA SubmissionRound ==
  ASSUME Typed, NEW w \in Dmacs, NEW e \in Dmacs, At(w), Counted(w, e), Submission(w, e),
         w.cyclic
  PROVE  Round'
<1> DEFINE len == Dma!Segment(w).len
           left == e.remaining_size
<1>1. len \in Nat /\ left \in Nat /\ left = w.remaining_size - len
  BY SegmentFits DEF Counted, Dmacs
<1>2. covered' = IF covered + len = w.size THEN 0 ELSE covered + len
  BY DEF Submission, Dma!Submitted
<1>3. covered + len = w.size - left /\ w.size \in Nat
  BY NextContinues, <1>1 DEF Dmacs
<1>4. w.direction = "MEM_TO_DEV"
  BY DEF At, Dmacs, Directions
<1>5. dmac' = e
  BY <1>4 DEF Submission, Dma!Ended, Counted, SameDma
<1>6. e.next_src_addr = covered + len /\ e.size = w.size
  BY <1>4 DEF Counted, At, Dma!Src, SameDma
<1> HIDE DEF len, left
<1>7. e.next_src_addr = e.size - left
  BY <1>3, <1>6
<1>8. covered' = IF left = 0 THEN 0 ELSE e.next_src_addr
  BY <1>1, <1>2, <1>3, <1>6
<1> QED BY <1>5, <1>7, <1>8 DEF Round, left

\* A submission continues the transfer and leaves it under way.
LEMMA SubmissionUnderWay ==
  ASSUME Typed, NEW w \in Dmacs, NEW e \in Dmacs, At(w), Counted(w, e), Submission(w, e),
         ~torn, queued = <<>>, ~sot', ~w.cyclic => moved + Bytes(active) = covered
  PROVE  ~torn' /\ UnderWay'
<1>1. ~torn'
  BY NextContinues DEF Submission, Dma!Submitted
<1>2. SameDma(w, dmac') /\ dmac'.remaining_size = e.remaining_size
  BY FinishedAs DEF Submission, Counted, SameDma
<1>3. queued' # <<>>
  BY DEF Submission, Dma!Submitted
<1>4. JustBegun' /\ dmac'.direction # "INVALID_DIR" /\ dmac'.init_addr = 0
  BY <1>2 DEF JustBegun, At, SameDma
<1>5. dmac'.remaining_size % 2 = 0 /\ dmac'.remaining_size < dmac'.size
  <2>1. /\ Dma!Segment(w).len \in Nat /\ Dma!Segment(w).len <= w.remaining_size
        /\ w.remaining_size > 0 => Dma!Segment(w).len > 0
        /\ w.remaining_size % 2 = 0 => (w.remaining_size - Dma!Segment(w).len) % 2 = 0
    BY SegmentFits
  <2>2. /\ dmac'.remaining_size = w.remaining_size - Dma!Segment(w).len
        /\ dmac'.size = w.size
    BY <1>2 DEF Counted, SameDma
  <2>3. w.remaining_size \in Nat /\ w.size \in Nat
    BY DEF Dmacs
  <2>4. w.remaining_size % 2 = 0 /\ 0 < w.remaining_size /\ w.remaining_size <= w.size
    BY DEF At
  <2> DEFINE len == Dma!Segment(w).len
  <2> HIDE DEF len
  <2> QED BY <2>1, <2>2, <2>3, <2>4 DEF len
<1>6. ~sot'
  OBVIOUS
<1>7. ~dmac'.cyclic => Straight'
  BY <1>2, SubmissionStraight DEF SameDma
<1>8. dmac'.cyclic => Round'
  BY <1>2, SubmissionRound DEF SameDma
<1> QED BY <1>1, <1>3, <1>4, <1>5, <1>6, <1>7, <1>8, Zenon DEF UnderWay

-----------------------------------------------------------------------------
(* The steps *)

LEMMA DmaInit ==
  ASSUME Dma!Init
  PROVE  DmaInv
<1>1. PICK c : c \in Caps /\ dmac = Dma!Detected(c)
  BY DEF Dma!Init
<1>2. dmac \in Dmacs
  <2>1. Dma!Direction(c) \in Directions
    BY DEF Dma!Direction, Directions
  <2>2. c.irq \in {k.irq : k \in Caps} /\ c.cyclic \in {k.cyclic : k \in Caps}
    BY <1>1
  <2> QED BY <1>1, <2>1, <2>2 DEF Dma!Detected, Dmacs
<1>3. Typed
  <2>1. queued = <<>> /\ active = <<>> /\ pc = "idle" /\ covered = 0 /\ moved = 0
    BY DEF Dma!Init
  <2>2. sot \in BOOLEAN /\ eot \in BOOLEAN /\ torn \in BOOLEAN
    BY Zenon DEF Dma!Init
  <2>3. /\ queued \in Seq(Segments) /\ Len(queued) <= 1
        /\ active \in Seq(Segments) /\ Len(active) <= 2
    BY <2>1
  <2> QED BY <1>2, <2>1, <2>2, <2>3 DEF Typed
<1>4. ~torn /\ Unstarted /\ UnderWay
  BY DEF Dma!Init, Unstarted, AtRest, UnderWay
<1> QED BY <1>3, <1>4 DEF DmaInv, Undisturbed

\* A start zeroes what is counted, and a transfer that meets a busy hardware is set apart.
LEMMA StartStep ==
  ASSUME DmaInv, Dma!Start
  PROVE  DmaInv'
<1>1. PICK size, cyclic :
        /\ size \in Sizes /\ cyclic \in BOOLEAN
        /\ dmac' = [dmac EXCEPT !.size = size, !.cyclic = cyclic, !.remaining_size = size,
                                !.next_src_addr = 0, !.next_dest_addr = 0]
        /\ disturbed' = (queued # <<>> \/ active # <<>> \/ sot \/ eot)
        /\ IF cyclic /\ (~dmac'.hw_cyclic \/ dmac'.direction \in {"DEV_TO_MEM", "MEM_TO_MEM"})
             THEN pc' = "failed" ELSE pc' = "starting"
        /\ covered' = 0 /\ moved' = 0 /\ torn' = FALSE
        /\ UNCHANGED <<queued, active, sot, eot>>
  BY Zenon DEF Dma!Start
<1>2. size \in Nat
  BY <1>1, DmaAssumption
<1>3. dmac' \in Dmacs
  BY <1>1, <1>2 DEF DmaInv, Typed, Dmacs
<1>4. /\ dmac'.size = size /\ dmac'.cyclic = cyclic /\ dmac'.remaining_size = size
      /\ dmac'.next_src_addr = 0 /\ dmac'.next_dest_addr = 0
  BY <1>1 DEF DmaInv, Typed, Dmacs
<1>5. pc' = "failed" \/ pc' = "starting"
  BY <1>1
<1>6. Typed'
  BY <1>1, <1>3, <1>5 DEF DmaInv, Typed
<1>7. ~disturbed' => AtRest'
  BY <1>1, Zenon DEF AtRest
<1>8. pc' = "starting" => JustBegun'
  BY <1>1, <1>4 DEF JustBegun
<1>9. ~disturbed' => Unstarted'
  BY <1>1, <1>4, <1>7, <1>8, Zenon DEF Unstarted
<1>10. UnderWay'
  BY <1>5 DEF UnderWay
<1> QED BY <1>1, <1>6, <1>9, <1>10 DEF DmaInv, Undisturbed

LEMMA StartNothingStep ==
  ASSUME DmaInv, Dma!StartNothing
  PROVE  DmaInv'
  BY DEF DmaInv, Typed, Undisturbed, Dma!StartNothing, Dma!hw

\* The wait changes nothing but where the caller is, or stops the core.
LEMMA WaitDoneStep ==
  ASSUME DmaInv, Dma!WaitDone
  PROVE  DmaInv'
<1>1. pc = "waiting" /\ pc' = "ready" /\ UNCHANGED <<dmac, queued, active, sot, eot>>
  BY DEF Dma!WaitDone, Dma!hw
<1>2. UNCHANGED <<covered, moved, torn, disturbed>>
  BY DEF Dma!WaitDone, Dma!hist
<1>3. Typed'
  BY <1>1, <1>2 DEF DmaInv, Typed
<1>4. UnderWay => UnderWay'
  BY <1>1, <1>2 DEF UnderWay, JustBegun, Straight, Round, Dma!Src, Dma!Dest
<1>5. Unstarted'
  BY <1>1 DEF Unstarted
<1> QED BY <1>2, <1>3, <1>4, <1>5 DEF DmaInv, Undisturbed

LEMMA WaitTimeoutStep ==
  ASSUME DmaInv, Dma!WaitTimeout
  PROVE  DmaInv'
  BY EmptySeq DEF DmaInv, Typed, Undisturbed, Dma!WaitTimeout

\* The hardware takes the waiting segment: its place is free when the interrupt comes.
LEMMA AcceptStep ==
  ASSUME DmaInv, Dma!Accept
  PROVE  DmaInv'
<1>1. /\ queued # <<>> /\ active' = active \o queued /\ queued' = <<>> /\ sot' = TRUE
      /\ Len(active) < 2 /\ UNCHANGED <<dmac, pc, eot>>
  BY DEF Dma!Accept
<1>2. UNCHANGED <<covered, moved, torn, disturbed>>
  BY DEF Dma!Accept, Dma!hist
<1>3. queued \in Seq(Segments) /\ active \in Seq(Segments) /\ Len(queued) <= 1
  BY DEF DmaInv, Typed
<1>4. Len(queued) = 1
  <2>1. Len(queued) \in Nat \ {0}
    BY <1>1, <1>3, EmptySeq, Zenon
  <2>2. \A n \in Nat \ {0} : n <= 1 => n = 1
    OBVIOUS
  <2> QED BY <1>3, <2>1, <2>2, Zenon
<1>5. /\ active' \in Seq(Segments) /\ Len(active') <= 2
      /\ Bytes(queued) \in Nat /\ Bytes(active) \in Nat
      /\ Bytes(active') = Bytes(queued) + Bytes(active)
  BY <1>1, <1>3, <1>4, HeldAppend
<1>6. queued' \in Seq(Segments) /\ Len(queued') <= 1 /\ Bytes(queued') = 0
  BY <1>1, EmptySeq DEF Bytes
<1>7. Typed'
  BY <1>1, <1>2, <1>5, <1>6 DEF DmaInv, Typed
<1>8. Unstarted => pc \notin {"idle", "starting", "failed"}
  BY <1>1 DEF Unstarted, AtRest
<1>9. Straight => Straight'
  <2>1. moved \in Nat
    BY DEF DmaInv, Typed
  <2>2. moved' + Bytes(queued') + Bytes(active') = moved + Bytes(queued) + Bytes(active)
    BY <1>2, <1>5, <1>6, <2>1
  <2> QED BY <1>1, <1>2, <2>2 DEF Straight, Dma!Src, Dma!Dest
<1>10. Round => Round'
  BY <1>1, <1>2 DEF Round
<1>11. UnderWay => UnderWay'
  BY <1>1, <1>9, <1>10 DEF UnderWay, JustBegun
<1> QED BY <1>1, <1>2, <1>7, <1>8, <1>11 DEF DmaInv, Undisturbed, Unstarted

\* A segment ends: its bytes have moved.
LEMMA CompleteStep ==
  ASSUME DmaInv, Dma!Complete
  PROVE  DmaInv'
<1>1. /\ active # <<>> /\ active' = Tail(active) /\ eot' = TRUE
      /\ moved' = IF disturbed \/ dmac.cyclic THEN moved ELSE moved + Head(active).len
      /\ UNCHANGED <<dmac, pc, queued, sot, covered, torn, disturbed>>
  BY DEF Dma!Complete
<1>2. /\ active' \in Seq(Segments) /\ Len(active') <= 2
      /\ Head(active).len \in Nat /\ Bytes(active') \in Nat
      /\ Head(active).len + Bytes(active') = Bytes(active)
  BY <1>1, HeldTail DEF DmaInv, Typed
<1>3. moved \in Nat /\ Bytes(queued) \in Nat
  BY HeldNat DEF DmaInv, Typed
<1>4. moved' \in Nat
  BY <1>1, <1>2, <1>3
<1>5. Typed'
  BY <1>1, <1>2, <1>4 DEF DmaInv, Typed
<1>6. Unstarted => pc \notin {"idle", "starting", "failed"}
  BY <1>1 DEF Unstarted, AtRest
<1>7. ~disturbed /\ ~dmac.cyclic /\ Straight => Straight'
  <2>1. ~disturbed /\ ~dmac.cyclic =>
          moved' + Bytes(queued) + Bytes(active') = moved + Bytes(queued) + Bytes(active)
    BY <1>1, <1>2, <1>3, SMTT(30)
  <2>2. Bytes(queued') = Bytes(queued)
    BY <1>1
  <2> QED BY <1>1, <2>1, <2>2 DEF Straight, Dma!Src, Dma!Dest
<1>8. Round => Round'
  BY <1>1 DEF Round
<1>9. ~disturbed /\ UnderWay => UnderWay'
  BY <1>1, <1>7, <1>8 DEF UnderWay, JustBegun
<1> QED BY <1>1, <1>5, <1>6, <1>9 DEF DmaInv, Undisturbed, Unstarted

\* The first segment goes to a hardware that rests.
LEMMA SubmitStep ==
  ASSUME DmaInv, Dma!Submit
  PROVE  DmaInv'
<1> DEFINE w == [dmac EXCEPT !.init_addr = IF Dma!Src(dmac) THEN dmac.next_src_addr
                                                           ELSE dmac.next_dest_addr]
           goes == queued = <<>> /\ dmac.direction # "INVALID_DIR"
<1>1. /\ pc = "starting" /\ UNCHANGED <<active, sot, eot, moved, disturbed>>
      /\ goes => /\ dmac' = Dma!Advanced(w) /\ pc' = "waiting"
                 /\ Dma!Submitted(Dma!Segment(w), w, torn, covered)
      /\ ~goes => pc' = "failed" /\ UNCHANGED <<dmac, queued, torn, covered>>
  BY DEF Dma!Submit
<1>2. Typed /\ (~disturbed => ~torn /\ Unstarted)
  BY DEF DmaInv, Undisturbed
<1>3. CASE ~goes
  <2>1. Typed'
    BY <1>1, <1>2, <1>3 DEF Typed
  <2>2. ~disturbed' => ~torn' /\ Unstarted' /\ UnderWay'
    BY <1>1, <1>2, <1>3 DEF Unstarted, AtRest, UnderWay
  <2> QED BY <2>1, <2>2 DEF DmaInv, Undisturbed
<1>4. CASE goes
  <2> DEFINE e == Dma!Advanced(w)
  <2>1. /\ w \in Dmacs
        /\ w.size = dmac.size /\ w.cyclic = dmac.cyclic /\ w.direction = dmac.direction
        /\ w.remaining_size = dmac.remaining_size
        /\ w.next_src_addr = dmac.next_src_addr /\ w.next_dest_addr = dmac.next_dest_addr
        /\ w.init_addr = IF Dma!Src(dmac) THEN dmac.next_src_addr ELSE dmac.next_dest_addr
    BY <1>2 DEF Typed, Dmacs
  <2>2. e \in Dmacs /\ Counted(w, e)
    BY <2>1, AdvancedBy DEF Counted
  <2> HIDE DEF w, goes
  <2>3. queued = <<>> /\ w.direction # "INVALID_DIR"
    BY <1>4, <2>1 DEF goes
  <2>4. sot \in BOOLEAN /\ eot' \in BOOLEAN
    BY <1>1, <1>2 DEF Typed
  <2>5. Submission(w, e)
    BY <1>1, <1>4, <2>4 DEF Submission
  <2>6. Typed'
    BY <1>2, <2>1, <2>2, <2>5, SubmissionType
  <2>7. CASE disturbed
    BY <1>1, <2>6, <2>7 DEF DmaInv, Undisturbed
  <2>8. CASE ~disturbed
    <3>1. /\ AtRest /\ covered = 0 /\ JustBegun /\ dmac.remaining_size = dmac.size /\ moved = 0
          /\ dmac.next_src_addr = 0 /\ dmac.next_dest_addr = 0 /\ ~torn
      BY <1>1, <1>2, <2>8 DEF Unstarted
    <3>2. w.size \in Sizes /\ w.size \in Nat /\ w.size > 0 /\ w.size % 2 = 0
      BY <2>1, <3>1, DmaAssumption DEF JustBegun
    <3>3. At(w)
      <4>1. covered = w.size - w.remaining_size
        BY <2>1, <3>1, <3>2
      <4>2. w.init_addr = 0
        BY <2>1, <3>1
      <4>3. w.cyclic => w.direction \notin {"DEV_TO_MEM", "MEM_TO_MEM"}
        BY <2>1, <3>1 DEF JustBegun
      <4>4. w.remaining_size % 2 = 0 /\ 0 < w.remaining_size /\ w.remaining_size <= w.size
        BY <2>1, <3>1, <3>2
      <4>5. w.next_src_addr = covered /\ w.next_dest_addr = covered
        BY <2>1, <3>1
      <4> QED BY <2>3, <3>2, <4>1, <4>2, <4>3, <4>4, <4>5 DEF At
    <3>4. moved + Bytes(active) = covered
      <4>1. active = <<>>
        BY <3>1 DEF AtRest
      <4>2. Bytes(active) = 0
        BY <4>1 DEF Bytes
      <4> QED BY <3>1, <4>2
    <3>5. ~sot'
      BY <1>1, <3>1 DEF AtRest
    <3>6. ~torn' /\ UnderWay'
      BY <1>2, <2>1, <2>2, <2>3, <2>5, <3>1, <3>3, <3>4, <3>5, SubmissionUnderWay
    <3>7. Unstarted'
      BY <1>1, <1>4 DEF Unstarted
    <3> QED BY <2>6, <3>6, <3>7 DEF DmaInv, Undisturbed
  <2> QED BY <2>7, <2>8
<1> QED BY <1>3, <1>4

\* When a segment has started, a cyclic transfer that is submitted to its end is at its
\* first byte again; sizes are even, so the comparison of addresses tells nothing else.
LEMMA CyclicGoesOn ==
  ASSUME Typed, UnderWay, pc \in {"waiting", "ready"}, dmac.cyclic
  PROVE  At(Dma!Rewound(dmac))
<1> DEFINE w == Dma!Rewound(dmac)
           left == dmac.remaining_size
           size == dmac.size
           next == dmac.next_src_addr
<1>1. /\ size \in Sizes /\ dmac.direction # "INVALID_DIR" /\ dmac.init_addr = 0
      /\ dmac.direction \notin {"DEV_TO_MEM", "MEM_TO_MEM"}
      /\ left % 2 = 0 /\ left < size /\ Round
  BY DEF UnderWay, JustBegun
<1>2. dmac.direction = "MEM_TO_DEV"
  BY <1>1 DEF Typed, Dmacs, Directions
<1>3. left \in Nat /\ size \in Nat /\ size > 0 /\ size % 2 = 0
  BY <1>1, DmaAssumption DEF Typed, Dmacs
<1>4. next = size - left /\ covered = IF left = 0 THEN 0 ELSE next
  BY <1>1 DEF Round
<1>5. w = IF next >= 0 + size - 1 THEN [dmac EXCEPT !.remaining_size = size, !.next_src_addr = 0]
                                  ELSE dmac
  BY <1>1, <1>2 DEF Dma!Rewound
<1>6. w \in Dmacs /\ SameDma(dmac, w)
  BY RewoundTo DEF Typed
<1>7. CASE left = 0
  <2>1. w = [dmac EXCEPT !.remaining_size = size, !.next_src_addr = 0]
    BY <1>3, <1>4, <1>5, <1>7
  <2>2. w.remaining_size = size /\ w.next_src_addr = 0
    BY <2>1 DEF Typed, Dmacs
  <2>3. w.size = size /\ covered = 0
    BY <1>4, <1>6, <1>7 DEF SameDma
  <2> HIDE DEF w, left, size, next
  <2>4. covered = w.size - w.remaining_size /\ w.remaining_size % 2 = 0
        /\ 0 < w.remaining_size /\ w.remaining_size <= w.size
    BY <1>3, <2>2, <2>3
  <2> QED BY <1>1, <1>2, <1>6, <2>2, <2>3, <2>4 DEF At, SameDma, Dma!Dest, w, size
<1>8. CASE left # 0
  <2>1. w = dmac
    BY <1>1, <1>3, <1>4, <1>5, <1>8
  <2>2. covered = size - left /\ next = covered /\ 0 < left /\ left <= size
    BY <1>1, <1>3, <1>4, <1>8
  <2> QED BY <1>1, <1>2, <2>1, <2>2 DEF At, Dma!Dest
<1> QED BY <1>7, <1>8

\* One that is not cyclic stays where it is.
LEMMA StraightGoesOn ==
  ASSUME Typed, UnderWay, pc \in {"waiting", "ready"}, ~dmac.cyclic
  PROVE  /\ Dma!Rewound(dmac) = dmac
         /\ dmac.remaining_size > 0 => At(dmac)
<1>1. Dma!Rewound(dmac) = dmac
  BY DEF Dma!Rewound
<1>2. /\ dmac.size \in Sizes /\ dmac.direction # "INVALID_DIR" /\ dmac.init_addr = 0
      /\ dmac.remaining_size % 2 = 0 /\ dmac.remaining_size < dmac.size /\ Straight
  BY DEF UnderWay, JustBegun
<1>3. dmac.remaining_size \in Nat /\ dmac.size \in Nat
  BY DEF Typed, Dmacs
<1>4. dmac.remaining_size <= dmac.size
  BY <1>2, <1>3
<1> QED BY <1>1, <1>2, <1>4 DEF At, Straight

\* The interrupt: it submits the next segment, or finds nothing left.
LEMMA IsrStep ==
  ASSUME DmaInv, Dma!Isr
  PROVE  DmaInv'
<1> DEFINE w == IF sot THEN Dma!Rewound(dmac) ELSE dmac
           goOn == sot /\ w.remaining_size > 0
           d == IF goOn THEN Dma!Followed(w) ELSE w
<1>1. /\ sot \/ eot
      /\ sot' = FALSE /\ eot' = FALSE
      /\ dmac' = IF eot /\ Dma!Ended(d) THEN Dma!Finished(d) ELSE d
      /\ IF goOn THEN Dma!Submitted(Dma!Segment(w), w, torn, covered)
                 ELSE UNCHANGED <<queued, torn, covered>>
      /\ UNCHANGED <<pc, active, moved, disturbed>>
  BY DEF Dma!Isr
<1>2. Typed
  BY DEF DmaInv
<1>3. ~disturbed => /\ pc \in {"waiting", "ready"} /\ UnderWay /\ ~torn
  BY <1>1, <1>2, Zenon DEF DmaInv, Undisturbed, Unstarted, AtRest, Typed
<1>4. w \in Dmacs /\ SameDma(dmac, w)
  BY <1>2, RewoundTo DEF Typed, SameDma
<1>5. Unstarted' \/ pc \in {"idle", "starting", "failed"}
  BY <1>1 DEF Unstarted
<1>6. sot' \in BOOLEAN /\ eot' \in BOOLEAN
  BY <1>1, Zenon
<1>7. CASE goOn
  <2> DEFINE e == Dma!Followed(w)
  <2>1. e \in Dmacs /\ SameDma(w, e)
    BY <1>4, FollowedBy
  <2>2. dmac' = e \/ (Dma!Ended(e) /\ dmac' = Dma!Finished(e))
    BY <1>1, <1>7
  <2>3. sot /\ w.remaining_size > 0 /\ w = Dma!Rewound(dmac)
    BY <1>7
  <2>4. Dma!Submitted(Dma!Segment(w), w, torn, covered)
    BY <1>1, <1>7
  <2> HIDE DEF w, e, d, goOn
  <2>5. Submission(w, e)
    BY <1>1, <1>2, <1>6, <2>2, <2>4 DEF Submission, Typed
  <2>6. Typed'
    BY <1>2, <1>4, <2>1, <2>5, SubmissionType
  <2>7. ASSUME ~disturbed
        PROVE  ~torn' /\ UnderWay' /\ Unstarted'
    <3>1. pc \in {"waiting", "ready"} /\ UnderWay /\ ~torn
      BY <1>3, <2>7
    <3>2. At(w)
      <4>1. CASE dmac.cyclic
        BY <1>2, <2>3, <3>1, <4>1, CyclicGoesOn
      <4>2. CASE ~dmac.cyclic
        BY <1>2, <2>3, <3>1, <4>2, StraightGoesOn
      <4> QED BY <4>1, <4>2
    <3>3. w.cyclic => w.direction = "MEM_TO_DEV"
      BY <1>4, <3>2 DEF At, Dmacs, Directions
    <3>4. Counted(w, e)
      <4>1. Dma!Advanced(w) \in Dmacs /\ Dma!Advanced(w).remaining_size = w.remaining_size - Dma!Segment(w).len
            /\ (Dma!Src(w) => Dma!Advanced(w).next_src_addr = w.next_src_addr + Dma!Segment(w).len)
            /\ (Dma!Dest(w) => Dma!Advanced(w).next_dest_addr = w.next_dest_addr + Dma!Segment(w).len)
        BY <1>4, AdvancedBy
      <4>2. /\ e.remaining_size = Dma!Advanced(w).remaining_size
            /\ e.next_dest_addr = Dma!Advanced(w).next_dest_addr
            /\ w.direction = "MEM_TO_DEV" \/ Dma!Advanced(w).remaining_size # 0 =>
                 e.next_src_addr = Dma!Advanced(w).next_src_addr
        BY <1>4, FollowedBy DEF e
      <4>3. e.remaining_size > 0 \/ w.cyclic =>
              w.direction = "MEM_TO_DEV" \/ Dma!Advanced(w).remaining_size # 0
        BY <3>3, <4>2
      <4> QED BY <2>1, <4>1, <4>2, <4>3 DEF Counted
    <3>5. queued = <<>> /\ ~sot'
      BY <1>1, <2>3, <3>1 DEF UnderWay
    <3>6. ~w.cyclic => moved + Bytes(active) = covered
      <4>1. Bytes(queued) = 0
        BY <3>5 DEF Bytes
      <4>2. moved \in Nat /\ Bytes(active) \in Nat
        BY <1>2, HeldNat DEF Typed
      <4>3. ~w.cyclic => moved + Bytes(queued) + Bytes(active) = covered
        BY <1>4, <3>1 DEF UnderWay, Straight, SameDma
      <4> QED BY <4>1, <4>2, <4>3
    <3>7. ~torn' /\ UnderWay'
      BY <1>2, <1>4, <2>1, <2>5, <3>1, <3>2, <3>4, <3>5, <3>6, SubmissionUnderWay
    <3> QED BY <1>5, <3>1, <3>7
  <2> QED BY <1>1, <2>6, <2>7 DEF DmaInv, Undisturbed
<1>8. CASE ~goOn
  <2>1. UNCHANGED <<queued, torn, covered>>
    BY <1>1, <1>8
  <2>2. dmac' = w \/ (Dma!Ended(w) /\ dmac' = Dma!Finished(w))
    BY <1>1, <1>8
  <2>3. sot => w = Dma!Rewound(dmac) /\ ~(w.remaining_size > 0)
    BY <1>8
  <2>4. ~sot => w = dmac
    OBVIOUS
  <2> HIDE DEF w, d, goOn
  <2>5. dmac' \in Dmacs /\ SameDma(w, dmac') /\ dmac'.remaining_size = w.remaining_size
    BY <1>4, <2>2, FinishedAs DEF SameDma
  <2>6. Typed'
    BY <1>1, <1>2, <1>6, <2>1, <2>5 DEF Typed
  <2>7. ASSUME ~disturbed
        PROVE  ~torn' /\ UnderWay' /\ Unstarted'
    <3>1. pc \in {"waiting", "ready"} /\ UnderWay /\ ~torn
      BY <1>3, <2>7
    <3>2. sot => ~dmac.cyclic /\ ~(dmac.remaining_size > 0)
      <4>1. sot /\ dmac.cyclic => 0 < w.remaining_size
        BY <1>2, <2>3, <3>1, CyclicGoesOn DEF At
      <4>2. \A n \in Nat : 0 < n => n > 0
        OBVIOUS
      <4>3. w.remaining_size \in Nat
        BY <1>4 DEF Dmacs
      <4>4. sot => ~dmac.cyclic
        BY <2>3, <4>1, <4>2, <4>3, Zenon
      <4> QED BY <1>2, <2>3, <3>1, <4>4, StraightGoesOn
    <3>3. w = dmac
      BY <1>2, <2>3, <2>4, <3>1, <3>2, StraightGoesOn
    <3>4. SameDma(dmac, dmac') /\ dmac'.remaining_size = dmac.remaining_size
      BY <2>5, <3>3
    <3>5. dmac.remaining_size > 0 \/ dmac.cyclic => dmac' = dmac
      <4>1. dmac.cyclic => dmac.direction = "MEM_TO_DEV"
        BY <1>2, <3>1 DEF UnderWay, JustBegun, Typed, Dmacs, Directions
      <4> QED BY <2>2, <3>3, <4>1 DEF Dma!Ended
    <3>6. JustBegun' /\ dmac'.direction # "INVALID_DIR" /\ dmac'.init_addr = 0
      BY <3>1, <3>4 DEF UnderWay, JustBegun, SameDma
    <3>7. dmac'.remaining_size % 2 = 0 /\ dmac'.remaining_size < dmac'.size
      BY <3>1, <3>4 DEF UnderWay, SameDma
    <3>8. dmac'.remaining_size > 0 \/ dmac'.cyclic => queued' # <<>>
      BY <2>1, <3>1, <3>2, <3>4, Zenon DEF UnderWay, SameDma
    <3>9. ~dmac'.cyclic => Straight'
      <4>1. ~dmac'.cyclic => Straight
        BY <3>1, <3>4 DEF UnderWay, SameDma
      <4>2. Straight => Straight'
        BY <1>1, <2>1, <3>4, <3>5 DEF Straight, SameDma
      <4> QED BY <4>1, <4>2
    <3>10. dmac'.cyclic => Round'
      BY <2>1, <3>1, <3>4, <3>5 DEF UnderWay, Round, SameDma
    <3>11. UnderWay'
      BY <1>1, <3>6, <3>7, <3>8, <3>9, <3>10, Zenon DEF UnderWay
    <3> QED BY <1>5, <2>1, <3>1, <3>11
  <2> QED BY <1>1, <2>6, <2>7 DEF DmaInv, Undisturbed
<1> QED BY <1>7, <1>8

LEMMA DmaStep ==
  ASSUME DmaInv, [Dma!Next]_dmaVars
  PROVE  DmaInv'
<1>1. CASE UNCHANGED dmaVars
  <2>1. UNCHANGED <<dmac, pc, queued, active, sot, eot, covered, moved, torn, disturbed>>
    BY <1>1 DEF dmaVars
  <2>2. Typed'
    BY <2>1 DEF DmaInv, Typed
  <2>3. Unstarted => Unstarted'
    BY <2>1 DEF Unstarted, AtRest, JustBegun
  <2>4. UnderWay => UnderWay'
    BY <2>1 DEF UnderWay, JustBegun, Straight, Round, Dma!Src, Dma!Dest
  <2> QED BY <2>1, <2>2, <2>3, <2>4 DEF DmaInv, Undisturbed
<1> QED BY <1>1, IsrStep, StartStep, StartNothingStep, SubmitStep, WaitDoneStep,
           WaitTimeoutStep, AcceptStep, CompleteStep DEF Dma!Next

-----------------------------------------------------------------------------

\* A long transfer is submitted in segments that follow one another from its first byte
\* to its last, and once the hardware is at rest nothing of it is left behind: for cores
\* of any kind, with any even number of bytes at once, and transfers of any even size.
THEOREM SegmentsHold == Spec => []SegmentsTile
<1> DEFINE I == unit = "dma" => DmaInv
<1>1. Init => I
  BY DmaInit DEF Init
<1>2. I /\ [Next]_vars => I'
  <2> SUFFICES ASSUME I, [Next]_vars, unit' = "dma"
               PROVE  DmaInv'
    OBVIOUS
  <2>1. unit = "dma" /\ [Dma!Next]_dmaVars
    BY DEF Next, Calls, Transfers, vars
  <2> QED BY <2>1, DmaStep
<1>3. I => SegmentsTile
  <2> SUFFICES ASSUME DmaInv, ~disturbed
               PROVE  /\ ~torn
                      /\ pc = "waiting" /\ ~sot /\ queued = <<>> /\ active = <<>>
                           => covered = dmac.size /\ moved = dmac.size
    BY DEF SegmentsTile, Dma!SegmentsTile
  <2>1. Typed /\ ~torn /\ UnderWay
    BY DEF DmaInv, Undisturbed
  <2>2. ASSUME pc = "waiting", ~sot, queued = <<>>, active = <<>>
        PROVE  covered = dmac.size /\ moved = dmac.size
    <3>1. ~(dmac.remaining_size > 0) /\ ~dmac.cyclic
      BY <2>1, <2>2, Zenon DEF UnderWay
    <3>2. dmac.remaining_size = 0 /\ dmac.size \in Nat /\ moved \in Nat
      BY <2>1, <3>1 DEF Typed, Dmacs
    <3>3. Straight
      BY <2>1, <2>2, <3>1 DEF UnderWay
    <3>4. Bytes(queued) = 0 /\ Bytes(active) = 0
      BY <2>2 DEF Bytes
    <3> QED BY <3>2, <3>3, <3>4 DEF Straight
  <2> QED BY <2>1, <2>2
<1> QED BY <1>1, <1>2, <1>3, PTL DEF Spec
-----------------------------------------------------------------------------
(* What the tuning of a radio depends on *)

TunedFields == {"rc", "reg", "chip", "clks", "lo_clk", "current_table", "use_ext_lo",
                "port_delay", "fastlock", "current_lo_freq", "bypass_rx_fir", "bypass_tx_fir",
                "split_gt", "dev_sel", "rx_synth_freq", "dig_interface_tune_skipmode",
                "hdl_dac_version", "rf_rx_input_sel"}
TunedRegisters == {"DELAY", "SYNTH"}

\* What a phy has for that in every state of every call.
Built(s) ==
  /\ TunedFields \subseteq DOMAIN s
  /\ TunedRegisters \subseteq DOMAIN s.reg
  /\ DOMAIN s.clks = DOMAIN Radio!parents
  /\ DOMAIN s.use_ext_lo = Radio!Sides /\ DOMAIN s.current_lo_freq = Radio!Sides
  /\ DOMAIN s.reg.DELAY = Radio!Sides /\ DOMAIN s.port_delay = Radio!Sides
  /\ s.hdl_dac_version \in Nat /\ s.rf_rx_input_sel \in Nat

\* The LO of the receiver has not been set, if it is the chip's.
NoLo(ext, lo, synth, locks) ==
  ~ext.rx => /\ lo.rx = 0 /\ synth.rx = [vco |-> 0, div |-> 0]
             /\ locks.current_profile.rx = 0

LoUnset(s) == NoLo(s.use_ext_lo, s.lo_clk, s.reg.SYNTH, s.fastlock)

\* The delays in force, and those to come back to, are in the eye.
Both(chip, delay, port) ==
  \A side \in Radio!Sides : /\ delay[side][2] - delay[side][1] \in chip.eye[side]
                            /\ port[side][2] - port[side][1] \in chip.eye[side]

Eyed(s) == Both(s.chip, s.reg.DELAY, s.port_delay)

\* From s to t the parts of the phy that P names are as they were, or as well as they
\* were, with what the board has asked for and what the chip does.
Keeps(P, s, t) ==
  /\ Built(t)
  /\ t.chip = s.chip /\ t.split_gt = s.split_gt
  /\ t.dev_sel = s.dev_sel /\ t.rx_synth_freq = s.rx_synth_freq
  /\ t.dig_interface_tune_skipmode = s.dig_interface_tune_skipmode
  /\ "table" \in P => t.current_table = s.current_table
  /\ "ext" \in P => t.use_ext_lo = s.use_ext_lo
  /\ "lo" \in P => t.current_lo_freq.rx = s.current_lo_freq.rx
  /\ "bypass" \in P =>
       t.bypass_rx_fir = s.bypass_rx_fir /\ t.bypass_tx_fir = s.bypass_tx_fir
  /\ "delays" \in P => t.reg.DELAY = s.reg.DELAY /\ t.port_delay = s.port_delay
  /\ "quiet" \in P => (LoUnset(s) => LoUnset(t))
  /\ "eyed" \in P => (Eyed(s) => Eyed(t))

LEMMA KeepsFacts ==
  /\ \A P, s : Built(s) => Keeps(P, s, s)
  /\ \A P, s, t : Keeps(P, s, t) => Built(t) /\ Keeps(P, t, t)
  /\ \A P, s, t, u : Keeps(P, s, t) /\ Keeps(P, t, u) => Keeps(P, s, u)
  /\ \A P, Q, s, t : Keeps(P, s, t) /\ Q \subseteq P => Keeps(Q, s, t)
<1>1. \A P, s, t, u : Keeps(P, s, t) /\ Keeps(P, t, u) => Keeps(P, s, u)
  BY DEF Keeps
<1>2. \A P, Q, s, t : Keeps(P, s, t) /\ Q \subseteq P => Keeps(Q, s, t)
  BY DEF Keeps
<1>3. (\A P, s : Built(s) => Keeps(P, s, s)) /\ \A P, s, t : Keeps(P, s, t) => Keeps(P, t, t)
  BY DEF Keeps
<1> QED BY <1>1, <1>2, <1>3 DEF Keeps

\* Two phys between which nothing has changed that the tuning depends on.
SameAsked(s, t) ==
  /\ t.chip = s.chip /\ t.split_gt = s.split_gt
  /\ t.dev_sel = s.dev_sel /\ t.rx_synth_freq = s.rx_synth_freq
  /\ t.dig_interface_tune_skipmode = s.dig_interface_tune_skipmode

SameNotes(s, t) ==
  /\ DOMAIN t = DOMAIN s /\ t.clks = s.clks /\ t.lo_clk = s.lo_clk
  /\ t.current_table = s.current_table
  /\ t.use_ext_lo = s.use_ext_lo /\ t.port_delay = s.port_delay /\ t.fastlock = s.fastlock
  /\ t.current_lo_freq = s.current_lo_freq
  /\ t.bypass_rx_fir = s.bypass_rx_fir /\ t.bypass_tx_fir = s.bypass_tx_fir
  /\ t.hdl_dac_version = s.hdl_dac_version /\ t.rf_rx_input_sel = s.rf_rx_input_sel

SameRegisters(s, t) ==
  /\ DOMAIN t.reg = DOMAIN s.reg /\ t.reg.DELAY = s.reg.DELAY /\ t.reg.SYNTH = s.reg.SYNTH

Untouched(s, t) == SameAsked(s, t) /\ SameNotes(s, t) /\ SameRegisters(s, t)

LEMMA AlikeKeeps ==
  ASSUME NEW P, NEW s, NEW t, Keeps(P, s, t), NEW u, Untouched(t, u)
  PROVE  Keeps(P, s, u)
<1>1. LoUnset(u) = LoUnset(t)
  BY Zenon DEF Untouched, SameAsked, SameNotes, SameRegisters, LoUnset
<1>2. Eyed(u) = Eyed(t)
  BY Zenon DEF Untouched, SameAsked, SameNotes, SameRegisters, Eyed
<1>3. Built(u)
  BY DEF Keeps, Built, Untouched, SameAsked, SameNotes, SameRegisters
<1> QED BY <1>1, <1>2, <1>3, SMTT(60) DEF Keeps, Untouched, SameAsked, SameNotes, SameRegisters

USE DEF Keeps, Built, TunedFields, TunedRegisters, LoUnset, Eyed, Radio!Result

LEMMA ResultKeeps ==
  ASSUME NEW P, NEW s, NEW t, Keeps(P, s, t), NEW u, Keeps(P, s, u), NEW rc
  PROVE  Keeps(P, s, Radio!Result(t, rc)) /\ Keeps(P, s, Radio!IfOk(t, u))
  BY DEF Radio!IfOk

LEMMA CalKeeps ==
  ASSUME NEW P, NEW s, NEW t, Keeps(P, s, t), NEW x
  PROVE  /\ Keeps(P, s, Radio!run_calibration(t, x))
         /\ Keeps(P, s, Radio!rx_tia_calib(t, x))
         /\ Keeps(P, s, Radio!tx_bb_second_filter_calib(t, x))
         /\ Keeps(P, s, Radio!bb_dc_offset_calib(t))
         /\ Keeps(P, s, Radio!rf_dc_offset_calib(t))
         /\ Keeps(P, s, Radio!tracking_control(t, x))
  BY DEF Radio!run_calibration,
         Radio!rx_tia_calib, Radio!tx_bb_second_filter_calib,
         Radio!bb_dc_offset_calib, Radio!rf_dc_offset_calib, Radio!tracking_control

LEMMA FilterKeeps ==
  ASSUME NEW P, NEW s, NEW t, Keeps(P, s, t), NEW x
  PROVE  /\ Keeps(P, s, Radio!rx_bb_analog_filter_calib(t, x))
         /\ Keeps(P, s, Radio!tx_bb_analog_filter_calib(t, x))
         /\ Keeps(P, s, Radio!rx_adc_setup(t))
  BY DEF Radio!run_calibration, Radio!rx_bb_analog_filter_calib, Radio!tx_bb_analog_filter_calib,
         Radio!rx_adc_setup

LEMMA QuadRunKeeps ==
  ASSUME NEW P, NEW s, NEW t, Keeps(P, s, t), NEW x
  PROVE  Keeps(P, s, Radio!QuadCal(t, x).s)
<1> DEFINE ran == Radio!run_calibration(t, "TX_QUAD_CAL")
<1>1. Keeps(P, s, ran)
  <2> HIDE DEF Keeps
  <2> QED BY CalKeeps
<1>2. Radio!QuadCal(t, x).s = [ran EXCEPT !.reg.QUAD_PHASE = x]
  BY DEF Radio!QuadCal
<1> HIDE DEF ran
<1> QED BY <1>1, <1>2

LEMMA PhaseKeeps ==
  ASSUME NEW P, NEW s, NEW t, Keeps(P, s, t), NEW x
  PROVE  Keeps(P, s, [t EXCEPT !.last_tx_quad_cal_phase = x])
  OBVIOUS

LEMMA LoOffKeeps ==
  ASSUME NEW P, NEW s, NEW t, Keeps(P, s, t), NEW x
  PROVE  /\ Keeps(P, s, [t EXCEPT !.reg.LO_OFF = x])
         /\ Keeps(P, s, [t EXCEPT !.reg.LO_OFF.tx = x, !.rc = "ok"])
  OBVIOUS

LEMMA WidthsKeep ==
  ASSUME NEW P, NEW s, NEW t, Keeps(P, s, t), NEW x, NEW y
  PROVE  Keeps(P, s, Radio!WidthsNoted(t, x, y))
  BY DEF Radio!WidthsNoted, Radio!IfOk

LEMMA GainKeeps ==
  ASSUME NEW P, NEW s, NEW t, Keeps(P, s, t), NEW x, NEW y
  PROVE  /\ Keeps(P, s, Radio!setup_ext_lna(t))
         /\ Keeps(P, s, Radio!load_mixer_gm_subtable(t))
         /\ Keeps(P, s, Radio!en_dis_rx(t, x, y))
         /\ Keeps(P, s, Radio!set_tx_atten(t, x, y))
         /\ Keeps(P, s, Radio!auxadc_setup(t))
         /\ Keeps(P, s, Radio!synth_lo_powerdown(t, x, y))
<1>1. Keeps(P, s, Radio!setup_ext_lna(t)) /\ Keeps(P, s, Radio!auxadc_setup(t))
  BY DEF Radio!setup_ext_lna, Radio!auxadc_setup
<1>2. Keeps(P, s, Radio!load_mixer_gm_subtable(t)) /\ Keeps(P, s, Radio!en_dis_rx(t, x, y))
  BY DEF Radio!load_mixer_gm_subtable, Radio!en_dis_rx
<1>3. Keeps(P, s, Radio!set_tx_atten(t, x, y))
  BY DEF Radio!set_tx_atten
<1>4. Keeps(P, s, Radio!synth_lo_powerdown(t, x, y))
  BY DEF Radio!synth_lo_powerdown
<1> QED BY <1>1, <1>2, <1>3, <1>4

LEMMA TableKeeps ==
  ASSUME NEW P, NEW s, NEW t, Keeps(P, s, t), NEW x, NEW y, "table" \notin P
  PROVE  Keeps(P, s, Radio!LoadTable(t, x, y))
<1> DEFINE band == [t EXCEPT !.current_table = x]
<1>1. Keeps(P, s, band)
  OBVIOUS
<1>2. ASSUME NEW full, NEW tab, NEW gains
      PROVE  Untouched(band, [t EXCEPT !.rc = "ok", !.current_table = x, !.reg.GAIN_TABLE = x,
                                   !.reg.USE_FULL_GAIN_TABLE = full,
                                   !.tx_quad_lpf_tia_match = tab, !.reg.RX_GAIN_IDX = gains])
  <2> DEFINE u == [t EXCEPT !.rc = "ok", !.current_table = x, !.reg.GAIN_TABLE = x,
                            !.reg.USE_FULL_GAIN_TABLE = full,
                            !.tx_quad_lpf_tia_match = tab, !.reg.RX_GAIN_IDX = gains]
  <2>1. SameAsked(band, u)
    BY DEF SameAsked
  <2>2. SameNotes(band, u)
    BY DEF SameNotes
  <2>3. SameRegisters(band, u)
    BY DEF SameRegisters
  <2> QED BY <2>1, <2>2, <2>3 DEF Untouched
<1> HIDE DEF Keeps, band
<1> QED BY <1>1, <1>2, AlikeKeeps, Zenon DEF Radio!LoadTable

LEMMA TimingKeeps ==
  ASSUME NEW P, NEW s, NEW t, Keeps(P, s, t), NEW x
  PROVE  Keeps(P, s, Radio!gc_update(t)) /\ Keeps(P, s, Radio!rssi_setup(t, x))
  BY DEF Radio!gc_update, Radio!rssi_setup

LEMMA GainSetKeeps ==
  ASSUME NEW P, NEW s, NEW t, Keeps(P, s, t), NEW r, NEW g
  PROVE  /\ Keeps(P, s, Radio!set_split_table_gain(t, r, g))
         /\ Keeps(P, s, Radio!set_full_table_gain(t, r, g))
<1>1. Keeps(P, s, Radio!set_split_table_gain(t, r, g))
  BY SMTT(60) DEF Radio!set_split_table_gain
<1>2. Keeps(P, s, Radio!set_full_table_gain(t, r, g))
  BY SMTT(60) DEF Radio!set_full_table_gain
<1> HIDE DEF Keeps
<1> QED BY <1>1, <1>2

LEMMA AgcKeeps ==
  ASSUME NEW P, NEW s, NEW t, Keeps(P, s, t), NEW r, NEW g, NEW h
  PROVE  Keeps(P, s, [t EXCEPT !.reg.AGC_MODE[r] = g, !.reg.HYBRID = h])
<1> DEFINE u == [t EXCEPT !.reg.AGC_MODE[r] = g, !.reg.HYBRID = h]
<1>1. SameAsked(t, u)
  BY DEF SameAsked
<1>2. SameNotes(t, u)
  BY DEF SameNotes
<1>3. SameRegisters(t, u)
  BY DEF SameRegisters
<1>5. Untouched(t, u)
  BY <1>1, <1>2, <1>3 DEF Untouched
<1> HIDE DEF Keeps, u
<1>6. Keeps(P, s, u)
  BY <1>5, AlikeKeeps
<1> QED BY <1>6 DEF u

HIDE DEF Keeps, Built, TunedFields, TunedRegisters, LoUnset, Eyed, Radio!Result

-----------------------------------------------------------------------------
(* The state machine, the patterns and the delays of the interface *)

LEMMA ConfigureKeeps ==
  ASSUME NEW P, NEW s, NEW t, Keeps(P, s, t), NEW bits
  PROVE  Keeps(P, s, Radio!Configure(t, bits))
<1> DEFINE state == Radio!Moved(t, bits)
           u == [t EXCEPT !.reg.ENSM_CONFIG_1 = bits, !.reg.STATE = state]
<1>1. Radio!Configure(t, bits) = u
  BY Zenon DEF Radio!Configure
<1> HIDE DEF state
<1>2. Untouched(t, u)
  <2> USE DEF Keeps, Built, TunedFields, TunedRegisters
  <2>1. SameAsked(t, u)
    BY DEF SameAsked
  <2>2. SameNotes(t, u)
    BY DEF SameNotes
  <2>3. SameRegisters(t, u)
    BY DEF SameRegisters
  <2> QED BY <2>1, <2>2, <2>3 DEF Untouched
<1> QED BY <1>1, <1>2, AlikeKeeps, Zenon

LEMMA NotesKeep ==
  ASSUME NEW P, NEW s, NEW t, Keeps(P, s, t), NEW x
  PROVE  /\ Keeps(P, s, [t EXCEPT !.prev_ensm_state = x])
         /\ Keeps(P, s, [t EXCEPT !.ensm_pin_ctl_en = x])
         /\ Keeps(P, s, [t EXCEPT !.curr_ensm_state = x])
         /\ Keeps(P, s, [t EXCEPT !.curr_ensm_state = x, !.rc = "ok"])
         /\ Keeps(P, s, [t EXCEPT !.reg.TXNRX = x])
         /\ Keeps(P, s, [t EXCEPT !.reg.VCO_CAL = x])
         /\ Keeps(P, s, [t EXCEPT !.fdd_independent_mode = x])
         /\ Keeps(P, s, [t EXCEPT !.reg.R1_MODE = x])
<1> USE DEF Keeps, Built, TunedFields, TunedRegisters, LoUnset, Eyed
<1>1. /\ Keeps(P, s, [t EXCEPT !.prev_ensm_state = x])
      /\ Keeps(P, s, [t EXCEPT !.ensm_pin_ctl_en = x])
  OBVIOUS
<1>2. /\ Keeps(P, s, [t EXCEPT !.curr_ensm_state = x])
      /\ Keeps(P, s, [t EXCEPT !.curr_ensm_state = x, !.rc = "ok"])
  OBVIOUS
<1>3. Keeps(P, s, [t EXCEPT !.reg.TXNRX = x]) /\ Keeps(P, s, [t EXCEPT !.reg.R1_MODE = x])
  OBVIOUS
<1>4. /\ Keeps(P, s, [t EXCEPT !.reg.VCO_CAL = x])
      /\ Keeps(P, s, [t EXCEPT !.fdd_independent_mode = x])
  OBVIOUS
<1> HIDE DEF Keeps
<1> QED BY <1>1, <1>2, <1>3, <1>4

LEMMA ForceKeeps ==
  ASSUME NEW P, NEW s, NEW t, Keeps(P, s, t), NEW to
  PROVE  Keeps(P, s, Radio!ensm_force_state(t, to))
<1> DEFINE cfg == t.reg.ENSM_CONFIG_1
           seen == [t EXCEPT !.prev_ensm_state = t.reg.STATE]
           taken == [seen EXCEPT !.ensm_pin_ctl_en = "PIN_CTRL" \in cfg]
           left == (cfg \ {"PIN_CTRL"}) \ (IF t.reg.STATE # "SLEEP_WAIT" THEN {"TO_ALERT"} ELSE {})
           bits == IF to = "ALERT" THEN (left \ Radio!ForceBits) \cup Radio!ToAlert
                   ELSE left \cup Radio!ForcedOn(to)
           shifted == Radio!Configure(Radio!Configure(taken, Radio!ToAlert), bits)
<1>1. Keeps(P, s, seen)
  BY NotesKeep
<1>2. Keeps(P, s, taken)
  <2> HIDE DEF seen
  <2> QED BY <1>1, NotesKeep
<1>3. Keeps(P, s, shifted)
  <2> HIDE DEF taken, bits
  <2> QED BY <1>2, ConfigureKeeps
<1>4. Radio!ensm_force_state(t, to) \in {seen, taken, shifted}
  BY Zenon DEF Radio!ensm_force_state
<1> HIDE DEF seen, taken, shifted
<1> QED BY <1>1, <1>2, <1>3, <1>4

LEMMA RestoreKeeps ==
  ASSUME NEW P, NEW s, NEW t, Keeps(P, s, t), NEW to
  PROVE  /\ Keeps(P, s, Radio!ensm_restore_state(t, to))
         /\ Keeps(P, s, Radio!ensm_restore_prev_state(t))
<1>1. ASSUME NEW x PROVE Keeps(P, s, Radio!ensm_restore_state(t, x))
  BY ConfigureKeeps DEF Radio!ensm_restore_state
<1> QED BY <1>1 DEF Radio!ensm_restore_prev_state

LEMMA ModeKeeps ==
  ASSUME NEW P, NEW s, NEW t, Keeps(P, s, t), NEW fdd, NEW pins
  PROVE  Keeps(P, s, Radio!set_ensm_mode(t, fdd, pins))
<1>1. ASSUME NEW dual, NEW ext, NEW synth
      PROVE  Untouched(t, [t EXCEPT !.reg.FDD_MODE = fdd, !.reg.DUAL_SYNTH = dual,
                                !.reg.FDD_EXT_CTRL = ext, !.reg.SYNTH_PIN_CTRL = synth,
                                !.reg.TXNRX = FALSE, !.rc = "ok"])
  <2> DEFINE u == [t EXCEPT !.reg.FDD_MODE = fdd, !.reg.DUAL_SYNTH = dual,
                            !.reg.FDD_EXT_CTRL = ext, !.reg.SYNTH_PIN_CTRL = synth,
                            !.reg.TXNRX = FALSE, !.rc = "ok"]
  <2> USE DEF Keeps, Built, TunedFields, TunedRegisters
  <2>1. SameAsked(t, u)
    BY DEF SameAsked
  <2>2. SameNotes(t, u)
    BY DEF SameNotes
  <2>3. SameRegisters(t, u)
    BY DEF SameRegisters
  <2> QED BY <2>1, <2>2, <2>3 DEF Untouched
<1> QED BY <1>1, AlikeKeeps, Zenon DEF Radio!set_ensm_mode

LEMMA PowerSet ==
  ASSUME NEW P, NEW s, NEW t, Keeps(P, s, t), NEW x
  PROVE  Keeps(P, s, [t EXCEPT !.reg.CLOCKS = x])
  BY DEF Keeps, Built, TunedFields, TunedRegisters, LoUnset, Eyed

LEMMA StateKeeps ==
  ASSUME NEW P, NEW s, NEW t, Keeps(P, s, t), NEW to, NEW pins
  PROVE  Keeps(P, s, Radio!ensm_set_state(t, to, pins))
<1> DEFINE woken == Radio!Awake(t)
           base == {"TO_ALERT"} \cup Radio!ForcedOn(to)
                     \cup (IF pins THEN {"PIN_CTRL"} ELSE {})
                     \cup (IF to = "ALERT" THEN {"FORCE_ALERT"} ELSE {})
           forbidden == \/ to \in {"TX", "RX"} /\ (t.fdd \/ t.curr_ensm_state # "ALERT")
                        \/ to = "FDD" /\ ~t.fdd
           fromAlert == IF forbidden
                          THEN Radio!Configure(woken,
                                               (base \ Radio!ForcedOn(to)) \cup Radio!ToAlert)
                          ELSE woken
           oneSynth == ~t.fdd /\ ~pins /\ ~t.tdd_use_dual_synth /\ to \in {"TX", "RX"}
           txnrx == to = "TX"
           chosen == IF oneSynth THEN [fromAlert EXCEPT !.reg.TXNRX = txnrx] ELSE fromAlert
<1>1. Keeps(P, s, woken)
  <2> DEFINE on == [t EXCEPT !.reg.CLOCKS = TRUE]
             alert == Radio!Configure(on, Radio!ToAlert)
  <2>1. Keeps(P, s, on)
    BY PowerSet
  <2>2. Keeps(P, s, alert)
    <3> HIDE DEF on
    <3> QED BY <2>1, ConfigureKeeps
  <2> HIDE DEF alert
  <2>3. Keeps(P, s, [alert EXCEPT !.reg.VCO_CAL = {"rx", "tx"}])
    BY <2>2, NotesKeep
  <2> QED BY <2>3, Zenon DEF Radio!Awake, alert
<1> HIDE DEF woken
<1>2. Keeps(P, s, fromAlert)
  <2> HIDE DEF base, forbidden
  <2> QED BY <1>1, ConfigureKeeps
<1> HIDE DEF fromAlert
<1>3. Keeps(P, s, chosen)
  <2> HIDE DEF oneSynth, txnrx
  <2> QED BY <1>2, NotesKeep
<1> HIDE DEF chosen
<1>4. ASSUME NEW bits
      PROVE  Keeps(P, s, [Radio!Configure(chosen, bits) EXCEPT !.curr_ensm_state = to, !.rc = "ok"])
  <2> DEFINE on == Radio!Configure(chosen, bits)
  <2>1. Keeps(P, s, on)
    BY <1>3, ConfigureKeeps
  <2> HIDE DEF on
  <2>2. Keeps(P, s, [on EXCEPT !.curr_ensm_state = to, !.rc = "ok"])
    BY <2>1, NotesKeep
  <2> QED BY <2>2 DEF on
<1>5. Keeps(P, s, Radio!Asleep(woken))
  <2> DEFINE waits == Radio!Configure(Radio!Configure(Radio!Configure(woken, {}),
                        Radio!ForcedOn(IF woken.fdd THEN "FDD" ELSE "RX")), {})
             off == [waits EXCEPT !.reg.CLOCKS = FALSE]
             quiet == [off EXCEPT !.reg.VCO_CAL = {}]
  <2>1. Keeps(P, s, waits)
    BY <1>1, ConfigureKeeps
  <2> HIDE DEF waits
  <2>2. Keeps(P, s, off)
    BY <2>1, PowerSet
  <2>3. Keeps(P, s, quiet)
    <3> HIDE DEF off
    <3> QED BY <2>2, NotesKeep
  <2>4. Keeps(P, s, [quiet EXCEPT !.curr_ensm_state = "SLEEP", !.rc = "ok"])
    <3> HIDE DEF quiet
    <3> QED BY <2>3, NotesKeep
  <2>5. Radio!Asleep(woken) = [quiet EXCEPT !.curr_ensm_state = "SLEEP", !.rc = "ok"]
    BY SMT DEF Radio!Asleep, waits
  <2> QED BY <2>4, <2>5
<1>6. Keeps(P, s, Radio!Result(woken, "EINVAL"))
  BY <1>1, ResultKeeps
<1> QED BY <1>4, <1>5, <1>6, Zenon DEF Radio!ensm_set_state, woken, fromAlert, chosen

LEMMA EnterKeeps ==
  ASSUME NEW P, NEW s, NEW t, Keeps(P, s, t), NEW mode
  PROVE  Keeps(P, s, Radio!set_en_state_machine_mode(t, mode))
<1> DEFINE indep == mode = "PINCTRL_FDD_INDEP"
           pd == [t EXCEPT !.fdd_independent_mode = indep]
<1>1. Keeps(P, s, pd)
  <2> HIDE DEF indep
  <2> QED BY NotesKeep
<1> HIDE DEF pd
<1>2. ASSUME NEW pins, NEW fdd, NEW to
      PROVE  Keeps(P, s, Radio!ensm_set_state(Radio!set_ensm_mode(pd, fdd, pins), to, pins))
  BY <1>1, ModeKeeps, StateKeeps
<1>3. Keeps(P, s, Radio!Result(pd, "EINVAL"))
  BY <1>1, ResultKeeps
<1> QED BY <1>2, <1>3, Zenon DEF Radio!set_en_state_machine_mode, pd

LEMMA MuteKeeps ==
  ASSUME NEW P, NEW s, NEW t, Keeps(P, s, t), NEW on
  PROVE  Keeps(P, s, Radio!tx_mute(t, on))
<1> DEFINE levels == [i \in {1, 2} |-> Radio!get_tx_atten(t, i)]
           cached == [t EXCEPT !.tx_atten_cached = levels]
<1>1. Keeps(P, s, cached)
  <2> HIDE DEF levels
  <2> QED BY DEF Keeps, Built, TunedFields, TunedRegisters, LoUnset, Eyed
<1> HIDE DEF cached
<1> QED BY <1>1, GainKeeps DEF Radio!tx_mute, cached

LEMMA TestKeeps ==
  ASSUME NEW P, NEW s, NEW t, Keeps(P, s, t), NEW mode, NEW freq
  PROVE  /\ Keeps(P, s, Radio!bist_loopback(t, mode))
         /\ Keeps(P, s, Radio!bist_prbs(t, mode))
         /\ Keeps(P, s, Radio!bist_tone(t, mode, freq))
<1>1. ASSUME NEW u, Keeps(P, s, u), NEW a, NEW b, NEW c
      PROVE  /\ Keeps(P, s, [u EXCEPT !.reg.DSEL = a])
             /\ Keeps(P, s, [u EXCEPT !.scratch_reg = a, !.reg.DSEL = b])
             /\ Keeps(P, s, [u EXCEPT !.reg.TX_ENABLE = a])
             /\ Keeps(P, s, [u EXCEPT !.bist_loopback_mode = a])
             /\ Keeps(P, s, [u EXCEPT !.reg.LOOPBACK = a, !.rc = "ok"])
             /\ Keeps(P, s, [u EXCEPT !.bist_prbs_mode = a, !.bist_config = b])
             /\ Keeps(P, s, [u EXCEPT !.bist_tone_mode = a, !.bist_tone_freq = b,
                                      !.bist_config = c])
             /\ Keeps(P, s, [u EXCEPT !.reg.BIST = a, !.rc = "ok"])
  <2> USE <1>1 DEF Keeps, Built, TunedFields, TunedRegisters, LoUnset, Eyed
  <2>1. Keeps(P, s, [u EXCEPT !.reg.DSEL = a])
    OBVIOUS
  <2>2. Keeps(P, s, [u EXCEPT !.scratch_reg = a, !.reg.DSEL = b])
    OBVIOUS
  <2>3. /\ Keeps(P, s, [u EXCEPT !.reg.TX_ENABLE = a])
        /\ Keeps(P, s, [u EXCEPT !.bist_loopback_mode = a])
    OBVIOUS
  <2>4. /\ Keeps(P, s, [u EXCEPT !.reg.LOOPBACK = a, !.rc = "ok"])
        /\ Keeps(P, s, [u EXCEPT !.reg.BIST = a, !.rc = "ok"])
    OBVIOUS
  <2>5. Keeps(P, s, [u EXCEPT !.bist_prbs_mode = a, !.bist_config = b])
    OBVIOUS
  <2>6. Keeps(P, s, [u EXCEPT !.bist_tone_mode = a, !.bist_tone_freq = b, !.bist_config = c])
    OBVIOUS
  <2> HIDE DEF Keeps
  <2> QED BY <2>1, <2>2, <2>3, <2>4, <2>5, <2>6
<1>2. ASSUME NEW u, Keeps(P, s, u), NEW on \in BOOLEAN
      PROVE  /\ Keeps(P, s, Radio!hdl_loopback(u, on))
             /\ Keeps(P, s, Radio!int_loopback_fix_ch_cross(u, on))
  <2>1. Keeps(P, s, Radio!hdl_loopback(u, on))
    <3>1. u.hdl_dac_version <= 7 \/ u.hdl_dac_version > 7
      BY <1>2 DEF Keeps, Built
    <3> DEFINE to == IF on THEN "loopback" ELSE "data"
    <3>2. Keeps(P, s, [u EXCEPT !.reg.DSEL = to])
      <4> HIDE DEF to
      <4> QED BY <1>1, <1>2
    <3> QED BY <1>1, <1>2, <3>1, <3>2, Zenon DEF Radio!hdl_loopback
  <2>2. Keeps(P, s, Radio!int_loopback_fix_ch_cross(u, on))
    BY <1>1, <1>2, Zenon DEF Radio!int_loopback_fix_ch_cross
  <2> QED BY <2>1, <2>2
<1>3. Keeps(P, s, Radio!bist_loopback(t, mode))
  BY <1>1, <1>2, ResultKeeps DEF Radio!bist_loopback
<1>4. Keeps(P, s, Radio!bist_prbs(t, mode))
  <2> DEFINE config == [point |-> mode, tone |-> "prbs"]
             noted == [t EXCEPT !.bist_prbs_mode = mode, !.bist_config = config]
  <2>1. Keeps(P, s, noted)
    <3> HIDE DEF config
    <3> QED BY <1>1
  <2>2. Radio!bist_prbs(t, mode) = [noted EXCEPT !.reg.BIST = config, !.rc = "ok"]
    BY SMT DEF Radio!bist_prbs
  <2> HIDE DEF config, noted
  <2>3. Keeps(P, s, [noted EXCEPT !.reg.BIST = config, !.rc = "ok"])
    BY <1>1, <2>1
  <2> QED BY <2>2, <2>3
<1>5. Keeps(P, s, Radio!bist_tone(t, mode, freq))
  <2>1. ASSUME NEW config
        PROVE  Keeps(P, s, [t EXCEPT !.bist_tone_mode = mode, !.bist_tone_freq = freq,
                                     !.bist_config = config, !.reg.BIST = config, !.rc = "ok"])
    <3> DEFINE noted == [t EXCEPT !.bist_tone_mode = mode, !.bist_tone_freq = freq,
                                  !.bist_config = config]
    <3>1. Keeps(P, s, noted)
      BY <1>1
    <3> HIDE DEF noted
    <3>2. Keeps(P, s, [noted EXCEPT !.reg.BIST = config, !.rc = "ok"])
      BY <1>1, <3>1
    <3> QED BY <3>2 DEF noted
  <2> DEFINE clk == CASE mode = "off" -> 0
                      [] mode = "tx" -> Radio!clk_get_rate(t, "TX_SAMPL")
                      [] mode = "rx" -> Radio!clk_get_rate(t, "RX_SAMPL")
             field(rate) == IF freq < 4 THEN freq
                            ELSE IF rate = 0 THEN 0
                                 ELSE (Radio!DivRoundClosest(freq * 32, rate) - 1) % 4
             config == [point |-> mode, tone |-> field(clk)]
  <2>2. Radio!bist_tone(t, mode, freq) =
          [t EXCEPT !.bist_tone_mode = mode, !.bist_tone_freq = freq, !.bist_config = config,
                    !.reg.BIST = config, !.rc = "ok"]
    BY DEF Radio!bist_tone
  <2> HIDE DEF config
  <2> QED BY <2>1, <2>2, Zenon
<1> QED BY <1>3, <1>4, <1>5

-----------------------------------------------------------------------------
(* What is composed of those *)

LEMMA SetFiltersKeeps ==
  ASSUME NEW P, NEW s, NEW t, Keeps(P, s, t), NEW rx, NEW tx
  PROVE  Keeps(P, s, Radio!SetFilters(t, rx, tx))
  BY CalKeeps, FilterKeeps, ResultKeeps DEF Radio!SetFilters

LEMMA SearchKeeps ==
  ASSUME NEW P, NEW s, NEW t, Keeps(P, s, t)
  PROVE  Keeps(P, s, Radio!tx_quad_phase_search(t))
<1>1. Keeps(P, s, Radio!QuadCal(t, 0).s)
  BY QuadRunKeeps
<1>2. ASSUME NEW phase
      PROVE  Keeps(P, s, Radio!QuadCal([t EXCEPT !.last_tx_quad_cal_phase = phase], phase).s)
  <2>1. Keeps(P, s, [t EXCEPT !.last_tx_quad_cal_phase = phase])
    BY PhaseKeeps
  <2> QED BY <2>1, QuadRunKeeps
<1> QED BY <1>1, <1>2, Zenon DEF Radio!tx_quad_phase_search

LEMMA SecondTryKeeps ==
  ASSUME NEW P, NEW s, NEW t, Keeps(P, s, t), NEW phase
  PROVE  Keeps(P, s, Radio!SecondTry(Radio!QuadCal(t, phase)))
<1>1. Keeps(P, s, Radio!QuadCal(t, phase).s)
  BY QuadRunKeeps
<1>2. Keeps(P, s, Radio!tx_quad_phase_search(Radio!QuadCal(t, phase).s))
  BY <1>1, SearchKeeps
<1> QED BY <1>1, <1>2, Zenon DEF Radio!SecondTry

LEMMA ConvergeKeeps ==
  ASSUME NEW P, NEW s, NEW t, Keeps(P, s, t), NEW phase, NEW nco
  PROVE  Keeps(P, s, Radio!ConvergeFrom(t, phase, nco))
<1>1. ASSUME NEW first
      PROVE  Keeps(P, s, Radio!FirstTry(Radio!QuadCal(t, first), t, first))
  <2> DEFINE q == Radio!QuadCal(t, first)
  <2>1. Keeps(P, s, q.s) /\ Keeps(P, s, [q.s EXCEPT !.last_tx_quad_cal_phase = first])
    <3>1. Keeps(P, s, q.s)
      BY QuadRunKeeps
    <3> HIDE DEF q
    <3> QED BY <3>1, PhaseKeeps
  <2> HIDE DEF q
  <2>2. Keeps(P, s, Radio!SecondTry(Radio!QuadCal(q.s, t.last_tx_quad_cal_phase)))
    BY <2>1, SecondTryKeeps
  <2>3. Keeps(P, s, Radio!FirstTry(q, t, first))
    BY <2>1, <2>2, SearchKeeps DEF Radio!FirstTry
  <2> QED BY <2>3 DEF q
<1> QED BY <1>1, SearchKeeps DEF Radio!ConvergeFrom, Radio!Converge

\* The calibration of the transmitter, with filters wider for it or not.
LEMMA QuadKeeps ==
  ASSUME NEW P, NEW s, NEW t, Keeps(P, s, t), NEW rx, NEW tx, NEW phase
  PROVE  Keeps(P, s, Radio!tx_quad_calib(t, rx, tx, phase))
<1> DEFINE on == [t EXCEPT !.reg.LO_OFF.tx = FALSE, !.rc = "ok"]
           nco == Radio!NcoChoice(t, tx)
           freq == Radio!ToneFreq(on, nco)
           wide == Radio!SetFilters(on, freq * 8, freq * 8)
           end == Radio!QuadWith(on, rx, tx, phase, nco)
<1>1. Keeps(P, s, on)
  BY LoOffKeeps
<1>2. Keeps(P, s, Radio!ConvergeFrom(on, phase, nco))
  <2> HIDE DEF on, nco
  <2> QED BY <1>1, ConvergeKeeps
<1>3. Keeps(P, s, Radio!QuadWidened(wide, on, phase, nco))
  <2> HIDE DEF on, nco, freq
  <2>1. Keeps(P, s, wide) /\ Keeps(P, s, Radio!ConvergeFrom(wide, phase, nco))
    <3>1. Keeps(P, s, wide)
      BY <1>1, SetFiltersKeeps
    <3> HIDE DEF wide
    <3> QED BY <3>1, ConvergeKeeps
  <2> HIDE DEF wide
  <2> QED BY <2>1, SetFiltersKeeps, ResultKeeps DEF Radio!QuadWidened, Radio!Narrowed
<1>5. Keeps(P, s, end)
  <2> HIDE DEF on, nco
  <2> QED BY <1>2, <1>3, Zenon DEF Radio!QuadWith
<1> HIDE DEF end
<1>6. Keeps(P, s, [end EXCEPT !.reg.LO_OFF = t.lo_off])
  BY <1>5, LoOffKeeps
<1>7. Keeps(P, s, Radio!Result(t, "EFAULT"))
  BY ResultKeeps
<1> QED BY <1>5, <1>6, <1>7, Zenon DEF Radio!tx_quad_calib, end

LEMMA LoadGtKeeps ==
  ASSUME NEW P, NEW s, NEW t, Keeps(P, s, t), NEW freq, "table" \notin P
  PROVE  Keeps(P, s, Radio!load_gt(t, freq))
  BY TableKeeps, ResultKeeps DEF Radio!load_gt, Radio!LoadBand

LEMMA RxGainKeeps ==
  ASSUME NEW P, NEW s, NEW t, Keeps(P, s, t), NEW r, NEW g
  PROVE  Keeps(P, s, Radio!set_rx_gain(t, r, g))
<1>1. Keeps(P, s, Radio!Result(t, "EINVAL")) /\ Keeps(P, s, Radio!Result(t, "EOPNOTSUPP"))
  BY ResultKeeps
<1>2. /\ Keeps(P, s, Radio!set_split_table_gain(t, r, g))
      /\ Keeps(P, s, Radio!set_full_table_gain(t, r, g))
  BY GainSetKeeps
<1> QED BY <1>1, <1>2 DEF Radio!set_rx_gain

LEMMA ClkHandlerKeeps ==
  ASSUME NEW P, NEW s, NEW t, Keeps(P, s, t)
  PROVE  Keeps(P, s, Radio!bb_clk_change_handler(t))
  BY TimingKeeps, GainKeeps DEF Radio!bb_clk_change_handler

-----------------------------------------------------------------------------
(* The clocks *)

LEMMA ClockSetKeeps ==
  ASSUME NEW P, NEW s, NEW t, Keeps(P, s, t), NEW c, NEW x
  PROVE  Keeps(P, s, Radio!set_clk_scaler(t, c, x))
<1> USE DEF Keeps, Built, TunedFields, TunedRegisters, LoUnset, Eyed
<1>2. Keeps(P, s, Radio!Result(t, "EINVAL"))
  BY ResultKeeps
<1>3. ASSUME NEW y
      PROVE  /\ Keeps(P, s, [t EXCEPT !.reg.REF_SCALER[c] = y, !.rc = "ok"])
             /\ Keeps(P, s, [t EXCEPT !.reg.FIR.rx = y, !.rc = "ok"])
             /\ Keeps(P, s, [t EXCEPT !.reg.FIR.tx = y, !.rc = "ok"])
             /\ Keeps(P, s, [t EXCEPT !.reg.DIV[c] = y, !.rc = "ok"])
             /\ Keeps(P, s, [t EXCEPT !.reg.DIV.ADC = y, !.rc = "ok"])
  <2>1. Keeps(P, s, [t EXCEPT !.reg.REF_SCALER[c] = y, !.rc = "ok"])
    OBVIOUS
  <2>2. Keeps(P, s, [t EXCEPT !.reg.FIR.rx = y, !.rc = "ok"])
    OBVIOUS
  <2>3. Keeps(P, s, [t EXCEPT !.reg.FIR.tx = y, !.rc = "ok"])
    OBVIOUS
  <2>4. Keeps(P, s, [t EXCEPT !.reg.DIV[c] = y, !.rc = "ok"])
    OBVIOUS
  <2>5. Keeps(P, s, [t EXCEPT !.reg.DIV.ADC = y, !.rc = "ok"])
    OBVIOUS
  <2> HIDE DEF Keeps
  <2> QED BY <2>1, <2>2, <2>3, <2>4, <2>5
<1> HIDE DEF Keeps, Built, TunedFields, TunedRegisters, LoUnset, Eyed
<1>4. CASE ~Radio!Fits(c, x)
  BY <1>2, <1>4 DEF Radio!set_clk_scaler
<1>5. CASE Radio!Fits(c, x)
  BY <1>3, <1>5, Zenon DEF Radio!set_clk_scaler
<1> QED BY <1>4, <1>5

LEMMA BbpllKeeps ==
  ASSUME NEW P, NEW s, NEW t, Keeps(P, s, t), NEW rate, NEW parent
  PROVE  Keeps(P, s, [Radio!bbpll_set_rate(t, rate, parent) EXCEPT !.bbpll_initialized = TRUE])
<1> DEFINE icp == Radio!Clamp(Radio!DivRoundClosest((rate * 150) \div (parent * 32), 25) - 1, 1, 64)
           set == [t EXCEPT !.reg.BBPLL = rate, !.reg.BBPLL_ICP = icp]
           done == Radio!run_calibration(set, "BBPLL_LOCK")
<1>2. Keeps(P, s, set)
  <2> DEFINE pll == [t EXCEPT !.reg.BBPLL = rate]
  <2>1. Keeps(P, s, pll)
    BY DEF Keeps, Built, TunedFields, TunedRegisters, LoUnset, Eyed
  <2> HIDE DEF icp
  <2>2. set = [pll EXCEPT !.reg.BBPLL_ICP = icp]
    BY SMT
  <2> HIDE DEF pll, set
  <2>3. Keeps(P, s, [pll EXCEPT !.reg.BBPLL_ICP = icp])
    BY <2>1 DEF Keeps, Built, TunedFields, TunedRegisters, LoUnset, Eyed
  <2> QED BY <2>2, <2>3
<1>3. Radio!bbpll_set_rate(t, rate, parent) = done
  BY Zenon DEF Radio!bbpll_set_rate
<1>4. Keeps(P, s, done)
  <2> HIDE DEF set
  <2> QED BY <1>2, CalKeeps
<1> HIDE DEF done
<1>5. Keeps(P, s, [done EXCEPT !.bbpll_initialized = TRUE])
  BY <1>4 DEF Keeps, Built, TunedFields, TunedRegisters, LoUnset, Eyed
<1> QED BY <1>3, <1>5

\* Nothing but the fields that are named has changed.
Only(names, s, t) == DOMAIN t = DOMAIN s /\ \A x \in DOMAIN s \ names : t[x] = s[x]

\* The rates are calculated again, and nothing else is.
LEMMA RecalcOnly ==
  ASSUME NEW t, {"clks", "lo_clk"} \subseteq DOMAIN t
  PROVE  LET u == Radio!Recalc(t) IN
         /\ Only({"clks", "lo_clk"}, t, u) /\ DOMAIN u.clks = DOMAIN t.clks
         /\ u.lo_clk = [side \in Radio!Sides |-> Radio!rfpll_recalc_rate(t, side)]
<1>1. PICK f : /\ After(f, "recalc", t, 0, 0, 14)
               /\ Radio!Recalc(t) = [f[14] EXCEPT !.lo_clk =
                                      [side \in {"rx", "tx"} |-> Radio!rfpll_recalc_rate(t, side)]]
  BY RecalcLoop
<1> DEFINE Good(k) == Only({"clks"}, t, f[k]) /\ DOMAIN f[k].clks = DOMAIN t.clks
           T == {k \in 0 .. 14 : ~Good(k)}
<1>2. \A i \in 0 .. 14 : f[i] = IF i = 0 THEN t
                               ELSE Radio!Refreshed(f[i - 1], Radio!ClockOrder[i])
  BY <1>1, Zenon DEF After, LoopStep
<1>3. ASSUME NEW k \in 1 .. 14, Good(k - 1) PROVE Good(k)
  <2> DEFINE p == f[k - 1]
             c == Radio!ClockOrder[k]
             y == Radio!clk_get_rate(p, c)
  <2>1. f[k] = [p EXCEPT !.clks[c] = y]
    <3>1. k \in 0 .. 14 /\ k # 0
      OBVIOUS
    <3> QED BY <1>2, <3>1, Zenon DEF Radio!Refreshed
  <2> HIDE DEF c, y
  <2> QED BY <1>3, <2>1 DEF Only
<1>4. 0 \notin T
  BY <1>2 DEF Only
<1>5. \A k \in 1 .. 14 : k \in T => k - 1 \in T
  <2> HIDE DEF Good
  <2> QED BY <1>3
<1>6. T = {}
  <2>1. T \subseteq 0 .. 14
    OBVIOUS
  <2> HIDE DEF T
  <2> QED BY <1>4, <1>5, <2>1, NoFirst
<1>7. Good(14)
  BY <1>6
<1> HIDE DEF T
<1> DEFINE u == Radio!Recalc(t)
           y == [side \in {"rx", "tx"} |-> Radio!rfpll_recalc_rate(t, side)]
<1>8. u = [f[14] EXCEPT !.lo_clk = y]
  BY <1>1
<1>9. Only({"clks", "lo_clk"}, t, u) /\ DOMAIN u.clks = DOMAIN t.clks /\ u.lo_clk = y
  <2> HIDE DEF u, y
  <2> QED BY <1>7, <1>8 DEF Only
<1> QED BY <1>9 DEF Radio!Sides

\* An LO that has not been set has no rate.
NoWords(t) ==
  ~t.use_ext_lo.rx =>
    t.reg.SYNTH.rx = [vco |-> 0, div |-> 0] /\ t.fastlock.current_profile.rx = 0

LEMMA RecalcQuiet ==
  ASSUME NEW t, {"clks", "lo_clk"} \subseteq DOMAIN t, "use_ext_lo" \in DOMAIN t,
         "reg" \in DOMAIN t, "fastlock" \in DOMAIN t, NoWords(t)
  PROVE  LoUnset(Radio!Recalc(t))
<1> DEFINE u == Radio!Recalc(t)
<1>1. /\ Only({"clks", "lo_clk"}, t, u)
      /\ u.lo_clk = [side \in Radio!Sides |-> Radio!rfpll_recalc_rate(t, side)]
  BY RecalcOnly
<1> SUFFICES LoUnset(u)
  OBVIOUS
<1> HIDE DEF u
<1>2. u.use_ext_lo = t.use_ext_lo /\ u.reg = t.reg /\ u.fastlock = t.fastlock
  BY <1>1 DEF Only
<1>3. CASE t.use_ext_lo.rx
  BY <1>2, <1>3 DEF LoUnset, NoLo
<1>4. CASE ~t.use_ext_lo.rx
  <2>1. /\ t.reg.SYNTH.rx = [vco |-> 0, div |-> 0] /\ t.fastlock.current_profile.rx = 0
    BY <1>4 DEF NoWords
  <2>2. Radio!rfpll_int_recalc_rate(t, "rx") = 0
    <3>1. Radio!WordRate([vco |-> 0, div |-> 0]) = 0
      <4>1. 0 + 1 = 1 /\ 0 \div 2 = 0 /\ 2 ^ 1 = 2
        OBVIOUS
      <4>2. [vco |-> 0, div |-> 0].vco = 0 /\ [vco |-> 0, div |-> 0].div = 0
        OBVIOUS
      <4> QED BY <4>1, <4>2, Zenon DEF Radio!WordRate, Radio!Two
    <3> QED BY <2>1, <3>1 DEF Radio!rfpll_int_recalc_rate
  <2>3. u.lo_clk.rx = 0
    BY <1>1, <1>4, <2>2 DEF Radio!rfpll_recalc_rate, Radio!Sides
  <2> QED BY <1>2, <2>1, <2>3 DEF LoUnset, NoLo
<1> QED BY <1>3, <1>4

LEMMA RecalcKeeps ==
  ASSUME NEW P, NEW s, NEW t, Keeps(P, s, t)
  PROVE  Keeps(P, s, Radio!Recalc(t))
<1> DEFINE u == Radio!Recalc(t)
<1>1. Built(t)
  BY KeepsFacts
<1>2. Only({"clks", "lo_clk"}, t, u) /\ DOMAIN u.clks = DOMAIN t.clks /\ (LoUnset(t) => LoUnset(u))
  <2>1. LoUnset(t) => NoWords(t)
    BY Zenon DEF LoUnset, NoLo, NoWords
  <2> QED BY <1>1, <2>1, RecalcOnly, RecalcQuiet DEF Built, TunedFields
<1> HIDE DEF u
<1>3. SameAsked(t, u) /\ u.reg = t.reg
      /\ u.current_table = t.current_table /\ u.use_ext_lo = t.use_ext_lo
      /\ u.current_lo_freq = t.current_lo_freq /\ u.port_delay = t.port_delay
      /\ u.hdl_dac_version = t.hdl_dac_version /\ u.rf_rx_input_sel = t.rf_rx_input_sel
      /\ u.bypass_rx_fir = t.bypass_rx_fir /\ u.bypass_tx_fir = t.bypass_tx_fir
  <2>1. \A x \in DOMAIN t : x \notin {"clks", "lo_clk"} => u[x] = t[x]
    BY <1>2 DEF Only
  <2> QED BY <1>1, <2>1 DEF SameAsked, Built, TunedFields
<1>4. Built(u)
  BY <1>1, <1>2, <1>3 DEF Built, Only
<1>5. Eyed(t) <=> Eyed(u)
  BY <1>3, Zenon DEF Eyed, SameAsked
<1>6. LoUnset(t) => LoUnset(u)
  BY <1>2
<1>7. Keeps(P, s, u)
  BY <1>1, <1>3, <1>4, <1>5, <1>6 DEF Keeps, SameAsked
<1> QED BY <1>7 DEF u

LEMMA ClockRateKeeps ==
  ASSUME NEW P, NEW s, NEW t, Keeps(P, s, t), NEW c, NEW rate
  PROVE  Keeps(P, s, Radio!no_os_clk_set_rate(t, c, rate))
<1>1. ASSUME NEW x, NEW parent
      PROVE  Keeps(P, s, Radio!SetClock(t, c, x, parent))
  BY ClockSetKeeps, BbpllKeeps DEF Radio!SetClock, Radio!clk_factor_set_rate
<1> QED BY <1>1, RecalcKeeps, ResultKeeps DEF Radio!no_os_clk_set_rate


LEMMA FirBitsKeep ==
  ASSUME NEW P, NEW s, NEW t, Keeps(P, s, t)
  PROVE  Keeps(P, s, Radio!FirBits(t))
<1> DEFINE on(bypass) == IF bypass THEN 0 ELSE 1
           x == IF t.rx_fir_dec = 1 \/ t.bypass_rx_fir THEN on(t.bypass_rx_fir) ELSE t.reg.FIR.rx
           y == IF t.tx_fir_int = 1 \/ t.bypass_tx_fir THEN on(t.bypass_tx_fir) ELSE t.reg.FIR.tx
           one == [t EXCEPT !.reg.FIR.rx = x]
<1>1. Radio!FirBits(t) = [one EXCEPT !.reg.FIR.tx = y]
  BY DEF Radio!FirBits
<1> HIDE DEF x, y
<1>2. Keeps(P, s, one)
  BY DEF Keeps, Built, TunedFields, TunedRegisters, LoUnset, Eyed
<1> HIDE DEF one
<1>3. Keeps(P, s, [one EXCEPT !.reg.FIR.tx = y])
  BY <1>2 DEF Keeps, Built, TunedFields, TunedRegisters, LoUnset, Eyed
<1> QED BY <1>1, <1>3


LEMMA LoopKeeps ==
  ASSUME NEW P, NEW loop, NEW s, NEW t, Keeps(P, s, t), NEW rx, NEW tx, NEW n \in Nat,
         NEW f, After(f, loop, t, rx, tx, n),
         \A u : \A i \in 1 .. n : Keeps(P, s, u) => Keeps(P, s, LoopStep(loop, t, rx, tx, u, i))
  PROVE  Keeps(P, s, f[n])
<1> DEFINE T == {k \in 0 .. n : ~Keeps(P, s, f[k])}
<1>1. \A i \in 0 .. n : f[i] = IF i = 0 THEN t ELSE LoopStep(loop, t, rx, tx, f[i - 1], i)
  BY Zenon DEF After
<1>2. ASSUME NEW k \in 1 .. n, k \in T PROVE k - 1 \in T
  BY <1>1, <1>2
<1>3. 0 \notin T /\ T \subseteq 0 .. n
  BY <1>1
<1>4. T = {}
  <2> HIDE DEF T
  <2> QED BY <1>2, <1>3, NoFirst
<1> QED BY <1>4


LEMMA PathKeeps ==
  ASSUME NEW P, NEW s, NEW t, Keeps(P, s, t), NEW side, NEW i, NEW x
  PROVE  Keeps(P, s, Radio!PathNoted(t, side, i, x))
<1> USE DEF Keeps, Built, TunedFields, TunedRegisters, LoUnset, Eyed
<1>1. Keeps(P, s, [t EXCEPT !.current_rx_path_clks[i] = x])
  OBVIOUS
<1>2. Keeps(P, s, [t EXCEPT !.current_tx_path_clks[i] = x])
  OBVIOUS
<1> HIDE DEF Keeps
<1> QED BY <1>1, <1>2 DEF Radio!PathNoted


LEMMA RatesKeep ==
  ASSUME NEW P, NEW s, NEW t, Keeps(P, s, t), NEW rx, NEW tx
  PROVE  Keeps(P, s, Radio!SetRates(t, rx, tx))
<1>1. PICK f : After(f, "paths", t, rx, tx, 11) /\ Radio!SetRates(t, rx, tx) = Radio!FirBits(f[11])
  BY RatesLoop
<1>2. \A u : \A i \in 1 .. 11 :
        Keeps(P, s, u) => Keeps(P, s, LoopStep("paths", t, rx, tx, u, i))
  BY ClockRateKeeps, PathKeeps DEF LoopStep, Radio!SetPathRate
<1>3. Keeps(P, s, f[11])
  BY <1>1, <1>2, LoopKeeps
<1> QED BY <1>1, <1>3, FirBitsKeep

LEMMA SweptKeeps ==
  ASSUME NEW P, NEW s, NEW t, Keeps(P, s, t)
  PROVE  Keeps(P, s, Radio!Swept(t))
<1>1. PICK f : After(f, "sweep", t, 0, 0, 3) /\ Radio!Swept(t) = f[3]
  BY SweptLoop
<1>2. \A u : \A i \in 1 .. 3 : Keeps(P, s, u) => Keeps(P, s, LoopStep("sweep", t, 0, 0, u, i))
  <2>1. ASSUME NEW u, Keeps(P, s, u), NEW chain
        PROVE  Keeps(P, s, Radio!SweepStep(t, u, chain))
    BY <2>1, RatesKeep, ClkHandlerKeeps DEF Radio!SweepStep
  <2> QED BY <2>1 DEF LoopStep
<1> QED BY <1>1, <1>2, LoopKeeps
-----------------------------------------------------------------------------
(* The search for a delay *)

\* A run of zeros is no longer than what is left of the fields, and each of those
\* from its start on is one.
LEMMA RunFacts ==
  ASSUME NEW size \in Nat, NEW field, NEW i \in 0 .. size - 1
  PROVE  LET n == Radio!Run(field, size, i) IN
         /\ n \in 0 .. size
         /\ \A k \in 0 .. n - 1 : i + k \in 0 .. size - 1 /\ field[i + k] = 0
         /\ field[i] = 0 /\ (i > 0 => field[i - 1] # 0) => n > 0
<1> DEFINE S == {j \in i .. size - 1 : \A k \in i .. j : field[k] = 0}
           n == Radio!Run(field, size, i)
<1>1. /\ S \subseteq i .. size - 1 /\ IsFiniteSet(i .. size - 1)
      /\ Cardinality(i .. size - 1) = size - i
  BY FS_Interval
<1>2. IsFiniteSet(S) /\ Cardinality(S) \in Nat /\ Cardinality(S) <= size - i
  <2> HIDE DEF S
  <2> QED BY <1>1, FS_Subset, FS_CardinalityType
<1>3. CASE i > 0 /\ field[i - 1] = 0
  <2>1. n = 0
    BY <1>3 DEF Radio!Run
  <2> QED BY <1>3, <2>1
<1>4. CASE ~(i > 0 /\ field[i - 1] = 0)
  <2>1. n = Cardinality(S)
    BY <1>4, Zenon DEF Radio!Run, Radio!Cardinality, Cardinality
  <2>2. ASSUME NEW k \in 0 .. n - 1
        PROVE  i + k \in S
    <3> SUFFICES ASSUME i + k \notin S PROVE FALSE
      OBVIOUS
    <3>1. k \in Int /\ 0 <= k /\ k < Cardinality(S) /\ i + k \in i .. size - 1 /\ i \in Int
          /\ i + k - 1 \in Int
      BY <1>2, <2>1, <2>2
    <3>2. \A j \in S : j < i + k
      BY <3>1
    <3>3. S \subseteq i .. i + k - 1
      BY <1>1, <3>1, <3>2
    <3> DEFINE B == i .. i + k - 1
    <3>4. IsFiniteSet(B) /\ Cardinality(B) = k
      <4>1. \A b \in Int : /\ IsFiniteSet(i .. b)
                           /\ Cardinality(i .. b) = IF i > b THEN 0 ELSE b - i + 1
        BY <3>1, FS_Interval
      <4> QED BY <3>1, <4>1
    <3>5. Cardinality(S) <= k
      <4>1. S \in SUBSET B
        BY <3>3
      <4> HIDE DEF S, B
      <4> QED BY <3>4, <4>1, FS_Subset
    <3> QED BY <1>2, <3>1, <3>5
  <2>3. field[i] = 0 => n > 0
    <3>1. field[i] = 0 => i \in S
      OBVIOUS
    <3>2. S # {} => Cardinality(S) # 0
      <4> HIDE DEF S
      <4> QED BY <1>2, FS_EmptySet
    <3> QED BY <1>2, <2>1, <3>1, <3>2
  <2>4. n \in 0 .. size
    BY <1>2, <2>1
  <2>5. \A k \in 0 .. n - 1 : i + k \in 0 .. size - 1 /\ field[i + k] = 0
    <3>1. ASSUME NEW k \in 0 .. n - 1
          PROVE  i + k \in 0 .. size - 1 /\ field[i + k] = 0
      <4>1. i + k \in i .. size - 1 /\ \A h \in i .. i + k : field[h] = 0
        BY <2>2
      <4> QED BY <4>1
    <3> QED BY <3>1
  <2> QED BY <2>3, <2>4, <2>5
<1> QED BY <1>3, <1>4

\* The middle of the window that is found is inside it, and one is found if there is any.
LEMMA WindowFound ==
  ASSUME NEW size \in Nat, NEW field
  PROVE  LET o == Radio!find_opt(field, size) IN
         /\ o.cnt \in Nat
         /\ o.cnt # 0 => Radio!Middle(o) \in 0 .. size - 1 /\ field[Radio!Middle(o)] = 0
         /\ (\E i \in 0 .. size - 1 : field[i] = 0) => o.cnt # 0
<1> DEFINE run(i) == Radio!Run(field, size, i)
           Longest(n) == /\ \A i \in 0 .. size - 1 : run(i) <= n
                         /\ n > 0 => \E i \in 0 .. size - 1 : run(i) = n
           longest == CHOOSE n \in 0 .. size : Longest(n)
           begins == {i \in 0 .. size - 1 : run(i) = longest}
           o == Radio!find_opt(field, size)
<1>1. \A i \in 0 .. size - 1 : run(i) \in 0 .. size
  BY RunFacts
<1>2. \A i \in 0 .. size - 1 : \A k \in 0 .. run(i) - 1 :
        i + k \in 0 .. size - 1 /\ field[i + k] = 0
  BY RunFacts
<1>3. \A i \in 0 .. size - 1 : field[i] = 0 /\ (i > 0 => field[i - 1] # 0) => run(i) > 0
  BY RunFacts
<1>4. o = [cnt |-> longest, start |-> IF longest = 0 THEN 0 ELSE Radio!First(begins)]
  BY Zenon DEF Radio!find_opt
<1> HIDE DEF run
<1>5. longest \in 0 .. size /\ Longest(longest)
  <2> DEFINE T == {n \in Nat : \A i \in 0 .. size - 1 : run(i) <= n}
  <2>1. size \in T
    BY <1>1
  <2>2. PICK m \in T : \A n \in T : m <= n
    <3>1. T \subseteq Nat /\ T # {}
      BY <2>1
    <3> HIDE DEF T
    <3> QED BY <3>1, LeastNat
  <2>3. m \in 0 .. size
    BY <2>1, <2>2
  <2>4. ASSUME m > 0, \A i \in 0 .. size - 1 : run(i) # m
        PROVE  FALSE
    <3>1. m - 1 \in T
      BY <1>1, <2>2, <2>3, <2>4
    <3> QED BY <2>2, <2>3, <3>1
  <2>5. Longest(m)
    BY <2>2, <2>4
  <2> HIDE DEF Longest
  <2> QED BY <2>3, <2>5
<1> HIDE DEF longest
<1>6. o.cnt \in Nat /\ o.cnt = longest
  BY <1>4, <1>5
<1>7. ASSUME o.cnt # 0
      PROVE  Radio!Middle(o) \in 0 .. size - 1 /\ field[Radio!Middle(o)] = 0
  <2>1. begins # {} /\ begins \subseteq Nat
    BY <1>5, <1>6, <1>7
  <2>2. Radio!First(begins) \in begins
    <3>1. \E k \in begins : \A j \in begins : k <= j
      <4> HIDE DEF begins
      <4> QED BY <2>1, LeastNat
    <3> HIDE DEF begins
    <3> QED BY <3>1 DEF Radio!First
  <2>3. o.start \in 0 .. size - 1 /\ run(o.start) = o.cnt
    BY <1>4, <1>6, <1>7, <2>2
  <2>4. o.cnt \div 2 \in 0 .. o.cnt - 1
    BY <1>6, <1>7
  <2>5. Radio!Middle(o) = o.start + o.cnt \div 2
    BY DEF Radio!Middle
  <2> HIDE DEF o
  <2> QED BY <1>2, <2>3, <2>4, <2>5
<1>8. ASSUME NEW i \in 0 .. size - 1, field[i] = 0
      PROVE  o.cnt # 0
  <2> DEFINE Z == {j \in 0 .. size - 1 : field[j] = 0}
  <2>1. PICK j \in Z : \A k \in Z : j <= k
    <3>1. Z # {} /\ Z \subseteq Nat
      BY <1>8
    <3> HIDE DEF Z
    <3> QED BY <3>1, LeastNat
  <2>2. run(j) > 0
    <3>1. j > 0 => field[j - 1] # 0
      <4>1. j > 0 => j - 1 \in 0 .. size - 1 /\ ~(j <= j - 1)
        BY <2>1
      <4> QED BY <2>1, <4>1
    <3> QED BY <1>3, <2>1, <3>1
  <2> QED BY <1>1, <1>5, <1>6, <2>1, <2>2
<1> HIDE DEF o
<1> QED BY <1>6, <1>7, <1>8 DEF o
-----------------------------------------------------------------------------
(* The tuning of the interface *)

\* A delay at which the data of a side arrives.
Arrives(s, side, delay) == delay[2] - delay[1] \in s.chip.eye[side]

\* The delays, but for the one of that side, and those to come back to are as they were.
Beside(s, t, side) ==
  /\ t.port_delay = s.port_delay /\ t.chip = s.chip
  /\ \A other \in Radio!Sides \ {side} : t.reg.DELAY[other] = s.reg.DELAY[other]

LEMMA BesideWays ==
  ASSUME NEW s, NEW t, NEW u, NEW side, Beside(s, t, side)
  PROVE  /\ Beside(t, u, side) => Beside(s, u, side)
         /\ \A P : Keeps(P, t, u) /\ "delays" \in P =>
              Beside(s, u, side) /\ u.reg.DELAY[side] = t.reg.DELAY[side]
  BY DEF Beside, Keeps

WithDelay(t, side, delay) == [t EXCEPT !.reg.DELAY[side] = delay]

LEMMA DelaySet ==
  ASSUME NEW P, NEW s, NEW t, Keeps(P, s, t), "delays" \notin P, "eyed" \notin P,
         NEW side, NEW delay
  PROVE  /\ Keeps(P, s, WithDelay(t, side, delay))
         /\ Beside(t, WithDelay(t, side, delay), side)
         /\ side \in Radio!Sides => WithDelay(t, side, delay).reg.DELAY[side] = delay
<1> DEFINE u == [t EXCEPT !.reg.DELAY[side] = delay]
<1> USE DEF Built, TunedFields, TunedRegisters
<1>1. Built(t) /\ "delays" \notin P /\ "eyed" \notin P
  BY KeepsFacts
<1>2. Keeps(P, s, u)
  BY <1>1 DEF Keeps, LoUnset
<1>3. Beside(t, u, side)
  BY <1>1 DEF Beside
<1>4. side \in Radio!Sides => u.reg.DELAY[side] = delay
  BY <1>1
<1> HIDE DEF u
<1> QED BY <1>2, <1>3, <1>4 DEF u, WithDelay

DelayIs(t, side, clock, data) ==
  t.reg.DELAY[side][1] = clock /\ t.reg.DELAY[side][2] = data

LEMMA IntfDelay ==
  ASSUME NEW P, NEW s, NEW t, Keeps(P, s, t), "delays" \notin P, "eyed" \notin P,
         NEW side \in Radio!Sides, NEW clock, NEW data
  PROVE  /\ Keeps(P, s, Radio!set_intf_delay(t, side, clock, data, TRUE))
         /\ Beside(t, Radio!set_intf_delay(t, side, clock, data, TRUE), side)
         /\ DelayIs(Radio!set_intf_delay(t, side, clock, data, TRUE), side, clock, data)
<1> DEFINE alert == Radio!ensm_force_state(t, "ALERT")
           delay == <<clock, data>>
           set == WithDelay(alert, side, delay)
           after == Radio!ensm_force_state(set, "FDD")
<1>1. Keeps(P, s, alert) /\ Beside(t, alert, side)
  <2>1. Keeps({"delays"}, t, t)
    BY KeepsFacts
  <2>2. Keeps({"delays"}, t, alert)
    BY <2>1, ForceKeeps
  <2>3. Keeps(P, s, alert)
    BY ForceKeeps
  <2> QED BY <2>2, <2>3 DEF Beside, Keeps
<1> HIDE DEF alert, delay
<1>2. Keeps(P, s, set) /\ Beside(alert, set, side) /\ set.reg.DELAY[side] = delay
  BY <1>1, DelaySet
<1> HIDE DEF set
<1>3. Keeps(P, s, after) /\ Keeps({"delays"}, set, after)
  <2>1. Keeps({"delays"}, set, set)
    BY <1>2, KeepsFacts
  <2> QED BY <1>2, <2>1, ForceKeeps
<1>4. Beside(t, after, side) /\ after.reg.DELAY[side] = delay
  <2>1. "delays" \in {"delays"}
    OBVIOUS
  <2> HIDE DEF after
  <2>2. Beside(t, set, side)
    BY <1>1, <1>2, BesideWays
  <2> QED BY <1>2, <1>3, <2>1, <2>2, BesideWays
<1>5. Radio!set_intf_delay(t, side, clock, data, TRUE) = after
  BY DEF after, Radio!set_intf_delay, alert, set, delay, WithDelay
<1> HIDE DEF after
<1>6. DelayIs(after, side, clock, data)
  BY <1>4 DEF delay, DelayIs
<1> QED BY <1>3, <1>4, <1>5, <1>6

\* The delay that is found is one at which data arrives, and one is found if there is any.
LEMMA DelayTuned ==
  ASSUME NEW P, NEW s, NEW t, Keeps(P, s, t), "delays" \notin P, "eyed" \notin P, NEW swept,
         NEW side \in Radio!Sides, NEW u, u = Radio!dig_tune_delay(t, swept, side)
  PROVE  /\ Keeps(P, s, u) /\ Beside(t, u, side)
         /\ Radio!Ok(u) => Arrives(t, side, u.reg.DELAY[side])
         /\ t.chip.eye[side] \cap (-15 .. 15) # {} => Radio!Ok(u)
<1> DEFINE field(i) == [j \in 0 .. 15 |->
                         IF Radio!check_pn(t, side, 15 * i, IF i = 1 THEN 15 - j ELSE j)
                           THEN 0 ELSE 1]
           base == IF swept THEN Radio!Swept(t) ELSE t
           one == Radio!set_intf_delay(base, side, 0, 0, TRUE)
           ends == Radio!set_intf_delay(one, side, 15, 15, TRUE)
           o0 == Radio!find_opt(field(0), 16)
           o1 == Radio!find_opt(field(1), 16)
<1>1. u = Radio!SetMiddle(ends, side, o0, o1)
  BY Zenon DEF Radio!dig_tune_delay, Radio!EndsTried
<1>2. Keeps(P, s, base) /\ Beside(t, base, side)
  <2>1. CASE swept
    <3>1. Keeps(P, s, Radio!Swept(t))
      BY <2>1, SweptKeeps
    <3>2. Keeps({"delays"}, t, Radio!Swept(t))
      <4>1. Keeps({"delays"}, t, t)
        BY KeepsFacts
      <4> QED BY <4>1, SweptKeeps
    <3> QED BY <2>1, <3>1, <3>2 DEF Beside, Keeps
  <2>2. CASE ~swept
    BY <2>2 DEF Beside
  <2> QED BY <2>1, <2>2
<1> HIDE DEF base
<1>3. Keeps(P, s, one) /\ Beside(base, one, side)
  BY <1>2, IntfDelay
<1> HIDE DEF one
<1>4. Keeps(P, s, ends) /\ Beside(one, ends, side)
  BY <1>3, IntfDelay
<1> HIDE DEF ends
<1>5. Beside(t, ends, side)
  BY <1>2, <1>3, <1>4, BesideWays
<1>6. /\ \A j \in 0 .. 15 : field(0)[j] = 0 <=> j \in t.chip.eye[side]
      /\ \A j \in 0 .. 15 : field(1)[j] = 0 <=> -j \in t.chip.eye[side]
  <2>1. \A j \in 0 .. 15 : j - 15 * 0 = j /\ (15 - j) - 15 * 1 = -j
    OBVIOUS
  <2>2. \A j \in 0 .. 15 : field(0)[j] = 0 <=> j \in t.chip.eye[side]
    BY <2>1 DEF Radio!check_pn
  <2>3. \A j \in 0 .. 15 : field(1)[j] = 0 <=> -j \in t.chip.eye[side]
    BY <2>1 DEF Radio!check_pn
  <2> QED BY <2>2, <2>3
<1> HIDE DEF field
<1>7. /\ o0.cnt \in Nat /\ o1.cnt \in Nat
      /\ o0.cnt # 0 => Radio!Middle(o0) \in 0 .. 15 /\ field(0)[Radio!Middle(o0)] = 0
      /\ o1.cnt # 0 => Radio!Middle(o1) \in 0 .. 15 /\ field(1)[Radio!Middle(o1)] = 0
      /\ (\E i \in 0 .. 15 : field(0)[i] = 0) => o0.cnt # 0
      /\ (\E i \in 0 .. 15 : field(1)[i] = 0) => o1.cnt # 0
  <2>1. 16 \in Nat /\ 16 - 1 = 15
    OBVIOUS
  <2>2. \A g : LET o == Radio!find_opt(g, 16) IN
          /\ o.cnt \in Nat
          /\ o.cnt # 0 => Radio!Middle(o) \in 0 .. 15 /\ g[Radio!Middle(o)] = 0
          /\ (\E i \in 0 .. 15 : g[i] = 0) => o.cnt # 0
    BY <2>1, WindowFound
  <2> QED BY <2>2
<1> HIDE DEF o0, o1
<1>8. CASE o0.cnt = 0 /\ o1.cnt = 0
  <2> DEFINE none == <<15, 0>>
             set == WithDelay(ends, side, none)
  <2>1. u = Radio!Result(set, "EIO")
    BY <1>1, <1>8, Zenon DEF Radio!SetMiddle, WithDelay
  <2> HIDE DEF none
  <2>2. Keeps(P, s, set) /\ Beside(ends, set, side)
    BY <1>4, DelaySet
  <2> HIDE DEF set
  <2>3. Keeps(P, s, u) /\ Keeps({"delays"}, set, u)
    <3>1. Keeps({"delays"}, set, set)
      BY <2>2, KeepsFacts
    <3> QED BY <2>1, <2>2, <3>1, ResultKeeps
  <2>4. Beside(t, u, side)
    <3>1. Beside(t, set, side)
      BY <1>5, <2>2, BesideWays
    <3> QED BY <2>3, <3>1, BesideWays
  <2>5. ~Radio!Ok(u)
    <3>1. "rc" \in DOMAIN set
      BY <2>2, KeepsFacts DEF Built, TunedFields
    <3> QED BY <2>1, <3>1 DEF Radio!Ok, Radio!Result
  <2>6. t.chip.eye[side] \cap (-15 .. 15) = {}
    <3> SUFFICES ASSUME NEW x \in -15 .. 15, x \in t.chip.eye[side] PROVE FALSE
      OBVIOUS
    <3>1. CASE x >= 0
      BY <1>6, <1>7, <1>8, <3>1
    <3>2. CASE x < 0
      <4>1. -x \in 0 .. 15 /\ -(-x) = x
        BY <3>2
      <4> QED BY <1>6, <1>7, <1>8, <4>1
    <3> QED BY <3>1, <3>2
  <2> QED BY <2>3, <2>4, <2>5, <2>6
<1>12. ASSUME NEW clock, NEW data
       PROVE  /\ Keeps(P, s, Radio!set_intf_delay(ends, side, clock, data, TRUE))
              /\ Beside(ends, Radio!set_intf_delay(ends, side, clock, data, TRUE), side)
              /\ DelayIs(Radio!set_intf_delay(ends, side, clock, data, TRUE), side, clock, data)
  BY <1>4, IntfDelay
<1>9. ASSUME NEW clock \in 0 .. 15, NEW data \in 0 .. 15, data - clock \in t.chip.eye[side],
             u = Radio!Result(Radio!set_intf_delay(ends, side, clock, data, TRUE), "ok")
      PROVE  /\ Keeps(P, s, u) /\ Beside(t, u, side) /\ Radio!Ok(u)
             /\ Arrives(t, side, u.reg.DELAY[side])
  <2> DEFINE set == Radio!set_intf_delay(ends, side, clock, data, TRUE)
  <2>1. Keeps(P, s, set) /\ Beside(ends, set, side) /\ DelayIs(set, side, clock, data)
    BY <1>12, Zenon
  <2> HIDE DEF set
  <2>2. Keeps(P, s, u) /\ Keeps({"delays"}, set, u)
    <3>1. Keeps({"delays"}, set, set)
      BY <2>1, KeepsFacts
    <3> QED BY <1>9, <2>1, <3>1, ResultKeeps DEF set
  <2>3. Beside(t, u, side) /\ DelayIs(u, side, clock, data)
    <3>1. Beside(t, set, side)
      BY <1>5, <2>1, BesideWays
    <3>2. "delays" \in {"delays"}
      OBVIOUS
    <3>3. Beside(t, u, side) /\ u.reg.DELAY[side] = set.reg.DELAY[side]
      BY <2>2, <3>1, <3>2, BesideWays
    <3> QED BY <2>1, <3>3 DEF DelayIs
  <2>4. Radio!Ok(u)
    <3>1. "rc" \in DOMAIN set
      BY <2>1, KeepsFacts DEF Built, TunedFields
    <3> QED BY <1>9, <3>1 DEF Radio!Ok, Radio!Result, set
  <2>6. Arrives(t, side, u.reg.DELAY[side])
    BY <1>9, <2>3 DEF Arrives, DelayIs
  <2> QED BY <2>2, <2>3, <2>4, <2>6
<1> DEFINE m0 == Radio!Middle(o0)
           m1 == Radio!Middle(o1)
<1>10. CASE o1.cnt > o0.cnt
  <2>1. m1 \in 0 .. 15 /\ 0 - m1 \in t.chip.eye[side]
    <3>1. o1.cnt # 0 /\ \A m \in 0 .. 15 : 0 - m = -m
      BY <1>7, <1>10
    <3> QED BY <1>6, <1>7, <3>1
  <2>2. u = Radio!Result(Radio!set_intf_delay(ends, side, m1, 0, TRUE), "ok")
    <3>1. ~(o0.cnt = 0 /\ o1.cnt = 0)
      BY <1>7, <1>10
    <3> QED BY <1>1, <1>10, <3>1, Zenon DEF Radio!SetMiddle
  <2>3. 0 \in 0 .. 15
    OBVIOUS
  <2> HIDE DEF m1
  <2> QED BY <1>9, <2>1, <2>2, <2>3
<1>11. CASE ~(o0.cnt = 0 /\ o1.cnt = 0) /\ ~(o1.cnt > o0.cnt)
  <2>1. m0 \in 0 .. 15 /\ m0 - 0 \in t.chip.eye[side]
    <3>1. o0.cnt # 0 /\ \A m \in 0 .. 15 : m - 0 = m
      BY <1>7, <1>11
    <3> QED BY <1>6, <1>7, <3>1
  <2>2. u = Radio!Result(Radio!set_intf_delay(ends, side, 0, m0, TRUE), "ok")
    BY <1>1, <1>11, Zenon DEF Radio!SetMiddle
  <2>3. 0 \in 0 .. 15
    OBVIOUS
  <2> HIDE DEF m0
  <2> QED BY <1>9, <2>1, <2>2, <2>3
<1> QED BY <1>8, <1>10, <1>11

LEMMA CoresKeep ==
  ASSUME NEW P, NEW s, NEW t, Keeps(P, s, t), NEW x
  PROVE  Keeps(P, s, Radio!CoresAs(t, x)) /\ Radio!Ok(Radio!CoresAs(t, x)) = Radio!Ok(t)
<1> DEFINE one == [t EXCEPT !.reg.PNSEL = "PN9"]
           u == [one EXCEPT !.reg.DSEL = x]
<1> USE DEF Keeps, Built, TunedFields, TunedRegisters, LoUnset, Eyed
<1>1. Keeps(P, s, one)
  OBVIOUS
<1>2. Radio!CoresAs(t, x) = u
  BY DEF Radio!CoresAs
<1>3. u.rc = t.rc
  OBVIOUS
<1> HIDE DEF one
<1>4. Keeps(P, s, u)
  BY <1>1
<1> HIDE DEF u, Keeps, Built, TunedFields, TunedRegisters, LoUnset, Eyed
<1> QED BY <1>2, <1>3, <1>4 DEF Radio!Ok

\* A tuning that succeeds has found, for each side it is about, a delay at which data
\* arrives; it does if there is one to be found.
LEMMA BothTuned ==
  ASSUME NEW P, NEW s, NEW t, Keeps(P, s, t), "delays" \notin P, "eyed" \notin P, NEW swept
  PROVE  LET u == Radio!ThenTx(Radio!dig_tune_rx(t, swept), swept) IN
         /\ Keeps(P, s, u) /\ u.port_delay = t.port_delay
         /\ Radio!Ok(u) =>
              /\ Arrives(t, "rx", u.reg.DELAY["rx"])
              /\ \/ Arrives(t, "tx", u.reg.DELAY["tx"])
                 \/ /\ s.dig_interface_tune_skipmode # 0
                    /\ u.reg.DELAY["tx"] = t.reg.DELAY["tx"]
         /\ (\A side \in Radio!Sides : t.chip.eye[side] \cap (-15 .. 15) # {}) => Radio!Ok(u)
<1> DEFINE r0 == Radio!bist_prbs(Radio!bist_loopback(t, 0), "rx")
           r == Radio!dig_tune_delay(r0, swept, "rx")
           x0 == Radio!bist_loopback(Radio!bist_prbs(r, "off"), 1)
           x == Radio!dig_tune_delay(x0, swept, "tx")
           y == Radio!dig_tune_tx(r, swept)
           u == Radio!ThenTx(r, swept)
<1>1. Radio!dig_tune_rx(t, swept) = r
  BY Zenon DEF Radio!dig_tune_rx
<1>2. Keeps(P, s, r0) /\ Keeps({"delays"}, t, r0)
  <2>1. Keeps({"delays"}, t, t)
    BY KeepsFacts
  <2> QED BY <2>1, TestKeeps
<1>a. "rx" \in Radio!Sides /\ "tx" \in Radio!Sides /\ "rx" # "tx"
      /\ \A side \in Radio!Sides : side = "rx" \/ side = "tx"
  BY DEF Radio!Sides
<1> HIDE DEF r0
<1>3. /\ Keeps(P, s, r) /\ Beside(r0, r, "rx")
      /\ Radio!Ok(r) => Arrives(r0, "rx", r.reg.DELAY["rx"])
      /\ r0.chip.eye["rx"] \cap (-15 .. 15) # {} => Radio!Ok(r)
  BY <1>a, <1>2, DelayTuned
<1> HIDE DEF r
<1>4. Keeps(P, s, x0) /\ Keeps({"delays"}, r, x0)
  <2>1. Keeps({"delays"}, r, r)
    BY <1>3, KeepsFacts
  <2> QED BY <1>3, <2>1, TestKeeps
<1>5. y = Radio!CoresAs(x, Radio!bist_loopback(r, 1).reg.DSEL)
  BY Zenon DEF Radio!dig_tune_tx
<1> HIDE DEF x0
<1>6. /\ Keeps(P, s, x) /\ Beside(x0, x, "tx")
      /\ Radio!Ok(x) => Arrives(x0, "tx", x.reg.DELAY["tx"])
      /\ x0.chip.eye["tx"] \cap (-15 .. 15) # {} => Radio!Ok(x)
  BY <1>a, <1>4, DelayTuned
<1> HIDE DEF x
<1>7. Keeps(P, s, y) /\ Keeps({"delays"}, x, y) /\ Radio!Ok(y) = Radio!Ok(x)
  <2>1. Keeps({"delays"}, x, x)
    BY <1>6, KeepsFacts
  <2> QED BY <1>5, <1>6, <2>1, CoresKeep
<1> HIDE DEF y
<1>8. r0.chip = t.chip /\ r0.reg.DELAY = t.reg.DELAY /\ r0.port_delay = t.port_delay
  BY <1>2 DEF Keeps
<1>9. r.chip = t.chip /\ r.port_delay = t.port_delay /\ r.reg.DELAY["tx"] = t.reg.DELAY["tx"]
  BY <1>a, <1>3, <1>8 DEF Beside
<1>10. x0.chip = r.chip /\ x0.reg.DELAY = r.reg.DELAY /\ x0.port_delay = r.port_delay
  BY <1>4 DEF Keeps
<1>11. x.chip = t.chip /\ x.port_delay = t.port_delay /\ x.reg.DELAY["rx"] = r.reg.DELAY["rx"]
  BY <1>a, <1>6, <1>9, <1>10 DEF Beside
<1>12. y.chip = t.chip /\ y.port_delay = t.port_delay /\ y.reg.DELAY = x.reg.DELAY
  BY <1>7, <1>11 DEF Keeps
<1>13. r.dig_interface_tune_skipmode = s.dig_interface_tune_skipmode
  BY <1>3 DEF Keeps
<1>14. Radio!Ok(r) => Arrives(t, "rx", r.reg.DELAY["rx"])
  BY <1>3, <1>8 DEF Arrives
<1>15. Radio!Ok(x) => Arrives(t, "tx", x.reg.DELAY["tx"])
  BY <1>6, <1>9, <1>10 DEF Arrives
<1>16. CASE Radio!Ok(r) /\ r.dig_interface_tune_skipmode = 0
  <2>1. u = y
    BY <1>16 DEF Radio!ThenTx, y
  <2> HIDE DEF u
  <2>2. /\ Keeps(P, s, u) /\ u.port_delay = t.port_delay
        /\ Radio!Ok(u) =>
             Arrives(t, "rx", u.reg.DELAY["rx"]) /\ Arrives(t, "tx", u.reg.DELAY["tx"])
    BY <1>7, <1>11, <1>12, <1>14, <1>15, <1>16, <2>1
  <2>3. (\A side \in Radio!Sides : t.chip.eye[side] \cap (-15 .. 15) # {}) => Radio!Ok(u)
    BY <1>a, <1>6, <1>7, <1>9, <1>10, <2>1
  <2> QED BY <1>1, <2>2, <2>3 DEF u
<1>17. CASE ~(Radio!Ok(r) /\ r.dig_interface_tune_skipmode = 0)
  <2>1. u = r
    BY <1>17 DEF Radio!ThenTx
  <2> HIDE DEF u
  <2>2. Keeps(P, s, u) /\ u.port_delay = t.port_delay
    BY <1>3, <1>9, <2>1
  <2>3. Radio!Ok(u) => /\ Arrives(t, "rx", u.reg.DELAY["rx"])
                       /\ s.dig_interface_tune_skipmode # 0
                       /\ u.reg.DELAY["tx"] = t.reg.DELAY["tx"]
    BY <1>9, <1>13, <1>14, <1>17, <2>1
  <2>4. (\A side \in Radio!Sides : t.chip.eye[side] \cap (-15 .. 15) # {}) => Radio!Ok(u)
    BY <1>a, <1>3, <1>8, <2>1
  <2> QED BY <1>1, <2>2, <2>3, <2>4 DEF u
<1> QED BY <1>16, <1>17

DelaysNow(t, delays) == [t EXCEPT !.reg.DELAY = delays]
DelaysKept(t, delays) == [t EXCEPT !.port_delay = delays]

LEMMA DelaysSet ==
  ASSUME NEW P, NEW s, NEW t, Keeps(P, s, t), "delays" \notin P, "eyed" \notin P,
         NEW d, DOMAIN d = Radio!Sides
  PROVE  /\ Keeps(P, s, DelaysNow(t, d)) /\ DelaysNow(t, d).reg.DELAY = d
         /\ DelaysNow(t, d).port_delay = t.port_delay
         /\ Keeps(P, s, DelaysKept(t, d)) /\ DelaysKept(t, d).port_delay = d
         /\ DelaysKept(t, d).reg.DELAY = t.reg.DELAY
  BY DEF Keeps, Built, TunedFields, TunedRegisters, LoUnset, DelaysNow, DelaysKept

LEMMA QuietKeeps ==
  ASSUME NEW P, NEW s, NEW t, Keeps(P, s, t), NEW a
  PROVE  /\ Keeps(P, s, Radio!Silenced(t)) /\ Keeps(P, s, Radio!Resumed(t, a))
         /\ Keeps(P, s, Radio!TestsAs(t, a))
<1>1. Keeps(P, s, Radio!Silenced(t))
  BY MuteKeeps, ModeKeeps DEF Radio!Silenced
<1>2. Keeps(P, s, Radio!Resumed(t, a))
  BY MuteKeeps, ModeKeeps, RestoreKeeps DEF Radio!Resumed, Radio!ModeAs
<1>3. \A u, x : Keeps(P, s, u) => Keeps(P, s, [u EXCEPT !.reg.BIST = x])
  BY DEF Keeps, Built, TunedFields, TunedRegisters, LoUnset, Eyed
<1>4. Keeps(P, s, Radio!TestsAs(t, a))
  BY <1>3, TestKeeps DEF Radio!TestsAs
<1> QED BY <1>1, <1>2, <1>4

\* The delays of the first are those of the second.
SameDelays(t, u) ==
  t.reg.DELAY = u.reg.DELAY /\ t.port_delay = u.port_delay /\ t.chip = u.chip

LEMMA QuietDelays ==
  ASSUME NEW t, Built(t), NEW a, NEW rc
  PROVE  /\ SameDelays(Radio!Silenced(t), t) /\ SameDelays(Radio!Resumed(t, a), t)
         /\ SameDelays(Radio!TestsAs(t, a), t) /\ SameDelays(Radio!ensm_force_state(t, a), t)
         /\ SameDelays(Radio!Result(t, rc), t)
<1>1. Keeps({"delays"}, t, t)
  BY KeepsFacts
<1>2. \A u : Keeps({"delays"}, t, u) => SameDelays(u, t)
  BY DEF Keeps, SameDelays
<1> QED BY <1>1, <1>2, QuietKeeps, ForceKeeps, ResultKeeps

LEMMA DefaultDelaysSet ==
  ASSUME NEW P, NEW s, NEW t, Keeps(P, s, t), "delays" \notin P, "eyed" \notin P,
         NEW a, Built(a)
  PROVE  /\ Keeps(P, s, Radio!DefaultDelays(t, a))
         /\ Radio!DefaultDelays(t, a).reg.DELAY = a.port_delay
         /\ Radio!DefaultDelays(t, a).port_delay = t.port_delay
<1> DEFINE alert == Radio!ensm_force_state(t, "ALERT")
<1>1. Keeps(P, s, alert) /\ SameDelays(alert, t)
  BY ForceKeeps, QuietDelays, KeepsFacts
<1>2. Radio!DefaultDelays(t, a) = [alert EXCEPT !.reg.DELAY = a.port_delay]
  BY DEF Radio!DefaultDelays
<1> DEFINE d == a.port_delay
           u == DelaysNow(alert, d)
<1>3. DOMAIN d = Radio!Sides
  BY DEF Built
<1>4. Radio!DefaultDelays(t, a) = u
  BY <1>2 DEF DelaysNow
<1> HIDE DEF alert, d
<1>5. Keeps(P, s, u) /\ u.reg.DELAY = d /\ u.port_delay = alert.port_delay
  BY <1>1, <1>3, DelaysSet
<1> HIDE DEF u
<1> QED BY <1>1, <1>4, <1>5 DEF SameDelays, d

\* Delays at which the data of both sides arrives.
Arriving(s, delays) == \A side \in Radio!Sides : Arrives(s, side, delays[side])
Open(s) == \A side \in Radio!Sides : s.chip.eye[side] \cap (-15 .. 15) # {}

LEMMA EyedWays ==
  /\ \A s : Eyed(s) <=> Arriving(s, s.reg.DELAY) /\ Arriving(s, s.port_delay)
  /\ \A s, t, delays : t.chip = s.chip => (Arriving(t, delays) <=> Arriving(s, delays))
  /\ \A s : Radio!InEye(s, s.reg.DELAY) <=> Arriving(s, s.reg.DELAY)
  /\ \A s, t : SameDelays(t, s) => (Eyed(t) <=> Eyed(s))
<1>1. \A s : Eyed(s) <=> Arriving(s, s.reg.DELAY) /\ Arriving(s, s.port_delay)
  BY DEF Eyed, Both, Arriving, Arrives
<1>2. \A s, t, delays : t.chip = s.chip => (Arriving(t, delays) <=> Arriving(s, delays))
  BY DEF Arriving, Arrives
<1>3. \A s : Radio!InEye(s, s.reg.DELAY) <=> Arriving(s, s.reg.DELAY)
  BY DEF Radio!InEye, Arriving, Arrives
<1> QED BY <1>1, <1>2, <1>3 DEF SameDelays

\* To what is kept, the delays in force and those to come back to.
LEMMA KeptDelays ==
  ASSUME NEW P, NEW s, NEW t, Keeps(P, s, t), "delays" \notin P, "eyed" \notin P,
         NEW a, Built(a), NEW skip
  PROVE  LET u == Radio!Kept(t, a, skip) IN
         /\ Keeps(P, s, u)
         /\ ~Radio!Ok(t) => u.reg.DELAY = a.port_delay /\ u.port_delay = t.port_delay
         /\ Radio!Ok(t) /\ skip => u.reg.DELAY = t.reg.DELAY /\ u.port_delay = t.port_delay
         /\ Radio!Ok(t) /\ ~skip => u.reg.DELAY = t.reg.DELAY /\ u.port_delay = t.reg.DELAY
<1> DEFINE test == Radio!TestsAs(t, a)
           now == t.reg.DELAY
           u == Radio!Kept(t, a, skip)
<1>1. Keeps(P, s, test) /\ test.reg.DELAY = t.reg.DELAY /\ test.port_delay = t.port_delay
  BY QuietKeeps, QuietDelays, KeepsFacts DEF SameDelays
<1>2. DOMAIN now = Radio!Sides
  BY KeepsFacts DEF Built
<1> HIDE DEF test, now
<1>3. CASE ~Radio!Ok(t)
  <2>1. u = Radio!DefaultDelays(test, a)
    BY <1>3, Zenon DEF Radio!Kept, test
  <2> HIDE DEF u
  <2>2. Keeps(P, s, u) /\ u.reg.DELAY = a.port_delay /\ u.port_delay = test.port_delay
    BY <1>1, <2>1, DefaultDelaysSet
  <2> QED BY <1>1, <1>3, <2>2 DEF u
<1>4. CASE Radio!Ok(t) /\ skip
  <2>1. u = test
    BY <1>4, Zenon DEF Radio!Kept, test
  <2> HIDE DEF u
  <2> QED BY <1>1, <1>4, <2>1 DEF u
<1>5. CASE Radio!Ok(t) /\ ~skip
  <2>1. u = DelaysKept(test, now)
    BY <1>5, Zenon DEF Radio!Kept, test, now, DelaysKept
  <2> HIDE DEF u
  <2>2. Keeps(P, s, u) /\ u.port_delay = now /\ u.reg.DELAY = test.reg.DELAY
    BY <1>1, <1>2, <2>1, DelaysSet
  <2> QED BY <1>1, <1>5, <2>2 DEF u, now
<1> QED BY <1>3, <1>4, <1>5

\* A tuning leaves the delays in the eye that were, for whatever it has found; if it is
\* about both sides and keeps what it finds, they are in the eye after it in any case.
LEMMA DigTuned ==
  ASSUME NEW P, NEW s, NEW t, Keeps(P, s, t), "delays" \notin P, "eyed" \notin P,
         NEW swept, NEW skip, NEW default
  PROVE  LET u == Radio!dig_tune(t, swept, skip, default) IN
         /\ Keeps(P, s, u)
         /\ Eyed(t) => Eyed(u)
         /\ Radio!Ok(u) /\ t.dig_interface_tune_skipmode = 0 /\ ~skip /\ ~default /\ Open(t)
              => Eyed(u)
<1> DEFINE u == Radio!dig_tune(t, swept, skip, default)
<1>0. Built(t)
  BY KeepsFacts
<1>1. CASE ~t.has_conv
  <2>1. u = Radio!Result(t, "ENODEV")
    BY <1>1, Zenon DEF Radio!dig_tune
  <2> HIDE DEF u
  <2>2. Keeps(P, s, u) /\ SameDelays(u, t)
    BY <1>0, <2>1, ResultKeeps, QuietDelays
  <2>3. ~Radio!Ok(u)
    BY <1>0, <2>1 DEF Built, TunedFields, Radio!Ok, Radio!Result
  <2> QED BY <2>2, <2>3, EyedWays DEF u
<1>2. CASE t.has_conv /\ (t.dig_interface_tune_skipmode = 2 \/ default)
  <2> DEFINE back == Radio!DefaultDelays(t, t)
             res == Radio!Resumed(back, t)
  <2>1. u = Radio!Result(res, "ok")
    BY <1>2, Zenon DEF Radio!dig_tune
  <2>2. /\ Keeps(P, s, back) /\ back.reg.DELAY = t.port_delay
        /\ back.port_delay = t.port_delay
    BY <1>0, DefaultDelaysSet
  <2> HIDE DEF back
  <2>3. Keeps(P, s, res) /\ SameDelays(res, back)
    <3>1. Built(back)
      BY <2>2, KeepsFacts
    <3> QED BY <2>2, <3>1, QuietKeeps, QuietDelays
  <2> HIDE DEF res, u
  <2>4. Keeps(P, s, u) /\ SameDelays(u, res)
    <3>1. Built(res)
      BY <2>3, KeepsFacts
    <3> QED BY <2>1, <2>3, <3>1, ResultKeeps, QuietDelays
  <2>5. back.chip = t.chip
    BY <2>2 DEF Keeps
  <2>6. Eyed(t) => Eyed(u)
    BY <2>2, <2>3, <2>4, <2>5, EyedWays
  <2> QED BY <1>2, <2>4, <2>6 DEF u
<1>3. CASE t.has_conv /\ ~(t.dig_interface_tune_skipmode = 2 \/ default)
  <2> DEFINE q == Radio!Silenced(t)
             x == Radio!ThenTx(Radio!dig_tune_rx(q, swept), swept)
             kept == Radio!Kept(x, t, skip)
             res == Radio!Resumed(kept, t)
             rc == IF swept THEN x.rc ELSE "ok"
  <2>1. u = Radio!Result(res, rc)
    BY <1>3, Zenon DEF Radio!dig_tune, Radio!AfterTuning
  <2>2. Keeps(P, s, q) /\ SameDelays(q, t)
    BY <1>0, QuietKeeps, QuietDelays
  <2> HIDE DEF q
  <2>3. /\ Keeps(P, s, x) /\ x.port_delay = q.port_delay
        /\ Radio!Ok(x) =>
             /\ Arrives(q, "rx", x.reg.DELAY["rx"])
             /\ \/ Arrives(q, "tx", x.reg.DELAY["tx"])
                \/ /\ s.dig_interface_tune_skipmode # 0
                   /\ x.reg.DELAY["tx"] = q.reg.DELAY["tx"]
        /\ (\A side \in Radio!Sides : q.chip.eye[side] \cap (-15 .. 15) # {}) => Radio!Ok(x)
    BY <2>2, BothTuned
  <2> HIDE DEF x
  <2>4. /\ Keeps(P, s, kept)
        /\ ~Radio!Ok(x) => kept.reg.DELAY = t.port_delay /\ kept.port_delay = x.port_delay
        /\ Radio!Ok(x) /\ skip => kept.reg.DELAY = x.reg.DELAY /\ kept.port_delay = x.port_delay
        /\ Radio!Ok(x) /\ ~skip => kept.reg.DELAY = x.reg.DELAY /\ kept.port_delay = x.reg.DELAY
    BY <1>0, <2>3, KeptDelays
  <2> HIDE DEF kept
  <2>5. Keeps(P, s, res) /\ SameDelays(res, kept)
    <3>1. Built(kept)
      BY <2>4, KeepsFacts
    <3> QED BY <2>4, <3>1, QuietKeeps, QuietDelays
  <2> HIDE DEF res, rc, u
  <2>6. Keeps(P, s, u) /\ SameDelays(u, res)
    <3>1. Built(res)
      BY <2>5, KeepsFacts
    <3> QED BY <2>1, <2>5, <3>1, ResultKeeps, QuietDelays
  <2>7. q.chip = t.chip /\ kept.chip = t.chip /\ q.port_delay = t.port_delay
        /\ q.reg.DELAY = t.reg.DELAY
        /\ t.dig_interface_tune_skipmode = s.dig_interface_tune_skipmode
    <3>1. kept.chip = s.chip /\ t.chip = s.chip
      BY <2>4 DEF Keeps
    <3> QED BY <2>2, <3>1 DEF SameDelays, Keeps
  <2>8. Eyed(u) <=> Arriving(t, kept.reg.DELAY) /\ Arriving(t, kept.port_delay)
    BY <2>5, <2>6, <2>7, EyedWays
  <2>9. Radio!Ok(x) => /\ Arriving(t, t.reg.DELAY) => Arriving(t, x.reg.DELAY)
                       /\ s.dig_interface_tune_skipmode = 0 => Arriving(t, x.reg.DELAY)
    <3>1. \A delays : Arriving(t, delays)
                        <=> Arrives(t, "rx", delays["rx"]) /\ Arrives(t, "tx", delays["tx"])
      BY DEF Arriving, Radio!Sides
    <3>2. \A side, delay : Arrives(q, side, delay) <=> Arrives(t, side, delay)
      BY <2>7 DEF Arrives
    <3> QED BY <2>3, <2>7, <3>1, <3>2
  <2>10. Eyed(t) => Eyed(u)
    BY <2>3, <2>4, <2>7, <2>8, <2>9, EyedWays
  <2>11. t.dig_interface_tune_skipmode = 0 /\ ~skip /\ Open(t) => Eyed(u)
    BY <2>3, <2>4, <2>7, <2>8, <2>9 DEF Open
  <2> QED BY <2>6, <2>10, <2>11 DEF u
<1> QED BY <1>1, <1>2, <1>3

LEMMA TuneKeeps ==
  ASSUME NEW P, NEW s, NEW t, Keeps(P, s, t), "delays" \notin P, NEW swept, NEW skip, NEW default
  PROVE  Keeps(P, s, Radio!dig_tune(t, swept, skip, default))
<1> DEFINE u == Radio!dig_tune(t, swept, skip, default)
           Q == P \ {"eyed"}
<1>1. Keeps(Q, s, u) /\ (Eyed(t) => Eyed(u))
  <2>1. Keeps(Q, s, t)
    BY KeepsFacts
  <2>2. "delays" \notin Q /\ "eyed" \notin Q
    OBVIOUS
  <2> HIDE DEF Q
  <2> QED BY <2>1, <2>2, DigTuned
<1> HIDE DEF u
<1>2. "eyed" \in P => (Eyed(s) => Eyed(t))
  BY DEF Keeps
<1>3. Keeps(P, s, u)
  BY <1>1, <1>2 DEF Keeps
<1> QED BY <1>3 DEF u
-----------------------------------------------------------------------------
(* The calls *)

LEMMA ChainKeeps ==
  ASSUME NEW P, NEW s, NEW t, Keeps(P, s, t),
         "delays" \in P => t.bypass_tx_fir /\ t.bypass_rx_fir, NEW rx, NEW tx
  PROVE  Keeps(P, s, Radio!set_trx_clock_chain(t, rx, tx))
<1> DEFINE set == Radio!SetRates(t, rx, tx)
           tuned == Radio!Retuned(set)
<1>1. Keeps(P, s, set) /\ Keeps({"bypass"}, t, set)
  <2>1. Keeps({"bypass"}, t, t)
    BY KeepsFacts
  <2> QED BY <2>1, RatesKeep
<1>2. set.bypass_tx_fir = t.bypass_tx_fir /\ set.bypass_rx_fir = t.bypass_rx_fir
  BY <1>1 DEF Keeps
<1> HIDE DEF set
<1>3. Keeps(P, s, tuned)
  BY <1>1, <1>2, TuneKeeps DEF Radio!Retuned
<1> HIDE DEF tuned
<1>4. Keeps(P, s, Radio!bb_clk_change_handler(tuned))
  BY <1>3, ClkHandlerKeeps
<1>5. Keeps(P, s, Radio!Result(t, "EINVAL"))
  BY ResultKeeps
<1> QED BY <1>4, <1>5 DEF Radio!set_trx_clock_chain, tuned, set

LEMMA UpdateKeeps ==
  ASSUME NEW P, NEW s, NEW t, Keeps(P, s, t), NEW rx, NEW tx
  PROVE  Keeps(P, s, Radio!update_rf_bandwidth(t, rx, tx))
<1>1. Keeps(P, s, Radio!InAlert(t))
  BY CalKeeps, ForceKeeps DEF Radio!InAlert
<1>2. \A u : Keeps(P, s, u) => Keeps(P, s, Radio!SetFilters(u, rx, tx))
  BY SetFiltersKeeps
<1>3. \A u : Keeps(P, s, u) => Keeps(P, s, Radio!WidthsNoted(u, rx, tx))
  BY WidthsKeep
<1>4. \A u : Keeps(P, s, u) => Keeps(P, s, Radio!ThenQuad(u, rx, tx))
  BY QuadKeeps DEF Radio!ThenQuad
<1>5. \A u : Keeps(P, s, u) => Keeps(P, s, Radio!ThenBack(u))
  BY CalKeeps, RestoreKeeps DEF Radio!ThenBack, Radio!IfOk
<1> QED BY <1>1, <1>2, <1>3, <1>4, <1>5 DEF Radio!update_rf_bandwidth

LEMMA CalibKeeps ==
  ASSUME NEW P, NEW s, NEW t, Keeps(P, s, t), NEW cal, NEW arg
  PROVE  Keeps(P, s, Radio!do_calib_run(t, cal, arg))
<1> DEFINE alert == Radio!ensm_force_state(Radio!tracking_control(t, {}), "ALERT")
           end(u) == Radio!ensm_restore_prev_state(Radio!tracking_control(u, t.tracks))
           rx == t.current_rx_bw \div 2
           tx == t.current_tx_bw \div 2
           did == CASE cal = "TX_QUAD_CAL" -> Radio!tx_quad_calib(alert, rx, tx, arg)
                    [] cal = "RFDC_CAL" -> Radio!rf_dc_offset_calib(alert)
                    [] OTHER -> Radio!Result(alert, "EINVAL")
<1>1. Radio!do_calib_run(t, cal, arg) = end(did)
  BY Zenon DEF Radio!do_calib_run
<1>2. Keeps(P, s, alert)
  BY CalKeeps, ForceKeeps
<1> HIDE DEF alert, rx, tx
<1>3. Keeps(P, s, Radio!tx_quad_calib(alert, rx, tx, arg))
  BY <1>2, QuadKeeps
<1>4. Keeps(P, s, Radio!rf_dc_offset_calib(alert)) /\ Keeps(P, s, Radio!Result(alert, "EINVAL"))
  BY <1>2, CalKeeps, ResultKeeps
<1>5. Keeps(P, s, did)
  BY <1>3, <1>4
<1> HIDE DEF did
<1>6. Keeps(P, s, end(did))
  BY <1>5, CalKeeps, RestoreKeeps
<1> QED BY <1>1, <1>6

LEMMA StepCalibKeeps ==
  ASSUME NEW P, NEW s, NEW t, Keeps(P, s, t)
  PROVE  Keeps(P, s, Radio!rssi_gain_step_calib(t))
<1>1. ASSUME NEW u, Keeps(P, s, u), NEW x, NEW y
      PROVE  Keeps(P, s, [u EXCEPT !.reg.RSSI = x, !.reg.LNA_GAIN = y])
  <2> DEFINE one == [u EXCEPT !.reg.RSSI = x]
  <2>1. Keeps(P, s, one)
    BY <1>1 DEF Keeps, Built, TunedFields, TunedRegisters, LoUnset, Eyed
  <2>2. [u EXCEPT !.reg.RSSI = x, !.reg.LNA_GAIN = y] = [one EXCEPT !.reg.LNA_GAIN = y]
    BY SMT
  <2> HIDE DEF one
  <2>3. Keeps(P, s, [one EXCEPT !.reg.LNA_GAIN = y])
    BY <2>1 DEF Keeps, Built, TunedFields, TunedRegisters, LoUnset, Eyed
  <2> QED BY <2>2, <2>3
<1> DEFINE alert == Radio!ensm_force_state(t, "ALERT")
<1>2. Keeps(P, s, alert)
  BY ForceKeeps
<1> DEFINE lo == t.current_lo_freq.rx
           lna == <<192, 192, 184, 160>>[CASE lo < 1300 -> 1
                                           [] lo >= 1300 /\ lo < 3300 -> 2
                                           [] lo >= 3300 /\ lo < 4100 -> 3
                                           [] lo >= 4100 -> 4]
           rssi == [alert.reg.RSSI EXCEPT !.powers[1] = Radio!Two(14), !.default = TRUE]
           ready == [alert EXCEPT !.reg.RSSI = rssi, !.reg.LNA_GAIN = lna]
           ran == Radio!run_calibration(ready, "RX_GAIN_STEP_CAL")
           back == Radio!ensm_restore_prev_state(ran)
<1>3. Radio!rssi_gain_step_calib(t) = Radio!Result(back, "ok")
  BY DEF Radio!rssi_gain_step_calib
<1> HIDE DEF alert, lna, rssi
<1>4. Keeps(P, s, ready)
  BY <1>1, <1>2, Zenon
<1> HIDE DEF ready
<1>5. Keeps(P, s, ran)
  BY <1>4, CalKeeps
<1> HIDE DEF ran
<1>6. Keeps(P, s, back)
  BY <1>5, RestoreKeeps
<1> HIDE DEF back
<1> QED BY <1>3, <1>6, ResultKeeps

LEMMA GainModeKeeps ==
  ASSUME NEW P, NEW s, NEW t, Keeps(P, s, t), NEW ch, NEW mode
  PROVE  Keeps(P, s, Radio!set_rx_gain_control_mode(t, ch, mode))
<1> DEFINE noted == [t EXCEPT !.agc_mode[ch + 1] = mode]
           r == Radio!Rx(t, ch)
<1>1. Keeps(P, s, noted)
  BY DEF Keeps, Built, TunedFields, TunedRegisters, LoUnset, Eyed
<1> HIDE DEF noted, r
<1> DEFINE off == Radio!en_dis_rx(noted, r, FALSE)
           h == (mode = "HYBRID")
           written == [off EXCEPT !.reg.AGC_MODE[r] = mode, !.reg.HYBRID = h]
           on == Radio!en_dis_rx(written, r, TRUE)
<1>2. Keeps(P, s, off)
  BY <1>1, GainKeeps
<1> HIDE DEF off, h
<1>3. Keeps(P, s, written)
  BY <1>2, AgcKeeps, Zenon
<1> HIDE DEF written
<1>4. Keeps(P, s, on)
  BY <1>3, GainKeeps
<1> HIDE DEF on
<1>5. Keeps(P, s, Radio!gc_update(on))
  BY <1>4, TimingKeeps
<1>6. Keeps(P, s, Radio!Result(noted, "EINVAL"))
  BY <1>1, ResultKeeps
<1>7. Keeps(P, s, Radio!set_gain_ctrl_mode(noted, r, mode))
  BY <1>5, <1>6, Zenon DEF Radio!set_gain_ctrl_mode, on, written, off, h
<1>8. Radio!set_rx_gain_control_mode(t, ch, mode)
        = Radio!Result(Radio!set_gain_ctrl_mode(noted, r, mode), "ok")
  BY DEF Radio!set_rx_gain_control_mode, noted, r
<1> QED BY <1>7, <1>8, ResultKeeps

Selecting(t, x) == [t EXCEPT !.reg.INPUT_SELECT = x, !.rc = "ok"]

LEMMA MonitorKeeps ==
  ASSUME NEW P, NEW s, NEW t, Keeps(P, s, t), NEW x
  PROVE  Keeps(P, s, Radio!txmon_control(t, x)) /\ Keeps(P, s, Selecting(t, x))
  BY DEF Selecting, Keeps, Built, TunedFields, TunedRegisters, LoUnset, Eyed,
         Radio!txmon_control

LEMMA PortSetKeeps ==
  ASSUME NEW P, NEW s, NEW t, Keeps(P, s, t), NEW out, NEW x \in Nat, NEW txb
  PROVE  Keeps(P, s, Radio!rf_port_setup(t, out, x, txb))
<1> DEFINE bits == IF x < 3 THEN {x * 2, x * 2 + 1} ELSE {x - 3}
           ready == IF out THEN t ELSE Radio!txmon_control(t, {})
           select == (bits \cup (IF txb THEN {Radio!TX_OUTPUT} ELSE {})) \cap 0 .. 7
           map == <<{1}, {2}, {1, 2}>>[x - 8]
           monitors == ~out /\ x > 8
<1>1. Radio!rf_port_setup(t, out, x, txb) =
        CASE x > 11 -> Radio!Result(t, "EINVAL")
          [] x <= 11 /\ monitors -> Radio!txmon_control(t, map)
          [] x <= 11 /\ ~monitors -> Selecting(ready, select)
  BY Zenon DEF Radio!rf_port_setup, Selecting
<1>2. Keeps(P, s, ready)
  <2>1. Keeps(P, s, Radio!txmon_control(t, {}))
    BY MonitorKeeps
  <2> QED BY <2>1
<1> HIDE DEF ready, select, map, monitors
<1>3. /\ Keeps(P, s, Radio!Result(t, "EINVAL"))
      /\ Keeps(P, s, Radio!txmon_control(t, map))
      /\ Keeps(P, s, Selecting(ready, select))
  BY <1>2, MonitorKeeps, ResultKeeps
<1>4. x > 11 \/ (x <= 11 /\ monitors) \/ (x <= 11 /\ ~monitors)
  OBVIOUS
<1> QED BY <1>1, <1>3, <1>4, Zenon

LEMMA PortsKeep ==
  ASSUME NEW P, NEW s, NEW t, Keeps(P, s, t), NEW x \in Nat, NEW txb
  PROVE  /\ Keeps(P, s, Radio!set_rx_rf_port_input(t, x))
         /\ Keeps(P, s, Radio!set_tx_rf_port_output(t, txb))
<1>1. Keeps(P, s, [t EXCEPT !.rf_rx_input_sel = x])
  BY DEF Keeps, Built, TunedFields, TunedRegisters, LoUnset, Eyed
<1>2. Keeps(P, s, [t EXCEPT !.rf_tx_output_sel = txb])
  BY DEF Keeps, Built, TunedFields, TunedRegisters, LoUnset, Eyed
<1>3. t.rf_rx_input_sel \in Nat
  BY KeepsFacts DEF Built
<1> QED BY <1>1, <1>2, <1>3, PortSetKeeps
         DEF Radio!set_rx_rf_port_input, Radio!set_tx_rf_port_output

LEMMA SmallKeeps ==
  ASSUME NEW P, NEW s, NEW t, Keeps(P, s, t), NEW x, NEW y, NEW z
  PROVE  /\ Keeps(P, s, Radio!set_trx_rate_gov(t, x))
         /\ Keeps(P, s, Radio!set_tx_auto_cal_en_dis(t, x))
         /\ Keeps(P, s, Radio!do_dcxo_tune(t, x, y))
         /\ Keeps(P, s, Radio!set_track_en_dis(t, x, y))
         /\ Keeps(P, s, Radio!lo_powerdown(t, x, y))
         /\ Keeps(P, s, Radio!set_tx_attenuation(t, x, y))
         /\ Keeps(P, s, Radio!set_rx_rf_gain(t, x, y))
<1>1. Keeps(P, s, Radio!set_trx_rate_gov(t, x)) /\ Keeps(P, s, Radio!set_tx_auto_cal_en_dis(t, x))
  BY DEF Keeps, Built, TunedFields, TunedRegisters, LoUnset, Eyed,
         Radio!set_trx_rate_gov, Radio!set_tx_auto_cal_en_dis
<1>2. Keeps(P, s, Radio!do_dcxo_tune(t, x, y))
  <2>1. Keeps(P, s, [t EXCEPT !.dcxo = <<x, y>>])
    BY DEF Keeps, Built, TunedFields, TunedRegisters, LoUnset, Eyed
  <2>2. ASSUME NEW u, Keeps(P, s, u) PROVE Keeps(P, s, Radio!set_dcxo_tune(u))
    <3>1. Keeps(P, s, [u EXCEPT !.reg.DCXO = u.dcxo, !.rc = "ok"])
      BY <2>2 DEF Keeps, Built, TunedFields, TunedRegisters, LoUnset, Eyed
    <3> QED BY <2>2, <3>1, ResultKeeps DEF Radio!set_dcxo_tune
  <2> QED BY <2>1, <2>2 DEF Radio!do_dcxo_tune
<1>3. Keeps(P, s, Radio!set_track_en_dis(t, x, y))
  <2>1. \A v : Keeps(P, s, [t EXCEPT !.tracks = v])
    BY DEF Keeps, Built, TunedFields, TunedRegisters, LoUnset, Eyed
  <2> QED BY <2>1, CalKeeps, ResultKeeps DEF Radio!set_track_en_dis
<1>4. Keeps(P, s, Radio!lo_powerdown(t, x, y))
  BY GainKeeps DEF Radio!lo_powerdown
<1>5. Keeps(P, s, Radio!set_tx_attenuation(t, x, y))
  BY GainKeeps DEF Radio!set_tx_attenuation
<1>6. Keeps(P, s, Radio!set_rx_rf_gain(t, x, y))
  BY RxGainKeeps DEF Radio!set_rx_rf_gain
<1> QED BY <1>1, <1>2, <1>3, <1>4, <1>5, <1>6

LEMMA FirLoadKeeps ==
  ASSUME NEW P, NEW s, NEW t, Keeps(P, s, t), NEW dest, NEW ntaps
  PROVE  Keeps(P, s, Radio!load_fir_filter_coef(t, dest, ntaps))
<1> DEFINE alert == Radio!ensm_force_state(t, "ALERT")
<1>1. Keeps(P, s, alert)
  BY ForceKeeps
<1> HIDE DEF alert
<1> USE DEF Keeps, Built, TunedFields, TunedRegisters, LoUnset, Eyed
<1>2. Keeps(P, s, [alert EXCEPT !.rx_fir_ntaps = ntaps, !.reg.TAPS.rx = ntaps])
  BY <1>1
<1>3. Keeps(P, s, [alert EXCEPT !.tx_fir_ntaps = ntaps, !.reg.TAPS.tx = ntaps])
  BY <1>1
<1> HIDE DEF Keeps, Built, TunedFields, TunedRegisters, LoUnset, Eyed
<1> QED BY <1>2, <1>3, RestoreKeeps, ResultKeeps DEF Radio!load_fir_filter_coef, alert

LEMMA FirConfigKeeps ==
  ASSUME NEW P, NEW s, NEW t, Keeps(P, s, t), NEW ratio, NEW ntaps
  PROVE  /\ Keeps(P, s, Radio!set_rx_fir_config(t, ratio, ntaps))
         /\ Keeps(P, s, Radio!set_tx_fir_config(t, ratio, ntaps))
<1>1. Keeps(P, s, [t EXCEPT !.rx_fir_dec = ratio]) /\ Keeps(P, s, [t EXCEPT !.tx_fir_int = ratio])
  BY DEF Keeps, Built, TunedFields, TunedRegisters, LoUnset, Eyed
<1> QED BY <1>1, FirLoadKeeps DEF Radio!set_rx_fir_config, Radio!set_tx_fir_config

Filed(t, a, b, c, d) ==
  [t EXCEPT !.filt_rx_bw = a, !.filt_tx_bw = b, !.filt_valid = FALSE,
            !.filt_rx_path_clks = c, !.filt_tx_path_clks = d]
Valid(t, x) == [t EXCEPT !.filt_valid = x]

LEMMA FilesKeep ==
  ASSUME NEW P, NEW s, NEW t, Keeps(P, s, t), NEW a, NEW b, NEW c, NEW d, NEW x
  PROVE  Keeps(P, s, Filed(t, a, b, c, d)) /\ Keeps(P, s, Valid(t, x))
<1> DEFINE one == [t EXCEPT !.filt_rx_bw = a, !.filt_tx_bw = b, !.filt_valid = FALSE]
           two == [one EXCEPT !.filt_rx_path_clks = c, !.filt_tx_path_clks = d]
<1> USE DEF Keeps, Built, TunedFields, TunedRegisters, LoUnset, Eyed
<1>1. Keeps(P, s, one)
  OBVIOUS
<1>2. two = Filed(t, a, b, c, d)
  BY DEF Filed
<1> HIDE DEF one
<1>3. Keeps(P, s, two)
  BY <1>1
<1>4. Keeps(P, s, Valid(t, x))
  BY DEF Valid
<1> HIDE DEF two, Keeps
<1> QED BY <1>2, <1>3, <1>4

LEMMA ParseKeeps ==
  ASSUME NEW P, NEW s, NEW t, Keeps(P, s, t), NEW file
  PROVE  Keeps(P, s, Radio!parse_fir(t, file))
<1> DEFINE given(chain, old) == IF chain = <<>> THEN old ELSE chain
           rxc == given(file.chains.rx, t.filt_rx_path_clks)
           txc == given(file.chains.tx, t.filt_tx_path_clks)
           chains == Filed(t, file.bw.rx, file.bw.tx, rxc, txc)
           tx == IF file.tx_int = 0 \/ file.tx_forgotten THEN Radio!Result(chains, "EINVAL")
                 ELSE Radio!load_fir_filter_coef([chains EXCEPT !.tx_fir_int = file.tx_int],
                                                 "tx", file.ntaps)
           rx(u) == IF file.rx_dec = 0 THEN Radio!Result(u, "EINVAL")
                    ELSE Radio!load_fir_filter_coef([u EXCEPT !.rx_fir_dec = file.rx_dec],
                                                    "rx", file.ntaps)
           both == <<>> \notin {file.chains.rx, file.chains.tx}
           valid(u) == IF Radio!Ok(u) THEN both ELSE u.filt_valid
<1>1. Radio!parse_fir(t, file) = Valid(rx(tx), valid(rx(tx)))
  BY DEF Radio!parse_fir, Valid, Filed
<1> HIDE DEF rxc, txc, valid
<1>2. Keeps(P, s, chains)
  BY FilesKeep
<1> HIDE DEF chains
<1>3. \A u : Keeps(P, s, u) => /\ Keeps(P, s, [u EXCEPT !.tx_fir_int = file.tx_int])
                               /\ Keeps(P, s, [u EXCEPT !.rx_fir_dec = file.rx_dec])
  BY DEF Keeps, Built, TunedFields, TunedRegisters, LoUnset, Eyed
<1>4. Keeps(P, s, tx)
  BY <1>2, <1>3, FirLoadKeeps, ResultKeeps
<1> HIDE DEF tx
<1>5. Keeps(P, s, rx(tx))
  BY <1>3, <1>4, FirLoadKeeps, ResultKeeps
<1> HIDE DEF rx
<1> QED BY <1>1, <1>5, FilesKeep

\* A filter on or off.
LEMMA BypassKeeps ==
  ASSUME NEW P, NEW s, NEW t, Keeps(P, s, t), "bypass" \notin P, NEW sides, NEW value
  PROVE  Keeps(P, s, Radio!Bypass(t, sides, value))
<1> DEFINE x == IF "rx" \in sides THEN value ELSE t.bypass_rx_fir
           y == IF "tx" \in sides THEN value ELSE t.bypass_tx_fir
<1>1. Radio!Bypass(t, sides, value) = [t EXCEPT !.bypass_rx_fir = x, !.bypass_tx_fir = y]
  BY DEF Radio!Bypass
<1> HIDE DEF x, y
<1>2. Keeps(P, s, [t EXCEPT !.bypass_rx_fir = x, !.bypass_tx_fir = y])
  BY DEF Keeps, Built, TunedFields, TunedRegisters, LoUnset, Eyed
<1> QED BY <1>1, <1>2

Changed == {"bypass", "delays"}

LEMMA EnableFirKeeps ==
  ASSUME NEW P, NEW s, NEW t, Keeps(P, s, t), P \cap Changed = {}, NEW sides, NEW enable
  PROVE  Keeps(P, s, Radio!EnableFir(t, sides, enable))
<1>1. "delays" \notin P /\ "bypass" \notin P
  BY DEF Changed
<1>2. \A u, v : Keeps(P, s, u) => Keeps(P, s, Radio!FirDelays(u, v))
  BY <1>1, TuneKeeps DEF Radio!FirDelays
<1>3. \A u, v : Keeps(P, s, u) => Keeps(P, s, Radio!FirWidths(u, v))
  BY <1>1, <1>2, UpdateKeeps DEF Radio!FirWidths
<1>4. ASSUME NEW u, Keeps(P, s, u), NEW chain PROVE Keeps(P, s, Radio!FirInChain(u, chain))
  BY <1>1, <1>3, <1>4, ChainKeeps, ResultKeeps DEF Radio!FirInChain
<1>5. \A u : Keeps(P, s, u) => Keeps(P, s, Radio!validate_enable_fir(u))
  BY <1>4 DEF Radio!validate_enable_fir
<1>6. ASSUME NEW u, Keeps(P, s, u), NEW x PROVE Keeps(P, s, Radio!Bypass(u, sides, x))
  BY <1>1, <1>6, BypassKeeps
<1>7. \A u : Keeps(P, s, u) => Keeps(P, s, Radio!OrBypass(u, sides))
  BY <1>6 DEF Radio!OrBypass
<1>8. Keeps(P, s, Radio!Result(t, "ok"))
      /\ Keeps(P, s, Radio!OrBypass(Radio!validate_enable_fir(Radio!Bypass(t, sides, ~enable)),
                                    sides))
  BY <1>5, <1>6, <1>7, ResultKeeps
<1> QED BY <1>8, Zenon DEF Radio!EnableFir

LEMMA LoadEnableKeeps ==
  ASSUME NEW P, NEW s, NEW t, Keeps(P, s, t), P \cap Changed = {}, NEW rx, NEW tx
  PROVE  Keeps(P, s, Radio!trx_load_enable_fir(t, rx, tx))
<1> DEFINE given(f, old) == IF f.clks = <<>> THEN old ELSE f.clks
           rxc == given(rx, t.filt_rx_path_clks)
           txc == given(tx, t.filt_tx_path_clks)
           noted == Filed(t, rx.bw, tx.bw, rxc, txc)
           rxTaps(u) == Radio!IfOk(u, Radio!set_rx_fir_config(u, rx.ratio, rx.ntaps))
           txTaps == Radio!set_tx_fir_config(noted, tx.ratio, tx.ntaps)
           valid == rx.clks # <<>> /\ tx.clks # <<>>
<1>1. Radio!trx_load_enable_fir(t, rx, tx) = Radio!ThenFirs(rxTaps(txTaps), valid)
  BY DEF Radio!trx_load_enable_fir, Filed
<1> HIDE DEF rxc, txc, valid
<1>2. Keeps(P, s, noted)
  BY FilesKeep
<1> HIDE DEF noted
<1>3. Keeps(P, s, txTaps)
  BY <1>2, FirConfigKeeps
<1> HIDE DEF txTaps
<1>4. Keeps(P, s, rxTaps(txTaps))
  BY <1>3, FirConfigKeeps, ResultKeeps
<1> HIDE DEF rxTaps
<1>5. ASSUME NEW u, Keeps(P, s, u) PROVE Keeps(P, s, Radio!ThenFirs(u, valid))
  <2>1. Keeps(P, s, Valid(u, valid))
    BY <1>5, FilesKeep
  <2>2. Keeps(P, s, Radio!EnableFir(Valid(u, valid), Radio!Sides, TRUE))
    BY <2>1, EnableFirKeeps
  <2> QED BY <1>5, <2>2, ResultKeeps DEF Radio!ThenFirs, Radio!set_trx_fir_en_dis, Valid
<1> QED BY <1>1, <1>4, <1>5
-----------------------------------------------------------------------------
(* The LOs *)

\* A step of a synthesizer.
LEMMA SynthSets ==
  ASSUME NEW P, NEW s, NEW t, Keeps(P, s, t), NEW side, NEW x, NEW y
  PROVE  /\ Keeps(P, s, [t EXCEPT !.current_use_tdd_table[side] = x, !.reg.LUT[side] = y])
         /\ Keeps(P, s, [t EXCEPT !.reg.FAST_LOCK[side] = x])
         /\ Keeps(P, s, [t EXCEPT !.reg.READY_MASK = x])
         /\ Keeps(P, s, [t EXCEPT !.reg.SYNTH_PD = x])
         /\ Keeps(P, s, [t EXCEPT !.reg.EXT_LO = x, !.rc = "ok"])
         /\ Keeps(P, s, [t EXCEPT !.cached_rfpll_div[side] = x])
         /\ Keeps(P, s, [t EXCEPT !.last_tx_quad_cal_freq = x])
         /\ Keeps(P, s, [t EXCEPT !.lo_dummy = x])
         /\ Keeps(P, s, [t EXCEPT !.lo_dummy[side] = x])
         /\ Keeps(P, s, [t EXCEPT !.lo_mux[side] = x])
<1> USE DEF Keeps, Built, TunedFields, TunedRegisters, LoUnset, Eyed
<1>1. Keeps(P, s, [t EXCEPT !.current_use_tdd_table[side] = x, !.reg.LUT[side] = y])
  OBVIOUS
<1>2. Keeps(P, s, [t EXCEPT !.reg.FAST_LOCK[side] = x])
      /\ Keeps(P, s, [t EXCEPT !.reg.READY_MASK = x])
  OBVIOUS
<1>3. Keeps(P, s, [t EXCEPT !.reg.SYNTH_PD = x])
      /\ Keeps(P, s, [t EXCEPT !.reg.EXT_LO = x, !.rc = "ok"])
  OBVIOUS
<1>4. Keeps(P, s, [t EXCEPT !.cached_rfpll_div[side] = x])
      /\ Keeps(P, s, [t EXCEPT !.last_tx_quad_cal_freq = x])
  OBVIOUS
<1>5. Keeps(P, s, [t EXCEPT !.lo_dummy = x]) /\ Keeps(P, s, [t EXCEPT !.lo_dummy[side] = x])
      /\ Keeps(P, s, [t EXCEPT !.lo_mux[side] = x])
  OBVIOUS
<1> HIDE DEF Keeps
<1> QED BY <1>1, <1>2, <1>3, <1>4, <1>5

LEMMA SynthWritten ==
  ASSUME NEW P, NEW s, NEW t, Keeps(P, s, t), NEW side, NEW x, "quiet" \notin P
  PROVE  /\ Keeps(P, s, [t EXCEPT !.reg.SYNTH[side] = x])
         /\ Keeps(P, s, [t EXCEPT !.reg.SYNTH[side].div = x])
         /\ Keeps(P, s, [t EXCEPT !.fastlock = x])
<1> USE DEF Keeps, Built, TunedFields, TunedRegisters, LoUnset, Eyed
<1>1. Keeps(P, s, [t EXCEPT !.reg.SYNTH[side] = x])
  OBVIOUS
<1>2. Keeps(P, s, [t EXCEPT !.reg.SYNTH[side].div = x])
  OBVIOUS
<1>3. Keeps(P, s, [t EXCEPT !.fastlock = x])
  OBVIOUS
<1> HIDE DEF Keeps
<1> QED BY <1>1, <1>2, <1>3

LEMMA VcoKeeps ==
  ASSUME NEW P, NEW s, NEW t, Keeps(P, s, t), NEW side, NEW x
  PROVE  Keeps(P, s, Radio!trx_vco_cal_control(t, side, x))
<1> DEFINE set == IF x THEN t.reg.VCO_CAL \cup {side} ELSE t.reg.VCO_CAL \ {side}
<1>1. Radio!trx_vco_cal_control(t, side, x) = [t EXCEPT !.reg.VCO_CAL = set]
  BY DEF Radio!trx_vco_cal_control
<1> HIDE DEF set
<1>2. Keeps(P, s, [t EXCEPT !.reg.VCO_CAL = set])
  BY NotesKeep, Zenon
<1> QED BY <1>1, <1>2

LEMMA PrepareKeeps ==
  ASSUME NEW P, NEW s, NEW t, Keeps(P, s, t), NEW side, NEW profile, NEW prepare \in BOOLEAN,
         "quiet" \notin P
  PROVE  Keeps(P, s, Radio!fastlock_prepare(t, side, profile, prepare))
<1> DEFINE up == Radio!trx_vco_cal_control(t, side, FALSE)
           down == Radio!trx_vco_cal_control(t, side, TRUE)
<1>1. Keeps(P, s, up) /\ Keeps(P, s, down)
  BY VcoKeeps, Zenon
<1> HIDE DEF up, down
<1>2. ASSUME NEW u, Keeps(P, s, u), NEW x, NEW y
      PROVE  Keeps(P, s, [u EXCEPT !.reg.FAST_LOCK[side] = x, !.reg.READY_MASK = y])
  <2> DEFINE one == [u EXCEPT !.reg.FAST_LOCK[side] = x]
             two == [one EXCEPT !.reg.READY_MASK = y]
  <2>1. Keeps(P, s, one)
    BY <1>2, SynthSets, Zenon
  <2>2. two = [u EXCEPT !.reg.FAST_LOCK[side] = x, !.reg.READY_MASK = y]
    BY SMT
  <2> HIDE DEF one
  <2>3. Keeps(P, s, two)
    BY <2>1, SynthSets, Zenon
  <2> HIDE DEF two
  <2> QED BY <2>2, <2>3
<1>3. ASSUME NEW x, NEW y
      PROVE  Keeps(P, s, [down EXCEPT !.reg.FAST_LOCK[side] = x, !.reg.READY_MASK = y,
                                      !.fastlock.current_profile[side] = 0])
  <2> DEFINE one == [down EXCEPT !.reg.FAST_LOCK[side] = x, !.reg.READY_MASK = y]
             p == [one.fastlock EXCEPT !.current_profile[side] = 0]
             two == [one EXCEPT !.fastlock = p]
  <2>1. Keeps(P, s, one)
    BY <1>1, <1>2, Zenon
  <2>2. two = [down EXCEPT !.reg.FAST_LOCK[side] = x, !.reg.READY_MASK = y,
                           !.fastlock.current_profile[side] = 0]
    BY SMT
  <2> HIDE DEF one, p
  <2>3. Keeps(P, s, two)
    BY <2>1, SynthWritten
  <2> HIDE DEF two
  <2> QED BY <2>2, <2>3
<1> DEFINE one == profile + 1
           with == up.reg.READY_MASK \cup {side}
           without == down.reg.READY_MASK \ {side}
           on == [up EXCEPT !.reg.FAST_LOCK[side] = one, !.reg.READY_MASK = with]
           off == [down EXCEPT !.reg.FAST_LOCK[side] = 0, !.reg.READY_MASK = without,
                               !.fastlock.current_profile[side] = 0]
           is == t.fastlock.current_profile[side] # 0
           u == Radio!fastlock_prepare(t, side, profile, prepare)
<1>4. Keeps(P, s, on) /\ Keeps(P, s, off) /\ is \in BOOLEAN
  <2> HIDE DEF one, with, without
  <2>1. Keeps(P, s, on)
    BY <1>1, <1>2, Zenon
  <2>2. Keeps(P, s, off)
    BY <1>3, Zenon
  <2> QED BY <2>1, <2>2
<1>5. u = CASE prepare /\ ~is -> on [] ~prepare /\ is -> off [] prepare = is -> t
  BY DEF Radio!fastlock_prepare, up, down
<1> HIDE DEF on, off, is, u
<1>6. Keeps(P, s, u)
  BY <1>4, <1>5
<1> QED BY <1>6 DEF u

LEMMA ProgramKeeps ==
  ASSUME NEW P, NEW s, NEW t, Keeps(P, s, t), NEW side, NEW words, NEW ref, "quiet" \notin P
  PROVE  Keeps(P, s, Radio!Program(t, side, words, ref))
<1>1. Keeps(P, s, Radio!rfpll_vco_init(t, side, words.vco, ref))
  BY SynthSets, Zenon DEF Radio!rfpll_vco_init
<1> QED BY <1>1, SynthWritten, CalKeeps DEF Radio!Program

LEMMA BothKeep ==
  ASSUME NEW P, NEW s, NEW t, Keeps(P, s, t), NEW side, NEW rate, NEW ref, "quiet" \notin P
  PROVE  Keeps(P, s, Radio!ProgramBoth(t, side, rate, ref))
  BY ProgramKeeps, PrepareKeeps DEF Radio!ProgramBoth, Radio!ProgramOther

LEMMA RadioLoNoted ==
  ASSUME NEW P, NEW s, NEW t, Keeps(P, s, t), NEW side, NEW x, NEW y,
         "lo" \in P => side # "rx"
  PROVE  Keeps(P, s, [t EXCEPT !.cached_rfpll_div[side] = x, !.current_lo_freq[side] = y])
  BY DEF Keeps, Built, TunedFields, TunedRegisters, LoUnset, Eyed
\* What setting an LO leaves alone.

LEMMA IntSetKeeps ==
  ASSUME NEW P, NEW s, NEW t, Keeps(P, s, t), NEW side, NEW rate, NEW ref,
         "quiet" \notin P, "lo" \in P => side # "rx"
  PROVE  Keeps(P, s, Radio!rfpll_int_set_rate(t, side, rate, ref))
<1> DEFINE out == Radio!fastlock_prepare(t, side, 0, FALSE)
           div == Radio!Words(rate).div
           noted == [out EXCEPT !.cached_rfpll_div[side] = div, !.current_lo_freq[side] = rate]
           vcoCal(u, on) == IF t.tdd_skip_vco_cal THEN Radio!trx_vco_cal_control(u, side, on)
                            ELSE u
           ready == vcoCal(noted, TRUE)
           set == Radio!Program(ready, side, Radio!Words(rate), ref)
           both == Radio!ProgramBoth(set, side, rate, ref)
           last == vcoCal(both, FALSE)
<1>1. Radio!rfpll_int_set_rate(t, side, rate, ref) =
        IF ~Radio!validate_rfpll(t, side = "tx", rate) THEN Radio!Result(out, "EINVAL") ELSE last
  BY Zenon DEF Radio!rfpll_int_set_rate
<1>2. Keeps(P, s, out)
  BY PrepareKeeps
<1> HIDE DEF out, div
<1>3. Keeps(P, s, noted)
  BY <1>2, RadioLoNoted, Zenon
<1> HIDE DEF noted
<1>4. Keeps(P, s, ready)
  <2>1. Keeps(P, s, Radio!trx_vco_cal_control(noted, side, TRUE))
    BY <1>3, VcoKeeps, Zenon
  <2> QED BY <1>3, <2>1
<1> HIDE DEF ready
<1>5. Keeps(P, s, set)
  BY <1>4, ProgramKeeps
<1> HIDE DEF set
<1>6. Keeps(P, s, both)
  BY <1>5, BothKeep
<1> HIDE DEF both
<1>7. Keeps(P, s, last)
  <2>1. Keeps(P, s, Radio!trx_vco_cal_control(both, side, FALSE))
    BY <1>6, VcoKeeps, Zenon
  <2> QED BY <1>6, <2>1
<1> HIDE DEF last
<1> QED BY <1>1, <1>2, <1>7, ResultKeeps

\* The frequency of an LO that is set inside is the one it is set to.
LEMMA IntSetFreq ==
  ASSUME NEW t, Built(t), NEW rate, NEW ref, Radio!validate_rfpll(t, FALSE, rate)
  PROVE  Radio!rfpll_int_set_rate(t, "rx", rate, ref).current_lo_freq.rx = rate
<1> DEFINE out == Radio!fastlock_prepare(t, "rx", 0, FALSE)
           div == Radio!Words(rate).div
           noted == [out EXCEPT !.cached_rfpll_div["rx"] = div, !.current_lo_freq["rx"] = rate]
           vcoCal(u, on) == IF t.tdd_skip_vco_cal THEN Radio!trx_vco_cal_control(u, "rx", on)
                            ELSE u
           ready == vcoCal(noted, TRUE)
           set == Radio!Program(ready, "rx", Radio!Words(rate), ref)
           both == Radio!ProgramBoth(set, "rx", rate, ref)
           last == vcoCal(both, FALSE)
<1>0. ("rx" = "tx") = FALSE
  OBVIOUS
<1>1. Radio!rfpll_int_set_rate(t, "rx", rate, ref) = last
  <2>1. Radio!rfpll_int_set_rate(t, "rx", rate, ref) =
          IF ~Radio!validate_rfpll(t, "rx" = "tx", rate) THEN Radio!Result(out, "EINVAL") ELSE last
    BY Zenon DEF Radio!rfpll_int_set_rate
  <2> HIDE DEF last
  <2> QED BY <1>0, <2>1
<1>2. Keeps({}, t, out)
  BY PrepareKeeps, KeepsFacts
<1> HIDE DEF out, div
<1>3. Keeps({}, t, noted)
  BY <1>2, RadioLoNoted, Zenon
<1>4. noted.current_lo_freq.rx = rate
  BY <1>2 DEF Keeps, Built, TunedFields, Radio!Sides
<1> HIDE DEF noted
<1> DEFINE L == {"lo"}
<1>a. "lo" \in L /\ "quiet" \notin L
  OBVIOUS
<1>b. Keeps(L, noted, noted)
  BY <1>3, KeepsFacts
<1> HIDE DEF L
<1>5. Keeps(L, noted, ready)
  <2>1. Keeps(L, noted, Radio!trx_vco_cal_control(noted, "rx", TRUE))
    BY <1>b, VcoKeeps, Zenon
  <2> QED BY <1>b, <2>1
<1> HIDE DEF ready
<1>6. Keeps(L, noted, set)
  BY <1>5, <1>a, ProgramKeeps
<1> HIDE DEF set
<1>7. Keeps(L, noted, both)
  BY <1>6, <1>a, BothKeep
<1> HIDE DEF both
<1>8. Keeps(L, noted, last)
  <2>1. Keeps(L, noted, Radio!trx_vco_cal_control(both, "rx", FALSE))
    BY <1>7, VcoKeeps, Zenon
  <2> QED BY <1>7, <2>1
<1> HIDE DEF last
<1> QED BY <1>1, <1>4, <1>8, <1>a DEF Keeps

LEMMA RateSetKeeps ==
  ASSUME NEW P, NEW s, NEW t, Keeps(P, s, t), NEW side, NEW rate,
         "quiet" \notin P, "lo" \in P => side # "rx"
  PROVE  Keeps(P, s, Radio!RateSet(t, side, rate))
<1>1. \A ref : Keeps(P, s, Radio!rfpll_int_set_rate(t, side, rate, ref))
  BY IntSetKeeps
<1>2. Keeps(P, s, Radio!rfpll_dummy_set_rate(t, side, rate))
  BY SynthSets, Zenon DEF Radio!rfpll_dummy_set_rate
<1> QED BY <1>1, <1>2 DEF Radio!RateSet

LEMMA AfterRateKeeps ==
  ASSUME NEW P, NEW s, NEW t, Keeps(P, s, t), NEW side \in Radio!Sides, NEW rate,
         "table" \in P => side # "rx"
  PROVE  Keeps(P, s, Radio!AfterRate(t, side, rate))
<1> DEFINE far == Radio!FarFromLastCal(t, rate)
           ran == Radio!do_calib_run(t, "TX_QUAD_CAL", -1)
           noted == [ran EXCEPT !.last_tx_quad_cal_freq = rate]
           gt == Radio!load_gt(t, rate)
<1>1. Keeps(P, s, ran)
  BY CalibKeeps
<1> HIDE DEF ran
<1>2. Keeps(P, s, noted)
  BY <1>1, SynthSets, Zenon
<1>3. side = "rx" => Keeps(P, s, gt)
  BY LoadGtKeeps
<1>4. far \in BOOLEAN /\ (side = "rx" \/ side = "tx")
  BY DEF Radio!FarFromLastCal, Radio!Sides
<1>5. Radio!AfterRate(t, side, rate) =
        CASE side = "rx" -> gt [] side = "tx" /\ far -> noted [] side = "tx" /\ ~far -> t
  BY DEF Radio!AfterRate, ran
<1> HIDE DEF far, noted, gt
<1> QED BY <1>2, <1>3, <1>4, <1>5

LEMMA LoKeeps ==
  ASSUME NEW P, NEW s, NEW t, Keeps(P, s, t), NEW side \in Radio!Sides, NEW rate, "quiet" \notin P,
         {"lo", "table"} \cap P # {} => side # "rx"
  PROVE  Keeps(P, s, Radio!clk_set_lo(t, side, rate))
<1>1. ASSUME NEW x PROVE Keeps(P, s, Radio!rfpll_set_rate(t, side, x))
  <2>1. Keeps(P, s, Radio!RateSet(t, side, x))
    BY RateSetKeeps
  <2>2. Keeps(P, s, Radio!AfterRate(Radio!RateSet(t, side, x), side, x))
    BY <2>1, AfterRateKeeps
  <2> QED BY <2>2, ResultKeeps DEF Radio!rfpll_set_rate
<1> QED BY <1>1, RecalcKeeps, ResultKeeps DEF Radio!clk_set_lo

\* The gain table is that of the LO.
Tabled(s) == Radio!TableFits(s)
Gains == {"table", "ext", "lo"}

LEMMA TableWays ==
  ASSUME NEW P, NEW s, NEW t, Keeps(P, s, t), Gains \subseteq P
  PROVE  Tabled(t) <=> Tabled(s)
<1>1. "table" \in P /\ "ext" \in P /\ "lo" \in P
  BY DEF Gains
<1>2. /\ t.split_gt = s.split_gt /\ t.current_table = s.current_table
      /\ t.use_ext_lo = s.use_ext_lo /\ t.current_lo_freq.rx = s.current_lo_freq.rx
  BY <1>1 DEF Keeps
<1> QED BY <1>2, Zenon DEF Tabled, Radio!TableFits, Radio!gt_tableindex

LEMMA IndexWays ==
  ASSUME NEW s, NEW u, u.split_gt = s.split_gt, NEW freq
  PROVE  Radio!gt_tableindex(u, freq) = Radio!gt_tableindex(s, freq)
<1> DEFINE x == u.split_gt
           y == s.split_gt
           serves(z, b) == /\ Radio!gt_info[b].split_table = z /\ Radio!gt_info[b].start < freq
                           /\ freq <= Radio!gt_info[b].end
           fits(z) == {b \in 1 .. 6 : serves(z, b)}
           index(z) == IF fits(z) = {} THEN 1 ELSE CHOOSE b \in fits(z) : TRUE
<1>1. Radio!gt_tableindex(u, freq) = index(x) /\ Radio!gt_tableindex(s, freq) = index(y)
  BY DEF Radio!gt_tableindex
<1> HIDE DEF index
<1> QED BY <1>1

\* The table that is loaded is the one of the frequency.
LEMMA LoadGtIs ==
  ASSUME NEW t, Built(t), NEW freq
  PROVE  Radio!load_gt(t, freq).current_table = Radio!gt_tableindex(t, freq)
<1> DEFINE band == Radio!gt_tableindex(t, freq)
<1>1. \A was : Radio!LoadTable(t, band, was).current_table = band
  BY DEF Radio!LoadTable, Built, TunedFields
<1>2. Radio!Result(t, "ok").current_table = t.current_table
  BY DEF Radio!Result, Built, TunedFields
<1> QED BY <1>1, <1>2 DEF Radio!load_gt, Radio!LoadBand

\* After the LO of the receiver has been set, or was set to that already, the gain table
\* is its own.
LEMMA LoTable ==
  ASSUME NEW t, Built(t), NEW rate, Radio!validate_rfpll(t, FALSE, rate),
         Tabled(t) \/ t.lo_clk.rx # rate
  PROVE  Tabled(Radio!clk_set_lo(t, "rx", rate))
<1> DEFINE u == Radio!clk_set_lo(t, "rx", rate)
<1>0. Keeps(Gains, t, t) /\ "rx" \in Radio!Sides /\ "quiet" \notin Gains
  BY KeepsFacts DEF Radio!Sides, Gains
<1>1. CASE t.lo_clk.rx = rate
  <2>1. u = Radio!Result(t, "ok")
    BY <1>1, Zenon DEF Radio!clk_set_lo
  <2>2. Keeps(Gains, t, u)
    BY <1>0, <2>1, ResultKeeps
  <2> QED BY <1>1, <2>2, TableWays
<1>2. CASE t.use_ext_lo.rx
  <2> DEFINE P == {"ext"}
  <2>1. Keeps(P, t, t) /\ "quiet" \notin P /\ {"lo", "table"} \cap P = {}
    BY KeepsFacts
  <2> HIDE DEF P
  <2>2. Keeps(P, t, u)
    BY <1>0, <2>1, LoKeeps
  <2>3. u.use_ext_lo = t.use_ext_lo
    BY <2>2 DEF Keeps, P
  <2> HIDE DEF u
  <2> QED BY <1>2, <2>3 DEF Tabled, Radio!TableFits, u
<1>3. CASE ~t.use_ext_lo.rx /\ t.lo_clk.rx # rate
  <2> DEFINE set == Radio!RateSet(t, "rx", rate)
             gt == Radio!load_gt(set, rate)
             done == Radio!Result(gt, "ok")
             again == Radio!Recalc(done)
  <2>1. Radio!rfpll_round_rate(t, "rx", rate) = rate
    <3>1. rate \in 70 .. 6000
      BY DEF Radio!validate_rfpll, Radio!MAX_CARRIER_FREQ
    <3> QED BY <1>3, <3>1 DEF Radio!rfpll_round_rate, Radio!rfpll_int_round_rate,
                              Radio!MAX_CARRIER_FREQ
  <2>2. u = Radio!Result(again, "ok")
    BY <1>3, <2>1, Zenon DEF Radio!clk_set_lo, Radio!rfpll_set_rate, Radio!AfterRate
  <2>3. set.current_lo_freq.rx = rate /\ Built(set)
    <3>1. Radio!RateSet(t, "rx", rate) = Radio!rfpll_int_set_rate(t, "rx", rate, t.clks.RX_REFCLK)
      BY <1>3, Zenon DEF Radio!RateSet
    <3>2. Keeps({}, t, set)
      <4>1. Keeps({}, t, t)
        BY KeepsFacts
      <4> QED BY <4>1, RateSetKeeps
    <3>3. Radio!rfpll_int_set_rate(t, "rx", rate, t.clks.RX_REFCLK).current_lo_freq.rx = rate
      BY IntSetFreq, Zenon
    <3>4. Built(set)
      BY <3>2, KeepsFacts
    <3> QED BY <3>1, <3>3, <3>4, Zenon
  <2> HIDE DEF set
  <2>4. gt.current_table = Radio!gt_tableindex(set, rate)
    BY <2>3, LoadGtIs
  <2> DEFINE P == {"ext", "lo"}
  <2>5. Keeps(P, set, set) /\ "table" \notin P
    BY <2>3, KeepsFacts
  <2> HIDE DEF P
  <2>6. Keeps(P, set, gt)
    BY <2>5, LoadGtKeeps
  <2>7. gt.current_lo_freq.rx = rate /\ gt.split_gt = set.split_gt /\ Built(gt)
    BY <2>3, <2>6, KeepsFacts DEF Keeps, P
  <2> HIDE DEF gt
  <2>8. Tabled(gt)
    <3>1. Radio!gt_tableindex(set, rate) = Radio!gt_tableindex(gt, rate)
      BY <2>7, IndexWays
    <3>2. gt.current_table = Radio!gt_tableindex(gt, gt.current_lo_freq.rx)
      BY <2>4, <2>7, <3>1, Zenon
    <3> QED BY <3>2 DEF Tabled, Radio!TableFits
  <2>9. Keeps(Gains, gt, done)
    BY <2>7, KeepsFacts, ResultKeeps
  <2> HIDE DEF done
  <2>10. Keeps(Gains, gt, again)
    BY <1>0, <2>9, RecalcKeeps
  <2> HIDE DEF again
  <2>11. Keeps(Gains, gt, u)
    BY <2>2, <2>10, ResultKeeps
  <2> QED BY <2>8, <2>11, TableWays
<1> QED BY <1>1, <1>2, <1>3

\* An LO from outside, or from inside again.
LEMMA MuxKeeps ==
  ASSUME NEW P, NEW s, NEW t, Keeps(P, s, t), NEW side, NEW index, "quiet" \notin P
  PROVE  Keeps(P, s, Radio!clk_mux_set_parent(t, side, index))
<1>1. ASSUME NEW u, Keeps(P, s, u) PROVE Keeps(P, s, Radio!trx_ext_lo_control(u, side, index))
  <2> DEFINE put(set, on) == IF on THEN set \cup {side} ELSE set \ {side}
             pd == put(u.reg.SYNTH_PD, index /\ "RF" \notin u.reg.MCS)
             mask == put(u.reg.READY_MASK, index)
             div == IF index THEN 7 ELSE u.cached_rfpll_div[side]
             ext == put(u.reg.EXT_LO, index)
             a == [u EXCEPT !.reg.SYNTH_PD = pd]
             b == [a EXCEPT !.reg.READY_MASK = mask]
             c == [b EXCEPT !.reg.SYNTH[side].div = div]
             d == [c EXCEPT !.reg.EXT_LO = ext, !.rc = "ok"]
  <2>1. Radio!trx_ext_lo_control(u, side, index) =
          [u EXCEPT !.reg.SYNTH_PD = pd, !.reg.READY_MASK = mask, !.reg.SYNTH[side].div = div,
                    !.reg.EXT_LO = ext, !.rc = "ok"]
    BY DEF Radio!trx_ext_lo_control
  <2> HIDE DEF pd, mask, div, ext
  <2>2. [u EXCEPT !.reg.SYNTH_PD = pd, !.reg.READY_MASK = mask, !.reg.SYNTH[side].div = div,
                  !.reg.EXT_LO = ext, !.rc = "ok"] = d
    BY SMT
  <2>3. Keeps(P, s, a)
    BY <1>1, SynthSets, Zenon
  <2> HIDE DEF a
  <2>4. Keeps(P, s, b)
    BY <2>3, SynthSets, Zenon
  <2> HIDE DEF b
  <2>5. Keeps(P, s, c)
    BY <2>4, SynthWritten, Zenon
  <2> HIDE DEF c
  <2>6. Keeps(P, s, d)
    BY <2>5, SynthSets, Zenon
  <2> QED BY <2>1, <2>2, <2>6
<1> DEFINE alert == Radio!ensm_force_state(t, "ALERT")
           set == Radio!trx_ext_lo_control(alert, side, index)
           noted == [set EXCEPT !.lo_mux[side] = index]
           back == Radio!ensm_restore_prev_state(noted)
<1>2. Radio!clk_mux_set_parent(t, side, index) = Radio!Result(back, "ok")
  BY Zenon DEF Radio!clk_mux_set_parent
<1>3. Keeps(P, s, set)
  BY <1>1, ForceKeeps
<1> HIDE DEF set
<1>4. Keeps(P, s, noted)
  BY <1>3, SynthSets, Zenon
<1> HIDE DEF noted
<1>5. Keeps(P, s, back)
  BY <1>4, RestoreKeeps
<1> HIDE DEF back
<1> QED BY <1>2, <1>5, ResultKeeps

LEMMA ExtKeeps ==
  ASSUME NEW P, NEW s, NEW t, Keeps(P, s, t), NEW side, NEW ext, P \cap {"quiet", "ext"} = {}
  PROVE  Keeps(P, s, Radio!set_lo_int_ext(t, side, ext))
<1>1. Keeps(P, s, [t EXCEPT !.use_ext_lo[side] = ext])
  BY DEF Keeps, Built, TunedFields, TunedRegisters, Eyed
<1>2. Keeps(P, s, Radio!clk_mux_set_parent([t EXCEPT !.use_ext_lo[side] = ext], side, ext))
  BY <1>1, MuxKeeps
<1> QED BY <1>2, ResultKeeps DEF Radio!set_lo_int_ext

\* The table is that of the LO, or the LO is from outside.
LEMMA ExtTable ==
  ASSUME NEW t, Built(t), Tabled(t), NEW side
  PROVE  Tabled(Radio!set_lo_int_ext(t, side, TRUE))
<1> DEFINE shifted == [t EXCEPT !.use_ext_lo[side] = TRUE]
           set == Radio!clk_mux_set_parent(shifted, side, TRUE)
           none == Radio!Result(t, "EPERM")
<1>1. Built(shifted) /\ Tabled(shifted)
  <2>1. Built(shifted)
    BY DEF Built, TunedFields, TunedRegisters
  <2>2. /\ shifted.split_gt = t.split_gt /\ shifted.current_table = t.current_table
        /\ shifted.current_lo_freq = t.current_lo_freq
        /\ ~shifted.use_ext_lo.rx => ~t.use_ext_lo.rx
    BY DEF Built, TunedFields
  <2> HIDE DEF shifted
  <2> QED BY <2>1, <2>2, Zenon DEF Tabled, Radio!TableFits, Radio!gt_tableindex
<1> HIDE DEF shifted
<1>2. "quiet" \notin Gains
  BY DEF Gains
<1>3. Keeps(Gains, shifted, set)
  BY <1>1, <1>2, KeepsFacts, MuxKeeps
<1>4. Keeps(Gains, t, none)
  BY KeepsFacts, ResultKeeps
<1>5. Tabled(set) /\ Tabled(none)
  BY <1>1, <1>3, <1>4, TableWays
<1> QED BY <1>5 DEF Radio!set_lo_int_ext, shifted, set, none
LEMMA FastlockKeeps ==
  ASSUME NEW P, NEW s, NEW t, Keeps(P, s, t), "quiet" \notin P, NEW side, NEW profile,
         NEW values
  PROVE  /\ Keeps(P, s, Radio!fastlock_load(t, side, profile, values))
         /\ Keeps(P, s, Radio!fastlock_store(t, side, profile))
         /\ Keeps(P, s, Radio!fastlock_recall(t, side, profile))
<1> USE DEF Keeps, Built, TunedFields, TunedRegisters, Eyed
<1>1. \A x : Keeps(P, s, [t EXCEPT !.fastlock.entry[side][profile] = x, !.rc = "ok"])
  OBVIOUS
<1>2. ASSUME NEW u, Keeps(P, s, u), NEW x, NEW y, NEW z
      PROVE  Keeps(P, s, [u EXCEPT !.fastlock.current_profile[side] = x,
                                   !.reg.FAST_LOCK[side] = y,
                                   !.reg.VCO_ALC[side] = z, !.rc = "ok"])
  <2> DEFINE one == [u EXCEPT !.fastlock.current_profile[side] = x, !.reg.FAST_LOCK[side] = y]
             two == [one EXCEPT !.reg.VCO_ALC[side] = z]
             three == [two EXCEPT !.rc = "ok"]
  <2>1. Keeps(P, s, one)
    BY <1>2
  <2>2. two = [u EXCEPT !.fastlock.current_profile[side] = x, !.reg.FAST_LOCK[side] = y,
                        !.reg.VCO_ALC[side] = z]
    BY SMT
  <2>3. three = [u EXCEPT !.fastlock.current_profile[side] = x, !.reg.FAST_LOCK[side] = y,
                          !.reg.VCO_ALC[side] = z, !.rc = "ok"]
    <3> HIDE DEF two
    <3> QED BY <2>2, SMT
  <2> HIDE DEF one
  <2>4. Keeps(P, s, two)
    BY <2>1
  <2> HIDE DEF two
  <2>5. Keeps(P, s, three)
    BY <2>4
  <2> HIDE DEF three
  <2> QED BY <2>3, <2>5
<1>3. \A x : Keeps(P, s, [t EXCEPT !.fastlock.entry[side][profile].alc_written = x,
                                  !.fastlock.entry[side][profile].alc = x])
  OBVIOUS
<1> HIDE DEF Keeps, Built, TunedFields, TunedRegisters, Eyed
<1>4. ASSUME NEW v PROVE Keeps(P, s, Radio!fastlock_load(t, side, profile, v))
  BY <1>1, Zenon DEF Radio!fastlock_load
<1>5. Keeps(P, s, Radio!fastlock_store(t, side, profile))
  BY <1>4, Zenon DEF Radio!fastlock_store
<1>6. Keeps(P, s, Radio!fastlock_recall(t, side, profile))
  <2> DEFINE entry == t.fastlock.entry[side][profile]
             current == t.fastlock.current_profile[side]
             curr == IF current = 0 THEN t.chip.alc
                     ELSE t.fastlock.entry[side][current - 1].alc_written
             other == IF entry.alc_orig = entry.alc_written
                        THEN (entry.alc_written + 1) % 128
                      ELSE entry.alc_orig
             changed == [t EXCEPT !.fastlock.entry[side][profile].alc_written = other,
                                  !.fastlock.entry[side][profile].alc = other]
             written == IF curr # entry.alc_written THEN t ELSE changed
             ready == Radio!fastlock_prepare(written, side, profile, TRUE)
             n == profile + 1
             word == ready.fastlock.entry[side][profile].alc
             last == [ready EXCEPT !.fastlock.current_profile[side] = n,
                                   !.reg.FAST_LOCK[side] = n,
                                   !.reg.VCO_ALC[side] = word, !.rc = "ok"]
  <2>1. Radio!fastlock_recall(t, side, profile) =
          IF ~entry.init THEN Radio!Result(t, "EINVAL") ELSE last
    BY Zenon DEF Radio!fastlock_recall, Radio!Selected
  <2> HIDE DEF entry, curr, other, n
  <2>2. Keeps(P, s, changed)
    BY <1>3, Zenon
  <2> HIDE DEF changed
  <2>3. Keeps(P, s, written)
    BY <2>2
  <2> HIDE DEF written
  <2>4. Keeps(P, s, ready)
    BY <2>3, PrepareKeeps
  <2> HIDE DEF ready, word
  <2>5. Keeps(P, s, last)
    BY <1>2, <2>4, Zenon
  <2> HIDE DEF last
  <2> QED BY <2>1, <2>5, ResultKeeps
<1> QED BY <1>4, <1>5, <1>6

LEMMA StepKeeps ==
  ASSUME NEW P, NEW s, NEW t, Keeps(P, s, t), NEW step
  PROVE  Keeps(P, s, Radio!mcs(t, step))
<1> USE DEF Keeps, Built, TunedFields, TunedRegisters, LoUnset, Eyed
<1>2. ASSUME NEW u, Keeps(P, s, u), NEW x
      PROVE  Keeps(P, s, [u EXCEPT !.reg.MCS = x, !.rc = "ok"])
  BY <1>2
<1> HIDE DEF Keeps, Built, TunedFields, TunedRegisters, LoUnset, Eyed
<1> DEFINE on == [t EXCEPT !.reg.SYNTH_PD = {}]
           a == [on EXCEPT !.reg.MCS = {"BB", "BBPLL", "RF"}, !.rc = "ok"]
           b == [t EXCEPT !.reg.MCS = {"BB", "DIGITAL_CLK", "RF"}, !.rc = "ok"]
           c == [t EXCEPT !.reg.MCS = {"RF"}, !.rc = "ok"]
           d == Radio!Result(t, "ok")
<1>1. Keeps(P, s, on)
  BY SynthSets, Zenon
<1>3. Keeps(P, s, a) /\ Keeps(P, s, b) /\ Keeps(P, s, c) /\ Keeps(P, s, d)
  <2> HIDE DEF on
  <2> QED BY <1>1, <1>2, ResultKeeps, Zenon
<1>4. Radio!mcs(t, step) = CASE step = 1 -> a [] step = 3 -> b [] step = 5 -> c
                             [] step \notin {1, 3, 5} -> d
  <2>1. a = [t EXCEPT !.reg.SYNTH_PD = {}, !.reg.MCS = {"BB", "BBPLL", "RF"}, !.rc = "ok"]
    BY SMT
  <2> HIDE DEF a
  <2> QED BY <2>1 DEF Radio!mcs
<1> HIDE DEF a, b, c, d
<1> QED BY <1>3, <1>4

\* The synchronization with another chip.
LEMMA McsKeeps ==
  ASSUME NEW P, NEW s, Built(s), NEW slave
  PROVE  Keeps(P, s, Radio!do_mcs(s, slave)[1])
<1> DEFINE mode == Radio!get_en_state_machine_mode(s)
           alert == Radio!set_en_state_machine_mode(s, "ALERT")
           f == CHOOSE f : f = [i \in 0 .. 6 |-> IF i = 0 THEN alert
                                                 ELSE Radio!mcs(f[i - 1], i - 1)]
           back == Radio!set_en_state_machine_mode(f[6], mode)
<1>1. Keeps(P, s, alert)
  BY KeepsFacts, EnterKeeps
<1> HIDE DEF alert
<1>2. After(f, "mcs", alert, 0, 0, 6)
  BY McsLoop
<1>3. \A u : \A i \in 1 .. 6 : Keeps(P, s, u) => Keeps(P, s, LoopStep("mcs", alert, 0, 0, u, i))
  BY StepKeeps DEF LoopStep
<1> HIDE DEF f
<1>4. Keeps(P, s, f[6])
  BY <1>1, <1>2, <1>3, LoopKeeps
<1>5. Keeps(P, s, back)
  BY <1>4, EnterKeeps
<1>6. Radio!do_mcs(s, slave)[1] \in {Radio!Result(s, "EPERM"), Radio!Result(back, "ok")}
  BY DEF Radio!do_mcs, Radio!Loop, f, back, alert, mode
<1> HIDE DEF back
<1> QED BY <1>5, <1>6, KeepsFacts, ResultKeeps

\* The widths of the eye are measured; the delays are put back.
LEMMA AnalysisKeeps ==
  ASSUME NEW P, NEW s, NEW t, Keeps(P, s, t), "delays" \notin P
  PROVE  Keeps(P, s, Radio!dig_interface_timing_analysis(t))
<1> DEFINE Q == P \ {"eyed"}
           quiet == Radio!Silenced(t)
           rx == Radio!bist_prbs(Radio!bist_loopback(quiet, 0), "rx")
           swept == Radio!set_intf_delay(rx, "rx", 15, 0, TRUE)
           alert == Radio!ensm_force_state(swept, "ALERT")
           was == t.reg.DELAY.rx
           again == WithDelay(alert, "rx", was)
           test == Radio!TestsAs(again, t)
           u == Radio!dig_interface_timing_analysis(t)
<1>0. Keeps(Q, s, t) /\ "delays" \notin Q /\ "eyed" \notin Q /\ "rx" \in Radio!Sides
      /\ Keeps({"delays"}, t, t) /\ Built(t) /\ "delays" \in {"delays"}
  BY KeepsFacts DEF Radio!Sides
<1> HIDE DEF Q
<1>1. u = Radio!Resumed(test, t)
  BY Zenon DEF Radio!dig_interface_timing_analysis, WithDelay
<1>2. Keeps(Q, s, rx) /\ Keeps({"delays"}, t, rx)
  BY <1>0, QuietKeeps, TestKeeps
<1> HIDE DEF rx, u
<1>3. Keeps(Q, s, swept) /\ Beside(rx, swept, "rx")
  BY <1>0, <1>2, IntfDelay
<1> HIDE DEF swept
<1>4. Keeps(Q, s, alert) /\ SameDelays(alert, swept) /\ Built(alert)
  BY <1>3, ForceKeeps, KeepsFacts, QuietDelays
<1> HIDE DEF alert, was
<1>5. Keeps(Q, s, again) /\ Beside(alert, again, "rx") /\ again.reg.DELAY["rx"] = was
      /\ Built(again)
  BY <1>0, <1>4, DelaySet, KeepsFacts
<1> HIDE DEF again
<1>6. Keeps(Q, s, test) /\ SameDelays(test, again) /\ Built(test)
  BY <1>5, QuietKeeps, QuietDelays, KeepsFacts
<1> HIDE DEF test
<1>7. Keeps(Q, s, u) /\ SameDelays(u, test)
  BY <1>1, <1>6, QuietKeeps, QuietDelays
<1>8. Arriving(u, u.reg.DELAY) <=> Arriving(t, t.reg.DELAY)
  <2>1. \A x : /\ Arriving(x, x.reg.DELAY) <=> /\ Arrives(x, "rx", x.reg.DELAY["rx"])
                                              /\ Arrives(x, "tx", x.reg.DELAY["tx"])
    BY DEF Arriving, Radio!Sides
  <2>2. rx.chip = t.chip /\ rx.reg.DELAY = t.reg.DELAY
    BY <1>2 DEF Keeps
  <2>3. swept.chip = t.chip /\ swept.reg.DELAY["tx"] = t.reg.DELAY["tx"]
    BY <1>3, <2>2 DEF Beside, Radio!Sides
  <2>4. again.chip = t.chip /\ again.reg.DELAY["tx"] = t.reg.DELAY["tx"]
    BY <1>4, <1>5, <2>3 DEF Beside, SameDelays, Radio!Sides
  <2>5. u.chip = t.chip /\ u.reg.DELAY["tx"] = t.reg.DELAY["tx"]
        /\ u.reg.DELAY["rx"] = t.reg.DELAY["rx"]
    BY <1>5, <1>6, <1>7, <2>4 DEF SameDelays, was
  <2> QED BY <2>1, <2>5 DEF Arrives
<1>9. u.port_delay = t.port_delay /\ u.chip = t.chip
  <2>1. rx.chip = t.chip /\ rx.port_delay = t.port_delay
    BY <1>2 DEF Keeps
  <2> QED BY <2>1, <1>3, <1>4, <1>5, <1>6, <1>7 DEF Beside, SameDelays
<1>10. Eyed(u) <=> Eyed(t)
  BY <1>8, <1>9, EyedWays
<1>11. "eyed" \in P => (Eyed(s) => Eyed(t))
  BY DEF Keeps
<1>12. Keeps(P, s, u)
  BY <1>7, <1>10, <1>11 DEF Keeps, Q
<1> QED BY <1>12 DEF u
-----------------------------------------------------------------------------
(* The setup *)

LEMMA IfOkFacts ==
  ASSUME NEW s, NEW next, Radio!Ok(Radio!IfOk(s, next))
  PROVE  Radio!Ok(s) /\ Radio!Ok(next) /\ Radio!IfOk(s, next) = next
  BY DEF Radio!IfOk

\* What the setup writes that nothing here is about.
LEMMA BlocksKeep ==
  ASSUME NEW P, NEW s, NEW t, Keeps(P, s, t), NEW x, NEW y, NEW dac
  PROVE  /\ Keeps(P, s, Radio!Configured(t, x))
         /\ Keeps(P, s, Radio!clkout_control(t))
         /\ Keeps(P, s, Radio!set_dcxo_tune(t))
         /\ Keeps(P, s, Radio!auxdac_set(t, dac, x))
         /\ Keeps(P, s, [t EXCEPT !.trx_synth_max_fref = x])
         /\ Keeps(P, s, [t EXCEPT !.registered = x, !.rc = "ok"])
         /\ Keeps(P, s, [t EXCEPT !.blocks = x])
         /\ Keeps(P, s, [t EXCEPT !.blocks = x, !.rc = y])
<1> USE DEF Keeps, Built, TunedFields, TunedRegisters, LoUnset, Eyed
<1>1. Keeps(P, s, Radio!Configured(t, x)) /\ Keeps(P, s, Radio!clkout_control(t))
  BY DEF Radio!Configured, Radio!clkout_control
<1>2. Keeps(P, s, [t EXCEPT !.reg.DCXO = t.dcxo, !.rc = "ok"])
  OBVIOUS
<1>3. \A a, b : Keeps(P, s, [t EXCEPT !.reg.AUXDAC[dac] = a, !.auxdac_value[dac] = b, !.rc = "ok"])
  OBVIOUS
<1>4. Keeps(P, s, [t EXCEPT !.trx_synth_max_fref = x])
      /\ Keeps(P, s, [t EXCEPT !.registered = x, !.rc = "ok"])
  OBVIOUS
<1>5. Keeps(P, s, [t EXCEPT !.blocks = x]) /\ Keeps(P, s, [t EXCEPT !.blocks = x, !.rc = y])
  OBVIOUS
<1> HIDE DEF Keeps, Built, TunedFields, TunedRegisters, LoUnset, Eyed
<1>6. Keeps(P, s, Radio!set_dcxo_tune(t))
  BY <1>2, ResultKeeps DEF Radio!set_dcxo_tune
<1>7. Keeps(P, s, Radio!auxdac_set(t, dac, x))
  <2> DEFINE v == IF x < 306 THEN 306 ELSE x
             word == IF v < 1888 THEN <<"1V", ((v - 306) * 1000) \div 1469>>
                     ELSE <<"2.5V", ((v - 1761) * 1000) \div 1512>>
             set == <<word[1], Radio!Clamp(word[2], 0, 1023)>>
             end == [t EXCEPT !.reg.AUXDAC[dac] = set, !.auxdac_value[dac] = v, !.rc = "ok"]
  <2>1. Radio!auxdac_set(t, dac, x) = IF dac \in {1, 2} THEN end ELSE Radio!Result(t, "EINVAL")
    BY DEF Radio!auxdac_set
  <2> HIDE DEF v, set
  <2>2. Keeps(P, s, end)
    BY <1>3, Zenon
  <2> HIDE DEF end
  <2> QED BY <2>1, <2>2, ResultKeeps
<1> QED BY <1>1, <1>4, <1>5, <1>6, <1>7

LEMMA PowerUp ==
  ASSUME NEW P, NEW s, NEW t, Keeps(P, s, t), NEW a, NEW b, NEW c, NEW d
  PROVE  Keeps(P, s, [t EXCEPT !.rf_rx_bandwidth = a, !.rf_tx_bandwidth = b,
                               !.tdd_skip_vco_cal = c, !.ensm_pin_ctrl = d])
  BY DEF Keeps, Built, TunedFields, TunedRegisters, LoUnset, Eyed

\* Up to the clocks nothing is tuned, for there is no filter on.
LEMMA SetupClocksKeeps ==
  ASSUME NEW P, NEW s, Built(s), s.bypass_rx_fir, s.bypass_tx_fir
  PROVE  Keeps(P, s, Radio!SetupClocks(s))
<1> DEFINE Q == P \cup {"bypass"}
<1>1. Keeps(Q, s, s)
  BY KeepsFacts
<1>a. "bypass" \in Q /\ P \subseteq Q
  OBVIOUS
<1> HIDE DEF Q
<1> DEFINE rxBw == Radio!validate_rf_bw(s, s.rf_rx_bandwidth)
           txBw == Radio!validate_rf_bw(s, s.rf_tx_bandwidth)
           skip == s.tdd_skip_vco_cal /\ ~s.fdd
           pins == s.ensm_pin_ctrl /\ ~(s.fdd /\ s.fdd_independent_mode)
           pd == [s EXCEPT !.rf_rx_bandwidth = rxBw, !.rf_tx_bandwidth = txBw,
                           !.tdd_skip_vco_cal = skip, !.ensm_pin_ctrl = pins]
           ready == Radio!set_dcxo_tune(Radio!gpo_setup(Radio!auxdac_setup(pd)))
           ref == Radio!ref_div_sel(s.refin, Radio!MAX_BBPLL_FREF)
<1>2. Radio!SetupClocks(s) = Radio!SetupBbpll(ready, ref)
  BY DEF Radio!SetupClocks
<1> HIDE DEF rxBw, txBw, skip, pins
<1>3. Keeps(Q, s, pd)
  BY <1>1, PowerUp, Zenon
<1> HIDE DEF pd
<1>4. Keeps(Q, s, ready)
  <2> DEFINE v1 == pd.auxdac_default[1]
             v2 == pd.auxdac_default[2]
             d1 == Radio!auxdac_set(pd, 1, v1)
             d2 == Radio!auxdac_set(d1, 2, v2)
             c1 == Radio!Configured(d2, "AUXDAC")
             c2 == Radio!Configured(c1, "GPO")
  <2>1. ready = Radio!set_dcxo_tune(c2)
    BY Zenon DEF Radio!gpo_setup, Radio!auxdac_setup, c2, c1, d2, d1, v1, v2, ready
  <2> HIDE DEF ready, v1, v2
  <2>2. Keeps(Q, s, d1)
    BY <1>3, BlocksKeep, Zenon
  <2> HIDE DEF d1
  <2>3. Keeps(Q, s, d2)
    BY <2>2, BlocksKeep, Zenon
  <2> HIDE DEF d2
  <2>4. Keeps(Q, s, c1)
    BY <2>3, BlocksKeep, Zenon
  <2> HIDE DEF c1
  <2>5. Keeps(Q, s, c2)
    BY <2>4, BlocksKeep, Zenon
  <2> HIDE DEF c2
  <2> QED BY <2>1, <2>5, BlocksKeep, Zenon
<1> HIDE DEF ready, ref
<1> DEFINE on == [ready EXCEPT !.reg.CLOCKS = TRUE]
           set == Radio!no_os_clk_set_rate(on, "BB_REFCLK", ref)
<1>5. Keeps(Q, s, on)
  BY <1>1, <1>4, PowerSet, Zenon
<1> HIDE DEF on
<1>6. Keeps(Q, s, set)
  BY <1>1, <1>5, ClockRateKeeps
<1> HIDE DEF set
<1>7. set.bypass_rx_fir /\ set.bypass_tx_fir
  BY <1>6, <1>a DEF Keeps
<1>8. \A rx, tx : Keeps(Q, s, Radio!set_trx_clock_chain(set, rx, tx))
  BY <1>1, <1>6, <1>7, ChainKeeps
<1>9. Radio!SetupBbpll(ready, ref) = IF ref = 0 THEN Radio!Result(ready, "EINVAL")
        ELSE Radio!set_trx_clock_chain(set, ready.rx_path_clks, ready.tx_path_clks)
  BY Zenon DEF Radio!SetupBbpll, on, set
<1>10. Keeps(Q, s, Radio!Result(ready, "EINVAL"))
  BY <1>4, ResultKeeps
<1>11. Keeps(Q, s, Radio!SetupClocks(s))
  BY <1>2, <1>8, <1>9, <1>10
<1> QED BY <1>a, <1>11, KeepsFacts

LEMMA InterfacesKeep ==
  ASSUME NEW P, NEW s, NEW t, Keeps(P, s, t)
  PROVE  Keeps(P, s, Radio!Ports(Radio!Interfaces(t)))
<1>1. \A a, b : Keeps(P, s, [t EXCEPT !.rx1tx1_mode_use_tx_num = a, !.rx1tx1_mode_use_rx_num = b])
  BY DEF Keeps, Built, TunedFields, TunedRegisters, LoUnset, Eyed
<1>2. ASSUME NEW u, Keeps(P, s, u), NEW a, NEW b
      PROVE  Keeps(P, s, [u EXCEPT !.reg.TX_ENABLE = a, !.reg.RX_ENABLE = b])
  <2> DEFINE one == [u EXCEPT !.reg.TX_ENABLE = a]
  <2>1. Keeps(P, s, one)
    BY <1>2 DEF Keeps, Built, TunedFields, TunedRegisters, LoUnset, Eyed
  <2>2. [u EXCEPT !.reg.TX_ENABLE = a, !.reg.RX_ENABLE = b] = [one EXCEPT !.reg.RX_ENABLE = b]
    BY SMT
  <2> HIDE DEF one
  <2>3. Keeps(P, s, [one EXCEPT !.reg.RX_ENABLE = b])
    BY <2>1 DEF Keeps, Built, TunedFields, TunedRegisters, LoUnset, Eyed
  <2> QED BY <2>2, <2>3
<1> DEFINE a == IF t.rx2tx2 THEN t.rx1tx1_mode_use_tx_num
                ELSE Radio!Clamp(t.rx1tx1_mode_use_tx_num, 1, 2)
           b == IF t.rx2tx2 THEN t.rx1tx1_mode_use_rx_num
                ELSE Radio!Clamp(t.rx1tx1_mode_use_rx_num, 1, 2)
           used == [t EXCEPT !.rx1tx1_mode_use_tx_num = a, !.rx1tx1_mode_use_rx_num = b]
           txs == IF t.rx2tx2 THEN {1, 2} ELSE {used.rx1tx1_mode_use_tx_num}
           rxs == IF t.rx2tx2 THEN {1, 2} ELSE {used.rx1tx1_mode_use_rx_num}
           u == Radio!Interfaces(t)
<1>3. u = [used EXCEPT !.reg.TX_ENABLE = txs, !.reg.RX_ENABLE = rxs]
  BY DEF Radio!Interfaces
<1> HIDE DEF a, b
<1>4. Keeps(P, s, used)
  BY <1>1, Zenon
<1> HIDE DEF used, txs, rxs, u
<1>5. Keeps(P, s, u)
  <2>1. Keeps(P, s, [used EXCEPT !.reg.TX_ENABLE = txs, !.reg.RX_ENABLE = rxs])
    BY <1>2, <1>4, Zenon
  <2> QED BY <1>3, <2>1, Zenon
<1>6. u.rf_rx_input_sel \in Nat
  BY <1>5, KeepsFacts DEF Built
<1>7. Keeps(P, s, Radio!Ports(u))
  BY <1>5, <1>6, PortSetKeeps DEF Radio!Ports
<1> QED BY <1>7 DEF u

\* With the ports come the delays of the last tuning.
LEMMA PpPort ==
  ASSUME NEW P, NEW s, NEW t, Keeps(P, s, t), "delays" \notin P, "eyed" \notin P
  PROVE  /\ Keeps(P, s, Radio!pp_port_setup(t, FALSE))
         /\ Arriving(t, t.port_delay) => Eyed(Radio!pp_port_setup(t, FALSE))
<1> DEFINE d == t.port_delay
           now == DelaysNow(t, d)
           u == Radio!Configured(now, "PORT")
<1>1. Radio!pp_port_setup(t, FALSE) = u
  BY DEF Radio!pp_port_setup, DelaysNow
<1>2. DOMAIN d = Radio!Sides
  BY KeepsFacts DEF Built
<1> HIDE DEF d
<1>3. Keeps(P, s, now) /\ now.reg.DELAY = d /\ now.port_delay = t.port_delay
  BY <1>2, DelaysSet
<1> HIDE DEF now
<1>4. Keeps(P, s, u) /\ Keeps({"eyed"}, now, u)
  <2>1. Keeps({"eyed"}, now, now)
    BY <1>3, KeepsFacts
  <2> QED BY <1>3, <2>1, BlocksKeep, Zenon
<1>5. now.chip = t.chip
  BY <1>3 DEF Keeps
<1>6. Arriving(t, t.port_delay) => Eyed(now)
  BY <1>3, <1>5, EyedWays DEF d
<1>7. Eyed(now) => Eyed(u)
  BY <1>4 DEF Keeps
<1> QED BY <1>1, <1>4, <1>6, <1>7

\* What stands beside the ports: with them come the delays, and Q is what is kept after.
LEMMA AuxKeeps ==
  ASSUME NEW P, NEW s, NEW t, Keeps(P, s, t), "delays" \notin P, "eyed" \notin P
  PROVE  /\ Keeps(P, s, Radio!AuxBlocks(t))
         /\ Arriving(t, t.port_delay) => Eyed(Radio!AuxBlocks(t))
<1> DEFINE pp == Radio!pp_port_setup(t, FALSE)
           adc == Radio!auxadc_setup(pp)
           outs == Radio!Configured(adc, "CTRL_OUTS")
           cycles == Radio!Configured(outs, "REF_CLK_CYCLES")
           lna == Radio!setup_ext_lna(cycles)
           max == Radio!Clamp(lna.trx_synth_max_fref, Radio!MIN_SYNTH_FREF, Radio!MAX_SYNTH_FREF)
           u == Radio!AuxBlocks(t)
<1>1. u = [lna EXCEPT !.trx_synth_max_fref = max]
  BY DEF Radio!AuxBlocks, Radio!ctrl_outs_setup, Radio!set_ref_clk_cycles
<1>2. Keeps(P, s, pp) /\ (Arriving(t, t.port_delay) => Eyed(pp))
  BY PpPort
<1> HIDE DEF pp, max, u
<1>3. ASSUME NEW R, NEW z, Keeps(R, z, pp) PROVE Keeps(R, z, u)
  <2>1. Keeps(R, z, adc)
    BY <1>3, GainKeeps, Zenon
  <2> HIDE DEF adc
  <2>2. Keeps(R, z, outs)
    BY <2>1, BlocksKeep, Zenon
  <2> HIDE DEF outs
  <2>3. Keeps(R, z, cycles)
    BY <2>2, BlocksKeep, Zenon
  <2> HIDE DEF cycles
  <2>4. Keeps(R, z, lna)
    BY <2>3, GainKeeps, Zenon
  <2> HIDE DEF lna
  <2>5. Keeps(R, z, [lna EXCEPT !.trx_synth_max_fref = max])
    BY <2>4, BlocksKeep, Zenon
  <2> QED BY <1>1, <2>5, Zenon
<1>4. Keeps({"eyed"}, pp, pp)
  BY <1>2, KeepsFacts
<1>5. Keeps(P, s, u) /\ Keeps({"eyed"}, pp, u)
  BY <1>2, <1>3, <1>4, Zenon
<1>6. Eyed(pp) => Eyed(u)
  BY <1>5 DEF Keeps
<1> QED BY <1>2, <1>5, <1>6 DEF u

LEMMA PumpKeeps ==
  ASSUME NEW P, NEW s, NEW t, Keeps(P, s, t), NEW dir
  PROVE  Keeps(P, s, Radio!txrx_synth_cp_calib(t, dir))
<1> DEFINE x0 == Radio!Configure(t, Radio!ToAlert)
           x1 == [x0 EXCEPT !.reg.DUAL_SYNTH = TRUE]
           x2 == [x1 EXCEPT !.reg.FDD_EXT_CTRL = FALSE]
           x3 == [x2 EXCEPT !.reg.SYNTH_PIN_CTRL = FALSE]
           x4 == [x3 EXCEPT !.reg.FDD_MODE = TRUE]
           run == Radio!run_calibration(x4, <<"CP_CAL", dir>>)
<1>1. Keeps(P, s, x0)
  BY ConfigureKeeps
<1>2. Radio!txrx_synth_cp_calib(t, dir) = run
  <2> HIDE DEF x0
  <2>1. [x0 EXCEPT !.reg.DUAL_SYNTH = TRUE, !.reg.FDD_EXT_CTRL = FALSE,
                   !.reg.SYNTH_PIN_CTRL = FALSE, !.reg.FDD_MODE = TRUE] = x4
    BY SMT
  <2> HIDE DEF x4
  <2> QED BY <2>1, Zenon DEF Radio!txrx_synth_cp_calib, x0
<1> HIDE DEF x0
<1>3. \A u : Keeps(P, s, u) =>
        /\ Keeps(P, s, [u EXCEPT !.reg.DUAL_SYNTH = TRUE])
        /\ Keeps(P, s, [u EXCEPT !.reg.FDD_EXT_CTRL = FALSE])
        /\ Keeps(P, s, [u EXCEPT !.reg.SYNTH_PIN_CTRL = FALSE])
        /\ Keeps(P, s, [u EXCEPT !.reg.FDD_MODE = TRUE])
  <2> USE DEF Keeps, Built, TunedFields, TunedRegisters, LoUnset, Eyed
  <2>1. \A u : Keeps(P, s, u) => Keeps(P, s, [u EXCEPT !.reg.DUAL_SYNTH = TRUE])
    OBVIOUS
  <2>2. \A u : Keeps(P, s, u) => Keeps(P, s, [u EXCEPT !.reg.FDD_EXT_CTRL = FALSE])
    OBVIOUS
  <2>3. \A u : Keeps(P, s, u) => Keeps(P, s, [u EXCEPT !.reg.SYNTH_PIN_CTRL = FALSE])
    OBVIOUS
  <2>4. \A u : Keeps(P, s, u) => Keeps(P, s, [u EXCEPT !.reg.FDD_MODE = TRUE])
    OBVIOUS
  <2> HIDE DEF Keeps
  <2> QED BY <2>1, <2>2, <2>3, <2>4
<1>4. Keeps(P, s, x1)
  BY <1>1, <1>3, Zenon
<1> HIDE DEF x1
<1>5. Keeps(P, s, x2)
  BY <1>3, <1>4, Zenon
<1> HIDE DEF x2
<1>6. Keeps(P, s, x3)
  BY <1>3, <1>5, Zenon
<1> HIDE DEF x3
<1>7. Keeps(P, s, x4)
  BY <1>3, <1>6, Zenon
<1> HIDE DEF x4
<1>8. Keeps(P, s, run)
  BY <1>7, CalKeeps, Zenon
<1> QED BY <1>2, <1>8

LEMMA PumpsKeep ==
  ASSUME NEW P, NEW s, NEW t, Keeps(P, s, t), NEW ref
  PROVE  Keeps(P, s, Radio!SetupPumps(t, ref))
<1> DEFINE rxRef == Radio!no_os_clk_set_rate(t, "RX_REFCLK", ref)
           txRef == Radio!no_os_clk_set_rate(rxRef, "TX_REFCLK", ref)
           rx == Radio!txrx_synth_cp_calib(txRef, "rx")
           tx == Radio!txrx_synth_cp_calib(rx, "tx")
<1>1. Radio!SetupPumps(t, ref) =
        IF ref = 0 THEN Radio!Result(t, "EINVAL") ELSE Radio!IfOk(rx, tx)
  BY Zenon DEF Radio!SetupPumps, Radio!RefClocks, rxRef, txRef, rx, tx
<1>2. Keeps(P, s, rxRef)
  BY ClockRateKeeps
<1> HIDE DEF rxRef
<1>3. Keeps(P, s, txRef)
  BY <1>2, ClockRateKeeps
<1> HIDE DEF txRef
<1>4. Keeps(P, s, rx)
  BY <1>3, PumpKeeps
<1> HIDE DEF rx
<1>5. Keeps(P, s, tx)
  BY <1>4, PumpKeeps
<1> HIDE DEF tx
<1>6. Keeps(P, s, Radio!IfOk(rx, tx)) /\ Keeps(P, s, Radio!Result(t, "EINVAL"))
  BY <1>4, <1>5, ResultKeeps
<1> QED BY <1>1, <1>6

\* Where the LOs come from.
ExtAs(t, ext) == [t EXCEPT !.use_ext_lo = ext]

LEMMA ExtAsKeeps ==
  ASSUME NEW P, NEW s, NEW t, Keeps(P, s, t), P \cap {"quiet", "ext"} = {},
         NEW ext, DOMAIN ext = Radio!Sides
  PROVE  /\ Keeps(P, s, ExtAs(t, ext)) /\ ExtAs(t, ext).use_ext_lo = ext
         /\ ExtAs(t, ext).lo_clk = t.lo_clk /\ ExtAs(t, ext).dev_sel = t.dev_sel
         /\ (ext.rx <=> t.use_ext_lo.rx) /\ Tabled(t) => Tabled(ExtAs(t, ext))
<1> DEFINE u == ExtAs(t, ext)
<1>1. Keeps(P, s, u)
  BY DEF ExtAs, Keeps, Built, TunedFields, TunedRegisters, Eyed
<1>2. /\ u.use_ext_lo = ext /\ u.lo_clk = t.lo_clk /\ u.dev_sel = t.dev_sel
      /\ u.split_gt = t.split_gt /\ u.current_table = t.current_table
      /\ u.current_lo_freq = t.current_lo_freq
  BY KeepsFacts DEF ExtAs, Built, TunedFields
<1>3. ASSUME ext.rx <=> t.use_ext_lo.rx, Tabled(t) PROVE Tabled(u)
  <2> HIDE DEF u
  <2>1. ASSUME ~u.use_ext_lo.rx PROVE u.current_table = Radio!gt_tableindex(u, u.current_lo_freq.rx)
    <3>1. t.current_table = Radio!gt_tableindex(t, t.current_lo_freq.rx)
      BY <1>2, <1>3, <2>1 DEF Tabled, Radio!TableFits
    <3>2. Radio!gt_tableindex(u, t.current_lo_freq.rx)
            = Radio!gt_tableindex(t, t.current_lo_freq.rx)
      BY <1>2, IndexWays
    <3> QED BY <1>2, <3>1, <3>2, Zenon
  <2> QED BY <2>1 DEF Tabled, Radio!TableFits
<1> QED BY <1>1, <1>2, <1>3 DEF u

\* Both LOs are set inside, and then taken from where they are to come from.
LosInside(t) == ExtAs(t, [side \in Radio!Sides |-> FALSE])
RxSet(t) == Radio!clk_set_lo(LosInside(t), "rx", t.rx_synth_freq)
TxNoted(t) == [RxSet(t) EXCEPT !.last_tx_quad_cal_freq = RxSet(t).tx_synth_freq]
TxSet(t) == Radio!clk_set_lo(TxNoted(t), "tx", t.tx_synth_freq)
Moved(t) == ExtAs(TxSet(t), t.use_ext_lo)
RxMoved(t) == Radio!clk_mux_set_parent(Moved(t), "rx", t.use_ext_lo.rx)
BothMoved(t) == Radio!clk_mux_set_parent(RxMoved(t), "tx", t.use_ext_lo.tx)

LEMMA LosAre ==
  ASSUME NEW t
  PROVE  Radio!SetupLos(t) = Radio!IfOk(t, BothMoved(t))
  BY Zenon DEF Radio!SetupLos, Radio!FromWhere, Radio!FromInside, Radio!WithTxFreq, BothMoved,
               RxMoved, Moved, TxSet, TxNoted, RxSet, LosInside, ExtAs

LEMMA LosKeep ==
  ASSUME NEW P, NEW s, NEW t, Keeps(P, s, t), P \cap {"quiet", "lo", "table", "ext"} = {}
  PROVE  Keeps(P, s, Radio!SetupLos(t))
<1> DEFINE none == [side \in Radio!Sides |-> FALSE]
<1>0. DOMAIN none = Radio!Sides /\ DOMAIN t.use_ext_lo = Radio!Sides
      /\ "rx" \in Radio!Sides /\ "tx" \in Radio!Sides
  BY KeepsFacts DEF Built, Radio!Sides
<1> HIDE DEF none
<1>1. Keeps(P, s, LosInside(t))
  BY <1>0, ExtAsKeeps DEF LosInside, none
<1>2. Keeps(P, s, RxSet(t))
  BY <1>0, <1>1, LoKeeps DEF RxSet
<1>3. Keeps(P, s, TxNoted(t))
  BY <1>2, SynthSets, Zenon DEF TxNoted
<1>4. Keeps(P, s, TxSet(t))
  BY <1>0, <1>3, LoKeeps DEF TxSet
<1>5. Keeps(P, s, Moved(t))
  BY <1>0, <1>4, ExtAsKeeps DEF Moved
<1>6. Keeps(P, s, RxMoved(t))
  BY <1>5, MuxKeeps DEF RxMoved
<1>7. Keeps(P, s, BothMoved(t))
  BY <1>6, MuxKeeps DEF BothMoved
<1> QED BY <1>7, LosAre, ResultKeeps

\* What LO there may be depends on the chip alone.
LEMMA AskedWays ==
  ASSUME NEW t, NEW u, u.dev_sel = t.dev_sel, NEW rate
  PROVE  Radio!validate_rfpll(u, FALSE, rate) <=> Radio!validate_rfpll(t, FALSE, rate)
  BY DEF Radio!validate_rfpll

\* No LO of the receiver is 0, which is what the clock has before it is set.
LEMMA NoSuchLo ==
  ASSUME NEW t, NEW rate, Radio!validate_rfpll(t, FALSE, rate)
  PROVE  rate # 0
<1> DEFINE narrow == 325 .. 3800
           wide == 70 .. Radio!MAX_CARRIER_FREQ
<1>1. 0 \notin narrow /\ 0 \notin wide
  BY SMT
<1> HIDE DEF narrow, wide
<1>2. rate \in narrow \/ rate \in wide
  BY SMT DEF Radio!validate_rfpll, narrow, wide
<1> QED BY <1>1, <1>2, Zenon

LEMMA LosTable ==
  ASSUME NEW t, Built(t), LoUnset(t), Radio!validate_rfpll(t, FALSE, t.rx_synth_freq),
         Radio!Ok(Radio!SetupLos(t))
  PROVE  Tabled(Radio!SetupLos(t))
<1> DEFINE none == [side \in Radio!Sides |-> FALSE]
           rate == t.rx_synth_freq
<1>0. DOMAIN none = Radio!Sides /\ DOMAIN t.use_ext_lo = Radio!Sides /\ ~none.rx
      /\ "rx" \in Radio!Sides /\ "tx" \in Radio!Sides
  BY DEF Built, Radio!Sides
<1> HIDE DEF none
<1>1. Radio!SetupLos(t) = BothMoved(t)
  BY LosAre, IfOkFacts
<1>2. /\ Built(LosInside(t)) /\ ~LosInside(t).use_ext_lo.rx
      /\ LosInside(t).lo_clk = t.lo_clk /\ LosInside(t).dev_sel = t.dev_sel
  <2>1. Keeps({}, t, t)
    BY KeepsFacts
  <2>2. Keeps({}, t, LosInside(t)) /\ LosInside(t).use_ext_lo = none
        /\ LosInside(t).lo_clk = t.lo_clk /\ LosInside(t).dev_sel = t.dev_sel
    BY <1>0, <2>1, ExtAsKeeps DEF LosInside, none
  <2> QED BY <1>0, <2>2, KeepsFacts
<1> DEFINE Q == {"ext"}
<1>3. /\ Q \cap {"quiet", "lo", "table"} = {} /\ "quiet" \notin Gains
      /\ Q \subseteq Gains
  BY DEF Gains
<1>a. "ext" \in Q
  OBVIOUS
<1> HIDE DEF Q
<1>4. Keeps(Q, LosInside(t), RxSet(t))
  <2>1. Keeps(Q, LosInside(t), LosInside(t))
    BY <1>2, KeepsFacts
  <2> QED BY <1>0, <1>3, <2>1, LoKeeps DEF RxSet
<1>5. Built(RxSet(t)) /\ ~RxSet(t).use_ext_lo.rx
  BY <1>2, <1>4, <1>a, KeepsFacts DEF Keeps
<1>6. Keeps(Gains, RxSet(t), TxNoted(t))
  <2>1. Keeps(Gains, RxSet(t), RxSet(t))
    BY <1>5, KeepsFacts
  <2> QED BY <2>1, SynthSets, Zenon DEF TxNoted
<1>7. Keeps(Gains, RxSet(t), TxSet(t))
  BY <1>0, <1>3, <1>6, LoKeeps DEF TxSet
<1>8. Built(TxSet(t)) /\ ~TxSet(t).use_ext_lo.rx
  <2>1. "ext" \in Gains
    BY DEF Gains
  <2> QED BY <1>5, <1>7, <2>1, KeepsFacts DEF Keeps
<1>9. Built(Moved(t)) /\ Moved(t).use_ext_lo = t.use_ext_lo
  <2>1. Keeps({}, TxSet(t), TxSet(t))
    BY <1>8, KeepsFacts
  <2>2. Keeps({}, TxSet(t), Moved(t)) /\ Moved(t).use_ext_lo = t.use_ext_lo
    BY <1>0, <2>1, ExtAsKeeps DEF Moved
  <2> QED BY <2>2, KeepsFacts
<1>10. Tabled(Moved(t))
  <2>1. CASE t.use_ext_lo.rx
    BY <1>9, <2>1 DEF Tabled, Radio!TableFits
  <2>2. CASE ~t.use_ext_lo.rx
    <3>1. t.lo_clk.rx = 0
      BY <2>2, Zenon DEF LoUnset, NoLo
    <3>2. LosInside(t).lo_clk.rx # rate
      BY <1>2, <3>1, NoSuchLo
    <3>3. Radio!validate_rfpll(LosInside(t), FALSE, rate)
      BY <1>2, AskedWays
    <3>4. Tabled(RxSet(t))
      BY <1>2, <3>2, <3>3, LoTable, Zenon DEF RxSet
    <3>5. Tabled(TxSet(t))
      BY <1>7, <3>4, TableWays
    <3>6. Keeps({}, TxSet(t), TxSet(t))
      BY <1>8, KeepsFacts
    <3>7. t.use_ext_lo.rx <=> TxSet(t).use_ext_lo.rx
      BY <1>8, <2>2
    <3> QED BY <1>0, <3>5, <3>6, <3>7, ExtAsKeeps DEF Moved
  <2> QED BY <2>1, <2>2
<1>11. Keeps(Gains, Moved(t), RxMoved(t))
  <2>1. Keeps(Gains, Moved(t), Moved(t))
    BY <1>9, KeepsFacts
  <2> QED BY <1>3, <2>1, MuxKeeps DEF RxMoved
<1>12. Keeps(Gains, Moved(t), BothMoved(t))
  BY <1>3, <1>11, MuxKeeps DEF BothMoved
<1> QED BY <1>1, <1>10, <1>12, TableWays

LEMMA BasebandSets ==
  ASSUME NEW P, NEW s, NEW t, Keeps(P, s, t), NEW x
  PROVE  /\ Keeps(P, s, [t EXCEPT !.agc_mode = x])
         /\ Keeps(P, s, [t EXCEPT !.reg.AGC_MODE = x])
         /\ Keeps(P, s, [t EXCEPT !.reg.HYBRID = x])
         /\ Keeps(P, s, [t EXCEPT !.reg.RX_DIG = x])
         /\ Keeps(P, s, [t EXCEPT !.reg.RX_LPF = x])
         /\ Keeps(P, s, [t EXCEPT !.reg.ADC_OVERLOAD = x])
<1> USE DEF Keeps, Built, TunedFields, TunedRegisters, LoUnset, Eyed
<1>1. Keeps(P, s, [t EXCEPT !.agc_mode = x]) /\ Keeps(P, s, [t EXCEPT !.reg.AGC_MODE = x])
  OBVIOUS
<1>2. Keeps(P, s, [t EXCEPT !.reg.HYBRID = x]) /\ Keeps(P, s, [t EXCEPT !.reg.RX_DIG = x])
  OBVIOUS
<1>3. Keeps(P, s, [t EXCEPT !.reg.RX_LPF = x])
      /\ Keeps(P, s, [t EXCEPT !.reg.ADC_OVERLOAD = x])
  OBVIOUS
<1> HIDE DEF Keeps
<1> QED BY <1>1, <1>2, <1>3

LEMMA GcSetupKeeps ==
  ASSUME NEW P, NEW s, NEW t, Keeps(P, s, t)
  PROVE  Keeps(P, s, Radio!gc_setup(t))
<1> DEFINE c == t.ctrl
           hybrid == "HYBRID" \in {c.modes[1], c.modes[2]}
           dig == [r \in {1, 2} |-> 0]
           lpf == IF t.split_gt THEN [r \in {1, 2} |-> 24] ELSE t.reg.RX_LPF
           given == [small |-> c.adc_small, large |-> c.adc_large]
           turned == [small |-> c.adc_large, large |-> c.adc_small]
           modes == c.modes
           x1 == [t EXCEPT !.agc_mode = modes]
           x2 == [x1 EXCEPT !.reg.AGC_MODE = modes]
           x3 == [x2 EXCEPT !.reg.HYBRID = hybrid]
           x4 == [x3 EXCEPT !.reg.RX_DIG = dig]
           x5 == [x4 EXCEPT !.reg.RX_LPF = lpf]
           x6 == [x5 EXCEPT !.reg.ADC_OVERLOAD = given]
           all == [t EXCEPT !.agc_mode = modes, !.reg.AGC_MODE = modes, !.reg.HYBRID = hybrid,
                            !.reg.RX_DIG = dig, !.reg.RX_LPF = lpf, !.reg.ADC_OVERLOAD = given]
           ordered == IF c.adc_large >= c.adc_small THEN all
                      ELSE [all EXCEPT !.reg.ADC_OVERLOAD = turned]
<1>1. Radio!gc_setup(t) = Radio!gc_update(ordered)
  BY DEF Radio!gc_setup
<1> HIDE DEF hybrid, dig, lpf, given, turned, modes
<1>2. all = x6
  BY SMT
<1> HIDE DEF all
<1>3. Keeps(P, s, x1)
  BY BasebandSets, Zenon
<1> HIDE DEF x1
<1>4. Keeps(P, s, x2)
  BY <1>3, BasebandSets, Zenon
<1> HIDE DEF x2
<1>5. Keeps(P, s, x3)
  BY <1>4, BasebandSets, Zenon
<1> HIDE DEF x3
<1>6. Keeps(P, s, x4)
  BY <1>5, BasebandSets, Zenon
<1> HIDE DEF x4
<1>7. Keeps(P, s, x5)
  BY <1>6, BasebandSets, Zenon
<1> HIDE DEF x5
<1>8. Keeps(P, s, x6)
  BY <1>7, BasebandSets, Zenon
<1> HIDE DEF x6
<1>9. Keeps(P, s, all)
  BY <1>2, <1>8
<1>10. Keeps(P, s, [all EXCEPT !.reg.ADC_OVERLOAD = turned])
  BY <1>9, BasebandSets, Zenon
<1>11. Keeps(P, s, ordered)
  BY <1>9, <1>10
<1> HIDE DEF ordered
<1> QED BY <1>1, <1>11, TimingKeeps

LEMMA WidthsNotedKeep ==
  ASSUME NEW P, NEW s, NEW t, Keeps(P, s, t), NEW x, NEW y, NEW z
  PROVE  Keeps(P, s, [t EXCEPT !.current_rx_bw = x, !.current_tx_bw = y,
                               !.last_tx_quad_cal_phase = z])
  BY DEF Keeps, Built, TunedFields, TunedRegisters, LoUnset, Eyed

LEMMA BasebandKeeps ==
  ASSUME NEW P, NEW s, NEW t, Keeps(P, s, t)
  PROVE  Keeps(P, s, Radio!SetupBaseband(t))
<1> DEFINE rxBw == t.rf_rx_bandwidth
           txBw == t.rf_tx_bandwidth
           gm == Radio!load_mixer_gm_subtable(t)
           gains == Radio!gc_setup(gm)
           set == Radio!SetFilters(gains, rxBw, txBw)
           bbdc == Radio!IfOk(set, Radio!bb_dc_offset_calib(set))
           rfdc == Radio!IfOk(bbdc, Radio!rf_dc_offset_calib(bbdc))
           noted == [rfdc EXCEPT !.current_rx_bw = rxBw, !.current_tx_bw = txBw,
                                 !.last_tx_quad_cal_phase = 31]
           quad == Radio!tx_quad_calib(noted, rxBw \div 2, txBw \div 2, -1)
<1>1. Radio!SetupBaseband(t) = Radio!IfOk(rfdc, quad)
  BY Zenon DEF Radio!SetupBaseband, quad, noted, rfdc, bbdc, set, gains, gm, rxBw, txBw
<1>2. Keeps(P, s, gm)
  BY GainKeeps
<1> HIDE DEF gm, rxBw, txBw
<1>3. Keeps(P, s, gains)
  BY <1>2, GcSetupKeeps
<1> HIDE DEF gains
<1>4. Keeps(P, s, set)
  BY <1>3, SetFiltersKeeps
<1> HIDE DEF set
<1>5. Keeps(P, s, bbdc)
  BY <1>4, CalKeeps, ResultKeeps
<1> HIDE DEF bbdc
<1>6. Keeps(P, s, rfdc)
  BY <1>5, CalKeeps, ResultKeeps
<1> HIDE DEF rfdc
<1>7. Keeps(P, s, noted)
  BY <1>6, WidthsNotedKeep, Zenon
<1> HIDE DEF noted
<1>8. Keeps(P, s, quad)
  BY <1>7, QuadKeeps
<1> HIDE DEF quad
<1> QED BY <1>1, <1>6, <1>8, ResultKeeps

LEMMA AutoKeeps ==
  ASSUME NEW P, NEW s, NEW t, Keeps(P, s, t), NEW x, NEW y
  PROVE  Keeps(P, s, [t EXCEPT !.auto_cal_en = x, !.cal_threshold_freq = y, !.rc = "ok"])
  BY DEF Keeps, Built, TunedFields, TunedRegisters, LoUnset, Eyed

LEMMA EndKeeps ==
  ASSUME NEW P, NEW s, NEW t, Keeps(P, s, t)
  PROVE  Keeps(P, s, Radio!SetupEnd(t))
<1> DEFINE track == Radio!tracking_control(t, t.tracks)
           pp == Radio!Configured(track, "PORT")
           fdd == t.fdd
           pins == t.ensm_pin_ctrl
           mode == Radio!set_ensm_mode(pp, fdd, pins)
           used == IF t.rx2tx2 THEN {1, 2} ELSE {t.rx1tx1_mode_use_tx_num}
           one == Radio!set_tx_atten(mode, t.tx_atten, used)
           quiet == Radio!set_tx_atten(one, Radio!MAX_TX_ATTENUATION_DB, {1, 2} \ used)
           rssi == Radio!rssi_setup(quiet, FALSE)
           out == Radio!clkout_control(rssi)
           last == Radio!Configured(out, "TXMON")
           at == [last EXCEPT !.curr_ensm_state = last.reg.STATE]
           to == IF fdd THEN "FDD" ELSE "RX"
           shifted == Radio!ensm_set_state(at, to, pins)
           end == [shifted EXCEPT !.auto_cal_en = TRUE, !.cal_threshold_freq = 100, !.rc = "ok"]
<1>1. Radio!SetupEnd(t) = IF t.tx_atten > Radio!MAX_TX_ATTENUATION_DB
                          THEN Radio!Result(mode, "EINVAL") ELSE end
  <2>1. pp = Radio!pp_port_setup(track, TRUE)
    BY DEF Radio!pp_port_setup
  <2>2. last = Radio!txmon_setup(out)
    BY DEF Radio!txmon_setup
  <2> HIDE DEF pp, last
  <2> QED BY <2>1, <2>2, Zenon DEF Radio!SetupEnd, end, shifted, to, at, out, rssi, quiet, one,
                                   used, mode, track, fdd, pins
<1>2. Keeps(P, s, track)
  BY CalKeeps
<1> HIDE DEF track, fdd, pins, used, to
<1>3. Keeps(P, s, pp)
  BY <1>2, BlocksKeep, Zenon
<1> HIDE DEF pp
<1>4. Keeps(P, s, mode)
  BY <1>3, ModeKeeps
<1> HIDE DEF mode
<1>5. Keeps(P, s, one)
  BY <1>4, GainKeeps
<1> HIDE DEF one
<1>6. Keeps(P, s, quiet)
  BY <1>5, GainKeeps
<1> HIDE DEF quiet
<1>7. Keeps(P, s, rssi)
  BY <1>6, TimingKeeps
<1> HIDE DEF rssi
<1>8. Keeps(P, s, out)
  BY <1>7, BlocksKeep, Zenon
<1> HIDE DEF out
<1>9. Keeps(P, s, last)
  BY <1>8, BlocksKeep, Zenon
<1> HIDE DEF last
<1>10. Keeps(P, s, at)
  BY <1>9, NotesKeep, Zenon
<1> HIDE DEF at
<1>11. Keeps(P, s, shifted)
  BY <1>10, StateKeeps
<1> HIDE DEF shifted
<1>12. Keeps(P, s, end)
  BY <1>11, AutoKeeps, Zenon
<1> HIDE DEF end
<1> QED BY <1>1, <1>4, <1>12, ResultKeeps

\* The steps of the setup.
AtPorts(s) == Radio!Ports(Radio!Interfaces(Radio!SetupClocks(s)))
AtAux(s) == Radio!AuxBlocks(AtPorts(s))
AtPumps(s) ==
  Radio!SetupPumps(AtAux(s), Radio!ref_div_sel(AtAux(s).refin, AtAux(s).trx_synth_max_fref))
AtLos(s) == Radio!SetupLos(AtPumps(s))
AtSynths(s) ==
  Radio!IfOk(Radio!SetupClocks(s), Radio!IfOk(AtPorts(s), AtLos(s)))
AtBaseband(s) == Radio!IfOk(AtSynths(s), Radio!SetupBaseband(AtSynths(s)))
AtEnd(s) == Radio!IfOk(AtBaseband(s), Radio!SetupEnd(AtBaseband(s)))

LEMMA SetupIs ==
  ASSUME NEW s
  PROVE  /\ Radio!setup(s) = AtEnd(s)
         /\ Radio!Ok(AtEnd(s)) => /\ AtSynths(s) = AtLos(s) /\ Radio!Ok(AtLos(s))
                                  /\ Radio!Ok(AtSynths(s)) /\ Radio!Ok(AtBaseband(s))
<1>1. Radio!setup(s) = AtEnd(s)
  <2>1. AtSynths(s) = Radio!ThenSynths(Radio!SetupClocks(s))
    BY Zenon DEF Radio!ThenSynths, Radio!SetupSynths, Radio!ThenLos, Radio!WithRef, AtSynths, AtLos,
                 AtPumps, AtAux, AtPorts
  <2> QED BY <2>1, Zenon DEF Radio!setup, Radio!ThenEnd, Radio!ThenBaseband, AtEnd, AtBaseband
<1>2. ASSUME Radio!Ok(AtEnd(s))
      PROVE  /\ AtSynths(s) = AtLos(s) /\ Radio!Ok(AtLos(s))
             /\ Radio!Ok(AtSynths(s)) /\ Radio!Ok(AtBaseband(s))
  <2>1. Radio!Ok(AtBaseband(s))
    BY <1>2, IfOkFacts, Zenon DEF AtEnd
  <2>2. Radio!Ok(AtSynths(s))
    BY <2>1, IfOkFacts, Zenon DEF AtBaseband
  <2>3. Radio!Ok(Radio!IfOk(AtPorts(s), AtLos(s))) /\ AtSynths(s) = Radio!IfOk(AtPorts(s), AtLos(s))
    BY <2>2, IfOkFacts, Zenon DEF AtSynths
  <2>4. Radio!Ok(AtLos(s)) /\ Radio!IfOk(AtPorts(s), AtLos(s)) = AtLos(s)
    BY <2>3, IfOkFacts, Zenon
  <2> QED BY <2>1, <2>2, <2>3, <2>4
<1> QED BY <1>1, <1>2

\* What is kept up to the ports, from there to the LOs, and after them.
LEMMA BeforePorts ==
  ASSUME NEW P, NEW s, Built(s), s.bypass_rx_fir, s.bypass_tx_fir
  PROVE  Keeps(P, s, Radio!SetupClocks(s)) /\ Keeps(P, s, AtPorts(s))
<1>1. Keeps(P, s, Radio!SetupClocks(s))
  BY SetupClocksKeeps
<1> QED BY <1>1, InterfacesKeep DEF AtPorts

LEMMA PumpsTo ==
  ASSUME NEW P, NEW s, NEW t, Keeps(P, t, AtAux(s))
  PROVE  Keeps(P, t, AtPumps(s))
  BY PumpsKeep DEF AtPumps

LEMMA LosTo ==
  ASSUME NEW P, NEW s, NEW t, P \cap {"quiet", "lo", "table", "ext"} = {}, Keeps(P, t, AtPumps(s))
  PROVE  Keeps(P, t, AtLos(s))
  BY LosKeep DEF AtLos

LEMMA EndTo ==
  ASSUME NEW P, NEW s, NEW t, Keeps(P, t, AtSynths(s))
  PROVE  Keeps(P, t, AtEnd(s))
<1>1. Keeps(P, t, AtBaseband(s))
  BY BasebandKeeps, ResultKeeps DEF AtBaseband
<1> QED BY <1>1, EndKeeps, ResultKeeps DEF AtEnd

\* A radio that has been set up has the gain table of its LO, and the delays it was to
\* have arrive.
LEMMA SetUp ==
  ASSUME NEW s, Built(s), s.bypass_rx_fir, s.bypass_tx_fir
  PROVE  /\ Keeps({}, s, Radio!setup(s))
         /\ Radio!Ok(Radio!setup(s)) /\ LoUnset(s)
              /\ Radio!validate_rfpll(s, FALSE, s.rx_synth_freq)
              => Tabled(Radio!setup(s))
         /\ Radio!Ok(Radio!setup(s)) /\ Arriving(s, s.port_delay) => Eyed(Radio!setup(s))
<1>1. ASSUME NEW P, P \cap {"delays", "eyed"} = {}
      PROVE  /\ Keeps(P, s, Radio!SetupClocks(s)) /\ Keeps(P, s, AtPorts(s))
             /\ Keeps(P, s, AtAux(s)) /\ Keeps(P, s, AtPumps(s))
  <2>0. "delays" \notin P /\ "eyed" \notin P
    BY <1>1
  <2>1. Keeps(P, s, Radio!SetupClocks(s)) /\ Keeps(P, s, AtPorts(s))
    BY <2>0, BeforePorts
  <2>2. Keeps(P, s, AtAux(s))
    BY <2>0, <2>1, AuxKeeps DEF AtAux
  <2> QED BY <2>0, <2>1, <2>2, PumpsTo
<1>2. Keeps({}, s, AtEnd(s))
  <2>1. /\ Keeps({}, s, Radio!SetupClocks(s)) /\ Keeps({}, s, AtPorts(s))
        /\ Keeps({}, s, AtPumps(s))
    BY <1>1
  <2>2. Keeps({}, s, AtLos(s))
    BY <2>1, LosTo
  <2>3. Keeps({}, s, AtSynths(s))
    BY <2>1, <2>2, ResultKeeps DEF AtSynths
  <2> QED BY <2>3, EndTo
<1>3. ASSUME Radio!Ok(AtEnd(s)), LoUnset(s), Radio!validate_rfpll(s, FALSE, s.rx_synth_freq)
      PROVE  Tabled(AtEnd(s))
  <2>1. AtSynths(s) = AtLos(s) /\ Radio!Ok(AtLos(s))
    BY <1>3, SetupIs
  <2> DEFINE Q == {"quiet"}
  <2>2. Q \cap {"delays", "eyed"} = {} /\ "quiet" \in Q
    OBVIOUS
  <2> HIDE DEF Q
  <2>3. Keeps(Q, s, AtPumps(s))
    BY <1>1, <2>2
  <2>4. /\ Built(AtPumps(s)) /\ LoUnset(AtPumps(s))
        /\ AtPumps(s).dev_sel = s.dev_sel /\ AtPumps(s).rx_synth_freq = s.rx_synth_freq
    BY <1>3, <2>2, <2>3 DEF Keeps
  <2>5. Radio!validate_rfpll(AtPumps(s), FALSE, AtPumps(s).rx_synth_freq)
    BY <1>3, <2>4, AskedWays
  <2>6. Tabled(AtLos(s))
    BY <2>1, <2>4, <2>5, LosTable DEF AtLos
  <2>7. Keeps({}, s, AtLos(s))
    <3>1. Keeps({}, s, AtPumps(s))
      BY <1>1
    <3> QED BY <3>1, LosTo
  <2>8. Keeps(Gains, AtSynths(s), AtSynths(s))
    BY <2>1, <2>7, KeepsFacts
  <2>10. Keeps(Gains, AtSynths(s), AtEnd(s))
    BY <2>8, EndTo
  <2> QED BY <2>1, <2>6, <2>10, TableWays
<1>4. ASSUME Radio!Ok(AtEnd(s)), Arriving(s, s.port_delay) PROVE Eyed(AtEnd(s))
  <2>1. AtSynths(s) = AtLos(s)
    BY <1>4, SetupIs
  <2> DEFINE Q == {"delays"}
  <2>2. "delays" \in Q
    OBVIOUS
  <2> HIDE DEF Q
  <2>3. Keeps(Q, s, AtPorts(s))
    BY <2>2, BeforePorts
  <2>4. AtPorts(s).port_delay = s.port_delay /\ AtPorts(s).chip = s.chip
    BY <2>2, <2>3 DEF Keeps
  <2>5. Arriving(AtPorts(s), AtPorts(s).port_delay)
    BY <1>4, <2>4, EyedWays, Zenon
  <2>6. Keeps({}, s, AtPorts(s))
    BY <1>1
  <2>7. Eyed(AtAux(s)) /\ Built(AtAux(s))
    <3>1. Keeps({}, s, AtAux(s)) /\ (Arriving(AtPorts(s), AtPorts(s).port_delay) => Eyed(AtAux(s)))
      BY <2>6, AuxKeeps DEF AtAux
    <3> QED BY <2>5, <3>1, KeepsFacts
  <2> DEFINE E == {"eyed"}
  <2>8. /\ E \cap {"quiet", "lo", "table", "ext"} = {} /\ "eyed" \in E
    OBVIOUS
  <2> HIDE DEF E
  <2>9. Keeps(E, AtAux(s), AtAux(s))
    BY <2>7, KeepsFacts
  <2>10. Keeps(E, AtAux(s), AtPumps(s))
    BY <2>8, <2>9, PumpsTo
  <2>11. Keeps(E, AtAux(s), AtLos(s))
    BY <2>8, <2>10, LosTo
  <2>12. Keeps(E, AtAux(s), AtEnd(s))
    BY <2>1, <2>8, <2>11, EndTo
  <2> QED BY <2>7, <2>8, <2>12 DEF Keeps
<1> QED BY <1>2, <1>3, <1>4, SetupIs, Zenon

-----------------------------------------------------------------------------
(* From a board to a radio *)

\* What there is of a phy before the driver has cleared it.
Blank(s) ==
  /\ TunedFields \subseteq DOMAIN s
  /\ DOMAIN s.clks = DOMAIN Radio!parents
  /\ DOMAIN s.use_ext_lo = Radio!Sides /\ DOMAIN s.port_delay = Radio!Sides
  /\ s.hdl_dac_version \in Nat /\ s.rf_rx_input_sel \in Nat

\* What of it stays.
SameBoard(s, t) ==
  /\ t.chip = s.chip /\ t.port_delay = s.port_delay /\ t.rx_synth_freq = s.rx_synth_freq
  /\ t.dev_sel = s.dev_sel
  /\ t.dig_interface_tune_skipmode = s.dig_interface_tune_skipmode

LEMMA BlankReset ==
  ASSUME NEW s, Blank(s)
  PROVE  /\ Blank(Radio!reset(s)) /\ SameBoard(s, Radio!reset(s))
         /\ Radio!reset(s).reg.SYNTH.rx = [vco |-> 0, div |-> 0]
         /\ Radio!reset(s).bypass_rx_fir = s.bypass_rx_fir
         /\ Radio!reset(s).bypass_tx_fir = s.bypass_tx_fir
         /\ Radio!reset(s).fastlock = s.fastlock
         /\ DOMAIN s.current_lo_freq = Radio!Sides => Built(Radio!reset(s))
<1> DEFINE reg == [Radio!PowerOn EXCEPT !.DSEL = s.reg.DSEL, !.PNSEL = s.reg.PNSEL,
                                        !.R1_MODE = s.reg.R1_MODE, !.IODELAY = s.reg.IODELAY]
           rc == IF s.has_resetb THEN "ok" ELSE "ENODEV"
           r == [s EXCEPT !.reg = reg, !.rc = rc]
<1>1. Radio!reset(s) = r
  BY Zenon DEF Radio!reset
<1>2. /\ TunedRegisters \subseteq DOMAIN reg
      /\ DOMAIN reg.DELAY = Radio!Sides
      /\ reg.SYNTH.rx = [vco |-> 0, div |-> 0]
  BY DEF Radio!PowerOn, TunedRegisters, Radio!Sides
<1> HIDE DEF reg, rc
<1>3. Blank(r) /\ SameBoard(s, r) /\ r.bypass_rx_fir = s.bypass_rx_fir
      /\ r.bypass_tx_fir = s.bypass_tx_fir /\ r.fastlock = s.fastlock
      /\ r.current_lo_freq = s.current_lo_freq
  BY DEF Blank, SameBoard, TunedFields
<1>4. r.reg = reg
  BY DEF Blank, TunedFields
<1> HIDE DEF r
<1>5. DOMAIN s.current_lo_freq = Radio!Sides => Built(r)
  BY <1>2, <1>3, <1>4 DEF Blank, Built
<1> QED BY <1>1, <1>2, <1>3, <1>4, <1>5

LEMMA BlankCleared ==
  ASSUME NEW s, Blank(s)
  PROVE  /\ Blank(Radio!clear_state(s)) /\ SameBoard(s, Radio!clear_state(s))
         /\ Radio!clear_state(s).bypass_rx_fir /\ Radio!clear_state(s).bypass_tx_fir
         /\ Radio!clear_state(s).fastlock.current_profile.rx = 0
         /\ DOMAIN Radio!clear_state(s).current_lo_freq = Radio!Sides
         /\ Radio!clear_state(s).reg = s.reg
<1> DEFINE none == Radio!NoFastlock
           table == Radio!NO_GAIN_TABLE
           tracks == {"bbdc", "rfdc", "quad"}
           freq == [rx |-> 0, tx |-> 0]
           off == [rx |-> FALSE, tx |-> FALSE]
           c == [s EXCEPT
             !.current_table = table, !.bypass_rx_fir = TRUE, !.bypass_tx_fir = TRUE,
             !.rate_governor = 1, !.tracks = tracks,
             !.prev_ensm_state = "SLEEP_WAIT", !.curr_ensm_state = "SLEEP_WAIT",
             !.auto_cal_en = FALSE, !.manual_tx_quad_cal_en = FALSE, !.last_tx_quad_cal_freq = 0,
             !.current_rx_bw = 0, !.current_tx_bw = 0,
             !.tx_fir_int = 0, !.tx_fir_ntaps = 0, !.rx_fir_dec = 0, !.rx_fir_ntaps = 0,
             !.ensm_pin_ctl_en = FALSE, !.current_lo_freq = freq,
             !.current_use_tdd_table = off, !.lo_off = off, !.fastlock = none]
<1>1. none.current_profile.rx = 0 /\ DOMAIN freq = Radio!Sides
  BY DEF Radio!NoFastlock, Radio!Sides
<1>2. Radio!clear_state(s) = c
  BY Zenon DEF Radio!clear_state
<1> HIDE DEF none, table, tracks, freq, off
<1>3. c.bypass_rx_fir /\ c.bypass_tx_fir /\ c.fastlock = none /\ c.current_lo_freq = freq
  BY DEF Blank, TunedFields
<1>4. /\ SameBoard(s, c) /\ c.reg = s.reg /\ DOMAIN c = DOMAIN s /\ c.clks = s.clks
      /\ c.use_ext_lo = s.use_ext_lo /\ c.hdl_dac_version = s.hdl_dac_version
      /\ c.rf_rx_input_sel = s.rf_rx_input_sel
  <2>1. DOMAIN c = DOMAIN s
    BY ZenonT(40)
  <2>2. c.chip = s.chip /\ c.port_delay = s.port_delay /\ c.rx_synth_freq = s.rx_synth_freq
    BY DEF Blank, TunedFields
  <2>3. c.dev_sel = s.dev_sel /\ c.dig_interface_tune_skipmode = s.dig_interface_tune_skipmode
    BY DEF Blank, TunedFields
  <2>4. c.reg = s.reg /\ c.clks = s.clks /\ c.use_ext_lo = s.use_ext_lo
    BY DEF Blank, TunedFields
  <2>5. c.hdl_dac_version = s.hdl_dac_version /\ c.rf_rx_input_sel = s.rf_rx_input_sel
    BY DEF Blank, TunedFields
  <2> HIDE DEF c
  <2> QED BY <2>1, <2>2, <2>3, <2>4, <2>5 DEF SameBoard
<1> HIDE DEF c
<1>5. Blank(c)
  BY <1>4 DEF Blank, SameBoard
<1> QED BY <1>1, <1>2, <1>3, <1>4, <1>5

\* A radio that begins again, before the clocks are known, and after.
Begun(s) ==
  /\ Built(s) /\ s.bypass_rx_fir /\ s.bypass_tx_fir
  /\ s.reg.SYNTH.rx = [vco |-> 0, div |-> 0] /\ s.fastlock.current_profile.rx = 0

LEMMA BegunKnown ==
  ASSUME NEW s, Begun(s)
  PROVE  /\ Keeps({"bypass", "delays"}, s, Radio!Recalc(s))
         /\ Begun(Radio!Recalc(s)) /\ LoUnset(Radio!Recalc(s)) /\ SameBoard(s, Radio!Recalc(s))
<1> DEFINE u == Radio!Recalc(s)
           P == {"bypass", "delays"}
<1>1. Built(s) /\ {"clks", "lo_clk"} \subseteq DOMAIN s /\ "use_ext_lo" \in DOMAIN s
      /\ "reg" \in DOMAIN s /\ "fastlock" \in DOMAIN s
  BY DEF Begun, Built, TunedFields
<1>2. Only({"clks", "lo_clk"}, s, u)
  BY <1>1, RecalcOnly
<1>3. LoUnset(u)
  BY <1>1, RecalcQuiet DEF NoWords, Begun
<1>4. "bypass" \in P /\ "delays" \in P
  OBVIOUS
<1> HIDE DEF P
<1>5. Keeps(P, s, u)
  BY <1>1, <1>4, RecalcKeeps, KeepsFacts
<1>6. u.reg = s.reg /\ u.fastlock = s.fastlock
  BY <1>1, <1>2 DEF Only
<1> HIDE DEF u
<1>7. SameBoard(s, u) /\ u.bypass_rx_fir = s.bypass_rx_fir /\ u.bypass_tx_fir = s.bypass_tx_fir
      /\ Built(u)
  BY <1>4, <1>5 DEF Keeps, SameBoard
<1> QED BY <1>3, <1>5, <1>6, <1>7 DEF Begun, P, u

\* Set up from there, the radio has the gain table of its LO, and the delays it was to
\* have, or found, arrive.
LEMMA BegunSetUp ==
  ASSUME NEW s, Built(s), s.bypass_rx_fir, s.bypass_tx_fir, LoUnset(s)
  PROVE  /\ Built(Radio!setup(s)) /\ Radio!setup(s).chip = s.chip
         /\ Radio!setup(s).rx_synth_freq = s.rx_synth_freq /\ Radio!setup(s).dev_sel = s.dev_sel
         /\ Radio!setup(s).dig_interface_tune_skipmode = s.dig_interface_tune_skipmode
         /\ Radio!Ok(Radio!setup(s)) /\ Radio!validate_rfpll(s, FALSE, s.rx_synth_freq)
              => Tabled(Radio!setup(s))
         /\ Radio!Ok(Radio!setup(s)) /\ Arriving(s, s.port_delay) => Eyed(Radio!setup(s))
<1>1. Keeps({}, s, Radio!setup(s))
  BY SetUp
<1>2. /\ Built(Radio!setup(s)) /\ Radio!setup(s).chip = s.chip
      /\ Radio!setup(s).rx_synth_freq = s.rx_synth_freq /\ Radio!setup(s).dev_sel = s.dev_sel
      /\ Radio!setup(s).dig_interface_tune_skipmode = s.dig_interface_tune_skipmode
  BY <1>1 DEF Keeps
<1> QED BY <1>2, SetUp

-----------------------------------------------------------------------------
(* The calls that are about the rates, and the setup that follows a setup *)

LEMMA RatedKeeps ==
  ASSUME NEW P, NEW s, NEW t, Keeps(P, s, t), P \cap Changed = {}, NEW x, NEW y
  PROVE  /\ Keeps(P, s, Radio!set_rx_rf_bandwidth(t, x))
         /\ Keeps(P, s, Radio!set_tx_rf_bandwidth(t, x))
         /\ Keeps(P, s, Radio!set_rx_sampling_freq(t, x))
         /\ Keeps(P, s, Radio!set_trx_path_clks(t, x, y))
<1>0. "delays" \notin P
  BY DEF Changed
<1>1. \A u, rx, tx : Keeps(P, s, u) => /\ Keeps(P, s, Radio!update_rf_bandwidth(u, rx, tx))
                                       /\ Keeps(P, s, Radio!set_trx_clock_chain(u, rx, tx))
  BY <1>0, UpdateKeeps, ChainKeeps
<1>2. \A rc : Keeps(P, s, Radio!Result(t, rc))
  BY ResultKeeps
<1>3. \A rx, tx : Keeps(P, s, Radio!SameWidths(Radio!set_trx_clock_chain(t, rx, tx)))
  BY <1>1, Zenon DEF Radio!SameWidths
<1>4. Keeps(P, s, Radio!set_rx_sampling_freq(t, x))
  <2> DEFINE chain == Radio!calculate_rf_clock_chain(t, x, t.rate_governor)
  <2>1. Radio!set_rx_sampling_freq(t, x) =
          IF chain.rc # "ok" THEN Radio!Result(t, "EINVAL")
          ELSE Radio!SameWidths(Radio!set_trx_clock_chain(t, chain.rx, chain.tx))
    BY Zenon DEF Radio!set_rx_sampling_freq, Radio!SampledAt
  <2> HIDE DEF chain
  <2> QED BY <1>2, <1>3, <2>1, Zenon
<1>5. Keeps(P, s, Radio!set_rx_rf_bandwidth(t, x)) /\ Keeps(P, s, Radio!set_tx_rf_bandwidth(t, x))
  BY <1>1, <1>2, Zenon DEF Radio!set_rx_rf_bandwidth, Radio!set_tx_rf_bandwidth, Radio!RxWidth,
                           Radio!TxWidth
<1>6. Keeps(P, s, Radio!set_trx_path_clks(t, x, y))
  BY <1>1, <1>3, ResultKeeps, Zenon DEF Radio!set_trx_path_clks, Radio!ThenWidths
<1> QED BY <1>4, <1>5, <1>6

\* After a setup the interface is tuned, and that finds delays if there are any to be found.
LEMMA PostTuned ==
  ASSUME NEW s, Built(s)
  PROVE  /\ Keeps({}, s, Radio!post_setup(s))
         /\ Tabled(s) => Tabled(Radio!post_setup(s))
         /\ Eyed(s) => Eyed(Radio!post_setup(s))
         /\ Radio!Ok(Radio!post_setup(s)) /\ s.dig_interface_tune_skipmode = 0 /\ Open(s)
              => Eyed(Radio!post_setup(s))
<1> DEFINE swept == s.core_id = 0
           one == ~s.rx2tx2
           r1 == [s EXCEPT !.reg.R1_MODE = one]
           tuned == Radio!dig_tune(r1, swept, FALSE, FALSE)
           chain == Radio!set_trx_clock_chain(tuned, tuned.rx_path_clks, tuned.tx_path_clks)
           alert == Radio!ensm_force_state(chain, "ALERT")
           back == Radio!ensm_restore_prev_state(alert)
           through == Radio!Result(back, chain.rc)
           post == Radio!IfOk(tuned, through)
<1>1. Radio!post_setup(s) = post
  BY Zenon DEF Radio!post_setup, Radio!PostChain, Radio!PostTuning, Radio!ThroughAlert,
               post, through, back, alert, chain, tuned, r1, one, swept
<1> HIDE DEF swept, one
<1>2. ASSUME NEW P, NEW z, Keeps(P, z, s) PROVE Keeps(P, z, r1)
  BY <1>2, NotesKeep, Zenon
<1>3. r1.chip = s.chip /\ r1.dig_interface_tune_skipmode = s.dig_interface_tune_skipmode
      /\ Built(r1) /\ Keeps({"eyed"}, s, r1)
  <2>1. Keeps({"eyed"}, s, s)
    BY KeepsFacts
  <2>2. Keeps({"eyed"}, s, r1)
    BY <1>2, <2>1
  <2> HIDE DEF r1
  <2> QED BY <2>2 DEF Keeps
<1> HIDE DEF r1
<1>4. "delays" \notin Gains /\ "eyed" \notin Gains
  BY DEF Gains
<1>5. Keeps(Gains, s, r1)
  <2>1. Keeps(Gains, s, s)
    BY KeepsFacts
  <2> QED BY <1>2, <2>1
<1>6. /\ Keeps(Gains, s, tuned)
      /\ Eyed(r1) => Eyed(tuned)
      /\ Radio!Ok(tuned) /\ r1.dig_interface_tune_skipmode = 0 /\ Open(r1) => Eyed(tuned)
  BY <1>4, <1>5, DigTuned
<1> HIDE DEF tuned
<1>7. ASSUME NEW P, "delays" \notin P, NEW z, Keeps(P, z, tuned)
      PROVE  Keeps(P, z, post)
  <2>1. Keeps(P, z, chain)
    BY <1>7, ChainKeeps
  <2> HIDE DEF chain
  <2>2. Keeps(P, z, alert)
    BY <2>1, ForceKeeps
  <2> HIDE DEF alert
  <2>3. Keeps(P, z, back)
    BY <2>2, RestoreKeeps
  <2> HIDE DEF back
  <2>4. Keeps(P, z, through)
    BY <2>3, ResultKeeps
  <2> HIDE DEF through
  <2> QED BY <1>7, <2>4, ResultKeeps
<1>8. Keeps(Gains, s, post)
  BY <1>4, <1>6, <1>7
<1>9. Keeps({"eyed"}, tuned, post)
  <2>1. Keeps({"eyed"}, tuned, tuned)
    BY <1>6, KeepsFacts
  <2> DEFINE E == {"eyed"}
  <2>2. "delays" \notin E
    OBVIOUS
  <2> HIDE DEF E
  <2> QED BY <1>7, <2>1, <2>2 DEF E
<1>10. Radio!Ok(post) => Radio!Ok(tuned)
  BY IfOkFacts
<1> HIDE DEF post
<1>11. Eyed(tuned) => Eyed(post)
  BY <1>9 DEF Keeps
<1>12. Eyed(s) => Eyed(r1)
  BY <1>3 DEF Keeps
<1>13. Open(s) => Open(r1)
  BY <1>3 DEF Open
<1>14. Keeps({}, s, post)
  BY <1>8, KeepsFacts
<1>15. Tabled(s) => Tabled(post)
  BY <1>8, TableWays
<1> QED BY <1>1, <1>3, <1>6, <1>10, <1>11, <1>12, <1>13, <1>14, <1>15, Zenon

\* What the application has asked for is an LO that the receiver has, and the interface
\* has an eye.
Asked(s) == Radio!validate_rfpll(s, FALSE, s.rx_synth_freq) /\ "eye" \in DOMAIN s.chip

\* What a call that is not about the LO of the receiver holds on to.
Held == Gains \cup {"eyed"}

LEMMA HeldWays ==
  /\ Held \cap Changed = {}
  /\ Held \cap {"quiet", "delays"} = {}
  /\ \A s, t : Keeps(Held, s, t) =>
       /\ Built(t) /\ (Asked(s) <=> Asked(t))
       /\ (Tabled(s) => Tabled(t)) /\ (Eyed(s) => Eyed(t))
<1>1. /\ Held \cap Changed = {}
      /\ Held \cap {"quiet", "delays"} = {}
      /\ Gains \subseteq Held /\ "eyed" \in Held
  BY DEF Held, Gains, Changed
<1>2. ASSUME NEW s, NEW t, Keeps(Held, s, t)
      PROVE  /\ Built(t) /\ (Asked(s) <=> Asked(t))
             /\ (Tabled(s) => Tabled(t)) /\ (Eyed(s) => Eyed(t))
  <2>1. Built(t) /\ t.dev_sel = s.dev_sel /\ t.rx_synth_freq = s.rx_synth_freq
        /\ t.chip = s.chip /\ (Eyed(s) => Eyed(t))
    BY <1>1, <1>2 DEF Keeps
  <2>2. Asked(s) <=> Asked(t)
    BY <2>1, AskedWays DEF Asked
  <2>3. Tabled(s) => Tabled(t)
    BY <1>1, <1>2, TableWays
  <2> QED BY <2>1, <2>2, <2>3
<1> QED BY <1>1, <1>2

LEMMA SameAskedFor ==
  ASSUME NEW s, NEW t, t.dev_sel = s.dev_sel, t.rx_synth_freq = s.rx_synth_freq,
         t.chip = s.chip
  PROVE  Asked(s) <=> Asked(t)
  BY AskedWays DEF Asked

\* A setup of a radio that begins, and what follows it.
LEMMA AnewTuned ==
  ASSUME NEW s, Built(s), s.bypass_rx_fir, s.bypass_tx_fir, LoUnset(s), NEW adc,
         Keeps(Held, Radio!setup(s), adc)
  PROVE  /\ Built(Radio!post_setup(adc)) /\ (Asked(s) <=> Asked(Radio!post_setup(adc)))
         /\ Radio!Ok(Radio!setup(s)) /\ Asked(s) => Tabled(Radio!post_setup(adc))
         /\ Radio!Ok(Radio!setup(s)) /\ Arriving(s, s.port_delay) => Eyed(Radio!post_setup(adc))
         /\ Radio!Ok(Radio!post_setup(adc)) /\ s.dig_interface_tune_skipmode = 0 /\ Open(s)
              => Eyed(Radio!post_setup(adc))
<1> DEFINE set == Radio!setup(s)
           post == Radio!post_setup(adc)
<1>1. /\ Built(set) /\ set.chip = s.chip
      /\ set.rx_synth_freq = s.rx_synth_freq /\ set.dev_sel = s.dev_sel
      /\ set.dig_interface_tune_skipmode = s.dig_interface_tune_skipmode
      /\ Radio!Ok(set) /\ Asked(s) => Tabled(set)
      /\ Radio!Ok(set) /\ Arriving(s, s.port_delay) => Eyed(set)
  BY BegunSetUp DEF Asked
<1> HIDE DEF set
<1>2. /\ Built(adc) /\ (Tabled(set) => Tabled(adc)) /\ (Eyed(set) => Eyed(adc))
      /\ (Asked(set) <=> Asked(adc))
  BY HeldWays DEF set
<1>3. adc.chip = set.chip /\ adc.dig_interface_tune_skipmode = set.dig_interface_tune_skipmode
  BY DEF set, Keeps
<1>4. /\ Keeps({}, adc, post) /\ (Tabled(adc) => Tabled(post)) /\ (Eyed(adc) => Eyed(post))
      /\ Radio!Ok(post) /\ adc.dig_interface_tune_skipmode = 0 /\ Open(adc) => Eyed(post)
  BY <1>2, PostTuned
<1> HIDE DEF post
<1>5. Built(post) /\ post.dev_sel = adc.dev_sel /\ post.rx_synth_freq = adc.rx_synth_freq
      /\ post.chip = adc.chip
  BY <1>4 DEF Keeps
<1>6. Asked(s) <=> Asked(post)
  BY <1>1, <1>2, <1>5, SameAskedFor
<1>7. Open(s) <=> Open(adc)
  BY <1>1, <1>3 DEF Open
<1> QED BY <1>1, <1>2, <1>3, <1>4, <1>5, <1>6, <1>7 DEF set, post

\* After a change of the number of channels.
LEMMA NoChTuned ==
  ASSUME NEW s, Built(s), NEW mode
  PROVE  /\ Built(Radio!set_no_ch_mode(s, mode))
         /\ Asked(s) <=> Asked(Radio!set_no_ch_mode(s, mode))
         /\ Radio!Ok(Radio!set_no_ch_mode(s, mode)) /\ Radio!Ok(Radio!SetUpAnew(s, mode))
              => /\ Asked(s) => Tabled(Radio!set_no_ch_mode(s, mode))
                 /\ Eyed(s) => Eyed(Radio!set_no_ch_mode(s, mode))
<1> DEFINE two == mode = 2
           chosen == [s EXCEPT !.rx2tx2 = two]
           fresh == Radio!reset(chosen)
           clear == Radio!clear_state(fresh)
           known == Radio!Recalc(clear)
           anew == Radio!setup(known)
           post == Radio!post_setup(anew)
           end == Radio!Result(post, "ok")
           refused == Radio!Result(s, "EINVAL")
           t == Radio!set_no_ch_mode(s, mode)
<1>1. Radio!SetUpAnew(s, mode) = anew
  BY Zenon DEF Radio!SetUpAnew
<1>2. t = IF mode \notin {1, 2} THEN refused ELSE end
  BY <1>1, Zenon DEF Radio!set_no_ch_mode
<1> HIDE DEF two
<1>3. Blank(chosen) /\ SameBoard(s, chosen)
  BY DEF Built, Blank, SameBoard, TunedFields
<1> HIDE DEF chosen
<1>4. /\ Blank(fresh) /\ SameBoard(chosen, fresh) /\ fresh.reg.SYNTH.rx = [vco |-> 0, div |-> 0]
      /\ TunedRegisters \subseteq DOMAIN fresh.reg
      /\ DOMAIN fresh.reg.DELAY = Radio!Sides
  <2>1. DOMAIN chosen.current_lo_freq = Radio!Sides
    BY DEF chosen, Built, TunedFields
  <2>2. Built(fresh)
    BY <1>3, <2>1, BlankReset
  <2>3. /\ Blank(fresh) /\ SameBoard(chosen, fresh)
        /\ fresh.reg.SYNTH.rx = [vco |-> 0, div |-> 0]
    BY <1>3, BlankReset
  <2> HIDE DEF fresh
  <2> QED BY <2>2, <2>3 DEF Built
<1> HIDE DEF fresh
<1>5. /\ Blank(clear) /\ SameBoard(fresh, clear) /\ clear.bypass_rx_fir /\ clear.bypass_tx_fir
      /\ clear.fastlock.current_profile.rx = 0 /\ DOMAIN clear.current_lo_freq = Radio!Sides
      /\ clear.reg = fresh.reg
  BY <1>4, BlankCleared
<1> HIDE DEF clear
<1>6. Begun(clear)
  BY <1>4, <1>5 DEF Begun, Built, Blank
<1>7. Begun(known) /\ LoUnset(known) /\ SameBoard(clear, known)
  BY <1>6, BegunKnown
<1> HIDE DEF known
<1>8. SameBoard(s, known)
  BY <1>3, <1>4, <1>5, <1>7 DEF SameBoard
<1>9. Keeps(Held, anew, anew)
  BY <1>7, BegunSetUp, KeepsFacts DEF Begun
<1>10. /\ Built(post) /\ (Asked(known) <=> Asked(post))
       /\ Radio!Ok(anew) /\ Asked(known) => Tabled(post)
       /\ Radio!Ok(anew) /\ Arriving(known, known.port_delay) => Eyed(post)
  BY <1>7, <1>9, AnewTuned DEF Begun
<1>11. Asked(s) <=> Asked(known)
  BY <1>8, SameAskedFor DEF SameBoard
<1>12. Eyed(s) => Arriving(known, known.port_delay)
  <2>1. known.chip = s.chip /\ known.port_delay = s.port_delay
    BY <1>8 DEF SameBoard
  <2> QED BY <2>1, EyedWays, Zenon
<1> HIDE DEF anew, post
<1>13. Keeps(Held, post, end)
  BY <1>10, KeepsFacts, ResultKeeps
<1>14. Keeps(Held, s, refused) /\ ~Radio!Ok(refused)
  <2>1. Keeps(Held, s, refused)
    BY KeepsFacts, ResultKeeps
  <2> QED BY <2>1 DEF Radio!Ok, Radio!Result, Built, TunedFields
<1> HIDE DEF end, refused
<1>15. CASE mode \in {1, 2}
  <2>1. t = end
    BY <1>2, <1>15
  <2>2. Built(end) /\ (Asked(s) <=> Asked(end)) /\ (Tabled(post) => Tabled(end))
        /\ (Eyed(post) => Eyed(end))
    BY <1>10, <1>11, <1>13, HeldWays
  <2> QED BY <1>1, <1>10, <1>11, <1>12, <2>1, <2>2, Zenon
<1>16. CASE mode \notin {1, 2}
  <2>1. t = refused
    BY <1>2, <1>16
  <2>2. Built(refused) /\ (Asked(s) <=> Asked(refused))
    BY <1>14, HeldWays
  <2> QED BY <1>14, <2>1, <2>2, Zenon
<1> QED BY <1>15, <1>16

\* What an application asks of a board for it to be in tune.
Askable(b) ==
  /\ Blank(b) /\ Asked(b)
  /\ Arriving(b, b.port_delay) \/ (b.dig_interface_tune_skipmode = 0 /\ Open(b))

\* A radio in tune, as far as the gain table and the delays go.
InTune(s) == Built(s) /\ Asked(s) /\ Tabled(s) /\ Eyed(s)

LEMMA BlankFresh ==
  ASSUME NEW b, Blank(b)
  PROVE  /\ Blank(Radio!Fresh(b)) /\ SameBoard(b, Radio!Fresh(b))
         /\ Radio!Fresh(b).bypass_rx_fir /\ Radio!Fresh(b).bypass_tx_fir
         /\ Radio!Fresh(b).fastlock.current_profile.rx = 0
         /\ DOMAIN Radio!Fresh(b).current_lo_freq = Radio!Sides
<1> DEFINE off == [side \in Radio!Sides |-> FALSE]
           small == [b EXCEPT !.use_ext_lo = off, !.use_extclk = TRUE]
           one == [b EXCEPT !.rx2tx2 = FALSE, !.rx1tx1_mode_use_rx_num = 1,
                            !.rx1tx1_mode_use_tx_num = 1]
           wanted == Radio!Wanted(b)
           clear == Radio!clear_state(wanted)
           none == Radio!BistOff
           end == [clear EXCEPT !.bist_loopback_mode = 0, !.bist_prbs_mode = "off",
                                !.bist_tone_mode = "off", !.bist_tone_freq = 0,
                                !.bist_config = none]
<1>1. wanted \in {small, one, b}
  BY DEF Radio!Wanted
<1>2. DOMAIN off = Radio!Sides
  OBVIOUS
<1> HIDE DEF off
<1>3. Blank(small) /\ SameBoard(b, small)
  BY <1>2 DEF Blank, SameBoard, TunedFields
<1>4. Blank(one) /\ SameBoard(b, one)
  BY DEF Blank, SameBoard, TunedFields
<1> HIDE DEF small, one
<1>5. Radio!Fresh(b) = end
  BY Zenon DEF Radio!Fresh
<1> HIDE DEF wanted
<1>6. Blank(wanted) /\ SameBoard(b, wanted)
  BY <1>1, <1>3, <1>4 DEF SameBoard
<1>7. /\ Blank(clear) /\ SameBoard(wanted, clear) /\ clear.bypass_rx_fir /\ clear.bypass_tx_fir
      /\ clear.fastlock.current_profile.rx = 0 /\ DOMAIN clear.current_lo_freq = Radio!Sides
  BY <1>6, BlankCleared
<1> HIDE DEF clear, none
<1>8. /\ Blank(end) /\ SameBoard(clear, end) /\ end.bypass_rx_fir /\ end.bypass_tx_fir
      /\ end.fastlock = clear.fastlock /\ end.current_lo_freq = clear.current_lo_freq
  BY <1>7 DEF Blank, SameBoard, TunedFields
<1> HIDE DEF end
<1> QED BY <1>5, <1>6, <1>7, <1>8 DEF SameBoard

LEMMA InitTuned ==
  ASSUME NEW b, Askable(b), Radio!Ok(Radio!init(b, TRUE))
  PROVE  InTune(Radio!init(b, TRUE))
<1> DEFINE fresh == Radio!Fresh(b)
           rst == Radio!reset(fresh)
           claimed == [rst EXCEPT !.blocks = Radio!Allocated]
           dummy == [rx |-> claimed.rx_synth_freq, tx |-> claimed.tx_synth_freq]
           noted == [claimed EXCEPT !.lo_dummy = dummy]
           recalc == Radio!Recalc(noted)
           known == [recalc EXCEPT !.registered = TRUE, !.rc = "ok"]
           set == Radio!setup(known)
           blocks == set.blocks \cup {"clks"}
           ready == [set EXCEPT !.blocks = blocks]
           more == ready.blocks \cup {"rx_adc"}
           adc == [ready EXCEPT !.blocks = more]
           post == Radio!post_setup(adc)
           then == Radio!ThenAdc(ready)
           given == Radio!GivenUp(then)
<1>1. Radio!init(b, TRUE) = IF Radio!Ok(then) THEN then ELSE given
  BY Zenon DEF Radio!init, Radio!OrGivenUp, Radio!Ready, Radio!register_clocks
<1>2. then = Radio!IfOk(ready, post)
  BY Zenon DEF Radio!ThenAdc
<1>3. /\ Blank(fresh) /\ SameBoard(b, fresh)
      /\ fresh.bypass_rx_fir /\ fresh.bypass_tx_fir
      /\ fresh.fastlock.current_profile.rx = 0 /\ DOMAIN fresh.current_lo_freq = Radio!Sides
  BY BlankFresh DEF Askable
<1> HIDE DEF fresh
<1>4. Begun(rst) /\ SameBoard(fresh, rst)
  <2>1. /\ Blank(rst) /\ SameBoard(fresh, rst) /\ rst.reg.SYNTH.rx = [vco |-> 0, div |-> 0]
        /\ rst.bypass_rx_fir = fresh.bypass_rx_fir /\ rst.bypass_tx_fir = fresh.bypass_tx_fir
        /\ rst.fastlock = fresh.fastlock /\ Built(rst)
    BY <1>3, BlankReset
  <2> HIDE DEF rst
  <2> QED BY <1>3, <2>1 DEF Begun
<1> HIDE DEF rst
<1>5. Begun(claimed) /\ SameBoard(rst, claimed)
  BY <1>4 DEF Begun, Built, SameBoard, TunedFields, TunedRegisters
<1> HIDE DEF claimed, dummy
<1>6. Begun(noted) /\ SameBoard(claimed, noted)
  BY <1>5 DEF Begun, Built, SameBoard, TunedFields, TunedRegisters
<1> HIDE DEF noted
<1>7. Begun(recalc) /\ LoUnset(recalc) /\ SameBoard(noted, recalc)
  BY <1>6, BegunKnown
<1> HIDE DEF recalc
<1>8. Built(known) /\ known.bypass_rx_fir /\ known.bypass_tx_fir /\ LoUnset(known)
      /\ SameBoard(recalc, known)
  <2>1. Built(known) /\ known.bypass_rx_fir /\ known.bypass_tx_fir /\ SameBoard(recalc, known)
    BY <1>7 DEF Begun, Built, SameBoard, TunedFields, TunedRegisters
  <2>2. LoUnset(known)
    BY <1>7 DEF LoUnset, Begun, Built, TunedFields
  <2> QED BY <2>1, <2>2
<1> HIDE DEF known
<1>9. SameBoard(b, known)
  BY <1>3, <1>4, <1>5, <1>6, <1>7, <1>8 DEF SameBoard
<1>10. Keeps(Held, set, set) /\ "rc" \in DOMAIN set
  BY <1>8, BegunSetUp, KeepsFacts DEF Built, TunedFields
<1> HIDE DEF set, blocks
<1>11. Keeps(Held, set, ready) /\ ready.rc = set.rc
  <2>1. Keeps(Held, set, ready)
    BY <1>10, BlocksKeep, Zenon
  <2>2. ready.rc = set.rc
    BY <1>10
  <2> QED BY <2>1, <2>2
<1> HIDE DEF ready, more
<1>12. Keeps(Held, set, adc)
  BY <1>11, BlocksKeep, Zenon
<1> HIDE DEF adc
<1>13. /\ Built(post) /\ (Asked(known) <=> Asked(post))
       /\ Radio!Ok(set) /\ Asked(known) => Tabled(post)
       /\ Radio!Ok(set) /\ Arriving(known, known.port_delay) => Eyed(post)
       /\ Radio!Ok(post) /\ known.dig_interface_tune_skipmode = 0 /\ Open(known) => Eyed(post)
  BY <1>8, <1>12, AnewTuned DEF set
<1> HIDE DEF post
<1>14. ~Radio!Ok(given)
  <2> DEFINE off == [then EXCEPT !.registered = FALSE, !.rc = "ok"]
             left == then.blocks \cap {"gpio", "spi", "rx_adc"}
             end == [off EXCEPT !.blocks = left, !.rc = "ENODEV"]
  <2>1. given = end
    BY Zenon DEF Radio!GivenUp, Radio!unregister_clocks
  <2>2. "rc" \in DOMAIN then
    <3>1. Built(ready)
      BY <1>11, KeepsFacts
    <3>2. Built(then)
      BY <1>2, <1>13, <3>1, Zenon DEF Radio!IfOk
    <3> HIDE DEF then
    <3> QED BY <3>2 DEF Built, TunedFields
  <2> HIDE DEF then, left
  <2>3. "rc" \in DOMAIN off
    BY <2>2
  <2> HIDE DEF off
  <2> QED BY <2>1, <2>3 DEF Radio!Ok
<1> HIDE DEF given, then
<1>15. Radio!init(b, TRUE) = then /\ Radio!Ok(then)
  <2>1. CASE Radio!Ok(then)
    BY <1>1, <2>1, Zenon
  <2>2. CASE ~Radio!Ok(then)
    BY <1>1, <1>14, <2>2, Zenon
  <2> QED BY <2>1, <2>2, Zenon
<1>16. Radio!Ok(ready) /\ Radio!Ok(post) /\ then = post
  BY <1>2, <1>15, IfOkFacts
<1>17. Radio!Ok(set)
  BY <1>11, <1>16 DEF Radio!Ok
<1>18. Asked(known)
  BY <1>9, SameAskedFor DEF Askable, SameBoard
<1>19. Arriving(known, known.port_delay) \/ (known.dig_interface_tune_skipmode = 0 /\ Open(known))
  <2>1. known.chip = b.chip /\ known.port_delay = b.port_delay
        /\ known.dig_interface_tune_skipmode = b.dig_interface_tune_skipmode
    BY <1>9 DEF SameBoard
  <2>2. Arriving(b, b.port_delay) => Arriving(known, known.port_delay)
    BY <2>1, EyedWays, Zenon
  <2>3. Open(b) => Open(known)
    BY <2>1 DEF Open
  <2> QED BY <2>1, <2>2, <2>3 DEF Askable
<1> QED BY <1>13, <1>15, <1>16, <1>17, <1>18, <1>19, Zenon DEF InTune

LEMMA RadioTuned ==
  ASSUME NEW s, InTune(s)
  PROVE  InTune(Radio!radio_setup(s))
<1> DEFINE rx == Radio!set_rx_fir_en_dis(s, FALSE)
           tx == Radio!set_tx_fir_en_dis(rx, FALSE)
           rate == Radio!set_rx_sampling_freq(tx, Radio!RF_SAMPLE_RATE)
           one == Radio!set_rx_rf_bandwidth(rate, Radio!RF_BW)
           both == Radio!set_tx_rf_bandwidth(one, Radio!RF_BW)
           mode == Radio!set_rx_gain_control_mode(both, 0, "MGC")
           gain == Radio!set_rx_rf_gain(mode, 0, Radio!RX_GAIN_DB)
           t == Radio!radio_setup(s)
<1>1. t = Radio!IfOk(rate, gain)
  BY Zenon DEF Radio!radio_setup, Radio!ManualGain, Radio!BothWidths, rx, tx, rate, one, both,
               mode, gain
<1>2. Held \cap Changed = {}
  BY HeldWays
<1>3. Keeps(Held, s, s)
  BY KeepsFacts DEF InTune
<1>4. Keeps(Held, s, rx)
  BY <1>2, <1>3, EnableFirKeeps DEF Radio!set_rx_fir_en_dis
<1> HIDE DEF rx
<1>5. Keeps(Held, s, tx)
  BY <1>2, <1>4, EnableFirKeeps DEF Radio!set_tx_fir_en_dis
<1> HIDE DEF tx
<1>6. Keeps(Held, s, rate)
  BY <1>2, <1>5, RatedKeeps
<1> HIDE DEF rate
<1>7. Keeps(Held, s, one)
  BY <1>2, <1>6, RatedKeeps
<1> HIDE DEF one
<1>8. Keeps(Held, s, both)
  BY <1>2, <1>7, RatedKeeps
<1> HIDE DEF both
<1>9. Keeps(Held, s, mode)
  BY <1>2, <1>8, GainModeKeeps
<1> HIDE DEF mode
<1>10. Keeps(Held, s, gain)
  BY <1>9, SmallKeeps
<1> HIDE DEF gain
<1>11. Keeps(Held, s, t)
  BY <1>1, <1>6, <1>10, ResultKeeps
<1> QED BY <1>11, HeldWays DEF InTune

-----------------------------------------------------------------------------
(* The calls of the application, one after the other *)

\* As long as every call has succeeded the radio is in tune.
Sounding(s) == Built(s) /\ Asked(s) /\ (calm => Tabled(s) /\ Eyed(s))
InTuneNow == Sounding(phy)

\* The chip may do something else during a call, and is quiet after it.
ButChip(s, t) ==
  /\ SameNotes(s, t) /\ SameRegisters(s, t)
  /\ t.split_gt = s.split_gt /\ t.dev_sel = s.dev_sel /\ t.rx_synth_freq = s.rx_synth_freq
  /\ "eye" \in DOMAIN t.chip /\ t.chip.eye = s.chip.eye

LEMMA ChipTuned ==
  ASSUME NEW s, Built(s), Asked(s), NEW t, ButChip(s, t)
  PROVE  Built(t) /\ Asked(t) /\ (Tabled(s) => Tabled(t)) /\ (Eyed(s) => Eyed(t))
<1>1. Built(t)
  BY DEF Built, ButChip, SameNotes, SameRegisters
<1>2. /\ t.dev_sel = s.dev_sel /\ t.rx_synth_freq = s.rx_synth_freq /\ t.chip.eye = s.chip.eye
      /\ t.use_ext_lo = s.use_ext_lo /\ t.current_table = s.current_table
      /\ t.current_lo_freq = s.current_lo_freq /\ t.split_gt = s.split_gt
      /\ t.reg.DELAY = s.reg.DELAY /\ t.port_delay = s.port_delay /\ "eye" \in DOMAIN t.chip
  BY DEF ButChip, SameNotes, SameRegisters
<1>3. Asked(t)
  BY <1>2, AskedWays DEF Asked
<1>4. ASSUME Tabled(s) PROVE Tabled(t)
  <2>1. ASSUME ~t.use_ext_lo.rx
        PROVE  t.current_table = Radio!gt_tableindex(t, t.current_lo_freq.rx)
    <3>1. s.current_table = Radio!gt_tableindex(s, s.current_lo_freq.rx)
      BY <1>2, <1>4, <2>1 DEF Tabled, Radio!TableFits
    <3>2. Radio!gt_tableindex(t, s.current_lo_freq.rx)
            = Radio!gt_tableindex(s, s.current_lo_freq.rx)
      <4>1. t.split_gt = s.split_gt
        BY <1>2
      <4> QED BY <4>1, IndexWays, Zenon
    <3> QED BY <1>2, <3>1, <3>2
  <2> QED BY <2>1 DEF Tabled, Radio!TableFits
<1>5. Eyed(s) => Eyed(t)
  BY <1>2, Zenon DEF Eyed, Both
<1> QED BY <1>1, <1>3, <1>4, <1>5

LEMMA QuietTuned ==
  ASSUME NEW s, Built(s), Asked(s)
  PROVE  LET t == [s EXCEPT !.chip = Radio!Quiet(s)] IN
         Built(t) /\ Asked(t) /\ (Tabled(s) => Tabled(t)) /\ (Eyed(s) => Eyed(t))
<1> DEFINE chip == Radio!Quiet(s)
           t == [s EXCEPT !.chip = chip]
<1>1. "eye" \in DOMAIN chip /\ chip.eye = s.chip.eye
  BY DEF Radio!Quiet, Asked
<1> HIDE DEF chip
<1>2. ButChip(s, t)
  BY <1>1 DEF ButChip, SameNotes, SameRegisters, Built, TunedFields
<1> HIDE DEF t
<1>3. Built(t) /\ Asked(t) /\ (Tabled(s) => Tabled(t)) /\ (Eyed(s) => Eyed(t))
  BY <1>2, ChipTuned
<1> QED BY <1>3 DEF t, chip

\* With what the chip does during a call.
LEMMA WithTuned ==
  ASSUME InTuneNow
  PROVE  /\ \A c : Sounding(Radio!With(c))
         /\ \A alc : Sounding([phy EXCEPT !.chip.alc = alc])
<1>1. Built(phy) /\ "eye" \in DOMAIN phy.chip
  BY DEF InTuneNow, Sounding, Asked
<1>2. ASSUME NEW t, ButChip(phy, t) PROVE Sounding(t)
  BY <1>2, ChipTuned DEF InTuneNow, Sounding
<1>3. ASSUME NEW c PROVE ButChip(phy, Radio!With(c))
  BY <1>1 DEF Radio!With, ButChip, SameNotes, SameRegisters, Built, TunedFields
<1>4. ASSUME NEW alc PROVE ButChip(phy, [phy EXCEPT !.chip.alc = alc])
  BY <1>1 DEF ButChip, SameNotes, SameRegisters, Built, TunedFields
<1> QED BY <1>2, <1>3, <1>4

\* After a call.
LEMMA CallTuned ==
  ASSUME NEW kind, NEW new, NEW fine, Radio!Recorded(kind, new, fine), Built(new), Asked(new),
         calm /\ Radio!Ok(new) /\ fine => Tabled(new) /\ Eyed(new)
  PROVE  InTuneNow'
<1> DEFINE t == [new EXCEPT !.chip = Radio!Quiet(new)]
<1>1. phy' = t /\ calm' = (calm /\ Radio!Ok(new) /\ fine)
  BY DEF Radio!Recorded
<1>2. Built(t) /\ Asked(t) /\ (Tabled(new) => Tabled(t)) /\ (Eyed(new) => Eyed(t))
  BY QuietTuned
<1> HIDE DEF t
<1>3. ASSUME calm' PROVE Tabled(phy') /\ Eyed(phy')
  <2>1. calm /\ Radio!Ok(new) /\ fine
    BY <1>1, <1>3, Zenon
  <2> QED BY <1>1, <1>2, <2>1, Zenon
<1>4. Built(phy') /\ Asked(phy')
  BY <1>1, <1>2, Zenon
<1> QED BY <1>3, <1>4, Zenon DEF InTuneNow, Sounding

\* A call that holds on to what is in tune, from the phy as it is or with what the chip
\* does during it.
LEMMA HeldTuned ==
  ASSUME NEW s, Sounding(s), NEW new, Keeps(Held, s, new), NEW kind
  PROVE  /\ \A fine : Radio!Recorded(kind, new, fine) => InTuneNow'
         /\ Radio!Answered(kind, new) => InTuneNow'
         /\ \A c : Radio!Returned(kind, c, new) => InTuneNow'
<1>1. Built(new) /\ Asked(new) /\ (calm => Tabled(new) /\ Eyed(new))
  BY HeldWays DEF Sounding
<1>2. \A fine : Radio!Recorded(kind, new, fine) => InTuneNow'
  BY <1>1, CallTuned
<1> QED BY <1>2 DEF Radio!Answered, Radio!Returned

\* The calls that hold on to what is in tune.
LEMMA SettingsTuned ==
  ASSUME InTuneNow
  PROVE  Radio!RateGovernor \/ Radio!LoPowerdown \/ Radio!CalibPowerdown \/ Radio!AutoCal
           \/ Radio!RxGain \/ Radio!TxAttenuation \/ Radio!Tracking \/ Radio!DcxoTune
           \/ Radio!RfPorts \/ Radio!Bist \/ Radio!FirConfig \/ Radio!ParseFir
           \/ Radio!GainControlMode \/ Radio!SetEnsmMode => InTuneNow'
<1>1. Sounding(phy) /\ Keeps(Held, phy, phy)
  BY HeldWays, KeepsFacts DEF InTuneNow, Sounding
<1>2. ASSUME NEW kind, NEW new, Radio!Answered(kind, new), Keeps(Held, phy, new)
      PROVE  InTuneNow'
  BY <1>1, <1>2, HeldTuned
<1>3. ASSUME NEW x, NEW y
      PROVE  /\ Keeps(Held, phy, Radio!set_trx_rate_gov(phy, x))
             /\ Keeps(Held, phy, Radio!set_tx_auto_cal_en_dis(phy, x))
             /\ Keeps(Held, phy, Radio!do_dcxo_tune(phy, x, y))
             /\ Keeps(Held, phy, Radio!set_track_en_dis(phy, x, y))
             /\ Keeps(Held, phy, Radio!lo_powerdown(phy, x, y))
             /\ Keeps(Held, phy, Radio!set_tx_attenuation(phy, x, y))
             /\ Keeps(Held, phy, Radio!set_rx_rf_gain(phy, x, y))
  BY <1>1, SmallKeeps
<1>4. ASSUME Radio!RateGovernor \/ Radio!LoPowerdown \/ Radio!CalibPowerdown \/ Radio!AutoCal
      PROVE  InTuneNow'
  BY <1>2, <1>3, <1>4
     DEF Radio!RateGovernor, Radio!LoPowerdown, Radio!CalibPowerdown, Radio!AutoCal
<1>5. ASSUME Radio!RxGain \/ Radio!TxAttenuation \/ Radio!Tracking \/ Radio!DcxoTune
      PROVE  InTuneNow'
  BY <1>2, <1>3, <1>5 DEF Radio!RxGain, Radio!TxAttenuation, Radio!Tracking, Radio!DcxoTune
<1>6. ASSUME Radio!RfPorts PROVE InTuneNow'
  BY <1>1, <1>2, <1>6, PortsKeep DEF Radio!RfPorts
<1>7. ASSUME Radio!Bist PROVE InTuneNow'
  <2>1. ASSUME NEW mode, NEW freq
        PROVE  /\ Keeps(Held, phy, Radio!bist_loopback(phy, mode))
               /\ Keeps(Held, phy, Radio!bist_prbs(phy, mode))
               /\ Keeps(Held, phy, Radio!bist_tone(phy, mode, freq))
    BY <1>1, TestKeeps
  <2> QED BY <1>2, <1>7, <2>1 DEF Radio!Bist
<1>8. ASSUME Radio!FirConfig PROVE InTuneNow'
  BY <1>1, <1>2, <1>8, FirConfigKeeps DEF Radio!FirConfig
<1>9. ASSUME Radio!ParseFir PROVE InTuneNow'
  <2>1. PICK file : Radio!Answered(<<"filter">>, Radio!parse_fir(phy, file))
    BY <1>9, SMT DEF Radio!ParseFir
  <2> QED BY <1>1, <1>2, <2>1, ParseKeeps
<1>10. ASSUME Radio!GainControlMode PROVE InTuneNow'
  BY <1>1, <1>2, <1>10, GainModeKeeps DEF Radio!GainControlMode
<1>11. ASSUME Radio!SetEnsmMode PROVE InTuneNow'
  BY <1>1, <1>2, <1>11, EnterKeeps DEF Radio!SetEnsmMode
<1> QED BY <1>4, <1>5, <1>6, <1>7, <1>8, <1>9, <1>10, <1>11

LEMMA RatesTuned ==
  ASSUME InTuneNow
  PROVE  Radio!RfBandwidth \/ Radio!SamplingFreq \/ Radio!PathClks \/ Radio!FirEnDis
           \/ Radio!LoadEnableFir \/ Radio!GainStepCalib \/ Radio!DoCalib => InTuneNow'
<1>1. Sounding(phy) /\ Keeps(Held, phy, phy) /\ Held \cap Changed = {}
  BY HeldWays, KeepsFacts DEF InTuneNow, Sounding
<1>2. ASSUME NEW c PROVE Sounding(Radio!With(c)) /\ Keeps(Held, Radio!With(c), Radio!With(c))
  BY WithTuned, KeepsFacts DEF Sounding
<1>3. ASSUME NEW kind, NEW new, Radio!Answered(kind, new), Keeps(Held, phy, new)
      PROVE  InTuneNow'
  BY <1>1, <1>3, HeldTuned
<1>4. ASSUME NEW kind, NEW c, NEW new, Radio!Returned(kind, c, new),
             Keeps(Held, Radio!With(c), new)
      PROVE  InTuneNow'
  BY <1>2, <1>4, HeldTuned
<1>5. ASSUME Radio!RfBandwidth PROVE InTuneNow'
  <2>1. ASSUME NEW c, NEW x
        PROVE  /\ Keeps(Held, Radio!With(c), Radio!set_rx_rf_bandwidth(Radio!With(c), x))
               /\ Keeps(Held, Radio!With(c), Radio!set_tx_rf_bandwidth(Radio!With(c), x))
    BY <1>1, <1>2, RatedKeeps
  <2> QED BY <1>4, <1>5, <2>1 DEF Radio!RfBandwidth
<1>6. ASSUME Radio!SamplingFreq PROVE InTuneNow'
  <2>1. PICK c, rate :
          Radio!Returned(<<"rate">>, c, Radio!set_tx_sampling_freq(Radio!With(c), rate))
    BY <1>6, SMT DEF Radio!SamplingFreq
  <2>2. Radio!set_tx_sampling_freq(Radio!With(c), rate)
          = Radio!set_rx_sampling_freq(Radio!With(c), rate)
    BY DEF Radio!set_tx_sampling_freq
  <2>3. Keeps(Held, Radio!With(c), Radio!set_rx_sampling_freq(Radio!With(c), rate))
    BY <1>1, <1>2, RatedKeeps
  <2> QED BY <1>4, <2>1, <2>2, <2>3, Zenon
<1>7. ASSUME Radio!PathClks PROVE InTuneNow'
  <2>1. PICK chain : Radio!Answered(<<"rate">>, Radio!set_trx_path_clks(phy, chain, chain))
    BY <1>7, SMT DEF Radio!PathClks
  <2>2. Keeps(Held, phy, Radio!set_trx_path_clks(phy, chain, chain))
    BY <1>1, RatedKeeps
  <2> QED BY <1>3, <2>1, <2>2
<1>8. ASSUME Radio!FirEnDis PROVE InTuneNow'
  <2>1. ASSUME NEW c, NEW sides, NEW enable
        PROVE  Keeps(Held, Radio!With(c), Radio!EnableFir(Radio!With(c), sides, enable))
    BY <1>1, <1>2, EnableFirKeeps
  <2> QED BY <1>4, <1>8, <2>1 DEF Radio!FirEnDis
<1>9. ASSUME Radio!LoadEnableFir PROVE InTuneNow'
  <2>1. PICK f : Radio!Answered(<<"tune">>, Radio!trx_load_enable_fir(phy, f, f))
    BY <1>9, SMT DEF Radio!LoadEnableFir
  <2>2. Keeps(Held, phy, Radio!trx_load_enable_fir(phy, f, f))
    BY <1>1, LoadEnableKeeps
  <2> QED BY <1>3, <2>1, <2>2
<1>10. ASSUME Radio!GainStepCalib PROVE InTuneNow'
  <2>1. ASSUME NEW c
        PROVE  Keeps(Held, Radio!With(c), Radio!rssi_gain_step_calib(Radio!With(c)))
    BY <1>1, <1>2, StepCalibKeeps
  <2> QED BY <1>4, <1>10, <2>1 DEF Radio!GainStepCalib
<1>11. ASSUME Radio!DoCalib PROVE InTuneNow'
  <2>1. PICK c, cal, arg :
          Radio!Returned(<<"calib">>, c, Radio!do_calib_run(Radio!With(c), cal, arg))
    BY <1>11 DEF Radio!DoCalib
  <2>2. Keeps(Held, Radio!With(c), Radio!do_calib_run(Radio!With(c), cal, arg))
    BY <1>1, <1>2, CalibKeeps
  <2> QED BY <1>4, <2>1, <2>2
<1> QED BY <1>5, <1>6, <1>7, <1>8, <1>9, <1>10, <1>11

LEMMA PinsTuned ==
  ASSUME InTuneNow, Radio!PinsMove
  PROVE  InTuneNow'
<1>1. PICK state : phy' = [phy EXCEPT !.reg.STATE = state]
  BY DEF Radio!PinsMove
<1>2. calm' = calm
  BY DEF Radio!PinsMove
<1> DEFINE t == [phy EXCEPT !.reg.STATE = state]
<1>3. ButChip(phy, t)
  BY DEF InTuneNow, Sounding, Asked, ButChip, SameNotes, SameRegisters, Built,
         TunedFields, TunedRegisters
<1> HIDE DEF t
<1>4. Built(t) /\ Asked(t) /\ (Tabled(phy) => Tabled(t)) /\ (Eyed(phy) => Eyed(t))
  BY <1>3, ChipTuned DEF InTuneNow, Sounding
<1>5. phy' = t
  BY <1>1 DEF t
<1>6. ASSUME calm' PROVE Tabled(phy') /\ Eyed(phy')
  BY <1>2, <1>4, <1>5, <1>6, Zenon DEF InTuneNow, Sounding
<1> QED BY <1>4, <1>5, <1>6, Zenon DEF InTuneNow, Sounding

\* The calls that set an LO.  With that of the receiver the gain table is set anew, with
\* that of the transmitter it stays.
LEMMA LoTuned ==
  ASSUME NEW s, Sounding(s), NEW side \in Radio!Sides, NEW freq,
         calm /\ side = "rx" => Radio!validate_rfpll(s, FALSE, freq)
  PROVE  /\ Built(Radio!clk_set_lo(s, side, freq)) /\ Asked(Radio!clk_set_lo(s, side, freq))
         /\ calm => Tabled(Radio!clk_set_lo(s, side, freq)) /\ Eyed(Radio!clk_set_lo(s, side, freq))
<1>1. Built(s) /\ Asked(s) /\ (calm => Tabled(s) /\ Eyed(s))
  BY DEF Sounding
<1>2. "quiet" \notin {"eyed"} /\ {"lo", "table"} \cap {"eyed"} = {}
  OBVIOUS
<1> DEFINE t == Radio!clk_set_lo(s, side, freq)
<1>3. Keeps({"eyed"}, s, t)
  BY <1>1, <1>2, LoKeeps, KeepsFacts
<1>4. CASE side = "rx"
  <2>1. calm => Tabled(t)
    BY <1>1, <1>4, LoTable
  <2> HIDE DEF t
  <2>2. /\ Built(t) /\ (Eyed(s) => Eyed(t))
        /\ t.dev_sel = s.dev_sel /\ t.rx_synth_freq = s.rx_synth_freq /\ t.chip = s.chip
    BY <1>3 DEF Keeps
  <2>3. Asked(t)
    BY <1>1, <2>2, SameAskedFor
  <2> QED BY <1>1, <2>1, <2>2, <2>3 DEF t
<1>5. CASE side = "tx"
  <2>1. "quiet" \notin Held /\ side # "rx"
    BY <1>5, HeldWays
  <2>2. Keeps(Held, s, t)
    BY <1>1, <2>1, LoKeeps, KeepsFacts
  <2> HIDE DEF t
  <2> QED BY <1>1, <2>2, HeldWays DEF t
<1> QED BY <1>4, <1>5 DEF Radio!Sides

\* A frequency that the receiver of every chip has.
Usual(freq) == freq \in {433, 500, 2450}

LEMMA UsualLos ==
  ASSUME NEW s, NEW freq, Usual(freq)
  PROVE  Radio!validate_rfpll(s, FALSE, freq)
  BY DEF Usual, Radio!validate_rfpll, Radio!MAX_CARRIER_FREQ

LEMMA LosTuned ==
  ASSUME InTuneNow
  PROVE  Radio!LoFreq \/ Radio!LoRefused \/ Radio!GainBand \/ Radio!FastlockLeave
           \/ Radio!LoIntExt => InTuneNow'
<1>1. Sounding(phy) /\ Built(phy) /\ Asked(phy)
  BY DEF InTuneNow, Sounding
<1>2. ASSUME NEW c PROVE Sounding(Radio!With(c))
  BY WithTuned
<1>3. ASSUME NEW s, Sounding(s), NEW side \in Radio!Sides, NEW freq,
             calm /\ side = "rx" => Radio!validate_rfpll(s, FALSE, freq), NEW fine,
             Radio!Recorded(<<"lo">>, Radio!clk_set_lo(s, side, freq), fine)
      PROVE  InTuneNow'
  BY <1>3, LoTuned, CallTuned
<1>4. ASSUME NEW s, Sounding(s), NEW side \in Radio!Sides, NEW freq, Usual(freq), NEW fine,
              Radio!Recorded(<<"lo">>, Radio!clk_set_lo(s, side, freq), fine)
       PROVE  InTuneNow'
  <2>1. Radio!validate_rfpll(s, FALSE, freq)
    BY <1>4, UsualLos
  <2> QED BY <1>3, <1>4, <2>1
<1>5. ASSUME Radio!LoFreq PROVE InTuneNow'
  <2>1. PICK c, side, freq :
          /\ side \in Radio!Sides /\ Usual(freq)
          /\ Radio!Recorded(<<"lo">>, Radio!clk_set_lo(Radio!With(c), side, freq), c.hang = {})
    BY <1>5 DEF Radio!LoFreq, Radio!Returned, Usual
  <2> DEFINE s == Radio!With(c)
             fine == c.hang = {}
  <2>2. Sounding(s) /\ Radio!Recorded(<<"lo">>, Radio!clk_set_lo(s, side, freq), fine)
    BY <1>2, <2>1
  <2> HIDE DEF s, fine
  <2> QED BY <1>4, <2>1, <2>2
<1>6. ASSUME Radio!FastlockLeave PROVE InTuneNow'
  <2>1. PICK side \in Radio!Sides, freq \in {433, 500} :
          Radio!Answered(<<"lo">>, Radio!clk_set_lo(phy, side, freq))
    BY <1>6 DEF Radio!FastlockLeave
  <2> DEFINE fine == TRUE
  <2>2. Radio!Recorded(<<"lo">>, Radio!clk_set_lo(phy, side, freq), fine)
    BY <2>1, Zenon DEF Radio!Answered
  <2>3. side \in Radio!Sides /\ Usual(freq)
    BY <2>1 DEF Usual
  <2> HIDE DEF fine
  <2> QED BY <1>1, <1>4, <2>2, <2>3
<1>7. ASSUME NEW new, NEW kind, NEW fine, Radio!Recorded(kind, new, fine), Keeps({}, phy, new),
             calm /\ fine => Tabled(new) /\ Eyed(new)
      PROVE  InTuneNow'
  <2>1. Built(new) /\ new.dev_sel = phy.dev_sel /\ new.rx_synth_freq = phy.rx_synth_freq
        /\ new.chip = phy.chip
    BY <1>7 DEF Keeps
  <2>2. Asked(new)
    BY <1>1, <2>1, SameAskedFor
  <2> QED BY <1>7, <2>1, <2>2, CallTuned
<1>8. "quiet" \notin {} /\ {"lo", "table"} \cap {} = {} /\ {} \cap {"quiet", "ext"} = {}
  OBVIOUS
<1>9. ASSUME NEW side \in Radio!Sides, NEW freq
      PROVE  Keeps({}, phy, Radio!clk_set_lo(phy, side, freq))
  BY <1>1, <1>8, LoKeeps, KeepsFacts
<1>10. ASSUME Radio!LoRefused PROVE InTuneNow'
  <2> DEFINE no == FALSE
  <2>1. PICK side, rate :
          side \in Radio!Sides /\ Radio!Recorded(<<"lo">>, Radio!clk_set_lo(phy, side, rate), no)
    BY <1>10 DEF Radio!LoRefused
  <2>2. ~no
    OBVIOUS
  <2> HIDE DEF no
  <2> QED BY <1>7, <1>9, <2>1, <2>2
<1>11. ASSUME Radio!GainBand PROVE InTuneNow'
  <2>1. PICK freq :
          Radio!Recorded(<<"lo">>, Radio!clk_set_lo(phy, "rx", freq), Radio!Received(freq))
    BY <1>11 DEF Radio!GainBand
  <2>2. "rx" \in Radio!Sides
    BY DEF Radio!Sides
  <2>3. CASE Radio!validate_rfpll(phy, FALSE, freq)
    BY <1>1, <1>3, <2>1, <2>2, <2>3
  <2>4. CASE ~Radio!validate_rfpll(phy, FALSE, freq)
    <3>1. ~Radio!Received(freq)
      BY <2>4, Zenon DEF Radio!Received
    <3>2. Keeps({}, phy, Radio!clk_set_lo(phy, "rx", freq))
      BY <1>9, <2>2
    <3> QED BY <1>7, <2>1, <3>1, <3>2, Zenon
  <2> QED BY <2>3, <2>4, Zenon
<1>12. ASSUME Radio!LoIntExt PROVE InTuneNow'
  <2>1. PICK side \in Radio!Sides, ext \in BOOLEAN :
          Radio!Recorded(<<"lo">>, Radio!set_lo_int_ext(phy, side, ext), ext)
    BY <1>12, Zenon DEF Radio!LoIntExt
  <2> DEFINE new == Radio!set_lo_int_ext(phy, side, ext)
  <2>2. {"eyed"} \cap {"quiet", "ext"} = {}
    OBVIOUS
  <2>3. Keeps({"eyed"}, phy, new)
    BY <1>1, <2>2, ExtKeeps, KeepsFacts
  <2>4. calm /\ ext => Tabled(new)
    <3>1. ASSUME calm, ext PROVE Tabled(new)
      <4>1. ext = TRUE
        BY <2>1, <3>1
      <4> QED BY <1>1, <3>1, <4>1, ExtTable DEF Sounding
    <3> QED BY <3>1, Zenon
  <2> HIDE DEF new
  <2>5. Keeps({}, phy, new) /\ (Eyed(phy) => Eyed(new))
    BY <2>3, KeepsFacts DEF Keeps
  <2> QED BY <1>1, <1>7, <2>1, <2>4, <2>5 DEF new, Sounding
<1> QED BY <1>5, <1>6, <1>10, <1>11, <1>12

LEMMA FastlockTuned ==
  ASSUME InTuneNow
  PROVE  Radio!FastlockStore \/ Radio!FastlockRecall \/ Radio!FastlockLoad => InTuneNow'
<1>1. Sounding(phy) /\ Keeps(Held, phy, phy) /\ "quiet" \notin Held
  BY HeldWays, KeepsFacts DEF InTuneNow, Sounding
<1>2. ASSUME NEW s, Sounding(s), NEW kind, NEW new, Radio!Answered(kind, new),
             Keeps(Held, s, new)
      PROVE  InTuneNow'
  BY <1>2, HeldTuned
<1>3. ASSUME Radio!FastlockStore PROVE InTuneNow'
  <2>1. PICK side, profile, alc :
          Radio!Answered(<<"fastlock">>,
                         Radio!fastlock_store([phy EXCEPT !.chip.alc = alc], side, profile))
    BY <1>3 DEF Radio!FastlockStore
  <2> DEFINE s == [phy EXCEPT !.chip.alc = alc]
  <2>2. Sounding(s)
    BY WithTuned
  <2> HIDE DEF s
  <2>3. Keeps(Held, s, Radio!fastlock_store(s, side, profile))
    BY <1>1, <2>2, FastlockKeeps, KeepsFacts DEF Sounding
  <2> QED BY <1>2, <2>1, <2>2, <2>3 DEF s
<1>4. ASSUME Radio!FastlockRecall PROVE InTuneNow'
  <2>1. PICK side, profile :
          Radio!Answered(<<"recall", side, profile>>, Radio!fastlock_recall(phy, side, profile))
    BY <1>4 DEF Radio!FastlockRecall
  <2>2. Keeps(Held, phy, Radio!fastlock_recall(phy, side, profile))
    BY <1>1, FastlockKeeps
  <2> QED BY <1>1, <1>2, <2>1, <2>2
<1>5. ASSUME Radio!FastlockLoad PROVE InTuneNow'
  <2>1. PICK side, values :
          Radio!Answered(<<"fastlock">>, Radio!fastlock_load(phy, side, 1, values))
    BY <1>5 DEF Radio!FastlockLoad
  <2>2. Keeps(Held, phy, Radio!fastlock_load(phy, side, 1, values))
    BY <1>1, FastlockKeeps
  <2> QED BY <1>1, <1>2, <2>1, <2>2
<1> QED BY <1>3, <1>4, <1>5

\* The calls of the interface, and those that set the radio up again.
LEMMA InterfaceTuned ==
  ASSUME InTuneNow
  PROVE  Radio!DigTune \/ Radio!TimingAnalysis \/ Radio!NoChMode \/ Radio!DoMcs => InTuneNow'
<1>1. Sounding(phy) /\ Built(phy) /\ Asked(phy) /\ Keeps(Held, phy, phy)
      /\ "delays" \notin Held
  BY HeldWays, KeepsFacts DEF InTuneNow, Sounding
<1>2. ASSUME NEW kind, NEW new, Radio!Answered(kind, new), Keeps(Held, phy, new)
      PROVE  InTuneNow'
  BY <1>1, <1>2, HeldTuned
<1>3. ASSUME Radio!DigTune PROVE InTuneNow'
  <2>1. PICK swept \in BOOLEAN, keep \in BOOLEAN, default \in BOOLEAN :
          Radio!Recorded(<<"tune">>, Radio!dig_tune(phy, swept, ~keep, default), ~swept)
    BY <1>3 DEF Radio!DigTune
  <2> DEFINE skip == ~keep
             fine == ~swept
  <2>2. Radio!Recorded(<<"tune">>, Radio!dig_tune(phy, swept, skip, default), fine)
    BY <2>1
  <2> HIDE DEF skip, fine
  <2>3. Keeps(Held, phy, Radio!dig_tune(phy, swept, skip, default))
    BY <1>1, TuneKeeps
  <2> QED BY <1>1, <2>2, <2>3, HeldTuned
<1>4. ASSUME Radio!TimingAnalysis PROVE InTuneNow'
  <2>1. Keeps(Held, phy, Radio!Result(Radio!dig_interface_timing_analysis(phy), "ok"))
    BY <1>1, AnalysisKeeps, ResultKeeps
  <2> QED BY <1>2, <1>4, <2>1 DEF Radio!TimingAnalysis
<1>5. ASSUME Radio!DoMcs PROVE InTuneNow'
  <2>1. Keeps(Held, phy, Radio!do_mcs(phy, phy)[1])
    BY <1>1, McsKeeps
  <2> QED BY <1>2, <1>5, <2>1 DEF Radio!DoMcs
<1>6. ASSUME Radio!NoChMode PROVE InTuneNow'
  <2>1. PICK c \in Chips, mode \in 1 .. 3 :
          Radio!Recorded(<<"setup">>, Radio!set_no_ch_mode(Radio!With(c), mode),
                         c.hang = {} /\ Radio!Ok(Radio!SetUpAnew(Radio!With(c), mode))
                           /\ Radio!Ok(Radio!post_setup(Radio!SetUpAnew(Radio!With(c), mode))))
    BY <1>6 DEF Radio!NoChMode
  <2> DEFINE s == Radio!With(c)
             new == Radio!set_no_ch_mode(s, mode)
             fine == c.hang = {} /\ Radio!Ok(Radio!SetUpAnew(s, mode))
                       /\ Radio!Ok(Radio!post_setup(Radio!SetUpAnew(s, mode)))
  <2>2. Radio!Recorded(<<"setup">>, new, fine) /\ (fine => Radio!Ok(Radio!SetUpAnew(s, mode)))
    BY <2>1
  <2>3. Sounding(s)
    BY WithTuned
  <2> HIDE DEF s, fine
  <2>4. /\ Built(new) /\ (Asked(s) <=> Asked(new))
        /\ Radio!Ok(new) /\ Radio!Ok(Radio!SetUpAnew(s, mode))
             => (Asked(s) => Tabled(new)) /\ (Eyed(s) => Eyed(new))
    BY <2>3, NoChTuned DEF Sounding
  <2> HIDE DEF new
  <2> QED BY <2>2, <2>3, <2>4, CallTuned DEF Sounding
<1> QED BY <1>3, <1>4, <1>5, <1>6

LEMMA EveryCallTuned ==
  ASSUME InTuneNow, Radio!Next
  PROVE  InTuneNow'
  BY SettingsTuned, RatesTuned, PinsTuned, LosTuned, FastlockTuned, InterfaceTuned
     DEF Radio!Next

TuneInv == unit = "radio" => InTuneNow

LEMMA TunedInit == Init => TuneInv
<1> SUFFICES ASSUME Init, unit = "radio" PROVE InTuneNow
  BY DEF TuneInv
<1>1. phy \in Radio!Radios
  BY DEF Init, Radio!Init
<1>2. PICK b \in Boards :
        Radio!Ok(Radio!init(b, TRUE)) /\ phy = Radio!radio_setup(Radio!init(b, TRUE))
  BY <1>1 DEF Radio!Radios, Radio!Initialised
<1>3. Askable(b)
  <2>1. b \in Boards
    BY <1>2
  <2>2. TunedFields \subseteq DOMAIN b
    <3>1. /\ {"rc", "reg", "chip", "fastlock", "fdd", "prev_ensm_state", "curr_ensm_state",
              "ensm_pin_ctl_en", "bypass_rx_fir", "bypass_tx_fir", "hdl_dac_version",
              "rf_rx_input_sel", "fdd_independent_mode", "dev_sel", "current_lo_freq",
              "cached_rfpll_div", "current_use_tdd_table"} \subseteq DOMAIN b
          /\ {"clks", "lo_clk", "current_table", "use_ext_lo", "port_delay", "split_gt",
              "rx_synth_freq", "dig_interface_tune_skipmode"} \subseteq DOMAIN b
      BY <2>1, BoardAssumption, TuneAssumption, Zenon
    <3> QED BY <3>1 DEF TunedFields
  <2>3. b.hdl_dac_version \in Nat /\ b.rf_rx_input_sel \in Nat
    BY <2>1, BoardAssumption
  <2>4. /\ DOMAIN b.clks = DOMAIN Radio!parents /\ "eye" \in DOMAIN b.chip
        /\ DOMAIN b.use_ext_lo = Radio!Sides /\ DOMAIN b.port_delay = Radio!Sides
        /\ Radio!validate_rfpll(b, FALSE, b.rx_synth_freq)
        /\ \/ Radio!InEye(b, b.port_delay)
           \/ (b.dig_interface_tune_skipmode = 0 /\ Open(b))
    BY <2>1, TuneAssumption DEF Radio!Sides, Open
  <2>5. Radio!InEye(b, b.port_delay) => Arriving(b, b.port_delay)
    BY Zenon DEF Radio!InEye, Arriving, Arrives
  <2>6. Blank(b)
    BY <2>2, <2>3, <2>4 DEF Blank
  <2>7. Asked(b)
    BY <2>4 DEF Asked
  <2>8. Arriving(b, b.port_delay) \/ (b.dig_interface_tune_skipmode = 0 /\ Open(b))
    BY <2>4, <2>5
  <2> QED BY <2>6, <2>7, <2>8 DEF Askable
<1>4. InTune(Radio!radio_setup(Radio!init(b, TRUE)))
  BY <1>2, <1>3, InitTuned, RadioTuned
<1> QED BY <1>2, <1>4, Zenon DEF InTune, InTuneNow, Sounding

LEMMA TunedNext == TuneInv /\ [Next]_vars => TuneInv'
<1> SUFFICES ASSUME TuneInv, [Next]_vars PROVE TuneInv'
  OBVIOUS
<1>1. CASE Calls
  BY <1>1, EveryCallTuned DEF Calls, TuneInv
<1>2. CASE Transfers
  <2>1. unit' = unit /\ unit # "radio"
    BY <1>2 DEF Transfers
  <2> QED BY <2>1 DEF TuneInv
<1>3. CASE UNCHANGED vars
  <2>1. unit' = unit /\ phy' = phy /\ calm' = calm
    BY <1>3 DEF vars, radioVars
  <2> QED BY <2>1, Zenon DEF TuneInv, InTuneNow, Sounding
<1> QED BY <1>1, <1>2, <1>3 DEF Next

LEMMA AlwaysInTune == Spec => []TuneInv
<1> QED BY TunedInit, TunedNext, PTL DEF Spec

\* The first gain table that covers a frequency is loaded when the LO of the receiver is
\* set, by the driver as by the application (ad9361_load_gt from ad9361_rfpll_set_rate),
\* and not when the LO comes from outside.  A tuning of the interface (ad9361_dig_tune)
\* tries delays that lose data, and one that finds none goes back to those of before, also
\* within calls that tune for their own ends, over a change of channels and a reset.  As
\* long as every call has succeeded and none has left something to be set again, the table
\* is that of the LO, and data arrives on both sides, whatever the eye.
THEOREM AlwaysTuned == Spec => []Tuned
<1>1. TuneInv => Tuned
  <2> SUFFICES ASSUME TuneInv, unit = "radio", calm
               PROVE  Radio!TableFits(phy) /\ Radio!InEye(phy, phy.reg.DELAY)
    BY Zenon DEF Tuned, Radio!Tuned
  <2>1. Tabled(phy) /\ Eyed(phy)
    BY Zenon DEF TuneInv, InTuneNow, Sounding
  <2> QED BY <2>1, EyedWays, Zenon DEF Tabled
<1> QED BY <1>1, AlwaysInTune, PTL
=============================================================================
