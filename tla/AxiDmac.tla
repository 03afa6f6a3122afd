------------------------------ MODULE AxiDmac ------------------------------
(***************************************************************************)
(* axi_dmac.c: a transfer longer than the hardware takes at once is cut    *)
(* into segments, the next one submitted by the interrupt that tells that  *)
(* the one before has started; without interrupts only the first segment   *)
(* is ever submitted.                                                      *)
(*                                                                         *)
(* `dmac' is the struct of the driver, with its transfer inside.  The      *)
(* hardware is one waiting segment (QUEUE_FULL), segments under way, and   *)
(* the two sticky bits of IRQ_PENDING.  An interrupt may come between any  *)
(* two steps of the software, as late as it likes.                         *)
(***************************************************************************)
EXTENDS Naturals, Sequences

CONSTANTS
  Caps,       \* cores: mem (the memory-mapped sides), cyclic, and the irq_option asked for
  MaxLength,  \* what X_LENGTH can hold
  Sizes,      \* bytes asked for
  MaxStarts   \* calls of axi_dmac_transfer_start

VARIABLES
  caps, dmac,
  pc,         \* the caller: "init", "idle", "starting", "waiting", "ready", "failed"
  ctrl,       \* AXI_DMAC_CTRL_ENABLE
  flags,      \* DMA_CYCLIC
  queued,     \* the segment submitted and not accepted yet: <<>> or <<segment>>
  active,     \* segments under way
  sot, eot,   \* IRQ_PENDING
  starts,     \* calls so far (bound)
  covered,    \* history: bytes submitted for the transfer, from its first to its last
  moved,      \* history: bytes of the transfer the hardware has moved
  torn,       \* history: a segment was not the continuation of the one before
  disturbed   \* history: a start met a hardware that was not at rest, or was stopped

hw == <<ctrl, flags, queued, active, sot, eot>>
hist == <<covered, moved, torn, disturbed>>
vars == <<caps, dmac, pc, hw, starts, hist>>

Src(d) == d.direction \in {"MEM_TO_DEV", "MEM_TO_MEM"}
Dest(d) == d.direction \in {"DEV_TO_MEM", "MEM_TO_MEM"}

\* axi_dmac_detect_caps: an address register that cannot be written is not there.
Direction(c) ==
  CASE c.mem = {"dest"} -> "DEV_TO_MEM"
    [] c.mem = {"src"} -> "MEM_TO_DEV"
    [] c.mem = {"src", "dest"} -> "MEM_TO_MEM"
    [] OTHER -> "INVALID_DIR"

\* axi_dmac_init, whose caller uses the driver whatever it returns.
Detected(c) ==
  [irq_option |-> c.irq, direction |-> Direction(c), hw_cyclic |-> c.cyclic, max_length |-> MaxLength,
   size |-> 0, cyclic |-> FALSE, transfer_done |-> FALSE, init_addr |-> 0,
   remaining_size |-> 0, next_src_addr |-> 0, next_dest_addr |-> 0]

\* Mutant: the register is taken for a number of bytes.
BurstSizeBytes(d) ==
  IF d.remaining_size > d.max_length THEN d.max_length ELSE d.remaining_size

\* The length of the next segment; the hardware moves X_LENGTH + 1 bytes.
BurstSize(d) ==
  IF d.remaining_size > d.max_length THEN d.max_length ELSE d.remaining_size - 1

Segment(d) ==
  [len |-> BurstSize(d) + 1,
   src |-> IF Src(d) THEN d.next_src_addr ELSE 0,
   dest |-> IF Dest(d) THEN d.next_dest_addr ELSE 0]

Advanced(d) ==
  LET step == BurstSize(d) + 1 IN
  [d EXCEPT !.remaining_size = @ - step,
            !.next_src_addr = IF Src(d) THEN @ + step ELSE @,
            !.next_dest_addr = IF Dest(d) THEN @ + step ELSE @]

\* A cyclic transfer too long for one segment begins again at its first byte.
Rewound(d) ==
  IF /\ d.direction = "MEM_TO_DEV" /\ d.cyclic
     /\ d.next_src_addr >= d.init_addr + d.size - 1
    THEN [d EXCEPT !.remaining_size = d.size, !.next_src_addr = d.init_addr]
    ELSE d

\* The last segment of a copy moves the source past the end, for Ended.
Followed(d) ==
  LET a == Advanced(d) IN
  IF d.direction = "MEM_TO_MEM" /\ a.remaining_size = 0
    THEN [a EXCEPT !.next_src_addr = @ + BurstSize(d) + 1] ELSE a

Ended(d) ==
  /\ d.remaining_size = 0
  /\ d.direction = "MEM_TO_DEV" => ~d.cyclic
  /\ d.direction = "MEM_TO_MEM" => d.next_src_addr > d.init_addr + d.size

Finished(d) ==
  [d EXCEPT !.transfer_done = TRUE,
            !.next_src_addr = IF Src(d) THEN 0 ELSE @,
            !.next_dest_addr = IF Dest(d) THEN 0 ELSE @]

\* Where the transfer should go on: the next byte nobody has submitted.
Continues(seg, d) ==
  /\ Src(d) => seg.src = d.init_addr + covered
  /\ d.direction = "DEV_TO_MEM" => seg.dest = d.init_addr + covered
  /\ covered + seg.len <= d.size

Submitted(seg, d, torn0, covered0) ==
  /\ queued' = <<seg>>
  /\ torn' = (torn0 \/ ~Continues(seg, d))
  /\ covered' = IF d.cyclic /\ covered0 + seg.len = d.size THEN 0 ELSE covered0 + seg.len

-----------------------------------------------------------------------------

\* The three interrupt handlers: clear what is pending, go on when a segment
\* has started, end when one has ended and nothing is left to submit.
Isr ==
  /\ dmac.irq_option = "IRQ_ENABLED"
  /\ sot \/ eot
  /\ sot' = FALSE /\ eot' = FALSE
  /\ LET w == IF sot THEN Rewound(dmac) ELSE dmac
         goOn == sot /\ w.remaining_size > 0
         d == IF goOn THEN Followed(w) ELSE w
     IN /\ dmac' = IF eot /\ Ended(d) THEN Finished(d) ELSE d
        /\ IF goOn THEN Submitted(Segment(w), w, torn, covered)
                   ELSE UNCHANGED <<queued, torn, covered>>
  /\ UNCHANGED <<caps, pc, ctrl, flags, active, starts, moved, disturbed>>

\* axi_dmac_transfer_start, up to the look at QUEUE_FULL: the parameters of the
\* new transfer replace those of the old one before anything is checked.
Start ==
  \E size \in Sizes, cyclic \in BOOLEAN :
    LET d == [dmac EXCEPT !.size = size, !.cyclic = cyclic, !.remaining_size = size,
                          !.next_src_addr = 0, !.next_dest_addr = 0]
        refused == cyclic /\ (~d.hw_cyclic \/ d.direction \in {"DEV_TO_MEM", "MEM_TO_MEM"})
    IN /\ pc \in {"idle", "ready", "failed"} /\ starts < MaxStarts
       /\ starts' = starts + 1
       /\ dmac' = d
       /\ disturbed' = (queued # <<>> \/ active # <<>> \/ sot \/ eot)
       /\ IF refused
            THEN pc' = "failed" /\ UNCHANGED <<ctrl, flags>>
            ELSE /\ pc' = "starting"
                 /\ ctrl' = TRUE
                 /\ flags' = IF d.direction = "MEM_TO_DEV" /\ cyclic
                               THEN size - 1 <= d.max_length ELSE flags
       /\ covered' = 0 /\ moved' = 0 /\ torn' = FALSE
       /\ UNCHANGED <<caps, queued, active, sot, eot>>

StartNothing ==
  /\ pc \in {"idle", "ready", "failed"} /\ starts < MaxStarts
  /\ starts' = starts + 1
  /\ pc' = "waiting" /\ disturbed' = TRUE
  /\ UNCHANGED <<caps, dmac, hw, covered, moved, torn>>

\* The rest of axi_dmac_transfer_start: the first segment.
Submit ==
  /\ pc = "starting"
  /\ IF queued = <<>> /\ dmac.direction # "INVALID_DIR"
       THEN LET d == [dmac EXCEPT !.init_addr = IF Src(dmac) THEN dmac.next_src_addr
                                                             ELSE dmac.next_dest_addr]
            IN /\ dmac' = Advanced(d)
               /\ Submitted(Segment(d), d, torn, covered)
               /\ pc' = "waiting"
       ELSE pc' = "failed" /\ UNCHANGED <<dmac, queued, torn, covered>>
  /\ UNCHANGED <<caps, ctrl, flags, active, sot, eot, starts, moved, disturbed>>

\* axi_dmac_is_transfer_ready, or the two bits of the core.
Done ==
  IF dmac.irq_option = "IRQ_ENABLED" THEN dmac.transfer_done ELSE sot /\ eot

\* axi_dmac_transfer_wait_completion
WaitDone ==
  /\ pc = "waiting" /\ Done
  /\ pc' = "ready"
  /\ UNCHANGED <<caps, dmac, hw, starts, hist>>

\* The wait may end whenever its timeout is that short; the caller stops the core.
WaitTimeout ==
  /\ pc = "waiting" /\ ~Done
  /\ pc' = "failed"
  /\ ctrl' = FALSE /\ queued' = <<>> /\ active' = <<>>
  /\ disturbed' = TRUE
  /\ UNCHANGED <<caps, dmac, flags, sot, eot, starts, covered, moved, torn>>

\* The core takes the waiting segment while earlier ones may still be under way.
Accept ==
  /\ ctrl /\ queued # <<>> /\ Len(active) < 2
  /\ active' = active \o queued /\ queued' = <<>> /\ sot' = TRUE
  /\ UNCHANGED <<caps, dmac, pc, ctrl, flags, eot, starts, hist>>

\* With DMA_CYCLIC the core repeats the segment and never tells of an end.
Complete ==
  /\ ctrl /\ active # <<>> /\ ~flags
  /\ active' = Tail(active) /\ eot' = TRUE
  /\ moved' = IF disturbed \/ dmac.cyclic THEN moved ELSE moved + Head(active).len
  /\ UNCHANGED <<caps, dmac, pc, ctrl, flags, queued, sot, starts, covered, torn, disturbed>>

Init ==
  /\ caps \in Caps
  /\ dmac = Detected(caps)
  /\ pc = "idle" /\ ctrl = FALSE /\ flags = FALSE /\ queued = <<>> /\ active = <<>>
  /\ sot = FALSE /\ eot = FALSE /\ starts = 0
  /\ covered = 0 /\ moved = 0 /\ torn = FALSE /\ disturbed = FALSE

Next ==
  \/ Isr \/ Start \/ StartNothing \/ Submit \/ WaitDone \/ WaitTimeout
  \/ Accept \/ Complete

Spec == Init /\ [][Next]_vars

-----------------------------------------------------------------------------

\* The interrupts cut a transfer into segments that follow one another from
\* its first byte to its last, and leave none of it behind: when the hardware
\* is at rest all of it has been submitted.  Holds of transfers started while
\* the hardware was at rest, with sizes in whole words of the bus.
SegmentsTile ==
  ~disturbed =>
    /\ ~torn
    /\ (pc = "waiting" /\ dmac.irq_option = "IRQ_ENABLED" /\ ~sot /\ ~eot /\ queued = <<>> /\ active = <<>>)
         => covered = dmac.size /\ moved = dmac.size

\* axi_dmac_transfer_wait_completion says "0 for success, -1 in case trasnfer not
\* completed in specified time": when it returns 0 the data have been moved.
DoneMeansMoved ==
  (pc = "ready" /\ ~disturbed /\ ~dmac.cyclic) => moved = dmac.size
=============================================================================
