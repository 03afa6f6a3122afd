------------------------------ MODULE FullRam ------------------------------
(* axi_full_ram of homework 5, one action per clock edge, with an AXI       *)
(* master that has at most one burst of each kind under way and is free to  *)
(* pause anywhere.  A word has two byte lanes, an address is the index of a *)
(* word, and INCR is the only kind of burst.  `wr', `rd' and `shown' are    *)
(* history: what the master still expects, and which word is in mem_rdata.       *)
EXTENDS Naturals

CONSTANTS
  MEM_DEPTH,
  Bytes,      \* values of a byte
  MaxLen      \* largest awlen and arlen the master uses

VARIABLES
  mem,
  wstate, waddr_cur, wburst_cnt, bvalid,
  rstate, raddr_cur, rburst_cnt, rvalid, rlast,
  rready,  \* the master takes a beat of R in this cycle
  shown,   \* history: the index of the word in mem_rdata
  wr, rd,  \* history: the burst the master has under way, `left' beats still to go
  intent   \* history: the memory as the master means it

writeVars == <<mem, wstate, waddr_cur, wburst_cnt, bvalid, wr, intent>>
readVars == <<rstate, raddr_cur, rburst_cnt, rvalid, rlast, shown, rd>>
vars == <<writeVars, readVars, rready>>

Addresses == 0 .. MEM_DEPTH - 1
Lanes == {0, 1}
Words == [Lanes -> Bytes]
Requests == [addr : Addresses, len : 0 .. MaxLen]
Beats == [data : Words, strb : SUBSET Lanes]
Nothing == [addr |-> 0, left |-> 0]

Step(addr) == (addr + 1) % MEM_DEPTH

Merge(old, beat) == [i \in Lanes |-> IF i \in beat.strb THEN beat.data[i] ELSE old[i]]

-----------------------------------------------------------------------------
(* Write channels *)

AwHandshake(req) ==
  /\ wstate = "WRIDLE" /\ wr.left = 0
  /\ wstate' = "WRDATA"
  /\ waddr_cur' = req.addr
  /\ wburst_cnt' = req.len
  /\ wr' = [addr |-> req.addr, left |-> req.len + 1]
  /\ UNCHANGED <<mem, bvalid, intent>>

\* A beat; s_axi_wlast is not looked at.
WHandshake(beat) ==
  /\ wstate = "WRDATA"
  /\ mem' = [mem EXCEPT ![waddr_cur] = Merge(@, beat)]
  /\ waddr_cur' = Step(waddr_cur)
  /\ IF wburst_cnt = 0
       THEN wstate' = "WRRESP" /\ UNCHANGED wburst_cnt
       ELSE wburst_cnt' = wburst_cnt - 1 /\ UNCHANGED wstate
  /\ intent' = [intent EXCEPT ![wr.addr] = Merge(@, beat)]
  /\ wr' = [addr |-> Step(wr.addr), left |-> wr.left - 1]
  /\ UNCHANGED bvalid

Respond(bready) ==
  /\ wstate = "WRRESP"
  /\ bvalid' = ~(bvalid /\ bready)
  /\ wstate' = IF bvalid /\ bready THEN "WRIDLE" ELSE "WRRESP"
  /\ UNCHANGED <<mem, waddr_cur, wburst_cnt, wr, intent>>

WritePause == wstate # "WRRESP" /\ UNCHANGED writeVars

WriteEdge ==
  \/ \E req \in Requests : AwHandshake(req)
  \/ \E beat \in Beats : WHandshake(beat)
  \/ \E bready \in BOOLEAN : Respond(bready)
  \/ WritePause

-----------------------------------------------------------------------------
(* Read channels *)

\* The master has taken the beat that is shown.
Taken == IF rvalid /\ rready /\ rd.left > 0
           THEN [addr |-> Step(rd.addr), left |-> rd.left - 1] ELSE rd

\* A new request comes only when the last burst is through.
ReadIdle(req) ==
  /\ rstate = "RDIDLE"
  /\ rvalid' = FALSE
  /\ \/ /\ Taken.left = 0
        /\ rstate' = "RDDATA"
        /\ raddr_cur' = req.addr
        /\ rburst_cnt' = req.len
        /\ rd' = [addr |-> req.addr, left |-> req.len + 1]
     \/ /\ rd' = Taken
        /\ UNCHANGED <<rstate, raddr_cur, rburst_cnt>>
  /\ UNCHANGED <<rlast, shown>>

\* Mutant: the word is fetched a beat too late.
ReadDataLate ==
  /\ rstate = "RDDATA"
  /\ rd' = Taken
  /\ IF ~rvalid \/ rready
       THEN /\ rvalid' = TRUE
            /\ rlast' = (rburst_cnt = 0)
            /\ shown' = Step(raddr_cur)
            /\ IF rburst_cnt # 0
                 THEN /\ raddr_cur' = Step(raddr_cur)
                      /\ rburst_cnt' = rburst_cnt - 1
                      /\ UNCHANGED rstate
                 ELSE /\ rstate' = IF rvalid /\ rready THEN "RDIDLE" ELSE rstate
                      /\ UNCHANGED <<raddr_cur, rburst_cnt>>
       ELSE UNCHANGED <<rvalid, rlast, shown, rstate, raddr_cur, rburst_cnt>>

\* rd_en: the next word is fetched into mem_rdata as the one before it leaves.
ReadData ==
  /\ rstate = "RDDATA"
  /\ rd' = Taken
  /\ IF ~rvalid \/ rready
       THEN /\ rvalid' = TRUE
            /\ rlast' = (rburst_cnt = 0)
            /\ shown' = raddr_cur
            /\ IF rburst_cnt # 0
                 THEN /\ raddr_cur' = Step(raddr_cur)
                      /\ rburst_cnt' = rburst_cnt - 1
                      /\ UNCHANGED rstate
                 ELSE /\ rstate' = IF rvalid /\ rready THEN "RDIDLE" ELSE rstate
                      /\ UNCHANGED <<raddr_cur, rburst_cnt>>
       ELSE UNCHANGED <<rvalid, rlast, shown, rstate, raddr_cur, rburst_cnt>>

ReadEdge == ReadData \/ \E req \in Requests : ReadIdle(req)

-----------------------------------------------------------------------------

\* The reset does not touch the memory; the master gives up what it had begun.
Reset ==
  /\ wstate' = "WRIDLE" /\ bvalid' = FALSE
  /\ rstate' = "RDIDLE" /\ rvalid' = FALSE
  /\ wr' = Nothing /\ rd' = Nothing
  /\ rready' \in BOOLEAN
  /\ UNCHANGED <<mem, waddr_cur, wburst_cnt, raddr_cur, rburst_cnt, rlast, shown, intent>>

Init ==
  /\ mem = [i \in Addresses |-> [b \in Lanes |-> CHOOSE v \in Bytes : TRUE]]
  /\ wstate = "WRIDLE" /\ waddr_cur = 0 /\ wburst_cnt = 0 /\ bvalid = FALSE
  /\ rstate = "RDIDLE" /\ raddr_cur = 0 /\ rburst_cnt = 0 /\ rvalid = FALSE /\ rlast = FALSE
  /\ rready \in BOOLEAN
  /\ shown = 0
  /\ wr = Nothing /\ rd = Nothing
  /\ intent = mem

Edge == WriteEdge /\ ReadEdge /\ rready' \in BOOLEAN

Next == Edge \/ Reset

Spec == Init /\ [][Next]_vars

-----------------------------------------------------------------------------

\* Every beat of a write burst lands in the word it belongs to, in its strobed lanes
\* and nowhere else, also when a burst wraps or is cut short by a reset, and the
\* answer comes after the last beat.
WritesLand ==
  /\ mem = intent
  /\ wstate = "WRRESP" => wr.left = 0
  /\ wstate = "WRDATA" => wr.left = wburst_cnt + 1 /\ wr.addr = waddr_cur

\* A beat the master still expects shows the word of its place in the burst, and
\* is marked as the last exactly when it is.  (A beat it does not expect any more may
\* be shown again, and the last beat may be withdrawn before it is taken.)
BeatsInOrder ==
  rvalid /\ rd.left > 0 => shown = rd.addr /\ rlast = (rd.left = 1)

BurstsInOrder == WritesLand /\ BeatsInOrder
=============================================================================
