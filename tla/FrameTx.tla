------------------------------ MODULE FrameTx ------------------------------
(* axi_picture_frame_tx of homework 5: bytes of the camera are packed into   *)
(* words, the words numbered into frames and handed to a FIFO that crosses   *)
(* to the clock of the AXI stream.  One action per edge of aclk_external,    *)
(* one for the other side of the FIFO, one for the reset of both.            *)
(*                                                                           *)
(* A byte is known by its place in the frame: `place' (history) numbers the  *)
(* bytes the module samples.  The FIFO (xpm_fifo_axis, external) lowers its  *)
(* ready at most SLACK clocks after the write that fills it, and keeps it    *)
(* low for as long as it is full.                                            *)
EXTENDS Naturals, Sequences

CONSTANTS
  WORDS_IN_PICTURE,
  FIFO_DEPTH,
  SLACK  \* 0 to 2

VARIABLES
  shift_data,     \* the places of the bytes shifted in, newest last
  final_data, data_valid, data_last,
  words_counter, pixel_counter,
  fifo,           \* words in the FIFO, each as [bytes, last]
  ready,          \* s_axis_tready_int
  falling,        \* clocks until `ready' falls, once the FIFO is full
  place,          \* history: place in the frame of the next byte sampled
  due             \* history: place in the frame of the next word read

txVars == <<shift_data, final_data, data_valid, data_last, words_counter, pixel_counter>>
fifoVars == <<fifo, ready, falling>>
vars == <<txVars, fifoVars, place, due>>

FrameBytes == 4 * WORDS_IN_PICTURE

\* Mutant: the word is handed on without the byte that completes it.
ShiftedBefore == shift_data

Shifted == <<shift_data[2], shift_data[3], shift_data[4], place>>

LastPixel == pixel_counter = WORDS_IN_PICTURE - 1

WordComplete == words_counter = 3

\* A byte is shifted in, and the word handed on with its fourth.
Pack(enabled) ==
  IF enabled /\ ready
    THEN /\ shift_data' = Shifted
         /\ words_counter' = (words_counter + 1) % 4
         /\ data_valid' = WordComplete
         /\ data_last' = (WordComplete /\ LastPixel)
         /\ IF WordComplete
              THEN /\ final_data' = Shifted
                   /\ pixel_counter' = IF LastPixel THEN 0 ELSE pixel_counter + 1
              ELSE UNCHANGED <<final_data, pixel_counter>>
         /\ place' = (place + 1) % FrameBytes
    ELSE /\ data_valid' = FALSE
         /\ UNCHANGED <<shift_data, final_data, data_last, words_counter, pixel_counter, place>>

\* The write side of the FIFO in the same cycle.
FifoWrite ==
  LET written == data_valid /\ ready
      content == IF written THEN Append(fifo, [bytes |-> final_data, last |-> data_last]) ELSE fifo
  IN  /\ fifo' = content
      /\ \/ /\ Len(content) < FIFO_DEPTH
            /\ ready' \in {ready, TRUE} /\ falling' = 0
         \/ /\ Len(content) >= FIFO_DEPTH /\ ready
            /\ \E wait \in IF written THEN 0 .. SLACK ELSE {falling - 1} :
                 falling' = wait /\ ready' = (wait # 0)
         \/ Len(content) >= FIFO_DEPTH /\ ~ready /\ UNCHANGED <<ready, falling>>

ExternalEdge(enabled) == Pack(enabled) /\ FifoWrite /\ UNCHANGED due

\* The stream takes a word.
Read ==
  /\ fifo # <<>>
  /\ fifo' = Tail(fifo)
  /\ due' = (due + 4) % FrameBytes
  /\ UNCHANGED <<txVars, ready, falling, place>>

Reset ==
  /\ shift_data' = <<0, 0, 0, 0>> /\ final_data' = <<0, 0, 0, 0>>
  /\ data_valid' = FALSE /\ data_last' = FALSE
  /\ words_counter' = 0 /\ pixel_counter' = 0
  /\ fifo' = <<>> /\ ready' = FALSE /\ falling' = 0
  /\ place' = 0 /\ due' = 0

Init ==
  /\ shift_data = <<0, 0, 0, 0>> /\ final_data = <<0, 0, 0, 0>>
  /\ data_valid = FALSE /\ data_last = FALSE
  /\ words_counter = 0 /\ pixel_counter = 0
  /\ fifo = <<>> /\ ready = FALSE /\ falling = 0
  /\ place = 0 /\ due = 0

Next == Reset \/ Read \/ \E enabled \in BOOLEAN : ExternalEdge(enabled)

Spec == Init /\ [][Next]_vars

-----------------------------------------------------------------------------

\* Pixel k of a frame, as the FIFO should hold it.
Pixel(k) ==
  [bytes |-> <<k, k + 1, k + 2, k + 3>>, last |-> k = FrameBytes - 4]

\* What the stream reads are the sampled bytes, four to a word, in order, and with
\* TLAST on the last word of every frame, however the camera pauses and the FIFO
\* fills: a reader that stops at TLAST has one whole frame.  The module lowers its
\* valid after one clock whether or not the FIFO took the word; none is lost, since in
\* the four clocks between two words the FIFO has lowered its ready.
FrameOrder == \A i \in 1 .. Len(fifo) : fifo[i] = Pixel((due + 4 * (i - 1)) % FrameBytes)
=============================================================================
