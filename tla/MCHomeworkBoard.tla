-------------------------- MODULE MCHomeworkBoard --------------------------
(* A counter of one bit (lock: 16 digits on the keys, any bounce) in the     *)
(* debouncers; bursts of up to three beats that wrap around a memory of two  *)
(* words; operands that overflow four bits and one that does not; a frame    *)
(* that is longer than the FIFO; calls longer than the window.               *)
EXTENDS HomeworkBoard

MCOperands == {0, 5, 15}
MCBytes == {0, 1}
MCValues == {-2, 0, 3}
MCIntMin == -8
=============================================================================
