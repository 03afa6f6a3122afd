--------------------------- MODULE MCCaptureLoop ---------------------------
(* Windows of two words: the last one is active or not, and with a DMA that *)
(* holds one word it may be dropped.                                        *)
EXTENDS CaptureLoop
=============================================================================
