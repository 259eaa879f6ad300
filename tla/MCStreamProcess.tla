--------------------------- MODULE MCStreamProcess ---------------------------
(* Two chunks of two pieces through a pipe that holds one: the parent blocks  *)
(* inside a chunk.  Every mode, with and without pkexec, streamed or not.     *)
EXTENDS StreamProcess
=============================================================================
