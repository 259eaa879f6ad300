----------------------------- MODULE MCMacStream -----------------------------
(* Two chunks of two pieces through a FIFO that holds one.                    *)
EXTENDS MacStream
=============================================================================
