----------------------------- MODULE MCFrameTx -----------------------------
(* Two messages of the thread, the first as long as the buffer. *)
EXTENDS FrameTx
MCMsgLen == <<5, 4>>
=============================================================================
