----------------------------- MODULE MCByteBuffer -----------------------------
(* The instance of ByteBuffer for TLC: its constants are given in the cfg. *)
EXTENDS ByteBuffer
==============================================================================
