------------------------------ MODULE MCOutBuf ------------------------------
(* Model-checking instance of OutBuf: a buffer of three bytes and eight    *)
(* bytes of output, so that a call fits, fills or exceeds the buffer and   *)
(* up to three flushes follow each other; two messages between the calls.  *)
EXTENDS OutBuf
=============================================================================
