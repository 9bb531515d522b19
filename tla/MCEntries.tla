----------------------------- MODULE MCEntries -----------------------------
(***************************************************************************)
(* Model-checking instance of Entries: an array that grows to a limit of   *)
(* three, beyond which the double of two is cut back, and allocations for  *)
(* a directory, one of its entries with a path, the subdirectory queued    *)
(* from it, and one more.  A word holds far more than the double of the    *)
(* limit, as in the code.                                                  *)
(***************************************************************************)
EXTENDS Entries
=============================================================================
