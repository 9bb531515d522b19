----------------------------- MODULE MCFileInfo -----------------------------
(***************************************************************************)
(* Model-checking instance of FileInfo: a stack buffer for one name of     *)
(* three; words of five bits, a largest capacity that is no power of two,  *)
(* sizes 0, small, beyond the capacity and the largest number, targets up  *)
(* to one that never fits; a second file after the first.                  *)
(***************************************************************************)
EXTENDS FileInfo

MCSizes == {0, 1, 3, 12, 13, 31}
MCTargets == {1, 2, 4, 6, 14}
=============================================================================
