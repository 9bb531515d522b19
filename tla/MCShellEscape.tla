--------------------------- MODULE MCShellEscape ---------------------------
(***************************************************************************)
(* Model-checking instance of ShellEscape: every name of up to four bytes. *)
(***************************************************************************)
EXTENDS ShellEscape

MCByte == {"1", " ", "'", "$", "\\", "~", ":", "NL", "HI"}
=============================================================================
