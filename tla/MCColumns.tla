----------------------------- MODULE MCColumns -----------------------------
(* Model-checking instance of Columns: names shorter and longer than a     *)
(* column and a tab stop, up to five of them, terminals that hold one, two *)
(* or three columns, and one wide enough for tabs.                         *)
EXTENDS Columns
=============================================================================
