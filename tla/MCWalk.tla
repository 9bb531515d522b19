------------------------------- MODULE MCWalk -------------------------------
(***************************************************************************)
(* Model-checking instances of Walk.  One directory r with its own ".", a  *)
(* subdirectory a that holds c, and a subdirectory b; a may vanish between *)
(* readdir and lstat, and b may be replaced by a file.  f is a file and l  *)
(* a symbolic link beside r; the ranks put b before a in reverse only.     *)
(***************************************************************************)
EXTENDS Walk

MCPath == {"r", "r.", "a", "b", "c", "f", "l"}
MCKids == [p \in MCPath |->
  CASE p = "r" -> {"r.", "a", "b"}
    [] p = "a" -> {"c"}
    [] p = "r." -> {"r."}
    [] OTHER -> {}]
MCMay == [p \in MCPath |->
  CASE p = "a" -> {"dir", "absent"}
    [] p = "b" -> {"dir", "other"}
    [] p = "f" -> {"other", "absent"}
    [] p = "l" -> {"link"}
    [] OTHER -> {"dir"}]
MCRank == [p \in MCPath |->
  CASE p = "r." -> 1 [] p = "a" -> 2 [] p = "b" -> 3 [] p = "c" -> 4
    [] p = "f" -> 5 [] p = "l" -> 6 [] p = "r" -> 7]
MCHidden == {"r."}
MCDots == {"r."}

Plain == [directory |-> FALSE, list |-> FALSE, recursive |-> FALSE,
          all |-> FALSE, unsort |-> FALSE, reverse |-> FALSE]
Recursive == [Plain EXCEPT !.recursive = TRUE]

(* Each way to order the listing, with and without -R, and the options     *)
(* that change how operands are classified; -a lists ".".                  *)
MCArgSets ==
  {Plain, [Plain EXCEPT !.list = TRUE], [Plain EXCEPT !.directory = TRUE],
   [Plain EXCEPT !.directory = TRUE, !.list = TRUE],
   [Plain EXCEPT !.unsort = TRUE, !.all = TRUE], [Plain EXCEPT !.reverse = TRUE],
   Recursive, [Recursive EXCEPT !.list = TRUE],
   [Recursive EXCEPT !.reverse = TRUE, !.all = TRUE],
   [Recursive EXCEPT !.unsort = TRUE, !.all = TRUE]}

(* One operand; a missing file, a link and directories together; the same  *)
(* operand twice.                                                          *)
MCOperandLists ==
  {<<"r">>, <<"f", "a", "b">>, <<"l", "b", "l">>, <<"a", "f", "r">>}
=============================================================================
