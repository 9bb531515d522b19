----------------------------- MODULE Traversal -----------------------------
(***************************************************************************)
(* What the traversal of ft_ls (process() of src/src/ft_walk.c) promises:  *)
(* the directories are listed from an agenda whose head comes next; with   *)
(* -R a listed directory is replaced there by the subdirectories of its    *)
(* own listing.  A directory leaves the agenda unlisted only if the run    *)
(* fails, a failure is never forgotten, and only a run without one is      *)
(* reported as a success.  How the agenda is kept (a stack, filled         *)
(* backwards while a directory is loaded) is left to the implementation.   *)
(***************************************************************************)
EXTENDS Naturals, Sequences, SequencesExt

CONSTANTS
  Options,  \* combinations of options; -R is `recursive`, -d is `directory`
  Dots      \* paths that end in "." or ".."

VARIABLES
  args,       \* the options of the run
  status,     \* "collecting" the operands, "listing" or "ended"
  agenda,     \* the directories still to be listed, the next one first
  listed,     \* the listings made so far
  failed,     \* something could not be listed
  report      \* "none" until the program has ended, then "ok" or "error"

vars == <<args, status, agenda, listed, failed, report>>

IdsOf(q) == {q[i].id : i \in 1..Len(q)}

Init ==
  /\ args \in Options
  /\ status = "collecting"
  /\ agenda = << >> /\ listed = << >>
  /\ failed = FALSE
  /\ report = "none"

(* The operands have been classified; with -d no directory is opened.      *)
Begin ==
  /\ status = "collecting"
  /\ status' = "listing"
  /\ args.directory => agenda' = << >>
  /\ IsInjective([i \in 1..Len(agenda') |-> agenda'[i].id])
  /\ \A i \in 1..Len(agenda') : agenda'[i].operand
  /\ UNCHANGED <<args, listed, failed, report>>

(* What -R descends into: a directory of which the status is known, and    *)
(* which is neither "." nor "..".                                          *)
Descends(e) == e.dir /\ ~e.bad /\ e.path \notin Dots

(* The subdirectories of listing b in the order of the listing (`at` walks *)
(* through them), each an entry of its own that knows where it was found.  *)
Subdirs(b) ==
  {i \in 1..Len(b.entries) : args.recursive /\ Descends(b.entries[i])}

AreChildren(q, b) ==
  /\ \E at \in [1..Len(q) -> Subdirs(b)] :
       /\ \A i, j \in 1..Len(q) : i < j => at[i] < at[j]
       /\ \A s \in Subdirs(b) : \E i \in 1..Len(q) : at[i] = s
       /\ \A i \in 1..Len(q) : q[i].path = b.entries[at[i]].path
  /\ \A i \in 1..Len(q) : q[i].from = b.id /\ ~q[i].operand
  /\ IsInjective([i \in 1..Len(q) |-> q[i].id])
  /\ IdsOf(q) \cap (IdsOf(agenda) \cup IdsOf(listed)) = {}

(* The head of the agenda is listed and its subdirectories take its place. *)
List ==
  /\ status = "listing" /\ agenda # << >>
  /\ Len(listed') = Len(listed) + 1 /\ Front(listed') = listed
  /\ LET b == Last(listed')
         n == Len(agenda') - Len(Tail(agenda))
     IN  /\ b.id = Head(agenda).id /\ b.path = Head(agenda).path
         /\ n >= 0
         /\ agenda' = SubSeq(agenda', 1, n) \o Tail(agenda)
         /\ AreChildren(SubSeq(agenda', 1, n), b)
  /\ UNCHANGED <<args, status, failed, report>>

(* The head of the agenda cannot be listed.                                *)
Skip ==
  /\ status = "listing" /\ agenda # << >>
  /\ agenda' = Tail(agenda)
  /\ failed' = TRUE
  /\ UNCHANGED <<args, status, listed, report>>

(* Something else goes wrong: an operand, an entry, a message, a write.    *)
Lose ==
  /\ report = "none"
  /\ failed' = TRUE
  /\ UNCHANGED <<args, status, agenda, listed, report>>

(* The listing ends; what is left of the agenda is a failure.              *)
End ==
  /\ status # "ended"
  /\ status' = "ended"
  /\ agenda' = << >>
  /\ failed' \in BOOLEAN
  /\ failed \/ agenda # << >> => failed'
  /\ UNCHANGED <<args, listed, report>>

Report ==
  /\ status = "ended" /\ report = "none"
  /\ report' = IF failed THEN "error" ELSE "ok"
  /\ UNCHANGED <<args, status, agenda, listed, failed>>

Next == Begin \/ List \/ Skip \/ Lose \/ End \/ Report

Spec == Init /\ [][Next]_vars
=============================================================================
