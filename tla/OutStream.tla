----------------------------- MODULE OutStream -----------------------------
(***************************************************************************)
(* What the output layer of ft_ls (put_mem_fd, flush_fd and their callers) *)
(* promises to the rest of the program: an append-only byte stream.        *)
(* The k-th byte that callers hand over is represented by the number k, so *)
(* "the descriptor has received the bytes 1, 2, ..., n in that order" is   *)
(* the absence of loss, duplication and reordering.  Messages go to        *)
(* another descriptor, but a reader of both sees each of them after the    *)
(* bytes handed over before it, and before the others.                     *)
(***************************************************************************)
EXTENDS Naturals, Sequences

VARIABLES
  given,   \* how many bytes callers have handed over so far
  fd,      \* the bytes the descriptor has received
  notes,   \* how many messages have been written to standard error
  failed,  \* some output call has returned false
  result   \* "none" until the program has decided how the run ended

vars == <<given, fd, notes, failed, result>>

(* The first n bytes of the stream. *)
Stream(n) == [i \in 1..n |-> i]

Init ==
  /\ given = 0
  /\ fd = << >>
  /\ notes = 0
  /\ failed = FALSE
  /\ result = "none"

(* A caller hands over more bytes; it stops doing so after a failure.      *)
Take ==
  /\ result = "none"
  /\ ~failed
  /\ given' \in Nat /\ given' > given
  /\ UNCHANGED <<fd, notes, failed, result>>

(* The descriptor receives some more bytes of the stream.                  *)
Deliver ==
  /\ result = "none"
  /\ \E n \in (Len(fd) + 1)..given : fd' = Stream(n)
  /\ UNCHANGED <<given, notes, failed, result>>

(* A message is written: after all that was handed over before it, and     *)
(* never once output has been lost.                                        *)
Note ==
  /\ result = "none"
  /\ ~failed
  /\ fd = Stream(given)
  /\ notes' = notes + 1
  /\ UNCHANGED <<given, fd, failed, result>>

(* An output call reports failure.                                         *)
Fail ==
  /\ result = "none"
  /\ failed' = TRUE
  /\ UNCHANGED <<given, fd, notes, result>>

(* The run ends; it may be reported as a success only if no call failed    *)
(* and the descriptor has received all that was handed over.               *)
Finish ==
  /\ result = "none"
  /\ result' \in {"ok", "error"}
  /\ failed' \in BOOLEAN
  /\ failed => failed'
  /\ result' = "ok" => ~failed' /\ Len(fd) = given
  /\ UNCHANGED <<given, fd, notes>>

Next ==
  \/ Take
  \/ Deliver
  \/ Note
  \/ Fail
  \/ Finish

Spec == Init /\ [][Next]_vars
=============================================================================
