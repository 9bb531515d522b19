----------------------------- MODULE ParseArgs -----------------------------
(***************************************************************************)
(* The command line: parse_args of src/src/ft_parse.c and main.  An        *)
(* argument is a sequence of characters; an option is the name of a field  *)
(* of t_args, and `opts` the set of those that are true.                   *)
(***************************************************************************)
EXTENDS Integers, Sequences, FiniteSets

CONSTANTS
  Argument,  \* arguments of a command line
  MaxArgs    \* bound: their number

ASSUME ArgumentAssumption ==
  Argument \subseteq Seq(STRING) /\ MaxArgs \in Nat

VARIABLES
  argv,    \* the arguments without the name of the program
  pc,      \* "args", "letters", "process", "destroy" or "exit"
  index,   \* index
  sub,     \* sub_index
  isFlag,  \* is_flag
  opts,    \* args
  inputs,  \* inputs
  live,    \* malloc'ed strings that are not freed
  code     \* the exit code of main

vars == <<argv, pc, index, sub, isFlag, opts, inputs, live, code>>

Init ==
  /\ argv \in UNION {[1..n -> Argument] : n \in 0..MaxArgs}
  /\ pc = "args" /\ index = 1 /\ sub = 2 /\ isFlag = TRUE
  /\ opts = {} /\ inputs = << >> /\ live = 0 /\ code = 0

(* array_init fails.                                                       *)
InitFails ==
  /\ pc = "args" /\ index = 1 /\ inputs = << >>
  /\ pc' = "exit" /\ code' = 1
  /\ UNCHANGED <<argv, index, sub, isFlag, opts, inputs, live>>

Arg == argv[index]
DashDash(a) == Len(a) >= 2 /\ a[1] = "-" /\ a[2] = "-"

(* Mutant of Terminator: every argument that starts so is dropped.         *)
TerminatorAlways == DashDash(Arg)

(* The first argument that starts with two dashes ends the options; it is  *)
(* dropped whatever follows them.                                          *)
Terminator == isFlag /\ DashDash(Arg)

(* Options, of which a lone dash and an empty argument are none.           *)
Dash(a) == Len(a) >= 2 /\ a[1] = "-"
IsOperand == ~Terminator /\ (isFlag => ~Dash(Arg))

EndOfOptions ==
  /\ pc = "args" /\ index <= Len(argv) /\ Terminator
  /\ isFlag' = FALSE
  /\ index' = index + 1
  /\ UNCHANGED <<argv, pc, sub, opts, inputs, live, code>>

AppendInput(a) == inputs' = Append(inputs, a) /\ live' = live + 1

Operand ==
  /\ pc = "args" /\ index <= Len(argv) /\ IsOperand
  /\ AppendInput(Arg)
  /\ index' = index + 1
  /\ UNCHANGED <<argv, pc, sub, isFlag, opts, code>>

Fail == pc' = "destroy" /\ code' = 1

(* Mutant of Dropped: the string that cannot be appended is not freed.     *)
DroppedLive == live + 1

(* The string, once allocated, is freed when the append fails.             *)
Dropped == live

(* append_input_ fails, in the loop or for the "." after it.               *)
AppendFails ==
  /\ pc = "args"
  /\ IF index <= Len(argv) THEN IsOperand ELSE inputs = << >>
  /\ live' \in {live, Dropped}
  /\ Fail
  /\ UNCHANGED <<argv, index, sub, isFlag, opts, inputs>>

Cluster ==
  /\ pc = "args" /\ index <= Len(argv) /\ ~Terminator /\ ~IsOperand
  /\ pc' = "letters" /\ sub' = 2
  /\ UNCHANGED <<argv, index, isFlag, opts, inputs, live, code>>

(* The fields each letter sets.                                            *)
Sets ==
  [R |-> {"recursive"}, a |-> {"all"}, l |-> {"list"}, r |-> {"reverse"},
   t |-> {"time"}, g |-> {"noOwner", "list"}, u |-> {"accessTime"},
   f |-> {"unsort", "all"}, d |-> {"directory"}, o |-> {"noGroup", "list"},
   G |-> {"color"}]

(* Mutant of Clears: -t sorts only what -f has not unsorted.               *)
ClearsNothing(c) == {}

(* The field that -t resets.                                               *)
Clears(c) == IF c = "t" THEN {"unsort"} ELSE {}

Letter ==
  /\ pc = "letters" /\ sub <= Len(Arg) /\ Arg[sub] \in DOMAIN Sets
  /\ opts' = (opts \ Clears(Arg[sub])) \cup Sets[Arg[sub]]
  /\ sub' = sub + 1
  /\ UNCHANGED <<argv, pc, index, isFlag, inputs, live, code>>

(* print_error_ and the usage.                                             *)
BadLetter ==
  /\ pc = "letters" /\ sub <= Len(Arg) /\ Arg[sub] \notin DOMAIN Sets
  /\ Fail
  /\ UNCHANGED <<argv, index, sub, isFlag, opts, inputs, live>>

ClusterDone ==
  /\ pc = "letters" /\ sub > Len(Arg)
  /\ pc' = "args" /\ index' = index + 1
  /\ UNCHANGED <<argv, sub, isFlag, opts, inputs, live, code>>

(* Without operands the current directory is listed.                       *)
ArgsDone ==
  /\ pc = "args" /\ index > Len(argv)
  /\ pc' = "process"
  /\ IF inputs = << >> THEN AppendInput(<<".">>) ELSE UNCHANGED <<inputs, live>>
  /\ UNCHANGED <<argv, index, sub, isFlag, opts, code>>

(* process() returns.                                                      *)
Process ==
  /\ pc = "process"
  /\ code' \in 0..2
  /\ pc' = "destroy"
  /\ UNCHANGED <<argv, index, sub, isFlag, opts, inputs, live>>

(* array_destroy_with(&inputs, del_str_)                                   *)
Destroy ==
  /\ pc = "destroy"
  /\ live' = live - Len(inputs) /\ inputs' = << >>
  /\ pc' = "exit"
  /\ UNCHANGED <<argv, index, sub, isFlag, opts, code>>

Next ==
  \/ InitFails \/ EndOfOptions \/ Operand \/ AppendFails \/ Cluster
  \/ Letter \/ BadLetter \/ ClusterDone \/ ArgsDone
  \/ Process \/ Destroy

Spec == Init /\ [][Next]_vars
-----------------------------------------------------------------------------
AllOptions == UNION {Sets[c] : c \in DOMAIN Sets}

TypeOK ==
  /\ pc \in {"args", "letters", "process", "destroy", "exit"}
  /\ index \in 1..(Len(argv) + 1) /\ sub \in Nat /\ isFlag \in BOOLEAN
  /\ opts \subseteq AllOptions
  /\ inputs \in Seq(Argument \cup {<<".">>}) /\ live \in Nat /\ code \in 0..2

(* Reference: the options have ended at argument i; the arguments that are *)
(* operands; the letters of the others, each by argument and place.        *)
Ended(i) == \E j \in 1..i : DashDash(argv[j])
OperandPlaces == {i \in 1..Len(argv) : Ended(i - 1) \/ ~Dash(argv[i])}
UpTo(i) == {j \in OperandPlaces : j <= i}
LetterPlaces ==
  UNION {{i} \X (2..Len(argv[i])) :
           i \in {j \in 1..Len(argv) : Dash(argv[j]) /\ ~Ended(j)}}
LetterAt(p) == argv[p[1]][p[2]]
Later(p, q) == p[1] < q[1] \/ (p[1] = q[1] /\ p[2] < q[2])

(* The command line means what its arguments say: the operands are listed  *)
(* in the order given, however they are mixed with options; after the      *)
(* first "--" everything is an operand, a second "--" too; and there is    *)
(* always one (ft_parse.c:22, :75).  An option is set if and only if a     *)
(* letter sets it, except that of -f and -t the one given last decides     *)
(* whether the listing is sorted; and an unsorted listing shows hidden     *)
(* files, on which the traversal relies (Walk's Options; ft_parse.c:41,    *)
(* :51).                                                                   *)
OperandsInOrder ==
  IF OperandPlaces = {} THEN inputs = << <<".">> >>
  ELSE /\ Len(inputs) = Cardinality(OperandPlaces)
       /\ \A i \in OperandPlaces : inputs[Cardinality(UpTo(i))] = argv[i]
OptionsSet ==
  \A o \in AllOptions \ {"unsort"} :
    o \in opts <=> \E p \in LetterPlaces : o \in Sets[LetterAt(p)]
LastOfFAndT ==
  "unsort" \in opts <=>
    \E p \in LetterPlaces :
      /\ LetterAt(p) = "f"
      /\ \A q \in LetterPlaces : Later(p, q) => LetterAt(q) # "t"
ParsedAsGiven ==
  pc = "process" =>
    /\ OperandsInOrder /\ OptionsSet /\ LastOfFAndT
    /\ "unsort" \in opts => "all" \in opts

(* Every string of the command line is held by the array that frees it, at *)
(* the exit too, after a wrong option or a failed allocation               *)
(* (ft_parse.c:82, main.c:21).                                             *)
StringsOwned == TypeOK /\ live = Len(inputs)
=============================================================================
