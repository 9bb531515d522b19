-------------------------- MODULE ParseArgsProofs --------------------------
(***************************************************************************)
(* Theorems about ParseArgs, for every set of arguments and every length   *)
(* of the command line.                                                    *)
(***************************************************************************)
EXTENDS ParseArgs, FiniteSetTheorems, TLAPS

(* While the letters of a cluster are read there is an argument.           *)
IInv ==
  /\ TypeOK /\ live = Len(inputs)
  /\ argv \in Seq(Argument)
  /\ pc = "letters" => index <= Len(argv)

LEMMA InitIInv == Init => IInv
<1> SUFFICES ASSUME Init PROVE IInv
  OBVIOUS
<1>1. argv \in Seq(Argument) /\ Len(argv) \in Nat
  <2>1. PICK n \in 0..MaxArgs : argv \in [1..n -> Argument]
    BY DEF Init
  <2> QED
    BY <2>1, ArgumentAssumption
<1> QED
  BY <1>1 DEF Init, IInv, TypeOK

(* What an append does to the operands, to the strings and to their number. *)
LEMMA AppendOne ==
  ASSUME IInv, NEW a, a \in Argument \cup {<<".">>}, AppendInput(a)
  PROVE  /\ inputs' \in Seq(Argument \cup {<<".">>})
         /\ live' \in Nat /\ live' = Len(inputs')
BY DEF IInv, TypeOK, AppendInput

LEMMA NextIInv == IInv /\ [Next]_vars => IInv'
<1> SUFFICES ASSUME IInv, [Next]_vars PROVE IInv'
  OBVIOUS
<1> USE DEF IInv, TypeOK
<1>1. CASE InitFails
  BY <1>1 DEF InitFails
<1>2. CASE EndOfOptions
  <2>1. isFlag' \in BOOLEAN
    BY <1>2 DEF EndOfOptions
  <2>2. index' \in 1..(Len(argv') + 1)
    BY <1>2 DEF EndOfOptions
  <2> QED
    BY <1>2, <2>1, <2>2 DEF EndOfOptions
<1>3. CASE Operand
  <2>1. Arg \in Argument
    BY <1>3 DEF Operand, Arg
  <2>2. /\ inputs' \in Seq(Argument \cup {<<".">>})
        /\ live' \in Nat /\ live' = Len(inputs')
    BY <1>3, <2>1, AppendOne DEF Operand
  <2> QED
    BY <1>3, <2>2 DEF Operand
<1>4. CASE AppendFails
  BY <1>4 DEF AppendFails, Fail, Dropped
<1>5. CASE Cluster
  BY <1>5 DEF Cluster
<1>6. CASE Letter
  <2>1. opts' \subseteq AllOptions
    <3>1. Sets[Arg[sub]] \subseteq AllOptions
      BY <1>6 DEF Letter, AllOptions
    <3> QED
      BY <1>6, <3>1 DEF Letter, AllOptions
  <2> QED
    BY <1>6, <2>1 DEF Letter, AllOptions
<1>7. CASE BadLetter
  BY <1>7 DEF BadLetter, Fail
<1>8. CASE ClusterDone
  BY <1>8 DEF ClusterDone
<1>9. CASE ArgsDone
  <2>1. /\ inputs' \in Seq(Argument \cup {<<".">>})
        /\ live' \in Nat /\ live' = Len(inputs')
    BY <1>9, AppendOne DEF ArgsDone
  <2> QED
    BY <1>9, <2>1 DEF ArgsDone
<1>10. CASE Process
  BY <1>10 DEF Process
<1>11. CASE Destroy
  BY <1>11 DEF Destroy
<1>12. CASE UNCHANGED vars
  BY <1>12 DEF vars
<1> QED
  BY <1>1, <1>2, <1>3, <1>4, <1>5, <1>6, <1>7, <1>8, <1>9, <1>10, <1>11, <1>12 DEF Next

(* Whatever is wrong with the command line and whichever allocation fails, *)
(* each string that was allocated for an operand is held by the array that *)
(* frees it.                                                               *)
THEOREM NoStringLost == Spec => []StringsOwned
<1>1. IInv => StringsOwned
  BY DEF IInv, StringsOwned
<1>2. QED
  BY InitIInv, NextIInv, <1>1, PTL DEF Spec
-----------------------------------------------------------------------------
(* What has been parsed: the operands before argument n, and the letters   *)
(* of the clusters before this one and of this one before sub.             *)
Before(n) == {i \in OperandPlaces : i < n}
LettersRead ==
  {p \in LetterPlaces :
     p[1] < index \/ (pc = "letters" /\ p[1] = index /\ p[2] < sub)}

OperandsBefore(n) ==
  /\ Len(inputs) = Cardinality(Before(n))
  /\ \A i \in Before(n) : inputs[Cardinality(UpTo(i))] = argv[i]

(* The options are those that the letters of R give.                       *)
OptionsBy(R) ==
  /\ \A o \in AllOptions \ {"unsort"} :
       o \in opts <=> \E p \in R : o \in Sets[LetterAt(p)]
  /\ "unsort" \in opts <=>
       \E p \in R :
         /\ LetterAt(p) = "f"
         /\ \A q \in R : Later(p, q) => LetterAt(q) # "t"
  /\ "unsort" \in opts => "all" \in opts

(* While arguments are left, what was read so far is what the operands and *)
(* the options say, and is_flag tells whether the options have ended.      *)
ParseInv ==
  /\ IInv
  /\ pc \in {"args", "letters"} =>
       /\ isFlag <=> ~Ended(index - 1)
       /\ OperandsBefore(index)
       /\ OptionsBy(LettersRead)
  /\ pc = "letters" => Dash(Arg) /\ ~Ended(index) /\ sub >= 2
  /\ ParsedAsGiven

LEMMA ArgvTyped ==
  ASSUME IInv
  PROVE  /\ Len(argv) \in Nat
         /\ \A i \in 1..Len(argv) : argv[i] \in Argument /\ Len(argv[i]) \in Nat
<1>1. argv \in Seq(Argument)
  BY DEF IInv
<1>2. \A a \in Argument : Len(a) \in Nat
  BY ArgumentAssumption
<1> QED
  BY <1>1, <1>2

(* A place has an argument that is a cluster and a letter of it.           *)
LEMMA PlaceOfLetter ==
  ASSUME IInv, NEW p
  PROVE  p \in LetterPlaces <=>
           \E i \in 1..Len(argv), k \in Nat :
             /\ p = <<i, k>> /\ k \in 2..Len(argv[i])
             /\ Dash(argv[i]) /\ ~Ended(i)
<1>1. \A i \in 1..Len(argv) : 2..Len(argv[i]) \subseteq Nat
  BY ArgvTyped
<1> DEFINE C == {j \in 1..Len(argv) : Dash(argv[j]) /\ ~Ended(j)}
<1>2. p \in LetterPlaces <=> \E i \in C : p \in {i} \X (2..Len(argv[i]))
  BY DEF LetterPlaces
<1>3. \A i \in C : p \in {i} \X (2..Len(argv[i])) <=> \E k \in 2..Len(argv[i]) : p = <<i, k>>
  OBVIOUS
<1> QED
  BY <1>1, <1>2, <1>3

(* One argument further the options have ended if they had, or it does.    *)
LEMMA EndedNext ==
  ASSUME NEW i \in Nat, i >= 1
  PROVE  Ended(i) <=> Ended(i - 1) \/ DashDash(argv[i])
BY DEF Ended

LEMMA PlacesFinite ==
  ASSUME IInv, NEW n \in Nat
  PROVE  /\ IsFiniteSet(Before(n)) /\ Cardinality(Before(n)) \in Nat
         /\ \A i \in OperandPlaces : IsFiniteSet(UpTo(i)) /\ Cardinality(UpTo(i)) \in Nat
         /\ Before(n) = {} <=> Cardinality(Before(n)) = 0
<1>1. IsFiniteSet(1..Len(argv))
  BY ArgvTyped, FS_Interval
<1>2. \A S : S \subseteq 1..Len(argv) => IsFiniteSet(S)
  BY <1>1, FS_Subset
<1>3. Before(n) \subseteq 1..Len(argv) /\ \A i \in OperandPlaces : UpTo(i) \subseteq 1..Len(argv)
  BY DEF Before, UpTo, OperandPlaces
<1>4. IsFiniteSet(Before(n)) /\ \A i \in OperandPlaces : IsFiniteSet(UpTo(i))
  BY <1>2, <1>3
<1> QED
  BY <1>4, FS_CardinalityType, FS_EmptySet

(* The place of an operand is its number among the operands.               *)
LEMMA OneOperandMore ==
  ASSUME IInv, NEW n \in 1..Len(argv), n \in OperandPlaces
  PROVE  /\ Before(n + 1) = Before(n) \cup {n} /\ n \notin Before(n)
         /\ UpTo(n) = Before(n + 1)
         /\ Cardinality(UpTo(n)) = Cardinality(Before(n)) + 1
         /\ \A i \in Before(n) : Cardinality(UpTo(i)) \in 1..Cardinality(Before(n))
<1> Len(argv) \in Nat /\ n \in Nat
  BY ArgvTyped
<1>1. Before(n + 1) = Before(n) \cup {n} /\ n \notin Before(n) /\ UpTo(n) = Before(n + 1)
  BY DEF Before, UpTo, OperandPlaces
<1>2. IsFiniteSet(Before(n)) /\ Cardinality(Before(n)) \in Nat
  BY PlacesFinite
<1>3. Cardinality(UpTo(n)) = Cardinality(Before(n)) + 1
  BY <1>1, <1>2, FS_AddElement
<1>4. ASSUME NEW i \in Before(n)
      PROVE  Cardinality(UpTo(i)) \in 1..Cardinality(Before(n))
  <2>1. UpTo(i) \subseteq Before(n) /\ i \in UpTo(i)
    BY <1>4 DEF UpTo, Before, OperandPlaces
  <2>2. IsFiniteSet(UpTo(i)) /\ Cardinality(UpTo(i)) \in Nat
    BY <1>2, <2>1, FS_Subset, FS_CardinalityType
  <2>3. Cardinality(UpTo(i)) <= Cardinality(Before(n))
    BY <1>2, <2>1, FS_Subset
  <2>4. Cardinality(UpTo(i)) # 0
    BY <2>1, <2>2, FS_EmptySet
  <2> QED
    BY <2>2, <2>3, <2>4, <1>2
<1> QED
  BY <1>1, <1>3, <1>4

(* An argument that is none leaves the operands as they are.               *)
LEMMA NoOperandMore ==
  ASSUME IInv, NEW n \in 1..Len(argv), n \notin OperandPlaces
  PROVE  Before(n + 1) = Before(n)
BY ArgvTyped DEF Before, OperandPlaces

(* Nothing but the command line itself decides what its places are.        *)
LEMMA PlacesKept ==
  ASSUME UNCHANGED argv
  PROVE  /\ OperandPlaces' = OperandPlaces /\ LetterPlaces' = LetterPlaces
         /\ \A n : Before(n)' = Before(n) /\ UpTo(n)' = UpTo(n)
         /\ \A n : Ended(n)' <=> Ended(n)
         /\ \A p : LetterAt(p)' = LetterAt(p)
<1>1. \A n : Ended(n)' <=> Ended(n)
  BY DEF Ended, DashDash
<1>2. OperandPlaces' = OperandPlaces
  BY <1>1 DEF OperandPlaces, Dash
<1>3. LetterPlaces' = LetterPlaces
  BY <1>1 DEF LetterPlaces, Dash
<1> QED
  BY <1>1, <1>2, <1>3 DEF Before, UpTo, LetterAt
(* Operands that nothing touches stay what they were.                      *)
LEMMA SameOperands ==
  ASSUME UNCHANGED <<argv, inputs>>, OperandsBefore(index')
  PROVE  OperandsBefore(index)'
<1>1. Before(index)' = Before(index') /\ \A i : UpTo(i)' = UpTo(i)
  BY PlacesKept DEF Before
<1> QED
  BY <1>1 DEF OperandsBefore

LEMMA InitParse == Init => ParseInv
<1> SUFFICES ASSUME Init PROVE ParseInv
  OBVIOUS
<1>1. IInv
  BY InitIInv
<1>2. pc = "args" /\ index = 1 /\ isFlag = TRUE /\ inputs = << >> /\ opts = {}
  BY DEF Init
<1>3. ~Ended(0)
  BY DEF Ended
<1>4. Before(1) = {}
  BY DEF Before, OperandPlaces
<1>5. OperandsBefore(1)
  BY <1>2, <1>4, FS_EmptySet DEF OperandsBefore
<1>6. LettersRead = {}
  BY <1>1, <1>2, PlaceOfLetter DEF LettersRead
<1>7. OptionsBy(LettersRead)
  BY <1>2, <1>6 DEF OptionsBy
<1> QED
  BY <1>1, <1>2, <1>3, <1>5, <1>7 DEF ParseInv, ParsedAsGiven

(* One letter more: what -f and -t leave depends on which came last.       *)
LEMMA OneLetterMore ==
  ASSUME ParseInv, Letter
  PROVE  OptionsBy(LettersRead)'
<1> DEFINE new == <<index, sub>>
           c == Arg[sub]
           R == LettersRead
<1>1. /\ IInv /\ pc = "letters" /\ OptionsBy(R) /\ Dash(Arg) /\ ~Ended(index)
      /\ sub >= 2 /\ sub <= Len(Arg) /\ c \in DOMAIN Sets
      /\ index \in 1..Len(argv) /\ sub \in Nat /\ Len(argv) \in Nat
  BY ArgvTyped DEF ParseInv, IInv, TypeOK, Letter
<1>2. /\ UNCHANGED <<argv, index, pc>> /\ sub' = sub + 1
      /\ opts' = (opts \ Clears(c)) \cup Sets[c]
  BY DEF Letter
<1>3. /\ LetterPlaces' = LetterPlaces /\ \A p : LetterAt(p)' = LetterAt(p)
  BY <1>2, PlacesKept
<1>4. new \in LetterPlaces /\ LetterAt(new) = c
  BY <1>1, PlaceOfLetter DEF Arg, LetterAt
<1>5. \A p \in LetterPlaces : \E i \in 1..Len(argv), k \in Nat : p = <<i, k>>
  BY <1>1, PlaceOfLetter
<1>6. LettersRead' = R \cup {new}
  BY <1>1, <1>2, <1>3, <1>4, <1>5 DEF LettersRead
<1>7. \A p \in R : Later(p, new) /\ ~Later(new, p)
  BY <1>1, <1>5 DEF LettersRead, Later
<1>8. ~Later(new, new)
  BY <1>1 DEF Later
<1>9. /\ Clears(c) = IF c = "t" THEN {"unsort"} ELSE {}
      /\ "unsort" \in Sets[c] <=> c = "f"
      /\ c = "f" => "all" \in Sets[c]
      /\ "all" # "unsort"
  BY <1>1 DEF Clears, Sets
<1>10. ASSUME NEW o \in AllOptions \ {"unsort"}
       PROVE  o \in opts' <=> \E p \in R \cup {new} : o \in Sets[LetterAt(p)]
  <2>1. o \in opts' <=> o \in opts \/ o \in Sets[c]
    BY <1>2, <1>9
  <2>2. o \in opts <=> \E p \in R : o \in Sets[LetterAt(p)]
    BY <1>1 DEF OptionsBy
  <2> QED
    BY <1>4, <2>1, <2>2
<1>11. "unsort" \in opts <=>
         \E p \in R :
           /\ LetterAt(p) = "f"
           /\ \A q \in R : Later(p, q) => LetterAt(q) # "t"
  BY <1>1 DEF OptionsBy
<1>12. "unsort" \in opts' <=>
         \E p \in R \cup {new} :
           /\ LetterAt(p) = "f"
           /\ \A q \in R \cup {new} : Later(p, q) => LetterAt(q) # "t"
  <2>1. CASE c = "f"
    <3>1. "unsort" \in opts'
      BY <1>2, <1>9, <2>1
    <3> QED
      BY <1>4, <1>7, <1>8, <2>1, <3>1
  <2>2. CASE c = "t"
    <3>1. "unsort" \notin opts'
      BY <1>2, <1>9, <2>2
    <3> QED
      BY <1>4, <1>7, <2>2, <3>1
  <2>3. CASE c # "f" /\ c # "t"
    <3>1. "unsort" \in opts' <=> "unsort" \in opts
      BY <1>2, <1>9, <2>3
    <3> QED
      BY <1>4, <1>11, <2>3, <3>1
  <2> QED
    BY <2>1, <2>2, <2>3
<1>13. "unsort" \in opts' => "all" \in opts'
  <2>1. "unsort" \in opts => "all" \in opts
    BY <1>1 DEF OptionsBy
  <2> QED
    BY <1>2, <1>9, <2>1
<1>14. AllOptions' = AllOptions
  BY DEF AllOptions, Sets
<1> QED
  BY <1>3, <1>6, <1>10, <1>12, <1>13 DEF OptionsBy

(* What was read does not change while no letter is.                       *)
LEMMA NoLetterMore ==
  ASSUME OptionsBy(LettersRead), UNCHANGED <<argv, opts>>, LettersRead' = LettersRead
  PROVE  OptionsBy(LettersRead)'
<1>1. \A p : LetterAt(p)' = LetterAt(p)
  BY PlacesKept
<1> QED
  BY <1>1 DEF OptionsBy

(* An argument that is no cluster, or of which all letters are read, adds  *)
(* no letter.                                                              *)
LEMMA NextArgument ==
  ASSUME IInv, index \in 1..Len(argv), index' = index + 1, UNCHANGED argv, pc' = "args",
         \A k \in 2..Len(Arg) :
           Dash(Arg) /\ ~Ended(index) => pc = "letters" /\ k < sub
  PROVE  LettersRead' = LettersRead
<1>1. LetterPlaces' = LetterPlaces
  BY PlacesKept
<1>2. ASSUME NEW p \in LetterPlaces
      PROVE  p[1] < index' <=>
               p[1] < index \/ (pc = "letters" /\ p[1] = index /\ p[2] < sub)
  <2>1. PICK i \in 1..Len(argv), k \in Nat :
          p = <<i, k>> /\ k \in 2..Len(argv[i]) /\ Dash(argv[i]) /\ ~Ended(i)
    BY <1>2, PlaceOfLetter
  <2>2. i = index => pc = "letters" /\ k < sub
    BY <2>1 DEF Arg
  <2> QED
    BY <2>1, <2>2, ArgvTyped
<1> QED
  BY <1>1, <1>2 DEF LettersRead

LEMMA EndOfOptionsParses ==
  ASSUME ParseInv, EndOfOptions
  PROVE  /\ isFlag' <=> ~Ended(index - 1)'
         /\ OperandsBefore(index)'
         /\ OptionsBy(LettersRead)'
<1>1. /\ IInv /\ pc = "args" /\ index \in 1..Len(argv) /\ Len(argv) \in Nat
      /\ isFlag /\ DashDash(Arg) /\ ~Ended(index - 1)
      /\ OperandsBefore(index) /\ OptionsBy(LettersRead)
  BY ArgvTyped DEF ParseInv, EndOfOptions, Terminator, IInv, TypeOK
<1>2. /\ UNCHANGED <<argv, pc, sub, opts, inputs>>
      /\ index' = index + 1 /\ isFlag' = FALSE
  BY DEF EndOfOptions
<1>3. Ended(index)
  BY <1>1 DEF Ended, Arg
<1>4. Dash(argv[index])
  BY <1>1 DEF Dash, DashDash, Arg
<1>5. index \notin OperandPlaces
  BY <1>1, <1>4 DEF OperandPlaces
<1>6. OperandsBefore(index')
  BY <1>1, <1>2, <1>5, NoOperandMore DEF OperandsBefore
<1>7. LettersRead' = LettersRead
  BY <1>1, <1>2, <1>3, NextArgument
<1>8. Ended(index - 1)'
  <2>1. Ended(index - 1)' <=> Ended(index' - 1)
    BY <1>2 DEF Ended, DashDash
  <2> QED
    BY <1>1, <1>2, <1>3, <2>1
<1> QED
  BY <1>1, <1>2, <1>6, <1>7, <1>8, SameOperands, NoLetterMore

LEMMA OperandParses ==
  ASSUME ParseInv, Operand
  PROVE  /\ isFlag' <=> ~Ended(index - 1)'
         /\ OperandsBefore(index)'
         /\ OptionsBy(LettersRead)'
<1>1. /\ IInv /\ pc = "args" /\ index \in 1..Len(argv) /\ Len(argv) \in Nat
      /\ isFlag <=> ~Ended(index - 1)
      /\ ~Terminator /\ (isFlag => ~Dash(Arg))
      /\ OperandsBefore(index) /\ OptionsBy(LettersRead)
  BY ArgvTyped DEF ParseInv, Operand, IsOperand, IInv, TypeOK
<1>2. /\ UNCHANGED <<argv, pc, sub, isFlag, opts>> /\ index' = index + 1
      /\ inputs' = Append(inputs, argv[index])
  BY DEF Operand, AppendInput, Arg
<1>3. index \in OperandPlaces
  BY <1>1 DEF OperandPlaces, Arg
<1>4. Ended(index) <=> Ended(index - 1)
  BY <1>1, EndedNext DEF Terminator, Arg
<1>5. Ended(index - 1)' <=> Ended(index)
  <2>1. Ended(index - 1)' <=> Ended(index' - 1)
    BY <1>2 DEF Ended, DashDash
  <2> QED
    BY <1>1, <1>2, <2>1
<1>6. LettersRead' = LettersRead
  BY <1>1, <1>2, <1>4, NextArgument
<1>7. OperandsBefore(index)'
  <2>1. /\ Before(index)' = Before(index + 1)
        /\ \A i : UpTo(i)' = UpTo(i)
    BY <1>2, PlacesKept DEF Before
  <2>2. /\ Before(index + 1) = Before(index) \cup {index}
        /\ UpTo(index) = Before(index + 1)
        /\ Cardinality(UpTo(index)) = Cardinality(Before(index)) + 1
        /\ \A i \in Before(index) : Cardinality(UpTo(i)) \in 1..Cardinality(Before(index))
    BY <1>1, <1>3, OneOperandMore
  <2>3. Cardinality(Before(index)) \in Nat
    BY <1>1, PlacesFinite
  <2>4. Len(inputs) = Cardinality(Before(index)) /\ inputs \in Seq(Argument \cup {<<".">>})
    BY <1>1 DEF OperandsBefore, IInv, TypeOK
  <2>5. Len(inputs') = Cardinality(Before(index + 1))
    BY <1>2, <2>2, <2>4
  <2>6. ASSUME NEW i \in Before(index)
        PROVE  inputs'[Cardinality(UpTo(i))] = argv[i]
    <3>1. inputs[Cardinality(UpTo(i))] = argv[i]
      BY <1>1, <2>6 DEF OperandsBefore
    <3>2. Cardinality(UpTo(i)) \in 1..Len(inputs)
      BY <2>2, <2>4
    <3> QED
      BY <1>2, <2>4, <3>1, <3>2
  <2>7. inputs'[Cardinality(UpTo(index))] = argv[index]
    <3>1. Cardinality(UpTo(index)) = Len(inputs) + 1
      BY <2>2, <2>4
    <3> QED
      BY <1>2, <2>4, <3>1
  <2> QED
    BY <1>2, <2>1, <2>2, <2>5, <2>6, <2>7 DEF OperandsBefore
<1> QED
  BY <1>1, <1>2, <1>4, <1>5, <1>6, <1>7, NoLetterMore

LEMMA ClusterParses ==
  ASSUME ParseInv, Cluster
  PROVE  /\ isFlag' <=> ~Ended(index - 1)'
         /\ OperandsBefore(index)'
         /\ OptionsBy(LettersRead)'
         /\ Dash(Arg)' /\ ~Ended(index)' /\ sub' >= 2
<1>1. /\ IInv /\ pc = "args" /\ index \in 1..Len(argv) /\ Len(argv) \in Nat
      /\ isFlag /\ ~Ended(index - 1) /\ ~DashDash(Arg) /\ Dash(Arg)
      /\ OperandsBefore(index) /\ OptionsBy(LettersRead)
  BY ArgvTyped DEF ParseInv, Cluster, IsOperand, Terminator, IInv, TypeOK
<1>2. UNCHANGED <<argv, index, isFlag, opts, inputs>> /\ pc' = "letters" /\ sub' = 2
  BY DEF Cluster
<1>3. ~Ended(index)
  BY <1>1, EndedNext DEF Arg
<1>4. /\ Ended(index - 1)' <=> Ended(index - 1)
      /\ Ended(index)' <=> Ended(index)
      /\ Dash(Arg)' <=> Dash(Arg)
  BY <1>2 DEF Ended, DashDash, Dash, Arg
<1>5. \A p \in LetterPlaces : p[2] >= 2
  BY <1>1, PlaceOfLetter
<1>6. LetterPlaces' = LetterPlaces
  BY <1>2, PlacesKept
<1>7. \A p \in LetterPlaces : ~(p[2] < sub')
  <2>1. \A p \in LetterPlaces : \E i \in 1..Len(argv), k \in Nat : p = <<i, k>> /\ k >= 2
    BY <1>1, PlaceOfLetter
  <2> QED
    BY <1>2, <2>1
<1>8. LettersRead' = LettersRead
  BY <1>1, <1>2, <1>6, <1>7 DEF LettersRead
<1> QED
  BY <1>1, <1>2, <1>3, <1>4, <1>8, SameOperands, NoLetterMore

LEMMA ClusterDoneParses ==
  ASSUME ParseInv, ClusterDone
  PROVE  /\ isFlag' <=> ~Ended(index - 1)'
         /\ OperandsBefore(index)'
         /\ OptionsBy(LettersRead)'
<1>1. /\ IInv /\ pc = "letters" /\ index \in 1..Len(argv) /\ Len(argv) \in Nat
      /\ isFlag <=> ~Ended(index - 1)
      /\ Dash(Arg) /\ ~Ended(index) /\ sub > Len(Arg) /\ sub \in Nat
      /\ OperandsBefore(index) /\ OptionsBy(LettersRead)
  BY ArgvTyped DEF ParseInv, ClusterDone, IInv, TypeOK
<1>2. UNCHANGED <<argv, isFlag, opts, inputs>> /\ pc' = "args" /\ index' = index + 1
  BY DEF ClusterDone
<1>3. ~Ended(index - 1)
  BY <1>1, EndedNext
<1>4. Ended(index - 1)' <=> Ended(index)
  <2>1. Ended(index - 1)' <=> Ended(index' - 1)
    BY <1>2 DEF Ended, DashDash
  <2> QED
    BY <1>1, <1>2, <2>1
<1>5. index \notin OperandPlaces
  BY <1>1, <1>3 DEF OperandPlaces, Arg
<1>6. OperandsBefore(index')
  BY <1>1, <1>2, <1>5, NoOperandMore DEF OperandsBefore
<1>7. LettersRead' = LettersRead
  <2>1. Len(Arg) \in Nat
    BY <1>1, ArgvTyped DEF Arg
  <2> QED
    BY <1>1, <1>2, <2>1, NextArgument
<1> QED
  BY <1>1, <1>2, <1>3, <1>4, <1>6, <1>7, SameOperands, NoLetterMore

(* When no argument is left, all operands and letters have been read.      *)
LEMMA ArgsDoneParses ==
  ASSUME ParseInv, ArgsDone
  PROVE  ParsedAsGiven'
<1>1. /\ IInv /\ pc = "args" /\ Len(argv) \in Nat /\ index = Len(argv) + 1
      /\ OperandsBefore(index) /\ OptionsBy(LettersRead)
  <2>1. IInv /\ Len(argv) \in Nat /\ index \in 1..(Len(argv) + 1)
    BY ArgvTyped DEF ParseInv, IInv, TypeOK
  <2>2. pc = "args" /\ index > Len(argv)
    BY DEF ArgsDone
  <2> QED
    BY <2>1, <2>2 DEF ParseInv
<1>2. /\ UNCHANGED <<argv, opts>>
      /\ IF inputs = << >> THEN inputs' = Append(inputs, <<".">>) ELSE inputs' = inputs
  BY DEF ArgsDone, AppendInput
<1>3. Before(index) = OperandPlaces
  BY <1>1 DEF Before, OperandPlaces
<1>4. OperandPlaces = {} <=> inputs = << >>
  <2>1. Before(index) = {} <=> Len(inputs) = 0
    BY <1>1, PlacesFinite DEF OperandsBefore
  <2> QED
    BY <1>1, <1>3, <2>1 DEF IInv, TypeOK
<1>5. OperandsInOrder'
  <2>1. OperandPlaces' = OperandPlaces /\ \A i : UpTo(i)' = UpTo(i)
    BY <1>2, PlacesKept
  <2>2. CASE OperandPlaces = {}
    BY <1>2, <1>4, <2>1, <2>2 DEF OperandsInOrder
  <2>3. CASE OperandPlaces # {}
    BY <1>1, <1>2, <1>3, <1>4, <2>1, <2>3 DEF OperandsInOrder, OperandsBefore
  <2> QED
    BY <2>2, <2>3
<1>6. LettersRead = LetterPlaces
  <2>1. \A p \in LetterPlaces : p[1] < index
    BY <1>1, PlaceOfLetter
  <2> QED
    BY <2>1 DEF LettersRead
<1>7. LetterPlaces' = LetterPlaces /\ \A p : LetterAt(p)' = LetterAt(p)
  BY <1>2, PlacesKept
<1>8. OptionsSet' /\ LastOfFAndT'
  BY <1>1, <1>2, <1>6, <1>7 DEF OptionsSet, LastOfFAndT, OptionsBy
<1>9. "unsort" \in opts' => "all" \in opts'
  BY <1>1, <1>2 DEF OptionsBy
<1> QED
  BY <1>5, <1>8, <1>9 DEF ParsedAsGiven

LEMMA NextParse == ParseInv /\ [Next]_vars => ParseInv'
<1> SUFFICES ASSUME ParseInv, [Next]_vars PROVE ParseInv'
  OBVIOUS
<1>1. IInv'
  BY NextIInv DEF ParseInv
<1> USE <1>1
<1>2. CASE EndOfOptions
  <2>1. pc' = "args"
    BY <1>2 DEF EndOfOptions
  <2> QED
    BY <1>2, <2>1, EndOfOptionsParses DEF ParseInv, ParsedAsGiven
<1>3. CASE Operand
  <2>1. pc' = "args"
    BY <1>3 DEF Operand
  <2> QED
    BY <1>3, <2>1, OperandParses DEF ParseInv, ParsedAsGiven
<1>4. CASE Cluster
  <2>1. pc' = "letters"
    BY <1>4 DEF Cluster
  <2> QED
    BY <1>4, <2>1, ClusterParses DEF ParseInv, ParsedAsGiven
<1>5. CASE Letter
  <2>1. /\ pc = "letters" /\ UNCHANGED <<pc, argv, index, isFlag, inputs>>
        /\ sub' = sub + 1 /\ sub \in Nat
    BY <1>5 DEF Letter, ParseInv, IInv, TypeOK
  <2>2. /\ Ended(index - 1)' <=> Ended(index - 1)
        /\ Ended(index)' <=> Ended(index)
        /\ Dash(Arg)' <=> Dash(Arg)
    BY <2>1 DEF Ended, DashDash, Dash, Arg
  <2>3. OperandsBefore(index)'
    BY <2>1, SameOperands DEF ParseInv
  <2>4. OptionsBy(LettersRead)'
    BY <1>5, OneLetterMore
  <2> QED
    BY <2>1, <2>2, <2>3, <2>4 DEF ParseInv, ParsedAsGiven
<1>6. CASE ClusterDone
  <2>1. pc' = "args"
    BY <1>6 DEF ClusterDone
  <2> QED
    BY <1>6, <2>1, ClusterDoneParses DEF ParseInv, ParsedAsGiven
<1>7. CASE ArgsDone
  <2>1. pc' = "process"
    BY <1>7 DEF ArgsDone
  <2> QED
    BY <1>7, <2>1, ArgsDoneParses DEF ParseInv
<1>8. CASE InitFails \/ AppendFails \/ BadLetter \/ Process \/ Destroy
  <2>1. pc' \in {"destroy", "exit"}
    BY <1>8 DEF InitFails, AppendFails, BadLetter, Process, Destroy, Fail
  <2> QED
    BY <2>1 DEF ParseInv, ParsedAsGiven
<1>9. CASE UNCHANGED vars
  <2>1. UNCHANGED <<argv, pc, index, sub, isFlag, opts, inputs>>
    BY <1>9 DEF vars
  <2>2. /\ Ended(index - 1)' <=> Ended(index - 1)
        /\ Ended(index)' <=> Ended(index)
        /\ Dash(Arg)' <=> Dash(Arg)
    BY <2>1 DEF Ended, DashDash, Dash, Arg
  <2>3. OperandsBefore(index) => OperandsBefore(index)'
    BY <2>1, SameOperands
  <2>4. OptionsBy(LettersRead) => OptionsBy(LettersRead)'
    <3>1. LettersRead' = LettersRead
      BY <2>1, PlacesKept DEF LettersRead
    <3> QED
      BY <2>1, <3>1, NoLetterMore
  <2>5. ParsedAsGiven'
    <3>1. ParsedAsGiven
      BY DEF ParseInv
    <3>2. LetterPlaces' = LetterPlaces /\ \A p : LetterAt(p)' = LetterAt(p)
      BY <2>1, PlacesKept
    <3>3. OperandPlaces' = OperandPlaces /\ \A i : UpTo(i)' = UpTo(i)
      BY <2>1, PlacesKept
    <3>4. OperandsInOrder' <=> OperandsInOrder
      BY <2>1, <3>3 DEF OperandsInOrder
    <3>5. (OptionsSet' <=> OptionsSet) /\ (LastOfFAndT' <=> LastOfFAndT)
      BY <2>1, <3>2 DEF OptionsSet, LastOfFAndT
    <3> QED
      BY <2>1, <3>1, <3>4, <3>5 DEF ParsedAsGiven
  <2> QED
    BY <2>1, <2>2, <2>3, <2>4, <2>5 DEF ParseInv
<1> QED
  BY <1>2, <1>3, <1>4, <1>5, <1>6, <1>7, <1>8, <1>9 DEF Next

(* The command line means what its arguments say, for all arguments and    *)
(* command lines of every length: operands in order, each option set by    *)
(* its letters only, and of -f and -t the last decides.                    *)
THEOREM MeantAsGiven == Spec => []ParsedAsGiven
<1>1. ParseInv => ParsedAsGiven
  BY DEF ParseInv
<1>2. QED
  BY InitParse, NextParse, <1>1, PTL DEF Spec
=============================================================================
