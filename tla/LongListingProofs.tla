------------------------- MODULE LongListingProofs -------------------------
(***************************************************************************)
(* Theorems about the long listing: what it asks of each file (FileInfo),  *)
(* for every size of a word, of the buffers and of the targets; the names  *)
(* of owners and groups (NameCache) and the table of the rows              *)
(* (LongFormat), for every ring, list and answer of the database.          *)
(***************************************************************************)
EXTENDS FileInfo, LongFormat, SequenceTheorems, FiniteSetTheorems, WellFoundedInduction,
        TLAPS

(***************************************************************************)
(* FileInfo.  IInv says what lies on the arena at each step: the string of *)
(* the permissions, above it a buffer while one is needed.                 *)
(***************************************************************************)
Perm == Block("perm", 0)
PCs == {"perm", "first", "query", "large", "link", "alloc", "read", "done", "failed"}

NumbersOK == pc \in PCs /\ size \in 0..(Word - 1) /\ cap \in Nat /\ target \in Nat

(* The arena while the entry is worked on.                                 *)
Held ==
  /\ pc = "perm" => arena = << >>
  /\ pc \in {"first", "query", "link", "alloc"} => arena = <<Perm>>
  /\ pc = "large" => arena = <<Perm, Block("names", used)>>
  /\ pc = "read" => arena = <<Perm, Block("target", cap)>> /\ cap <= MaxCap

NoResultYet ==
  pc \notin {"done", "failed"} => result = NULL /\ readErr = "none"

(* The arena and the result when the entry is complete.                    *)
Complete ==
  /\ result.at = 2
  /\ \E c \in Nat : arena = <<Perm, Block("target", c)>> /\ result.len <= c
  /\ IF readErr = "none" THEN result.len = target
     ELSE readErr = "soft" /\ result.len = 0

Finished ==
  pc = "done" => IF result = NULL THEN arena = <<Perm>> ELSE Complete

IInv == NumbersOK /\ Held /\ NoResultYet /\ Finished
-----------------------------------------------------------------------------
(* Sequences of one and two elements. *)
LEMMA Pairs ==
  ASSUME NEW a, NEW b
  PROVE  /\ Append(<<a>>, b) = <<a, b>>
         /\ SubSeq(<<a>>, 1, 1) = <<a>> /\ SubSeq(<<a, b>>, 1, 1) = <<a>>
         /\ Front(<<a, b>>) = <<a>> /\ Len(<<a, b>>) = 2
<1> DEFINE S == {a, b}
<1>1. <<a>> \in Seq(S) /\ <<a, b>> \in Seq(S) /\ Len(<<a>>) = 1 /\ Len(<<a, b>>) = 2
  OBVIOUS
<1>2. Append(<<a>>, b) = <<a, b>>
  <2>1. /\ Append(<<a>>, b) \in Seq(S) /\ Len(Append(<<a>>, b)) = 2
        /\ Append(<<a>>, b)[1] = <<a>>[1] /\ Append(<<a>>, b)[2] = b
    BY <1>1, AppendProperties
  <2>2. \A i \in 1..2 : Append(<<a>>, b)[i] = <<a, b>>[i]
    <3>1. <<a, b>>[1] = a /\ <<a, b>>[2] = b /\ <<a>>[1] = a
      OBVIOUS
    <3> QED
      BY <2>1, <3>1
  <2> QED
    BY <1>1, <2>1, <2>2, SeqEqual
<1>3. \A s \in {<<a>>, <<a, b>>} : SubSeq(s, 1, 1) = <<a>>
  <2> TAKE s \in {<<a>>, <<a, b>>}
  <2>1. /\ SubSeq(s, 1, 1) \in Seq(S) /\ Len(SubSeq(s, 1, 1)) = 1
        /\ SubSeq(s, 1, 1)[1] = s[1]
    OBVIOUS
  <2>2. s[1] = a /\ <<a>>[1] = a
    OBVIOUS
  <2>3. \A i \in 1..1 : SubSeq(s, 1, 1)[i] = <<a>>[i]
    BY <2>1, <2>2
  <2> QED
    BY <1>1, <2>1, <2>3, SeqEqual
<1>4. Front(<<a, b>>) = SubSeq(<<a, b>>, 1, 1)
  BY <1>1 DEF Front
<1> QED
  BY <1>1, <1>2, <1>3, <1>4

(* What Copied and Fits say of a target that did fit. *)
LEMMA CopiedWhole ==
  ASSUME cap \in Nat, NEW len \in Nat, Fits(Copied(len))
  PROVE  Copied(len) = len /\ len <= cap
BY DEF Fits, Copied

LEMMA InitIInv == Init => IInv
<1> SUFFICES ASSUME Init PROVE IInv
  OBVIOUS
<1>1. pc = "perm" /\ arena = << >> /\ result = NULL /\ readErr = "none"
  BY DEF Init
<1>2. NumbersOK
  BY FileInfoAssumption DEF Init, NumbersOK, PCs
<1> QED
  BY <1>1, <1>2 DEF IInv, Held, NoResultYet, Finished

LEMMA NextIInv == IInv /\ [Next]_vars => IInv'
<1> SUFFICES ASSUME IInv, [Next]_vars PROVE IInv'
  OBVIOUS
<1> USE FileInfoAssumption DEF IInv, NumbersOK, PCs
<1>1. CASE GetPerm
  BY <1>1, Pairs DEF GetPerm, Push, Held, NoResultYet, Finished, attrVars, linkVars, Perm
<1>2. ASSUME NEW attrs \in SUBSET Attrs, First(attrs) PROVE IInv'
  BY <1>2 DEF First, Marked, Held, NoResultYet, Finished, linkVars
<1>3. ASSUME NEW attrs \in SUBSET Attrs, Query(attrs) PROVE IInv'
  BY <1>3, Pairs DEF Query, Marked, Push, Held, NoResultYet, Finished, linkVars
<1>4. ASSUME NEW attrs \in SUBSET Attrs, QueryNoMemory(attrs) PROVE IInv'
  BY <1>4 DEF QueryNoMemory, Marked, Held, NoResultYet, Finished, linkVars
<1>5. ASSUME NEW attrs \in SUBSET Attrs, Large(attrs) PROVE IInv'
  BY <1>5, Pairs DEF Large, Marked, NamesPopped, Held, NoResultYet, Finished, linkVars
<1>6. ASSUME NEW e, AttrsFail(e) PROVE IInv'
  BY <1>6, Pairs DEF AttrsFail, Marked, NamesPopped, Held, NoResultYet, Finished, linkVars
<1>7. CASE NoLink
  BY <1>7 DEF NoLink, Held, NoResultYet, Finished, attrVars, linkVars
<1>8. CASE StartLink
  BY <1>8 DEF StartLink, Return, Refused, Held, NoResultYet, Finished, attrVars
<1>9. CASE Alloc
  BY <1>9, Pairs DEF Alloc, Allowed, Push, Held, NoResultYet, Finished, attrVars, linkVars
<1>10. CASE AllocFails
  BY <1>10 DEF AllocFails, Return, Held, NoResultYet, Finished, attrVars
<1>11. ASSUME NEW len \in Targets, ReadWhole(len) PROVE IInv'
  <2>1. Copied(len) = len /\ len <= cap
    BY <1>11, CopiedWhole DEF ReadWhole
  <2>2. arena = <<Perm, Block("target", cap)>> /\ arena' = arena /\ Len(arena) = 2
    BY <1>11, Pairs DEF ReadWhole, Held
  <2>3. result' = [len |-> len, at |-> 2] /\ pc' = "done" /\ target' = len
    BY <1>11, <2>1, <2>2 DEF ReadWhole, Return, NULL
  <2>4. readErr' = "none"
    BY <1>11 DEF ReadWhole, NoResultYet
  <2>5. Complete'
    BY <2>1, <2>2, <2>3, <2>4 DEF Complete
  <2>6. result' # NULL
    BY <2>3 DEF NULL
  <2>7. NumbersOK'
    BY <1>11, <2>3 DEF ReadWhole
  <2> QED
    BY <2>3, <2>5, <2>6, <2>7 DEF Held, NoResultYet, Finished
<1>12. ASSUME NEW len \in Targets, ReadFilled(len) PROVE IInv'
  <2>1. arena' = <<Perm>>
    BY <1>12, Pairs DEF ReadFilled, TargetPopped, Held
  <2>2. target' \in Nat /\ size' = size
    BY <1>12 DEF ReadFilled
  <2>3. CASE Return(NULL) /\ UNCHANGED cap
    <3>1. pc' = "failed" /\ cap' = cap
      BY <2>3 DEF Return
    <3> QED
      BY <2>1, <2>2, <3>1 DEF Held, NoResultYet, Finished
  <2>4. CASE cap' = Larger /\ pc' = "alloc" /\ UNCHANGED result
    <3>1. result' = NULL /\ readErr' = "none"
      BY <1>12, <2>4 DEF ReadFilled, NoResultYet
    <3>2. cap' \in Nat
      BY <2>4 DEF Larger
    <3> QED
      BY <2>1, <2>2, <2>4, <3>1, <3>2 DEF Held, NoResultYet, Finished
  <2> QED
    BY <1>12, <2>3, <2>4 DEF ReadFilled
<1>13. ASSUME NEW e \in {"soft", "hard"}, ReadFails(e) PROVE IInv'
  <2>1. TargetPopped = <<Perm>>
    BY <1>13, Pairs DEF ReadFails, TargetPopped, Held
  <2>2. CASE Return(NULL)
    BY <1>13, <2>2 DEF ReadFails, Return, Held, NoResultYet, Finished
  <2>3. CASE /\ e = "soft"
             /\ arena' = Append(TargetPopped, Block("target", 0))
             /\ Return([len |-> 0, at |-> Len(arena')])
    <3>1. arena' = <<Perm, Block("target", 0)>> /\ Len(arena') = 2
      BY <2>1, <2>3, Pairs
    <3>2. result' = [len |-> 0, at |-> 2] /\ pc' = "done" /\ readErr' = "soft"
      BY <1>13, <2>3, <3>1 DEF ReadFails, Return, NULL
    <3>3. Complete'
      BY <3>1, <3>2 DEF Complete
    <3>4. result' # NULL
      BY <3>2 DEF NULL
    <3>5. NumbersOK'
      BY <1>13, <3>2 DEF ReadFails
    <3> QED
      BY <3>2, <3>3, <3>4, <3>5 DEF Held, NoResultYet, Finished
  <2> QED
    BY <1>13, <2>2, <2>3 DEF ReadFails
<1>14. CASE NextFile
  BY <1>14 DEF NextFile, Held, NoResultYet, Finished
<1>15. CASE UNCHANGED vars
  BY <1>15 DEF vars, attrVars, linkVars, Held, NoResultYet, Finished, Complete
<1> QED
  BY <1>1, <1>2, <1>3, <1>4, <1>5, <1>6, <1>7, <1>8, <1>9, <1>10, <1>11, <1>12,
     <1>13, <1>14, <1>15 DEF Next

LEMMA InvariantHolds == Spec => []IInv
<1>1. QED
  BY InitIInv, NextIInv, PTL DEF Spec
-----------------------------------------------------------------------------
(* For every size of buffers, words and targets: a target that is returned *)
(* is the whole target as one readlink saw it, or empty with a soft error. *)
THEOREM TargetsWhole == Spec => []NeverTruncated
<1>1. IInv => NeverTruncated
  BY DEF IInv, Finished, Complete, NeverTruncated
<1>2. QED
  BY <1>1, InvariantHolds, PTL

(* Whatever the calls answer, an entry leaves its own fields on the arena  *)
(* and nothing else, and a target lies within its string.                  *)
THEOREM FieldsOnly == Spec => []OnlyFields
<1>1. ASSUME arena = <<Perm>> PROVE Fields = <<"perm">>
  BY <1>1 DEF Fields, Perm, Block
<1>2. ASSUME NEW c \in Nat, arena = <<Perm, Block("target", c)>>
      PROVE  Fields = <<"perm", "target">> /\ arena[2].cap = c
  BY <1>2 DEF Fields, Perm, Block
<1>3. IInv => OnlyFields
  <2> SUFFICES ASSUME IInv PROVE OnlyFields
    OBVIOUS
  <2>1. pc \in {"link", "alloc"} => Fields = <<"perm">>
    BY <1>1 DEF IInv, Held
  <2>2. ASSUME pc = "done", result = NULL PROVE Fields = <<"perm">>
    BY <1>1, <2>2 DEF IInv, Finished
  <2>3. ASSUME pc = "done", result # NULL
        PROVE  Fields = <<"perm", "target">> /\ result.at = 2 /\ result.len <= arena[2].cap
    <3>1. Complete
      BY <2>3 DEF IInv, Finished
    <3>2. PICK c \in Nat : arena = <<Perm, Block("target", c)>> /\ result.len <= c
      BY <3>1 DEF Complete
    <3> QED
      BY <1>2, <3>1, <3>2 DEF Complete
  <2>4. ASSUME pc = "read" PROVE Fields = <<"perm", "target">> /\ arena[2].cap <= MaxCap
    BY <1>2, <2>4 DEF IInv, Held, NumbersOK
  <2> QED
    BY <2>1, <2>2, <2>3, <2>4 DEF OnlyFields
<1>4. QED
  BY <1>3, InvariantHolds, PTL
-----------------------------------------------------------------------------
(* Sets of attributes, and a buffer after llistxattr. *)

AttrName == Attrs \cup {"junk"}

LEMMA AttrsFinite ==
  ASSUME NEW attrs \in SUBSET Attrs
  PROVE  /\ IsFiniteSet(attrs) /\ Cardinality(attrs) \in Nat
         /\ Cardinality(Attrs) \in Nat /\ Cardinality(attrs) <= Cardinality(Attrs)
<1>1. IsFiniteSet({"acl"}) /\ IsFiniteSet({"acl"} \cup {"selinux"})
  BY FS_Singleton, FS_AddElement
<1>2. IsFiniteSet(({"acl"} \cup {"selinux"}) \cup {"user"})
  BY <1>1, FS_AddElement
<1>3. IsFiniteSet(Attrs)
  <2>1. Attrs = ({"acl"} \cup {"selinux"}) \cup {"user"}
    BY DEF Attrs
  <2> QED
    BY <1>2, <2>1
<1> QED
  BY <1>3, FS_Subset, FS_CardinalityType

(* SetToSeq enumerates its set. *)
LEMMA Enumerated ==
  ASSUME NEW attrs \in SUBSET Attrs
  PROVE  /\ SetToSeq(attrs) \in [1..Cardinality(attrs) -> attrs]
         /\ \A a \in attrs : \E i \in 1..Cardinality(attrs) : SetToSeq(attrs)[i] = a
<1> DEFINE n == Cardinality(attrs)
<1>1. IsFiniteSet(attrs) /\ n \in Nat
  BY AttrsFinite
<1>2. PICK f : f \in Bijection(1..n, attrs)
  BY <1>1, FS_CardinalityType DEF ExistsBijection
<1>3. f \in [1..n -> attrs] /\ IsInjective(f)
  BY <1>2 DEF Bijection, Injection
<1>4. SetToSeq(attrs) \in [1..n -> attrs] /\ IsInjective(SetToSeq(attrs))
  BY <1>3 DEF SetToSeq
<1>5. SetToSeq(attrs) \in Injection(1..n, attrs)
  BY <1>4 DEF Injection
<1>6. IsFiniteSet(1..n) /\ Cardinality(1..n) = n
  BY <1>1, FS_Interval
<1>7. SetToSeq(attrs) \in Surjection(1..n, attrs)
  BY <1>1, <1>5, <1>6, FS_Injection
<1> QED
  BY <1>4, <1>7 DEF Surjection

LEMMA ListedFacts ==
  ASSUME NEW N \in Nat, NEW buf \in [1..N -> AttrName], NEW attrs \in SUBSET Attrs,
         Cardinality(attrs) <= N
  PROVE  /\ Listed(buf, attrs) \in [1..N -> AttrName]
         /\ ToSet(SubSeq(Listed(buf, attrs), 1, Cardinality(attrs))) = attrs
<1> DEFINE n == Cardinality(attrs)
           found == SetToSeq(attrs)
           rest == SubSeq(buf, n + 1, N)
           list == found \o rest
<1>1. n \in Nat /\ n <= N
  BY AttrsFinite
<1>2. found \in [1..n -> attrs] /\ \A a \in attrs : \E i \in 1..n : found[i] = a
  BY Enumerated
<1> HIDE DEF n, found
<1>3. found \in Seq(AttrName) /\ Len(found) = n
  BY <1>1, <1>2 DEF AttrName
<1>4. buf \in Seq(AttrName) /\ Len(buf) = N
  OBVIOUS
<1>5. rest \in Seq(AttrName) /\ Len(rest) = N - n
  BY <1>1, <1>4, SubSeqProperties
<1> HIDE DEF rest
<1>6. /\ list \in Seq(AttrName) /\ Len(list) = N
      /\ \A i \in 1..n : list[i] = found[i]
  BY <1>1, <1>3, <1>5, ConcatProperties
<1>7. Listed(buf, attrs) = list
  BY <1>3, <1>4 DEF Listed, found, rest, n
<1> HIDE DEF list
<1>8. /\ SubSeq(list, 1, n) \in Seq(AttrName) /\ Len(SubSeq(list, 1, n)) = n
      /\ \A i \in 1..n : SubSeq(list, 1, n)[i] = list[i]
  BY <1>1, <1>6, SubSeqProperties
<1>9. ToSet(SubSeq(list, 1, n)) = {found[i] : i \in 1..n}
  BY <1>6, <1>8 DEF ToSet
<1>10. {found[i] : i \in 1..n} = attrs
  BY <1>2
<1>11. list \in [1..N -> AttrName]
  BY <1>6
<1> QED
  BY <1>7, <1>9, <1>10, <1>11 DEF n

(* The mark shown for a set of attributes. *)
MarkOf(attrs) == IF "acl" \in attrs THEN "plus" ELSE IF "selinux" \in attrs THEN "dot" ELSE "blank"
-----------------------------------------------------------------------------
(* MarkRight concerns the step after the mark was chosen; before, nothing  *)
(* has been seen.                                                          *)
MInv == MarkRight /\ (pc = "perm" => seen = {} /\ mark = "blank")

MarkTrue ==
  /\ mark = "plus" => \E attrs \in seen : "acl" \in attrs
  /\ mark = "dot" => \E attrs \in seen : "selinux" \in attrs
  /\ ~trouble /\ seen # {} /\ (\A attrs \in seen : "acl" \in attrs) => mark = "plus"
  /\ mark = "question" => trouble

Memory == Seq([what : {"perm", "names", "target"}, cap : Nat])

(* The attributes chosen by a step have been seen. *)
LEMMA MarkSeen ==
  ASSUME NEW attrs \in SUBSET Attrs, attrs \in seen', mark' = MarkOf(attrs)
  PROVE  MarkTrue' /\ mark' \in {"blank", "plus", "dot", "question"}
BY DEF MarkTrue, MarkOf

LEMMA MarkFailed ==
  ASSUME trouble' = TRUE, mark' \in {"blank", "question"}
  PROVE  MarkTrue'
BY DEF MarkTrue

(* What lies on the arena has its type. *)
LEMMA MemoryType ==
  ASSUME NEW n \in Nat, NEW m \in Nat
  PROVE  /\ << >> \in Memory /\ <<Perm>> \in Memory
         /\ <<Perm, Block("names", n)>> \in Memory /\ <<Perm, Block("target", m)>> \in Memory
<1>1. /\ Perm \in [what : {"perm", "names", "target"}, cap : Nat]
      /\ Block("names", n) \in [what : {"perm", "names", "target"}, cap : Nat]
      /\ Block("target", m) \in [what : {"perm", "names", "target"}, cap : Nat]
  BY DEF Perm, Block
<1> QED
  BY <1>1 DEF Memory

LEMMA InitMInv == Init => MInv
<1> SUFFICES ASSUME Init PROVE MInv
  OBVIOUS
<1>1. << >> \in Memory
  BY MemoryType
<1>2. Cardinality(Attrs) \in Nat
  BY AttrsFinite
<1>3. TypeOK
  <2>1. /\ stack \in [1..StackSize -> Attrs \cup {"junk"}]
        /\ heap \in [1..Cardinality(Attrs) -> Attrs \cup {"junk"}]
    BY DEF Init
  <2>2. files \in 0..MaxFiles /\ size \in Sizes /\ target \in Nat
    BY FileInfoAssumption DEF Init
  <2>3. arena \in Memory /\ result \in [len : Nat, at : Nat] /\ readErr \in Errors
    BY <1>1 DEF Init, NULL, Errors
  <2>4. cap \in 0..(Word - 1)
    BY FileInfoAssumption DEF Init
  <2>5. used \in 0..Cardinality(Attrs)
    BY <1>2 DEF Init
  <2> QED
    BY <2>1, <2>2, <2>3, <2>4, <2>5 DEF Init, TypeOK, Memory
<1> QED
  BY <1>3 DEF Init, MInv, MarkRight

(* The calls for the attributes. *)
LEMMA FirstMark ==
  ASSUME MInv, NEW attrs \in SUBSET Attrs, First(attrs)
  PROVE  MInv'
<1> DEFINE n == Cardinality(attrs)
<1>1. n \in Nat /\ StackSize \in Nat /\ stack \in [1..StackSize -> AttrName]
  BY AttrsFinite, FileInfoAssumption DEF MInv, MarkRight, TypeOK, AttrName
<1>2. attrs \in seen' /\ seen' = seen \cup {attrs}
  BY DEF First, Sees
<1>3. CASE n <= StackSize
  <2>1. stack' = Listed(stack, attrs) /\ pc' = "link" /\ mark' = Classify(stack', n)
    BY <1>3 DEF First, Marked
  <2>2. stack' \in [1..StackSize -> AttrName] /\ ToSet(SubSeq(stack', 1, n)) = attrs
    BY <1>1, <1>3, <2>1, ListedFacts
  <2>3. mark' = MarkOf(attrs)
    BY <2>1, <2>2 DEF Classify, MarkOf
  <2>4. MarkTrue' /\ mark' \in {"blank", "plus", "dot", "question"}
    BY <1>2, <2>3, MarkSeen
  <2>5. TypeOK'
    BY <2>1, <2>2, <2>4 DEF First, linkVars, MInv, MarkRight, TypeOK, AttrName
  <2> QED
    BY <2>1, <2>4, <2>5 DEF MInv, MarkRight, MarkTrue
<1>4. CASE ~(n <= StackSize)
  <2>1. pc' = "query" /\ UNCHANGED <<stack, mark>>
    BY <1>4 DEF First
  <2>2. TypeOK'
    BY <2>1 DEF First, linkVars, MInv, MarkRight, TypeOK
  <2> QED
    BY <2>1, <2>2 DEF MInv, MarkRight
<1> QED
  BY <1>3, <1>4

LEMMA QueryMark ==
  ASSUME IInv, MInv, NEW attrs \in SUBSET Attrs, Query(attrs)
  PROVE  MInv'
<1>1. used' \in 0..Cardinality(Attrs) /\ used' \in Nat
  <2>1. /\ Cardinality(attrs) \in Nat /\ Cardinality(Attrs) \in Nat
        /\ Cardinality(attrs) <= Cardinality(Attrs)
    BY AttrsFinite
  <2>2. used' = Cardinality(attrs)
    BY DEF Query
  <2> QED
    BY <2>1, <2>2
<1>2. attrs \in seen'
  BY DEF Query, Sees
<1>3. CASE attrs = {}
  <2>1. pc' = "link" /\ mark' = MarkOf(attrs) /\ arena' = arena
    BY <1>3 DEF Query, Marked, MarkOf
  <2>2. MarkTrue' /\ mark' \in {"blank", "plus", "dot", "question"}
    BY <1>2, <2>1, MarkSeen
  <2>3. TypeOK'
    BY <1>1, <2>1, <2>2 DEF Query, linkVars, MInv, MarkRight, TypeOK
  <2> QED
    BY <2>1, <2>2, <2>3 DEF MInv, MarkRight, MarkTrue
<1>4. CASE attrs # {}
  <2>1. pc' = "large" /\ mark' = mark /\ arena' = Append(arena, Block("names", used'))
    BY <1>4 DEF Query, Push
  <2>2. arena' = <<Perm, Block("names", used')>>
    BY <2>1, Pairs DEF IInv, Held, Query
  <2>3. arena' \in Memory
    BY <1>1, <2>2, MemoryType
  <2>4. TypeOK'
    BY <1>1, <2>1, <2>3 DEF Query, linkVars, MInv, MarkRight, TypeOK, Memory
  <2> QED
    BY <2>1, <2>4 DEF MInv, MarkRight
<1> QED
  BY <1>3, <1>4

LEMMA LargeMark ==
  ASSUME IInv, MInv, NEW attrs \in SUBSET Attrs, Large(attrs)
  PROVE  MInv'
<1> DEFINE n == Cardinality(attrs)
<1>1. n \in 0..Cardinality(Attrs) /\ Cardinality(Attrs) \in Nat
  BY AttrsFinite
<1>2. used' = n /\ pc' = "link" /\ heap' = Listed(heap, attrs) /\ mark' = Classify(heap', n)
  BY DEF Large, Used, Marked
<1>3. /\ heap' \in [1..Cardinality(Attrs) -> AttrName]
      /\ ToSet(SubSeq(heap', 1, n)) = attrs
  <2>1. heap \in [1..Cardinality(Attrs) -> AttrName]
    BY DEF MInv, MarkRight, TypeOK, AttrName
  <2> QED
    BY <1>1, <1>2, <2>1, ListedFacts
<1>4. attrs \in seen' /\ mark' = MarkOf(attrs)
  BY <1>2, <1>3 DEF Large, Sees, Classify, MarkOf
<1>5. MarkTrue' /\ mark' \in {"blank", "plus", "dot", "question"}
  BY <1>4, MarkSeen
<1>6. arena' \in Memory
  <2>1. arena' = <<Perm>>
    BY Pairs DEF Large, NamesPopped, IInv, Held
  <2> QED
    BY <2>1, MemoryType
<1>7. TypeOK'
  BY <1>1, <1>2, <1>3, <1>5, <1>6
  DEF Large, linkVars, MInv, MarkRight, TypeOK, AttrName, Memory
<1> QED
  BY <1>2, <1>5, <1>7 DEF MInv, MarkRight, MarkTrue

LEMMA FailsMark ==
  ASSUME IInv, MInv,
         \/ \E attrs \in SUBSET Attrs : QueryNoMemory(attrs)
         \/ \E e \in {"ENOTSUP", "ERANGE", "other"} : AttrsFail(e)
  PROVE  MInv'
<1>1. /\ pc' = "link" /\ trouble' = TRUE /\ mark' \in {"blank", "question"}
      /\ UNCHANGED <<files, stack, heap, used, linkVars>>
  BY DEF QueryNoMemory, AttrsFail, Marked, ErrorMark
<1>2. MarkTrue'
  BY <1>1, MarkFailed
<1>3. arena' = <<Perm>>
  BY Pairs DEF QueryNoMemory, AttrsFail, NamesPopped, IInv, Held
<1>4. arena' \in Memory
  BY <1>3, MemoryType
<1>5. TypeOK'
  BY <1>1, <1>4 DEF linkVars, MInv, MarkRight, TypeOK, Memory
<1> QED
  BY <1>1, <1>2, <1>5 DEF MInv, MarkRight, MarkTrue

(* The steps that leave the mark alone. *)
LEMMA LinkMark ==
  ASSUME IInv, MInv,
         \/ NoLink \/ StartLink \/ Alloc \/ AllocFails
         \/ \E len \in Targets : ReadWhole(len) \/ ReadFilled(len)
         \/ \E e \in {"soft", "hard"} : ReadFails(e)
  PROVE  MInv'
<1> USE FileInfoAssumption DEF MInv, MarkRight, TypeOK
<1>1. Perm \in [what : {"perm", "names", "target"}, cap : Nat]
  BY DEF Perm, Block
<1>2. CASE NoLink
  BY <1>2 DEF NoLink, attrVars, linkVars
<1>3. CASE StartLink
  <2>1. cap' \in 0..(Word - 1) /\ pc' \in {"failed", "alloc"} /\ result' \in [len : Nat, at : Nat]
    BY <1>3 DEF StartLink, Return, NULL
  <2> QED
    BY <1>3, <2>1 DEF StartLink, attrVars
<1>4. CASE Alloc
  <2>1. arena' = <<Perm, Block("target", cap)>> /\ cap \in Nat
    <3>1. arena = <<Perm>> /\ arena' = Append(arena, Block("target", cap))
      BY <1>4 DEF Alloc, Push, IInv, Held
    <3> QED
      BY <3>1, Pairs
  <2>2. arena' \in Memory
    BY <2>1, MemoryType
  <2> QED
    BY <1>4, <2>2 DEF Alloc, attrVars, linkVars, Memory
<1>5. CASE AllocFails
  BY <1>5 DEF AllocFails, Return, attrVars, NULL
<1>6. ASSUME NEW len \in Targets, ReadWhole(len) PROVE MInv'
  <2>1. Copied(len) \in Nat /\ Len(arena) \in Nat
    BY DEF Copied
  <2>2. result' \in [len : Nat, at : Nat] /\ pc' \in {"done", "failed"} /\ target' \in Nat
    BY <1>6, <2>1 DEF ReadWhole, Return
  <2> QED
    BY <1>6, <2>2 DEF ReadWhole, attrVars
<1>7. ASSUME NEW len \in Targets, ReadFilled(len) PROVE MInv'
  <2>1. arena' \in Memory
    <3>1. arena' = <<Perm>>
      BY <1>7, Pairs DEF ReadFilled, TargetPopped, IInv, Held
    <3> QED
      BY <3>1, MemoryType
  <2>2. /\ cap' \in 0..(Word - 1) /\ pc' \in {"failed", "alloc"}
        /\ result' \in [len : Nat, at : Nat] /\ target' \in Nat
    BY <1>7 DEF ReadFilled, Larger, Return, NULL
  <2> QED
    BY <1>7, <2>1, <2>2 DEF ReadFilled, attrVars, Memory
<1>8. ASSUME NEW e \in {"soft", "hard"}, ReadFails(e) PROVE MInv'
  <2>1. TargetPopped = <<Perm>>
    <3>1. arena = <<Perm, Block("target", cap)>>
      BY <1>8 DEF ReadFails, IInv, Held
    <3> QED
      BY <3>1, Pairs DEF TargetPopped
  <2>2. arena' \in Memory /\ Len(arena') \in Nat
    <3>1. arena' = <<Perm>> \/ arena' = <<Perm, Block("target", 0)>>
      BY <1>8, <2>1, Pairs DEF ReadFails
    <3> QED
      BY <3>1, MemoryType DEF Memory
  <2>3. result' \in [len : Nat, at : Nat] /\ pc' \in {"done", "failed"} /\ readErr' \in Errors
    BY <1>8, <2>2 DEF ReadFails, Return, NULL, Errors
  <2> QED
    BY <1>8, <2>2, <2>3 DEF ReadFails, attrVars, Memory
<1> QED
  BY <1>2, <1>3, <1>4, <1>5, <1>6, <1>7, <1>8

LEMMA NextMInv == IInv /\ MInv /\ [Next]_vars => MInv'
<1> SUFFICES ASSUME IInv, MInv, [Next]_vars PROVE MInv'
  OBVIOUS
<1>1. CASE GetPerm
  <2>1. arena' = <<Perm>>
    BY <1>1 DEF GetPerm, Push, IInv, Held, Perm
  <2>2. arena' \in Memory
    BY <2>1, MemoryType
  <2> QED
    BY <1>1, <2>2 DEF GetPerm, attrVars, linkVars, MInv, MarkRight, TypeOK, Memory
<1>2. CASE NextFile
  <2>1. << >> \in Memory /\ Cardinality(Attrs) \in Nat
    BY MemoryType, AttrsFinite
  <2>2. /\ arena' \in Memory /\ result' \in [len : Nat, at : Nat] /\ readErr' \in Errors
    BY <1>2, <2>1 DEF NextFile, NULL, Errors
  <2>3. /\ files' \in 0..MaxFiles /\ used' \in 0..Cardinality(Attrs)
        /\ cap' \in 0..(Word - 1) /\ target' \in Nat /\ size' \in Sizes
    BY <1>2, <2>1, FileInfoAssumption DEF NextFile, MInv, MarkRight, TypeOK
  <2>4. TypeOK'
    BY <1>2, <2>2, <2>3 DEF NextFile, MInv, MarkRight, TypeOK, Memory
  <2> QED
    BY <1>2, <2>4 DEF NextFile, MInv, MarkRight
<1>3. CASE UNCHANGED vars
  BY <1>3 DEF vars, attrVars, linkVars, MInv, MarkRight, TypeOK
<1> QED
  BY <1>1, <1>2, <1>3, FirstMark, QueryMark, LargeMark, FailsMark, LinkMark DEF Next

(* For every set of attributes, every change of them between two calls and *)
(* every buffer that an earlier file left behind: the mark is that of a    *)
(* set the file had, and a question mark means that a call failed          *)
(* (get_acl_attr_).                                                        *)
THEOREM MarkOfThisFile == Spec => []MarkRight
<1>1. MInv => MarkRight
  BY DEF MInv
<1>2. QED
  BY <1>1, InitMInv, NextMInv, InvariantHolds, PTL DEF Spec
-----------------------------------------------------------------------------
(***************************************************************************)
(* NameCache.                                                              *)
(***************************************************************************)
Given(k, id) == Name[k] \cup {Number(id)}
Slot == [name : Seq(STRING), id : Id \cup {0}]
InUse(k, i) == cache[k][i].name # << >>

(* What is in the slots comes from the database, once for each id. *)
SlotsInv ==
  /\ cache \in [Kinds -> [0..(CacheSize - 1) -> Slot]] /\ next \in [Kinds -> Nat]
  /\ \A k \in Kinds : \A i \in 0..(CacheSize - 1) :
       InUse(k, i) =>
         /\ cache[k][i].id \in Id
         /\ \E name \in said[k][cache[k][i].id] : cache[k][i].name = Truncated(name)
  /\ \A k \in Kinds : \A i, j \in 0..(CacheSize - 1) :
       InUse(k, i) /\ InUse(k, j) /\ cache[k][i].id = cache[k][j].id => i = j

SaidInv ==
  /\ said \in [Kinds -> [Id -> SUBSET Seq(STRING)]]
  /\ \A k \in Kinds : \A id \in Id : said[k][id] \subseteq Given(k, id)

ShownInv ==
  \/ shown = Nothing
  \/ \E k \in Kinds, id \in Id : \E name \in said[k][id] :
       \E s \in {name, Truncated(name)} : shown = [kind |-> k, id |-> id, name |-> s]

CacheInv == SlotsInv /\ SaidInv /\ ShownInv

(* The last CacheSize names are in the slots before the next one. *)
RecentInv ==
  /\ recent \in [Kinds -> Seq([id : Id, name : Seq(STRING)])]
  /\ \A k \in Kinds : Len(recent[k]) <= CacheSize /\ Len(recent[k]) <= next[k]
  /\ \A k \in Kinds : \A j \in 1..Len(recent[k]) :
       cache[k][(next[k] - Len(recent[k]) + j - 1) % CacheSize]
         = [name |-> Truncated(recent[k][j].name), id |-> recent[k][j].id]

(* What a name looks like in a slot. *)
LEMMA TruncatedFacts ==
  ASSUME NEW name \in Seq(STRING)
  PROVE  /\ Truncated(name) \in Seq(STRING)
         /\ Len(Truncated(name)) <= Len(name) /\ Len(Truncated(name)) <= MaxName
         /\ Truncated(name) = << >> => name = << >>
<1> DEFINE n == IF Len(name) < MaxName THEN Len(name) ELSE MaxName
<1>1. n \in Nat /\ n <= Len(name) /\ n <= MaxName /\ (n = 0 => Len(name) = 0)
  BY CacheAssumption, LenProperties
<1> HIDE DEF n
<1>2. SubSeq(name, 1, n) \in Seq(STRING) /\ Len(SubSeq(name, 1, n)) = n
  BY <1>1, SubSeqProperties
<1>3. Len(name) = 0 => name = << >>
  BY EmptySeq
<1> QED
  BY <1>1, <1>2, <1>3 DEF Truncated, n

LEMMA GivenFacts ==
  ASSUME NEW k \in Kinds, NEW id \in Id
  PROVE  Given(k, id) \subseteq Seq(STRING) /\ Number(id) \in Given(k, id)
<1>1. <<ToString(id)>> \in Seq(STRING)
  BY IdAssumption
<1>2. Name[k] \subseteq Seq(STRING)
  BY IdAssumption DEF Kinds
<1> QED
  BY <1>1, <1>2 DEF Given, Number

LEMMA InitCacheInv == CacheInit => CacheInv /\ RecentInv
<1> SUFFICES ASSUME CacheInit PROVE CacheInv /\ RecentInv
  OBVIOUS
<1>1. << >> \in Seq(STRING) /\ << >> \in Seq([id : Id, name : Seq(STRING)])
  OBVIOUS
<1>2. Empty \in Slot /\ Empty.name = << >>
  BY <1>1 DEF Empty, Slot
<1>3. SlotsInv
  BY <1>2 DEF SlotsInv, CacheInit, InUse
<1>4. SaidInv
  BY DEF SaidInv, CacheInit
<1>5. RecentInv
  BY <1>1, CacheAssumption DEF RecentInv, CacheInit
<1> QED
  BY <1>3, <1>4, <1>5 DEF CacheInv, ShownInv, CacheInit

LEMMA SameFunction ==
  ASSUME NEW D, NEW R, NEW f \in [D -> R], NEW g \in [D -> R],
         \A x \in D : f[x] = g[x]
  PROVE  f = g
OBVIOUS

(* Positions less than a ring apart are different slots. *)
LEMMA Residue ==
  ASSUME NEW a \in Nat, NEW b \in Nat, NEW C \in Nat \ {0}, a < b, b < a + C
  PROVE  a % C # b % C
<1> DEFINE q == a \div C
           r == b \div C
<1>1. /\ q \in Int /\ r \in Int /\ a % C \in Int /\ b % C \in Int
      /\ a = C * q + (a % C) /\ b = C * r + (b % C)
  OBVIOUS
<1> HIDE DEF q, r
<1> SUFFICES ASSUME a % C = b % C PROVE FALSE
  OBVIOUS
<1>2. b - a = C * r - C * q /\ C * r \in Int /\ C * q \in Int
  BY <1>1
<1>3. C * r - C * q = C * (r - q)
  BY <1>1
<1>4. CASE r <= q
  <2>1. C * (r - q) <= 0
    BY <1>1, <1>4
  <2> QED
    BY <1>2, <1>3, <2>1
<1>5. CASE r > q
  <2>1. C * (r - q) >= C
    BY <1>1, <1>5
  <2> QED
    BY <1>2, <1>3, <2>1
<1> QED
  BY <1>1, <1>4, <1>5

(* cache_store_ changes one slot. *)
LEMMA StoreSlot ==
  ASSUME SlotsInv, NEW k \in Kinds, NEW id \in Id, NEW name \in Seq(STRING),
         Store(k, id, name)
  PROVE  LET new == [name |-> Truncated(name), id |-> id] IN
         /\ cache' \in [Kinds -> [0..(CacheSize - 1) -> Slot]] /\ next' \in [Kinds -> Nat]
         /\ Index(k) \in 0..(CacheSize - 1)
         /\ \A m \in Kinds : \A i \in 0..(CacheSize - 1) :
              cache'[m][i] = IF m = k /\ i = Index(k) THEN new ELSE cache[m][i]
         /\ \A m \in Kinds : next'[m] = IF m = k THEN next[k] + 1 ELSE next[m]
<1> DEFINE new == [name |-> Truncated(name), id |-> id]
           ring == [cache[k] EXCEPT ![Index(k)] = new]
<1>1. Index(k) \in 0..(CacheSize - 1)
  BY CacheAssumption DEF Index, SlotsInv
<1>2. new \in Slot
  BY TruncatedFacts DEF Slot
<1>3. cache' = [cache EXCEPT ![k] = ring] /\ next' = [next EXCEPT ![k] = @ + 1]
  BY DEF Store
<1>4. /\ ring \in [0..(CacheSize - 1) -> Slot] /\ ring[Index(k)] = new
      /\ \A i \in 0..(CacheSize - 1) : i # Index(k) => ring[i] = cache[k][i]
  <2> HIDE DEF new
  <2> QED
    BY <1>1, <1>2 DEF SlotsInv
<1> HIDE DEF ring, new
<1>5. /\ cache' \in [Kinds -> [0..(CacheSize - 1) -> Slot]] /\ next' \in [Kinds -> Nat]
      /\ \A m \in Kinds : next'[m] = IF m = k THEN next[k] + 1 ELSE next[m]
      /\ \A m \in Kinds : cache'[m] = IF m = k THEN ring ELSE cache[m]
  BY <1>3, <1>4 DEF SlotsInv
<1>6. \A m \in Kinds : \A i \in 0..(CacheSize - 1) :
        cache'[m][i] = IF m = k /\ i = Index(k) THEN new ELSE cache[m][i]
  BY <1>4, <1>5
<1> QED
  BY <1>1, <1>5, <1>6 DEF new

(* A name that was asked for because no slot has it is stored once. *)
LEMMA StoreSlots ==
  ASSUME SlotsInv, SaidInv, NEW k \in Kinds, NEW id \in Id, NEW name \in Seq(STRING),
         Ask(k, id, name), Store(k, id, name)
  PROVE  SlotsInv'
<1> DEFINE new == [name |-> Truncated(name), id |-> id]
<1>1. /\ cache' \in [Kinds -> [0..(CacheSize - 1) -> Slot]] /\ next' \in [Kinds -> Nat]
      /\ Index(k) \in 0..(CacheSize - 1)
      /\ \A m \in Kinds : \A i \in 0..(CacheSize - 1) :
           cache'[m][i] = IF m = k /\ i = Index(k) THEN new ELSE cache[m][i]
  BY StoreSlot
<1>2. new.name = Truncated(name) /\ new.id = id
  OBVIOUS
<1> HIDE DEF new
<1>3. /\ \A m \in Kinds : \A a \in Id : said[m][a] \subseteq said'[m][a]
      /\ name \in said'[k][id]
  BY DEF Ask, SaidInv
<1>4. \A i \in 0..(CacheSize - 1) : InUse(k, i) => cache[k][i].id # id
  BY DEF Ask, Slots, InUse, SlotsInv
<1>5. ASSUME NEW m \in Kinds, NEW i \in 0..(CacheSize - 1), cache'[m][i].name # << >>
      PROVE  /\ cache'[m][i].id \in Id
             /\ \E n \in said'[m][cache'[m][i].id] : cache'[m][i].name = Truncated(n)
  <2>1. CASE m = k /\ i = Index(k)
    <3>1. cache'[m][i] = new
      BY <1>1, <2>1
    <3> QED
      BY <3>1, <1>2, <1>3, <2>1
  <2>2. CASE ~(m = k /\ i = Index(k))
    <3>1. cache'[m][i] = cache[m][i]
      BY <1>1, <2>2
    <3>2. InUse(m, i)
      BY <3>1, <1>5 DEF InUse
    <3>3. PICK n \in said[m][cache[m][i].id] :
            cache[m][i].id \in Id /\ cache[m][i].name = Truncated(n)
      BY <3>2 DEF SlotsInv
    <3> QED
      BY <3>1, <3>3, <1>3
  <2> QED
    BY <2>1, <2>2
<1>6. ASSUME NEW m \in Kinds, NEW i \in 0..(CacheSize - 1), NEW j \in 0..(CacheSize - 1),
             cache'[m][i].name # << >>, cache'[m][j].name # << >>,
             cache'[m][i].id = cache'[m][j].id
      PROVE  i = j
  <2>1. CASE m = k /\ i = Index(k) /\ j # Index(k)
    <3>1. cache'[m][i] = new /\ cache'[m][j] = cache[k][j]
      BY <1>1, <2>1
    <3> QED
      BY <3>1, <1>2, <1>4, <1>6 DEF InUse
  <2>2. CASE m = k /\ j = Index(k) /\ i # Index(k)
    <3>1. cache'[m][j] = new /\ cache'[m][i] = cache[k][i]
      BY <1>1, <2>2
    <3> QED
      BY <3>1, <1>2, <1>4, <1>6 DEF InUse
  <2>3. CASE ~(m = k /\ i = Index(k)) /\ ~(m = k /\ j = Index(k))
    <3>1. cache'[m][i] = cache[m][i] /\ cache'[m][j] = cache[m][j]
      BY <1>1, <2>3
    <3> QED
      BY <3>1, <1>6 DEF SlotsInv, InUse
  <2> QED
    BY <2>1, <2>2, <2>3
<1> QED
  BY <1>1, <1>5, <1>6 DEF SlotsInv, InUse

LEMMA AskSaid ==
  ASSUME SaidInv, NEW k \in Kinds, NEW id \in Id, NEW name \in Given(k, id),
         Ask(k, id, name)
  PROVE  SaidInv' /\ ShownInv' /\ shown'.name = name
<1>1. Given(k, id) \subseteq Seq(STRING)
  BY GivenFacts
<1>2. \A m \in Kinds : \A a \in Id :
        said'[m][a] = IF m = k /\ a = id THEN said[k][id] \cup {name} ELSE said[m][a]
  BY DEF Ask, SaidInv
<1>3. said' \in [Kinds -> [Id -> SUBSET Seq(STRING)]]
  BY <1>1 DEF Ask, SaidInv
<1>4. \A m \in Kinds : \A a \in Id : said'[m][a] \subseteq Given(m, a)
  BY <1>2 DEF SaidInv
<1>5. shown' = [kind |-> k, id |-> id, name |-> name]
  BY DEF Ask, Show
<1>6. name \in said'[k][id]
  BY <1>2
<1> QED
  BY <1>3, <1>4, <1>5, <1>6 DEF SaidInv, ShownInv, Given, Number
(* A hit shows what the database has said of this id. *)
LEMMA HitShown ==
  ASSUME SlotsInv, SaidInv, NEW k \in Kinds, NEW id \in Id, Hit(k, id)
  PROVE  \E name \in said[k][id] :
           Truncated(name) = shown'.name
           /\ shown' = [kind |-> k, id |-> id, name |-> Truncated(name)]
<1>1. PICK i \in Slots(k, id) : TRUE
  BY DEF Hit
<1>2. i \in 0..(CacheSize - 1) /\ \A j \in Slots(k, id) : j = i
  BY <1>1 DEF Slots, SlotsInv, InUse
<1>3. (CHOOSE p \in Slots(k, id) : \A j \in Slots(k, id) : p <= j) = i
  <2>1. \A j \in Slots(k, id) : i <= j
    BY <1>2
  <2>2. \E p \in Slots(k, id) : \A j \in Slots(k, id) : p <= j
    BY <1>1, <2>1
  <2> QED
    BY <1>2, <2>2
<1>4. shown' = [kind |-> k, id |-> id, name |-> cache[k][i].name]
  BY <1>3 DEF Hit, Show, Lookup
<1>5. \E name \in said[k][id] : cache[k][i].name = Truncated(name)
  BY <1>1, <1>2 DEF Slots, SlotsInv, InUse
<1> QED
  BY <1>4, <1>5

(* The order of the ring after a name was stored. *)
LEMMA StoreRecent ==
  ASSUME SlotsInv, RecentInv, NEW k \in Kinds, NEW id \in Id, NEW name \in Seq(STRING),
         Store(k, id, name)
  PROVE  RecentInv'
<1> DEFINE Pair == [id : Id, name : Seq(STRING)]
           pair == [id |-> id, name |-> name]
           new == [name |-> Truncated(name), id |-> id]
           old == recent[k]
           kept == IF Len(old) = CacheSize THEN Tail(old) ELSE old
           n == next[k]
<1>1. pair \in Pair /\ pair.id = id /\ pair.name = name
  OBVIOUS
<1>2. /\ old \in Seq(Pair) /\ Len(old) \in Nat /\ n \in Nat /\ CacheSize \in Nat \ {0}
      /\ Len(old) <= CacheSize /\ Len(old) <= n
      /\ \A j \in 1..Len(old) :
           cache[k][(n - Len(old) + j - 1) % CacheSize]
             = [name |-> Truncated(old[j].name), id |-> old[j].id]
  <2>1. old \in Seq(Pair)
    BY DEF RecentInv
  <2>2. Len(old) \in Nat /\ CacheSize \in Nat \ {0} /\ n \in Nat
    BY <2>1, CacheAssumption, LenProperties DEF SlotsInv
  <2> QED
    BY <2>1, <2>2 DEF RecentInv
<1>3. /\ cache' \in [Kinds -> [0..(CacheSize - 1) -> Slot]] /\ next' \in [Kinds -> Nat]
      /\ Index(k) \in 0..(CacheSize - 1)
      /\ \A m \in Kinds : \A i \in 0..(CacheSize - 1) :
           cache'[m][i] = IF m = k /\ i = Index(k) THEN new ELSE cache[m][i]
      /\ \A m \in Kinds : next'[m] = IF m = k THEN n + 1 ELSE next[m]
  BY StoreSlot
<1>4. Index(k) = n % CacheSize
  BY DEF Index
<1>5. /\ recent' = [recent EXCEPT ![k] = Append(kept, pair)]
      /\ recent \in [Kinds -> Seq(Pair)]
  BY DEF Store, RecentInv
<1> HIDE DEF Pair, pair, new, old, n
<1>6. /\ kept \in Seq(Pair)
      /\ Len(kept) = IF Len(old) = CacheSize THEN CacheSize - 1 ELSE Len(old)
      /\ \A j \in 1..Len(kept) :
           kept[j] = old[IF Len(old) = CacheSize THEN j + 1 ELSE j]
  <2>1. Len(old) = CacheSize => old # << >>
    BY <1>2
  <2>2. Len(old) = CacheSize =>
          /\ Tail(old) \in Seq(Pair) /\ Len(Tail(old)) = CacheSize - 1
          /\ \A j \in 1..Len(Tail(old)) : Tail(old)[j] = old[j + 1]
    BY <1>2, <2>1, HeadTailProperties
  <2> QED
    BY <1>2, <2>2
<1> HIDE DEF kept
<1>7. /\ Append(kept, pair) \in Seq(Pair) /\ Len(Append(kept, pair)) = Len(kept) + 1
      /\ \A j \in 1..Len(kept) : Append(kept, pair)[j] = kept[j]
      /\ Append(kept, pair)[Len(kept) + 1] = pair
  BY <1>1, <1>6, AppendProperties
<1>8. /\ recent' \in [Kinds -> Seq(Pair)] /\ recent'[k] = Append(kept, pair)
      /\ \A m \in Kinds : m # k => recent'[m] = recent[m]
  BY <1>5, <1>7
<1>9. ASSUME NEW j \in 1..Len(recent'[k])
      PROVE  cache'[k][(next'[k] - Len(recent'[k]) + j - 1) % CacheSize]
               = [name |-> Truncated(recent'[k][j].name), id |-> recent'[k][j].id]
  <2> DEFINE at == next'[k] - Len(recent'[k]) + j - 1
  <2>1. Len(recent'[k]) = Len(kept) + 1 /\ Len(kept) \in Nat /\ next'[k] = n + 1
    BY <1>2, <1>3, <1>6, <1>7, <1>8
  <2>2. at = n - Len(kept) + j - 1
    BY <2>1, <1>2
  <2>3. CASE j = Len(kept) + 1
    <3>1. at = n
      BY <2>1, <2>2, <2>3, <1>2
    <3>2. cache'[k][at % CacheSize] = new
      BY <3>1, <1>3, <1>4
    <3>3. recent'[k][j] = pair
      BY <2>3, <1>7, <1>8
    <3> QED
      BY <3>2, <3>3, <1>1 DEF new
  <2>4. CASE j # Len(kept) + 1
    <3> DEFINE i == IF Len(old) = CacheSize THEN j + 1 ELSE j
    <3>1. j \in 1..Len(kept) /\ recent'[k][j] = old[i]
      BY <2>1, <2>4, <1>6, <1>7, <1>8
    <3>2. /\ i \in 1..Len(old) /\ at = n - Len(old) + i - 1
          /\ at \in Nat /\ at < n /\ n < at + CacheSize
      <4> DEFINE L == Len(old)
                 K == Len(kept)
      <4>1. /\ L \in Nat /\ K \in Nat /\ n \in Nat /\ CacheSize \in Nat \ {0}
            /\ L <= CacheSize /\ L <= n /\ K = (IF L = CacheSize THEN CacheSize - 1 ELSE L)
            /\ j \in 1..K /\ i = (IF L = CacheSize THEN j + 1 ELSE j) /\ at = n - K + j - 1
        BY <3>1, <2>1, <2>2, <1>2, <1>6
      <4> HIDE DEF L, K, at, i
      <4>2. i \in 1..L /\ at = n - L + i - 1 /\ at \in Nat /\ at < n /\ n < at + CacheSize
        BY <4>1
      <4> QED
        BY <4>2 DEF L
    <3> HIDE DEF at, i
    <3>3. at % CacheSize # Index(k) /\ at % CacheSize \in 0..(CacheSize - 1)
      <4>1. at % CacheSize # n % CacheSize
        BY <3>2, <1>2, Residue
      <4>2. ASSUME NEW x \in Nat, NEW C \in Nat \ {0} PROVE x % C \in 0..(C - 1)
        OBVIOUS
      <4>3. at % CacheSize \in 0..(CacheSize - 1)
        BY <4>2, <3>2, <1>2
      <4> QED
        BY <4>1, <4>3, <1>4
    <3>4. cache'[k][at % CacheSize] = cache[k][at % CacheSize]
      BY <3>3, <1>3
    <3>5. cache[k][at % CacheSize] = [name |-> Truncated(old[i].name), id |-> old[i].id]
      BY <3>2, <1>2
    <3> QED
      BY <3>1, <3>4, <3>5 DEF at
  <2> QED
    BY <2>3, <2>4
<1>10. Len(recent'[k]) <= CacheSize /\ Len(recent'[k]) <= next'[k]
  BY <1>2, <1>3, <1>6, <1>7, <1>8
<1>11. ASSUME NEW m \in Kinds, m # k
       PROVE  /\ Len(recent'[m]) <= CacheSize /\ Len(recent'[m]) <= next'[m]
              /\ \A j \in 1..Len(recent'[m]) :
                   cache'[m][(next'[m] - Len(recent'[m]) + j - 1) % CacheSize]
                     = [name |-> Truncated(recent'[m][j].name), id |-> recent'[m][j].id]
  <2>1. recent'[m] = recent[m] /\ next'[m] = next[m]
    BY <1>3, <1>8, <1>11
  <2>2. cache'[m] = cache[m]
    <3> DEFINE D == 0..(CacheSize - 1)
               f == cache'[m]
               g == cache[m]
    <3>1. f \in [D -> Slot] /\ g \in [D -> Slot]
      BY <1>3 DEF SlotsInv
    <3>2. \A i \in D : f[i] = g[i]
      BY <1>3, <1>11
    <3> HIDE DEF D, f, g
    <3>3. f = g
      BY <3>1, <3>2, SameFunction
    <3> QED
      BY <3>3 DEF f, g
  <2> QED
    BY <2>1, <2>2 DEF RecentInv
<1>12. recent' \in [Kinds -> Seq([id : Id, name : Seq(STRING)])]
  BY <1>8 DEF Pair
<1> QED
  BY <1>9, <1>10, <1>11, <1>12 DEF RecentInv

(* get_user_ and get_group_ keep the cache as it should be, and give a     *)
(* name of this id.                                                        *)
LEMMA GetNameKeeps ==
  ASSUME CacheInv, RecentInv, NEW k \in Kinds, NEW id \in Id, GetName(k, id)
  PROVE  /\ CacheInv' /\ RecentInv'
         /\ \E name \in Given(k, id) : shown'.name \in {name, Truncated(name)}
<1>1. CASE Hit(k, id)
  <2>1. PICK name \in said[k][id] :
          Truncated(name) = shown'.name
          /\ shown' = [kind |-> k, id |-> id, name |-> Truncated(name)]
    BY <1>1, HitShown DEF CacheInv
  <2>2. UNCHANGED <<cache, next, said, recent>>
    BY <1>1 DEF Hit
  <2>3. SlotsInv' /\ SaidInv' /\ RecentInv'
    BY <2>2 DEF CacheInv, SlotsInv, SaidInv, RecentInv, InUse
  <2>4. ShownInv'
    BY <2>1, <2>2 DEF ShownInv
  <2>5. name \in Given(k, id)
    BY DEF CacheInv, SaidInv
  <2> QED
    BY <2>1, <2>3, <2>4, <2>5 DEF CacheInv
<1>2. CASE Resolve(k, id)
  <2>1. PICK name \in Given(k, id) : Ask(k, id, name) /\ Store(k, id, name)
    BY <1>2 DEF Resolve, Given
  <2>2. name \in Seq(STRING)
    BY GivenFacts
  <2>3. SlotsInv' /\ RecentInv'
    BY <2>1, <2>2, StoreSlots, StoreRecent DEF CacheInv
  <2>4. SaidInv' /\ ShownInv' /\ shown'.name = name
    BY <2>1, AskSaid DEF CacheInv
  <2> QED
    BY <2>3, <2>4 DEF CacheInv
<1>3. CASE AskFails(k, id)
  <2>1. Ask(k, id, Number(id)) /\ UNCHANGED <<cache, next, recent>>
    BY <1>3 DEF AskFails
  <2>2. SaidInv' /\ ShownInv' /\ shown'.name = Number(id) /\ Number(id) \in Given(k, id)
    BY <2>1, AskSaid, GivenFacts DEF CacheInv
  <2>3. \A m \in Kinds : \A a \in Id : said[m][a] \subseteq said'[m][a]
    BY <2>1 DEF Ask, CacheInv, SaidInv
  <2>4. ASSUME NEW m \in Kinds, NEW i \in 0..(CacheSize - 1), InUse(m, i)
        PROVE  /\ cache[m][i].id \in Id
               /\ \E name \in said'[m][cache[m][i].id] : cache[m][i].name = Truncated(name)
    <3>1. /\ cache[m][i].id \in Id
          /\ \E name \in said[m][cache[m][i].id] : cache[m][i].name = Truncated(name)
      BY <2>4 DEF CacheInv, SlotsInv
    <3> QED
      BY <3>1, <2>3
  <2>5. SlotsInv'
    BY <2>1, <2>4 DEF CacheInv, SlotsInv, InUse
  <2>6. RecentInv'
    BY <2>1 DEF RecentInv
  <2> QED
    BY <2>2, <2>5, <2>6 DEF CacheInv
<1> QED
  BY <1>1, <1>2, <1>3 DEF GetName

LEMMA UnchangedCache ==
  CacheInv /\ RecentInv /\ UNCHANGED cacheVars => CacheInv' /\ RecentInv'
<1> SUFFICES ASSUME CacheInv, RecentInv, UNCHANGED cacheVars
             PROVE  CacheInv' /\ RecentInv'
  OBVIOUS
<1>1. UNCHANGED cache /\ UNCHANGED next /\ UNCHANGED shown
      /\ UNCHANGED said /\ UNCHANGED recent
  BY DEF cacheVars
<1>2. SlotsInv'
  BY <1>1 DEF CacheInv, SlotsInv, InUse
<1>3. SaidInv' /\ ShownInv'
  BY <1>1 DEF CacheInv, SaidInv, ShownInv
<1>4. RecentInv'
  BY <1>1 DEF RecentInv
<1> QED
  BY <1>2, <1>3, <1>4 DEF CacheInv
-----------------------------------------------------------------------------
(***************************************************************************)
(* LongFormat.                                                             *)
(***************************************************************************)
Width == 0..MaxField
Lengths == [Columns -> Width]
Filling == Kinds \cup {"info"}
Stages == Filling \cup {"stats", "context", "rows", "done"}
Numbers == {"links", "size", "major", "minor"}

(* Where the loops are: a field of every entry before there is a width. *)
LoopInv ==
  /\ opts \in Options /\ entries \in Lists /\ context \in Contexts
  /\ stage \in Stages /\ index \in Nat \ {0}
  /\ stage = "user" => index <= Len(entries) + 1
  /\ stage \in {"group", "info"} => index <= Len(entries)
  /\ stage \in Filling => Len(infos) = index - 1
  /\ stage \in {"stats", "context", "rows"} => Len(infos) = Len(entries)

NamesInv == DOMAIN names = Kinds /\ \A k \in Kinds : Len(names[k]) \in Width

(* The entries that update_stats has seen. *)
Seen(i) == stage \in {"context", "rows"} \/ (stage = "stats" /\ i < index)

(* The columns are as wide as the fields of the entries seen. *)
WidthsInv ==
  /\ infos \in Seq(Lengths)
  /\ stats \in [len : Lengths, quote : BOOLEAN, blocks : Nat]
  /\ \A i \in 1..Len(infos) : Seen(i) =>
       /\ \A c \in Columns : infos[i][c] <= stats.len[c]
       /\ entries[i].quote => stats.quote

(* The row that all entries have. *)
Line ==
  LET w     == stats.len
      links == w.perm + 1 + w.links
      user  == links + 1 + IF opts.noOwner THEN 0 ELSE w.user + 1
      group == user + IF opts.noGroup THEN 0 ELSE w.group + 1
      edge  == group + SizeWidth(w)
  IN  [perm |-> w.perm + 1, links |-> links, user |-> user, group |-> group, size |-> edge,
       name |-> edge + 2 + DateLen + IF opts.tty /\ stats.quote THEN 1 ELSE 0]

RowsInv ==
  /\ stage \notin {"rows", "done"} => rows = << >>
  /\ rows \in Seq({Line})

ListInv == LoopInv /\ NamesInv /\ WidthsInv /\ RowsInv /\ CacheInv /\ RecentInv

(* A set of numbers has a least one: what holds of a number whenever it    *)
(* holds of the smaller ones has no least counterexample, hence none.      *)
Less == {p \in Nat \X Nat : p[1] < p[2]}

LEMMA Least ==
  ASSUME NEW T \in SUBSET Nat, T # {}
  PROVE  \E m \in T : \A n \in T : m <= n
<1>1. Less = OpToRel(<, Nat)
  BY DEF Less, OpToRel
<1>2. IsWellFoundedOn(Less, Nat)
  BY <1>1, NatLessThanWellFounded
<1>3. PICK m \in T : \A n \in T : ~(<<n, m>> \in Less)
  BY <1>2, WFMin
<1>4. \A n \in T : m <= n
  <2> TAKE n \in T
  <2>1. n \in Nat /\ m \in Nat
    OBVIOUS
  <2>2. <<n, m>> \in Nat \X Nat /\ <<n, m>>[1] = n /\ <<n, m>>[2] = m
    BY <2>1
  <2>3. n < m => <<n, m>> \in Less
    BY <2>2 DEF Less
  <2> QED
    BY <1>3, <2>1, <2>3
<1> QED
  BY <1>4

LEMMA Tenth ==
  \A v \in Nat : /\ v \div 10 \in Nat
                 /\ v >= 10 => v \div 10 < v
                 /\ \A w \in Nat : v <= w => v \div 10 <= w \div 10
OBVIOUS

(* str_uint_len of the numbers up to n. *)
Counts(f, n) == f = [v \in 0..n |-> IF v < 10 THEN 1 ELSE 1 + f[v \div 10]]

LEMMA CountsExist == \A n \in Nat : \E f : Counts(f, n)
<1> DEFINE T == {n \in Nat : ~\E f : Counts(f, n)}
<1> SUFFICES ASSUME T # {} PROVE FALSE
  OBVIOUS
<1>1. PICK n \in T : \A m \in T : n <= m
  BY Least
<1>2. n \in Nat /\ ~\E f : Counts(f, n)
  OBVIOUS
<1>3. CASE n = 0
  <2> DEFINE f == [v \in 0..0 |-> 1]
  <2>1. f = [v \in 0..0 |-> IF v < 10 THEN 1 ELSE 1 + f[v \div 10]]
    OBVIOUS
  <2> QED
    BY <1>2, <1>3, <2>1 DEF Counts
<1>4. CASE n # 0
  <2>1. n - 1 \in Nat /\ n - 1 \notin T
    BY <1>1, <1>2, <1>4
  <2>2. PICK old : Counts(old, n - 1)
    BY <2>1
  <2> DEFINE f == [v \in 0..n |-> IF v = n THEN IF n < 10 THEN 1 ELSE 1 + old[n \div 10]
                                  ELSE old[v]]
  <2>3. \A v \in 0..(n - 1) : old[v] = IF v < 10 THEN 1 ELSE 1 + old[v \div 10]
    BY <2>2 DEF Counts
  <2>4. \A v \in 0..(n - 1) : f[v] = old[v]
    BY <1>2
  <2>5. f[n] = IF n < 10 THEN 1 ELSE 1 + old[n \div 10]
    BY <1>2
  <2>6. f = [v \in 0..n |-> f[v]]
    OBVIOUS
  <2> HIDE DEF f
  <2>7. \A v \in 0..n : v >= 10 => v \div 10 \in 0..(n - 1)
    BY <1>2, Tenth
  <2>8. \A v \in 0..n : f[v] = IF v < 10 THEN 1 ELSE 1 + f[v \div 10]
    <3> TAKE v \in 0..n
    <3>1. v >= 10 => f[v \div 10] = old[v \div 10]
      BY <2>4, <2>7
    <3>2. CASE v = n
      BY <1>2, <2>5, <3>1, <3>2
    <3>3. CASE v # n
      <4>1. v \in 0..(n - 1)
        BY <1>2, <3>3
      <4> QED
        BY <2>3, <2>4, <3>1, <4>1
    <3> QED
      BY <3>2, <3>3
  <2>9. Counts(f, n)
    BY <2>6, <2>8 DEF Counts
  <2> QED
    BY <1>2, <2>9
<1> QED
  BY <1>3, <1>4

LEMMA CountsAgree ==
  ASSUME NEW f, NEW g, NEW n \in Nat, NEW m \in Nat, Counts(f, n), Counts(g, m)
  PROVE  \A v \in Nat : v <= n /\ v <= m => f[v] = g[v]
<1> DEFINE T == {v \in Nat : v <= n /\ v <= m /\ f[v] # g[v]}
<1> SUFFICES ASSUME T # {} PROVE FALSE
  OBVIOUS
<1>1. PICK v \in T : \A w \in T : v <= w
  BY Least
<1>2. v \in Nat /\ v <= n /\ v <= m /\ f[v] # g[v]
  OBVIOUS
<1>3. /\ f[v] = IF v < 10 THEN 1 ELSE 1 + f[v \div 10]
      /\ g[v] = IF v < 10 THEN 1 ELSE 1 + g[v \div 10]
  <2>1. v \in 0..n /\ v \in 0..m
    BY <1>2
  <2> QED
    BY <2>1 DEF Counts
<1>4. v >= 10
  BY <1>2, <1>3
<1>5. v \div 10 \in Nat /\ v \div 10 < v
  BY <1>2, <1>4, Tenth
<1>6. v \div 10 \notin T
  BY <1>1, <1>2, <1>5
<1>7. f[v \div 10] = g[v \div 10]
  BY <1>2, <1>5, <1>6
<1> QED
  BY <1>2, <1>3, <1>7

LEMMA UintLenIs ==
  \A v \in Nat : UintLen[v] = IF v < 10 THEN 1 ELSE 1 + UintLen[v \div 10]
<1> DEFINE Count(v) == CHOOSE f : Counts(f, v)
           whole == [v \in Nat |-> Count(v)[v]]
<1>1. \A v \in Nat : Counts(Count(v), v)
  BY CountsExist
<1>2. \A v \in Nat : whole[v] = Count(v)[v]
  OBVIOUS
<1>3. whole = [v \in Nat |-> whole[v]]
  OBVIOUS
<1> HIDE DEF whole, Count
<1>4. \A v \in Nat : whole[v] = IF v < 10 THEN 1 ELSE 1 + whole[v \div 10]
  <2> TAKE v \in Nat
  <2> DEFINE u == v \div 10
  <2>1. Count(v)[v] = IF v < 10 THEN 1 ELSE 1 + Count(v)[u]
    <3>1. v \in 0..v
      OBVIOUS
    <3> QED
      BY <1>1, <3>1 DEF Counts
  <2>2. v >= 10 => u \in Nat /\ u <= v /\ u <= u
    BY Tenth
  <2> HIDE DEF u
  <2>3. v >= 10 => Count(v)[u] = Count(u)[u]
    BY <1>1, <2>2, CountsAgree
  <2>4. v >= 10 => Count(v)[u] = whole[u]
    BY <1>2, <2>2, <2>3
  <2>5. whole[v] = IF v < 10 THEN 1 ELSE 1 + whole[u]
    BY <1>2, <2>1, <2>4
  <2> QED
    BY <2>5 DEF u
<1>5. whole = [v \in Nat |-> IF v < 10 THEN 1 ELSE 1 + whole[v \div 10]]
  BY <1>3, <1>4
<1>6. UintLen = [v \in Nat |-> IF v < 10 THEN 1 ELSE 1 + UintLen[v \div 10]]
  BY <1>5 DEF UintLen
<1> QED
  BY <1>6

LEMMA UintLenType == \A v \in Nat : UintLen[v] \in Nat \ {0}
<1> DEFINE T == {v \in Nat : UintLen[v] \notin Nat \ {0}}
<1> SUFFICES ASSUME T # {} PROVE FALSE
  OBVIOUS
<1>1. PICK v \in T : \A w \in T : v <= w
  BY Least
<1>2. v \in Nat /\ UintLen[v] \notin Nat \ {0}
  OBVIOUS
<1>3. v >= 10
  BY <1>2, UintLenIs
<1>4. v \div 10 \in Nat /\ v \div 10 \notin T
  BY <1>1, <1>2, <1>3, Tenth
<1>5. UintLen[v \div 10] \in Nat \ {0}
  BY <1>4
<1> QED
  BY <1>2, <1>3, <1>5, UintLenIs

(* A greater number has no fewer digits. *)
LEMMA UintLenMonotone ==
  \A w \in Nat : \A v \in Nat : v <= w => UintLen[v] <= UintLen[w]
<1> DEFINE T == {w \in Nat : ~\A v \in Nat : v <= w => UintLen[v] <= UintLen[w]}
<1> SUFFICES ASSUME T # {} PROVE FALSE
  OBVIOUS
<1>1. PICK w \in T : \A u \in T : w <= u
  BY Least
<1>2. w \in Nat /\ ~\A v \in Nat : v <= w => UintLen[v] <= UintLen[w]
  OBVIOUS
<1>3. PICK v \in Nat : v <= w /\ ~(UintLen[v] <= UintLen[w])
  BY <1>2
<1>4. /\ UintLen[v] = IF v < 10 THEN 1 ELSE 1 + UintLen[v \div 10]
      /\ UintLen[w] = IF w < 10 THEN 1 ELSE 1 + UintLen[w \div 10]
      /\ UintLen[v] \in Nat \ {0} /\ UintLen[w] \in Nat \ {0}
  BY <1>2, UintLenIs, UintLenType
<1>5. v >= 10 /\ w >= 10
  BY <1>2, <1>3, <1>4
<1>6. /\ v \div 10 \in Nat /\ w \div 10 \in Nat /\ w \div 10 < w
      /\ v \div 10 <= w \div 10
  BY <1>2, <1>3, <1>5, Tenth
<1>7. w \div 10 \notin T
  BY <1>1, <1>2, <1>6
<1>8. UintLen[v \div 10] <= UintLen[w \div 10]
  BY <1>6, <1>7
<1>9. UintLen[v \div 10] \in Nat /\ UintLen[w \div 10] \in Nat
  BY <1>6, UintLenType
<1> QED
  BY <1>3, <1>4, <1>5, <1>8, <1>9

LEMMA UintLenFits == \A v \in UInt64 : UintLen[v] \in 1..MaxField
<1> TAKE v \in UInt64
<1>1. Word64 \in Nat /\ MaxField \in Nat /\ UintLen[Word64 - 1] <= MaxField
  BY FieldAssumption
<1>2. v \in Nat /\ Word64 - 1 \in Nat /\ v <= Word64 - 1
  BY <1>1 DEF UInt64
<1>3. UintLen[v] \in Nat \ {0} /\ UintLen[Word64 - 1] \in Nat \ {0}
  BY <1>2, UintLenType
<1>4. UintLen[v] <= UintLen[Word64 - 1]
  BY <1>2, UintLenMonotone
<1> QED
  BY <1>1, <1>3, <1>4

LEMMA EntryFacts ==
  ASSUME NEW list \in Lists \cup Contexts, NEW i \in 1..Len(list)
  PROVE  list[i] \in Entry /\ \A c \in Numbers : UintLen[list[i][c]] \in 1..MaxField
<1>1. list \in Seq(Entry)
  BY RequestAssumption
<1>2. list[i] \in Entry
  BY <1>1, ElementOfSeq
<1>3. \A c \in Numbers : list[i][c] \in UInt64
  BY <1>2 DEF Numbers, Entry
<1> QED
  BY <1>2, <1>3, UintLenFits

(* No field is longer than MaxField. *)
LEMMA FieldLenType ==
  ASSUME NamesInv, NEW e \in Entry, \A c \in Numbers : UintLen[e[c]] \in 1..MaxField,
         NEW c \in Columns
  PROVE  FieldLen(e, c) \in Width
<1>1. MaxField \in Nat /\ 11 <= MaxField
  BY FieldAssumption
<1>2. /\ UintLen[e.links] \in 1..MaxField /\ UintLen[e.size] \in 1..MaxField
      /\ UintLen[e.major] \in 1..MaxField /\ UintLen[e.minor] \in 1..MaxField
  BY DEF Numbers
<1>3. PermLen(e) \in Width /\ LinksLen(e) \in Width /\ SizeLen(e) \in Width
      /\ DevLen(e, e.major) \in Width /\ DevLen(e, e.minor) \in Width
  BY <1>1, <1>2 DEF PermLen, LinksLen, SizeLen, DevLen, Known, Width
<1>4. \A k \in Kinds : Len(names[k]) \in Width
  BY DEF NamesInv
<1>5. CASE c \in Kinds
  BY <1>4, <1>5 DEF FieldLen, Kinds
<1>6. CASE c \notin Kinds
  BY <1>3, <1>6 DEF FieldLen, Kinds, Columns
<1> QED
  BY <1>5, <1>6

LEMMA ContextLenType ==
  ASSUME NamesInv, NEW e \in Entry, \A c \in Numbers : UintLen[e[c]] \in 1..MaxField,
         NEW c \in Columns
  PROVE  ContextLen(e, c) \in Width
<1>1. MaxField \in Nat /\ 1 <= MaxField
  BY FieldAssumption
<1>2. UintLen[e.links] \in 1..MaxField /\ UintLen[e.size] \in 1..MaxField
  BY DEF Numbers
<1>3. LinksLen(e) \in Width /\ Known(e, UintLen[e.size]) \in Width /\ 0 \in Width
  BY <1>1, <1>2 DEF LinksLen, Known, Width
<1> QED
  BY <1>3, FieldLenType DEF ContextLen

(* A widened column is as wide as before, and as the field. *)
LEMMA WidenedFacts ==
  ASSUME NEW w \in Lengths, NEW f \in Lengths
  PROVE  /\ Widened(w, f) \in Lengths
         /\ \A c \in Columns : w[c] <= Widened(w, f)[c] /\ f[c] <= Widened(w, f)[c]
<1>1. MaxField \in Nat
  BY FieldAssumption
<1>2. \A c \in Columns : w[c] \in Width /\ f[c] \in Width
  BY DEF Lengths
<1>3. \A c \in Columns : Widened(w, f)[c] = IF f[c] > w[c] THEN f[c] ELSE w[c]
  BY DEF Widened
<1>4. \A c \in Columns : Widened(w, f)[c] \in Width
  BY <1>2, <1>3
<1>5. Widened(w, f) \in Lengths
  BY <1>4 DEF Widened, Lengths
<1> QED
  BY <1>1, <1>2, <1>3, <1>5 DEF Width

(* No padding is negative. *)
LEMMA PaddedFacts ==
  ASSUME NEW width \in Nat, NEW len \in Nat, len <= width, width <= 3 * MaxField
  PROVE  Padded(len, width) = width /\ LeftPad(len, width) = width - len
<1>1. width - len \in 0..(Word64 - 1) /\ Word64 \in Nat \ {0}
  BY FieldAssumption
<1>2. (width - len) % Word64 = width - len
  BY <1>1
<1> QED
  BY <1>2 DEF Padded, LeftPad

LEMMA SizeFieldWidth ==
  ASSUME NEW w \in Lengths, NEW f \in Lengths, \A c \in Columns : f[c] <= w[c]
  PROVE  SizeField(f, w) = SizeWidth(w) /\ SizeWidth(w) \in 0..(2 * MaxField + 2)
<1> DEFINE maj == w.major
           min == w.minor
           dw == DevWidth(w)
           sw == SizeWidth(w)
<1>1. /\ maj \in Width /\ min \in Width /\ w.size \in Width
      /\ f.major \in Width /\ f.minor \in Width /\ f.size \in Width
      /\ f.major <= maj /\ f.minor <= min /\ f.size <= w.size
  BY DEF Lengths, Columns
<1>2. MaxField \in Nat /\ 11 <= MaxField
  BY FieldAssumption
<1>3. /\ dw = IF maj = 0 /\ min = 0 THEN 0 ELSE maj + 2 + min
      /\ sw = IF w.size > dw THEN w.size ELSE dw
  BY DEF DevWidth, SizeWidth
<1>4. /\ dw \in Nat /\ sw \in Nat /\ dw <= sw /\ w.size <= sw /\ sw <= 2 * MaxField + 2
      /\ f.major > 0 => dw = maj + 2 + min
  BY <1>1, <1>2, <1>3 DEF Width
<1>5. /\ maj \in Nat /\ min \in Nat /\ f.major \in Nat /\ f.minor \in Nat /\ f.size \in Nat
      /\ maj <= 3 * MaxField /\ min <= 3 * MaxField /\ sw <= 3 * MaxField
      /\ f.size <= sw
  BY <1>1, <1>2, <1>4 DEF Width
<1>6. /\ Padded(f.major, w.major) = maj /\ Padded(f.minor, w.minor) = min
      /\ LeftPad(DevWidth(w), SizeWidth(w)) = sw - dw
      /\ Padded(f.size, SizeWidth(w)) = sw
  <2>1. Padded(f.major, maj) = maj
    BY <1>1, <1>5, PaddedFacts
  <2>2. Padded(f.minor, min) = min
    BY <1>1, <1>5, PaddedFacts
  <2>3. LeftPad(dw, sw) = sw - dw
    BY <1>4, <1>5, PaddedFacts
  <2>4. Padded(f.size, sw) = sw
    BY <1>4, <1>5, PaddedFacts
  <2> QED
    BY <2>1, <2>2, <2>3, <2>4
<1> HIDE DEF maj, min, dw, sw
<1>7. SizeField(f, w) = IF f.major > 0 THEN (sw - dw) + maj + 2 + min ELSE sw
  BY <1>6 DEF SizeField
<1>8. SizeField(f, w) = sw
  BY <1>4, <1>5, <1>7
<1> QED
  BY <1>4, <1>8, <1>2 DEF sw

(* A row is the one line, whatever entry it is of. *)
LEMMA RowIsLine ==
  ASSUME opts \in Options, stats \in [len : Lengths, quote : BOOLEAN, blocks : Nat],
         NEW e, NEW f \in Lengths, \A c \in Columns : f[c] <= stats.len[c],
         e.quote \in BOOLEAN, e.quote => stats.quote
  PROVE  Row(e, f, stats.len) = Line
<1> DEFINE w == stats.len
<1>1. w \in Lengths /\ stats.quote \in BOOLEAN
  OBVIOUS
<1>2. SizeField(f, w) = SizeWidth(w) /\ SizeWidth(w) \in 0..(2 * MaxField + 2)
  BY <1>1, SizeFieldWidth
<1>3. \A c \in Columns : Padded(f[c], w[c]) = w[c] /\ w[c] \in Nat
  <2> TAKE c \in Columns
  <2>1. w[c] \in Nat /\ f[c] \in Nat /\ f[c] <= w[c] /\ w[c] <= 3 * MaxField
    BY <1>1, FieldAssumption DEF Lengths, Width
  <2> QED
    BY <2>1, PaddedFacts
<1>4. /\ Padded(f.perm, w.perm) = w.perm /\ Padded(f.links, w.links) = w.links
      /\ Padded(f.user, w.user) = w.user /\ Padded(f.group, w.group) = w.group
  BY <1>3 DEF Columns
<1>5. (e.quote \/ stats.quote) <=> stats.quote
  OBVIOUS
<1>6. w.perm \in Nat /\ w.links \in Nat /\ w.user \in Nat /\ w.group \in Nat
  BY <1>3 DEF Columns
<1> DEFINE sz == SizeWidth(w)
           links == w.perm + 1 + w.links
           user  == links + 1 + IF opts.noOwner THEN 0 ELSE w.user + 1
           group == user + IF opts.noGroup THEN 0 ELSE w.group + 1
           q == IF opts.tty /\ stats.quote THEN 1 ELSE 0
<1>7. user \in Nat /\ group \in Nat /\ sz \in Nat /\ q \in Nat
  <2>1. sz \in Nat /\ q \in Nat
    BY <1>2, FieldAssumption
  <2> HIDE DEF w, sz, q
  <2>2. links \in Nat
    BY <1>6
  <2> HIDE DEF links
  <2>3. user \in Nat
    BY <1>6, <2>2
  <2> HIDE DEF user
  <2>4. group \in Nat
    BY <1>6, <2>3
  <2> QED
    BY <2>1, <2>3, <2>4
<1>8. Row(e, f, stats.len)
        = [perm |-> w.perm + 1, links |-> links, user |-> user, group |-> group,
           size |-> group + sz, name |-> (group + sz + 1 + DateLen) + 1 + q]
  BY <1>2, <1>4, <1>5 DEF Row
<1>9. Line = [perm |-> w.perm + 1, links |-> links, user |-> user, group |-> group,
              size |-> group + sz, name |-> (group + sz) + 2 + DateLen + q]
  BY DEF Line
<1>10. (group + sz + 1 + DateLen) + 1 + q = (group + sz) + 2 + DateLen + q
  <2> HIDE DEF group, sz, q
  <2> QED
    BY <1>7 DEF DateLen
<1> HIDE DEF links, user, group, sz, q, w
<1> QED
  BY <1>8, <1>9, <1>10

(* The line ends before the end of memory. *)
LEMMA LineFits ==
  ASSUME opts \in Options, stats \in [len : Lengths, quote : BOOLEAN, blocks : Nat]
  PROVE  \A c \in DOMAIN Line : Line[c] \in 0..(Word64 - 1)
<1> DEFINE w == stats.len
           perm == w.perm
           ln == w.links
           us == w.user
           gr == w.group
           sz == SizeWidth(w)
<1>1. /\ perm \in Width /\ ln \in Width /\ us \in Width /\ gr \in Width
  BY DEF Lengths, Columns
<1>2. sz \in 0..(2 * MaxField + 2)
  <2>1. w \in Lengths /\ \A c \in Columns : w[c] <= w[c]
    BY FieldAssumption DEF Lengths, Width
  <2> QED
    BY <2>1, SizeFieldWidth
<1>3. MaxField \in Nat /\ Word64 \in Nat /\ 11 <= MaxField /\ 10 * MaxField < Word64
  BY FieldAssumption
<1> DEFINE a == IF opts.noOwner THEN 0 ELSE us + 1
           b == IF opts.noGroup THEN 0 ELSE gr + 1
           q == IF opts.tty /\ stats.quote THEN 1 ELSE 0
           l == perm + 1 + ln
<1>4. a \in 0..(MaxField + 1) /\ b \in 0..(MaxField + 1) /\ q \in 0..1
  <2> HIDE DEF us, gr
  <2> QED
    BY <1>1, <1>3 DEF Width
<1>5. Line = [perm |-> perm + 1, links |-> l, user |-> l + 1 + a, group |-> (l + 1 + a) + b,
              size |-> ((l + 1 + a) + b) + sz,
              name |-> (((l + 1 + a) + b) + sz) + 2 + DateLen + q]
  BY DEF Line
<1> HIDE DEF perm, ln, us, gr, sz, a, b, q
<1>6. /\ perm + 1 \in 0..(Word64 - 1) /\ l \in 0..(Word64 - 1) /\ l + 1 + a \in 0..(Word64 - 1)
      /\ (l + 1 + a) + b \in 0..(Word64 - 1)
      /\ ((l + 1 + a) + b) + sz \in 0..(Word64 - 1)
      /\ (((l + 1 + a) + b) + sz) + 2 + DateLen + q \in 0..(Word64 - 1)
  BY <1>1, <1>2, <1>3, <1>4 DEF Width, DateLen
<1> HIDE DEF l
<1> QED
  BY <1>5, <1>6
LEMMA InitListInv == ListInit => ListInv
<1> SUFFICES ASSUME ListInit PROVE ListInv
  OBVIOUS
<1>1. CacheInv /\ RecentInv
  BY InitCacheInv DEF ListInit
<1>2. /\ << >> \in Seq(Lengths) /\ << >> \in Seq({Line})
      /\ Len(<< >>) = 0 /\ MaxField \in Nat
  BY FieldAssumption
<1>3. Len(entries) \in Nat
  BY RequestAssumption, LenProperties DEF ListInit
<1>4. LoopInv
  BY <1>2, <1>3 DEF LoopInv, ListInit, Stages, Filling, Kinds
<1>5. NamesInv
  BY <1>2 DEF NamesInv, ListInit, Width
<1>6. stats \in [len : Lengths, quote : BOOLEAN, blocks : Nat]
  BY <1>2 DEF ListInit, Lengths, Width
<1>7. WidthsInv
  BY <1>2, <1>6 DEF WidthsInv, ListInit
<1>8. RowsInv
  BY <1>2 DEF RowsInv, ListInit
<1> QED
  BY <1>1, <1>4, <1>5, <1>7, <1>8 DEF ListInv

LEMMA EntriesType == LoopInv => /\ Len(entries) \in Nat /\ entries \in Seq(Entry)
                               /\ Len(context) \in Nat /\ context \in Seq(Entry)
BY RequestAssumption, LenProperties DEF LoopInv

(* The owner or the group of an entry. *)
LEMMA FillNameKeeps ==
  ASSUME ListInv, NEW k \in Kinds, FillName(k)
  PROVE  ListInv'
<1> DEFINE e == entries[index]
<1>1. /\ stage = k /\ index <= Len(entries)
      /\ stage' = (IF k = "user" THEN "group" ELSE "info")
      /\ UNCHANGED <<opts, entries, context, index, infos, stats, rows>>
  BY DEF FillName, More, request
<1>2. index \in 1..Len(entries) /\ entries \in Lists
  BY <1>1, EntriesType DEF ListInv, LoopInv
<1>3. e \in Entry
  BY <1>2, EntryFacts
<1>4. MaxField \in Nat /\ 11 <= MaxField
  BY FieldAssumption
<1>5. ASSUME NEW s, Len(s) \in Width, names' = [names EXCEPT ![k] = s]
      PROVE  NamesInv'
  BY <1>5 DEF ListInv, NamesInv
<1>6. NamesInv' /\ CacheInv' /\ RecentInv'
  <2>1. CASE e.bad
    <3>1. names' = [names EXCEPT ![k] = <<"?">>] /\ UNCHANGED cacheVars
      BY <2>1 DEF FillName
    <3>2. Len(<<"?">>) \in Width
      BY <1>4 DEF Width
    <3> QED
      BY <3>1, <3>2, <1>5, UnchangedCache DEF ListInv
  <2>2. CASE ~e.bad
    <3> DEFINE id == e.id[k]
    <3>1. GetName(k, id) /\ names' = [names EXCEPT ![k] = shown'.name]
      BY <2>2 DEF FillName
    <3>2. id \in Id
      BY <1>3 DEF Entry
    <3> HIDE DEF id, e
    <3>3. /\ CacheInv' /\ RecentInv'
          /\ \E name \in Given(k, id) : shown'.name \in {name, Truncated(name)}
      BY <3>1, <3>2, GetNameKeeps DEF ListInv
    <3>4. PICK name \in Given(k, id) : shown'.name \in {name, Truncated(name)}
      BY <3>3
    <3>5. name \in Seq(STRING) /\ Len(name) <= MaxField
      <4>1. Len(Number(id)) = 1
        BY DEF Number
      <4>2. name \in Seq(STRING)
        BY <3>2, GivenFacts
      <4>3. \A s \in Name[k] : Len(s) <= MaxField
        BY FieldAssumption
      <4>4. name \in Name[k] \/ name = Number(id)
        BY DEF Given
      <4> QED
        BY <4>1, <4>2, <4>3, <4>4, <1>4
    <3>6. Len(shown'.name) \in Width
      <4>1. Len(name) \in Nat /\ Len(Truncated(name)) \in Nat
        BY <3>5, TruncatedFacts, LenProperties
      <4>2. Len(Truncated(name)) <= Len(name)
        BY <3>5, TruncatedFacts
      <4> QED
        BY <3>4, <3>5, <4>1, <4>2, <1>4 DEF Width
    <3> QED
      BY <3>1, <3>3, <3>6, <1>5
  <2> QED
    BY <2>1, <2>2
<1>7. LoopInv'
  BY <1>1 DEF ListInv, LoopInv, Stages, Filling, Kinds
<1>8. WidthsInv'
  BY <1>1 DEF ListInv, WidthsInv, Seen, Kinds
<1>9. RowsInv'
  BY <1>1 DEF ListInv, RowsInv, Kinds, Line
<1> QED
  BY <1>6, <1>7, <1>8, <1>9 DEF ListInv

LEMMA FillFileInfoKeeps == ListInv /\ FillFileInfo => ListInv'
<1> SUFFICES ASSUME ListInv, FillFileInfo PROVE ListInv'
  OBVIOUS
<1> DEFINE e == entries[index]
           f == [c \in Columns |-> FieldLen(e, c)]
<1>1. /\ stage = "info" /\ infos' = Append(infos, f)
      /\ stage' = "user" /\ index' = index + 1
      /\ UNCHANGED <<opts, entries, context, names, stats, rows, cacheVars>>
  BY DEF FillFileInfo, request
<1>2. index \in 1..Len(entries) /\ entries \in Lists /\ Len(entries) \in Nat
  BY <1>1, EntriesType DEF ListInv, LoopInv
<1>3. f \in Lengths
  <2>1. e \in Entry /\ \A c \in Numbers : UintLen[e[c]] \in 1..MaxField
    BY <1>2, EntryFacts
  <2>2. \A c \in Columns : FieldLen(e, c) \in Width
    BY <2>1, FieldLenType DEF ListInv
  <2> QED
    BY <2>2 DEF Lengths
<1> HIDE DEF f, e
<1>4. infos' \in Seq(Lengths) /\ Len(infos') = index
  <2>1. infos \in Seq(Lengths) /\ Len(infos) = index - 1
    BY <1>1 DEF ListInv, WidthsInv, LoopInv, Filling
  <2> QED
    BY <2>1, <1>1, <1>2, <1>3, AppendProperties
<1>5. LoopInv'
  BY <1>1, <1>2, <1>4 DEF ListInv, LoopInv, Stages, Filling, Kinds
<1>6. WidthsInv'
  BY <1>1, <1>4 DEF ListInv, WidthsInv, Seen
<1>7. RowsInv' /\ NamesInv'
  BY <1>1 DEF ListInv, RowsInv, NamesInv, Line
<1>8. CacheInv' /\ RecentInv'
  BY <1>1, UnchangedCache DEF ListInv
<1> QED
  BY <1>5, <1>6, <1>7, <1>8 DEF ListInv

(* The entries seen are one more. *)
LEMMA UpdateStatsKeeps == ListInv /\ UpdateStats => ListInv'
<1> SUFFICES ASSUME ListInv, UpdateStats PROVE ListInv'
  OBVIOUS
<1> DEFINE old == stats.len
           f == infos[index]
           wide == Widened(old, f)
<1>1. /\ stage = "stats" /\ index <= Len(entries) /\ index' = index + 1 /\ stage' = stage
      /\ stats' = [len |-> wide, quote |-> stats.quote \/ entries[index].quote,
                   blocks |-> stats.blocks + entries[index].blocks]
      /\ UNCHANGED <<opts, entries, context, names, infos, rows, cacheVars>>
  BY DEF UpdateStats, Advance, More, request
<1>2. /\ index \in 1..Len(entries) /\ entries \in Lists /\ Len(entries) \in Nat
      /\ Len(infos) = Len(entries)
  BY <1>1, EntriesType DEF ListInv, LoopInv
<1>3. infos \in Seq(Lengths) /\ f \in Lengths /\ old \in Lengths
  BY <1>2, ElementOfSeq DEF ListInv, WidthsInv
<1>4. /\ wide \in Lengths
      /\ \A c \in Columns : old[c] <= wide[c] /\ f[c] <= wide[c]
  BY <1>3, WidenedFacts
<1>5. entries[index] \in Entry
  BY <1>2, EntryFacts
<1>6. stats' \in [len : Lengths, quote : BOOLEAN, blocks : Nat]
  <2>1. /\ stats.quote \in BOOLEAN /\ stats.blocks \in Nat
        /\ entries[index].quote \in BOOLEAN /\ entries[index].blocks \in Nat
    BY <1>5 DEF ListInv, WidthsInv, Entry
  <2> HIDE DEF wide
  <2> QED
    BY <1>1, <1>4, <2>1
<1>7. stats'.len = wide /\ (stats'.quote <=> stats.quote \/ entries[index].quote)
  BY <1>1
<1> HIDE DEF wide, f, old
<1>8. ASSUME NEW i \in 1..Len(infos), i < index + 1
      PROVE  /\ \A c \in Columns : infos[i][c] <= stats'.len[c]
             /\ entries[i].quote => stats'.quote
  <2>1. CASE i = index
    BY <2>1, <1>4, <1>7 DEF f
  <2>2. CASE i # index
    <3>1. i < index
      BY <1>2, <1>8, <2>2
    <3>2. /\ \A c \in Columns : infos[i][c] <= old[c]
          /\ entries[i].quote => stats.quote
      BY <3>1, <1>1 DEF ListInv, WidthsInv, Seen, old
    <3>3. \A c \in Columns : infos[i][c] \in Nat /\ old[c] \in Nat /\ wide[c] \in Nat
      <4>1. infos[i] \in Lengths /\ old \in Lengths /\ wide \in Lengths
        BY <1>3, <1>4, ElementOfSeq
      <4> QED
        BY <4>1, FieldAssumption DEF Lengths, Width
    <3>4. \A c \in Columns : infos[i][c] <= wide[c]
      BY <3>2, <3>3, <1>4
    <3> QED
      BY <3>2, <3>4, <1>7
  <2> QED
    BY <2>1, <2>2
<1>9. WidthsInv'
  BY <1>1, <1>3, <1>6, <1>8 DEF WidthsInv, Seen
<1>10. LoopInv'
  BY <1>1, <1>2 DEF ListInv, LoopInv, Stages, Filling, Kinds
<1>11. NamesInv'
  BY <1>1 DEF ListInv, NamesInv
<1>12. RowsInv'
  <2>1. rows = << >> /\ rows' = << >> /\ stage' = "stats"
    BY <1>1 DEF ListInv, RowsInv
  <2> QED
    BY <2>1 DEF RowsInv
<1>13. CacheInv' /\ RecentInv'
  BY <1>1, UnchangedCache DEF ListInv
<1> QED
  BY <1>9, <1>10, <1>11, <1>12, <1>13 DEF ListInv
(* The other list widens columns only. *)
LEMMA ApplyWidthKeeps == ListInv /\ ApplyWidth => ListInv'
<1> SUFFICES ASSUME ListInv, ApplyWidth PROVE ListInv'
  OBVIOUS
<1> DEFINE old == stats.len
           f == [c \in Columns |-> ContextLen(context[index], c)]
           wide == Widened(old, f)
<1>1. /\ stage = "context" /\ index <= Len(context) /\ index' = index + 1 /\ stage' = stage
      /\ stats' = [stats EXCEPT !.len = wide]
      /\ UNCHANGED <<opts, entries, context, names, infos, rows, cacheVars>>
  BY DEF ApplyWidth, Advance, More, request
<1>2. /\ index \in 1..Len(context) /\ context \in Contexts
      /\ Len(infos) = Len(entries) /\ Len(entries) \in Nat
  BY <1>1, EntriesType DEF ListInv, LoopInv
<1>3. infos \in Seq(Lengths) /\ old \in Lengths
  BY DEF ListInv, WidthsInv
<1>4. f \in Lengths
  <2> DEFINE e == context[index]
  <2>1. e \in Entry /\ \A c \in Numbers : UintLen[e[c]] \in 1..MaxField
    BY <1>2, EntryFacts
  <2>2. \A c \in Columns : ContextLen(e, c) \in Width
    BY <2>1, ContextLenType DEF ListInv
  <2> QED
    BY <2>2 DEF Lengths
<1>5. wide \in Lengths /\ \A c \in Columns : old[c] <= wide[c]
  BY <1>3, <1>4, WidenedFacts
<1> HIDE DEF wide, f
<1>6. /\ stats' \in [len : Lengths, quote : BOOLEAN, blocks : Nat]
      /\ stats'.len = wide /\ stats'.quote = stats.quote
  BY <1>1, <1>5 DEF ListInv, WidthsInv
<1> HIDE DEF old
<1>7. ASSUME NEW i \in 1..Len(infos)
      PROVE  /\ \A c \in Columns : infos[i][c] <= stats'.len[c]
             /\ entries[i].quote => stats'.quote
  <2>1. /\ \A c \in Columns : infos[i][c] <= old[c]
        /\ entries[i].quote => stats.quote
    BY <1>1 DEF ListInv, WidthsInv, Seen, old
  <2>2. \A c \in Columns : infos[i][c] \in Nat /\ old[c] \in Nat /\ wide[c] \in Nat
    <3>1. infos[i] \in Lengths /\ old \in Lengths /\ wide \in Lengths
      BY <1>3, <1>5, ElementOfSeq
    <3> QED
      BY <3>1, FieldAssumption DEF Lengths, Width
  <2>3. \A c \in Columns : infos[i][c] <= wide[c]
    BY <2>1, <2>2, <1>5
  <2> QED
    BY <2>1, <2>3, <1>6
<1>8. WidthsInv'
  BY <1>1, <1>3, <1>6, <1>7 DEF WidthsInv
<1>9. LoopInv'
  BY <1>1, <1>2 DEF ListInv, LoopInv, Stages, Filling, Kinds
<1>10. NamesInv'
  BY <1>1 DEF ListInv, NamesInv
<1>11. RowsInv'
  <2>1. rows = << >> /\ rows' = << >> /\ stage' = "context"
    BY <1>1 DEF ListInv, RowsInv
  <2> QED
    BY <2>1 DEF RowsInv
<1>12. CacheInv' /\ RecentInv'
  BY <1>1, UnchangedCache DEF ListInv
<1> QED
  BY <1>8, <1>9, <1>10, <1>11, <1>12 DEF ListInv

LEMMA ContextDoneKeeps == ListInv /\ ContextDone => ListInv'
<1> SUFFICES ASSUME ListInv, ContextDone PROVE ListInv'
  OBVIOUS
<1>1. /\ stage = "context" /\ stage' = "rows" /\ index' = 1
      /\ stats' = [stats EXCEPT !.quote = @ \/ opts.quotePadding]
      /\ UNCHANGED <<opts, entries, context, names, infos, rows, cacheVars>>
  BY DEF ContextDone, Begin, request
<1>2. opts.quotePadding \in BOOLEAN
  BY RequestAssumption DEF ListInv, LoopInv
<1>3. /\ stats' \in [len : Lengths, quote : BOOLEAN, blocks : Nat]
      /\ stats'.len = stats.len /\ (stats.quote => stats'.quote)
  <2>1. stats \in [len : Lengths, quote : BOOLEAN, blocks : Nat]
    BY DEF ListInv, WidthsInv
  <2>2. (stats.quote \/ opts.quotePadding) \in BOOLEAN
    BY <1>2, <2>1
  <2> QED
    BY <1>1, <2>1, <2>2
<1>4. WidthsInv'
  <2>1. ASSUME NEW i \in 1..Len(infos)
        PROVE  /\ \A c \in Columns : infos[i][c] <= stats'.len[c]
               /\ entries[i].quote => stats'.quote
    BY <1>1, <1>3 DEF ListInv, WidthsInv, Seen
  <2>2. infos \in Seq(Lengths)
    BY DEF ListInv, WidthsInv
  <2> QED
    BY <1>1, <1>3, <2>1, <2>2 DEF WidthsInv
<1>5. LoopInv'
  BY <1>1 DEF ListInv, LoopInv, Stages, Filling, Kinds
<1>6. NamesInv'
  BY <1>1 DEF ListInv, NamesInv
<1>7. RowsInv'
  <2>1. rows' = << >>
    BY <1>1 DEF ListInv, RowsInv
  <2> QED
    BY <2>1 DEF RowsInv
<1>8. CacheInv' /\ RecentInv'
  BY <1>1, UnchangedCache DEF ListInv
<1> QED
  BY <1>4, <1>5, <1>6, <1>7, <1>8 DEF ListInv

(* Every row is the line. *)
LEMMA PrintRowKeeps == ListInv /\ PrintRow => ListInv'
<1> SUFFICES ASSUME ListInv, PrintRow PROVE ListInv'
  OBVIOUS
<1> DEFINE e == entries[index]
           f == infos[index]
<1>1. /\ stage = "rows" /\ index <= Len(entries) /\ index' = index + 1 /\ stage' = stage
      /\ rows' = Append(rows, Row(e, f, stats.len))
      /\ UNCHANGED <<opts, entries, context, names, infos, stats, cacheVars>>
  BY DEF PrintRow, Advance, More, request
<1>2. /\ index \in 1..Len(entries) /\ entries \in Lists /\ Len(entries) \in Nat
      /\ Len(infos) = Len(entries)
  BY <1>1, EntriesType DEF ListInv, LoopInv
<1>3. Row(e, f, stats.len) = Line
  <2>1. infos \in Seq(Lengths) /\ f \in Lengths
    BY <1>2, ElementOfSeq DEF ListInv, WidthsInv
  <2>2. e.quote \in BOOLEAN
    BY <1>2, EntryFacts DEF Entry
  <2>3. (\A c \in Columns : f[c] <= stats.len[c]) /\ (e.quote => stats.quote)
    BY <1>1, <1>2 DEF ListInv, WidthsInv, Seen
  <2>4. opts \in Options /\ stats \in [len : Lengths, quote : BOOLEAN, blocks : Nat]
    BY DEF ListInv, LoopInv, WidthsInv
  <2> HIDE DEF e, f
  <2> QED
    BY <2>1, <2>2, <2>3, <2>4, RowIsLine
<1> HIDE DEF e, f
<1>4. RowsInv'
  <2>1. Line' = Line
    BY <1>1 DEF Line
  <2>2. rows' \in Seq({Line})
    BY <1>1, <1>3, AppendProperties DEF ListInv, RowsInv
  <2> QED
    BY <1>1, <2>1, <2>2 DEF RowsInv
<1>5. LoopInv'
  BY <1>1, <1>2 DEF ListInv, LoopInv, Stages, Filling, Kinds
<1>6. NamesInv'
  BY <1>1 DEF ListInv, NamesInv
<1>7. WidthsInv'
  BY <1>1 DEF ListInv, WidthsInv, Seen
<1>8. CacheInv' /\ RecentInv'
  BY <1>1, UnchangedCache DEF ListInv
<1> QED
  BY <1>4, <1>5, <1>6, <1>7, <1>8 DEF ListInv

(* The steps that end a loop. *)
LEMMA LoopEndKeeps ==
  ListInv /\ (FillFails \/ InfosDone \/ StatsDone \/ RowsDone) => ListInv'
<1> SUFFICES ASSUME ListInv, FillFails \/ InfosDone \/ StatsDone \/ RowsDone
             PROVE  ListInv'
  OBVIOUS
<1>1. /\ UNCHANGED <<opts, entries, context, names, infos, stats, rows, cacheVars>>
      /\ \/ stage \in Filling /\ stage' = "done" /\ index' = index
         \/ stage = "user" /\ ~More(entries) /\ stage' = "stats" /\ index' = 1
         \/ stage = "stats" /\ ~More(entries) /\ stage' = "context" /\ index' = 1
         \/ stage = "rows" /\ stage' = "done" /\ index' = index
  BY DEF FillFails, InfosDone, StatsDone, RowsDone, Begin, request, Filling, Kinds
<1>2. LoopInv'
  <2>1. stage = "user" /\ ~More(entries) => Len(infos) = Len(entries)
    BY EntriesType DEF ListInv, LoopInv, More, Filling, Kinds
  <2> QED
    BY <1>1, <2>1 DEF ListInv, LoopInv, Stages, Filling, Kinds
<1>3. NamesInv'
  BY <1>1 DEF ListInv, NamesInv
<1>4. WidthsInv'
  <2>1. ASSUME NEW i \in 1..Len(infos), Seen(i)'
        PROVE  Seen(i)
    <3>1. stage' = "context" => stage = "stats" /\ Len(entries) < index
      BY <1>1, EntriesType DEF ListInv, LoopInv, More, Filling, Kinds
    <3>2. stage = "stats" => Len(infos) = Len(entries) /\ Len(entries) \in Nat /\ index \in Nat
      BY EntriesType DEF ListInv, LoopInv
    <3>3. stage' = "stats" => index' = 1
      BY <1>1 DEF Filling, Kinds
    <3>4. CASE stage' = "context"
      BY <3>1, <3>2, <3>4 DEF Seen
    <3>5. CASE stage' # "context"
      BY <1>1, <2>1, <3>3, <3>5 DEF Seen
    <3> QED
      BY <3>4, <3>5
  <2> QED
    BY <1>1, <2>1 DEF ListInv, WidthsInv
<1>5. RowsInv'
  BY <1>1 DEF ListInv, RowsInv, Filling, Kinds, Line
<1>6. CacheInv' /\ RecentInv'
  BY <1>1, UnchangedCache DEF ListInv
<1> QED
  BY <1>2, <1>3, <1>4, <1>5, <1>6 DEF ListInv

LEMMA NextListInv == ListInv /\ [ListNext]_listVars => ListInv'
<1>1. ListInv /\ UNCHANGED listVars => ListInv'
  <2> SUFFICES ASSUME ListInv, UNCHANGED listVars PROVE ListInv'
    OBVIOUS
  <2>1. UNCHANGED <<opts, entries, context, stage, index, names, infos, stats, rows, cacheVars>>
    BY DEF listVars, request
  <2>2. LoopInv' /\ NamesInv' /\ WidthsInv'
    BY <2>1 DEF ListInv, LoopInv, NamesInv, WidthsInv, Seen
  <2>3. RowsInv'
    BY <2>1 DEF ListInv, RowsInv, Line
  <2>4. CacheInv' /\ RecentInv'
    BY <2>1, UnchangedCache DEF ListInv
  <2> QED
    BY <2>2, <2>3, <2>4 DEF ListInv
<1> QED
  BY <1>1, FillNameKeeps, FillFileInfoKeeps, UpdateStatsKeeps, ApplyWidthKeeps,
     ContextDoneKeeps, PrintRowKeeps, LoopEndKeeps DEF ListNext

LEMMA ListInvHolds == ListSpec => []ListInv
<1> QED
  BY InitListInv, NextListInv, PTL DEF ListSpec

(* The rows form a table (the fields put one after another by print_list_  *)
(* rows_): they all end their columns at the same places, and no padding   *)
(* wraps round.                                                            *)
THEOREM RowsAlign == ListSpec => []Table
<1>1. ListInv => Table
  <2> SUFFICES ASSUME ListInv PROVE Table
    OBVIOUS
  <2>1. /\ opts \in Options /\ stats \in [len : Lengths, quote : BOOLEAN, blocks : Nat]
        /\ infos \in Seq(Lengths) /\ rows \in Seq({Line})
    BY DEF ListInv, LoopInv, WidthsInv, RowsInv
  <2>2. \A i \in 1..Len(rows) : rows[i] = Line
    <3>1. \A i \in 1..Len(rows) : rows[i] \in {Line}
      BY <2>1, ElementOfSeq
    <3> QED
      BY <3>1
  <2>3. \A i \in 1..Len(rows) : \A c \in DOMAIN rows[i] : rows[i][c] \in 0..(Word64 - 1)
    BY <2>1, <2>2, LineFits
  <2>4. Lengths \subseteq [Columns -> Nat]
    BY FieldAssumption DEF Lengths, Width
  <2>5. /\ infos \in Seq([Columns -> Nat])
        /\ stats \in [len : [Columns -> Nat], quote : BOOLEAN, blocks : Nat]
    <3> DEFINE F == [Columns -> Nat]
    <3> HIDE DEF F
    <3>1. Lengths \subseteq F
      BY <2>4 DEF F
    <3>2. infos \in Seq(F) /\ stats \in [len : F, quote : BOOLEAN, blocks : Nat]
      BY <2>1, <3>1
    <3> QED
      BY <3>2 DEF F
  <2>6. ListTypeOK
    BY <2>3, <2>5 DEF ListTypeOK, ListInv, LoopInv, Stages, Filling
  <2>7. \A i, j \in 1..Len(rows) : rows[i] = rows[j]
    BY <2>2
  <2> QED
    BY <2>6, <2>7 DEF Table
<1> QED
  BY <1>1, ListInvHolds, PTL

(* A name shown is one the database has given for that very id, and no id  *)
(* has two slots (get_user_, get_group_, cache_lookup_, cache_store_).     *)
THEOREM NamesHonest == ListSpec => []Honest
<1>1. ListInv => Honest
  <2> SUFFICES ASSUME ListInv PROVE Honest
    OBVIOUS
  <2>1. SlotsInv /\ SaidInv /\ ShownInv
    BY DEF ListInv, CacheInv
  <2>2. \A k \in Kinds, i \in 0..(CacheSize - 1) : Len(cache[k][i].name) <= MaxName
    <3> TAKE k \in Kinds, i \in 0..(CacheSize - 1)
    <3>1. CASE InUse(k, i)
      <4>1. PICK name \in said[k][cache[k][i].id] :
              cache[k][i].id \in Id /\ cache[k][i].name = Truncated(name)
        BY <2>1, <3>1 DEF SlotsInv
      <4>2. name \in Seq(STRING)
        BY <2>1, <4>1 DEF SaidInv
      <4> QED
        BY <4>1, <4>2, TruncatedFacts
    <3>2. CASE ~InUse(k, i)
      <4>1. cache[k][i].name = << >>
        BY <3>2 DEF InUse
      <4> QED
        BY <4>1, CacheAssumption
    <3> QED
      BY <3>1, <3>2
  <2>3. CacheTypeOK
    BY <2>1, <2>2 DEF CacheTypeOK, SlotsInv, Slot
  <2>4. shown # Nothing =>
          \E name \in said[shown.kind][shown.id] : shown.name \in {name, Truncated(name)}
    <3> SUFFICES ASSUME shown # Nothing
                 PROVE  \E name \in said[shown.kind][shown.id] :
                          shown.name \in {name, Truncated(name)}
      OBVIOUS
    <3>1. PICK k \in Kinds, id \in Id : \E name \in said[k][id] :
            \E s \in {name, Truncated(name)} : shown = [kind |-> k, id |-> id, name |-> s]
      BY <2>1 DEF ShownInv
    <3>2. PICK name \in said[k][id] :
            \E s \in {name, Truncated(name)} : shown = [kind |-> k, id |-> id, name |-> s]
      BY <3>1
    <3>3. PICK s \in {name, Truncated(name)} : shown = [kind |-> k, id |-> id, name |-> s]
      BY <3>2
    <3>4. shown.kind = k /\ shown.id = id /\ shown.name = s
      BY <3>3
    <3> QED
      BY <3>2, <3>3, <3>4
  <2>5. \A k \in Kinds, id \in Id : \A i, j \in Slots(k, id) : i = j
    BY <2>1 DEF Slots, SlotsInv, InUse
  <2> QED
    BY <2>3, <2>4, <2>5 DEF Honest
<1> QED
  BY <1>1, ListInvHolds, PTL

(* The database is asked for an id again only when its last CacheSize      *)
(* answers have none for that id that is not empty.                        *)
THEOREM AskedOnceHolds == ListSpec => AskedOnce
<1> DEFINE Fresh(k, id) ==
             \A i \in 1..Len(recent[k]) : recent[k][i].id = id => recent[k][i].name = << >>
<1>1. ASSUME ListInv, NEW k \in Kinds, NEW id \in Id, Resolve(k, id) \/ AskFails(k, id)
      PROVE  Fresh(k, id)
  <2>1. Slots(k, id) = {}
    BY <1>1 DEF Resolve, AskFails, Ask
  <2> TAKE i \in 1..Len(recent[k])
  <2> SUFFICES ASSUME recent[k][i].id = id PROVE recent[k][i].name = << >>
    OBVIOUS
  <2> DEFINE Pair == [id : Id, name : Seq(STRING)]
             at == next[k] - Len(recent[k]) + i - 1
             slot == at % CacheSize
  <2>2. recent[k] \in Seq(Pair) /\ Len(recent[k]) \in Nat /\ Len(recent[k]) <= next[k]
        /\ next[k] \in Nat /\ CacheSize \in Nat \ {0}
    <3>1. recent[k] \in Seq(Pair)
      BY <1>1 DEF ListInv, RecentInv
    <3> QED
      BY <3>1, <1>1, LenProperties, CacheAssumption DEF ListInv, RecentInv, CacheInv, SlotsInv
  <2>3. recent[k][i] \in Pair
    <3> HIDE DEF Pair
    <3> QED
      BY <2>2, ElementOfSeq
  <2>4. recent[k][i].name \in Seq(STRING)
    BY <2>3
  <2>5. slot \in 0..(CacheSize - 1)
    <3>1. at \in Nat
      BY <2>2
    <3> HIDE DEF at
    <3> QED
      BY <3>1, <2>2
  <2>6. cache[k][slot] = [name |-> Truncated(recent[k][i].name), id |-> recent[k][i].id]
    BY <1>1 DEF ListInv, RecentInv
  <2>7. slot \in DOMAIN cache[k] /\ cache[k][slot].id = id
        /\ cache[k][slot].name = Truncated(recent[k][i].name)
    <3>1. cache[k] \in [0..(CacheSize - 1) -> Slot]
      BY <1>1 DEF ListInv, CacheInv, SlotsInv
    <3> HIDE DEF slot
    <3>2. slot \in DOMAIN cache[k]
      BY <3>1, <2>5
    <3> QED
      BY <3>2, <2>6
  <2> HIDE DEF slot
  <2>8. Truncated(recent[k][i].name) = << >>
    BY <2>1, <2>7 DEF Slots
  <2> QED
    BY <2>4, <2>8, TruncatedFacts
<1>2. ListInv /\ [ListNext]_listVars =>
        [\A k \in Kinds, id \in Id :
           stage = k /\ (Resolve(k, id) \/ AskFails(k, id)) =>
             \A i \in 1..Len(recent[k]) :
               recent[k][i].id = id => recent[k][i].name = << >>]_listVars
  BY <1>1
<1> QED
  BY <1>2, ListInvHolds, PTL DEF ListSpec, AskedOnce
=============================================================================
