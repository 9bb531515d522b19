---------------------------- MODULE ArrayProofs ----------------------------
(***************************************************************************)
(* Theorems about DynArray and Entries, for every limit, every size of a   *)
(* word and every number of items and allocations: growing, popping,       *)
(* clearing and reversing the array in any order keep the sequence it      *)
(* stands for, and each allocation of an entry has one owner.              *)
(***************************************************************************)
EXTENDS Entries, FiniteSetTheorems, SequenceTheorems, TLAPS

Shape ==
  /\ allocs \in Nat
  /\ cap \in 0..MaxAlloc /\ len \in 0..cap /\ data \in [1..cap -> Nat]
  /\ content \in Seq(Nat) /\ Len(content) = len

(* While array_reverse runs, the places outside left .. right - 1 are done.*)
Halves ==
  /\ left = 0 => \A i \in 1..len : data[i] = content[i]
  /\ left # 0 =>
       /\ left \in 1..(len + 1) /\ right \in Nat /\ left + right = len + 2
       /\ left <= right + 1
       /\ \A i \in 1..len :
            data[i] = IF left <= i /\ i < right THEN content[len + 1 - i] ELSE content[i]

ArrayInv == Shape /\ Halves /\ left \in Nat
-----------------------------------------------------------------------------
(* realloc_arr_ always gains a place, also when the double wraps around. *)
LEMMA CapacityGrows ==
  ASSUME NEW c \in Nat, c < MaxAlloc
  PROVE  NewCap(c) \in (c + 1)..MaxAlloc
<1>1. Word \in Nat /\ MaxAlloc \in Nat /\ MaxAlloc < Word /\ 0 < MaxAlloc
  BY ArrayAssumption
<1>2. CASE c = 0
  BY <1>1, <1>2 DEF NewCap
<1>3. CASE c # 0 /\ 2 * c < Word
  <2>1. (2 * c) % Word = 2 * c
    BY <1>1, <1>3
  <2> QED
    BY <1>1, <1>3, <2>1 DEF NewCap
<1>4. CASE c # 0 /\ Word <= 2 * c
  <2>1. (2 * c) % Word = 2 * c - Word
    <3>1. 2 * c = 1 * Word + (2 * c - Word) /\ 2 * c - Word \in 0..(Word - 1)
      BY <1>1, <1>4
    <3> QED
      BY <1>1, <3>1
  <2> QED
    BY <1>1, <1>4, <2>1 DEF NewCap
<1> QED
  BY <1>1, <1>2, <1>3, <1>4

(* New memory begins with the old contents. *)
LEMMA GrownKeeps ==
  ASSUME Shape, len = cap, cap < MaxAlloc
  PROVE  /\ NewCap(cap) \in (cap + 1)..MaxAlloc
         /\ Grown \in [1..NewCap(cap) -> Nat]
         /\ \A i \in 1..len : Grown[i] = data[i]
<1> DEFINE n == NewCap(cap)
           old == SubSeq(data, 1, len)
           new == Fresh(n - len)
<1>1. n \in (cap + 1)..MaxAlloc /\ n \in Nat /\ len \in Nat /\ len < n
  BY CapacityGrows, ArrayAssumption DEF Shape
<1> HIDE DEF n
<1>2. /\ old \in Seq(Nat) /\ Len(old) = len
      /\ \A i \in 1..len : old[i] = data[i]
  BY <1>1, SubSeqProperties DEF Shape
<1>3. new \in Seq(Nat) /\ Len(new) = n - len
  BY <1>1 DEF Fresh, Junk
<1> HIDE DEF old, new
<1>4. /\ old \o new \in Seq(Nat) /\ Len(old \o new) = n
      /\ \A i \in 1..len : (old \o new)[i] = old[i]
  <2>1. /\ old \o new \in Seq(Nat) /\ Len(old \o new) = Len(old) + Len(new)
        /\ \A i \in 1..(Len(old) + Len(new)) :
             (old \o new)[i] = IF i <= Len(old) THEN old[i] ELSE new[i - Len(old)]
    BY <1>2, <1>3, ConcatProperties
  <2>2. Len(old) + Len(new) = n
    BY <1>1, <1>2, <1>3
  <2> QED
    BY <1>1, <1>2, <2>1, <2>2
<1>5. Grown = old \o new
  BY DEF Grown, old, new, n
<1>6. Grown \in [1..n -> Nat]
  <2>1. \A s \in Seq(Nat) : s \in [1..Len(s) -> Nat]
    OBVIOUS
  <2> QED
    BY <1>4, <1>5, <2>1
<1>7. \A i \in 1..len : Grown[i] = data[i]
  BY <1>2, <1>4, <1>5
<1> QED
  BY <1>1, <1>6, <1>7 DEF n

LEMMA InitArrayInv == Init => ArrayInv
<1> SUFFICES ASSUME Init PROVE ArrayInv
  OBVIOUS
<1>1. cap \in 1..MaxAlloc /\ MaxAlloc \in Nat /\ len = 0 /\ left = 0 /\ allocs = 0
  BY ArrayAssumption DEF Init, ArrayInit
<1>2. data \in [1..cap -> Nat]
  BY <1>1 DEF Init, ArrayInit, Fresh, Junk
<1>3. content \in Seq(Nat) /\ Len(content) = 0
  BY DEF Init, ArrayInit
<1> QED
  BY <1>1, <1>2, <1>3 DEF ArrayInv, Shape, Halves

LEMMA AppendKeeps ==
  ASSUME ArrayInv, NEW item \in Nat, ArrayAppend(item), allocs' \in Nat
  PROVE  ArrayInv'
<1>1. /\ left = 0 /\ left' = 0 /\ len \in Nat /\ cap \in Nat /\ MaxAlloc \in Nat
      /\ len <= cap /\ cap <= MaxAlloc
      /\ \A i \in 1..len : data[i] = content[i]
  BY ArrayAssumption DEF ArrayInv, Shape, Halves, ArrayAppend, Idle, reversal
<1>2. /\ content' \in Seq(Nat) /\ Len(content') = len + 1
      /\ content'[len + 1] = item /\ \A i \in 1..len : content'[i] = content[i]
  BY AppendProperties DEF ArrayAppend, ArrayInv, Shape
<1>3. len' = len + 1
  BY DEF ArrayAppend
<1>4. /\ cap' \in 0..MaxAlloc /\ len + 1 <= cap' /\ data' \in [1..cap' -> Nat]
      /\ data'[len + 1] = item /\ \A i \in 1..len : data'[i] = data[i]
  <2>1. CASE len < cap
    <3>1. data' = [data EXCEPT ![len + 1] = item] /\ cap' = cap
      BY <2>1 DEF ArrayAppend
    <3> QED
      BY <1>1, <2>1, <3>1 DEF ArrayInv, Shape
  <2>2. CASE ~(len < cap)
    <3>1. /\ len = cap /\ cap < MaxAlloc /\ cap' = NewCap(cap)
          /\ data' = [Grown EXCEPT ![len + 1] = item]
      BY <1>1, <2>2 DEF ArrayAppend
    <3>2. /\ cap' \in (cap + 1)..MaxAlloc /\ Grown \in [1..cap' -> Nat]
          /\ \A i \in 1..len : Grown[i] = data[i]
      BY <3>1, GrownKeeps DEF ArrayInv
    <3> QED
      BY <1>1, <3>1, <3>2
  <2> QED
    BY <2>1, <2>2
<1>5. Shape'
  BY <1>1, <1>2, <1>3, <1>4 DEF Shape
<1>6. \A i \in 1..len' : data'[i] = content'[i]
  BY <1>1, <1>2, <1>3, <1>4
<1> QED
  BY <1>1, <1>5, <1>6 DEF ArrayInv, Halves

LEMMA PopKeeps ==
  ASSUME ArrayInv, ArrayPop, allocs' \in Nat
  PROVE  ArrayInv'
<1>1. /\ left = 0 /\ left' = 0 /\ len \in Nat /\ 0 < len /\ len' = len - 1
      /\ cap' = cap /\ data' = data
      /\ \A i \in 1..len : data[i] = content[i]
  BY DEF ArrayInv, Shape, Halves, ArrayPop, Idle, reversal, storage
<1>2. content' = SubSeq(content, 1, len - 1)
  BY DEF ArrayPop, Front, ArrayInv, Shape
<1>3. /\ content' \in Seq(Nat) /\ Len(content') = len - 1
      /\ \A i \in 1..(len - 1) : content'[i] = content[i]
  BY <1>1, <1>2, SubSeqProperties DEF ArrayInv, Shape
<1>4. Shape'
  BY <1>1, <1>3 DEF ArrayInv, Shape
<1> QED
  BY <1>1, <1>3, <1>4 DEF ArrayInv, Halves

LEMMA EmptyKeeps ==
  ASSUME ArrayInv, ArrayClear \/ ArrayDestroy, allocs' \in Nat
  PROVE  ArrayInv'
<1>1. left' = 0 /\ len' = 0 /\ content' = << >>
  BY DEF ArrayClear, ArrayDestroy, Idle, reversal
<1>2. cap' \in 0..MaxAlloc /\ data' \in [1..cap' -> Nat]
  <2>1. CASE ArrayClear
    BY <2>1 DEF ArrayClear, storage, ArrayInv, Shape
  <2>2. CASE ArrayDestroy
    <3>1. data' = << >> /\ cap' = 0 /\ MaxAlloc \in Nat
      BY <2>2, ArrayAssumption DEF ArrayDestroy
    <3>2. << >> \in [1..0 -> Nat]
      OBVIOUS
    <3> QED
      BY <3>1, <3>2
  <2> QED
    BY <2>1, <2>2
<1> QED
  BY <1>1, <1>2, ArrayAssumption DEF ArrayInv, Shape, Halves

(* The rounds of array_reverse. *)
LEMMA ReverseKeeps ==
  ASSUME ArrayInv, ArrayReverse \/ Swap \/ ReverseDone, allocs' \in Nat
  PROVE  ArrayInv'
<1>1. len \in Nat /\ cap \in Nat /\ len <= cap /\ len' = len /\ cap' = cap
  BY ArrayAssumption DEF ArrayInv, Shape, ArrayReverse, Swap, ReverseDone, storage
<1>2. CASE ArrayReverse
  <2>1. /\ left' = 1 /\ right' = len + 1 /\ data' = data
        /\ \A i \in 1..len : data[i] = content[i]
    BY <1>2 DEF ArrayReverse, Idle, storage, ArrayInv, Halves
  <2>2. content' = [i \in 1..len |-> content[(len - i) + 1]]
    BY <1>2 DEF ArrayReverse, Reverse, ArrayInv, Shape
  <2>3. /\ content' \in Seq(Nat) /\ Len(content') = len
        /\ \A i \in 1..len : content'[i] = content[(len - i) + 1]
    <3>1. \A i \in 1..len : content[(len - i) + 1] \in Nat
      BY <1>1 DEF ArrayInv, Shape
    <3> QED
      BY <1>1, <2>2, <3>1
  <2>4. \A i \in 1..len : data'[i] = content'[len + 1 - i]
    <3> TAKE i \in 1..len
    <3>1. len + 1 - i \in 1..len /\ (len - (len + 1 - i)) + 1 = i
      BY <1>1
    <3> QED
      BY <2>1, <2>3, <3>1
  <2>5. Shape'
    BY <1>1, <2>1, <2>3 DEF ArrayInv, Shape
  <2> QED
    BY <1>1, <2>1, <2>4, <2>5 DEF ArrayInv, Halves
<1>3. CASE Swap
  <2>1. /\ left \in 1..(len + 1) /\ right \in Nat /\ left + right = len + 2
        /\ left < right /\ left' = left + 1 /\ right' = right - 1 /\ content' = content
        /\ data' = [data EXCEPT ![left] = data[right - 1], ![right - 1] = data[left]]
    BY <1>3 DEF Swap, Idle, Partner, ArrayInv, Halves
  <2>2. /\ left \in 1..len /\ right - 1 \in 1..len
        /\ right - 1 = len + 1 - left
    BY <1>1, <2>1
  <2>3. \A i \in 1..len :
          data[i] = IF left <= i /\ i < right THEN content[len + 1 - i] ELSE content[i]
    BY <2>1 DEF ArrayInv, Halves
  <2>4. data \in [1..cap -> Nat]
    BY DEF ArrayInv, Shape
  <2>5. data[left] = content[right - 1] /\ data[right - 1] = content[left]
    <3>1. len + 1 - (right - 1) = left
      BY <1>1, <2>1
    <3> QED
      BY <1>1, <2>1, <2>2, <2>3, <3>1
  <2>6. data' \in [1..cap -> Nat]
    BY <1>1, <2>1, <2>2, <2>4
  <2>7. \A i \in 1..len :
          data'[i] = IF i = right - 1 THEN data[left]
                     ELSE IF i = left THEN data[right - 1] ELSE data[i]
    BY <1>1, <2>1, <2>2, <2>4
  <2>8. ASSUME NEW i \in 1..len
        PROVE  data'[i] = IF left + 1 <= i /\ i < right - 1
                          THEN content[len + 1 - i] ELSE content[i]
    <3>1. CASE i = right - 1
      <4>1. data'[i] = data[left]
        BY <2>7, <3>1
      <4>2. data'[i] = content[i]
        BY <2>5, <3>1, <4>1
      <4>3. ~(i < right - 1)
        BY <1>1, <2>1, <3>1
      <4> QED
        BY <4>2, <4>3
    <3>2. CASE i # right - 1 /\ i = left
      <4>1. data'[i] = data[right - 1]
        BY <2>7, <3>2
      <4>2. data'[i] = content[i]
        BY <2>5, <3>2, <4>1
      <4>3. ~(left + 1 <= i)
        BY <1>1, <2>1, <3>2
      <4> QED
        BY <4>2, <4>3
    <3>3. CASE i # left /\ i # right - 1
      <4>1. data'[i] = data[i]
        BY <2>7, <3>3
      <4>2. (left <= i /\ i < right) <=> (left + 1 <= i /\ i < right - 1)
        BY <1>1, <2>1, <3>3
      <4> QED
        BY <2>3, <4>1, <4>2
    <3> QED
      BY <3>1, <3>2, <3>3
  <2>9. Shape'
    BY <1>1, <2>1, <2>6 DEF ArrayInv, Shape
  <2>10. /\ left' # 0 /\ left' \in 1..(len' + 1) /\ right' \in Nat
         /\ left' + right' = len' + 2 /\ left' <= right' + 1
    BY <1>1, <2>1
  <2>11. \A i \in 1..len' :
           data'[i] = IF left' <= i /\ i < right'
                      THEN content'[len' + 1 - i] ELSE content'[i]
    BY <1>1, <2>1, <2>8
  <2>12. Halves'
    BY <2>10, <2>11 DEF Halves
  <2>13. left' \in Nat
    BY <1>1, <2>10
  <2> QED
    BY <2>9, <2>12, <2>13 DEF ArrayInv
<1>4. CASE ReverseDone
  <2>1. /\ left \in 1..(len + 1) /\ right \in Nat /\ right <= left
        /\ left' = 0 /\ data' = data /\ content' = content
    BY <1>4 DEF ReverseDone, Idle, storage, ArrayInv, Halves
  <2>2. \A i \in 1..len : data[i] = content[i]
    BY <1>1, <1>4, <2>1 DEF ReverseDone, Idle, ArrayInv, Halves
  <2> QED
    BY <1>1, <2>1, <2>2 DEF ArrayInv, Shape, Halves
<1> QED
  BY <1>2, <1>3, <1>4

LEMMA SameKeeps ==
  ASSUME ArrayInv, UNCHANGED arrayVars, allocs' \in Nat
  PROVE  ArrayInv'
BY DEF ArrayInv, Shape, Halves, arrayVars, storage, reversal

LEMMA NextArrayInv == ArrayInv /\ [Next]_vars => ArrayInv'
<1> SUFFICES ASSUME ArrayInv, [Next]_vars PROVE ArrayInv'
  OBVIOUS
<1>1. allocs \in Nat
  BY DEF ArrayInv, Shape
<1>2. ASSUME NEW e \in NewEntries, Queue(e) PROVE ArrayInv'
  <2>1. e.at = allocs + 1
    BY DEF NewEntries, NewFileOperand, NewPath
  <2>2. allocs' \in Nat /\ ArrayAppend(e.at)
    BY <1>1, <1>2 DEF Queue, Malloc, Allocate
  <2> QED
    BY <1>1, <2>1, <2>2, AppendKeeps
<1>3. ASSUME NEW e \in NewEntries, QueueFails(e) PROVE ArrayInv'
  BY <1>1, <1>3, SameKeeps DEF QueueFails, Malloc, Allocate, AppendRefused
<1>4. CASE NewFails
  BY <1>1, <1>4, SameKeeps DEF NewFails, Malloc, Allocate
<1>5. CASE Pop
  BY <1>1, <1>5, PopKeeps DEF Pop, memory
<1>6. CASE ReverseQueue
  BY <1>1, <1>6, ReverseKeeps DEF ReverseQueue, memory
<1>7. CASE NewDirent
  BY <1>1, <1>7, SameKeeps DEF NewDirent, ArenaPush, Allocate
<1>8. ASSUME NEW e \in entries, BuildPath(e) PROVE ArrayInv'
  BY <1>1, <1>8, SameKeeps DEF BuildPath, ArenaPush, Allocate
<1>9. CASE ClearArena \/ FreeDirPath
  BY <1>1, <1>9, SameKeeps DEF ClearArena, FreeDirPath, memory
<1>10. CASE ClearFiles
  BY <1>1, <1>10, EmptyKeeps DEF ClearFiles, FreeItems, memory
<1>11. CASE Cleanup
  BY <1>1, <1>11, EmptyKeeps DEF Cleanup, FreeItems, memory
<1>12. CASE UNCHANGED vars
  BY <1>1, <1>12, SameKeeps DEF vars, memory
<1> QED
  BY <1>2, <1>3, <1>4, <1>5, <1>6, <1>7, <1>8, <1>9, <1>10, <1>11, <1>12 DEF Next
-----------------------------------------------------------------------------
(* For every limit and every word in which it fits: growing, popping,      *)
(* clearing and reversing keep the sequence that was stored (ft_array.c),  *)
(* on which the order of directories and operands depends.                 *)
THEOREM SequenceKept == Spec => []SameSequence
<1>1. ArrayInv => SameSequence
  <2> SUFFICES ASSUME ArrayInv, left = 0 PROVE SubSeq(data, 1, len) = content
    BY DEF SameSequence, Idle
  <2>1. len \in Nat /\ \A i \in 1..len : data[i] = content[i] /\ data[i] \in Nat
    BY DEF ArrayInv, Shape, Halves
  <2>2. /\ SubSeq(data, 1, len) \in Seq(Nat) /\ Len(SubSeq(data, 1, len)) = len
        /\ \A i \in 1..len : SubSeq(data, 1, len)[i] = content[i]
    BY <2>1, SubSeqProperties
  <2> QED
    BY <2>1, <2>2, SeqEqual DEF ArrayInv, Shape
<1>2. QED
  BY <1>1, InitArrayInv, NextArrayInv, PTL DEF Spec
-----------------------------------------------------------------------------
(* What the array holds: no address twice.                                 *)
Distinct == \A i, j \in 1..len : data[i] = data[j] => i = j

LEMMA AppendItems ==
  ASSUME ArrayInv, Distinct, NEW item \in Nat, item \notin Items,
         ArrayAppend(item), allocs' \in Nat
  PROVE  Items' = Items \cup {item} /\ Distinct'
<1>1. ArrayInv'
  BY AppendKeeps
<1>2. left = 0 /\ left' = 0 /\ len \in Nat /\ len' = len + 1
  BY ArrayAssumption DEF ArrayAppend, Idle, reversal, ArrayInv, Shape
<1>3. /\ content' \in Seq(Nat) /\ Len(content') = len + 1
      /\ content'[len + 1] = item /\ \A i \in 1..len : content'[i] = content[i]
  BY AppendProperties DEF ArrayAppend, ArrayInv, Shape
<1>4. \A i \in 1..len : data[i] = content[i]
  BY <1>2 DEF ArrayInv, Halves
<1>5. \A i \in 1..len' : data'[i] = content'[i]
  BY <1>1, <1>2 DEF ArrayInv, Halves
<1>6. data'[len + 1] = item /\ \A i \in 1..len : data'[i] = data[i]
  BY <1>2, <1>3, <1>4, <1>5
<1> QED
  BY <1>2, <1>6 DEF Items, Distinct

LEMMA PopItems ==
  ASSUME ArrayInv, Distinct, ArrayPop
  PROVE  /\ data[len] \in Items /\ Items' = Items \ {data[len]} /\ Distinct'
<1>1. len \in Nat /\ 0 < len /\ len' = len - 1 /\ data' = data
  BY ArrayAssumption DEF ArrayPop, storage, ArrayInv, Shape
<1> QED
  BY <1>1 DEF Items, Distinct

LEMMA EmptyItems ==
  ASSUME ArrayClear \/ ArrayDestroy
  PROVE  Items' = {} /\ Distinct'
<1>1. len' = 0
  BY DEF ArrayClear, ArrayDestroy
<1> QED
  BY <1>1 DEF Items, Distinct

LEMMA ReverseItems ==
  ASSUME ArrayInv, Distinct, ArrayReverse \/ Swap \/ ReverseDone
  PROVE  Items' = Items /\ Distinct'
<1>1. len \in Nat /\ cap \in Nat /\ len <= cap /\ len' = len
  BY ArrayAssumption DEF ArrayInv, Shape, ArrayReverse, Swap, ReverseDone, storage
<1>2. CASE ArrayReverse \/ ReverseDone
  <2>1. data' = data
    BY <1>2 DEF ArrayReverse, ReverseDone, storage
  <2> QED
    BY <1>1, <2>1 DEF Items, Distinct
<1>3. CASE Swap
  <2> DEFINE i0 == left
             j0 == right - 1
  <2>1. i0 \in 1..len /\ j0 \in 1..len
    BY <1>1, <1>3 DEF Swap, Idle, Partner, ArrayInv, Halves
  <2>2. data' = [data EXCEPT ![i0] = data[j0], ![j0] = data[i0]]
    BY <1>3 DEF Swap, Partner
  <2>3. data \in [1..cap -> Nat]
    BY DEF ArrayInv, Shape
  <2> HIDE DEF i0, j0
  <2>4. \A i \in 1..len :
          data'[i] = IF i = j0 THEN data[i0] ELSE IF i = i0 THEN data[j0] ELSE data[i]
    BY <1>1, <2>1, <2>2, <2>3
  <2>5. Items' \subseteq Items
    BY <1>1, <2>1, <2>4 DEF Items
  <2>6. Items \subseteq Items'
    <3>1. ASSUME NEW i \in 1..len PROVE \E j \in 1..len : data'[j] = data[i]
      <4>1. CASE i = i0
        BY <2>1, <2>4, <4>1
      <4>2. CASE i = j0
        BY <2>1, <2>4, <4>2
      <4>3. CASE i # i0 /\ i # j0
        BY <2>4, <4>3
      <4> QED
        BY <4>1, <4>2, <4>3
    <3> QED
      BY <1>1, <3>1 DEF Items
  <2>7. Distinct'
    BY <1>1, <2>1, <2>4 DEF Distinct
  <2> QED
    BY <2>5, <2>6, <2>7
<1> QED
  BY <1>2, <1>3

LEMMA ItemsCounted ==
  ASSUME ArrayInv, Distinct
  PROVE  Cardinality(Items) = len
<1> DEFINE f == [i \in 1..len |-> data[i]]
<1>1. len \in Nat
  BY ArrayAssumption DEF ArrayInv, Shape
<1>2. IsFiniteSet(1..len) /\ Cardinality(1..len) = len
  BY <1>1, FS_Interval
<1>3. f \in Bijection(1..len, Items)
  BY <1>1 DEF Distinct, Items, Bijection, Injection, Surjection, IsInjective
<1> QED
  BY <1>2, <1>3, FS_Bijection DEF ExistsBijection
-----------------------------------------------------------------------------
HeapEntries == {e \in entries : e.heap}

(* An entry on the heap has a path and holds nothing but what it can free, *)
(* and its strings are not the entry itself; one in the arena holds        *)
(* nothing that is malloc's.                                               *)
Sound(e) ==
  /\ e.at # NULL /\ Parts(e) \subseteq 1..allocs
  /\ e.heap => /\ e.path # NULL /\ e.path # e.at /\ e.name # e.at
               /\ Parts(e) \subseteq InUse
  /\ ~e.heap => Parts(e) \cap onHeap = {}

MemoryInv ==
  /\ allocs \in 0..MaxAllocs /\ onHeap \subseteq 1..allocs /\ freed \subseteq onHeap
  /\ amiss = {}

EntriesInv ==
  /\ entries \subseteq Entry
  /\ \A e \in entries : Sound(e)
  /\ \A e, d \in HeapEntries : e # d => Parts(e) \cap Parts(d) = {}
  /\ InUse \subseteq UNION {Parts(e) : e \in HeapEntries}

(* The entries on the heap are those of the array and dir_path.            *)
HeldInv ==
  /\ dirPath \in Nat /\ dirPath \notin Items
  /\ {e.at : e \in HeapEntries} = Items \cup ({dirPath} \ {NULL})
  /\ Distinct

OwnInv ==
  /\ ArrayInv /\ (left = 0 => right = 0)
  /\ MemoryInv /\ EntriesInv /\ HeldInv

(* An address in the array or in dir_path is that of one entry.            *)
LEMMA EntryAtHeld ==
  ASSUME MemoryInv, EntriesInv, HeldInv, NEW a \in Items \cup ({dirPath} \ {NULL})
  PROVE  /\ EntryAt(a) \in HeapEntries /\ EntryAt(a).at = a
         /\ \A e \in entries : e.at = a => e = EntryAt(a)
<1>1. PICK h \in HeapEntries : h.at = a
  BY DEF HeldInv
<1>2. \A e \in entries : a = e.at => a \in Parts(e)
  BY DEF EntriesInv, Sound, Parts
<1>3. a \in onHeap
  BY <1>1, <1>2 DEF EntriesInv, Sound, HeapEntries, InUse
<1>4. ASSUME NEW e \in entries, e.at = a PROVE e = h
  <2>1. a \in Parts(e) /\ a \in Parts(h)
    BY <1>1, <1>2, <1>4 DEF HeapEntries
  <2>2. e.heap
    BY <1>3, <2>1 DEF EntriesInv, Sound
  <2> QED
    BY <1>1, <2>1, <2>2 DEF EntriesInv, HeapEntries
<1>5. EntryAt(a) = h
  BY <1>1, <1>4 DEF EntryAt, HeapEntries
<1> QED
  BY <1>1, <1>4, <1>5

(* entry_free frees each part of an entry once.                            *)
LEMMA EntryFreed ==
  ASSUME NEW e \in Entry, e.at # NULL, e.path # NULL, e.path # e.at, e.name # e.at
  PROVE  /\ {EntryFree(e)[f] : f \in DOMAIN EntryFree(e)} = Parts(e)
         /\ \A f, g \in DOMAIN EntryFree(e) :
              EntryFree(e)[f] = EntryFree(e)[g] => f = g
<1> DEFINE D == Strings(e) \cup {"at"}
<1>1. D = IF e.name = NULL THEN {"path", "at"}
          ELSE IF e.path = e.name THEN {"name", "at"} ELSE {"path", "name", "at"}
  BY DEF Strings
<1>2. EntryFree(e) = [f \in D |-> e[f]]
  BY DEF EntryFree
<1>3. e["path"] = e.path /\ e["name"] = e.name /\ e["at"] = e.at
  OBVIOUS
<1> HIDE DEF D
<1>4. DOMAIN EntryFree(e) = D /\ \A f \in D : EntryFree(e)[f] = e[f]
  BY <1>2
<1>5. {e[f] : f \in D} = Parts(e)
  BY <1>1, <1>3 DEF Parts
<1>6. \A f, g \in D : e[f] = e[g] => f = g
  BY <1>1, <1>3
<1> QED
  BY <1>4, <1>5, <1>6

(* The calls that free the entries of an array free the parts of each of   *)
(* them, and none twice.                                                   *)
LEMMA ArrayFreed ==
  ASSUME OwnInv
  PROVE  LET freeing == [i \in 1..len |-> EntryFree(EntryAt(data[i]))]
             calls == [c \in UNION {{i} \X DOMAIN freeing[i] : i \in 1..len} |->
                         freeing[c[1]][c[2]]]
         IN  /\ {calls[c] : c \in DOMAIN calls}
                  = UNION {Parts(e) : e \in {d \in entries : d.at \in Items}}
             /\ \A b, c \in DOMAIN calls : calls[b] = calls[c] => b = c
<1> DEFINE E(i) == EntryAt(data[i])
           freeing == [i \in 1..len |-> EntryFree(E(i))]
           D == UNION {{i} \X DOMAIN freeing[i] : i \in 1..len}
           calls == [c \in D |-> freeing[c[1]][c[2]]]
<1>1. \A i \in 1..len : /\ E(i) \in HeapEntries /\ E(i).at = data[i]
                        /\ \A e \in entries : e.at = data[i] => e = E(i)
  BY EntryAtHeld DEF OwnInv, Items
<1>2. \A i \in 1..len :
        /\ E(i) \in Entry /\ E(i).at # NULL /\ E(i).path # NULL
        /\ E(i).path # E(i).at /\ E(i).name # E(i).at
  BY <1>1 DEF OwnInv, EntriesInv, Sound, HeapEntries
<1>3. \A i \in 1..len :
        /\ {freeing[i][f] : f \in DOMAIN freeing[i]} = Parts(E(i))
        /\ \A f, g \in DOMAIN freeing[i] : freeing[i][f] = freeing[i][g] => f = g
  BY <1>2, EntryFreed
<1>4. \A i, j \in 1..len : i # j => Parts(E(i)) \cap Parts(E(j)) = {}
  <2> SUFFICES ASSUME NEW i \in 1..len, NEW j \in 1..len, i # j
               PROVE  Parts(E(i)) \cap Parts(E(j)) = {}
    OBVIOUS
  <2>1. data[i] # data[j]
    BY DEF OwnInv, HeldInv, Distinct
  <2> QED
    BY <1>1, <2>1 DEF OwnInv, EntriesInv
<1> HIDE DEF freeing
<1>5. \A c \in D : \E i \in 1..len : \E f \in DOMAIN freeing[i] : c = <<i, f>>
  OBVIOUS
<1>6. \A i \in 1..len : \A f \in DOMAIN freeing[i] :
        <<i, f>> \in D /\ calls[<<i, f>>] = freeing[i][f]
  OBVIOUS
<1> HIDE DEF D
<1>7. DOMAIN calls = D
  OBVIOUS
<1> HIDE DEF calls, E
<1>8. {calls[c] : c \in D} = UNION {Parts(E(i)) : i \in 1..len}
  <2>1. ASSUME NEW c \in D PROVE \E i \in 1..len : calls[c] \in Parts(E(i))
    BY <1>3, <1>5, <1>6, <2>1
  <2>2. ASSUME NEW i \in 1..len, NEW a \in Parts(E(i)) PROVE \E c \in D : calls[c] = a
    <3>1. PICK f \in DOMAIN freeing[i] : freeing[i][f] = a
      BY <1>3, <2>2
    <3>2. <<i, f>> \in D /\ calls[<<i, f>>] = a
      BY <1>6, <3>1
    <3> QED
      BY <3>2
  <2> QED
    BY <2>1, <2>2
<1>9. {E(i) : i \in 1..len} = {d \in entries : d.at \in Items}
  BY <1>1 DEF Items, HeapEntries
<1>10. UNION {Parts(E(i)) : i \in 1..len}
         = UNION {Parts(e) : e \in {d \in entries : d.at \in Items}}
  BY <1>9
<1>11. ASSUME NEW b \in D, NEW c \in D, calls[b] = calls[c] PROVE b = c
  <2>1. PICK i \in 1..len : \E f \in DOMAIN freeing[i] : b = <<i, f>>
    BY <1>5
  <2>2. PICK f \in DOMAIN freeing[i] : b = <<i, f>>
    BY <2>1
  <2>3. PICK j \in 1..len : \E g \in DOMAIN freeing[j] : c = <<j, g>>
    BY <1>5
  <2>4. PICK g \in DOMAIN freeing[j] : c = <<j, g>>
    BY <2>3
  <2>5. freeing[i][f] = freeing[j][g]
    BY <1>6, <1>11, <2>2, <2>4
  <2>6. freeing[i][f] \in Parts(E(i)) /\ freeing[j][g] \in Parts(E(j))
    BY <1>3
  <2>7. i = j
    BY <1>4, <2>5, <2>6
  <2> QED
    BY <1>3, <2>2, <2>4, <2>5, <2>7
<1> QED
  BY <1>7, <1>8, <1>10, <1>11 DEF calls, D, freeing, E

LEMMA InitOwn == Init => OwnInv
<1> SUFFICES ASSUME Init PROVE OwnInv
  OBVIOUS
<1>1. ArrayInv
  BY InitArrayInv
<1>2. /\ left = 0 /\ right = 0 /\ len = 0 /\ allocs = 0 /\ onHeap = {} /\ freed = {}
      /\ amiss = {} /\ entries = {} /\ dirPath = 0
  BY DEF Init, ArrayInit, NULL
<1>3. MemoryInv /\ EntriesInv
  BY <1>2, EntriesAssumption DEF MemoryInv, EntriesInv, HeapEntries, InUse
<1>4. HeldInv
  BY <1>2 DEF HeldInv, HeapEntries, Items, Distinct, NULL
<1> QED
  BY <1>1, <1>2, <1>3, <1>4 DEF OwnInv

(* Memory that is freed at once is no entry's: N is what was allocated and *)
(* freed again.                                                            *)
LEMMA OldEntriesSound ==
  ASSUME OwnInv, NEW N, N \subseteq (allocs + 1)..allocs', allocs' \in Nat,
         allocs <= allocs', allocs' <= MaxAllocs,
         onHeap' = onHeap \cup N, freed' = freed \cup N, amiss' = {},
         entries' = entries
  PROVE  MemoryInv' /\ EntriesInv'
<1>1. /\ allocs \in Nat /\ onHeap \subseteq 1..allocs /\ freed \subseteq onHeap
  BY DEF OwnInv, MemoryInv
<1>2. MemoryInv'
  BY <1>1 DEF MemoryInv
<1>3. InUse' = InUse
  <2>1. N \cap onHeap = {}
    BY <1>1
  <2> QED
    BY <1>1, <2>1 DEF InUse
<1>4. \A e : Parts(e)' = Parts(e)
  BY DEF Parts
<1>5. \A e \in entries : Sound(e)'
  <2> SUFFICES ASSUME NEW e \in entries PROVE Sound(e)'
    OBVIOUS
  <2>1. Sound(e)
    BY DEF OwnInv, EntriesInv
  <2>2. Parts(e) \cap N = {}
    BY <1>1, <2>1 DEF Sound
  <2> QED
    BY <1>1, <1>3, <2>1, <2>2 DEF Sound, Parts
<1> QED
  BY <1>2, <1>3, <1>5 DEF OwnInv, EntriesInv, HeapEntries, Parts

LEMMA NewEntry ==
  ASSUME MemoryInv, NEW e \in NewEntries
  PROVE  /\ e \in Entry /\ e.heap /\ e.at = allocs + 1 /\ e.path = allocs + 2
         /\ e.name \in {NULL, allocs + 2} /\ NULL = 0
         /\ Parts(e) = (allocs + 1)..(allocs + 2)
<1>1. allocs \in Nat
  BY DEF MemoryInv
<1>2. e = NewFileOperand \/ e = NewPath(NULL)
  BY DEF NewEntries, NewPath, PathCopy
<1>3. e = [at |-> allocs + 1, name |-> e.name, path |-> allocs + 2, heap |-> TRUE]
  BY <1>2 DEF NewFileOperand, NewPath, PathCopy
<1>4. e.name \in {NULL, allocs + 2}
  BY <1>2 DEF NewFileOperand, NewPath
<1>5. e.heap /\ e.at = allocs + 1 /\ e.path = allocs + 2 /\ NULL = 0
  BY <1>3 DEF NULL
<1>6. e \in Entry
  <2>1. e.name \in Nat
    BY <1>1, <1>4, <1>5
  <2> DEFINE n == e.name
  <2> HIDE DEF n
  <2>2. n \in Nat => [at |-> allocs + 1, name |-> n, path |-> allocs + 2, heap |-> TRUE] \in Entry
    BY <1>1 DEF Entry
  <2> QED
    BY <1>3, <2>1, <2>2 DEF n
<1>7. Parts(e) = (allocs + 1)..(allocs + 2)
  <2>1. Parts(e) = {allocs + 1, allocs + 2}
    BY <1>1, <1>4, <1>5 DEF Parts
  <2> QED
    BY <1>1, <2>1
<1> QED
  BY <1>4, <1>5, <1>6, <1>7

LEMMA QueueOwns ==
  ASSUME OwnInv, NEW e \in NewEntries, Queue(e)
  PROVE  MemoryInv' /\ EntriesInv' /\ HeldInv'
<1>1. /\ allocs \in Nat /\ onHeap \subseteq 1..allocs /\ freed \subseteq onHeap /\ amiss = {}
  BY DEF OwnInv, MemoryInv
<1>2. /\ e \in Entry /\ e.heap /\ e.at = allocs + 1 /\ e.path = allocs + 2
      /\ e.name \in {NULL, allocs + 2} /\ NULL = 0
      /\ Parts(e) = (allocs + 1)..(allocs + 2)
  BY NewEntry DEF OwnInv
<1>3. /\ allocs' = allocs + 2 /\ allocs' <= MaxAllocs
      /\ onHeap' = onHeap \cup Parts(e) /\ entries' = entries \cup {e}
      /\ freed' = freed /\ amiss' = amiss /\ dirPath' = dirPath
      /\ ArrayAppend(e.at)
  BY <1>1, <1>2 DEF Queue, Malloc, Allocate, frees
<1>4. MemoryInv'
  BY <1>1, <1>2, <1>3 DEF MemoryInv
<1>5. InUse' = InUse \cup Parts(e) /\ Parts(e) \cap onHeap = {}
  BY <1>1, <1>2, <1>3 DEF InUse
<1>6. \A d \in entries : Sound(d) /\ Parts(d) \subseteq 1..allocs /\ Parts(d) \cap Parts(e) = {}
  BY <1>1, <1>2 DEF OwnInv, EntriesInv, Sound
<1>7. HeapEntries' = HeapEntries \cup {e}
  BY <1>2, <1>3 DEF HeapEntries
<1>8. ASSUME NEW d \in entries PROVE Sound(d)'
  <2>1. /\ d.at # NULL /\ Parts(d) \subseteq 1..allocs /\ Parts(d) \cap Parts(e) = {}
        /\ d.heap => /\ d.path # NULL /\ d.path # d.at /\ d.name # d.at
                     /\ Parts(d) \subseteq InUse
        /\ ~d.heap => Parts(d) \cap onHeap = {}
    BY <1>6 DEF Sound
  <2>2. Parts(d) \subseteq 1..allocs'
    BY <1>1, <1>3, <2>1
  <2> QED
    BY <1>3, <1>5, <2>1, <2>2 DEF Sound, Parts
<1>9. Sound(e)'
  <2>1. /\ e.at # NULL /\ e.path # NULL /\ e.path # e.at /\ e.name # e.at
    BY <1>1, <1>2
  <2>2. Parts(e) \subseteq 1..allocs' /\ Parts(e) \subseteq InUse'
    BY <1>1, <1>2, <1>3, <1>5
  <2> QED
    BY <1>2, <2>1, <2>2 DEF Sound, Parts
<1>10. \A c, d \in HeapEntries' : c # d => Parts(c) \cap Parts(d) = {}
  <2>1. \A c, d \in HeapEntries : c # d => Parts(c) \cap Parts(d) = {}
    BY DEF OwnInv, EntriesInv
  <2>2. \A c \in HeapEntries : Parts(c) \cap Parts(e) = {}
    BY <1>6 DEF HeapEntries
  <2> QED
    BY <1>7, <2>1, <2>2
<1>11. InUse' \subseteq UNION {Parts(d) : d \in HeapEntries'}
  <2>1. InUse \subseteq UNION {Parts(d) : d \in HeapEntries}
    BY DEF OwnInv, EntriesInv
  <2> QED
    BY <1>5, <1>7, <2>1
<1>12. EntriesInv'
  <2>1. entries' \subseteq Entry
    BY <1>2, <1>3 DEF OwnInv, EntriesInv
  <2>2. \A d \in entries' : Sound(d)'
    BY <1>3, <1>8, <1>9
  <2>3. \A d : Parts(d)' = Parts(d)
    BY DEF Parts
  <2> QED
    BY <1>10, <1>11, <2>1, <2>2, <2>3 DEF EntriesInv
<1>13. HeldInv'
  <2>1. /\ dirPath \in Nat /\ dirPath \notin Items /\ Distinct
        /\ {d.at : d \in HeapEntries} = Items \cup ({dirPath} \ {NULL})
    BY DEF OwnInv, HeldInv
  <2>2. \A d \in HeapEntries : d.at # e.at
    <3>1. \A d \in HeapEntries : d.at \in Parts(d)
      BY DEF OwnInv, EntriesInv, Sound, Parts, HeapEntries
    <3>2. e.at \in Parts(e)
      BY <1>1, <1>2
    <3> QED
      BY <1>6, <3>1, <3>2 DEF HeapEntries
  <2>3. e.at \notin Items /\ e.at # dirPath
    BY <1>1, <1>2, <2>1, <2>2
  <2>4. Items' = Items \cup {e.at} /\ Distinct'
    <3>1. e.at \in Nat /\ allocs' \in Nat
      BY <1>1, <1>2, <1>3
    <3> QED
      BY <1>3, <2>1, <2>3, <3>1, AppendItems DEF OwnInv
  <2>5. {d.at : d \in HeapEntries'} = {d.at : d \in HeapEntries} \cup {e.at}
    BY <1>7
  <2> QED
    BY <1>3, <2>1, <2>3, <2>4, <2>5 DEF HeldInv
<1> QED
  BY <1>4, <1>12, <1>13

(* What is held stays held while neither the array nor dir_path changes    *)
(* hands and no entry on the heap comes or goes.                           *)
LEMMA SameHeld ==
  ASSUME HeldInv, Items' = Items, Distinct', dirPath' = dirPath,
         HeapEntries' = HeapEntries
  PROVE  HeldInv'
BY DEF HeldInv

LEMMA SameItems ==
  ASSUME HeldInv, UNCHANGED <<data, len>>
  PROVE  Items' = Items /\ Distinct'
BY DEF HeldInv, Items, Distinct

(* What is allocated and freed again leaves nothing behind.                *)
LEMMA FailureOwns ==
  ASSUME OwnInv, NewFails \/ \E e \in NewEntries : QueueFails(e)
  PROVE  MemoryInv' /\ EntriesInv' /\ HeldInv'
<1>1. /\ allocs \in Nat /\ onHeap \subseteq 1..allocs /\ freed \subseteq onHeap /\ amiss = {}
  BY DEF OwnInv, MemoryInv
<1>2. UNCHANGED <<data, len, entries, dirPath>>
  BY DEF NewFails, QueueFails, AppendRefused, arrayVars, storage
<1>3. HeldInv'
  <2>1. HeapEntries' = HeapEntries
    BY <1>2 DEF HeapEntries
  <2> QED
    BY <1>2, <2>1, SameItems, SameHeld DEF OwnInv
<1>4. \E N : /\ N \subseteq (allocs + 1)..allocs' /\ allocs' \in Nat
             /\ allocs <= allocs' /\ allocs' <= MaxAllocs
             /\ onHeap' = onHeap \cup N /\ freed' = freed \cup N /\ amiss' = {}
  <2>1. CASE NewFails
    <3> DEFINE calls == [a \in Undone(allocs') |-> a]
    <3>1. /\ allocs' = allocs + 1 /\ allocs' <= MaxAllocs
          /\ onHeap' = onHeap \cup {allocs'} /\ Free(calls)
      BY <1>1, <2>1 DEF NewFails, Malloc, Allocate
    <3>2. DOMAIN calls = {allocs'} /\ \A c \in DOMAIN calls : calls[c] = allocs'
      BY DEF Undone
    <3> HIDE DEF calls
    <3>3. freed' = freed \cup {allocs'} /\ amiss' = {}
      BY <1>1, <3>1, <3>2 DEF Free
    <3>4. /\ {allocs'} \subseteq (allocs + 1)..allocs' /\ allocs' \in Nat /\ allocs <= allocs'
      BY <1>1, <3>1
    <3> QED
      BY <3>1, <3>3, <3>4
  <2>2. CASE \E e \in NewEntries : QueueFails(e)
    <3>1. PICK e \in NewEntries : QueueFails(e)
      BY <2>2
    <3>2. /\ e \in Entry /\ e.heap /\ e.at = allocs + 1 /\ e.path = allocs + 2
          /\ e.name \in {NULL, allocs + 2} /\ NULL = 0
          /\ Parts(e) = (allocs + 1)..(allocs + 2)
      BY NewEntry DEF OwnInv
    <3>3. /\ allocs' = allocs + 2 /\ allocs' <= MaxAllocs
          /\ onHeap' = onHeap \cup Parts(e) /\ Free(EntryFree(e))
      BY <1>1, <3>1, <3>2 DEF QueueFails, Malloc, Allocate
    <3>4. e.at # NULL /\ e.path # NULL /\ e.path # e.at /\ e.name # e.at
      BY <1>1, <3>2
    <3>5. /\ {EntryFree(e)[f] : f \in DOMAIN EntryFree(e)} = Parts(e)
          /\ \A f, g \in DOMAIN EntryFree(e) :
               EntryFree(e)[f] = EntryFree(e)[g] => f = g
      BY <3>2, <3>4, EntryFreed
    <3>6. Parts(e) \subseteq onHeap' \ freed
      BY <1>1, <3>2, <3>3
    <3>7. freed' = freed \cup Parts(e) /\ amiss' = {}
      BY <1>1, <3>3, <3>5, <3>6 DEF Free
    <3>8. Parts(e) \subseteq (allocs + 1)..allocs' /\ allocs' \in Nat /\ allocs <= allocs'
      BY <1>1, <3>2, <3>3
    <3> QED
      BY <3>3, <3>7, <3>8
  <2> QED
    BY <2>1, <2>2
<1> QED
  BY <1>2, <1>3, <1>4, OldEntriesSound

(* The arena may gain and lose entries: none of them holds what is         *)
(* malloc's, and those on the heap do not notice.                          *)
LEMMA ArenaOwns ==
  ASSUME OwnInv, UNCHANGED <<onHeap, freed, amiss, dirPath, data, len>>,
         allocs' \in Nat, allocs <= allocs', allocs' <= MaxAllocs,
         entries' \subseteq Entry, HeapEntries' = HeapEntries,
         \A e \in entries' \ entries :
           ~e.heap /\ e.at # NULL /\ Parts(e) \subseteq 1..allocs' /\ Parts(e) \cap onHeap = {}
  PROVE  MemoryInv' /\ EntriesInv' /\ HeldInv'
<1>1. MemoryInv'
  BY DEF OwnInv, MemoryInv
<1>2. HeldInv'
  BY SameItems, SameHeld DEF OwnInv
<1>3. InUse' = InUse /\ \A e : Parts(e)' = Parts(e)
  BY DEF InUse, Parts
<1>4. ASSUME NEW e \in entries' PROVE Sound(e)'
  <2>1. CASE e \in entries
    <3>1. Sound(e) /\ allocs \in Nat
      BY <2>1 DEF OwnInv, EntriesInv, MemoryInv
    <3>2. Parts(e) \subseteq 1..allocs'
      BY <3>1 DEF Sound
    <3> QED
      BY <1>3, <3>1, <3>2 DEF Sound
  <2>2. CASE e \notin entries
    BY <1>3, <2>2 DEF Sound
  <2> QED
    BY <2>1, <2>2
<1>5. EntriesInv'
  BY <1>3, <1>4 DEF OwnInv, EntriesInv
<1> QED
  BY <1>1, <1>2, <1>5

(* The entries D go, and their parts are freed, each once.                 *)
LEMMA ReleaseOwns ==
  ASSUME OwnInv, UNCHANGED <<allocs, onHeap>>, amiss' = {},
         NEW D, D \subseteq HeapEntries,
         freed' = freed \cup UNION {Parts(e) : e \in D},
         entries' = entries \ D
  PROVE  /\ MemoryInv' /\ EntriesInv'
         /\ HeapEntries' = HeapEntries \ D
<1> DEFINE P == UNION {Parts(e) : e \in D}
<1>1. \A e \in D : e \in entries /\ e.heap /\ Sound(e)
  BY DEF HeapEntries, OwnInv, EntriesInv
<1>2. P \subseteq InUse
  BY <1>1 DEF Sound
<1>3. MemoryInv'
  BY <1>2 DEF MemoryInv, OwnInv, InUse
<1>4. InUse' = InUse \ P
  BY DEF InUse
<1>5. \A e : Parts(e)' = Parts(e)
  BY DEF Parts
<1>6. HeapEntries' = HeapEntries \ D
  BY DEF HeapEntries
<1>7. \A e, d \in HeapEntries : e # d => Parts(e) \cap Parts(d) = {}
  BY DEF OwnInv, EntriesInv
<1>8. ASSUME NEW e \in entries' PROVE Sound(e)'
  <2>1. Sound(e) /\ e \in entries /\ e \notin D
    BY DEF OwnInv, EntriesInv
  <2>2. e.heap => Parts(e) \cap P = {}
    BY <1>7, <2>1 DEF HeapEntries
  <2> QED
    BY <1>4, <1>5, <2>1, <2>2 DEF Sound
<1>9. InUse' \subseteq UNION {Parts(e) : e \in HeapEntries'}
  <2>1. InUse \subseteq UNION {Parts(e) : e \in HeapEntries}
    BY DEF OwnInv, EntriesInv
  <2>2. ASSUME NEW a \in InUse' PROVE \E e \in HeapEntries' : a \in Parts(e)
    <3>1. PICK e \in HeapEntries : a \in Parts(e)
      BY <1>4, <2>1, <2>2
    <3>2. e \notin D
      BY <1>4, <2>2, <3>1
    <3> QED
      BY <1>6, <3>1, <3>2
  <2> QED
    BY <2>2
<1>10. EntriesInv'
  <2>1. entries' \subseteq Entry
    BY DEF OwnInv, EntriesInv
  <2>2. \A e, d \in HeapEntries' : e # d => Parts(e) \cap Parts(d) = {}
    BY <1>6, <1>7
  <2> QED
    BY <1>5, <1>8, <1>9, <2>1, <2>2 DEF EntriesInv
<1> QED
  BY <1>3, <1>6, <1>10

LEMMA FreeDirPathOwns ==
  ASSUME OwnInv, FreeDirPath
  PROVE  MemoryInv' /\ EntriesInv' /\ HeldInv'
<1> DEFINE e == EntryAt(dirPath)
<1>1. /\ dirPath # NULL /\ dirPath' = NULL /\ UNCHANGED <<allocs, onHeap, data, len>>
      /\ Free(EntryFree(e)) /\ entries' = entries \ {e}
  BY DEF FreeDirPath, memory, arrayVars, storage
<1>2. /\ e \in HeapEntries /\ e.at = dirPath
      /\ \A d \in entries : d.at = dirPath => d = e
  BY <1>1, EntryAtHeld DEF OwnInv
<1> HIDE DEF e
<1>3. /\ e \in Entry /\ e.heap /\ e \in entries /\ Sound(e)
  BY <1>2 DEF HeapEntries, OwnInv, EntriesInv
<1>4. /\ {EntryFree(e)[f] : f \in DOMAIN EntryFree(e)} = Parts(e)
      /\ \A f, g \in DOMAIN EntryFree(e) : EntryFree(e)[f] = EntryFree(e)[g] => f = g
  BY <1>3, EntryFreed DEF Sound
<1>5. Parts(e) \subseteq onHeap' \ freed /\ amiss = {}
  BY <1>1, <1>3 DEF Sound, InUse, OwnInv, MemoryInv
<1>6. freed' = freed \cup Parts(e) /\ amiss' = {}
  BY <1>1, <1>4, <1>5 DEF Free
<1>7. MemoryInv' /\ EntriesInv' /\ HeapEntries' = HeapEntries \ {e}
  <2>1. UNION {Parts(d) : d \in {e}} = Parts(e)
    OBVIOUS
  <2> QED
    BY <1>1, <1>2, <1>6, <2>1, ReleaseOwns
<1>8. HeldInv'
  <2>1. /\ dirPath \in Nat /\ dirPath \notin Items /\ Distinct
        /\ {d.at : d \in HeapEntries} = Items \cup ({dirPath} \ {NULL})
    BY DEF OwnInv, HeldInv
  <2>2. Items' = Items /\ Distinct'
    BY <1>1, SameItems DEF OwnInv
  <2>3. {d.at : d \in HeapEntries \ {e}} = Items
    BY <1>1, <1>2, <2>1 DEF HeapEntries
  <2>4. NULL \notin Items
    <3>1. \A d \in HeapEntries : d.at # NULL
      BY DEF HeapEntries, OwnInv, EntriesInv, Sound
    <3> QED
      BY <2>1, <3>1
  <2>5. dirPath' \in Nat /\ dirPath' \notin Items' /\ {dirPath'} \ {NULL} = {}
    BY <1>1, <2>2, <2>4 DEF NULL
  <2> QED
    BY <1>7, <2>2, <2>3, <2>5 DEF HeldInv
<1> QED
  BY <1>7, <1>8

LEMMA FreeItemsOwns ==
  ASSUME OwnInv, FreeItems, ArrayClear \/ ArrayDestroy, dirPath' = dirPath
  PROVE  MemoryInv' /\ EntriesInv' /\ HeldInv'
<1> DEFINE D == {d \in entries : d.at \in Items}
           freeing == [i \in 1..len |-> EntryFree(EntryAt(data[i]))]
           calls == [c \in UNION {{i} \X DOMAIN freeing[i] : i \in 1..len} |->
                       freeing[c[1]][c[2]]]
<1>1. /\ UNCHANGED <<allocs, onHeap>> /\ Free(calls) /\ entries' = entries \ D
  BY DEF FreeItems, memory
<1>2. /\ {calls[c] : c \in DOMAIN calls} = UNION {Parts(e) : e \in D}
      /\ \A b, c \in DOMAIN calls : calls[b] = calls[c] => b = c
  BY ArrayFreed
<1> HIDE DEF calls, freeing
<1>3. D \subseteq HeapEntries
  BY EntryAtHeld DEF OwnInv
<1>4. /\ UNION {Parts(e) : e \in D} \subseteq onHeap' \ freed /\ amiss = {}
  <2>1. \A e \in D : Parts(e) \subseteq InUse
    BY <1>3 DEF HeapEntries, OwnInv, EntriesInv, Sound
  <2> QED
    BY <1>1, <2>1 DEF InUse, OwnInv, MemoryInv
<1>5. freed' = freed \cup UNION {Parts(e) : e \in D} /\ amiss' = {}
  BY <1>1, <1>2, <1>4 DEF Free
<1> HIDE DEF D
<1>6. MemoryInv' /\ EntriesInv' /\ HeapEntries' = HeapEntries \ D
  BY <1>1, <1>3, <1>5, ReleaseOwns
<1>7. HeldInv'
  <2>1. /\ dirPath \in Nat /\ dirPath \notin Items
        /\ {d.at : d \in HeapEntries} = Items \cup ({dirPath} \ {NULL})
    BY DEF OwnInv, HeldInv
  <2>2. Items' = {} /\ Distinct'
    BY EmptyItems
  <2>3. {d.at : d \in HeapEntries \ D} = {dirPath} \ {NULL}
    BY <2>1 DEF D, HeapEntries
  <2> QED
    BY <1>6, <2>1, <2>2, <2>3 DEF HeldInv
<1> QED
  BY <1>6, <1>7

LEMMA PopOwns ==
  ASSUME OwnInv, Pop
  PROVE  MemoryInv' /\ EntriesInv' /\ HeldInv'
<1>1. /\ dirPath = NULL /\ dirPath' = data[len] /\ ArrayPop
      /\ UNCHANGED <<allocs, onHeap, freed, amiss, entries>>
  BY DEF Pop, memory, frees
<1>2. MemoryInv' /\ EntriesInv' /\ HeapEntries' = HeapEntries
  BY <1>1 DEF OwnInv, MemoryInv, EntriesInv, HeapEntries, InUse, Sound, Parts
<1>3. data[len] \in Items /\ Items' = Items \ {data[len]} /\ Distinct'
  BY <1>1, PopItems DEF OwnInv, HeldInv
<1>4. {e.at : e \in HeapEntries} = Items
  BY <1>1 DEF OwnInv, HeldInv
<1>5. data[len] # NULL /\ data[len] \in Nat
  <2>1. PICK e \in HeapEntries : e.at = data[len]
    BY <1>3, <1>4
  <2> QED
    BY <2>1 DEF HeapEntries, OwnInv, EntriesInv, Sound, Entry
<1> QED
  BY <1>1, <1>2, <1>3, <1>4, <1>5 DEF HeldInv

LEMMA NextOwn == OwnInv /\ [Next]_vars => OwnInv'
<1> SUFFICES ASSUME OwnInv, [Next]_vars PROVE OwnInv'
  OBVIOUS
<1>1. ArrayInv'
  BY NextArrayInv DEF OwnInv
<1>2. left' = 0 => right' = 0
  <2>1. ArrayInv /\ (left = 0 => right = 0) /\ left \in Nat
    BY DEF OwnInv, ArrayInv
  <2>2. UNCHANGED <<left, right>> \/ ArrayReverse \/ Swap \/ ReverseDone
    BY DEF Next, vars, Queue, QueueFails, NewFails, Pop, ReverseQueue, NewDirent, BuildPath,
           ClearArena, FreeDirPath, ClearFiles, Cleanup, ArrayAppend, AppendRefused,
           ArrayPop, ArrayClear, ArrayDestroy, arrayVars, reversal
  <2> QED
    BY <2>1, <2>2 DEF ArrayReverse, Swap, ReverseDone
<1>3. MemoryInv' /\ EntriesInv' /\ HeldInv'
  <2>1. CASE \E e \in NewEntries : Queue(e)
    BY <2>1, QueueOwns
  <2>2. CASE NewFails \/ \E e \in NewEntries : QueueFails(e)
    BY <2>2, FailureOwns
  <2>3. CASE Pop
    BY <2>3, PopOwns
  <2>4. CASE ReverseQueue
    <3>1. /\ ArrayReverse \/ Swap \/ ReverseDone
          /\ UNCHANGED <<allocs, onHeap, freed, amiss, entries, dirPath>>
      BY <2>4 DEF ReverseQueue, memory, frees
    <3>2. MemoryInv' /\ EntriesInv' /\ HeapEntries' = HeapEntries
      BY <3>1 DEF OwnInv, MemoryInv, EntriesInv, HeapEntries, InUse, Sound, Parts
    <3>3. Items' = Items /\ Distinct'
      BY <3>1, ReverseItems DEF OwnInv, HeldInv
    <3> QED
      BY <3>1, <3>2, <3>3, SameHeld DEF OwnInv
  <2>5. CASE NewDirent
    <3> DEFINE new == [at |-> allocs', name |-> allocs', path |-> NULL, heap |-> FALSE]
    <3>1. /\ allocs' = allocs + 1 /\ allocs' <= MaxAllocs
          /\ entries' = entries \cup {new}
          /\ UNCHANGED <<onHeap, freed, amiss, dirPath, data, len>>
      BY <2>5 DEF NewDirent, ArenaPush, Allocate, frees, arrayVars, storage
    <3>2. allocs \in Nat /\ onHeap \subseteq 1..allocs /\ entries \subseteq Entry
      BY DEF OwnInv, MemoryInv, EntriesInv
    <3>3. /\ new \in Entry /\ ~new.heap /\ new.at # NULL /\ Parts(new) = {allocs'}
      BY <3>1, <3>2 DEF Entry, NULL, Parts
    <3>4. {allocs'} \subseteq 1..allocs' /\ {allocs'} \cap onHeap = {} /\ allocs' \in Nat
      BY <3>1, <3>2
    <3> HIDE DEF new
    <3>5. HeapEntries' = HeapEntries
      BY <3>1, <3>3 DEF HeapEntries
    <3>6. allocs <= allocs' /\ entries' \subseteq Entry
      BY <3>1, <3>2, <3>3
    <3> QED
      BY <3>1, <3>3, <3>4, <3>5, <3>6, ArenaOwns
  <2>6. CASE \E e \in entries : BuildPath(e)
    <3>1. PICK e \in entries : BuildPath(e)
      BY <2>6
    <3> DEFINE new == [e EXCEPT !.path = allocs']
    <3>2. /\ allocs' = allocs + 1 /\ allocs' <= MaxAllocs /\ ~e.heap
          /\ entries' = (entries \ {e}) \cup {new}
          /\ UNCHANGED <<onHeap, freed, amiss, dirPath, data, len>>
      BY <3>1 DEF BuildPath, ArenaPush, Allocate, frees, arrayVars, storage
    <3>3. /\ allocs \in Nat /\ onHeap \subseteq 1..allocs /\ entries \subseteq Entry
          /\ e \in Entry /\ Sound(e)
      BY DEF OwnInv, MemoryInv, EntriesInv
    <3>4. /\ new \in Entry /\ ~new.heap /\ new.at = e.at /\ new.name = e.name
          /\ new.path = allocs'
      BY <3>2, <3>3 DEF Entry
    <3> HIDE DEF new
    <3>5. Parts(new) \subseteq Parts(e) \cup {allocs'}
      BY <3>4 DEF Parts
    <3>6. /\ {allocs'} \subseteq 1..allocs' /\ {allocs'} \cap onHeap = {} /\ allocs' \in Nat
          /\ 1..allocs \subseteq 1..allocs' /\ allocs <= allocs'
      BY <3>2, <3>3
    <3>7. new.at # NULL /\ Parts(new) \subseteq 1..allocs' /\ Parts(new) \cap onHeap = {}
      BY <3>2, <3>3, <3>4, <3>5, <3>6 DEF Sound
    <3>8. HeapEntries' = HeapEntries
      BY <3>2, <3>4 DEF HeapEntries
    <3>9. entries' \subseteq Entry
      BY <3>2, <3>3, <3>4
    <3> QED
      BY <3>2, <3>4, <3>6, <3>7, <3>8, <3>9, ArenaOwns
  <2>7. CASE ClearArena
    <3>1. /\ entries' = {e \in entries : e.heap}
          /\ UNCHANGED <<allocs, onHeap, freed, amiss, dirPath, data, len>>
      BY <2>7 DEF ClearArena, memory, frees, arrayVars, storage
    <3>2. HeapEntries' = HeapEntries /\ entries' \subseteq Entry /\ entries' \subseteq entries
      BY <3>1 DEF HeapEntries, OwnInv, EntriesInv
    <3>3. allocs \in 0..MaxAllocs /\ MaxAllocs \in Nat
      BY EntriesAssumption DEF OwnInv, MemoryInv
    <3> QED
      BY <3>1, <3>2, <3>3, ArenaOwns
  <2>8. CASE FreeDirPath
    BY <2>8, FreeDirPathOwns
  <2>9. CASE ClearFiles \/ Cleanup
    BY <2>9, FreeItemsOwns DEF ClearFiles, Cleanup
  <2>10. CASE UNCHANGED vars
    <3>1. UNCHANGED <<allocs, onHeap, freed, amiss, entries, dirPath, data, len>>
      BY <2>10 DEF vars, memory, frees, arrayVars, storage
    <3>2. MemoryInv' /\ EntriesInv' /\ HeapEntries' = HeapEntries
      BY <3>1 DEF OwnInv, MemoryInv, EntriesInv, HeapEntries, InUse, Sound, Parts
    <3> QED
      BY <3>1, <3>2, SameItems, SameHeld DEF OwnInv
  <2> QED
    BY <2>1, <2>2, <2>3, <2>4, <2>5, <2>6, <2>7, <2>8, <2>9, <2>10 DEF Next
<1> QED
  BY <1>1, <1>2, <1>3 DEF OwnInv
-----------------------------------------------------------------------------
LEMMA OwnedHolds ==
  ASSUME OwnInv
  PROVE  Owned
<1>1. TypeOK
  <2>1. ArrayTypeOK
    <3>1. /\ cap \in 0..MaxAlloc /\ len \in 0..cap /\ DOMAIN data = 1..cap
      BY DEF OwnInv, ArrayInv, Shape
    <3>2. left = 0 \/ (left \in 1..(len + 1) /\ right \in Nat /\ left + right = len + 2)
      BY DEF OwnInv, ArrayInv, Halves
    <3>3. cap \in Nat /\ len \in Nat
      BY <3>1, ArrayAssumption
    <3>4. left \in 0..(len + 1) /\ right \in 0..(len + 1)
      <4>1. CASE left = 0
        BY <3>3, <4>1 DEF OwnInv
      <4>2. CASE left # 0
        BY <3>2, <3>3, <4>2
      <4> QED
        BY <4>1, <4>2
    <3> QED
      BY <3>1, <3>4 DEF ArrayTypeOK
  <2> QED
    BY <2>1 DEF TypeOK, OwnInv, MemoryInv, EntriesInv, Sound
<1>2. FreedOnce
  BY DEF OwnInv, MemoryInv, FreedOnce
<1>3. NoneDangling
  BY DEF OwnInv, EntriesInv, Sound, NoneDangling
<1>4. NothingLeaked
  <2>1. Cardinality(Items) = len
    BY ItemsCounted DEF OwnInv, HeldInv
  <2> QED
    BY <2>1 DEF OwnInv, EntriesInv, HeldInv, NothingLeaked, HeapEntries
<1> QED
  BY <1>1, <1>2, <1>3, <1>4 DEF Owned

(* For every limit of the array and every number of allocations, whichever *)
(* of them fail: each allocation has one owner, from malloc to the one     *)
(* free() of it, and the entries of the arena never hold what is malloc's  *)
(* (ft_walk_entry.c, ft_walk.c).                                           *)
THEOREM OneOwnerEach == Spec => []Owned
<1>1. OwnInv => Owned
  BY OwnedHolds
<1>2. QED
  BY InitOwn, NextOwn, <1>1, PTL DEF Spec
=============================================================================
