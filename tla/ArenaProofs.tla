---------------------------- MODULE ArenaProofs ----------------------------
(***************************************************************************)
(* Theorems about Arena, for every number of blocks, every alignment and   *)
(* every order of the calls: allocations in use never overlap, none        *)
(* dangles, and the list of blocks is well formed between two calls.       *)
(***************************************************************************)
EXTENDS Arena, SequenceTheorems, TLAPS

Blocks(c) == {c[i] : i \in 1..Len(c)}

(* b is d or comes before d in the list c.                                 *)
Upto(c, b, d) == \A p, q \in 1..Len(c) : c[p] = b /\ c[q] = d => p <= q

(* The links of the blocks of c from place k on.                           *)
NextLinks(c, k) ==
  \A i \in k..Len(c) : node[c[i]].next = IF i = Len(c) THEN NULL ELSE c[i + 1]
PrevLinks(c) ==
  \A i \in 1..Len(c) : node[c[i]].prev = IF i = 1 THEN NULL ELSE c[i - 1]

Once(c) == \A i, j \in 1..Len(c) : c[i] = c[j] => i = j

(* What the list looks like between two steps.                             *)
ListOK ==
  /\ heap = Blocks(chain) /\ Once(chain)
  /\ pc \in {"idle", "pop", "clear"} =>
       chain # << >> /\ chain[1] = first /\ node[first].prev = NULL
  /\ pc \in {"idle", "pop"} => NextLinks(chain, 1) /\ PrevLinks(chain)
  /\ pc = "idle" => chain[Len(chain)] = current
  /\ pc = "pop" => chain[Len(chain)] = block /\ mark.block \in heap
  /\ pc = "clear" => /\ NextLinks(chain, 2)
                     /\ block = IF Len(chain) = 1 THEN NULL ELSE chain[2]
  /\ pc = "release" => /\ NextLinks(chain, 1)
                       /\ block = IF chain = << >> THEN NULL ELSE chain[1]
  /\ pc = "released" => chain = << >>
  /\ pc \notin {"idle", "pop"} => live = << >> /\ marks = << >>

(* Allocations lie in blocks that are allocated, in the order in which     *)
(* they were made.                                                         *)
Placed ==
  \A i \in 1..Len(live) :
    /\ live[i].block \in heap /\ live[i].from % Align = 0
    /\ live[i].to <= node[live[i].block].cap
Ordered ==
  \A i, j \in 1..Len(live) : i < j =>
    /\ Upto(chain, live[i].block, live[j].block)
    /\ live[i].block = live[j].block => live[i].to <= live[j].from

(* The first n allocations lie before position p of block b.               *)
Below(n, b, p) ==
  \A i \in 1..n : /\ Upto(chain, live[i].block, b)
                  /\ live[i].block = b => live[i].to <= p

(* Position p of block b is the end of one of the first n allocations, or  *)
(* the start of the arena.                                                 *)
Filled(n, b, p) ==
  \/ \E i \in 1..n : live[i].block = b /\ live[i].to = p
  \/ b = first /\ p = 0

(* While blocks are given back, up to mark.block, those behind it do not   *)
(* matter.                                                                 *)
InPosition ==
  /\ pc = "idle" =>
       /\ \A i \in 1..Len(live) : live[i].to <= node[live[i].block].pos
       /\ \A b \in heap : Filled(Len(live), b, node[b].pos)
  /\ pc = "pop" =>
       /\ Below(Len(live), mark.block, mark.pos)
       /\ Filled(Len(live), mark.block, mark.pos)
       /\ \A i \in 1..Len(live) :
            live[i].block # mark.block => live[i].to <= node[live[i].block].pos
       /\ \A b \in heap :
            Upto(chain, b, mark.block) /\ b # mark.block =>
              Filled(Len(live), b, node[b].pos)

(* A mark lies between the allocations made before it and those made after.*)
MarkOK(m) ==
  /\ m.block \in heap /\ m.kept <= Len(live)
  /\ Below(m.kept, m.block, m.pos) /\ Filled(m.kept, m.block, m.pos)
  /\ \A i \in (m.kept + 1)..Len(live) : Upto(chain, m.block, live[i].block)
Nested ==
  \A a, b \in 1..Len(marks) : a < b =>
    marks[a].kept <= marks[b].kept /\ Upto(chain, marks[a].block, marks[b].block)
MarksOK ==
  /\ \A k \in 1..Len(marks) : MarkOK(marks[k])
  /\ Nested
  /\ pc = "pop" => \A k \in 1..Len(marks) : Upto(chain, marks[k].block, mark.block)

IInv ==
  TypeOK /\ ListOK /\ Placed /\ Ordered /\ InPosition /\ MarksOK
-----------------------------------------------------------------------------
(* Sequences and the order of blocks. *)

LEMMA Appended ==
  ASSUME NEW S, NEW c \in Seq(S), NEW x \in S
  PROVE  /\ Append(c, x) \in Seq(S) /\ Len(c) \in Nat
         /\ Len(Append(c, x)) = Len(c) + 1 /\ Append(c, x)[Len(c) + 1] = x
         /\ \A i \in 1..Len(c) : Append(c, x)[i] = c[i]
OBVIOUS

LEMMA Cut ==
  ASSUME NEW S, NEW c \in Seq(S), NEW n \in 0..Len(c)
  PROVE  /\ SubSeq(c, 1, n) \in Seq(S) /\ Len(SubSeq(c, 1, n)) = n
         /\ \A i \in 1..n : SubSeq(c, 1, n)[i] = c[i]
<1>1. Len(c) \in Nat /\ n \in Nat /\ n <= Len(c)
  OBVIOUS
<1>2. QED
  BY <1>1, SubSeqProperties

LEMMA UptoPrefix ==
  ASSUME NEW c, NEW d, Len(c) \in Nat, Len(d) \in Nat, Len(d) <= Len(c),
         \A i \in 1..Len(d) : d[i] = c[i],
         NEW a, NEW b, Upto(c, a, b)
  PROVE  Upto(d, a, b)
BY DEF Upto

LEMMA UptoAppend ==
  ASSUME NEW S, NEW c \in Seq(S), NEW x \in S, NEW a, NEW b, x \notin Blocks(c)
  PROVE  /\ Upto(c, a, b) /\ a # x /\ b # x => Upto(Append(c, x), a, b)
         /\ Upto(Append(c, x), a, x)
<1>1. /\ Len(c) \in Nat /\ Len(Append(c, x)) = Len(c) + 1
      /\ Append(c, x)[Len(c) + 1] = x
      /\ \A i \in 1..Len(c) : Append(c, x)[i] = c[i] /\ c[i] # x
  BY Appended DEF Blocks
<1> DEFINE n == Len(c)
           d == Append(c, x)
<1>2. \A i \in 1..(n + 1) : i \in 1..n \/ i = n + 1
  BY <1>1
<1> HIDE DEF n, d
<1>3. Upto(d, a, x)
  BY <1>1, <1>2 DEF Upto, n, d
<1>4. ASSUME Upto(c, a, b), a # x, b # x PROVE Upto(d, a, b)
  BY <1>1, <1>2, <1>4 DEF Upto, n, d
<1>5. QED
  BY <1>3, <1>4 DEF d

LEMMA UptoEnds ==
  ASSUME NEW c, Len(c) \in Nat, Once(c)
  PROVE  /\ \A a : Upto(c, a, a)
         /\ Len(c) > 0 => \A a : Upto(c, a, c[Len(c)])
BY DEF Upto, Once

LEMMA UptoBoth ==
  ASSUME NEW c, Len(c) \in Nat, NEW a \in Blocks(c), NEW b \in Blocks(c),
         Upto(c, a, b), Upto(c, b, a)
  PROVE  a = b
BY DEF Upto, Blocks

LEMMA UptoTrans ==
  ASSUME NEW c, Len(c) \in Nat, NEW a, NEW b \in Blocks(c), NEW d,
         Upto(c, a, b), Upto(c, b, d)
  PROVE  Upto(c, a, d)
<1>1. PICK i \in 1..Len(c) : c[i] = b
  BY DEF Blocks
<1>2. SUFFICES ASSUME NEW p \in 1..Len(c), NEW q \in 1..Len(c), c[p] = a, c[q] = d
      PROVE  p <= q
  BY DEF Upto
<1>3. p <= i /\ i <= q
  BY <1>1, <1>2 DEF Upto
<1>4. QED
  BY <1>3

(* Positions are aligned upwards.                                          *)
LEMMA Alignment ==
  ASSUME NEW p \in Nat
  PROVE  /\ AlignUp(p) \in Nat /\ AlignUp(p) >= p /\ AlignUp(p) % Align = 0
         /\ 0 % Align = 0
<1>1. Align \in Nat \ {0}
  BY ArenaAssumption
<1>2. p % Align \in 0..(Align - 1)
  BY <1>1
<1>3. CASE p % Align = 0
  BY <1>1, <1>3 DEF AlignUp
<1>4. CASE p % Align # 0
  <2>1. (p + (Align - (p % Align))) % Align = 0
    BY <1>1
  <2>2. AlignUp(p) = p + (Align - (p % Align))
    BY <1>4 DEF AlignUp
  <2>3. 0 % Align = 0
    BY <1>1
  <2>4. QED
    BY <1>1, <1>2, <2>1, <2>2, <2>3
<1>5. QED
  BY <1>3, <1>4

(* What IInv says of the parts of the list, in one place.                  *)
LEMMA Facts ==
  ASSUME IInv
  PROVE  /\ chain \in Seq(Address) /\ Len(chain) \in Nat
         /\ live \in Seq(Allocation) /\ Len(live) \in Nat
         /\ marks \in Seq(Mark) /\ Len(marks) \in Nat
         /\ \A i \in 1..Len(chain) : chain[i] \in Address /\ chain[i] \in heap
         /\ \A i \in 1..Len(live) : live[i] \in Allocation
         /\ \A i \in 1..Len(marks) : marks[i] \in Mark
         /\ \A b \in Address : node[b] \in Block
         /\ chain # << >> <=> Len(chain) > 0
         /\ heap \subseteq Address /\ NULL \notin heap
<1>1. /\ chain \in Seq(Address) /\ live \in Seq(Allocation) /\ marks \in Seq(Mark)
      /\ node \in [Address -> Block] /\ heap \subseteq Address
  BY DEF IInv, TypeOK
<1>2. /\ Len(chain) \in Nat /\ Len(live) \in Nat /\ Len(marks) \in Nat
  BY <1>1, LenProperties
<1>3. \A i \in 1..Len(chain) : chain[i] \in Address /\ chain[i] \in heap
  BY <1>1 DEF IInv, ListOK, Blocks
<1>4. chain # << >> <=> Len(chain) > 0
  BY <1>1, <1>2, EmptySeq
<1>5. QED
  BY <1>1, <1>2, <1>3, <1>4, ElementOfSeq, ArenaAssumption

LEMMA Adding ==
  ASSUME NEW c \in Seq(Address), NEW x \in Address
  PROVE  /\ Blocks(Append(c, x)) = Blocks(c) \cup {x}
         /\ Once(c) /\ x \notin Blocks(c) => Once(Append(c, x))
<1> DEFINE n == Len(c)
           d == Append(c, x)
<1>1. /\ n \in Nat /\ Len(d) = n + 1 /\ d[n + 1] = x
      /\ \A i \in 1..n : d[i] = c[i]
  BY Appended
<1>2. \A i \in 1..(n + 1) : i \in 1..n \/ i = n + 1
  BY <1>1
<1>3. n + 1 \in 1..(n + 1) /\ \A i \in 1..n : i \in 1..(n + 1)
  BY <1>1
<1> HIDE DEF n, d
<1>4. Blocks(d) = Blocks(c) \cup {x}
  BY <1>1, <1>2, <1>3 DEF Blocks, n
<1>5. ASSUME Once(c), x \notin Blocks(c) PROVE Once(d)
  BY <1>1, <1>2, <1>5 DEF Once, Blocks, n
<1>6. QED
  BY <1>4, <1>5 DEF d

LEMMA Removing ==
  ASSUME NEW c \in Seq(Address), c # << >>, Once(c)
  PROVE  LET d == SubSeq(c, 1, Len(c) - 1)
         IN  /\ d \in Seq(Address) /\ Len(d) = Len(c) - 1 /\ Len(c) \in Nat \ {0}
             /\ \A i \in 1..Len(d) : d[i] = c[i]
             /\ Blocks(d) = Blocks(c) \ {c[Len(c)]} /\ Once(d)
<1> DEFINE n == Len(c)
           d == SubSeq(c, 1, n - 1)
<1>1. n \in Nat \ {0} /\ n - 1 \in 0..n
  BY EmptySeq
<1>2. d \in Seq(Address) /\ Len(d) = n - 1 /\ \A i \in 1..(n - 1) : d[i] = c[i]
  BY <1>1, Cut
<1>3. /\ \A i \in 1..n : i \in 1..(n - 1) \/ i = n
      /\ \A i \in 1..(n - 1) : i \in 1..n /\ i # n
      /\ n \in 1..n
  BY <1>1
<1> HIDE DEF n, d
<1>4. Blocks(d) = Blocks(c) \ {c[n]}
  BY <1>2, <1>3 DEF Blocks, Once, n
<1>5. Once(d)
  BY <1>2, <1>3 DEF Once, n
<1>6. QED
  BY <1>1, <1>2, <1>4, <1>5 DEF d, n
-----------------------------------------------------------------------------
LEMMA InitIInv == Init => IInv
<1>1. SUFFICES ASSUME Init PROVE IInv
  OBVIOUS
<1>2. /\ first \in Address /\ current = first /\ heap = {first} /\ chain = <<first>>
      /\ node = [b \in Address |-> EmptyBlock(BlockSize)]
      /\ live = << >> /\ marks = << >> /\ pc = "idle" /\ block = NULL /\ mark = NoMark
  BY <1>1 DEF Init
<1>3. EmptyBlock(BlockSize) \in Block
  BY ArenaAssumption DEF EmptyBlock, Block
<1>4. /\ Len(chain) = 1 /\ chain[1] = first /\ chain \in Seq(Address)
      /\ Len(live) = 0 /\ Len(marks) = 0
      /\ live \in Seq(Allocation) /\ marks \in Seq(Mark)
  BY <1>2
<1>5. TypeOK
  BY <1>2, <1>3, <1>4 DEF TypeOK
<1>6. /\ node[first].next = NULL /\ node[first].prev = NULL /\ node[first].pos = 0
  BY <1>2 DEF EmptyBlock
<1>7. ListOK
  BY <1>2, <1>4, <1>6 DEF ListOK, Blocks, Once, NextLinks, PrevLinks
<1>8. Placed /\ Ordered /\ MarksOK
  BY <1>2, <1>4 DEF Placed, Ordered, MarksOK, Nested
<1>9. InPosition
  BY <1>2, <1>4, <1>6 DEF InPosition, Filled
<1>10. QED
  BY <1>5, <1>7, <1>8, <1>9 DEF IInv

(* An allocation at the end of the last block.                             *)
LEMMA PushKeeps ==
  ASSUME IInv, TypeOK', pc = "idle", pc' = "idle", marks' = marks, first' = first,
         NEW a \in Allocation, live' = Append(live, a),
         heap \subseteq heap', a.block \in heap',
         \A x, y \in heap : Upto(chain, x, y) => Upto(chain', x, y),
         \A x \in heap' : Upto(chain', x, a.block),
         \A x \in heap : /\ node'[x].cap = node[x].cap
                         /\ node[x].pos <= node'[x].pos,
         \A x \in heap' \ {a.block} : x \in heap /\ node'[x].pos = node[x].pos,
         a.from % Align = 0, a.to <= node'[a.block].cap, a.to = node'[a.block].pos,
         a.from <= a.to,
         \A i \in 1..Len(live) : live[i].block = a.block => live[i].to <= a.from
  PROVE  Placed' /\ Ordered' /\ InPosition' /\ MarksOK'
<1> DEFINE n == Len(live)
<1>1. /\ n \in Nat /\ Len(live') = n + 1 /\ live'[n + 1] = a
      /\ \A i \in 1..n : live'[i] = live[i]
  BY Facts, Appended
<1>2. /\ \A i \in 1..(n + 1) : i \in 1..n \/ i = n + 1
      /\ \A i \in 1..n : i \in 1..(n + 1)
      /\ n + 1 \in 1..(n + 1)
  BY <1>1
<1>3. \A i \in 1..n : live[i].block \in heap /\ live[i] \in Allocation
  BY Facts DEF IInv, Placed
<1> HIDE DEF n
<1>4. Placed'
  <2>1. \A i \in 1..n : /\ live[i].block \in heap' /\ live[i].from % Align = 0
                        /\ live[i].to <= node'[live[i].block].cap
    BY <1>3 DEF IInv, Placed, n
  <2>2. QED
    BY <1>1, <1>2, <2>1 DEF Placed
<1>5. Ordered'
  <2>1. SUFFICES ASSUME NEW i \in 1..(n + 1), NEW j \in 1..(n + 1), i < j
        PROVE  /\ Upto(chain', live'[i].block, live'[j].block)
               /\ live'[i].block = live'[j].block => live'[i].to <= live'[j].from
    BY <1>1 DEF Ordered
  <2>2. i \in 1..n
    BY <1>1, <2>1
  <2>3. CASE j = n + 1
    BY <1>1, <1>3, <2>2, <2>3 DEF n
  <2>4. CASE j \in 1..n
    <3>1. /\ Upto(chain, live[i].block, live[j].block)
          /\ live[i].block = live[j].block => live[i].to <= live[j].from
      BY <2>1, <2>2, <2>4 DEF IInv, Ordered, n
    <3>2. QED
      BY <1>1, <1>3, <2>2, <2>4, <3>1
  <2>5. QED
    BY <1>2, <2>3, <2>4
<1>6. \A x \in heap : node[x].pos \in Nat /\ node'[x].pos \in Nat
  BY Facts DEF TypeOK, Block
<1>7. InPosition'
  <2>1. ASSUME NEW i \in 1..(n + 1)
        PROVE  live'[i].to <= node'[live'[i].block].pos
    <3>1. CASE i = n + 1
      BY <1>1, <3>1 DEF Allocation
    <3>2. CASE i \in 1..n
      <4>1. live[i].to <= node[live[i].block].pos /\ live[i].to \in Nat
        BY <1>3, <3>2 DEF IInv, InPosition, Allocation, n
      <4>2. QED
        BY <1>1, <1>3, <1>6, <3>2, <4>1
    <3>3. QED
      BY <1>2, <3>1, <3>2
  <2>2. ASSUME NEW b \in heap'
        PROVE  \/ \E i \in 1..(n + 1) : live'[i].block = b /\ live'[i].to = node'[b].pos
               \/ b = first' /\ node'[b].pos = 0
    <3>1. CASE b = a.block
      BY <1>1, <1>2, <3>1
    <3>2. CASE b # a.block
      <4>1. b \in heap /\ node'[b].pos = node[b].pos
        BY <3>2
      <4>2. \/ \E i \in 1..n : live[i].block = b /\ live[i].to = node[b].pos
            \/ b = first /\ node[b].pos = 0
        BY <4>1 DEF IInv, InPosition, Filled, n
      <4>3. QED
        BY <1>1, <1>2, <4>1, <4>2
    <3>3. QED
      BY <3>1, <3>2
  <2>3. QED
    BY <1>1, <2>1, <2>2 DEF InPosition, Filled
<1>8. MarksOK'
  <2>1. ASSUME NEW k \in 1..Len(marks) PROVE MarkOK(marks[k])'
    <3> DEFINE m == marks[k]
    <3>1. /\ m.block \in heap /\ m.kept <= n /\ m.kept \in Nat
          /\ \A i \in 1..m.kept : /\ Upto(chain, live[i].block, m.block)
                                  /\ live[i].block = m.block => live[i].to <= m.pos
          /\ \/ \E i \in 1..m.kept : live[i].block = m.block /\ live[i].to = m.pos
             \/ m.block = first /\ m.pos = 0
          /\ \A i \in (m.kept + 1)..n : Upto(chain, m.block, live[i].block)
      BY Facts DEF IInv, MarksOK, MarkOK, Below, Filled, Mark, n
    <3>2. marks'[k] = m
      OBVIOUS
    <3> HIDE DEF m
    <3>3. /\ m.kept <= n + 1
          /\ \A i \in 1..m.kept : i \in 1..n
          /\ \A i \in (m.kept + 1)..(n + 1) :
                i = n + 1 \/ (i \in (m.kept + 1)..n /\ i \in 1..n)
      BY <1>1, <3>1
    <3>4. \A i \in 1..m.kept : /\ Upto(chain', live'[i].block, m.block)
                               /\ live'[i].block = m.block => live'[i].to <= m.pos
      BY <1>1, <1>3, <3>1, <3>3
    <3>5. \/ \E i \in 1..m.kept : live'[i].block = m.block /\ live'[i].to = m.pos
          \/ m.block = first' /\ m.pos = 0
      BY <1>1, <3>1, <3>3
    <3>6. \A i \in (m.kept + 1)..(n + 1) : Upto(chain', m.block, live'[i].block)
      BY <1>1, <1>3, <3>1, <3>3
    <3>7. QED
      BY <1>1, <3>1, <3>2, <3>3, <3>4, <3>5, <3>6 DEF MarkOK, Below, Filled
  <2>2. \A k \in 1..Len(marks) : marks[k].block \in heap
    BY DEF IInv, MarksOK, MarkOK
  <2>3. Nested'
    BY <2>2 DEF IInv, MarksOK, Nested
  <2>4. QED
    BY <2>1, <2>3 DEF MarksOK
<1>9. QED
  BY <1>4, <1>5, <1>7, <1>8

LEMMA PushHereKeeps ==
  ASSUME IInv, NEW size \in Sizes, PushHere(size)
  PROVE  IInv'
<1> DEFINE at == AlignUp(node[current].pos)
           a == [block |-> current, from |-> at, to |-> at + size]
<1>1. /\ pc = "idle" /\ pc' = "idle" /\ Fits(size) /\ live' = Append(live, a)
      /\ node' = [node EXCEPT ![current].pos = at + size]
      /\ UNCHANGED <<heap, first, current, chain, marks, block, mark>>
  BY DEF PushHere
<1>2. /\ current \in Address /\ node \in [Address -> Block] /\ size \in Nat
      /\ live \in Seq(Allocation)
  BY ArenaAssumption DEF IInv, TypeOK
<1>3. /\ node[current].pos \in Nat /\ node[current].cap \in Nat
      /\ node[current] \in Block
  BY <1>2 DEF Block
<1>4. at \in Nat /\ at >= node[current].pos /\ at % Align = 0
  BY <1>3, Alignment
<1>5. at + size <= node[current].cap
  BY <1>1, <1>2, <1>3, <1>4 DEF Fits
<1> HIDE DEF at
<1>6. /\ node' \in [Address -> Block]
      /\ \A x \in Address : /\ node'[x].cap = node[x].cap
                            /\ node'[x].next = node[x].next
                            /\ node'[x].prev = node[x].prev
                            /\ x # current => node'[x].pos = node[x].pos
      /\ node'[current].pos = at + size
  <2> DEFINE p == at + size
  <2>1. p \in Nat
    BY <1>2, <1>4
  <2> HIDE DEF p
  <2>2. node' = [node EXCEPT ![current] = [@ EXCEPT !.pos = p]]
    BY <1>1 DEF p
  <2>3. /\ [node[current] EXCEPT !.pos = p] \in Block
        /\ [node[current] EXCEPT !.pos = p].pos = p
        /\ [node[current] EXCEPT !.pos = p].cap = node[current].cap
        /\ [node[current] EXCEPT !.pos = p].next = node[current].next
        /\ [node[current] EXCEPT !.pos = p].prev = node[current].prev
    BY <1>3, <2>1 DEF Block
  <2>4. QED
    BY <1>2, <2>2, <2>3 DEF p
<1>7. a \in Allocation /\ a.block = current /\ a.from = at /\ a.to = at + size
  BY <1>2, <1>4 DEF Allocation
<1> HIDE DEF a
<1>8. live' \in Seq(Allocation)
  BY <1>1, <1>2, <1>7, Appended
<1>9. TypeOK'
  BY <1>1, <1>6, <1>8 DEF IInv, TypeOK
<1>10. \A i \in 1..Len(chain) : chain[i] \in Address
  BY Facts
<1>11. ListOK'
  BY <1>1, <1>6, <1>10 DEF IInv, TypeOK, ListOK, NextLinks, PrevLinks
<1>12. Once(chain) /\ Len(chain) \in Nat /\ Len(chain) > 0 /\ chain[Len(chain)] = current
  BY <1>1, Facts DEF IInv, ListOK
<1>13. current \in heap /\ heap \subseteq Address
  BY <1>12, Facts
<1>14. \A x : Upto(chain, x, current)
  BY <1>12, UptoEnds
<1>15. \A i \in 1..Len(live) : live[i].block = current => live[i].to <= at
  <2>1. \A i \in 1..Len(live) : /\ live[i].to \in Nat
                                 /\ live[i].to <= node[live[i].block].pos
    BY <1>1, Facts DEF IInv, InPosition, Allocation
  <2>2. QED
    BY <1>3, <1>4, <2>1
<1>16. \A x \in heap : node[x].pos \in Nat /\ node[x].pos <= node'[x].pos
  <2>1. \A x \in heap : node[x].pos \in Nat
    BY Facts DEF Block
  <2>2. node[current].pos <= at + size
    BY <1>2, <1>3, <1>4
  <2>3. QED
    BY <1>6, <1>13, <2>1, <2>2
<1>17. Placed' /\ Ordered' /\ InPosition' /\ MarksOK'
  <2>1. at <= at + size
    BY <1>2, <1>4
  <2>2. QED
    BY <1>1, <1>4, <1>5, <1>6, <1>7, <1>9, <1>13, <1>14, <1>15, <1>16, <2>1, PushKeeps
<1>18. QED
  BY <1>9, <1>11, <1>17 DEF IInv

LEMMA PushNewKeeps ==
  ASSUME IInv, NEW size \in Sizes, NEW b \in Address, PushNew(size, b)
  PROVE  IInv'
<1> DEFINE a == [block |-> b, from |-> 0, to |-> size]
           new == [pos |-> size, cap |-> NewCap(size), next |-> NULL, prev |-> current]
<1>1. /\ pc = "idle" /\ pc' = "idle" /\ b \notin heap /\ live' = Append(live, a)
      /\ heap' = heap \cup {b} /\ current' = b /\ chain' = Append(chain, b)
      /\ node' = [node EXCEPT ![b] = new, ![current].next = b]
      /\ UNCHANGED <<first, marks, block, mark>>
  BY DEF PushNew
<1>2. /\ current \in Address /\ node \in [Address -> Block] /\ size \in Nat
      /\ live \in Seq(Allocation) /\ chain \in Seq(Address)
  BY ArenaAssumption DEF IInv, TypeOK
<1>3. /\ Once(chain) /\ Len(chain) \in Nat /\ Len(chain) > 0
      /\ chain[Len(chain)] = current /\ heap = Blocks(chain)
      /\ chain[1] = first /\ NextLinks(chain, 1) /\ PrevLinks(chain)
      /\ node[first].prev = NULL
  BY <1>1, Facts DEF IInv, ListOK
<1>4. current \in heap /\ heap \subseteq Address /\ current # b
  <2>1. Len(chain) \in 1..Len(chain)
    BY <1>3
  <2>2. chain[Len(chain)] \in heap /\ heap \subseteq Address
    BY <2>1, Facts
  <2>3. QED
    BY <1>1, <1>3, <2>2
<1>5. NewCap(size) \in Nat /\ size <= NewCap(size)
  BY <1>2, ArenaAssumption DEF NewCap
<1>6. /\ new \in Block /\ new.next = NULL /\ new.prev = current
      /\ new.pos = size /\ new.cap = NewCap(size)
  BY <1>2, <1>5 DEF Block
<1> HIDE DEF new
<1>7. /\ node' \in [Address -> Block] /\ node'[b] = new
      /\ \A x \in Address \ {b} : /\ node'[x].cap = node[x].cap
                                  /\ node'[x].pos = node[x].pos
                                  /\ node'[x].prev = node[x].prev
                                  /\ x # current => node'[x].next = node[x].next
      /\ node'[current].next = b
  BY <1>1, <1>2, <1>4, <1>6 DEF Block
<1>8. a \in Allocation /\ a.block = b /\ a.from = 0 /\ a.to = size
  BY <1>2 DEF Allocation
<1> HIDE DEF a
<1>9. chain' \in Seq(Address) /\ live' \in Seq(Allocation)
  BY <1>1, <1>2, <1>8, Appended
<1>10. TypeOK'
  BY <1>1, <1>7, <1>9 DEF IInv, TypeOK
<1>11. Blocks(chain') = heap' /\ Once(chain')
  BY <1>1, <1>2, <1>3, Adding
<1>12. ListOK'
  <2> DEFINE n == Len(chain)
  <2>1. /\ Len(chain') = n + 1 /\ chain'[n + 1] = b
        /\ \A i \in 1..n : chain'[i] = chain[i]
    BY <1>1, <1>2, Appended
  <2>2. \A i \in 1..n : chain[i] \in heap /\ chain[i] \in Address /\ chain[i] # b
    BY <1>1, Facts
  <2>3. n \in Nat /\ n > 0
    BY <1>3
  <2>4. /\ \A i \in 1..(n + 1) : i \in 1..n \/ i = n + 1
        /\ \A i \in 1..n : i # n + 1 /\ (i # n => i + 1 \in 1..n)
        /\ \A i \in 1..n : i # 1 => i - 1 \in 1..n
        /\ n \in 1..n /\ 1 \in 1..n /\ n + 1 # 1
        /\ n + 1 - 1 = n
    BY <2>3
  <2>5. \A i \in 1..n : chain[i] = current => i = n
    BY <1>3, <2>4 DEF Once
  <2>6. /\ \A i \in 1..n : node[chain[i]].next = IF i = n THEN NULL ELSE chain[i + 1]
        /\ \A i \in 1..n : node[chain[i]].prev = IF i = 1 THEN NULL ELSE chain[i - 1]
        /\ chain[n] = current
    BY <1>3 DEF NextLinks, PrevLinks
  <2> HIDE DEF n
  <2>7. \A i \in 1..(n + 1) : node'[chain'[i]].next = IF i = n + 1 THEN NULL ELSE chain'[i + 1]
    <3>1. SUFFICES ASSUME NEW i \in 1..(n + 1)
          PROVE  node'[chain'[i]].next = IF i = n + 1 THEN NULL ELSE chain'[i + 1]
      OBVIOUS
    <3>2. CASE i = n + 1
      BY <1>6, <1>7, <2>1, <3>2
    <3>3. CASE i = n
      BY <1>7, <2>1, <2>4, <2>6, <3>3
    <3>4. CASE i \in 1..n /\ i # n
      <4>1. chain[i] # current /\ chain[i] \in Address \ {b}
        BY <2>2, <2>5, <3>4
      <4>2. node'[chain[i]].next = chain[i + 1]
        BY <1>7, <2>6, <3>4, <4>1
      <4>3. QED
        BY <2>1, <2>4, <3>4, <4>2
    <3>5. QED
      BY <2>4, <3>2, <3>3, <3>4
  <2>8. \A i \in 1..(n + 1) : node'[chain'[i]].prev = IF i = 1 THEN NULL ELSE chain'[i - 1]
    <3>1. SUFFICES ASSUME NEW i \in 1..(n + 1)
          PROVE  node'[chain'[i]].prev = IF i = 1 THEN NULL ELSE chain'[i - 1]
      OBVIOUS
    <3>2. CASE i = n + 1
      BY <1>6, <1>7, <2>1, <2>4, <2>6, <3>2
    <3>3. CASE i \in 1..n
      BY <1>7, <2>1, <2>2, <2>4, <2>6, <3>3
    <3>4. QED
      BY <2>4, <3>2, <3>3
  <2>9. chain'[1] = first /\ node'[first].prev = NULL /\ chain' # << >>
    <3>1. chain'[1] = first /\ first \in Address \ {b}
      BY <1>3, <2>1, <2>2, <2>4
    <3>2. chain' # << >>
      BY <1>1, <1>2
    <3>3. QED
      BY <1>3, <1>7, <3>1, <3>2
  <2>10. NextLinks(chain, 1)' /\ PrevLinks(chain)'
    BY <2>1, <2>7, <2>8 DEF NextLinks, PrevLinks
  <2>11. chain'[Len(chain')] = current'
    BY <1>1, <2>1
  <2>12. QED
    BY <1>1, <1>11, <2>9, <2>10, <2>11 DEF ListOK
<1>13. /\ \A x, y \in heap : Upto(chain, x, y) => Upto(chain', x, y)
       /\ \A x : Upto(chain', x, b)
  BY <1>1, <1>2, <1>3, UptoAppend
<1>14. /\ \A i \in 1..Len(live) : live[i].block # b
       /\ \A x \in heap : x # b /\ x \in Address /\ node[x].pos \in Nat
  BY <1>1, Facts DEF IInv, Placed, Block
<1>15. \A x \in heap : /\ node'[x].cap = node[x].cap /\ node[x].pos <= node'[x].pos
  BY <1>7, <1>14
<1>16. \A x \in heap' \ {b} : x \in heap /\ node'[x].pos = node[x].pos
  BY <1>1, <1>7, <1>14
<1>17. 0 % Align = 0 /\ 0 <= size
  BY <1>2, Alignment
<1>18. Placed' /\ Ordered' /\ InPosition' /\ MarksOK'
  BY <1>1, <1>5, <1>6, <1>7, <1>8, <1>10, <1>13, <1>14, <1>15, <1>16, <1>17, PushKeeps
<1>19. QED
  BY <1>10, <1>12, <1>18 DEF IInv

(* What the last block is, between two calls.                              *)
LEMMA CurrentLast ==
  ASSUME IInv, pc = "idle"
  PROVE  /\ current \in heap /\ current \in Address /\ Len(chain) > 0
         /\ chain[Len(chain)] = current
         /\ \A x : Upto(chain, x, current)
<1>1. /\ Once(chain) /\ Len(chain) \in Nat /\ Len(chain) > 0
      /\ chain[Len(chain)] = current
  BY Facts DEF IInv, ListOK
<1>2. Len(chain) \in 1..Len(chain)
  BY <1>1
<1>3. current \in heap /\ current \in Address
  BY <1>1, <1>2, Facts
<1>4. QED
  BY <1>1, <1>3, UptoEnds

(* Marks come and go, the rest stays.                                      *)
LEMMA RestKept ==
  ASSUME IInv, pc = "idle", pc' = "idle",
         UNCHANGED <<heap, node, first, current, chain, live>>
  PROVE  ListOK' /\ Placed' /\ Ordered' /\ InPosition'
<1>1. NextLinks(chain, 1)' /\ PrevLinks(chain)'
  BY DEF IInv, ListOK, NextLinks, PrevLinks
<1>2. ListOK'
  BY <1>1 DEF IInv, ListOK
<1>3. Placed' /\ Ordered'
  BY DEF IInv, Placed, Ordered
<1>4. InPosition'
  BY DEF IInv, InPosition, Filled
<1>5. QED
  BY <1>2, <1>3, <1>4

LEMMA MarkKept ==
  ASSUME NEW m, MarkOK(m), UNCHANGED <<heap, first, chain, live>>,
         NEW k, marks'[k] = m
  PROVE  MarkOK(marks[k])'
<1>1. Below(m.kept, m.block, m.pos) => Below(marks[k].kept, marks[k].block, marks[k].pos)'
  BY DEF Below
<1>2. Filled(m.kept, m.block, m.pos) => Filled(marks[k].kept, marks[k].block, marks[k].pos)'
  BY DEF Filled
<1>3. QED
  BY <1>1, <1>2 DEF MarkOK

LEMMA GetMarkKeeps ==
  ASSUME IInv, GetMark
  PROVE  IInv'
<1> DEFINE m == [block |-> current, pos |-> node[current].pos, kept |-> Len(live)]
           n == Len(marks)
<1>1. /\ pc = "idle" /\ marks' = Append(marks, m)
      /\ UNCHANGED <<heap, node, first, current, chain, live, pc, block, mark>>
  BY DEF GetMark
<1>2. m \in Mark /\ m.block = current /\ m.pos = node[current].pos /\ m.kept = Len(live)
  BY <1>1, CurrentLast, Facts DEF Mark, Block
<1> HIDE DEF m
<1>3. /\ n \in Nat /\ marks' \in Seq(Mark) /\ Len(marks') = n + 1 /\ marks'[n + 1] = m
      /\ \A k \in 1..n : marks'[k] = marks[k]
  BY <1>1, <1>2, Facts, Appended
<1>4. TypeOK' /\ ListOK' /\ Placed' /\ Ordered' /\ InPosition'
  <2>1. TypeOK'
    BY <1>1, <1>3 DEF IInv, TypeOK
  <2>2. QED
    BY <1>1, <2>1, RestKept
<1>5. \A k \in 1..(n + 1) : k \in 1..n \/ k = n + 1
  BY <1>3
<1> HIDE DEF n
<1>6. MarkOK(m)
  <2>1. \A i \in 1..Len(live) : live[i].to <= node[live[i].block].pos
    BY <1>1 DEF IInv, InPosition
  <2>2. Below(m.kept, m.block, m.pos)
    BY <1>1, <1>2, <2>1, CurrentLast DEF Below
  <2>3. Filled(m.kept, m.block, m.pos)
    BY <1>1, <1>2, CurrentLast DEF IInv, InPosition
  <2>4. Len(live) \in Nat
    BY Facts
  <2>5. m.kept <= Len(live) /\ (m.kept + 1)..Len(live) = {}
    BY <1>2, <2>4
  <2>6. QED
    BY <1>1, <1>2, <2>2, <2>3, <2>5, CurrentLast DEF MarkOK
<1>7. \A k \in 1..n : MarkOK(marks[k])
  BY DEF IInv, MarksOK, n
<1>8. \A k \in 1..(n + 1) : MarkOK(marks'[k])
  BY <1>3, <1>5, <1>6, <1>7
<1>9. \A k \in 1..Len(marks') : MarkOK(marks[k])'
  BY <1>1, <1>3, <1>8, MarkKept
<1>10. ASSUME NEW a \in 1..(n + 1), NEW b \in 1..(n + 1), a < b
       PROVE  /\ marks'[a].kept <= marks'[b].kept
              /\ Upto(chain, marks'[a].block, marks'[b].block)
  <2>1. a \in 1..n
    BY <1>3, <1>10
  <2>2. CASE b = n + 1
    <3>1. marks[a].kept <= Len(live)
      BY <1>7, <2>1 DEF MarkOK
    <3>2. QED
      BY <1>1, <1>2, <1>3, <2>1, <2>2, <3>1, CurrentLast
  <2>3. CASE b \in 1..n
    BY <1>3, <1>10, <2>1, <2>3 DEF IInv, MarksOK, Nested, n
  <2>4. QED
    BY <1>5, <2>2, <2>3
<1>11. Nested'
  BY <1>1, <1>3, <1>10 DEF Nested
<1>12. MarksOK'
  BY <1>1, <1>9, <1>11 DEF MarksOK
<1>13. QED
  BY <1>4, <1>12 DEF IInv

LEMMA LastMark ==
  ASSUME IInv, marks # << >>, marks' = SubSeq(marks, 1, Len(marks) - 1)
  PROVE  /\ Len(marks) \in Nat \ {0} /\ Len(marks') = Len(marks) - 1
         /\ marks' \in Seq(Mark)
         /\ \A k \in 1..Len(marks') : k \in 1..Len(marks) /\ k < Len(marks)
                                     /\ marks'[k] = marks[k]
         /\ Len(marks) \in 1..Len(marks)
<1>1. Len(marks) \in Nat \ {0} /\ marks \in Seq(Mark)
  BY Facts, EmptySeq
<1>2. Len(marks) - 1 \in 0..Len(marks)
  BY <1>1
<1>3. /\ marks' \in Seq(Mark) /\ Len(marks') = Len(marks) - 1
      /\ \A k \in 1..(Len(marks) - 1) : marks'[k] = marks[k]
  BY <1>1, <1>2, Cut
<1>4. QED
  BY <1>1, <1>3

LEMMA ForgetMarkKeeps ==
  ASSUME IInv, ForgetMark
  PROVE  IInv'
<1>1. /\ pc = "idle" /\ marks # << >> /\ marks' = SubSeq(marks, 1, Len(marks) - 1)
      /\ UNCHANGED <<heap, node, first, current, chain, live, pc, block, mark>>
  BY DEF ForgetMark
<1>2. /\ marks' \in Seq(Mark)
      /\ \A k \in 1..Len(marks') : k \in 1..Len(marks) /\ marks'[k] = marks[k]
  BY <1>1, LastMark
<1>3. TypeOK' /\ ListOK' /\ Placed' /\ Ordered' /\ InPosition'
  <2>1. TypeOK'
    BY <1>1, <1>2 DEF IInv, TypeOK
  <2>2. QED
    BY <1>1, <2>1, RestKept
<1>4. \A k \in 1..Len(marks') : MarkOK(marks[k])'
  <2>1. \A k \in 1..Len(marks') : MarkOK(marks'[k])
    BY <1>2 DEF IInv, MarksOK
  <2>2. QED
    BY <1>1, <2>1, MarkKept
<1>5. Nested'
  BY <1>1, <1>2 DEF IInv, MarksOK, Nested
<1>6. QED
  BY <1>1, <1>3, <1>4, <1>5 DEF IInv, MarksOK

LEMMA PopToMarkKeeps ==
  ASSUME IInv, PopToMark
  PROVE  IInv'
<1> DEFINE n == Len(marks)
           m == marks[n]
<1>1. /\ pc = "idle" /\ marks # << >> /\ marks' = SubSeq(marks, 1, n - 1)
      /\ mark' = m /\ live' = SubSeq(live, 1, m.kept)
      /\ block' = current /\ pc' = "pop"
      /\ UNCHANGED <<heap, node, first, current, chain>>
  BY DEF PopToMark
<1>2. /\ marks' \in Seq(Mark) /\ n \in 1..n
      /\ \A k \in 1..Len(marks') : k \in 1..n /\ k < n /\ marks'[k] = marks[k]
  BY <1>1, LastMark
<1>3. m \in Mark /\ MarkOK(m)
  BY <1>2, Facts DEF IInv, MarksOK
<1>4. /\ m.kept \in 0..Len(live) /\ m.kept \in Nat /\ m.block \in heap
      /\ m.pos \in Nat /\ Len(live) \in Nat
  BY <1>3, Facts DEF MarkOK, Mark
<1> HIDE DEF m, n
<1>5. /\ live' \in Seq(Allocation) /\ Len(live') = m.kept
      /\ \A i \in 1..m.kept : live'[i] = live[i] /\ i \in 1..Len(live)
  BY <1>1, <1>4, Facts, Cut
<1>6. TypeOK'
  BY <1>1, <1>2, <1>3, <1>5 DEF IInv, TypeOK
<1>7. ListOK'
  BY <1>1, <1>4 DEF IInv, ListOK, NextLinks, PrevLinks
<1>8. Placed' /\ Ordered'
  <2>1. Placed'
    BY <1>1, <1>5 DEF IInv, Placed
  <2>2. \A i, j \in 1..m.kept : i < j =>
          /\ Upto(chain, live[i].block, live[j].block)
          /\ live[i].block = live[j].block => live[i].to <= live[j].from
    BY <1>5 DEF IInv, Ordered
  <2>3. Ordered'
    BY <1>1, <1>5, <2>2 DEF Ordered
  <2>4. QED
    BY <2>1, <2>3
<1>9. Below(Len(live), mark.block, mark.pos)' /\ Filled(Len(live), mark.block, mark.pos)'
  BY <1>1, <1>3, <1>5 DEF MarkOK, Below, Filled
<1>10. ASSUME NEW b \in heap, Upto(chain, b, m.block), b # m.block
       PROVE  \/ \E i \in 1..m.kept : live[i].block = b /\ live[i].to = node[b].pos
              \/ b = first /\ node[b].pos = 0
  <2>1. CASE b = first /\ node[b].pos = 0
    BY <2>1
  <2>2. CASE ~(b = first /\ node[b].pos = 0)
    <3>1. PICK i \in 1..Len(live) : live[i].block = b /\ live[i].to = node[b].pos
      BY <1>1, <1>10, <2>2 DEF IInv, InPosition, Filled
    <3>2. CASE i \in 1..m.kept
      BY <3>1, <3>2
    <3>3. CASE i \in (m.kept + 1)..Len(live)
      <4>1. Upto(chain, m.block, b)
        BY <1>3, <3>1, <3>3 DEF MarkOK
      <4>2. heap = Blocks(chain) /\ Len(chain) \in Nat
        BY Facts DEF IInv, ListOK
      <4>3. b = m.block
        BY <1>4, <1>10, <4>1, <4>2, UptoBoth
      <4>4. QED
        BY <1>10, <4>3
    <3>4. QED
      BY <1>4, <3>2, <3>3
  <2>3. QED
    BY <2>1, <2>2
<1>11. \A i \in 1..m.kept : live[i].to <= node[live[i].block].pos
  BY <1>1, <1>5 DEF IInv, InPosition
<1>12. InPosition'
  BY <1>1, <1>5, <1>9, <1>10, <1>11 DEF InPosition, Filled
<1>13. ASSUME NEW k \in 1..Len(marks')
       PROVE  MarkOK(marks[k])' /\ Upto(chain, marks'[k].block, m.block)
  <2>1. k \in 1..n /\ k < n /\ marks'[k] = marks[k]
    BY <1>2
  <2>2. MarkOK(marks[k]) /\ marks[k] \in Mark
    BY <2>1, Facts DEF IInv, MarksOK, n
  <2>3. marks[k].kept <= m.kept /\ Upto(chain, marks[k].block, m.block)
    BY <1>2, <2>1 DEF IInv, MarksOK, Nested, m, n
  <2> DEFINE o == marks[k]
  <2>4. /\ o.kept \in Nat /\ o.kept <= m.kept
        /\ \A i \in 1..o.kept : i \in 1..m.kept
        /\ \A i \in (o.kept + 1)..m.kept : i \in (o.kept + 1)..Len(live) /\ i \in 1..m.kept
    BY <1>4, <2>2, <2>3 DEF Mark
  <2>5. /\ o.block \in heap
        /\ \A i \in 1..o.kept : /\ Upto(chain, live[i].block, o.block)
                                /\ live[i].block = o.block => live[i].to <= o.pos
        /\ \/ \E i \in 1..o.kept : live[i].block = o.block /\ live[i].to = o.pos
           \/ o.block = first /\ o.pos = 0
        /\ \A i \in (o.kept + 1)..Len(live) : Upto(chain, o.block, live[i].block)
    BY <2>2 DEF MarkOK, Below, Filled
  <2>6. marks'[k] = o
    BY <2>1
  <2> HIDE DEF o
  <2>7. MarkOK(marks[k])'
    BY <1>1, <1>5, <2>4, <2>5, <2>6 DEF MarkOK, Below, Filled
  <2>8. QED
    BY <2>3, <2>6, <2>7 DEF o
<1>14. Nested'
  BY <1>1, <1>2 DEF IInv, MarksOK, Nested, n
<1>15. MarksOK'
  BY <1>1, <1>13, <1>14 DEF MarksOK
<1>16. QED
  BY <1>6, <1>7, <1>8, <1>12, <1>15 DEF IInv

LEMMA PopFreeKeeps ==
  ASSUME IInv, PopFree
  PROVE  IInv'
<1> DEFINE n == Len(chain)
           d == SubSeq(chain, 1, n - 1)
           prev == chain[n - 1]
<1>1. /\ pc = "pop" /\ block # mark.block /\ node' = Unlinked(block)
      /\ heap' = heap \ {block} /\ block' = Previous(block) /\ chain' = d
      /\ UNCHANGED <<first, current, live, marks, pc, mark>>
  BY DEF PopFree
<1>2. /\ Once(chain) /\ chain # << >> /\ heap = Blocks(chain) /\ chain[n] = block
      /\ chain[1] = first /\ node[first].prev = NULL
      /\ NextLinks(chain, 1) /\ PrevLinks(chain) /\ mark.block \in heap
  BY <1>1 DEF IInv, ListOK
<1>3. chain \in Seq(Address) /\ node \in [Address -> Block]
  BY DEF IInv, TypeOK
<1>4. /\ d \in Seq(Address) /\ Len(d) = n - 1 /\ n \in Nat \ {0}
      /\ \A i \in 1..(n - 1) : d[i] = chain[i]
      /\ Blocks(d) = heap \ {block} /\ Once(d)
  BY <1>2, <1>3, Removing
<1>5. PICK k \in 1..n : chain[k] = mark.block
  BY <1>2 DEF Blocks
<1>6. k # n /\ n - 1 \in 1..n /\ n - 1 \in 1..(n - 1) /\ n # 1 /\ 1 \in 1..(n - 1)
  BY <1>1, <1>2, <1>4, <1>5
<1>7. /\ \A i \in 1..n : chain[i] \in Address
      /\ \A i \in 1..(n - 1) : i \in 1..n /\ i # n /\ chain[i] # block
      /\ \A i \in 1..n : i = n \/ i \in 1..(n - 1)
  <2>1. /\ \A i \in 1..(n - 1) : i \in 1..n /\ i # n
        /\ \A i \in 1..n : i = n \/ i \in 1..(n - 1)
        /\ n \in 1..n
    BY <1>4
  <2>2. QED
    BY <1>2, <2>1, Facts DEF Once
<1>8. /\ \A i \in 1..n : node[chain[i]].next = IF i = n THEN NULL ELSE chain[i + 1]
      /\ \A i \in 1..n : node[chain[i]].prev = IF i = 1 THEN NULL ELSE chain[i - 1]
  BY <1>2 DEF NextLinks, PrevLinks
<1>9. node[block].prev = prev /\ prev \in Address
  <2>1. n \in 1..n
    BY <1>4
  <2>2. QED
    BY <1>2, <1>6, <1>7, <1>8, <2>1
<1>10. /\ node' \in [Address -> Block]
       /\ \A x \in Address : /\ node'[x].pos = node[x].pos /\ node'[x].cap = node[x].cap
                             /\ node'[x].prev = node[x].prev
                             /\ x # prev => node'[x].next = node[x].next
       /\ node'[prev].next = NULL
  <2>1. node' = [node EXCEPT ![prev] = [@ EXCEPT !.next = NULL]]
    BY <1>1, <1>9 DEF Unlinked
  <2> HIDE DEF prev
  <2>2. node[prev] \in Block
    BY <1>3, <1>9
  <2>3. /\ [node[prev] EXCEPT !.next = NULL] \in Block
        /\ [node[prev] EXCEPT !.next = NULL].next = NULL
        /\ [node[prev] EXCEPT !.next = NULL].pos = node[prev].pos
        /\ [node[prev] EXCEPT !.next = NULL].cap = node[prev].cap
        /\ [node[prev] EXCEPT !.next = NULL].prev = node[prev].prev
    BY <2>2 DEF Block
  <2>4. QED
    BY <1>3, <1>9, <2>1, <2>3
<1>11. block' = prev
  BY <1>1, <1>9 DEF Previous
<1>12. TypeOK'
  BY <1>1, <1>4, <1>9, <1>10, <1>11 DEF IInv, TypeOK
<1>13. \A x, y : Upto(chain, x, y) => Upto(d, x, y)
  <2>1. n \in Nat /\ Len(d) \in Nat /\ Len(d) <= n /\ \A i \in 1..Len(d) : d[i] = chain[i]
    BY <1>4
  <2> HIDE DEF d
  <2>2. QED
    BY <2>1, UptoPrefix
<1>14. \A x : Upto(chain, x, mark.block) => x # block
  <2>1. n \in 1..n /\ ~(n <= k)
    BY <1>4, <1>5, <1>6
  <2>2. QED
    BY <1>2, <1>5, <2>1 DEF Upto
<1>15. \A x : x # block /\ Upto(d, x, mark.block) => Upto(chain, x, mark.block)
  <2>1. SUFFICES ASSUME NEW x, x # block, Upto(d, x, mark.block),
                        NEW p \in 1..n, NEW q \in 1..n, chain[p] = x, chain[q] = mark.block
                 PROVE  p <= q
    BY DEF Upto
  <2>2. p \in 1..(n - 1) /\ q \in 1..(n - 1)
    BY <1>1, <1>2, <1>7, <2>1
  <2>3. QED
    BY <1>4, <2>1, <2>2 DEF Upto
<1> HIDE DEF d
<1>16. ListOK'
  <2>1. \A i \in 1..(n - 1) : node'[d[i]].next = IF i = n - 1 THEN NULL ELSE d[i + 1]
    <3>1. SUFFICES ASSUME NEW i \in 1..(n - 1)
          PROVE  node'[d[i]].next = IF i = n - 1 THEN NULL ELSE d[i + 1]
      OBVIOUS
    <3>2. CASE i = n - 1
      BY <1>4, <1>6, <1>10, <3>2
    <3>3. CASE i # n - 1
      <4>1. i \in 1..n /\ i # n /\ i + 1 \in 1..(n - 1)
        BY <1>4, <3>3
      <4>2. chain[i] # prev /\ chain[i] \in Address
        BY <1>2, <1>6, <1>7, <3>3, <4>1 DEF Once
      <4>3. QED
        BY <1>4, <1>8, <1>10, <3>3, <4>1, <4>2
    <3>4. QED
      BY <3>2, <3>3
  <2>2. \A i \in 1..(n - 1) : node'[d[i]].prev = IF i = 1 THEN NULL ELSE d[i - 1]
    <3>1. SUFFICES ASSUME NEW i \in 1..(n - 1)
          PROVE  node'[d[i]].prev = IF i = 1 THEN NULL ELSE d[i - 1]
      OBVIOUS
    <3>2. i = 1 \/ i - 1 \in 1..(n - 1)
      BY <1>4
    <3>3. node'[d[i]].prev = node[chain[i]].prev
      BY <1>4, <1>7, <1>10
    <3>4. node[chain[i]].prev = IF i = 1 THEN NULL ELSE chain[i - 1]
      BY <1>7, <1>8
    <3>5. QED
      BY <1>4, <3>2, <3>3, <3>4
  <2>3. NextLinks(chain, 1)' /\ PrevLinks(chain)'
    BY <1>1, <1>4, <2>1, <2>2 DEF NextLinks, PrevLinks
  <2>4. d # << >> /\ d[1] = first /\ d[n - 1] = prev
    <3>1. d[1] = first /\ d[n - 1] = prev
      BY <1>2, <1>4, <1>6
    <3>2. Len(d) # 0
      BY <1>4, <1>6
    <3>3. d # << >>
      BY <3>2
    <3>4. QED
      BY <3>1, <3>3
  <2>5. first \in Address
    BY DEF IInv, TypeOK
  <2>6. chain'[Len(chain')] = block'
    BY <1>1, <1>4, <1>11, <2>4
  <2>7. mark'.block \in heap'
    BY <1>1, <1>2
  <2>8. QED
    BY <1>1, <1>2, <1>4, <1>10, <2>3, <2>4, <2>5, <2>6, <2>7 DEF ListOK
<1>17. \A i \in 1..Len(live) : /\ live[i].block \in heap' /\ live[i].block \in Address
                               /\ Upto(chain, live[i].block, mark.block)
  BY <1>1, <1>14, Facts DEF IInv, InPosition, Below, Placed
<1>18. Placed' /\ Ordered'
  <2>1. Placed'
    BY <1>1, <1>10, <1>17 DEF IInv, Placed
  <2>2. Ordered'
    BY <1>1, <1>13 DEF IInv, Ordered
  <2>3. QED
    BY <2>1, <2>2
<1>19. InPosition'
  <2>1. Below(Len(live), mark.block, mark.pos)' /\ Filled(Len(live), mark.block, mark.pos)'
    BY <1>1, <1>13 DEF IInv, InPosition, Below, Filled
  <2>2. \A i \in 1..Len(live) :
          live[i].block # mark.block => live[i].to <= node'[live[i].block].pos
    BY <1>1, <1>10, <1>17 DEF IInv, InPosition
  <2>3. ASSUME NEW b \in heap', Upto(d, b, mark.block), b # mark.block
        PROVE  Filled(Len(live), b, node'[b].pos)
    <3>1. b \in heap /\ b # block /\ b \in Address
      BY <1>1, <2>3, Facts
    <3>2. Filled(Len(live), b, node[b].pos)
      BY <1>1, <1>15, <2>3, <3>1 DEF IInv, InPosition
    <3>3. QED
      BY <1>10, <3>1, <3>2
  <2>4. QED
    BY <1>1, <2>1, <2>2, <2>3 DEF InPosition, Filled
<1>20. MarksOK'
  <2>1. ASSUME NEW k0 \in 1..Len(marks)
        PROVE  MarkOK(marks[k0])' /\ Upto(d, marks[k0].block, mark.block)
    <3> DEFINE o == marks[k0]
    <3>1. MarkOK(o) /\ Upto(chain, o.block, mark.block)
      BY <1>1 DEF IInv, MarksOK
    <3>2. marks'[k0] = o
      BY <1>1
    <3> HIDE DEF o
    <3>3. o.block \in heap'
      BY <1>1, <1>14, <3>1 DEF MarkOK
    <3>4. Below(marks[k0].kept, marks[k0].block, marks[k0].pos)'
      BY <1>1, <1>13, <3>1, <3>2 DEF MarkOK, Below
    <3>5. Filled(marks[k0].kept, marks[k0].block, marks[k0].pos)'
      BY <1>1, <3>1, <3>2 DEF MarkOK, Filled
    <3>6. QED
      BY <1>1, <1>13, <3>1, <3>2, <3>3, <3>4, <3>5 DEF MarkOK, o
  <2>2. Nested'
    BY <1>1, <1>13 DEF IInv, MarksOK, Nested
  <2>3. QED
    BY <1>1, <2>1, <2>2 DEF MarksOK
<1>21. QED
  BY <1>12, <1>16, <1>18, <1>19, <1>20 DEF IInv

LEMMA PopDoneKeeps ==
  ASSUME IInv, PopDone
  PROVE  IInv'
<1>1. /\ pc = "pop" /\ block = mark.block
      /\ node' = [node EXCEPT ![block].pos = mark.pos]
      /\ current' = block /\ block' = NULL /\ mark' = NoMark /\ pc' = "idle"
      /\ UNCHANGED <<heap, first, chain, live, marks>>
  BY DEF PopDone, Rewound
<1>2. /\ block \in heap /\ block \in Address /\ node \in [Address -> Block]
      /\ mark.pos \in Nat /\ chain[Len(chain)] = block /\ Once(chain)
      /\ chain # << >>
  <2>1. mark.block \in heap
    BY <1>1 DEF IInv, ListOK
  <2>2. mark \in Mark
    BY <2>1, ArenaAssumption DEF IInv, TypeOK, NoMark
  <2>3. QED
    BY <1>1, <2>1, <2>2, Facts DEF IInv, ListOK, TypeOK, Mark
<1>3. /\ node' \in [Address -> Block]
      /\ \A x \in Address : /\ node'[x].cap = node[x].cap
                            /\ node'[x].next = node[x].next
                            /\ node'[x].prev = node[x].prev
                            /\ x # block => node'[x].pos = node[x].pos
      /\ node'[block].pos = mark.pos
  <2> DEFINE p == mark.pos
  <2>1. node' = [node EXCEPT ![block] = [@ EXCEPT !.pos = p]]
    BY <1>1
  <2>2. p \in Nat /\ node[block] \in Block
    BY <1>2
  <2> HIDE DEF p
  <2>3. /\ [node[block] EXCEPT !.pos = p] \in Block
        /\ [node[block] EXCEPT !.pos = p].pos = p
        /\ [node[block] EXCEPT !.pos = p].cap = node[block].cap
        /\ [node[block] EXCEPT !.pos = p].next = node[block].next
        /\ [node[block] EXCEPT !.pos = p].prev = node[block].prev
    BY <2>2 DEF Block
  <2>4. QED
    BY <1>2, <2>1, <2>3 DEF p
<1>4. TypeOK'
  BY <1>1, <1>2, <1>3 DEF IInv, TypeOK
<1>5. \A i \in 1..Len(chain) : chain[i] \in Address
  BY Facts
<1>6. ListOK'
  <2>1. NextLinks(chain, 1)' /\ PrevLinks(chain)'
    BY <1>1, <1>3, <1>5 DEF IInv, ListOK, NextLinks, PrevLinks
  <2>2. QED
    BY <1>1, <1>2, <1>3, <2>1 DEF IInv, TypeOK, ListOK
<1>7. \A i \in 1..Len(live) : live[i].block \in heap /\ live[i].block \in Address
  BY Facts DEF IInv, Placed
<1>8. Placed' /\ Ordered'
  BY <1>1, <1>3, <1>7 DEF IInv, Placed, Ordered
<1>9. \A x : Upto(chain, x, block)
  <2>1. Len(chain) \in Nat /\ Len(chain) > 0
    BY <1>2, Facts
  <2>2. QED
    BY <1>2, <2>1, UptoEnds
<1>10. \A i \in 1..Len(live) : live[i].to <= node'[live[i].block].pos
  BY <1>1, <1>3, <1>7 DEF IInv, InPosition, Below
<1>11. ASSUME NEW b \in heap PROVE Filled(Len(live), b, node'[b].pos)
  BY <1>1, <1>3, <1>9, Facts DEF IInv, InPosition
<1>12. InPosition'
  BY <1>1, <1>10, <1>11 DEF InPosition, Filled
<1>13. \A k \in 1..Len(marks) : MarkOK(marks[k])'
  BY <1>1, MarkKept DEF IInv, MarksOK
<1>14. MarksOK'
  BY <1>1, <1>13 DEF IInv, MarksOK, Nested
<1>15. QED
  BY <1>4, <1>6, <1>8, <1>12, <1>14 DEF IInv

(* Nothing is in use while the blocks of a list are freed.                 *)
LEMMA Emptied ==
  ASSUME TypeOK', ListOK', live' = << >>, marks' = << >>,
         pc' \notin {"idle", "pop"}
  PROVE  IInv'
<1>1. Len(live') = 0 /\ Len(marks') = 0
  OBVIOUS
<1>2. QED
  BY <1>1 DEF IInv, Placed, Ordered, InPosition, MarksOK, Nested

LEMMA ClearKeeps ==
  ASSUME IInv, Clear
  PROVE  IInv'
<1>1. /\ pc = "idle" /\ pc' = "clear" /\ block' = node[first].next
      /\ live' = << >> /\ marks' = << >>
      /\ UNCHANGED <<heap, node, first, current, chain, mark>>
  BY DEF Clear
<1>2. /\ chain # << >> /\ chain[1] = first /\ NextLinks(chain, 1)
      /\ Len(chain) \in Nat /\ Len(chain) > 0
  BY <1>1, Facts DEF IInv, ListOK
<1>3. NextLinks(chain, 2)
  <2>1. \A i \in 2..Len(chain) : i \in 1..Len(chain)
    BY <1>2
  <2>2. QED
    BY <1>2, <2>1 DEF NextLinks
<1>4. block' = IF Len(chain) = 1 THEN NULL ELSE chain[2]
  <2>1. 1 \in 1..Len(chain)
    BY <1>2
  <2>2. node[chain[1]].next = IF 1 = Len(chain) THEN NULL ELSE chain[1 + 1]
    BY <1>2, <2>1 DEF NextLinks
  <2>3. 1 + 1 = 2
    OBVIOUS
  <2>4. QED
    BY <1>1, <1>2, <2>2, <2>3
<1>5. first \in Address /\ node[first] \in Block
  BY DEF IInv, TypeOK
<1>6. TypeOK'
  BY <1>1, <1>5 DEF IInv, TypeOK, Block
<1>7. ListOK'
  BY <1>1, <1>2, <1>3, <1>4 DEF IInv, ListOK, NextLinks
<1>8. QED
  BY <1>1, <1>6, <1>7, Emptied

LEMMA ReleaseKeeps ==
  ASSUME IInv, Release
  PROVE  IInv'
<1>1. /\ pc = "idle" /\ pc' = "release" /\ block' = first
      /\ live' = << >> /\ marks' = << >>
      /\ UNCHANGED <<heap, node, first, current, chain, mark>>
  BY DEF Release
<1>2. chain # << >> /\ chain[1] = first /\ NextLinks(chain, 1)
  BY <1>1 DEF IInv, ListOK
<1>3. TypeOK'
  BY <1>1 DEF IInv, TypeOK
<1>4. ListOK'
  BY <1>1, <1>2 DEF IInv, ListOK, NextLinks
<1>5. QED
  BY <1>1, <1>3, <1>4, Emptied

LEMMA FromTwo ==
  ASSUME NEW n \in Nat, n > 0
  PROVE  /\ 1 \in 1..n /\ n - 1 \in Nat
         /\ n # 1 => /\ 2 \in 1..n /\ 2 \in 2..n /\ 1 \in 1..(n - 1)
                     /\ (IF 3 <= n THEN n - 3 + 1 ELSE 0) = n - 2
                     /\ n - 3 + 1 = n - 2 /\ n - 2 \in Nat
OBVIOUS

LEMMA ClearDoneKeeps ==
  ASSUME IInv, ClearDone
  PROVE  IInv'
<1>1. /\ pc = "clear" /\ pc' = "idle" /\ block = NULL /\ current' = first
      /\ node' = [node EXCEPT ![first] = EmptyBlock(@.cap)]
      /\ UNCHANGED <<heap, first, chain, live, marks, block, mark>>
  BY DEF ClearDone, CurrentAfterClear
<1>2. /\ live = << >> /\ marks = << >> /\ chain[1] = first /\ chain # << >>
      /\ heap = Blocks(chain) /\ Once(chain)
      /\ block = IF Len(chain) = 1 THEN NULL ELSE chain[2]
  BY <1>1 DEF IInv, ListOK
<1>3. Len(chain) = 1
  <2>1. SUFFICES ASSUME Len(chain) # 1 PROVE FALSE
    OBVIOUS
  <2>2. Len(chain) \in Nat /\ Len(chain) > 0
    BY <1>2, Facts
  <2>3. 2 \in 1..Len(chain)
    BY <2>1, <2>2, FromTwo
  <2>4. chain[2] = NULL
    BY <1>1, <1>2, <2>1
  <2>5. QED
    BY <2>3, <2>4, Facts
<1>4. heap = {first}
  BY <1>2, <1>3 DEF Blocks
<1>5. first \in Address /\ node \in [Address -> Block] /\ node[first].cap \in Nat
  BY DEF IInv, TypeOK, Block
<1>6. /\ EmptyBlock(node[first].cap) \in Block
      /\ node'[first] = EmptyBlock(node[first].cap)
      /\ node' \in [Address -> Block]
  BY <1>1, <1>5 DEF EmptyBlock, Block
<1>7. node'[first].next = NULL /\ node'[first].prev = NULL /\ node'[first].pos = 0
  BY <1>6 DEF EmptyBlock
<1>8. TypeOK'
  BY <1>1, <1>5, <1>6 DEF IInv, TypeOK
<1>9. ListOK'
  BY <1>1, <1>2, <1>3, <1>7 DEF ListOK, NextLinks, PrevLinks
<1>10. Len(live') = 0 /\ Len(marks') = 0
  BY <1>1, <1>2
<1>11. InPosition'
  BY <1>1, <1>4, <1>7, <1>10 DEF InPosition, Filled
<1>12. QED
  BY <1>1, <1>8, <1>9, <1>10, <1>11 DEF IInv, Placed, Ordered, MarksOK, Nested

LEMMA ReleaseDoneKeeps ==
  ASSUME IInv, ReleaseDone
  PROVE  IInv'
<1>1. /\ pc = "release" /\ pc' = "released" /\ block = NULL
      /\ UNCHANGED <<heap, node, first, current, chain, live, marks, block, mark>>
  BY DEF ReleaseDone
<1>2. live = << >> /\ marks = << >> /\ block = IF chain = << >> THEN NULL ELSE chain[1]
  BY <1>1 DEF IInv, ListOK
<1>3. chain = << >>
  <2>1. SUFFICES ASSUME chain # << >> PROVE FALSE
    OBVIOUS
  <2>2. 1 \in 1..Len(chain) /\ chain[1] = NULL
    BY <1>1, <1>2, <2>1, Facts
  <2>3. QED
    BY <2>2, Facts
<1>4. TypeOK'
  BY <1>1 DEF IInv, TypeOK
<1>5. ListOK'
  BY <1>1, <1>2, <1>3 DEF IInv, ListOK
<1>6. QED
  BY <1>1, <1>2, <1>4, <1>5, Emptied

(* A list without its k-th block.                                          *)
LEMMA Dropping ==
  ASSUME NEW c \in Seq(Address), Once(c), NEW k \in 1..Len(c),
         NEW d \in Seq(Address), Len(d) = Len(c) - 1,
         \A i \in 1..Len(d) : d[i] = c[IF i < k THEN i ELSE i + 1]
  PROVE  Blocks(d) = Blocks(c) \ {c[k]} /\ Once(d)
<1> DEFINE n == Len(c)
           at(i) == IF i < k THEN i ELSE i + 1
<1>1. n \in Nat /\ k \in 1..n /\ Len(d) = n - 1 /\ \A i \in 1..(n - 1) : d[i] = c[at(i)]
  OBVIOUS
<1>2. /\ \A i \in 1..(n - 1) : at(i) \in 1..n /\ at(i) # k
      /\ \A i, j \in 1..(n - 1) : at(i) = at(j) => i = j
  BY <1>1
<1>3. \A j \in 1..n : j # k => \E i \in 1..(n - 1) : at(i) = j
  <2>1. SUFFICES ASSUME NEW j \in 1..n, j # k PROVE \E i \in 1..(n - 1) : at(i) = j
    OBVIOUS
  <2>2. CASE j < k
    <3>1. j \in 1..(n - 1) /\ at(j) = j
      BY <1>1, <2>1, <2>2
    <3>2. QED
      BY <3>1
  <2>3. CASE ~(j < k)
    <3>1. j - 1 \in 1..(n - 1) /\ at(j - 1) = j
      BY <1>1, <2>1, <2>3
    <3>2. QED
      BY <3>1
  <2>4. QED
    BY <2>2, <2>3
<1> HIDE DEF n, at
<1>4. Blocks(d) = Blocks(c) \ {c[k]}
  <2>1. ASSUME NEW x \in Blocks(d) PROVE x \in Blocks(c) /\ x # c[k]
    <3>1. PICK i \in 1..(n - 1) : x = c[at(i)]
      BY <1>1, <2>1 DEF Blocks
    <3>2. at(i) \in 1..n /\ at(i) # k
      BY <1>2
    <3>3. QED
      BY <1>1, <3>1, <3>2 DEF Blocks, Once, n
  <2>2. ASSUME NEW x \in Blocks(c), x # c[k] PROVE x \in Blocks(d)
    <3>1. PICK j \in 1..n : x = c[j]
      BY <2>2 DEF Blocks, n
    <3>2. PICK i \in 1..(n - 1) : at(i) = j
      BY <1>3, <2>2, <3>1
    <3>3. d[i] = x
      BY <1>1, <3>1, <3>2
    <3>4. QED
      BY <1>1, <3>3 DEF Blocks
  <2>3. QED
    BY <2>1, <2>2
<1>5. Once(d)
  BY <1>1, <1>2 DEF Once, n
<1>6. QED
  BY <1>4, <1>5

LEMMA FreeNextClears ==
  ASSUME IInv, FreeNext, pc = "clear"
  PROVE  IInv'
<1> DEFINE n == Len(chain)
           d == <<chain[1]>> \o SubSeq(chain, 3, n)
<1>1. /\ block # NULL /\ heap' = heap \ {block} /\ block' = node[block].next
      /\ chain' = d
      /\ UNCHANGED <<node, first, current, live, marks, pc, mark>>
  BY DEF FreeNext
<1>2. /\ live = << >> /\ marks = << >> /\ chain[1] = first /\ chain # << >>
      /\ node[first].prev = NULL /\ heap = Blocks(chain) /\ Once(chain)
      /\ NextLinks(chain, 2) /\ block = IF n = 1 THEN NULL ELSE chain[2]
  BY DEF IInv, ListOK
<1>3. chain \in Seq(Address) /\ n \in Nat /\ n > 0 /\ n # 1
  BY <1>1, <1>2, Facts
<1>4. 2 \in 1..n /\ 1 \in 1..n /\ block = chain[2] /\ 2 \in 2..n
  <2>1. 2 \in 1..n /\ 1 \in 1..n /\ 2 \in 2..n
    BY <1>3, FromTwo
  <2>2. QED
    BY <1>2, <1>3, <2>1
<1>5. d \in Seq(Address) /\ Len(d) = n - 1 /\ d[1] = chain[1]
      /\ \A i \in 2..(n - 1) : d[i] = chain[i + 1]
  <2> DEFINE t == SubSeq(chain, 3, n)
  <2>1. \A i \in 3..n : chain[i] \in Address
    BY <1>3, Facts
  <2>2. /\ t \in Seq(Address) /\ Len(t) = (IF 3 <= n THEN n - 3 + 1 ELSE 0)
        /\ \A i \in 1..(n - 3 + 1) : t[i] = chain[3 + i - 1]
    BY <1>3, <2>1, SubSeqProperties
  <2>3. Len(t) = n - 2
    BY <1>3, <2>2, FromTwo
  <2>4. chain[1] \in Address
    BY <1>4, Facts
  <2> HIDE DEF t
  <2>5. /\ <<chain[1]>> \o t \in Seq(Address)
        /\ Len(<<chain[1]>> \o t) = 1 + Len(t)
        /\ (<<chain[1]>> \o t)[1] = chain[1]
        /\ \A i \in 1..Len(t) : (<<chain[1]>> \o t)[i + 1] = t[i]
    BY <2>2, <2>4
  <2>6. ASSUME NEW i \in 2..(n - 1) PROVE (<<chain[1]>> \o t)[i] = chain[i + 1]
    <3>1. i - 1 \in 1..Len(t) /\ i - 1 + 1 = i /\ i - 1 \in 1..(n - 3 + 1) /\ 3 + (i - 1) - 1 = i + 1
      BY <1>3, <2>3
    <3>2. QED
      BY <2>2, <2>5, <3>1
  <2>7. QED
    BY <1>3, <2>3, <2>5, <2>6 DEF t
<1> HIDE DEF d
<1>6. \A i \in 1..Len(d) : d[i] = chain[IF i < 2 THEN i ELSE i + 1]
  BY <1>3, <1>5
<1>7. Blocks(d) = heap' /\ Once(d)
  BY <1>1, <1>2, <1>3, <1>4, <1>5, <1>6, Dropping
<1>8. \A i \in 2..n : node[chain[i]].next = IF i = n THEN NULL ELSE chain[i + 1]
  BY <1>2 DEF NextLinks
<1>9. block' = IF n = 2 THEN NULL ELSE chain[3]
  <2>1. node[chain[2]].next = IF 2 = n THEN NULL ELSE chain[2 + 1]
    BY <1>4, <1>8
  <2>2. 2 + 1 = 3
    OBVIOUS
  <2>3. QED
    BY <1>1, <1>4, <2>1, <2>2
<1>10. block' = IF Len(d) = 1 THEN NULL ELSE d[2]
  <2>1. CASE n = 2
    BY <1>5, <1>9, <2>1
  <2>2. CASE n # 2
    <3>1. 2 \in 2..(n - 1) /\ Len(d) # 1 /\ 2 + 1 = 3
      BY <1>3, <1>5, <2>2
    <3>2. d[2] = chain[2 + 1]
      BY <1>5, <3>1
    <3>3. QED
      BY <1>9, <2>2, <3>1, <3>2
  <2>3. QED
    BY <2>1, <2>2
<1>11. NextLinks(chain, 2)'
  <2>1. ASSUME NEW i \in 2..(n - 1)
        PROVE  node[d[i]].next = IF i = n - 1 THEN NULL ELSE d[i + 1]
    <3>1. i + 1 \in 2..n /\ (i + 1 = n <=> i = n - 1)
      BY <1>3
    <3>2. node[chain[i + 1]].next = IF i + 1 = n THEN NULL ELSE chain[i + 1 + 1]
      BY <1>8, <3>1
    <3>3. i # n - 1 => i + 1 \in 2..(n - 1)
      BY <1>3
    <3>4. QED
      BY <1>5, <3>1, <3>2, <3>3
  <2>2. QED
    BY <1>1, <1>5, <2>1 DEF NextLinks
<1>12. d # << >>
  <2>1. Len(d) # 0
    BY <1>3, <1>5
  <2>2. QED
    BY <2>1
<1>13. chain[2] \in Address /\ node[chain[2]] \in Block
  BY <1>4, Facts
<1>14. TypeOK'
  BY <1>1, <1>4, <1>5, <1>13 DEF IInv, TypeOK, Block
<1>15. ListOK'
  BY <1>1, <1>2, <1>5, <1>7, <1>10, <1>11, <1>12 DEF ListOK
<1>16. QED
  BY <1>1, <1>2, <1>14, <1>15, Emptied

LEMMA FreeNextReleases ==
  ASSUME IInv, FreeNext, pc = "release"
  PROVE  IInv'
<1> DEFINE n == Len(chain)
           d == Tail(chain)
<1>1. /\ block # NULL /\ heap' = heap \ {block} /\ block' = node[block].next
      /\ chain' = d
      /\ UNCHANGED <<node, first, current, live, marks, pc, mark>>
  BY DEF FreeNext
<1>2. /\ live = << >> /\ marks = << >> /\ heap = Blocks(chain) /\ Once(chain)
      /\ NextLinks(chain, 1) /\ block = IF chain = << >> THEN NULL ELSE chain[1]
  BY DEF IInv, ListOK
<1>3. chain \in Seq(Address) /\ n \in Nat /\ n > 0 /\ chain # << >> /\ block = chain[1]
      /\ 1 \in 1..n
  BY <1>1, <1>2, Facts
<1>4. d \in Seq(Address) /\ Len(d) = n - 1 /\ \A i \in 1..(n - 1) : d[i] = chain[i + 1]
  BY <1>3
<1> HIDE DEF d
<1>5. \A i \in 1..Len(d) : d[i] = chain[IF i < 1 THEN i ELSE i + 1]
  BY <1>4
<1>6. Blocks(d) = heap' /\ Once(d)
  <2>1. Blocks(d) = Blocks(chain) \ {chain[1]} /\ Once(d)
    BY <1>2, <1>3, <1>4, <1>5, Dropping
  <2>2. QED
    BY <1>1, <1>2, <1>3, <2>1
<1>7. \A i \in 1..n : node[chain[i]].next = IF i = n THEN NULL ELSE chain[i + 1]
  BY <1>2 DEF NextLinks
<1>8. d = << >> <=> n = 1
  <2>1. d = << >> <=> Len(d) = 0
    BY <1>4, EmptySeq
  <2>2. QED
    BY <1>3, <1>4, <2>1
<1>9. block' = IF d = << >> THEN NULL ELSE d[1]
  <2>1. node[chain[1]].next = IF 1 = n THEN NULL ELSE chain[1 + 1]
    BY <1>3, <1>7
  <2>2. n # 1 => 1 \in 1..(n - 1)
    BY <1>3, FromTwo
  <2>3. QED
    BY <1>1, <1>3, <1>4, <1>8, <2>1, <2>2
<1>10. NextLinks(chain, 1)'
  <2>1. ASSUME NEW i \in 1..(n - 1)
        PROVE  node[d[i]].next = IF i = n - 1 THEN NULL ELSE d[i + 1]
    <3>1. i + 1 \in 1..n /\ (i + 1 = n <=> i = n - 1)
      BY <1>3
    <3>2. node[chain[i + 1]].next = IF i + 1 = n THEN NULL ELSE chain[i + 1 + 1]
      BY <1>7, <3>1
    <3>3. i # n - 1 => i + 1 \in 1..(n - 1)
      BY <1>3
    <3>4. QED
      BY <1>4, <3>1, <3>2, <3>3
  <2>2. QED
    BY <1>1, <1>4, <2>1 DEF NextLinks
<1>11. chain[1] \in Address /\ node[chain[1]] \in Block
  BY <1>3, Facts
<1>12. TypeOK'
  BY <1>1, <1>3, <1>4, <1>11 DEF IInv, TypeOK, Block
<1>13. ListOK'
  BY <1>1, <1>2, <1>6, <1>9, <1>10 DEF ListOK
<1>14. QED
  BY <1>1, <1>2, <1>12, <1>13, Emptied

LEMMA NextIInv == IInv /\ [Next]_vars => IInv'
<1>1. SUFFICES ASSUME IInv, [Next]_vars PROVE IInv'
  OBVIOUS
<1>2. ASSUME NEW size \in Sizes,
             PushHere(size) \/ \E b \in Address : PushNew(size, b)
      PROVE  IInv'
  BY <1>1, <1>2, PushHereKeeps, PushNewKeeps
<1>3. CASE GetMark \/ ForgetMark \/ PopToMark \/ PopFree \/ PopDone
  BY <1>1, <1>3, GetMarkKeeps, ForgetMarkKeeps, PopToMarkKeeps, PopFreeKeeps,
     PopDoneKeeps
<1>4. CASE Clear \/ ClearDone \/ Release \/ ReleaseDone
  BY <1>1, <1>4, ClearKeeps, ClearDoneKeeps, ReleaseKeeps, ReleaseDoneKeeps
<1>5. CASE FreeNext
  <2>1. pc = "clear" \/ pc = "release"
    BY <1>5 DEF FreeNext
  <2>2. QED
    BY <1>1, <1>5, <2>1, FreeNextClears, FreeNextReleases
<1>6. CASE UNCHANGED vars
  <2>1. UNCHANGED <<heap, node, first, current, chain, live, marks, pc, block, mark>>
    BY <1>6 DEF vars
  <2>2. TypeOK' /\ Placed' /\ Ordered'
    BY <1>1, <2>1 DEF IInv, TypeOK, Placed, Ordered
  <2>3. ListOK'
    BY <1>1, <2>1 DEF IInv, ListOK, NextLinks, PrevLinks
  <2>4. InPosition'
    BY <1>1, <2>1 DEF IInv, InPosition, Below, Filled
  <2>5. MarksOK'
    BY <1>1, <2>1, MarkKept DEF IInv, MarksOK, Nested
  <2>6. QED
    BY <2>2, <2>3, <2>4, <2>5 DEF IInv
<1>7. QED
  BY <1>1, <1>2, <1>3, <1>4, <1>5, <1>6 DEF Next

LEMMA InvariantHolds == Spec => []IInv
BY InitIInv, NextIInv, PTL DEF Spec

(* Between two calls the list of blocks is doubly linked and complete,     *)
(* current is its last block, and no memory stays behind a mark that was   *)
(* returned to (arena_push, arena_pop_to_mark, arena_clear).               *)
THEOREM BlocksLinked == Spec => []WellFormed
<1>1. IInv => WellFormed
  <2>1. SUFFICES ASSUME IInv PROVE WellFormed
    OBVIOUS
  <2>2. TypeOK /\ heap = {chain[i] : i \in 1..Len(chain)}
    BY <2>1 DEF IInv, ListOK, Blocks
  <2>3. ASSUME pc = "idle"
        PROVE  /\ chain # << >> /\ Linked(chain)
               /\ chain[1] = first /\ node[first].prev = NULL
               /\ chain[Len(chain)] = current /\ node[current].next = NULL
               /\ NothingRetained
    <3>1. /\ chain # << >> /\ chain[1] = first /\ node[first].prev = NULL
          /\ chain[Len(chain)] = current /\ NextLinks(chain, 1) /\ PrevLinks(chain)
          /\ Once(chain) /\ Len(chain) \in Nat /\ Len(chain) > 0
      BY <2>1, <2>3, Facts DEF IInv, ListOK
    <3>2. Linked(chain)
      <4>1. /\ \A i \in 1..(Len(chain) - 1) : i \in 1..Len(chain) /\ i # Len(chain)
            /\ \A i \in 2..Len(chain) : i \in 1..Len(chain) /\ i # 1
        BY <3>1
      <4>2. QED
        BY <3>1, <4>1 DEF Linked, NextLinks, PrevLinks, Once
    <3>3. node[current].next = NULL
      <4>1. Len(chain) \in 1..Len(chain)
        BY <3>1
      <4>2. QED
        BY <3>1, <4>1 DEF NextLinks
    <3>4. NothingRetained
      BY <2>1, <2>3 DEF IInv, InPosition, Filled, NothingRetained
    <3>5. QED
      BY <3>1, <3>2, <3>3, <3>4
  <2>4. ASSUME pc = "released" PROVE heap = {}
    <3>1. chain = << >> /\ Len(chain) \in Nat /\ ~(Len(chain) > 0)
      BY <2>1, <2>4, Facts DEF IInv, ListOK
    <3>2. QED
      BY <2>2, <3>1
  <2>5. QED
    BY <2>2, <2>3, <2>4 DEF WellFormed
<1>2. QED
  BY <1>1, InvariantHolds, PTL

(* No push, return to a mark or clear invalidates memory that is in use:   *)
(* allocations in use do not overlap, are aligned, and lie in blocks that  *)
(* are still allocated, whatever addresses malloc reuses.                  *)
THEOREM AllocationsApart == Spec => []Separate
<1>1. IInv => Separate
  <2>1. SUFFICES ASSUME IInv PROVE Separate
    OBVIOUS
  <2>2. ASSUME NEW i \in 1..Len(live) PROVE InBlock(live[i])
    BY <2>1, <2>2 DEF IInv, Placed, InPosition, InBlock
  <2>3. QED
    BY <2>1, <2>2 DEF IInv, Ordered, Separate
<1>2. QED
  BY <1>1, InvariantHolds, PTL
=============================================================================
