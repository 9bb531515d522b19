----------------------------- MODULE SortProofs -----------------------------
(***************************************************************************)
(* Theorems about Sort, for every length, every word that holds it and     *)
(* every set of keys.                                                      *)
(***************************************************************************)
EXTENDS Sort, SequenceTheorems, TLAPS

-----------------------------------------------------------------------------
(* Arithmetic *)

LEMMA NoWrap == \A x, w \in Nat : x < w => x % w = x
OBVIOUS

UpTo(a, w, n) == IF a + w < n THEN a + w ELSE n

(* Without overflow get_cap_ is the smaller of the sum and the cap. *)
LEMMA GetCapIs ==
  ASSUME NEW a \in Nat, NEW w \in Nat, NEW n \in Nat, a <= n, n < Word
  PROVE  GetCap(a, w, n) = UpTo(a, w, n)
<1> USE SortAssumption
<1>1. a + w < n => (a + w) % Word = a + w
  BY NoWrap
<1> QED
  BY <1>1 DEF GetCap, UpTo

(* The scratch array that is allocated is large enough. *)
LEMMA NewCapEnough ==
  ASSUME NEW need \in Nat
  PROVE  NewCap(need) \in Nat /\ NewCap(need) >= need
<1> DEFINE start == IF tmp = << >> THEN 1 ELSE Len(tmp)
           doubled == {c \in need..(2 * need - 1) : \E k \in 0..need : c = start * 2^k}
           allowed == {c \in doubled : c <= MaxEntries}
           c0 == CHOOSE c \in allowed : TRUE
<1>1. allowed \subseteq need..(2 * need - 1)
  <2> HIDE DEF start
  <2> QED
    BY ZenonT(30)
<1>2. NewCap(need) = IF allowed = {} THEN need ELSE c0
  BY DEF NewCap
<1> HIDE DEF allowed, doubled
<1>3. allowed # {} => c0 \in allowed
  OBVIOUS
<1> HIDE DEF c0, start
<1>4. allowed # {} => c0 \in Nat /\ c0 >= need
  <2>1. allowed # {} => c0 \in need..(2 * need - 1)
    BY <1>1, <1>3, Zenon
  <2> QED
    BY <2>1
<1> QED
  BY <1>2, <1>4
-----------------------------------------------------------------------------
(* Starts of runs *)

Multiples(w) == {s \in Nat : \E q \in Nat : s = q * w}

LEMMA MultipleOf == \A w, q \in Nat : q * w \in Multiples(w)
<1> SUFFICES ASSUME NEW w \in Nat, NEW q \in Nat PROVE q * w \in Multiples(w)
  OBVIOUS
<1>1. q * w \in Nat
  OBVIOUS
<1> QED
  BY <1>1, Zenon DEF Multiples

LEMMA ZeroMultiple == \A w \in Nat : 0 \in Multiples(w)
<1> TAKE w \in Nat
<1>1. 0 = 0 * w
  OBVIOUS
<1> QED
  BY <1>1, MultipleOf

(* Of two multiples the smaller one is smaller by w at least. *)
LEMMA Apart ==
  ASSUME NEW w \in Nat, NEW s \in Multiples(w), NEW t \in Multiples(w), s < t
  PROVE  s + w <= t
<1>1. PICK q \in Nat : s = q * w
  BY DEF Multiples
<1>2. PICK r \in Nat : t = r * w
  BY DEF Multiples
<1>3. q + 1 <= r
  <2>1. r <= q => r * w <= q * w
    OBVIOUS
  <2> QED
    BY <1>1, <1>2, <2>1
<1>4. (q + 1) * w <= r * w
  BY <1>3
<1>5. (q + 1) * w = q * w + w
  OBVIOUS
<1> QED
  BY <1>1, <1>2, <1>4, <1>5

LEMMA NextMultiple ==
  ASSUME NEW w \in Nat, NEW s \in Multiples(w)
  PROVE  s + w \in Multiples(w)
<1>1. PICK q \in Nat : s = q * w
  BY DEF Multiples
<1>2. PICK r \in Nat : r = q + 1
  OBVIOUS
<1>3. r * w = s + w
  BY <1>1, <1>2
<1> QED
  BY <1>3, MultipleOf

(* Where two runs are merged the first one starts. *)
LEMMA TwiceMultiple ==
  ASSUME NEW w \in Nat, NEW s \in Multiples(2 * w)
  PROVE  s \in Multiples(w)
<1>1. PICK q \in Nat : s = q * (2 * w)
  BY DEF Multiples
<1>2. PICK r \in Nat : r = 2 * q
  OBVIOUS
<1>3. r * w = s
  BY <1>1, <1>2
<1> QED
  BY <1>3, MultipleOf
-----------------------------------------------------------------------------
(* The order of the entries *)

Earlier(o, a, b) ==
  IF o.byTime /\ a.time # b.time THEN a.time > b.time ELSE a.name < b.name

(* a comes before b, and a is before b in a stable listing. *)
Comes(o, a, b) == IF o.reverse THEN Earlier(o, b, a) ELSE Earlier(o, a, b)
Lt(o, a, b) == Comes(o, a, b) \/ (~Comes(o, b, a) /\ a.id < b.id)

LEMMA LtTransitive ==
  ASSUME NEW o \in Orders, NEW a \in Entry, NEW b \in Entry, NEW c \in Entry,
         Lt(o, a, b), Lt(o, b, c)
  PROVE  Lt(o, a, c)
<1> USE DEF Orders, Entry
<1>1. CASE o.reverse
  BY <1>1 DEF Lt, Comes, Earlier
<1>2. CASE ~o.reverse
  BY <1>2 DEF Lt, Comes, Earlier
<1> QED
  BY <1>1, <1>2

LEMMA CmpIsOrder ==
  ASSUME NEW a \in Entry, NEW b \in Entry, order \in Orders
  PROVE  Cmp(a, b) <= 0 <=> ~Comes(order, b, a)
<1> USE DEF Orders, Entry
<1>1. CASE order.reverse
  BY <1>1 DEF Cmp, CmpEntry, CmpTime, CmpName, Comes, Earlier
<1>2. CASE ~order.reverse
  BY <1>2 DEF Cmp, CmpEntry, CmpTime, CmpName, Comes, Earlier
<1> QED
  BY <1>1, <1>2

(* Two entries of one run, the left one first, are ordered. *)
Ordered(o, s, a, b) ==
  \A k, m \in (a + 1)..b : k < m => Lt(o, s[k], s[m])
-----------------------------------------------------------------------------
(* The inductive invariant *)

Running == {"pass", "step", "merge"}
N == Len(data)

Shape ==
  /\ TypeOK /\ Len(called) = N /\ N <= MaxLen
  /\ pc \in Running => 1 <= width /\ width < N /\ N <= Len(tmp)
  /\ pc \in {"step", "merge"} =>
       left <= N /\ (left \in Multiples(2 * width) \/ left = N)

(* The two runs that are merged, and what is taken from them.              *)
MergeAt ==
  pc = "merge" =>
    /\ left \in Multiples(2 * width) /\ mid = left + width /\ mid < right
    /\ right = UpTo(mid, width, N)
    /\ left <= i /\ i <= mid /\ mid <= j /\ j <= right
    /\ out = i + j - mid

Taken == (left + 1)..i \cup (mid + 1)..j
Waiting == (i + 1)..mid \cup (j + 1)..right

(* The scratch array holds the entries taken, in order, and they come      *)
(* before those that wait.                                                 *)
MergeOK ==
  pc = "merge" =>
    /\ \A k \in (left + 1)..out : \E m \in Taken : tmp[k] = data[m]
    /\ Ordered(order, tmp, left, out)
    /\ \A k \in (left + 1)..out, m \in Waiting : Lt(order, tmp[k], data[m])

(* Entries of which neither comes first are in the order they had.         *)
Stable ==
  \A k, m \in 1..N : k < m =>
    Lt(order, data[k], data[m]) \/ Comes(order, data[m], data[k])

(* Runs of twice the width to the left, of the width to the right.         *)
RunsOK ==
  /\ pc = "pass" =>
       \A s \in Multiples(width) : s < N => Ordered(order, data, s, UpTo(s, width, N))
  /\ pc \in {"step", "merge"} =>
       /\ \A s \in Multiples(2 * width) :
            s < left => Ordered(order, data, s, UpTo(s, 2 * width, N))
       /\ \A s \in Multiples(width) :
            left <= s /\ s < N => Ordered(order, data, s, UpTo(s, width, N))
  /\ pc = "sorted" => Ordered(order, data, 0, N)

IInv ==
  /\ Shape /\ MergeAt
  /\ MergeOK /\ Permutation
  /\ pc \in Running => Stable
  /\ RunsOK
-----------------------------------------------------------------------------
(* What each action does *)

Calls == \E n \in 0..MaxLen : \E keys \in Entries(n), o \in Orders : Call(keys, o)

LEMMA LengthFits == Shape => N \in Nat /\ N < Word
BY SortAssumption DEF Shape, TypeOK, N

LEMMA CallEffect ==
  ASSUME IInv, Calls
  PROVE  /\ Shape' /\ pc' \in {"sorted", "pass", "failed"}
         /\ called' = data' /\ \A k \in 1..N' : data'[k].id = k
         /\ pc' = "sorted" => N' <= 1
         /\ pc' = "pass" => width' = 1
<1>0. PICK n \in 0..MaxLen : \E keys \in Entries(n), o \in Orders : Call(keys, o)
  BY DEF Calls
<1>1. PICK keys \in Entries(n), o \in Orders : Call(keys, o)
  BY <1>0
<1>2. keys \in [1..n -> Keys] /\ Len(keys) = n /\ n \in Nat
  BY SortAssumption DEF Entries
<1> DEFINE new == [k \in 1..n |-> [time |-> keys[k].time, name |-> keys[k].name, id |-> k]]
<1>3. new \in Seq(Entry) /\ Len(new) = n /\ \A k \in 1..n : new[k].id = k
  <2>1. \A k \in 1..n : [time |-> keys[k].time, name |-> keys[k].name, id |-> k] \in Entry
    BY <1>2, SortAssumption DEF Entry
  <2> QED
    BY <1>2, <2>1
<1>4. data' = new /\ called' = new /\ order' = o /\ UNCHANGED <<range, i, j, out>>
  BY <1>1, <1>2 DEF Call
<1> HIDE DEF new
<1>5. total' \in Nat
  BY <1>1, <1>2 DEF Call, IInv, Shape, TypeOK
<1>6. /\ data' \in Seq(Entry) /\ called' \in Seq(Entry) /\ order' \in Orders
      /\ left' \in Nat /\ mid' \in Nat /\ right' \in Nat
      /\ i' \in Nat /\ j' \in Nat /\ out' \in Nat /\ N' = n /\ n <= MaxLen
  BY <1>3, <1>4, SortAssumption DEF range, IInv, Shape, TypeOK, N
<1>7. tmp \in Seq(Entry \cup {Junk}) /\ width \in 0..(Word - 1)
  BY DEF IInv, Shape, TypeOK
<1>8. CASE n <= 1 /\ pc' = "sorted" /\ UNCHANGED <<tmp, width>>
  BY <1>3, <1>4, <1>5, <1>6, <1>7, <1>8 DEF Shape, TypeOK, Running
<1>9. CASE /\ n > 1 /\ n <= MaxEntries
           /\ tmp' = IF Len(tmp) >= n THEN tmp ELSE [k \in 1..NewCap(n) |-> Junk]
           /\ width' = 1 /\ pc' = "pass"
  <2>1. NewCap(n) \in Nat /\ NewCap(n) >= n
    BY <1>2, NewCapEnough
  <2>2. tmp' \in Seq(Entry \cup {Junk}) /\ Len(tmp') >= n
    <3>1. CASE Len(tmp) >= n
      BY <1>7, <1>9, <3>1
    <3>2. CASE ~(Len(tmp) >= n)
      <4>1. tmp' = [k \in 1..NewCap(n) |-> Junk]
        BY <1>9, <3>2
      <4> HIDE DEF NewCap
      <4>2. [k \in 1..NewCap(n) |-> Junk] \in Seq(Entry \cup {Junk})
        BY <2>1
      <4>3. Len([k \in 1..NewCap(n) |-> Junk]) = NewCap(n)
        BY <2>1
      <4> QED
        BY <2>1, <4>1, <4>2, <4>3
    <3> QED
      BY <3>1, <3>2
  <2>3. width' \in 0..(Word - 1) /\ width' < n /\ width' = 1 /\ pc' = "pass"
    BY <1>2, <1>9, SortAssumption
  <2>4. TypeOK'
    BY <1>5, <1>6, <2>2, <2>3 DEF TypeOK
  <2>5. Len(called') = N'
    BY <1>3, <1>4, <1>6
  <2> QED
    BY <1>3, <1>4, <1>6, <2>2, <2>3, <2>4, <2>5 DEF Shape, Running
<1>10. CASE pc' = "failed" /\ UNCHANGED <<tmp, width>>
  BY <1>3, <1>4, <1>5, <1>6, <1>7, <1>10 DEF Shape, TypeOK, Running
<1> QED
  BY <1>1, <1>2, <1>8, <1>9, <1>10 DEF Call

(* A call establishes the invariant. *)
LEMMA CallIInv ==
  ASSUME IInv, Calls
  PROVE  IInv'
<1>1. /\ Shape' /\ pc' \in {"sorted", "pass", "failed"}
      /\ called' = data' /\ \A k \in 1..N' : data'[k].id = k
      /\ pc' = "sorted" => N' <= 1
      /\ pc' = "pass" => width' = 1
  BY CallEffect
<1>2. N' = Len(data') /\ N' \in Nat
  BY <1>1 DEF Shape, TypeOK, N
<1>3. Permutation'
  BY <1>1, <1>2 DEF Permutation
<1>4. Stable'
  BY <1>1, <1>2 DEF Stable, Lt
<1>5. RunsOK'
  <2>1. pc' = "pass" => \A s \in Nat : Ordered(order', data', s, UpTo(s, width', N'))
    BY <1>1, <1>2 DEF Ordered, UpTo
  <2>2. pc' = "sorted" => Ordered(order', data', 0, N')
    BY <1>1, <1>2 DEF Ordered
  <2> QED
    BY <1>1, <2>1, <2>2 DEF RunsOK, Multiples
<1> QED
  BY <1>1, <1>3, <1>4, <1>5 DEF IInv, MergeAt, MergeOK

LEMMA PassIInv ==
  ASSUME IInv, Pass
  PROVE  IInv'
<1>1. /\ UNCHANGED <<data, tmp, called, order, width, mid, right, i, j, out, total>>
      /\ left' = 0 /\ pc = "pass" /\ pc' = "step"
  BY DEF IInv, Shape, Running, N, Pass
<1>2. N' = N /\ N \in Nat /\ width \in Nat
  BY <1>1 DEF IInv, Shape, TypeOK, N
<1>3. 0 \in Multiples(2 * width)
  BY <1>2, ZeroMultiple
<1>4. Shape'
  BY <1>1, <1>2, <1>3 DEF IInv, Shape, TypeOK, Running
<1>5. RunsOK'
  BY <1>1, <1>2 DEF IInv, RunsOK, Multiples
<1> QED
  BY <1>1, <1>2, <1>4, <1>5 DEF IInv, MergeAt, MergeOK, Permutation, Stable, Running

(* Where the loop goes on, in plain arithmetic. *)
LEMMA NextLeftIs ==
  ASSUME Shape, pc \in {"step", "merge"}
  PROVE  /\ NextLeft = UpTo(left, 2 * width, N)
         /\ GetCap(left, width, N) = UpTo(left, width, N)
         /\ \A m \in Nat : m <= N => GetCap(m, width, N) = UpTo(m, width, N)
<1>1. N \in Nat /\ N < Word /\ width \in Nat /\ left \in Nat /\ left <= N /\ width < N
  BY LengthFits DEF Shape, TypeOK, Running
<1>2. GetCap(width, width, N) = UpTo(width, width, N)
  BY <1>1, GetCapIs
<1>3. UpTo(width, width, N) \in Nat
  BY <1>1 DEF UpTo
<1>4. NextLeft = UpTo(left, UpTo(width, width, N), N)
  BY <1>1, <1>2, <1>3, GetCapIs DEF NextLeft, N
<1> QED
  BY <1>1, <1>4, GetCapIs DEF UpTo

LEMMA StepIInv ==
  ASSUME IInv, Step
  PROVE  IInv'
<1>1. /\ pc = "step" /\ left < N
      /\ UNCHANGED <<data, tmp, called, order, width, total>>
  BY DEF Step, N
<1>2. /\ N' = N /\ N \in Nat /\ width \in Nat /\ left \in Nat
      /\ 1 <= width /\ width < N /\ left \in Multiples(2 * width)
  BY <1>1 DEF IInv, Shape, TypeOK, Running, N
<1>3. mid' = UpTo(left, width, N) /\ mid' \in Nat /\ mid' <= N
  <2>1. mid' = GetCap(left, width, N)
    BY DEF Step, N
  <2> QED
    BY <1>1, <1>2, <2>1, NextLeftIs DEF IInv, UpTo
<1>4. right' = UpTo(mid', width, N) /\ right' \in Nat
  <2>1. right' = GetCap(mid', width, N)
    BY DEF Step, N
  <2> QED
    BY <1>1, <1>2, <1>3, <2>1, NextLeftIs DEF IInv, UpTo
<1>5. CASE mid' < right'
  <2>1. i' = left /\ j' = mid' /\ out' = left /\ pc' = "merge" /\ left' = left
    BY <1>5 DEF Step
  <2>2. mid' = left + width /\ right' <= N
    BY <1>2, <1>3, <1>4, <1>5 DEF UpTo
  <2>3. Shape'
    BY <1>1, <1>2, <1>3, <1>4, <2>1 DEF IInv, Shape, TypeOK, Running
  <2>4. MergeAt'
    BY <1>1, <1>2, <1>3, <1>4, <1>5, <2>1, <2>2 DEF MergeAt
  <2>5. MergeOK'
    BY <1>2, <2>1 DEF MergeOK, Ordered
  <2>6. RunsOK'
    BY <1>1, <1>2, <2>1 DEF IInv, RunsOK
  <2> QED
    BY <1>1, <1>2, <2>1, <2>3, <2>4, <2>5, <2>6 DEF IInv, Permutation, Stable, Running
<1>6. CASE ~(mid' < right')
  <2>1. left + width >= N
    BY <1>2, <1>3, <1>4, <1>6 DEF UpTo
  <2>2. UNCHANGED <<pc, i, j, out>> /\ left' = NextLeft
    BY <1>6 DEF Step
  <2>3. left' = N
    BY <1>1, <1>2, <2>1, <2>2, NextLeftIs DEF IInv, UpTo
  <2>4. Shape'
    BY <1>1, <1>2, <1>3, <1>4, <2>2, <2>3 DEF IInv, Shape, TypeOK, Running
  <2>5. ASSUME NEW s \in Multiples(2 * width), s < N
        PROVE  Ordered(order, data, s, UpTo(s, 2 * width, N))
    <3>0. s \in Nat
      BY DEF Multiples
    <3>1. CASE s < left
      BY <1>1, <3>1 DEF IInv, RunsOK
    <3>2. CASE s = left
      <4>1. left \in Multiples(width)
        BY <1>2, TwiceMultiple
      <4>2. Ordered(order, data, left, UpTo(left, width, N))
        BY <1>1, <1>2, <4>1 DEF IInv, RunsOK
      <4>3. UpTo(left, width, N) = N /\ UpTo(left, 2 * width, N) = N
        BY <1>2, <2>1 DEF UpTo
      <4> QED
        BY <3>2, <4>2, <4>3
    <3>3. CASE s > left
      BY <1>2, <2>1, <2>5, <3>0, <3>3, Apart
    <3> QED
      BY <1>2, <3>0, <3>1, <3>2, <3>3
  <2>6. RunsOK'
    BY <1>1, <1>2, <2>2, <2>3, <2>5 DEF RunsOK, Multiples
  <2> QED
    BY <1>1, <1>2, <2>2, <2>4, <2>6 DEF IInv, MergeAt, MergeOK, Permutation, Stable, Running
<1> QED
  BY <1>5, <1>6

LEMMA PassDoneIInv ==
  ASSUME IInv, PassDone
  PROVE  IInv'
<1>1. /\ pc = "step" /\ left >= N
      /\ UNCHANGED <<data, tmp, called, order, left, mid, right, i, j, out, total>>
  BY DEF PassDone, N, range
<1>2. /\ N' = N /\ N \in Nat /\ N < Word /\ width \in Nat
      /\ 1 <= width /\ width < N /\ left = N
  BY <1>1, LengthFits DEF IInv, Shape, TypeOK, Running, N
<1>3. \A s \in Multiples(2 * width) :
        s < N => Ordered(order, data, s, UpTo(s, 2 * width, N))
  BY <1>1, <1>2 DEF IInv, RunsOK
<1>4. CASE LastPass
  <2>1. pc' = "sorted" /\ width' = width
    BY <1>4 DEF PassDone
  <2>2. UpTo(0, 2 * width, N) = N
    BY <1>2, <1>4 DEF LastPass, UpTo, N
  <2>3. Ordered(order, data, 0, N)
    BY <1>2, <1>3, <2>2, ZeroMultiple
  <2>4. Shape'
    BY <1>1, <1>2, <2>1 DEF IInv, Shape, TypeOK, Running
  <2>5. RunsOK'
    BY <1>1, <1>2, <2>1, <2>3 DEF RunsOK
  <2> QED
    BY <1>1, <1>2, <2>1, <2>4, <2>5 DEF IInv, MergeAt, MergeOK, Permutation, Running
<1>5. CASE ~LastPass
  <2>1. 2 * width < N
    BY <1>2, <1>5 DEF LastPass, N
  <2>2. pc' = "pass"
    BY <1>5 DEF PassDone
  <2>3. width' = 2 * width /\ width' \in 0..(Word - 1)
    <3>1. width' = (width + width) % Word
      BY <1>5 DEF PassDone, Wider
    <3> QED
      BY <1>2, <2>1, <3>1, NoWrap, SortAssumption
  <2>4. Shape'
    BY <1>1, <1>2, <2>1, <2>2, <2>3 DEF IInv, Shape, TypeOK, Running
  <2>5. RunsOK'
    BY <1>1, <1>2, <1>3, <2>2, <2>3 DEF RunsOK
  <2> QED
    BY <1>1, <1>2, <2>2, <2>4, <2>5 DEF IInv, MergeAt, MergeOK, Permutation, Stable, Running
<1> QED
  BY <1>4, <1>5

(* The indices of merge_, the two runs, and the two arrays. *)
LEMMA MergeNumbers ==
  ASSUME IInv, pc = "merge"
  PROVE  /\ N \in Nat /\ left \in Nat /\ mid \in Nat /\ right \in Nat
         /\ i \in Nat /\ j \in Nat /\ out \in Nat
         /\ left <= i /\ i <= mid /\ left < mid /\ mid <= j /\ mid < right
         /\ j <= right /\ right <= N
         /\ out = i + j - mid /\ left <= out /\ out <= right
<1>1. /\ N \in Nat /\ left \in Nat /\ mid \in Nat /\ right \in Nat
      /\ i \in Nat /\ j \in Nat /\ width \in Nat /\ 1 <= width
  BY LengthFits DEF IInv, Shape, TypeOK, Running
<1>2. /\ left <= i /\ i <= mid /\ mid <= j /\ j <= right /\ mid < right
      /\ mid = left + width /\ right = UpTo(mid, width, N) /\ out = i + j - mid
  BY DEF IInv, MergeAt
<1>3. right <= N
  BY <1>1, <1>2 DEF UpTo
<1> QED
  BY <1>1, <1>2, <1>3

LEMMA ScratchFits ==
  ASSUME IInv, pc = "merge"
  PROVE  \E n \in Nat : n = Len(tmp) /\ N <= n
BY DEF IInv, Shape, TypeOK, Running

LEMMA MergeRuns ==
  ASSUME IInv, pc = "merge"
  PROVE  /\ width \in Nat /\ 1 <= width /\ left \in Multiples(2 * width)
         /\ mid = left + width /\ right = UpTo(mid, width, N)
BY DEF IInv, Shape, TypeOK, MergeAt, Running

LEMMA MergeArrays ==
  ASSUME IInv, pc = "merge"
  PROVE  /\ tmp \in Seq(Entry \cup {Junk}) /\ data \in Seq(Entry) /\ order \in Orders
         /\ N = Len(data) /\ N <= Len(tmp) /\ Len(tmp) \in Nat
BY DEF IInv, Shape, TypeOK, Running, N

(* An entry goes to the scratch array, ordered before all that wait. *)
LEMMA TakeIInv ==
  ASSUME IInv, pc = "merge", NEW k \in Nat, Take(k), k < N,
         NEW a \in Nat, NEW b \in Nat, i' = a, j' = b, a + b = i + j + 1,
         a <= mid, b <= right, i <= a, j <= b,
         Taken' = Taken \cup {k + 1}, k + 1 \in Waiting,
         Waiting' \subseteq Waiting,
         \A m \in Waiting' : Lt(order, data[k + 1], data[m])
  PROVE  IInv'
<1>1. UNCHANGED <<data, called, order, pc, width, left, mid, right, total>> /\ N' = N
  BY DEF Take, range, N
<1>2. out' = out + 1 /\ out < right
  BY MergeNumbers DEF Take
<1>3. out + 1 \in 1..Len(tmp) /\ data[k + 1] \in Entry
  <2>1. k + 1 \in 1..Len(data)
    BY MergeArrays, MergeNumbers
  <2>2. PICK n \in Nat : n = Len(tmp) /\ N <= n
    BY ScratchFits
  <2>3. out + 1 \in 1..n
    <3>1. N <= n
      BY <2>2
    <3>2. N \in Nat /\ out \in Nat /\ out + 1 <= N
      BY <1>2, MergeNumbers
    <3> QED
      BY <3>1, <3>2
  <2> QED
    BY <2>1, <2>2, <2>3, MergeArrays
<1>4. /\ tmp' \in Seq(Entry \cup {Junk}) /\ Len(tmp') = Len(tmp)
      /\ \A l \in 1..Len(tmp) : tmp'[l] = IF l = out + 1 THEN data[k + 1] ELSE tmp[l]
  BY <1>3, MergeArrays, ExceptSeq DEF Take
<1>5. Shape'
  <2>1. out' \in Nat
    BY <1>2, MergeNumbers
  <2>2. TypeOK'
    BY <1>1, <1>4, <2>1 DEF IInv, Shape, TypeOK
  <2> QED
    BY <1>1, <1>4, <2>2 DEF IInv, Shape, Running
<1>6. MergeAt'
  <2>1. out' = a + b - mid
    BY <1>2, MergeNumbers
  <2>2. left <= a /\ mid <= b
    BY MergeNumbers
  <2> QED
    BY <1>1, <2>1, <2>2 DEF IInv, MergeAt
<1>7. \A l \in (left + 1)..out : tmp'[l] = tmp[l]
  <2>1. PICK n \in Nat : n = Len(tmp) /\ N <= n
    BY ScratchFits
  <2>2. \A l \in (left + 1)..out : l \in 1..n /\ l # out + 1
    <3>1. N <= n
      BY <2>1
    <3>2. N \in Nat /\ left \in Nat /\ out \in Nat /\ out <= N
      BY <1>2, MergeNumbers
    <3> QED
      BY <3>1, <3>2
  <2> QED
    BY <1>4, <2>1, <2>2
<1>8. tmp'[out + 1] = data[k + 1]
  BY <1>3, <1>4
<1>9. ASSUME NEW l \in (left' + 1)..out'
      PROVE  /\ \E m \in Taken' : tmp'[l] = data'[m]
             /\ \A m \in Waiting' : Lt(order', tmp'[l], data'[m])
  <2>1. CASE l = out + 1
    BY <1>1, <1>8, <2>1
  <2>2. CASE l # out + 1
    <3>1. l \in (left + 1)..out /\ tmp'[l] = tmp[l]
      BY <1>1, <1>2, <1>7, <1>9, <2>2, MergeNumbers
    <3> QED
      BY <1>1, <3>1 DEF IInv, MergeOK
  <2> QED
    BY <2>1, <2>2
<1>10. Ordered(order', tmp', left', out')
  <2> SUFFICES ASSUME NEW l \in (left + 1)..(out + 1), NEW m \in (left + 1)..(out + 1), l < m
               PROVE  Lt(order, tmp'[l], tmp'[m])
    BY <1>1, <1>2 DEF Ordered
  <2>1. l \in (left + 1)..out
    BY MergeNumbers
  <2>2. CASE m = out + 1
    BY <1>7, <1>8, <2>1, <2>2 DEF IInv, MergeOK
  <2>3. CASE m # out + 1
    <3>1. m \in (left + 1)..out
      BY <2>3, MergeNumbers
    <3> QED
      BY <1>7, <2>1, <3>1 DEF IInv, MergeOK, Ordered
  <2> QED
    BY <2>2, <2>3
<1>11. MergeOK'
  BY <1>9, <1>10 DEF MergeOK
<1> QED
  BY <1>1, <1>5, <1>6, <1>11 DEF IInv, Permutation, Stable, RunsOK

(* The two runs are in order as long as they are merged. *)
LEMMA RunsInOrder ==
  ASSUME IInv, pc = "merge"
  PROVE  Ordered(order, data, left, mid) /\ Ordered(order, data, mid, right)
<1>1. left \in Multiples(width) /\ mid \in Multiples(width)
  BY MergeRuns, TwiceMultiple, NextMultiple
<1>2. UpTo(left, width, N) = mid /\ left < N /\ mid < N /\ left <= mid
  BY MergeNumbers, MergeRuns DEF UpTo
<1> QED
  BY <1>1, <1>2, MergeNumbers, MergeRuns DEF IInv, RunsOK

LEMMA TakeLeftIInv ==
  ASSUME IInv, TakeLeft
  PROVE  IInv'
<1>1. pc = "merge" /\ i < mid /\ i' = i + 1 /\ j' = j /\ Take(i) /\ (j < right => LeftFirst)
  BY DEF TakeLeft
<1>2. UNCHANGED <<left, mid, right>>
  BY <1>1 DEF Take, range
<1>3. i + 1 \in 1..N /\ data[i + 1] \in Entry
  BY <1>1, MergeNumbers, MergeArrays
<1>4. ASSUME NEW m \in Waiting' PROVE Lt(order, data[i + 1], data[m])
  <2>1. CASE m \in (i + 2)..mid
    <3>1. i + 1 \in (left + 1)..mid /\ m \in (left + 1)..mid /\ i + 1 < m
      BY <1>1, <2>1, MergeNumbers
    <3> QED
      BY <1>1, <3>1, RunsInOrder DEF Ordered
  <2>2. CASE m \in (j + 1)..right
    <3>1. j < right /\ j + 1 \in 1..N /\ m \in 1..N /\ i + 1 < j + 1
      BY <1>1, <2>2, MergeNumbers
    <3>2. data[j + 1] \in Entry /\ data[m] \in Entry
      BY <1>1, <3>1, MergeArrays
    <3>3. ~Comes(order, data[j + 1], data[i + 1])
      BY <1>1, <1>3, <3>1, <3>2, CmpIsOrder, MergeArrays DEF LeftFirst
    <3>4. Lt(order, data[i + 1], data[j + 1])
      BY <1>1, <1>3, <3>1, <3>3 DEF IInv, Stable, Running
    <3>5. m # j + 1 => Lt(order, data[j + 1], data[m])
      <4>1. j + 1 \in (mid + 1)..right /\ m \in (mid + 1)..right
        BY <1>1, <2>2, MergeNumbers
      <4> QED
        BY <1>1, <2>2, <4>1, RunsInOrder, MergeNumbers DEF Ordered
    <3> QED
      BY <1>1, <1>3, <3>2, <3>4, <3>5, LtTransitive, MergeArrays
  <2>3. Waiting' = (i + 2)..mid \cup (j + 1)..right
    BY <1>1, <1>2, MergeNumbers DEF Waiting
  <2> QED
    BY <2>1, <2>2, <2>3
<1>5. Taken' = Taken \cup {i + 1}
  BY <1>1, <1>2, MergeNumbers DEF Taken
<1>6. i + 1 \in Waiting /\ Waiting' \subseteq Waiting
  BY <1>1, <1>2, MergeNumbers DEF Waiting
<1>7. i' \in Nat /\ j' \in Nat /\ i' + j' = i + j + 1 /\ i' <= mid /\ j' <= right
      /\ i <= i' /\ j <= j' /\ i \in Nat /\ i < N
  BY <1>1, MergeNumbers
<1> QED
  BY <1>1, <1>4, <1>5, <1>6, <1>7, TakeIInv, Zenon

LEMMA TakeRightIInv ==
  ASSUME IInv, TakeRight
  PROVE  IInv'
<1>1. pc = "merge" /\ j < right /\ j' = j + 1 /\ i' = i /\ Take(j) /\ (i < mid => ~LeftFirst)
  BY DEF TakeRight
<1>2. UNCHANGED <<left, mid, right>>
  BY <1>1 DEF Take, range
<1>3. j + 1 \in 1..N /\ data[j + 1] \in Entry
  BY <1>1, MergeNumbers, MergeArrays
<1>4. ASSUME NEW m \in Waiting' PROVE Lt(order, data[j + 1], data[m])
  <2>1. CASE m \in (j + 2)..right
    <3>1. j + 1 \in (mid + 1)..right /\ m \in (mid + 1)..right /\ j + 1 < m
      BY <1>1, <2>1, MergeNumbers
    <3> QED
      BY <1>1, <3>1, RunsInOrder DEF Ordered
  <2>2. CASE m \in (i + 1)..mid
    <3>1. i < mid /\ i + 1 \in 1..N /\ m \in 1..N
      BY <1>1, <2>2, MergeNumbers
    <3>2. data[i + 1] \in Entry /\ data[m] \in Entry
      BY <1>1, <3>1, MergeArrays
    <3>3. Comes(order, data[j + 1], data[i + 1])
      BY <1>1, <1>3, <3>1, <3>2, CmpIsOrder, MergeArrays DEF LeftFirst
    <3>4. Lt(order, data[j + 1], data[i + 1])
      BY <3>3 DEF Lt
    <3>5. m # i + 1 => Lt(order, data[i + 1], data[m])
      <4>1. i + 1 \in (left + 1)..mid /\ m \in (left + 1)..mid
        BY <1>1, <2>2, MergeNumbers
      <4> QED
        BY <1>1, <2>2, <4>1, RunsInOrder, MergeNumbers DEF Ordered
    <3> QED
      BY <1>1, <1>3, <3>2, <3>4, <3>5, LtTransitive, MergeArrays
  <2>3. Waiting' = (j + 2)..right \cup (i + 1)..mid
    BY <1>1, <1>2, MergeNumbers DEF Waiting
  <2> QED
    BY <2>1, <2>2, <2>3
<1>5. Taken' = Taken \cup {j + 1}
  <2>1. (mid + 1)..(j + 1) = (mid + 1)..j \cup {j + 1}
    BY MergeNumbers, <1>1
  <2> QED
    BY <1>1, <1>2, <2>1 DEF Taken
<1>6. j + 1 \in Waiting /\ Waiting' \subseteq Waiting
  BY <1>1, <1>2, MergeNumbers DEF Waiting
<1>7. i' \in Nat /\ j' \in Nat /\ i' + j' = i + j + 1 /\ i' <= mid /\ j' <= right
      /\ i <= i' /\ j <= j' /\ j \in Nat /\ j < N
  BY <1>1, MergeNumbers
<1> QED
  BY <1>1, <1>4, <1>5, <1>6, <1>7, TakeIInv, Zenon

LEMMA LtIrreflexive ==
  ASSUME NEW o \in Orders, NEW a \in Entry
  PROVE  ~Lt(o, a, a)
<1> USE DEF Orders, Entry
<1>1. CASE o.reverse
  BY <1>1 DEF Lt, Comes, Earlier
<1>2. CASE ~o.reverse
  BY <1>2 DEF Lt, Comes, Earlier
<1> QED
  BY <1>1, <1>2

(* What merge_ copies back. *)
LEMMA MergeDoneEffect ==
  ASSUME IInv, MergeDone
  PROVE  /\ UNCHANGED <<tmp, called, order, width, mid, right, i, j, out, total>>
         /\ pc = "merge" /\ pc' = "step" /\ left' = right
         /\ data' \in Seq(Entry) /\ N' = N
         /\ \A k \in (left + 1)..right : data'[k] = tmp[k]
         /\ \A k \in 1..N : k \notin (left + 1)..right => data'[k] = data[k]
         /\ \A k \in (left + 1)..right : \E m \in (left + 1)..right : tmp[k] = data[m]
         /\ Ordered(order, tmp, left, right)
<1>1. /\ UNCHANGED <<tmp, called, order, width, mid, right, i, j, out, total>>
      /\ pc = "merge" /\ pc' = "step" /\ left' = NextLeft
      /\ i >= mid /\ j >= right
  BY DEF MergeDone
<1>2. i = mid /\ j = right /\ out = right
  BY <1>1, MergeNumbers
<1>3. left' = right
  <2>1. NextLeft = UpTo(left, 2 * width, N)
    BY <1>1, NextLeftIs DEF IInv
  <2>2. UpTo(left, 2 * width, N) = right
    BY <1>1, MergeNumbers, MergeRuns DEF UpTo
  <2> QED
    BY <1>1, <2>1, <2>2
<1>4. \A k \in (left + 1)..right : \E m \in (left + 1)..right : tmp[k] = data[m]
  <2>1. Taken \subseteq (left + 1)..right
    BY <1>1, <1>2, MergeNumbers DEF Taken
  <2> QED
    BY <1>1, <1>2, <2>1 DEF IInv, MergeOK
<1>5. Ordered(order, tmp, left, right)
  BY <1>1, <1>2 DEF IInv, MergeOK
<1>6. (left + 1)..right \subseteq 1..N /\ N \in Nat
  BY <1>1, MergeNumbers
<1>7. data' = [k \in 1..N |-> IF k \in (left + 1)..right THEN tmp[k] ELSE data[k]]
  <2>1. \A k \in 1..N : Copied(k) <=> k \in (left + 1)..right
    BY <1>1, MergeNumbers DEF Copied
  <2> QED
    BY <2>1 DEF MergeDone, N
<1>8. \A k \in 1..N : (IF k \in (left + 1)..right THEN tmp[k] ELSE data[k]) \in Entry
  BY <1>1, <1>4, <1>6, MergeArrays
<1>9. data' \in Seq(Entry) /\ Len(data') = N
  BY <1>6, <1>7, <1>8
<1> QED
  BY <1>1, <1>3, <1>4, <1>5, <1>6, <1>7, <1>9 DEF N

LEMMA MergeDoneIInv ==
  ASSUME IInv, MergeDone
  PROVE  IInv'
<1>1. /\ UNCHANGED <<tmp, called, order, width, mid, right, i, j, out, total>>
      /\ pc = "merge" /\ pc' = "step" /\ left' = right
      /\ data' \in Seq(Entry) /\ N' = N
  BY MergeDoneEffect
<1>2. /\ \A k \in (left + 1)..right : data'[k] = tmp[k]
      /\ \A k \in 1..N : k \notin (left + 1)..right => data'[k] = data[k]
  BY MergeDoneEffect
<1>3. \A k \in (left + 1)..right : \E m \in (left + 1)..right : tmp[k] = data[m]
  BY MergeDoneEffect
<1>4. Ordered(order, tmp, left, right)
  BY MergeDoneEffect
<1>5. Shape'
  <2>1. right \in Multiples(2 * width) \/ right = N
    <3>1. right = left + 2 * width \/ right = N
      BY <1>1, MergeNumbers, MergeRuns DEF UpTo
    <3>2. left + 2 * width \in Multiples(2 * width)
      BY <1>1, MergeRuns, NextMultiple
    <3> QED
      BY <3>1, <3>2
  <2>2. right \in Nat /\ right <= N
    BY <1>1, MergeNumbers
  <2>3. TypeOK'
    BY <1>1, <2>2 DEF IInv, Shape, TypeOK
  <2> QED
    BY <1>1, <2>1, <2>2, <2>3 DEF IInv, Shape, Running
<1>6. (left + 1)..right \subseteq 1..N /\ N \in Nat
  BY <1>1, MergeNumbers
<1>7. \A k \in 1..N : data[k] \in Entry
  BY <1>1, MergeArrays
<1>8. Permutation'
  <2>1. Len(data') = Len(called')
    BY <1>1 DEF IInv, Shape, N
  <2>2. ASSUME NEW k \in 1..N
        PROVE  \E m \in 1..N : /\ data'[k] = data[m]
                               /\ m \in (left + 1)..right <=> k \in (left + 1)..right
    BY <1>2, <1>3, <1>6
  <2>3. \A k \in 1..N : data'[k] \in {called[m] : m \in 1..Len(called)}
    BY <2>2 DEF IInv, Permutation, N
  <2>4. ASSUME NEW k \in 1..N, NEW m \in 1..N, data'[k].id = data'[m].id, k < m
        PROVE  FALSE
    <3>1. PICK p \in 1..N : /\ data'[k] = data[p]
                            /\ p \in (left + 1)..right <=> k \in (left + 1)..right
      BY <2>2
    <3>2. PICK q \in 1..N : /\ data'[m] = data[q]
                            /\ q \in (left + 1)..right <=> m \in (left + 1)..right
      BY <2>2
    <3>3. p = q
      BY <2>4, <3>1, <3>2 DEF IInv, Permutation, N
    <3>4. CASE k \in (left + 1)..right
      <4>1. m \in (left + 1)..right
        BY <3>1, <3>2, <3>3, <3>4
      <4>2. Lt(order, tmp[k], tmp[m])
        BY <1>4, <2>4, <3>4, <4>1 DEF Ordered
      <4>3. tmp[k] = data[p] /\ tmp[m] = data[p] /\ data[p] \in Entry /\ order \in Orders
        BY <1>1, <1>2, <1>7, <3>1, <3>2, <3>3, <3>4, <4>1, MergeArrays
      <4> QED
        BY <4>2, <4>3, LtIrreflexive
    <3>5. CASE k \notin (left + 1)..right
      <4>1. m \notin (left + 1)..right
        BY <3>1, <3>2, <3>3, <3>5
      <4>2. data'[k] = data[k] /\ data'[m] = data[m]
        BY <1>2, <3>5, <4>1
      <4>3. k = m
        BY <2>4, <4>2 DEF IInv, Permutation, N
      <4> QED
        BY <2>4, <4>3
    <3> QED
      BY <3>4, <3>5
  <2>5. \A k, m \in 1..N : data'[k].id = data'[m].id => k = m
    <3> SUFFICES ASSUME NEW k \in 1..N, NEW m \in 1..N, data'[k].id = data'[m].id, k # m
                 PROVE  FALSE
      OBVIOUS
    <3>1. k < m \/ m < k
      BY <1>6
    <3> QED
      BY <2>4, <3>1
  <2> QED
    BY <1>1, <2>1, <2>3, <2>5 DEF Permutation, N
<1>9. Stable'
  <2> SUFFICES ASSUME NEW k \in 1..N, NEW m \in 1..N, k < m
               PROVE  Lt(order, data'[k], data'[m]) \/ Comes(order, data'[m], data'[k])
    BY <1>1 DEF Stable
  <2>0. \A p, q \in 1..N : p < q => Lt(order, data[p], data[q]) \/ Comes(order, data[q], data[p])
    BY <1>1 DEF IInv, Stable, Running
  <2>n. left \in Nat /\ right \in Nat /\ N \in Nat
    BY <1>1, MergeNumbers
  <2>1. CASE k \in (left + 1)..right /\ m \in (left + 1)..right
    BY <1>2, <1>4, <2>1 DEF Ordered
  <2>2. CASE k \in (left + 1)..right /\ m \notin (left + 1)..right
    <3>1. PICK p \in (left + 1)..right : tmp[k] = data[p]
      BY <1>3, <2>2
    <3>2. p < m /\ p \in 1..N
      BY <1>6, <2>2, <2>n
    <3> QED
      BY <1>2, <2>0, <2>2, <3>1, <3>2
  <2>3. CASE k \notin (left + 1)..right /\ m \in (left + 1)..right
    <3>1. PICK p \in (left + 1)..right : tmp[m] = data[p]
      BY <1>3, <2>3
    <3>2. k < p /\ p \in 1..N
      BY <1>6, <2>3, <2>n
    <3> QED
      BY <1>2, <2>0, <2>3, <3>1, <3>2
  <2>4. CASE k \notin (left + 1)..right /\ m \notin (left + 1)..right
    BY <1>2, <2>0, <2>4
  <2> QED
    BY <2>1, <2>2, <2>3, <2>4
<1>10. RunsOK'
  <2>n. /\ left \in Nat /\ right \in Nat /\ N \in Nat /\ width \in Nat
        /\ left < right /\ right <= N /\ 2 * width \in Nat
        /\ left \in Multiples(2 * width) /\ right = UpTo(left, 2 * width, N)
    <3>1. /\ left \in Nat /\ right \in Nat /\ N \in Nat
          /\ left < right /\ right <= N
      BY <1>1, MergeNumbers
    <3>2. /\ width \in Nat /\ left \in Multiples(2 * width)
          /\ right = UpTo(left + width, width, N)
      BY <1>1, MergeRuns
    <3>3. right = UpTo(left, 2 * width, N)
      BY <3>1, <3>2 DEF UpTo
    <3> QED
      BY <3>1, <3>2, <3>3
  <2>0. ASSUME NEW a \in Nat, NEW b \in Nat, b <= N, b <= left \/ right <= a,
               Ordered(order, data, a, b)
        PROVE  Ordered(order, data', a, b)
    <3>1. \A k \in (a + 1)..b : k \in 1..N /\ k \notin (left + 1)..right
      BY <2>n, <2>0
    <3> QED
      BY <1>2, <2>0, <3>1 DEF Ordered
  <2>1. ASSUME NEW s \in Multiples(2 * width), s < right
        PROVE  Ordered(order, data', s, UpTo(s, 2 * width, N))
    <3>0. s \in Nat
      BY DEF Multiples
    <3>1. CASE s < left
      <4>1. s + 2 * width <= left
        BY <2>n, <3>1, Apart
      <4>2. UpTo(s, 2 * width, N) = s + 2 * width
        BY <2>n, <3>0, <4>1 DEF UpTo
      <4>3. Ordered(order, data, s, UpTo(s, 2 * width, N))
        BY <1>1, <3>1 DEF IInv, RunsOK
      <4> QED
        BY <2>n, <2>0, <3>0, <4>1, <4>2, <4>3
    <3>2. CASE s = left
      BY <1>2, <1>4, <2>n, <3>2 DEF Ordered
    <3>3. CASE s > left
      <4>1. left + 2 * width <= s
        BY <2>n, <3>0, <3>3, Apart
      <4> QED
        BY <2>n, <2>1, <3>0, <4>1 DEF UpTo
    <3> QED
      BY <2>n, <3>0, <3>1, <3>2, <3>3
  <2>2. ASSUME NEW s \in Multiples(width), right <= s, s < N
        PROVE  Ordered(order, data', s, UpTo(s, width, N))
    <3>0. s \in Nat /\ left <= s
      BY <2>n, <2>2 DEF Multiples
    <3>1. Ordered(order, data, s, UpTo(s, width, N))
      BY <1>1, <2>2, <3>0 DEF IInv, RunsOK
    <3>2. UpTo(s, width, N) \in Nat /\ UpTo(s, width, N) <= N
      BY <2>n, <3>0 DEF UpTo
    <3> QED
      BY <2>0, <2>2, <3>0, <3>1, <3>2
  <2> QED
    BY <1>1, <2>1, <2>2 DEF RunsOK
<1> QED
  BY <1>1, <1>5, <1>8, <1>9, <1>10 DEF IInv, MergeAt, MergeOK
-----------------------------------------------------------------------------
LEMMA InitIInv == Init => IInv
<1> SUFFICES ASSUME Init PROVE IInv
  OBVIOUS
<1>1. /\ data = << >> /\ tmp = << >> /\ called = << >> /\ pc = "idle"
      /\ order = [reverse |-> FALSE, byTime |-> FALSE]
      /\ width = 0 /\ left = 0 /\ mid = 0 /\ right = 0
      /\ i = 0 /\ j = 0 /\ out = 0 /\ total = 0
  BY DEF Init
<1>2. order \in Orders
  BY <1>1, Zenon DEF Orders
<1>3. width \in 0..(Word - 1)
  BY <1>1, SortAssumption
<1>4. Len(data) = 0 /\ Len(called) = 0
  BY <1>1
<1>5. TypeOK
  BY <1>1, <1>2, <1>3 DEF TypeOK
<1>6. Shape
  BY <1>1, <1>4, <1>5, SortAssumption DEF Shape, Running, N
<1> QED
  BY <1>1, <1>4, <1>6 DEF IInv, MergeAt, MergeOK, Permutation, RunsOK, Running

LEMMA NextIInv == IInv /\ [Next]_vars => IInv'
<1> SUFFICES ASSUME IInv, [Next]_vars PROVE IInv'
  OBVIOUS
<1>1. CASE Calls
  BY <1>1, CallIInv
<1>2. CASE Pass
  BY <1>2, PassIInv
<1>3. CASE Step
  BY <1>3, StepIInv
<1>4. CASE PassDone
  BY <1>4, PassDoneIInv
<1>5. CASE TakeLeft
  BY <1>5, TakeLeftIInv
<1>6. CASE TakeRight
  BY <1>6, TakeRightIInv
<1>7. CASE MergeDone
  BY <1>7, MergeDoneIInv
<1>8. CASE UNCHANGED vars
  <2>1. UNCHANGED <<data, tmp, called, order, pc, width, left, mid, right, i, j, out, total>>
    BY <1>8 DEF vars, range
  <2>2. N' = N /\ Taken' = Taken /\ Waiting' = Waiting
    BY <2>1 DEF N, Taken, Waiting
  <2>3. Shape'
    BY <2>1, <2>2 DEF IInv, Shape, TypeOK
  <2>4. MergeAt' /\ MergeOK'
    BY <2>1, <2>2 DEF IInv, MergeAt, MergeOK
  <2>5. Permutation' /\ RunsOK'
    BY <2>1, <2>2 DEF IInv, Permutation, RunsOK
  <2>6. pc' \in Running => Stable'
    BY <2>1, <2>2 DEF IInv, Stable
  <2> QED
    BY <2>3, <2>4, <2>5, <2>6 DEF IInv
<1> QED
  BY <1>1, <1>2, <1>3, <1>4, <1>5, <1>6, <1>7, <1>8 DEF Next, Calls

LEMMA InvariantHolds == Spec => []IInv
<1>1. QED
  BY InitIInv, NextIInv, PTL DEF Spec

(* For every number of entries: merge_ stays within its two runs and the   *)
(* scratch array, whichever earlier call allocated it.                     *)
THEOREM WithinScratch == Spec => []InScratch
<1>1. ASSUME IInv PROVE InScratch
  <2>1. TypeOK
    BY <1>1 DEF IInv, Shape
  <2>2. CASE pc = "merge"
    <3>1. out - left = (i - left) + (j - mid) /\ right <= Len(data) /\ left <= i /\ i <= mid
          /\ mid <= j /\ j <= right
      BY <1>1, <2>2, MergeNumbers DEF N
    <3>2. Len(data) <= Len(tmp)
      BY <1>1, <2>2, MergeArrays DEF N
    <3> QED
      BY <2>1, <2>2, <3>1, <3>2 DEF InScratch
  <2> QED
    BY <2>1, <2>2 DEF InScratch
<1>2. QED
  BY <1>1, InvariantHolds, PTL

(* No entry is lost or doubled by any merge, nor by a scratch array that   *)
(* still holds the entries of an earlier call.                             *)
THEOREM EntriesKept == Spec => []Permutation
<1>1. IInv => Permutation
  BY DEF IInv
<1>2. QED
  BY <1>1, InvariantHolds, PTL

(* Arrays of every length are sorted stably in the order the options ask   *)
(* for.                                                                    *)
THEOREM SortedStably == Spec => []InListingOrder
<1>1. ASSUME IInv, pc = "sorted", NEW k \in 1..N, NEW m \in 1..N, k < m
      PROVE  LET a == IF order.reverse THEN data[m] ELSE data[k]
                 b == IF order.reverse THEN data[k] ELSE data[m]
             IN  First(a, b) \/ (~First(b, a) /\ data[k].id < data[m].id)
  <2>1. Lt(order, data[k], data[m])
    <3>1. N \in Nat
      BY <1>1, LengthFits DEF IInv
    <3> QED
      BY <1>1, <3>1 DEF IInv, RunsOK, Ordered
  <2>2. \A a, b : First(a, b) <=> Earlier(order, a, b)
    BY DEF First, Earlier
  <2> QED
    BY <2>1, <2>2 DEF Lt, Comes
<1>2. IInv => InListingOrder
  BY <1>1 DEF InListingOrder, N
<1>3. QED
  BY <1>2, InvariantHolds, PTL
=============================================================================
