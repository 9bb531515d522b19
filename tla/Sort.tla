-------------------------------- MODULE Sort --------------------------------
(***************************************************************************)
(* The bottom-up merge sort of src/src/ft_sort.c and its scratch array,    *)
(* which the calls of one run share and which grows on demand.             *)
(*                                                                         *)
(* An entry is what the comparators read of it: its time (mtime, or atime  *)
(* with -u; a larger number is later), its name (names are numbered in     *)
(* byte order) and, for the properties alone, its position when sort was   *)
(* called.  The indices of the code start at 0, so data[k] of the code is  *)
(* data[k + 1] here.  uint64_t arithmetic is modulo Word.                  *)
(***************************************************************************)
EXTENDS Integers, Sequences

CONSTANTS
  Keys,       \* the pairs of time and name an entry can have
  MaxLen,     \* bound on the length of an array
  MaxTotal,   \* bound on the entries sorted in all calls
  Word,       \* the number of values of a uint64_t
  MaxEntries, \* max_len of ensure_sort_scratch_
  Junk        \* the value of memory malloc has just returned

ASSUME SortAssumption ==
  /\ Keys \subseteq [time : Int, name : Int]
  /\ MaxLen \in Nat /\ MaxTotal \in Nat /\ Word \in Nat
  /\ MaxEntries \in Nat \ {0}
  /\ MaxLen < Word

VARIABLES
  data,   \* array->data
  tmp,    \* scratch->data, as long as scratch->cap
  called, \* auxiliary: the array as it was when sort was called
  order,  \* what selects the comparator
  pc,     \* "idle", "pass", "step", "merge", "sorted" or "failed"
  width, left, mid, right, \* of merge_sort_
  i, j, out,               \* of merge_
  total   \* entries sorted so far

range == <<left, mid, right>>
vars == <<data, tmp, called, order, pc, width, range, i, j, out, total>>

Entries(n) == [1..n -> Keys]
Entry == [time : Int, name : Int, id : Nat]
Orders == [reverse : BOOLEAN, byTime : BOOLEAN]

Init ==
  /\ data = << >> /\ tmp = << >> /\ called = << >>
  /\ order = [reverse |-> FALSE, byTime |-> FALSE]
  /\ pc = "idle"
  /\ width = 0 /\ left = 0 /\ mid = 0 /\ right = 0
  /\ i = 0 /\ j = 0 /\ out = 0
  /\ total = 0

(* compare_ and compare_time_: negative, zero or positive.                 *)
CmpName(a, b) == a.name - b.name
CmpTime(a, b) == a.time - b.time

(* Mutant of CmpEntry: the oldest entry comes first.                       *)
CmpOldestFirst(a, b) ==
  IF order.byTime /\ CmpTime(a, b) # 0 THEN CmpTime(a, b) ELSE CmpName(a, b)

(* cmp_name_entry_, cmp_time_entry_, cmp_atime_entry_.                     *)
CmpEntry(a, b) ==
  IF order.byTime /\ CmpTime(a, b) # 0 THEN - CmpTime(a, b) ELSE CmpName(a, b)

(* The comparator sort selects.                                            *)
Cmp(a, b) == IF order.reverse THEN CmpEntry(b, a) ELSE CmpEntry(a, b)

(* get_cap_: lhs + rhs, at most cap, without overflow.                     *)
GetCap(lhs, rhs, cap) ==
  IF lhs >= cap \/ rhs >= cap - lhs THEN cap ELSE (lhs + rhs) % Word

(* Mutant of NewCap: the capacity doubles once at most.                    *)
NewCapDoubled(need) == IF tmp = << >> THEN 1 ELSE 2 * Len(tmp)

(* new_cap of ensure_sort_scratch_: the capacity is doubled until it is    *)
(* enough, or set to what is needed if it could not be doubled.            *)
NewCap(need) ==
  LET start == IF tmp = << >> THEN 1 ELSE Len(tmp)
      doubled == {c \in need..(2 * need - 1) : \E k \in 0..need : c = start * 2^k}
      allowed == {c \in doubled : c <= MaxEntries}
  IN  IF allowed = {} THEN need ELSE CHOOSE c \in allowed : TRUE

(* A call of sort; an array of at most one entry is sorted.                *)
Call(keys, o) ==
  /\ pc \in {"idle", "sorted", "failed"}
  /\ total + Len(keys) <= MaxTotal
  /\ total' = total + Len(keys)
  /\ data' = [k \in 1..Len(keys) |->
                [time |-> keys[k].time, name |-> keys[k].name, id |-> k]]
  /\ called' = data'
  /\ order' = o
  /\ \/ /\ Len(keys) <= 1
        /\ pc' = "sorted"
        /\ UNCHANGED <<tmp, width>>
     \/ /\ Len(keys) > 1 /\ Len(keys) <= MaxEntries
        /\ tmp' = IF Len(tmp) >= Len(keys) THEN tmp
                  ELSE [k \in 1..NewCap(Len(keys)) |-> Junk]
        /\ width' = 1
        /\ pc' = "pass"
     \/ /\ Len(keys) > MaxEntries \/ (Len(keys) > 1 /\ Len(tmp) < Len(keys))
        /\ pc' = "failed"
        /\ UNCHANGED <<tmp, width>>
  /\ UNCHANGED <<range, i, j, out>>

(* merge_sort_: a pass over the runs of `width` entries begins.            *)
Pass ==
  /\ pc = "pass"
  /\ left' = 0
  /\ pc' = IF width < Len(data) THEN "step" ELSE "sorted"
  /\ UNCHANGED <<data, tmp, called, order, width, mid, right, i, j, out, total>>

NextLeft == GetCap(left, GetCap(width, width, Len(data)), Len(data))

(* Two neighbouring runs; a run without neighbour stays as it is.          *)
Step ==
  /\ pc = "step" /\ left < Len(data)
  /\ mid' = GetCap(left, width, Len(data))
  /\ right' = GetCap(mid', width, Len(data))
  /\ IF mid' < right'
     THEN /\ i' = left /\ j' = mid' /\ out' = left
          /\ pc' = "merge"
          /\ UNCHANGED left
     ELSE left' = NextLeft /\ UNCHANGED <<pc, i, j, out>>
  /\ UNCHANGED <<data, tmp, called, order, width, total>>

(* The widths that are not doubled any more.                               *)
LastPass == width >= Len(data) - width

(* Mutant of Wider: the width of a run is not doubled.                     *)
WiderNot == width

Wider == (width + width) % Word

PassDone ==
  /\ pc = "step" /\ left >= Len(data)
  /\ IF LastPass
     THEN pc' = "sorted" /\ UNCHANGED width
     ELSE pc' = "pass" /\ width' = Wider
  /\ UNCHANGED <<data, tmp, called, order, range, i, j, out, total>>

(* Mutant of LeftFirst: equal entries change places.                       *)
LeftFirstUnstable == Cmp(data[i + 1], data[j + 1]) < 0

(* Of two entries merge_ takes the left one unless it is greater.          *)
LeftFirst == Cmp(data[i + 1], data[j + 1]) <= 0

(* tmp[out++] = data[k], at most once per entry of the two runs.           *)
Take(k) ==
  /\ tmp' = [tmp EXCEPT ![out + 1] = data[k + 1]]
  /\ out' = out + 1
  /\ UNCHANGED <<data, called, order, pc, width, range, total>>

TakeLeft ==
  /\ pc = "merge" /\ i < mid
  /\ j < right => LeftFirst
  /\ Take(i)
  /\ i' = i + 1 /\ UNCHANGED j

TakeRight ==
  /\ pc = "merge" /\ j < right
  /\ i < mid => ~LeftFirst
  /\ Take(j)
  /\ j' = j + 1 /\ UNCHANGED i

(* Mutant of Copied: the copy starts one entry late.                       *)
CopiedLate(k) == k > left + 1 /\ k <= right

(* The entries merge_ copies back.                                         *)
Copied(k) == k > left /\ k <= right

MergeDone ==
  /\ pc = "merge" /\ i >= mid /\ j >= right
  /\ data' = [k \in 1..Len(data) |-> IF Copied(k) THEN tmp[k] ELSE data[k]]
  /\ left' = NextLeft
  /\ pc' = "step"
  /\ UNCHANGED <<tmp, called, order, width, mid, right, i, j, out, total>>

Next ==
  \/ \E n \in 0..MaxLen : \E keys \in Entries(n), o \in Orders : Call(keys, o)
  \/ Pass \/ Step \/ PassDone
  \/ TakeLeft \/ TakeRight \/ MergeDone

Spec == Init /\ [][Next]_vars

(* A call of sort is not abandoned half-way.                               *)
FairSpec ==
  Spec /\ WF_vars(Pass) /\ WF_vars(Step) /\ WF_vars(PassDone)
       /\ WF_vars(TakeLeft) /\ WF_vars(TakeRight) /\ WF_vars(MergeDone)
-----------------------------------------------------------------------------
(* The types of the variables.                                             *)
TypeOK ==
  /\ data \in Seq(Entry) /\ called \in Seq(Entry)
  /\ tmp \in Seq(Entry \cup {Junk})
  /\ order \in Orders
  /\ pc \in {"idle", "pass", "step", "merge", "sorted", "failed"}
  /\ width \in 0..(Word - 1)
  /\ left \in Nat /\ mid \in Nat /\ right \in Nat
  /\ i \in Nat /\ j \in Nat /\ out \in Nat
  /\ total \in Nat

(* merge_ never reads or writes outside the two runs, the runs lie in the  *)
(* array and the array fits the scratch (ft_sort.c:67, :117): tmp[out++]   *)
(* stays below scratch->cap, whichever call made it grow.                  *)
InScratch ==
  /\ TypeOK
  /\ pc = "merge" =>
       /\ left <= i /\ i <= mid /\ mid <= j /\ j <= right
       /\ right <= Len(data) /\ Len(data) <= Len(tmp)
       /\ out - left = (i - left) + (j - mid)

(* Between two merges the array is a permutation of what it was: no entry  *)
(* is lost or doubled, no stale pointer of the scratch array gets in.      *)
Permutation ==
  /\ Len(data) = Len(called)
  /\ \A k \in 1..Len(data) : data[k] \in {called[m] : m \in 1..Len(called)}
  /\ \A k, m \in 1..Len(data) : data[k].id = data[m].id => k = m

(* With -t or -u the latest entry comes first, with -r the last of the     *)
(* names or the earliest time (README.md:15); entries of which neither     *)
(* comes first keep the order they had.                                    *)
First(a, b) ==
  IF order.byTime /\ a.time # b.time THEN a.time > b.time ELSE a.name < b.name
InListingOrder ==
  pc = "sorted" =>
    \A k, m \in 1..Len(data) : k < m =>
      LET a == IF order.reverse THEN data[m] ELSE data[k]
          b == IF order.reverse THEN data[k] ELSE data[m]
      IN  First(a, b) \/ (~First(b, a) /\ data[k].id < data[m].id)

(* sort ends: every round of merge_ takes an entry, every merge moves left *)
(* on and every pass doubles the width until one merge has covered the     *)
(* array (ft_sort.c:92).                                                   *)
Returns == pc \in {"pass", "step", "merge"} ~> pc = "sorted"
=============================================================================
