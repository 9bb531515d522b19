------------------------------ MODULE DynArray ------------------------------
(***************************************************************************)
(* The array of pointers of src/src/ft_array.c, which serves as stack      *)
(* (dir_queue), list (current_entries, operand_files) and command line:    *)
(* its memory and operations, which Entries calls.  Places beyond the      *)
(* length keep what they held, which may have been freed.  Indices start   *)
(* at 0 in the code and at 1 here.                                         *)
(***************************************************************************)
EXTENDS Naturals, Sequences, SequencesExt, FiniteSets

CONSTANTS
  Word,      \* uint64_t is 0..Word - 1
  MaxAlloc   \* MAX_ALLOC_SIZE

ASSUME ArrayAssumption ==
  Word \in Nat \ {0} /\ MaxAlloc \in Nat \ {0} /\ MaxAlloc < Word

VARIABLES
  data,         \* data[1 .. cap]
  len, cap,     \* len, cap
  left, right,  \* the indices of array_reverse, 0 when it is not running
  content       \* auxiliary: the sequence the array stands for

storage == <<data, cap>>
reversal == <<left, right>>
arrayVars == <<storage, reversal, len, content>>

Junk == 0
Idle == left = 0
Items == {data[i] : i \in 1..len}

(* malloc of n pointers.                                                   *)
Fresh(n) == [i \in 1..n |-> Junk]

ArrayInit ==
  /\ cap \in 1..MaxAlloc /\ data = Fresh(cap)
  /\ len = 0 /\ left = 0 /\ right = 0 /\ content = << >>

NewCap(c) ==
  LET twice == IF c = 0 THEN 1 ELSE (2 * c) % Word
  IN  IF twice < c \/ twice > MaxAlloc THEN MaxAlloc ELSE twice

(* Mutant of Grown: the old contents are not copied.                       *)
GrownEmpty == Fresh(NewCap(cap))

(* realloc_arr_: new memory that begins with the old contents.             *)
Grown == SubSeq(data, 1, len) \o Fresh(NewCap(cap) - len)

ArrayAppend(item) ==
  /\ Idle
  /\ IF len < cap
     THEN data' = [data EXCEPT ![len + 1] = item] /\ UNCHANGED cap
     ELSE /\ cap < MaxAlloc
          /\ cap' = NewCap(cap)
          /\ data' = [Grown EXCEPT ![len + 1] = item]
  /\ len' = len + 1
  /\ content' = Append(content, item)
  /\ UNCHANGED reversal

(* The array is full, and there is no memory or the limit is reached.      *)
AppendRefused == Idle /\ len = cap /\ UNCHANGED arrayVars

(* array_pop, whose callers look at the length first.                      *)
ArrayPop ==
  /\ Idle /\ len > 0
  /\ len' = len - 1 /\ content' = Front(content)
  /\ UNCHANGED <<storage, reversal>>

(* array_clear, array_clear_with                                           *)
ArrayClear ==
  /\ Idle
  /\ len' = 0 /\ content' = << >>
  /\ UNCHANGED <<storage, reversal>>

ArrayDestroy ==
  /\ Idle
  /\ data' = << >> /\ len' = 0 /\ cap' = 0 /\ content' = << >>
  /\ UNCHANGED reversal

(* array_reverse: the start of its loop, its rounds, and its end.          *)
ArrayReverse ==
  /\ Idle
  /\ left' = 1 /\ right' = len + 1
  /\ content' = Reverse(content)
  /\ UNCHANGED <<storage, len>>

(* Mutant of Partner: the index is decremented once too often.             *)
PartnerBefore == IF right - 2 < left THEN left ELSE right - 2

Partner == right - 1

Swap ==
  /\ ~Idle /\ left < right
  /\ data' = [data EXCEPT ![left] = data[Partner], ![Partner] = data[left]]
  /\ left' = left + 1 /\ right' = right - 1
  /\ UNCHANGED <<len, cap, content>>

ReverseDone ==
  /\ ~Idle /\ left >= right
  /\ left' = 0 /\ right' = 0
  /\ UNCHANGED <<storage, len, content>>

ArrayTypeOK ==
  /\ cap \in 0..MaxAlloc /\ len \in 0..cap /\ DOMAIN data = 1..cap
  /\ left \in 0..(len + 1) /\ right \in 0..(len + 1)

(* Growth up to the limit, pops, clears and reversals in any order keep    *)
(* the sequence that was stored: the stack of directories and the order of *)
(* the operands depend on it (ft_array.c:104, :40).                        *)
SameSequence == Idle => SubSeq(data, 1, len) = content
=============================================================================
