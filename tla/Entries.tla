------------------------------ MODULE Entries ------------------------------
(***************************************************************************)
(* The memory of entries: src/src/ft_walk_entry.c with str_new, str_dup    *)
(* and str_free (ft_str.c), and the arrays that hold them (DynArray).      *)
(* Operands and queued directories live on the heap and outlive the        *)
(* listing they were found in; the entries of a directory and their paths  *)
(* live in an arena that is cleared after each directory.  An address is   *)
(* the number of the allocation; what a string says is left out, and so is *)
(* the sort, which permutes an array.  Any allocation may fail.            *)
(***************************************************************************)
EXTENDS DynArray

CONSTANT MaxAllocs   \* bound: allocations

ASSUME EntriesAssumption == MaxAllocs \in Nat

VARIABLES
  allocs,  \* allocations so far
  onHeap,  \* the addresses malloc has returned; the others are the arena's
  freed,   \* the addresses given to free()
  amiss,   \* those given to free() more than once, or not malloc's
  entries, \* the entries that are not freed
  holds,   \* the array: "dir_queue"; "operand_files", then "listed"; "none"
           \* at the end
  dirPath  \* dir_path of process_queue_

memory == <<allocs, onHeap>>
frees == <<freed, amiss>>
vars == <<memory, frees, entries, holds, dirPath, arrayVars>>

NULL == 0

(* t_entry: its own address, name and path; heap tells the two kinds apart.*)
Entry == [at : Nat, name : Nat, path : Nat, heap : BOOLEAN]

Init ==
  /\ ArrayInit
  /\ allocs = 0 /\ onHeap = {} /\ entries = {}
  /\ freed = {} /\ amiss = {}
  /\ holds \in {"dir_queue", "operand_files"} /\ dirPath = NULL

EntryAt(a) == CHOOSE e \in entries : e.at = a

Allocate(n) == allocs + n <= MaxAllocs /\ allocs' = allocs + n
Malloc(n) == Allocate(n) /\ onHeap' = onHeap \cup (allocs + 1)..allocs'
ArenaPush == Allocate(1) /\ UNCHANGED onHeap

(* entry_new_file_operand: name and path are one string.                   *)
NewFileOperand ==
  [at |-> allocs + 1, name |-> allocs + 2, path |-> allocs + 2, heap |-> TRUE]

(* Mutant of PathCopy: the string of the entry that was listed is used.    *)
PathCopyShared(p) == IF p = NULL THEN allocs + 2 ELSE p

(* str_dup of the string at p, the second allocation of entry_new_path.    *)
PathCopy(p) == allocs + 2

(* entry_new_path, of an operand, or of a subdirectory that was listed.    *)
NewPath(p) ==
  [at |-> allocs + 1, name |-> NULL, path |-> PathCopy(p), heap |-> TRUE]

(* What collect_operands_ and queue_recursive_dirs_ append.                *)
NewEntries ==
  IF holds = "operand_files" THEN {NewFileOperand}
  ELSE IF holds = "dir_queue"
  THEN {NewPath(p) : p \in {NULL} \cup {e.path : e \in {d \in entries : ~d.heap}}}
  ELSE {}

(* Calls of free(), each with the address it gets.                         *)
Free(calls) ==
  /\ freed' = freed \cup {calls[c] : c \in DOMAIN calls}
  /\ amiss' = amiss \cup
       {calls[c] : c \in {d \in DOMAIN calls :
          \/ calls[d] \notin onHeap' \ freed
          \/ \E b \in DOMAIN calls \ {d} : calls[b] = calls[d]}}

(* Mutant of Strings: path and name are not compared.                      *)
StringsBoth(e) == {f \in {"path", "name"} : e[f] # NULL}

(* The strings that entry_free frees.                                      *)
Strings(e) ==
  {f \in {"path"} : e.path # NULL /\ e.path # e.name} \cup {f \in {"name"} : e.name # NULL}

(* The calls of entry_free.                                                *)
EntryFree(e) == [f \in Strings(e) \cup {"at"} |-> e[f]]

Queue(e) ==
  /\ Malloc(2) /\ ArrayAppend(e.at)
  /\ entries' = entries \cup {e}
  /\ UNCHANGED <<frees, holds, dirPath>>

(* array_append fails, and the entry is freed.                             *)
QueueFails(e) ==
  /\ Malloc(2) /\ AppendRefused
  /\ Free(EntryFree(e))
  /\ UNCHANGED <<entries, holds, dirPath>>

(* Mutant of Undone: the entry is forgotten.                               *)
UndoneNot(a) == {}

(* What is freed when the string of the entry at a cannot be allocated:    *)
(* free in entry_new_file_operand, entry_free in entry_new_path.           *)
Undone(a) == {a}

NewFails ==
  /\ holds \in {"dir_queue", "operand_files"} /\ Malloc(1)
  /\ Free([a \in Undone(allocs') |-> a])
  /\ UNCHANGED <<entries, holds, dirPath, arrayVars>>

(* process_queue_ takes the next directory, after -f has reversed them.    *)
Pop ==
  /\ holds = "dir_queue" /\ dirPath = NULL
  /\ ArrayPop /\ dirPath' = data[len]
  /\ UNCHANGED <<memory, frees, entries, holds>>

ReverseQueue ==
  /\ holds = "dir_queue" /\ dirPath = NULL
  /\ ArrayReverse \/ Swap \/ ReverseDone
  /\ UNCHANGED <<memory, frees, entries, holds, dirPath>>

(* entry_new_dirent: the entry and its name are one block of the arena.    *)
NewDirent ==
  /\ dirPath # NULL /\ ArenaPush
  /\ entries' = entries \cup
       {[at |-> allocs', name |-> allocs', path |-> NULL, heap |-> FALSE]}
  /\ UNCHANGED <<frees, holds, dirPath, arrayVars>>

(* entry_build_path, which does nothing when there is a path already.      *)
BuildPath(e) ==
  /\ dirPath # NULL /\ ~e.heap /\ e.path = NULL /\ ArenaPush
  /\ entries' = (entries \ {e}) \cup {[e EXCEPT !.path = allocs']}
  /\ UNCHANGED <<frees, holds, dirPath, arrayVars>>

(* clear_directory_entries_: array_clear and arena_clear.                  *)
ClearArena ==
  /\ entries' = {e \in entries : e.heap}
  /\ UNCHANGED <<memory, frees, holds, dirPath, arrayVars>>

(* entry_free(dir_path)                                                    *)
FreeDirPath ==
  /\ dirPath # NULL
  /\ UNCHANGED memory
  /\ Free(EntryFree(EntryAt(dirPath)))
  /\ entries' = entries \ {EntryAt(dirPath)}
  /\ dirPath' = NULL
  /\ UNCHANGED <<holds, arrayVars>>

(* The loop of array_clear_with(entry_del) and array_destroy_with.         *)
FreeItems ==
  LET freeing == [i \in 1..len |-> EntryFree(EntryAt(data[i]))]
  IN  /\ UNCHANGED memory
      /\ Free([c \in UNION {{i} \X DOMAIN freeing[i] : i \in 1..len} |-> freeing[c[1]][c[2]]])
      /\ entries' = {e \in entries : e.at \notin Items}

(* The end of print_operands_.                                             *)
ClearFiles ==
  /\ holds = "operand_files"
  /\ FreeItems /\ ArrayClear
  /\ holds' = "listed"
  /\ UNCHANGED dirPath

(* cleanup_process_, after process_queue_ has freed dir_path.              *)
Cleanup ==
  /\ holds # "none" /\ dirPath = NULL
  /\ FreeItems /\ ArrayDestroy
  /\ holds' = "none"
  /\ UNCHANGED dirPath

Next ==
  \/ \E e \in NewEntries : Queue(e) \/ QueueFails(e)
  \/ NewFails
  \/ Pop \/ ReverseQueue
  \/ NewDirent \/ \E e \in entries : BuildPath(e)
  \/ ClearArena \/ FreeDirPath \/ ClearFiles \/ Cleanup

Spec == Init /\ [][Next]_vars
-----------------------------------------------------------------------------
Parts(e) == {e.at, e.name, e.path} \ {NULL}
InUse == onHeap \ freed

(* A heap entry always has a path, which process_queue_ opens.             *)
TypeOK ==
  /\ ArrayTypeOK
  /\ allocs \in 0..MaxAllocs /\ onHeap \subseteq 1..allocs /\ freed \subseteq 1..allocs
  /\ entries \subseteq Entry /\ \A e \in entries : e.heap => e.path # NULL

(* free() is called once at most for an address, and never for one of the  *)
(* arena: name and path of a file operand are one string                   *)
(* (ft_walk_entry.c:108).                                                  *)
FreedOnce == amiss = {}

(* An entry on the heap stays whole when the arena is cleared or another   *)
(* entry is freed: what queued a subdirectory has copied its path          *)
(* (ft_walk.c:496, ft_walk_entry.c:53).                                    *)
NoneDangling == \A e \in entries : e.heap => Parts(e) \subseteq InUse

(* Whatever fails, an allocation that no entry holds has been freed        *)
(* (ft_walk_entry.c:32, :58), and an entry on the heap is in the array or  *)
(* is the directory being listed (ft_walk.c:501).                          *)
NothingLeaked ==
  /\ InUse \subseteq UNION {Parts(e) : e \in entries}
  /\ {e.at : e \in {d \in entries : d.heap}} = Items \cup ({dirPath} \ {NULL})
  /\ Cardinality(Items) = len /\ dirPath \notin Items

(* Every allocation has one owner, from malloc to the one free.            *)
Owned == TypeOK /\ FreedOnce /\ NoneDangling /\ NothingLeaked
=============================================================================
