------------------------------- MODULE Arena -------------------------------
(***************************************************************************)
(* The arena allocator of src/src/ft_arena.c: a doubly linked list of      *)
(* blocks of which only the last is filled, marks that callers take and    *)
(* return to, and a clear that keeps the first block.  malloc may fail and *)
(* may hand out an address that was freed before.                          *)
(*                                                                         *)
(* The loops that free blocks are modelled one iteration at a time.  An    *)
(* allocation is the part [from, to) of a block; `live` holds those whose  *)
(* users may still read them (made since the last clear, and not undone by *)
(* a return to a mark).  `chain` is an auxiliary variable: the blocks in   *)
(* list order.                                                             *)
(***************************************************************************)
EXTENDS Naturals, Sequences, FiniteSets

CONSTANTS
  Address,    \* addresses of blocks
  NULL,
  Align,      \* ARENA_ALIGN
  BlockSize,  \* block_size
  Sizes,      \* sizes callers ask for
  MaxLive,    \* bound on the allocations in use at a time
  MaxMarks    \* bound on the marks in use at a time

ASSUME ArenaAssumption ==
  /\ NULL \notin Address
  /\ Align \in Nat \ {0}
  /\ BlockSize \in Nat
  /\ Sizes \subseteq Nat \ {0}
  /\ MaxLive \in Nat /\ MaxMarks \in Nat

VARIABLES
  heap,    \* addresses malloc has handed out and free has not taken back
  node,    \* the blocks: pos, cap, next and prev
  first,   \* arena->first
  current, \* arena->current
  chain,   \* auxiliary: the blocks of the list, first to last
  live,    \* auxiliary: the allocations in use
  marks,   \* the marks in use, each with the allocations made before it
  pc,      \* "idle" between two calls
  block,   \* the local variable of the loops
  mark     \* the mark arena_pop_to_mark returns to

vars == <<heap, node, first, current, chain, live, marks, pc, block, mark>>

Block == [pos : Nat, cap : Nat, next : Address \cup {NULL},
          prev : Address \cup {NULL}]
Allocation == [block : Address, from : Nat, to : Nat]
Mark == [block : Address, pos : Nat, kept : Nat]

EmptyBlock(cap) == [pos |-> 0, cap |-> cap, next |-> NULL, prev |-> NULL]
NoMark == [block |-> NULL, pos |-> 0, kept |-> 0]

(* arena_alloc has succeeded.                                              *)
Init ==
  /\ first \in Address
  /\ current = first
  /\ heap = {first}
  /\ node = [b \in Address |-> EmptyBlock(BlockSize)]
  /\ chain = <<first>>
  /\ live = << >> /\ marks = << >>
  /\ pc = "idle" /\ block = NULL /\ mark = NoMark
-----------------------------------------------------------------------------
(* The first multiple of Align that is not below p.                        *)
AlignUp(p) == IF p % Align = 0 THEN p ELSE p + (Align - (p % Align))

(* Mutant of Fits: the room is taken before the position is aligned.       *)
FitsUnaligned(size) == node[current].pos + size <= node[current].cap

(* arena_push finds room in the current block.                             *)
Fits(size) ==
  /\ AlignUp(node[current].pos) <= node[current].cap
  /\ size <= node[current].cap - AlignUp(node[current].pos)

(* arena_push in the current block.                                        *)
PushHere(size) ==
  /\ pc = "idle" /\ Len(live) < MaxLive
  /\ Fits(size)
  /\ LET at == AlignUp(node[current].pos)
     IN  /\ node' = [node EXCEPT ![current].pos = at + size]
         /\ live' = Append(live, [block |-> current, from |-> at, to |-> at + size])
  /\ UNCHANGED <<heap, first, current, chain, marks, pc, block, mark>>

(* The capacity of the block arena_push adds.                              *)
NewCap(size) == IF size > BlockSize THEN size ELSE BlockSize

(* arena_push in a new block b.                                            *)
PushNew(size, b) ==
  /\ pc = "idle" /\ Len(live) < MaxLive
  /\ ~Fits(size)
  /\ b \in Address \ heap
  /\ heap' = heap \cup {b}
  /\ node' = [node EXCEPT
       ![b] = [pos |-> size, cap |-> NewCap(size), next |-> NULL, prev |-> current],
       ![current].next = b]
  /\ current' = b
  /\ chain' = Append(chain, b)
  /\ live' = Append(live, [block |-> b, from |-> 0, to |-> size])
  /\ UNCHANGED <<first, marks, pc, block, mark>>

(* arena_get_mark.                                                         *)
GetMark ==
  /\ pc = "idle" /\ Len(marks) < MaxMarks
  /\ marks' = Append(marks, [block |-> current, pos |-> node[current].pos,
                             kept |-> Len(live)])
  /\ UNCHANGED <<heap, node, first, current, chain, live, pc, block, mark>>

(* A caller that succeeds keeps its allocations and forgets its mark       *)
(* (read_symlink, get_dt_).                                                *)
ForgetMark ==
  /\ pc = "idle" /\ marks # << >>
  /\ marks' = SubSeq(marks, 1, Len(marks) - 1)
  /\ UNCHANGED <<heap, node, first, current, chain, live, pc, block, mark>>

(* arena_pop_to_mark with the newest mark: callers nest.  Allocations made *)
(* since the mark are over.                                                *)
PopToMark ==
  /\ pc = "idle" /\ marks # << >>
  /\ mark' = marks[Len(marks)]
  /\ marks' = SubSeq(marks, 1, Len(marks) - 1)
  /\ live' = SubSeq(live, 1, mark'.kept)
  /\ block' = current
  /\ pc' = "pop"
  /\ UNCHANGED <<heap, node, first, current, chain>>

(* Mutant of Unlinked: the new last block keeps its next pointer.          *)
UnlinkedNot(b) == node

(* prev->next = NULL.                                                      *)
Unlinked(b) == [node EXCEPT ![node[b].prev].next = NULL]

(* Mutant of Previous: the loop does not advance.                          *)
SameBlock(b) == b

(* block = prev.                                                           *)
Previous(b) == node[b].prev

PopFree ==
  /\ pc = "pop" /\ block # mark.block
  /\ node' = Unlinked(block)
  /\ heap' = heap \ {block}
  /\ block' = Previous(block)
  /\ chain' = SubSeq(chain, 1, Len(chain) - 1)
  /\ UNCHANGED <<first, current, live, marks, pc, mark>>

(* Mutant of Rewound: the position of the mark is not restored.            *)
RewoundNot == node

(* block->pos = mark.pos.                                                  *)
Rewound == [node EXCEPT ![block].pos = mark.pos]

PopDone ==
  /\ pc = "pop" /\ block = mark.block
  /\ node' = Rewound
  /\ current' = block
  /\ block' = NULL /\ mark' = NoMark
  /\ pc' = "idle"
  /\ UNCHANGED <<heap, first, chain, live, marks>>

(* arena_clear: no allocation and no mark survives it.                     *)
Clear ==
  /\ pc = "idle"
  /\ block' = node[first].next
  /\ live' = << >> /\ marks' = << >>
  /\ pc' = "clear"
  /\ UNCHANGED <<heap, node, first, current, chain, mark>>

(* One iteration of the loops of arena_clear and arena_release: the block  *)
(* is freed once its successor has been read.                              *)
FreeNext ==
  /\ pc \in {"clear", "release"} /\ block # NULL
  /\ heap' = heap \ {block}
  /\ block' = node[block].next
  /\ chain' = IF pc = "clear" THEN <<chain[1]>> \o SubSeq(chain, 3, Len(chain))
              ELSE Tail(chain)
  /\ UNCHANGED <<node, first, current, live, marks, pc, mark>>

(* arena->current = arena->first.                                          *)
CurrentAfterClear == first

ClearDone ==
  /\ pc = "clear" /\ block = NULL
  /\ node' = [node EXCEPT ![first] = EmptyBlock(@.cap)]
  /\ current' = CurrentAfterClear
  /\ pc' = "idle"
  /\ UNCHANGED <<heap, first, chain, live, marks, block, mark>>

Release ==
  /\ pc = "idle"
  /\ block' = first
  /\ live' = << >> /\ marks' = << >>
  /\ pc' = "release"
  /\ UNCHANGED <<heap, node, first, current, chain, mark>>

ReleaseDone ==
  /\ pc = "release" /\ block = NULL
  /\ pc' = "released"
  /\ UNCHANGED <<heap, node, first, current, chain, live, marks, block, mark>>

Next ==
  \/ \E size \in Sizes :
       PushHere(size) \/ \E b \in Address : PushNew(size, b)
  \/ GetMark \/ ForgetMark
  \/ PopToMark \/ PopFree \/ PopDone
  \/ Clear \/ ClearDone
  \/ Release \/ ReleaseDone
  \/ FreeNext

Spec == Init /\ [][Next]_vars

(* The loops of the arena are not abandoned half-way.                      *)
FairSpec ==
  Spec /\ WF_vars(PopFree) /\ WF_vars(PopDone) /\ WF_vars(FreeNext)
       /\ WF_vars(ClearDone) /\ WF_vars(ReleaseDone)
-----------------------------------------------------------------------------
(* The types of the variables (t_arena, t_arena_block, t_arena_mark).      *)
TypeOK ==
  /\ heap \subseteq Address
  /\ node \in [Address -> Block]
  /\ first \in Address /\ current \in Address
  /\ chain \in Seq(Address)
  /\ live \in Seq(Allocation) /\ marks \in Seq(Mark)
  /\ pc \in {"idle", "pop", "clear", "release", "released"}
  /\ block \in Address \cup {NULL}
  /\ mark \in Mark \cup {NoMark}

(* The list is doubly linked, holds exactly the allocated blocks (nothing  *)
(* leaks, nothing freed is reachable), and arena->current is its last      *)
(* block: arena_push only ever looks there.  A return to a mark gives back *)
(* exactly what was allocated since: every block is filled up to the end   *)
(* of an allocation in use, except the first one, which may be empty.      *)
(* Otherwise the arena of a long listing would grow.                       *)
Linked(c) ==
  /\ \A i \in 1..(Len(c) - 1) : node[c[i]].next = c[i + 1]
  /\ \A i \in 2..Len(c) : node[c[i]].prev = c[i - 1]
  /\ \A i, j \in 1..Len(c) : c[i] = c[j] => i = j
NothingRetained ==
  \A b \in heap :
    \/ \E i \in 1..Len(live) : live[i].block = b /\ live[i].to = node[b].pos
    \/ b = first /\ node[b].pos = 0
WellFormed ==
  /\ TypeOK
  /\ pc = "idle" =>
       /\ chain # << >> /\ Linked(chain)
       /\ chain[1] = first /\ node[first].prev = NULL
       /\ chain[Len(chain)] = current /\ node[current].next = NULL
       /\ NothingRetained
  /\ heap = {chain[i] : i \in 1..Len(chain)}
  /\ pc = "released" => heap = {}

(* Two allocations in use never overlap, and each one is aligned and lies  *)
(* below the fill position of a block that is still allocated, hence       *)
(* within its capacity: no push, pop or clear invalidates memory that is   *)
(* in use.                                                                 *)
InBlock(a) ==
  /\ a.block \in heap
  /\ a.from % Align = 0
  /\ a.to <= node[a.block].cap
  /\ pc = "idle" => a.to <= node[a.block].pos
Separate ==
  /\ \A i \in 1..Len(live) : InBlock(live[i])
  /\ \A i, j \in 1..Len(live) :
       i < j /\ live[i].block = live[j].block => live[i].to <= live[j].from

(* A call on the arena returns.                                            *)
CallsReturn == pc \in {"pop", "clear", "release"} ~> pc \in {"idle", "released"}
=============================================================================
