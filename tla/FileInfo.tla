------------------------------ MODULE FileInfo ------------------------------
(***************************************************************************)
(* What a long listing asks the file system once more for each entry: the  *)
(* mark after the permissions (get_acl_attr_ of src/src/ft_file_info.c)    *)
(* and the target of a symbolic link (read_symlink of                      *)
(* src/src/ft_symlink.c), both called by fill_file_info_ on one arena.     *)
(* Others may change the file between any two calls.  A list of attributes *)
(* is a sequence of names, a target is its length; a readlink that fills   *)
(* the buffer says nothing of what was cut off.  No buffer is ever         *)
(* cleared: beyond what a call wrote are names of other files.             *)
(***************************************************************************)
EXTENDS Naturals, Sequences, SequencesExt, FiniteSets

CONSTANTS
  StackSize,  \* XATTR_STACK_SIZE, in names
  Word,       \* uint64_t is 0..Word - 1
  PathMax,    \* PATH_MAX
  MaxCap,     \* max_cap of read_symlink
  Sizes,      \* st_size an earlier lstat may have given
  Targets,    \* the lengths a target may have
  MaxFiles    \* bound: files listed

ASSUME FileInfoAssumption ==
  /\ StackSize \in Nat /\ MaxFiles \in Nat \ {0}
  /\ Word \in Nat \ {0} /\ PathMax \in 1..(Word - 1)
  /\ MaxCap \in Nat /\ 2 * MaxCap < Word
  /\ Sizes \subseteq 0..(Word - 1) /\ Targets \subseteq Nat \ {0}

VARIABLES
  pc,      \* the step: "perm"; "first", "query" or "large" llistxattr;
           \* "link", "alloc" or "read" of read_symlink; "done" or "failed"
  arena,   \* what this entry has pushed on the arena
  files,   \* files so far
  stack,   \* names[]
  heap,    \* the memory of the arena that large_names is taken from
  used,    \* size of get_acl_attr_
  mark,    \* the character it returned, by name
  size,    \* target_size: st_size
  cap,     \* cap
  result,  \* the string read_symlink returned: its length and place, or NULL
  readErr, \* *read_err
  seen,    \* auxiliary: the attributes the file had at each llistxattr
  trouble, \* auxiliary: a call failed, or the attributes outgrew the buffer
  target   \* auxiliary: the length of the target at the last readlink

attrVars == <<stack, heap, used, mark, seen, trouble>>
linkVars == <<size, cap, result, readErr, target>>
vars == <<pc, arena, files, attrVars, linkVars>>

(* Access control lists, the SELinux context, and names without a mark.    *)
Attrs == {"acl", "selinux", "user"}
Errors == {"none", "soft", "hard"}
NULL == [len |-> 0, at |-> 0]

Block(what, n) == [what |-> what, cap |-> n]
Push(b) == arena' = Append(arena, b)

Init ==
  /\ pc = "perm" /\ arena = << >> /\ files = 1
  /\ stack = [i \in 1..StackSize |-> "junk"]
  /\ heap = [i \in 1..Cardinality(Attrs) |-> "junk"]
  /\ size \in Sizes
  /\ used = 0 /\ mark = "blank" /\ seen = {} /\ trouble = FALSE
  /\ cap = 0 /\ result = NULL /\ readErr = "none" /\ target = 0

(* get_perm_ allocates its string and, with a status, asks for the mark;   *)
(* the other fields of the entry are those of LongFormat.                  *)
GetPerm ==
  /\ pc = "perm"
  /\ Push(Block("perm", 0))
  /\ pc' \in {"first", "link"}
  /\ UNCHANGED <<files, attrVars, linkVars>>
-----------------------------------------------------------------------------
(* get_acl_attr_ *)

(* A buffer after llistxattr wrote a set of names to it.                   *)
Listed(buf, attrs) ==
  LET names == SetToSeq(attrs)
  IN  names \o SubSeq(buf, Len(names) + 1, Len(buf))

(* xattr_error_marker_ *)
ErrorMark(e) == IF e = "ENOTSUP" THEN "blank" ELSE "question"

(* Mutant of Classify: the first name with a mark decides.                 *)
ClassifyFirst(buf, n) ==
  LET marked == SelectSeq(SubSeq(buf, 1, n), LAMBDA a : a \in {"acl", "selinux"})
  IN  IF marked = << >> THEN "blank" ELSE IF Last(marked) = "acl" THEN "plus" ELSE "dot"

(* classify_xattrs_ *)
Classify(buf, n) ==
  LET names == ToSet(SubSeq(buf, 1, n))
  IN  IF "acl" \in names THEN "plus" ELSE IF "selinux" \in names THEN "dot" ELSE "blank"

(* The mark is known; the rest of fill_file_info_ follows.                 *)
Marked(m) == pc' = "link" /\ mark' = m
Sees(attrs) == seen' = seen \cup {attrs}

First(attrs) ==
  /\ pc = "first" /\ Sees(attrs)
  /\ LET n == Cardinality(attrs) IN
     IF n <= StackSize
     THEN stack' = Listed(stack, attrs) /\ Marked(Classify(stack', n))
     ELSE pc' = "query" /\ UNCHANGED <<stack, mark>>
  /\ UNCHANGED <<arena, files, heap, used, trouble, linkVars>>

Query(attrs) ==
  /\ pc = "query" /\ Sees(attrs)
  /\ used' = Cardinality(attrs)
  /\ IF attrs = {} THEN Marked("blank") /\ UNCHANGED arena
     ELSE pc' = "large" /\ Push(Block("names", used')) /\ UNCHANGED mark
  /\ UNCHANGED <<files, stack, heap, trouble, linkVars>>

(* arena_push fails.                                                       *)
QueryNoMemory(attrs) ==
  /\ pc = "query" /\ attrs # {} /\ Sees(attrs)
  /\ Marked("question") /\ trouble' = TRUE
  /\ UNCHANGED <<arena, files, stack, heap, used, linkVars>>

(* Mutant of Used: the size asked for before is kept.                      *)
UsedAsked(n) == used

(* size = llistxattr(...)                                                  *)
Used(n) == n

(* Mutant of NamesPopped: the buffer is kept.                              *)
NamesPoppedNot == arena

(* arena_pop_to_mark of get_acl_attr_.                                     *)
NamesPopped == SubSeq(arena, 1, 1)

Large(attrs) ==
  /\ pc = "large" /\ Sees(attrs)
  /\ Cardinality(attrs) <= used
  /\ heap' = Listed(heap, attrs)
  /\ used' = Used(Cardinality(attrs))
  /\ Marked(Classify(heap', used'))
  /\ arena' = NamesPopped
  /\ UNCHANGED <<files, stack, trouble, linkVars>>

(* A call fails; ERANGE when the attributes have outgrown large_names.     *)
AttrsFail(e) ==
  /\ pc \in {"first", "query", "large"} /\ (e = "ERANGE" => pc = "large")
  /\ Marked(ErrorMark(e)) /\ trouble' = TRUE
  /\ arena' = NamesPopped
  /\ UNCHANGED <<files, stack, heap, used, seen, linkVars>>
-----------------------------------------------------------------------------
(* read_symlink *)

(* No symbolic link: the entry is complete.                                *)
NoLink ==
  /\ pc = "link"
  /\ pc' = "done"
  /\ UNCHANGED <<arena, files, attrVars, linkVars>>

Return(str) ==
  /\ pc' = IF str = NULL THEN "failed" ELSE "done"
  /\ result' = str

(* A size of which the successor is not representable.                     *)
Refused == size = Word - 1

StartLink ==
  /\ pc = "link"
  /\ IF Refused THEN Return(NULL) /\ UNCHANGED cap
     ELSE /\ cap' = IF size > 0 THEN (size + 1) % Word ELSE PathMax
          /\ pc' = "alloc" /\ UNCHANGED result
  /\ UNCHANGED <<arena, files, attrVars, size, readErr, target>>

(* Mutant of Allowed: the size of the string is not checked.               *)
AllowedAlways == TRUE

Allowed == cap <= MaxCap

Alloc ==
  /\ pc = "alloc" /\ Allowed
  /\ Push(Block("target", cap))
  /\ pc' = "read"
  /\ UNCHANGED <<files, attrVars, linkVars>>

(* The buffer is refused, or the arena has no memory for it.               *)
AllocFails ==
  /\ pc = "alloc"
  /\ Return(NULL)
  /\ UNCHANGED <<arena, files, attrVars, size, cap, readErr, target>>

(* Mutant of Fits: a target that fills the buffer is taken for whole.      *)
FitsFilled(len) == len <= cap

Fits(len) == len < cap

(* Mutant of TargetPopped: the buffer is left behind.                      *)
TargetPoppedNot == arena

(* arena_pop_to_mark, the mark being taken before the buffer.              *)
TargetPopped == Front(arena)

Copied(len) == IF len < cap THEN len ELSE cap

(* Mutant of Larger: the same buffer is tried again.                       *)
LargerNot == cap

Larger == cap * 2

ReadWhole(len) ==
  /\ pc = "read" /\ Fits(Copied(len))
  /\ target' = len
  /\ Return([len |-> Copied(len), at |-> Len(arena)])
  /\ UNCHANGED <<arena, files, attrVars, size, cap, readErr>>

(* The target fills the buffer: once more with twice its size.             *)
ReadFilled(len) ==
  /\ pc = "read" /\ ~Fits(Copied(len))
  /\ target' = len
  /\ arena' = TargetPopped
  /\ IF cap > MaxCap \div 2
     THEN Return(NULL) /\ UNCHANGED cap
     ELSE cap' = Larger /\ pc' = "alloc" /\ UNCHANGED result
  /\ UNCHANGED <<files, attrVars, size, readErr>>

(* ENOENT, EINVAL, EACCES and EPERM give an empty string, if there is      *)
(* memory for one; any other error gives NULL.                             *)
ReadFails(e) ==
  /\ pc = "read"
  /\ readErr' = e
  /\ \/ /\ e = "soft"
        /\ arena' = Append(TargetPopped, Block("target", 0))
        /\ Return([len |-> 0, at |-> Len(arena')])
     \/ arena' = TargetPopped /\ Return(NULL)
  /\ UNCHANGED <<files, attrVars, size, cap, target>>
-----------------------------------------------------------------------------
(* The next entry of prepare_list_infos, above what this one leaves.       *)
NextFile ==
  /\ pc = "done" /\ files < MaxFiles
  /\ pc' = "perm" /\ files' = files + 1 /\ arena' = << >>
  /\ size' \in Sizes
  /\ used' = 0 /\ mark' = "blank" /\ seen' = {} /\ trouble' = FALSE
  /\ cap' = 0 /\ result' = NULL /\ readErr' = "none" /\ target' = 0
  /\ UNCHANGED <<stack, heap>>

Next ==
  \/ GetPerm
  \/ \E attrs \in SUBSET Attrs :
       First(attrs) \/ Query(attrs) \/ QueryNoMemory(attrs) \/ Large(attrs)
  \/ \E e \in {"ENOTSUP", "ERANGE", "other"} : AttrsFail(e)
  \/ NoLink \/ StartLink \/ Alloc \/ AllocFails
  \/ \E len \in Targets : ReadWhole(len) \/ ReadFilled(len)
  \/ \E e \in {"soft", "hard"} : ReadFails(e)
  \/ NextFile

Spec == Init /\ [][Next]_vars

(* The process is scheduled and the system calls return.                   *)
FairSpec == Spec /\ WF_vars(Next)
-----------------------------------------------------------------------------
TypeOK ==
  /\ pc \in {"perm", "first", "query", "large", "link", "alloc", "read", "done", "failed"}
  /\ arena \in Seq([what : {"perm", "names", "target"}, cap : Nat])
  /\ files \in 0..MaxFiles
  /\ stack \in [1..StackSize -> Attrs \cup {"junk"}]
  /\ heap \in [1..Cardinality(Attrs) -> Attrs \cup {"junk"}]
  /\ used \in 0..Cardinality(Attrs) /\ mark \in {"blank", "plus", "dot", "question"}
  /\ size \in Sizes /\ cap \in 0..(Word - 1)
  /\ result \in [len : Nat, at : Nat] /\ readErr \in Errors /\ target \in Nat
  /\ trouble \in BOOLEAN

(* A mark for an access control list or a context is shown only for a file *)
(* that had one while it was looked at, never for what an earlier file     *)
(* left in the buffers (ft_file_info.c:454); a list that was there all the *)
(* time is not missed (:479); and a question mark means that a call failed.*)
MarkRight ==
  /\ TypeOK
  /\ pc = "link" =>
       /\ mark = "plus" => \E attrs \in seen : "acl" \in attrs
       /\ mark = "dot" => \E attrs \in seen : "selinux" \in attrs
       /\ ~trouble /\ seen # {} /\ (\A attrs \in seen : "acl" \in attrs) => mark = "plus"
       /\ mark = "question" => trouble

(* The target returned is the whole target as it was at one moment, or     *)
(* empty with the error in *read_err; a target that grew after the lstat   *)
(* is never cut short (ft_symlink.c:57).                                   *)
NeverTruncated ==
  pc = "done" /\ result # NULL =>
    IF readErr = "none" THEN result.len = target
    ELSE readErr = "soft" /\ result.len = 0

(* Whatever grew, was too small or failed, an entry leaves its fields on   *)
(* the arena and nothing else: the buffers are given back in the order the *)
(* marks were taken, the target lies within its string, and no doubling    *)
(* takes the string beyond max_cap (ft_file_info.c:458, ft_symlink.c:67).  *)
Fields == [i \in 1..Len(arena) |-> arena[i].what]
OnlyFields ==
  /\ pc \in {"link", "alloc"} => Fields = <<"perm">>
  /\ pc = "read" => Fields = <<"perm", "target">> /\ arena[2].cap <= MaxCap
  /\ pc = "done" =>
       IF result = NULL THEN Fields = <<"perm">>
       ELSE Fields = <<"perm", "target">> /\ result.at = 2 /\ result.len <= arena[2].cap

(* The listing of an entry ends even when the target always fills the      *)
(* buffer and the attributes always change.                                *)
Returns == <>(pc \in {"done", "failed"})
=============================================================================
