-------------------------------- MODULE Walk --------------------------------
(***************************************************************************)
(* The listing of ft_ls: process() of src/src/ft_walk.c and the entries of *)
(* src/src/ft_walk_entry.c.  The operands are classified, the file         *)
(* operands are printed, and a stack of directories is popped, read,       *)
(* sorted, extended with the subdirectories (-R) and printed.              *)
(*                                                                         *)
(* The file system belongs to other processes: every system call returns   *)
(* one of the answers it may give for the path, independently of what an   *)
(* earlier call on that path returned.  Allocations and writes may fail    *)
(* at any time.  Output is a sequence of items (the file operands, a       *)
(* blank line, a directory block); `delivered` of them have left the       *)
(* buffer, which OutBuf models byte by byte.                               *)
(***************************************************************************)
EXTENDS Naturals, Sequences, FiniteSets, SequencesExt

CONSTANTS
  Path,         \* paths that operands and directory entries can have
  Kids,         \* Kids[p]: paths of the names readdir may return in p
  May,          \* May[p]: answers lstat may give for p
  Rank,         \* Rank[p]: place of p in the sort order
  Hidden,       \* paths whose last component starts with a dot
  Dots,         \* paths whose last component is "." or ".."
  ArgSets,      \* option combinations of a run
  OperandLists, \* operand lists of a run
  NoDir         \* the NULL directory entry

Answers == {"dir", "link", "other", "absent"}

(* The options that steer the listing; parse_args sets `all` with unsort   *)
(* (-f), and -t, -u, -G, -g, -o change only what an entry looks like or    *)
(* which key Rank stands for.                                              *)
Options ==
  {o \in [directory : BOOLEAN, list : BOOLEAN, recursive : BOOLEAN,
          all : BOOLEAN, unsort : BOOLEAN, reverse : BOOLEAN] :
     o.unsort => o.all}

(* t_entry of a directory that waits in dir_queue; `from` is the id of the *)
(* directory whose listing contained it, 0 for an operand.                 *)
DirEntry == [id : Nat, path : Path, operand : BOOLEAN, from : Nat]

(* t_entry of a file operand.                                              *)
FileEntry == [id : Nat, path : Path]

(* t_entry of a name readdir returned: S_ISDIR(st_mode), stat_unavailable. *)
NameEntry == [path : Path, dir : BOOLEAN, bad : BOOLEAN]

ASSUME TreeAssumption ==
  /\ Kids \in [Path -> SUBSET Path]
  /\ May \in [Path -> SUBSET Answers]
  /\ Rank \in [Path -> Nat]
  /\ Hidden \subseteq Path
  /\ Dots \subseteq Hidden

ASSUME RunAssumption ==
  /\ ArgSets \subseteq Options
  /\ OperandLists \subseteq Seq(Path)

ASSUME NoDirAssumption == NoDir \notin DirEntry

VARIABLES
  args,         \* t_args
  operands,     \* the paths given on the command line
  pc,           \* which step of process() comes next
  index,        \* the loop index of collect_operands_, queue_recursive_dirs_
  dirQueue,     \* dir_queue, its last element is popped next
  files,        \* operand_files
  cur,          \* dir_path of process_queue_
  unread,       \* names readdir may still return
  entries,      \* current_entries
  stdout,       \* the items handed to the output buffer
  delivered,    \* how many of them the descriptor has received
  errs,         \* the paths of the messages on stderr
  exitCode,     \* *exit_code
  outputFailed, \* output_failed
  printedFiles, \* printed_files
  printedDir,   \* printed_dir
  gapDone,      \* inserted_files_dirs_gap
  ok,           \* the verdict of run_listing_ before its last flush
  heap,         \* ids of the live malloc'ed entries
  nextId        \* the id of the next one

given     == <<args, operands>>
queues    == <<dirQueue, files>>
memory    == <<heap, nextId>>
loading   == <<cur, unread, entries>>
output    == <<stdout, delivered, errs, outputFailed>>
separator == <<printedFiles, printedDir, gapDone>>

vars == <<given, pc, index, queues, loading, output, exitCode, separator, ok,
          memory>>

PCs == {"start", "collect", "files", "next", "open", "read", "queue", "print",
        "flush", "cleanup", "exit"}

Init ==
  /\ args \in ArgSets
  /\ operands \in OperandLists
  /\ pc = "start"
  /\ index = 1
  /\ dirQueue = << >> /\ files = << >>
  /\ cur = NoDir /\ unread = {} /\ entries = << >>
  /\ stdout = << >> /\ delivered = 0 /\ errs = << >> /\ outputFailed = FALSE
  /\ exitCode = 0
  /\ printedFiles = FALSE /\ printedDir = FALSE /\ gapDone = FALSE
  /\ ok = FALSE
  /\ heap = {} /\ nextId = 1
-----------------------------------------------------------------------------
(* Helpers. *)

Ids(q) == {q[i].id : i \in 1..Len(q)}

InOrder(x, y, reverse) ==
  IF reverse THEN Rank[x.path] >= Rank[y.path] ELSE Rank[x.path] <= Rank[y.path]

(* The permutations of q that sort() may return: sorted by rank, entries   *)
(* of equal rank in any order.                                             *)
Sorts(q, reverse) ==
  {t \in {[i \in 1..Len(q) |-> q[p[i]]] :
            p \in Bijection(1..Len(q), 1..Len(q))} :
     \A i, j \in 1..Len(q) : i < j => InOrder(t[i], t[j], reverse)}

(* The order of q after the sort, which -f (unsort) leaves out.            *)
Arranged(q, reverse) == IF args.unsort THEN {q} ELSE Sorts(q, reverse)

(* The item of a directory block, of the file operands, of an empty line,  *)
(* and of an output call that failed part of the way.                      *)
Block(d, es, header) ==
  [kind |-> "dir", id |-> d.id, from |-> d.from, operand |-> d.operand,
   path |-> d.path, header |-> header, entries |-> es]
FilesItem(q) == [kind |-> "files", paths |-> [i \in 1..Len(q) |-> q[i].path]]
Blank == [kind |-> "blank"]
Partial == [kind |-> "partial"]

(* put_mem and printer hand over more items; the buffer may have to empty  *)
(* itself on the way.                                                      *)
HandOver(items) ==
  /\ stdout' = stdout \o items
  /\ delivered' \in {delivered, Len(stdout)}
  /\ UNCHANGED <<errs, outputFailed>>

(* flush_fd at the head of print_error_.                                   *)
Flushed == delivered' = Len(stdout)

(***************************************************************************)
(* print_error_: stdout is flushed first.  "blocked": that flush fails;    *)
(* "lost": the message could not be written; "sent": the call returns true.*)
(***************************************************************************)
Outcomes == {"sent", "lost", "blocked"}
PrintError(p, r) ==
  /\ IF r = "blocked"
     THEN delivered < Len(stdout) /\ outputFailed' = TRUE /\ UNCHANGED delivered
     ELSE Flushed /\ UNCHANGED outputFailed
  /\ errs' = IF r = "sent" THEN Append(errs, p) ELSE errs
  /\ UNCHANGED stdout

(* entry_new_path and entry_new_file_operand: a new heap entry.            *)
NewEntry ==
  /\ heap' = heap \cup {nextId}
  /\ nextId' = nextId + 1

(* Mutant of FreeCur: the entry is forgotten, not freed.                   *)
ForgetCur == cur' = NoDir /\ UNCHANGED heap

(* entry_free(dir_path); dir_path = NULL.                                  *)
FreeCur ==
  /\ heap' = heap \ {cur.id}
  /\ cur' = NoDir
-----------------------------------------------------------------------------
(* process: its own allocations. *)

Start ==
  /\ pc = "start"
  /\ pc' = "collect"
  /\ UNCHANGED <<given, index, queues, loading, output, exitCode, separator, ok,
                 memory>>

StartFails ==
  /\ pc = "start"
  /\ pc' = "cleanup" /\ exitCode' = 2
  /\ UNCHANGED <<given, index, queues, loading, output, separator, ok, memory>>
-----------------------------------------------------------------------------
(* collect_operands_, classify_operand_, queue_operand_dir_ *)

Operand == operands[index]

Collecting(answer) ==
  /\ pc = "collect" /\ index <= Len(operands)
  /\ answer \in May[Operand]
  /\ UNCHANGED <<given, loading, separator, ok>>

NextOperand == index' = index + 1 /\ UNCHANGED pc
Fatal == pc' = "cleanup" /\ exitCode' = 2 /\ UNCHANGED index

AddDir ==
  /\ NewEntry
  /\ dirQueue' = Append(dirQueue, [id |-> nextId, path |-> Operand,
                                   operand |-> TRUE, from |-> 0])
  /\ UNCHANGED files

AddFile ==
  /\ NewEntry
  /\ files' = Append(files, [id |-> nextId, path |-> Operand])
  /\ UNCHANGED dirQueue

(* lstat fails: a message, exit code 2 and the next operand.               *)
CollectMissing(r) ==
  /\ Collecting("absent")
  /\ PrintError(Operand, r)
  /\ IF r = "sent" THEN exitCode' = 2 /\ NextOperand ELSE Fatal
  /\ UNCHANGED <<queues, memory>>

(* A directory, or without -l a symbolic link to one, is queued.           *)
CollectDir ==
  /\ ~args.directory
  /\ \/ Collecting("dir")
     \/ Collecting("link") /\ ~args.list
  /\ AddDir /\ NextOperand
  /\ UNCHANGED <<output, exitCode>>

(* Anything else is a file operand.                                        *)
CollectFile ==
  /\ \/ Collecting("other")
     \/ Collecting("link")
     \/ Collecting("dir") /\ args.directory
  /\ AddFile /\ NextOperand
  /\ UNCHANGED <<output, exitCode>>

(* readlink fails for an ordinary reason: a message and exit code 2; with  *)
(* -l the link is listed all the same.                                     *)
CollectUnreadableLink(r) ==
  /\ Collecting("link")
  /\ args.list \/ ~args.directory
  /\ PrintError(Operand, r)
  /\ IF r = "sent" THEN exitCode' = 2 /\ NextOperand ELSE Fatal
  /\ IF r = "sent" /\ args.list THEN AddFile ELSE UNCHANGED <<queues, memory>>

(* With -l, the message was printed but the entry cannot be allocated.     *)
CollectUnreadableLinkFails ==
  /\ Collecting("link")
  /\ args.list
  /\ PrintError(Operand, "sent")
  /\ Fatal
  /\ UNCHANGED <<queues, memory>>

(* An allocation fails, or readlink does in a way read_symlink gives up on.*)
CollectFails ==
  /\ \E answer \in Answers \ {"absent"} : Collecting(answer)
  /\ Fatal
  /\ UNCHANGED <<queues, output, memory>>

(* Mutant of QueueReverse: sorted in listing order, popped from the end.   *)
QueueListed == args.reverse

(* The order of the sort of dir_queue, whose last element is popped first. *)
QueueReverse == ~args.reverse

CollectDone ==
  /\ pc = "collect" /\ index > Len(operands)
  /\ dirQueue' \in Arranged(dirQueue, QueueReverse)
  /\ pc' = "files"
  /\ UNCHANGED <<given, index, files, loading, output, exitCode, separator, ok,
                 memory>>

CollectSortFails ==
  /\ pc = "collect" /\ index > Len(operands)
  /\ Len(dirQueue) > 1 /\ ~args.unsort
  /\ Fatal
  /\ UNCHANGED <<given, queues, loading, output, separator, ok, memory>>
-----------------------------------------------------------------------------
(* run_listing_, print_operand_files_ *)

(* process_queue_ reverses a queue that was not sorted.                    *)
PopOrder(q) == IF args.unsort THEN Reverse(q) ELSE q

(* With -d the listing ends after the operands; else the queue is next.    *)
AfterFiles ==
  IF args.directory
  THEN pc' = "flush" /\ ok' = TRUE /\ UNCHANGED dirQueue
  ELSE pc' = "next" /\ dirQueue' = PopOrder(dirQueue) /\ UNCHANGED ok

(* "goto cleanup" of run_listing_ with ok = false.                         *)
GiveUp == pc' = "flush" /\ ok' = FALSE

NoFiles ==
  /\ pc = "files" /\ files = << >>
  /\ AfterFiles
  /\ UNCHANGED <<given, index, files, loading, output, exitCode, separator,
                 memory>>

PrintFiles ==
  /\ pc = "files" /\ files # << >>
  /\ \E t \in Arranged(files, args.reverse) : HandOver(<<FilesItem(t)>>)
  /\ printedFiles' = TRUE
  /\ files' = << >> /\ heap' = heap \ Ids(files)
  /\ AfterFiles
  /\ UNCHANGED <<given, index, loading, exitCode, printedDir, gapDone, nextId>>

(* The sort or the printer fails; the operands are freed all the same.     *)
PrintFilesFails ==
  /\ pc = "files" /\ files # << >>
  /\ HandOver(<<Partial>>) \/ UNCHANGED output
  /\ files' = << >> /\ heap' = heap \ Ids(files)
  /\ GiveUp
  /\ UNCHANGED <<given, index, dirQueue, loading, exitCode, separator, nextId>>

(* The arena of the printer cannot be allocated.                           *)
ListingFails ==
  /\ pc = "files"
  /\ GiveUp
  /\ UNCHANGED <<given, index, queues, loading, output, exitCode, separator,
                 memory>>
-----------------------------------------------------------------------------
(* process_queue_ *)

QueueEmpty ==
  /\ pc = "next" /\ dirQueue = << >>
  /\ pc' = "flush" /\ ok' = TRUE
  /\ UNCHANGED <<given, index, queues, loading, output, exitCode, separator,
                 memory>>

(* Mutant of GapDue: the flag inserted_files_dirs_gap is not consulted.    *)
GapDueAgain(d) == printedFiles /\ d.operand

(* An empty line separates the file operands from the first directory.     *)
GapDue(d) == ~gapDone /\ printedFiles /\ d.operand

PopDir ==
  /\ pc = "next" /\ dirQueue # << >>
  /\ cur' = Last(dirQueue)
  /\ dirQueue' = Front(dirQueue)
  /\ IF GapDue(cur')
     THEN HandOver(<<Blank>>) /\ gapDone' = TRUE
     ELSE UNCHANGED <<output, gapDone>>
  /\ pc' = "open"
  /\ UNCHANGED <<given, index, files, unread, entries, exitCode, printedFiles,
                 printedDir, ok, memory>>

GapFails ==
  /\ pc = "next" /\ dirQueue # << >>
  /\ GapDue(Last(dirQueue)) /\ delivered < Len(stdout)
  /\ dirQueue' = Front(dirQueue)
  /\ heap' = heap \ {Last(dirQueue).id}
  /\ GiveUp
  /\ UNCHANGED <<given, index, files, loading, output, exitCode, separator,
                 nextId>>

(* load_directory_entries_ returned false: the directory is dropped, and   *)
(* the listing goes on unless standard output is lost.                     *)
DropDir ==
  /\ FreeCur
  /\ entries' = << >> /\ unread' = {}
  /\ IF outputFailed' THEN GiveUp ELSE pc' = "next" /\ UNCHANGED ok
  /\ UNCHANGED nextId

OpenFails(r) ==
  /\ pc = "open"
  /\ PrintError(cur.path, r)
  /\ exitCode' = IF cur.operand THEN 2 ELSE 1
  /\ DropDir
  /\ UNCHANGED <<given, index, queues, separator>>

OpenDir ==
  /\ pc = "open"
  /\ May[cur.path] \cap {"dir", "link"} # {}
  /\ pc' = "read"
  /\ unread' = Kids[cur.path] /\ entries' = << >>
  /\ UNCHANGED <<given, index, queues, cur, output, exitCode, separator, ok,
                 memory>>

(* The entries that are listed: all of them, or those not hidden.          *)
Shown(p) == args.all \/ p \notin Hidden

(* readdir returns the name of p.                                          *)
Reading(p) ==
  /\ pc = "read" /\ p \in unread
  /\ UNCHANGED <<given, index, queues, separator, nextId>>

SkipHidden(p) ==
  /\ Reading(p) /\ ~Shown(p)
  /\ unread' = unread \ {p}
  /\ UNCHANGED <<pc, cur, entries, output, exitCode, ok, heap>>

(* The type of the entry comes from d_type, or from lstat.                 *)
ReadEntry(p, answer) ==
  /\ Reading(p) /\ Shown(p)
  /\ answer \in May[p] \ {"absent"}
  /\ unread' = unread \ {p}
  /\ entries' = Append(entries, [path |-> p, dir |-> answer = "dir", bad |-> FALSE])
  /\ UNCHANGED <<pc, cur, output, exitCode, ok, heap>>

(* Mutant of AfterBadEntry: the code counts the errors.                    *)
AfterBadEntryCounts == exitCode + 1

(* lstat failed on an entry.                                               *)
AfterBadEntry == IF exitCode = 2 THEN 2 ELSE 1

(* lstat fails; d is what d_type said.  An entry whose message cannot be   *)
(* printed ends the loading of this directory.                             *)
ReadUnstatable(p, r, d) ==
  /\ Reading(p) /\ Shown(p)
  /\ "absent" \in May[p]
  /\ PrintError(p, r)
  /\ IF r = "sent"
     THEN /\ unread' = unread \ {p}
          /\ entries' = Append(entries, [path |-> p, dir |-> d, bad |-> TRUE])
          /\ exitCode' = AfterBadEntry
          /\ UNCHANGED <<pc, cur, ok, heap>>
     ELSE /\ exitCode' = 2
          /\ DropDir

(* An allocation fails: a hard failure.                                    *)
ReadFails(p) ==
  /\ Reading(p) /\ Shown(p)
  /\ outputFailed' = TRUE /\ exitCode' = 2
  /\ DropDir
  /\ UNCHANGED <<stdout, delivered, errs>>

(* readdir returns NULL, at the end or on an error alike, and the entries  *)
(* are sorted.  Names removed in the meantime are not returned.            *)
ReadEnd ==
  /\ pc = "read"
  /\ entries' \in Arranged(entries, args.reverse)
  /\ unread' = {}
  /\ index' = Len(entries)
  /\ pc' = "queue"
  /\ UNCHANGED <<given, queues, cur, output, exitCode, separator, ok, memory>>

SortFails ==
  /\ pc = "read" /\ ~args.unsort /\ Len(entries) > 1
  /\ FreeCur
  /\ unread' = {} /\ GiveUp
  /\ UNCHANGED <<given, index, queues, entries, output, exitCode, separator,
                 nextId>>

(* Mutant of Descends: stat_unavailable is not consulted.                  *)
DescendsStale(e) == e.dir /\ e.path \notin Dots

(* The entries queue_recursive_dirs_ queues.                               *)
Descends(e) == ~e.bad /\ e.dir /\ e.path \notin Dots

(* Mutant of AfterSkip: the decrement follows the "continue".              *)
AfterSkipUndecremented == index

(* The loop index after a skipped entry.                                   *)
AfterSkip == index - 1

QueueSkip ==
  /\ pc = "queue" /\ args.recursive /\ index > 0
  /\ ~Descends(entries[index])
  /\ index' = AfterSkip
  /\ UNCHANGED <<given, pc, queues, loading, output, exitCode, separator, ok,
                 memory>>

(* Mutant of PushedDir: a queue in place of the stack.                     *)
PushedFirst(q, d) == <<d>> \o q

(* array_append(&params->dir_queue, dir_entry).                            *)
PushedDir(q, d) == Append(q, d)

QueueChild ==
  /\ pc = "queue" /\ args.recursive /\ index > 0
  /\ Descends(entries[index])
  /\ NewEntry
  /\ dirQueue' = PushedDir(dirQueue,
                           [id |-> nextId, path |-> entries[index].path,
                            operand |-> FALSE, from |-> cur.id])
  /\ index' = index - 1
  /\ UNCHANGED <<given, pc, files, loading, output, exitCode, separator, ok>>

QueueChildFails ==
  /\ pc = "queue" /\ args.recursive /\ index > 0
  /\ Descends(entries[index])
  /\ FreeCur /\ GiveUp
  /\ UNCHANGED <<given, index, queues, unread, entries, output, exitCode,
                 separator, nextId>>

QueueDone ==
  /\ pc = "queue" /\ (~args.recursive \/ index = 0)
  /\ pc' = "print"
  /\ UNCHANGED <<given, index, queues, loading, output, exitCode, separator, ok,
                 memory>>

(* Mutant of Header: the number of operands is not consulted.              *)
HeaderRecursive == args.recursive

(* print_dir_path *)
Header == args.recursive \/ Len(operands) > 1

PrintDir ==
  /\ pc = "print"
  /\ HandOver((IF printedDir THEN <<Blank>> ELSE << >>)
              \o <<Block(cur, entries, Header)>>)
  /\ printedDir' = TRUE
  /\ FreeCur
  /\ entries' = << >>
  /\ pc' = "next"
  /\ UNCHANGED <<given, index, queues, unread, exitCode, printedFiles, gapDone,
                 ok, nextId>>

PrintDirFails ==
  /\ pc = "print"
  /\ HandOver(<<Partial>>) \/ UNCHANGED output
  /\ FreeCur /\ GiveUp
  /\ UNCHANGED <<given, index, queues, unread, entries, exitCode, separator,
                 nextId>>
-----------------------------------------------------------------------------
(* The last flush of run_listing_, and cleanup_process_. *)

(* Mutant of FinalCode: the result of the last flush is dropped.           *)
FinalCodeUnflushed(flushed) == IF ok THEN exitCode ELSE 2

(* The exit code when run_listing_ has returned flushed && ok.             *)
FinalCode(flushed) == IF flushed /\ ok THEN exitCode ELSE 2

LastFlush(flushed) ==
  /\ pc = "flush"
  /\ flushed \/ delivered < Len(stdout)
  /\ delivered' = IF flushed THEN Len(stdout) ELSE delivered
  /\ exitCode' = FinalCode(flushed)
  /\ pc' = "cleanup"
  /\ UNCHANGED <<given, index, queues, loading, stdout, errs, outputFailed,
                 separator, ok, memory>>

Cleanup ==
  /\ pc = "cleanup"
  /\ heap' = heap \ (Ids(dirQueue) \cup Ids(files))
  /\ dirQueue' = << >> /\ files' = << >> /\ entries' = << >>
  /\ pc' = "exit"
  /\ UNCHANGED <<given, index, cur, unread, output, exitCode, separator, ok,
                 nextId>>

Collect ==
  \/ \E r \in Outcomes : CollectMissing(r) \/ CollectUnreadableLink(r)
  \/ CollectDir \/ CollectFile \/ CollectUnreadableLinkFails \/ CollectFails
  \/ CollectDone \/ CollectSortFails

ListOperands == NoFiles \/ PrintFiles \/ PrintFilesFails \/ ListingFails

Load ==
  \/ OpenDir
  \/ \E r \in Outcomes : OpenFails(r)
  \/ \E p \in Path :
       \/ SkipHidden(p)
       \/ \E answer \in Answers : ReadEntry(p, answer)
       \/ \E r \in Outcomes, d \in BOOLEAN : ReadUnstatable(p, r, d)
       \/ ReadFails(p)
  \/ ReadEnd \/ SortFails

ListDirs ==
  \/ QueueEmpty \/ PopDir \/ GapFails
  \/ QueueSkip \/ QueueChild \/ QueueChildFails \/ QueueDone
  \/ PrintDir \/ PrintDirFails

Next ==
  \/ Start \/ StartFails
  \/ Collect
  \/ ListOperands
  \/ Load
  \/ ListDirs
  \/ \E flushed \in BOOLEAN : LastFlush(flushed)
  \/ Cleanup

Spec == Init /\ [][Next]_vars

(***************************************************************************)
(* The process is scheduled, and every system call returns: process() is   *)
(* sequential, so one of its steps is always next until it returns.        *)
(***************************************************************************)
FairSpec == Spec /\ WF_vars(Next)
-----------------------------------------------------------------------------
(* Blocks of the output. *)

DirBlocks == {k \in 1..Len(stdout) : stdout[k].kind = "dir"}

IsParent(p, k) == p \in DirBlocks /\ p < k /\ stdout[p].id = stdout[k].from

Items ==
  [kind : {"dir"}, id : Nat, from : Nat, operand : BOOLEAN, path : Path,
   header : BOOLEAN, entries : Seq(NameEntry)]
  \cup [kind : {"files"}, paths : Seq(Path)]
  \cup [kind : {"blank", "partial"}]

(* The types of the variables (t_params, t_entry).                         *)
TypeOK ==
  /\ args \in Options /\ operands \in Seq(Path)
  /\ pc \in PCs /\ index \in Nat
  /\ dirQueue \in Seq(DirEntry) /\ files \in Seq(FileEntry)
  /\ cur \in DirEntry \cup {NoDir}
  /\ unread \subseteq Path /\ entries \in Seq(NameEntry)
  /\ stdout \in Seq(Items) /\ delivered \in Nat
  /\ errs \in Seq(Path) /\ outputFailed \in BOOLEAN
  /\ exitCode \in 0..2
  /\ printedFiles \in BOOLEAN /\ printedDir \in BOOLEAN /\ gapDone \in BOOLEAN
  /\ ok \in BOOLEAN
  /\ heap \subseteq Nat /\ nextId \in Nat

(* Every malloc'ed entry has exactly one owner (dir_queue, operand_files   *)
(* or dir_path) until it is freed, on every error path too; an owned entry *)
(* is alive, and none is left when process() returns.                      *)
CurIds == IF cur = NoDir THEN {} ELSE {cur.id}
Distinct(q) == \A i, j \in 1..Len(q) : q[i].id = q[j].id => i = j
OneOwner ==
  /\ Distinct(dirQueue) /\ Distinct(files)
  /\ Ids(dirQueue) \cap Ids(files) = {}
  /\ CurIds \cap (Ids(dirQueue) \cup Ids(files)) = {}
Ownership ==
  /\ OneOwner
  /\ heap = Ids(dirQueue) \cup Ids(files) \cup CurIds
  /\ pc = "exit" => heap = {}

(* Sibling directories come in the order their parent lists them, and the  *)
(* operands in sorted order, or as given with -f: the queue is popped from *)
(* its end, so it is filled backwards (ft_walk.c:313, :211, :479).         *)
Before(s, x, y) ==
  \E m, n \in 1..Len(s) : m < n /\ s[m] = x /\ s[n] = y
Listed(block) == [i \in 1..Len(block.entries) |-> block.entries[i].path]

SiblingsInOrder ==
  \A j, k \in DirBlocks :
    j < k /\ stdout[j].from = stdout[k].from =>
      IF ~stdout[j].operand
      THEN \E p \in DirBlocks :
             IsParent(p, j)
               /\ Before(Listed(stdout[p]), stdout[j].path, stdout[k].path)
      ELSE IF args.unsort
      THEN Before(operands, stdout[j].path, stdout[k].path)
      ELSE InOrder(stdout[j], stdout[k], args.reverse)

(* A reader can tell the blocks apart: when more than one thing is listed  *)
(* every directory block carries its path.                                 *)
Labelled ==
  \A j, k \in 1..Len(stdout) :
    j # k /\ stdout[j].kind \in {"dir", "files"} /\ k \in DirBlocks =>
      stdout[k].header

(* Exactly one empty line separates two things that are listed, and none   *)
(* precedes the first, whichever operands are missing or unreadable        *)
(* (ft_walk.c:217, :245).                                                  *)
Separated ==
  \A k \in 1..Len(stdout) :
    /\ stdout[k].kind = "blank" =>
         k > 1 /\ stdout[k - 1].kind \in {"dir", "files"}
    /\ k > 1 /\ stdout[k].kind \in {"dir", "files"} =>
         stdout[k - 1].kind = "blank"

(* Exit code 0 promises a complete listing: no error was reported, all of  *)
(* the output has been written, every operand has been listed, and under   *)
(* -R every directory in a listing has exactly one block of its own.       *)
OperandListed(p) ==
  \E k \in 1..Len(stdout) :
    \/ stdout[k].kind = "dir" /\ stdout[k].operand /\ stdout[k].path = p
    \/ /\ stdout[k].kind = "files"
       /\ \E i \in 1..Len(stdout[k].paths) : stdout[k].paths[i] = p
SubdirsListed(k) ==
  \A i \in 1..Len(stdout[k].entries) :
    Descends(stdout[k].entries[i]) =>
      \E c \in DirBlocks :
        /\ IsParent(k, c) /\ stdout[c].path = stdout[k].entries[i].path
        /\ \A d \in DirBlocks :
             IsParent(k, d) /\ stdout[d].path = stdout[c].path => d = c
ExitZeroMeansComplete ==
  pc = "exit" /\ exitCode = 0 =>
    /\ errs = << >>
    /\ delivered = Len(stdout)
    /\ \A i \in 1..Len(operands) : OperandListed(operands[i])
    /\ args.recursive => \A k \in DirBlocks : SubdirsListed(k)

(* README.md:12 and ft_walk.c:444: an error on a subdirectory does not     *)
(* hide that of an operand; the exit code of a run never goes down.        *)
ExitNeverLowered == [][exitCode' >= exitCode]_vars

(* The listing ends, whatever the system calls answer.                     *)
Termination == <>(pc = "exit")
-----------------------------------------------------------------------------
(***************************************************************************)
(* The listing implements Traversal.  While a directory is loaded, queued  *)
(* and printed it is still the head of the agenda, and the children that   *)
(* queue_recursive_dirs_ has pushed so far are not part of it yet; the     *)
(* agenda exists from the first pop to the end of process_queue_.          *)
(***************************************************************************)
Status ==
  IF pc \in {"start", "collect", "files"} THEN "collecting"
  ELSE IF pc \in {"next", "open", "read", "queue", "print"} THEN "listing"
  ELSE "ended"

(* The children of cur are on top of the stack.                            *)
Waiting == {i \in 1..Len(dirQueue) : cur = NoDir \/ dirQueue[i].from # cur.id}
PendingDirs == SubSeq(dirQueue, 1, Cardinality(Waiting))

Agenda ==
  IF Status # "listing" THEN << >>
  ELSE (IF cur = NoDir THEN << >> ELSE <<cur>>) \o Reverse(PendingDirs)

(* The directory blocks of the output, in order: the n-th is the one with  *)
(* n blocks up to its end.                                                 *)
Place(k) == Cardinality({j \in DirBlocks : j <= k})
Nth(n) == CHOOSE k \in DirBlocks : Place(k) = n
Listings == [n \in 1..Cardinality(DirBlocks) |-> stdout[Nth(n)]]

Abstract == INSTANCE Traversal WITH
  Options <- ArgSets,
  args <- args,
  status <- Status,
  agenda <- Agenda,
  listed <- Listings,
  failed <- exitCode # 0 \/ (Status = "ended" /\ ~ok),
  report <- IF pc # "exit" THEN "none"
            ELSE IF exitCode = 0 THEN "ok" ELSE "error"

(* process() implements the agenda of Traversal: depth first, siblings in  *)
(* the order of the listing they come from, nothing descended into that    *)
(* was not listed as a directory, nothing left out without a failure that  *)
(* is reported (ft_walk.c:214, :477, :483).                                *)
TraversalSpec == Abstract!Spec
=============================================================================
