----------------------------- MODULE WalkProofs -----------------------------
(***************************************************************************)
(* Theorems about Walk, for every tree, every list of operands and every   *)
(* combination of options.                                                 *)
(***************************************************************************)
EXTENDS Walk, FiniteSetTheorems, SequenceTheorems, TLAPS

(* Where the loop indices and the current directory are meaningful.        *)
IndexOK ==
  /\ pc \in {"start", "collect"} => index >= 1
  /\ pc = "queue" => index <= Len(entries)

CurOK == cur \in DirEntry <=> pc \in {"open", "read", "queue", "print"}

TInv == TypeOK /\ IndexOK /\ CurOK
-----------------------------------------------------------------------------
(* Sequences. *)

LEMMA AppendFacts ==
  ASSUME NEW S, NEW q \in Seq(S), NEW d \in S
  PROVE  /\ Append(q, d) \in Seq(S)
         /\ Len(q) \in Nat /\ Len(Append(q, d)) = Len(q) + 1
         /\ \A i \in 1..Len(q) : Append(q, d)[i] = q[i]
         /\ Append(q, d)[Len(q) + 1] = d
OBVIOUS

LEMMA FrontFacts ==
  ASSUME NEW S, NEW q \in Seq(S), q # << >>
  PROVE  /\ Front(q) \in Seq(S) /\ Last(q) \in S
         /\ Len(q) \in Nat \ {0} /\ Len(Front(q)) = Len(q) - 1
         /\ \A i \in 1..(Len(q) - 1) : Front(q)[i] = q[i]
         /\ Last(q) = q[Len(q)]
<1>1. Len(q) \in Nat \ {0}
  BY EmptySeq
<1>2. \A i \in 1..Len(q) : q[i] \in S
  BY ElementOfSeq
<1>3. Last(q) = q[Len(q)] /\ Last(q) \in S
  BY <1>1, <1>2 DEF Last
<1> DEFINE m == Len(q) - 1
<1>4. m \in Int /\ 1 \in Int /\ m >= 0 /\ \A i \in 1..m : q[i] \in S
  BY <1>1, <1>2
<1>5. Front(q) = SubSeq(q, 1, m)
  BY DEF Front
<1> HIDE DEF m
<1>6. /\ SubSeq(q, 1, m) \in Seq(S)
      /\ Len(SubSeq(q, 1, m)) = IF 1 <= m THEN m - 1 + 1 ELSE 0
      /\ \A i \in 1..(m - 1 + 1) : SubSeq(q, 1, m)[i] = q[1 + i - 1]
  BY <1>4, SubSeqProperties
<1>7. Front(q) \in Seq(S) /\ Len(Front(q)) = m
  BY <1>4, <1>5, <1>6
<1>8. ASSUME NEW i \in 1..m PROVE Front(q)[i] = q[i]
  <2>1. i \in 1..(m - 1 + 1) /\ 1 + i - 1 = i
    BY <1>4
  <2>2. QED
    BY <2>1, <1>5, <1>6
<1>9. QED
  BY <1>1, <1>3, <1>7, <1>8 DEF m

(* A sorted copy is a rearrangement: what sort() may do to an array. *)
Rearranges(t, q) ==
  \E p \in [1..Len(q) -> 1..Len(q)] :
    /\ \A i, j \in 1..Len(q) : p[i] = p[j] => i = j
    /\ \A k \in 1..Len(q) : \E i \in 1..Len(q) : p[i] = k
    /\ t = [i \in 1..Len(q) |-> q[p[i]]]

LEMMA IdentityRearranges ==
  ASSUME NEW S, NEW q \in Seq(S)
  PROVE  Rearranges(q, q)
<1> DEFINE n == Len(q)
           id == [i \in 1..n |-> i]
<1>1. id \in [1..n -> 1..n] /\ n \in Nat
  OBVIOUS
<1>2. q = [i \in 1..n |-> q[id[i]]]
  OBVIOUS
<1>3. QED
  BY <1>1, <1>2 DEF Rearranges

LEMMA ArrangedRearranges ==
  ASSUME NEW S, NEW q \in Seq(S), NEW r, NEW t \in Arranged(q, r)
  PROVE  Rearranges(t, q)
<1>1. CASE args.unsort
  BY <1>1, IdentityRearranges DEF Arranged
<1>2. CASE ~args.unsort
  <2>1. PICK p \in Bijection(1..Len(q), 1..Len(q)) :
               t = [i \in 1..Len(q) |-> q[p[i]]]
    BY <1>2 DEF Arranged, Sorts
  <2>2. QED
    BY <2>1 DEF Rearranges, Bijection, Injection, Surjection, IsInjective
<1>3. QED
  BY <1>1, <1>2

LEMMA ReverseRearranges ==
  ASSUME NEW S, NEW q \in Seq(S)
  PROVE  Rearranges(Reverse(q), q)
<1> DEFINE n == Len(q)
           back == [i \in 1..n |-> (n - i) + 1]
<1>1. n \in Nat
  OBVIOUS
<1>2. back \in [1..n -> 1..n]
  BY <1>1
<1>3. \A i, j \in 1..n : back[i] = back[j] => i = j
  BY <1>1
<1>4. \A k \in 1..n : \E i \in 1..n : back[i] = k
  <2> TAKE k \in 1..n
  <2> WITNESS (n - k) + 1 \in 1..n
  <2> QED
    BY <1>1
<1>5. Reverse(q) = [i \in 1..n |-> q[back[i]]]
  BY DEF Reverse
<1> HIDE DEF back
<1>6. QED
  BY <1>2, <1>3, <1>4, <1>5 DEF Rearranges

LEMMA RearrangedFacts ==
  ASSUME NEW S, NEW q \in Seq(S), NEW t, Rearranges(t, q)
  PROVE  /\ t \in Seq(S) /\ Len(t) = Len(q)
         /\ Ids(t) = Ids(q)
         /\ Distinct(q) => Distinct(t)
<1> DEFINE n == Len(q)
<1>1. n \in Nat
  OBVIOUS
<1>2. PICK p \in [1..n -> 1..n] :
        /\ \A i, j \in 1..n : p[i] = p[j] => i = j
        /\ \A k \in 1..n : \E i \in 1..n : p[i] = k
        /\ t = [i \in 1..n |-> q[p[i]]]
  BY DEF Rearranges
<1> HIDE DEF n
<1>3. \A k \in 1..n : q[k] \in S
  BY ElementOfSeq DEF n
<1>4. t \in [1..n -> S]
  BY <1>2, <1>3
<1>5. t \in Seq(S)
  BY <1>1, <1>4, SeqDef
<1>6. Len(t) = n
  BY <1>1, <1>4, <1>5, LenProperties
<1>7. \A i \in 1..n : t[i] = q[p[i]] /\ p[i] \in 1..n
  BY <1>2
<1>8. Ids(t) = Ids(q)
  <2>1. Ids(t) = {t[i].id : i \in 1..n} /\ Ids(q) = {q[i].id : i \in 1..n}
    BY <1>6 DEF Ids, n
  <2>2. QED
    BY <2>1, <1>2, <1>7
<1>9. ASSUME Distinct(q) PROVE Distinct(t)
  <2>1. \A i, j \in 1..n : q[i].id = q[j].id => i = j
    BY <1>9 DEF Distinct, n
  <2>2. \A i, j \in 1..n : t[i].id = t[j].id => i = j
    <3> TAKE i, j \in 1..n
    <3> HAVE t[i].id = t[j].id
    <3>1. p[i] = p[j]
      BY <1>7, <2>1
    <3>2. QED
      BY <3>1, <1>2
  <2>3. QED
    BY <2>2, <1>6 DEF Distinct
<1>10. QED
  BY <1>5, <1>6, <1>8, <1>9 DEF n
-----------------------------------------------------------------------------
(* Types. *)

(* The parts of TypeOK. *)
ControlType ==
  /\ args \in Options /\ operands \in Seq(Path)
  /\ pc \in PCs /\ index \in Nat /\ exitCode \in 0..2

FlagsType ==
  /\ printedFiles \in BOOLEAN /\ printedDir \in BOOLEAN /\ gapDone \in BOOLEAN
  /\ ok \in BOOLEAN

QueuesType == dirQueue \in Seq(DirEntry) /\ files \in Seq(FileEntry)

LoadingType ==
  /\ cur \in DirEntry \cup {NoDir}
  /\ unread \subseteq Path /\ entries \in Seq(NameEntry)

MemoryType == heap \subseteq Nat /\ nextId \in Nat

OutputType ==
  /\ stdout \in Seq(Items) /\ delivered \in Nat
  /\ errs \in Seq(Path) /\ outputFailed \in BOOLEAN

LEMMA TypeParts ==
  TypeOK <=> /\ ControlType /\ FlagsType /\ QueuesType /\ LoadingType
             /\ OutputType /\ MemoryType
BY DEF TypeOK, ControlType, FlagsType, QueuesType, LoadingType, OutputType,
       MemoryType

LEMMA InitTInv == Init => TInv
<1> SUFFICES ASSUME Init PROVE TInv
  OBVIOUS
<1>1. /\ << >> \in Seq(DirEntry) /\ << >> \in Seq(FileEntry)
      /\ << >> \in Seq(NameEntry) /\ << >> \in Seq(Items) /\ << >> \in Seq(Path)
  BY EmptySeq
<1>2. args \in Options /\ operands \in Seq(Path)
  BY RunAssumption DEF Init
<1>3. TypeOK
  <2>1. ControlType /\ MemoryType
    BY <1>2 DEF Init, ControlType, MemoryType, PCs
  <2>2. FlagsType
    BY DEF Init, FlagsType
  <2>3. QueuesType /\ LoadingType
    BY <1>1 DEF Init, QueuesType, LoadingType
  <2>4. OutputType
    BY <1>1 DEF Init, OutputType
  <2>5. QED
    BY <2>1, <2>2, <2>3, <2>4, TypeParts
<1>4. IndexOK /\ CurOK
  BY NoDirAssumption DEF Init, IndexOK, CurOK
<1>5. QED
  BY <1>3, <1>4 DEF TInv

LEMMA HandOverType ==
  ASSUME OutputType, NEW items \in Seq(Items), HandOver(items)
  PROVE  OutputType'
<1>1. stdout \o items \in Seq(Items) /\ Len(stdout) \in Nat
  BY ConcatProperties, LenProperties DEF OutputType
<1>2. QED
  BY <1>1 DEF OutputType, HandOver

LEMMA PrintErrorType ==
  ASSUME OutputType, NEW p \in Path, NEW r \in Outcomes, PrintError(p, r)
  PROVE  OutputType'
<1>1. Append(errs, p) \in Seq(Path) /\ Len(stdout) \in Nat
  BY AppendFacts DEF OutputType
<1>2. stdout' \in Seq(Items)
  BY DEF OutputType, PrintError
<1>3. delivered' = delivered \/ delivered' = Len(stdout)
  BY DEF PrintError, Flushed
<1>4. delivered' \in Nat
  BY <1>1, <1>3 DEF OutputType
<1>5. errs' \in Seq(Path)
  BY <1>1 DEF OutputType, PrintError
<1>6. outputFailed' \in BOOLEAN
  BY DEF OutputType, PrintError
<1>7. QED
  BY <1>2, <1>4, <1>5, <1>6 DEF OutputType

LEMMA OperandType ==
  ASSUME TInv, pc = "collect", index <= Len(operands)
  PROVE  Operand \in Path
<1>1. index \in 1..Len(operands) /\ operands \in Seq(Path)
  BY DEF TInv, TypeOK, IndexOK
<1>2. QED
  BY <1>1, ElementOfSeq DEF Operand
-----------------------------------------------------------------------------
(* What a step does to the entries and their owners.                       *)

KeepsEntries ==
  /\ Rearranges(dirQueue', dirQueue) /\ files' = files /\ cur' = cur
  /\ heap' = heap /\ nextId' = nextId

QueuesNewDir ==
  /\ \E d \in DirEntry : d.id = nextId /\ dirQueue' = Append(dirQueue, d)
  /\ files' = files /\ cur' = cur
  /\ heap' = heap \cup {nextId} /\ nextId' = nextId + 1

AddsNewFile ==
  /\ \E f \in FileEntry : f.id = nextId /\ files' = Append(files, f)
  /\ dirQueue' = dirQueue /\ cur' = cur
  /\ heap' = heap \cup {nextId} /\ nextId' = nextId + 1

PopsDir ==
  /\ dirQueue # << >> /\ cur = NoDir
  /\ cur' = Last(dirQueue) /\ dirQueue' = Front(dirQueue)
  /\ files' = files /\ heap' = heap /\ nextId' = nextId

FreesCur ==
  /\ cur \in DirEntry
  /\ cur' = NoDir /\ heap' = heap \ {cur.id}
  /\ dirQueue' = dirQueue /\ files' = files /\ nextId' = nextId

FreesFiles ==
  /\ files' = << >> /\ heap' = heap \ Ids(files)
  /\ Rearranges(dirQueue', dirQueue) /\ cur' = cur /\ nextId' = nextId

FreesTop ==
  /\ dirQueue # << >> /\ cur = NoDir /\ cur' = cur
  /\ dirQueue' = Front(dirQueue) /\ heap' = heap \ {Last(dirQueue).id}
  /\ files' = files /\ nextId' = nextId

FreesAll ==
  /\ pc = "cleanup" /\ cur = NoDir /\ cur' = cur
  /\ dirQueue' = << >> /\ files' = << >>
  /\ heap' = heap \ (Ids(dirQueue) \cup Ids(files))
  /\ nextId' = nextId

EntryEffect ==
  \/ KeepsEntries \/ QueuesNewDir \/ AddsNewFile \/ PopsDir
  \/ FreesCur \/ FreesFiles \/ FreesTop \/ FreesAll

(* No step but a call of entry_new_ or entry_free touches an entry.        *)
LEMMA EntriesKept ==
  ASSUME TInv, UNCHANGED <<queues, cur, memory>>
  PROVE  EntryEffect
<1>1. Rearranges(dirQueue, dirQueue)
  BY IdentityRearranges DEF TInv, TypeOK
<1>2. QED
  BY <1>1 DEF EntryEffect, KeepsEntries, queues, memory

LEMMA PopOrderRearranges ==
  ASSUME TInv, AfterFiles
  PROVE  Rearranges(dirQueue', dirQueue)
<1>1. dirQueue \in Seq(DirEntry)
  BY DEF TInv, TypeOK
<1>2. Rearranges(dirQueue, dirQueue) /\ Rearranges(Reverse(dirQueue), dirQueue)
  BY <1>1, IdentityRearranges, ReverseRearranges
<1>3. dirQueue' = dirQueue \/ dirQueue' = Reverse(dirQueue)
  BY DEF AfterFiles, PopOrder
<1>4. QED
  BY <1>2, <1>3

LEMMA CurIsDir ==
  ASSUME TInv
  PROVE  /\ pc \in {"open", "read", "queue", "print"} => cur \in DirEntry
         /\ pc \notin {"open", "read", "queue", "print"} => cur = NoDir
BY NoDirAssumption DEF TInv, TypeOK, CurOK

LEMMA AddDirEffect ==
  ASSUME TInv, pc = "collect", index <= Len(operands), AddDir, cur' = cur
  PROVE  EntryEffect
<1> DEFINE d == [id |-> nextId, path |-> Operand, operand |-> TRUE, from |-> 0]
<1>1. nextId \in Nat /\ Operand \in Path
  BY OperandType DEF TInv, TypeOK
<1>2. d \in DirEntry /\ d.id = nextId
  BY <1>1 DEF DirEntry
<1>3. dirQueue' = Append(dirQueue, d)
  BY DEF AddDir
<1> HIDE DEF d
<1>4. QED
  BY <1>2, <1>3 DEF AddDir, NewEntry, EntryEffect, QueuesNewDir

LEMMA AddFileEffect ==
  ASSUME TInv, pc = "collect", index <= Len(operands), AddFile, cur' = cur
  PROVE  EntryEffect
<1> DEFINE f == [id |-> nextId, path |-> Operand]
<1>1. nextId \in Nat /\ Operand \in Path
  BY OperandType DEF TInv, TypeOK
<1>2. f \in FileEntry /\ f.id = nextId
  BY <1>1 DEF FileEntry
<1>3. files' = Append(files, f)
  BY DEF AddFile
<1> HIDE DEF f
<1>4. QED
  BY <1>2, <1>3 DEF AddFile, NewEntry, EntryEffect, AddsNewFile

LEMMA CollectEffect ==
  ASSUME TInv, Collect
  PROVE  EntryEffect
<1>1. ASSUME NEW r \in Outcomes, CollectMissing(r) PROVE EntryEffect
  BY <1>1, EntriesKept DEF CollectMissing, Collecting, loading
<1>2. ASSUME NEW r \in Outcomes, CollectUnreadableLink(r) PROVE EntryEffect
  BY <1>2, EntriesKept, AddFileEffect DEF CollectUnreadableLink, Collecting, loading
<1>3. CASE CollectDir
  BY <1>3, AddDirEffect DEF CollectDir, Collecting, loading
<1>4. CASE CollectFile
  BY <1>4, AddFileEffect DEF CollectFile, Collecting, loading
<1>5. CASE CollectUnreadableLinkFails \/ CollectFails \/ CollectSortFails
  BY <1>5, EntriesKept
     DEF CollectUnreadableLinkFails, CollectFails, CollectSortFails, Collecting,
         loading
<1>6. CASE CollectDone
  <2>1. Rearranges(dirQueue', dirQueue)
    BY <1>6, ArrangedRearranges DEF CollectDone, TInv, TypeOK
  <2>2. QED
    BY <1>6, <2>1 DEF CollectDone, EntryEffect, KeepsEntries, loading, memory
<1>7. QED
  BY <1>1, <1>2, <1>3, <1>4, <1>5, <1>6 DEF Collect

LEMMA ListOperandsEffect ==
  ASSUME TInv, ListOperands
  PROVE  EntryEffect
<1>1. CASE NoFiles
  BY <1>1, PopOrderRearranges
     DEF NoFiles, EntryEffect, KeepsEntries, loading, memory
<1>2. CASE PrintFiles
  BY <1>2, PopOrderRearranges DEF PrintFiles, EntryEffect, FreesFiles, loading
<1>3. CASE PrintFilesFails
  <2>1. Rearranges(dirQueue, dirQueue)
    BY IdentityRearranges DEF TInv, TypeOK
  <2>2. QED
    BY <1>3, <2>1 DEF PrintFilesFails, EntryEffect, FreesFiles, loading
<1>4. CASE ListingFails
  BY <1>4, EntriesKept DEF ListingFails, loading
<1>5. QED
  BY <1>1, <1>2, <1>3, <1>4 DEF ListOperands

(* Every action that frees dir_path has one to free. *)
LEMMA FreeCurEffect ==
  ASSUME TInv, pc \in {"open", "read", "queue", "print"},
         FreeCur, UNCHANGED <<queues, nextId>>
  PROVE  EntryEffect
BY CurIsDir DEF FreeCur, queues, EntryEffect, FreesCur

LEMMA LoadEffect ==
  ASSUME TInv, Load
  PROVE  EntryEffect
<1>1. CASE OpenDir \/ ReadEnd
  BY <1>1, EntriesKept DEF OpenDir, ReadEnd, queues, memory
<1>2. CASE SortFails
  BY <1>2, FreeCurEffect DEF SortFails, queues
<1>3. ASSUME NEW r \in Outcomes, OpenFails(r) PROVE EntryEffect
  BY <1>3, FreeCurEffect DEF OpenFails, DropDir, queues
<1>4. ASSUME NEW p \in Path, SkipHidden(p) PROVE EntryEffect
  BY <1>4, EntriesKept DEF SkipHidden, Reading, queues, memory
<1>5. ASSUME NEW p \in Path, NEW a \in Answers, ReadEntry(p, a) PROVE EntryEffect
  BY <1>5, EntriesKept DEF ReadEntry, Reading, queues, memory
<1>6. ASSUME NEW p \in Path, NEW r \in Outcomes, NEW d \in BOOLEAN,
             ReadUnstatable(p, r, d)
      PROVE  EntryEffect
  <2>1. CASE r = "sent"
    BY <1>6, <2>1, EntriesKept DEF ReadUnstatable, Reading, queues, memory
  <2>2. CASE r # "sent"
    BY <1>6, <2>2, FreeCurEffect DEF ReadUnstatable, Reading, DropDir, queues
  <2>3. QED
    BY <2>1, <2>2
<1>7. ASSUME NEW p \in Path, ReadFails(p) PROVE EntryEffect
  BY <1>7, FreeCurEffect DEF ReadFails, Reading, DropDir, queues
<1>8. QED
  BY <1>1, <1>2, <1>3, <1>4, <1>5, <1>6, <1>7 DEF Load

LEMMA QueueChildEffect ==
  ASSUME TInv, QueueChild
  PROVE  EntryEffect
<1> DEFINE d == [id |-> nextId, path |-> entries[index].path,
                 operand |-> FALSE, from |-> cur.id]
<1>1. entries[index] \in NameEntry
  BY ElementOfSeq DEF QueueChild, TInv, TypeOK, IndexOK
<1>2. cur \in DirEntry /\ nextId \in Nat
  BY CurIsDir DEF QueueChild, TInv, TypeOK
<1>3. d \in DirEntry /\ d.id = nextId
  BY <1>1, <1>2 DEF DirEntry, NameEntry
<1>4. dirQueue' = Append(dirQueue, d)
  BY DEF QueueChild, PushedDir
<1> HIDE DEF d
<1>5. QED
  BY <1>3, <1>4 DEF QueueChild, NewEntry, loading, EntryEffect, QueuesNewDir

LEMMA ListDirsEffect ==
  ASSUME TInv, ListDirs
  PROVE  EntryEffect
<1>1. CASE QueueEmpty \/ QueueSkip \/ QueueDone
  BY <1>1, EntriesKept DEF QueueEmpty, QueueSkip, QueueDone, loading
<1>2. CASE PopDir
  BY <1>2, CurIsDir DEF PopDir, EntryEffect, PopsDir, memory
<1>3. CASE GapFails
  BY <1>3, CurIsDir DEF GapFails, EntryEffect, FreesTop, loading
<1>4. CASE QueueChild
  BY <1>4, QueueChildEffect
<1>5. CASE QueueChildFails \/ PrintDir \/ PrintDirFails
  BY <1>5, FreeCurEffect DEF QueueChildFails, PrintDir, PrintDirFails, queues
<1>6. QED
  BY <1>1, <1>2, <1>3, <1>4, <1>5 DEF ListDirs

LEMMA StepEffect ==
  ASSUME TInv, [Next]_vars
  PROVE  EntryEffect
<1>1. CASE Start \/ StartFails \/ \E flushed \in BOOLEAN : LastFlush(flushed)
  BY <1>1, EntriesKept DEF Start, StartFails, LastFlush, loading
<1>2. CASE Cleanup
  BY <1>2, CurIsDir DEF Cleanup, EntryEffect, FreesAll
<1>3. CASE UNCHANGED vars
  BY <1>3, EntriesKept DEF vars, loading
<1>4. QED
  BY <1>1, <1>2, <1>3, CollectEffect, ListOperandsEffect, LoadEffect,
     ListDirsEffect DEF Next
-----------------------------------------------------------------------------
(* The entries and their owners keep their types. *)

EntriesType == QueuesType /\ MemoryType /\ cur \in DirEntry \cup {NoDir}

LEMMA EffectType ==
  ASSUME EntriesType, EntryEffect
  PROVE  EntriesType'
<1>1. /\ dirQueue \in Seq(DirEntry) /\ files \in Seq(FileEntry)
      /\ heap \subseteq Nat /\ nextId \in Nat /\ nextId + 1 \in Nat
  BY DEF EntriesType, QueuesType, MemoryType
<1>2. << >> \in Seq(DirEntry) /\ << >> \in Seq(FileEntry)
  BY EmptySeq
<1>3. Rearranges(dirQueue', dirQueue) => dirQueue' \in Seq(DirEntry)
  BY <1>1, RearrangedFacts
<1>4. dirQueue # << >> => Front(dirQueue) \in Seq(DirEntry) /\ Last(dirQueue) \in DirEntry
  BY <1>1, FrontFacts
<1>5. \A d \in DirEntry : Append(dirQueue, d) \in Seq(DirEntry)
  BY <1>1, AppendFacts
<1>6. \A f \in FileEntry : Append(files, f) \in Seq(FileEntry)
  BY <1>1, AppendFacts
<1>7. QueuesType'
  BY <1>1, <1>2, <1>3, <1>4, <1>5, <1>6
     DEF QueuesType, EntryEffect, KeepsEntries, QueuesNewDir, AddsNewFile,
         PopsDir, FreesCur, FreesFiles, FreesTop, FreesAll
<1>8. MemoryType'
  BY <1>1
     DEF MemoryType, EntryEffect, KeepsEntries, QueuesNewDir, AddsNewFile,
         PopsDir, FreesCur, FreesFiles, FreesTop, FreesAll
<1>9. cur' \in DirEntry \cup {NoDir}
  BY <1>4
     DEF EntriesType, EntryEffect, KeepsEntries, QueuesNewDir, AddsNewFile,
         PopsDir, FreesCur, FreesFiles, FreesTop, FreesAll
<1>10. QED
  BY <1>7, <1>8, <1>9 DEF EntriesType
-----------------------------------------------------------------------------
(* What a step does to standard output and standard error.                 *)

OutputKept == UNCHANGED <<stdout, delivered, errs>> /\ outputFailed' \in BOOLEAN

Flushes ==
  /\ delivered' = Len(stdout) \/ delivered' = delivered
  /\ UNCHANGED <<stdout, errs, outputFailed>>

OutputEffect ==
  \/ OutputKept
  \/ \E items \in Seq(Items) : HandOver(items)
  \/ \E p \in Path, r \in Outcomes : PrintError(p, r)
  \/ Flushes

LEMMA Kept ==
  ASSUME TInv, UNCHANGED output
  PROVE  OutputEffect
BY DEF TInv, TypeOK, output, OutputEffect, OutputKept

LEMMA ItemTypes ==
  /\ << >> \in Seq(Items)
  /\ <<Blank>> \in Seq(Items) /\ <<Partial>> \in Seq(Items)
<1>1. Blank \in Items /\ Partial \in Items
  BY DEF Blank, Partial, Items
<1>2. QED
  BY <1>1

LEMMA CollectOutput ==
  ASSUME TInv, Collect
  PROVE  OutputEffect
<1>1. ASSUME NEW r \in Outcomes,
             CollectMissing(r) \/ CollectUnreadableLink(r)
      PROVE  OutputEffect
  BY <1>1, OperandType
     DEF CollectMissing, CollectUnreadableLink, Collecting, OutputEffect
<1>2. CASE CollectUnreadableLinkFails
  BY <1>2, OperandType
     DEF CollectUnreadableLinkFails, Collecting, OutputEffect, Outcomes
<1>3. CASE CollectDir \/ CollectFile \/ CollectFails \/ CollectDone
             \/ CollectSortFails
  BY <1>3, Kept
     DEF CollectDir, CollectFile, CollectFails, CollectDone, CollectSortFails
<1>4. QED
  BY <1>1, <1>2, <1>3 DEF Collect

LEMMA FilesItemType ==
  ASSUME TInv, NEW t \in Arranged(files, args.reverse)
  PROVE  <<FilesItem(t)>> \in Seq(Items)
<1>1. files \in Seq(FileEntry)
  BY DEF TInv, TypeOK
<1>2. t \in Seq(FileEntry)
  BY <1>1, ArrangedRearranges, RearrangedFacts
<1>3. Len(t) \in Nat /\ \A i \in 1..Len(t) : t[i].path \in Path
  <2>1. Len(t) \in Nat /\ \A i \in 1..Len(t) : t[i] \in FileEntry
    BY <1>2, ElementOfSeq, LenProperties
  <2>2. QED
    BY <2>1 DEF FileEntry
<1>4. [i \in 1..Len(t) |-> t[i].path] \in Seq(Path)
  BY <1>3, SeqDef
<1>5. FilesItem(t) \in Items
  BY <1>4 DEF FilesItem, Items
<1>6. QED
  BY <1>5

LEMMA ListOperandsOutput ==
  ASSUME TInv, ListOperands
  PROVE  OutputEffect
<1>1. CASE NoFiles \/ ListingFails
  BY <1>1, Kept DEF NoFiles, ListingFails
<1>2. CASE PrintFiles
  BY <1>2, FilesItemType DEF PrintFiles, OutputEffect
<1>3. CASE PrintFilesFails
  BY <1>3, Kept, ItemTypes DEF PrintFilesFails, OutputEffect
<1>4. QED
  BY <1>1, <1>2, <1>3 DEF ListOperands

LEMMA LoadOutput ==
  ASSUME TInv, Load
  PROVE  OutputEffect
<1>1. CASE OpenDir \/ ReadEnd \/ SortFails
  BY <1>1, Kept DEF OpenDir, ReadEnd, SortFails
<1>2. ASSUME NEW r \in Outcomes, OpenFails(r) PROVE OutputEffect
  <2>1. cur.path \in Path
    BY <1>2, CurIsDir DEF OpenFails, DirEntry
  <2>2. QED
    BY <1>2, <2>1 DEF OpenFails, OutputEffect
<1>3. ASSUME NEW p \in Path, SkipHidden(p) PROVE OutputEffect
  BY <1>3, Kept DEF SkipHidden
<1>4. ASSUME NEW p \in Path, NEW a \in Answers, ReadEntry(p, a) PROVE OutputEffect
  BY <1>4, Kept DEF ReadEntry
<1>5. ASSUME NEW p \in Path, NEW r \in Outcomes, NEW d \in BOOLEAN,
             ReadUnstatable(p, r, d)
      PROVE  OutputEffect
  BY <1>5 DEF ReadUnstatable, OutputEffect
<1>6. ASSUME NEW p \in Path, ReadFails(p) PROVE OutputEffect
  BY <1>6 DEF ReadFails, OutputEffect, OutputKept
<1>7. QED
  BY <1>1, <1>2, <1>3, <1>4, <1>5, <1>6 DEF Load

LEMMA BlockType ==
  ASSUME TInv, pc = "print"
  PROVE  Block(cur, entries, Header) \in Items
<1>1. cur \in DirEntry
  BY CurIsDir
<1>2. Header \in BOOLEAN /\ entries \in Seq(NameEntry)
  BY DEF Header, TInv, TypeOK
<1>3. QED
  BY <1>1, <1>2 DEF Block, Items, DirEntry

LEMMA ListDirsOutput ==
  ASSUME TInv, ListDirs
  PROVE  OutputEffect
<1>1. CASE QueueEmpty \/ GapFails \/ QueueSkip \/ QueueChild \/ QueueChildFails
             \/ QueueDone
  BY <1>1, Kept
     DEF QueueEmpty, GapFails, QueueSkip, QueueChild, QueueChildFails, QueueDone
<1>2. CASE PopDir
  BY <1>2, Kept, ItemTypes DEF PopDir, OutputEffect, output
<1>3. CASE PrintDir
  <2>1. <<Block(cur, entries, Header)>> \in Seq(Items)
    BY <1>3, BlockType DEF PrintDir
  <2>2. (IF printedDir THEN <<Blank>> ELSE << >>)
          \o <<Block(cur, entries, Header)>> \in Seq(Items)
    BY <2>1, ItemTypes, ConcatProperties
  <2>3. QED
    BY <1>3, <2>2 DEF PrintDir, OutputEffect
<1>4. CASE PrintDirFails
  BY <1>4, Kept, ItemTypes DEF PrintDirFails, OutputEffect
<1>5. QED
  BY <1>1, <1>2, <1>3, <1>4 DEF ListDirs

LEMMA StepOutput ==
  ASSUME TInv, [Next]_vars
  PROVE  OutputEffect
<1>1. CASE Start \/ StartFails \/ Cleanup
  BY <1>1, Kept DEF Start, StartFails, Cleanup
<1>2. ASSUME NEW flushed \in BOOLEAN, LastFlush(flushed) PROVE OutputEffect
  BY <1>2 DEF LastFlush, OutputEffect, Flushes
<1>3. CASE UNCHANGED vars
  BY <1>3, Kept DEF vars
<1>4. QED
  BY <1>1, <1>2, <1>3, CollectOutput, ListOperandsOutput, LoadOutput,
     ListDirsOutput DEF Next

LEMMA StepOutputType ==
  ASSUME OutputType, OutputEffect
  PROVE  OutputType'
<1>1. CASE OutputKept
  BY <1>1 DEF OutputKept, OutputType
<1>2. CASE Flushes
  BY <1>2, LenProperties DEF Flushes, OutputType
<1>3. QED
  BY <1>1, <1>2, HandOverType, PrintErrorType DEF OutputEffect
-----------------------------------------------------------------------------
(* Control. *)

LEMMA ControlLoad ==
  ASSUME ControlType, Load
  PROVE  ControlType'
<1>1. CASE OpenDir \/ ReadEnd \/ SortFails
  BY <1>1 DEF ControlType, PCs, OpenDir, ReadEnd, SortFails, given, GiveUp
<1>2. ASSUME NEW r \in Outcomes, OpenFails(r) PROVE ControlType'
  BY <1>2 DEF ControlType, PCs, OpenFails, DropDir, GiveUp, given
<1>3. ASSUME NEW p \in Path, SkipHidden(p) PROVE ControlType'
  BY <1>3 DEF ControlType, SkipHidden, Reading, given
<1>4. ASSUME NEW p \in Path, NEW a \in Answers, ReadEntry(p, a) PROVE ControlType'
  BY <1>4 DEF ControlType, ReadEntry, Reading, given
<1>5. ASSUME NEW p \in Path, NEW r \in Outcomes, NEW d \in BOOLEAN,
             ReadUnstatable(p, r, d)
      PROVE  ControlType'
  BY <1>5
     DEF ControlType, PCs, ReadUnstatable, Reading, AfterBadEntry, DropDir,
         GiveUp, given
<1>6. ASSUME NEW p \in Path, ReadFails(p) PROVE ControlType'
  BY <1>6 DEF ControlType, PCs, ReadFails, Reading, DropDir, GiveUp, given
<1>7. QED
  BY <1>1, <1>2, <1>3, <1>4, <1>5, <1>6 DEF Load

LEMMA ControlStep ==
  ASSUME TypeOK, [Next]_vars
  PROVE  ControlType'
<1> ControlType
  BY TypeParts
<1>1. CASE Start \/ StartFails \/ Cleanup
  BY <1>1 DEF ControlType, PCs, Start, StartFails, Cleanup, given
<1>2. CASE Collect
  BY <1>2
     DEF ControlType, PCs, Collect, CollectMissing, CollectUnreadableLink,
         CollectDir, CollectFile, CollectUnreadableLinkFails, CollectFails,
         CollectDone, CollectSortFails, Collecting, NextOperand, Fatal, given
<1>3. CASE ListOperands
  BY <1>3
     DEF ControlType, PCs, ListOperands, NoFiles, PrintFiles, PrintFilesFails,
         ListingFails, AfterFiles, GiveUp, given
<1>4. CASE Load
  BY <1>4, ControlLoad
<1>5. CASE ListDirs
  BY <1>5
     DEF ControlType, PCs, ListDirs, QueueEmpty, PopDir, GapFails, QueueSkip,
         QueueChild, QueueChildFails, QueueDone, PrintDir, PrintDirFails,
         AfterSkip, GiveUp, given
<1>6. ASSUME NEW flushed \in BOOLEAN, LastFlush(flushed) PROVE ControlType'
  BY <1>6 DEF ControlType, PCs, LastFlush, FinalCode, given
<1>7. CASE UNCHANGED vars
  BY <1>7 DEF ControlType, vars, given
<1>8. QED
  BY <1>1, <1>2, <1>3, <1>4, <1>5, <1>6, <1>7 DEF Next

LEMMA FlagsStep ==
  ASSUME TypeOK, [Next]_vars
  PROVE  FlagsType'
<1> FlagsType
  BY TypeParts
<1>1. CASE Start \/ StartFails \/ Cleanup \/ \E flushed \in BOOLEAN : LastFlush(flushed)
  BY <1>1 DEF FlagsType, Start, StartFails, Cleanup, LastFlush, separator
<1>2. CASE Collect
  BY <1>2
     DEF FlagsType, Collect, CollectMissing, CollectUnreadableLink, CollectDir,
         CollectFile, CollectUnreadableLinkFails, CollectFails, CollectDone,
         CollectSortFails, Collecting, separator
<1>3. CASE ListOperands
  BY <1>3
     DEF FlagsType, ListOperands, NoFiles, PrintFiles, PrintFilesFails,
         ListingFails, AfterFiles, GiveUp, separator
<1>4. CASE Load
  <2>1. UNCHANGED <<printedFiles, printedDir, gapDone>> /\ (ok' = ok \/ ok' = FALSE)
    BY <1>4
       DEF Load, OpenDir, OpenFails, SkipHidden, ReadEntry, ReadUnstatable,
           ReadFails, ReadEnd, SortFails, Reading, DropDir, GiveUp, separator
  <2>2. QED
    BY <2>1 DEF FlagsType
<1>5. CASE ListDirs
  BY <1>5
     DEF FlagsType, ListDirs, QueueEmpty, PopDir, GapFails, QueueSkip,
         QueueChild, QueueChildFails, QueueDone, PrintDir, PrintDirFails,
         GiveUp, separator
<1>6. CASE UNCHANGED vars
  BY <1>6 DEF FlagsType, vars, separator
<1>7. QED
  BY <1>1, <1>2, <1>3, <1>4, <1>5, <1>6 DEF Next

LEMMA LoadingStep ==
  ASSUME TInv, [Next]_vars
  PROVE  unread' \subseteq Path /\ entries' \in Seq(NameEntry)
<1> DEFINE Goal == unread' \subseteq Path /\ entries' \in Seq(NameEntry)
<1>1. unread \subseteq Path /\ entries \in Seq(NameEntry)
      /\ << >> \in Seq(NameEntry)
  BY EmptySeq DEF TInv, TypeOK
<1>2. CASE UNCHANGED <<unread, entries>> \/ (unread' = unread /\ entries' = << >>)
             \/ (unread' = {} /\ entries' = entries)
             \/ (unread' = {} /\ entries' = << >>)
  BY <1>1, <1>2
<1>3. CASE Start \/ StartFails \/ Cleanup \/ \E flushed \in BOOLEAN : LastFlush(flushed)
  BY <1>2, <1>3 DEF Start, StartFails, Cleanup, LastFlush, loading
<1>4. CASE Collect
  BY <1>2, <1>4
     DEF Collect, CollectMissing, CollectUnreadableLink, CollectDir, CollectFile,
         CollectUnreadableLinkFails, CollectFails, CollectDone, CollectSortFails,
         Collecting, loading
<1>5. CASE ListOperands
  BY <1>2, <1>5
     DEF ListOperands, NoFiles, PrintFiles, PrintFilesFails, ListingFails, loading
<1>6. CASE ListDirs
  BY <1>2, <1>6
     DEF ListDirs, QueueEmpty, PopDir, GapFails, QueueSkip, QueueChild,
         QueueChildFails, QueueDone, PrintDir, PrintDirFails, loading
<1>7. CASE Load
  <2>1. CASE OpenDir
    <3>1. cur \in DirEntry
      BY <2>1, CurIsDir DEF OpenDir
    <3>2. Kids[cur.path] \subseteq Path
      BY <3>1, TreeAssumption DEF DirEntry
    <3>3. QED
      BY <2>1, <3>2, <1>1 DEF OpenDir
  <2>2. ASSUME NEW r \in Outcomes, OpenFails(r) PROVE Goal
    BY <2>2, <1>2 DEF OpenFails, DropDir
  <2>3. ASSUME NEW p \in Path, SkipHidden(p) PROVE Goal
    BY <2>3, <1>1 DEF SkipHidden
  <2>4. ASSUME NEW p \in Path, NEW a \in Answers, ReadEntry(p, a) PROVE Goal
    <3>1. [path |-> p, dir |-> a = "dir", bad |-> FALSE] \in NameEntry
      BY DEF NameEntry
    <3>2. entries' \in Seq(NameEntry)
      BY <2>4, <3>1, <1>1, AppendFacts DEF ReadEntry
    <3>3. QED
      BY <2>4, <3>2, <1>1 DEF ReadEntry
  <2>5. ASSUME NEW p \in Path, NEW r \in Outcomes, NEW d \in BOOLEAN,
               ReadUnstatable(p, r, d)
        PROVE  Goal
    <3>1. CASE r = "sent"
      <4>1. [path |-> p, dir |-> d, bad |-> TRUE] \in NameEntry
        BY DEF NameEntry
      <4>2. entries' \in Seq(NameEntry)
        BY <2>5, <3>1, <4>1, <1>1, AppendFacts DEF ReadUnstatable
      <4>3. QED
        BY <2>5, <3>1, <4>2, <1>1 DEF ReadUnstatable
    <3>2. CASE r # "sent"
      BY <2>5, <3>2, <1>2 DEF ReadUnstatable, DropDir
    <3>3. QED
      BY <3>1, <3>2
  <2>6. ASSUME NEW p \in Path, ReadFails(p) PROVE Goal
    BY <2>6, <1>2 DEF ReadFails, DropDir
  <2>7. CASE ReadEnd
    <3>1. entries' \in Seq(NameEntry)
      BY <2>7, <1>1, ArrangedRearranges, RearrangedFacts DEF ReadEnd
    <3>2. QED
      BY <2>7, <3>1 DEF ReadEnd
  <2>8. CASE SortFails
    BY <2>8, <1>2 DEF SortFails
  <2>9. QED
    BY <1>7, <2>1, <2>2, <2>3, <2>4, <2>5, <2>6, <2>7, <2>8 DEF Load
<1>8. CASE UNCHANGED vars
  BY <1>2, <1>8 DEF vars, loading
<1>9. QED
  BY <1>3, <1>4, <1>5, <1>6, <1>7, <1>8 DEF Next

LEMMA IndexStep ==
  ASSUME TInv, [Next]_vars
  PROVE  IndexOK'
<1>1. index \in Nat /\ IndexOK
  BY DEF TInv, TypeOK
<1>2. CASE Start \/ StartFails \/ Cleanup \/ \E flushed \in BOOLEAN : LastFlush(flushed)
  BY <1>1, <1>2 DEF IndexOK, Start, StartFails, Cleanup, LastFlush, loading
<1>3. CASE Collect
  BY <1>1, <1>3
     DEF IndexOK, Collect, CollectMissing, CollectUnreadableLink, CollectDir,
         CollectFile, CollectUnreadableLinkFails, CollectFails, CollectDone,
         CollectSortFails, Collecting, NextOperand, Fatal
<1>4. CASE ListOperands
  BY <1>4
     DEF IndexOK, ListOperands, NoFiles, PrintFiles, PrintFilesFails,
         ListingFails, AfterFiles, GiveUp
<1>5. CASE Load
  <2>1. CASE ReadEnd
    <3>1. entries \in Seq(NameEntry)
      BY DEF TInv, TypeOK
    <3>2. Len(entries') = Len(entries) /\ Len(entries) \in Nat
      BY <2>1, <3>1, ArrangedRearranges, RearrangedFacts, LenProperties DEF ReadEnd
    <3>3. QED
      BY <2>1, <3>2 DEF ReadEnd, IndexOK
  <2>2. CASE ~ReadEnd
    <3>1. pc' \in {"next", "read", "flush"}
      BY <1>5, <2>2
         DEF Load, OpenDir, OpenFails, SkipHidden, ReadEntry, ReadUnstatable,
             ReadFails, SortFails, Reading, DropDir, GiveUp
    <3>2. QED
      BY <3>1 DEF IndexOK
  <2>3. QED
    BY <2>1, <2>2
<1>6. CASE ListDirs
  BY <1>1, <1>6
     DEF IndexOK, ListDirs, QueueEmpty, PopDir, GapFails, QueueSkip, QueueChild,
         QueueChildFails, QueueDone, PrintDir, PrintDirFails, AfterSkip, GiveUp,
         loading
<1>7. CASE UNCHANGED vars
  BY <1>1, <1>7 DEF IndexOK, vars, loading
<1>8. QED
  BY <1>2, <1>3, <1>4, <1>5, <1>6, <1>7 DEF Next

LEMMA CurStep ==
  ASSUME TInv, [Next]_vars
  PROVE  CurOK'
<1> DEFINE InUse == {"open", "read", "queue", "print"}
<1>1. CASE cur' = cur /\ (pc' \in InUse <=> pc \in InUse)
  BY <1>1 DEF TInv, CurOK
<1>2. CASE cur' = NoDir /\ pc' \notin InUse
  BY <1>2, NoDirAssumption DEF CurOK
<1>3. CASE Start \/ StartFails \/ Cleanup \/ \E flushed \in BOOLEAN : LastFlush(flushed)
  BY <1>1, <1>3 DEF Start, StartFails, Cleanup, LastFlush, loading
<1>4. CASE Collect
  BY <1>1, <1>4
     DEF Collect, CollectMissing, CollectUnreadableLink, CollectDir, CollectFile,
         CollectUnreadableLinkFails, CollectFails, CollectDone, CollectSortFails,
         Collecting, NextOperand, Fatal, loading
<1>5. CASE ListOperands
  BY <1>1, <1>5
     DEF ListOperands, NoFiles, PrintFiles, PrintFilesFails, ListingFails,
         AfterFiles, GiveUp, loading
<1>6. CASE Load
  BY <1>1, <1>2, <1>6
     DEF Load, OpenDir, OpenFails, SkipHidden, ReadEntry, ReadUnstatable,
         ReadFails, ReadEnd, SortFails, Reading, DropDir, FreeCur, GiveUp
<1>7. CASE PopDir
  <2>1. Last(dirQueue) \in DirEntry
    BY <1>7, FrontFacts DEF PopDir, TInv, TypeOK
  <2>2. QED
    BY <1>7, <2>1 DEF PopDir, CurOK
<1>8. CASE ListDirs /\ ~PopDir
  BY <1>1, <1>2, <1>8
     DEF ListDirs, QueueEmpty, GapFails, QueueSkip, QueueChild, QueueChildFails,
         QueueDone, PrintDir, PrintDirFails, FreeCur, GiveUp, loading
<1>9. CASE UNCHANGED vars
  BY <1>1, <1>9 DEF vars, loading
<1>10. QED
  BY <1>3, <1>4, <1>5, <1>6, <1>7, <1>8, <1>9 DEF Next
-----------------------------------------------------------------------------
LEMMA StepTInv == TInv /\ [Next]_vars => TInv'
<1> SUFFICES ASSUME TInv, [Next]_vars PROVE TInv'
  OBVIOUS
<1>1. TypeOK /\ EntriesType /\ OutputType
  BY TypeParts DEF TInv, EntriesType, LoadingType
<1>2. EntriesType'
  BY <1>1, StepEffect, EffectType
<1>3. OutputType'
  BY <1>1, StepOutput, StepOutputType
<1>4. ControlType' /\ FlagsType' /\ LoadingType'
  BY <1>1, <1>2, ControlStep, FlagsStep, LoadingStep DEF LoadingType, EntriesType
<1>5. TypeOK'
  BY <1>2, <1>3, <1>4
     DEF TypeOK, EntriesType, ControlType, FlagsType, QueuesType, LoadingType,
         OutputType, MemoryType
<1>6. QED
  BY <1>5, IndexStep, CurStep DEF TInv

LEMMA Typed == Spec => []TInv
BY InitTInv, StepTInv, PTL DEF Spec

(* Every variable of the traversal keeps its type (t_params, t_entry).     *)
THEOREM TypeCorrect == Spec => []TypeOK
BY Typed, PTL DEF TInv
-----------------------------------------------------------------------------
(* Ownership. *)

LEMMA AppendIds ==
  ASSUME NEW S, NEW q \in Seq(S), NEW d \in S
  PROVE  /\ Ids(Append(q, d)) = Ids(q) \cup {d.id}
         /\ Distinct(q) /\ d.id \notin Ids(q) => Distinct(Append(q, d))
<1> DEFINE a == Append(q, d)
           n == Len(q)
<1>1. /\ n \in Nat /\ Len(a) = n + 1
      /\ \A i \in 1..n : a[i] = q[i]
      /\ a[n + 1] = d
  BY AppendFacts
<1>2. Ids(q) = {q[i].id : i \in 1..n} /\ Ids(a) = {a[i].id : i \in 1..(n + 1)}
  BY <1>1 DEF Ids
<1>3. (Distinct(q) <=> \A i, j \in 1..n : q[i].id = q[j].id => i = j)
      /\ (Distinct(a) <=> \A i, j \in 1..(n + 1) : a[i].id = a[j].id => i = j)
  BY <1>1 DEF Distinct
<1> HIDE DEF a, n
<1>4. 1..(n + 1) = (1..n) \cup {n + 1}
  BY <1>1
<1>5. Ids(a) = Ids(q) \cup {d.id}
  BY <1>1, <1>2, <1>4
<1>6. ASSUME Distinct(q), d.id \notin Ids(q) PROVE Distinct(a)
  <2>1. \A i \in 1..n : a[i].id # a[n + 1].id
    BY <1>1, <1>2, <1>6
  <2>2. \A i, j \in 1..n : a[i].id = a[j].id => i = j
    BY <1>1, <1>3, <1>6
  <2>3. QED
    BY <1>3, <1>4, <2>1, <2>2
<1>7. QED
  BY <1>5, <1>6 DEF a

LEMMA FrontIds ==
  ASSUME NEW S, NEW q \in Seq(S), q # << >>
  PROVE  /\ Ids(q) = Ids(Front(q)) \cup {Last(q).id}
         /\ Distinct(q) => Distinct(Front(q)) /\ Last(q).id \notin Ids(Front(q))
<1> DEFINE f == Front(q)
           n == Len(q)
<1>1. /\ n \in Nat \ {0} /\ Len(f) = n - 1
      /\ \A i \in 1..(n - 1) : f[i] = q[i]
      /\ Last(q) = q[n]
  BY FrontFacts
<1>2. Ids(q) = {q[i].id : i \in 1..n} /\ Ids(f) = {f[i].id : i \in 1..(n - 1)}
  BY <1>1 DEF Ids
<1>3. (Distinct(q) <=> \A i, j \in 1..n : q[i].id = q[j].id => i = j)
      /\ (Distinct(f) <=> \A i, j \in 1..(n - 1) : f[i].id = f[j].id => i = j)
  BY <1>1 DEF Distinct
<1> HIDE DEF f, n
<1>4. 1..n = (1..(n - 1)) \cup {n} /\ n \notin 1..(n - 1)
  BY <1>1
<1>5. Ids(q) = Ids(f) \cup {Last(q).id}
  BY <1>1, <1>2, <1>4
<1>6. ASSUME Distinct(q) PROVE Distinct(f) /\ Last(q).id \notin Ids(f)
  <2>1. Distinct(f)
    BY <1>1, <1>3, <1>4, <1>6
  <2>2. \A i \in 1..(n - 1) : q[i].id # q[n].id
    BY <1>3, <1>4, <1>6
  <2>3. QED
    BY <1>1, <1>2, <2>1, <2>2
<1>7. QED
  BY <1>5, <1>6 DEF f

(* Ownership without its last conjunct, and fresh ids for new entries.     *)
Owned ==
  /\ OneOwner
  /\ heap = Ids(dirQueue) \cup Ids(files) \cup CurIds
  /\ \A x \in heap : x < nextId

OInv == TInv /\ Owned /\ (pc = "exit" => heap = {})

LEMMA EmptyIds == Ids(<< >>) = {} /\ Distinct(<< >>)
BY DEF Ids, Distinct

LEMMA EffectOwned ==
  ASSUME EntriesType, Owned, EntryEffect
  PROVE  Owned'
<1>1. /\ dirQueue \in Seq(DirEntry) /\ files \in Seq(FileEntry)
      /\ heap \subseteq Nat /\ nextId \in Nat
  BY DEF EntriesType, QueuesType, MemoryType
<1>2. /\ Distinct(dirQueue) /\ Distinct(files)
      /\ Ids(dirQueue) \cap Ids(files) = {}
      /\ CurIds \cap (Ids(dirQueue) \cup Ids(files)) = {}
      /\ heap = Ids(dirQueue) \cup Ids(files) \cup CurIds
      /\ \A x \in heap : x < nextId
  BY DEF Owned, OneOwner
<1>3. nextId \notin heap /\ \A x \in heap \cup {nextId} : x < nextId + 1
  BY <1>1, <1>2
<1>4. CASE KeepsEntries
  <2>1. Ids(dirQueue') = Ids(dirQueue) /\ Distinct(dirQueue')
    BY <1>1, <1>2, <1>4, RearrangedFacts DEF KeepsEntries
  <2>2. QED
    BY <1>2, <1>4, <2>1 DEF KeepsEntries, Owned, OneOwner, CurIds
<1>5. CASE QueuesNewDir
  <2>1. Ids(dirQueue') = Ids(dirQueue) \cup {nextId} /\ Distinct(dirQueue')
    BY <1>1, <1>2, <1>3, <1>5, AppendIds DEF QueuesNewDir
  <2>2. QED
    BY <1>2, <1>3, <1>5, <2>1 DEF QueuesNewDir, Owned, OneOwner, CurIds
<1>6. CASE AddsNewFile
  <2>1. Ids(files') = Ids(files) \cup {nextId} /\ Distinct(files')
    BY <1>1, <1>2, <1>3, <1>6, AppendIds DEF AddsNewFile
  <2>2. QED
    BY <1>2, <1>3, <1>6, <2>1 DEF AddsNewFile, Owned, OneOwner, CurIds
<1>7. CASE PopsDir
  <2>1. /\ Ids(dirQueue) = Ids(dirQueue') \cup {cur'.id}
        /\ Distinct(dirQueue') /\ cur'.id \notin Ids(dirQueue')
    BY <1>1, <1>2, <1>7, FrontIds DEF PopsDir
  <2>2. cur' \in DirEntry /\ cur' # NoDir
    BY <1>1, <1>7, FrontFacts, NoDirAssumption DEF PopsDir
  <2>3. CurIds = {} /\ CurIds' = {cur'.id}
    BY <1>7, <2>2 DEF PopsDir, CurIds
  <2>4. QED
    BY <1>2, <1>7, <2>1, <2>3 DEF PopsDir, Owned, OneOwner
<1>8. CASE FreesCur
  <2>1. CurIds = {cur.id} /\ CurIds' = {}
    BY <1>8, NoDirAssumption DEF FreesCur, CurIds
  <2>2. QED
    BY <1>2, <1>8, <2>1 DEF FreesCur, Owned, OneOwner
<1>9. CASE FreesFiles
  <2>1. Ids(dirQueue') = Ids(dirQueue) /\ Distinct(dirQueue')
    BY <1>1, <1>2, <1>9, RearrangedFacts DEF FreesFiles
  <2>2. Ids(files') = {} /\ Distinct(files') /\ CurIds' = CurIds
    BY <1>9, EmptyIds DEF FreesFiles, CurIds
  <2>3. QED
    BY <1>2, <1>9, <2>1, <2>2 DEF FreesFiles, Owned, OneOwner
<1>10. CASE FreesTop
  <2>1. /\ Ids(dirQueue) = Ids(dirQueue') \cup {Last(dirQueue).id}
        /\ Distinct(dirQueue') /\ Last(dirQueue).id \notin Ids(dirQueue')
    BY <1>1, <1>2, <1>10, FrontIds DEF FreesTop
  <2>2. CurIds = {} /\ CurIds' = {}
    BY <1>10 DEF FreesTop, CurIds
  <2>3. QED
    BY <1>2, <1>10, <2>1, <2>2 DEF FreesTop, Owned, OneOwner
<1>11. CASE FreesAll
  <2>1. /\ Ids(dirQueue') = {} /\ Distinct(dirQueue')
        /\ Ids(files') = {} /\ Distinct(files')
        /\ CurIds = {} /\ CurIds' = {}
    BY <1>11, EmptyIds DEF FreesAll, CurIds
  <2>2. QED
    BY <1>2, <1>11, <2>1 DEF FreesAll, Owned, OneOwner
<1>12. QED
  BY <1>4, <1>5, <1>6, <1>7, <1>8, <1>9, <1>10, <1>11 DEF EntryEffect

(* process() returns through cleanup_process_ alone. *)
LEMMA ExitStep ==
  ASSUME TInv, [Next]_vars, pc' = "exit"
  PROVE  Cleanup \/ (pc = "exit" /\ heap' = heap)
<1>1. CASE Start \/ StartFails \/ \E flushed \in BOOLEAN : LastFlush(flushed)
  BY <1>1 DEF Start, StartFails, LastFlush
<1>2. CASE Collect
  BY <1>2
     DEF Collect, CollectMissing, CollectUnreadableLink, CollectDir, CollectFile,
         CollectUnreadableLinkFails, CollectFails, CollectDone, CollectSortFails,
         Collecting, NextOperand, Fatal
<1>3. CASE ListOperands
  BY <1>3
     DEF ListOperands, NoFiles, PrintFiles, PrintFilesFails, ListingFails,
         AfterFiles, GiveUp
<1>4. CASE Load
  BY <1>4
     DEF Load, OpenDir, OpenFails, SkipHidden, ReadEntry, ReadUnstatable,
         ReadFails, ReadEnd, SortFails, Reading, DropDir, GiveUp
<1>5. CASE ListDirs
  BY <1>5
     DEF ListDirs, QueueEmpty, PopDir, GapFails, QueueSkip, QueueChild,
         QueueChildFails, QueueDone, PrintDir, PrintDirFails, GiveUp
<1>6. CASE UNCHANGED vars
  BY <1>6 DEF vars, memory
<1>7. QED
  BY <1>1, <1>2, <1>3, <1>4, <1>5, <1>6 DEF Next

LEMMA InitOInv == Init => OInv
<1> SUFFICES ASSUME Init PROVE OInv
  OBVIOUS
<1>1. CurIds = {} /\ Ids(dirQueue) = {} /\ Ids(files) = {}
      /\ Distinct(dirQueue) /\ Distinct(files) /\ heap = {} /\ pc # "exit"
  BY EmptyIds DEF Init, CurIds
<1>2. Owned
  BY <1>1 DEF Owned, OneOwner
<1>3. QED
  BY <1>1, <1>2, InitTInv DEF OInv

LEMMA StepOInv == OInv /\ [Next]_vars => OInv'
<1> SUFFICES ASSUME OInv, [Next]_vars PROVE OInv'
  OBVIOUS
<1>1. TInv /\ EntriesType
  BY TypeParts DEF OInv, TInv, EntriesType, LoadingType
<1>2. TInv' /\ Owned'
  BY <1>1, StepTInv, StepEffect, EffectOwned DEF OInv
<1>3. ASSUME pc' = "exit" PROVE heap' = {}
  <2>1. CASE Cleanup
    <3>1. CurIds = {}
      BY <1>1, <2>1, CurIsDir DEF Cleanup, CurIds
    <3>2. heap = Ids(dirQueue) \cup Ids(files)
      BY <3>1 DEF OInv, Owned
    <3>3. QED
      BY <2>1, <3>2 DEF Cleanup
  <2>2. CASE pc = "exit" /\ heap' = heap
    BY <2>2 DEF OInv
  <2>3. QED
    BY <1>1, <1>3, <2>1, <2>2, ExitStep
<1>4. QED
  BY <1>2, <1>3 DEF OInv

LEMMA OInvHolds == Spec => []OInv
BY InitOInv, StepOInv, PTL DEF Spec

(* No malloc'ed entry is leaked, freed twice or used after it was freed,   *)
(* on any path through process() (entry_free, array_clear_with).           *)
THEOREM EntriesOwned == Spec => []Ownership
<1>1. OInv => Ownership
  BY DEF OInv, Owned, Ownership
<1>2. QED
  BY <1>1, OInvHolds, PTL
-----------------------------------------------------------------------------
(* What is printed: where the empty lines are, and that a reader can tell  *)
(* the blocks apart.                                                       *)

Preparing == {"start", "collect", "files"}
Listing == {"next", "open", "read", "queue", "print"}
Busy    == {"open", "read", "queue", "print"}
Over    == {"flush", "cleanup", "exit"}

(* All directories that wait were given on the command line.               *)
OperandsOnly(q) == \A i \in 1..Len(q) : q[i].operand

(* The kind of the last item of the output.                                *)
LastKind(s) == IF s = << >> THEN "none" ELSE s[Len(s)].kind

(* Separated, of any output.                                               *)
Apart(s) ==
  \A k \in 1..Len(s) :
    /\ s[k].kind = "blank" => k > 1 /\ s[k - 1].kind \in {"dir", "files"}
    /\ k > 1 /\ s[k].kind \in {"dir", "files"} => s[k - 1].kind = "blank"

(* Before the listing nothing is printed and only operands wait.           *)
NothingYet ==
  pc \in Preparing =>
    /\ stdout = << >> /\ ~printedFiles /\ ~printedDir /\ ~gapDone
    /\ OperandsOnly(dirQueue)

(* The flags of process_queue_ tell the last item of the output.           *)
FlagsTell ==
  pc \in Listing =>
    LastKind(stdout) = IF printedDir THEN "dir"
                       ELSE IF ~printedFiles THEN "none"
                       ELSE IF gapDone THEN "blank" ELSE "files"

(* The gap is due until the first directory has been popped.               *)
GapWaits ==
  pc \in Listing /\ printedFiles /\ ~gapDone =>
    pc = "next" /\ ~printedDir /\ OperandsOnly(dirQueue)

SepInv == NothingYet /\ FlagsTell /\ GapWaits /\ Apart(stdout)
-----------------------------------------------------------------------------
(* What a step does to the output and its flags.                           *)

Quiet == UNCHANGED <<stdout, separator>>

(* A step of the operands.                                                 *)
Prepares ==
  /\ pc \in Preparing /\ pc' \in Preparing \cup {"next"}
  /\ Quiet /\ OperandsOnly(dirQueue')

(* A step on the directory that was popped.                                *)
Works == pc \in Busy /\ pc' \in Listing /\ Quiet

(* A step towards the end.                                                 *)
Ends ==
  /\ pc' \in Over /\ UNCHANGED separator
  /\ stdout' = stdout \/ stdout' = stdout \o <<Partial>>

(* print_operand_files_                                                    *)
ListsFiles ==
  /\ PrintFiles /\ pc' \in {"next", "flush"}
  /\ \E q : stdout' = stdout \o <<FilesItem(q)>>
  /\ printedFiles' /\ UNCHANGED <<printedDir, gapDone>>
  /\ OperandsOnly(dirQueue')

Idle == Quiet /\ UNCHANGED <<pc, dirQueue>>

ListingEffect ==
  Prepares \/ Works \/ Ends \/ ListsFiles \/ PopDir \/ PrintDir \/ Idle

LEMMA RearrangedOperands ==
  ASSUME NEW S, NEW q \in Seq(S), NEW t, Rearranges(t, q), OperandsOnly(q)
  PROVE  OperandsOnly(t)
<1> DEFINE n == Len(q)
<1>1. n \in Nat
  OBVIOUS
<1>2. PICK p \in [1..n -> 1..n] : t = [i \in 1..n |-> q[p[i]]]
  BY DEF Rearranges
<1>3. Len(t) = n
  BY RearrangedFacts
<1>4. \A i \in 1..n : t[i] = q[p[i]] /\ p[i] \in 1..n
  BY <1>2
<1> HIDE DEF n
<1>5. \A i \in 1..n : t[i].operand
  BY <1>4 DEF OperandsOnly, n
<1>6. QED
  BY <1>3, <1>5 DEF OperandsOnly

LEMMA AppendOperand ==
  ASSUME NEW q \in Seq(DirEntry), OperandsOnly(q), NEW d \in DirEntry, d.operand
  PROVE  OperandsOnly(Append(q, d))
<1>1. SUFFICES ASSUME NEW i \in 1..Len(Append(q, d)) PROVE Append(q, d)[i].operand
  BY DEF OperandsOnly
<1>2. /\ Len(q) \in Nat /\ Len(Append(q, d)) = Len(q) + 1
      /\ \A k \in 1..Len(q) : Append(q, d)[k] = q[k]
      /\ Append(q, d)[Len(q) + 1] = d
  BY AppendFacts
<1>3. CASE i \in 1..Len(q)
  BY <1>2, <1>3 DEF OperandsOnly
<1>4. CASE i = Len(q) + 1
  BY <1>2, <1>4
<1>5. QED
  BY <1>2, <1>3, <1>4 DEF OperandsOnly

LEMMA CollectListing ==
  ASSUME TInv, SepInv, Collect
  PROVE  ListingEffect
<1>1. /\ pc = "collect" /\ stdout' = stdout /\ UNCHANGED separator
      /\ pc' \in {"collect", "files", "cleanup"}
  BY DEF Collect, CollectMissing, CollectUnreadableLink, CollectDir, CollectFile,
         CollectUnreadableLinkFails, CollectFails, CollectDone,
         CollectSortFails, Collecting, NextOperand, Fatal, PrintError, output
<1>2. OperandsOnly(dirQueue) /\ dirQueue \in Seq(DirEntry)
  BY <1>1 DEF SepInv, NothingYet, Preparing, TInv, TypeOK
<1>3. CASE CollectDir
  <2>1. Operand \in Path /\ nextId \in Nat
    BY <1>3, OperandType DEF CollectDir, Collecting, TInv, TypeOK
  <2> DEFINE d == [id |-> nextId, path |-> Operand, operand |-> TRUE, from |-> 0]
  <2>2. d \in DirEntry /\ d.operand /\ dirQueue' = Append(dirQueue, d)
    BY <1>3, <2>1 DEF CollectDir, AddDir, DirEntry
  <2>3. OperandsOnly(dirQueue')
    BY <1>2, <2>2, AppendOperand
  <2>4. QED
    BY <1>1, <2>3 DEF ListingEffect, Prepares, Ends, Quiet, Preparing, Over
<1>4. CASE CollectDone
  <2>1. OperandsOnly(dirQueue')
    BY <1>2, <1>4, ArrangedRearranges, RearrangedOperands DEF CollectDone
  <2>2. QED
    BY <1>1, <2>1 DEF ListingEffect, Prepares, Ends, Quiet, Preparing, Over
<1>5. CASE ~CollectDir /\ ~CollectDone
  <2>1. dirQueue' = dirQueue
    BY <1>5 DEF Collect, CollectMissing, CollectUnreadableLink, CollectFile,
         CollectUnreadableLinkFails, CollectFails, CollectSortFails, AddFile,
         queues
  <2>2. QED
    BY <1>1, <1>2, <2>1 DEF ListingEffect, Prepares, Ends, Quiet, Preparing, Over
<1>6. QED
  BY <1>3, <1>4, <1>5

LEMMA OperandsListing ==
  ASSUME TInv, SepInv, ListOperands
  PROVE  ListingEffect
<1>1. pc = "files" /\ OperandsOnly(dirQueue) /\ dirQueue \in Seq(DirEntry)
  BY DEF SepInv, NothingYet, Preparing, TInv, TypeOK, ListOperands, NoFiles,
         PrintFiles, PrintFilesFails, ListingFails
<1>2. ASSUME AfterFiles PROVE OperandsOnly(dirQueue') /\ pc' \in {"next", "flush"}
  BY <1>1, <1>2, PopOrderRearranges, RearrangedOperands DEF AfterFiles
<1>3. CASE NoFiles
  BY <1>1, <1>2, <1>3
     DEF NoFiles, output, ListingEffect, Prepares, Ends, Quiet, Preparing, Over
<1>4. CASE PrintFiles
  <2>1. PICK t \in Arranged(files, args.reverse) : HandOver(<<FilesItem(t)>>)
    BY <1>4 DEF PrintFiles
  <2>2. \E q : stdout' = stdout \o <<FilesItem(q)>>
    BY <2>1 DEF HandOver
  <2>3. QED
    BY <1>1, <1>2, <1>4, <2>2 DEF PrintFiles, ListingEffect, ListsFiles
<1>5. CASE PrintFilesFails \/ ListingFails
  BY <1>5 DEF PrintFilesFails, ListingFails, GiveUp, HandOver, output,
              ListingEffect, Ends, Over
<1>6. QED
  BY <1>3, <1>4, <1>5 DEF ListOperands

LEMMA LoadListing ==
  ASSUME Load
  PROVE  ListingEffect
<1>1. /\ pc \in {"open", "read"} /\ stdout' = stdout /\ UNCHANGED separator
  BY DEF Load, OpenDir, OpenFails, SkipHidden, ReadEntry, ReadUnstatable,
         ReadFails, ReadEnd, SortFails, Reading, PrintError, output
<1>2. pc' \in {"next", "read", "queue", "flush"} \/ pc' = pc
  BY DEF Load, OpenDir, OpenFails, SkipHidden, ReadEntry, ReadUnstatable,
         ReadFails, ReadEnd, SortFails, DropDir, GiveUp
<1>3. QED
  BY <1>1, <1>2 DEF ListingEffect, Works, Ends, Quiet, Busy, Listing, Over

LEMMA DirsListing ==
  ASSUME ListDirs
  PROVE  ListingEffect
<1>1. CASE QueueEmpty \/ GapFails \/ QueueChildFails \/ PrintDirFails
  BY <1>1 DEF QueueEmpty, GapFails, QueueChildFails, PrintDirFails, GiveUp,
              HandOver, output, ListingEffect, Ends, Over
<1>2. CASE QueueSkip \/ QueueChild \/ QueueDone
  BY <1>2 DEF QueueSkip, QueueChild, QueueDone, output, ListingEffect, Works,
              Quiet, Busy, Listing
<1>3. QED
  BY <1>1, <1>2 DEF ListDirs, ListingEffect

LEMMA StepListing ==
  ASSUME TInv, SepInv, [Next]_vars
  PROVE  ListingEffect
<1>1. CASE Start
  BY <1>1 DEF Start, SepInv, NothingYet, Preparing, ListingEffect, Prepares,
              Quiet, output, queues
<1>2. CASE StartFails \/ Cleanup \/ \E flushed \in BOOLEAN : LastFlush(flushed)
  BY <1>2 DEF StartFails, Cleanup, LastFlush, output, ListingEffect, Ends, Over
<1>3. CASE UNCHANGED vars
  BY <1>3 DEF vars, output, queues, ListingEffect, Idle, Quiet
<1>4. QED
  BY <1>1, <1>2, <1>3, CollectListing, OperandsListing, LoadListing, DirsListing
     DEF Next
-----------------------------------------------------------------------------
(* One more item. *)

LEMMA OneMore ==
  ASSUME NEW s \in Seq(Items), NEW x, x \in Items, Apart(s),
         x.kind = "blank" => LastKind(s) \in {"dir", "files"},
         x.kind \in {"dir", "files"} => LastKind(s) \in {"none", "blank"}
  PROVE  Apart(s \o <<x>>) /\ LastKind(s \o <<x>>) = x.kind
<1> DEFINE n == Len(s)
           t == s \o <<x>>
<1>1. /\ n \in Nat /\ Len(t) = n + 1 /\ t[n + 1] = x
      /\ \A k \in 1..n : t[k] = s[k]
  OBVIOUS
<1>2. n = 0 <=> s = << >>
  OBVIOUS
<1>3. t # << >>
  BY <1>1
<1>4. LastKind(t) = x.kind
  BY <1>1, <1>3 DEF LastKind
<1>5. n > 0 => LastKind(s) = s[n].kind
  BY <1>2 DEF LastKind
<1>6. n > 0 => s[n].kind # "none"
  <2>1. n > 0 => s[n] \in Items
    OBVIOUS
  <2>2. QED
    BY <2>1 DEF Items
<1>7. n = 0 => LastKind(s) = "none"
  BY <1>2 DEF LastKind
<1>8. \A k \in 1..n : k > 1 => k - 1 \in 1..n
  BY <1>1
<1> HIDE DEF t
<1>9. SUFFICES ASSUME NEW k \in 1..(n + 1)
      PROVE  /\ t[k].kind = "blank" => k > 1 /\ t[k - 1].kind \in {"dir", "files"}
             /\ k > 1 /\ t[k].kind \in {"dir", "files"} => t[k - 1].kind = "blank"
  BY <1>1, <1>4 DEF Apart, t
<1>10. CASE k \in 1..n
  BY <1>1, <1>8, <1>10 DEF Apart
<1>11. CASE k = n + 1
  <2>1. t[k] = x /\ k - 1 = n /\ (k > 1 <=> n > 0)
    BY <1>1, <1>11
  <2>2. n > 0 => t[n] = s[n]
    BY <1>1
  <2> HIDE DEF n
  <2>3. CASE n > 0
    BY <2>1, <2>2, <2>3, <1>5, <1>6
  <2>4. CASE ~(n > 0)
    <3>1. n = 0
      BY <1>1, <2>4
    <3>2. QED
      BY <3>1, <2>1, <2>4, <1>7
  <2>5. QED
    BY <2>3, <2>4
<1>12. QED
  BY <1>1, <1>10, <1>11
LEMMA StartsBlank ==
  /\ Apart(<< >>) /\ LastKind(<< >>) = "none"
  /\ << >> \in Seq(Items) /\ OperandsOnly(<< >>)
BY EmptySeq DEF Apart, LastKind, OperandsOnly

LEMMA InitSepInv == Init => SepInv
BY StartsBlank
   DEF Init, SepInv, NothingYet, FlagsTell, GapWaits, Preparing, Listing

(* The states are apart. *)
LEMMA Phases ==
  /\ Preparing \cap Listing = {} /\ Preparing \cap Over = {} /\ Listing \cap Over = {}
  /\ Busy \subseteq Listing /\ "next" \in Listing /\ "next" \notin Busy
  /\ "files" \in Preparing /\ "print" \in Busy /\ "open" \in Busy
  /\ "flush" \in Over
BY DEF Preparing, Listing, Busy, Over

LEMMA PopSeparated ==
  ASSUME TInv, SepInv, PopDir
  PROVE  SepInv'
<1>1. /\ pc = "next" /\ pc' = "open" /\ dirQueue # << >>
      /\ cur' = Last(dirQueue) /\ UNCHANGED <<printedFiles, printedDir>>
  BY DEF PopDir
<1>2. /\ stdout \in Seq(Items) /\ dirQueue \in Seq(DirEntry)
      /\ printedFiles \in BOOLEAN /\ printedDir \in BOOLEAN /\ gapDone \in BOOLEAN
  BY DEF TInv, TypeOK
<1>3. pc \in Listing /\ pc' \in Listing /\ pc' \notin Preparing
  BY <1>1, Phases
<1>4. CASE GapDue(cur')
  <2>1. stdout' = stdout \o <<Blank>> /\ gapDone' = TRUE
    BY <1>4 DEF PopDir, HandOver
  <2>2. printedFiles /\ ~gapDone
    BY <1>4 DEF GapDue
  <2>3. ~printedDir /\ LastKind(stdout) = "files"
    BY <1>3, <2>2 DEF SepInv, GapWaits, FlagsTell
  <2>4. Blank \in Items /\ Blank.kind = "blank"
    BY DEF Blank, Items
  <2>5. Apart(stdout') /\ LastKind(stdout') = "blank"
    BY <1>2, <2>1, <2>3, <2>4, OneMore DEF SepInv
  <2>6. QED
    BY <1>1, <1>3, <2>1, <2>2, <2>3, <2>5
       DEF SepInv, NothingYet, FlagsTell, GapWaits
<1>5. CASE ~GapDue(cur')
  <2>1. stdout' = stdout /\ gapDone' = gapDone
    BY <1>5 DEF PopDir, output
  <2>2. ASSUME printedFiles, ~gapDone PROVE FALSE
    <3>1. OperandsOnly(dirQueue)
      BY <1>3, <2>2 DEF SepInv, GapWaits
    <3>2. Last(dirQueue) = dirQueue[Len(dirQueue)] /\ Len(dirQueue) \in Nat \ {0}
      BY <1>1, <1>2, FrontFacts
    <3>3. cur'.operand
      BY <1>1, <3>1, <3>2 DEF OperandsOnly
    <3>4. QED
      BY <1>5, <2>2, <3>3 DEF GapDue
  <2>3. QED
    BY <1>1, <1>3, <2>1, <2>2 DEF SepInv, NothingYet, FlagsTell, GapWaits
<1>6. QED
  BY <1>4, <1>5

LEMMA PrintSeparated ==
  ASSUME TInv, SepInv, PrintDir
  PROVE  SepInv'
<1> DEFINE b == Block(cur, entries, Header)
<1>1. /\ pc = "print" /\ pc' = "next" /\ printedDir' = TRUE
      /\ UNCHANGED <<printedFiles, gapDone>>
      /\ stdout' = stdout \o ((IF printedDir THEN <<Blank>> ELSE << >>) \o <<b>>)
  BY DEF PrintDir, HandOver
<1>2. /\ stdout \in Seq(Items) /\ printedFiles \in BOOLEAN
      /\ printedDir \in BOOLEAN /\ gapDone \in BOOLEAN
  BY DEF TInv, TypeOK
<1>3. pc \in Listing /\ pc' \in Listing /\ pc' \notin Preparing /\ pc # "next"
  BY <1>1, Phases
<1>4. b \in Items /\ b.kind = "dir" /\ Blank \in Items /\ Blank.kind = "blank"
  BY <1>1, BlockType DEF Block, Blank, Items
<1>5. printedFiles => gapDone
  BY <1>3 DEF SepInv, GapWaits
<1> HIDE DEF b
<1>6. Apart(stdout') /\ LastKind(stdout') = "dir"
  <2>1. CASE printedDir
    <3>1. LastKind(stdout) = "dir"
      BY <1>3, <2>1 DEF SepInv, FlagsTell
    <3> DEFINE s == stdout \o <<Blank>>
    <3>2. Apart(s) /\ LastKind(s) = "blank"
      BY <1>2, <1>4, <3>1, OneMore DEF SepInv
    <3>3. s \in Seq(Items)
      BY <1>2, <1>4
    <3>4. stdout' = s \o <<b>>
      BY <1>1, <1>2, <1>4, <2>1
    <3> HIDE DEF s
    <3>5. QED
      BY <1>4, <3>2, <3>3, <3>4, OneMore
  <2>2. CASE ~printedDir
    <3>1. LastKind(stdout) \in {"none", "blank"}
      BY <1>3, <1>5, <2>2 DEF SepInv, FlagsTell
    <3>2. stdout' = stdout \o <<b>>
      BY <1>1, <1>2, <1>4, <2>2
    <3>3. QED
      BY <1>2, <1>4, <3>1, <3>2, OneMore DEF SepInv
  <2>3. QED
    BY <2>1, <2>2
<1>7. QED
  BY <1>1, <1>3, <1>5, <1>6 DEF SepInv, NothingYet, FlagsTell, GapWaits

LEMMA FilesSeparated ==
  ASSUME TInv, SepInv, ListsFiles
  PROVE  SepInv'
<1>1. PICK q : stdout' = stdout \o <<FilesItem(q)>>
  BY DEF ListsFiles
<1>2. stdout = << >> /\ ~printedDir /\ ~gapDone
  BY Phases DEF ListsFiles, PrintFiles, SepInv, NothingYet
<1>3. stdout' = <<FilesItem(q)>> /\ FilesItem(q).kind = "files"
  BY <1>1, <1>2 DEF FilesItem
<1>4. Apart(stdout') /\ LastKind(stdout') = "files"
  BY <1>3 DEF Apart, LastKind
<1>5. pc' \notin Preparing /\ (pc' \in Listing => pc' = "next")
  BY Phases DEF ListsFiles
<1>6. QED
  BY <1>2, <1>4, <1>5
     DEF ListsFiles, SepInv, NothingYet, FlagsTell, GapWaits

LEMMA StepSepInv ==
  ASSUME TInv, SepInv, [Next]_vars
  PROVE  SepInv'
<1>1. CASE Prepares
  <2>1. /\ stdout' = << >> /\ ~printedFiles' /\ ~printedDir' /\ ~gapDone'
    BY <1>1 DEF Prepares, Quiet, separator, SepInv, NothingYet
  <2>2. QED
    BY <1>1, <2>1, StartsBlank
       DEF Prepares, SepInv, NothingYet, FlagsTell, GapWaits
<1>2. CASE Works
  <2>1. ~(printedFiles /\ ~gapDone)
    BY <1>2, Phases DEF Works, SepInv, GapWaits
  <2>2. pc \in Listing /\ pc' \in Listing /\ pc' \notin Preparing
    BY <1>2, Phases DEF Works
  <2>3. UNCHANGED <<stdout, printedFiles, printedDir, gapDone>>
    BY <1>2 DEF Works, Quiet, separator
  <2>4. QED
    BY <2>1, <2>2, <2>3 DEF SepInv, NothingYet, FlagsTell, GapWaits
<1>3. CASE Ends
  <2>1. pc' \notin Preparing /\ pc' \notin Listing
    BY <1>3, Phases DEF Ends
  <2>2. stdout \in Seq(Items) /\ Partial \in Items /\ Partial.kind = "partial"
    BY DEF TInv, TypeOK, Partial, Items
  <2>3. Apart(stdout')
    BY <1>3, <2>2, OneMore DEF Ends, SepInv
  <2>4. QED
    BY <2>1, <2>3 DEF SepInv, NothingYet, FlagsTell, GapWaits
<1>4. CASE Idle
  BY <1>4 DEF Idle, Quiet, separator, SepInv, NothingYet, FlagsTell, GapWaits
<1>5. QED
  BY <1>1, <1>2, <1>3, <1>4, StepListing, PopSeparated, PrintSeparated,
     FilesSeparated DEF ListingEffect

(* Whatever is missing or cannot be read, one empty line separates two     *)
(* things that are listed and none comes first (ft_walk.c:217, :245).      *)
THEOREM OneGapBetween == Spec => []Separated
<1>1. SepInv => Separated
  BY DEF SepInv, Apart, Separated
<1>2. TInv /\ SepInv /\ [Next]_vars => SepInv'
  BY StepSepInv
<1>3. QED
  BY <1>1, <1>2, InitSepInv, Typed, PTL DEF Spec
-----------------------------------------------------------------------------
(* Who is named.                                                           *)

(* Without a header there is one thing to list, wherever it is.            *)
Single ==
  ~Header =>
    /\ pc = "start" => dirQueue = << >> /\ files = << >> /\ index = 1
    /\ pc = "collect" => /\ Len(dirQueue) + Len(files) < index
                         /\ index <= Len(operands) + 1
    /\ pc = "files" => Len(dirQueue) + Len(files) <= 1
    /\ pc = "next" => Len(stdout) + Len(dirQueue) <= 1
    /\ pc \in Busy => Len(stdout) + Len(dirQueue) = 0
    /\ pc \in Over => Len(stdout) <= 1

(* The header is the same for all directories of a run.                    *)
Headed(s) == \A k \in 1..Len(s) : s[k].kind = "dir" => s[k].header = Header

LabelInv == Single /\ Headed(stdout)

LEMMA InitLabelInv == Init => LabelInv
<1>1. SUFFICES ASSUME Init PROVE LabelInv
  OBVIOUS
<1>2. Len(<< >>) = 0
  OBVIOUS
<1>3. QED
  BY <1>1, <1>2 DEF Init, LabelInv, Single, Headed, Busy, Over

LEMMA Lengths ==
  ASSUME TInv
  PROVE  /\ Len(stdout) \in Nat /\ Len(dirQueue) \in Nat /\ Len(files) \in Nat
         /\ Len(operands) \in Nat /\ index \in Nat
         /\ Header \in BOOLEAN
         /\ ~Header => Len(operands) <= 1 /\ ~args.recursive
<1>1. /\ stdout \in Seq(Items) /\ dirQueue \in Seq(DirEntry)
      /\ files \in Seq(FileEntry) /\ operands \in Seq(Path) /\ index \in Nat
  BY DEF TInv, TypeOK
<1>2. Len(operands) \in Nat
  BY <1>1, LenProperties
<1>3. args.recursive \in BOOLEAN
  BY DEF TInv, TypeOK, Options
<1>4. QED
  BY <1>1, <1>2, <1>3, LenProperties DEF Header

LEMMA EmptyOutput ==
  ASSUME TInv, SepInv
  PROVE  /\ pc \in Preparing => stdout = << >> /\ Len(stdout) = 0
         /\ pc \in Listing /\ Len(stdout) = 0 => ~printedFiles /\ ~printedDir
<1>1. Len(stdout) = 0 <=> stdout = << >>
  BY EmptySeq DEF TInv, TypeOK
<1>2. ASSUME pc \in Listing, stdout = << >> PROVE ~printedFiles /\ ~printedDir
  BY <1>2 DEF SepInv, FlagsTell, LastKind
<1>3. QED
  BY <1>1, <1>2 DEF SepInv, NothingYet

(* What CollectDir and the others do to the number of things to list.      *)
LEMMA CollectCounts ==
  ASSUME TInv, Collect
  PROVE  /\ pc = "collect" /\ stdout' = stdout
         /\ \/ pc' = "cleanup"
            \/ /\ pc' = "collect" /\ index <= Len(operands) /\ index' = index + 1
               /\ \/ Len(dirQueue') = Len(dirQueue) /\ Len(files') = Len(files)
                  \/ Len(dirQueue') = Len(dirQueue) + 1 /\ Len(files') = Len(files)
                  \/ Len(dirQueue') = Len(dirQueue) /\ Len(files') = Len(files) + 1
            \/ /\ pc' = "files" /\ index > Len(operands)
               /\ Len(dirQueue') = Len(dirQueue) /\ files' = files
<1>1. pc = "collect" /\ stdout' = stdout
  BY DEF Collect, CollectMissing, CollectUnreadableLink, CollectDir, CollectFile,
         CollectUnreadableLinkFails, CollectFails, CollectDone,
         CollectSortFails, Collecting, PrintError, output
<1>2. dirQueue \in Seq(DirEntry) /\ files \in Seq(FileEntry) /\ nextId \in Nat
  BY DEF TInv, TypeOK
<1>3. ASSUME index <= Len(operands)
      PROVE  /\ AddDir => Len(dirQueue') = Len(dirQueue) + 1 /\ files' = files
             /\ AddFile => Len(files') = Len(files) + 1 /\ dirQueue' = dirQueue
  <2>1. Operand \in Path
    BY <1>1, <1>3, OperandType
  <2>2. /\ [id |-> nextId, path |-> Operand, operand |-> TRUE, from |-> 0] \in DirEntry
        /\ [id |-> nextId, path |-> Operand] \in FileEntry
    BY <1>2, <2>1 DEF DirEntry, FileEntry
  <2>3. QED
    BY <1>2, <2>2, AppendFacts DEF AddDir, AddFile
<1>4. CASE CollectDone
  <2>1. Rearranges(dirQueue', dirQueue)
    BY <1>2, <1>4, ArrangedRearranges DEF CollectDone
  <2>2. Len(dirQueue') = Len(dirQueue)
    BY <1>2, <2>1, RearrangedFacts
  <2>3. QED
    BY <1>1, <1>4, <2>2 DEF CollectDone
<1>5. CASE CollectDir \/ CollectFile
  BY <1>1, <1>3, <1>5 DEF CollectDir, CollectFile, Collecting, NextOperand
<1>6. ASSUME NEW r \in Outcomes, CollectMissing(r) \/ CollectUnreadableLink(r)
      PROVE  \/ pc' = "cleanup"
             \/ /\ pc' = "collect" /\ index <= Len(operands) /\ index' = index + 1
                /\ AddFile \/ UNCHANGED queues
  BY <1>1, <1>6 DEF CollectMissing, CollectUnreadableLink, Collecting,
                    NextOperand, Fatal
<1>7. CASE \E r \in Outcomes : CollectMissing(r) \/ CollectUnreadableLink(r)
  BY <1>1, <1>3, <1>6, <1>7 DEF queues
<1>8. CASE CollectUnreadableLinkFails \/ CollectFails \/ CollectSortFails
  BY <1>1, <1>8 DEF CollectUnreadableLinkFails, CollectFails, CollectSortFails,
                    Fatal
<1>9. QED
  BY <1>4, <1>5, <1>7, <1>8 DEF Collect
LEMMA Longer ==
  ASSUME NEW s \in Seq(Items), NEW x \in Items, Len(s) = 0
  PROVE  Len(s \o <<x>>) = 1
OBVIOUS

LEMMA GrownBy ==
  ASSUME NEW s \in Seq(Items), NEW x \in Items
  PROVE  /\ Len(s \o <<x>>) = Len(s) + 1 /\ s \o <<x>> \in Seq(Items)
         /\ Headed(s) /\ (x.kind = "dir" => x.header = Header) => Headed(s \o <<x>>)
<1> DEFINE t == s \o <<x>>
<1>1. /\ Len(s) \in Nat /\ Len(t) = Len(s) + 1 /\ t[Len(s) + 1] = x
      /\ \A k \in 1..Len(s) : t[k] = s[k]
      /\ t \in Seq(Items)
  OBVIOUS
<1> HIDE DEF t
<1>2. ASSUME Headed(s), x.kind = "dir" => x.header = Header PROVE Headed(t)
  <2>1. SUFFICES ASSUME NEW k \in 1..Len(t), t[k].kind = "dir"
        PROVE  t[k].header = Header
    BY DEF Headed
  <2>2. k \in 1..Len(s) \/ k = Len(s) + 1
    BY <1>1
  <2>3. QED
    BY <1>1, <1>2, <2>1, <2>2 DEF Headed
<1>3. QED
  BY <1>1, <1>2 DEF t

LEMMA FilesItemTyped ==
  ASSUME TInv, PrintFiles
  PROVE  \E x \in Items : x.kind = "files" /\ stdout' = stdout \o <<x>>
<1>1. PICK t \in Arranged(files, args.reverse) : HandOver(<<FilesItem(t)>>)
  BY DEF PrintFiles
<1>2. <<FilesItem(t)>> \in Seq(Items)
  BY FilesItemType
<1>3. FilesItem(t) \in Items
  <2>1. <<FilesItem(t)>>[1] \in Items
    BY <1>2, ElementOfSeq
  <2>2. QED
    BY <2>1
<1>4. QED
  BY <1>1, <1>3 DEF HandOver, FilesItem

(* What the steps of the listing do to the number of things.               *)
LEMMA OperandsSingle ==
  ASSUME TInv, SepInv, Single, ~Header, ListOperands
  PROVE  /\ pc = "files"
         /\ \/ pc' = "flush" /\ Len(stdout') <= 1
            \/ pc' = "next" /\ Len(stdout') + Len(dirQueue') <= 1
<1>1. pc = "files"
  BY DEF ListOperands, NoFiles, PrintFiles, PrintFilesFails, ListingFails
<1>2. Len(stdout) = 0 /\ Len(dirQueue) + Len(files) <= 1
  BY <1>1, EmptyOutput, Phases DEF Single
<1>3. /\ stdout \in Seq(Items) /\ dirQueue \in Seq(DirEntry)
      /\ files \in Seq(FileEntry)
  BY DEF TInv, TypeOK
<1>4. ASSUME AfterFiles
      PROVE pc' = "flush" \/ (pc' = "next" /\ Len(dirQueue') = Len(dirQueue))
  <2>1. Len(dirQueue') = Len(dirQueue)
    BY <1>3, <1>4, PopOrderRearranges, RearrangedFacts
  <2>2. QED
    BY <1>4, <2>1 DEF AfterFiles
<1>5. CASE NoFiles
  BY <1>1, <1>2, <1>4, <1>5, Lengths DEF NoFiles, output
<1>6. CASE PrintFiles
  <2>1. Len(stdout') = 1
    BY <1>2, <1>3, <1>6, FilesItemTyped, Longer
  <2>2. Len(files) # 0
    BY <1>3, <1>6, EmptySeq DEF PrintFiles
  <2>3. Len(dirQueue) = 0
    BY <1>2, <2>2, Lengths
  <2>4. AfterFiles
    BY <1>6 DEF PrintFiles
  <2>5. QED
    BY <1>1, <1>4, <2>1, <2>3, <2>4
<1>7. CASE PrintFilesFails \/ ListingFails
  <2>1. stdout' = stdout \/ stdout' = stdout \o <<Partial>>
    BY <1>7 DEF PrintFilesFails, ListingFails, HandOver, output
  <2>2. Partial \in Items
    BY DEF Partial, Items
  <2>3. Len(stdout') <= 1
    <3>1. Len(stdout \o <<Partial>>) = 1
      BY <1>2, <1>3, <2>1, <2>2, Longer
    <3>2. Len(stdout') = 0 \/ Len(stdout') = 1
      BY <1>2, <2>1, <2>2, <3>1
    <3>3. QED
      BY <3>2
  <2>4. QED
    BY <1>1, <1>7, <2>3 DEF PrintFilesFails, ListingFails, GiveUp
<1>8. QED
  BY <1>5, <1>6, <1>7 DEF ListOperands

LEMMA LoadSingle ==
  ASSUME Load
  PROVE  /\ pc \in Busy /\ pc' \in Listing \cup Over
         /\ stdout' = stdout /\ dirQueue' = dirQueue
<1>1. pc \in {"open", "read"} /\ stdout' = stdout /\ dirQueue' = dirQueue
  BY DEF Load, OpenDir, OpenFails, SkipHidden, ReadEntry, ReadUnstatable,
         ReadFails, ReadEnd, SortFails, Reading, PrintError, output, queues
<1>2. pc' \in {"next", "read", "queue", "flush"} \/ pc' = pc
  BY DEF Load, OpenDir, OpenFails, SkipHidden, ReadEntry, ReadUnstatable,
         ReadFails, ReadEnd, SortFails, DropDir, GiveUp
<1>3. QED
  BY <1>1, <1>2 DEF Busy, Listing, Over

LEMMA DirsSingle ==
  ASSUME TInv, SepInv, Single, ~Header, ListDirs
  PROVE  /\ pc \in Listing
         /\ \/ pc' = "flush" /\ Len(stdout') <= 1
            \/ pc' = "next" /\ Len(stdout') + Len(dirQueue') <= 1
            \/ pc' \in Busy /\ Len(stdout') + Len(dirQueue') = 0
<1>1. /\ stdout \in Seq(Items) /\ dirQueue \in Seq(DirEntry)
  BY DEF TInv, TypeOK
<1>2. /\ pc = "next" => Len(stdout) + Len(dirQueue) <= 1
      /\ pc \in Busy => Len(stdout) = 0 /\ Len(dirQueue) = 0
  BY Lengths DEF Single
<1>3. ~args.recursive
  BY Lengths
<1>4. Partial \in Items
  BY DEF Partial, Items
<1>5. CASE QueueEmpty
  BY <1>2, <1>5, Lengths DEF QueueEmpty, output, Listing
<1>6. CASE PopDir
  <2>1. Len(dirQueue) \in Nat \ {0} /\ Len(dirQueue') = Len(dirQueue) - 1
    BY <1>1, <1>6, FrontFacts DEF PopDir
  <2>2. Len(stdout) = 0 /\ Len(dirQueue) = 1
    BY <1>2, <1>6, <2>1, Lengths DEF PopDir
  <2>3. ~printedFiles
    BY <1>6, <2>2, EmptyOutput, Phases DEF PopDir
  <2>4. stdout' = stdout
    BY <1>6, <2>3 DEF PopDir, GapDue, output
  <2>5. QED
    BY <1>6, <2>1, <2>2, <2>4, Phases DEF PopDir
<1>7. CASE GapFails
  BY <1>2, <1>7, Lengths DEF GapFails, GiveUp, output, Listing
<1>8. CASE QueueSkip \/ QueueChild \/ QueueChildFails
  BY <1>3, <1>8 DEF QueueSkip, QueueChild, QueueChildFails
<1>9. CASE QueueDone
  BY <1>2, <1>9 DEF QueueDone, output, queues, Busy, Listing
<1>10. CASE PrintDir
  <2>1. Len(stdout) = 0 /\ Len(dirQueue) = 0
    BY <1>2, <1>10, Phases DEF PrintDir
  <2>2. ~printedDir
    BY <1>10, <2>1, EmptyOutput, Phases DEF PrintDir
  <2> DEFINE b == Block(cur, entries, Header)
  <2>3. b \in Items
    BY <1>10, BlockType DEF PrintDir
  <2>4. stdout' = stdout \o (<< >> \o <<b>>) /\ dirQueue' = dirQueue
    BY <1>10, <2>2 DEF PrintDir, HandOver, queues
  <2> HIDE DEF b
  <2>5. stdout' = stdout \o <<b>>
    BY <2>3, <2>4
  <2>6. Len(stdout') = 1
    BY <1>1, <2>1, <2>3, <2>5, Longer
  <2>7. QED
    BY <1>10, <2>1, <2>4, <2>6 DEF PrintDir, Listing
<1>11. CASE PrintDirFails
  <2>1. Len(stdout) = 0
    BY <1>2, <1>11, Phases DEF PrintDirFails
  <2>2. stdout' = stdout \/ stdout' = stdout \o <<Partial>>
    BY <1>11 DEF PrintDirFails, HandOver, output
  <2>3. Len(stdout') <= 1
    <3>1. Len(stdout \o <<Partial>>) = 1
      BY <1>1, <1>4, <2>1, <2>2, Longer
    <3>2. Len(stdout') = 0 \/ Len(stdout') = 1
      BY <1>2, <2>1, <2>2, <3>1
    <3>3. QED
      BY <3>2
  <2>4. QED
    BY <1>11, <2>3 DEF PrintDirFails, GiveUp, Listing
<1>12. QED
  BY <1>5, <1>6, <1>7, <1>8, <1>9, <1>10, <1>11 DEF ListDirs

(* Options and operands do not change.                                     *)
LEMMA HeaderKept ==
  ASSUME [Next]_vars
  PROVE  Header' = Header /\ operands' = operands
<1>1. UNCHANGED <<args, operands>>
  BY DEF Next, Start, StartFails, Collect, CollectMissing, CollectUnreadableLink,
         CollectDir, CollectFile, CollectUnreadableLinkFails, CollectFails,
         CollectDone, CollectSortFails, Collecting, ListOperands, NoFiles,
         PrintFiles, PrintFilesFails, ListingFails, Load, OpenDir, OpenFails,
         SkipHidden, ReadEntry, ReadUnstatable, ReadFails, ReadEnd, SortFails,
         Reading, ListDirs, QueueEmpty, PopDir, GapFails, QueueSkip, QueueChild,
         QueueChildFails, QueueDone, PrintDir, PrintDirFails, LastFlush, Cleanup,
         given, vars
<1>2. QED
  BY <1>1 DEF Header

LEMMA StepSingle ==
  ASSUME TInv, SepInv, Single, [Next]_vars
  PROVE  Single'
<1>1. Header' = Header /\ Len(operands') = Len(operands)
  BY HeaderKept
<1>2. CASE Header
  BY <1>1, <1>2 DEF Single
<1>3. CASE ~Header /\ Start
  <2>1. /\ pc = "start" /\ pc' = "collect" /\ index = 1 /\ index' = 1
        /\ dirQueue' = << >> /\ files' = << >>
    BY <1>3 DEF Start, Single, queues
  <2>2. Len(dirQueue') = 0 /\ Len(files') = 0
    BY <2>1
  <2>3. QED
    BY <1>1, <2>1, <2>2, Lengths DEF Single, Busy, Over
<1>4. CASE ~Header /\ StartFails
  BY <1>4, EmptyOutput DEF StartFails, output, Single, Preparing, Busy, Over
<1>5. CASE ~Header /\ Collect
  <2>1. pc = "collect" /\ Len(stdout) = 0 /\ stdout' = stdout
    BY <1>5, CollectCounts, EmptyOutput DEF Preparing
  <2>2. Len(dirQueue) + Len(files) < index /\ index <= Len(operands) + 1
    BY <1>5, <2>1 DEF Single
  <2>3. Len(operands) <= 1
    BY <1>5, Lengths
  <2>4. \/ pc' = "cleanup"
        \/ /\ pc' = "collect" /\ Len(dirQueue') + Len(files') < index'
           /\ index' <= Len(operands) + 1
        \/ pc' = "files" /\ Len(dirQueue') + Len(files') <= 1
    <3> DEFINE d == Len(dirQueue)
               f == Len(files)
               n == Len(operands)
               d1 == Len(dirQueue')
               f1 == Len(files')
    <3>1. d \in Nat /\ f \in Nat /\ n \in Nat /\ index \in Nat
      BY Lengths
    <3>2. \/ pc' = "cleanup"
          \/ /\ pc' = "collect" /\ index <= n /\ index' = index + 1
             /\ \/ d1 = d /\ f1 = f
                \/ d1 = d + 1 /\ f1 = f
                \/ d1 = d /\ f1 = f + 1
          \/ pc' = "files" /\ index > n /\ d1 = d /\ f1 = f
      BY <1>5, CollectCounts
    <3>3. d + f < index /\ index <= n + 1 /\ n <= 1
      BY <2>2, <2>3
    <3> HIDE DEF d, f, n, d1, f1
    <3>4. \/ pc' = "cleanup"
          \/ pc' = "collect" /\ d1 + f1 < index' /\ index' <= n + 1
          \/ pc' = "files" /\ d1 + f1 <= 1
      BY <3>1, <3>2, <3>3
    <3>5. QED
      BY <3>4 DEF d, f, n, d1, f1
  <2>5. QED
    BY <1>1, <2>1, <2>4 DEF Single, Busy, Over
<1>6. CASE ~Header /\ ListOperands
  BY <1>1, <1>6, OperandsSingle DEF Single, Busy, Over
<1>7. CASE ~Header /\ Load
  <2>1. Len(stdout) = 0 /\ Len(dirQueue) = 0
    BY <1>7, LoadSingle, Lengths DEF Single
  <2>2. QED
    BY <1>1, <1>7, <2>1, LoadSingle DEF Single, Busy, Over, Listing
<1>8. CASE ~Header /\ ListDirs
  BY <1>1, <1>8, DirsSingle DEF Single, Busy, Over
<1>9. CASE ~Header /\ \E flushed \in BOOLEAN : LastFlush(flushed)
  BY <1>1, <1>9 DEF LastFlush, Single, Busy, Over
<1>10. CASE ~Header /\ Cleanup
  BY <1>1, <1>10 DEF Cleanup, output, Single, Busy, Over
<1>11. CASE UNCHANGED vars
  BY <1>1, <1>11 DEF vars, output, queues, Single
<1>12. QED
  BY <1>2, <1>3, <1>4, <1>5, <1>6, <1>7, <1>8, <1>9, <1>10, <1>11 DEF Next

LEMMA StepHeaded ==
  ASSUME TInv, SepInv, Headed(stdout), [Next]_vars, Header' = Header
  PROVE  Headed(stdout)'
<1>1. /\ stdout \in Seq(Items) /\ Partial \in Items /\ Partial.kind = "partial"
      /\ Blank \in Items /\ Blank.kind = "blank"
  BY DEF TInv, TypeOK, Partial, Blank, Items
<1>2. CASE stdout' = stdout
  BY <1>2 DEF Headed
<1>3. ASSUME NEW x \in Items, stdout' = stdout \o <<x>>,
             x.kind = "dir" => x.header = Header
      PROVE  Headed(stdout)'
  <2>1. Headed(stdout \o <<x>>)
    BY <1>1, <1>3, GrownBy
  <2>2. QED
    BY <1>3, <2>1 DEF Headed
<1>4. CASE PopDir
  BY <1>1, <1>2, <1>3, <1>4 DEF PopDir, HandOver, output
<1>5. CASE Ends
  BY <1>1, <1>2, <1>3, <1>5 DEF Ends
<1>6. CASE PrintDir
  <2> DEFINE b == Block(cur, entries, Header)
             s == stdout \o <<Blank>>
  <2>1. b \in Items /\ b.header = Header
    BY <1>6, BlockType DEF PrintDir, Block
  <2>2. stdout' = stdout \o ((IF printedDir THEN <<Blank>> ELSE << >>) \o <<b>>)
    BY <1>6 DEF PrintDir, HandOver
  <2> HIDE DEF b
  <2>3. CASE ~printedDir
    <3>1. stdout' = stdout \o <<b>>
      BY <1>1, <2>1, <2>2, <2>3
    <3>2. QED
      BY <1>3, <2>1, <3>1
  <2>4. CASE printedDir
    <3>1. stdout' = s \o <<b>>
      BY <1>1, <2>1, <2>2, <2>4
    <3>2. s \in Seq(Items) /\ Headed(s)
      BY <1>1, GrownBy
    <3> HIDE DEF s
    <3>3. Headed(s \o <<b>>)
      BY <2>1, <3>2, GrownBy
    <3>4. QED
      BY <3>1, <3>3 DEF Headed
  <2>5. QED
    BY <2>3, <2>4
<1>7. CASE ListsFiles
  BY <1>3, <1>7, FilesItemTyped DEF ListsFiles
<1>8. CASE Prepares \/ Works \/ Idle
  BY <1>2, <1>8 DEF Prepares, Works, Idle, Quiet
<1>9. QED
  BY <1>4, <1>5, <1>6, <1>7, <1>8, StepListing DEF ListingEffect

(* When more than one thing is listed, every directory block carries its   *)
(* path, whatever became of the other operands (print_dir_path).           *)
THEOREM BlocksNamed == Spec => []Labelled
<1>1. TInv /\ SepInv /\ LabelInv => Labelled
  <2>1. SUFFICES ASSUME TInv, SepInv, LabelInv,
                        NEW j \in 1..Len(stdout), NEW k \in 1..Len(stdout),
                        j # k, stdout[k].kind = "dir"
                 PROVE  stdout[k].header
    BY DEF Labelled, DirBlocks
  <2>2. Len(stdout) \in Nat /\ Len(stdout) > 1
    BY <2>1, Lengths
  <2>3. pc \in Preparing \cup Listing \cup Over
    BY <2>1 DEF TInv, TypeOK, PCs, Preparing, Listing, Over
  <2>4. pc \in Preparing => Len(stdout) = 0
    BY <2>1, EmptyOutput
  <2>5. pc \in Listing => pc = "next" \/ pc \in Busy
    BY DEF Listing, Busy
  <2>6. Header
    <3>1. SUFFICES ASSUME ~Header PROVE FALSE
      BY <2>1, Lengths
    <3>2. /\ pc = "next" => Len(stdout) + Len(dirQueue) <= 1
          /\ pc \in Busy => Len(stdout) + Len(dirQueue) = 0
          /\ pc \in Over => Len(stdout) <= 1
      BY <2>1, <3>1 DEF LabelInv, Single
    <3>3. Len(dirQueue) \in Nat
      BY <2>1, Lengths
    <3>4. QED
      BY <2>2, <2>3, <2>4, <2>5, <3>2, <3>3
  <2>7. QED
    BY <2>1, <2>6 DEF LabelInv, Headed
<1>2. TInv /\ SepInv /\ LabelInv /\ [Next]_vars => SepInv' /\ LabelInv'
  <2>1. SUFFICES ASSUME TInv, SepInv, LabelInv, [Next]_vars
                 PROVE  SepInv' /\ LabelInv'
    OBVIOUS
  <2>2. SepInv'
    BY <2>1, StepSepInv
  <2>3. Single'
    BY <2>1, StepSingle DEF LabelInv
  <2>4. Headed(stdout)'
    BY <2>1, StepHeaded, HeaderKept DEF LabelInv
  <2>5. QED
    BY <2>2, <2>3, <2>4 DEF LabelInv
<1>3. QED
  BY <1>1, <1>2, InitSepInv, InitLabelInv, Typed, PTL DEF Spec
-----------------------------------------------------------------------------
(***************************************************************************)
(* That the listing implements Traversal, keeps siblings in order, and is  *)
(* complete when the exit code is 0.                                       *)
(***************************************************************************)

(* The directory blocks of an output, and the listings in their order.     *)
BlocksIn(s) == {k \in 1..Len(s) : s[k].kind = "dir"}
PlaceIn(s, k) == Cardinality({j \in BlocksIn(s) : j <= k})
NthIn(s, n) == CHOOSE k \in BlocksIn(s) : PlaceIn(s, k) = n
ListingsIn(s) == [n \in 1..Cardinality(BlocksIn(s)) |-> s[NthIn(s, n)]]

(* Every place in the sequence of listings is that of a block.             *)
Placed(s) ==
  \A n \in 1..Cardinality(BlocksIn(s)) :
    \E k \in BlocksIn(s) : PlaceIn(s, k) = n
-----------------------------------------------------------------------------
LEMMA OneItemMore ==
  ASSUME NEW s \in Seq(Items), NEW x \in Items
  PROVE  LET t == s \o <<x>>
         IN  /\ t \in Seq(Items) /\ Len(s) \in Nat /\ Len(t) = Len(s) + 1
             /\ t[Len(s) + 1] = x /\ \A k \in 1..Len(s) : t[k] = s[k]
             /\ x.kind = "dir" => BlocksIn(t) = BlocksIn(s) \cup {Len(s) + 1}
             /\ x.kind # "dir" => BlocksIn(t) = BlocksIn(s)
             /\ Len(s) + 1 \notin BlocksIn(s)
<1> DEFINE t == s \o <<x>>
           n == Len(s)
<1>1. /\ n \in Nat /\ Len(t) = n + 1 /\ t[n + 1] = x /\ t \in Seq(Items)
      /\ \A k \in 1..n : t[k] = s[k]
  OBVIOUS
<1>2. 1..(n + 1) = (1..n) \cup {n + 1} /\ n + 1 \notin 1..n
  BY <1>1
<1>3. BlocksIn(t) = {k \in 1..(n + 1) : t[k].kind = "dir"}
  BY <1>1 DEF BlocksIn
<1>4. BlocksIn(s) = {k \in 1..n : s[k].kind = "dir"}
  BY DEF BlocksIn
<1> HIDE DEF t, n
<1>5. x.kind = "dir" => BlocksIn(t) = BlocksIn(s) \cup {n + 1}
  BY <1>1, <1>2, <1>3, <1>4
<1>6. x.kind # "dir" => BlocksIn(t) = BlocksIn(s)
  BY <1>1, <1>2, <1>3, <1>4
<1>7. QED
  BY <1>1, <1>2, <1>4, <1>5, <1>6 DEF t, n

LEMMA BlocksFinite ==
  ASSUME NEW s \in Seq(Items)
  PROVE  /\ IsFiniteSet(BlocksIn(s)) /\ Cardinality(BlocksIn(s)) \in Nat
         /\ BlocksIn(s) \subseteq 1..Len(s) /\ Len(s) \in Nat
         /\ \A k : /\ IsFiniteSet({j \in BlocksIn(s) : j <= k})
                   /\ PlaceIn(s, k) \in Nat
                   /\ PlaceIn(s, k) <= Cardinality(BlocksIn(s))
<1>1. Len(s) \in Nat /\ BlocksIn(s) \subseteq 1..Len(s)
  BY DEF BlocksIn
<1>2. IsFiniteSet(1..Len(s))
  BY <1>1, FS_Interval
<1>3. IsFiniteSet(BlocksIn(s)) /\ Cardinality(BlocksIn(s)) \in Nat
  BY <1>1, <1>2, FS_Subset, FS_CardinalityType
<1>4. ASSUME NEW k
      PROVE  /\ IsFiniteSet({j \in BlocksIn(s) : j <= k})
             /\ PlaceIn(s, k) \in Nat
             /\ PlaceIn(s, k) <= Cardinality(BlocksIn(s))
  <2>1. {j \in BlocksIn(s) : j <= k} \in SUBSET BlocksIn(s)
    OBVIOUS
  <2>2. QED
    BY <2>1, <1>3, FS_Subset, FS_CardinalityType DEF PlaceIn
<1>5. QED
  BY <1>1, <1>3, <1>4

(* Two blocks have different places.                                       *)
LEMMA PlacesDiffer ==
  ASSUME NEW s \in Seq(Items), NEW j \in BlocksIn(s), NEW k \in BlocksIn(s),
         PlaceIn(s, j) = PlaceIn(s, k)
  PROVE  j = k
<1>1. ASSUME NEW a \in BlocksIn(s), NEW b \in BlocksIn(s), a < b
      PROVE  PlaceIn(s, a) # PlaceIn(s, b)
  <2> DEFINE A == {i \in BlocksIn(s) : i <= a}
             B == {i \in BlocksIn(s) : i <= b}
  <2>1. a \in Nat /\ b \in Nat /\ \A i \in BlocksIn(s) : i \in Nat
    BY BlocksFinite
  <2>2. A \in SUBSET B
    <3>1. \A i \in BlocksIn(s) : i <= a => i <= b
      BY <1>1, <2>1
    <3>2. QED
      BY <3>1
  <2>6. b \in B /\ b \notin A
    <3>1. b <= b /\ ~(b <= a)
      BY <1>1, <2>1
    <3>2. QED
      BY <3>1
  <2>3. IsFiniteSet(B)
    BY BlocksFinite
  <2>4. Cardinality(A) # Cardinality(B)
    BY <2>2, <2>3, <2>6, FS_Subset
  <2>5. QED
    BY <2>4 DEF PlaceIn
<1>2. j \in Nat /\ k \in Nat
  BY BlocksFinite
<1>3. QED
  BY <1>1, <1>2

LEMMA NthPlace ==
  ASSUME NEW s \in Seq(Items), NEW k \in BlocksIn(s), NEW n, PlaceIn(s, k) = n
  PROVE  NthIn(s, n) = k
<1>1. NthIn(s, n) \in BlocksIn(s) /\ PlaceIn(s, NthIn(s, n)) = n
  BY DEF NthIn
<1>2. QED
  BY <1>1, PlacesDiffer

LEMMA ListingsTyped ==
  ASSUME NEW s \in Seq(Items), Placed(s)
  PROVE  /\ ListingsIn(s) \in Seq(Items)
         /\ Len(ListingsIn(s)) = Cardinality(BlocksIn(s))
         /\ \A n \in 1..Cardinality(BlocksIn(s)) :
              \E k \in BlocksIn(s) : ListingsIn(s)[n] = s[k]
<1> DEFINE N == Cardinality(BlocksIn(s))
<1>1. N \in Nat
  BY BlocksFinite
<1>2. \A n \in 1..N : NthIn(s, n) \in BlocksIn(s)
  BY DEF Placed, NthIn
<1>3. \A k \in BlocksIn(s) : s[k] \in Items
  BY ElementOfSeq, BlocksFinite
<1>4. \A n \in 1..N : ListingsIn(s)[n] = s[NthIn(s, n)]
  BY DEF ListingsIn
<1>5. ListingsIn(s) \in [1..N -> Items]
  BY <1>2, <1>3 DEF ListingsIn
<1>6. ListingsIn(s) \in Seq(Items) /\ Len(ListingsIn(s)) = N
  BY <1>1, <1>5, SeqDef, LenProperties
<1>7. QED
  BY <1>2, <1>4, <1>6

LEMMA ListingsSame ==
  ASSUME NEW s \in Seq(Items), NEW x \in Items, x.kind # "dir", Placed(s)
  PROVE  /\ Placed(s \o <<x>>)
         /\ ListingsIn(s \o <<x>>) = ListingsIn(s)
<1> DEFINE t == s \o <<x>>
           B == BlocksIn(s)
           N == Cardinality(B)
<1>1. BlocksIn(t) = B /\ t \in Seq(Items) /\ \A k \in B : t[k] = s[k]
  BY OneItemMore, BlocksFinite
<1>2. \A k : PlaceIn(t, k) = PlaceIn(s, k)
  BY <1>1 DEF PlaceIn
<1> HIDE DEF t
<1>3. \A n \in 1..N : t[NthIn(t, n)] = s[NthIn(s, n)]
  <2> TAKE n \in 1..N
  <2>1. PICK k \in B : PlaceIn(s, k) = n
    BY DEF Placed
  <2>2. NthIn(s, n) = k /\ NthIn(t, n) = k
    BY <1>1, <1>2, <2>1, NthPlace
  <2>3. QED
    BY <1>1, <2>2
<1>4. ListingsIn(t) = ListingsIn(s)
  BY <1>1, <1>3 DEF ListingsIn
<1>5. Placed(t)
  BY <1>1, <1>2 DEF Placed
<1>6. QED
  BY <1>4, <1>5 DEF t

LEMMA ListingsMore ==
  ASSUME NEW s \in Seq(Items), NEW x \in Items, x.kind = "dir", Placed(s)
  PROVE  LET N == Cardinality(BlocksIn(s))
             l == ListingsIn(s \o <<x>>)
         IN  /\ Placed(s \o <<x>>)
             /\ N \in Nat
             /\ l \in Seq(Items) /\ Len(l) = N + 1 /\ l[N + 1] = x
             /\ \A n \in 1..N : l[n] = ListingsIn(s)[n]
<1> DEFINE t == s \o <<x>>
           B == BlocksIn(s)
           N == Cardinality(B)
           m == Len(s) + 1
<1>1. /\ BlocksIn(t) = B \cup {m} /\ m \notin B /\ t \in Seq(Items)
      /\ \A k \in B : t[k] = s[k] /\ k \in Nat /\ k < m
      /\ t[m] = x /\ m \in Nat
  <2>1. \A k \in B : k \in 1..Len(s) /\ Len(s) \in Nat
    BY BlocksFinite
  <2>2. \A k \in B : k \in Nat /\ k < m
    BY <2>1
  <2>3. QED
    BY <2>1, <2>2, OneItemMore
<1>2. IsFiniteSet(B) /\ N \in Nat /\ Cardinality(BlocksIn(t)) = N + 1
  BY <1>1, BlocksFinite, FS_AddElement
<1> HIDE DEF t, m
<1>3. \A k \in B : PlaceIn(t, k) = PlaceIn(s, k)
  <2> TAKE k \in B
  <2>1. ~(m <= k)
    BY <1>1
  <2>2. {j \in B \cup {m} : j <= k} = {j \in B : j <= k}
    BY <2>1
  <2>3. QED
    BY <1>1, <2>2 DEF PlaceIn
<1>4. PlaceIn(t, m) = N + 1
  <2>1. \A j \in B \cup {m} : j <= m
    BY <1>1
  <2>2. {j \in B \cup {m} : j <= m} = B \cup {m}
    BY <2>1
  <2>3. QED
    BY <1>1, <1>2, <2>2 DEF PlaceIn
<1>5. \A n \in 1..N : \E k \in B : PlaceIn(s, k) = n
  BY DEF Placed
<1>6. \A n \in 1..N : t[NthIn(t, n)] = s[NthIn(s, n)]
  <2> TAKE n \in 1..N
  <2>1. PICK k \in B : PlaceIn(s, k) = n
    BY <1>5
  <2>2. k \in BlocksIn(t) /\ PlaceIn(t, k) = n
    BY <1>1, <1>3, <2>1
  <2>3. NthIn(s, n) = k /\ NthIn(t, n) = k
    BY <1>1, <2>1, <2>2, NthPlace
  <2>4. QED
    BY <1>1, <2>3
<1>7. NthIn(t, N + 1) = m
  BY <1>1, <1>4, NthPlace
<1>8. 1..(N + 1) = (1..N) \cup {N + 1}
  BY <1>2
<1>9. Placed(t)
  BY <1>1, <1>2, <1>3, <1>4, <1>5, <1>8 DEF Placed
<1>10. ListingsIn(t) = [n \in 1..(N + 1) |-> t[NthIn(t, n)]]
  BY <1>2 DEF ListingsIn
<1>11. \A n \in 1..(N + 1) : NthIn(t, n) \in BlocksIn(t)
  BY <1>2, <1>9 DEF Placed, NthIn
<1>12. \A k \in BlocksIn(t) : t[k] \in Items
  BY <1>1, ElementOfSeq, BlocksFinite
<1>13. ListingsIn(t) \in [1..(N + 1) -> Items]
  BY <1>10, <1>11, <1>12
<1>14. ListingsIn(t) \in Seq(Items) /\ Len(ListingsIn(t)) = N + 1
  <2>1. N + 1 \in Nat
    BY <1>2
  <2>2. QED
    BY <1>13, <2>1, SeqDef, LenProperties
<1>15. ListingsIn(t)[N + 1] = x
  BY <1>1, <1>7, <1>8, <1>10
<1>16. \A n \in 1..N : ListingsIn(t)[n] = ListingsIn(s)[n]
  BY <1>6, <1>8, <1>10 DEF ListingsIn
<1>17. QED
  BY <1>2, <1>9, <1>14, <1>15, <1>16 DEF t
-----------------------------------------------------------------------------
(* What a step does to the blocks.                                         *)

BlocksKept ==
  /\ DirBlocks' = DirBlocks
  /\ \A k \in DirBlocks : stdout'[k] = stdout[k]
  /\ Placed(stdout) => Placed(stdout') /\ ListingsIn(stdout') = ListingsIn(stdout)

(* print_dir_path and the entries: the last block is that of cur.          *)
BlockAdded ==
  \E m \in Nat :
    /\ DirBlocks' = DirBlocks \cup {m}
    /\ stdout'[m] = Block(cur, entries, Header)
    /\ \A k \in DirBlocks : k \in Nat /\ k < m /\ stdout'[k] = stdout[k]

ListingAdded ==
  /\ Placed(stdout')
  /\ ListingsIn(stdout') \in Seq(Items)
  /\ Len(ListingsIn(stdout')) = Cardinality(DirBlocks) + 1
  /\ ListingsIn(stdout')[Cardinality(DirBlocks) + 1] = Block(cur, entries, Header)
  /\ \A n \in 1..Cardinality(DirBlocks) :
       ListingsIn(stdout')[n] = ListingsIn(stdout)[n]

ItemsKept ==
  /\ Len(stdout) \in Nat /\ Len(stdout') \in Nat /\ Len(stdout) <= Len(stdout')
  /\ \A k \in 1..Len(stdout) : stdout'[k] = stdout[k]

(* The output grows by an item that is no block, or not at all.            *)
OtherItem ==
  stdout' = stdout \/ \E x \in Items : x.kind # "dir" /\ stdout' = stdout \o <<x>>

LEMMA StepOtherItem ==
  ASSUME TInv, SepInv, [Next]_vars, ~PrintDir
  PROVE  OtherItem
<1>1. /\ Partial \in Items /\ Partial.kind = "partial"
      /\ Blank \in Items /\ Blank.kind = "blank"
  BY DEF Partial, Blank, Items
<1>2. CASE PopDir
  BY <1>1, <1>2 DEF PopDir, HandOver, output, OtherItem
<1>3. CASE Ends
  BY <1>1, <1>3 DEF Ends, OtherItem
<1>4. CASE ListsFiles
  BY <1>4, FilesItemTyped DEF ListsFiles, OtherItem
<1>5. CASE Prepares \/ Works \/ Idle
  BY <1>5 DEF Prepares, Works, Idle, Quiet, OtherItem
<1>6. QED
  BY <1>2, <1>3, <1>4, <1>5, StepListing DEF ListingEffect

LEMMA BlocksOfOutput == DirBlocks = BlocksIn(stdout)
BY DEF DirBlocks, BlocksIn

LEMMA OtherBlocks ==
  ASSUME TInv, OtherItem
  PROVE  BlocksKept /\ ItemsKept
<1>1. stdout \in Seq(Items)
  BY DEF TInv, TypeOK
<1>2. CASE stdout' = stdout
  BY <1>1, <1>2, LenProperties DEF BlocksKept, ItemsKept, DirBlocks
<1>3. ASSUME NEW x \in Items, x.kind # "dir", stdout' = stdout \o <<x>>
      PROVE  BlocksKept /\ ItemsKept
  <2>1. ItemsKept
    BY <1>1, <1>3, OneItemMore DEF ItemsKept
  <2>2. BlocksIn(stdout') = BlocksIn(stdout)
    BY <1>1, <1>3, OneItemMore
  <2>3. DirBlocks' = DirBlocks
    BY <2>2 DEF DirBlocks, BlocksIn
  <2>4. \A k \in DirBlocks : stdout'[k] = stdout[k]
    BY <2>1 DEF ItemsKept, DirBlocks
  <2>5. Placed(stdout) => Placed(stdout') /\ ListingsIn(stdout') = ListingsIn(stdout)
    BY <1>1, <1>3, ListingsSame
  <2>6. QED
    BY <2>1, <2>3, <2>4, <2>5 DEF BlocksKept
<1>4. QED
  BY <1>2, <1>3 DEF OtherItem

LEMMA PrintBlocks ==
  ASSUME TInv, PrintDir
  PROVE  BlockAdded /\ ItemsKept /\ (Placed(stdout) => ListingAdded)
<1> DEFINE b == Block(cur, entries, Header)
           gap == stdout \o <<Blank>>
<1>1. stdout \in Seq(Items) /\ Blank \in Items /\ Blank.kind # "dir"
      /\ b \in Items /\ b.kind = "dir"
  BY BlockType DEF TInv, TypeOK, Blank, Items, PrintDir, Block
<1>2. stdout' = stdout \o ((IF printedDir THEN <<Blank>> ELSE << >>) \o <<b>>)
  BY DEF PrintDir, HandOver
<1> HIDE DEF b
<1>3. stdout' = gap \o <<b>> \/ stdout' = stdout \o <<b>>
  <2>1. CASE printedDir
    BY <1>1, <1>2, <2>1
  <2>2. CASE ~printedDir
    BY <1>1, <1>2, <2>2
  <2>3. QED
    BY <2>1, <2>2
<1>4. /\ gap \in Seq(Items) /\ Len(stdout) \in Nat /\ Len(gap) = Len(stdout) + 1
      /\ \A k \in 1..Len(stdout) : gap[k] = stdout[k]
      /\ BlocksIn(gap) = BlocksIn(stdout)
  BY <1>1, OneItemMore
<1>5. Placed(stdout) => Placed(gap) /\ ListingsIn(gap) = ListingsIn(stdout)
  BY <1>1, ListingsSame
<1> HIDE DEF gap
<1>6. ASSUME NEW s \in Seq(Items), s = stdout \/ s = gap, stdout' = s \o <<b>>
      PROVE  BlockAdded /\ ItemsKept /\ (Placed(stdout) => ListingAdded)
  <2>1. /\ Len(s) \in Nat /\ Len(stdout) <= Len(s)
        /\ BlocksIn(s) = BlocksIn(stdout)
        /\ \A k \in 1..Len(stdout) : s[k] = stdout[k]
    BY <1>4, <1>6
  <2>2. /\ Len(stdout') = Len(s) + 1 /\ stdout'[Len(s) + 1] = b
        /\ \A k \in 1..Len(s) : stdout'[k] = s[k]
        /\ BlocksIn(stdout') = BlocksIn(stdout) \cup {Len(s) + 1}
    BY <1>1, <1>6, <2>1, OneItemMore
  <2>3. \A k \in 1..Len(stdout) : k \in 1..Len(s) /\ k \in Nat /\ k < Len(s) + 1
    BY <1>4, <2>1
  <2>4. ItemsKept
    BY <1>4, <2>1, <2>2, <2>3 DEF ItemsKept
  <2>5. DirBlocks' = DirBlocks \cup {Len(s) + 1}
    BY <2>2 DEF DirBlocks, BlocksIn
  <2>6. \A k \in DirBlocks : k \in 1..Len(stdout)
    BY DEF DirBlocks
  <2>7. BlockAdded
    <3>1. Len(s) + 1 \in Nat
      BY <2>1
    <3>2. \A k \in DirBlocks : k \in Nat /\ k < Len(s) + 1 /\ stdout'[k] = stdout[k]
      BY <2>1, <2>2, <2>3, <2>6
    <3>3. QED
      BY <2>2, <2>5, <3>1, <3>2 DEF BlockAdded, b
  <2>8. ASSUME Placed(stdout) PROVE ListingAdded
    <3>1. Placed(s) /\ ListingsIn(s) = ListingsIn(stdout)
      BY <1>5, <1>6, <2>8
    <3>2. QED
      BY <1>1, <1>6, <2>1, <3>1, ListingsMore, BlocksOfOutput DEF ListingAdded, b
  <2>9. QED
    BY <2>4, <2>7, <2>8
<1>7. QED
  BY <1>1, <1>3, <1>4, <1>6
-----------------------------------------------------------------------------
(* What a step does to the tree of directories.                            *)

(* An operand that will be listed as a directory.                          *)
QueuesOperand ==
  /\ \E d \in DirEntry :
       /\ d.id = nextId /\ d.from = 0 /\ d.operand /\ d.path = Operand
       /\ dirQueue' = Append(dirQueue, d)
  /\ nextId' = nextId + 1

(* The operands are collected, sorted, and the files among them printed.   *)
Gathers ==
  /\ pc \in Preparing /\ pc' \in Preparing \cup {"next"} /\ cur' = cur
  /\ \/ QueuesOperand
     \/ Rearranges(dirQueue', dirQueue) /\ nextId' \in {nextId, nextId + 1}

Reads ==
  /\ pc \in {"open", "read"} /\ pc' = "read"
  /\ UNCHANGED <<cur, dirQueue, nextId>>

(* A directory is given up.                                                *)
Drops ==
  /\ pc \in {"open", "read"} /\ pc' = "next" /\ cur' = NoDir /\ exitCode' # 0
  /\ UNCHANGED <<dirQueue, nextId>>

(* The listing is over.                                                    *)
Stops == pc' \in Over /\ cur' = NoDir

QueueStep == QueueSkip \/ QueueChild \/ QueueDone

TreeCase ==
  \/ Gathers \/ PopDir \/ Reads \/ ReadEnd \/ QueueStep \/ PrintDir \/ Drops
  \/ Stops \/ UNCHANGED vars

(* A step keeps the blocks, or adds that of the directory it has read.     *)
TreeEffect ==
  /\ TreeCase /\ ItemsKept
  /\ \/ BlocksKept /\ ~PrintDir
     \/ PrintDir /\ BlockAdded /\ (Placed(stdout) => ListingAdded)

LEMMA GathersSame ==
  ASSUME TInv, pc \in Preparing, pc' \in Preparing \cup {"next"}, cur' = cur,
         dirQueue' = dirQueue, nextId' \in {nextId, nextId + 1}
  PROVE  TreeCase
<1>1. Rearranges(dirQueue', dirQueue)
  BY IdentityRearranges DEF TInv, TypeOK
<1>2. QED
  BY <1>1 DEF TreeCase, Gathers

LEMMA CollectTree ==
  ASSUME TInv, Collect
  PROVE  TreeCase
<1>1. /\ pc = "collect" /\ cur' = cur
      /\ pc' \in {"collect", "files", "cleanup"}
  BY DEF Collect, CollectMissing, CollectUnreadableLink, CollectDir, CollectFile,
         CollectUnreadableLinkFails, CollectFails, CollectDone,
         CollectSortFails, Collecting, NextOperand, Fatal, loading
<1>2. pc' = "cleanup" => TreeCase
  BY <1>1, CurIsDir DEF TreeCase, Stops, Over
<1>3. pc \in Preparing /\ (pc' # "cleanup" => pc' \in Preparing)
  BY <1>1 DEF Preparing
<1>4. CASE CollectDir
  <2>1. Operand \in Path /\ nextId \in Nat
    BY <1>4, OperandType DEF CollectDir, Collecting, TInv, TypeOK
  <2> DEFINE d == [id |-> nextId, path |-> Operand, operand |-> TRUE, from |-> 0]
  <2>2. /\ d \in DirEntry /\ d.id = nextId /\ d.from = 0 /\ d.operand
        /\ d.path = Operand
    BY <2>1 DEF DirEntry
  <2>3. dirQueue' = Append(dirQueue, d) /\ nextId' = nextId + 1
    BY <1>4 DEF CollectDir, AddDir, NewEntry
  <2> HIDE DEF d
  <2>4. QueuesOperand
    BY <2>2, <2>3 DEF QueuesOperand
  <2>5. QED
    BY <1>1, <1>2, <1>3, <2>4 DEF TreeCase, Gathers
<1>5. CASE CollectDone
  <2>1. Rearranges(dirQueue', dirQueue)
    BY <1>5, ArrangedRearranges DEF CollectDone, TInv, TypeOK
  <2>2. QED
    BY <1>1, <1>2, <1>3, <1>5, <2>1 DEF CollectDone, memory, TreeCase, Gathers
<1>6. CASE ~CollectDir /\ ~CollectDone
  <2>1. dirQueue' = dirQueue /\ nextId' \in {nextId, nextId + 1}
    BY <1>6 DEF Collect, CollectMissing, CollectUnreadableLink, CollectFile,
         CollectUnreadableLinkFails, CollectFails, CollectSortFails, AddFile,
         NewEntry, queues, memory
  <2>2. QED
    BY <1>1, <1>2, <1>3, <2>1, GathersSame
<1>7. QED
  BY <1>4, <1>5, <1>6

LEMMA OperandsTree ==
  ASSUME TInv, ListOperands
  PROVE  TreeCase
<1>1. pc = "files" /\ cur' = cur /\ nextId' = nextId /\ cur = NoDir
  BY CurIsDir DEF ListOperands, NoFiles, PrintFiles, PrintFilesFails, ListingFails,
     loading, memory
<1>2. pc' = "flush" => TreeCase
  BY <1>1 DEF TreeCase, Stops, Over
<1>3. CASE AfterFiles
  <2>1. Rearranges(dirQueue', dirQueue)
    BY <1>3, PopOrderRearranges
  <2>2. pc' \in {"flush", "next"}
    BY <1>3 DEF AfterFiles
  <2>3. QED
    BY <1>1, <1>2, <2>1, <2>2 DEF TreeCase, Gathers, Preparing
<1>4. CASE GiveUp
  BY <1>2, <1>4 DEF GiveUp
<1>5. QED
  BY <1>3, <1>4
     DEF ListOperands, NoFiles, PrintFiles, PrintFilesFails, ListingFails

LEMMA DropTree ==
  ASSUME pc \in {"open", "read"}, DropDir, exitCode' # 0, UNCHANGED queues
  PROVE  TreeCase
BY DEF DropDir, FreeCur, GiveUp, queues, TreeCase, Drops, Stops, Over

LEMMA LoadTree ==
  ASSUME Load
  PROVE  TreeCase
<1>1. CASE OpenDir
  BY <1>1 DEF OpenDir, queues, memory, TreeCase, Reads
<1>2. ASSUME NEW r \in Outcomes, OpenFails(r) PROVE TreeCase
  <2>1. exitCode' # 0
    BY <1>2 DEF OpenFails
  <2>2. QED
    BY <1>2, <2>1, DropTree DEF OpenFails
<1>3. ASSUME NEW p \in Path, SkipHidden(p) PROVE TreeCase
  BY <1>3 DEF SkipHidden, Reading, queues, TreeCase, Reads
<1>4. ASSUME NEW p \in Path, NEW a \in Answers, ReadEntry(p, a) PROVE TreeCase
  <2>1. /\ pc = "read" /\ UNCHANGED <<pc, cur, queues, nextId>>
    BY <1>4 DEF ReadEntry, Reading
  <2>2. QED
    BY <2>1 DEF queues, TreeCase, Reads
<1>5. ASSUME NEW p \in Path, NEW r \in Outcomes, NEW d \in BOOLEAN,
             ReadUnstatable(p, r, d)
      PROVE  TreeCase
  <2>1. CASE r = "sent"
    BY <1>5, <2>1 DEF ReadUnstatable, Reading, queues, TreeCase, Reads
  <2>2. CASE r # "sent"
    BY <1>5, <2>2, DropTree DEF ReadUnstatable, Reading
  <2>3. QED
    BY <2>1, <2>2
<1>6. ASSUME NEW p \in Path, ReadFails(p) PROVE TreeCase
  BY <1>6, DropTree DEF ReadFails, Reading
<1>7. CASE ReadEnd
  BY <1>7 DEF TreeCase
<1>8. CASE SortFails
  BY <1>8 DEF SortFails, FreeCur, GiveUp, TreeCase, Stops, Over
<1>9. QED
  BY <1>1, <1>2, <1>3, <1>4, <1>5, <1>6, <1>7, <1>8 DEF Load

LEMMA DirsTree ==
  ASSUME TInv, ListDirs
  PROVE  TreeCase
<1>1. CASE QueueEmpty \/ GapFails
  BY <1>1, CurIsDir
     DEF QueueEmpty, GapFails, GiveUp, loading, TreeCase, Stops, Over
<1>2. CASE QueueChildFails \/ PrintDirFails
  BY <1>2 DEF QueueChildFails, PrintDirFails, FreeCur, GiveUp, TreeCase, Stops, Over
<1>3. CASE PopDir \/ QueueSkip \/ QueueChild \/ QueueDone \/ PrintDir
  BY <1>3 DEF TreeCase, QueueStep
<1>4. QED
  BY <1>1, <1>2, <1>3 DEF ListDirs

LEMMA StepTree ==
  ASSUME TInv, SepInv, [Next]_vars
  PROVE  TreeEffect
<1>1. Start => TreeCase
  BY GathersSame DEF Start, queues, loading, memory, Preparing
<1>2. StartFails \/ Cleanup \/ (\E flushed \in BOOLEAN : LastFlush(flushed))
        => TreeCase
  BY CurIsDir DEF StartFails, Cleanup, LastFlush, loading, TreeCase, Stops, Over
<1>3. TreeCase
  BY <1>1, <1>2, CollectTree, OperandsTree, LoadTree, DirsTree DEF Next, TreeCase
<1>4. CASE PrintDir
  BY <1>3, <1>4, PrintBlocks DEF TreeEffect
<1>5. CASE ~PrintDir
  BY <1>3, <1>5, StepOtherItem, OtherBlocks DEF TreeEffect
<1>6. QED
  BY <1>4, <1>5
-----------------------------------------------------------------------------
(* Ids: a directory is queued once, and its parent has left the queue.     *)

Froms(q) == {q[i].from : i \in 1..Len(q)}

(* The directories that are still to be listed.                            *)
Ahead == Ids(dirQueue) \cup CurIds

Kin ==
  \A j, k \in DirBlocks :
    /\ stdout[j].id = stdout[k].id => j = k
    /\ j <= k => stdout[j].from # stdout[k].id

(* A parent is named before it is printed only while its own children are  *)
(* being queued.                                                           *)
Descent ==
  /\ nextId # 0 /\ 0 \notin Ahead
  /\ \A f \in Froms(dirQueue) : f < nextId /\ f \notin Ids(dirQueue)
  /\ cur # NoDir => cur.from < nextId /\ cur.from \notin Ahead
  /\ pc \in {"open", "read"} => cur.id \notin Froms(dirQueue)

Past ==
  \A k \in DirBlocks :
    /\ stdout[k].id < nextId /\ stdout[k].id \notin Ahead
    /\ stdout[k].from < nextId /\ stdout[k].from \notin Ahead

TreeIds == Kin /\ (pc \notin Over => Descent /\ Past)

LEMMA AppendFroms ==
  ASSUME NEW q \in Seq(DirEntry), NEW d \in DirEntry
  PROVE  Froms(Append(q, d)) = Froms(q) \cup {d.from}
<1> DEFINE a == Append(q, d)
           n == Len(q)
<1>1. /\ n \in Nat /\ Len(a) = n + 1
      /\ \A i \in 1..n : a[i] = q[i]
      /\ a[n + 1] = d
  BY AppendFacts
<1>2. Froms(q) = {q[i].from : i \in 1..n}
      /\ Froms(a) = {a[i].from : i \in 1..(n + 1)}
  BY <1>1 DEF Froms
<1> HIDE DEF a, n
<1>3. 1..(n + 1) = (1..n) \cup {n + 1}
  BY <1>1
<1>4. Froms(a) = Froms(q) \cup {d.from}
  BY <1>1, <1>2, <1>3
<1>5. QED
  BY <1>4 DEF a

LEMMA FrontFroms ==
  ASSUME NEW q \in Seq(DirEntry), q # << >>
  PROVE  Froms(q) = Froms(Front(q)) \cup {Last(q).from}
<1> DEFINE f == Front(q)
           n == Len(q)
<1>1. /\ n \in Nat \ {0} /\ Len(f) = n - 1
      /\ \A i \in 1..(n - 1) : f[i] = q[i]
      /\ Last(q) = q[n]
  BY FrontFacts
<1>2. Froms(q) = {q[i].from : i \in 1..n}
      /\ Froms(f) = {f[i].from : i \in 1..(n - 1)}
  BY <1>1 DEF Froms
<1> HIDE DEF f, n
<1>3. 1..n = (1..(n - 1)) \cup {n}
  BY <1>1
<1>4. Froms(q) = Froms(f) \cup {Last(q).from}
  BY <1>1, <1>2, <1>3
<1>5. QED
  BY <1>4 DEF f

LEMMA RearrangedFroms ==
  ASSUME NEW q \in Seq(DirEntry), NEW t, Rearranges(t, q)
  PROVE  Froms(t) = Froms(q)
<1> DEFINE n == Len(q)
<1>1. n \in Nat /\ Len(t) = n
  BY RearrangedFacts
<1>2. PICK p \in [1..n -> 1..n] :
        /\ \A k \in 1..n : \E i \in 1..n : p[i] = k
        /\ t = [i \in 1..n |-> q[p[i]]]
  BY DEF Rearranges
<1> HIDE DEF n
<1>3. \A i \in 1..n : t[i] = q[p[i]] /\ p[i] \in 1..n
  BY <1>2
<1>4. Froms(t) = {t[i].from : i \in 1..n} /\ Froms(q) = {q[i].from : i \in 1..n}
  BY <1>1 DEF Froms, n
<1>5. Froms(t) \subseteq Froms(q)
  BY <1>3, <1>4
<1>6. ASSUME NEW k \in 1..n PROVE q[k].from \in Froms(t)
  <2>1. PICK i \in 1..n : p[i] = k
    BY <1>2
  <2>2. q[k].from = t[i].from
    BY <1>3, <2>1
  <2>3. QED
    BY <1>4, <2>2
<1>7. QED
  BY <1>4, <1>5, <1>6

LEMMA FromsTyped ==
  ASSUME NEW q \in Seq(DirEntry)
  PROVE  Froms(q) \subseteq Nat
<1>1. \A i \in 1..Len(q) : q[i] \in DirEntry
  BY ElementOfSeq
<1>2. \A i \in 1..Len(q) : q[i].from \in Nat
  BY <1>1 DEF DirEntry
<1>3. QED
  BY <1>2 DEF Froms

LEMMA KinKept ==
  ASSUME Kin, BlocksKept
  PROVE  Kin'
<1>1. /\ DirBlocks' = DirBlocks
      /\ \A k \in DirBlocks : stdout'[k] = stdout[k]
  BY DEF BlocksKept
<1>2. \A j, k \in DirBlocks :
        /\ stdout[j].id = stdout[k].id => j = k
        /\ j <= k => stdout[j].from # stdout[k].id
  BY DEF Kin
<1>3. \A j, k \in DirBlocks :
        /\ stdout'[j].id = stdout'[k].id => j = k
        /\ j <= k => stdout'[j].from # stdout'[k].id
  BY <1>1, <1>2
<1>4. QED
  BY <1>1, <1>3 DEF Kin

(* Nothing is known of the queue once the listing is over.                 *)
LEMMA PastKept ==
  ASSUME Past, BlocksKept, nextId \in Nat, nextId' \in {nextId, nextId + 1},
         Ahead' \subseteq Ahead \cup {nextId}, TInv
  PROVE  Past'
<1>1. SUFFICES ASSUME NEW k \in DirBlocks
      PROVE  /\ stdout'[k].id < nextId' /\ stdout'[k].id \notin Ahead'
             /\ stdout'[k].from < nextId' /\ stdout'[k].from \notin Ahead'
  BY DEF Past, BlocksKept
<1>2. stdout'[k] = stdout[k]
  BY DEF BlocksKept
<1>3. /\ stdout[k].id < nextId /\ stdout[k].id \notin Ahead
      /\ stdout[k].from < nextId /\ stdout[k].from \notin Ahead
  BY DEF Past
<1>4. stdout[k].id \in Nat /\ stdout[k].from \in Nat
  <2>1. stdout[k] \in Items /\ stdout[k].kind = "dir"
    BY ElementOfSeq DEF TInv, TypeOK, DirBlocks
  <2>2. QED
    BY <2>1 DEF Items
<1>5. QED
  BY <1>2, <1>3, <1>4

LEMMA IdsBounded ==
  ASSUME TInv, Owned
  PROVE  /\ dirQueue \in Seq(DirEntry) /\ nextId \in Nat
         /\ Ahead \subseteq Nat /\ nextId \notin Ahead
         /\ \A x \in Ahead : x < nextId
         /\ Distinct(dirQueue) /\ CurIds \cap Ids(dirQueue) = {}
<1>1. /\ dirQueue \in Seq(DirEntry) /\ nextId \in Nat /\ heap \subseteq Nat
  BY DEF TInv, TypeOK
<1>2. Ahead \subseteq heap
  BY DEF Owned, Ahead
<1>3. \A x \in Ahead : x < nextId
  BY <1>2 DEF Owned
<1>4. ~(nextId < nextId)
  BY <1>1
<1>5. QED
  BY <1>1, <1>2, <1>3, <1>4 DEF Owned, OneOwner

LEMMA GathersIds ==
  ASSUME TInv, Owned, TreeIds, Gathers, BlocksKept
  PROVE  Descent' /\ Past'
<1>1. cur = NoDir /\ cur' = NoDir /\ CurIds = {} /\ CurIds' = {}
      /\ pc \notin Over /\ pc' \notin {"open", "read"}
  BY CurIsDir DEF Gathers, Preparing, Over, CurIds
<1>2. Descent /\ Past
  BY <1>1 DEF TreeIds
<1>3. CASE QueuesOperand
  <2>1. PICK d \in DirEntry : /\ d.id = nextId /\ d.from = 0
                              /\ dirQueue' = Append(dirQueue, d)
    BY <1>3 DEF QueuesOperand
  <2>2. Ids(dirQueue') = Ids(dirQueue) \cup {nextId}
        /\ Froms(dirQueue') = Froms(dirQueue) \cup {0}
    BY <2>1, IdsBounded, AppendIds, AppendFroms
  <2>3. nextId' = nextId + 1 /\ nextId \in Nat /\ 0 < nextId /\ nextId' # 0
    BY <1>2, <1>3, IdsBounded DEF QueuesOperand, Descent
  <2>4. Ahead' = Ahead \cup {nextId}
    BY <1>1, <2>2 DEF Ahead
  <2>5. \A f \in Froms(dirQueue') : f < nextId /\ f \notin Ids(dirQueue)
    BY <1>2, <2>2, <2>3 DEF Descent, Ahead
  <2>6. Froms(dirQueue') \subseteq Nat
    BY <2>2, IdsBounded, FromsTyped
  <2>7. \A f \in Froms(dirQueue') : f < nextId' /\ f \notin Ids(dirQueue')
    BY <2>2, <2>3, <2>5, <2>6
  <2>8. Descent'
    BY <1>1, <1>2, <2>3, <2>4, <2>7 DEF Descent
  <2>9. QED
    BY <1>2, <2>3, <2>4, <2>8, PastKept
<1>4. CASE Rearranges(dirQueue', dirQueue) /\ nextId' \in {nextId, nextId + 1}
  <2>1. Ids(dirQueue') = Ids(dirQueue) /\ Froms(dirQueue') = Froms(dirQueue)
    BY <1>4, IdsBounded, RearrangedFacts, RearrangedFroms
  <2>2. nextId \in Nat /\ nextId' # 0 /\ nextId <= nextId' /\ nextId' \in Nat
    BY <1>2, <1>4, IdsBounded DEF Descent
  <2>3. Ahead' = Ahead
    BY <1>1, <2>1 DEF Ahead
  <2>4. Froms(dirQueue) \subseteq Nat
    BY IdsBounded, FromsTyped
  <2>5. \A f \in Froms(dirQueue') : f < nextId' /\ f \notin Ids(dirQueue')
    BY <1>2, <2>1, <2>2, <2>4 DEF Descent
  <2>6. Descent'
    BY <1>1, <1>2, <2>2, <2>3, <2>5 DEF Descent
  <2>7. QED
    BY <1>2, <1>4, <2>2, <2>3, <2>6, PastKept
<1>5. QED
  BY <1>3, <1>4 DEF Gathers

LEMMA PopIds ==
  ASSUME TInv, Owned, TreeIds, PopDir, BlocksKept
  PROVE  Descent' /\ Past'
<1>1. /\ pc = "next" /\ pc' = "open" /\ dirQueue # << >> /\ nextId' = nextId
      /\ cur' = Last(dirQueue) /\ dirQueue' = Front(dirQueue)
  BY DEF PopDir, memory
<1>2. Descent /\ Past /\ cur = NoDir /\ CurIds = {}
  BY <1>1, CurIsDir DEF TreeIds, Over, CurIds
<1>3. cur' \in DirEntry /\ cur' # NoDir /\ CurIds' = {cur'.id}
  BY <1>1, IdsBounded, FrontFacts, NoDirAssumption DEF CurIds
<1>4. /\ Ids(dirQueue) = Ids(dirQueue') \cup {cur'.id}
      /\ Froms(dirQueue) = Froms(dirQueue') \cup {cur'.from}
  BY <1>1, IdsBounded, FrontIds, FrontFroms
<1>5. Ahead' = Ahead
  BY <1>2, <1>3, <1>4 DEF Ahead
<1>6. cur'.id \notin Froms(dirQueue') /\ cur'.from \notin Ahead
      /\ cur'.from < nextId
  BY <1>2, <1>4 DEF Descent, Ahead
<1>7. Descent'
  BY <1>1, <1>2, <1>3, <1>4, <1>5, <1>6 DEF Descent
<1>8. QED
  BY <1>1, <1>2, <1>5, <1>7, IdsBounded, PastKept

(* Reading, queueing nothing and giving up take no new id.                 *)
LEMMA SameIds ==
  ASSUME TInv, Owned, TreeIds, BlocksKept, pc \notin Over,
         UNCHANGED <<dirQueue, nextId>>, cur' \in {cur, NoDir},
         pc' \in {"open", "read"} => pc \in {"open", "read"} /\ cur' = cur
  PROVE  Descent' /\ Past'
<1>1. Descent /\ Past
  BY DEF TreeIds
<1>2. Ahead' \subseteq Ahead /\ Ids(dirQueue') = Ids(dirQueue)
  BY DEF Ahead, CurIds
<1>3. Descent'
  <2>1. CASE cur' = cur
    <3>1. Ahead' = Ahead
      BY <2>1 DEF Ahead, CurIds
    <3>2. QED
      BY <1>1, <2>1, <3>1 DEF Descent
  <2>2. CASE cur' = NoDir /\ cur # NoDir
    <3>1. pc' \notin {"open", "read"}
      BY <2>2
    <3>2. QED
      BY <1>1, <1>2, <2>2, <3>1 DEF Descent
  <2>3. QED
    BY <2>1, <2>2
<1>4. QED
  BY <1>1, <1>2, <1>3, IdsBounded, PastKept

LEMMA QueueChildIds ==
  ASSUME TInv, Owned, TreeIds, QueueChild, BlocksKept
  PROVE  Descent' /\ Past'
<1>1. /\ pc = "queue" /\ pc' = "queue" /\ nextId' = nextId + 1 /\ cur' = cur
      /\ cur \in DirEntry /\ cur # NoDir /\ CurIds = {cur.id} /\ CurIds' = {cur.id}
  BY CurIsDir, NoDirAssumption DEF QueueChild, NewEntry, loading, CurIds
<1>2. Descent /\ Past
  BY <1>1 DEF TreeIds, Over
<1> DEFINE d == [id |-> nextId, path |-> entries[index].path,
                 operand |-> FALSE, from |-> cur.id]
<1>3. entries[index] \in NameEntry
  BY ElementOfSeq DEF QueueChild, TInv, TypeOK, IndexOK
<1>4. d \in DirEntry /\ d.id = nextId /\ d.from = cur.id
  BY <1>1, <1>3, IdsBounded DEF DirEntry, NameEntry
<1>5. dirQueue' = Append(dirQueue, d)
  BY DEF QueueChild, PushedDir
<1> HIDE DEF d
<1>6. /\ Ids(dirQueue') = Ids(dirQueue) \cup {nextId}
      /\ Froms(dirQueue') = Froms(dirQueue) \cup {cur.id}
  BY <1>4, <1>5, IdsBounded, AppendIds, AppendFroms
<1>7. Ahead' = Ahead \cup {nextId}
  BY <1>1, <1>6 DEF Ahead
<1>8. nextId \in Nat /\ nextId # 0 /\ nextId' # 0
  BY <1>1, <1>2, IdsBounded DEF Descent
<1>9. cur.id < nextId /\ cur.id \in Nat /\ cur.id \notin Ids(dirQueue)
  BY <1>1, IdsBounded DEF Ahead
<1>10. \A f \in Froms(dirQueue') : f < nextId /\ f \notin Ids(dirQueue)
  BY <1>2, <1>6, <1>9 DEF Descent
<1>11. Froms(dirQueue') \subseteq Nat
  BY <1>6, <1>9, IdsBounded, FromsTyped
<1>12. \A f \in Froms(dirQueue') : f < nextId' /\ f \notin Ids(dirQueue')
  BY <1>1, <1>6, <1>8, <1>10, <1>11
<1>13. cur.from < nextId' /\ cur.from \notin Ahead'
  <2>1. cur.from < nextId /\ cur.from \notin Ahead /\ cur.from \in Nat
    BY <1>1, <1>2 DEF Descent, DirEntry
  <2>2. QED
    BY <1>1, <1>7, <1>8, <2>1
<1>14. Descent'
  BY <1>1, <1>2, <1>7, <1>8, <1>12, <1>13 DEF Descent
<1>15. QED
  BY <1>1, <1>2, <1>7, <1>8, <1>14, PastKept

LEMMA PrintIds ==
  ASSUME TInv, Owned, TreeIds, PrintDir, BlockAdded
  PROVE  Kin' /\ Descent' /\ Past'
<1>1. /\ pc = "print" /\ pc' = "next" /\ nextId' = nextId /\ dirQueue' = dirQueue
      /\ cur \in DirEntry /\ cur # NoDir /\ CurIds = {cur.id}
      /\ cur' = NoDir /\ CurIds' = {}
  BY CurIsDir, NoDirAssumption DEF PrintDir, FreeCur, queues, CurIds
<1>2. Kin /\ Descent /\ Past
  BY <1>1 DEF TreeIds, Over
<1>3. PICK m \in Nat :
        /\ DirBlocks' = DirBlocks \cup {m}
        /\ stdout'[m] = Block(cur, entries, Header)
        /\ \A k \in DirBlocks : k \in Nat /\ k < m /\ stdout'[k] = stdout[k]
  BY DEF BlockAdded
<1>4. stdout'[m].id = cur.id /\ stdout'[m].from = cur.from
  BY <1>3 DEF Block
<1>5. Ahead = Ids(dirQueue) \cup {cur.id} /\ Ahead' = Ids(dirQueue)
  BY <1>1 DEF Ahead
<1>6. /\ cur.id < nextId /\ cur.id \notin Ids(dirQueue)
      /\ cur.from < nextId /\ cur.from # cur.id /\ cur.from \notin Ids(dirQueue)
  BY <1>1, <1>2, <1>5, IdsBounded DEF Descent
<1>7. \A k \in DirBlocks :
        /\ stdout[k].id < nextId /\ stdout[k].id \notin Ahead
        /\ stdout[k].from < nextId /\ stdout[k].from \notin Ahead
  BY <1>2 DEF Past
<1>8. Past'
  <2>1. \A k \in DirBlocks \cup {m} :
          /\ stdout'[k].id < nextId /\ stdout'[k].id \notin Ids(dirQueue)
          /\ stdout'[k].from < nextId /\ stdout'[k].from \notin Ids(dirQueue)
    BY <1>3, <1>4, <1>5, <1>6, <1>7
  <2>2. QED
    BY <1>1, <1>3, <1>5, <2>1 DEF Past
<1>9. Descent'
  BY <1>1, <1>2, <1>5 DEF Descent
<1>10. Kin'
  <2>1. \A j, k \in DirBlocks :
          /\ stdout[j].id = stdout[k].id => j = k
          /\ j <= k => stdout[j].from # stdout[k].id
    BY <1>2 DEF Kin
  <2>2. \A k \in DirBlocks :
          /\ stdout[k].id # cur.id /\ stdout[k].from # cur.id
          /\ ~(m <= k)
    BY <1>3, <1>5, <1>7
  <2>5. \A j, k \in DirBlocks :
          /\ stdout'[j].id = stdout'[k].id => j = k
          /\ j <= k => stdout'[j].from # stdout'[k].id
    BY <1>3, <2>1
  <2>3. \A j, k \in DirBlocks \cup {m} :
          /\ stdout'[j].id = stdout'[k].id => j = k
          /\ j <= k => stdout'[j].from # stdout'[k].id
    <3> TAKE j, k \in DirBlocks \cup {m}
    <3>1. CASE j \in DirBlocks /\ k \in DirBlocks
      BY <2>5, <3>1
    <3>2. CASE j \in DirBlocks /\ k = m
      BY <1>3, <1>4, <2>2, <3>2
    <3>3. CASE j = m /\ k \in DirBlocks
      BY <1>3, <1>4, <2>2, <3>3
    <3>4. CASE j = m /\ k = m
      BY <1>4, <1>6, <3>4
    <3>5. QED
      BY <3>1, <3>2, <3>3, <3>4
  <2>4. QED
    BY <1>3, <2>3 DEF Kin
<1>11. QED
  BY <1>8, <1>9, <1>10

LEMMA StepTreeIds ==
  ASSUME TInv, Owned, TreeIds, TreeEffect
  PROVE  TreeIds'
<1>1. ASSUME BlocksKept PROVE Kin'
  BY <1>1, KinKept DEF TreeIds
<1>2. CASE Stops
  <2>1. Kin' 
    <3>1. CASE PrintDir
      BY <1>2, <3>1 DEF PrintDir, Stops, Over
    <3>2. QED
      BY <1>1, <3>1 DEF TreeEffect
  <2>2. QED
    BY <1>2, <2>1 DEF Stops, TreeIds
<1>3. CASE PrintDir
  BY <1>3, PrintIds DEF TreeIds, TreeEffect
<1>4. CASE ~PrintDir /\ ~Stops
  <2>1. BlocksKept /\ Kin'
    BY <1>1, <1>4 DEF TreeEffect
  <2>2. CASE Gathers
    BY <2>1, <2>2, GathersIds DEF TreeIds
  <2>3. CASE PopDir
    BY <2>1, <2>3, PopIds DEF TreeIds
  <2>4. CASE QueueChild
    BY <2>1, <2>4, QueueChildIds DEF TreeIds
  <2>5. CASE Reads \/ ReadEnd \/ QueueSkip \/ QueueDone \/ Drops
    <3>1. /\ pc \notin Over /\ UNCHANGED <<dirQueue, nextId>>
          /\ cur' \in {cur, NoDir}
          /\ pc' \in {"open", "read"} => pc \in {"open", "read"} /\ cur' = cur
      BY <2>5 DEF Reads, ReadEnd, QueueSkip, QueueDone, Drops, Over, queues,
                  loading, memory
    <3>2. QED
      BY <2>1, <3>1, SameIds DEF TreeIds
  <2>6. CASE UNCHANGED vars
    <3>1. UNCHANGED <<dirQueue, nextId, cur, pc>>
      BY <2>6 DEF vars, queues, loading, memory
    <3>2. CASE pc \in Over
      BY <2>1, <3>1, <3>2 DEF TreeIds
    <3>3. CASE pc \notin Over
      BY <2>1, <3>1, <3>3, SameIds DEF TreeIds
    <3>4. QED
      BY <3>2, <3>3
  <2>7. QED
    BY <1>4, <2>2, <2>3, <2>4, <2>5, <2>6 DEF TreeEffect, TreeCase, QueueStep
<1>5. QED
  BY <1>2, <1>3, <1>4

LEMMA InitTreeIds == Init => TreeIds
<1>1. SUFFICES ASSUME Init PROVE TreeIds
  OBVIOUS
<1>2. /\ nextId = 1 /\ cur = NoDir /\ pc = "start"
      /\ stdout = << >> /\ dirQueue = << >>
  BY <1>1 DEF Init
<1>3. DirBlocks = {} /\ Froms(dirQueue) = {} /\ Ids(dirQueue) = {}
  <2>1. Len(<< >>) = 0 /\ 1..0 = {}
    OBVIOUS
  <2>2. QED
    BY <1>2, <2>1 DEF DirBlocks, Froms, Ids
<1>4. Ahead = {}
  BY <1>2, <1>3 DEF Ahead, CurIds
<1>5. QED
  BY <1>2, <1>3, <1>4 DEF TreeIds, Kin, Descent, Past
-----------------------------------------------------------------------------
(* The children of the directory that is being listed.                     *)

(* The entries of cur that have been queued so far: the loop of            *)
(* queue_recursive_dirs_ runs from the last entry to the first.            *)
Floor == IF pc = "queue" THEN index ELSE 0
SubsAbove(es, floor) ==
  {i \in 1..Len(es) : args.recursive /\ Descends(es[i]) /\ i > floor}
Subs == SubsAbove(entries, Floor)

(* On top of the first m elements of q lie the entries of d that are in S, *)
(* each once and the last one of the listing first.                        *)
OnTop(q, m, at, d, es, S) ==
  /\ \A i \in 1..m : q[i].from # d.id
  /\ \A i \in 1..(Len(q) - m) :
       /\ q[m + i].from = d.id /\ ~q[m + i].operand
       /\ q[m + i].path = es[at[i]].path
  /\ \A i, j \in 1..(Len(q) - m) : i < j => at[i] > at[j]
  /\ \A s \in S : \E i \in 1..(Len(q) - m) : at[i] = s

HasOnTop(q, d, es, S) ==
  \E m \in 0..Len(q) : \E at \in [1..(Len(q) - m) -> S] : OnTop(q, m, at, d, es, S)

Children == pc \in {"queue", "print"} => HasOnTop(dirQueue, cur, entries, Subs)

LEMMA NoneOnTop ==
  ASSUME NEW q \in Seq(DirEntry), NEW d, NEW es, d.id \notin Froms(q)
  PROVE  HasOnTop(q, d, es, {})
<1> DEFINE n == Len(q)
           at == [i \in {} |-> 0]
<1>1. n \in Nat /\ n - n = 0 /\ n \in 0..n /\ 1..(n - n) = {}
  OBVIOUS
<1>2. \A i \in 1..n : q[i].from # d.id
  BY DEF Froms
<1>3. at \in [1..(n - n) -> {}]
  BY <1>1
<1>4. OnTop(q, n, at, d, es, {})
  BY <1>1, <1>2 DEF OnTop
<1>5. QED
  BY <1>1, <1>3, <1>4 DEF HasOnTop

LEMMA OneOnTop ==
  ASSUME NEW q \in Seq(DirEntry), NEW d, NEW es, NEW S, NEW e \in DirEntry,
         NEW s \in Nat, S \subseteq Nat, \A x \in S : s < x,
         e.from = d.id, ~e.operand, e.path = es[s].path, HasOnTop(q, d, es, S)
  PROVE  HasOnTop(Append(q, e), d, es, S \cup {s})
<1>1. PICK m \in 0..Len(q) : \E at \in [1..(Len(q) - m) -> S] :
        OnTop(q, m, at, d, es, S)
  BY DEF HasOnTop
<1>2. PICK at \in [1..(Len(q) - m) -> S] : OnTop(q, m, at, d, es, S)
  BY <1>1
<1> DEFINE a == Append(q, e)
           n == Len(q)
           c == n - m
           T == S \cup {s}
           up == [i \in 1..(c + 1) |-> IF i = c + 1 THEN s ELSE at[i]]
<1>3. /\ n \in Nat /\ m \in Nat /\ m <= n /\ c \in Nat
      /\ Len(a) = n + 1 /\ Len(a) - m = c + 1 /\ m \in 0..Len(a)
      /\ \A i \in 1..n : a[i] = q[i]
      /\ a[n + 1] = e
  BY AppendFacts
<1>4. /\ \A i \in 1..m : q[i].from # d.id
      /\ \A i \in 1..c : /\ q[m + i].from = d.id /\ ~q[m + i].operand
                         /\ q[m + i].path = es[at[i]].path
      /\ \A i, j \in 1..c : i < j => at[i] > at[j]
      /\ \A x \in S : \E i \in 1..c : at[i] = x
      /\ \A i \in 1..c : at[i] \in S
  BY <1>2 DEF OnTop
<1> HIDE DEF a, n, c
<1>5. 1..(c + 1) = (1..c) \cup {c + 1} /\ c + 1 \notin 1..c
  BY <1>3
<1>6. up \in [1..(c + 1) -> T] /\ up[c + 1] = s /\ \A i \in 1..c : up[i] = at[i]
  BY <1>4, <1>5
<1> HIDE DEF up
<1>7. \A i \in 1..m : a[i].from # d.id
  <2>1. \A i \in 1..m : i \in 1..n
    BY <1>3
  <2>2. QED
    BY <1>3, <1>4, <2>1
<1>8. \A i \in 1..(c + 1) : /\ a[m + i].from = d.id /\ ~a[m + i].operand
                            /\ a[m + i].path = es[up[i]].path
  <2>1. \A i \in 1..c : m + i \in 1..n
    BY <1>3 DEF c
  <2>2. m + (c + 1) = n + 1
    BY <1>3 DEF c
  <2>3. \A i \in 1..c : a[m + i] = q[m + i]
    BY <1>3, <2>1
  <2>4. QED
    BY <1>3, <1>4, <1>5, <1>6, <2>2, <2>3
<1>9. \A i, j \in 1..(c + 1) : i < j => up[i] > up[j]
  <2> SUFFICES ASSUME NEW i \in 1..(c + 1), NEW j \in 1..(c + 1), i < j
               PROVE  up[i] > up[j]
    OBVIOUS
  <2>1. i \in 1..c
    BY <1>3
  <2>2. CASE j = c + 1
    BY <1>4, <1>6, <2>1, <2>2
  <2>3. CASE j \in 1..c
    BY <1>4, <1>6, <2>1, <2>3
  <2>4. QED
    BY <1>5, <2>2, <2>3
<1>10. \A x \in T : \E i \in 1..(c + 1) : up[i] = x
  BY <1>4, <1>5, <1>6
<1>11. OnTop(a, m, up, d, es, T)
  BY <1>3, <1>7, <1>8, <1>9, <1>10 DEF OnTop
<1>12. QED
  BY <1>3, <1>6, <1>11 DEF HasOnTop, a

LEMMA StepChildren ==
  ASSUME TInv, Owned, TreeIds, Children, TreeEffect
  PROVE  Children'
<1>1. dirQueue \in Seq(DirEntry) /\ entries \in Seq(NameEntry) /\ nextId \in Nat
  BY DEF TInv, TypeOK
<1>2. CASE ReadEnd
  <2>1. /\ pc = "read" /\ pc' = "queue" /\ index' = Len(entries)
        /\ entries' \in Arranged(entries, args.reverse)
        /\ UNCHANGED <<cur, dirQueue>>
    BY <1>2 DEF ReadEnd, queues
  <2>2. cur.id \notin Froms(dirQueue)
    BY <2>1 DEF TreeIds, Over, Descent
  <2>3. Len(entries') = Len(entries) /\ Len(entries) \in Nat
    BY <1>1, <2>1, ArrangedRearranges, RearrangedFacts
  <2>4. Subs' = {}
    <3>1. \A i \in 1..Len(entries) : ~(i > Len(entries))
      BY <2>3
    <3>2. QED
      BY <2>1, <2>3, <3>1 DEF Subs, SubsAbove, Floor
  <2>5. HasOnTop(dirQueue, cur, entries', {})
    BY <1>1, <2>2, NoneOnTop
  <2>6. QED
    BY <2>1, <2>4, <2>5 DEF Children
<1>3. CASE QueueSkip
  <2>1. /\ pc = "queue" /\ index > 0 /\ index' = index - 1 /\ pc' = "queue"
        /\ ~Descends(entries[index])
        /\ UNCHANGED <<args, dirQueue, cur, entries>>
    BY <1>3 DEF QueueSkip, AfterSkip, given, queues, loading
  <2>2. Subs' = Subs
    <3>1. index \in Nat
      BY DEF TInv, TypeOK
    <3>2. \A i \in 1..Len(entries) :
            Descends(entries[i]) => (i > index <=> i > index - 1)
      BY <2>1, <3>1
    <3>3. QED
      BY <2>1, <3>2 DEF Subs, SubsAbove, Floor
  <2>3. QED
    BY <2>1, <2>2 DEF Children
<1>4. CASE QueueDone
  <2>1. /\ pc = "queue" /\ (~args.recursive \/ index = 0) /\ pc' = "print"
        /\ UNCHANGED <<args, dirQueue, cur, entries>>
    BY <1>4 DEF QueueDone, given, queues, loading
  <2>2. Subs' = Subs
    BY <2>1 DEF Subs, SubsAbove, Floor
  <2>3. QED
    BY <2>1, <2>2 DEF Children
<1>5. CASE QueueChild
  <2>1. /\ pc = "queue" /\ index > 0 /\ index' = index - 1 /\ pc' = "queue"
        /\ args.recursive /\ Descends(entries[index])
        /\ UNCHANGED <<args, cur, entries>>
    BY <1>5 DEF QueueChild, given, loading
  <2> DEFINE e == [id |-> nextId, path |-> entries[index].path,
                   operand |-> FALSE, from |-> cur.id]
  <2>2. index \in Nat /\ index \in 1..Len(entries) /\ Len(entries) \in Nat
    BY <1>1, <2>1 DEF TInv, TypeOK, IndexOK
  <2>3. entries[index] \in NameEntry /\ cur \in DirEntry
    BY <1>1, <2>1, <2>2, ElementOfSeq, CurIsDir
  <2>4. e \in DirEntry /\ e.from = cur.id /\ ~e.operand
        /\ e.path = entries[index].path
    BY <1>1, <2>3 DEF DirEntry, NameEntry
  <2>5. dirQueue' = Append(dirQueue, e)
    BY <1>5 DEF QueueChild, PushedDir
  <2> HIDE DEF e
  <2>6. Subs' = Subs \cup {index}
    <3>1. \A i \in 1..Len(entries) : i > index - 1 <=> i > index \/ i = index
      BY <2>2
    <3>2. Subs = {i \in 1..Len(entries) : Descends(entries[i]) /\ i > index}
      BY <2>1 DEF Subs, SubsAbove, Floor
    <3>3. Subs' = {i \in 1..Len(entries) : Descends(entries[i]) /\ i > index - 1}
      BY <2>1 DEF Subs, SubsAbove, Floor
    <3>4. QED
      BY <2>1, <2>2, <3>1, <3>2, <3>3
  <2>7. Subs \subseteq Nat /\ \A x \in Subs : index < x
    BY <2>1, <2>2 DEF Subs, SubsAbove, Floor
  <2>8. HasOnTop(dirQueue', cur, entries, Subs \cup {index})
    BY <1>1, <2>1, <2>2, <2>4, <2>5, <2>7, OneOnTop DEF Children
  <2>9. QED
    BY <2>1, <2>6, <2>8 DEF Children
<1>6. CASE UNCHANGED vars
  BY <1>6 DEF vars, Children, Subs, SubsAbove, Floor, given, queues, loading
<1>7. CASE Gathers \/ PopDir \/ Reads \/ PrintDir \/ Drops \/ Stops
  <2>1. pc' \notin {"queue", "print"}
    BY <1>7 DEF Gathers, PopDir, Reads, PrintDir, Drops, Stops, Preparing, Over
  <2>2. QED
    BY <2>1 DEF Children
<1>8. QED
  BY <1>2, <1>3, <1>4, <1>5, <1>6, <1>7 DEF TreeEffect, TreeCase, QueueStep
-----------------------------------------------------------------------------
(* What is known of a run that ends.                                       *)

(* An error is never taken back.                                           *)
LEMMA CodeStep ==
  ASSUME [Next]_vars, exitCode # 0
  PROVE  exitCode' # 0
<1>1. CASE Start \/ StartFails \/ Cleanup
  BY <1>1 DEF Start, StartFails, Cleanup
<1>2. CASE Collect
  BY <1>2
     DEF Collect, CollectMissing, CollectUnreadableLink, CollectDir, CollectFile,
         CollectUnreadableLinkFails, CollectFails, CollectDone, CollectSortFails,
         Collecting, Fatal
<1>3. CASE ListOperands
  BY <1>3
     DEF ListOperands, NoFiles, PrintFiles, PrintFilesFails, ListingFails
<1>4. CASE Load
  <2>1. CASE OpenDir \/ ReadEnd \/ SortFails
    BY <2>1 DEF OpenDir, ReadEnd, SortFails
  <2>2. ASSUME NEW r \in Outcomes, OpenFails(r) PROVE exitCode' # 0
    BY <2>2 DEF OpenFails
  <2>3. ASSUME NEW p \in Path, SkipHidden(p) \/ ReadFails(p) PROVE exitCode' # 0
    BY <2>3 DEF SkipHidden, ReadFails
  <2>4. ASSUME NEW p \in Path, NEW a \in Answers, ReadEntry(p, a)
        PROVE  exitCode' # 0
    BY <2>4 DEF ReadEntry
  <2>5. ASSUME NEW p \in Path, NEW r \in Outcomes, NEW d \in BOOLEAN,
               ReadUnstatable(p, r, d)
        PROVE  exitCode' # 0
    BY <2>5 DEF ReadUnstatable, AfterBadEntry
  <2>6. QED
    BY <1>4, <2>1, <2>2, <2>3, <2>4, <2>5 DEF Load
<1>5. CASE ListDirs
  BY <1>5
     DEF ListDirs, QueueEmpty, PopDir, GapFails, QueueSkip, QueueChild,
         QueueChildFails, QueueDone, PrintDir, PrintDirFails
<1>6. ASSUME NEW flushed \in BOOLEAN, LastFlush(flushed) PROVE exitCode' # 0
  BY <1>6 DEF LastFlush, FinalCode
<1>7. CASE UNCHANGED vars
  BY <1>7 DEF vars
<1>8. QED
  BY <1>1, <1>2, <1>3, <1>4, <1>5, <1>6, <1>7 DEF Next

(* The listing ends well only with -d, or when no directory waits.         *)
EndsWell ==
  /\ pc' = "flush" /\ ok' /\ exitCode' = exitCode /\ dirQueue' = dirQueue
  /\ \/ pc = "files" /\ args.directory
     \/ pc = "next" /\ dirQueue = << >>

EndsBadly == pc' \in {"flush", "cleanup"} /\ (exitCode' # 0 \/ ~ok')

LEMMA DropEnds ==
  ASSUME pc \notin Over, DropDir, pc' \in Over
  PROVE  EndsBadly
BY DEF DropDir, GiveUp, Over, EndsBadly

LEMMA StepEnds ==
  ASSUME [Next]_vars, pc \notin Over, pc' \in Over
  PROVE  EndsWell \/ EndsBadly
<1>1. CASE Start \/ StartFails \/ Cleanup
  BY <1>1 DEF Start, StartFails, Cleanup, Over, EndsBadly
<1>2. CASE Collect
  BY <1>2
     DEF Collect, CollectMissing, CollectUnreadableLink, CollectDir, CollectFile,
         CollectUnreadableLinkFails, CollectFails, CollectDone, CollectSortFails,
         Collecting, NextOperand, Fatal, Over, EndsBadly
<1>3. CASE PrintFilesFails \/ ListingFails
  BY <1>3 DEF PrintFilesFails, ListingFails, GiveUp, EndsBadly
<1>4. CASE NoFiles \/ PrintFiles
  BY <1>4 DEF NoFiles, PrintFiles, AfterFiles, Over, EndsWell
<1>5. CASE Load
  BY <1>5, DropEnds
     DEF Load, OpenDir, OpenFails, SkipHidden, ReadEntry, ReadUnstatable,
         ReadFails, ReadEnd, SortFails, Reading, GiveUp, Over, EndsBadly
<1>6. CASE QueueEmpty
  BY <1>6 DEF QueueEmpty, queues, EndsWell
<1>7. CASE GapFails \/ QueueChildFails \/ PrintDirFails
  BY <1>7 DEF GapFails, QueueChildFails, PrintDirFails, GiveUp, EndsBadly
<1>8. CASE PopDir \/ QueueSkip \/ QueueChild \/ QueueDone \/ PrintDir
  BY <1>8 DEF PopDir, QueueSkip, QueueChild, QueueDone, PrintDir, Over
<1>9. ASSUME NEW flushed \in BOOLEAN, LastFlush(flushed) PROVE FALSE
  BY <1>9 DEF LastFlush, Over
<1>10. CASE UNCHANGED vars
  BY <1>10 DEF vars
<1>11. QED
  BY <1>1, <1>2, <1>3, <1>4, <1>5, <1>6, <1>7, <1>8, <1>9, <1>10
     DEF Next, ListOperands, ListDirs

(* From there on only the last flush and cleanup_process_ are left.        *)
LEMMA StepOver ==
  ASSUME [Next]_vars, pc \in Over
  PROVE  \/ \E flushed \in BOOLEAN : LastFlush(flushed)
         \/ Cleanup \/ UNCHANGED vars
<1>1. ~Start /\ ~StartFails /\ ~Collect /\ ~ListOperands
  BY DEF Over, Start, StartFails, Collect, CollectMissing, CollectUnreadableLink,
     CollectDir, CollectFile, CollectUnreadableLinkFails, CollectFails,
     CollectDone, CollectSortFails, Collecting, ListOperands, NoFiles,
     PrintFiles, PrintFilesFails, ListingFails
<1>2. ~Load /\ ~ListDirs
  BY DEF Over, Load, OpenDir, OpenFails, SkipHidden, ReadEntry, ReadUnstatable,
     ReadFails, ReadEnd, SortFails, Reading, ListDirs, QueueEmpty, PopDir,
     GapFails, QueueSkip, QueueChild, QueueChildFails, QueueDone, PrintDir,
     PrintDirFails
<1>3. QED
  BY <1>1, <1>2 DEF Next

(* Exit code 0 is given to a listing that ended well and was flushed.      *)
CodeInv ==
  pc \in {"cleanup", "exit"} /\ exitCode = 0 => ok /\ delivered = Len(stdout)

LEMMA FailsEarly ==
  ASSUME [Next]_vars, pc \notin Over, pc' = "cleanup"
  PROVE  exitCode' # 0
<1>1. ~ListOperands
  BY DEF ListOperands, NoFiles, PrintFiles, PrintFilesFails, ListingFails,
         AfterFiles, GiveUp
<1>2. ~Load
  BY DEF Load, OpenDir, OpenFails, SkipHidden, ReadEntry, ReadUnstatable,
         ReadFails, ReadEnd, SortFails, Reading, DropDir, GiveUp
<1>3. ~ListDirs
  BY DEF ListDirs, QueueEmpty, PopDir, GapFails, QueueSkip, QueueChild,
         QueueChildFails, QueueDone, PrintDir, PrintDirFails, GiveUp
<1>4. CASE Collect
  BY <1>4
     DEF Collect, CollectMissing, CollectUnreadableLink, CollectDir, CollectFile,
         CollectUnreadableLinkFails, CollectFails, CollectDone, CollectSortFails,
         Collecting, NextOperand, Fatal
<1>5. CASE Start \/ StartFails \/ Cleanup
  BY <1>5 DEF Start, StartFails, Cleanup
<1>6. ASSUME NEW flushed \in BOOLEAN, LastFlush(flushed) PROVE FALSE
  BY <1>6 DEF LastFlush, Over
<1>7. CASE UNCHANGED vars
  BY <1>7 DEF vars, Over
<1>8. QED
  BY <1>1, <1>2, <1>3, <1>4, <1>5, <1>6, <1>7 DEF Next

LEMMA StepCodeInv ==
  ASSUME CodeInv, [Next]_vars
  PROVE  CodeInv'
<1>1. CASE pc \notin Over
  <2>1. CASE pc' \in Over
    <3>1. pc' = "cleanup" => exitCode' # 0
      BY <1>1, FailsEarly
    <3>2. QED
      BY <1>1, <2>1, <3>1, StepEnds DEF EndsWell, EndsBadly, CodeInv
  <2>2. CASE pc' \notin Over
    BY <2>2 DEF Over, CodeInv
  <2>3. QED
    BY <2>1, <2>2
<1>2. ASSUME NEW flushed \in BOOLEAN, LastFlush(flushed) PROVE CodeInv'
  BY <1>2 DEF LastFlush, FinalCode, CodeInv
<1>3. CASE Cleanup
  BY <1>3 DEF Cleanup, output, CodeInv
<1>4. CASE UNCHANGED vars
  BY <1>4 DEF vars, output, CodeInv
<1>5. QED
  BY <1>1, <1>2, <1>3, <1>4, StepOver
-----------------------------------------------------------------------------
(* The agenda.                                                             *)

(* The first m of the directories that wait are not children of c.         *)
Below(m, q, c) ==
  /\ m \in 0..Len(q)
  /\ c = NoDir => m = Len(q)
  /\ c # NoDir => \A i \in 1..Len(q) : q[i].from # c.id <=> i <= m

AgendaOf(m, q, c) ==
  (IF c = NoDir THEN << >> ELSE <<c>>) \o Reverse(SubSeq(q, 1, m))

LEMMA BottomFacts ==
  ASSUME NEW q \in Seq(DirEntry), NEW m \in 0..Len(q)
  PROVE  LET b == Reverse(SubSeq(q, 1, m))
         IN  /\ m \in Nat /\ b \in Seq(DirEntry) /\ Len(b) = m
             /\ \A i \in 1..m : b[i] = q[m + 1 - i] /\ m + 1 - i \in 1..Len(q)
<1> DEFINE s == SubSeq(q, 1, m)
           b == Reverse(s)
<1>1. m \in Nat /\ Len(q) \in Nat /\ m <= Len(q)
  OBVIOUS
<1>2. \A i \in 1..m : i \in 1..Len(q) /\ q[i] \in DirEntry
  BY <1>1, ElementOfSeq
<1>3. /\ s \in Seq(DirEntry) /\ Len(s) = m
      /\ \A i \in 1..m : s[i] = q[i]
  <2>1. /\ s \in Seq(DirEntry)
        /\ Len(s) = IF 1 <= m THEN m - 1 + 1 ELSE 0
        /\ \A i \in 1..(m - 1 + 1) : s[i] = q[1 + i - 1]
    BY <1>1, <1>2, SubSeqProperties
  <2>2. m - 1 + 1 = m /\ (m = 0 \/ 1 <= m) /\ \A i \in 1..m : 1 + i - 1 = i
    BY <1>1
  <2>3. QED
    BY <2>1, <2>2
<1> HIDE DEF s
<1>4. b = [i \in 1..m |-> s[(m - i) + 1]]
  BY <1>3 DEF Reverse
<1>5. \A i \in 1..m : (m - i) + 1 \in 1..m /\ (m - i) + 1 = m + 1 - i
  BY <1>1
<1>6. \A i \in 1..m : b[i] = q[m + 1 - i] /\ m + 1 - i \in 1..Len(q)
  BY <1>2, <1>3, <1>4, <1>5
<1>7. b \in [1..m -> DirEntry]
  BY <1>2, <1>3, <1>4, <1>5
<1>8. b \in Seq(DirEntry) /\ Len(b) = m
  BY <1>1, <1>7, SeqDef, LenProperties
<1>9. QED
  BY <1>1, <1>6, <1>8 DEF s

LEMMA WaitingBelow ==
  ASSUME NEW q \in Seq(DirEntry), NEW c, NEW m, Below(m, q, c)
  PROVE  Cardinality({i \in 1..Len(q) : c = NoDir \/ q[i].from # c.id}) = m
<1> DEFINE W == {i \in 1..Len(q) : c = NoDir \/ q[i].from # c.id}
<1>1. m \in Nat /\ Len(q) \in Nat /\ m <= Len(q)
  BY DEF Below
<1>2. \A i : i \in 1..Len(q) /\ i <= m <=> i \in 1..m
  BY <1>1
<1>3. W = 1..m
  <2>1. CASE c = NoDir
    <3>1. W = 1..Len(q)
      BY <2>1
    <3>2. QED
      BY <2>1, <3>1 DEF Below
  <2>2. CASE c # NoDir
    <3>1. W = {i \in 1..Len(q) : i <= m}
      BY <2>2 DEF Below
    <3>2. QED
      BY <1>2, <3>1
  <2>3. QED
    BY <2>1, <2>2
<1>4. Cardinality(1..m) = m
  BY <1>1, FS_Interval
<1>5. QED
  BY <1>3, <1>4

LEMMA AgendaMapped ==
  ASSUME dirQueue \in Seq(DirEntry), dirQueue' \in Seq(DirEntry)
  PROVE  /\ \A m : Below(m, dirQueue, cur) /\ pc \in Listing
                  => Agenda = AgendaOf(m, dirQueue, cur)
         /\ \A m : Below(m, dirQueue', cur') /\ pc' \in Listing
                  => Agenda' = AgendaOf(m, dirQueue', cur')
<1>1. pc \in Listing => Status = "listing"
  BY DEF Listing, Status
<1>2. pc' \in Listing => Status' = "listing"
  BY DEF Listing, Status
<1>3. ASSUME NEW m, Below(m, dirQueue, cur), pc \in Listing
      PROVE  Agenda = AgendaOf(m, dirQueue, cur)
  <2>1. Cardinality(Waiting) = m
    BY <1>3, WaitingBelow DEF Waiting
  <2>2. QED
    BY <1>1, <1>3, <2>1 DEF Agenda, AgendaOf, PendingDirs
<1>4. ASSUME NEW m, Below(m, dirQueue', cur'), pc' \in Listing
      PROVE  Agenda' = AgendaOf(m, dirQueue', cur')
  <2>1. Cardinality(Waiting)' = m
    BY <1>4, WaitingBelow DEF Waiting
  <2>2. QED
    BY <1>2, <1>4, <2>1 DEF Agenda, AgendaOf, PendingDirs
<1>5. QED
  BY <1>3, <1>4

(* Every state of the listing has a lower part of the queue.               *)
LEMMA BelowWhileReading ==
  ASSUME TInv, TreeIds, pc \in {"next", "open", "read"}
  PROVE  Below(Len(dirQueue), dirQueue, cur)
<1>1. dirQueue \in Seq(DirEntry) /\ Len(dirQueue) \in Nat
  BY DEF TInv, TypeOK
<1>2. Len(dirQueue) \in 0..Len(dirQueue)
      /\ \A i \in 1..Len(dirQueue) : i <= Len(dirQueue)
  BY <1>1
<1>3. cur # NoDir => \A i \in 1..Len(dirQueue) : dirQueue[i].from # cur.id
  <2>1. cur # NoDir => cur.id \notin Froms(dirQueue)
    BY CurIsDir DEF TreeIds, Over, Descent
  <2>2. QED
    BY <2>1 DEF Froms
<1>4. QED
  BY <1>2, <1>3 DEF Below

LEMMA BelowChildren ==
  ASSUME TInv, NEW m \in 0..Len(dirQueue), NEW at, NEW S,
         OnTop(dirQueue, m, at, cur, entries, S), cur # NoDir
  PROVE  Below(m, dirQueue, cur)
<1>1. dirQueue \in Seq(DirEntry) /\ Len(dirQueue) \in Nat /\ m \in Nat
  BY DEF TInv, TypeOK
<1>2. \A i \in 1..m : dirQueue[i].from # cur.id
  BY DEF OnTop
<1>3. \A i \in 1..(Len(dirQueue) - m) : dirQueue[m + i].from = cur.id
  BY DEF OnTop
<1>4. ASSUME NEW i \in 1..Len(dirQueue)
      PROVE  dirQueue[i].from # cur.id <=> i <= m
  <2>1. CASE i <= m
    <3>1. i \in 1..m
      BY <1>1, <2>1
    <3>2. QED
      BY <1>2, <2>1, <3>1
  <2>2. CASE ~(i <= m)
    <3>1. i - m \in 1..(Len(dirQueue) - m) /\ m + (i - m) = i
      BY <1>1, <2>2
    <3>2. QED
      BY <1>3, <2>2, <3>1
  <2>3. QED
    BY <2>1, <2>2
<1>5. QED
  BY <1>4 DEF Below

LEMMA SomeBelow ==
  ASSUME TInv, TreeIds, Children, pc \in Listing
  PROVE  \E m : Below(m, dirQueue, cur)
<1>1. CASE pc \in {"next", "open", "read"}
  BY <1>1, BelowWhileReading
<1>2. CASE pc \in {"queue", "print"}
  <2>1. PICK m \in 0..Len(dirQueue) :
          \E at \in [1..(Len(dirQueue) - m) -> Subs] :
            OnTop(dirQueue, m, at, cur, entries, Subs)
    BY <1>2 DEF Children, HasOnTop
  <2>2. cur # NoDir
    BY <1>2, CurIsDir, NoDirAssumption
  <2>3. QED
    BY <2>1, <2>2, BelowChildren
<1>3. QED
  BY <1>1, <1>2 DEF Listing
-----------------------------------------------------------------------------
(* Traversal's variables, as the mapping gives them.                       *)

Failed == exitCode # 0 \/ (Status = "ended" /\ ~ok)
Verdict ==
  IF pc # "exit" THEN "none" ELSE IF exitCode = 0 THEN "ok" ELSE "error"

AbstractStep == Abstract!Next \/ UNCHANGED Abstract!vars

(* Nothing Traversal speaks of happens, or something goes wrong.           *)
LEMMA SameOrLost ==
  ASSUME UNCHANGED <<args, Status, Agenda, Listings, Verdict>>,
         Verdict = "none", Failed => Failed'
  PROVE  AbstractStep
<1>1. CASE Failed'
  <2>1. Abstract!Lose
    BY <1>1 DEF Failed, Verdict, Abstract!Lose
  <2>2. QED
    BY <2>1 DEF AbstractStep, Abstract!Next
<1>2. CASE ~Failed'
  <2>1. Failed' = Failed
    BY <1>2 DEF Failed
  <2>2. UNCHANGED Abstract!vars
    BY <2>1 DEF Failed, Verdict, Abstract!vars
  <2>3. QED
    BY <2>2 DEF AbstractStep
<1>3. QED
  BY <1>1, <1>2

LEMMA EndsListing ==
  ASSUME UNCHANGED <<args, Listings, Verdict>>, Status # "ended",
         Status' = "ended", Failed \/ Agenda # << >> => Failed'
  PROVE  AbstractStep
<1>1. Agenda' = << >> /\ Failed' \in BOOLEAN
  BY DEF Agenda, Failed
<1>2. Abstract!End
  BY <1>1 DEF Failed, Verdict, Abstract!End
<1>3. QED
  BY <1>2 DEF AbstractStep, Abstract!Next

LEMMA SkipsHead ==
  ASSUME UNCHANGED <<args, Status, Listings, Verdict>>, Status = "listing",
         Agenda # << >>, Agenda' = Tail(Agenda), Failed'
  PROVE  AbstractStep
<1>1. Abstract!Skip
  BY DEF Failed, Verdict, Abstract!Skip
<1>2. QED
  BY <1>1 DEF AbstractStep, Abstract!Next

LEMMA ReportsEnd ==
  ASSUME UNCHANGED <<args, Status, Agenda, Listings>>, Status = "ended",
         Verdict = "none", Failed' = Failed,
         Verdict' = IF Failed THEN "error" ELSE "ok"
  PROVE  AbstractStep
<1>1. Abstract!Report
  BY DEF Failed, Verdict, Abstract!Report
<1>2. QED
  BY <1>1 DEF AbstractStep, Abstract!Next

LEMMA ListingsMapped ==
  Listings = ListingsIn(stdout) /\ Listings' = ListingsIn(stdout')
BY DEF Listings, Nth, Place, ListingsIn, NthIn, PlaceIn, DirBlocks, BlocksIn
-----------------------------------------------------------------------------
(* Agendas of a stack.                                                     *)

LEMMA SameBottom ==
  ASSUME NEW q \in Seq(DirEntry), NEW r \in Seq(DirEntry),
         NEW m \in 0..Len(q), m \in 0..Len(r), \A i \in 1..m : q[i] = r[i]
  PROVE  Reverse(SubSeq(q, 1, m)) = Reverse(SubSeq(r, 1, m))
<1> DEFINE a == Reverse(SubSeq(q, 1, m))
           b == Reverse(SubSeq(r, 1, m))
<1>1. /\ m \in Nat /\ a \in Seq(DirEntry) /\ Len(a) = m
      /\ \A i \in 1..m : a[i] = q[m + 1 - i]
  BY BottomFacts
<1>2. /\ b \in Seq(DirEntry) /\ Len(b) = m
      /\ \A i \in 1..m : b[i] = r[m + 1 - i]
  BY BottomFacts
<1> HIDE DEF a, b
<1>3. \A i \in 1..m : m + 1 - i \in 1..m
  BY <1>1
<1>4. \A i \in 1..m : a[i] = b[i]
  BY <1>1, <1>2, <1>3
<1>5. a = b
  BY <1>1, <1>2, <1>4, SeqEqual
<1>6. QED
  BY <1>5 DEF a, b

LEMMA WaitingAgenda ==
  ASSUME NEW q \in Seq(DirEntry), NEW m \in 0..Len(q)
  PROVE  AgendaOf(m, q, NoDir) = Reverse(SubSeq(q, 1, m))
<1>1. Reverse(SubSeq(q, 1, m)) \in Seq(DirEntry)
  BY BottomFacts
<1>2. \A s \in Seq(DirEntry) : << >> \o s = s
  OBVIOUS
<1>3. QED
  BY <1>1, <1>2 DEF AgendaOf

LEMMA HeadedAgenda ==
  ASSUME NEW q \in Seq(DirEntry), NEW m \in 0..Len(q), NEW c \in DirEntry
  PROVE  LET a == AgendaOf(m, q, c)
         IN  /\ a \in Seq(DirEntry) /\ a # << >>
             /\ Len(a) = m + 1 /\ a[1] = c /\ Head(a) = c
             /\ Tail(a) = Reverse(SubSeq(q, 1, m))
             /\ \A i \in 1..m : a[i + 1] = Reverse(SubSeq(q, 1, m))[i]
<1> DEFINE b == Reverse(SubSeq(q, 1, m))
<1>1. b \in Seq(DirEntry) /\ Len(b) = m /\ m \in Nat
  BY BottomFacts
<1>2. AgendaOf(m, q, c) = <<c>> \o b
  BY NoDirAssumption DEF AgendaOf
<1> HIDE DEF b
<1>3. /\ <<c>> \o b \in Seq(DirEntry) /\ Len(<<c>> \o b) = m + 1
      /\ (<<c>> \o b)[1] = c
      /\ \A i \in 1..m : (<<c>> \o b)[i + 1] = b[i]
  BY <1>1
<1>4. <<c>> \o b # << >>
  BY <1>1, <1>3
<1>5. Head(<<c>> \o b) = c
  BY <1>3, <1>4
<1>6. Tail(<<c>> \o b) = b
  <2>1. Tail(<<c>> \o b) \in Seq(DirEntry) /\ Len(Tail(<<c>> \o b)) = m
        /\ \A i \in 1..m : Tail(<<c>> \o b)[i] = (<<c>> \o b)[i + 1]
    BY <1>1, <1>3, <1>4, HeadTailProperties
  <2>2. QED
    BY <1>1, <1>3, <2>1, SeqEqual
<1>7. QED
  BY <1>2, <1>3, <1>4, <1>5, <1>6 DEF b

LEMMA PopAgenda ==
  ASSUME NEW q \in Seq(DirEntry), q # << >>
  PROVE  AgendaOf(Len(q) - 1, Front(q), Last(q)) = AgendaOf(Len(q), q, NoDir)
<1> DEFINE n == Len(q)
           f == Front(q)
           a == AgendaOf(n - 1, f, Last(q))
           b == AgendaOf(n, q, NoDir)
<1>1. /\ f \in Seq(DirEntry) /\ Last(q) \in DirEntry
      /\ n \in Nat \ {0} /\ Len(f) = n - 1
      /\ \A i \in 1..(n - 1) : f[i] = q[i]
      /\ Last(q) = q[n]
  BY FrontFacts
<1> HIDE DEF f, n
<1>2. n - 1 \in 0..Len(f)
  BY <1>1
<1>3. /\ a \in Seq(DirEntry) /\ Len(a) = n - 1 + 1 /\ a[1] = Last(q)
      /\ \A i \in 1..(n - 1) : a[i + 1] = Reverse(SubSeq(f, 1, n - 1))[i]
  <2>1. ASSUME NEW m \in 0..Len(f), NEW c \in DirEntry
        PROVE  LET x == AgendaOf(m, f, c)
               IN  /\ x \in Seq(DirEntry) /\ Len(x) = m + 1 /\ x[1] = c
                   /\ \A i \in 1..m : x[i + 1] = Reverse(SubSeq(f, 1, m))[i]
    BY <1>1, HeadedAgenda
  <2>2. QED
    BY <1>1, <1>2, <2>1
<1>4. \A i \in 1..(n - 1) : Reverse(SubSeq(f, 1, n - 1))[i] = f[n - 1 + 1 - i]
  BY <1>1, <1>2, BottomFacts
<1>5. /\ b \in Seq(DirEntry) /\ Len(b) = n
      /\ \A i \in 1..n : b[i] = q[n + 1 - i]
  <2>1. n \in 0..Len(q)
    BY <1>1 DEF n
  <2>2. b = Reverse(SubSeq(q, 1, n))
    BY <2>1, WaitingAgenda
  <2>3. QED
    BY <2>1, <2>2, BottomFacts
<1> HIDE DEF a, b
<1>6. ASSUME NEW i \in 1..n PROVE a[i] = b[i]
  <2>1. CASE i = 1
    <3>1. n + 1 - i = n
      BY <1>1, <2>1
    <3>2. QED
      BY <1>1, <1>3, <1>5, <2>1, <3>1
  <2>2. CASE i # 1
    <3>1. /\ i - 1 \in 1..(n - 1) /\ (i - 1) + 1 = i
          /\ n - 1 + 1 - (i - 1) = n + 1 - i /\ n + 1 - i \in 1..(n - 1)
      BY <1>1, <2>2
    <3>2. a[i] = f[n + 1 - i]
      BY <1>3, <1>4, <3>1
    <3>3. QED
      BY <1>1, <1>5, <3>1, <3>2
  <2>3. QED
    BY <2>1, <2>2
<1>7. Len(a) = Len(b) /\ Len(a) = n
  BY <1>1, <1>3, <1>5
<1>8. a = b
  BY <1>3, <1>5, <1>6, <1>7, SeqEqual
<1>9. QED
  BY <1>8 DEF a, b, n, f


LEMMA PrintAgenda ==
  ASSUME NEW q \in Seq(DirEntry), NEW m \in 0..Len(q)
  PROVE  LET a == AgendaOf(Len(q), q, NoDir)
             b == Reverse(SubSeq(q, 1, m))
             k == SubSeq(a, 1, Len(q) - m)
         IN  /\ Len(a) = Len(q) /\ Len(b) = m
             /\ k \in Seq(DirEntry) /\ Len(k) = Len(q) - m /\ Len(k) \in Nat
             /\ \A i \in 1..Len(k) : /\ k[i] = q[m + (Len(k) + 1 - i)]
                                     /\ Len(k) + 1 - i \in 1..Len(k)
                                     /\ m + (Len(k) + 1 - i) \in 1..Len(q)
             /\ a = k \o b
<1> DEFINE n == Len(q)
           c == n - m
           a == AgendaOf(n, q, NoDir)
           b == Reverse(SubSeq(q, 1, m))
           k == SubSeq(a, 1, c)
<1>1. /\ n \in Nat /\ m \in Nat /\ m <= n /\ c \in Nat /\ c <= n /\ c + m = n
      /\ n \in 0..Len(q)
  OBVIOUS
<1> HIDE DEF n, c
<1>2. /\ a \in Seq(DirEntry) /\ Len(a) = n
      /\ \A i \in 1..n : a[i] = q[n + 1 - i]
  <2>1. a = Reverse(SubSeq(q, 1, n))
    BY <1>1, WaitingAgenda
  <2>2. QED
    BY <1>1, <2>1, BottomFacts
<1>3. /\ b \in Seq(DirEntry) /\ Len(b) = m
      /\ \A i \in 1..m : b[i] = q[m + 1 - i]
  BY BottomFacts
<1> HIDE DEF a, b
<1>4. /\ k \in Seq(DirEntry) /\ Len(k) = c
      /\ \A i \in 1..c : k[i] = a[i]
  <2>1. \A i \in 1..c : i \in 1..Len(a) /\ a[i] \in DirEntry
    BY <1>1, <1>2, ElementOfSeq
  <2>2. /\ k \in Seq(DirEntry)
        /\ Len(k) = IF 1 <= c THEN c - 1 + 1 ELSE 0
        /\ \A i \in 1..(c - 1 + 1) : k[i] = a[1 + i - 1]
    BY <1>1, <1>2, <2>1, SubSeqProperties
  <2>3. c - 1 + 1 = c /\ (c = 0 \/ 1 <= c) /\ \A i \in 1..c : 1 + i - 1 = i
    BY <1>1
  <2>4. QED
    BY <2>2, <2>3
<1> HIDE DEF k
<1>5. ASSUME NEW i \in 1..c
      PROVE  /\ k[i] = q[m + (c + 1 - i)]
             /\ c + 1 - i \in 1..c /\ m + (c + 1 - i) \in 1..n
  <2>1. i \in 1..n /\ n + 1 - i = m + (c + 1 - i)
    BY <1>1
  <2>2. c + 1 - i \in 1..c /\ m + (c + 1 - i) \in 1..n
    BY <1>1
  <2>3. QED
    BY <1>2, <1>4, <2>1, <2>2
<1>6. /\ k \o b \in Seq(DirEntry) /\ Len(k \o b) = n
      /\ \A i \in 1..c : (k \o b)[i] = k[i]
      /\ \A i \in (c + 1)..n : (k \o b)[i] = b[i - c]
  <2>1. /\ k \o b \in Seq(DirEntry) /\ Len(k \o b) = c + m
        /\ \A i \in 1..(c + m) :
             (k \o b)[i] = IF i <= c THEN k[i] ELSE b[i - c]
    BY <1>3, <1>4, ConcatProperties
  <2>2. /\ \A i \in 1..c : i \in 1..n /\ i <= c
        /\ \A i \in (c + 1)..n : i \in 1..n /\ ~(i <= c)
    BY <1>1
  <2>3. QED
    BY <1>1, <2>1, <2>2
<1>7. ASSUME NEW i \in 1..n PROVE a[i] = (k \o b)[i]
  <2>1. CASE i \in 1..c
    BY <1>4, <1>6, <2>1
  <2>2. CASE i \in (c + 1)..n
    <3>1. i - c \in 1..m /\ m + 1 - (i - c) = n + 1 - i
      BY <1>1, <2>2
    <3>2. QED
      BY <1>2, <1>3, <1>6, <2>2, <3>1
  <2>3. i \in 1..c \/ i \in (c + 1)..n
    BY <1>1
  <2>4. QED
    BY <2>1, <2>2, <2>3
<1>8. a = k \o b
  BY <1>2, <1>6, <1>7, SeqEqual
<1>9. QED
  BY <1>1, <1>2, <1>3, <1>4, <1>5, <1>8 DEF a, b, k, n, c

(* The entries on top of the queue are the children Traversal asks for.    *)
LEMMA KidsAreChildren ==
  ASSUME TInv, Owned, Placed(stdout), Past, pc = "print", cur \in DirEntry,
         NEW m \in 0..Len(dirQueue),
         NEW at \in [1..(Len(dirQueue) - m) -> Subs],
         OnTop(dirQueue, m, at, cur, entries, Subs),
         Agenda = AgendaOf(m, dirQueue, cur),
         NEW k \in Seq(DirEntry), Len(k) = Len(dirQueue) - m,
         \A i \in 1..Len(k) : /\ k[i] = dirQueue[m + (Len(k) + 1 - i)]
                              /\ Len(k) + 1 - i \in 1..Len(k)
                              /\ m + (Len(k) + 1 - i) \in 1..Len(dirQueue)
  PROVE  Abstract!AreChildren(k, Block(cur, entries, Header))
<1> DEFINE q == dirQueue
           c == Len(k)
           b == Block(cur, entries, Header)
           up == [i \in 1..c |-> at[c + 1 - i]]
<1>1. /\ q \in Seq(DirEntry) /\ c \in Nat /\ m \in Nat /\ Len(q) \in Nat
      /\ Distinct(q) /\ cur.id \notin Ids(q)
  BY IdsBounded, NoDirAssumption DEF CurIds
<1>2. b.entries = entries /\ b.id = cur.id
  BY DEF Block
<1>3. /\ \A i \in 1..c : /\ q[m + i].from = cur.id /\ ~q[m + i].operand
                         /\ q[m + i].path = entries[at[i]].path
                         /\ at[i] \in Subs
      /\ \A i, j \in 1..c : i < j => at[i] > at[j]
      /\ \A s \in Subs : \E i \in 1..c : at[i] = s
  BY DEF OnTop
<1>4. Abstract!Subdirs(b) = Subs
  <2>1. \A i \in 1..Len(entries) : i > 0
    OBVIOUS
  <2>2. Subs = {i \in 1..Len(entries) : args.recursive /\ Descends(entries[i])}
    BY <2>1 DEF Subs, SubsAbove, Floor
  <2>3. QED
    BY <1>2, <2>2 DEF Abstract!Subdirs, Abstract!Descends, Descends
<1>5. \A i \in 1..c : /\ k[i] = q[m + (c + 1 - i)] /\ c + 1 - i \in 1..c
                      /\ m + (c + 1 - i) \in 1..Len(q)
  OBVIOUS
<1> HIDE DEF q, c, b
<1>6. up \in [1..c -> Subs] /\ \A i \in 1..c : up[i] = at[c + 1 - i]
  BY <1>3, <1>5
<1> HIDE DEF up
<1>7. \A i, j \in 1..c : i < j => up[i] < up[j]
  <2> SUFFICES ASSUME NEW i \in 1..c, NEW j \in 1..c, i < j PROVE up[i] < up[j]
    OBVIOUS
  <2>1. c + 1 - j < c + 1 - i
    BY <1>1
  <2>2. at[c + 1 - j] > at[c + 1 - i]
    BY <1>3, <1>5, <2>1
  <2>3. at[c + 1 - j] \in Nat /\ at[c + 1 - i] \in Nat
    <3>1. \A s \in Subs : s \in Nat
      BY DEF Subs, SubsAbove
    <3>2. QED
      BY <1>3, <1>5, <3>1
  <2>4. QED
    BY <1>6, <2>2, <2>3
<1>8. \A s \in Subs : \E i \in 1..c : up[i] = s
  <2> TAKE s \in Subs
  <2>1. PICK i \in 1..c : at[i] = s
    BY <1>3
  <2>2. c + 1 - i \in 1..c /\ c + 1 - (c + 1 - i) = i
    BY <1>1
  <2>3. up[c + 1 - i] = s
    BY <1>6, <2>1, <2>2
  <2>4. QED
    BY <2>2, <2>3
<1>9. \A i \in 1..c : /\ k[i].path = entries[up[i]].path
                      /\ k[i].from = cur.id /\ ~k[i].operand
  <2> TAKE i \in 1..c
  <2>1. PICK j \in 1..c : j = c + 1 - i
    BY <1>5
  <2>2. k[i] = q[m + j] /\ up[i] = at[j]
    BY <1>5, <1>6, <2>1
  <2>3. QED
    BY <1>3, <2>2
<1>10. \A i, j \in 1..c : k[i].id = k[j].id => i = j
  <2> SUFFICES ASSUME NEW i \in 1..c, NEW j \in 1..c, k[i].id = k[j].id
               PROVE  i = j
    OBVIOUS
  <2>1. q[m + (c + 1 - i)].id = q[m + (c + 1 - j)].id
    BY <1>5
  <2>2. m + (c + 1 - i) = m + (c + 1 - j)
    BY <1>1, <1>5, <2>1 DEF Distinct
  <2>3. QED
    BY <1>1, <2>2
<1>11. Abstract!IsInjective([i \in 1..c |-> k[i].id])
  BY <1>10 DEF Abstract!IsInjective
<1>12. ASSUME NEW i \in 1..c, NEW j \in 1..Len(Agenda)
       PROVE  k[i].id # Agenda[j].id
  <2> DEFINE low == Reverse(SubSeq(q, 1, m))
  <2>1. /\ Len(Agenda) = m + 1 /\ Agenda[1] = cur
        /\ \A n \in 1..m : Agenda[n + 1] = low[n]
    <3>1. Agenda = AgendaOf(m, q, cur) /\ m \in 0..Len(q)
      BY DEF q
    <3>2. ASSUME NEW d \in DirEntry
          PROVE  LET a == AgendaOf(m, q, d)
                 IN  /\ Len(a) = m + 1 /\ a[1] = d
                     /\ \A n \in 1..m : a[n + 1] = low[n]
      BY <1>1, <3>1, HeadedAgenda
    <3>3. QED
      BY <3>1, <3>2
  <2>2. \A n \in 1..m : low[n] = q[m + 1 - n] /\ m + 1 - n \in 1..Len(q)
    BY <1>1, BottomFacts DEF q
  <2> HIDE DEF low
  <2>3. k[i].id = q[m + (c + 1 - i)].id /\ m + (c + 1 - i) \in 1..Len(q)
    BY <1>5
  <2>4. CASE j = 1
    <3>1. k[i].id \in Ids(q)
      BY <2>3 DEF Ids
    <3>2. QED
      BY <1>1, <2>1, <2>4, <3>1
  <2>5. CASE j # 1
    <3>1. j - 1 \in 1..m /\ (j - 1) + 1 = j
      BY <1>1, <2>1, <2>5
    <3>2. Agenda[j] = q[m + 1 - (j - 1)] /\ m + 1 - (j - 1) \in 1..Len(q)
      BY <2>1, <2>2, <3>1
    <3>3. m + (c + 1 - i) # m + 1 - (j - 1)
      BY <1>1, <3>1
    <3>4. QED
      BY <1>1, <2>3, <3>2, <3>3 DEF Distinct
  <2>6. QED
    BY <2>4, <2>5
<1>13. ASSUME NEW i \in 1..c, NEW n \in 1..Len(Listings)
       PROVE  k[i].id # Listings[n].id
  <2>1. Len(Listings) = Cardinality(BlocksIn(stdout))
    BY ListingsMapped, ListingsTyped DEF TInv, TypeOK
  <2>2. PICK j \in BlocksIn(stdout) : Listings[n] = stdout[j]
    BY <2>1, ListingsMapped, ListingsTyped DEF TInv, TypeOK
  <2>3. stdout[j].id \notin Ahead
    BY <2>2, BlocksOfOutput DEF Past
  <2>4. k[i].id \in Ahead
    BY <1>5 DEF Ahead, Ids, q
  <2>5. QED
    BY <2>2, <2>3, <2>4
<1>14. Abstract!IdsOf(k) \cap (Abstract!IdsOf(Agenda) \cup Abstract!IdsOf(Listings))
         = {}
  <2>1. /\ Abstract!IdsOf(k) = {k[i].id : i \in 1..c}
        /\ Abstract!IdsOf(Agenda) = {Agenda[j].id : j \in 1..Len(Agenda)}
        /\ Abstract!IdsOf(Listings) = {Listings[n].id : n \in 1..Len(Listings)}
    BY DEF Abstract!IdsOf, c
  <2>2. QED
    BY <1>12, <1>13, <2>1
<1>15. c = Len(k)
  BY DEF c
<1>16. /\ up \in [1..Len(k) -> Abstract!Subdirs(b)]
       /\ \A i, j \in 1..Len(k) : i < j => up[i] < up[j]
       /\ \A s \in Abstract!Subdirs(b) : \E i \in 1..Len(k) : up[i] = s
       /\ \A i \in 1..Len(k) : k[i].path = b.entries[up[i]].path
  BY <1>2, <1>4, <1>6, <1>7, <1>8, <1>9, <1>15
<1>17. /\ \A i \in 1..Len(k) : k[i].from = b.id /\ ~k[i].operand
       /\ Abstract!IsInjective([i \in 1..Len(k) |-> k[i].id])
  BY <1>2, <1>9, <1>11, <1>15
<1>18. Abstract!AreChildren(k, b)
  <2>1. \E f \in [1..Len(k) -> Abstract!Subdirs(b)] :
          /\ \A i, j \in 1..Len(k) : i < j => f[i] < f[j]
          /\ \A s \in Abstract!Subdirs(b) : \E i \in 1..Len(k) : f[i] = s
          /\ \A i \in 1..Len(k) : k[i].path = b.entries[f[i]].path
    BY <1>16
  <2>2. QED
    BY <1>14, <1>17, <2>1 DEF Abstract!AreChildren
<1>19. QED
  BY <1>18 DEF b
-----------------------------------------------------------------------------
(* The steps of the listing are steps of Traversal.                        *)

TravInv ==
  TInv /\ Owned /\ SepInv /\ TreeIds /\ Children /\ Placed(stdout) /\ CodeInv

LEMMA StatusOf ==
  ASSUME TInv
  PROVE  /\ pc \in Preparing => Status = "collecting" /\ Verdict = "none"
         /\ pc \in Listing => Status = "listing" /\ Verdict = "none"
         /\ pc \in Over => Status = "ended"
         /\ pc \in Preparing \cup Listing \cup Over
BY DEF TInv, TypeOK, PCs, Status, Verdict, Preparing, Listing, Over

LEMMA StatusNext ==
  ASSUME TInv'
  PROVE  /\ pc' \in Preparing => Status' = "collecting" /\ Verdict' = "none"
         /\ pc' \in Listing => Status' = "listing" /\ Verdict' = "none"
         /\ pc' \in Over => Status' = "ended"
         /\ pc' \in Preparing \cup Listing \cup Over
BY DEF TInv, TypeOK, PCs, Status, Verdict, Preparing, Listing, Over

LEMMA ArgsKept ==
  ASSUME [Next]_vars
  PROVE  args' = args /\ operands' = operands
BY DEF Next, Start, StartFails, Collect, CollectMissing, CollectUnreadableLink,
       CollectDir, CollectFile, CollectUnreadableLinkFails, CollectFails,
       CollectDone, CollectSortFails, Collecting, ListOperands, NoFiles,
       PrintFiles, PrintFilesFails, ListingFails, Load, OpenDir, OpenFails,
       SkipHidden, ReadEntry, ReadUnstatable, ReadFails, ReadEnd, SortFails,
       Reading, ListDirs, QueueEmpty, PopDir, GapFails, QueueSkip, QueueChild,
       QueueChildFails, QueueDone, PrintDir, PrintDirFails, LastFlush, Cleanup,
       given, vars

LEMMA ListingsKept ==
  ASSUME BlocksKept, Placed(stdout)
  PROVE  UNCHANGED Listings
BY ListingsMapped DEF BlocksKept

LEMMA PrintLists ==
  ASSUME TravInv, TInv', [Next]_vars, PrintDir, ListingAdded
  PROVE  AbstractStep
<1> DEFINE q == dirQueue
           b == Block(cur, entries, Header)
           n == Len(q)
<1>1. /\ pc = "print" /\ pc' = "next" /\ cur \in DirEntry /\ cur # NoDir
      /\ cur' = NoDir /\ dirQueue' = q /\ exitCode' = exitCode /\ args' = args
  BY CurIsDir, NoDirAssumption, ArgsKept DEF TravInv, PrintDir, FreeCur, queues
<1>2. /\ Status = "listing" /\ Status' = "listing" /\ Verdict' = Verdict
      /\ Failed' = Failed
  BY <1>1 DEF Status, Verdict, Failed
<1>3. q \in Seq(DirEntry) /\ n \in Nat
  BY DEF TravInv, TInv, TypeOK
<1>4. PICK m \in 0..n : \E at \in [1..(n - m) -> Subs] :
        OnTop(q, m, at, cur, entries, Subs)
  BY <1>1 DEF TravInv, Children, HasOnTop
<1>5. PICK at \in [1..(n - m) -> Subs] : OnTop(q, m, at, cur, entries, Subs)
  BY <1>4
<1>6. Below(m, q, cur)
  BY <1>1, <1>5, BelowChildren DEF TravInv
<1>7. Below(n, q, NoDir)
  BY <1>3 DEF Below
<1>8. Agenda = AgendaOf(m, q, cur) /\ Agenda' = AgendaOf(n, q, NoDir)
  BY <1>1, <1>3, <1>6, <1>7, AgendaMapped DEF Listing
<1> DEFINE k == SubSeq(Agenda', 1, n - m)
           low == Reverse(SubSeq(q, 1, m))
<1>9. Agenda # << >> /\ Head(Agenda) = cur /\ Tail(Agenda) = low
  <2>1. ASSUME NEW d \in DirEntry
        PROVE  LET a == AgendaOf(m, q, d)
               IN  a # << >> /\ Head(a) = d /\ Tail(a) = low
    BY <1>3, HeadedAgenda
  <2>2. QED
    BY <1>1, <1>8, <2>1
<1>10. /\ Len(Agenda') = n /\ Len(low) = m
       /\ k \in Seq(DirEntry) /\ Len(k) = n - m /\ Len(k) \in Nat
       /\ \A i \in 1..Len(k) : /\ k[i] = q[m + (Len(k) + 1 - i)]
                               /\ Len(k) + 1 - i \in 1..Len(k)
                               /\ m + (Len(k) + 1 - i) \in 1..n
       /\ Agenda' = k \o low
  BY <1>3, <1>8, PrintAgenda
<1>11. Abstract!AreChildren(k, b)
  BY <1>1, <1>3, <1>5, <1>8, <1>10, KidsAreChildren DEF TravInv, TreeIds, Over
<1>12. /\ Len(Listings') = Len(Listings) + 1 /\ Front(Listings') = Listings
       /\ Last(Listings') = b
  <2> DEFINE N == Cardinality(DirBlocks)
             l == Listings'
  <2>1. /\ Listings \in Seq(Items) /\ Len(Listings) = N /\ N \in Nat
    BY ListingsMapped, ListingsTyped, BlocksFinite, BlocksOfOutput
       DEF TravInv, TInv, TypeOK
  <2>2. /\ l \in Seq(Items) /\ Len(l) = N + 1 /\ l[N + 1] = b
        /\ \A i \in 1..N : l[i] = Listings[i]
    BY ListingsMapped DEF ListingAdded
  <2> HIDE DEF l, N
  <2>3. l # << >>
    BY <2>1, <2>2
  <2>4. /\ Front(l) \in Seq(Items) /\ Len(Front(l)) = N
        /\ \A i \in 1..N : Front(l)[i] = l[i]
        /\ Last(l) = b
    <3>1. Len(l) - 1 = N
      BY <2>1, <2>2
    <3>2. /\ Front(l) \in Seq(Items) /\ Len(Front(l)) = Len(l) - 1
          /\ \A i \in 1..(Len(l) - 1) : Front(l)[i] = l[i]
          /\ Last(l) = l[Len(l)]
      BY <2>2, <2>3, FrontFacts
    <3>3. QED
      BY <2>2, <3>1, <3>2
  <2>5. Front(l) = Listings
    BY <2>1, <2>2, <2>4, SeqEqual
  <2>6. QED
    BY <2>1, <2>2, <2>4, <2>5 DEF l
<1>13. b.id = cur.id /\ b.path = cur.path
  BY DEF Block
<1> HIDE DEF k, low, b, n, q
<1>14. Len(Agenda') - Len(Tail(Agenda)) = n - m /\ n - m >= 0
  BY <1>9, <1>10
<1>15. Abstract!List
  <2>1. k = SubSeq(Agenda', 1, n - m)
    BY DEF k
  <2>2. UNCHANGED <<args, Status, Verdict>> /\ Failed' = Failed
    BY <1>1, <1>2
  <2>3. QED
    BY <1>2, <1>9, <1>10, <1>11, <1>12, <1>13, <1>14, <2>1, <2>2
       DEF Abstract!List, Failed, Verdict, Abstract!Last, Abstract!Front, Last, Front
<1>16. QED
  BY <1>15 DEF AbstractStep, Abstract!Next

(* The operands are the first agenda.                                      *)
LEMMA BeginsListing ==
  ASSUME TravInv, TInv', [Next]_vars, Gathers, BlocksKept, pc' = "next"
  PROVE  AbstractStep
<1> DEFINE q == dirQueue'
           n == Len(q)
<1>1. pc = "files" /\ (NoFiles \/ PrintFiles)
  BY DEF Gathers, Preparing, Next, Start, StartFails, Collect, CollectMissing,
         CollectUnreadableLink, CollectDir, CollectFile,
         CollectUnreadableLinkFails, CollectFails, CollectDone, CollectSortFails,
         Collecting, NextOperand, Fatal, ListOperands, NoFiles, PrintFiles,
         PrintFilesFails, ListingFails, GiveUp, Load, OpenDir, OpenFails,
         SkipHidden, ReadEntry, ReadUnstatable, ReadFails, ReadEnd, SortFails,
         Reading, ListDirs, QueueEmpty, PopDir, GapFails, QueueSkip, QueueChild,
         QueueChildFails, QueueDone, PrintDir, PrintDirFails, LastFlush, Cleanup,
         vars
<1>2. ~args.directory /\ exitCode' = exitCode /\ AfterFiles
  BY <1>1 DEF NoFiles, PrintFiles, AfterFiles
<1>3. /\ Status = "collecting" /\ Status' = "listing" /\ Verdict' = Verdict
      /\ Failed' = Failed /\ args' = args /\ Listings' = Listings
  BY <1>1, <1>2, ArgsKept, ListingsKept DEF Status, Verdict, Failed, TravInv
<1>4. /\ dirQueue \in Seq(DirEntry) /\ q \in Seq(DirEntry) /\ n \in Nat
      /\ cur' = NoDir
  BY <1>1, CurIsDir DEF Gathers, TravInv, TInv, TypeOK
<1>5. Rearranges(q, dirQueue)
  BY <1>2, PopOrderRearranges DEF TravInv
<1>6. Distinct(q)
  BY <1>4, <1>5, RearrangedFacts DEF TravInv, Owned, OneOwner
<1>7. \A i \in 1..n : q[i].operand
  BY <1>1, <1>4, <1>5, RearrangedOperands
     DEF TravInv, SepInv, NothingYet, Preparing, OperandsOnly
<1>8. Below(n, q, NoDir)
  BY <1>4 DEF Below
<1>9. /\ Len(Agenda') = n
      /\ \A i \in 1..n : Agenda'[i] = q[n + 1 - i] /\ n + 1 - i \in 1..n
  <2>1. Agenda' = AgendaOf(n, q, NoDir) /\ n \in 0..Len(q)
    BY <1>4, <1>8, AgendaMapped DEF Listing
  <2>2. Agenda' = Reverse(SubSeq(q, 1, n))
    BY <1>4, <2>1, WaitingAgenda
  <2>3. ASSUME NEW m \in 0..Len(q)
        PROVE  /\ Len(Reverse(SubSeq(q, 1, m))) = m
               /\ \A i \in 1..m : Reverse(SubSeq(q, 1, m))[i] = q[m + 1 - i]
    BY <1>4, BottomFacts
  <2>4. \A i \in 1..n : n + 1 - i \in 1..n
    BY <1>4
  <2>5. QED
    BY <2>1, <2>2, <2>3, <2>4
<1> HIDE DEF q
<1>10. \A i \in 1..n : Agenda'[i].operand
  BY <1>7, <1>9
<1>11. \A i, j \in 1..n : Agenda'[i].id = Agenda'[j].id => i = j
  <2> SUFFICES ASSUME NEW i \in 1..n, NEW j \in 1..n, Agenda'[i].id = Agenda'[j].id
               PROVE  i = j
    OBVIOUS
  <2>1. n + 1 - i = n + 1 - j
    BY <1>6, <1>9 DEF Distinct
  <2>2. QED
    BY <1>4, <2>1
<1>12. Abstract!IsInjective([i \in 1..Len(Agenda') |-> Agenda'[i].id])
  BY <1>9, <1>11 DEF Abstract!IsInjective
<1>13. Abstract!Begin
  BY <1>2, <1>3, <1>9, <1>10, <1>12 DEF Abstract!Begin, Failed, Verdict
<1>14. QED
  BY <1>13 DEF AbstractStep, Abstract!Next

LEMMA PopSame ==
  ASSUME TravInv, TInv', PopDir
  PROVE  Agenda' = Agenda
<1> DEFINE q == dirQueue
<1>1. /\ pc = "next" /\ pc' = "open" /\ q # << >> /\ cur = NoDir
      /\ cur' = Last(q) /\ dirQueue' = Front(q)
  BY CurIsDir DEF PopDir, TravInv
<1>2. q \in Seq(DirEntry) /\ Len(q) \in Nat /\ dirQueue' \in Seq(DirEntry)
  BY DEF TravInv, TInv, TypeOK
<1>3. Len(Front(q)) = Len(q) - 1 /\ Len(q) - 1 \in 0..Len(Front(q))
      /\ cur' \in DirEntry
  BY <1>1, <1>2, FrontFacts
<1>4. Below(Len(q), q, NoDir)
  BY <1>2 DEF Below
<1>5. Below(Len(q) - 1, Front(q), Last(q))
  <2>1. Last(q).id \notin Froms(Front(q))
    <3>1. /\ \A f \in Froms(q) : f \notin Ids(q)
          /\ Ids(q) = Ids(Front(q)) \cup {Last(q).id}
          /\ Froms(q) = Froms(Front(q)) \cup {Last(q).from}
      BY <1>1, <1>2, FrontIds, FrontFroms DEF TravInv, TreeIds, Over, Descent
    <3>2. QED
      BY <3>1
  <2>2. \A i \in 1..Len(Front(q)) : Front(q)[i].from # Last(q).id
    BY <2>1 DEF Froms
  <2>3. \A i \in 1..Len(Front(q)) : i <= Len(q) - 1
    BY <1>2, <1>3
  <2>4. Last(q) # NoDir
    BY <1>1, <1>3, NoDirAssumption
  <2>5. QED
    BY <1>3, <2>2, <2>3, <2>4 DEF Below
<1>6. Agenda = AgendaOf(Len(q), q, NoDir)
  BY <1>1, <1>2, <1>4, AgendaMapped DEF Listing
<1>7. Agenda' = AgendaOf(Len(q) - 1, Front(q), Last(q))
  BY <1>1, <1>2, <1>5, AgendaMapped DEF Listing
<1>8. QED
  BY <1>1, <1>2, <1>6, <1>7, PopAgenda

LEMMA QueueSame ==
  ASSUME TravInv, TInv', QueueChild
  PROVE  Agenda' = Agenda
<1> DEFINE q == dirQueue
<1>1. /\ pc = "queue" /\ pc' = "queue" /\ cur \in DirEntry /\ cur # NoDir
      /\ cur' = cur
  BY CurIsDir, NoDirAssumption DEF QueueChild, loading, TravInv
<1>2. q \in Seq(DirEntry) /\ Len(q) \in Nat /\ dirQueue' \in Seq(DirEntry)
  BY DEF TravInv, TInv, TypeOK
<1> DEFINE d == [id |-> nextId, path |-> entries[index].path,
                 operand |-> FALSE, from |-> cur.id]
<1>3. entries[index] \in NameEntry
  BY ElementOfSeq DEF QueueChild, TravInv, TInv, TypeOK, IndexOK
<1>4. d \in DirEntry /\ d.from = cur.id
  BY <1>1, <1>3 DEF DirEntry, NameEntry, TravInv, TInv, TypeOK
<1>5. dirQueue' = Append(q, d)
  BY DEF QueueChild, PushedDir
<1> HIDE DEF d
<1>6. PICK m \in 0..Len(q) : \E at \in [1..(Len(q) - m) -> Subs] :
        OnTop(q, m, at, cur, entries, Subs)
  BY <1>1 DEF TravInv, Children, HasOnTop
<1>7. Below(m, q, cur)
  BY <1>1, <1>6, BelowChildren DEF TravInv
<1>8. /\ Len(dirQueue') = Len(q) + 1 /\ dirQueue'[Len(q) + 1] = d
      /\ \A i \in 1..Len(q) : dirQueue'[i] = q[i]
  BY <1>2, <1>4, <1>5, AppendFacts
<1>9. /\ m \in 0..Len(dirQueue') /\ \A i \in 1..m : i \in 1..Len(q)
      /\ 1..(Len(q) + 1) = (1..Len(q)) \cup {Len(q) + 1}
      /\ ~(Len(q) + 1 <= m)
  BY <1>2, <1>8
<1>10. Below(m, dirQueue', cur)
  <2>1. \A i \in 1..Len(q) : dirQueue'[i].from # cur.id <=> i <= m
    BY <1>1, <1>7, <1>8 DEF Below
  <2>2. QED
    BY <1>1, <1>4, <1>8, <1>9, <2>1 DEF Below
<1>11. Reverse(SubSeq(q, 1, m)) = Reverse(SubSeq(dirQueue', 1, m))
  BY <1>2, <1>8, <1>9, SameBottom
<1>12. Agenda = AgendaOf(m, q, cur) /\ Agenda' = AgendaOf(m, dirQueue', cur)
  BY <1>1, <1>2, <1>7, <1>10, AgendaMapped DEF Listing
<1>13. QED
  BY <1>11, <1>12 DEF AgendaOf

LEMMA SameQueue ==
  ASSUME TravInv, UNCHANGED <<cur, dirQueue>>,
         pc \in Listing <=> pc' \in Listing, TInv'
  PROVE  Agenda' = Agenda
<1>1. Status = "listing" <=> pc \in Listing
  BY DEF Status, Listing
<1>2. Status' = "listing" <=> pc' \in Listing
  BY DEF Status, Listing
<1>3. PendingDirs' = PendingDirs
  BY DEF PendingDirs, Waiting
<1>4. QED
  BY <1>1, <1>2, <1>3 DEF Agenda

(* Within the listing every step but PrintDir and a drop keeps the agenda. *)
LEMMA ListingStep ==
  ASSUME TravInv, TInv', [Next]_vars, TreeEffect,
         pc \in Listing, pc' \in Listing
  PROVE  AbstractStep
<1>1. /\ Status' = Status /\ Verdict' = Verdict /\ Verdict = "none"
      /\ args' = args
  BY StatusOf, StatusNext, ArgsKept DEF TravInv
<1>2. Failed => Failed'
  BY <1>1, CodeStep, StatusOf DEF Failed, TravInv
<1>3. ~PrintDir => Listings' = Listings
  BY ListingsKept DEF TravInv, TreeEffect
<1>4. CASE PrintDir
  BY <1>4, PrintLists DEF TreeEffect, TravInv
<1>5. CASE ~PrintDir /\ (PopDir \/ QueueChild)
  BY <1>1, <1>2, <1>3, <1>5, PopSame, QueueSame, SameOrLost
<1>6. CASE ~PrintDir /\ Drops
  <2>1. /\ pc \in {"open", "read"} /\ cur \in DirEntry /\ cur # NoDir
        /\ cur' = NoDir /\ dirQueue' = dirQueue /\ exitCode' # 0
    BY <1>6, CurIsDir, NoDirAssumption DEF Drops, TravInv
  <2> DEFINE q == dirQueue
             n == Len(q)
             low == Reverse(SubSeq(q, 1, n))
  <2>2. q \in Seq(DirEntry) /\ n \in Nat /\ n \in 0..Len(q)
    BY DEF TravInv, TInv, TypeOK
  <2>3. Below(n, q, cur) /\ Below(n, q, NoDir)
    BY <2>1, <2>2, BelowWhileReading DEF TravInv, Below
  <2>4. Agenda = AgendaOf(n, q, cur) /\ Agenda' = AgendaOf(n, q, NoDir)
    BY <2>1, <2>2, <2>3, AgendaMapped
  <2>5. Agenda' = low
    BY <2>2, <2>4, WaitingAgenda
  <2>6. Agenda # << >> /\ Tail(Agenda) = low
    BY <2>1, <2>2, <2>4, HeadedAgenda
  <2>7. Failed'
    BY <2>1 DEF Failed
  <2>8. QED
    BY <1>1, <1>3, <1>6, <2>5, <2>6, <2>7, SkipsHead, StatusOf DEF TravInv
<1>7. CASE ~PrintDir /\ (Reads \/ ReadEnd \/ QueueSkip \/ QueueDone \/ UNCHANGED vars)
  <2>1. UNCHANGED <<cur, dirQueue>>
    BY <1>7 DEF Reads, ReadEnd, QueueSkip, QueueDone, queues, loading, vars
  <2>2. QED
    BY <1>1, <1>2, <1>3, <1>7, <2>1, SameQueue, SameOrLost
<1>8. ~Gathers /\ ~Stops
  BY DEF Gathers, Stops, Preparing, Listing, Over
<1>9. QED
  BY <1>4, <1>5, <1>6, <1>7, <1>8 DEF TreeEffect, TreeCase, QueueStep

LEMMA StepTraverses ==
  ASSUME TravInv, TInv', [Next]_vars
  PROVE  AbstractStep
<1>1. TreeEffect
  BY StepTree DEF TravInv
<1>2. ~(pc \in Listing) => ~PrintDir
  BY DEF PrintDir, Listing
<1>3. ~(pc \in Listing) => BlocksKept /\ Listings' = Listings /\ args' = args
  BY <1>1, <1>2, ListingsKept, ArgsKept DEF TreeEffect, TravInv
<1>4. /\ pc \in Preparing \cup Listing \cup Over
      /\ pc' \in Preparing \cup Listing \cup Over
  BY StatusOf, StatusNext DEF TravInv
<1>5. CASE pc \in Preparing /\ pc' \in Preparing
  <2>1. /\ Status' = Status /\ Verdict' = Verdict /\ Verdict = "none"
        /\ Agenda = << >> /\ Agenda' = << >>
    BY <1>5, StatusOf, StatusNext DEF TravInv, Agenda
  <2>2. Failed => Failed'
    BY <1>5, <2>1, CodeStep, StatusOf DEF Failed, TravInv
  <2>3. pc \notin Listing
    BY <1>5 DEF Preparing, Listing
  <2>4. QED
    BY <1>3, <2>1, <2>2, <2>3, SameOrLost
<1>6. CASE pc \in Preparing /\ pc' \in Listing
  <2>1. Gathers
    BY <1>1, <1>6
       DEF TreeEffect, TreeCase, PopDir, Reads, ReadEnd, QueueStep, QueueSkip,
           QueueChild, QueueDone, PrintDir, Drops, Stops, Preparing, Listing,
           Over, vars
  <2>2. pc' = "next" /\ pc \notin Listing
    BY <1>6, <2>1 DEF Gathers, Preparing, Listing
  <2>3. QED
    BY <1>3, <2>1, <2>2, BeginsListing
<1>7. CASE pc \notin Over /\ pc' \in Over
  <2>1. Status # "ended" /\ Status' = "ended" /\ Verdict = "none"
    BY <1>4, <1>7, StatusOf, StatusNext DEF TravInv
  <2>2. EndsWell \/ EndsBadly
    BY <1>7, StepEnds
  <2>3. Verdict' = "none"
    BY <2>2 DEF EndsWell, EndsBadly, Verdict
  <2>4. ~PrintDir
    BY <1>7 DEF PrintDir, Over
  <2>5. Listings' = Listings /\ args' = args
    BY <1>1, <2>4, ListingsKept, ArgsKept DEF TreeEffect, TravInv
  <2>6. CASE EndsWell
    <3>1. Agenda = << >>
      <4>1. CASE pc = "files"
        BY <4>1 DEF Agenda, Status
      <4>2. CASE pc = "next" /\ dirQueue = << >>
        <5>1. /\ cur = NoDir /\ dirQueue \in Seq(DirEntry)
              /\ dirQueue' \in Seq(DirEntry)
          BY <4>2, CurIsDir DEF TravInv, TInv, TypeOK
        <5>2. Len(dirQueue) = 0 /\ 0 \in 0..Len(dirQueue)
          BY <4>2
        <5>3. Below(0, dirQueue, cur)
          BY <5>1, <5>2 DEF Below
        <5>4. Agenda = AgendaOf(0, dirQueue, NoDir)
          BY <4>2, <5>1, <5>3, AgendaMapped DEF Listing
        <5>5. ASSUME NEW m \in 0..Len(dirQueue)
              PROVE  /\ AgendaOf(m, dirQueue, NoDir) \in Seq(DirEntry)
                     /\ Len(AgendaOf(m, dirQueue, NoDir)) = m
          BY <5>1, WaitingAgenda, BottomFacts
        <5>6. QED
          BY <5>2, <5>4, <5>5, EmptySeq
      <4>3. QED
        BY <2>6, <4>1, <4>2 DEF EndsWell
    <3>2. Failed' = Failed
      BY <2>1, <2>6 DEF EndsWell, Failed
    <3>3. QED
      BY <2>1, <2>3, <2>5, <3>1, <3>2, EndsListing
  <2>7. CASE EndsBadly
    <3>1. Failed'
      BY <2>1, <2>7 DEF EndsBadly, Failed
    <3>2. QED
      BY <2>1, <2>3, <2>5, <3>1, EndsListing
  <2>8. QED
    BY <2>2, <2>6, <2>7
<1>8. CASE pc \in Over
  <2>1. /\ Status = "ended" /\ Agenda = << >> /\ pc \notin Listing
    BY <1>8, StatusOf DEF TravInv, Agenda, Over, Listing
  <2>2. ASSUME NEW flushed \in BOOLEAN, LastFlush(flushed) PROVE AbstractStep
    <3>1. /\ pc = "flush" /\ pc' = "cleanup" /\ ok' = ok
          /\ exitCode' = IF flushed /\ ok THEN exitCode ELSE 2
      BY <2>2 DEF LastFlush, FinalCode
    <3>2. /\ Status' = Status /\ Verdict' = Verdict /\ Verdict = "none"
          /\ Agenda' = Agenda /\ (Failed => Failed')
      BY <2>1, <3>1 DEF Status, Verdict, Agenda, Failed
    <3>3. QED
      BY <1>3, <2>1, <3>2, SameOrLost
  <2>3. CASE Cleanup
    <3>1. /\ pc = "cleanup" /\ pc' = "exit" /\ UNCHANGED <<exitCode, ok>>
      BY <2>3 DEF Cleanup
    <3>2. /\ Status' = Status /\ Verdict = "none" /\ Agenda' = Agenda
          /\ Failed' = Failed /\ (Failed <=> exitCode # 0)
          /\ Verdict' = IF exitCode = 0 THEN "ok" ELSE "error"
      BY <2>1, <3>1 DEF Status, Verdict, Agenda, Failed, TravInv, CodeInv
    <3>3. QED
      BY <1>3, <2>1, <3>2, ReportsEnd
  <2>4. CASE UNCHANGED vars
    <3>1. UNCHANGED <<pc, exitCode, ok>>
      BY <2>4 DEF vars
    <3>2. UNCHANGED <<Status, Verdict, Failed, Agenda>>
      BY <2>1, <3>1 DEF Status, Verdict, Failed, Agenda
    <3>3. UNCHANGED Abstract!vars
      BY <1>3, <2>1, <3>2 DEF Abstract!vars, Failed, Verdict
    <3>4. QED
      BY <3>3 DEF AbstractStep
  <2>5. QED
    BY <1>8, <2>2, <2>3, <2>4, StepOver
<1>9. CASE pc \in Listing /\ pc' \in Preparing
  <2>1. ~Gathers /\ ~Stops
    BY <1>9 DEF Gathers, Stops, Preparing, Listing, Over
  <2>2. QED
    BY <1>1, <1>9, <2>1
       DEF TreeEffect, TreeCase, PopDir, Reads, ReadEnd, QueueStep, QueueSkip,
           QueueChild, QueueDone, PrintDir, Drops, Preparing, Listing, vars
<1>10. QED
  BY <1>1, <1>4, <1>5, <1>6, <1>7, <1>8, <1>9, ListingStep

LEMMA InitTraversal == Init => TravInv /\ Abstract!Init
<1> SUFFICES ASSUME Init PROVE TravInv /\ Abstract!Init
  OBVIOUS
<1>1. /\ args \in ArgSets /\ pc = "start" /\ exitCode = 0
      /\ stdout = << >> /\ stdout \in Seq(Items)
  BY DEF Init
<1>2. BlocksIn(stdout) = {} /\ Cardinality(BlocksIn(stdout)) = 0
  <2>1. Len(<< >>) = 0 /\ 1..0 = {}
    OBVIOUS
  <2>2. BlocksIn(stdout) = {}
    BY <1>1, <2>1 DEF BlocksIn
  <2>3. QED
    BY <2>2, FS_EmptySet
<1>3. Placed(stdout)
  BY <1>2 DEF Placed
<1>4. Children /\ CodeInv
  BY <1>1 DEF Children, CodeInv
<1>5. TravInv
  BY <1>3, <1>4, InitOInv, InitSepInv, InitTreeIds DEF TravInv, OInv
<1>6. Listings = << >>
  BY <1>1, <1>2, <1>3, ListingsMapped, ListingsTyped, EmptySeq
<1>7. Abstract!Init
  BY <1>1, <1>6 DEF Abstract!Init, Status, Agenda
<1>8. QED
  BY <1>5, <1>7

LEMMA StepTravInv == TravInv /\ [Next]_vars => TravInv'
<1> SUFFICES ASSUME TravInv, [Next]_vars PROVE TravInv'
  OBVIOUS
<1>1. TInv' /\ SepInv'
  BY StepTInv, StepSepInv DEF TravInv
<1>2. Owned'
  <2>1. TInv /\ EntriesType
    BY TypeParts DEF TravInv, TInv, EntriesType, LoadingType
  <2>2. QED
    BY <2>1, StepEffect, EffectOwned DEF TravInv
<1>3. TreeEffect
  BY StepTree DEF TravInv
<1>4. TreeIds' /\ Children'
  BY <1>3, StepTreeIds, StepChildren DEF TravInv
<1>5. Placed(stdout)'
  BY <1>3 DEF TreeEffect, BlocksKept, ListingAdded, TravInv
<1>6. CodeInv'
  BY StepCodeInv DEF TravInv
<1>7. QED
  BY <1>1, <1>2, <1>4, <1>5, <1>6 DEF TravInv

LEMMA TravInvHolds == Spec => []TravInv
BY InitTraversal, StepTravInv, PTL DEF Spec

(* process() lists the directories of the agenda in order, each with its   *)
(* subdirectories after it, drops one only in a run that fails, and        *)
(* reports success only if nothing was dropped or lost (ft_walk.c:214,     *)
(* :477, :483).                                                            *)
THEOREM ListingImplementsTraversal == Spec => TraversalSpec
<1>1. Init => Abstract!Init
  BY InitTraversal
<1>2. TravInv /\ TravInv' /\ [Next]_vars => [Abstract!Next]_(Abstract!vars)
  <2> SUFFICES ASSUME TravInv, TravInv', [Next]_vars
               PROVE  AbstractStep
    BY DEF AbstractStep
  <2>1. TInv'
    BY DEF TravInv
  <2>2. QED
    BY <2>1, StepTraverses
<1>3. QED
  BY <1>1, <1>2, TravInvHolds, PTL DEF Spec, TraversalSpec, Abstract!Spec
-----------------------------------------------------------------------------
(* The order of siblings.                                                  *)

(* The listings that are known: those printed, and that of cur.            *)
Names == [i \in 1..Len(entries) |-> entries[i].path]
Known ==
  {<<stdout[p].id, Listed(stdout[p])>> : p \in DirBlocks}
    \cup (IF cur = NoDir THEN {} ELSE {<<cur.id, Names>>})

(* x may come before y, of the options a and the operands os: if they are  *)
(* siblings the listing they come from has them in this order.             *)
Sib(K, a, os, x, y) ==
  x.from = y.from =>
    IF ~x.operand
    THEN \E l \in K : l[1] = x.from /\ Before(l[2], x.path, y.path)
    ELSE IF a.unsort THEN Before(os, x.path, y.path)
    ELSE InOrder(x, y, a.reverse)

BlocksOrdered ==
  \A j, k \in DirBlocks :
    j < k => Sib(Known, args, operands, stdout[j], stdout[k])

(* What comes next: cur, then the queue from its end.                      *)
CurOrdered ==
  cur # NoDir =>
    /\ \A j \in DirBlocks : Sib(Known, args, operands, stdout[j], cur)
    /\ \A i \in 1..Len(dirQueue) : Sib(Known, args, operands, cur, dirQueue[i])

QueueOrdered ==
  /\ \A j \in DirBlocks, i \in 1..Len(dirQueue) :
       Sib(Known, args, operands, stdout[j], dirQueue[i])
  /\ \A i, j \in 1..Len(dirQueue) :
       i < j => Sib(Known, args, operands, dirQueue[j], dirQueue[i])

(* Before the listing the queue is in the order of the operands, and then  *)
(* sorted to be popped from its end.                                       *)
AsGiven(q, os) ==
  \A i, j \in 1..Len(q) : i < j => Before(os, q[i].path, q[j].path)
GatheredOrdered ==
  /\ pc \in {"start", "collect"} =>
       /\ \A i \in 1..Len(dirQueue) :
            \E m \in 1..Len(operands) :
              m < index /\ operands[m] = dirQueue[i].path
       /\ AsGiven(dirQueue, operands)
  /\ pc = "files" =>
       IF args.unsort THEN AsGiven(dirQueue, operands)
       ELSE \A i, j \in 1..Len(dirQueue) :
              i < j => InOrder(dirQueue[j], dirQueue[i], args.reverse)

OrderInv ==
  BlocksOrdered /\ GatheredOrdered /\ (pc \in Listing => CurOrdered /\ QueueOrdered)

(* Two things stay in order while the listing they come from is known.     *)
LEMMA SibMoved ==
  ASSUME NEW K, NEW L, NEW a, NEW os, NEW x, NEW y, Sib(K, a, os, x, y),
         \A l \in K : l[1] = x.from => l \in L
  PROVE  Sib(L, a, os, x, y)
BY DEF Sib

(* What is known of a listing that a step leaves alone, or prints.         *)
LEMMA SibNext ==
  ASSUME TreeEffect, args' = args, operands' = operands,
         NEW x, NEW y, Sib(Known, args, operands, x, y),
         \/ PrintDir
         \/ cur' = cur /\ entries' = entries
         \/ cur # NoDir => x.from # cur.id
  PROVE  Sib(Known', args', operands', x, y)
<1>1. DirBlocks \subseteq DirBlocks'
      /\ \A p \in DirBlocks : stdout'[p] = stdout[p]
  BY DEF TreeEffect, BlocksKept, BlockAdded
<1>2. ASSUME NEW l \in Known, l[1] = x.from PROVE l \in Known'
  <2>1. CASE \E p \in DirBlocks : l = <<stdout[p].id, Listed(stdout[p])>>
    <3>1. PICK p \in DirBlocks : l = <<stdout[p].id, Listed(stdout[p])>>
      BY <2>1
    <3>2. p \in DirBlocks' /\ l = <<stdout'[p].id, Listed(stdout'[p])>>
      BY <1>1, <3>1
    <3>3. QED
      BY <3>2 DEF Known
  <2>2. CASE cur # NoDir /\ l = <<cur.id, Names>>
    <3>1. x.from = cur.id
      BY <1>2, <2>2
    <3>2. CASE cur' = cur /\ entries' = entries
      <4>1. Names' = Names
        BY <3>2 DEF Names
      <4>2. QED
        BY <2>2, <3>2, <4>1 DEF Known
    <3>3. CASE PrintDir
      <4>1. PICK m \in Nat : /\ DirBlocks' = DirBlocks \cup {m}
                             /\ stdout'[m] = Block(cur, entries, Header)
        BY <3>3 DEF TreeEffect, BlockAdded
      <4>2. m \in DirBlocks' /\ stdout'[m].id = cur.id
            /\ Listed(stdout'[m]) = Names
        BY <4>1 DEF Block, Listed, Names
      <4>3. QED
        BY <2>2, <4>2 DEF Known
    <3>4. QED
      BY <2>2, <3>1, <3>2, <3>3
  <2>3. QED
    BY <2>1, <2>2 DEF Known
<1>3. QED
  BY <1>2, SibMoved

LEMMA Elsewhere ==
  ASSUME TInv, TreeIds, cur # NoDir
  PROVE  /\ \A j \in DirBlocks : stdout[j].from # cur.id
         /\ cur.from # cur.id
         /\ pc \in {"open", "read"} =>
              \A i \in 1..Len(dirQueue) : dirQueue[i].from # cur.id
<1>1. pc \notin Over
  BY CurIsDir DEF Over
<1>2. cur.id \in Ahead
  BY DEF Ahead, CurIds
<1>3. Descent /\ Past
  BY <1>1 DEF TreeIds
<1>4. QED
  BY <1>2, <1>3 DEF Descent, Past, Froms

LEMMA BlocksStayOrdered ==
  ASSUME TInv, TreeIds, TreeEffect, args' = args, operands' = operands,
         BlocksKept, BlocksOrdered
  PROVE  BlocksOrdered'
<1>1. SUFFICES ASSUME NEW j \in DirBlocks, NEW k \in DirBlocks, j < k
               PROVE  Sib(Known', args', operands', stdout'[j], stdout'[k])
  BY DEF BlocksOrdered, BlocksKept
<1>2. stdout'[j] = stdout[j] /\ stdout'[k] = stdout[k]
  BY DEF BlocksKept
<1>3. Sib(Known, args, operands, stdout[j], stdout[k])
  BY <1>1 DEF BlocksOrdered
<1>4. Sib(Known', args', operands', stdout[j], stdout[k])
  BY <1>3, Elsewhere, SibNext
<1>5. QED
  BY <1>2, <1>4

(* Reading, sorting and the loop over the entries.                         *)
LEMMA ReadingOrdered ==
  ASSUME TInv, TreeIds, TreeEffect, args' = args, operands' = operands,
         BlocksKept, UNCHANGED <<cur, dirQueue>>,
         entries' = entries \/ pc \in {"open", "read"},
         CurOrdered, QueueOrdered
  PROVE  CurOrdered' /\ QueueOrdered'
<1>1. \A j \in DirBlocks : stdout'[j] = stdout[j]
  BY DEF BlocksKept
<1>2. ASSUME NEW x, NEW y, Sib(Known, args, operands, x, y),
             \/ \E j \in DirBlocks : x = stdout[j]
             \/ x = cur \/ \E i \in 1..Len(dirQueue) : x = dirQueue[i]
      PROVE  Sib(Known', args', operands', x, y)
  <2>1. entries' = entries \/ (cur # NoDir => x.from # cur.id)
    BY <1>2, Elsewhere
  <2>2. QED
    BY <1>2, <2>1, SibNext
<1>3. CurOrdered'
  <2>1. ASSUME cur # NoDir, NEW j \in DirBlocks
        PROVE  Sib(Known', args', operands', stdout'[j], cur)
    BY <1>1, <1>2, <2>1 DEF CurOrdered
  <2>2. ASSUME cur # NoDir, NEW i \in 1..Len(dirQueue)
        PROVE  Sib(Known', args', operands', cur, dirQueue[i])
    BY <1>2, <2>2 DEF CurOrdered
  <2>3. QED
    BY <2>1, <2>2 DEF CurOrdered, BlocksKept
<1>4. QueueOrdered'
  <2>1. ASSUME NEW j \in DirBlocks, NEW i \in 1..Len(dirQueue)
        PROVE  Sib(Known', args', operands', stdout'[j], dirQueue[i])
    BY <1>1, <1>2 DEF QueueOrdered
  <2>2. ASSUME NEW i \in 1..Len(dirQueue), NEW j \in 1..Len(dirQueue), i < j
        PROVE  Sib(Known', args', operands', dirQueue[j], dirQueue[i])
    BY <1>2, <2>2 DEF QueueOrdered
  <2>3. QED
    BY <2>1, <2>2 DEF QueueOrdered, BlocksKept
<1>5. QED
  BY <1>3, <1>4

LEMMA PopOrdered ==
  ASSUME TInv, TreeIds, TreeEffect, args' = args, operands' = operands,
         BlocksKept, PopDir, QueueOrdered
  PROVE  CurOrdered' /\ QueueOrdered'
<1> DEFINE q == dirQueue
           n == Len(q)
<1>1. /\ q # << >> /\ cur = NoDir /\ cur' = Last(q) /\ dirQueue' = Front(q)
      /\ q \in Seq(DirEntry)
  BY CurIsDir DEF PopDir, TInv, TypeOK
<1>2. /\ n \in Nat /\ n \in 1..n /\ cur' = q[n] /\ Len(dirQueue') = n - 1
      /\ \A i \in 1..(n - 1) : dirQueue'[i] = q[i] /\ i \in 1..n /\ i < n
  <2>1. n \in Nat \ {0} /\ Last(q) = q[n] /\ Len(Front(q)) = n - 1
        /\ \A i \in 1..(n - 1) : Front(q)[i] = q[i]
    BY <1>1, FrontFacts
  <2>2. n \in 1..n /\ \A i \in 1..(n - 1) : i \in 1..n /\ i < n
    BY <2>1
  <2>3. QED
    BY <1>1, <2>1, <2>2
<1> HIDE DEF n
<1>3. \A j \in DirBlocks : stdout'[j] = stdout[j]
  BY DEF BlocksKept
<1>4. ASSUME NEW x, NEW y, Sib(Known, args, operands, x, y)
      PROVE  Sib(Known', args', operands', x, y)
  BY <1>1, <1>4, SibNext
<1>5. /\ \A j \in DirBlocks, i \in 1..n :
           Sib(Known', args', operands', stdout'[j], q[i])
      /\ \A i, j \in 1..n : i < j => Sib(Known', args', operands', q[j], q[i])
  BY <1>3, <1>4 DEF QueueOrdered, n
<1>6. CurOrdered'
  BY <1>2, <1>5 DEF CurOrdered, BlocksKept
<1>7. QueueOrdered'
  <2>1. ASSUME NEW j \in DirBlocks, NEW i \in 1..(n - 1)
        PROVE  Sib(Known', args', operands', stdout'[j], dirQueue'[i])
    BY <1>2, <1>5
  <2>2. ASSUME NEW i \in 1..(n - 1), NEW j \in 1..(n - 1), i < j
        PROVE  Sib(Known', args', operands', dirQueue'[j], dirQueue'[i])
    BY <1>2, <1>5, <2>2
  <2>3. QED
    BY <1>2, <2>1, <2>2 DEF QueueOrdered, BlocksKept
<1>8. QED
  BY <1>6, <1>7

(* A subdirectory that is pushed precedes those found after it.            *)
LEMMA ChildOrdered ==
  ASSUME TInv, TreeIds, TreeEffect, Children, args' = args, operands' = operands,
         BlocksKept, QueueChild, CurOrdered, QueueOrdered
  PROVE  CurOrdered' /\ QueueOrdered'
<1> DEFINE q == dirQueue
           n == Len(q)
           d == [id |-> nextId, path |-> entries[index].path,
                 operand |-> FALSE, from |-> cur.id]
<1>1. /\ pc = "queue" /\ cur \in DirEntry /\ cur # NoDir
      /\ cur' = cur /\ entries' = entries
      /\ index \in 1..Len(entries) /\ index \in Nat
  BY CurIsDir, NoDirAssumption
     DEF QueueChild, loading, TInv, TypeOK, IndexOK
<1>2. q \in Seq(DirEntry) /\ n \in Nat /\ nextId \in Nat /\ entries \in Seq(NameEntry)
  BY DEF TInv, TypeOK
<1>3. entries[index] \in NameEntry
  BY <1>1, <1>2, ElementOfSeq
<1>4. d \in DirEntry /\ d.from = cur.id /\ ~d.operand /\ d.path = entries[index].path
  BY <1>1, <1>2, <1>3 DEF DirEntry, NameEntry
<1>5. dirQueue' = Append(q, d)
  BY DEF QueueChild, PushedDir
<1> HIDE DEF d, n
<1>6. /\ Len(dirQueue') = n + 1 /\ dirQueue'[n + 1] = d
      /\ \A i \in 1..n : dirQueue'[i] = q[i]
      /\ 1..(n + 1) = (1..n) \cup {n + 1}
  <2>1. 1..(n + 1) = (1..n) \cup {n + 1}
    BY <1>2
  <2>2. QED
    BY <1>2, <1>4, <1>5, <2>1, AppendFacts DEF n
<1>7. \A j \in DirBlocks : stdout'[j] = stdout[j] /\ stdout[j].from # d.from
  BY <1>1, <1>4, Elsewhere DEF BlocksKept
<1>8. ASSUME NEW x, NEW y, Sib(Known, args, operands, x, y)
      PROVE  Sib(Known', args', operands', x, y)
  BY <1>1, <1>8, SibNext
<1>9. \A x : x.from # d.from => Sib(Known', args', operands', x, d)
  BY DEF Sib
<1>10. ASSUME NEW i \in 1..n
       PROVE  Sib(Known', args', operands', d, q[i])
  <2>1. SUFFICES ASSUME q[i].from = cur.id
                 PROVE  Sib(Known, args, operands, d, q[i])
    BY <1>4, <1>8 DEF Sib
  <2>2. PICK m \in 0..n : \E at \in [1..(n - m) -> Subs] :
          OnTop(q, m, at, cur, entries, Subs)
    BY <1>1 DEF Children, HasOnTop, n
  <2>3. PICK at \in [1..(n - m) -> Subs] : OnTop(q, m, at, cur, entries, Subs)
    BY <2>2
  <2>4. /\ \A k \in 1..m : q[k].from # cur.id
        /\ \A k \in 1..(n - m) : q[m + k].path = entries[at[k]].path /\ at[k] \in Subs
    BY <2>3 DEF OnTop, n
  <2>5. PICK k \in 1..(n - m) : m + k = i
    <3>1. ~(i \in 1..m)
      BY <2>1, <2>4
    <3>2. i - m \in 1..(n - m) /\ m + (i - m) = i
      BY <1>2, <3>1
    <3>3. QED
      BY <3>2
  <2>6. q[i].path = entries[at[k]].path /\ at[k] \in 1..Len(entries)
        /\ index < at[k]
    <3>1. \A s \in Subs : s \in 1..Len(entries) /\ s > index
      BY <1>1 DEF Subs, SubsAbove, Floor
    <3>2. QED
      BY <1>1, <2>4, <2>5, <3>1
  <2>7. Before(Names, d.path, q[i].path)
    <3>1. Len(Names) = Len(entries) /\ \A s \in 1..Len(entries) : Names[s] = entries[s].path
      BY <1>2 DEF Names
    <3>2. QED
      BY <1>1, <1>4, <2>6, <3>1 DEF Before
  <2>8. <<cur.id, Names>> \in Known
    BY <1>1 DEF Known
  <2>9. QED
    BY <1>4, <2>7, <2>8 DEF Sib
<1>11. CurOrdered'
  <2>1. \A j \in DirBlocks : Sib(Known', args', operands', stdout'[j], cur)
    BY <1>1, <1>7, <1>8 DEF CurOrdered
  <2>2. \A i \in 1..n : Sib(Known', args', operands', cur, q[i])
    BY <1>1, <1>8 DEF CurOrdered, n
  <2>3. Sib(Known', args', operands', cur, d)
    BY <1>1, <1>4, <1>9, Elsewhere
  <2>4. QED
    BY <1>1, <1>6, <2>1, <2>2, <2>3 DEF CurOrdered, BlocksKept
<1>12. QueueOrdered'
  <2>1. \A j \in DirBlocks, i \in 1..n :
          Sib(Known', args', operands', stdout'[j], q[i])
    BY <1>7, <1>8 DEF QueueOrdered, n
  <2>2. \A j \in DirBlocks : Sib(Known', args', operands', stdout'[j], d)
    BY <1>7, <1>9
  <2>3. \A i, j \in 1..n : i < j => Sib(Known', args', operands', q[j], q[i])
    BY <1>8 DEF QueueOrdered, n
  <2>4. \A j \in DirBlocks, i \in 1..(n + 1) :
          Sib(Known', args', operands', stdout'[j], dirQueue'[i])
    BY <1>6, <2>1, <2>2
  <2>5. ASSUME NEW i \in 1..(n + 1), NEW j \in 1..(n + 1), i < j
        PROVE  Sib(Known', args', operands', dirQueue'[j], dirQueue'[i])
    <3>1. i \in 1..n
      BY <1>2, <2>5
    <3>2. CASE j = n + 1
      BY <1>6, <1>10, <3>1, <3>2
    <3>3. CASE j \in 1..n
      BY <1>6, <2>3, <2>5, <3>1, <3>3
    <3>4. QED
      BY <1>6, <3>2, <3>3
  <2>6. QED
    BY <1>6, <2>4, <2>5 DEF QueueOrdered, BlocksKept
<1>13. QED
  BY <1>11, <1>12

(* The directory that is printed follows every block it has to follow.     *)
LEMMA PrintOrdered ==
  ASSUME TInv, TreeIds, TreeEffect, args' = args, operands' = operands,
         PrintDir, BlocksOrdered, CurOrdered, QueueOrdered
  PROVE  BlocksOrdered' /\ CurOrdered' /\ QueueOrdered'
<1>1. /\ cur \in DirEntry /\ cur # NoDir /\ cur' = NoDir /\ dirQueue' = dirQueue
  BY CurIsDir, NoDirAssumption DEF PrintDir, FreeCur, queues
<1>2. PICK m \in Nat :
        /\ DirBlocks' = DirBlocks \cup {m}
        /\ stdout'[m] = Block(cur, entries, Header)
        /\ \A k \in DirBlocks : k \in Nat /\ k < m /\ stdout'[k] = stdout[k]
  BY DEF TreeEffect, BlockAdded
<1> DEFINE b == Block(cur, entries, Header)
<1>3. b.from = cur.from /\ b.path = cur.path /\ b.operand = cur.operand
  BY DEF Block
<1> HIDE DEF b
<1>4. ASSUME NEW x, NEW y, Sib(Known, args, operands, x, y)
      PROVE  Sib(Known', args', operands', x, y)
  BY <1>4, SibNext
<1>5. \A j \in DirBlocks : Sib(Known', args', operands', stdout[j], b)
  <2>1. ASSUME NEW j \in DirBlocks
        PROVE  Sib(Known', args', operands', stdout[j], cur)
    BY <1>1, <1>4 DEF CurOrdered
  <2>2. QED
    BY <1>3, <2>1 DEF Sib, InOrder
<1>6. \A i \in 1..Len(dirQueue) : Sib(Known', args', operands', b, dirQueue[i])
  <2>1. ASSUME NEW i \in 1..Len(dirQueue)
        PROVE  Sib(Known', args', operands', cur, dirQueue[i])
    BY <1>1, <1>4 DEF CurOrdered
  <2>2. QED
    BY <1>3, <2>1 DEF Sib, InOrder
<1>7. BlocksOrdered'
  <2>1. SUFFICES ASSUME NEW j \in DirBlocks \cup {m}, NEW k \in DirBlocks \cup {m},
                        j < k
                 PROVE  Sib(Known', args', operands', stdout'[j], stdout'[k])
    BY <1>2 DEF BlocksOrdered
  <2>2. j \in DirBlocks
    BY <1>2, <2>1
  <2>3. CASE k = m
    BY <1>2, <1>5, <2>2, <2>3 DEF b
  <2>4. CASE k \in DirBlocks
    <3>1. Sib(Known', args', operands', stdout[j], stdout[k])
      BY <1>4, <2>1, <2>2, <2>4 DEF BlocksOrdered
    <3>2. QED
      BY <1>2, <2>2, <2>4, <3>1
  <2>5. QED
    BY <2>3, <2>4
<1>8. QueueOrdered'
  <2>1. ASSUME NEW j \in DirBlocks \cup {m}, NEW i \in 1..Len(dirQueue)
        PROVE  Sib(Known', args', operands', stdout'[j], dirQueue[i])
    <3>1. CASE j = m
      BY <1>2, <1>6, <3>1 DEF b
    <3>2. CASE j \in DirBlocks
      <4>1. Sib(Known', args', operands', stdout[j], dirQueue[i])
        BY <1>4, <3>2 DEF QueueOrdered
      <4>2. QED
        BY <1>2, <3>2, <4>1
    <3>3. QED
      BY <3>1, <3>2
  <2>2. \A i, j \in 1..Len(dirQueue) :
          i < j => Sib(Known', args', operands', dirQueue[j], dirQueue[i])
    BY <1>4 DEF QueueOrdered
  <2>3. QED
    BY <1>1, <1>2, <2>1, <2>2 DEF QueueOrdered
<1>9. CurOrdered'
  BY <1>1 DEF CurOrdered
<1>10. QED
  BY <1>7, <1>8, <1>9

LEMMA DropOrdered ==
  ASSUME TInv, TreeIds, TreeEffect, args' = args, operands' = operands,
         BlocksKept, Drops, QueueOrdered
  PROVE  CurOrdered' /\ QueueOrdered'
<1>1. /\ pc \in {"open", "read"} /\ cur' = NoDir /\ dirQueue' = dirQueue
      /\ cur # NoDir
  BY CurIsDir, NoDirAssumption DEF Drops
<1>2. \A j \in DirBlocks : stdout'[j] = stdout[j]
  BY DEF BlocksKept
<1>3. ASSUME NEW x, NEW y, Sib(Known, args, operands, x, y), x.from # cur.id
      PROVE  Sib(Known', args', operands', x, y)
  BY <1>3, SibNext
<1>4. \A j \in DirBlocks, i \in 1..Len(dirQueue) :
        Sib(Known', args', operands', stdout'[j], dirQueue[i])
  BY <1>1, <1>2, <1>3, Elsewhere DEF QueueOrdered
<1>5. \A i, j \in 1..Len(dirQueue) :
        i < j => Sib(Known', args', operands', dirQueue[j], dirQueue[i])
  BY <1>1, <1>3, Elsewhere DEF QueueOrdered
<1>6. QED
  BY <1>1, <1>4, <1>5 DEF CurOrdered, QueueOrdered, BlocksKept
-----------------------------------------------------------------------------
(* The order of the operands.                                              *)

LEMMA EmptyBlocks ==
  ASSUME SepInv, pc \in Preparing
  PROVE  DirBlocks = {}
BY DEF SepInv, NothingYet, DirBlocks

(* A directory is appended to those given before it.                       *)
LEMMA GivenNext ==
  ASSUME TInv, GatheredOrdered, CollectDir
  PROVE  GatheredOrdered'
<1> DEFINE q == dirQueue
           n == Len(q)
           d == [id |-> nextId, path |-> Operand, operand |-> TRUE, from |-> 0]
<1>1. /\ pc = "collect" /\ pc' = "collect" /\ index' = index + 1
      /\ index \in Nat /\ index >= 1 /\ index <= Len(operands)
      /\ operands' = operands /\ operands \in Seq(Path)
      /\ q \in Seq(DirEntry) /\ nextId \in Nat
  BY DEF CollectDir, Collecting, NextOperand, given, TInv, TypeOK, IndexOK
<1>2. Operand = operands[index] /\ index \in 1..Len(operands)
  BY <1>1 DEF Operand
<1>3. Operand \in Path
  BY <1>1, <1>2, ElementOfSeq
<1>4. d \in DirEntry /\ d.path = Operand
  BY <1>1, <1>3 DEF DirEntry
<1>5. dirQueue' = Append(q, d)
  BY DEF CollectDir, AddDir
<1> HIDE DEF d
<1>6. /\ n \in Nat /\ Len(dirQueue') = n + 1 /\ dirQueue'[n + 1] = d
      /\ \A i \in 1..n : dirQueue'[i] = q[i]
  BY <1>1, <1>4, <1>5, AppendFacts
<1> HIDE DEF n
<1>7. \A i \in 1..(n + 1) : i \in 1..n \/ i = n + 1
  BY <1>6
<1>8. \A i \in 1..n : \E m \in 1..Len(operands) :
        m < index /\ operands[m] = q[i].path
  BY <1>1 DEF GatheredOrdered, n
<1>9. \A i \in 1..(n + 1) : \E m \in 1..Len(operands) :
        m < index' /\ operands[m] = dirQueue'[i].path
  <2>1. ASSUME NEW i \in 1..n
        PROVE  \E m \in 1..Len(operands) :
                 m < index' /\ operands[m] = dirQueue'[i].path
    <3>1. PICK m \in 1..Len(operands) : m < index /\ operands[m] = q[i].path
      BY <1>8
    <3>2. m < index'
      BY <1>1, <3>1
    <3>3. QED
      BY <1>6, <3>1, <3>2
  <2>2. index < index' /\ operands[index] = dirQueue'[n + 1].path
    BY <1>1, <1>2, <1>4, <1>6
  <2>3. QED
    BY <1>2, <1>7, <2>1, <2>2
<1>10. ASSUME NEW i \in 1..(n + 1), NEW j \in 1..(n + 1), i < j
       PROVE  Before(operands, dirQueue'[i].path, dirQueue'[j].path)
  <2>1. i \in 1..n
    BY <1>6, <1>10
  <2>2. CASE j \in 1..n
    <3>1. Before(operands, q[i].path, q[j].path)
      BY <1>1, <1>10, <2>1, <2>2 DEF GatheredOrdered, AsGiven, n
    <3>2. QED
      BY <1>6, <2>1, <2>2, <3>1
  <2>3. CASE j = n + 1
    <3>1. PICK m \in 1..Len(operands) : m < index /\ operands[m] = q[i].path
      BY <1>8, <2>1
    <3>2. dirQueue'[i].path = operands[m] /\ dirQueue'[j].path = operands[index]
      BY <1>2, <1>4, <1>6, <2>1, <2>3, <3>1
    <3>3. QED
      BY <1>2, <3>1, <3>2 DEF Before
  <2>4. QED
    BY <1>7, <2>2, <2>3
<1>11. QED
  BY <1>1, <1>6, <1>9, <1>10 DEF GatheredOrdered, AsGiven

(* The other operands leave the directories as they are.                   *)
LEMMA GivenKept ==
  ASSUME TInv, GatheredOrdered, pc \in {"start", "collect"}, pc' = "collect",
         operands' = operands, dirQueue' = dirQueue, index' \in {index, index + 1}
  PROVE  GatheredOrdered'
<1>1. index \in Nat /\ \A m \in Nat : m < index => m < index'
  BY DEF TInv, TypeOK
<1>2. \A i \in 1..Len(dirQueue) : \E m \in 1..Len(operands) :
        m < index' /\ operands[m] = dirQueue[i].path
  BY <1>1 DEF GatheredOrdered
<1>3. QED
  BY <1>2 DEF GatheredOrdered

LEMMA SortedByRank ==
  ASSUME NEW q \in Seq(DirEntry), NEW t \in Sorts(q, ~args.reverse),
         args \in Options
  PROVE  \A i, j \in 1..Len(t) : i < j => InOrder(t[j], t[i], args.reverse)
<1>1. Len(q) \in Nat
  OBVIOUS
<1>2. PICK p \in Bijection(1..Len(q), 1..Len(q)) :
             t = [i \in 1..Len(q) |-> q[p[i]]]
  BY DEF Sorts
<1>3. \A i, j \in 1..Len(q) : i < j => InOrder(t[i], t[j], ~args.reverse)
  BY DEF Sorts
<1>4. p \in [1..Len(q) -> 1..Len(q)] /\ \A i \in 1..Len(q) : q[i] \in DirEntry
  BY ElementOfSeq DEF Bijection, Injection
<1>5. \A i \in 1..Len(q) : t[i] \in DirEntry
  BY <1>2, <1>4
<1>6. Len(t) = Len(q)
  <2>1. t \in [1..Len(q) -> DirEntry]
    BY <1>2, <1>4
  <2>2. QED
    BY <1>1, <2>1, SeqDef, LenProperties
<1>7. args.reverse \in BOOLEAN
  BY DEF Options
<1>8. \A x, y \in DirEntry :
        InOrder(x, y, ~args.reverse) => InOrder(y, x, args.reverse)
  <2>1. \A x \in DirEntry : Rank[x.path] \in Nat
    BY TreeAssumption DEF DirEntry
  <2>2. QED
    BY <1>7, <2>1 DEF InOrder
<1>9. QED
  BY <1>3, <1>5, <1>6, <1>8

LEMMA GivenSorted ==
  ASSUME TInv, GatheredOrdered, CollectDone
  PROVE  GatheredOrdered'
<1>1. /\ pc = "collect" /\ pc' = "files" /\ args' = args /\ operands' = operands
      /\ dirQueue \in Seq(DirEntry) /\ args \in Options
      /\ dirQueue' \in Arranged(dirQueue, ~args.reverse)
  BY DEF CollectDone, given, QueueReverse, TInv, TypeOK
<1>2. CASE args.unsort
  BY <1>1, <1>2 DEF GatheredOrdered, Arranged
<1>3. CASE ~args.unsort
  <2>1. dirQueue' \in Sorts(dirQueue, ~args.reverse)
    BY <1>1, <1>3 DEF Arranged
  <2> DEFINE t == dirQueue'
  <2>2. t \in Sorts(dirQueue, ~args.reverse)
    BY <2>1
  <2> HIDE DEF t
  <2>3. \A i, j \in 1..Len(t) : i < j => InOrder(t[j], t[i], args.reverse)
    BY <1>1, <2>2, SortedByRank
  <2>4. QED
    BY <1>1, <1>3, <2>3 DEF GatheredOrdered, t
<1>4. QED
  BY <1>2, <1>3

(* The stack is filled so that its end is the first operand to be listed.  *)
LEMMA OperandsOrdered ==
  ASSUME TInv, TInv', SepInv, GatheredOrdered, BlocksKept, NoFiles \/ PrintFiles,
         pc' = "next"
  PROVE  CurOrdered' /\ QueueOrdered'
<1> DEFINE q == dirQueue
           n == Len(q)
           t == dirQueue'
<1>1. /\ pc = "files" /\ t = PopOrder(q) /\ args' = args /\ operands' = operands
      /\ cur' = cur /\ q \in Seq(DirEntry) /\ n \in Nat
  BY DEF NoFiles, PrintFiles, AfterFiles, given, loading, TInv, TypeOK
<1>2. cur' = NoDir /\ DirBlocks' = {}
  BY <1>1, CurIsDir, EmptyBlocks DEF BlocksKept, Preparing
<1>3. OperandsOnly(q)
  BY <1>1 DEF SepInv, NothingYet, Preparing
<1> HIDE DEF t
<1>4. Len(t) = n /\ OperandsOnly(t)
  <2>1. Rearranges(t, q)
    BY PopOrderRearranges DEF NoFiles, PrintFiles, t
  <2>2. Len(t) = n
    BY <1>1, <2>1, RearrangedFacts
  <2>3. OperandsOnly(t)
    BY <1>1, <1>3, <2>1, RearrangedOperands
  <2>4. QED
    BY <2>2, <2>3
<1>5. ASSUME NEW i \in 1..n, NEW j \in 1..n, i < j
      PROVE  Sib(Known', args, operands, t[j], t[i])
  <2>1. t[j].operand
    BY <1>4 DEF OperandsOnly
  <2>2. CASE args.unsort
    <3>1. t = Reverse(q)
      BY <1>1, <2>2 DEF PopOrder
    <3>2. t[j] = q[(n - j) + 1] /\ t[i] = q[(n - i) + 1]
      BY <3>1 DEF Reverse
    <3>3. /\ (n - j) + 1 \in 1..n /\ (n - i) + 1 \in 1..n
          /\ (n - j) + 1 < (n - i) + 1
      BY <1>1, <1>5
    <3>4. Before(operands, t[j].path, t[i].path)
      BY <1>1, <2>2, <3>2, <3>3 DEF GatheredOrdered, AsGiven
    <3>5. QED
      BY <2>1, <2>2, <3>4 DEF Sib
  <2>3. CASE ~args.unsort
    <3>1. t = q
      BY <1>1, <2>3 DEF PopOrder
    <3>2. InOrder(t[j], t[i], args.reverse)
      BY <1>1, <1>5, <2>3, <3>1 DEF GatheredOrdered
    <3>3. QED
      BY <2>1, <2>3, <3>2 DEF Sib
  <2>4. QED
    BY <2>2, <2>3
<1>6. QED
  BY <1>1, <1>2, <1>4, <1>5 DEF CurOrdered, QueueOrdered, t

(* Until the listing begins.                                               *)
LEMMA GathersOrdered ==
  ASSUME TInv, TInv', SepInv, TreeEffect, [Next]_vars, Gathers, BlocksKept,
         GatheredOrdered
  PROVE  GatheredOrdered' /\ (pc' \in Listing => CurOrdered' /\ QueueOrdered')
<1>1. pc' \in Preparing \cup {"next"} /\ pc \in Preparing
  BY DEF Gathers
<1>2. pc' = "next" => NoFiles \/ PrintFiles
  BY <1>1 DEF Preparing, Next, Start, StartFails, Collect, CollectMissing,
         CollectUnreadableLink, CollectDir, CollectFile,
         CollectUnreadableLinkFails, CollectFails, CollectDone, CollectSortFails,
         Collecting, NextOperand, Fatal, ListOperands, NoFiles, PrintFiles,
         PrintFilesFails, ListingFails, GiveUp, Load, OpenDir, OpenFails,
         SkipHidden, ReadEntry, ReadUnstatable, ReadFails, ReadEnd, SortFails,
         Reading, ListDirs, QueueEmpty, PopDir, GapFails, QueueSkip, QueueChild,
         QueueChildFails, QueueDone, PrintDir, PrintDirFails, LastFlush, Cleanup,
         vars
<1>3. CASE pc' = "next"
  BY <1>2, <1>3, OperandsOrdered DEF GatheredOrdered
<1>4. CASE pc' \in Preparing
  <2>1. pc' \notin Listing
    BY <1>4 DEF Preparing, Listing
  <2>2. CASE CollectDir \/ CollectDone
    BY <2>1, <2>2, GivenNext, GivenSorted
  <2>3. CASE Start \/ (Collect /\ ~CollectDir /\ ~CollectDone)
    <3>1. /\ pc \in {"start", "collect"} /\ pc' = "collect"
          /\ operands' = operands /\ dirQueue' = dirQueue
          /\ index' \in {index, index + 1}
      BY <1>4, <2>3 DEF Preparing, Start, Collect, CollectMissing,
         CollectUnreadableLink, CollectFile, CollectUnreadableLinkFails,
         CollectFails, CollectSortFails, Collecting, NextOperand, Fatal, AddFile,
         queues, given
    <3>2. QED
      BY <2>1, <3>1, GivenKept
  <2>4. CASE UNCHANGED vars
    BY <2>1, <2>4 DEF GatheredOrdered, vars, given, queues
  <2>5. ~ListOperands
    BY <1>4 DEF Preparing, ListOperands, NoFiles, PrintFiles, PrintFilesFails,
       ListingFails, AfterFiles, GiveUp
  <2>6. ~StartFails /\ ~Load /\ ~ListDirs /\ ~Cleanup
        /\ ~(\E flushed \in BOOLEAN : LastFlush(flushed))
    BY <1>1, <1>4 DEF Preparing, StartFails, Load, OpenDir, OpenFails, SkipHidden,
       ReadEntry, ReadUnstatable, ReadFails, ReadEnd, SortFails, Reading, ListDirs,
       QueueEmpty, PopDir, GapFails, QueueSkip, QueueChild, QueueChildFails,
       QueueDone, PrintDir, PrintDirFails, LastFlush, Cleanup
  <2>7. QED
    BY <2>2, <2>3, <2>4, <2>5, <2>6 DEF Next
<1>5. QED
  BY <1>1, <1>3, <1>4

LEMMA StepOrder ==
  ASSUME TravInv, TravInv', [Next]_vars, OrderInv
  PROVE  OrderInv'
<1>1. TInv /\ TInv' /\ SepInv /\ TreeIds /\ Children
  BY DEF TravInv
<1>2. TreeEffect
  BY <1>1, StepTree
<1>3. args' = args /\ operands' = operands
  BY ArgsKept
<1>4. BlocksOrdered /\ GatheredOrdered
      /\ (pc \in Listing => CurOrdered /\ QueueOrdered)
  BY DEF OrderInv
<1>5. Preparing \cap Listing = {} /\ Preparing \cap Over = {}
      /\ Listing \cap Over = {}
  BY DEF Preparing, Listing, Over
<1>6. CASE PrintDir
  <2>1. pc \in Listing /\ pc' = "next"
    BY <1>6 DEF PrintDir, Listing
  <2>2. BlocksOrdered' /\ CurOrdered' /\ QueueOrdered'
    BY <1>1, <1>2, <1>3, <1>4, <1>6, <2>1, PrintOrdered
  <2>3. QED
    BY <2>1, <2>2 DEF OrderInv, GatheredOrdered
<1>7. CASE ~PrintDir
  <2>1. BlocksKept /\ TreeCase
    BY <1>2, <1>7 DEF TreeEffect
  <2>2. BlocksOrdered'
    BY <1>1, <1>2, <1>3, <1>4, <2>1, BlocksStayOrdered
  <2>3. pc' \notin Preparing => GatheredOrdered'
    BY DEF GatheredOrdered, Preparing
  <2>4. CASE Gathers
    BY <1>1, <1>2, <1>4, <2>1, <2>2, <2>4, GathersOrdered DEF OrderInv
  <2>5. CASE PopDir
    <3>1. pc \in Listing /\ pc' \notin Preparing
      BY <2>5 DEF PopDir, Listing, Preparing
    <3>2. QED
      BY <1>1, <1>2, <1>3, <1>4, <2>1, <2>2, <2>3, <2>5, <3>1, PopOrdered
         DEF OrderInv
  <2>6. CASE Reads \/ ReadEnd \/ QueueSkip \/ QueueDone
    <3>1. /\ pc \in Listing /\ pc' \notin Preparing
          /\ UNCHANGED <<cur, dirQueue>>
          /\ entries' = entries \/ pc \in {"open", "read"}
      BY <2>6 DEF Reads, ReadEnd, QueueSkip, QueueDone, queues, loading, Listing,
         Preparing
    <3>2. QED
      BY <1>1, <1>2, <1>3, <1>4, <2>1, <2>2, <2>3, <3>1, ReadingOrdered
         DEF OrderInv
  <2>7. CASE QueueChild
    <3>1. pc \in Listing /\ pc' \notin Preparing
      BY <2>7 DEF QueueChild, Listing, Preparing
    <3>2. QED
      BY <1>1, <1>2, <1>3, <1>4, <2>1, <2>2, <2>3, <2>7, <3>1, ChildOrdered
         DEF OrderInv
  <2>8. CASE Drops
    <3>1. pc \in Listing /\ pc' \notin Preparing
      BY <2>8 DEF Drops, Listing, Preparing
    <3>2. QED
      BY <1>1, <1>2, <1>3, <1>4, <2>1, <2>2, <2>3, <2>8, <3>1, DropOrdered
         DEF OrderInv
  <2>9. CASE Stops
    BY <1>5, <2>2, <2>3, <2>9 DEF OrderInv, Stops
  <2>10. CASE UNCHANGED vars
    <3>1. UNCHANGED <<args, operands, pc, index, dirQueue, cur, entries>>
      BY <2>10 DEF vars, given, queues, loading
    <3>2. GatheredOrdered'
      BY <1>4, <3>1 DEF GatheredOrdered
    <3>3. pc \in Listing => CurOrdered' /\ QueueOrdered'
      BY <1>1, <1>2, <1>3, <1>4, <2>1, <3>1, ReadingOrdered
    <3>4. QED
      BY <2>2, <3>1, <3>2, <3>3 DEF OrderInv
  <2>11. QED
    BY <1>7, <2>1, <2>4, <2>5, <2>6, <2>7, <2>8, <2>9, <2>10
       DEF TreeCase, QueueStep
<1>8. QED
  BY <1>6, <1>7

LEMMA InitOrder == Init => OrderInv
<1> SUFFICES ASSUME Init PROVE OrderInv
  OBVIOUS
<1>1. DirBlocks = {} /\ Len(dirQueue) = 0 /\ pc = "start"
  BY DEF Init, DirBlocks
<1>2. pc \notin Listing
  BY <1>1 DEF Listing
<1>3. 1..Len(dirQueue) = {}
  BY <1>1
<1>4. QED
  BY <1>1, <1>2, <1>3 DEF OrderInv, BlocksOrdered, GatheredOrdered, AsGiven

(* A block was printed before those of its directory's subdirectories, so  *)
(* the listing that a block came from is the one its parent was printed    *)
(* with.                                                                   *)
LEMMA OrderedSiblings ==
  ASSUME TravInv, OrderInv
  PROVE  SiblingsInOrder
<1>1. SUFFICES ASSUME NEW j \in DirBlocks, NEW k \in DirBlocks, j < k,
                      stdout[j].from = stdout[k].from
      PROVE IF ~stdout[j].operand
      THEN \E p \in DirBlocks :
             IsParent(p, j)
               /\ Before(Listed(stdout[p]), stdout[j].path, stdout[k].path)
      ELSE IF args.unsort
      THEN Before(operands, stdout[j].path, stdout[k].path)
      ELSE InOrder(stdout[j], stdout[k], args.reverse)
  BY DEF SiblingsInOrder
<1>2. Sib(Known, args, operands, stdout[j], stdout[k])
  BY <1>1 DEF OrderInv, BlocksOrdered
<1>3. CASE stdout[j].operand
  BY <1>1, <1>2, <1>3 DEF Sib
<1>4. CASE ~stdout[j].operand
  <2>1. PICK l \in Known : l[1] = stdout[j].from
                           /\ Before(l[2], stdout[j].path, stdout[k].path)
    BY <1>1, <1>2, <1>4 DEF Sib
  <2>2. ~(cur # NoDir /\ l = <<cur.id, Names>>)
    BY <2>1, Elsewhere DEF TravInv
  <2>3. PICK p \in DirBlocks : l = <<stdout[p].id, Listed(stdout[p])>>
    BY <2>2 DEF Known
  <2>4. stdout[p].id = stdout[j].from
    BY <2>1, <2>3
  <2>5. Before(Listed(stdout[p]), stdout[j].path, stdout[k].path)
    BY <2>1, <2>3
  <2>6. j \in Nat /\ p \in Nat /\ p < j
    <3>1. j \in Nat /\ p \in Nat
      BY DEF DirBlocks
    <3>2. ~(j <= p)
      BY <2>4 DEF TravInv, TreeIds, Kin
    <3>3. QED
      BY <3>1, <3>2
  <2>7. QED
    BY <1>4, <2>4, <2>5, <2>6 DEF IsParent
<1>5. QED
  BY <1>3, <1>4

LEMMA OrderHolds == Spec => [](TravInv /\ OrderInv)
<1>1. TravInv /\ TravInv' /\ OrderInv /\ [Next]_vars => OrderInv'
  BY StepOrder
<1>2. QED
  BY <1>1, InitOrder, TravInvHolds, PTL DEF Spec

(* Siblings are listed in the order their parent lists them, operands in   *)
(* sorted order or as given with -f, although the stack is filled          *)
(* backwards, popped while it grows and shared by all levels of the tree   *)
(* (ft_walk.c:211, :313, :479).                                            *)
THEOREM SiblingsStayInOrder == Spec => []SiblingsInOrder
<1>1. TravInv /\ OrderInv => SiblingsInOrder
  BY OrderedSiblings
<1>2. QED
  BY <1>1, OrderHolds, PTL
-----------------------------------------------------------------------------
(* What exit code 0 promises: nothing that was found is lost.              *)

(* The directories that have been found: which listing they come from,     *)
(* whether they are operands, and their path.                              *)
Node(x) == <<x.from, x.operand, x.path>>
Nodes(q) == {Node(q[i]) : i \in 1..Len(q)}
BlockNodes == {Node(stdout[k]) : k \in DirBlocks}
CurNodes == IF cur = NoDir THEN {} ELSE {Node(cur)}
Tree == BlockNodes \cup Nodes(dirQueue) \cup CurNodes

LEMMA AppendNodes ==
  ASSUME NEW q \in Seq(DirEntry), NEW d \in DirEntry
  PROVE  Nodes(Append(q, d)) = Nodes(q) \cup {Node(d)}
<1> DEFINE a == Append(q, d)
           n == Len(q)
<1>1. /\ n \in Nat /\ Len(a) = n + 1
      /\ \A i \in 1..n : a[i] = q[i]
      /\ a[n + 1] = d
  BY AppendFacts
<1>2. Nodes(q) = {Node(q[i]) : i \in 1..n}
      /\ Nodes(a) = {Node(a[i]) : i \in 1..(n + 1)}
  BY <1>1 DEF Nodes
<1> HIDE DEF a, n
<1>3. 1..(n + 1) = (1..n) \cup {n + 1}
  BY <1>1
<1>4. Nodes(a) = Nodes(q) \cup {Node(d)}
  BY <1>1, <1>2, <1>3
<1>5. QED
  BY <1>4 DEF a

LEMMA FrontNodes ==
  ASSUME NEW q \in Seq(DirEntry), q # << >>
  PROVE  Nodes(q) = Nodes(Front(q)) \cup {Node(Last(q))}
<1> DEFINE f == Front(q)
           n == Len(q)
<1>1. /\ n \in Nat \ {0} /\ Len(f) = n - 1
      /\ \A i \in 1..(n - 1) : f[i] = q[i]
      /\ Last(q) = q[n]
  BY FrontFacts
<1>2. Nodes(q) = {Node(q[i]) : i \in 1..n}
      /\ Nodes(f) = {Node(f[i]) : i \in 1..(n - 1)}
  BY <1>1 DEF Nodes
<1> HIDE DEF f, n
<1>3. 1..n = (1..(n - 1)) \cup {n}
  BY <1>1
<1>4. Nodes(q) = Nodes(f) \cup {Node(Last(q))}
  BY <1>1, <1>2, <1>3
<1>5. QED
  BY <1>4 DEF f

LEMMA RearrangedNodes ==
  ASSUME NEW q \in Seq(DirEntry), NEW t, Rearranges(t, q)
  PROVE  Nodes(t) = Nodes(q)
<1> DEFINE n == Len(q)
<1>1. n \in Nat /\ Len(t) = n
  BY RearrangedFacts
<1>2. PICK p \in [1..n -> 1..n] :
        /\ \A k \in 1..n : \E i \in 1..n : p[i] = k
        /\ t = [i \in 1..n |-> q[p[i]]]
  BY DEF Rearranges
<1> HIDE DEF n
<1>3. \A i \in 1..n : t[i] = q[p[i]] /\ p[i] \in 1..n
  BY <1>2
<1>4. Nodes(t) = {Node(t[i]) : i \in 1..n} /\ Nodes(q) = {Node(q[i]) : i \in 1..n}
  BY <1>1 DEF Nodes, n
<1>5. Nodes(t) \subseteq Nodes(q)
  BY <1>3, <1>4
<1>6. ASSUME NEW k \in 1..n PROVE Node(q[k]) \in Nodes(t)
  <2>1. PICK i \in 1..n : p[i] = k
    BY <1>2
  <2>2. Node(q[k]) = Node(t[i])
    BY <1>3, <2>1
  <2>3. QED
    BY <1>4, <2>2
<1>7. QED
  BY <1>4, <1>5, <1>6

LEMMA BlockNodesKept ==
  ASSUME BlocksKept
  PROVE  BlockNodes' = BlockNodes
<1>1. DirBlocks' = DirBlocks /\ \A k \in DirBlocks : Node(stdout'[k]) = Node(stdout[k])
  BY DEF BlocksKept
<1>2. QED
  BY <1>1 DEF BlockNodes

(* The run has not failed so far.                                          *)
Clean == exitCode = 0 /\ (pc \in Over => ok)

LEMMA StepClean ==
  ASSUME [Next]_vars, Clean'
  PROVE  Clean
<1>1. exitCode = 0
  BY CodeStep DEF Clean
<1>2. CASE pc \in Over
  <2>1. ASSUME NEW flushed \in BOOLEAN, LastFlush(flushed) PROVE ok
    BY <2>1 DEF LastFlush, FinalCode, Clean
  <2>2. CASE Cleanup \/ UNCHANGED vars
    <3>1. pc' \in Over /\ ok' = ok
      BY <1>2, <2>2 DEF Cleanup, Over, vars
    <3>2. QED
      BY <1>1, <3>1 DEF Clean
  <2>3. QED
    BY <1>1, <1>2, <2>1, <2>2, StepOver DEF Clean
<1>3. QED
  BY <1>1, <1>2 DEF Clean

(* A step into the end without a failure, or one after it.                 *)
LEMMA CleanStop ==
  ASSUME TInv, [Next]_vars, pc' \in Over, Clean'
  PROVE  /\ cur = NoDir
         /\ \/ dirQueue' = dirQueue
            \/ pc \in Over /\ dirQueue' = << >>
<1>1. CASE pc \notin Over
  <2>1. ~EndsBadly
    BY DEF EndsBadly, Clean
  <2>2. EndsWell
    BY <1>1, <2>1, StepEnds
  <2>3. QED
    BY <2>2, CurIsDir DEF EndsWell
<1>2. CASE pc \in Over
  <2>1. cur = NoDir
    BY <1>2, CurIsDir DEF Over
  <2>2. ASSUME NEW flushed \in BOOLEAN, LastFlush(flushed)
        PROVE  dirQueue' = dirQueue
    BY <2>2 DEF LastFlush, queues
  <2>3. CASE Cleanup \/ UNCHANGED vars
    BY <1>2, <2>1, <2>3 DEF Cleanup, vars, queues
  <2>4. QED
    BY <1>2, <2>1, <2>2, <2>3, StepOver
<1>3. QED
  BY <1>1, <1>2

(* When the run has ended well the queue has been emptied.                 *)
Emptied ==
  /\ args.directory /\ pc \in Preparing => dirQueue = << >>
  /\ Clean /\ pc \in Over => dirQueue = << >>

LEMMA StepEmptied ==
  ASSUME TInv, Emptied, [Next]_vars
  PROVE  Emptied'
<1>1. CASE pc' \in Over
  <2>1. pc' \notin Preparing
    BY <1>1 DEF Over, Preparing
  <2>2. ASSUME Clean' PROVE dirQueue' = << >>
    <3>1. CASE pc \notin Over
      <4>1. EndsWell
        BY <1>1, <2>2, <3>1, StepEnds DEF EndsBadly, Clean
      <4>2. QED
        BY <4>1 DEF EndsWell, Emptied, Preparing
    <3>2. CASE pc \in Over
      BY <1>1, <2>2, <3>2, CleanStop, StepClean DEF Emptied
    <3>3. QED
      BY <3>1, <3>2
  <2>3. QED
    BY <2>1, <2>2 DEF Emptied
<1>2. CASE pc' \in Preparing /\ args.directory
  <2>1. pc' \notin Over
    BY <1>2 DEF Over, Preparing
  <2>2. args' = args
    BY ArgsKept
  <2>3. pc \in Preparing /\ ~CollectDir /\ ~NoFiles /\ ~PrintFiles
    BY <1>2 DEF Preparing, Next, Start, StartFails, Collect, CollectMissing,
       CollectUnreadableLink, CollectDir, CollectFile,
       CollectUnreadableLinkFails, CollectFails, CollectDone, CollectSortFails,
       Collecting, NextOperand, Fatal, ListOperands, NoFiles, PrintFiles,
       PrintFilesFails, ListingFails, AfterFiles, GiveUp, Load, OpenDir,
       OpenFails, SkipHidden, ReadEntry, ReadUnstatable, ReadFails, ReadEnd,
       SortFails, Reading, DropDir, ListDirs, QueueEmpty, PopDir, GapFails,
       QueueSkip, QueueChild, QueueChildFails, QueueDone, PrintDir,
       PrintDirFails, LastFlush, Cleanup, vars
  <2>4. dirQueue = << >>
    BY <1>2, <2>3 DEF Emptied
  <2>5. CASE CollectDone
    <3>1. Rearranges(dirQueue', dirQueue)
      BY <2>5, ArrangedRearranges DEF CollectDone, TInv, TypeOK
    <3>2. dirQueue' \in Seq(DirEntry) /\ Len(dirQueue') = Len(dirQueue)
      BY <3>1, RearrangedFacts DEF TInv, TypeOK
    <3>3. Len(dirQueue') = 0
      BY <2>4, <3>2
    <3>4. QED
      BY <2>1, <2>2, <3>2, <3>3, EmptySeq DEF Emptied
  <2>6. CASE ~CollectDone
    <3>1. dirQueue' = dirQueue
      BY <1>2, <2>3, <2>6 DEF Preparing, Next, Start, StartFails, Collect,
         CollectMissing, CollectUnreadableLink, CollectFile,
         CollectUnreadableLinkFails, CollectFails, CollectSortFails, Collecting,
         AddFile, ListOperands, PrintFilesFails, ListingFails, Load,
         OpenDir, OpenFails, SkipHidden, ReadEntry, ReadUnstatable, ReadFails,
         ReadEnd, SortFails, Reading, ListDirs, QueueEmpty, PopDir, GapFails,
         QueueSkip, QueueChild, QueueChildFails, QueueDone, PrintDir,
         PrintDirFails, LastFlush, Cleanup, queues, vars
    <3>2. QED
      BY <2>1, <2>4, <3>1 DEF Emptied
  <2>7. QED
    BY <2>5, <2>6
<1>3. CASE pc' \notin Over /\ ~(pc' \in Preparing /\ args.directory)
  BY <1>3, ArgsKept DEF Emptied
<1>4. QED
  BY <1>1, <1>2, <1>3

(* In a run that does not fail what has been found stays found; what a     *)
(* step finds besides is no operand unless it comes from no listing.       *)
TreeGrows == Clean' => Tree \subseteq Tree'
NewNodesOK == \A t \in Tree' : t \in Tree \/ (t[2] => t[1] = 0)

LEMMA GathersTree ==
  ASSUME TInv, Gathers, BlocksKept
  PROVE  Tree \subseteq Tree' /\ NewNodesOK
<1>1. cur' = cur /\ CurNodes' = CurNodes /\ BlockNodes' = BlockNodes
      /\ dirQueue \in Seq(DirEntry)
  BY BlockNodesKept DEF Gathers, CurNodes, TInv, TypeOK
<1>2. CASE QueuesOperand
  <2>1. PICK d \in DirEntry : d.from = 0 /\ dirQueue' = Append(dirQueue, d)
    BY <1>2 DEF QueuesOperand
  <2>2. Nodes(dirQueue') = Nodes(dirQueue) \cup {Node(d)}
    BY <1>1, <2>1, AppendNodes
  <2>3. Node(d)[1] = 0
    BY <2>1 DEF Node
  <2>4. QED
    BY <1>1, <2>2, <2>3 DEF Tree, NewNodesOK
<1>3. CASE Rearranges(dirQueue', dirQueue)
  BY <1>1, <1>3, RearrangedNodes DEF Tree, NewNodesOK
<1>4. QED
  BY <1>2, <1>3 DEF Gathers

LEMMA PopTree ==
  ASSUME TInv, PopDir, BlocksKept
  PROVE  Tree' = Tree
<1>1. /\ dirQueue \in Seq(DirEntry) /\ dirQueue # << >> /\ cur = NoDir
      /\ cur' = Last(dirQueue) /\ dirQueue' = Front(dirQueue)
  BY CurIsDir DEF PopDir, TInv, TypeOK
<1>2. cur' \in DirEntry /\ cur' # NoDir
  BY <1>1, FrontFacts, NoDirAssumption
<1>3. CurNodes = {} /\ CurNodes' = {Node(cur')}
  BY <1>1, <1>2 DEF CurNodes
<1>4. Nodes(dirQueue) = Nodes(dirQueue') \cup {Node(cur')}
  BY <1>1, FrontNodes
<1>5. QED
  BY <1>3, <1>4, BlockNodesKept DEF Tree

LEMMA ChildTree ==
  ASSUME TInv, QueueChild, BlocksKept
  PROVE  Tree \subseteq Tree' /\ NewNodesOK
<1> DEFINE d == [id |-> nextId, path |-> entries[index].path,
                 operand |-> FALSE, from |-> cur.id]
<1>1. /\ dirQueue \in Seq(DirEntry) /\ dirQueue' = Append(dirQueue, d)
      /\ cur' = cur
  BY DEF QueueChild, PushedDir, loading, TInv, TypeOK
<1>2. cur \in DirEntry /\ nextId \in Nat /\ index \in 1..Len(entries)
      /\ entries \in Seq(NameEntry)
  BY CurIsDir DEF QueueChild, TInv, TypeOK, IndexOK
<1>3. entries[index] \in NameEntry
  BY <1>2, ElementOfSeq
<1>4. d \in DirEntry /\ ~d.operand
  BY <1>2, <1>3 DEF DirEntry, NameEntry
<1> HIDE DEF d
<1>5. Nodes(dirQueue') = Nodes(dirQueue) \cup {Node(d)} /\ ~Node(d)[2]
  BY <1>1, <1>4, AppendNodes DEF Node
<1>6. CurNodes' = CurNodes /\ BlockNodes' = BlockNodes
  BY <1>1, BlockNodesKept DEF CurNodes
<1>7. QED
  BY <1>5, <1>6 DEF Tree, NewNodesOK

LEMMA PrintTree ==
  ASSUME TInv, PrintDir, BlockAdded
  PROVE  Tree' = Tree
<1>1. cur # NoDir /\ cur' = NoDir /\ dirQueue' = dirQueue
  BY CurIsDir, NoDirAssumption DEF PrintDir, FreeCur, queues
<1>2. PICK m \in Nat : /\ DirBlocks' = DirBlocks \cup {m}
                       /\ stdout'[m] = Block(cur, entries, Header)
                       /\ \A k \in DirBlocks : stdout'[k] = stdout[k]
  BY DEF BlockAdded
<1>3. Node(stdout'[m]) = Node(cur)
  BY <1>2 DEF Block, Node
<1>4. BlockNodes' = BlockNodes \cup {Node(cur)}
  BY <1>2, <1>3 DEF BlockNodes
<1>5. CurNodes = {Node(cur)} /\ CurNodes' = {}
  BY <1>1 DEF CurNodes
<1>6. QED
  BY <1>1, <1>4, <1>5 DEF Tree

LEMMA StepTreeGrows ==
  ASSUME TInv, TreeEffect, Emptied, [Next]_vars
  PROVE  TreeGrows /\ (pc' \notin Over => NewNodesOK)
<1>1. CASE PrintDir
  BY <1>1, PrintTree DEF TreeEffect, TreeGrows, NewNodesOK
<1>2. CASE ~PrintDir
  <2>1. BlocksKept /\ TreeCase
    BY <1>2 DEF TreeEffect
  <2>2. CASE Gathers
    BY <2>1, <2>2, GathersTree DEF TreeGrows
  <2>3. CASE PopDir
    BY <2>1, <2>3, PopTree DEF TreeGrows, NewNodesOK
  <2>4. CASE QueueChild
    BY <2>1, <2>4, ChildTree DEF TreeGrows
  <2>5. CASE Reads \/ ReadEnd \/ QueueSkip \/ QueueDone \/ UNCHANGED vars
    <3>1. cur' = cur /\ dirQueue' = dirQueue
      BY <2>5 DEF Reads, ReadEnd, QueueSkip, QueueDone, vars, queues, loading
    <3>2. Tree' = Tree
      BY <2>1, <3>1, BlockNodesKept DEF Tree, CurNodes
    <3>3. QED
      BY <3>2 DEF TreeGrows, NewNodesOK
  <2>6. CASE Drops
    <3>1. ~Clean' /\ cur' = NoDir /\ dirQueue' = dirQueue
      BY <2>6 DEF Drops, Clean
    <3>2. Tree' \subseteq Tree
      BY <2>1, <3>1, BlockNodesKept DEF Tree, CurNodes
    <3>3. QED
      BY <3>1, <3>2 DEF TreeGrows, NewNodesOK
  <2>7. CASE Stops
    <3>1. ASSUME Clean' PROVE Tree \subseteq Tree'
      <4>1. cur = NoDir /\ dirQueue' = dirQueue
        BY <2>7, <3>1, CleanStop, StepClean DEF Stops, Emptied
      <4>2. QED
        BY <2>1, <2>7, <4>1, BlockNodesKept DEF Tree, CurNodes, Stops
    <3>2. QED
      BY <2>7, <3>1 DEF TreeGrows, Stops
  <2>8. QED
    BY <1>2, <2>1, <2>2, <2>3, <2>4, <2>5, <2>6, <2>7 DEF TreeCase, QueueStep
<1>3. QED
  BY <1>1, <1>2

(* An operand comes from no listing.                                       *)
Roots ==
  /\ \A k \in DirBlocks :
       stdout[k].id # 0 /\ (stdout[k].operand => stdout[k].from = 0)
  /\ pc \notin Over => \A t \in Tree : t[2] => t[1] = 0

LEMMA StepRoots ==
  ASSUME TInv, TreeIds, TreeEffect, Emptied, Roots, [Next]_vars
  PROVE  Roots'
<1>1. pc \in Over => pc' \in Over
  BY StepOver DEF LastFlush, Cleanup, Over, vars
<1>2. ASSUME pc' \notin Over, NEW t \in Tree', t[2] PROVE t[1] = 0
  BY <1>1, <1>2, StepTreeGrows DEF NewNodesOK, Roots
<1>3. CASE PrintDir
  <2>1. cur # NoDir /\ pc = "print" /\ pc \notin Over
    BY <1>3, CurIsDir, NoDirAssumption DEF PrintDir, Over
  <2>2. PICK m \in Nat : /\ DirBlocks' = DirBlocks \cup {m}
                         /\ stdout'[m] = Block(cur, entries, Header)
                         /\ \A k \in DirBlocks : stdout'[k] = stdout[k]
    BY <1>3 DEF TreeEffect, BlockAdded
  <2>3. cur.id # 0
    BY <2>1 DEF TreeIds, Descent, Ahead, CurIds
  <2>4. cur.operand => cur.from = 0
    <3>1. Node(cur) \in Tree
      BY <2>1 DEF Tree, CurNodes
    <3>2. QED
      BY <2>1, <3>1 DEF Roots, Node
  <2>5. stdout'[m].id # 0 /\ (stdout'[m].operand => stdout'[m].from = 0)
    BY <2>2, <2>3, <2>4 DEF Block
  <2>6. QED
    BY <1>2, <2>2, <2>5 DEF Roots
<1>4. CASE ~PrintDir
  BY <1>2, <1>4 DEF TreeEffect, BlocksKept, Roots
<1>5. QED
  BY <1>3, <1>4

(* A message is followed by an exit code other than 0.                     *)
ErrorFree == exitCode = 0 => errs = << >>

LEMMA StepErrorFree ==
  ASSUME ErrorFree, [Next]_vars
  PROVE  ErrorFree'
<1> SUFFICES ASSUME exitCode' = 0 PROVE errs' = errs
  BY CodeStep DEF ErrorFree
<1>1. CASE Start \/ StartFails \/ Cleanup \/ UNCHANGED vars
  BY <1>1 DEF Start, StartFails, Cleanup, vars, output
<1>2. CASE Collect
  BY <1>2
     DEF Collect, CollectMissing, CollectUnreadableLink, CollectDir, CollectFile,
         CollectUnreadableLinkFails, CollectFails, CollectDone, CollectSortFails,
         Fatal, PrintError, output
<1>3. CASE ListOperands
  BY <1>3 DEF ListOperands, NoFiles, PrintFiles, PrintFilesFails, ListingFails,
              HandOver, output
<1>4. CASE Load
  <2>1. CASE OpenDir \/ ReadEnd \/ SortFails
    BY <2>1 DEF OpenDir, ReadEnd, SortFails, output
  <2>2. ASSUME NEW r \in Outcomes, OpenFails(r) PROVE FALSE
    BY <2>2 DEF OpenFails
  <2>3. ASSUME NEW p \in Path, SkipHidden(p) \/ ReadFails(p) PROVE errs' = errs
    BY <2>3 DEF SkipHidden, ReadFails, output
  <2>4. ASSUME NEW p \in Path, NEW a \in Answers, ReadEntry(p, a)
        PROVE  errs' = errs
    BY <2>4 DEF ReadEntry, output
  <2>5. ASSUME NEW p \in Path, NEW r \in Outcomes, NEW d \in BOOLEAN,
               ReadUnstatable(p, r, d)
        PROVE  FALSE
    BY <2>5 DEF ReadUnstatable, AfterBadEntry
  <2>6. QED
    BY <1>4, <2>1, <2>2, <2>3, <2>4, <2>5 DEF Load
<1>5. CASE ListDirs
  BY <1>5
     DEF ListDirs, QueueEmpty, PopDir, GapFails, QueueSkip, QueueChild,
         QueueChildFails, QueueDone, PrintDir, PrintDirFails, HandOver, output
<1>6. ASSUME NEW flushed \in BOOLEAN, LastFlush(flushed) PROVE errs' = errs
  BY <1>6 DEF LastFlush
<1>7. QED
  BY <1>1, <1>2, <1>3, <1>4, <1>5, <1>6 DEF Next

(* readdir names an entry once, so a listing has each name once.           *)
Loaded == {"read", "queue", "print"}
Once(es) == \A i, j \in 1..Len(es) : es[i].path = es[j].path => i = j
Taken(es, names) == \A i \in 1..Len(es) : es[i].path \notin names
NamesOnce ==
  /\ pc \in Loaded => Once(entries)
  /\ pc = "read" => Taken(entries, unread)
  /\ \A k \in DirBlocks : Once(stdout[k].entries)

(* What a step does to the names of the directory that is being read.      *)
ReadsName ==
  /\ pc = "read" /\ pc' = "read"
  /\ \E e \in NameEntry :
       /\ e.path \in unread /\ unread' = unread \ {e.path}
       /\ entries' = Append(entries, e)
NamesEffect ==
  \/ pc' \notin Loaded
  \/ pc' = "read" /\ entries' = << >>
  \/ pc = "read" /\ pc' = "read" /\ entries' = entries /\ unread' \subseteq unread
  \/ ReadsName
  \/ pc = "read" /\ pc' = "queue" /\ Rearranges(entries', entries)
  \/ pc \in {"queue", "print"} /\ pc' # "read" /\ entries' = entries

LEMMA LoadNames ==
  ASSUME TInv, Load
  PROVE  NamesEffect
<1>1. entries \in Seq(NameEntry) /\ unread \subseteq Path
  BY DEF TInv, TypeOK
<1>2. CASE OpenDir
  BY <1>2 DEF OpenDir, NamesEffect
<1>3. CASE ReadEnd
  <2>1. Rearranges(entries', entries)
    BY <1>1, <1>3, ArrangedRearranges DEF ReadEnd
  <2>2. QED
    BY <1>3, <2>1 DEF ReadEnd, NamesEffect
<1>4. CASE SortFails
  BY <1>4 DEF SortFails, GiveUp, NamesEffect, Loaded
<1>5. ASSUME DropDir PROVE NamesEffect
  BY <1>5 DEF DropDir, GiveUp, NamesEffect, Loaded
<1>6. ASSUME NEW r \in Outcomes, OpenFails(r) PROVE NamesEffect
  BY <1>5, <1>6 DEF OpenFails
<1>7. ASSUME NEW p \in Path, SkipHidden(p) PROVE NamesEffect
  <2>1. pc = "read" /\ pc' = "read" /\ entries' = entries /\ unread' \subseteq unread
    BY <1>7 DEF SkipHidden, Reading
  <2>2. QED
    BY <2>1 DEF NamesEffect
<1>8. ASSUME NEW p \in Path, NEW a \in Answers, ReadEntry(p, a)
      PROVE  NamesEffect
  <2> DEFINE e == [path |-> p, dir |-> a = "dir", bad |-> FALSE]
  <2>1. e \in NameEntry /\ e.path = p
    BY DEF NameEntry
  <2>2. /\ pc = "read" /\ pc' = "read" /\ p \in unread
        /\ unread' = unread \ {p} /\ entries' = Append(entries, e)
    BY <1>8 DEF ReadEntry, Reading
  <2> HIDE DEF e
  <2>3. QED
    BY <2>1, <2>2 DEF ReadsName, NamesEffect
<1>9. ASSUME NEW p \in Path, NEW r \in Outcomes, NEW d \in BOOLEAN,
             ReadUnstatable(p, r, d)
      PROVE  NamesEffect
  <2> DEFINE e == [path |-> p, dir |-> d, bad |-> TRUE]
  <2>1. e \in NameEntry /\ e.path = p
    BY DEF NameEntry
  <2>2. CASE r = "sent"
    <3>1. /\ pc = "read" /\ pc' = "read" /\ p \in unread
          /\ unread' = unread \ {p} /\ entries' = Append(entries, e)
      BY <1>9, <2>2 DEF ReadUnstatable, Reading
    <3> HIDE DEF e
    <3>2. QED
      BY <2>1, <3>1 DEF ReadsName, NamesEffect
  <2>3. CASE r # "sent"
    BY <1>5, <1>9, <2>3 DEF ReadUnstatable
  <2>4. QED
    BY <2>2, <2>3
<1>10. ASSUME NEW p \in Path, ReadFails(p) PROVE NamesEffect
  BY <1>5, <1>10 DEF ReadFails
<1>11. QED
  BY <1>2, <1>3, <1>4, <1>6, <1>7, <1>8, <1>9, <1>10 DEF Load

LEMMA StepNames ==
  ASSUME TInv, [Next]_vars
  PROVE  NamesEffect
<1>1. CASE Load
  BY <1>1, LoadNames
<1>2. CASE UNCHANGED vars
  BY <1>2 DEF vars, loading, NamesEffect, Loaded
<1>3. CASE QueueSkip \/ QueueChild \/ QueueDone
  BY <1>3 DEF QueueSkip, QueueChild, QueueDone, loading, NamesEffect
<1>4. CASE Next /\ ~Load /\ ~(QueueSkip \/ QueueChild \/ QueueDone)
  <2>1. pc' \notin Loaded
    BY <1>4 DEF Loaded, Next, Start, StartFails, Collect, CollectMissing,
       CollectUnreadableLink, CollectDir, CollectFile,
       CollectUnreadableLinkFails, CollectFails, CollectDone, CollectSortFails,
       Collecting, NextOperand, Fatal, ListOperands, NoFiles, PrintFiles,
       PrintFilesFails, ListingFails, AfterFiles, GiveUp, ListDirs, QueueEmpty,
       PopDir, GapFails, QueueChildFails, PrintDir, PrintDirFails, LastFlush,
       Cleanup
  <2>2. QED
    BY <2>1 DEF NamesEffect
<1>5. QED
  BY <1>1, <1>2, <1>3, <1>4

LEMMA AppendOnce ==
  ASSUME NEW es \in Seq(NameEntry), NEW e \in NameEntry, NEW names,
         Once(es), Taken(es, names), e.path \in names
  PROVE  Once(Append(es, e)) /\ Taken(Append(es, e), names \ {e.path})
<1> DEFINE a == Append(es, e)
           n == Len(es)
<1>1. /\ n \in Nat /\ Len(a) = n + 1
      /\ \A i \in 1..n : a[i] = es[i]
      /\ a[n + 1] = e
  BY AppendFacts
<1>2. \A i, j \in 1..n : es[i].path = es[j].path => i = j
  BY DEF Once
<1>3. \A i \in 1..n : es[i].path \notin names /\ es[i].path # e.path
  BY DEF Taken
<1> HIDE DEF a, n
<1>4. 1..(n + 1) = (1..n) \cup {n + 1}
  BY <1>1
<1>5. \A i, j \in 1..(n + 1) : a[i].path = a[j].path => i = j
  BY <1>1, <1>2, <1>3, <1>4
<1>6. \A i \in 1..(n + 1) : a[i].path \notin names \ {e.path}
  BY <1>1, <1>3, <1>4
<1>7. Once(a) /\ Taken(a, names \ {e.path})
  BY <1>1, <1>5, <1>6 DEF Once, Taken
<1>8. QED
  BY <1>7 DEF a

LEMMA RearrangedOnce ==
  ASSUME NEW es \in Seq(NameEntry), NEW t, Rearranges(t, es), Once(es)
  PROVE  Once(t)
<1> DEFINE n == Len(es)
<1>1. n \in Nat /\ Len(t) = n
  BY RearrangedFacts
<1>2. PICK p \in [1..n -> 1..n] :
        /\ \A i, j \in 1..n : p[i] = p[j] => i = j
        /\ t = [i \in 1..n |-> es[p[i]]]
  BY DEF Rearranges
<1>3. \A i, j \in 1..n : es[i].path = es[j].path => i = j
  BY DEF Once
<1> HIDE DEF n
<1>4. \A i \in 1..n : t[i] = es[p[i]] /\ p[i] \in 1..n
  BY <1>2
<1>5. \A i, j \in 1..n : t[i].path = t[j].path => i = j
  BY <1>2, <1>3, <1>4
<1>6. QED
  BY <1>1, <1>5 DEF Once

LEMMA StepNamesOnce ==
  ASSUME TInv, TreeEffect, NamesOnce, [Next]_vars
  PROVE  NamesOnce'
<1>1. NamesEffect /\ entries \in Seq(NameEntry)
  BY StepNames DEF TInv, TypeOK
<1>2. ASSUME NEW k \in DirBlocks' PROVE Once(stdout'[k].entries)
  <2>1. CASE PrintDir
    <3>1. PICK m \in Nat : /\ DirBlocks' = DirBlocks \cup {m}
                           /\ stdout'[m] = Block(cur, entries, Header)
                           /\ \A j \in DirBlocks : stdout'[j] = stdout[j]
      BY <2>1 DEF TreeEffect, BlockAdded
    <3>2. Once(stdout'[m].entries)
      BY <2>1, <3>1 DEF PrintDir, NamesOnce, Loaded, Block
    <3>3. QED
      BY <1>2, <3>1, <3>2 DEF NamesOnce
  <2>2. CASE ~PrintDir
    BY <1>2, <2>2 DEF TreeEffect, BlocksKept, NamesOnce
  <2>3. QED
    BY <2>1, <2>2
<1>3. \/ Once(entries') /\ (pc' = "read" => Taken(entries', unread'))
      \/ pc' \notin Loaded
  <2>1. CASE entries' = << >>
    BY <2>1 DEF Once, Taken
  <2>2. CASE /\ pc = "read" /\ pc' = "read" /\ entries' = entries
             /\ unread' \subseteq unread
    BY <2>2 DEF NamesOnce, Loaded, Taken
  <2>3. CASE ReadsName
    <3>1. PICK e \in NameEntry : /\ e.path \in unread /\ unread' = unread \ {e.path}
                                 /\ entries' = Append(entries, e)
      BY <2>3 DEF ReadsName
    <3>2. Once(entries) /\ Taken(entries, unread)
      BY <2>3 DEF ReadsName, NamesOnce, Loaded
    <3>3. QED
      BY <1>1, <3>1, <3>2, AppendOnce
  <2>4. CASE pc = "read" /\ pc' = "queue" /\ Rearranges(entries', entries)
    BY <1>1, <2>4, RearrangedOnce DEF NamesOnce, Loaded
  <2>5. CASE pc \in {"queue", "print"} /\ pc' # "read" /\ entries' = entries
    BY <2>5 DEF NamesOnce, Loaded
  <2>6. QED
    BY <1>1, <2>1, <2>2, <2>3, <2>4, <2>5 DEF NamesEffect
<1>4. QED
  BY <1>2, <1>3 DEF NamesOnce, Loaded

(* Every operand that has been classified waits, or has been listed.       *)
InFiles(p) == \E i \in 1..Len(files) : files[i].path = p
FilesListed(p) ==
  \E k \in 1..Len(stdout) :
    /\ stdout[k].kind = "files"
    /\ \E i \in 1..Len(stdout[k].paths) : stdout[k].paths[i] = p
Covered(p) ==
  \/ \E t \in Tree : t[2] /\ t[3] = p
  \/ pc \in Preparing /\ InFiles(p)
  \/ FilesListed(p)
SoFar == IF pc \in {"start", "collect"} THEN index ELSE Len(operands) + 1
OperandsCovered ==
  Clean =>
    \A i \in 1..Len(operands) : i < SoFar => Covered(operands[i])

(* What a step does to the file operands of a run that does not fail.      *)
LEMMA FilesStep ==
  ASSUME [Next]_vars, pc \in Preparing, Clean'
  PROVE  \/ pc' \in Preparing /\ files' = files
         \/ CollectFile /\ pc' \in Preparing
         \/ files = << >> \/ PrintFiles
<1>1. CASE Start \/ UNCHANGED vars
  BY <1>1 DEF Start, Preparing, vars, queues
<1>2. CASE StartFails \/ PrintFilesFails \/ ListingFails
  BY <1>2 DEF StartFails, PrintFilesFails, ListingFails, GiveUp, Clean, Over
<1>3. CASE CollectDir \/ CollectFile \/ CollectDone
  BY <1>3 DEF CollectDir, CollectFile, CollectDone, Collecting, NextOperand,
              AddDir, Preparing
<1>4. CASE Collect /\ ~CollectDir /\ ~CollectFile /\ ~CollectDone
  BY <1>4 DEF Collect, CollectMissing, CollectUnreadableLink,
              CollectUnreadableLinkFails, CollectFails, CollectSortFails, Fatal,
              Clean
<1>5. CASE NoFiles \/ PrintFiles
  BY <1>5 DEF NoFiles
<1>6. ~Load /\ ~ListDirs /\ ~Cleanup
      /\ ~(\E flushed \in BOOLEAN : LastFlush(flushed))
  BY DEF Preparing, Load, OpenDir, OpenFails, SkipHidden, ReadEntry,
     ReadUnstatable, ReadFails, ReadEnd, SortFails, Reading, ListDirs, QueueEmpty,
     PopDir, GapFails, QueueSkip, QueueChild, QueueChildFails, QueueDone, PrintDir,
     PrintDirFails, LastFlush, Cleanup
<1>7. QED
  BY <1>1, <1>2, <1>3, <1>4, <1>5, <1>6 DEF Next, ListOperands

(* Every file operand is one of the item that is printed.                  *)
LEMMA PrintsFiles ==
  ASSUME TInv, SepInv, PrintFiles, NEW p, InFiles(p)
  PROVE  FilesListed(p)'
<1> DEFINE n == Len(files)
<1>1. PICK t \in Arranged(files, args.reverse) : stdout' = stdout \o <<FilesItem(t)>>
  BY DEF PrintFiles, HandOver
<1>2. stdout = << >>
  BY DEF PrintFiles, SepInv, NothingYet, Preparing
<1>3. stdout' = <<FilesItem(t)>>
  BY <1>1, <1>2
<1>4. files \in Seq(FileEntry) /\ n \in Nat
  BY DEF TInv, TypeOK
<1>5. Rearranges(t, files)
  BY <1>1, <1>4, ArrangedRearranges
<1>6. Len(t) = n
  BY <1>4, <1>5, RearrangedFacts
<1>7. PICK f \in [1..n -> 1..n] :
        /\ \A k \in 1..n : \E i \in 1..n : f[i] = k
        /\ t = [i \in 1..n |-> files[f[i]]]
  BY <1>5 DEF Rearranges
<1>8. PICK k \in 1..n : files[k].path = p
  BY DEF InFiles
<1> HIDE DEF n
<1>9. PICK i \in 1..n : t[i] = files[k]
  BY <1>7, <1>8
<1> DEFINE names == [j \in 1..Len(t) |-> t[j].path]
<1>10. names[i] = p /\ Len(names) = n
  BY <1>4, <1>6, <1>8, <1>9
<1>11. Len(stdout') = 1 /\ stdout'[1].kind = "files" /\ stdout'[1].paths = names
  BY <1>3 DEF FilesItem
<1> HIDE DEF names
<1>12. \E j \in 1..Len(stdout'[1].paths) : stdout'[1].paths[j] = p
  BY <1>9, <1>10, <1>11
<1>13. 1 \in 1..Len(stdout')
  BY <1>11
<1>14. QED
  BY <1>11, <1>12, <1>13 DEF FilesListed

LEMMA CoveredKept ==
  ASSUME TInv, SepInv, TreeEffect, TreeGrows, [Next]_vars, Clean',
         NEW p, Covered(p)
  PROVE  Covered(p)'
<1>1. CASE \E t \in Tree : t[2] /\ t[3] = p
  BY <1>1 DEF TreeGrows, Covered
<1>2. CASE FilesListed(p)
  <2>1. PICK k \in 1..Len(stdout) :
          /\ stdout[k].kind = "files"
          /\ \E i \in 1..Len(stdout[k].paths) : stdout[k].paths[i] = p
    BY <1>2 DEF FilesListed
  <2>2. stdout'[k] = stdout[k] /\ k \in 1..Len(stdout')
    BY DEF TreeEffect, ItemsKept
  <2>3. FilesListed(p)'
    BY <2>1, <2>2 DEF FilesListed
  <2>4. QED
    BY <2>3 DEF Covered
<1>3. CASE pc \in Preparing /\ InFiles(p)
  <2>1. CASE pc' \in Preparing /\ files' = files
    BY <1>3, <2>1 DEF Covered, InFiles
  <2>2. CASE CollectFile /\ pc' \in Preparing
    <3>1. files' = Append(files, [id |-> nextId, path |-> Operand])
          /\ files \in Seq(FileEntry)
      BY <2>2 DEF CollectFile, AddFile, TInv, TypeOK
    <3>2. [id |-> nextId, path |-> Operand] \in FileEntry
      BY <2>2, OperandType DEF CollectFile, Collecting, TInv, TypeOK, FileEntry
    <3>3. InFiles(p)'
      BY <1>3, <3>1, <3>2, AppendFacts DEF InFiles
    <3>4. QED
      BY <2>2, <3>3 DEF Covered
  <2>3. files # << >>
    BY <1>3 DEF InFiles
  <2>4. CASE PrintFiles
    BY <1>3, <2>4, PrintsFiles DEF Covered
  <2>5. QED
    BY <1>3, <2>1, <2>2, <2>3, <2>4, FilesStep
<1>4. QED
  BY <1>1, <1>2, <1>3 DEF Covered

LEMMA SoFarStep ==
  ASSUME [Next]_vars, Clean'
  PROVE  SoFar' = SoFar \/ CollectDir \/ CollectFile \/ CollectDone
<1>1. operands' = operands
  BY ArgsKept
<1>2. CASE pc \in {"start", "collect"}
  <2>1. CASE Start \/ UNCHANGED vars
    BY <1>1, <1>2, <2>1 DEF Start, vars, SoFar
  <2>2. CASE \/ StartFails
             \/ Collect /\ ~CollectDir /\ ~CollectFile /\ ~CollectDone
    BY <2>2 DEF StartFails, Collect, CollectMissing, CollectUnreadableLink,
       CollectUnreadableLinkFails, CollectFails, CollectSortFails, Fatal, Clean
  <2>3. ~ListOperands /\ ~Load /\ ~ListDirs /\ ~Cleanup
        /\ ~(\E flushed \in BOOLEAN : LastFlush(flushed))
    BY <1>2 DEF ListOperands, NoFiles, PrintFiles, PrintFilesFails, ListingFails,
       Load, OpenDir, OpenFails, SkipHidden, ReadEntry, ReadUnstatable, ReadFails,
       ReadEnd, SortFails, Reading, ListDirs, QueueEmpty, PopDir, GapFails,
       QueueSkip, QueueChild, QueueChildFails, QueueDone, PrintDir,
       PrintDirFails, LastFlush, Cleanup
  <2>4. QED
    BY <2>1, <2>2, <2>3 DEF Next
<1>3. CASE pc \notin {"start", "collect"}
  <2>1. pc' \notin {"start", "collect"}
    BY <1>3 DEF Next, Start, StartFails, Collect, CollectMissing,
       CollectUnreadableLink, CollectDir, CollectFile,
       CollectUnreadableLinkFails, CollectFails, CollectDone, CollectSortFails,
       Collecting, ListOperands, NoFiles, PrintFiles, PrintFilesFails,
       ListingFails, AfterFiles, GiveUp, Load, OpenDir, OpenFails, SkipHidden,
       ReadEntry, ReadUnstatable, ReadFails, ReadEnd, SortFails, Reading, DropDir,
       ListDirs, QueueEmpty, PopDir, GapFails, QueueSkip, QueueChild,
       QueueChildFails, QueueDone, PrintDir, PrintDirFails, LastFlush, Cleanup,
       vars
  <2>2. QED
    BY <1>1, <1>3, <2>1 DEF SoFar
<1>4. QED
  BY <1>2, <1>3

(* The operand that is classified is queued.                               *)
LEMMA ClassifiedCovered ==
  ASSUME TInv, CollectDir \/ CollectFile, NEW p, p = Operand
  PROVE  /\ pc = "collect" /\ pc' = "collect" /\ index' = index + 1
         /\ Covered(p)'
<1>1. /\ pc = "collect" /\ pc' = "collect" /\ index' = index + 1
      /\ operands' = operands /\ cur' = cur /\ index' = index + 1
      /\ nextId \in Nat /\ Operand \in Path /\ stdout' = stdout
      /\ dirQueue \in Seq(DirEntry) /\ files \in Seq(FileEntry)
  BY OperandType DEF CollectDir, CollectFile, Collecting, NextOperand, given,
     loading, output, TInv, TypeOK
<1>2. CASE CollectDir
  <2> DEFINE d == [id |-> nextId, path |-> Operand, operand |-> TRUE, from |-> 0]
  <2>1. d \in DirEntry /\ dirQueue' = Append(dirQueue, d)
    BY <1>1, <1>2 DEF CollectDir, AddDir, DirEntry
  <2>2. Node(d)[2] /\ Node(d)[3] = Operand
    BY DEF Node
  <2> HIDE DEF d
  <2>3. Node(d) \in Tree'
    BY <1>1, <2>1, AppendNodes DEF Tree
  <2>4. QED
    BY <1>1, <2>2, <2>3 DEF Covered
<1>3. CASE CollectFile
  <2> DEFINE d == [id |-> nextId, path |-> Operand]
  <2>1. d \in FileEntry /\ files' = Append(files, d) /\ d.path = Operand
    BY <1>1, <1>3 DEF CollectFile, AddFile, FileEntry
  <2> HIDE DEF d
  <2>2. Len(files) \in Nat /\ Len(files') = Len(files) + 1
        /\ files'[Len(files) + 1] = d
    BY <1>1, <2>1, AppendFacts
  <2>3. Len(files) + 1 \in 1..Len(files') /\ files'[Len(files) + 1].path = Operand
    BY <2>1, <2>2
  <2>4. InFiles(p)'
    BY <1>1, <2>3 DEF InFiles
  <2>5. QED
    BY <1>1, <2>4 DEF Covered, Preparing
<1>4. QED
  BY <1>2, <1>3

LEMMA StepOperandsCovered ==
  ASSUME TInv, SepInv, TreeEffect, TreeGrows, OperandsCovered, [Next]_vars
  PROVE  OperandsCovered'
<1>1. SUFFICES ASSUME Clean', NEW i \in 1..Len(operands), i < SoFar'
               PROVE  Covered(operands[i])'
  BY ArgsKept DEF OperandsCovered
<1>2. operands' = operands /\ Clean /\ index \in Nat /\ Len(operands) \in Nat
  BY <1>1, ArgsKept, StepClean DEF TInv, TypeOK
<1>3. ASSUME NEW p, Covered(p) PROVE Covered(p)'
  BY <1>1, <1>3, CoveredKept
<1>4. CASE i < SoFar
  BY <1>2, <1>3, <1>4 DEF OperandsCovered
<1>5. CASE ~(i < SoFar)
  <2>1. CASE CollectDone
    <3>1. pc = "collect" /\ index > Len(operands)
      BY <2>1 DEF CollectDone
    <3>2. QED
      BY <1>2, <1>5, <3>1 DEF SoFar
  <2>2. CASE CollectDir \/ CollectFile
    <3>1. pc = "collect" /\ pc' = "collect" /\ index' = index + 1
      BY <2>2, ClassifiedCovered
    <3>2. i = index
      BY <1>1, <1>2, <1>5, <3>1 DEF SoFar
    <3>3. ASSUME NEW p, p = Operand PROVE Covered(p)'
      BY <2>2, <3>3, ClassifiedCovered
    <3>4. operands[i] = Operand
      BY <3>2 DEF Operand
    <3>5. QED
      BY <1>2, <3>3, <3>4
  <2>3. QED
    BY <1>1, <1>5, <2>1, <2>2, SoFarStep
<1>6. QED
  BY <1>4, <1>5

(* Under -R every directory of a listing has been found.                   *)
Found(k) ==
  \A i \in 1..Len(stdout[k].entries) :
    Descends(stdout[k].entries[i]) =>
      <<stdout[k].id, FALSE, stdout[k].entries[i].path>> \in Tree
SubsFound == Clean /\ args.recursive => \A k \in DirBlocks : Found(k)

LEMMA StepSubsFound ==
  ASSUME TInv, Children, TreeEffect, TreeGrows, SubsFound, [Next]_vars
  PROVE  SubsFound'
<1>1. SUFFICES ASSUME Clean', args.recursive, NEW k \in DirBlocks' PROVE Found(k)'
  BY ArgsKept DEF SubsFound
<1>2. Clean /\ Tree \subseteq Tree'
  BY <1>1, StepClean DEF TreeGrows
<1>3. ASSUME k \in DirBlocks, stdout'[k] = stdout[k] PROVE Found(k)'
  <2>1. Found(k)
    BY <1>1, <1>2, <1>3 DEF SubsFound
  <2>2. QED
    BY <1>2, <1>3, <2>1 DEF Found
<1>4. CASE PrintDir
  <2>1. PICK m \in Nat : /\ DirBlocks' = DirBlocks \cup {m}
                         /\ stdout'[m] = Block(cur, entries, Header)
                         /\ \A j \in DirBlocks : stdout'[j] = stdout[j]
    BY <1>4 DEF TreeEffect, BlockAdded
  <2>2. /\ pc = "print" /\ dirQueue' = dirQueue /\ dirQueue \in Seq(DirEntry)
        /\ entries \in Seq(NameEntry)
    BY <1>4 DEF PrintDir, queues, TInv, TypeOK
  <2>3. PICK n \in 0..Len(dirQueue) :
          \E at \in [1..(Len(dirQueue) - n) -> Subs] :
            OnTop(dirQueue, n, at, cur, entries, Subs)
    BY <2>2 DEF Children, HasOnTop
  <2>4. PICK at \in [1..(Len(dirQueue) - n) -> Subs] :
          OnTop(dirQueue, n, at, cur, entries, Subs)
    BY <2>3
  <2>5. ASSUME NEW s \in 1..Len(entries), Descends(entries[s])
        PROVE  <<cur.id, FALSE, entries[s].path>> \in Tree'
    <3>1. s \in Subs
      BY <1>1, <2>2, <2>5 DEF Subs, SubsAbove, Floor
    <3>2. PICK i \in 1..(Len(dirQueue) - n) : at[i] = s
      BY <2>4, <3>1 DEF OnTop
    <3>3. /\ dirQueue[n + i].from = cur.id /\ ~dirQueue[n + i].operand
          /\ dirQueue[n + i].path = entries[s].path
      BY <2>4, <3>2 DEF OnTop
    <3>4. n + i \in 1..Len(dirQueue)
      BY <2>2
    <3>5. dirQueue[n + i].operand \in BOOLEAN
      <4>1. dirQueue[n + i] \in DirEntry
        BY <2>2, <3>4, ElementOfSeq
      <4>2. QED
        BY <4>1 DEF DirEntry
    <3>6. Node(dirQueue[n + i]) = <<cur.id, FALSE, entries[s].path>>
      BY <3>3, <3>5 DEF Node
    <3>7. QED
      BY <2>2, <3>4, <3>6 DEF Tree, Nodes
  <2>6. CASE k = m
    <3>1. stdout'[k].id = cur.id /\ stdout'[k].entries = entries
      BY <2>1, <2>6 DEF Block
    <3>2. QED
      BY <2>5, <3>1 DEF Found
  <2>7. QED
    BY <1>1, <1>3, <2>1, <2>6
<1>5. CASE ~PrintDir
  BY <1>1, <1>3, <1>5 DEF TreeEffect, BlocksKept
<1>6. QED
  BY <1>4, <1>5

CompleteInv ==
  Emptied /\ Roots /\ ErrorFree /\ NamesOnce /\ OperandsCovered /\ SubsFound

LEMMA InitComplete == Init => CompleteInv
<1> SUFFICES ASSUME Init PROVE CompleteInv
  OBVIOUS
<1>1. DirBlocks = {} /\ dirQueue = << >> /\ cur = NoDir /\ pc = "start"
      /\ index = 1 /\ exitCode = 0 /\ errs = << >>
  BY DEF Init, DirBlocks
<1>2. Tree = {}
  BY <1>1 DEF Tree, BlockNodes, Nodes, CurNodes
<1>3. Emptied /\ ErrorFree /\ NamesOnce /\ Roots /\ SubsFound
  BY <1>1, <1>2 DEF Emptied, ErrorFree, NamesOnce, Loaded, Roots, SubsFound
<1>4. OperandsCovered
  BY <1>1 DEF OperandsCovered, SoFar
<1>5. QED
  BY <1>3, <1>4 DEF CompleteInv

LEMMA StepComplete ==
  ASSUME TravInv, CompleteInv, [Next]_vars
  PROVE  CompleteInv'
<1>1. TInv /\ SepInv /\ TreeIds /\ Children
  BY DEF TravInv
<1>2. TreeEffect
  BY <1>1, StepTree
<1>3. Emptied /\ Roots /\ ErrorFree /\ NamesOnce /\ OperandsCovered /\ SubsFound
  BY DEF CompleteInv
<1>4. TreeGrows
  BY <1>1, <1>2, <1>3, StepTreeGrows
<1>5. Emptied' /\ Roots'
  BY <1>1, <1>2, <1>3, StepEmptied, StepRoots
<1>6. ErrorFree' /\ NamesOnce'
  BY <1>1, <1>2, <1>3, StepErrorFree, StepNamesOnce
<1>7. OperandsCovered' /\ SubsFound'
  BY <1>1, <1>2, <1>3, <1>4, StepOperandsCovered, StepSubsFound
<1>8. QED
  BY <1>5, <1>6, <1>7 DEF CompleteInv

LEMMA CompleteHolds == Spec => [](TravInv /\ OrderInv /\ CompleteInv)
<1>1. TravInv /\ CompleteInv /\ [Next]_vars => CompleteInv'
  BY StepComplete
<1>2. QED
  BY <1>1, InitComplete, OrderHolds, PTL DEF Spec

(* When nothing waits any more, what was found is a block of the output.   *)
LEMMA TreeListed ==
  ASSUME TravInv, CompleteInv, Clean, pc \in Over, NEW t \in Tree
  PROVE  \E k \in DirBlocks : t = Node(stdout[k])
<1>1. cur = NoDir /\ dirQueue = << >>
  BY CurIsDir DEF TravInv, CompleteInv, Emptied, Over
<1>2. Nodes(dirQueue) = {} /\ CurNodes = {}
  BY <1>1 DEF Nodes, CurNodes
<1>3. QED
  BY <1>2 DEF Tree, BlockNodes

(* Two blocks of the same directory would be two of its parent's names, in *)
(* order.                                                                  *)
LEMMA ListedOnce ==
  ASSUME TravInv, OrderInv, CompleteInv, NEW k \in DirBlocks,
         NEW c \in DirBlocks, NEW d \in DirBlocks, IsParent(k, c), IsParent(k, d),
         stdout[c].path = stdout[d].path
  PROVE  ~(c < d)
<1> SUFFICES ASSUME c < d PROVE FALSE
  OBVIOUS
<1>1. stdout[c].from = stdout[k].id /\ stdout[d].from = stdout[k].id
      /\ stdout[k].id # 0
  BY DEF IsParent, CompleteInv, Roots
<1>2. ~stdout[c].operand
  BY <1>1 DEF CompleteInv, Roots
<1>3. PICK p \in DirBlocks :
        Before(Listed(stdout[p]), stdout[c].path, stdout[d].path)
  BY <1>1, <1>2, OrderedSiblings DEF SiblingsInOrder
<1>4. PICK m, n \in 1..Len(Listed(stdout[p])) :
        m < n /\ Listed(stdout[p])[m] = Listed(stdout[p])[n]
  BY <1>3 DEF Before
<1>5. Len(stdout[p].entries) \in Nat
  <2>1. stdout \in Seq(Items) /\ p \in 1..Len(stdout) /\ stdout[p].kind = "dir"
    BY DEF TravInv, TInv, TypeOK, DirBlocks
  <2>2. stdout[p] \in Items
    BY <2>1, ElementOfSeq
  <2>3. stdout[p].entries \in Seq(NameEntry)
    BY <2>1, <2>2 DEF Items
  <2>4. QED
    BY <2>3
<1>6. /\ m \in 1..Len(stdout[p].entries) /\ n \in 1..Len(stdout[p].entries)
      /\ stdout[p].entries[m].path = stdout[p].entries[n].path
  BY <1>4, <1>5 DEF Listed
<1>7. m = n
  BY <1>6 DEF CompleteInv, NamesOnce, Once
<1>8. QED
  BY <1>4, <1>5, <1>7

LEMMA Completed ==
  ASSUME TravInv, OrderInv, CompleteInv
  PROVE  ExitZeroMeansComplete
<1>1. SUFFICES ASSUME pc = "exit", exitCode = 0
      PROVE /\ errs = << >>
            /\ delivered = Len(stdout)
            /\ \A i \in 1..Len(operands) : OperandListed(operands[i])
            /\ args.recursive => \A k \in DirBlocks : SubdirsListed(k)
  BY DEF ExitZeroMeansComplete
<1>2. /\ ok /\ delivered = Len(stdout) /\ Clean /\ pc \in Over
      /\ pc \notin Preparing /\ pc \notin {"start", "collect"}
  BY <1>1 DEF TravInv, CodeInv, Clean, Over, Preparing
<1>3. errs = << >>
  BY <1>1 DEF CompleteInv, ErrorFree
<1>4. ASSUME NEW i \in 1..Len(operands) PROVE OperandListed(operands[i])
  <2>1. i < SoFar
    <3>1. Len(operands) \in Nat
      BY DEF TravInv, TInv, TypeOK
    <3>2. QED
      BY <1>2, <3>1 DEF SoFar
  <2>2. Covered(operands[i])
    BY <1>2, <2>1 DEF CompleteInv, OperandsCovered
  <2>3. CASE FilesListed(operands[i])
    BY <2>3 DEF FilesListed, OperandListed
  <2>4. ASSUME NEW t \in Tree, t[2], t[3] = operands[i]
        PROVE  OperandListed(operands[i])
    <3>1. PICK k \in DirBlocks : t = Node(stdout[k])
      BY <1>2, TreeListed
    <3>2. stdout[k].operand /\ stdout[k].path = operands[i]
      BY <2>4, <3>1 DEF Node
    <3>3. QED
      BY <3>2 DEF OperandListed, DirBlocks
  <2>5. QED
    BY <1>2, <2>2, <2>3, <2>4 DEF Covered
<1>5. ASSUME args.recursive, NEW k \in DirBlocks PROVE SubdirsListed(k)
  <2>1. SUFFICES ASSUME NEW i \in 1..Len(stdout[k].entries),
                        Descends(stdout[k].entries[i])
        PROVE \E c \in DirBlocks :
                /\ IsParent(k, c) /\ stdout[c].path = stdout[k].entries[i].path
                /\ \A d \in DirBlocks :
                     IsParent(k, d) /\ stdout[d].path = stdout[c].path => d = c
    BY DEF SubdirsListed
  <2>2. <<stdout[k].id, FALSE, stdout[k].entries[i].path>> \in Tree
    BY <1>2, <1>5, <2>1 DEF CompleteInv, SubsFound, Found
  <2>3. PICK c \in DirBlocks :
          <<stdout[k].id, FALSE, stdout[k].entries[i].path>> = Node(stdout[c])
    BY <1>2, <2>2, TreeListed
  <2>4. stdout[c].from = stdout[k].id /\ stdout[c].path = stdout[k].entries[i].path
    BY <2>3 DEF Node
  <2>5. \A j \in DirBlocks : j \in Nat
    BY DEF DirBlocks
  <2>6. IsParent(k, c)
    <3>1. ~(c <= k)
      BY <2>4 DEF TravInv, TreeIds, Kin
    <3>2. QED
      BY <2>4, <2>5, <3>1 DEF IsParent
  <2>7. ASSUME NEW d \in DirBlocks, IsParent(k, d), stdout[d].path = stdout[c].path
        PROVE  d = c
    <3>1. ~(c < d) /\ ~(d < c)
      BY <2>6, <2>7, ListedOnce
    <3>2. QED
      BY <2>5, <3>1
  <2>8. QED
    BY <2>4, <2>6, <2>7
<1>6. QED
  BY <1>2, <1>3, <1>4, <1>5

(* A run that ends with exit code 0 reported no error, wrote all of its    *)
(* output, listed every operand, and under -R every directory of a listing *)
(* exactly once (ft_walk.c:444, :483).                                     *)
THEOREM ZeroMeansComplete == Spec => []ExitZeroMeansComplete
<1>1. TravInv /\ OrderInv /\ CompleteInv => ExitZeroMeansComplete
  BY Completed
<1>2. QED
  BY <1>1, CompleteHolds, PTL
=============================================================================
