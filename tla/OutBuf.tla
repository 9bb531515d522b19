------------------------------- MODULE OutBuf -------------------------------
(***************************************************************************)
(* The output buffer of ft_ls (src/src/ft_printer_helper.c, left_pad_ of   *)
(* src/src/ft_printer_list.c): every byte the program prints is copied     *)
(* into one fixed buffer (params->out) and leaves it through flush_fd,     *)
(* whose write(2) may be partial, interrupted or failing.                  *)
(*                                                                         *)
(* Bytes are abstracted to their position in the stream the callers hand   *)
(* over: the k-th byte ever handed to an output call is the number k.      *)
(* One action is one iteration of a loop of the code.  The messages of     *)
(* print_error_ leave through a buffer of their own; here each is one step.*)
(***************************************************************************)
EXTENDS Naturals, Sequences

CONSTANTS
  Cap,       \* out->cap - 1, the bytes the buffer holds beside its NUL
  MaxBytes,  \* bound on the bytes a run hands over
  MaxNotes   \* bound on the messages of a run

ASSUME CapAssumption == Cap \in Nat \ {0}
ASSUME MaxBytesAssumption == MaxBytes \in Nat
ASSUME MaxNotesAssumption == MaxNotes \in Nat

VARIABLES
  pc,       \* where the output layer is: "ready" between two calls
  after,    \* what the running flush_fd returns to
  buf,      \* out->str[0 .. out->len)
  written,  \* written_total of flush_fd
  rest,     \* bytes of the current call that are not in the buffer yet
  given,    \* bytes handed over by callers so far
  fd,       \* bytes the descriptor has received
  notes,    \* messages written to standard error
  ioError,  \* some write(2) failed for a reason other than EINTR
  noMemory, \* some name could not be copied for want of memory
  failed,   \* some output call returned false
  result    \* what run_listing_ returns

stream == <<given, fd>>
causes == <<ioError, noMemory>>
vars == <<pc, after, buf, written, rest, stream, notes, causes, failed, result>>

PCs == {"ready", "copy", "escape", "append", "flush", "message", "done"}
Returns == {"copy", "append", "message", "ready", "final"}

(* Room left in the buffer: out->cap - 1 - out->len.                       *)
Avail == Cap - Len(buf)

Init ==
  /\ pc = "ready"
  /\ after = "ready"
  /\ buf = << >>
  /\ written = 0
  /\ rest = 0
  /\ given = 0
  /\ fd = << >>
  /\ notes = 0
  /\ ioError = FALSE /\ noMemory = FALSE
  /\ failed = FALSE
  /\ result = "none"

(* A call to flush_fd that returns to r.                                   *)
CallFlush(r) ==
  /\ pc' = "flush"
  /\ after' = r
  /\ written' = 0

(***************************************************************************)
(* put_mem / put_mem_fd / left_pad_ with n bytes.  Every caller stops at   *)
(* the first call that returns false, hence the guard ~failed.             *)
(***************************************************************************)
Put(n) ==
  /\ pc = "ready" /\ ~failed
  /\ given + n <= MaxBytes
  /\ given' = given + n
  /\ rest' = n
  /\ pc' = "copy"
  /\ UNCHANGED <<after, buf, written, fd, notes, causes, failed, result>>

(* Mutant of Chunk: one byte too many, over the place of the NUL.          *)
ChunkIntoNul == IF rest < Avail + 1 THEN rest ELSE Avail + 1

(* Mutant of Chunk: the end of the source is not looked at.                *)
ChunkIgnoresRest == Avail

(* Mutant of Chunk: room for the NUL is reserved a second time.            *)
ChunkReservesTwice == IF rest < Avail THEN rest ELSE Avail - 1

(* to_copy of put_mem_fd, to_fill of left_pad_.                            *)
Chunk == IF rest < Avail THEN rest ELSE Avail

(* The next n bytes of the current call.                                   *)
NextBytes(n) == [i \in 1..n |-> given - rest + i]

(* One iteration of the loop of put_mem_fd.                                *)
Copy ==
  /\ pc = "copy" /\ rest > 0
  /\ IF Avail = 0
     THEN /\ CallFlush("copy")
          /\ UNCHANGED <<buf, rest>>
     ELSE /\ buf' = buf \o NextBytes(Chunk)
          /\ rest' = rest - Chunk
          /\ UNCHANGED <<pc, after, written>>
  /\ UNCHANGED <<stream, notes, causes, failed, result>>

(* put_mem_fd returns true.                                                *)
CopyDone ==
  /\ pc = "copy" /\ rest = 0
  /\ pc' = "ready"
  /\ UNCHANGED <<after, buf, written, rest, stream, notes, causes, failed, result>>

(* Mutant of NeedsRoom: the comparison forgets the byte at the boundary.   *)
NeedsRoomOffByOne(n) == Avail + 1 < n

(* put_shell_escaped_scan_ flushes before a name that does not fit.        *)
NeedsRoom(n) == Avail < n

(***************************************************************************)
(* put_shell_escaped_scan_ with a name whose escaped form has n bytes: a   *)
(* form longer than the buffer goes through put_mem, after it was escaped  *)
(* into memory of its own if it needs quotes; any other is appended in one *)
(* piece once there is room for it.                                        *)
(***************************************************************************)
PutEscaped(n, quoted) ==
  /\ pc = "ready" /\ ~failed
  /\ given + n <= MaxBytes
  /\ given' = given + n
  /\ rest' = n
  /\ \/ n <= Cap /\ NeedsRoom(n) /\ CallFlush("append")
     \/ /\ n <= Cap /\ ~NeedsRoom(n)
        /\ pc' = "append" /\ UNCHANGED <<after, written>>
     \/ /\ n > Cap
        /\ pc' = (IF quoted THEN "escape" ELSE "copy")
        /\ UNCHANGED <<after, written>>
  /\ UNCHANGED <<buf, fd, notes, causes, failed, result>>

(* shell_escape_str returns the escaped name.                              *)
Escape ==
  /\ pc = "escape"
  /\ pc' = "copy"
  /\ UNCHANGED <<after, buf, written, rest, stream, notes, causes, failed, result>>

(* shell_escape_str has no memory: false, with nothing put in the buffer.  *)
EscapeFails ==
  /\ pc = "escape"
  /\ pc' = "ready"
  /\ noMemory' = TRUE /\ failed' = TRUE
  /\ UNCHANGED <<after, buf, written, rest, stream, notes, ioError, result>>

(* shell_escape_append_len: false, and nothing appended, without room.     *)
Append_ ==
  /\ pc = "append"
  /\ pc' = "ready"
  /\ IF Avail < rest
     THEN failed' = TRUE /\ UNCHANGED <<buf, rest>>
     ELSE /\ buf' = buf \o NextBytes(rest)
          /\ rest' = 0
          /\ UNCHANGED failed
  /\ UNCHANGED <<after, written, stream, notes, causes, result>>

(***************************************************************************)
(* print_error_ between two output calls: stdout is emptied first, and     *)
(* without success there is no message.  Whether stderr takes the message, *)
(* or nothing of it, changes nothing here.                                 *)
(***************************************************************************)
PrintError ==
  /\ pc = "ready" /\ ~failed
  /\ notes < MaxNotes
  /\ CallFlush("message")
  /\ UNCHANGED <<buf, rest, stream, notes, causes, failed, result>>

Message ==
  /\ pc = "message"
  /\ pc' = "ready"
  /\ notes' \in {notes, notes + 1}
  /\ UNCHANGED <<after, buf, written, rest, stream, causes, failed, result>>

(* The last flush of run_listing_, which runs after a failed call too.     *)
FinalFlush ==
  /\ pc = "ready"
  /\ CallFlush("final")
  /\ UNCHANGED <<buf, rest, stream, notes, causes, failed, result>>

(* write(2) accepts k of the bytes it is offered.                          *)
WriteSome(k) ==
  /\ pc = "flush" /\ written < Len(buf)
  /\ k \in 1..(Len(buf) - written)
  /\ fd' = fd \o SubSeq(buf, written + 1, written + k)
  /\ written' = written + k
  /\ UNCHANGED <<pc, after, buf, rest, given, notes, causes, failed, result>>

(* write(2) returns -1 with EINTR: the loop tries again.                   *)
WriteInterrupted ==
  /\ pc = "flush" /\ written < Len(buf)
  /\ UNCHANGED vars

(* Mutant of Unwritten: the bytes already written stay in the buffer.      *)
UnwrittenNotShifted(b, w) == b

(* What flush_fd keeps when it gives up: the bytes not written yet.        *)
Unwritten(b, w) == SubSeq(b, w + 1, Len(b))

(* Mutant of Verdict: run_listing_ forgets the "&& ok".                    *)
VerdictOfLastFlush(flushed) == IF flushed THEN "ok" ELSE "error"

(* run_listing_: ok = flush_fd(&params->out, STDOUT_FILENO) && ok.         *)
Verdict(flushed) == IF flushed /\ ~failed THEN "ok" ELSE "error"

(* Mutant of AfterFailure: print_error_ does not look at the result.       *)
AfterFailureUnchecked == IF after = "message" THEN "message" ELSE "ready"

(* Where a flush that failed leaves the call that needed it.               *)
AfterFailure == "ready"

(* write(2) fails, or accepts nothing: flush_fd returns false and so does  *)
(* the call that needed it.                                                *)
WriteFails ==
  /\ pc = "flush" /\ written < Len(buf)
  /\ buf' = Unwritten(buf, written)
  /\ written' = 0
  /\ ioError' = TRUE
  /\ failed' = TRUE
  /\ IF after = "final"
     THEN pc' = "done" /\ result' = Verdict(FALSE)
     ELSE pc' = AfterFailure /\ UNCHANGED result
  /\ UNCHANGED <<after, rest, stream, notes, noMemory>>

(* The buffer after a complete flush: out->len = 0.                        *)
Emptied(b) == << >>

FlushDone ==
  /\ pc = "flush" /\ written = Len(buf)
  /\ buf' = Emptied(buf)
  /\ written' = 0
  /\ IF after = "final"
     THEN pc' = "done" /\ result' = Verdict(TRUE)
     ELSE pc' = after /\ UNCHANGED result
  /\ UNCHANGED <<after, rest, stream, notes, causes, failed>>

Next ==
  \/ \E n \in 1..MaxBytes :
       Put(n) \/ \E quoted \in BOOLEAN : PutEscaped(n, quoted)
  \/ Copy \/ CopyDone \/ Escape \/ EscapeFails \/ Append_
  \/ PrintError \/ Message \/ FinalFlush
  \/ \E k \in 1..Cap : WriteSome(k)
  \/ WriteInterrupted \/ WriteFails
  \/ FlushDone

Spec == Init /\ [][Next]_vars

(***************************************************************************)
(* The program does not stop inside an output call, and write(2) is not    *)
(* interrupted for ever: a signal at every attempt, or a reader that never *)
(* reads, would block the real program as well.                            *)
(***************************************************************************)
Fairness ==
  /\ WF_vars(Copy) /\ WF_vars(CopyDone) /\ WF_vars(Append_)
  /\ WF_vars(Escape \/ EscapeFails) /\ WF_vars(Message) /\ WF_vars(FlushDone)
  /\ WF_vars(\E k \in 1..Cap : WriteSome(k))

FairSpec == Spec /\ Fairness
-----------------------------------------------------------------------------
(* The types of the variables (ft_printer_helper.c, struct s_str).         *)
TypeOK ==
  /\ pc \in PCs
  /\ after \in Returns
  /\ buf \in Seq(Nat)
  /\ written \in Nat
  /\ rest \in Nat
  /\ given \in Nat
  /\ fd \in Seq(Nat)
  /\ notes \in Nat
  /\ ioError \in BOOLEAN
  /\ noMemory \in BOOLEAN
  /\ failed \in BOOLEAN
  /\ result \in {"none", "ok", "error"}

(* No byte is lost, repeated or reordered on the descriptor, whatever the  *)
(* sizes of the puts, the partial writes, and the flushes retried after a  *)
(* failed one: flush_fd (ft_printer_helper.c:120) keeps exactly what was   *)
(* not written.                                                            *)
NoLossNoDuplicate == \A i \in 1..Len(fd) : fd[i] = i

(* out->len never passes cap - 1, so out->str[out->len] = '\0' stays in    *)
(* bounds in put_mem_fd, left_pad_ and shell_escape_append_len.            *)
NoOverflow == Len(buf) <= Cap

(* run_listing_ reports success only when every byte handed over has       *)
(* reached the descriptor, also when an earlier call failed and the last   *)
(* flush succeeded (ft_walk.c:163).                                        *)
SuccessMeansDelivered ==
  result = "ok" => ~ioError /\ ~noMemory /\ Len(fd) = given

(* An output call fails only because a write(2) failed, or because memory  *)
(* ran out for a name longer than the buffer (ft_printer_helper.c:174):    *)
(* the room check of shell_escape_append_len (ft_shell_escape.c:79) never  *)
(* refuses a name that put_shell_escaped_scan_ sent it.                    *)
FailureHasCause == failed => ioError \/ noMemory

(* Standard output is buffered and standard error is not: a message goes   *)
(* out only when the descriptor has received every byte that was handed    *)
(* over before it, after any number of partial writes, and never after a   *)
(* flush that failed (print_error_, ft_walk.c:544).                        *)
MessagesInPlace == [][notes' # notes => Len(fd) = given]_vars

(* Every output call returns (the loops of put_mem_fd and flush_fd end).   *)
CallsReturn ==
  (pc \in {"copy", "escape", "append", "flush", "message"})
    ~> (pc \in {"ready", "done"})

(* The buffer implements the append-only stream, with messages in place.   *)
Abstract == INSTANCE OutStream
StreamSpec == Abstract!Spec
=============================================================================
