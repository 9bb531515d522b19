---------------------------- MODULE OutBufProofs ----------------------------
(***************************************************************************)
(* Theorems about OutBuf, for every buffer capacity and every amount of    *)
(* output.  IInv is the inductive invariant: besides the properties        *)
(* themselves it says which bytes the buffer holds (BufferFollows) and     *)
(* that buffer, descriptor and current call account for every byte handed  *)
(* over (Accounts).                                                        *)
(***************************************************************************)
EXTENDS OutBuf, TLAPS

(* The buffer holds the bytes that follow those on the descriptor, the     *)
(* first `written` of which are on the descriptor already.                 *)
BufferFollows == \A i \in 1..Len(buf) : buf[i] = (Len(fd) - written) + i

Accounts == (Len(fd) - written) + Len(buf) + rest = given

(* What holds at each control point. *)
Control ==
  /\ written <= Len(buf)
  /\ written <= Len(fd)
  /\ pc # "flush" => written = 0
  /\ pc \in {"copy", "escape", "append", "message"} => ~failed
  /\ pc = "message" => rest = 0 /\ buf = << >>
  /\ pc = "append" => rest <= Avail
  /\ pc = "flush" /\ after # "final" => ~failed
  /\ pc = "flush" /\ after = "append" => rest <= Cap
  /\ pc = "ready" /\ ~failed => rest = 0
  /\ pc = "flush" /\ after \in {"message", "ready", "final"} /\ ~failed => rest = 0
  /\ pc # "done" => result = "none"

(* Success is reported with an empty buffer and no call cut short.         *)
SuccessState == result = "ok" => ~failed /\ rest = 0 /\ buf = << >>

(* Why a call has failed. *)
Causes == failed <=> ioError \/ noMemory

IInv ==
  /\ TypeOK
  /\ NoLossNoDuplicate
  /\ NoOverflow
  /\ BufferFollows
  /\ Accounts
  /\ Control
  /\ SuccessState
  /\ Causes
-----------------------------------------------------------------------------
(* Concatenating sequences of numbers: type, length and elements. *)
LEMMA CatFacts ==
  ASSUME NEW s \in Seq(Nat), NEW t \in Seq(Nat)
  PROVE  /\ s \o t \in Seq(Nat)
         /\ Len(s \o t) = Len(s) + Len(t)
         /\ \A i \in 1..(Len(s) + Len(t)) :
              (s \o t)[i] = IF i <= Len(s) THEN s[i] ELSE t[i - Len(s)]
OBVIOUS

(* The k elements of a sequence of numbers that follow its first w. *)
LEMMA SubFacts ==
  ASSUME NEW s \in Seq(Nat), NEW w \in Nat, NEW k \in Nat, w + k <= Len(s)
  PROVE  /\ SubSeq(s, w + 1, w + k) \in Seq(Nat)
         /\ Len(SubSeq(s, w + 1, w + k)) = k
         /\ \A i \in 1..k : SubSeq(s, w + 1, w + k)[i] = s[w + i]
OBVIOUS

(* The elements of a sequence of numbers that follow its first w. *)
LEMMA TailFacts ==
  ASSUME NEW s \in Seq(Nat), NEW w \in Nat, w < Len(s)
  PROVE  /\ SubSeq(s, w + 1, Len(s)) \in Seq(Nat)
         /\ Len(SubSeq(s, w + 1, Len(s))) = Len(s) - w
         /\ \A i \in 1..(Len(s) - w) : SubSeq(s, w + 1, Len(s))[i] = s[w + i]
OBVIOUS

(* The bytes a copy appends (NextBytes) form a sequence of numbers. *)
LEMMA NextBytesFacts ==
  ASSUME TypeOK, NEW n \in Nat, rest <= given, n <= rest
  PROVE  /\ NextBytes(n) \in Seq(Nat)
         /\ Len(NextBytes(n)) = n
         /\ \A i \in 1..n : NextBytes(n)[i] = given - rest + i
BY DEF NextBytes, TypeOK

LEMMA RestBounded == IInv => rest <= given
BY DEF IInv, TypeOK, Accounts, Control
-----------------------------------------------------------------------------
LEMMA InitIInv == Init => IInv
<1> SUFFICES ASSUME Init PROVE IInv
  OBVIOUS
<1>1. TypeOK
  <2>1. << >> \in Seq(Nat) /\ 0 \in Nat
    OBVIOUS
  <2>2. QED
    BY <2>1 DEF Init, TypeOK, PCs, Returns
<1>2. buf = << >> /\ Len(buf) = 0 /\ fd = << >> /\ Len(fd) = 0
  BY DEF Init
<1>3. NoLossNoDuplicate /\ BufferFollows /\ Accounts /\ NoOverflow
  BY <1>2, CapAssumption
     DEF Init, NoLossNoDuplicate, BufferFollows, Accounts, NoOverflow
<1>4. Control /\ SuccessState /\ Causes
  BY <1>2 DEF Init, Control, SuccessState, Causes
<1>5. QED
  BY <1>1, <1>3, <1>4 DEF IInv

(* The arithmetic of moving n bytes from the call to the buffer.           *)
LEMMA Regroup ==
  ASSUME NEW a \in Nat, NEW b \in Nat, NEW r \in Nat, NEW g \in Nat,
         NEW n \in Nat, a + b + r = g
  PROVE  (a - 0) + (b + n) + (r - n) = g
OBVIOUS

(* n bytes of the current call move into the buffer, which has room. *)
Moved(n) ==
  /\ n <= rest /\ n <= Avail
  /\ pc # "flush"
  /\ buf' = buf \o NextBytes(n)
  /\ rest' = rest - n
  /\ written' = written /\ given' = given /\ fd' = fd

(* The sizes are numbers, and outside flush_fd nothing is half written. *)
LEMMA Sizes ==
  ASSUME IInv
  PROVE  /\ Len(buf) \in Nat /\ Len(fd) \in Nat
         /\ rest \in Nat /\ given \in Nat /\ written \in Nat
         /\ (Len(fd) - written) + Len(buf) + rest = given
         /\ pc # "flush" => written = 0 /\ Len(fd) + Len(buf) + rest = given
<1>1. Len(buf) \in Nat /\ Len(fd) \in Nat /\ rest \in Nat /\ given \in Nat
      /\ written \in Nat
  BY DEF IInv, TypeOK
<1>2. (Len(fd) - written) + Len(buf) + rest = given
  BY DEF IInv, Accounts
<1>3. pc # "flush" => written = 0
  BY DEF IInv, Control
<1>4. QED
  BY <1>1, <1>2, <1>3

(* Moving the next bytes keeps the buffer contiguous and within bounds. *)
LEMMA MovedBytes ==
  ASSUME IInv, NEW n \in Nat, Moved(n)
  PROVE  /\ buf' \in Seq(Nat) /\ rest' \in Nat
         /\ Len(buf') = Len(buf) + n
         /\ NoOverflow' /\ BufferFollows' /\ Accounts'
<1>1. /\ Len(buf) \in Nat /\ Len(fd) \in Nat /\ rest \in Nat /\ given \in Nat
      /\ written = 0 /\ Len(fd) + Len(buf) + rest = given
  BY Sizes DEF Moved
<1>2. TypeOK /\ n <= rest /\ rest' = rest - n
  BY DEF IInv, Moved
<1>3. /\ NextBytes(n) \in Seq(Nat)
      /\ Len(NextBytes(n)) = n
      /\ \A i \in 1..n : NextBytes(n)[i] = given - rest + i
  BY RestBounded, <1>2, NextBytesFacts
<1>4. /\ buf' \in Seq(Nat)
      /\ Len(buf') = Len(buf) + n
      /\ \A i \in 1..(Len(buf) + n) :
           buf'[i] = IF i <= Len(buf) THEN buf[i] ELSE NextBytes(n)[i - Len(buf)]
  BY <1>2, <1>3, CatFacts DEF TypeOK, Moved
<1>5. rest' \in Nat
  BY <1>1, <1>2
<1>6. Accounts'
  <2>1. Len(fd') = Len(fd) /\ written' = 0 /\ given' = given
    BY <1>1 DEF Moved
  <2>2. (Len(fd) - 0) + (Len(buf) + n) + (rest - n) = given
    BY <1>1, Regroup
  <2>3. QED
    BY <2>1, <2>2, <1>2, <1>4 DEF Accounts
<1>7. NoOverflow'
  BY <1>1, <1>4, CapAssumption DEF NoOverflow, Avail, Moved
<1>8. BufferFollows'
  <2> SUFFICES ASSUME NEW i \in 1..Len(buf')
               PROVE  buf'[i] = (Len(fd') - written') + i
    BY DEF BufferFollows
  <2>0. i \in 1..(Len(buf) + n) /\ Len(fd') = Len(fd) /\ written' = 0
    BY <1>1, <1>4 DEF Moved
  <2>1. i \in Nat
    BY <1>1, <2>0
  <2>2. CASE i <= Len(buf)
    <3>1. buf'[i] = buf[i]
      BY <2>0, <2>2, <1>4
    <3>2. buf[i] = (Len(fd) - written) + i
      BY <1>1, <2>0, <2>2 DEF IInv, BufferFollows
    <3>3. QED
      BY <3>1, <3>2, <2>0, <2>1, <1>1
  <2>3. CASE i > Len(buf)
    <3>1. i - Len(buf) \in 1..n
      BY <1>1, <2>0, <2>3
    <3>2. buf'[i] = given - rest + (i - Len(buf))
      BY <3>1, <2>0, <1>1, <2>3, <1>3, <1>4
    <3>3. QED
      BY <3>2, <2>0, <2>1, <1>1
  <2>4. QED
    BY <2>1, <2>2, <2>3, <1>1
<1>9. QED
  BY <1>4, <1>5, <1>6, <1>7, <1>8
-----------------------------------------------------------------------------
(* A step that leaves the bytes where they are keeps the facts about them. *)
LEMMA FrameBytes ==
  ASSUME IInv, UNCHANGED <<buf, written, rest, given, fd>>
  PROVE  NoLossNoDuplicate' /\ NoOverflow' /\ BufferFollows' /\ Accounts'
BY DEF IInv, NoLossNoDuplicate, NoOverflow, BufferFollows, Accounts

(* Handing n bytes over between two calls. *)
LEMMA TakeBytes ==
  ASSUME IInv, NEW n \in 1..MaxBytes, pc = "ready", ~failed,
         given' = given + n, rest' = n, UNCHANGED <<buf, fd>>,
         written' = 0
  PROVE  /\ given' \in Nat /\ rest' \in Nat /\ written = 0
         /\ NoLossNoDuplicate' /\ NoOverflow' /\ BufferFollows' /\ Accounts'
<1>1. /\ written = 0 /\ rest = 0 /\ n \in Nat
      /\ Len(buf) \in Nat /\ Len(fd) \in Nat /\ given \in Nat
      /\ (Len(fd) - 0) + Len(buf) + 0 = given
  BY Sizes, MaxBytesAssumption DEF IInv, Control
<1>2. NoLossNoDuplicate' /\ NoOverflow' /\ BufferFollows'
  BY <1>1 DEF IInv, NoLossNoDuplicate, NoOverflow, BufferFollows
<1>3. Accounts' /\ given' \in Nat /\ rest' \in Nat
  BY <1>1 DEF Accounts
<1>4. QED
  BY <1>1, <1>2, <1>3

LEMMA PutStep ==
  ASSUME IInv, NEW n \in 1..MaxBytes, Put(n)
  PROVE  IInv'
<1>0. written' = 0 /\ pc = "ready" /\ ~failed
  BY DEF Put, IInv, Control, causes
<1>1. /\ given' \in Nat /\ rest' \in Nat /\ written = 0
      /\ NoLossNoDuplicate' /\ NoOverflow' /\ BufferFollows' /\ Accounts'
  BY <1>0, TakeBytes DEF Put, causes
<1>2. TypeOK'
  BY <1>1 DEF Put, IInv, TypeOK, PCs, causes
<1>3. Control'
  BY <1>0, Sizes DEF Put, IInv, Control, causes
<1>4. SuccessState' /\ Causes'
  BY <1>0 DEF Put, IInv, SuccessState, Control, causes, Causes
<1>5. QED
  BY <1>1, <1>2, <1>3, <1>4 DEF IInv

LEMMA PutEscapedStep ==
  ASSUME IInv, NEW n \in 1..MaxBytes, NEW quoted \in BOOLEAN, PutEscaped(n, quoted)
  PROVE  IInv'
<1>0. written' = 0 /\ pc = "ready" /\ ~failed
  BY DEF PutEscaped, CallFlush, IInv, Control, causes
<1>1. /\ given' \in Nat /\ rest' \in Nat /\ written = 0
      /\ NoLossNoDuplicate' /\ NoOverflow' /\ BufferFollows' /\ Accounts'
  BY <1>0, TakeBytes DEF PutEscaped, causes
<1>2. TypeOK'
  BY <1>0, <1>1 DEF PutEscaped, CallFlush, IInv, TypeOK, PCs, Returns, causes
<1>3. Control'
  <2>1. /\ Len(buf) \in Nat /\ Len(fd) \in Nat /\ n \in Nat
        /\ buf' = buf /\ fd' = fd /\ rest' = n /\ failed' = failed
        /\ result = "none" /\ result' = "none"
    BY <1>0, Sizes, MaxBytesAssumption DEF PutEscaped, IInv, Control, causes
  <2>2. CASE n <= Cap /\ NeedsRoom(n) /\ CallFlush("append")
    BY <1>0, <2>1, <2>2 DEF CallFlush, Control
  <2>3. CASE n <= Cap /\ ~NeedsRoom(n) /\ pc' = "append"
    <3>1. n <= Avail
      BY <2>1, <2>3, CapAssumption DEF NeedsRoom, Avail
    <3>2. rest' <= Avail'
      BY <3>1, <2>1 DEF Avail
    <3>3. QED
      BY <1>0, <2>1, <2>3, <3>2 DEF Control
  <2>4. CASE pc' \in {"escape", "copy"}
    BY <1>0, <2>1, <2>4 DEF Control
  <2>5. QED
    BY <2>2, <2>3, <2>4 DEF PutEscaped, causes
<1>4. SuccessState' /\ Causes'
  BY <1>0 DEF PutEscaped, IInv, SuccessState, Control, causes, Causes
<1>5. QED
  BY <1>1, <1>2, <1>3, <1>4 DEF IInv

LEMMA CopyStep ==
  ASSUME IInv, Copy
  PROVE  IInv'
<1>0. pc = "copy" /\ ~failed /\ result = "none" /\ rest \in Nat /\ rest > 0
  BY DEF Copy, IInv, Control, TypeOK, stream, causes
<1>1. CASE Avail = 0
  <2>0. /\ CallFlush("copy") /\ UNCHANGED <<buf, rest, given, fd, notes, ioError, noMemory, failed, result>>
        /\ written = 0
    BY <1>0, <1>1 DEF Copy, IInv, Control, stream, causes
  <2>1. NoLossNoDuplicate' /\ NoOverflow' /\ BufferFollows' /\ Accounts'
    BY <2>0, FrameBytes DEF CallFlush
  <2>2. TypeOK'
    BY <2>0 DEF CallFlush, IInv, TypeOK, PCs, Returns
  <2>3. Control'
    BY <1>0, <2>0, Sizes DEF CallFlush, Control
  <2>4. SuccessState' /\ Causes'
    BY <1>0, <2>0 DEF IInv, SuccessState, Causes
  <2>5. QED
    BY <2>1, <2>2, <2>3, <2>4 DEF IInv
<1>2. CASE Avail # 0
  <2>1. Chunk \in Nat /\ Chunk <= rest /\ Chunk <= Avail
    BY <1>0, <1>2, CapAssumption, Sizes DEF Chunk, Avail, IInv, NoOverflow
  <2>2. Moved(Chunk)
    BY <1>0, <1>2, <2>1 DEF Copy, Moved, stream, causes
  <2>3. /\ buf' \in Seq(Nat) /\ rest' \in Nat
        /\ NoOverflow' /\ BufferFollows' /\ Accounts'
    BY <2>1, <2>2, MovedBytes
  <2>4. UNCHANGED <<pc, after, written, given, fd, notes, ioError, noMemory, failed, result>>
    BY <1>2 DEF Copy, stream, causes
  <2>5. TypeOK' /\ NoLossNoDuplicate'
    BY <2>3, <2>4 DEF IInv, TypeOK, NoLossNoDuplicate
  <2>6. Control' /\ SuccessState' /\ Causes'
    <3>1. Len(buf') \in Nat /\ written = 0 /\ Len(fd) \in Nat
      BY <2>3, <1>0, Sizes
    <3>2. QED
      BY <3>1, <1>0, <2>4 DEF IInv, Control, SuccessState, Causes
  <2>7. QED
    BY <2>3, <2>5, <2>6 DEF IInv
<1>3. QED
  BY <1>1, <1>2

LEMMA CopyDoneStep ==
  ASSUME IInv, CopyDone
  PROVE  IInv'
<1>1. NoLossNoDuplicate' /\ NoOverflow' /\ BufferFollows' /\ Accounts'
  BY FrameBytes DEF CopyDone, stream, causes
<1>2. TypeOK'
  BY DEF CopyDone, IInv, TypeOK, PCs, stream, causes
<1>3. Control' /\ SuccessState' /\ Causes'
  BY DEF CopyDone, IInv, Control, SuccessState, Causes, stream, causes
<1>4. QED
  BY <1>1, <1>2, <1>3 DEF IInv

(* shell_escape_str returns: the name is copied, or the call fails.        *)
LEMMA EscapeStep ==
  ASSUME IInv, Escape \/ EscapeFails
  PROVE  IInv'
<1>1. /\ pc = "escape" /\ written = 0 /\ result = "none" /\ ~failed
      /\ UNCHANGED <<after, buf, written, rest, given, fd, notes, ioError, result>>
      /\ \/ pc' = "copy" /\ UNCHANGED <<noMemory, failed>>
         \/ pc' = "ready" /\ noMemory' = TRUE /\ failed' = TRUE
  BY DEF Escape, EscapeFails, stream, causes, IInv, Control
<1>2. NoLossNoDuplicate' /\ NoOverflow' /\ BufferFollows' /\ Accounts'
  BY <1>1, FrameBytes
<1>3. TypeOK'
  BY <1>1 DEF IInv, TypeOK, PCs
<1>4. Control' /\ SuccessState'
  BY <1>1, Sizes DEF IInv, Control, SuccessState, Causes
<1>5. Causes'
  BY <1>1 DEF IInv, Causes
<1>6. QED
  BY <1>2, <1>3, <1>4, <1>5 DEF IInv

(* A message leaves the output as it is. *)
LEMMA MessageStep ==
  ASSUME IInv, Message
  PROVE  IInv'
<1>1. /\ pc = "message" /\ pc' = "ready" /\ ~failed /\ result = "none"
      /\ rest = 0 /\ written = 0 /\ notes' \in {notes, notes + 1}
      /\ UNCHANGED <<after, buf, written, rest, given, fd, ioError, noMemory, failed, result>>
  BY DEF Message, stream, causes, IInv, Control
<1>2. NoLossNoDuplicate' /\ NoOverflow' /\ BufferFollows' /\ Accounts'
  BY <1>1, FrameBytes
<1>3. TypeOK'
  BY <1>1 DEF IInv, TypeOK, PCs
<1>4. Control' /\ SuccessState' /\ Causes'
  BY <1>1, Sizes DEF IInv, Control, SuccessState, Causes
<1>5. QED
  BY <1>2, <1>3, <1>4 DEF IInv

LEMMA AppendStep ==
  ASSUME IInv, Append_
  PROVE  IInv'
<1>0. /\ pc = "append" /\ ~failed /\ result = "none" /\ written = 0
      /\ rest \in Nat /\ rest <= Avail /\ ~(Avail < rest)
  BY Sizes, CapAssumption DEF Append_, IInv, Control, Avail, stream, causes
<1>1. /\ buf' = buf \o NextBytes(rest) /\ rest' = 0 /\ pc' = "ready"
      /\ UNCHANGED <<after, written, given, fd, notes, ioError, noMemory, failed, result>>
  BY <1>0 DEF Append_, stream, causes
<1>2. Moved(rest)
  BY <1>0, <1>1 DEF Moved
<1>3. /\ buf' \in Seq(Nat) /\ rest' \in Nat
      /\ NoOverflow' /\ BufferFollows' /\ Accounts'
  BY <1>0, <1>2, MovedBytes
<1>4. TypeOK' /\ NoLossNoDuplicate'
  BY <1>1, <1>3 DEF IInv, TypeOK, NoLossNoDuplicate, PCs
<1>5. Control' /\ SuccessState' /\ Causes'
  <2>1. Len(buf') \in Nat /\ Len(fd) \in Nat
    BY <1>3, Sizes
  <2>2. QED
    BY <2>1, <1>0, <1>1 DEF IInv, Control, SuccessState, Causes
<1>6. QED
  BY <1>3, <1>4, <1>5 DEF IInv

LEMMA FlushCallStep ==
  ASSUME IInv, PrintError \/ FinalFlush
  PROVE  IInv'
<1>0. /\ pc = "ready" /\ written = 0 /\ written' = 0 /\ pc' = "flush"
      /\ after' \in {"message", "final"}
      /\ after' # "final" => ~failed
      /\ UNCHANGED <<buf, rest, given, fd, notes, ioError, noMemory, failed, result>>
  BY DEF PrintError, FinalFlush, CallFlush, stream, causes, IInv, Control
<1>1. NoLossNoDuplicate' /\ NoOverflow' /\ BufferFollows' /\ Accounts'
  BY <1>0, FrameBytes
<1>2. TypeOK'
  BY <1>0 DEF IInv, TypeOK, PCs, Returns
<1>3. Control' /\ SuccessState' /\ Causes'
  BY <1>0, Sizes DEF IInv, Control, SuccessState, Causes
<1>4. QED
  BY <1>1, <1>2, <1>3 DEF IInv

LEMMA WriteSomeStep ==
  ASSUME IInv, NEW k \in 1..Cap, WriteSome(k)
  PROVE  IInv'
<1>1. /\ pc = "flush" /\ k \in 1..(Len(buf) - written) /\ k \in Nat
      /\ written \in Nat /\ Len(buf) \in Nat /\ Len(fd) \in Nat
      /\ written <= Len(fd) /\ written + k <= Len(buf)
      /\ UNCHANGED <<pc, after, buf, rest, given, notes, ioError, noMemory, failed, result>>
      /\ written' = written + k
  BY Sizes, CapAssumption DEF WriteSome, IInv, Control, causes
<1> DEFINE part == SubSeq(buf, written + 1, written + k)
<1>2. /\ part \in Seq(Nat) /\ Len(part) = k
      /\ \A i \in 1..k : part[i] = buf[written + i]
  BY <1>1, SubFacts DEF IInv, TypeOK
<1>3. fd' = fd \o part
  BY DEF WriteSome, causes
<1> HIDE DEF part
<1>4. /\ fd' \in Seq(Nat) /\ Len(fd') = Len(fd) + k
      /\ \A i \in 1..(Len(fd) + k) :
           fd'[i] = IF i <= Len(fd) THEN fd[i] ELSE part[i - Len(fd)]
  BY <1>2, <1>3, CatFacts DEF IInv, TypeOK
<1>5. NoLossNoDuplicate'
  <2> SUFFICES ASSUME NEW i \in 1..Len(fd')
               PROVE  fd'[i] = i
    BY DEF NoLossNoDuplicate
  <2>0. i \in 1..(Len(fd) + k) /\ i \in Nat
    BY <1>1, <1>4
  <2>1. CASE i <= Len(fd)
    BY <1>1, <1>4, <2>0, <2>1 DEF IInv, NoLossNoDuplicate
  <2>2. CASE i > Len(fd)
    <3>1. i - Len(fd) \in 1..k /\ written + (i - Len(fd)) \in 1..Len(buf)
      BY <1>1, <2>0, <2>2
    <3>2. fd'[i] = buf[written + (i - Len(fd))]
      <4>1. fd'[i] = part[i - Len(fd)]
        BY <1>1, <1>4, <2>0, <2>2
      <4>2. QED
        BY <3>1, <4>1, <1>2
    <3>3. buf[written + (i - Len(fd))]
            = (Len(fd) - written) + (written + (i - Len(fd)))
      BY <3>1 DEF IInv, BufferFollows
    <3>4. QED
      BY <3>2, <3>3, <2>0, <1>1
  <2>3. QED
    BY <2>0, <2>1, <2>2, <1>1
<1>6. Len(fd') - written' = Len(fd) - written
  BY <1>1, <1>4
<1>7. NoOverflow' /\ BufferFollows' /\ Accounts'
  BY <1>1, <1>6 DEF IInv, NoOverflow, BufferFollows, Accounts
<1>8. TypeOK'
  BY <1>1, <1>4 DEF IInv, TypeOK
<1>9. Control' /\ SuccessState' /\ Causes'
  <2>1. written' <= Len(buf') /\ written' <= Len(fd')
    BY <1>1, <1>4
  <2>2. QED
    BY <2>1, <1>1 DEF IInv, Control, SuccessState, Avail, Causes
<1>10. QED
  BY <1>5, <1>7, <1>8, <1>9 DEF IInv

LEMMA WriteFailsStep ==
  ASSUME IInv, WriteFails
  PROVE  IInv'
<1>1. /\ pc = "flush" /\ written < Len(buf) /\ written' = 0
      /\ written \in Nat /\ Len(buf) \in Nat /\ Len(fd) \in Nat
      /\ written <= Len(fd) /\ rest \in Nat
      /\ buf' = SubSeq(buf, written + 1, Len(buf))
      /\ ioError' = TRUE /\ failed' = TRUE
      /\ pc' \in {"ready", "done"}
      /\ pc' # "done" => result' = "none"
      /\ result' \in {"none", "error"}
      /\ UNCHANGED <<after, rest, given, fd, notes, noMemory>>
  BY Sizes DEF WriteFails, Unwritten, Verdict, AfterFailure, stream, IInv, Control
<1>2. /\ buf' \in Seq(Nat) /\ Len(buf') = Len(buf) - written
      /\ \A i \in 1..(Len(buf) - written) : buf'[i] = buf[written + i]
  BY <1>1, TailFacts DEF IInv, TypeOK
<1>3. BufferFollows'
  <2> SUFFICES ASSUME NEW i \in 1..Len(buf')
               PROVE  buf'[i] = (Len(fd') - written') + i
    BY DEF BufferFollows
  <2>1. i \in 1..(Len(buf) - written) /\ i \in Nat /\ written + i \in 1..Len(buf)
    BY <1>1, <1>2
  <2>2. buf'[i] = (Len(fd) - written) + (written + i)
    BY <1>2, <2>1 DEF IInv, BufferFollows
  <2>3. QED
    BY <2>1, <2>2, <1>1
<1>4. Accounts'
  <2>1. (Len(fd) - 0) + (Len(buf) - written) + rest
          = (Len(fd) - written) + Len(buf) + rest
    BY <1>1
  <2>2. QED
    BY <2>1, <1>1, <1>2 DEF IInv, Accounts
<1>5. NoLossNoDuplicate' /\ NoOverflow'
  BY <1>1, <1>2, CapAssumption DEF IInv, NoLossNoDuplicate, NoOverflow
<1>6. TypeOK'
  BY <1>1, <1>2 DEF IInv, TypeOK, PCs
<1>7. Control' /\ SuccessState' /\ Causes'
  <2>1. written' <= Len(buf') /\ written' <= Len(fd')
    BY <1>1, <1>2
  <2>2. QED
    BY <2>1, <1>1 DEF Control, SuccessState, Causes
<1>8. QED
  BY <1>3, <1>4, <1>5, <1>6, <1>7 DEF IInv

LEMMA FlushDoneStep ==
  ASSUME IInv, FlushDone
  PROVE  IInv'
<1>1. /\ pc = "flush" /\ written = Len(buf) /\ written' = 0
      /\ Len(buf) \in Nat /\ Len(fd) \in Nat /\ rest \in Nat
      /\ buf' = << >> /\ Len(buf') = 0
      /\ UNCHANGED <<after, rest, given, fd, notes, ioError, noMemory, failed>>
      /\ after \in Returns
  BY Sizes DEF FlushDone, Emptied, IInv, TypeOK, stream, causes
<1>2. NoLossNoDuplicate' /\ NoOverflow' /\ BufferFollows'
  BY <1>1, CapAssumption DEF IInv, NoLossNoDuplicate, NoOverflow, BufferFollows
<1>3. Accounts'
  <2>1. (Len(fd) - 0) + 0 + rest = (Len(fd) - Len(buf)) + Len(buf) + rest
    BY <1>1
  <2>2. QED
    BY <2>1, <1>1 DEF IInv, Accounts
<1>4. CASE after = "final"
  <2>1. pc' = "done" /\ result' = Verdict(TRUE) /\ result' \in {"ok", "error"}
    BY <1>4 DEF FlushDone, Verdict, stream, causes
  <2>2. << >> \in Seq(Nat) /\ 0 \in Nat
    OBVIOUS
  <2>3. TypeOK'
    BY <1>1, <2>1, <2>2 DEF IInv, TypeOK, PCs
  <2>4. Control'
    BY <1>1, <2>1 DEF Control
  <2>5. SuccessState' /\ Causes'
    BY <1>1, <1>4, <2>1 DEF IInv, SuccessState, Verdict, Control, Causes
  <2>6. QED
    BY <1>2, <1>3, <2>3, <2>4, <2>5 DEF IInv
<1>5. CASE after # "final"
  <2>1. pc' = after /\ result' = result /\ result = "none" /\ ~failed
    BY <1>1, <1>5 DEF FlushDone, IInv, Control, stream, causes
  <2>2. << >> \in Seq(Nat) /\ 0 \in Nat
    OBVIOUS
  <2>3. TypeOK'
    BY <1>1, <1>5, <2>1, <2>2 DEF IInv, TypeOK, PCs, Returns
  <2>4. Control'
    <3>1. pc' = "append" => rest' <= Avail'
      BY <1>1, <2>1, CapAssumption DEF IInv, Control, Avail
    <3>2. pc' = "ready" => rest' = 0
      BY <1>1, <2>1 DEF IInv, Control
    <3>3. pc' = "message" => rest' = 0 /\ buf' = << >>
      BY <1>1, <2>1 DEF IInv, Control
    <3>4. QED
      BY <1>1, <1>5, <2>1, <3>1, <3>2, <3>3 DEF Control, Returns
  <2>5. SuccessState' /\ Causes'
    BY <1>1, <2>1 DEF IInv, SuccessState, Causes
  <2>6. QED
    BY <1>2, <1>3, <2>3, <2>4, <2>5 DEF IInv
<1>6. QED
  BY <1>4, <1>5
-----------------------------------------------------------------------------
LEMMA Inductive == IInv /\ [Next]_vars => IInv'
<1> SUFFICES ASSUME IInv, [Next]_vars
             PROVE  IInv'
  OBVIOUS
<1>1. ASSUME NEW n \in 1..MaxBytes, NEW quoted \in BOOLEAN,
             Put(n) \/ PutEscaped(n, quoted)
      PROVE  IInv'
  BY <1>1, PutStep, PutEscapedStep
<1>2. CASE Copy \/ CopyDone \/ Escape \/ EscapeFails \/ Append_
  BY <1>2, CopyStep, CopyDoneStep, EscapeStep, AppendStep
<1>3. CASE PrintError \/ Message \/ FinalFlush
  BY <1>3, FlushCallStep, MessageStep
<1>4. ASSUME NEW k \in 1..Cap, WriteSome(k)
      PROVE  IInv'
  BY <1>4, WriteSomeStep
<1>5. CASE WriteFails
  BY <1>5, WriteFailsStep
<1>6. CASE FlushDone
  BY <1>6, FlushDoneStep
<1>7. CASE UNCHANGED vars
  <2>1. UNCHANGED <<pc, after, buf, written, rest, given, fd, notes, ioError, noMemory, failed, result>>
    BY <1>7 DEF vars, stream, causes
  <2>2. NoLossNoDuplicate' /\ NoOverflow' /\ BufferFollows' /\ Accounts'
    BY <2>1, FrameBytes
  <2>3. TypeOK' /\ Control' /\ SuccessState' /\ Causes'
    BY <2>1 DEF IInv, TypeOK, Control, SuccessState, Causes, Avail
  <2>4. QED
    BY <2>2, <2>3 DEF IInv
<1>8. CASE WriteInterrupted
  BY <1>7, <1>8 DEF WriteInterrupted
<1>9. QED
  BY <1>1, <1>2, <1>3, <1>4, <1>5, <1>6, <1>7, <1>8 DEF Next

(* The inductive invariant holds in every reachable state of the buffer.   *)
THEOREM InvariantHolds == Spec => []IInv
BY InitIInv, Inductive, PTL DEF Spec

(* The variables keep their types (ft_printer_helper.c). *)
THEOREM TypeCorrect == Spec => []TypeOK
<1>1. IInv => TypeOK
  BY DEF IInv
<1>2. QED
  BY <1>1, InvariantHolds, PTL

(* The descriptor receives a prefix of the stream: no write that is short, *)
(* interrupted or failing makes flush_fd lose, repeat or reorder a byte,   *)
(* for every capacity and every sequence of calls.                         *)
THEOREM NothingLostOrRepeated == Spec => []NoLossNoDuplicate
<1>1. IInv => NoLossNoDuplicate
  BY DEF IInv
<1>2. QED
  BY <1>1, InvariantHolds, PTL

(* The buffer never holds more than cap - 1 bytes. *)
THEOREM BufferBounded == Spec => []NoOverflow
<1>1. IInv => NoOverflow
  BY DEF IInv
<1>2. QED
  BY <1>1, InvariantHolds, PTL

(* run_listing_ returns true only when the descriptor has received every   *)
(* byte that was handed over.                                              *)
THEOREM SuccessIsDelivery == Spec => []SuccessMeansDelivered
<1>1. IInv => SuccessMeansDelivered
  <2> SUFFICES ASSUME IInv, result = "ok"
               PROVE  ~ioError /\ ~noMemory /\ Len(fd) = given
    BY DEF SuccessMeansDelivered
  <2>1. ~failed /\ ~ioError /\ ~noMemory /\ rest = 0 /\ Len(buf) = 0
    BY DEF IInv, SuccessState, Causes
  <2>2. written = 0 /\ Len(fd) \in Nat /\ given \in Nat
    BY <2>1, Sizes DEF IInv, Control
  <2>3. QED
    BY <2>1, <2>2, Sizes
<1>2. QED
  BY <1>1, InvariantHolds, PTL

(* No output call fails while every write(2) succeeds and every name longer *)
(* than the buffer can be escaped: a name always fits the room made for it. *)
THEOREM FailuresHaveCauses == Spec => []FailureHasCause
<1>1. IInv => FailureHasCause
  BY DEF IInv, FailureHasCause, Causes
<1>2. QED
  BY <1>1, InvariantHolds, PTL

(* A message never overtakes output: print_error_ reaches standard error   *)
(* with the buffer empty, whatever the flush went through.                 *)
THEOREM MessagesKeepPlace == Spec => MessagesInPlace
<1>1. IInv /\ [Next]_vars => [notes' # notes => Len(fd) = given]_vars
  <2> SUFFICES ASSUME IInv, Next, notes' # notes
               PROVE  Len(fd) = given
    OBVIOUS
  <2>1. Message
    BY DEF Next, Put, PutEscaped, Copy, CopyDone, Escape, EscapeFails, Append_,
       PrintError, FinalFlush, WriteSome, WriteInterrupted, WriteFails, FlushDone,
       vars, causes, stream
  <2>2. rest = 0 /\ written = 0 /\ Len(buf) = 0
    BY <2>1 DEF Message, IInv, Control
  <2>3. QED
    BY <2>2, Sizes
<1>2. QED
  BY <1>1, InvariantHolds, PTL DEF Spec, MessagesInPlace
-----------------------------------------------------------------------------
(* A sequence of numbers whose k-th element is k is a prefix of the stream. *)
LEMMA PrefixOfStream ==
  ASSUME NEW s \in Seq(Nat), \A i \in 1..Len(s) : s[i] = i
  PROVE  s = [i \in 1..Len(s) |-> i]
OBVIOUS

(* write(2) accepting bytes is a delivery of the abstract stream. *)
LEMMA WriteSomeDelivers ==
  ASSUME IInv, NEW k \in 1..Cap, WriteSome(k)
  PROVE  Abstract!Deliver
<1>1. IInv'
  BY WriteSomeStep
<1>2. fd' = Abstract!Stream(Len(fd'))
  <2>1. fd' \in Seq(Nat) /\ \A i \in 1..Len(fd') : fd'[i] = i
    BY <1>1 DEF IInv, TypeOK, NoLossNoDuplicate
  <2>2. QED
    BY <2>1, PrefixOfStream DEF Abstract!Stream
<1>3. /\ written' = written + k /\ k \in 1..(Len(buf) - written)
      /\ UNCHANGED <<buf, rest, given, notes, failed, result>>
      /\ result = "none"
  BY DEF WriteSome, IInv, Control, causes
<1>4. /\ Len(fd) \in Nat /\ Len(fd') \in Nat /\ Len(buf) \in Nat
      /\ written \in Nat /\ given \in Nat /\ rest \in Nat
      /\ (Len(fd) - written) + Len(buf) + rest = given
      /\ (Len(fd') - (written + k)) + Len(buf) + rest = given
  BY <1>1, <1>3, Sizes DEF IInv, TypeOK, Accounts
<1>5. Len(fd') \in (Len(fd) + 1)..given
  BY <1>3, <1>4
<1>6. QED
  BY <1>2, <1>3, <1>5 DEF Abstract!Deliver

LEMMA StepRefines == IInv /\ [Next]_vars => [Abstract!Next]_(Abstract!vars)
<1> SUFFICES ASSUME IInv, [Next]_vars
             PROVE  Abstract!Next \/ UNCHANGED Abstract!vars
  OBVIOUS
<1>1. ASSUME NEW n \in 1..MaxBytes, NEW quoted \in BOOLEAN,
             Put(n) \/ PutEscaped(n, quoted)
      PROVE  Abstract!Take
  <2>1. /\ pc = "ready" /\ ~failed /\ given' = given + n
        /\ UNCHANGED <<fd, notes, failed, result>>
    BY <1>1 DEF Put, PutEscaped, causes
  <2>2. result = "none" /\ given \in Nat /\ n \in Nat /\ n > 0
    BY <2>1, MaxBytesAssumption DEF IInv, Control, TypeOK
  <2>3. QED
    BY <2>1, <2>2 DEF Abstract!Take
<1>2. CASE \/ Copy \/ CopyDone \/ Escape
            \/ PrintError \/ FinalFlush \/ WriteInterrupted
  BY <1>2 DEF Copy, CopyDone, Escape, PrintError, FinalFlush, WriteInterrupted,
     stream, vars, Abstract!vars, causes
<1>3. CASE EscapeFails
  BY <1>3 DEF EscapeFails, stream, IInv, Control, Abstract!Next, Abstract!Fail
<1>4. CASE Message
  <2>1. Len(fd) = given /\ ~failed /\ result = "none"
    <3>1. rest = 0 /\ written = 0 /\ Len(buf) = 0
      BY <1>4 DEF Message, IInv, Control
    <3>2. QED
      BY <1>4, <3>1, Sizes DEF Message, IInv, Control
  <2>2. fd = Abstract!Stream(given)
    BY <2>1, PrefixOfStream DEF IInv, TypeOK, NoLossNoDuplicate, Abstract!Stream
  <2>3. notes' \in {notes, notes + 1} /\ UNCHANGED <<given, fd, failed, result>>
    BY <1>4 DEF Message, stream
  <2>4. QED
    BY <2>1, <2>2, <2>3 DEF Abstract!Next, Abstract!Note, Abstract!vars
<1>5. CASE Append_
  <2>1. ~(Avail < rest)
    BY <1>5, Sizes, CapAssumption DEF Append_, IInv, Control, Avail, stream, causes
  <2>2. QED
    BY <1>5, <2>1 DEF Append_, stream, Abstract!vars, causes
<1>6. ASSUME NEW k \in 1..Cap, WriteSome(k)
      PROVE  Abstract!Deliver
  BY <1>6, WriteSomeDelivers
<1>7. CASE WriteFails
  <2>1. failed' = TRUE /\ UNCHANGED <<given, fd, notes>> /\ result = "none"
    BY <1>7 DEF WriteFails, stream, IInv, Control
  <2>2. CASE after = "final"
    <3>1. result' = "error"
      BY <1>7, <2>2 DEF WriteFails, Verdict
    <3>2. QED
      BY <2>1, <3>1 DEF Abstract!Next, Abstract!Finish
  <2>3. CASE after # "final"
    <3>1. UNCHANGED result
      BY <1>7, <2>3 DEF WriteFails
    <3>2. QED
      BY <2>1, <3>1 DEF Abstract!Next, Abstract!Fail
  <2>4. QED
    BY <2>2, <2>3
<1>8. CASE FlushDone
  <2>1. UNCHANGED <<given, fd, notes, failed>> /\ result = "none" /\ failed \in BOOLEAN
    BY <1>8 DEF FlushDone, stream, IInv, Control, TypeOK, causes
  <2>2. CASE after = "final"
    <3>1. result' = Verdict(TRUE) /\ result' \in {"ok", "error"}
      BY <1>8, <2>2 DEF FlushDone, Verdict, stream, causes
    <3>2. ~failed => Len(fd) = given
      <4> SUFFICES ASSUME ~failed PROVE Len(fd) = given
        OBVIOUS
      <4>1. written = Len(buf) /\ rest = 0
        BY <1>8, <2>2 DEF FlushDone, IInv, Control, stream, causes
      <4>2. QED
        BY <4>1, Sizes
    <3>3. QED
      BY <2>1, <3>1, <3>2 DEF Abstract!Next, Abstract!Finish, Verdict
  <2>3. CASE after # "final"
    BY <1>8, <2>1, <2>3 DEF FlushDone, Abstract!vars, stream, causes
  <2>4. QED
    BY <2>2, <2>3
<1>9. CASE UNCHANGED vars
  BY <1>9 DEF vars, stream, Abstract!vars
<1>10. QED
  BY <1>1, <1>2, <1>3, <1>4, <1>5, <1>6, <1>7, <1>8, <1>9
  DEF Next, Abstract!Next

(* The buffer implements the append-only stream: callers of put_mem, put_* *)
(* and flush_fd may reason about OutStream instead of the buffer.          *)
THEOREM BufferImplementsStream == Spec => StreamSpec
<1>1. Init => Abstract!Init
  BY DEF Init, Abstract!Init
<1>2. QED
  BY <1>1, StepRefines, InvariantHolds, PTL DEF Spec, StreamSpec, Abstract!Spec
=============================================================================
