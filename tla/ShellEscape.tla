---------------------------- MODULE ShellEscape ----------------------------
(***************************************************************************)
(* The quoting of names for a terminal: the scanner and the escaper of     *)
(* src/src/ft_shell_escape.c with their callers put_dir_header and         *)
(* put_shell_escaped_scan_ (ft_printer_helper.c) and print_error_          *)
(* (ft_walk.c).  A byte stands for its class: "1" a safe character, "$"    *)
(* the characters a shell expands, "NL" a control character with a letter  *)
(* of its own, "HI" any other unprintable byte, "~" also "#".              *)
(* Bytes of the output that the escaper writes itself are "n" and the      *)
(* octal digits "2", "0", "1".                                             *)
(***************************************************************************)
EXTENDS Naturals, Sequences, SequencesExt

CONSTANTS
  Byte,      \* the classes that occur in names
  MaxLen     \* bound: the length of a name

ASSUME ByteAssumption == Byte \subseteq {"1", " ", "'", "$", "\\", "~", ":", "NL", "HI"}
ASSUME MaxLenAssumption == MaxLen \in Nat

VARIABLES
  use,       \* what the name is printed as
  name,      \* the bytes of the name
  stage,     \* "scan", "measure", "write" or "done"
  index,     \* the loop index of shell_scan_str, shell_escape_bytes_
  analysis,  \* t_shell_analysis
  quote,     \* scan.quote; "none" for the NUL
  state,     \* t_escape_state
  need,      \* the length escaped_len_ has counted
  dst,       \* the bytes appended
  raw        \* print_error_ writes the name itself between quotes

escapeVars == <<use, name, stage, index, analysis, quote, state, need, dst, raw>>

Uses == {"entry", "padded", "header", "message"}

EscapeInit ==
  /\ use \in Uses
  /\ name \in UNION {[1..n -> Byte] : n \in 1..MaxLen}
  /\ stage = "scan" /\ index = 1
  /\ analysis = [needsQuote |-> FALSE, hasSingle |-> FALSE,
                 canUseDouble |-> TRUE, hasNonPrint |-> FALSE]
  /\ quote = "none"
  /\ state = [single |-> FALSE, ansi |-> FALSE]
  /\ need = 0 /\ dst = << >> /\ raw = FALSE
-----------------------------------------------------------------------------
(* shell_scan_str *)

Unprintable == {"NL", "HI"}

(* needs_raw_quote_, is_safe_punct_ *)
NeedsRawQuote(c, i) ==
  c \in {" ", "'", "$", "\\"} \cup Unprintable \/ (c = "~" /\ i = 1)

(* Mutant of AllowsDouble: only the quote itself is looked at.             *)
AllowsAnyDouble(c) == TRUE

(* The characters that keep their meaning between double quotes.           *)
AllowsDouble(c) == c \in {" ", "'"}

AnalyzeByte ==
  LET c == name[index] IN
  /\ stage = "scan" /\ index <= Len(name)
  /\ analysis' =
       [needsQuote   |-> analysis.needsQuote \/ NeedsRawQuote(c, index),
        hasSingle    |-> analysis.hasSingle \/ c = "'",
        canUseDouble |-> /\ analysis.canUseDouble
                         /\ NeedsRawQuote(c, index) => AllowsDouble(c),
        hasNonPrint  |-> analysis.hasNonPrint \/ c \in Unprintable]
  /\ index' = index + 1
  /\ UNCHANGED <<use, name, stage, quote, state, need, dst, raw>>

(* quote_from_analysis_ *)
QuoteFromAnalysis ==
  IF analysis.hasNonPrint THEN "'"
  ELSE IF ~analysis.needsQuote THEN "none"
  ELSE IF analysis.hasSingle /\ analysis.canUseDouble THEN "\""
  ELSE "'"

(* escape_str_ and escaped_len_ begin: with single quotes the bytes go     *)
(* through shell_escape_bytes_, which opens a quote.                       *)
Pad == IF use = "padded" THEN 1 ELSE 0
PlainLen(q) == IF q = "none" THEN Len(name) + Pad ELSE Len(name) + 2

Restart(step) ==
  /\ stage' = step /\ index' = 1
  /\ state' = [single |-> TRUE, ansi |-> FALSE]

Measure(q) ==
  /\ Restart("measure")
  /\ need' = IF q = "'" THEN 1 ELSE PlainLen(q)
  /\ UNCHANGED dst

Write(q, n) ==
  /\ Restart("write")
  /\ need' = n
  /\ dst' = IF q = "'" THEN <<"'">> ELSE << >>

ScanDone ==
  /\ stage = "scan" /\ index > Len(name)
  /\ quote' = QuoteFromAnalysis
  /\ Measure(quote')
  /\ UNCHANGED <<use, name, analysis, raw>>
-----------------------------------------------------------------------------
(* shell_escape_bytes_, once to count and once to write *)

(* Mutant of LeaveAnsi: the quote stays open.                              *)
LeaveAnsiNever(s) == << >>

LeaveAnsi(s) == IF s.ansi THEN <<"'">> ELSE << >>
LeaveSingle(s) == IF s.single THEN <<"'">> ELSE << >>
EnterSingle(s) == IF s.single THEN << >> ELSE <<"'">>
EnterAnsi(s) == IF s.ansi THEN << >> ELSE <<"$", "'">>

(* emit_ansi_byte_ *)
AnsiByte(c) == IF c = "NL" THEN <<"\\", "n">> ELSE <<"\\", "2", "0", "1">>

(* escape_byte_: the bytes it emits, and the state it leaves.              *)
Escaped(c, s) ==
  IF c = "'"
  THEN LeaveAnsi(s) \o IF s.single THEN <<"'", "\\", "'", "'">> ELSE <<"\\", "'">>
  ELSE IF c \in Unprintable
  THEN LeaveSingle(s) \o EnterAnsi(s) \o AnsiByte(c)
  ELSE LeaveAnsi(s) \o EnterSingle(s) \o <<c>>

(* Mutant of StateAfter: an unprintable byte does not leave the single     *)
(* quotes in the state.                                                    *)
StateAfterBoth(c, s) ==
  IF c \in Unprintable THEN [s EXCEPT !.ansi = TRUE]
  ELSE [single |-> c # "'" \/ s.single, ansi |-> FALSE]

StateAfter(c, s) ==
  IF c \in Unprintable THEN [single |-> FALSE, ansi |-> TRUE]
  ELSE [single |-> c # "'" \/ s.single, ansi |-> FALSE]

(* emit_bytes_: only the count changes when there is no destination.       *)
Emit(bytes) ==
  IF stage = "measure" THEN need' = need + Len(bytes) /\ UNCHANGED dst
  ELSE dst' = dst \o bytes /\ UNCHANGED need

EscapeByte ==
  /\ stage \in {"measure", "write"} /\ quote = "'" /\ index <= Len(name)
  /\ Emit(Escaped(name[index], state))
  /\ state' = StateAfter(name[index], state)
  /\ index' = index + 1
  /\ UNCHANGED <<use, name, stage, analysis, quote, raw>>

(* The closing quote of shell_escape_bytes_.                               *)
Closing == IF state.single \/ state.ansi THEN <<"'">> ELSE << >>

LoopDone(step) == stage = step /\ (quote = "'" => index > Len(name))
Counted == need + IF quote = "'" THEN Len(Closing) ELSE 0

(* Mutant of RequoteDue: the colon is not looked for.                      *)
RequoteNever == FALSE

(* put_dir_header: the colon that ends the header must stand out.          *)
RequoteDue == use = "header" /\ quote = "none" /\ Contains(name, ":")

(* Mutant of Requote: the length of the scan is kept.                      *)
RequoteUncounted == Write("'", Counted)

Requote == Measure("'")

HeaderRequoted ==
  /\ LoopDone("measure") /\ RequoteDue
  /\ quote' = "'"
  /\ Requote
  /\ UNCHANGED <<use, name, analysis, raw>>

(* put_shell_escaped_scan_ reserves what was counted; so does              *)
(* shell_escape_str with a string of its own.                              *)
Reserve ==
  /\ LoopDone("measure") /\ ~RequoteDue
  /\ use = "message" => quote # "none"
  /\ Write(quote, Counted)
  /\ UNCHANGED <<use, name, analysis, quote, raw>>

(* print_error_: a name that needs no quote, or whose escaped form cannot  *)
(* be allocated, is put between single quotes as it is.                    *)
WriteRaw ==
  /\ LoopDone("measure") /\ use = "message"
  /\ dst' = <<"'">> \o name \o <<"'">>
  /\ raw' = TRUE /\ stage' = "done"
  /\ UNCHANGED <<use, name, index, analysis, quote, state, need>>

(* escape_str_ ends.                                                       *)
WriteDone ==
  /\ LoopDone("write")
  /\ dst' = IF quote = "'" THEN dst \o Closing
            ELSE IF quote = "\"" THEN <<"\"">> \o name \o <<"\"">>
            ELSE SubSeq(<<" ">>, 1, Pad) \o name
  /\ stage' = "done"
  /\ UNCHANGED <<use, name, index, analysis, quote, state, need, raw>>

EscapeNext ==
  \/ AnalyzeByte \/ ScanDone
  \/ EscapeByte
  \/ HeaderRequoted \/ Reserve \/ WriteRaw \/ WriteDone

EscapeSpec == EscapeInit /\ [][EscapeNext]_escapeVars
-----------------------------------------------------------------------------
(***************************************************************************)
(* Reference: how a shell reads a word.  `mode` is the quoting in force    *)
(* and `word` what has been read; "fail" is an expansion, the end of the   *)
(* word, or a line that goes on.  Brace expansion is left out: the         *)
(* scanner takes braces for safe.                                          *)
(***************************************************************************)
Mode(s, m) == [s EXCEPT !.mode = m]
Reads(s, c, m) == [mode |-> m, word |-> Append(s.word, c)]

Bare(s, c) ==
  CASE c = " "  -> Mode(s, IF s.mode = "start" THEN "start" ELSE "fail")
    [] c = "'"  -> Mode(s, "single")
    [] c = "\"" -> Mode(s, "double")
    [] c = "\\" -> Mode(s, "backslash")
    [] c = "$"  -> Mode(s, "dollar")
    [] c = "~" /\ s.mode = "start" -> Mode(s, "fail")
    [] OTHER    -> Reads(s, c, "bare")

ShellReads(s, c) ==
  CASE s.mode \in {"start", "bare"} -> Bare(s, c)
    [] s.mode = "single" -> IF c = "'" THEN Mode(s, "bare") ELSE Reads(s, c, "single")
    [] s.mode = "double" ->
         IF c = "\"" THEN Mode(s, "bare")
         ELSE IF c \in {"$", "\\"} THEN Mode(s, "fail") ELSE Reads(s, c, "double")
    [] s.mode = "ansi" ->
         IF c = "'" THEN Mode(s, "bare")
         ELSE IF c = "\\" THEN Mode(s, "escape") ELSE Reads(s, c, "ansi")
    [] s.mode = "backslash" -> IF c = "NL" THEN Mode(s, "fail") ELSE Reads(s, c, "bare")
    [] s.mode = "dollar" -> Mode(s, IF c = "'" THEN "ansi" ELSE "fail")
    [] s.mode = "escape" ->
         IF c = "n" THEN Reads(s, "NL", "ansi")
         ELSE IF c = "'" THEN Reads(s, c, "ansi")
         ELSE Mode(s, IF c = "2" THEN "octal2" ELSE "fail")
    [] s.mode = "octal2" -> Mode(s, IF c = "0" THEN "octal20" ELSE "fail")
    [] s.mode = "octal20" -> IF c = "1" THEN Reads(s, "HI", "ansi") ELSE Mode(s, "fail")
    [] s.mode = "fail" -> s

Start == [mode |-> "start", word |-> << >>]
ReadBack(bytes) ==
  LET read[i \in 0..Len(bytes)] ==
        IF i = 0 THEN Start ELSE ShellReads(read[i - 1], bytes[i])
  IN  read[Len(bytes)]

Output == Byte \cup {"'", "\"", "$", "\\", " ", "n", "2", "0", "1"}

(* The types; the escaper is never inside two quotes at once.              *)
EscapeTypeOK ==
  /\ use \in Uses /\ name \in Seq(Byte)
  /\ stage \in {"scan", "measure", "write", "done"}
  /\ index \in 1..(Len(name) + 1)
  /\ analysis \in [needsQuote : BOOLEAN, hasSingle : BOOLEAN,
                   canUseDouble : BOOLEAN, hasNonPrint : BOOLEAN]
  /\ quote \in {"none", "'", "\""}
  /\ state \in [single : BOOLEAN, ansi : BOOLEAN] /\ ~(state.single /\ state.ansi)
  /\ need \in Nat /\ dst \in Seq(Output) /\ raw \in BOOLEAN

(* A printed name pasted into a shell is the name, whatever bytes it has,  *)
(* and no unprintable byte reaches the terminal (ft_shell_escape.c:223);   *)
(* the exception is a message whose escaped name cannot be allocated       *)
(* (ft_walk.c:557).  A colon in a directory header is within quotes, so    *)
(* that the one after the name can be told from it                         *)
(* (ft_printer_helper.c:146).                                              *)
Degraded == raw /\ quote # "none"
ColonsQuoted ==
  \A i \in 1..Len(dst) :
    dst[i] = ":" => ReadBack(SubSeq(dst, 1, i - 1)).mode \notin {"start", "bare"}
RoundTrip ==
  stage = "done" /\ ~Degraded =>
    /\ ReadBack(dst) = [mode |-> "bare", word |-> name]
    /\ \A c \in Unprintable : ~Contains(dst, c)
    /\ use = "header" => ColonsQuoted

(* append_bytes_ checks nothing: what is written never exceeds what was    *)
(* counted and reserved before, and in the end is just as long, so that    *)
(* widths computed from the count are right (ft_shell_escape.c:121).       *)
Fits ==
  /\ EscapeTypeOK
  /\ stage \in {"write", "done"} /\ ~raw =>
       Len(dst) <= need /\ (stage = "done" => Len(dst) = need)
=============================================================================
