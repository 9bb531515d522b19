------------------------------ MODULE Columns ------------------------------
(***************************************************************************)
(* The multi-column layout of src/src/ft_printer.c: calc_cols_ looks for   *)
(* the largest number of columns whose widths fit the terminal, create_row_*)
(* prints the entries down the columns and indent_ moves the cursor with   *)
(* tabs and spaces.  A name is its display length; the cursor column is    *)
(* all the terminal keeps of what was printed on the line.  Failing writes *)
(* end the layout at any point and are modelled in OutBuf and Walk.        *)
(***************************************************************************)
EXTENDS Integers, Sequences

CONSTANTS
  Lengths,   \* display lengths a name can have (padded ones when quoting)
  MaxFiles,  \* bound on the number of entries
  Terms      \* widths the terminal can have

(* ft_printer_helper.h                                                     *)
TabSize == 8
SpaceGap == 2
MinColumnWidth == 3

ASSUME LayoutAssumption ==
  /\ Lengths \subseteq Nat \ {0}
  /\ MaxFiles \in Nat
  /\ Terms \subseteq Nat \ {0}

VARIABLES
  lens,    \* the display length of each entry
  term,    \* term_size
  pc,      \* calc_width_ ("fit"), create_row_ ("name", "indent"), "done"
  cols,    \* the number of columns on trial, then map->cols
  widths,  \* col_widths, from 0
  lineLen, \* line_len
  row,     \* row of create_row_
  col,     \* col
  filesno, \* filesno of calc_width_, then of create_row_
  pos,     \* pos, where the current column should start
  cursor,  \* where the terminal's cursor is
  shown    \* what has been printed: entry, row and cursor column of each

sizes == <<cols, widths, lineLen>>
place == <<row, col, pos, cursor, shown>>
vars == <<lens, term, pc, sizes, filesno, place>>

Files == Len(lens)

CeilDiv(a, b) == (a + b - 1) \div b

(* width_count: the entries, at most max_cols, at least one.               *)
WidthCount ==
  LET maxCols == (term + SpaceGap) \div (1 + SpaceGap)
      few == IF Files < maxCols THEN Files ELSE maxCols
  IN  IF few = 0 THEN 1 ELSE few

(* calc_width_ starts with n columns of the minimum width.                 *)
Narrow(n) == [c \in 0..(n - 1) |-> MinColumnWidth]

Init ==
  /\ lens \in UNION {[1..n -> Lengths] : n \in 0..MaxFiles}
  /\ term \in Terms
  /\ pc = "fit"
  /\ cols = WidthCount
  /\ widths = Narrow(cols) /\ lineLen = cols * MinColumnWidth
  /\ row = 0 /\ col = 0 /\ filesno = 0 /\ pos = 0 /\ cursor = 0
  /\ shown = << >>

(* Mutant of Rows: rounded down, the last entries fall off.                *)
RowsRoundedDown(n) == IF Files < n THEN 1 ELSE Files \div n

(* num_rows of calc_width_, map->rows.                                     *)
Rows(n) == CeilDiv(Files, n)

(* The column of an entry of a layout of n columns (filesno / num_rows).   *)
ColumnOf(f, n) == f \div Rows(n)

(* Mutant of Wanted: every column but the last is one space short.         *)
WantedTight(f, n) == lens[f + 1] + (IF ColumnOf(f, n) # n - 1 THEN SpaceGap - 1 ELSE 0)

(* real_length: all columns but the last are followed by a gap.            *)
Wanted(f, n) == lens[f + 1] + (IF ColumnOf(f, n) # n - 1 THEN SpaceGap ELSE 0)

Column == ColumnOf(filesno, cols)
Growth == Wanted(filesno, cols) - widths[Column]
Measuring == pc = "fit" /\ filesno < Files

(* The loop of calc_width_.  The sum of the widths is compared with the    *)
(* terminal only when a column grows.                                      *)
WideEnough ==
  /\ Measuring /\ Growth <= 0
  /\ filesno' = filesno + 1
  /\ UNCHANGED <<lens, term, pc, sizes, place>>

Widen ==
  /\ widths' = [widths EXCEPT ![Column] = @ + Growth]
  /\ lineLen' = lineLen + Growth

Grow ==
  /\ Measuring /\ Growth > 0
  /\ lineLen + Growth < term
  /\ Widen
  /\ filesno' = filesno + 1
  /\ UNCHANGED <<lens, term, pc, cols, place>>

(* calc_cols_: try fewer and fewer columns; one column is used whether it  *)
(* fits or not.  The layout that is used is measured once more, which      *)
(* gives the same widths again and is left out.                            *)
TooWide ==
  /\ Measuring /\ Growth > 0
  /\ lineLen + Growth >= term
  /\ filesno' = 0
  /\ IF cols > 1
     THEN /\ cols' = cols - 1
          /\ widths' = Narrow(cols - 1) /\ lineLen' = (cols - 1) * MinColumnWidth
          /\ UNCHANGED pc
     ELSE Widen /\ pc' = "name" /\ UNCHANGED cols
  /\ UNCHANGED <<lens, term, place>>

Chosen ==
  /\ pc = "fit" /\ filesno >= Files
  /\ filesno' = 0
  /\ pc' = IF Rows(cols) = 0 THEN "done" ELSE "name"
  /\ UNCHANGED <<lens, term, sizes, place>>

(* Mutant of LastInRow: one entry too far to the right.                    *)
LastInRowOffByOne == Files - Rows(cols) < filesno

(* No entry is left in this row.                                           *)
LastInRow == Files - Rows(cols) <= filesno

(* put_entry_name, and then either the next column or the next row.        *)
PrintName ==
  /\ pc = "name"
  /\ shown' = Append(shown, [file |-> filesno, row |-> row, column |-> col,
                             at |-> cursor])
  /\ IF LastInRow
     THEN /\ cursor' = 0 /\ pos' = 0 /\ col' = 0
          /\ row' = row + 1 /\ filesno' = row + 1
          /\ pc' = IF row + 1 < Rows(cols) THEN "name" ELSE "done"
     ELSE /\ cursor' = cursor + lens[filesno + 1]
          /\ pos' = pos + widths[col]
          /\ col' = col + 1
          /\ filesno' = filesno + Rows(cols)
          /\ pc' = "indent"
          /\ UNCHANGED row
  /\ UNCHANGED <<lens, term, sizes>>

(* indent_ writes a tab when the next tab stop is not beyond the column.   *)
TabFits == pos \div TabSize > (cursor + 1) \div TabSize

(* Mutant of NextTabStop: on a tab stop the cursor does not move.          *)
PreviousTabStop == cursor - (cursor % TabSize)

(* The cursor after a tab.  `from` of indent_ starts as pos plus the length *)
(* printed; that is the cursor as long as the columns are Aligned.         *)
NextTabStop == cursor + (TabSize - (cursor % TabSize))

Indent ==
  /\ pc = "indent" /\ cursor < pos
  /\ cursor' = IF TabFits THEN NextTabStop ELSE cursor + 1
  /\ UNCHANGED <<lens, term, pc, sizes, row, col, filesno, pos, shown>>

IndentDone ==
  /\ pc = "indent" /\ cursor >= pos
  /\ pc' = "name"
  /\ UNCHANGED <<lens, term, sizes, filesno, place>>

Next ==
  \/ WideEnough \/ Grow \/ TooWide \/ Chosen
  \/ PrintName \/ Indent \/ IndentDone

Spec == Init /\ [][Next]_vars

(* The printer does not stop between two entries.                          *)
FairSpec == Spec /\ WF_vars(Next)
-----------------------------------------------------------------------------
(* The types of the variables (t_map and the locals of the printer).       *)
TypeOK ==
  /\ lens \in Seq(Lengths) /\ term \in Terms
  /\ pc \in {"fit", "name", "indent", "done"}
  /\ cols \in Nat \ {0}
  /\ widths \in [0..(cols - 1) -> Nat] /\ lineLen \in Nat
  /\ row \in Nat /\ col \in Nat /\ filesno \in Nat /\ pos \in Nat
  /\ cursor \in Nat
  /\ shown \in Seq([file : Nat, row : Nat, column : Nat, at : Nat])

(* col_widths has width_count elements (ft_printer.c:68): neither          *)
(* calc_width_ nor create_row_ indexes beyond them, and create_row_ reads  *)
(* no entry beyond the last (:179).                                        *)
InBounds ==
  /\ TypeOK
  /\ cols <= WidthCount
  /\ Measuring => Column < cols
  /\ pc = "name" => filesno < Files /\ col < cols

(* Every entry is printed exactly once, and reading down the columns gives *)
(* the sorted order.                                                       *)
EachOnce ==
  pc = "done" =>
    /\ Len(shown) = Files
    /\ \A f \in 0..(Files - 1) : \E i \in 1..Len(shown) :
         /\ shown[i].file = f
         /\ shown[i].column * Rows(cols) + shown[i].row = f

(* The names of one column start below each other, two columns are at      *)
(* least a gap apart, and the tabs of indent_ never pass the column.       *)
Aligned ==
  /\ pc = "indent" => cursor <= pos
  /\ \A i, j \in 1..Len(shown) :
       /\ shown[i].column = shown[j].column => shown[i].at = shown[j].at
       /\ shown[i].column < shown[j].column =>
            shown[i].at + lens[shown[i].file + 1] + SpaceGap <= shown[j].at

(* The layout ends: fewer and fewer columns are tried, and indent_ always  *)
(* moves the cursor.                                                       *)
Finishes == <>(pc = "done")

(* README.md:18: "Terminal-width aware column layout for terminal output". *)
(* A line of a layout of several columns fits the terminal.                *)
FitsTerminal ==
  cols > 1 => \A i \in 1..Len(shown) :
    shown[i].at + lens[shown[i].file + 1] <= term
=============================================================================
