--------------------------- MODULE DisplayProofs ---------------------------
(***************************************************************************)
(* Theorems about what is displayed: Columns, for every number and length  *)
(* of names and every width of the terminal, and ShellEscape, for every    *)
(* name.                                                                   *)
(***************************************************************************)
EXTENDS Columns, ShellEscape, FiniteSetTheorems, SequenceTheorems, WellFoundedInduction,
        TLAPS

(* Integer arithmetic. *)

LEMMA Times ==
  ASSUME NEW a \in Nat, NEW b \in Nat, NEW n \in Nat, a <= b
  PROVE  n * a \in Nat /\ n * b \in Nat /\ n * a <= n * b /\ a * n = n * a
         /\ n * (a + 1) = n * a + n
<1>1. PICK d \in Nat : b = a + d
  <2>1. b - a \in Nat /\ b = a + (b - a)
    OBVIOUS
  <2> QED
    BY <2>1
<1>2. n * a \in Nat /\ n * b \in Nat /\ n * d \in Nat
  OBVIOUS
<1>3. n * b = n * a + n * d
  BY <1>1
<1> QED
  BY <1>2, <1>3

LEMMA Quotient ==
  ASSUME NEW a \in Nat, NEW b \in Nat \ {0}
  PROVE  /\ a \div b \in Nat
         /\ b * (a \div b) <= a /\ a < b * (a \div b) + b
OBVIOUS

(* A place in a table with rows of length n is that of one row and column. *)
LEMMA OnePlace ==
  ASSUME NEW n \in Nat, NEW r \in Nat, NEW s \in Nat, r < n, s < n,
         NEW c \in Nat, NEW d \in Nat, r + c * n = s + d * n
  PROVE  r = s /\ c = d
<1>1. ASSUME NEW x \in Nat, NEW y \in Nat, NEW v \in Nat, NEW w \in Nat,
             v < n, w < n, v + x * n = w + y * n
      PROVE  ~(x < y)
  <2> SUFFICES ASSUME x < y PROVE FALSE
    OBVIOUS
  <2>1. n * (x + 1) <= n * y /\ n * (x + 1) = n * x + n
        /\ x * n = n * x /\ y * n = n * y /\ n * x \in Nat /\ n * y \in Nat
    BY Times
  <2> QED
    BY <1>1, <2>1
<1>2. c = d
  BY <1>1
<1> QED
  BY <1>2

LEMMA PlaceQuotient ==
  ASSUME NEW n \in Nat, NEW r \in Nat, r < n, NEW c \in Nat
  PROVE  (r + c * n) \div n = c
<1> DEFINE q == (r + c * n) \div n
<1>1. c * n \in Nat /\ c * n = n * c
  OBVIOUS
<1>2. q \in Nat /\ n * q <= r + c * n /\ r + c * n < n * q + n
  BY <1>1, Quotient
<1> HIDE DEF q
<1>3. ~(q < c)
  <2> SUFFICES ASSUME q < c PROVE FALSE
    OBVIOUS
  <2>1. n * (q + 1) <= n * c /\ n * (q + 1) = n * q + n
    BY <1>2, Times
  <2>2. n * q \in Nat
    BY <1>2
  <2> QED
    BY <1>1, <1>2, <2>1, <2>2
<1>4. ~(c < q)
  <2> SUFFICES ASSUME c < q PROVE FALSE
    OBVIOUS
  <2>1. n * (c + 1) <= n * q /\ n * (c + 1) = n * c + n
    BY <1>2, Times
  <2>2. n * q \in Nat /\ n * c \in Nat
    BY <1>2
  <2> QED
    BY <1>1, <1>2, <2>1, <2>2
<1> QED
  BY <1>2, <1>3, <1>4 DEF q

(* The rows of n columns hold all entries, and none is left empty.         *)
LEMMA RowsHold ==
  ASSUME Files \in Nat, NEW n \in Nat \ {0}
  PROVE  /\ Rows(n) \in Nat /\ Rows(n) <= Files /\ Files <= n * Rows(n)
         /\ Rows(n) = 0 <=> Files = 0
<1> DEFINE r == Rows(n)
<1>1. r = (Files + n - 1) \div n
  BY DEF Rows, CeilDiv
<1>2. r \in Nat /\ n * r <= Files + n - 1 /\ Files + n - 1 < n * r + n
  <2>1. Files + n - 1 \in Nat
    OBVIOUS
  <2> QED
    BY <1>1, <2>1, Quotient
<1> HIDE DEF r
<1>3. n * r \in Nat /\ Files <= n * r
  BY <1>2
<1>4. r = 0 => n * r = 0
  BY <1>2
<1>5. ~(Files < r)
  <2> SUFFICES ASSUME Files < r PROVE FALSE
    OBVIOUS
  <2>1. n * (Files + 1) <= n * r /\ n * (Files + 1) = n * Files + n
    BY <1>2, Times
  <2>2. n * Files >= Files /\ n * Files \in Nat
    <3>1. Files * 1 <= Files * n /\ Files * n = n * Files
      BY Times
    <3> QED
      BY <3>1
  <2> QED
    BY <1>2, <1>3, <2>1, <2>2
<1> QED
  BY <1>2, <1>3, <1>4, <1>5 DEF r

(* Each entry is in one of the n columns.                                  *)
LEMMA ColumnExists ==
  ASSUME Files \in Nat, NEW n \in Nat \ {0}, NEW f \in Nat, f < Files
  PROVE  ColumnOf(f, n) \in Nat /\ ColumnOf(f, n) < n
<1> DEFINE r == Rows(n)
           c == ColumnOf(f, n)
<1>1. r \in Nat \ {0} /\ Files <= n * r
  BY RowsHold
<1> HIDE DEF r
<1>2. c \in Nat /\ r * c <= f
  BY <1>1, Quotient DEF ColumnOf, r
<1> HIDE DEF c
<1>3. ~(n <= c)
  <2> SUFFICES ASSUME n <= c PROVE FALSE
    OBVIOUS
  <2>1. r * n <= r * c /\ r * n = n * r /\ r * c \in Nat /\ n * r \in Nat
    BY <1>1, <1>2, Times
  <2> QED
    BY <1>1, <1>2, <2>1
<1> QED
  BY <1>2, <1>3 DEF c
-----------------------------------------------------------------------------
R == Rows(cols)
F == Files

Types ==
  /\ lens \in Seq(Lengths) /\ term \in Terms
  /\ pc \in {"fit", "name", "indent", "done"}
  /\ cols \in 1..WidthCount
  /\ widths \in [0..(cols - 1) -> Nat] /\ lineLen \in Nat
  /\ row \in Nat /\ col \in Nat /\ filesno \in Nat /\ pos \in Nat
  /\ cursor \in Nat
  /\ shown \in Seq([file : Nat, row : Nat, column : Nat, at : Nat])

(* The columns are as wide as the entries measured so far want them; once  *)
(* several have been chosen, as all entries want them.                     *)
Roomy(n) == \A f \in 0..(n - 1) : Wanted(f, cols) <= widths[ColumnOf(f, cols)]
WidthsInv ==
  /\ pc = "fit" => filesno <= F /\ Roomy(filesno)
  /\ pc # "fit" /\ cols > 1 => Roomy(F)

(* The place of create_row_ in the table.                                  *)
PlaceInv ==
  /\ pc = "fit" => row = 0 /\ col = 0 /\ pos = 0 /\ cursor = 0 /\ shown = << >>
  /\ pc \in {"name", "indent"} =>
       row < R /\ filesno = row + col * R /\ filesno < F /\ F > 0
  /\ pc = "done" => row = R /\ col = 0

(* The entries before that place, row by row, and no others are printed.   *)
Before(r, c) == r < row \/ (r = row /\ c < col)
PrintedInv ==
  /\ \A i \in 1..Len(shown) :
       /\ shown[i].file = shown[i].row + shown[i].column * R
       /\ shown[i].row < R /\ shown[i].file < F
       /\ Before(shown[i].row, shown[i].column)
  /\ \A i, j \in 1..Len(shown) :
       shown[i].row = shown[j].row /\ shown[i].column = shown[j].column => i = j
  /\ \A r \in 0..(R - 1), c \in Nat :
       r + c * R < F /\ Before(r, c) =>
         \E i \in 1..Len(shown) : shown[i].row = r /\ shown[i].column = c

(* A column starts where the one before it ends, in whatever row.          *)
StartsInv ==
  /\ \A i \in 1..Len(shown) : shown[i].column = 0 => shown[i].at = 0
  /\ \A i, j \in 1..Len(shown) :
       /\ shown[i].column = shown[j].column => shown[i].at = shown[j].at
       /\ shown[j].column = shown[i].column + 1 =>
            shown[j].at = shown[i].at + widths[shown[i].column]
       /\ shown[i].column < shown[j].column =>
            shown[i].at + widths[shown[i].column] <= shown[j].at

(* So does the one that is due, after the entry printed last.              *)
CursorInv ==
  /\ pc = "name" => cursor = pos
  /\ pc = "indent" => cursor <= pos /\ col > 0
  /\ pc \in {"name", "indent"} =>
       /\ col = 0 => pos = 0
       /\ col > 0 => \E i \in 1..Len(shown) :
                       shown[i].column = col - 1 /\ pos = shown[i].at + widths[col - 1]

ColInv ==
  Types /\ WidthsInv /\ PlaceInv /\ PrintedInv /\ StartsInv /\ CursorInv
-----------------------------------------------------------------------------
LEMMA BasicTypes ==
  ASSUME Types
  PROVE  /\ F \in Nat /\ cols \in Nat \ {0} /\ R \in Nat /\ R <= F /\ F <= cols * R
         /\ WidthCount \in Nat
         /\ (R = 0 <=> F = 0)
         /\ \A f \in 0..(F - 1) : /\ lens[f + 1] \in Nat \ {0}
                                  /\ ColumnOf(f, cols) \in 0..(cols - 1)
                                  /\ Wanted(f, cols) \in Nat
<1>1. F \in Nat
  BY DEF Types, F, Files
<1>2. cols \in Nat \ {0} /\ WidthCount \in Nat
  <2>1. Terms \subseteq Nat /\ term \in Nat
    BY LayoutAssumption DEF Types
  <2>2. (term + SpaceGap) \div (1 + SpaceGap) \in Nat
    BY <2>1 DEF SpaceGap
  <2>3. WidthCount \in Nat
    BY <1>1, <2>2 DEF WidthCount, F
  <2> QED
    BY <2>3 DEF Types
<1>3. R \in Nat /\ R <= F /\ F <= cols * R /\ (R = 0 <=> F = 0)
  BY <1>1, <1>2, RowsHold DEF R, F
<1>4. \A f \in 0..(F - 1) : lens[f + 1] \in Nat \ {0}
  <2>1. \A f \in 0..(F - 1) : f + 1 \in 1..Len(lens)
    BY <1>1 DEF F, Files
  <2>2. \A k \in 1..Len(lens) : lens[k] \in Lengths
    BY DEF Types
  <2> QED
    BY <2>1, <2>2, LayoutAssumption
<1>5. \A f \in 0..(F - 1) : ColumnOf(f, cols) \in 0..(cols - 1)
  <2>1. \A f \in 0..(F - 1) : f \in Nat /\ f < Files
    BY <1>1 DEF F
  <2>2. \A f \in 0..(F - 1) : ColumnOf(f, cols) \in Nat /\ ColumnOf(f, cols) < cols
    BY <1>1, <1>2, <2>1, ColumnExists DEF F
  <2> QED
    BY <1>2, <2>2
<1>6. \A f \in 0..(F - 1) : Wanted(f, cols) \in Nat
  BY <1>4 DEF Wanted, SpaceGap
<1> QED
  BY <1>1, <1>2, <1>3, <1>4, <1>5, <1>6

LEMMA InitColumns == Init => ColInv
<1> SUFFICES ASSUME Init PROVE ColInv
  OBVIOUS
<1>1. lens \in Seq(Lengths)
  <2>1. PICK n \in 0..MaxFiles : lens \in [1..n -> Lengths]
    BY DEF Init
  <2> QED
    BY <2>1, LayoutAssumption
<1>2. WidthCount \in Nat \ {0}
  <2>1. Terms \subseteq Nat /\ term \in Nat
    BY LayoutAssumption DEF Init
  <2>2. (term + SpaceGap) \div (1 + SpaceGap) \in Nat
    BY <2>1 DEF SpaceGap
  <2>3. Files \in Nat
    BY <1>1 DEF Files
  <2> QED
    BY <2>2, <2>3 DEF WidthCount
<1>3. Types
  BY <1>1, <1>2 DEF Init, Types, Narrow, MinColumnWidth
<1>4. WidthsInv
  BY <1>3, BasicTypes DEF Init, WidthsInv, Roomy
<1>5. PlaceInv /\ StartsInv /\ CursorInv
  BY DEF Init, PlaceInv, StartsInv, CursorInv
<1>6. PrintedInv
  BY <1>3, BasicTypes DEF Init, PrintedInv, Before
<1> QED
  BY <1>3, <1>4, <1>5, <1>6 DEF ColInv

(* The layout is the same while neither the names nor its columns change.  *)
LEMMA SameLayout ==
  ASSUME UNCHANGED <<lens, cols>>
  PROVE  /\ F' = F /\ R' = R
         /\ \A f : ColumnOf(f, cols)' = ColumnOf(f, cols) /\ Wanted(f, cols)' = Wanted(f, cols)
BY DEF F, R, Files, Rows, ColumnOf, Wanted, CeilDiv

LEMMA MeasureTypes ==
  ASSUME Types, Measuring
  PROVE  /\ Column \in 0..(cols - 1) /\ Wanted(filesno, cols) \in Nat /\ widths[Column] \in Nat
         /\ Growth = Wanted(filesno, cols) - widths[Column] /\ Growth \in Int
         /\ filesno \in 0..(F - 1)
<1>1. filesno \in 0..(F - 1)
  BY BasicTypes DEF Types, Measuring, F
<1>2. Column \in 0..(cols - 1) /\ Wanted(filesno, cols) \in Nat
  BY <1>1, BasicTypes DEF Column
<1>3. widths[Column] \in Nat
  BY <1>2 DEF Types
<1> QED
  BY <1>1, <1>2, <1>3 DEF Growth

(* Before anything is printed there is nothing to say of it.               *)
LEMMA NothingShown ==
  ASSUME ColInv, pc = "fit", UNCHANGED place
  PROVE  /\ StartsInv'
         /\ row' = 0 /\ col' = 0 /\ pos' = 0 /\ cursor' = 0 /\ shown' = << >>
BY DEF ColInv, PlaceInv, StartsInv, place

(* While calc_width_ runs.                                                 *)
LEMMA FitKeeps ==
  ASSUME ColInv, pc = "fit", UNCHANGED <<lens, place>>, Types', WidthsInv',
         cols' \in 1..cols,
         \/ pc' = "fit"
         \/ pc' = "name" /\ filesno' = 0 /\ F' > 0
         \/ pc' = "done" /\ R' = 0
  PROVE  ColInv'
<1>1. /\ StartsInv'
      /\ row' = 0 /\ col' = 0 /\ pos' = 0 /\ cursor' = 0 /\ shown' = << >>
  BY NothingShown
<1>2. /\ F' \in Nat /\ R' \in Nat /\ (R' = 0 <=> F' = 0)
  <2>1. F \in Nat /\ cols \in Nat \ {0}
    BY BasicTypes DEF ColInv
  <2>2. cols' \in Nat \ {0}
    BY <2>1
  <2>3. F' = F /\ R' = Rows(cols')
    BY DEF F, R, Files, Rows, CeilDiv
  <2> QED
    BY <2>1, <2>2, <2>3, RowsHold DEF F
<1>3. PrintedInv'
  <2>1. \A r \in 0..(R' - 1), c \in Nat : ~Before(r, c)'
    BY <1>1, <1>2 DEF Before
  <2>2. Len(shown') = 0
    BY <1>1
  <2> QED
    BY <2>1, <2>2 DEF PrintedInv, Before
<1>4. PlaceInv'
  BY <1>1, <1>2 DEF PlaceInv
<1>5. CursorInv'
  BY <1>1 DEF CursorInv
<1> QED
  BY <1>1, <1>3, <1>4, <1>5 DEF ColInv

LEMMA WideEnoughKeeps ==
  ASSUME ColInv, WideEnough
  PROVE  ColInv'
<1>1. /\ UNCHANGED <<lens, term, pc, cols, widths, lineLen, place>>
      /\ filesno' = filesno + 1 /\ Measuring /\ Growth <= 0 /\ Types /\ pc = "fit"
  BY DEF WideEnough, sizes, ColInv, Measuring
<1>2. /\ Column \in 0..(cols - 1) /\ Wanted(filesno, cols) \in Nat /\ widths[Column] \in Nat
      /\ Growth = Wanted(filesno, cols) - widths[Column] /\ filesno \in 0..(F - 1)
  BY <1>1, MeasureTypes
<1>3. F' = F /\ \A f : ColumnOf(f, cols)' = ColumnOf(f, cols) /\ Wanted(f, cols)' = Wanted(f, cols)
  BY <1>1, SameLayout
<1>4. F \in Nat /\ cols \in Nat \ {0}
  BY <1>1, BasicTypes
<1>5. Types'
  <2>1. WidthCount' = WidthCount
    BY <1>1 DEF WidthCount, Files
  <2>2. filesno' \in Nat
    BY <1>1, <1>2
  <2> QED
    BY <1>1, <2>1, <2>2 DEF Types, place
<1>6. Roomy(filesno')
  <2>1. \A f \in 0..(filesno - 1) : Wanted(f, cols) <= widths[ColumnOf(f, cols)]
    BY <1>1 DEF ColInv, WidthsInv, Roomy
  <2>2. Wanted(filesno, cols) <= widths[ColumnOf(filesno, cols)]
    BY <1>1, <1>2 DEF Column
  <2> QED
    BY <1>1, <1>2, <2>1, <2>2 DEF Roomy
<1>7. WidthsInv'
  BY <1>1, <1>2, <1>3, <1>4, <1>6 DEF WidthsInv, Roomy
<1>8. cols' \in 1..cols
  BY <1>1, <1>4
<1> QED
  BY <1>1, <1>5, <1>7, <1>8, FitKeeps

LEMMA GrowKeeps ==
  ASSUME ColInv, Grow
  PROVE  ColInv'
<1>1. /\ UNCHANGED <<lens, term, pc, cols, place>>
      /\ filesno' = filesno + 1 /\ Measuring /\ Growth > 0 /\ Types /\ pc = "fit"
      /\ widths' = [widths EXCEPT ![Column] = widths[Column] + Growth]
      /\ lineLen' = lineLen + Growth
  BY DEF Grow, Widen, ColInv, Measuring
<1>2. /\ Column \in 0..(cols - 1) /\ Wanted(filesno, cols) \in Nat /\ widths[Column] \in Nat
      /\ Growth = Wanted(filesno, cols) - widths[Column] /\ filesno \in 0..(F - 1)
      /\ Growth \in Int
  BY <1>1, MeasureTypes
<1>3. F' = F /\ \A f : ColumnOf(f, cols)' = ColumnOf(f, cols) /\ Wanted(f, cols)' = Wanted(f, cols)
  BY <1>1, SameLayout
<1>4. /\ F \in Nat /\ cols \in Nat \ {0}
      /\ \A f \in 0..(F - 1) : /\ ColumnOf(f, cols) \in 0..(cols - 1)
                               /\ Wanted(f, cols) \in Nat
  BY <1>1, BasicTypes
<1>5. /\ widths \in [0..(cols - 1) -> Nat] /\ lineLen \in Nat
  BY <1>1 DEF Types
<1> HIDE DEF Growth
<1>6. /\ widths' \in [0..(cols - 1) -> Nat] /\ lineLen' \in Nat
      /\ widths'[Column] = Wanted(filesno, cols)
      /\ \A c \in 0..(cols - 1) : widths[c] <= widths'[c]
  <2>1. widths[Column] + Growth = Wanted(filesno, cols)
    BY <1>2
  <2>2. lineLen' \in Nat
    BY <1>1, <1>2, <1>5
  <2>3. widths' = [widths EXCEPT ![Column] = Wanted(filesno, cols)]
    BY <1>1, <2>1
  <2>4. widths' \in [0..(cols - 1) -> Nat] /\ widths'[Column] = Wanted(filesno, cols)
        /\ \A c \in 0..(cols - 1) : c # Column => widths'[c] = widths[c]
    BY <1>2, <1>5, <2>3
  <2>5. widths[Column] <= Wanted(filesno, cols)
    BY <1>1, <1>2
  <2>6. \A c \in 0..(cols - 1) : widths[c] <= widths'[c]
    <3> TAKE c \in 0..(cols - 1)
    <3>1. CASE c = Column
      BY <2>4, <2>5, <3>1
    <3>2. CASE c # Column
      <4>1. widths[c] \in Nat /\ widths'[c] = widths[c]
        BY <1>5, <2>4, <3>2
      <4> QED
        BY <4>1
    <3> QED
      BY <3>1, <3>2
  <2> QED
    BY <2>2, <2>4, <2>6
<1>7. Types'
  <2>1. WidthCount' = WidthCount
    BY <1>1 DEF WidthCount, Files
  <2>2. filesno' \in Nat
    BY <1>1, <1>2
  <2> QED
    BY <1>1, <1>6, <2>1, <2>2 DEF Types, place
<1>8. \A f \in 0..(filesno' - 1) : Wanted(f, cols) <= widths'[ColumnOf(f, cols)]
  <2>1. ASSUME NEW f \in 0..(filesno - 1)
        PROVE  Wanted(f, cols) <= widths'[ColumnOf(f, cols)]
    <3>1. Wanted(f, cols) <= widths[ColumnOf(f, cols)]
      BY <1>1, <2>1 DEF ColInv, WidthsInv, Roomy
    <3>2. ColumnOf(f, cols) \in 0..(cols - 1) /\ Wanted(f, cols) \in Nat
      BY <1>2, <1>4, <2>1
    <3> QED
      BY <1>5, <1>6, <3>1, <3>2
  <2>2. Wanted(filesno, cols) <= widths'[ColumnOf(filesno, cols)]
    BY <1>2, <1>6 DEF Column
  <2>3. \A f \in 0..(filesno' - 1) : f \in 0..(filesno - 1) \/ f = filesno
    BY <1>1, <1>2
  <2> QED
    BY <2>1, <2>2, <2>3
<1>9. WidthsInv'
  BY <1>1, <1>2, <1>3, <1>4, <1>8 DEF WidthsInv, Roomy
<1>10. cols' \in 1..cols
  BY <1>1, <1>4
<1> QED
  BY <1>1, <1>7, <1>9, <1>10, FitKeeps

LEMMA TooWideKeeps ==
  ASSUME ColInv, TooWide
  PROVE  ColInv'
<1>1. /\ UNCHANGED <<lens, term, place>> /\ filesno' = 0
      /\ Measuring /\ Growth > 0 /\ Types /\ pc = "fit"
  BY DEF TooWide, ColInv, Measuring
<1>2. /\ Column \in 0..(cols - 1) /\ Wanted(filesno, cols) \in Nat /\ widths[Column] \in Nat
      /\ Growth = Wanted(filesno, cols) - widths[Column] /\ filesno \in 0..(F - 1)
      /\ Growth \in Int
  BY <1>1, MeasureTypes
<1>3. /\ F \in Nat /\ cols \in Nat \ {0} /\ F' = F
  BY <1>1, BasicTypes DEF F, Files
<1>4. WidthCount' = WidthCount /\ cols \in 1..WidthCount /\ WidthCount \in Nat
  BY <1>1, BasicTypes DEF Types, WidthCount, Files
<1>5. CASE cols > 1
  <2>1. /\ cols' = cols - 1 /\ widths' = Narrow(cols - 1) /\ pc' = pc
        /\ lineLen' = (cols - 1) * MinColumnWidth
    BY <1>5 DEF TooWide
  <2>2. cols' \in 1..WidthCount' /\ cols' \in 1..cols
    <3>1. cols - 1 \in 1..cols /\ cols - 1 \in Nat
      BY <1>3, <1>5
    <3>2. cols - 1 \in 1..WidthCount
      BY <1>3, <1>4, <1>5, <3>1
    <3> QED
      BY <1>4, <2>1, <3>1, <3>2
  <2>3. widths' \in [0..(cols' - 1) -> Nat] /\ lineLen' \in Nat
    BY <1>3, <1>5, <2>1 DEF Narrow, MinColumnWidth
  <2>4. Types'
    BY <1>1, <2>1, <2>2, <2>3 DEF Types, place
  <2>5. WidthsInv'
    BY <1>1, <1>3, <2>1 DEF WidthsInv, Roomy
  <2> QED
    BY <1>1, <2>1, <2>2, <2>4, <2>5, FitKeeps
<1>6. CASE ~(cols > 1)
  <2>1. /\ pc' = "name" /\ cols' = cols /\ lineLen' = lineLen + Growth
        /\ widths' = [widths EXCEPT ![Column] = widths[Column] + Growth]
    BY <1>6 DEF TooWide, Widen
  <2>2. widths \in [0..(cols - 1) -> Nat] /\ lineLen \in Nat
    BY <1>1 DEF Types
  <2> HIDE DEF Growth
  <2>3. widths' \in [0..(cols - 1) -> Nat] /\ lineLen' \in Nat
    BY <1>1, <1>2, <2>1, <2>2
  <2>4. Types'
    BY <1>1, <1>4, <2>1, <2>3 DEF Types, place
  <2>5. WidthsInv'
    BY <1>6, <2>1 DEF WidthsInv
  <2>6. F' > 0 /\ cols' \in 1..cols
    BY <1>2, <1>3, <2>1
  <2> QED
    BY <1>1, <2>1, <2>4, <2>5, <2>6, FitKeeps
<1> QED
  BY <1>5, <1>6

LEMMA ChosenKeeps ==
  ASSUME ColInv, Chosen
  PROVE  ColInv'
<1>1. /\ UNCHANGED <<lens, term, cols, widths, lineLen, place>> /\ filesno' = 0
      /\ pc = "fit" /\ filesno >= Files /\ Types
      /\ pc' = IF R = 0 THEN "done" ELSE "name"
  BY DEF Chosen, sizes, ColInv, R
<1>2. /\ F' = F /\ R' = R
      /\ \A f : ColumnOf(f, cols)' = ColumnOf(f, cols) /\ Wanted(f, cols)' = Wanted(f, cols)
  BY <1>1, SameLayout
<1>3. F \in Nat /\ cols \in Nat \ {0} /\ R \in Nat /\ (R = 0 <=> F = 0)
  BY <1>1, BasicTypes
<1>4. Types'
  <2>1. WidthCount' = WidthCount
    BY <1>1 DEF WidthCount, Files
  <2> QED
    BY <1>1, <2>1 DEF Types, place
<1>5. Roomy(F)
  <2>1. filesno <= F /\ Roomy(filesno) /\ filesno \in Nat
    BY <1>1 DEF ColInv, WidthsInv, Types
  <2>2. filesno = F
    BY <1>1, <1>3, <2>1 DEF F
  <2> QED
    BY <2>1, <2>2
<1>6. WidthsInv'
  BY <1>1, <1>2, <1>5 DEF WidthsInv, Roomy
<1>7. cols' \in 1..cols
  BY <1>1, <1>3
<1>8. (pc' = "name" /\ F' > 0) \/ (pc' = "done" /\ R' = 0)
  BY <1>1, <1>2, <1>3
<1> QED
  BY <1>1, <1>4, <1>6, <1>7, <1>8, FitKeeps

(* indent_ stops at the column: a tab is written only if the next tab stop *)
(* is not beyond it.                                                       *)
LEMMA TabStops ==
  ASSUME cursor \in Nat, pos \in Nat, cursor < pos, TabFits
  PROVE  NextTabStop \in Nat /\ NextTabStop <= pos
BY DEF TabFits, NextTabStop, TabSize

LEMMA IndentKeeps ==
  ASSUME ColInv, Indent \/ IndentDone
  PROVE  ColInv'
<1>1. /\ UNCHANGED <<lens, term, cols, widths, lineLen, row, col, filesno, pos, shown>>
      /\ pc = "indent" /\ pc' \in {"name", "indent"} /\ Types
      /\ cursor \in Nat /\ pos \in Nat /\ cursor <= pos
  BY DEF Indent, IndentDone, sizes, place, ColInv, Types, CursorInv
<1>2. /\ F' = F /\ R' = R
      /\ \A f : ColumnOf(f, cols)' = ColumnOf(f, cols) /\ Wanted(f, cols)' = Wanted(f, cols)
  BY <1>1, SameLayout
<1>3. /\ cursor' \in Nat /\ cursor' <= pos /\ (pc' = "name" => cursor' = pos)
  <2>1. CASE Indent
    <3>1. cursor < pos /\ pc' = "indent" /\ cursor' = IF TabFits THEN NextTabStop ELSE cursor + 1
      BY <2>1 DEF Indent
    <3> QED
      BY <1>1, <3>1, TabStops
  <2>2. CASE IndentDone
    BY <1>1, <2>2 DEF IndentDone, place
  <2> QED
    BY <2>1, <2>2
<1>4. Types'
  <2>1. WidthCount' = WidthCount
    BY <1>1 DEF WidthCount, Files
  <2> QED
    BY <1>1, <1>3, <2>1 DEF Types
<1>5. WidthsInv'
  BY <1>1, <1>2 DEF ColInv, WidthsInv, Roomy
<1>6. PlaceInv'
  BY <1>1, <1>2 DEF ColInv, PlaceInv
<1>7. PrintedInv'
  BY <1>1, <1>2 DEF ColInv, PrintedInv, Before
<1>8. StartsInv'
  BY <1>1 DEF ColInv, StartsInv
<1>9. CursorInv'
  BY <1>1, <1>3 DEF ColInv, CursorInv
<1> QED
  BY <1>4, <1>5, <1>6, <1>7, <1>8, <1>9 DEF ColInv

(* What has been printed, while create_row_ prints, has its place in one   *)
(* of the columns.                                                         *)
LEMMA ShownTypes ==
  ASSUME ColInv
  PROVE  \A i \in 1..Len(shown) :
           /\ shown[i].file \in 0..(F - 1) /\ shown[i].row \in 0..(R - 1)
           /\ shown[i].column \in 0..(cols - 1) /\ shown[i].at \in Nat
           /\ shown[i].file = shown[i].row + shown[i].column * R
           /\ ColumnOf(shown[i].file, cols) = shown[i].column
           /\ widths[shown[i].column] \in Nat
<1> TAKE i \in 1..Len(shown)
<1>1. F \in Nat /\ cols \in Nat \ {0} /\ R \in Nat /\ F <= cols * R
  BY BasicTypes DEF ColInv
<1>2. /\ shown[i].file \in Nat /\ shown[i].row \in Nat /\ shown[i].column \in Nat
      /\ shown[i].at \in Nat
  <2> DEFINE Entry == [file : Nat, row : Nat, column : Nat, at : Nat]
  <2>1. shown \in Seq(Entry)
    BY DEF ColInv, Types
  <2>2. shown[i] \in Entry
    <3> HIDE DEF Entry
    <3> QED
      BY <2>1
  <2> QED
    BY <2>2
<1>3. /\ shown[i].file = shown[i].row + shown[i].column * R
      /\ shown[i].row < R /\ shown[i].file < F
  BY DEF ColInv, PrintedInv
<1>4. ColumnOf(shown[i].file, cols) = shown[i].column
  <2>1. (shown[i].row + shown[i].column * R) \div R = shown[i].column
    BY <1>1, <1>2, <1>3, PlaceQuotient
  <2>2. ColumnOf(shown[i].file, cols) = shown[i].file \div R
    BY DEF ColumnOf, R
  <2> QED
    BY <1>3, <2>1, <2>2
<1>5. shown[i].file \in 0..(F - 1)
  BY <1>1, <1>2, <1>3
<1>6. ColumnOf(shown[i].file, cols) \in 0..(cols - 1)
  BY <1>5, BasicTypes DEF ColInv
<1>7. widths[shown[i].column] \in Nat
  BY <1>4, <1>6 DEF ColInv, Types
<1>8. shown[i].row \in 0..(R - 1)
  BY <1>1, <1>2, <1>3
<1> QED
  BY <1>2, <1>3, <1>4, <1>5, <1>6, <1>7, <1>8

(* The entry that is due.                                                  *)
LEMMA DueTypes ==
  ASSUME ColInv, pc = "name"
  PROVE  /\ filesno \in 0..(F - 1) /\ filesno = row + col * R /\ row \in 0..(R - 1)
         /\ ColumnOf(filesno, cols) = col /\ col \in 0..(cols - 1) /\ widths[col] \in Nat
         /\ lens[filesno + 1] \in Nat /\ cursor = pos /\ pos \in Nat
<1>1. F \in Nat /\ cols \in Nat \ {0} /\ R \in Nat
  BY BasicTypes DEF ColInv
<1>2. row \in Nat /\ col \in Nat /\ filesno \in Nat /\ pos \in Nat
  BY DEF ColInv, Types
<1>3. row < R /\ filesno = row + col * R /\ filesno < F
  BY DEF ColInv, PlaceInv
<1>4. ColumnOf(filesno, cols) = col
  BY <1>1, <1>2, <1>3, PlaceQuotient DEF ColumnOf, R
<1>5. filesno \in 0..(F - 1) /\ row \in 0..(R - 1)
  BY <1>1, <1>2, <1>3
<1>6. ColumnOf(filesno, cols) \in 0..(cols - 1) /\ lens[filesno + 1] \in Nat
  BY <1>5, BasicTypes DEF ColInv
<1>7. widths[col] \in Nat
  BY <1>4, <1>6 DEF ColInv, Types
<1> QED
  BY <1>2, <1>3, <1>4, <1>5, <1>6, <1>7 DEF ColInv, CursorInv

(* An earlier row that reaches a later column also has the column due.     *)
LEMMA EarlierRow ==
  ASSUME ColInv, pc = "name", NEW i \in 1..Len(shown), col < shown[i].column
  PROVE  \E m \in 1..Len(shown) : shown[m].column = col
<1>1. /\ R \in Nat /\ F \in Nat /\ col \in Nat /\ row \in Nat
      /\ shown[i].row \in 0..(R - 1) /\ shown[i].column \in Nat /\ shown[i].file \in 0..(F - 1)
      /\ shown[i].file = shown[i].row + shown[i].column * R
  <2>1. R \in Nat /\ F \in Nat
    BY BasicTypes DEF ColInv
  <2>2. col \in 0..(cols - 1) /\ row \in 0..(R - 1)
    BY DueTypes
  <2>3. /\ shown[i].row \in 0..(R - 1) /\ shown[i].column \in 0..(cols - 1)
        /\ shown[i].file \in 0..(F - 1)
        /\ shown[i].file = shown[i].row + shown[i].column * R
    BY ShownTypes
  <2> QED
    BY <2>1, <2>2, <2>3
<1>2. shown[i].row < row
  BY <1>1 DEF ColInv, PrintedInv, Before
<1>3. shown[i].row + col * R < F
  <2> DEFINE r == shown[i].row
             c == shown[i].column
  <2>1. r \in Nat /\ c \in Nat /\ col <= c /\ r + c * R < F
    <3>1. shown[i].file < F
      BY <1>1
    <3> QED
      BY <1>1, <3>1
  <2> HIDE DEF r, c
  <2>2. R * col <= R * c /\ R * col = col * R /\ R * col \in Nat /\ R * c \in Nat
    BY <1>1, <2>1, Times
  <2>3. R * c = c * R
    BY <1>1, <2>1
  <2>4. r + col * R < F
    BY <1>1, <2>1, <2>2, <2>3
  <2> QED
    BY <2>4 DEF r
<1>4. Before(shown[i].row, col)
  BY <1>2 DEF Before
<1>5. \A r \in 0..(R - 1), c \in Nat :
       r + c * R < F /\ Before(r, c) =>
         \E m \in 1..Len(shown) : shown[m].row = r /\ shown[m].column = c
  BY DEF ColInv, PrintedInv
<1>6. \E m \in 1..Len(shown) : shown[m].row = shown[i].row /\ shown[m].column = col
  BY <1>1, <1>3, <1>4, <1>5
<1> QED
  BY <1>6

(* Where the entry that is due starts, beside the entries printed.         *)
LEMMA DueStarts ==
  ASSUME ColInv, pc = "name", NEW i \in 1..Len(shown)
  PROVE  /\ shown[i].column = col => shown[i].at = pos
         /\ col = shown[i].column + 1 => pos = shown[i].at + widths[shown[i].column]
         /\ shown[i].column = col + 1 => shown[i].at = pos + widths[col]
         /\ shown[i].column < col => shown[i].at + widths[shown[i].column] <= pos
         /\ col < shown[i].column => pos + widths[col] <= shown[i].at
<1>1. /\ col \in Nat /\ pos \in Nat /\ widths[col] \in Nat
      /\ \A j \in 1..Len(shown) : /\ shown[j].column \in Nat /\ shown[j].at \in Nat
                                  /\ widths[shown[j].column] \in Nat
  BY ShownTypes, DueTypes
<1>2. /\ col = 0 => pos = 0
      /\ col > 0 => \E k \in 1..Len(shown) :
                      shown[k].column = col - 1 /\ pos = shown[k].at + widths[col - 1]
  BY DEF ColInv, CursorInv
<1>3. StartsInv
  BY DEF ColInv
<1>4. \A j \in 1..Len(shown) : shown[j].column = col => shown[j].at = pos
  <2> TAKE j \in 1..Len(shown)
  <2> HAVE shown[j].column = col
  <2>1. CASE col = 0
    BY <1>2, <1>3, <2>1 DEF StartsInv
  <2>2. CASE col > 0
    <3>1. PICK k \in 1..Len(shown) :
            shown[k].column = col - 1 /\ pos = shown[k].at + widths[col - 1]
      BY <1>2, <2>2
    <3>2. shown[j].column = shown[k].column + 1
      BY <1>1, <3>1
    <3>3. shown[j].at = shown[k].at + widths[shown[k].column]
      BY <1>3, <3>2 DEF StartsInv
    <3> QED
      BY <3>1, <3>3
  <2> QED
    BY <1>1, <2>1, <2>2
<1>5. ASSUME shown[i].column < col
      PROVE  /\ col = shown[i].column + 1 => pos = shown[i].at + widths[shown[i].column]
             /\ shown[i].at + widths[shown[i].column] <= pos
  <2>1. PICK k \in 1..Len(shown) :
          shown[k].column = col - 1 /\ pos = shown[k].at + widths[col - 1]
    BY <1>1, <1>2, <1>5
  <2>2. CASE shown[i].column = col - 1
    <3>1. shown[i].column = shown[k].column
      BY <2>1, <2>2
    <3>2. shown[i].at = shown[k].at
      BY <1>3, <3>1 DEF StartsInv
    <3>3. pos = shown[i].at + widths[shown[i].column]
      BY <2>1, <2>2, <3>2
    <3> QED
      BY <1>1, <3>3
  <2>3. CASE shown[i].column # col - 1
    <3>1. shown[i].column < shown[k].column /\ col # shown[i].column + 1
      BY <1>1, <1>5, <2>1, <2>3
    <3>2. shown[i].at + widths[shown[i].column] <= shown[k].at
      BY <1>3, <3>1 DEF StartsInv
    <3>3. widths[col - 1] \in Nat /\ shown[k].at \in Nat /\ shown[i].at \in Nat
          /\ widths[shown[i].column] \in Nat
      BY <1>1, <2>1
    <3>4. shown[i].at + widths[shown[i].column] <= shown[k].at + widths[col - 1]
      BY <3>2, <3>3
    <3> QED
      BY <2>1, <3>1, <3>4
  <2> QED
    BY <2>2, <2>3
<1>6. ASSUME col < shown[i].column
      PROVE  /\ shown[i].column = col + 1 => shown[i].at = pos + widths[col]
             /\ pos + widths[col] <= shown[i].at
  <2>1. PICK m \in 1..Len(shown) : shown[m].column = col
    BY <1>6, EarlierRow
  <2>2. shown[m].at = pos
    BY <1>4, <2>1
  <2>3. /\ shown[i].column = shown[m].column + 1 =>
             shown[i].at = shown[m].at + widths[shown[m].column]
        /\ shown[m].column < shown[i].column =>
             shown[m].at + widths[shown[m].column] <= shown[i].at
    BY <1>3 DEF StartsInv
  <2> QED
    BY <1>6, <2>1, <2>2, <2>3
<1> QED
  BY <1>1, <1>4, <1>5, <1>6

(* put_entry_name adds the entry that is due.                              *)
LEMMA Added ==
  ASSUME ColInv, PrintName
  PROVE  LET N == Len(shown) + 1 IN
         /\ Len(shown) \in Nat /\ Len(shown') = N
         /\ shown' \in Seq([file : Nat, row : Nat, column : Nat, at : Nat])
         /\ \A i \in 1..Len(shown') : i \in 1..Len(shown) \/ i = N
         /\ \A i \in 1..Len(shown) : i \in 1..Len(shown') /\ i # N /\ shown'[i] = shown[i]
         /\ N \in 1..Len(shown')
         /\ shown'[N].file = filesno /\ shown'[N].row = row /\ shown'[N].column = col
         /\ shown'[N].at = pos
<1> DEFINE e == [file |-> filesno, row |-> row, column |-> col, at |-> cursor]
<1>1. shown' = Append(shown, e)
  BY DEF PrintName
<1>2. /\ shown \in Seq([file : Nat, row : Nat, column : Nat, at : Nat])
      /\ e \in [file : Nat, row : Nat, column : Nat, at : Nat]
  BY DEF ColInv, Types
<1>3. cursor = pos
  BY DueTypes DEF PrintName
<1>4. e.file = filesno /\ e.row = row /\ e.column = col /\ e.at = pos
  BY <1>3
<1> HIDE DEF e
<1>5. Len(shown) \in Nat /\ Len(shown') = Len(shown) + 1
      /\ shown' \in Seq([file : Nat, row : Nat, column : Nat, at : Nat])
      /\ \A i \in 1..Len(shown) : shown'[i] = shown[i]
  BY <1>1, <1>2
<1>10. shown'[Len(shown) + 1] = e
  BY <1>1, <1>2
<1>6. \A i \in 1..Len(shown') : i \in 1..Len(shown) \/ i = Len(shown) + 1
  BY <1>5
<1>7. \A i \in 1..Len(shown) : i \in 1..Len(shown') /\ i # Len(shown) + 1
  BY <1>5
<1>8. Len(shown) + 1 \in 1..Len(shown')
  BY <1>5
<1>9. /\ shown'[Len(shown) + 1].file = filesno /\ shown'[Len(shown) + 1].row = row
      /\ shown'[Len(shown) + 1].column = col /\ shown'[Len(shown) + 1].at = pos
  BY <1>4, <1>10, Zenon
<1> QED
  BY <1>5, <1>6, <1>7, <1>8, <1>9

(* The new entry starts where the others of its column do.                 *)
LEMMA PrintStarts ==
  ASSUME ColInv, PrintName
  PROVE  StartsInv'
<1> DEFINE N == Len(shown) + 1
<1>1. /\ \A i \in 1..Len(shown') : i \in 1..Len(shown) \/ i = N
      /\ \A i \in 1..Len(shown) : shown'[i] = shown[i]
      /\ shown'[N].column = col /\ shown'[N].at = pos
  BY Added
<1> HIDE DEF N
<1>2. widths' = widths /\ pc = "name"
  BY DEF PrintName, sizes
<1>3. StartsInv /\ (col = 0 => pos = 0) /\ col \in Nat
  BY <1>2 DEF ColInv, CursorInv, Types
<1>4. ASSUME NEW i \in 1..Len(shown')
      PROVE  shown'[i].column = 0 => shown'[i].at = 0
  BY <1>1, <1>3 DEF StartsInv
<1>5. ASSUME NEW i \in 1..Len(shown'), NEW j \in 1..Len(shown')
      PROVE  /\ shown'[i].column = shown'[j].column => shown'[i].at = shown'[j].at
             /\ shown'[j].column = shown'[i].column + 1 =>
                  shown'[j].at = shown'[i].at + widths[shown'[i].column]
             /\ shown'[i].column < shown'[j].column =>
                  shown'[i].at + widths[shown'[i].column] <= shown'[j].at
  <2>1. CASE i \in 1..Len(shown) /\ j \in 1..Len(shown)
    <3>1. shown'[i] = shown[i] /\ shown'[j] = shown[j]
      BY <1>1, <2>1
    <3> QED
      BY <1>3, <2>1, <3>1 DEF StartsInv
  <2>2. CASE i \in 1..Len(shown) /\ j = N
    <3>1. shown'[i] = shown[i] /\ shown'[j].column = col /\ shown'[j].at = pos
      BY <1>1, <2>2
    <3>2. /\ shown[i].column = col => shown[i].at = pos
          /\ col = shown[i].column + 1 => pos = shown[i].at + widths[shown[i].column]
          /\ shown[i].column < col => shown[i].at + widths[shown[i].column] <= pos
      BY <1>2, <2>2, DueStarts
    <3> QED
      BY <3>1, <3>2
  <2>3. CASE i = N /\ j \in 1..Len(shown)
    <3>1. shown'[j] = shown[j] /\ shown'[i].column = col /\ shown'[i].at = pos
      BY <1>1, <2>3
    <3>2. /\ shown[j].column = col => shown[j].at = pos
          /\ shown[j].column = col + 1 => shown[j].at = pos + widths[col]
          /\ col < shown[j].column => pos + widths[col] <= shown[j].at
      BY <1>2, <2>3, DueStarts
    <3> QED
      BY <3>1, <3>2
  <2>4. CASE i = N /\ j = N
    <3>1. shown'[i].column = col /\ shown'[j].column = col
          /\ shown'[i].at = pos /\ shown'[j].at = pos
      BY <1>1, <2>4
    <3>2. ~(col = col + 1) /\ ~(col < col)
      BY <1>3
    <3> QED
      BY <3>1, <3>2
  <2> QED
    BY <1>1, <2>1, <2>2, <2>3, <2>4
<1> QED
  BY <1>2, <1>4, <1>5 DEF StartsInv

(* The new entry was due and was not printed before; the place after it is *)
(* the next one of the table, row by row.                                  *)
LEMMA PrintCounts ==
  ASSUME ColInv, PrintName
  PROVE  PrintedInv'
<1> DEFINE N == Len(shown) + 1
<1>1. /\ \A i \in 1..Len(shown') : i \in 1..Len(shown) \/ i = N
      /\ \A i \in 1..Len(shown) : i \in 1..Len(shown') /\ i # N /\ shown'[i] = shown[i]
      /\ N \in 1..Len(shown')
      /\ shown'[N].file = filesno /\ shown'[N].row = row /\ shown'[N].column = col
  BY Added
<1> HIDE DEF N
<1>2. UNCHANGED <<lens, cols>> /\ pc = "name"
  BY DEF PrintName, sizes
<1>3. F' = F /\ R' = R
  BY <1>2, SameLayout
<1>4. /\ filesno \in 0..(F - 1) /\ filesno = row + col * R /\ row \in 0..(R - 1)
      /\ col \in Nat /\ F \in Nat /\ R \in Nat
  <2>1. F \in Nat /\ R \in Nat
    BY BasicTypes DEF ColInv
  <2>2. filesno \in 0..(F - 1) /\ filesno = row + col * R /\ row \in 0..(R - 1)
    BY <1>2, DueTypes
  <2>3. col \in Nat
    BY DEF ColInv, Types
  <2> QED
    BY <2>1, <2>2, <2>3
<1>5. \/ LastInRow /\ row' = row + 1 /\ col' = 0
      \/ ~LastInRow /\ row' = row /\ col' = col + 1
  BY DEF PrintName
<1>6. \A r \in 0..(R - 1), c \in Nat :
        /\ Before(r, c) => (r < row' \/ (r = row' /\ c < col'))
        /\ r = row /\ c = col => (r < row' \/ (r = row' /\ c < col'))
        /\ (r < row' \/ (r = row' /\ c < col')) /\ r + c * R < F =>
             Before(r, c) \/ (r = row /\ c = col)
  <2> TAKE r \in 0..(R - 1), c \in Nat
  <2>1. CASE ~LastInRow /\ row' = row /\ col' = col + 1
    BY <1>4, <2>1 DEF Before
  <2>2. CASE LastInRow /\ row' = row + 1 /\ col' = 0
    <3>1. r < row' \/ (r = row' /\ c < col') <=> r <= row
      BY <1>4, <2>2
    <3>2. ASSUME r = row, col < c PROVE ~(r + c * R < F)
      <4>1. R * (col + 1) <= R * c /\ R * (col + 1) = R * col + R
            /\ R * c \in Nat /\ R * col \in Nat
        BY <1>4, <3>2, Times
      <4>2. col * R = R * col /\ c * R = R * c
        BY <1>4
      <4>3. F - R <= filesno
        BY <2>2 DEF LastInRow, F, R
      <4> QED
        BY <1>4, <3>2, <4>1, <4>2, <4>3
    <3> QED
      BY <1>4, <3>1, <3>2 DEF Before
  <2> QED
    BY <1>5, <2>1, <2>2
<1> DEFINE Earlier(r, c) == r < row' \/ (r = row' /\ c < col')
<1>7. \A r \in 0..(R - 1), c \in Nat :
        /\ Before(r, c) => Earlier(r, c)
        /\ r = row /\ c = col => Earlier(r, c)
        /\ Earlier(r, c) /\ r + c * R < F => Before(r, c) \/ (r = row /\ c = col)
  BY <1>6
<1> HIDE DEF Earlier
<1>8. \A i \in 1..Len(shown) :
        /\ shown[i].row \in 0..(R - 1) /\ shown[i].column \in Nat /\ shown[i].file < F
        /\ shown[i].file = shown[i].row + shown[i].column * R
        /\ shown[i].row < R
        /\ Before(shown[i].row, shown[i].column)
  <2> TAKE i \in 1..Len(shown)
  <2>1. /\ shown[i].row \in 0..(R - 1) /\ shown[i].column \in 0..(cols - 1)
    BY ShownTypes
  <2>2. /\ shown[i].file = shown[i].row + shown[i].column * R
        /\ shown[i].row < R /\ shown[i].file < F
        /\ Before(shown[i].row, shown[i].column)
    BY DEF ColInv, PrintedInv
  <2> QED
    BY <2>1, <2>2
<1>9. ASSUME NEW i \in 1..Len(shown')
       PROVE  /\ shown'[i].file = shown'[i].row + shown'[i].column * R
              /\ shown'[i].row < R /\ shown'[i].file < F
              /\ Earlier(shown'[i].row, shown'[i].column)
  <2>1. CASE i \in 1..Len(shown)
    <3>1. shown'[i] = shown[i]
      BY <1>1, <2>1
    <3> QED
      BY <1>7, <1>8, <2>1, <3>1
  <2>2. CASE i = N
    <3>1. shown'[i].file = filesno /\ shown'[i].row = row /\ shown'[i].column = col
      BY <1>1, <2>2
    <3>2. row < R /\ filesno < F
      BY <1>4
    <3> QED
      BY <1>4, <1>7, <3>1, <3>2
  <2> QED
    BY <1>1, <2>1, <2>2
<1>10. ASSUME NEW i \in 1..Len(shown'), NEW j \in 1..Len(shown'),
              shown'[i].row = shown'[j].row, shown'[i].column = shown'[j].column
       PROVE  i = j
  <2>1. \A k \in 1..Len(shown) : ~(shown[k].row = row /\ shown[k].column = col)
    <3>1. ~Before(row, col)
      BY <1>4 DEF Before
    <3> QED
      BY <1>8, <3>1
  <2>2. CASE i \in 1..Len(shown) /\ j \in 1..Len(shown)
    <3>1. shown'[i] = shown[i] /\ shown'[j] = shown[j]
      BY <1>1, <2>2
    <3> QED
      BY <1>10, <2>2, <3>1 DEF ColInv, PrintedInv
  <2>3. CASE i \in 1..Len(shown) /\ j = N
    BY <1>1, <1>10, <2>1, <2>3
  <2>4. CASE i = N /\ j \in 1..Len(shown)
    BY <1>1, <1>10, <2>1, <2>4
  <2> QED
    BY <1>1, <2>2, <2>3, <2>4
<1>11. ASSUME NEW r \in 0..(R - 1), NEW c \in Nat, r + c * R < F, Earlier(r, c)
       PROVE  \E i \in 1..Len(shown') : shown'[i].row = r /\ shown'[i].column = c
  <2>1. CASE Before(r, c)
    <3>1. PICK k \in 1..Len(shown) : shown[k].row = r /\ shown[k].column = c
      BY <1>11, <2>1 DEF ColInv, PrintedInv
    <3> QED
      BY <1>1, <3>1
  <2>2. CASE r = row /\ c = col
    BY <1>1, <2>2
  <2> QED
    BY <1>7, <1>11, <2>1, <2>2
<1>12. /\ \A i \in 1..Len(shown') :
            /\ shown'[i].file = shown'[i].row + shown'[i].column * R'
            /\ shown'[i].row < R' /\ shown'[i].file < F'
            /\ shown'[i].row < row' \/ (shown'[i].row = row' /\ shown'[i].column < col')
       /\ \A r \in 0..(R' - 1), c \in Nat :
            r + c * R' < F' /\ (r < row' \/ (r = row' /\ c < col')) =>
              \E i \in 1..Len(shown') : shown'[i].row = r /\ shown'[i].column = c
  BY <1>3, <1>9, <1>11 DEF Earlier
<1> QED
  BY <1>10, <1>12 DEF PrintedInv, Before

(* If an entry is left in the row, there is another column, and the entry  *)
(* that was printed leaves room for the gap before it.                     *)
LEMMA RoomLeft ==
  ASSUME ColInv, pc = "name", ~LastInRow
  PROVE  /\ filesno + R < F /\ filesno + R = row + (col + 1) * R
         /\ lens[filesno + 1] + SpaceGap <= widths[col]
<1>1. F \in Nat /\ R \in Nat /\ cols \in Nat \ {0}
  BY BasicTypes DEF ColInv
<1>2. /\ filesno \in 0..(F - 1) /\ filesno = row + col * R /\ row \in 0..(R - 1)
      /\ ColumnOf(filesno, cols) = col /\ col \in 0..(cols - 1)
  BY DueTypes
<1>3. filesno + R < F
  BY <1>1, <1>2 DEF LastInRow, F, R
<1>4. filesno + R = row + (col + 1) * R
  <2>1. R * (col + 1) = R * col + R /\ col * R = R * col /\ R * col \in Nat
        /\ (col + 1) * R = R * (col + 1)
    BY <1>1, <1>2, Times
  <2> QED
    BY <1>1, <1>2, <2>1
<1>5. ColumnOf(filesno + R, cols) = col + 1
  <2>1. (row + (col + 1) * R) \div R = col + 1
    BY <1>1, <1>2, PlaceQuotient
  <2> QED
    BY <1>4, <2>1 DEF ColumnOf, R
<1>6. ColumnOf(filesno + R, cols) \in 0..(cols - 1)
  BY <1>1, <1>2, <1>3, BasicTypes DEF ColInv
<1>7. cols > 1 /\ col # cols - 1
  BY <1>1, <1>2, <1>5, <1>6
<1>8. Wanted(filesno, cols) <= widths[col]
  BY <1>2, <1>7 DEF ColInv, WidthsInv, Roomy
<1>9. Wanted(filesno, cols) = lens[filesno + 1] + SpaceGap
  BY <1>2, <1>7 DEF Wanted
<1> QED
  BY <1>3, <1>4, <1>8, <1>9

LEMMA PrintNameKeeps ==
  ASSUME ColInv, PrintName
  PROVE  ColInv'
<1>1. /\ UNCHANGED <<lens, term, cols, widths, lineLen>> /\ pc = "name"
  BY DEF PrintName, sizes
<1>2. /\ F' = F /\ R' = R
      /\ \A f : ColumnOf(f, cols)' = ColumnOf(f, cols) /\ Wanted(f, cols)' = Wanted(f, cols)
  BY <1>1, SameLayout
<1>3. /\ filesno \in Nat /\ filesno = row + col * R /\ row \in Nat /\ row < R /\ col \in Nat
      /\ pos \in Nat /\ widths[col] \in Nat /\ lens[filesno + 1] \in Nat /\ cursor = pos
      /\ F \in Nat /\ R \in Nat /\ R <= F
  <2>1. F \in Nat /\ R \in Nat /\ R <= F /\ cols \in Nat \ {0}
    BY BasicTypes DEF ColInv
  <2>2. /\ filesno \in 0..(F - 1) /\ filesno = row + col * R /\ row \in 0..(R - 1)
        /\ col \in 0..(cols - 1) /\ widths[col] \in Nat /\ lens[filesno + 1] \in Nat
        /\ cursor = pos /\ pos \in Nat
    BY <1>1, DueTypes
  <2> QED
    BY <2>1, <2>2
<1>4. StartsInv' /\ PrintedInv'
  BY PrintStarts, PrintCounts
<1>5. WidthCount' = WidthCount /\ Types
  BY <1>1 DEF WidthCount, Files, ColInv
<1>6. shown' \in Seq([file : Nat, row : Nat, column : Nat, at : Nat])
  BY Added
<1>7. pc' # "fit" /\ pc' \in {"fit", "name", "indent", "done"}
  BY DEF PrintName
<1>8. WidthsInv'
  BY <1>1, <1>2, <1>7 DEF ColInv, WidthsInv, Roomy
<1>9. CASE LastInRow
  <2>1. /\ cursor' = 0 /\ pos' = 0 /\ col' = 0 /\ row' = row + 1 /\ filesno' = row + 1
        /\ pc' = IF row + 1 < R THEN "name" ELSE "done"
    BY <1>9 DEF PrintName, R
  <2>2. Types'
    BY <1>1, <1>3, <1>5, <1>6, <1>7, <2>1 DEF Types
  <2>3. PlaceInv'
    <3>1. row' = row' + col' * R'
      BY <1>2, <1>3, <2>1
    <3> QED
      BY <1>2, <1>3, <2>1, <3>1 DEF PlaceInv
  <2>4. CursorInv'
    BY <2>1 DEF CursorInv
  <2> QED
    BY <1>4, <1>8, <2>2, <2>3, <2>4 DEF ColInv
<1>10. CASE ~LastInRow
  <2>1. /\ cursor' = cursor + lens[filesno + 1] /\ pos' = pos + widths[col]
        /\ col' = col + 1 /\ filesno' = filesno + R /\ pc' = "indent" /\ row' = row
    BY <1>10 DEF PrintName, R
  <2>2. /\ filesno + R < F /\ filesno + R = row + (col + 1) * R
        /\ lens[filesno + 1] + SpaceGap <= widths[col]
    BY <1>1, <1>10, RoomLeft
  <2>3. Types'
    <3>1. cursor' \in Nat /\ pos' \in Nat /\ col' \in Nat /\ filesno' \in Nat /\ row' \in Nat
      BY <1>3, <2>1
    <3> QED
      BY <1>1, <1>5, <1>6, <1>7, <3>1 DEF Types
  <2>4. PlaceInv'
    BY <1>2, <1>3, <2>1, <2>2 DEF PlaceInv
  <2>5. CursorInv'
    <3>1. cursor' <= pos' /\ col' > 0
      BY <1>3, <2>1, <2>2 DEF SpaceGap
    <3>2. \E i \in 1..Len(shown') :
            shown'[i].column = col' - 1 /\ pos' = shown'[i].at + widths'[col' - 1]
      <4>1. /\ Len(shown) + 1 \in 1..Len(shown') /\ shown'[Len(shown) + 1].column = col
            /\ shown'[Len(shown) + 1].at = pos
        BY Added
      <4>2. col' - 1 = col /\ widths' = widths
        BY <1>1, <1>3, <2>1
      <4> QED
        BY <2>1, <4>1, <4>2
    <3> QED
      BY <2>1, <3>1, <3>2 DEF CursorInv
  <2> QED
    BY <1>4, <1>8, <2>3, <2>4, <2>5 DEF ColInv
<1> QED
  BY <1>9, <1>10

LEMMA NextColumns == ColInv /\ [Next]_vars => ColInv'
<1> SUFFICES ASSUME ColInv, [Next]_vars PROVE ColInv'
  OBVIOUS
<1>1. CASE WideEnough
  BY <1>1, WideEnoughKeeps
<1>2. CASE Grow
  BY <1>2, GrowKeeps
<1>3. CASE TooWide
  BY <1>3, TooWideKeeps
<1>4. CASE Chosen
  BY <1>4, ChosenKeeps
<1>5. CASE PrintName
  BY <1>5, PrintNameKeeps
<1>6. CASE Indent \/ IndentDone
  BY <1>6, IndentKeeps
<1>7. CASE UNCHANGED vars
  <2>1. /\ UNCHANGED <<lens, term, pc, cols, widths, lineLen>>
        /\ UNCHANGED <<row, col, filesno, pos, cursor, shown>>
    BY <1>7 DEF vars, sizes, place
  <2>2. F' = F /\ R' = R /\ WidthCount' = WidthCount
        /\ \A f : ColumnOf(f, cols)' = ColumnOf(f, cols) /\ Wanted(f, cols)' = Wanted(f, cols)
    BY <2>1, SameLayout DEF WidthCount, Files
  <2>3. Types'
    BY <2>1, <2>2 DEF ColInv, Types
  <2>4. WidthsInv'
    BY <2>1, <2>2 DEF ColInv, WidthsInv, Roomy
  <2>5. PlaceInv'
    BY <2>1, <2>2 DEF ColInv, PlaceInv
  <2>6. PrintedInv'
    BY <2>1, <2>2 DEF ColInv, PrintedInv, Before
  <2>7. StartsInv'
    BY <2>1 DEF ColInv, StartsInv
  <2>8. CursorInv'
    BY <2>1 DEF ColInv, CursorInv
  <2> QED
    BY <2>3, <2>4, <2>5, <2>6, <2>7, <2>8 DEF ColInv
<1> QED
  BY <1>1, <1>2, <1>3, <1>4, <1>5, <1>6, <1>7 DEF Next

LEMMA ColumnsInvariant == Spec => []ColInv
<1>1. Init => ColInv
  BY InitColumns
<1>2. ColInv /\ [Next]_vars => ColInv'
  BY NextColumns
<1> QED
  BY <1>1, <1>2, PTL DEF Spec
-----------------------------------------------------------------------------
(* calc_width_ and create_row_ index col_widths and the entries within     *)
(* their bounds (ft_printer.c:68, :148, :179), whatever the names, their   *)
(* number and the width of the terminal.                                   *)
THEOREM LayoutInBounds == Spec => []InBounds
<1>1. ColInv => InBounds
  <2> SUFFICES ASSUME ColInv PROVE InBounds
    OBVIOUS
  <2>1. cols \in Nat \ {0} /\ F \in Nat /\ WidthCount \in Nat /\ cols <= WidthCount
    BY BasicTypes DEF ColInv, Types
  <2>2. TypeOK
    BY <2>1 DEF ColInv, Types, TypeOK
  <2>3. Measuring => Column < cols
    BY <2>1, MeasureTypes DEF ColInv
  <2>4. pc = "name" => filesno < Files /\ col < cols
    BY <2>1, DueTypes DEF F
  <2> QED
    BY <2>1, <2>2, <2>3, <2>4 DEF InBounds
<1> QED
  BY <1>1, ColumnsInvariant, PTL

(* create_row_ leaves no entry out and prints none twice, and the columns  *)
(* read downwards give the order of the entries (ft_printer.c:172-196).    *)
THEOREM LayoutComplete == Spec => []EachOnce
<1>1. ColInv => EachOnce
  <2> SUFFICES ASSUME ColInv, pc = "done" PROVE
        /\ Len(shown) = F
        /\ \A f \in 0..(F - 1) : \E i \in 1..Len(shown) :
             shown[i].file = f /\ shown[i].column * R + shown[i].row = f
    BY DEF EachOnce, F, R
  <2>1. F \in Nat /\ R \in Nat /\ (R = 0 <=> F = 0)
    BY BasicTypes DEF ColInv
  <2>2. row = R /\ col = 0
    BY DEF ColInv, PlaceInv
  <2>3. \A i \in 1..Len(shown) :
          /\ shown[i].file \in 0..(F - 1) /\ shown[i].row \in 0..(R - 1)
          /\ shown[i].column \in Nat
          /\ shown[i].file = shown[i].row + shown[i].column * R
    <3> TAKE i \in 1..Len(shown)
    <3>1. /\ shown[i].file \in 0..(F - 1) /\ shown[i].row \in 0..(R - 1)
          /\ shown[i].column \in 0..(cols - 1)
          /\ shown[i].file = shown[i].row + shown[i].column * R
      BY ShownTypes
    <3> QED
      BY <3>1
  <2>4. ASSUME NEW f \in 0..(F - 1)
        PROVE  \E i \in 1..Len(shown) :
                 shown[i].file = f /\ shown[i].column * R + shown[i].row = f
    <3> DEFINE c == f \div R
               r == f - R * c
    <3>1. R \in Nat \ {0} /\ f \in Nat /\ f < F
      BY <2>1
    <3>2. c \in Nat /\ R * c <= f /\ f < R * c + R
      BY <3>1, Quotient
    <3> HIDE DEF c
    <3>3. r \in 0..(R - 1) /\ R * c \in Nat /\ c * R = R * c /\ r + c * R = f
      BY <3>1, <3>2
    <3> HIDE DEF r
    <3>4. Before(r, c) /\ r + c * R < F
      BY <2>1, <2>2, <3>1, <3>3 DEF Before
    <3>5. PICK i \in 1..Len(shown) : shown[i].row = r /\ shown[i].column = c
      BY <3>2, <3>3, <3>4 DEF ColInv, PrintedInv
    <3>6. shown[i].file = f
      BY <2>3, <3>3, <3>5
    <3>7. shown[i].column * R + shown[i].row = f
      BY <3>1, <3>3, <3>5
    <3> QED
      BY <3>6, <3>7
  <2>5. Len(shown) = F
    <3> DEFINE S == 1..Len(shown)
               T == 0..(F - 1)
               g == [i \in S |-> shown[i].file]
    <3>1. Len(shown) \in Nat
      BY DEF ColInv, Types
    <3>2. g \in [S -> T]
      BY <2>3
    <3>3. \A f \in T : \E i \in S : g[i] = f
      BY <2>4
    <3>4. ASSUME NEW i \in S, NEW j \in S, g[i] = g[j]
          PROVE  i = j
      <4>1. shown[i].row + shown[i].column * R = shown[j].row + shown[j].column * R
            /\ shown[i].row \in 0..(R - 1) /\ shown[j].row \in 0..(R - 1)
            /\ shown[i].column \in Nat /\ shown[j].column \in Nat
        BY <2>3, <3>4
      <4>2. shown[i].row = shown[j].row /\ shown[i].column = shown[j].column
        <5> DEFINE ri == shown[i].row
                   rj == shown[j].row
                   ci == shown[i].column
                   cj == shown[j].column
        <5>1. /\ ri \in Nat /\ rj \in Nat /\ ri < R /\ rj < R /\ ci \in Nat /\ cj \in Nat
              /\ ri + ci * R = rj + cj * R
          BY <2>1, <4>1
        <5> HIDE DEF ri, rj, ci, cj
        <5>2. ri = rj /\ ci = cj
          BY <2>1, <5>1, OnePlace
        <5> QED
          BY <5>2 DEF ri, rj, ci, cj
      <4> QED
        BY <4>2 DEF ColInv, PrintedInv
    <3>5. ExistsBijection(S, T)
      <4>1. IsInjective(g)
        BY <3>2, <3>4 DEF IsInjective
      <4>2. g \in Surjection(S, T)
        BY <3>2, <3>3 DEF Surjection
      <4>3. g \in Bijection(S, T)
        BY <3>2, <3>4, <4>2 DEF Bijection, Injection, IsInjective
      <4> QED
        BY <4>3 DEF ExistsBijection
    <3>6. /\ IsFiniteSet(S) /\ IsFiniteSet(T)
          /\ Cardinality(S) = Len(shown) /\ Cardinality(T) = F
      <4>1. /\ IsFiniteSet(1..Len(shown))
            /\ Cardinality(1..Len(shown)) = IF 1 > Len(shown) THEN 0 ELSE Len(shown) - 1 + 1
        BY <3>1, FS_Interval
      <4>2. F - 1 \in Int
        BY <2>1
      <4>3. /\ IsFiniteSet(0..(F - 1))
            /\ Cardinality(0..(F - 1)) = IF 0 > F - 1 THEN 0 ELSE (F - 1) - 0 + 1
        BY <4>2, FS_Interval
      <4> QED
        BY <2>1, <3>1, <4>1, <4>3
    <3> HIDE DEF S, T
    <3>7. Cardinality(S) = Cardinality(T)
      BY <3>5, <3>6, FS_Bijection
    <3> QED
      BY <3>6, <3>7
  <2> QED
    BY <2>4, <2>5
<1> QED
  BY <1>1, ColumnsInvariant, PTL

(* The names of a column start below each other, a name is followed by the *)
(* gap before the next column starts, and the tabs and spaces of indent_   *)
(* never pass that start (ft_printer.c:198-215).                           *)
THEOREM LayoutAligned == Spec => []Aligned
<1>1. ColInv => Aligned
  <2> SUFFICES ASSUME ColInv PROVE Aligned
    OBVIOUS
  <2>1. pc = "indent" => cursor <= pos
    BY DEF ColInv, CursorInv
  <2>2. ASSUME NEW i \in 1..Len(shown), NEW j \in 1..Len(shown)
        PROVE  shown[i].column = shown[j].column => shown[i].at = shown[j].at
    BY DEF ColInv, StartsInv
  <2>3. ASSUME NEW i \in 1..Len(shown), NEW j \in 1..Len(shown),
               shown[i].column < shown[j].column
        PROVE  shown[i].at + lens[shown[i].file + 1] + SpaceGap <= shown[j].at
    <3>1. /\ shown[i].file \in 0..(F - 1) /\ shown[i].at \in Nat
          /\ shown[i].column \in 0..(cols - 1) /\ shown[j].column \in 0..(cols - 1)
          /\ ColumnOf(shown[i].file, cols) = shown[i].column
          /\ widths[shown[i].column] \in Nat /\ shown[j].at \in Nat
      BY ShownTypes
    <3>2. cols \in Nat \ {0} /\ lens[shown[i].file + 1] \in Nat
      BY <3>1, BasicTypes DEF ColInv
    <3>3. cols > 1 /\ shown[i].column # cols - 1
      <4> DEFINE left == shown[i].column
                 right == shown[j].column
      <4>1. /\ left \in 0..(cols - 1) /\ right \in 0..(cols - 1) /\ left < right
            /\ cols \in Nat \ {0}
        BY <2>3, <3>1, <3>2
      <4> HIDE DEF left, right
      <4>2. cols > 1 /\ left # cols - 1
        BY <4>1
      <4> QED
        BY <4>2 DEF left
    <3>4. pc # "fit"
      <4>1. Len(<< >>) = 0 /\ 1..0 = {}
        OBVIOUS
      <4>2. shown # << >>
        BY <4>1
      <4> QED
        BY <4>2 DEF ColInv, PlaceInv
    <3>5. Wanted(shown[i].file, cols) <= widths[shown[i].column]
      BY <3>1, <3>3, <3>4 DEF ColInv, WidthsInv, Roomy
    <3>6. Wanted(shown[i].file, cols) = lens[shown[i].file + 1] + SpaceGap
      BY <3>1, <3>3 DEF Wanted
    <3>7. shown[i].at + widths[shown[i].column] <= shown[j].at
      BY <2>3 DEF ColInv, StartsInv
    <3>8. lens[shown[i].file + 1] + SpaceGap <= widths[shown[i].column]
      BY <3>5, <3>6
    <3> DEFINE at == shown[i].at
               len == lens[shown[i].file + 1]
               width == widths[shown[i].column]
               next == shown[j].at
    <3>9. /\ at \in Nat /\ len \in Nat /\ width \in Nat /\ next \in Nat
          /\ len + SpaceGap <= width /\ at + width <= next
      BY <3>1, <3>2, <3>7, <3>8
    <3> HIDE DEF at, len, width, next
    <3>10. at + len + SpaceGap <= next
      BY <3>9 DEF SpaceGap
    <3> QED
      BY <3>10 DEF at, len, next
  <2> QED
    BY <2>1, <2>2, <2>3 DEF Aligned
<1> QED
  BY <1>1, ColumnsInvariant, PTL

-----------------------------------------------------------------------------
(***************************************************************************)
(* ShellEscape: what is printed of a name is read back as the name.        *)
(***************************************************************************)
(* A set of numbers has a least one: what holds of a sequence whenever it  *)
(* holds of the ones that are shorter has no least counterexample, hence   *)
(* no counterexample.                                                      *)
Less == {p \in Nat \X Nat : p[1] < p[2]}

LEMMA Least ==
  ASSUME NEW T \in SUBSET Nat, T # {}
  PROVE  \E m \in T : \A n \in T : m <= n
<1>1. Less = OpToRel(<, Nat)
  BY DEF Less, OpToRel
<1>2. IsWellFoundedOn(Less, Nat)
  BY <1>1, NatLessThanWellFounded
<1>3. PICK m \in T : \A n \in T : ~(<<n, m>> \in Less)
  BY <1>2, WFMin
<1>4. \A n \in T : m <= n
  <2> TAKE n \in T
  <2>1. n \in Nat /\ m \in Nat
    OBVIOUS
  <2>2. <<n, m>> \in Nat \X Nat /\ <<n, m>>[1] = n /\ <<n, m>>[2] = m
    BY <2>1
  <2>3. n < m => <<n, m>> \in Less
    BY <2>2 DEF Less
  <2> QED
    BY <1>3, <2>1, <2>3
<1> QED
  BY <1>4

(* What the shell has read of the first n bytes. *)
Reading(read, bytes, n) ==
  read = [i \in 0..n |-> IF i = 0 THEN Start ELSE ShellReads(read[i - 1], bytes[i])]

LEMMA ReadingExists ==
  ASSUME NEW bytes
  PROVE  \A n \in Nat : \E read : Reading(read, bytes, n)
<1> DEFINE T == {n \in Nat : ~\E read : Reading(read, bytes, n)}
<1> SUFFICES ASSUME T # {} PROVE FALSE
  OBVIOUS
<1>1. PICK m \in T : \A n \in T : m <= n
  BY Least
<1>2. m \in Nat /\ ~\E read : Reading(read, bytes, m)
  OBVIOUS
<1>3. CASE m = 0
  <2> DEFINE read == [i \in 0..0 |-> Start]
  <2>1. read = [i \in 0..0 |-> IF i = 0 THEN Start ELSE ShellReads(read[i - 1], bytes[i])]
    OBVIOUS
  <2> QED
    BY <1>2, <1>3, <2>1 DEF Reading
<1>4. CASE m # 0
  <2>1. m - 1 \in Nat /\ m - 1 \notin T
    BY <1>1, <1>2, <1>4
  <2>2. PICK old : Reading(old, bytes, m - 1)
    BY <2>1
  <2> DEFINE read == [i \in 0..m |-> IF i = m THEN ShellReads(old[m - 1], bytes[m]) ELSE old[i]]
  <2>3. \A i \in 0..(m - 1) :
          old[i] = IF i = 0 THEN Start ELSE ShellReads(old[i - 1], bytes[i])
    BY <2>2 DEF Reading
  <2>4. \A i \in 0..m :
          read[i] = IF i = 0 THEN Start ELSE ShellReads(read[i - 1], bytes[i])
    <3> TAKE i \in 0..m
    <3>1. CASE i = m
      <4>1. read[m - 1] = old[m - 1]
        BY <1>2, <1>4
      <4> QED
        BY <4>1, <3>1, <1>2, <1>4
    <3>2. CASE i # m /\ i # 0
      <4>1. read[i] = old[i] /\ read[i - 1] = old[i - 1] /\ i \in 0..(m - 1)
        BY <3>2, <1>2
      <4> QED
        BY <4>1, <3>2, <2>3
    <3>3. CASE i # m /\ i = 0
      <4>1. read[i] = old[i] /\ i \in 0..(m - 1)
        BY <3>3, <1>2, <1>4
      <4> QED
        BY <4>1, <3>3, <2>3
    <3> QED
      BY <3>1, <3>2, <3>3
  <2>5. Reading(read, bytes, m)
    <3>1. read = [i \in 0..m |-> read[i]]
      OBVIOUS
    <3> HIDE DEF read
    <3> QED
      BY <3>1, <2>4 DEF Reading
  <2> QED
    BY <2>5, <1>2
<1> QED
  BY <1>3, <1>4

(* It depends on these bytes only. *)
LEMMA ReadingsAgree ==
  ASSUME NEW read, NEW again, NEW bytes, NEW more, NEW n \in Nat, NEW m \in Nat,
         Reading(read, bytes, n), Reading(again, more, m), n <= m,
         \A i \in 1..n : bytes[i] = more[i]
  PROVE  \A i \in 0..n : read[i] = again[i]
<1> DEFINE T == {i \in Nat : i <= n /\ read[i] # again[i]}
<1> SUFFICES ASSUME T # {} PROVE FALSE
  OBVIOUS
<1>1. PICK i \in T : \A j \in T : i <= j
  BY Least
<1>2. i \in Nat /\ i <= n /\ read[i] # again[i]
  OBVIOUS
<1>3. /\ \A j \in 0..n : read[j] = IF j = 0 THEN Start ELSE ShellReads(read[j - 1], bytes[j])
      /\ \A j \in 0..m : again[j] = IF j = 0 THEN Start ELSE ShellReads(again[j - 1], more[j])
  BY DEF Reading
<1>4. i # 0
  BY <1>2, <1>3
<1>5. i - 1 \in Nat /\ i - 1 \notin T
  BY <1>1, <1>2, <1>4
<1>6. read[i - 1] = again[i - 1]
  BY <1>2, <1>5
<1>7. i \in 0..n /\ i \in 0..m /\ i \in 1..n
  BY <1>2, <1>4
<1> QED
  BY <1>2, <1>3, <1>4, <1>6, <1>7

LEMMA ReadBackIs ==
  ASSUME NEW bytes, Len(bytes) \in Nat
  PROVE  \E read : Reading(read, bytes, Len(bytes)) /\ ReadBack(bytes) = read[Len(bytes)]
<1> DEFINE read == CHOOSE f : Reading(f, bytes, Len(bytes))
<1>1. Reading(read, bytes, Len(bytes))
  BY ReadingExists
<1>2. ReadBack(bytes) = read[Len(bytes)]
  BY DEF ReadBack, Reading
<1> QED
  BY <1>1, <1>2

(* The shell reads a byte after another. *)
LEMMA ReadBackAppend ==
  ASSUME NEW S, NEW bytes \in Seq(S), NEW c \in S
  PROVE  /\ ReadBack(<< >>) = Start
         /\ ReadBack(Append(bytes, c)) = ShellReads(ReadBack(bytes), c)
<1>1. ReadBack(<< >>) = Start
  <2>1. Len(<< >>) = 0
    OBVIOUS
  <2>2. PICK read : Reading(read, << >>, 0) /\ ReadBack(<< >>) = read[0]
    BY <2>1, ReadBackIs
  <2> QED
    BY <2>2 DEF Reading
<1> DEFINE n == Len(bytes)
           more == Append(bytes, c)
<1>2. n \in Nat /\ Len(more) = n + 1 /\ more[n + 1] = c /\ \A i \in 1..n : bytes[i] = more[i]
  BY AppendProperties, LenProperties
<1> HIDE DEF more, n
<1>3. PICK read : Reading(read, bytes, n) /\ ReadBack(bytes) = read[n]
  BY <1>2, ReadBackIs DEF n
<1>4. PICK again : Reading(again, more, n + 1) /\ ReadBack(more) = again[n + 1]
  <2>1. n + 1 \in Nat
    BY <1>2
  <2> QED
    BY <1>2, <2>1, ReadBackIs
<1>5. \A i \in 0..n : read[i] = again[i]
  BY <1>2, <1>3, <1>4, ReadingsAgree
<1>6. again[n + 1] = ShellReads(again[n], more[n + 1])
  BY <1>2, <1>4 DEF Reading
<1>7. read[n] = again[n]
  BY <1>2, <1>5
<1> QED
  BY <1>1, <1>2, <1>3, <1>4, <1>6, <1>7 DEF more

-----------------------------------------------------------------------------
(* The shell in a mode, having read a word. *)
At(mode, word) == [mode |-> mode, word |-> word]

LEMMA AtFacts ==
  \A m, w : At(m, w).mode = m /\ At(m, w).word = w /\ \A n : Mode(At(m, w), n) = At(n, w)
BY DEF At, Mode

(* What it makes of the bytes that the escaper writes itself. *)
LEMMA EscapesRead ==
  \A w :
    /\ ShellReads(At("start", w), " ") = At("start", w)
    /\ ShellReads(At("start", w), "'") = At("single", w)
    /\ ShellReads(At("start", w), "\"") = At("double", w)
    /\ ShellReads(At("bare", w), "'") = At("single", w)
    /\ ShellReads(At("bare", w), "\\") = At("backslash", w)
    /\ ShellReads(At("bare", w), "$") = At("dollar", w)
    /\ ShellReads(At("backslash", w), "'") = At("bare", Append(w, "'"))
    /\ ShellReads(At("dollar", w), "'") = At("ansi", w)
    /\ ShellReads(At("single", w), "'") = At("bare", w)
    /\ ShellReads(At("double", w), "\"") = At("bare", w)
    /\ ShellReads(At("ansi", w), "'") = At("bare", w)
    /\ ShellReads(At("ansi", w), "\\") = At("escape", w)
    /\ ShellReads(At("escape", w), "n") = At("ansi", Append(w, "NL"))
    /\ ShellReads(At("escape", w), "2") = At("octal2", w)
    /\ ShellReads(At("octal2", w), "0") = At("octal20", w)
    /\ ShellReads(At("octal20", w), "1") = At("ansi", Append(w, "HI"))
BY AtFacts DEF ShellReads, Bare, Reads, At

(* The bytes of a name that are read as they are. *)
LEMMA NamesRead ==
  ASSUME NEW w, NEW c \in Byte
  PROVE  /\ c # "'" => ShellReads(At("single", w), c) = At("single", Append(w, c))
         /\ c \notin {"$", "\\"} =>
              ShellReads(At("double", w), c) = At("double", Append(w, c))
         /\ c \notin {" ", "'", "$", "\\"} =>
              /\ ShellReads(At("bare", w), c) = At("bare", Append(w, c))
              /\ c # "~" => ShellReads(At("start", w), c) = At("bare", Append(w, c))
BY AtFacts, ByteAssumption DEF ShellReads, Bare, Reads, At

(* These bytes are what RoundTrip wants of the output so far. *)
Printed(bytes, mode, word) ==
  /\ bytes \in Seq(Output) /\ ReadBack(bytes) = At(mode, word)
  /\ \A i \in 1..Len(bytes) : bytes[i] \notin Unprintable
  /\ use = "header" =>
       \A i \in 1..Len(bytes) : bytes[i] = ":" =>
         ReadBack(SubSeq(bytes, 1, i - 1)).mode \notin {"start", "bare"}

LEMMA NothingPrinted == Printed(<< >>, "start", << >>)
<1>1. << >> \in Seq(Output) /\ Len(<< >>) = 0
  OBVIOUS
<1>2. ReadBack(<< >>) = Start
  <2>1. << >> \in Seq({"1"}) /\ "1" \in {"1"}
    OBVIOUS
  <2> QED
    BY <2>1, ReadBackAppend
<1> QED
  BY <1>1, <1>2 DEF Printed, Start, At

LEMMA PrintedAppend ==
  ASSUME NEW s, NEW m, NEW w, Printed(s, m, w), NEW c \in Output, c \notin Unprintable,
         use = "header" /\ c = ":" => m \notin {"start", "bare"},
         NEW n, NEW v, ShellReads(At(m, w), c) = At(n, v)
  PROVE  Printed(Append(s, c), n, v)
<1> DEFINE t == Append(s, c)
<1>1. /\ t \in Seq(Output) /\ Len(t) = Len(s) + 1 /\ t[Len(s) + 1] = c /\ Len(s) \in Nat
      /\ \A i \in 1..Len(s) : t[i] = s[i]
  BY AppendProperties, LenProperties DEF Printed
<1>2. ReadBack(t) = At(n, v)
  BY ReadBackAppend DEF Printed
<1>3. \A i \in 1..Len(t) : t[i] \notin Unprintable
  BY <1>1 DEF Printed
<1>4. \A i \in 1..(Len(s) + 1) : SubSeq(t, 1, i - 1) = SubSeq(s, 1, i - 1)
  <2> TAKE i \in 1..(Len(s) + 1)
  <2>1. /\ SubSeq(t, 1, i - 1) \in Seq(Output) /\ SubSeq(s, 1, i - 1) \in Seq(Output)
        /\ Len(SubSeq(t, 1, i - 1)) = i - 1 /\ Len(SubSeq(s, 1, i - 1)) = i - 1
        /\ \A j \in 1..(i - 1) : SubSeq(t, 1, i - 1)[j] = t[j] /\ SubSeq(s, 1, i - 1)[j] = s[j]
    BY <1>1 DEF Printed
  <2> QED
    BY <2>1, <1>1, SeqEqual
<1>5. SubSeq(s, 1, Len(s)) = s
  BY SubSeqFull DEF Printed
<1>6. use = "header" =>
        \A i \in 1..Len(t) : t[i] = ":" =>
          ReadBack(SubSeq(t, 1, i - 1)).mode \notin {"start", "bare"}
  <2> SUFFICES ASSUME use = "header", NEW i \in 1..Len(t), t[i] = ":"
               PROVE  ReadBack(SubSeq(t, 1, i - 1)).mode \notin {"start", "bare"}
    OBVIOUS
  <2>1. CASE i = Len(s) + 1
    <3>1. SubSeq(t, 1, i - 1) = s /\ c = ":"
      BY <1>1, <1>4, <1>5, <2>1
    <3>2. ReadBack(s).mode = m
      BY AtFacts DEF Printed
    <3>3. m \notin {"start", "bare"}
      BY <3>1
    <3> QED
      BY <3>1, <3>2, <3>3
  <2>2. CASE i # Len(s) + 1
    <3>1. i \in 1..Len(s) /\ i \in 1..(Len(s) + 1)
      BY <1>1, <2>2
    <3>2. s[i] = ":" /\ SubSeq(t, 1, i - 1) = SubSeq(s, 1, i - 1)
      BY <1>1, <1>4, <3>1
    <3>3. ReadBack(SubSeq(s, 1, i - 1)).mode \notin {"start", "bare"}
      BY <3>1, <3>2 DEF Printed
    <3> QED
      BY <3>2, <3>3
  <2> QED
    BY <2>1, <2>2
<1> HIDE DEF t
<1>7. Printed(t, n, v)
  BY <1>1, <1>2, <1>3, <1>6 DEF Printed
<1> QED
  BY <1>7 DEF t

(* A few bytes are put one after another. *)
LEMMA OneByOne ==
  ASSUME NEW S, NEW s \in Seq(S), NEW a \in S, NEW b \in S, NEW c \in S, NEW d \in S
  PROVE  /\ s \o << >> = s /\ s \o <<a>> = Append(s, a)
         /\ s \o <<a, b>> = Append(Append(s, a), b)
         /\ s \o <<a, b, c, d>> = Append(Append(Append(Append(s, a), b), c), d)
         /\ << >> \in Seq(S) /\ <<a>> \in Seq(S) /\ <<a, b>> \in Seq(S)
         /\ <<a, b, c, d>> \in Seq(S)
         /\ Len(<<a>>) = 1 /\ Len(<<a, b>>) = 2 /\ Len(<<a, b, c, d>>) = 4
<1>1. /\ << >> \in Seq(S) /\ <<a>> \in Seq(S) /\ <<b>> \in Seq(S) /\ <<a, b>> \in Seq(S)
      /\ <<c>> \in Seq(S) /\ <<d>> \in Seq(S)
      /\ <<a, b, c>> \in Seq(S) /\ <<a, b, c, d>> \in Seq(S)
      /\ Len(<<a>>) = 1 /\ Len(<<a, b>>) = 2 /\ Len(<<a, b, c, d>>) = 4
  OBVIOUS
<1>2. /\ <<a, b>> = <<a>> \o <<b>> /\ <<a, b, c>> = <<a, b>> \o <<c>>
      /\ <<a, b, c, d>> = <<a, b, c>> \o <<d>>
  <2>1. /\ <<a, b>> = Append(<<a>>, b) /\ <<a, b, c>> = Append(<<a, b>>, c)
        /\ <<a, b, c, d>> = Append(<<a, b, c>>, d)
    OBVIOUS
  <2>2. Append(<<a>>, b) = <<a>> \o <<b>>
    BY <1>1, AppendIsConcat
  <2>3. Append(<<a, b>>, c) = <<a, b>> \o <<c>>
    BY <1>1, AppendIsConcat
  <2>4. Append(<<a, b, c>>, d) = <<a, b, c>> \o <<d>>
    BY <1>1, AppendIsConcat
  <2> QED
    BY <2>1, <2>2, <2>3, <2>4
<1>3. s \o << >> = s
  BY ConcatEmptySeq
<1>4. s \o <<a>> = Append(s, a) /\ Append(s, a) \in Seq(S)
  BY AppendIsConcat, AppendProperties
<1>5. s \o <<a, b>> = Append(Append(s, a), b) /\ s \o <<a, b>> \in Seq(S)
  <2>1. s \o (<<a>> \o <<b>>) = (s \o <<a>>) \o <<b>>
    BY <1>1, ConcatAssociative
  <2>2. Append(s, a) \o <<b>> = Append(Append(s, a), b) /\ Append(Append(s, a), b) \in Seq(S)
    BY <1>4, AppendIsConcat, AppendProperties
  <2> QED
    BY <1>2, <1>4, <2>1, <2>2
<1>6. s \o <<a, b, c>> = Append(Append(Append(s, a), b), c) /\ s \o <<a, b, c>> \in Seq(S)
  <2>1. s \o (<<a, b>> \o <<c>>) = (s \o <<a, b>>) \o <<c>>
    BY <1>1, ConcatAssociative
  <2>2. (s \o <<a, b>>) \o <<c>> = Append(s \o <<a, b>>, c) /\ Append(s \o <<a, b>>, c) \in Seq(S)
    BY <1>5, AppendIsConcat, AppendProperties
  <2> QED
    BY <1>2, <1>5, <2>1, <2>2
<1>7. s \o <<a, b, c, d>> = Append(Append(Append(Append(s, a), b), c), d)
  <2>1. s \o (<<a, b, c>> \o <<d>>) = (s \o <<a, b, c>>) \o <<d>>
    BY <1>1, ConcatAssociative
  <2>2. (s \o <<a, b, c>>) \o <<d>> = Append(s \o <<a, b, c>>, d)
    BY <1>6, AppendIsConcat
  <2> QED
    BY <1>2, <1>6, <2>1, <2>2
<1> QED
  BY <1>1, <1>3, <1>4, <1>5, <1>7

LEMMA OutputJoined ==
  \A s, t, u \in Seq(Output) :
    s \o t \in Seq(Output) /\ (s \o t) \o u = s \o (t \o u)
<1> TAKE s, t, u \in Seq(Output)
<1>1. s \o t \in Seq(Output)
  BY ConcatProperties
<1>2. s \o (t \o u) = (s \o t) \o u
  BY ConcatAssociative
<1> QED
  BY <1>1, <1>2

(* The quoting that a state of the escaper stands for. *)
ModeOf(s) == IF s.single THEN "single" ELSE IF s.ansi THEN "ansi" ELSE "bare"
States == [single : BOOLEAN, ansi : BOOLEAN]

(* The bytes that the escaper writes itself. *)
OwnBytes == {"'", "\"", "$", "\\", " ", "n", "2", "0", "1"}

LEMMA OwnBytesAre ==
  /\ "'" \in OwnBytes /\ "\"" \in OwnBytes /\ "$" \in OwnBytes /\ "\\" \in OwnBytes
  /\ " " \in OwnBytes /\ "n" \in OwnBytes /\ "2" \in OwnBytes /\ "0" \in OwnBytes
  /\ "1" \in OwnBytes
BY DEF OwnBytes

LEMMA OutputBytes ==
  /\ \A c \in Byte : c \in Output
  /\ \A c \in OwnBytes : c \in Output /\ c \notin Unprintable /\ c # ":"
BY DEF Output, Unprintable, OwnBytes

(* The shell after one, two or four of them. *)
LEMMA OwnPrinted ==
  ASSUME NEW s, NEW m, NEW w, Printed(s, m, w), NEW a \in OwnBytes,
         NEW n, NEW v, ShellReads(At(m, w), a) = At(n, v)
  PROVE  Printed(Append(s, a), n, v)
<1>1. a \in Output /\ a \notin Unprintable /\ a # ":"
  BY OutputBytes
<1> QED
  BY <1>1, PrintedAppend

LEMMA OnePrinted ==
  ASSUME NEW s, NEW m, NEW w, Printed(s, m, w), NEW a \in OwnBytes,
         NEW n, NEW v, ShellReads(At(m, w), a) = At(n, v)
  PROVE  Printed(s \o <<a>>, n, v)
<1>1. a \in Output /\ s \in Seq(Output)
  BY OutputBytes DEF Printed
<1>2. s \o <<a>> = Append(s, a)
  BY <1>1, AppendIsConcat
<1> QED
  BY <1>2, OwnPrinted

LEMMA TwoPrinted ==
  ASSUME NEW s, NEW m, NEW w, Printed(s, m, w), NEW a \in OwnBytes, NEW b \in OwnBytes,
         NEW n, NEW v, ShellReads(At(m, w), a) = At(n, v),
         NEW k, NEW u, ShellReads(At(n, v), b) = At(k, u)
  PROVE  Printed(s \o <<a, b>>, k, u)
<1>1. a \in Output /\ b \in Output /\ s \in Seq(Output)
  BY OutputBytes DEF Printed
<1>2. Printed(Append(s, a), n, v)
  BY OwnPrinted
<1>3. Printed(Append(Append(s, a), b), k, u)
  BY <1>2, OwnPrinted
<1>4. s \o <<a, b>> = Append(Append(s, a), b)
  BY <1>1, OneByOne
<1> QED
  BY <1>3, <1>4

LEMMA FourPrinted ==
  ASSUME NEW s, NEW m, NEW w, Printed(s, m, w), NEW a \in OwnBytes, NEW b \in OwnBytes,
         NEW c \in OwnBytes, NEW d \in OwnBytes,
         NEW n, NEW v, ShellReads(At(m, w), a) = At(n, v),
         NEW k, NEW u, ShellReads(At(n, v), b) = At(k, u),
         NEW l, NEW x, ShellReads(At(k, u), c) = At(l, x),
         NEW o, NEW y, ShellReads(At(l, x), d) = At(o, y)
  PROVE  Printed(s \o <<a, b, c, d>>, o, y)
<1>1. a \in Output /\ b \in Output /\ c \in Output /\ d \in Output /\ s \in Seq(Output)
  BY OutputBytes DEF Printed
<1>2. Printed(Append(s, a), n, v)
  BY OwnPrinted
<1>3. Printed(Append(Append(s, a), b), k, u)
  BY <1>2, OwnPrinted
<1>4. Printed(Append(Append(Append(s, a), b), c), l, x)
  BY <1>3, OwnPrinted
<1>5. Printed(Append(Append(Append(Append(s, a), b), c), d), o, y)
  BY <1>4, OwnPrinted
<1>6. s \o <<a, b, c, d>> = Append(Append(Append(Append(s, a), b), c), d)
  BY <1>1, OneByOne
<1> QED
  BY <1>5, <1>6

LEMMA PieceTypes ==
  ASSUME NEW c \in Byte, NEW st \in States
  PROVE  /\ LeaveAnsi(st) \in Seq(Output) /\ LeaveSingle(st) \in Seq(Output)
         /\ EnterSingle(st) \in Seq(Output) /\ EnterAnsi(st) \in Seq(Output)
         /\ AnsiByte(c) \in Seq(Output) /\ <<c>> \in Seq(Output)
         /\ <<"'", "\\", "'", "'">> \in Seq(Output) /\ <<"\\", "'">> \in Seq(Output)
<1>1. \A a, b, e, f \in Output :
        /\ << >> \in Seq(Output) /\ <<a>> \in Seq(Output) /\ <<a, b>> \in Seq(Output)
        /\ <<a, b, e, f>> \in Seq(Output)
  <2>1. << >> \in Seq(Output)
    OBVIOUS
  <2> QED
    BY <2>1, OneByOne
<1>2. /\ "'" \in Output /\ "\\" \in Output /\ "$" \in Output /\ "n" \in Output
      /\ "2" \in Output /\ "0" \in Output /\ "1" \in Output /\ c \in Output
  BY DEF Output
<1>3. << >> \in Seq(Output) /\ <<"'">> \in Seq(Output) /\ <<"$", "'">> \in Seq(Output)
  BY <1>1, <1>2
<1>4. <<"\\", "n">> \in Seq(Output) /\ <<"\\", "2", "0", "1">> \in Seq(Output)
  BY <1>1, <1>2
<1>5. /\ <<c>> \in Seq(Output) /\ <<"'", "\\", "'", "'">> \in Seq(Output)
      /\ <<"\\", "'">> \in Seq(Output)
  BY <1>1, <1>2
<1> QED
  BY <1>3, <1>4, <1>5 DEF LeaveAnsi, LeaveSingle, EnterSingle, EnterAnsi, AnsiByte

(* The pieces of what escape_byte_ emits. *)
LEMMA LeaveAnsiPrinted ==
  ASSUME NEW s, NEW w, NEW st \in States, ~(st.single /\ st.ansi), Printed(s, ModeOf(st), w)
  PROVE  Printed(s \o LeaveAnsi(st), IF st.single THEN "single" ELSE "bare", w)
<1>1. CASE st.ansi
  <2>1. Printed(s, "ansi", w)
    BY <1>1 DEF ModeOf
  <2>2. ShellReads(At("ansi", w), "'") = At("bare", w) /\ "'" \in OwnBytes
    BY EscapesRead, OwnBytesAre
  <2>3. Printed(s \o <<"'">>, "bare", w)
    BY <2>1, <2>2, OnePrinted
  <2> QED
    BY <1>1, <2>3 DEF LeaveAnsi
<1>2. CASE ~st.ansi
  <2>1. s \o << >> = s
    BY ConcatEmptySeq DEF Printed
  <2> QED
    BY <1>2, <2>1 DEF LeaveAnsi, ModeOf
<1> QED
  BY <1>1, <1>2

LEMMA LeaveSinglePrinted ==
  ASSUME NEW s, NEW w, NEW st \in States, ~(st.single /\ st.ansi), Printed(s, ModeOf(st), w)
  PROVE  Printed(s \o LeaveSingle(st), IF st.ansi THEN "ansi" ELSE "bare", w)
<1>1. CASE st.single
  <2>1. Printed(s, "single", w)
    BY <1>1 DEF ModeOf
  <2>2. ShellReads(At("single", w), "'") = At("bare", w) /\ "'" \in OwnBytes
    BY EscapesRead, OwnBytesAre
  <2>3. Printed(s \o <<"'">>, "bare", w)
    BY <2>1, <2>2, OnePrinted
  <2> QED
    BY <1>1, <2>3 DEF LeaveSingle
<1>2. CASE ~st.single
  <2>1. s \o << >> = s
    BY ConcatEmptySeq DEF Printed
  <2> QED
    BY <1>2, <2>1 DEF LeaveSingle, ModeOf
<1> QED
  BY <1>1, <1>2

LEMMA EnterSinglePrinted ==
  ASSUME NEW s, NEW w, NEW st \in States,
         Printed(s, IF st.single THEN "single" ELSE "bare", w)
  PROVE  Printed(s \o EnterSingle(st), "single", w)
<1>1. CASE ~st.single
  <2>1. Printed(s, "bare", w)
    BY <1>1
  <2>2. ShellReads(At("bare", w), "'") = At("single", w) /\ "'" \in OwnBytes
    BY EscapesRead, OwnBytesAre
  <2>3. Printed(s \o <<"'">>, "single", w)
    BY <2>1, <2>2, OnePrinted
  <2> QED
    BY <1>1, <2>3 DEF EnterSingle
<1>2. CASE st.single
  <2>1. s \o << >> = s
    BY ConcatEmptySeq DEF Printed
  <2> QED
    BY <1>2, <2>1 DEF EnterSingle
<1> QED
  BY <1>1, <1>2

LEMMA EnterAnsiPrinted ==
  ASSUME NEW s, NEW w, NEW st \in States, Printed(s, IF st.ansi THEN "ansi" ELSE "bare", w)
  PROVE  Printed(s \o EnterAnsi(st), "ansi", w)
<1>1. CASE ~st.ansi
  <2>1. Printed(s, "bare", w)
    BY <1>1
  <2>2. ShellReads(At("bare", w), "$") = At("dollar", w) /\ "$" \in OwnBytes
    BY EscapesRead, OwnBytesAre
  <2>3. ShellReads(At("dollar", w), "'") = At("ansi", w) /\ "'" \in OwnBytes
    BY EscapesRead, OwnBytesAre
  <2>4. Printed(s \o <<"$", "'">>, "ansi", w)
    BY <2>1, <2>2, <2>3, TwoPrinted
  <2> QED
    BY <1>1, <2>4 DEF EnterAnsi
<1>2. CASE st.ansi
  <2>1. s \o << >> = s
    BY ConcatEmptySeq DEF Printed
  <2> QED
    BY <1>2, <2>1 DEF EnterAnsi
<1> QED
  BY <1>1, <1>2

LEMMA AnsiBytePrinted ==
  ASSUME NEW s, NEW w, NEW c \in Unprintable, Printed(s, "ansi", w)
  PROVE  Printed(s \o AnsiByte(c), "ansi", Append(w, c))
<1>1. ShellReads(At("ansi", w), "\\") = At("escape", w) /\ "\\" \in OwnBytes
  BY EscapesRead, OwnBytesAre
<1>2. CASE c = "NL"
  <2>1. ShellReads(At("escape", w), "n") = At("ansi", Append(w, "NL")) /\ "n" \in OwnBytes
    BY EscapesRead, OwnBytesAre
  <2>2. Printed(s \o <<"\\", "n">>, "ansi", Append(w, "NL"))
    BY <1>1, <2>1, TwoPrinted
  <2> QED
    BY <1>2, <2>2 DEF AnsiByte
<1>3. CASE c = "HI"
  <2>1. ShellReads(At("escape", w), "2") = At("octal2", w) /\ "2" \in OwnBytes
    BY EscapesRead, OwnBytesAre
  <2>2. ShellReads(At("octal2", w), "0") = At("octal20", w) /\ "0" \in OwnBytes
    BY EscapesRead, OwnBytesAre
  <2>3. ShellReads(At("octal20", w), "1") = At("ansi", Append(w, "HI")) /\ "1" \in OwnBytes
    BY EscapesRead, OwnBytesAre
  <2>4. Printed(s \o <<"\\", "2", "0", "1">>, "ansi", Append(w, "HI"))
    BY <1>1, <2>1, <2>2, <2>3, FourPrinted
  <2> QED
    BY <1>3, <2>4 DEF AnsiByte
<1> QED
  BY <1>2, <1>3 DEF Unprintable

LEMMA QuoteLiteral == ~("'" \in Unprintable)
BY DEF Unprintable

LEMMA EscapedType ==
  ASSUME NEW c \in Byte, NEW st \in States
  PROVE  /\ Escaped(c, st) \in Seq(Output) /\ StateAfter(c, st) \in States
         /\ ~(StateAfter(c, st).single /\ StateAfter(c, st).ansi)
<1>1. StateAfter(c, st) \in States /\ ~(StateAfter(c, st).single /\ StateAfter(c, st).ansi)
  BY DEF StateAfter, States
<1> DEFINE p == IF st.single THEN <<"'", "\\", "'", "'">> ELSE <<"\\", "'">>
<1>2. /\ LeaveAnsi(st) \in Seq(Output) /\ LeaveSingle(st) \in Seq(Output)
      /\ EnterSingle(st) \in Seq(Output) /\ EnterAnsi(st) \in Seq(Output)
      /\ AnsiByte(c) \in Seq(Output) /\ <<c>> \in Seq(Output) /\ p \in Seq(Output)
  BY PieceTypes
<1>3. Escaped(c, st) =
        IF c = "'" THEN LeaveAnsi(st) \o p
        ELSE IF c \in Unprintable THEN (LeaveSingle(st) \o EnterAnsi(st)) \o AnsiByte(c)
        ELSE (LeaveAnsi(st) \o EnterSingle(st)) \o <<c>>
  BY DEF Escaped
<1> HIDE DEF p
<1>4. LeaveSingle(st) \o EnterAnsi(st) \in Seq(Output)
      /\ LeaveAnsi(st) \o EnterSingle(st) \in Seq(Output)
      /\ LeaveAnsi(st) \o p \in Seq(Output)
  BY <1>2, ConcatProperties
<1>5. (LeaveSingle(st) \o EnterAnsi(st)) \o AnsiByte(c) \in Seq(Output)
      /\ (LeaveAnsi(st) \o EnterSingle(st)) \o <<c>> \in Seq(Output)
  BY <1>2, <1>4, ConcatProperties
<1> QED
  BY <1>1, <1>3, <1>4, <1>5

(* escape_byte_: whatever the state, the shell reads the byte, and is left *)
(* in the mode of the new state.                                           *)
LEMMA EscapedPrinted ==
  ASSUME NEW s, NEW w, NEW c \in Byte, NEW st \in States, ~(st.single /\ st.ansi),
         Printed(s, ModeOf(st), w)
  PROVE  Printed(s \o Escaped(c, st), ModeOf(StateAfter(c, st)), Append(w, c))
<1>1. s \in Seq(Output)
  BY DEF Printed
<1>3. Printed(s \o LeaveAnsi(st), IF st.single THEN "single" ELSE "bare", w)
  BY LeaveAnsiPrinted
<1>4. CASE c = "'"
  <2> DEFINE p == IF st.single THEN <<"'", "\\", "'", "'">> ELSE <<"\\", "'">>
  <2>1. Escaped(c, st) = LeaveAnsi(st) \o p
    BY <1>4 DEF Escaped
  <2>2. p \in Seq(Output) /\ LeaveAnsi(st) \in Seq(Output)
    BY PieceTypes
  <2>3. s \o Escaped(c, st) = (s \o LeaveAnsi(st)) \o p
    <3> HIDE DEF p
    <3> QED
      BY <1>1, <2>1, <2>2, OutputJoined
  <2>4. ModeOf(StateAfter(c, st)) = IF st.single THEN "single" ELSE "bare"
    BY <1>4, QuoteLiteral DEF ModeOf, StateAfter
  <2>5. /\ ShellReads(At("bare", w), "\\") = At("backslash", w)
        /\ ShellReads(At("backslash", w), "'") = At("bare", Append(w, "'"))
        /\ "\\" \in OwnBytes /\ "'" \in OwnBytes
    BY EscapesRead, OwnBytesAre
  <2>6. CASE st.single
    <3>1. /\ ShellReads(At("single", w), "'") = At("bare", w)
          /\ ShellReads(At("bare", Append(w, "'")), "'") = At("single", Append(w, "'"))
      BY EscapesRead
    <3>2. Printed(s \o LeaveAnsi(st), "single", w)
      BY <1>3, <2>6
    <3>3. Printed((s \o LeaveAnsi(st)) \o <<"'", "\\", "'", "'">>, "single", Append(w, "'"))
      BY <3>1, <3>2, <2>5, FourPrinted
    <3> QED
      BY <1>4, <2>3, <2>4, <2>6, <3>3
  <2>7. CASE ~st.single
    <3>1. Printed(s \o LeaveAnsi(st), "bare", w)
      BY <1>3, <2>7
    <3>2. Printed((s \o LeaveAnsi(st)) \o <<"\\", "'">>, "bare", Append(w, "'"))
      BY <3>1, <2>5, TwoPrinted
    <3> QED
      BY <1>4, <2>3, <2>4, <2>7, <3>2
  <2> QED
    BY <2>6, <2>7
<1>5. CASE c \in Unprintable
  <2> DEFINE a == LeaveSingle(st)
             b == EnterAnsi(st)
             d == AnsiByte(c)
  <2>1. Escaped(c, st) = (a \o b) \o d
    BY <1>5, QuoteLiteral DEF Escaped
  <2>2. a \in Seq(Output) /\ b \in Seq(Output) /\ d \in Seq(Output)
    BY PieceTypes
  <2>3. Printed(s \o a, IF st.ansi THEN "ansi" ELSE "bare", w)
    BY LeaveSinglePrinted
  <2>4. Printed((s \o a) \o b, "ansi", w)
    BY <2>3, EnterAnsiPrinted
  <2>5. Printed(((s \o a) \o b) \o d, "ansi", Append(w, c))
    BY <1>5, <2>4, AnsiBytePrinted
  <2> HIDE DEF a, b, d
  <2>6. ((s \o a) \o b) \o d = s \o ((a \o b) \o d)
    <3> DEFINE ab == a \o b
    <3>1. (s \o a) \o b = s \o ab
      BY <1>1, <2>2, OutputJoined
    <3>2. ab \in Seq(Output) /\ d \in Seq(Output)
      BY <2>2, OutputJoined
    <3> HIDE DEF ab
    <3>3. (s \o ab) \o d = s \o (ab \o d)
      BY <1>1, <3>2, OutputJoined
    <3> QED
      BY <3>1, <3>3 DEF ab
  <2>7. ModeOf(StateAfter(c, st)) = "ansi"
    BY <1>5 DEF ModeOf, StateAfter
  <2> QED
    BY <2>1, <2>5, <2>6, <2>7
<1>6. CASE c # "'" /\ c \notin Unprintable
  <2> DEFINE a == LeaveAnsi(st)
             b == EnterSingle(st)
  <2>1. Escaped(c, st) = (a \o b) \o <<c>>
    BY <1>6 DEF Escaped
  <2>2. a \in Seq(Output) /\ b \in Seq(Output) /\ <<c>> \in Seq(Output)
    BY PieceTypes
  <2>3. Printed((s \o a) \o b, "single", w)
    BY <1>3, EnterSinglePrinted
  <2>4. Printed(Append((s \o a) \o b, c), "single", Append(w, c))
    <3>1. ShellReads(At("single", w), c) = At("single", Append(w, c))
      BY <1>6, NamesRead
    <3>2. c \in Output /\ c \notin Unprintable /\ "single" \notin {"start", "bare"}
      BY <1>6, OutputBytes
    <3> QED
      BY <2>3, <3>1, <3>2, PrintedAppend
  <2> HIDE DEF a, b
  <2>5. Append((s \o a) \o b, c) = s \o ((a \o b) \o <<c>>)
    <3> DEFINE ab == a \o b
               one == <<c>>
    <3>1. (s \o a) \o b = s \o ab
      BY <1>1, <2>2, OutputJoined
    <3>2. ab \in Seq(Output) /\ one \in Seq(Output)
      BY <2>2, OutputJoined
    <3>3. s \o ab \in Seq(Output)
      BY <1>1, <3>2, OutputJoined
    <3>4. Append(s \o ab, c) = (s \o ab) \o one
      BY <3>3, AppendIsConcat, OutputBytes
    <3> HIDE DEF ab, one
    <3>5. (s \o ab) \o one = s \o (ab \o one)
      BY <1>1, <3>2, OutputJoined
    <3> QED
      BY <3>1, <3>4, <3>5 DEF ab, one
  <2>6. ModeOf(StateAfter(c, st)) = "single"
    BY <1>6 DEF ModeOf, StateAfter
  <2> QED
    BY <2>1, <2>4, <2>5, <2>6
<1> QED
  BY <1>4, <1>5, <1>6

(* The closing quote of the escaper. *)
CloseOf(st) == IF st.single \/ st.ansi THEN <<"'">> ELSE << >>

LEMMA ClosePrinted ==
  ASSUME NEW s, NEW w, NEW st \in States, Printed(s, ModeOf(st), w)
  PROVE  Printed(s \o CloseOf(st), "bare", w)
<1>1. /\ ShellReads(At("single", w), "'") = At("bare", w)
      /\ ShellReads(At("ansi", w), "'") = At("bare", w) /\ "'" \in OwnBytes
  BY EscapesRead, OwnBytesAre
<1>2. CASE st.single
  <2>1. Printed(s, "single", w)
    BY <1>2 DEF ModeOf
  <2> QED
    BY <1>1, <1>2, <2>1, OnePrinted DEF CloseOf
<1>3. CASE ~st.single /\ st.ansi
  <2>1. Printed(s, "ansi", w)
    BY <1>3 DEF ModeOf
  <2> QED
    BY <1>1, <1>3, <2>1, OnePrinted DEF CloseOf
<1>4. CASE ~st.single /\ ~st.ansi
  <2>1. s \o << >> = s
    BY ConcatEmptySeq DEF Printed
  <2> QED
    BY <1>4, <2>1 DEF CloseOf, ModeOf
<1> QED
  BY <1>2, <1>3, <1>4

(* A name that is put as it is, after what leaves the shell in mode m. *)
LEMMA NamePrinted ==
  ASSUME name \in Seq(Byte), name # << >>, NEW s, NEW m, NEW n,
         Printed(s, m, << >>),
         \A i \in 1..Len(name) :
           /\ name[i] \notin Unprintable
           /\ use = "header" /\ name[i] = ":" => {m, n} \cap {"start", "bare"} = {}
           /\ \A w : ShellReads(At(IF i = 1 THEN m ELSE n, w), name[i])
                       = At(n, Append(w, name[i]))
  PROVE  Printed(s \o name, n, name)
<1> DEFINE front(k) == SubSeq(name, 1, k)
           T == {k \in Nat : k <= Len(name)
                     /\ ~Printed(s \o front(k), IF k = 0 THEN m ELSE n, front(k))}
<1>1. Len(name) \in Nat /\ Len(name) # 0 /\ s \in Seq(Output)
  BY EmptySeq, LenProperties DEF Printed
<1>2. T = {}
  <2> SUFFICES ASSUME T # {} PROVE FALSE
    OBVIOUS
  <2>1. PICK k \in T : \A j \in T : k <= j
    BY Least
  <2>2. k \in Nat /\ k <= Len(name)
        /\ ~Printed(s \o front(k), IF k = 0 THEN m ELSE n, front(k))
    OBVIOUS
  <2>3. k # 0
    <3>1. front(0) = << >> /\ s \o << >> = s
      BY <1>1, SubSeqEmpty, ConcatEmptySeq
    <3> QED
      BY <2>2, <3>1
  <2> DEFINE j == k - 1
             c == name[k]
  <2>4. j \in Nat /\ j <= Len(name) /\ j \notin T /\ k \in 1..Len(name)
    BY <2>1, <2>2, <2>3
  <2>5. Printed(s \o front(j), IF j = 0 THEN m ELSE n, front(j))
    BY <2>4
  <2>6. front(k) = Append(front(j), c) /\ front(j) \in Seq(Byte) /\ c \in Byte
    BY <2>4, <1>1, ElementOfSeq, SubSeqRecursiveSecond, SubSeqProperties
  <2>7. s \o front(k) = Append(s \o front(j), c)
    <3> HIDE DEF front, j, c
    <3>1. front(j) \in Seq(Output) /\ c \in Output /\ <<c>> \in Seq(Output)
      BY <2>6, OutputBytes, SeqMonotonic
    <3>2. front(k) = front(j) \o <<c>> /\ s \o front(j) \in Seq(Output)
      BY <1>1, <2>6, <3>1, AppendIsConcat, ConcatProperties
    <3>3. (s \o front(j)) \o <<c>> = s \o (front(j) \o <<c>>)
      BY <1>1, <3>1, OutputJoined
    <3>4. (s \o front(j)) \o <<c>> = Append(s \o front(j), c)
      BY <3>1, <3>2, AppendIsConcat
    <3> QED
      BY <3>2, <3>3, <3>4
  <2>8. ShellReads(At(IF j = 0 THEN m ELSE n, front(j)), c) = At(n, Append(front(j), c))
    <3>1. (IF j = 0 THEN m ELSE n) = (IF k = 1 THEN m ELSE n)
      BY <2>2
    <3>2. \A w : ShellReads(At(IF k = 1 THEN m ELSE n, w), c) = At(n, Append(w, c))
      BY <2>4
    <3> QED
      BY <3>1, <3>2
  <2>9. /\ c \in Output /\ c \notin Unprintable
        /\ use = "header" /\ c = ":" => (IF j = 0 THEN m ELSE n) \notin {"start", "bare"}
    BY <2>4, <2>6, OutputBytes
  <2>10. Printed(Append(s \o front(j), c), n, Append(front(j), c))
    <3> HIDE DEF front, j, c
    <3> QED
      BY <2>5, <2>8, <2>9, PrintedAppend
  <2> QED
    BY <2>2, <2>3, <2>6, <2>7, <2>10
<1>3. Len(name) \notin T
  BY <1>2
<1>4. front(Len(name)) = name
  BY SubSeqFull
<1>5. Printed(s \o front(Len(name)), IF Len(name) = 0 THEN m ELSE n, front(Len(name)))
  BY <1>1, <1>3
<1> HIDE DEF front, T
<1> QED
  BY <1>1, <1>4, <1>5

(* The scan: what has been looked at needs no quote, or only what double  *)
(* quotes protect; then the quote is right for the whole name.             *)
ScanInv ==
  stage = "scan" =>
    \A i \in 1..(index - 1) : NeedsRawQuote(name[i], i) =>
      analysis.needsQuote /\ (analysis.canUseDouble => AllowsDouble(name[i]))

QuoteInv ==
  stage # "scan" =>
    \A i \in 1..Len(name) : NeedsRawQuote(name[i], i) =>
      quote # "none" /\ (quote = "\"" => AllowsDouble(name[i]))

(* The bytes written so far are read as the bytes of the name so far.      *)
PrintInv ==
  /\ stage = "write" /\ quote = "'" =>
       Printed(dst, ModeOf(state), SubSeq(name, 1, index - 1))
  /\ stage = "write" /\ quote # "'" => dst = << >>
  /\ stage = "write" /\ quote = "none" /\ use = "header" =>
       \A i \in 1..Len(name) : name[i] # ":"
  /\ stage = "done" /\ ~Degraded => Printed(dst, "bare", name)

(* The count and the state of the escaper before each byte.                *)
Tally(len, st, n) ==
  /\ len \in [1..n -> Nat] /\ st \in [1..n -> States]
  /\ len[1] = 1 /\ st[1] = [single |-> TRUE, ansi |-> FALSE]
  /\ \A i \in 1..(n - 1) :
       /\ len[i + 1] = len[i] + Len(Escaped(name[i], st[i]))
       /\ st[i + 1] = StateAfter(name[i], st[i])
  /\ \A i \in 1..n : len[i] <= len[n]

(* The second pass of shell_escape_bytes_ goes through the states and the  *)
(* lengths of the first.                                                   *)
Measured ==
  \E len, st : Tally(len, st, index) /\ need = len[index] /\ state = st[index]
Written ==
  LET last == Len(name) + 1 IN
  \E len, st :
    /\ Tally(len, st, last)
    /\ Len(dst) = len[index] /\ state = st[index]
    /\ need = len[last] + Len(CloseOf(st[last]))

CountInv ==
  /\ stage \in {"measure", "write"} /\ quote # "'" => need = PlainLen(quote)
  /\ stage = "measure" /\ quote = "'" => Measured
  /\ stage = "write" /\ quote = "'" => Written
  /\ stage = "done" /\ ~raw => Len(dst) = need

EscapeInv ==
  /\ EscapeTypeOK /\ name # << >> /\ (raw => stage = "done")
  /\ ScanInv /\ QuoteInv /\ PrintInv /\ CountInv

LEMMA EscapeInitInv == EscapeInit => EscapeInv
<1> SUFFICES ASSUME EscapeInit PROVE EscapeInv
  OBVIOUS
<1>1. PICK n \in 1..MaxLen : name \in [1..n -> Byte]
  BY DEF EscapeInit
<1>2. name \in Seq(Byte) /\ Len(name) = n /\ n \in Nat /\ name # << >>
  BY <1>1, MaxLenAssumption
<1>3. EscapeTypeOK
  <2>1. << >> \in Seq(Output)
    OBVIOUS
  <2>2. 1 \in 1..(Len(name) + 1)
    BY <1>2
  <2>3. /\ use \in Uses /\ stage = "scan" /\ index = 1 /\ quote = "none"
        /\ need = 0 /\ dst = << >> /\ raw = FALSE
    BY DEF EscapeInit
  <2>4. /\ analysis \in [needsQuote : BOOLEAN, hasSingle : BOOLEAN,
                         canUseDouble : BOOLEAN, hasNonPrint : BOOLEAN]
        /\ state \in [single : BOOLEAN, ansi : BOOLEAN] /\ ~(state.single /\ state.ansi)
    BY DEF EscapeInit
  <2> QED
    BY <1>2, <2>1, <2>2, <2>3, <2>4 DEF EscapeTypeOK
<1>4. ScanInv /\ QuoteInv /\ PrintInv /\ CountInv /\ ~raw
  BY DEF EscapeInit, ScanInv, QuoteInv, PrintInv, CountInv
<1> QED
  BY <1>2, <1>3, <1>4 DEF EscapeInv

LEMMA Indexes ==
  ASSUME EscapeTypeOK
  PROVE  /\ name \in Seq(Byte) /\ Len(name) \in Nat /\ dst \in Seq(Output) /\ Len(dst) \in Nat
         /\ index \in Nat /\ index >= 1 /\ index <= Len(name) + 1
         /\ need \in Nat /\ raw \in BOOLEAN /\ state \in States
         /\ ~(state.single /\ state.ansi)
<1>1. name \in Seq(Byte) /\ dst \in Seq(Output)
  BY DEF EscapeTypeOK
<1>2. Len(name) \in Nat /\ Len(dst) \in Nat
  BY <1>1, LenProperties
<1>3. index \in 1..(Len(name) + 1) /\ need \in Nat /\ raw \in BOOLEAN
  BY DEF EscapeTypeOK
<1>4. state \in States /\ ~(state.single /\ state.ansi)
  BY DEF EscapeTypeOK, States
<1> QED
  BY <1>1, <1>2, <1>3, <1>4

LEMMA AnalyzeByteStep == EscapeInv /\ AnalyzeByte => EscapeInv'
<1> SUFFICES ASSUME EscapeInv, AnalyzeByte PROVE EscapeInv'
  OBVIOUS
<1>1. /\ EscapeTypeOK /\ name # << >> /\ ~raw /\ ScanInv /\ index \in 1..Len(name)
      /\ stage = "scan" /\ stage' = "scan" /\ index' = index + 1
      /\ UNCHANGED <<name, use, dst, raw>>
  <2>1. EscapeTypeOK /\ name # << >> /\ (raw => stage = "done") /\ ScanInv
    BY DEF EscapeInv
  <2>2. /\ stage = "scan" /\ index <= Len(name) /\ index' = index + 1
        /\ UNCHANGED <<name, use, dst, raw, stage>>
    BY DEF AnalyzeByte
  <2>3. index \in 1..Len(name) /\ raw \in BOOLEAN
    BY <2>1, <2>2, Indexes
  <2> QED
    BY <2>1, <2>2, <2>3
<1>2. EscapeTypeOK'
  <2>1. /\ analysis' \in [needsQuote : BOOLEAN, hasSingle : BOOLEAN,
                          canUseDouble : BOOLEAN, hasNonPrint : BOOLEAN]
    <3>1. /\ analysis.needsQuote \in BOOLEAN /\ analysis.hasSingle \in BOOLEAN
          /\ analysis.canUseDouble \in BOOLEAN /\ analysis.hasNonPrint \in BOOLEAN
      BY <1>1 DEF EscapeTypeOK
    <3> QED
      BY <3>1 DEF AnalyzeByte
  <2>2. index + 1 \in 1..(Len(name) + 1)
    BY <1>1, Indexes
  <2>3. UNCHANGED <<use, name, stage, quote, state, need, dst, raw>>
    BY DEF AnalyzeByte
  <2> QED
    BY <1>1, <2>1, <2>2, <2>3 DEF EscapeTypeOK
<1>3. ScanInv'
  <2> SUFFICES ASSUME NEW i \in 1..index, NeedsRawQuote(name[i], i)
               PROVE  /\ analysis'.needsQuote
                      /\ analysis'.canUseDouble => AllowsDouble(name[i])
    <3>1. name' = name /\ index' - 1 = index
      BY <1>1, Indexes
    <3> QED
      BY <3>1 DEF ScanInv
  <2>0. /\ analysis'.needsQuote = (analysis.needsQuote \/ NeedsRawQuote(name[index], index))
        /\ analysis'.canUseDouble =
             (/\ analysis.canUseDouble
              /\ NeedsRawQuote(name[index], index) => AllowsDouble(name[index]))
    BY DEF AnalyzeByte
  <2>1. CASE i = index
    BY <2>0, <2>1
  <2>2. CASE i # index
    <3>1. i \in 1..(index - 1)
      BY <1>1, <2>2
    <3> QED
      BY <1>1, <2>0, <3>1 DEF ScanInv
  <2> QED
    BY <2>1, <2>2
<1>4. QuoteInv' /\ PrintInv' /\ CountInv'
  BY <1>1 DEF QuoteInv, PrintInv, CountInv
<1> QED
  BY <1>1, <1>2, <1>3, <1>4 DEF EscapeInv

(* The first byte of single quotes. *)
LEMMA TallyStart ==
  \E len, st : Tally(len, st, 1) /\ len[1] = 1 /\ st[1] = [single |-> TRUE, ansi |-> FALSE]
<1> DEFINE len == [i \in 1..1 |-> 1]
           st == [i \in 1..1 |-> [single |-> TRUE, ansi |-> FALSE]]
<1>1. /\ len \in [1..1 -> Nat] /\ st \in [1..1 -> States]
      /\ len[1] = 1 /\ st[1] = [single |-> TRUE, ansi |-> FALSE]
  BY DEF States
<1> HIDE DEF len, st
<1>2. Tally(len, st, 1)
  BY <1>1 DEF Tally
<1> QED
  BY <1>1, <1>2

LEMMA TallyStep ==
  ASSUME EscapeTypeOK, NEW n \in 1..Len(name), NEW len, NEW st, Tally(len, st, n)
  PROVE  \E more, after :
           /\ Tally(more, after, n + 1)
           /\ more[n + 1] = len[n] + Len(Escaped(name[n], st[n]))
           /\ after[n + 1] = StateAfter(name[n], st[n])
<1> DEFINE extra == Len(Escaped(name[n], st[n]))
           next == StateAfter(name[n], st[n])
           more == [i \in 1..(n + 1) |-> IF i = n + 1 THEN len[n] + extra ELSE len[i]]
           after == [i \in 1..(n + 1) |-> IF i = n + 1 THEN next ELSE st[i]]
<1>1. name[n] \in Byte /\ n \in Nat /\ n >= 1
  <2>1. name \in Seq(Byte)
    BY DEF EscapeTypeOK
  <2>2. name[n] \in Byte
    BY <2>1, ElementOfSeq
  <2> QED
    BY <2>1, <2>2, LenProperties
<1>2. st[n] \in States /\ len[n] \in Nat
  BY <1>1 DEF Tally
<1>3. extra \in Nat /\ next \in States
  BY <1>1, <1>2, EscapedType, LenProperties
<1>4. /\ more \in [1..(n + 1) -> Nat] /\ after \in [1..(n + 1) -> States]
      /\ more[1] = 1 /\ after[1] = [single |-> TRUE, ansi |-> FALSE]
  <2> HIDE DEF extra, next
  <2>1. /\ len \in [1..n -> Nat] /\ st \in [1..n -> States]
        /\ len[1] = 1 /\ st[1] = [single |-> TRUE, ansi |-> FALSE]
    BY DEF Tally
  <2>2. 1 \in 1..n /\ n + 1 # 1 /\ len[n] + extra \in Nat
    BY <1>1, <1>2, <1>3
  <2>3. more \in [1..(n + 1) -> Nat]
    BY <1>1, <2>1, <2>2
  <2>4. after \in [1..(n + 1) -> States]
    BY <1>1, <1>3, <2>1
  <2>5. more[1] = len[1] /\ after[1] = st[1]
    BY <1>1, <2>2
  <2> QED
    BY <2>1, <2>3, <2>4, <2>5
<1>5. \A i \in 1..n : more[i] = len[i] /\ after[i] = st[i]
  BY <1>1
<1>6. more[n + 1] = len[n] + extra /\ after[n + 1] = next
  BY <1>1
<1>7. \A i \in 1..n :
        /\ more[i + 1] = more[i] + Len(Escaped(name[i], after[i]))
        /\ after[i + 1] = StateAfter(name[i], after[i])
  <2> TAKE i \in 1..n
  <2>1. CASE i = n
    BY <1>5, <1>6, <2>1
  <2>2. CASE i # n
    <3>1. i \in 1..(n - 1) /\ i + 1 \in 1..n
      BY <1>1, <2>2
    <3> HIDE DEF more, after
    <3> QED
      BY <1>5, <3>1 DEF Tally
  <2> QED
    BY <2>1, <2>2
<1>8. \A i \in 1..(n + 1) : more[i] <= more[n + 1]
  <2> HIDE DEF more, after, extra, next
  <2> TAKE i \in 1..(n + 1)
  <2>1. CASE i = n + 1
    BY <1>1, <1>4, <2>1
  <2>2. CASE i # n + 1
    <3>1. i \in 1..n /\ len[i] <= len[n] /\ len[i] \in Nat
      BY <1>1, <2>2 DEF Tally
    <3> QED
      BY <1>2, <1>3, <1>5, <1>6, <3>1
  <2> QED
    BY <2>1, <2>2
<1> HIDE DEF more, after, extra, next
<1>9. (n + 1) - 1 = n
  BY <1>1
<1>10. Tally(more, after, n + 1)
  BY <1>4, <1>7, <1>8, <1>9 DEF Tally
<1> QED
  BY <1>6, <1>10 DEF extra, next

(* What the steps leave alone. *)
LEMMA TallyKept ==
  \A len, st, n : name' = name /\ Tally(len, st, n) => Tally(len, st, n)'
BY DEF Tally

LEMMA ScanDoneStep == EscapeInv /\ ScanDone => EscapeInv'
<1> SUFFICES ASSUME EscapeInv, ScanDone PROVE EscapeInv'
  OBVIOUS
<1>1. EscapeTypeOK /\ name # << >> /\ ~raw /\ ScanInv /\ stage = "scan" /\ index > Len(name)
  BY DEF EscapeInv, ScanDone
<1>2. /\ UNCHANGED <<name, use, raw, dst, analysis>> /\ stage' = "measure" /\ index' = 1
      /\ state' = [single |-> TRUE, ansi |-> FALSE]
      /\ quote' = QuoteFromAnalysis
      /\ need' = IF quote' = "'" THEN 1 ELSE PlainLen(quote')
  BY DEF ScanDone, Measure, Restart
<1>3. index - 1 = Len(name)
  BY <1>1, Indexes
<1>4. EscapeTypeOK'
  <2>1. QuoteFromAnalysis \in {"none", "'", "\""}
    BY DEF QuoteFromAnalysis
  <2>2. PlainLen(quote') \in Nat /\ 1 \in 1..(Len(name) + 1)
    BY <1>1, Indexes DEF PlainLen, Pad
  <2>3. need' \in Nat
    BY <1>2, <2>2
  <2>4. /\ use \in Uses /\ name \in Seq(Byte) /\ dst \in Seq(Output) /\ raw \in BOOLEAN
        /\ analysis \in [needsQuote : BOOLEAN, hasSingle : BOOLEAN,
                         canUseDouble : BOOLEAN, hasNonPrint : BOOLEAN]
    BY <1>1 DEF EscapeTypeOK
  <2>5. state' \in [single : BOOLEAN, ansi : BOOLEAN] /\ ~(state'.single /\ state'.ansi)
    BY <1>2
  <2> QED
    BY <1>2, <2>1, <2>2, <2>3, <2>4, <2>5 DEF EscapeTypeOK
<1>5. ScanInv' /\ PrintInv'
  BY <1>2 DEF ScanInv, PrintInv
<1>6. QuoteInv'
  <2> SUFFICES ASSUME NEW i \in 1..Len(name), NeedsRawQuote(name[i], i)
               PROVE  quote' # "none" /\ (quote' = "\"" => AllowsDouble(name[i]))
    BY <1>2 DEF QuoteInv
  <2>1. analysis.needsQuote /\ (analysis.canUseDouble => AllowsDouble(name[i]))
    BY <1>1, <1>3 DEF ScanInv
  <2> QED
    BY <1>2, <2>1 DEF QuoteFromAnalysis
<1>7. CountInv'
  <2>1. PICK len, st : /\ Tally(len, st, 1) /\ len[1] = 1
                       /\ st[1] = [single |-> TRUE, ansi |-> FALSE]
    BY TallyStart
  <2>2. Tally(len, st, 1)'
    BY <1>2, <2>1, TallyKept
  <2>3. quote' = "'" => Measured'
    BY <1>2, <2>1, <2>2 DEF Measured
  <2>4. quote' # "'" => need' = PlainLen(quote)'
    BY <1>2 DEF PlainLen, Pad
  <2> QED
    BY <1>2, <2>3, <2>4 DEF CountInv
<1> QED
  BY <1>1, <1>2, <1>4, <1>5, <1>6, <1>7 DEF EscapeInv

(* put_dir_header measures again, with single quotes. *)
LEMMA HeaderRequotedStep == EscapeInv /\ HeaderRequoted => EscapeInv'
<1> SUFFICES ASSUME EscapeInv, HeaderRequoted PROVE EscapeInv'
  OBVIOUS
<1>1. EscapeTypeOK /\ name # << >> /\ ~raw /\ QuoteInv /\ stage = "measure" /\ quote = "none"
  BY DEF EscapeInv, HeaderRequoted, LoopDone, RequoteDue
<1>2. /\ UNCHANGED <<name, use, raw, dst, analysis>> /\ stage' = "measure" /\ index' = 1
      /\ state' = [single |-> TRUE, ansi |-> FALSE]
      /\ quote' = "'" /\ need' = 1
  BY DEF HeaderRequoted, Requote, Measure, Restart
<1>3. EscapeTypeOK'
  <2>1. 1 \in 1..(Len(name) + 1) /\ need' \in Nat
    BY <1>1, <1>2, Indexes
  <2>2. /\ use \in Uses /\ name \in Seq(Byte) /\ dst \in Seq(Output) /\ raw \in BOOLEAN
        /\ analysis \in [needsQuote : BOOLEAN, hasSingle : BOOLEAN,
                         canUseDouble : BOOLEAN, hasNonPrint : BOOLEAN]
    BY <1>1 DEF EscapeTypeOK
  <2>3. state' \in [single : BOOLEAN, ansi : BOOLEAN] /\ ~(state'.single /\ state'.ansi)
    BY <1>2
  <2> QED
    BY <1>2, <2>1, <2>2, <2>3 DEF EscapeTypeOK
<1>4. ScanInv' /\ PrintInv' /\ QuoteInv'
  BY <1>1, <1>2 DEF ScanInv, PrintInv, QuoteInv
<1>5. CountInv'
  <2>1. PICK len, st : /\ Tally(len, st, 1) /\ len[1] = 1
                       /\ st[1] = [single |-> TRUE, ansi |-> FALSE]
    BY TallyStart
  <2>2. Tally(len, st, 1)'
    BY <1>2, <2>1, TallyKept
  <2>3. Measured'
    BY <1>2, <2>1, <2>2 DEF Measured
  <2> QED
    BY <1>2, <2>3 DEF CountInv
<1> QED
  BY <1>1, <1>2, <1>3, <1>4, <1>5 DEF EscapeInv

(* The single quote that opens is printed and read. *)
LEMMA OpenPrinted ==
  /\ Printed(<<"'">>, "single", << >>) /\ Printed(<<"\"">>, "double", << >>)
  /\ Printed(<<" ">>, "start", << >>)
<1>1. /\ ShellReads(At("start", << >>), "'") = At("single", << >>) /\ "'" \in OwnBytes
      /\ ShellReads(At("start", << >>), "\"") = At("double", << >>) /\ "\"" \in OwnBytes
      /\ ShellReads(At("start", << >>), " ") = At("start", << >>) /\ " " \in OwnBytes
  BY EscapesRead, OwnBytesAre
<1>2. /\ Printed(Append(<< >>, "'"), "single", << >>)
      /\ Printed(Append(<< >>, "\""), "double", << >>)
      /\ Printed(Append(<< >>, " "), "start", << >>)
  BY <1>1, NothingPrinted, OwnPrinted
<1>3. \A c : Append(<< >>, c) = <<c>>
  OBVIOUS
<1> QED
  BY <1>2, <1>3

LEMMA ReserveStep == EscapeInv /\ Reserve => EscapeInv'
<1> SUFFICES ASSUME EscapeInv, Reserve PROVE EscapeInv'
  OBVIOUS
<1>1. /\ EscapeTypeOK /\ name # << >> /\ ~raw /\ QuoteInv /\ CountInv /\ stage = "measure"
      /\ ~RequoteDue /\ (quote = "'" => index > Len(name))
  BY DEF EscapeInv, Reserve, LoopDone
<1>2. /\ UNCHANGED <<name, use, raw, quote, analysis>> /\ stage' = "write" /\ index' = 1
      /\ state' = [single |-> TRUE, ansi |-> FALSE]
      /\ need' = Counted
      /\ dst' = IF quote = "'" THEN <<"'">> ELSE << >>
  BY DEF Reserve, Write, Restart
<1>3. EscapeTypeOK'
  <2>1. Len(Closing) \in Nat
    <3>1. Len(<<"'">>) = 1 /\ Len(<< >>) = 0
      OBVIOUS
    <3> QED
      BY <3>1 DEF Closing
  <2>2. 1 \in 1..(Len(name) + 1) /\ need' \in Nat
    BY <1>1, <1>2, <2>1, Indexes DEF Counted
  <2>3. /\ use \in Uses /\ name \in Seq(Byte) /\ raw \in BOOLEAN
        /\ quote \in {"none", "'", "\""}
        /\ analysis \in [needsQuote : BOOLEAN, hasSingle : BOOLEAN,
                         canUseDouble : BOOLEAN, hasNonPrint : BOOLEAN]
    BY <1>1 DEF EscapeTypeOK
  <2>4. state' \in [single : BOOLEAN, ansi : BOOLEAN] /\ ~(state'.single /\ state'.ansi)
    BY <1>2
  <2>5. dst' \in Seq(Output)
    <3>1. << >> \in Seq(Output) /\ <<"'">> \in Seq(Output)
      BY NothingPrinted, OpenPrinted DEF Printed
    <3> QED
      BY <1>2, <3>1
  <2> QED
    BY <1>2, <2>2, <2>3, <2>4, <2>5 DEF EscapeTypeOK
<1>4. ScanInv' /\ QuoteInv'
  BY <1>1, <1>2 DEF ScanInv, QuoteInv
<1>5. PrintInv'
  <2>1. quote = "'" => Printed(dst, ModeOf(state), SubSeq(name, 1, index - 1))'
    <3> SUFFICES ASSUME quote = "'"
                 PROVE  Printed(dst, ModeOf(state), SubSeq(name, 1, index - 1))'
      OBVIOUS
    <3>1. ModeOf(state)' = "single" /\ dst' = <<"'">>
      BY <1>2 DEF ModeOf
    <3>2. SubSeq(name, 1, index - 1)' = << >>
      <4>1. SubSeq(name, 1, 0) = << >> /\ index' - 1 = 0
        BY <1>1, <1>2, Indexes, SubSeqEmpty
      <4> QED
        BY <1>2, <4>1
    <3>3. Printed(<<"'">>, "single", << >>)
      BY OpenPrinted
    <3> QED
      BY <1>2, <3>1, <3>2, <3>3 DEF Printed
  <2>2. quote = "none" /\ use = "header" => \A i \in 1..Len(name) : name[i] # ":"
    BY <1>1 DEF RequoteDue, Contains
  <2> QED
    BY <1>2, <2>1, <2>2 DEF PrintInv
<1>6. CountInv'
  <2>1. quote # "'" => need' = PlainLen(quote)'
    <3>1. quote # "'" => need' = need + 0 /\ need = PlainLen(quote)
      BY <1>1, <1>2 DEF CountInv, Counted
    <3>2. PlainLen(quote)' = PlainLen(quote)
      BY <1>2 DEF PlainLen, Pad
    <3> QED
      BY <1>1, <3>1, <3>2, Indexes
  <2>2. quote = "'" => Written'
    <3> SUFFICES ASSUME quote = "'" PROVE Written'
      OBVIOUS
    <3>1. index = Len(name) + 1
      BY <1>1, Indexes
    <3>2. PICK len, st : Tally(len, st, index) /\ need = len[index] /\ state = st[index]
      BY <1>1 DEF CountInv, Measured
    <3>3. Tally(len, st, Len(name) + 1)'
      BY <1>2, <3>1, <3>2, TallyKept
    <3>4. need' = len[Len(name) + 1] + Len(CloseOf(st[Len(name) + 1]))
      BY <1>2, <3>1, <3>2 DEF Counted, Closing, CloseOf
    <3>5. Len(dst') = len[1] /\ state' = st[1]
      <4>1. Len(<<"'">>) = 1
        OBVIOUS
      <4> QED
        BY <1>2, <3>2, <4>1 DEF Tally
    <3> QED
      BY <1>2, <3>3, <3>4, <3>5 DEF Written
  <2> QED
    BY <1>2, <2>1, <2>2 DEF CountInv
<1> QED
  BY <1>1, <1>2, <1>3, <1>4, <1>5, <1>6 DEF EscapeInv

LEMMA EscapeByteStep == EscapeInv /\ EscapeByte => EscapeInv'
<1> SUFFICES ASSUME EscapeInv, EscapeByte PROVE EscapeInv'
  OBVIOUS
<1> DEFINE c == name[index]
           bytes == Escaped(c, state)
<1>1. /\ EscapeTypeOK /\ name # << >> /\ ~raw /\ QuoteInv /\ CountInv /\ PrintInv
      /\ stage \in {"measure", "write"} /\ quote = "'" /\ index <= Len(name)
  BY DEF EscapeInv, EscapeByte
<1>2. /\ UNCHANGED <<name, use, raw, quote, analysis, stage>> /\ index' = index + 1
      /\ state' = StateAfter(c, state)
  BY DEF EscapeByte
<1>3. /\ stage = "measure" => need' = need + Len(bytes) /\ dst' = dst
      /\ stage = "write" => dst' = dst \o bytes /\ need' = need
  BY DEF EscapeByte, Emit
<1>4. index \in 1..Len(name) /\ c \in Byte
  <2>1. index \in 1..Len(name) /\ name \in Seq(Byte)
    BY <1>1, Indexes
  <2> QED
    BY <2>1, ElementOfSeq
<1>5. /\ bytes \in Seq(Output) /\ Len(bytes) \in Nat
      /\ state' \in States /\ ~(state'.single /\ state'.ansi)
  BY <1>1, <1>2, <1>4, Indexes, EscapedType, LenProperties
<1> HIDE DEF c, bytes
<1>6. EscapeTypeOK'
  <2>1. index + 1 \in 1..(Len(name) + 1)
    BY <1>1, Indexes
  <2>2. need' \in Nat /\ dst' \in Seq(Output)
    <3>1. need \in Nat /\ dst \in Seq(Output)
      BY <1>1, Indexes
    <3>2. need + Len(bytes) \in Nat /\ dst \o bytes \in Seq(Output)
      BY <1>5, <3>1, ConcatProperties
    <3> QED
      BY <1>1, <1>3, <3>1, <3>2
  <2>3. /\ use \in Uses /\ name \in Seq(Byte) /\ raw \in BOOLEAN
        /\ quote \in {"none", "'", "\""} /\ stage \in {"scan", "measure", "write", "done"}
        /\ analysis \in [needsQuote : BOOLEAN, hasSingle : BOOLEAN,
                         canUseDouble : BOOLEAN, hasNonPrint : BOOLEAN]
    BY <1>1 DEF EscapeTypeOK
  <2>4. state' \in [single : BOOLEAN, ansi : BOOLEAN]
    BY <1>5 DEF States
  <2> QED
    BY <1>2, <1>5, <2>1, <2>2, <2>3, <2>4 DEF EscapeTypeOK
<1>7. ScanInv' /\ QuoteInv'
  BY <1>1, <1>2 DEF ScanInv, QuoteInv
<1>8. PrintInv'
  <2>1. stage = "write" => Printed(dst, ModeOf(state), SubSeq(name, 1, index - 1))'
    <3> SUFFICES ASSUME stage = "write"
                 PROVE  Printed(dst, ModeOf(state), SubSeq(name, 1, index - 1))'
      OBVIOUS
    <3>1. Printed(dst, ModeOf(state), SubSeq(name, 1, index - 1))
      BY <1>1 DEF PrintInv
    <3>2. Printed(dst \o bytes, ModeOf(StateAfter(c, state)),
                  Append(SubSeq(name, 1, index - 1), c))
      BY <1>1, <1>4, <3>1, Indexes, EscapedPrinted DEF bytes
    <3>3. SubSeq(name, 1, index) = Append(SubSeq(name, 1, index - 1), c)
      BY <1>1, <1>4, Indexes, SubSeqRecursiveSecond DEF c
    <3>4. SubSeq(name, 1, index - 1)' = Append(SubSeq(name, 1, index - 1), c)
      <4>1. index' - 1 = index
        BY <1>1, <1>2, Indexes
      <4> QED
        BY <1>2, <3>3, <4>1
    <3>5. dst' = dst \o bytes /\ ModeOf(state)' = ModeOf(StateAfter(c, state))
      BY <1>2, <1>3 DEF ModeOf
    <3> QED
      BY <1>2, <3>2, <3>4, <3>5 DEF Printed
  <2> QED
    BY <1>1, <1>2, <2>1 DEF PrintInv
<1>9. CountInv'
  <2>1. CASE stage = "measure"
    <3>1. PICK len, st : Tally(len, st, index) /\ need = len[index] /\ state = st[index]
      BY <1>1, <2>1 DEF CountInv, Measured
    <3>2. PICK more, after :
            /\ Tally(more, after, index + 1)
            /\ more[index + 1] = len[index] + Len(Escaped(name[index], st[index]))
            /\ after[index + 1] = StateAfter(name[index], st[index])
      BY <1>1, <1>4, <3>1, TallyStep
    <3>3. Tally(more, after, index)'
      <4>1. PICK n : n = index + 1
        OBVIOUS
      <4>2. Tally(more, after, n)'
        BY <1>2, <3>2, <4>1, TallyKept
      <4> QED
        BY <1>2, <4>1, <4>2 DEF Tally
    <3>4. need' = more[index + 1] /\ state' = after[index + 1]
      BY <1>2, <1>3, <2>1, <3>1, <3>2 DEF c, bytes
    <3>5. Measured'
      BY <1>2, <3>3, <3>4 DEF Measured
    <3> QED
      BY <1>1, <1>2, <2>1, <3>5 DEF CountInv
  <2>2. CASE stage = "write"
    <3> DEFINE last == Len(name) + 1
    <3>1. PICK len, st : /\ Tally(len, st, last)
                         /\ Len(dst) = len[index] /\ state = st[index]
                         /\ need = len[last] + Len(CloseOf(st[last]))
      BY <1>1, <2>2 DEF CountInv, Written
    <3>2. /\ len[index + 1] = len[index] + Len(Escaped(name[index], st[index]))
          /\ st[index + 1] = StateAfter(name[index], st[index])
      <4>1. index \in 1..(last - 1)
        BY <1>1, <1>4, Indexes
      <4> QED
        BY <3>1, <4>1 DEF Tally
    <3>3. Len(dst') = Len(dst) + Len(bytes)
      BY <1>1, <1>3, <1>5, <2>2, Indexes, ConcatProperties
    <3>4. Len(dst') = len[index + 1] /\ state' = st[index + 1]
      BY <1>2, <3>1, <3>2, <3>3 DEF c, bytes
    <3>5. Tally(len, st, last)'
      BY <1>2, <3>1, TallyKept
    <3>6. Written'
      BY <1>2, <1>3, <2>2, <3>1, <3>4, <3>5 DEF Written
    <3> QED
      BY <1>1, <1>2, <2>2, <3>6 DEF CountInv
  <2> QED
    BY <1>1, <2>1, <2>2
<1> QED
  BY <1>1, <1>2, <1>6, <1>7, <1>8, <1>9 DEF EscapeInv

(* A name in double or in no quotes, or in the single quotes of a message. *)
LEMMA DoublePrinted ==
  ASSUME EscapeTypeOK, name # << >>,
         \A i \in 1..Len(name) : NeedsRawQuote(name[i], i) => AllowsDouble(name[i])
  PROVE  Printed(<<"\"">> \o name \o <<"\"">>, "bare", name)
<1>1. /\ name \in Seq(Byte) /\ \A i \in 1..Len(name) : name[i] \in Byte
  BY Indexes, ElementOfSeq
<1>2. \A i \in 1..Len(name) :
        /\ name[i] \notin Unprintable /\ name[i] \notin {"$", "\\"}
  BY DEF NeedsRawQuote, AllowsDouble, Unprintable
<1>3. \A i \in 1..Len(name) :
        \A w : ShellReads(At("double", w), name[i]) = At("double", Append(w, name[i]))
  BY <1>1, <1>2, NamesRead
<1>4. Printed(<<"\"">> \o name, "double", name)
  <2>1. Printed(<<"\"">>, "double", << >>)
    BY OpenPrinted
  <2>2. {"double", "double"} \cap {"start", "bare"} = {}
    OBVIOUS
  <2>3. \A i \in 1..Len(name) :
          /\ name[i] \notin Unprintable
          /\ use = "header" /\ name[i] = ":" => {"double", "double"} \cap {"start", "bare"} = {}
          /\ \A w : ShellReads(At(IF i = 1 THEN "double" ELSE "double", w), name[i])
                      = At("double", Append(w, name[i]))
    BY <1>2, <1>3, <2>2
  <2> QED
    BY <1>1, <2>1, <2>3, NamePrinted
<1>5. ShellReads(At("double", name), "\"") = At("bare", name) /\ "\"" \in OwnBytes
  BY EscapesRead, OwnBytesAre
<1> QED
  BY <1>4, <1>5, OnePrinted

LEMMA RawPrinted ==
  ASSUME EscapeTypeOK, name # << >>, use # "header",
         \A i \in 1..Len(name) : ~NeedsRawQuote(name[i], i)
  PROVE  Printed(<<"'">> \o name \o <<"'">>, "bare", name)
<1>1. /\ name \in Seq(Byte) /\ \A i \in 1..Len(name) : name[i] \in Byte
  BY Indexes, ElementOfSeq
<1>2. \A i \in 1..Len(name) : name[i] \notin Unprintable /\ name[i] # "'"
  BY DEF NeedsRawQuote, Unprintable
<1>3. \A i \in 1..Len(name) :
        \A w : ShellReads(At("single", w), name[i]) = At("single", Append(w, name[i]))
  BY <1>1, <1>2, NamesRead
<1>4. Printed(<<"'">> \o name, "single", name)
  <2>1. Printed(<<"'">>, "single", << >>)
    BY OpenPrinted
  <2>2. \A i \in 1..Len(name) :
          /\ name[i] \notin Unprintable
          /\ use = "header" /\ name[i] = ":" => {"single", "single"} \cap {"start", "bare"} = {}
          /\ \A w : ShellReads(At(IF i = 1 THEN "single" ELSE "single", w), name[i])
                      = At("single", Append(w, name[i]))
    BY <1>2, <1>3
  <2> QED
    BY <1>1, <2>1, <2>2, NamePrinted
<1>5. ShellReads(At("single", name), "'") = At("bare", name) /\ "'" \in OwnBytes
  BY EscapesRead, OwnBytesAre
<1> QED
  BY <1>4, <1>5, OnePrinted

LEMMA PadIs ==
  LET pad == SubSeq(<<" ">>, 1, Pad) IN
  /\ pad = << >> \/ pad = <<" ">>
  /\ pad \in Seq(Output) /\ Len(pad) = Pad /\ Pad \in Nat
<1> DEFINE pad == SubSeq(<<" ">>, 1, Pad)
<1>1. CASE use = "padded"
  <2>1. Pad = 1
    BY <1>1 DEF Pad
  <2>2. <<" ">> \in Seq(Output) /\ Len(<<" ">>) = 1
    BY OpenPrinted DEF Printed
  <2>3. SubSeq(<<" ">>, 1, 1) = <<" ">>
    BY <2>2, SubSeqFull
  <2> QED
    BY <2>1, <2>2, <2>3
<1>2. CASE use # "padded"
  <2>1. Pad = 0 /\ SubSeq(<<" ">>, 1, 0) = << >>
    BY <1>2 DEF Pad
  <2>2. << >> \in Seq(Output) /\ Len(<< >>) = 0
    OBVIOUS
  <2> QED
    BY <2>1, <2>2
<1> QED
  BY <1>1, <1>2

LEMMA PlainPrinted ==
  ASSUME EscapeTypeOK, name # << >>,
         \A i \in 1..Len(name) : ~NeedsRawQuote(name[i], i),
         use = "header" => \A i \in 1..Len(name) : name[i] # ":"
  PROVE  Printed(SubSeq(<<" ">>, 1, Pad) \o name, "bare", name)
<1>1. /\ name \in Seq(Byte) /\ \A i \in 1..Len(name) : name[i] \in Byte
  BY Indexes, ElementOfSeq
<1>2. \A i \in 1..Len(name) :
        /\ name[i] \notin Unprintable /\ name[i] \notin {" ", "'", "$", "\\"}
        /\ i = 1 => name[i] # "~"
  BY DEF NeedsRawQuote, Unprintable
<1>3. \A i \in 1..Len(name) : \A w :
        ShellReads(At(IF i = 1 THEN "start" ELSE "bare", w), name[i])
          = At("bare", Append(w, name[i]))
  <2> TAKE i \in 1..Len(name)
  <2> TAKE w
  <2>1. /\ ShellReads(At("bare", w), name[i]) = At("bare", Append(w, name[i]))
        /\ name[i] # "~" => ShellReads(At("start", w), name[i]) = At("bare", Append(w, name[i]))
    BY <1>1, <1>2, NamesRead
  <2> QED
    BY <1>2, <2>1
<1> DEFINE pad == SubSeq(<<" ">>, 1, Pad)
<1>4. Printed(pad, "start", << >>)
  <2>1. pad = << >> \/ pad = <<" ">>
    BY PadIs
  <2> QED
    BY <2>1, NothingPrinted, OpenPrinted
<1>5. \A i \in 1..Len(name) :
        /\ name[i] \notin Unprintable
        /\ use = "header" /\ name[i] = ":" => {"start", "bare"} \cap {"start", "bare"} = {}
        /\ \A w : ShellReads(At(IF i = 1 THEN "start" ELSE "bare", w), name[i])
                    = At("bare", Append(w, name[i]))
  BY <1>2, <1>3
<1> HIDE DEF pad
<1>6. Printed(pad \o name, "bare", name)
  BY <1>1, <1>4, <1>5, NamePrinted
<1> QED
  BY <1>6 DEF pad

LEMMA WriteRawStep == EscapeInv /\ WriteRaw => EscapeInv'
<1> SUFFICES ASSUME EscapeInv, WriteRaw PROVE EscapeInv'
  OBVIOUS
<1>1. EscapeTypeOK /\ name # << >> /\ QuoteInv /\ stage = "measure" /\ use = "message"
  BY DEF EscapeInv, WriteRaw, LoopDone
<1>2. /\ UNCHANGED <<use, name, index, analysis, quote, state, need>>
      /\ dst' = <<"'">> \o name \o <<"'">> /\ raw' = TRUE /\ stage' = "done"
  BY DEF WriteRaw
<1>3. EscapeTypeOK'
  <2>1. <<"'">> \in Seq(Output) /\ name \in Seq(Output)
    BY <1>1, Indexes, OpenPrinted, OutputBytes, SeqMonotonic DEF Printed
  <2>2. <<"'">> \o name \in Seq(Output)
    BY <2>1, ConcatProperties
  <2>3. dst' \in Seq(Output)
    BY <1>2, <2>1, <2>2, ConcatProperties
  <2> QED
    BY <1>1, <1>2, <2>3 DEF EscapeTypeOK
<1>4. ScanInv' /\ QuoteInv' /\ CountInv'
  BY <1>1, <1>2 DEF ScanInv, QuoteInv, CountInv
<1>5. PrintInv'
  <2>1. ~Degraded' => Printed(dst, "bare", name)'
    <3> SUFFICES ASSUME ~Degraded' PROVE Printed(dst, "bare", name)'
      OBVIOUS
    <3>1. quote = "none"
      BY <1>2 DEF Degraded
    <3>2. \A i \in 1..Len(name) : ~NeedsRawQuote(name[i], i)
      BY <1>1, <3>1 DEF QuoteInv
    <3>3. Printed(<<"'">> \o name \o <<"'">>, "bare", name)
      BY <1>1, <3>2, RawPrinted
    <3> QED
      BY <1>2, <3>3 DEF Printed
  <2> QED
    BY <1>2, <2>1 DEF PrintInv
<1> QED
  BY <1>1, <1>2, <1>3, <1>4, <1>5 DEF EscapeInv

LEMMA WriteDoneStep == EscapeInv /\ WriteDone => EscapeInv'
<1> SUFFICES ASSUME EscapeInv, WriteDone PROVE EscapeInv'
  OBVIOUS
<1>1. /\ EscapeTypeOK /\ name # << >> /\ ~raw /\ QuoteInv /\ PrintInv /\ CountInv
      /\ stage = "write" /\ (quote = "'" => index > Len(name))
  BY DEF EscapeInv, WriteDone, LoopDone
<1>2. /\ UNCHANGED <<use, name, index, analysis, quote, state, need, raw>>
      /\ dst' = IF quote = "'" THEN dst \o Closing
                ELSE IF quote = "\"" THEN <<"\"">> \o name \o <<"\"">>
                ELSE SubSeq(<<" ">>, 1, Pad) \o name
      /\ stage' = "done"
  BY DEF WriteDone
<1>3. /\ name \in Seq(Byte) /\ Len(name) \in Nat /\ dst \in Seq(Output) /\ Len(dst) \in Nat
      /\ state \in States /\ need \in Nat
  BY <1>1, Indexes
<1>4. Printed(dst', "bare", name) /\ Len(dst') = need
  <2>1. CASE quote = "'"
    <3>1. index = Len(name) + 1
      BY <1>1, <2>1, Indexes
    <3>2. Printed(dst, ModeOf(state), name)
      <4>1. SubSeq(name, 1, index - 1) = name
        BY <1>3, <3>1, SubSeqFull
      <4> QED
        BY <1>1, <2>1, <4>1 DEF PrintInv
    <3>3. Closing = CloseOf(state)
      BY DEF Closing, CloseOf
    <3>4. Printed(dst \o CloseOf(state), "bare", name)
      BY <1>3, <3>2, ClosePrinted
    <3>5. Len(dst) + Len(CloseOf(state)) = need
      BY <1>1, <2>1, <3>1 DEF CountInv, Written
    <3>6. Len(dst \o CloseOf(state)) = Len(dst) + Len(CloseOf(state))
      <4>1. CloseOf(state) \in Seq(Output)
        <5>1. << >> \in Seq(Output) /\ <<"'">> \in Seq(Output)
          BY NothingPrinted, OpenPrinted DEF Printed
        <5> QED
          BY <5>1 DEF CloseOf
      <4> QED
        BY <1>3, <4>1, ConcatProperties
    <3> QED
      BY <1>2, <2>1, <3>3, <3>4, <3>5, <3>6
  <2>2. CASE quote = "\""
    <3>1. Printed(<<"\"">> \o name \o <<"\"">>, "bare", name)
      BY <1>1, <2>2, DoublePrinted DEF QuoteInv
    <3>2. Len(<<"\"">> \o name \o <<"\"">>) = Len(name) + 2
      <4>1. /\ <<"\"">> \in Seq(Output) /\ name \in Seq(Output) /\ Len(<<"\"">>) = 1
        BY <1>3, OpenPrinted, OutputBytes, SeqMonotonic DEF Printed
      <4> DEFINE mark == <<"\"">>
                 opened == mark \o name
      <4>2. opened \in Seq(Output) /\ Len(opened) = 1 + Len(name)
        BY <4>1, ConcatProperties
      <4>3. mark \in Seq(Output) /\ Len(mark) = 1
        BY <4>1
      <4> HIDE DEF mark, opened
      <4>4. Len(opened \o mark) = Len(opened) + 1
        BY <4>2, <4>3, ConcatProperties
      <4>5. Len(opened \o mark) = Len(name) + 2
        BY <1>3, <4>2, <4>4
      <4> QED
        BY <4>5 DEF mark, opened
    <3>3. need = Len(name) + 2
      BY <1>1, <2>2 DEF CountInv, PlainLen
    <3> QED
      BY <1>2, <2>2, <3>1, <3>2, <3>3
  <2>3. CASE quote = "none"
    <3> DEFINE pad == SubSeq(<<" ">>, 1, Pad)
    <3>1. Printed(pad \o name, "bare", name)
      BY <1>1, <2>3, PlainPrinted DEF QuoteInv, PrintInv
    <3>2. pad \in Seq(Output) /\ Len(pad) = Pad /\ Pad \in Nat
      BY PadIs
    <3>3. name \in Seq(Output)
      BY <1>3, OutputBytes, SeqMonotonic
    <3>4. need = Len(name) + Pad
      BY <1>1, <2>3 DEF CountInv, PlainLen
    <3>5. dst' = pad \o name
      BY <1>2, <2>3
    <3> HIDE DEF pad
    <3>6. Len(pad \o name) = Pad + Len(name)
      BY <3>2, <3>3, ConcatProperties
    <3> QED
      BY <1>3, <3>1, <3>2, <3>4, <3>5, <3>6
  <2> QED
    BY <1>1, <2>1, <2>2, <2>3 DEF EscapeTypeOK
<1>5. EscapeTypeOK'
  <2>1. dst' \in Seq(Output)
    BY <1>4 DEF Printed
  <2> QED
    BY <1>1, <1>2, <2>1 DEF EscapeTypeOK
<1>6. PrintInv'
  <2>1. Printed(dst, "bare", name)'
    BY <1>2, <1>4 DEF Printed
  <2> QED
    BY <1>2, <2>1 DEF PrintInv
<1>7. ScanInv' /\ QuoteInv' /\ CountInv'
  BY <1>1, <1>2, <1>4 DEF ScanInv, QuoteInv, CountInv
<1> QED
  BY <1>1, <1>2, <1>5, <1>6, <1>7 DEF EscapeInv

LEMMA EscapeStep == EscapeInv /\ [EscapeNext]_escapeVars => EscapeInv'
<1> SUFFICES ASSUME EscapeInv, [EscapeNext]_escapeVars PROVE EscapeInv'
  OBVIOUS
<1>1. CASE UNCHANGED escapeVars
  <2>1. UNCHANGED <<use, name, stage, index, analysis, quote, state, need, dst, raw>>
    BY <1>1 DEF escapeVars
  <2>2. EscapeTypeOK' /\ name' # << >> /\ (raw' => stage' = "done") /\ ScanInv' /\ QuoteInv'
    BY <2>1 DEF EscapeInv, EscapeTypeOK, ScanInv, QuoteInv
  <2>3. PrintInv'
    BY <2>1 DEF EscapeInv, PrintInv, Printed, Degraded, ModeOf
  <2>4. CountInv'
    <3>1. Measured => Measured'
      BY <2>1 DEF Measured, Tally
    <3>2. Written => Written'
      BY <2>1 DEF Written, Tally
    <3>3. PlainLen(quote)' = PlainLen(quote)
      BY <2>1 DEF PlainLen, Pad
    <3> QED
      BY <2>1, <3>1, <3>2, <3>3 DEF EscapeInv, CountInv
  <2> QED
    BY <2>2, <2>3, <2>4 DEF EscapeInv
<1> QED
  BY <1>1, AnalyzeByteStep, ScanDoneStep, EscapeByteStep, HeaderRequotedStep, ReserveStep,
     WriteRawStep, WriteDoneStep DEF EscapeNext

LEMMA EscapeHolds == EscapeSpec => []EscapeInv
BY EscapeInitInv, EscapeStep, PTL DEF EscapeSpec

(* Whatever bytes a name has, what put_shell_escaped_scan_, put_dir_header *)
(* and print_error_ print of it is read by a shell as the name, with no    *)
(* unprintable byte and, in a header, no colon out of quotes               *)
(* (ft_shell_escape.c:223); a message whose escaped name cannot be         *)
(* allocated is excepted.                                                  *)
THEOREM QuotedRoundTrip == EscapeSpec => []RoundTrip
<1>1. EscapeInv => RoundTrip
  <2> SUFFICES ASSUME EscapeInv, stage = "done", ~Degraded
               PROVE  /\ ReadBack(dst) = [mode |-> "bare", word |-> name]
                      /\ \A c \in Unprintable : ~Contains(dst, c)
                      /\ use = "header" => ColonsQuoted
    BY DEF RoundTrip
  <2>1. Printed(dst, "bare", name)
    BY DEF EscapeInv, PrintInv
  <2> QED
    BY <2>1 DEF Printed, At, Contains, ColonsQuoted
<1> QED
  BY <1>1, EscapeHolds, PTL

(* The second pass of shell_escape_bytes_ writes as many bytes as the      *)
(* first has counted and never more on the way, so that append_bytes_      *)
(* stays within what was reserved (ft_shell_escape.c:121).                 *)
THEOREM QuotedFits == EscapeSpec => []Fits
<1>1. EscapeInv => Fits
  <2> SUFFICES ASSUME EscapeInv, stage \in {"write", "done"}, ~raw
               PROVE  Len(dst) <= need /\ (stage = "done" => Len(dst) = need)
    BY DEF Fits, EscapeInv
  <2>1. EscapeTypeOK /\ PrintInv /\ CountInv
    BY DEF EscapeInv
  <2>2. CASE stage = "done"
    BY <2>1, <2>2, Indexes DEF CountInv
  <2>3. CASE stage = "write" /\ quote # "'"
    <3>1. Len(dst) = 0
      BY <2>1, <2>3 DEF PrintInv
    <3> QED
      BY <2>1, <2>3, <3>1, Indexes
  <2>4. CASE stage = "write" /\ quote = "'"
    <3> DEFINE last == Len(name) + 1
    <3>1. PICK len, st : /\ Tally(len, st, last) /\ Len(dst) = len[index]
                         /\ need = len[last] + Len(CloseOf(st[last]))
      BY <2>1, <2>4 DEF CountInv, Written
    <3>2. index \in 1..last /\ last \in 1..last
      BY <2>1, Indexes
    <3>3. len[index] <= len[last] /\ len[index] \in Nat /\ len[last] \in Nat
      BY <3>1, <3>2 DEF Tally
    <3>4. Len(CloseOf(st[last])) \in Nat
      <4>1. Len(<<"'">>) = 1 /\ Len(<< >>) = 0
        OBVIOUS
      <4> QED
        BY <4>1 DEF CloseOf
    <3> QED
      BY <2>4, <3>1, <3>3, <3>4
  <2> QED
    BY <2>2, <2>3, <2>4
<1> QED
  BY <1>1, EscapeHolds, PTL
=============================================================================
