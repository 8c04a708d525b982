--------------------------- MODULE Console_proofs ---------------------------
(***************************************************************************)
(* For screens of every size: the cursor stays on the screen, it is shown  *)
(* in its own row, the next core's screen is not written, and the screen   *)
(* is a terminal's page.                                                   *)
(*                                                                         *)
(* All four follow from what a function of dbg_console.c makes of a        *)
(* console that is Good: a Result, and the page the terminal's operation   *)
(* leaves.  The lemmas state both one function at a time.                  *)
(***************************************************************************)
EXTENDS ConsoleRefinement, SequenceTheorems, TLAPS

Position == [row : Screen, col : Columns]

Con == [mem : [Lines -> Line], row : Screen, col : Columns, reg : Position]

Good(c) == c \in Con /\ c.reg.row = c.row

(* What a function that is given c may return.                             *)
Result(c, d) == Good(d) /\ d.mem[Rows] = c.mem[Rows]

(* The first row and the first column exist, and so do the last ones; the  *)
(* line of the next core is not on the screen.                             *)
LEMMA Bounds ==
  /\ 0 \in Screen /\ 0 \in Columns
  /\ Rows - 1 \in Screen /\ Rows \in Lines /\ Rows \notin Screen
  /\ Screen \subseteq Lines
  /\ \A r \in Screen : r + 1 \in Lines /\ r # Rows
BY ConsoleAssumption DEF Screen, Columns, Lines

(* Moving the cursor within the screen shows it in its new row.            *)
LEMMA MovedResult ==
  ASSUME NEW c \in Con, NEW r \in Screen, NEW k \in Columns
  PROVE  Result(c, Moved(c, r, k))
BY DEF Result, Good, Con, Position, Moved, DBGUpdateCursorPos

(* A line of the screen may be replaced.                                   *)
LEMMA LineResult ==
  ASSUME NEW c, Good(c), NEW r \in Screen, NEW line \in Line
  PROVE  Result(c, [c EXCEPT !.mem = [@ EXCEPT ![r] = line]])
BY Bounds DEF Result, Good, Con

LEMMA EmptyLineType == EmptyLine \in Line
BY ConsoleAssumption DEF EmptyLine, Line

(* Scrolling moves lines within the screen.                                *)
LEMMA ScrollResult ==
  ASSUME NEW c, Good(c)
  PROVE  Result(c, DBGScrollUp(c))
<1> DEFINE up == [r \in Lines |-> IF r \in Screen THEN c.mem[r + 1] ELSE c.mem[r]]
           d  == [c EXCEPT !.mem = up]
<1>1. up \in [Lines -> Line] /\ up[Rows] = c.mem[Rows]
  BY Bounds DEF Good, Con
<1>2. Good(d) /\ d.mem[Rows] = c.mem[Rows]
  BY <1>1 DEF Good, Con
<1>3. Result(d, [d EXCEPT !.mem = [@ EXCEPT ![Rows - 1] = EmptyLine]])
  <2> HIDE DEF d
  <2> QED  BY <1>2, LineResult, Bounds, EmptyLineType
<1>4. DBGScrollUp(c) = [d EXCEPT !.mem = [@ EXCEPT ![Rows - 1] = EmptyLine]]
  BY DEF DBGScrollUp, DBGBlankLine
<1> QED
  <2> HIDE DEF d
  <2> QED  BY <1>2, <1>3, <1>4 DEF Result

LEMMA RowResult ==
  ASSUME NEW c, Good(c)
  PROVE  Result(c, DBGIncrementCursorRow(c))
<1>1. CASE c.row < Rows - 1
  <2>1. c \in Con /\ c.row + 1 \in Screen /\ c.col \in Columns
    BY <1>1, ConsoleAssumption DEF Good, Con, Screen
  <2>2. DBGIncrementCursorRow(c) = Moved(c, c.row + 1, c.col)
    BY <1>1 DEF DBGIncrementCursorRow
  <2> QED  BY <2>1, <2>2, MovedResult
<1>2. CASE ~(c.row < Rows - 1)
  BY <1>2, ScrollResult DEF DBGIncrementCursorRow
<1> QED  BY <1>1, <1>2

LEMMA PosResult ==
  ASSUME NEW c, Good(c)
  PROVE  Result(c, DBGIncrementCursorPos(c))
<1>1. CASE c.col + 1 < Cols
  <2>1. c \in Con /\ c.row \in Screen /\ c.col + 1 \in Columns
    BY <1>1, ConsoleAssumption DEF Good, Con, Columns
  <2>2. DBGIncrementCursorPos(c) = Moved(c, c.row, c.col + 1)
    BY <1>1 DEF DBGIncrementCursorPos
  <2> QED  BY <2>1, <2>2, MovedResult
<1>2. CASE ~(c.col + 1 < Cols)
  <2> DEFINE d == [c EXCEPT !.col = 0]
  <2>1. Good(d) /\ d.mem = c.mem
    BY Bounds DEF Good, Con
  <2>2. DBGIncrementCursorPos(c) = DBGIncrementCursorRow(d)
    BY <1>2 DEF DBGIncrementCursorPos
  <2> HIDE DEF d
  <2> QED  BY <2>1, <2>2, RowResult DEF Result
<1> QED  BY <1>1, <1>2

LEMMA StoredResult ==
  ASSUME NEW c, Good(c), NEW ch \in Glyph
  PROVE  Result(c, Stored(c, ch))
<1> DEFINE line == [c.mem[c.row] EXCEPT ![c.col] = ch]
           d    == [c EXCEPT !.mem = [@ EXCEPT ![c.row] = line]]
<1>1. c.row \in Screen /\ line \in Line
  BY Bounds DEF Good, Con, Line
<1>2. Result(c, d)
  <2> HIDE DEF line
  <2> QED  BY <1>1, LineResult
<1>3. Stored(c, ch) = DBGIncrementCursorPos(d)
  BY DEF Stored
<1> HIDE DEF d
<1>4. Result(d, DBGIncrementCursorPos(d))
  BY <1>2, PosResult DEF Result
<1> QED  BY <1>2, <1>3, <1>4 DEF Result

LEMMA DeletedResult ==
  ASSUME NEW c, Good(c), NEW k \in Columns
  PROVE  Result(c, Deleted(c, k))
<1> DEFINE line == [j \in Columns |-> IF j < k THEN c.mem[c.row][j]
                                     ELSE IF j < Cols - 1 THEN c.mem[c.row][j + 1]
                                     ELSE Blank]
<1>1. c.row \in Screen /\ c.mem[c.row] \in Line
  BY Bounds DEF Good, Con
<1>2. \A j \in Columns : j < Cols - 1 => j + 1 \in Columns
  BY ConsoleAssumption DEF Columns
<1>3. line \in Line
  BY <1>1, <1>2, ConsoleAssumption DEF Line
<1>4. Deleted(c, k) = [c EXCEPT !.mem = [@ EXCEPT ![c.row] = line]]
  BY DEF Deleted
<1> HIDE DEF line
<1> QED  BY <1>1, <1>3, <1>4, LineResult

LEMMA ClearResult ==
  ASSUME NEW c, Good(c)
  PROVE  Result(c, Moved(DBGClearScreen(c), 0, 0))
<1> DEFINE new == [r \in Lines |-> IF r \in Screen THEN EmptyLine ELSE c.mem[r]]
           d   == [c EXCEPT !.mem = new]
<1>1. new \in [Lines -> Line] /\ new[Rows] = c.mem[Rows]
  BY Bounds, EmptyLineType DEF Good, Con
<1>2. d \in Con /\ d.mem = new
  BY <1>1 DEF Good, Con
<1>3. DBGClearScreen(c) = d
  BY DEF DBGClearScreen
<1> HIDE DEF d
<1>4. Result(d, Moved(d, 0, 0))
  BY <1>2, Bounds, MovedResult
<1> QED  BY <1>1, <1>2, <1>3, <1>4 DEF Result

(* Four characters in a row are four results in a row.                     *)
LEMMA TabResult ==
  ASSUME NEW c, Good(c)
  PROVE  Result(c, Stored(Stored(Stored(Stored(c, Blank), Blank), Blank), Blank))
<1> DEFINE s1 == Stored(c, Blank)
           s2 == Stored(s1, Blank)
           s3 == Stored(s2, Blank)
           s4 == Stored(s3, Blank)
<1>1. Result(c, s1)  BY StoredResult, ConsoleAssumption
<1> HIDE DEF s1
<1>2. Result(s1, s2)  BY <1>1, StoredResult, ConsoleAssumption DEF Result
<1> HIDE DEF s2
<1>3. Result(s2, s3)  BY <1>2, StoredResult, ConsoleAssumption DEF Result
<1> HIDE DEF s3
<1>4. Result(s3, s4)  BY <1>3, StoredResult, ConsoleAssumption DEF Result
<1>5. Result(c, s4)
  <2> HIDE DEF s4
  <2> QED  BY <1>1, <1>2, <1>3, <1>4 DEF Result
<1> QED  BY <1>5 DEF s1, s2, s3

(* Every step from a Good console leads to a Result.                       *)
LEMMA StepResult ==
  ASSUME Good(con), Next
  PROVE  Result(con, con')
<1>1. con \in Con /\ con.row \in Screen /\ con.col \in Columns
  BY DEF Good, Con
<1>2. CASE Return  BY <1>1, <1>2, Bounds, MovedResult DEF Return
<1>3. CASE NewLine  BY <1>3, RowResult DEF NewLine
<1>4. CASE Right
  <2>1. con.col + 1 \in Columns
    BY <1>1, <1>4, ConsoleAssumption DEF Right, Columns
  <2> QED  BY <1>1, <1>4, <2>1, MovedResult DEF Right
<1>5. CASE Up
  <2>1. con.row - 1 \in Screen
    BY <1>1, <1>5, ConsoleAssumption DEF Up, Screen
  <2> QED  BY <1>1, <1>5, <2>1, MovedResult DEF Up
<1>6. CASE Left
  <2>1. con.col - 1 \in Columns
    BY <1>1, <1>6, ConsoleAssumption DEF Left, Columns
  <2> QED  BY <1>1, <1>6, <2>1, MovedResult DEF Left
<1>7. CASE Down
  <2>1. con.row + 1 \in Screen
    BY <1>1, <1>7, ConsoleAssumption DEF Down, Screen
  <2> QED  BY <1>1, <1>7, <2>1, MovedResult DEF Down
<1>8. CASE Home
  <2>1. (IF con.col = 0 THEN 0 ELSE con.row) \in Screen
    BY <1>1, Bounds
  <2> QED  BY <1>1, <1>8, <2>1, Bounds, MovedResult DEF Home
<1>9. CASE Delete  BY <1>1, <1>9, DeletedResult DEF Delete
<1>10. CASE Backspace
  <2> DEFINE d == [con EXCEPT !.col = @ - 1]
  <2>1. con.col - 1 \in Columns
    BY <1>1, <1>10, ConsoleAssumption DEF Backspace, Columns
  <2>2. Good(d) /\ d.mem = con.mem
    BY <2>1 DEF Good, Con
  <2>3. con' = Deleted(d, con.col - 1)
    BY <1>10 DEF Backspace
  <2> HIDE DEF d
  <2> QED  BY <2>1, <2>2, <2>3, DeletedResult DEF Result
<1>11. CASE Clear  BY <1>11, ClearResult DEF Clear
<1>12. CASE Tab  BY <1>12, TabResult DEF Tab
<1>13. CASE Default  BY <1>13, StoredResult DEF Default
<1> QED
  BY <1>2, <1>3, <1>4, <1>5, <1>6, <1>7, <1>8, <1>9, <1>10, <1>11, <1>12, <1>13 DEF Next

(* The console is Good from the start and stays so.                        *)
LEMMA AlwaysGood == Spec => []Good(con)
<1>1. Init => Good(con)
  BY Bounds DEF Init, Good, Con, Position
<1>2. Good(con) /\ [Next]_con => Good(con)'
  BY StepResult DEF Result, Good
<1> QED  BY <1>1, <1>2, PTL DEF Spec

(***************************************************************************)
(* The cursor never leaves the screen and every character of the text      *)
(* memory stays one that was displayed (dbg_console.c 73-203).             *)
(***************************************************************************)
THEOREM ConsoleTypeCorrect == Spec => []TypeOK
<1>1. Good(con) => TypeOK
  BY DEF Good, Con, Position, TypeOK
<1> QED  BY <1>1, AlwaysGood, PTL

(***************************************************************************)
(* The cursor register holds a position in the cursor's row, although      *)
(* backspace and scrolling do not write it (dbg_console.c 107-115,         *)
(* 174-184).                                                               *)
(***************************************************************************)
THEOREM CursorShownInItsRow == Spec => []CursorInItsRow
<1>1. Good(con) => CursorInItsRow
  BY DEF Good, CursorInItsRow
<1> QED  BY <1>1, AlwaysGood, PTL

(***************************************************************************)
(* Displaying leaves the next core's screen alone, although scrolling reads*)
(* its first line (dbg_console.c 94-105).                                  *)
(***************************************************************************)
THEOREM NextScreenNeverWritten == Spec => NextScreenKept
<1>1. Good(con) /\ [Next]_con => [con'.mem[Rows] = con.mem[Rows]]_con
  BY StepResult DEF Result
<1> QED  BY <1>1, AlwaysGood, PTL DEF Spec, NextScreenKept

-----------------------------------------------------------------------------
(* The screen is the page of a terminal.  The lemmas say what each function*)
(* of dbg_console.c does to the page, from a console that is Good.         *)

ShownOf(c) == [page |-> PageOf(c), cursor |-> CursorOf(c)]

(* The page has its lines, and they are those of the screen.               *)
LEMMA PageTyped ==
  ASSUME NEW c, Good(c)
  PROVE  PageOf(c) \in [1 .. Rows -> [1 .. Cols -> Glyph]]
<1>1. \A r \in 1 .. Rows : r - 1 \in Lines
  BY ConsoleAssumption DEF Lines
<1>2. \A k \in 1 .. Cols : k - 1 \in Columns
  BY ConsoleAssumption DEF Columns
<1>3. \A r \in Lines : c.mem[r] \in [Columns -> Glyph]
  BY DEF Good, Con, Line
<1>4. \A r \in 1 .. Rows : Text(c.mem[r - 1]) \in [1 .. Cols -> Glyph]
  BY <1>1, <1>2, <1>3 DEF Text
<1> QED
  BY <1>4 DEF PageOf

LEMMA PageLines ==
  ASSUME NEW c, Good(c)
  PROVE  /\ PageOf(c) \in Seq([1 .. Cols -> Glyph])
         /\ Len(PageOf(c)) = Rows /\ DOMAIN PageOf(c) = 1 .. Rows
         /\ \A r \in 1 .. Rows : r - 1 \in Screen /\ PageOf(c)[r] = Text(c.mem[r - 1])
<1>1. \A r \in 1 .. Rows : r - 1 \in Screen
  BY ConsoleAssumption DEF Screen
<1>2. Rows \in Nat
  BY ConsoleAssumption
<1>3. PageOf(c) \in Seq([1 .. Cols -> Glyph]) /\ Len(PageOf(c)) = Rows
  BY PageTyped, <1>2
<1> QED
  BY <1>1, <1>3 DEF PageOf

LEMMA EmptyText == Text(EmptyLine) = T!BlankLine
<1>1. \A k \in 1 .. Cols : k - 1 \in Columns
  BY ConsoleAssumption DEF Columns
<1> QED
  BY <1>1 DEF EmptyLine, T!BlankLine, Text

(* Moving the cursor leaves the page alone.                                *)
LEMMA MovedShown ==
  ASSUME NEW c \in Con, NEW r \in Screen, NEW k \in Columns
  PROVE  ShownOf(Moved(c, r, k)) = [page |-> PageOf(c), cursor |-> T!At(r + 1, k)]
<1> DEFINE d == Moved(c, r, k)
<1>1. d.mem = c.mem /\ d.row = r /\ d.col = k
  BY DEF Moved, DBGUpdateCursorPos, Con
<1> HIDE DEF d
<1>2. PageOf(d) = PageOf(c)
  BY <1>1 DEF PageOf
<1> QED
  BY <1>1, <1>2 DEF ShownOf, CursorOf, T!At, d

(* A line of the screen is replaced.                                       *)
LEMMA LineShown ==
  ASSUME NEW c, Good(c), NEW r \in Screen, NEW line \in Line,
         NEW d, d = [c EXCEPT !.mem = [@ EXCEPT ![r] = line]]
  PROVE  /\ PageOf(d) = [PageOf(c) EXCEPT ![r + 1] = Text(line)]
         /\ CursorOf(d) = CursorOf(c)
<1>1. /\ d.mem = [c.mem EXCEPT ![r] = line]
      /\ d.row = c.row /\ d.col = c.col
  BY DEF Good, Con
<1>2. \A q \in Lines : d.mem[q] = IF q = r THEN line ELSE c.mem[q]
  BY <1>1 DEF Good, Con
<1>3. \A q \in 1 .. Rows : q - 1 \in Lines /\ (q - 1 = r <=> q = r + 1)
  BY ConsoleAssumption DEF Screen, Lines
<1>4. \A q \in 1 .. Rows : PageOf(d)[q] = IF q = r + 1 THEN Text(line)
                                                     ELSE PageOf(c)[q]
  BY <1>2, <1>3 DEF PageOf
<1>5. /\ PageOf(d) = [q \in 1 .. Rows |-> PageOf(d)[q]]
      /\ DOMAIN PageOf(c) = 1 .. Rows
  BY DEF PageOf
<1>6. [PageOf(c) EXCEPT ![r + 1] = Text(line)]
        = [q \in 1 .. Rows |-> IF q = r + 1 THEN Text(line)
                                            ELSE PageOf(c)[q]]
  BY <1>5
<1>7. CursorOf(d) = CursorOf(c)
  BY <1>1 DEF CursorOf
<1> QED
  BY <1>4, <1>5, <1>6, <1>7

(* Scrolling drops the page's first line and adds a blank one.             *)
LEMMA ScrollShown ==
  ASSUME NEW c, Good(c)
  PROVE  /\ PageOf(DBGScrollUp(c)) = Append(Tail(PageOf(c)), T!BlankLine)
         /\ CursorOf(DBGScrollUp(c)) = CursorOf(c)
<1> DEFINE d == DBGScrollUp(c)
           p == PageOf(c)
           e == Append(Tail(p), T!BlankLine)
           up == [r \in Lines |-> IF r \in Screen THEN c.mem[r + 1] ELSE c.mem[r]]
<1>1. /\ d.mem = [up EXCEPT ![Rows - 1] = EmptyLine]
      /\ d.row = c.row /\ d.col = c.col
  BY DEF DBGScrollUp, DBGBlankLine, Good, Con
<1>2. CursorOf(d) = CursorOf(c)
  BY <1>1 DEF CursorOf
<1>3. \A r \in Screen : d.mem[r] = IF r = Rows - 1 THEN EmptyLine ELSE c.mem[r + 1]
  BY <1>1, Bounds
<1> HIDE DEF d, up
<1>4. Rows \in Nat \ {0} /\ \A r \in 1 .. Rows : r - 1 \in Screen /\ (r - 1 = Rows - 1 <=> r = Rows)
  BY ConsoleAssumption DEF Screen
<1>6. \A r \in 1 .. Rows : PageOf(d)[r] = IF r = Rows THEN T!BlankLine
                                          ELSE Text(c.mem[r])
  <2> TAKE r \in 1 .. Rows
  <2>1. PageOf(d)[r] = Text(d.mem[r - 1])
    BY DEF PageOf
  <2>2. r - 1 \in Screen /\ (r - 1) + 1 = r
    BY <1>4
  <2> QED
    BY <2>1, <2>2, <1>3, <1>4, EmptyText
<1>7. /\ p \in Seq([1 .. Cols -> Glyph]) /\ Len(p) = Rows
      /\ \A r \in 1 .. Rows : p[r] = Text(c.mem[r - 1])
  BY PageLines
<1>8. T!BlankLine \in [1 .. Cols -> Glyph]
  BY ConsoleAssumption DEF T!BlankLine
<1> HIDE DEF p
<1>9. /\ Tail(p) \in Seq([1 .. Cols -> Glyph]) /\ Len(Tail(p)) = Rows - 1
      /\ \A r \in 1 .. Rows - 1 : Tail(p)[r] = p[r + 1]
  <2>1. p # <<>>
    BY <1>4, <1>7, EmptySeq
  <2> QED
    BY <2>1, <1>7, HeadTailProperties
<1>10. /\ e \in Seq([1 .. Cols -> Glyph]) /\ Len(e) = Rows
       /\ \A r \in 1 .. Rows - 1 : e[r] = Tail(p)[r]
       /\ e[Rows] = T!BlankLine
  <2>1. /\ e \in Seq([1 .. Cols -> Glyph]) /\ Len(e) = Len(Tail(p)) + 1
        /\ \A r \in 1 .. Len(Tail(p)) : e[r] = Tail(p)[r]
        /\ e[Len(Tail(p)) + 1] = T!BlankLine
    BY <1>8, <1>9, AppendProperties
  <2>2. (Rows - 1) + 1 = Rows
    BY <1>4
  <2> HIDE DEF e
  <2> QED
    BY <2>1, <2>2, <1>9
<1> HIDE DEF e
<1>11. \A r \in 1 .. Rows - 1 : r \in 1 .. Rows /\ r + 1 \in 1 .. Rows /\ (r + 1) - 1 = r /\ r # Rows
  BY <1>4
<1>12. \A r \in 1 .. Rows : e[r] = PageOf(d)[r]
  <2> TAKE r \in 1 .. Rows
  <2>1. CASE r = Rows
    BY <2>1, <1>6, <1>10
  <2>2. CASE r # Rows
    <3>1. r \in 1 .. Rows - 1
      BY <2>2, <1>4
    <3>2. e[r] = p[r + 1] /\ p[r + 1] = Text(c.mem[(r + 1) - 1])
      BY <3>1, <1>7, <1>9, <1>10, <1>11
    <3> QED
      BY <3>1, <3>2, <1>6, <1>11
  <2> QED
    BY <2>1, <2>2
<1>13. e = [r \in 1 .. Rows |-> e[r]]
  BY <1>4, <1>10
<1>14. PageOf(d) = [r \in 1 .. Rows |-> PageOf(d)[r]]
  BY DEF PageOf
<1>15. PageOf(d) = e
  BY <1>12, <1>13, <1>14
<1> QED
  BY <1>2, <1>15 DEF d, e, p

(* The next row: the cursor goes down, or the page scrolls under it.       *)
LEMMA RowShown ==
  ASSUME NEW c, Good(c)
  PROVE  ShownOf(DBGIncrementCursorRow(c)) = T!Below(PageOf(c), CursorOf(c), c.col)
<1>1. c \in Con /\ c.row \in 0 .. Rows - 1 /\ c.col \in Columns /\ Rows \in Nat \ {0}
  BY ConsoleAssumption DEF Good, Con, Screen
<1>2. CursorOf(c).row = c.row + 1
  BY DEF CursorOf
<1>3. CASE c.row < Rows - 1
  <2>1. c.row + 1 \in Screen /\ CursorOf(c).row < Rows
    BY <1>1, <1>2, <1>3 DEF Screen
  <2>2. DBGIncrementCursorRow(c) = Moved(c, c.row + 1, c.col)
    BY <1>3 DEF DBGIncrementCursorRow
  <2>3. ShownOf(Moved(c, c.row + 1, c.col))
          = [page |-> PageOf(c), cursor |-> T!At((c.row + 1) + 1, c.col)]
    BY <2>1, <1>1, MovedShown
  <2> QED
    BY <2>1, <2>2, <2>3, <1>2 DEF T!Below
<1>4. CASE ~(c.row < Rows - 1)
  <2>1. ~(CursorOf(c).row < Rows) /\ CursorOf(c) = T!At(Rows, c.col)
    BY <1>1, <1>2, <1>4 DEF CursorOf, T!At
  <2>2. DBGIncrementCursorRow(c) = DBGScrollUp(c)
    BY <1>4 DEF DBGIncrementCursorRow
  <2> QED
    BY <2>1, <2>2, ScrollShown DEF ShownOf, T!Below
<1> QED
  BY <1>3, <1>4

(* A character is stored at the cursor, which goes on to the next place.   *)
LEMMA StoredShown ==
  ASSUME NEW c, Good(c), NEW g \in Glyph
  PROVE  ShownOf(Stored(c, g)) = T!Written(ShownOf(c), g)
<1> DEFINE line == [c.mem[c.row] EXCEPT ![c.col] = g]
           pg == [PageOf(c) EXCEPT ![c.row + 1][c.col + 1] = g]
<1>1. PICK d : d = [c EXCEPT !.mem = [@ EXCEPT ![c.row] = line]]
  OBVIOUS
<1>2. /\ c \in Con /\ c.row \in Screen /\ c.col \in Columns /\ line \in Line
      /\ c.mem[c.row] \in Line
  BY Bounds DEF Good, Con, Line
<1>3. Stored(c, g) = DBGIncrementCursorPos(d)
  BY <1>1 DEF Stored
<1>4. Good(d)
  <2> HIDE DEF line
  <2> QED
    BY <1>1, <1>2, LineResult DEF Result
<1>5. PageOf(d) = pg /\ CursorOf(d) = CursorOf(c)
  <2>1. PageOf(d) = [PageOf(c) EXCEPT ![c.row + 1] = Text(line)]
        /\ CursorOf(d) = CursorOf(c)
    <3> HIDE DEF line
    <3> QED
      BY <1>1, <1>2, LineShown
  <2>2. c.row + 1 \in 1 .. Rows /\ (c.row + 1) - 1 = c.row
    BY <1>2, ConsoleAssumption DEF Screen
  <2>3. PageOf(c)[c.row + 1] = Text(c.mem[c.row])
    BY <2>2, PageLines
  <2>4. Text(line) = [PageOf(c)[c.row + 1] EXCEPT ![c.col + 1] = g]
    <3>1. \A k \in 1 .. Cols : k - 1 \in Columns /\ (k - 1 = c.col <=> k = c.col + 1)
      BY <1>2, ConsoleAssumption DEF Columns
    <3>2. \A k \in 1 .. Cols : line[k - 1] = IF k = c.col + 1 THEN g ELSE c.mem[c.row][k - 1]
      BY <3>1, <1>2 DEF Line
    <3>3. Text(c.mem[c.row]) = [k \in 1 .. Cols |-> c.mem[c.row][k - 1]]
      BY DEF Text
    <3>4. Text(line) = [k \in 1 .. Cols |-> line[k - 1]]
      BY DEF Text
    <3>5. PICK q : q = Text(c.mem[c.row])
      OBVIOUS
    <3>6. /\ DOMAIN q = 1 .. Cols
          /\ q = [k \in 1 .. Cols |-> q[k]]
          /\ \A k \in 1 .. Cols : q[k] = c.mem[c.row][k - 1]
      BY <3>3, <3>5
    <3>7. [q EXCEPT ![c.col + 1] = g]
            = [k \in 1 .. Cols |-> IF k = c.col + 1 THEN g ELSE q[k]]
      BY <3>6
    <3> HIDE DEF line
    <3>8. \A k \in 1 .. Cols : line[k - 1] = IF k = c.col + 1 THEN g ELSE q[k]
      BY <3>2, <3>6
    <3>9. Text(line) = [k \in 1 .. Cols |-> IF k = c.col + 1 THEN g ELSE q[k]]
      BY <3>4, <3>8
    <3>10. q = PageOf(c)[c.row + 1]
      BY <3>5, <2>3
    <3> QED
      BY <3>7, <3>9, <3>10
  <2> QED
    BY <2>1, <2>4
<1>6. /\ d.row = c.row /\ d.col = c.col
      /\ CursorOf(c).row = c.row + 1 /\ CursorOf(c).col = c.col
  BY <1>1, <1>2 DEF CursorOf, Con
<1>7. T!Written(ShownOf(c), g) =
        IF c.col + 1 < Cols THEN [page |-> pg, cursor |-> T!At(c.row + 1, c.col + 1)]
                            ELSE T!Below(pg, CursorOf(c), 0)
  BY <1>6 DEF T!Written, ShownOf
<1> HIDE DEF pg, line
<1>8. CASE c.col + 1 < Cols
  <2>1. DBGIncrementCursorPos(d) = Moved(d, c.row, c.col + 1)
    BY <1>6, <1>8 DEF DBGIncrementCursorPos
  <2>2. c.col + 1 \in Columns /\ d \in Con
    BY <1>2, <1>4, <1>8, ConsoleAssumption DEF Columns, Good
  <2>3. ShownOf(Moved(d, c.row, c.col + 1)) = [page |-> PageOf(d), cursor |-> T!At(c.row + 1, c.col + 1)]
    BY <2>2, <1>2, MovedShown
  <2> QED
    BY <2>1, <2>3, <1>3, <1>5, <1>7, <1>8
<1>9. CASE ~(c.col + 1 < Cols)
  <2>1. PICK f : f = [d EXCEPT !.col = 0]
    OBVIOUS
  <2>2. Good(f) /\ f.mem = d.mem /\ f.col = 0 /\ f.row = d.row
    BY <2>1, <1>4, Bounds DEF Good, Con
  <2>3. DBGIncrementCursorPos(d) = DBGIncrementCursorRow(f)
    BY <2>1, <1>6, <1>9 DEF DBGIncrementCursorPos
  <2>4. ShownOf(DBGIncrementCursorRow(f)) = T!Below(PageOf(f), CursorOf(f), 0)
    BY <2>2, RowShown
  <2>5. PageOf(f) = pg
    BY <2>2, <1>5 DEF PageOf
  <2>6. CursorOf(f).row = CursorOf(c).row
    BY <2>2, <1>6 DEF CursorOf
  <2>7. T!Below(pg, CursorOf(f), 0) = T!Below(pg, CursorOf(c), 0)
    BY <2>6 DEF T!Below
  <2> QED
    BY <2>3, <2>4, <2>5, <2>7, <1>3, <1>7, <1>9
<1> QED
  BY <1>8, <1>9

(* The character at column k goes, and a blank comes in at the end.        *)
LEMMA DeletedShown ==
  ASSUME NEW c, Good(c), NEW k \in Columns
  PROVE  /\ PageOf(Deleted(c, k))
              = [PageOf(c) EXCEPT ![c.row + 1] = Append(T!RemoveAt(@, k + 1), Blank)]
         /\ CursorOf(Deleted(c, k)) = CursorOf(c)
<1> DEFINE line == [j \in Columns |-> IF j < k THEN c.mem[c.row][j]
                                     ELSE IF j < Cols - 1 THEN c.mem[c.row][j + 1]
                                     ELSE Blank]
           s == PageOf(c)[c.row + 1]
           t == T!RemoveAt(s, k + 1)
           u == Append(t, Blank)
<1>1. c.row \in Screen /\ c.mem[c.row] \in Line
  BY Bounds DEF Good, Con
<1>2. Cols \in Nat \ {0} /\ k \in 0 .. Cols - 1 /\ Blank \in Glyph
  BY ConsoleAssumption DEF Columns
<1>3. line \in Line
  <2>1. \A j \in Columns : j < Cols - 1 => j + 1 \in Columns
    BY ConsoleAssumption DEF Columns
  <2> QED
    BY <2>1, <1>1, ConsoleAssumption DEF Line
<1>4. Deleted(c, k) = [c EXCEPT !.mem = [@ EXCEPT ![c.row] = line]]
  BY DEF Deleted
<1>5. /\ s \in Seq(Glyph) /\ Len(s) = Cols
      /\ \A j \in 1 .. Cols : s[j] = c.mem[c.row][j - 1]
  <2>1. c.row + 1 \in 1 .. Rows /\ (c.row + 1) - 1 = c.row
    BY <1>1, ConsoleAssumption DEF Screen
  <2>a. s = Text(c.mem[c.row])
    BY <2>1, PageLines
  <2>2. s = [j \in 1 .. Cols |-> c.mem[c.row][j - 1]]
    BY <2>a DEF Text
  <2>3. \A j \in 1 .. Cols : c.mem[c.row][j - 1] \in Glyph
    <3>1. \A j \in 1 .. Cols : j - 1 \in Columns
      BY <1>2 DEF Columns
    <3> QED
      BY <3>1, <1>1 DEF Line
  <2> HIDE DEF s
  <2>4. s \in [1 .. Cols -> Glyph]
    BY <2>2, <2>3
  <2> QED
    BY <2>2, <2>4, <1>2
<1> HIDE DEF s, line
<1>6. /\ t \in Seq(Glyph) /\ Len(t) = Cols - 1
      /\ \A j \in 1 .. Cols - 1 : t[j] = IF j <= k THEN s[j] ELSE s[j + 1]
  <2> DEFINE f == SubSeq(s, 1, k)
             g == SubSeq(s, k + 2, Cols)
  <2>1. t = f \o g
    <3>1. (k + 1) - 1 = k /\ (k + 1) + 1 = k + 2
      BY <1>2
    <3> QED
      BY <3>1, <1>5 DEF T!RemoveAt
  <2>2. /\ f \in Seq(Glyph) /\ Len(f) = k
        /\ \A j \in 1 .. k : f[j] = s[j]
    BY <1>2, <1>5, SubSeqProperties
  <2>3. /\ g \in Seq(Glyph) /\ Len(g) = Cols - 1 - k
        /\ \A j \in 1 .. Cols - 1 - k : g[j] = s[k + 1 + j]
    BY <1>2, <1>5, SubSeqProperties
  <2> HIDE DEF f, g
  <2>4. /\ f \o g \in Seq(Glyph) /\ Len(f \o g) = Len(f) + Len(g)
        /\ \A j \in 1 .. Len(f) + Len(g) : (f \o g)[j] = IF j <= Len(f) THEN f[j] ELSE g[j - Len(f)]
    BY <2>2, <2>3, ConcatProperties
  <2>5. Len(f) + Len(g) = Cols - 1
    BY <2>2, <2>3, <1>2
  <2>6. ASSUME NEW j \in 1 .. Cols - 1
        PROVE  t[j] = IF j <= k THEN s[j] ELSE s[j + 1]
    <3>1. CASE j <= k
      BY <3>1, <2>1, <2>2, <2>4, <2>5
    <3>2. CASE ~(j <= k)
      <4>1. j - k \in 1 .. Cols - 1 - k /\ k + 1 + (j - k) = j + 1
        BY <3>2, <1>2
      <4>2. g[j - k] = s[j + 1]
        BY <4>1, <2>3
      <4> QED
        BY <3>2, <4>2, <2>1, <2>2, <2>4, <2>5
    <3> QED
      BY <3>1, <3>2
  <2> QED
    BY <2>1, <2>4, <2>5, <2>6
<1> HIDE DEF t
<1>7. /\ u \in Seq(Glyph) /\ Len(u) = Cols
      /\ \A j \in 1 .. Cols - 1 : u[j] = t[j]
      /\ u[Cols] = Blank
  <2>1. /\ u \in Seq(Glyph) /\ Len(u) = Len(t) + 1
        /\ \A j \in 1 .. Len(t) : u[j] = t[j]
        /\ u[Len(t) + 1] = Blank
    BY <1>2, <1>6, AppendProperties
  <2>2. Len(t) + 1 = Cols
    BY <1>2, <1>6
  <2> HIDE DEF u
  <2> QED
    BY <2>1, <2>2, <1>6
<1>8. ASSUME NEW j \in 1 .. Cols
      PROVE  line[j - 1] = u[j]
  <2>1. j - 1 \in Columns
    BY <1>2 DEF Columns
  <2>2. line[j - 1] = IF j - 1 < k THEN c.mem[c.row][j - 1]
                      ELSE IF j - 1 < Cols - 1 THEN c.mem[c.row][(j - 1) + 1]
                      ELSE Blank
    BY <2>1 DEF line
  <2>3. CASE j = Cols
    BY <2>2, <2>3, <1>2, <1>7
  <2>4. CASE j # Cols
    <3>1. j \in 1 .. Cols - 1 /\ j - 1 < Cols - 1
      BY <2>4, <1>2
    <3>2. u[j] = IF j <= k THEN s[j] ELSE s[j + 1]
      BY <3>1, <1>6, <1>7
    <3>3. s[j] = c.mem[c.row][j - 1] /\ s[j + 1] = c.mem[c.row][(j - 1) + 1]
      <4>1. j + 1 \in 1 .. Cols /\ (j + 1) - 1 = (j - 1) + 1
        BY <3>1, <1>2
      <4> QED
        BY <4>1, <1>5
    <3>4. j - 1 < k <=> j <= k
      BY <1>2
    <3> QED
      BY <2>2, <3>1, <3>2, <3>3, <3>4
  <2> QED
    BY <2>3, <2>4
<1>9. Text(line) = u
  <2> HIDE DEF u
  <2>1. u = [j \in 1 .. Cols |-> u[j]]
    BY <1>7, <1>2
  <2> QED
    BY <2>1, <1>8 DEF Text
<1>10. /\ PageOf(Deleted(c, k)) = [PageOf(c) EXCEPT ![c.row + 1] = Text(line)]
       /\ CursorOf(Deleted(c, k)) = CursorOf(c)
  BY <1>1, <1>3, <1>4, LineShown
<1> QED
  BY <1>9, <1>10 DEF u, t, s

(* Clearing leaves blank lines and the cursor at the first one's start.    *)
LEMMA ClearShown ==
  ASSUME NEW c, Good(c)
  PROVE  ShownOf(Moved(DBGClearScreen(c), 0, 0))
           = [page |-> [r \in 1 .. Rows |-> T!BlankLine], cursor |-> T!At(1, 0)]
<1> DEFINE new == [r \in Lines |-> IF r \in Screen THEN EmptyLine ELSE c.mem[r]]
           d   == [c EXCEPT !.mem = new]
<1>1. new \in [Lines -> Line]
  BY EmptyLineType DEF Good, Con
<1>2. d \in Con /\ d.mem = new
  BY <1>1 DEF Good, Con
<1>3. DBGClearScreen(c) = d
  BY DEF DBGClearScreen
<1>4. PageOf(d) = [r \in 1 .. Rows |-> T!BlankLine]
  <2>1. \A r \in 1 .. Rows : r - 1 \in Screen /\ r - 1 \in Lines
    BY ConsoleAssumption DEF Screen, Lines
  <2>2. \A r \in 1 .. Rows : d.mem[r - 1] = EmptyLine
    BY <1>2, <2>1
  <2> HIDE DEF d
  <2> QED
    BY <2>2, EmptyText DEF PageOf
<1> HIDE DEF d
<1>5. ShownOf(Moved(d, 0, 0)) = [page |-> PageOf(d), cursor |-> T!At(0 + 1, 0)]
  BY <1>2, Bounds, MovedShown
<1> QED
  BY <1>3, <1>4, <1>5

(* A tab is four blanks.                                                   *)
LEMMA TabShown ==
  ASSUME NEW c, Good(c)
  PROVE  ShownOf(Stored(Stored(Stored(Stored(c, Blank), Blank), Blank), Blank))
           = T!Written(T!Written(T!Written(T!Written(ShownOf(c), Blank), Blank), Blank), Blank)
<1> DEFINE s1 == Stored(c, Blank)
           s2 == Stored(s1, Blank)
           s3 == Stored(s2, Blank)
<1>0. Blank \in Glyph
  BY ConsoleAssumption
<1>1. Good(s1) /\ ShownOf(s1) = T!Written(ShownOf(c), Blank)
  BY <1>0, StoredResult, StoredShown DEF Result
<1> HIDE DEF s1
<1>2. Good(s2) /\ ShownOf(s2) = T!Written(ShownOf(s1), Blank)
  BY <1>0, <1>1, StoredResult, StoredShown DEF Result
<1> HIDE DEF s2
<1>3. Good(s3) /\ ShownOf(s3) = T!Written(ShownOf(s2), Blank)
  BY <1>0, <1>2, StoredResult, StoredShown DEF Result
<1> HIDE DEF s3
<1>4. ShownOf(Stored(s3, Blank)) = T!Written(ShownOf(s3), Blank)
  BY <1>0, <1>3, StoredShown
<1> QED
  BY <1>1, <1>2, <1>3, <1>4 DEF s1, s2, s3

(* What a step displays is what the terminal's step of that name leaves.   *)
LEMMA StepShown ==
  ASSUME Good(con), Next
  PROVE  T!TermNext
<1>1. /\ con \in Con /\ con.row \in Screen /\ con.col \in Columns
      /\ Rows \in Nat \ {0} /\ Cols \in Nat \ {0}
  BY ConsoleAssumption DEF Good, Con
<1>2. ASSUME NEW r \in Screen, NEW k \in Columns, con' = Moved(con, r, k)
      PROVE  T!Move
  <2>1. PageOf(con') = PageOf(con) /\ CursorOf(con') = T!At(r + 1, k)
    BY <1>1, <1>2, MovedShown DEF ShownOf
  <2>2. r + 1 \in 1 .. Rows /\ k \in 0 .. Cols - 1
    BY <1>1 DEF Screen, Columns
  <2> QED
    BY <2>1, <2>2 DEF T!Move
<1>3. ASSUME NEW s, ShownOf(con') = s
      PROVE  T!Becomes(s)
  BY <1>3 DEF ShownOf, T!Becomes
<1>4. T!Shown = ShownOf(con)
  BY DEF T!Shown, ShownOf
<1>5. ASSUME NEW k \in Columns, NEW c, Good(c), con' = Deleted(c, k),
             PageOf(c) = PageOf(con), c.row = con.row, c.col = k
      PROVE  T!DeleteAt(k)
  <2>1. /\ PageOf(con') = [PageOf(c) EXCEPT ![c.row + 1] = Append(T!RemoveAt(@, k + 1), Blank)]
        /\ CursorOf(con') = CursorOf(c)
    BY <1>5, DeletedShown
  <2>2. CursorOf(con).row = c.row + 1 /\ CursorOf(c) = T!At(CursorOf(con).row, k)
    BY <1>5 DEF CursorOf, T!At
  <2> QED
    BY <2>1, <2>2, <1>5 DEF T!DeleteAt
<1>6. CASE Return
  BY <1>1, <1>2, <1>6, Bounds DEF Return, T!TermNext
<1>7. CASE NewLine
  <2>1. ShownOf(con') = T!Below(PageOf(con), CursorOf(con), CursorOf(con).col)
    BY <1>7, RowShown DEF NewLine, CursorOf
  <2> QED
    BY <2>1, <1>3 DEF T!NewLine, T!TermNext
<1>8. CASE Right
  <2>1. con.col + 1 \in Columns
    BY <1>1, <1>8 DEF Right, Columns
  <2> QED
    BY <1>1, <1>2, <1>8, <2>1 DEF Right, T!TermNext
<1>9. CASE Up
  <2>1. con.row - 1 \in Screen
    BY <1>1, <1>9 DEF Up, Screen
  <2> QED
    BY <1>1, <1>2, <1>9, <2>1 DEF Up, T!TermNext
<1>10. CASE Left
  <2>1. con.col - 1 \in Columns
    BY <1>1, <1>10 DEF Left, Columns
  <2> QED
    BY <1>1, <1>2, <1>10, <2>1 DEF Left, T!TermNext
<1>11. CASE Down
  <2>1. con.row + 1 \in Screen
    BY <1>1, <1>11 DEF Down, Screen
  <2> QED
    BY <1>1, <1>2, <1>11, <2>1 DEF Down, T!TermNext
<1>12. CASE Home
  <2>1. (IF con.col = 0 THEN 0 ELSE con.row) \in Screen
    BY <1>1, Bounds
  <2> QED
    BY <1>2, <1>12, <2>1, Bounds DEF Home, T!TermNext
<1>13. CASE Delete
  <2>1. T!DeleteAt(con.col)
    BY <1>1, <1>5, <1>13 DEF Delete
  <2> QED
    BY <2>1 DEF T!Delete, T!TermNext, CursorOf
<1>14. CASE Backspace
  <2> DEFINE d == [con EXCEPT !.col = @ - 1]
  <2>1. con.col > 0 /\ con.col - 1 \in Columns
    BY <1>1, <1>14 DEF Backspace, Columns
  <2>2. Good(d) /\ d.mem = con.mem /\ d.row = con.row /\ d.col = con.col - 1
    BY <2>1 DEF Good, Con
  <2>3. con' = Deleted(d, con.col - 1)
    BY <1>14 DEF Backspace
  <2> HIDE DEF d
  <2>4. PageOf(d) = PageOf(con)
    BY <2>2 DEF PageOf
  <2>5. T!DeleteAt(con.col - 1)
    BY <2>1, <2>2, <2>3, <2>4, <1>5
  <2> QED
    BY <2>1, <2>5 DEF T!Backspace, T!TermNext, CursorOf
<1>15. CASE Clear
  <2>1. ShownOf(con') = [page |-> [r \in 1 .. Rows |-> T!BlankLine], cursor |-> T!At(1, 0)]
    BY <1>15, ClearShown DEF Clear
  <2> QED
    BY <2>1 DEF ShownOf, T!Clear, T!TermNext
<1>16. CASE Tab
  BY <1>16, <1>3, <1>4, TabShown DEF Tab, T!Tab, T!TermNext
<1>17. CASE Default
  <2>1. PICK g \in Glyph : con' = Stored(con, g)
    BY <1>17 DEF Default
  <2> QED
    BY <2>1, <1>3, <1>4, StoredShown DEF T!Write, T!TermNext
<1> QED
  BY <1>6, <1>7, <1>8, <1>9, <1>10, <1>11, <1>12, <1>13, <1>14, <1>15, <1>16, <1>17 DEF Next

(***************************************************************************)
(* The screen is a terminal's page whatever is displayed: each case of     *)
(* DBGDisplayChar does to the text memory and the cursor what the terminal *)
(* promises, at the last column and on the last line too (dbg_console.c    *)
(* 94-203).                                                                *)
(***************************************************************************)
THEOREM ConsoleIsTerminal == Spec => ImplementsTerminal
<1>1. Init => T!TermInit
  <2> SUFFICES ASSUME Init
               PROVE  T!TermInit
    OBVIOUS
  <2>1. Good(con) /\ con.row = 0 /\ con.col = 0
    BY Bounds DEF Init, Good, Con, Position
  <2>2. PageOf(con) \in [1 .. Rows -> [1 .. Cols -> Glyph]]
    BY <2>1, PageTyped
  <2>3. CursorOf(con) = T!At(1, 0)
    BY <2>1 DEF CursorOf, T!At
  <2> QED
    BY <2>2, <2>3 DEF T!TermInit
<1>2. Good(con) /\ [Next]_con => [T!TermNext]_(T!tvars)
  <2>1. CASE Next
    BY <2>1, StepShown
  <2>2. CASE UNCHANGED con
    BY <2>2 DEF T!tvars, PageOf, CursorOf
  <2> QED
    BY <2>1, <2>2
<1> QED
  BY <1>1, <1>2, AlwaysGood, PTL DEF Spec, ImplementsTerminal, T!TermSpec

=============================================================================
