------------------------------ MODULE Console -------------------------------
(***************************************************************************)
(* The console of kernel/dbg_console.c on the core the kernel runs on, for *)
(* which get_coreno gives 0.  The screens of the cores follow each other in*)
(* the text memory, so that the line after the kernel's last one belongs to*)
(* the next core.                                                          *)
(*                                                                         *)
(* The codes from 0x90 to 0x99 are taken to reach their cases.  Attributes *)
(* are left out: DBGAttr does not change.  The cursor register holds an    *)
(* offset, here the row and the column.                                    *)
(***************************************************************************)
EXTENDS Integers

CONSTANTS
  Rows, Cols,   \* DBGROWS and DBGCOLS
  Glyph,        \* the characters the default case stores
  Blank         \* ' '

ASSUME ConsoleAssumption ==
  /\ Rows \in Nat \ {0}
  /\ Cols \in Nat \ {0}
  /\ Blank \in Glyph

VARIABLE
  con   \* [mem, row, col, reg]: text memory, DBGCursorRow, DBGCursorCol, and
        \* the position in the cursor register

Columns == 0 .. Cols - 1
Screen  == 0 .. Rows - 1
Lines   == 0 .. Rows
Line    == [Columns -> Glyph]

DBGUpdateCursorPos(c) == [c EXCEPT !.reg = [row |-> c.row, col |-> c.col]]

(* c with the cursor moved to row r and column k, and shown there.         *)
Moved(c, r, k) == DBGUpdateCursorPos([c EXCEPT !.row = r, !.col = k])

EmptyLine == [k \in Columns |-> Blank]

DBGClearScreen(c) ==
  [c EXCEPT !.mem = [r \in Lines |-> IF r \in Screen THEN EmptyLine ELSE c.mem[r]]]

DBGBlankLine(c, r) == [c EXCEPT !.mem = [@ EXCEPT ![r] = EmptyLine]]

(* Fault: the last line is not blanked.                                    *)
DBGScrollUpOnly(c) ==
  [c EXCEPT !.mem = [r \in Lines |-> IF r \in Screen THEN c.mem[r + 1] ELSE c.mem[r]]]

(* Fault: the count is one line too many.                                  *)
DBGScrollUpFar(c) ==
  DBGBlankLine([c EXCEPT !.mem = [r \in Lines |-> IF r \in Screen THEN c.mem[r + 1]
                                                  ELSE EmptyLine]],
               Rows - 1)

(* Every line takes the next one's characters, the last one those of the   *)
(* next core's first line; then the last one is blanked.                   *)
DBGScrollUp(c) ==
  DBGBlankLine([c EXCEPT !.mem = [r \in Lines |-> IF r \in Screen THEN c.mem[r + 1]
                                                  ELSE c.mem[r]]],
               Rows - 1)

(* Fault: the row is not compared with the last one.                       *)
DBGIncrementCursorRowOn(c) ==
  IF c.row < Rows THEN Moved(c, c.row + 1, c.col) ELSE DBGScrollUp(c)

(* Fault: the cursor is not shown in its new row.                          *)
DBGIncrementCursorRowUnseen(c) ==
  IF c.row < Rows - 1 THEN [c EXCEPT !.row = @ + 1] ELSE DBGScrollUp(c)

(* A new line on the last row does not write the cursor register.          *)
DBGIncrementCursorRow(c) ==
  IF c.row < Rows - 1 THEN Moved(c, c.row + 1, c.col) ELSE DBGScrollUp(c)

DBGIncrementCursorPos(c) ==
  IF c.col + 1 < Cols
  THEN Moved(c, c.row, c.col + 1)
  ELSE DBGIncrementCursorRow([c EXCEPT !.col = 0])

(* c with the character at column k of the cursor's row gone and the ones  *)
(* after it moved up.                                                      *)
Deleted(c, k) ==
  LET line == [j \in Columns |-> IF j < k THEN c.mem[c.row][j]
                                 ELSE IF j < Cols - 1 THEN c.mem[c.row][j + 1]
                                 ELSE Blank]
  IN  [c EXCEPT !.mem = [@ EXCEPT ![c.row] = line]]

(* The default case.                                                       *)
Stored(c, ch) ==
  LET line == [c.mem[c.row] EXCEPT ![c.col] = ch]
  IN  DBGIncrementCursorPos([c EXCEPT !.mem = [@ EXCEPT ![c.row] = line]])

-----------------------------------------------------------------------------
(* The cases of DBGDisplayChar.                                            *)

Return == con' = Moved(con, con.row, 0)

NewLine == con' = DBGIncrementCursorRow(con)

Right == con.col < Cols - 1 /\ con' = Moved(con, con.row, con.col + 1)

Up == con.row > 0 /\ con' = Moved(con, con.row - 1, con.col)

Left == con.col > 0 /\ con' = Moved(con, con.row, con.col - 1)

Down == con.row < Rows - 1 /\ con' = Moved(con, con.row + 1, con.col)

Home == con' = Moved(con, IF con.col = 0 THEN 0 ELSE con.row, 0)

Delete == con' = Deleted(con, con.col)

(* The cursor register is not written.                                     *)
Backspace ==
  /\ con.col > 0
  /\ con' = Deleted([con EXCEPT !.col = @ - 1], con.col - 1)

(* Control-L, with DBGHomeCursor.                                          *)
Clear == con' = Moved(DBGClearScreen(con), 0, 0)

Tab == con' = Stored(Stored(Stored(Stored(con, Blank), Blank), Blank), Blank)

Default == \E ch \in Glyph : con' = Stored(con, ch)

Init ==
  con \in [mem : [Lines -> Line], row : {0}, col : {0}, reg : {[row |-> 0, col |-> 0]}]

Next ==
  \/ Return \/ NewLine \/ Right \/ Up \/ Left \/ Down \/ Home
  \/ Delete \/ Backspace \/ Clear \/ Tab \/ Default

Spec == Init /\ [][Next]_con

-----------------------------------------------------------------------------
(* Every variable has its type: the cursor is on the screen.               *)
TypeOK ==
  con \in [mem : [Lines -> Line], row : Screen, col : Columns,
           reg : [row : Screen, col : Columns]]

(***************************************************************************)
(* The cursor is shown in its own row, whatever was displayed, although not*)
(* every move writes the cursor register (dbg_console.c 107-115, 174-184). *)
(***************************************************************************)
CursorInItsRow == con.reg.row = con.row

(***************************************************************************)
(* Nothing is written to the next core's screen, whose first line scrolling*)
(* reads (dbg_console.c 94-105).                                           *)
(***************************************************************************)
NextScreenKept == [][con'.mem[Rows] = con.mem[Rows]]_con

=============================================================================
