------------------------------ MODULE Terminal ------------------------------
(***************************************************************************)
(* What a console promises to a program: a page of lines and a cursor.     *)
(* Writing past the end of a line goes on at the start of the next, and a  *)
(* new line on the last one drops the first.  A line is the sequence of its*)
(* characters; the page is the sequence of its lines.                      *)
(***************************************************************************)
EXTENDS Naturals, SequencesExt

CONSTANTS
  Rows, Cols,
  Glyph,      \* the characters that can be shown
  Blank       \* the space, one of them

VARIABLES
  page,       \* the lines, the first one on top
  cursor      \* [row |-> number of its line, col |-> characters before it]

tvars == <<page, cursor>>

BlankLine == [k \in 1 .. Cols |-> Blank]

At(r, c) == [row |-> r, col |-> c]

(* What a step turns the page and the cursor into.                         *)
Shown == [page |-> page, cursor |-> cursor]

Becomes(s) == page' = s.page /\ cursor' = s.cursor

(* Going down a line, to column c.                                         *)
Below(pg, cur, c) ==
  IF cur.row < Rows
  THEN [page |-> pg, cursor |-> At(cur.row + 1, c)]
  ELSE [page |-> Append(Tail(pg), BlankLine), cursor |-> At(Rows, c)]

(* Character g at the cursor, which goes on to the next place.             *)
Written(s, g) ==
  LET cur == s.cursor
      pg  == [s.page EXCEPT ![cur.row][cur.col + 1] = g]
  IN  IF cur.col + 1 < Cols THEN [page |-> pg, cursor |-> At(cur.row, cur.col + 1)]
                            ELSE Below(pg, cur, 0)

Write(g) == Becomes(Written(Shown, g))

NewLine == Becomes(Below(page, cursor, cursor.col))

(* The cursor moves within the page.                                       *)
Move ==
  /\ \E r \in 1 .. Rows, c \in 0 .. Cols - 1 : cursor' = At(r, c)
  /\ UNCHANGED page

(* The character at column c goes, and the ones after it move up.          *)
DeleteAt(c) ==
  /\ page' = [page EXCEPT ![cursor.row] = Append(RemoveAt(@, c + 1), Blank)]
  /\ cursor' = At(cursor.row, c)

Delete == DeleteAt(cursor.col)

Backspace == cursor.col > 0 /\ DeleteAt(cursor.col - 1)

Clear ==
  /\ page' = [r \in 1 .. Rows |-> BlankLine]
  /\ cursor' = At(1, 0)

(* Four blanks are written: they may end on a new line.                    *)
Tab == Becomes(Written(Written(Written(Written(Shown, Blank), Blank), Blank), Blank))

TermInit ==
  /\ page \in [1 .. Rows -> [1 .. Cols -> Glyph]]
  /\ cursor = At(1, 0)

TermNext ==
  \/ \E g \in Glyph : Write(g)
  \/ NewLine \/ Move \/ Delete \/ Backspace \/ Clear \/ Tab

TermSpec == TermInit /\ [][TermNext]_tvars

=============================================================================
