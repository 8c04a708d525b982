-------------------------- MODULE ConsoleRefinement -------------------------
(* The console of dbg_console.c is a terminal: its screen is the page.     *)
EXTENDS Console, Sequences

Text(line) == [k \in 1 .. Cols |-> line[k - 1]]

PageOf(c) == [r \in 1 .. Rows |-> Text(c.mem[r - 1])]

CursorOf(c) == [row |-> c.row + 1, col |-> c.col]

T == INSTANCE Terminal WITH page <- PageOf(con), cursor <- CursorOf(con)

(***************************************************************************)
(* Whatever is displayed, the screen shows what a terminal would show: no  *)
(* line is lost, doubled or taken from another core's screen, and deleting *)
(* stays within a line (dbg_console.c 94-203).                             *)
(***************************************************************************)
ImplementsTerminal == T!TermSpec

=============================================================================
