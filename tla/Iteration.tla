------------------------------ MODULE Iteration ------------------------------
(***************************************************************************)
(* The loops of the kernel walk a linked list or repeat a body until a     *)
(* condition stops them.  Such a loop is written here as the repeated      *)
(* application of a function, its body, to the state of the loop.          *)
(***************************************************************************)
EXTENDS Naturals

(***************************************************************************)
(* Iterate(f, s)[n] is the value the loop has after n rounds of the body f *)
(* when it was entered with s.                                             *)
(***************************************************************************)
Iterate(f, s) ==
  LET round[n \in Nat] == IF n = 0 THEN s ELSE f[round[n-1]]
  IN  round

=============================================================================
