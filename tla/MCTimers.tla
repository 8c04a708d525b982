------------------------------ MODULE MCTimers ------------------------------
(* An instance of Timers: two groups, with one timer to give out in each.  *)
EXTENDS Timers

MCBoxOwner == <<1, 2>>

MClink == <<2, 0>>

=============================================================================
