------------------------------ MODULE MCNodes -------------------------------
(* The ring of the Genesys2 board: the two interfaces of node 1 and that of*)
(* the system, each CPU using the system and the other CPU's memory.       *)
EXTENDS Nodes

MCRing == <<2, 3, 62>>

MCTargets == (2 :> {62, 3}) @@ (3 :> {62, 2})

=============================================================================
