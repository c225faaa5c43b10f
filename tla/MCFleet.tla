------------------------------ MODULE MCFleet ------------------------------
(***************************************************************************)
(* Instances of Fleet for TLC.  A behaviour has the faults of one budget:  *)
(* the clocks of the hosts need not run while replicas are replaced.       *)
(***************************************************************************)
EXTENDS Fleet

Budget(f, t, r) == [faults |-> f, ticks |-> t, requests |-> r]

Clocks   == {Budget(0, 4, 0), Budget(1, 1, 0)}
Rollouts == {Budget(3, 0, 0)}
Views    == {Budget(0, 0, 2), Budget(1, 0, 1)}
NoFault  == {Budget(0, 0, 1)}
All      == Clocks \cup Rollouts \cup Views
=============================================================================
