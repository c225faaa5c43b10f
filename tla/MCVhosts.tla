------------------------------ MODULE MCVhosts ------------------------------
(***************************************************************************)
(* Instances of Vhosts for TLC.                                            *)
(***************************************************************************)
EXTENDS VhostsInv, TLC

\* Domains are interchangeable, and so are commands.
Symmetry == Permutations(Domains) \cup Permutations(Ops)
=============================================================================
