------------------------------ MODULE MCSites ------------------------------
(***************************************************************************)
(* Instances of Sites for TLC.                                             *)
(***************************************************************************)
EXTENDS Sites, TLC

\* Domains are interchangeable, and so are calls.
Symmetry == Permutations(Domains) \cup Permutations(Ops)
\* All but "was", which no step reads.
Seen == <<conf, link, slipped, nginx, pc, kind, dom, sound, last, calls, tasks>>
=============================================================================
