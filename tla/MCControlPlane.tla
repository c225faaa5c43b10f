--------------------------- MODULE MCControlPlane ---------------------------
(***************************************************************************)
(* Instances of ControlPlane for TLC.                                      *)
(***************************************************************************)
EXTENDS ControlPlaneInv, TLC

CONSTANTS a1, a2, a3, s1, s2

\* One agent on one server: reconnects of a single host.
OneServer == a1 :> s1

\* Two agents that authenticate as the same server, and one with its own.
SharedServer == a1 :> s1 @@ a2 :> s1 @@ a3 :> s2

\* Streams are interchangeable, and so are calls (safety runs only).
Symmetry == Permutations(Conns) \cup Permutations(Calls)

=============================================================================
