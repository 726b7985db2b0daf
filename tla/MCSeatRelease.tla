--------------------------- MODULE MCSeatRelease ---------------------------
(* SeatRelease with interchangeable peers, identities and bodies.          *)
EXTENDS SeatRelease, TLC

Symmetry == Permutations(Peers) \cup Permutations(Identities) \cup Permutations(Bodies)
=============================================================================
