------------------------------ MODULE MCAccess ------------------------------
(* Two requests under way, two names of which one may be nobody's, and one *)
(* device; one wrong password is allowed, and elevations last one tick.    *)
EXTENDS Access, TLC
Symmetry == Permutations(Client) \cup Permutations(Name)
=============================================================================
