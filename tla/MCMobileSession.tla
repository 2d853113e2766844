-------------------------- MODULE MCMobileSession ---------------------------
(* Small instances of MobileSession for TLC. *)
EXTENDS MobileSessionInv, TLC

CONSTANTS a, home, mesh, c1, c2

Symmetry == Permutations(Calls)

\* The account has claimed its network before the phone is first started there.
ClaimedInit == Init /\ wifi = home /\ admin = [m \in Bssids |-> IF m = home THEN a ELSE None]
ClaimedSpec == ClaimedInit /\ [][Next]_vars
=============================================================================
