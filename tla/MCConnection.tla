---------------------------- MODULE MCConnection ----------------------------
(***************************************************************************)
(* Connection for TLC: one connection with an address of its own and one   *)
(* that listens to everything.                                             *)
(***************************************************************************)
EXTENDS Connection, TLC

CONSTANTS a1, a2, reader, c1, c2, l1, l2, tuner, tv, all

TwoApps == {a1, a2}
TwoConns == {c1, c2}
TwoListeners == {l1, l2}
MCAddresses == {tuner, tv, all}
MCSource == c1 :> tuner @@ c2 :> all
OneMove == {<<c1, tv>>}
MCSymmetry == Permutations(TwoApps) \cup Permutations(TwoListeners)
=============================================================================
