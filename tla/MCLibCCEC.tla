------------------------------ MODULE MCLibCCEC ------------------------------
(***************************************************************************)
(* LibCCEC for TLC.  Thread identifiers of a pool are interchangeable.     *)
(***************************************************************************)
EXTENDS LibCCEC, TLC

CONSTANTS app, app2, r1, r2, w1, w2, hal

OneCaller == {app}
TwoCallers == {app, app2}
OneReader == {r1}
TwoReaders == {r1, r2}
OneWriter == {w1}
TwoWriters == {w1, w2}

MCSymmetry == Permutations(TwoCallers) \cup Permutations(TwoReaders)
              \cup Permutations(TwoWriters)
=============================================================================
