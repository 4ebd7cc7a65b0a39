---------------------------- MODULE MCEventQueue ----------------------------
(***************************************************************************)
(* EventQueue for TLC: producers and consumers are interchangeable, and so *)
(* are the elements other than the default value.                          *)
(***************************************************************************)
EXTENDS EventQueue, TLC

CONSTANTS a, b, null, p1, p2, c1, c2

MCElements == {a, b, null}
MCProducers == {p1, p2}
MCConsumers == {c1, c2}
MCSymmetry == Permutations({a, b}) \cup Permutations({p1, p2}) \cup Permutations({c1, c2})
=============================================================================
