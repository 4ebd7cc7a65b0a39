---------------------------- MODULE MCHostLoader ----------------------------
(* HostLoader with two threads that call, a function the plugin has and    *)
(* one it has not.                                                         *)
EXTENDS HostLoader, TLC

CONSTANTS T1, T2, F1, F2

MCThreads == {T1, T2}
MCFunctions == {F1, F2}
MCExports == {F1}
MCSymmetry == Permutations(MCThreads)
=============================================================================
