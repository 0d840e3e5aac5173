---------------------------- MODULE MCRevisions ----------------------------
(* Two processes revise one workflow; two keys are passed to replan, one of *)
(* them to the other commands.                                              *)
EXTENDS Revisions, TLC

CONSTANTS p1, p2, k1, k2

TwoProcs == {p1, p2}
OneKey == {k1}
TwoKeys == {k1, k2}
Alike == Permutations(TwoProcs)
=============================================================================
