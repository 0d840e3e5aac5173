-------------------------- MODULE MCReviewDelivery ---------------------------
(* One review with one lens, and two deliveries that share a key.           *)
EXTENDS ReviewDelivery, TLC

CONSTANTS r1, d1, d2, k1

OneReviewer == {r1}
TwoDeliverers == {d1, d2}
OneKey == {k1}
LowOrHigh == {"low", "high"}
Both == Actions
OneLens == <<"risk">>
Alike == Permutations(TwoDeliverers)
=============================================================================
