------------------------------ MODULE MCCampaign ------------------------------
(* Two blocks whose arms are in opposite orders.                            *)
EXTENDS Campaign

TwoBlocks == <<<<"control", "candidate">>, <<"candidate", "control">>>>

=============================================================================
