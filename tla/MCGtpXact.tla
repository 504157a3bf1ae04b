----------------------------- MODULE MCGtpXact -----------------------------
EXTENDS GtpXact

CONSTANTS MmeRequests, SpgwRequests

OriginatedBy == [p \in {Mme, Spgw} |-> IF p = Mme THEN MmeRequests ELSE SpgwRequests]

=============================================================================
