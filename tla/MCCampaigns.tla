---------------------------- MODULE MCCampaigns -----------------------------
EXTENDS Campaigns, TLC

CONSTANTS t1, t2, b1

MCBatchOf == [t \in {t1, t2} |-> b1]
Symmetry == Permutations(Targets) \cup Permutations(Workers)
=============================================================================
