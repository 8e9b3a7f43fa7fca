----------------------------- MODULE MCOrgSlots ------------------------------
EXTENDS OrgSlots, TLC

CONSTANTS j1, j2, j3, j4

\* Two worker processes: the clock of the second is a tick ahead.
TwoClocks == [j \in Jobs |-> IF j = j2 THEN 1 ELSE 0]

=============================================================================
