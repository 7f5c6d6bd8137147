---------------------------- MODULE MCExpiryAlerts ----------------------------
(***************************************************************************)
(* Instances of ExpiryAlerts for TLC.                                      *)
(***************************************************************************)
EXTENDS ExpiryAlerts, TLC

\* One certificate expires late on day 2, any other one at once; the thresholds
\* are 1 and 2 days.
MCNotAfter == [c \in Certs |-> IF c = CHOOSE d \in Certs : TRUE THEN 3 * Day - 1 ELSE 0]
MCThresholdSets == {{1, 2}}
MCManySets == {{1, 2}, {2}}
MCDefault == {1, 2}

\* Endpoints start alike.
MCSymmetry == Permutations(Endpoints)

=============================================================================
