---------------------------- MODULE AlertDelivery ----------------------------
(***************************************************************************)
(* What the expiry alerts promise: an alert is claimed by one run, and then *)
(* mailed or lost.  Neither is ever undone, so no alert is mailed twice.    *)
(***************************************************************************)
CONSTANT Alerts  \* (user, certificate, threshold) triples

VARIABLE status  \* [Alerts -> {"pending", "claimed", "mailed", "lost"}]

Init == status = [k \in Alerts |-> "pending"]

Claim(k) ==
    /\ status[k] = "pending"
    /\ status' = [status EXCEPT ![k] = "claimed"]

Deliver(k) ==
    /\ status[k] = "claimed"
    /\ status' = [status EXCEPT ![k] = "mailed"]

\* The mail fails, the server stops, or the user is removed: for good.
Lose(S) ==
    status' = [k \in Alerts |->
                  IF k \in S /\ status[k] # "mailed" THEN "lost" ELSE status[k]]

Next ==
    \/ \E k \in Alerts : Claim(k) \/ Deliver(k)
    \/ \E S \in SUBSET Alerts : Lose(S)

Spec == Init /\ [][Next]_status

=============================================================================
