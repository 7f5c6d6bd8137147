----------------------------- MODULE MCInventory -----------------------------
(***************************************************************************)
(* Instances of Inventory for TLC.                                         *)
(***************************************************************************)
EXTENDS Inventory, TLC

CONSTANTS s1, h1, h2, t1

\* h1 is the target itself, h2 another name at the same port.
MCCovers == (h1 :> {t1}) @@ (h2 :> {})
MCPromoteHosts == (t1 :> {h1, h2})

\* A host, and a SAML endpoint nobody is assigned to.
MCHost == [type |-> "host", host |-> h1, url |-> FALSE, enabled |-> TRUE,
           exempt |-> TRUE, scanner |-> s1]
MCSaml == [type |-> "saml", host |-> NoHost, url |-> TRUE, enabled |-> TRUE,
           exempt |-> FALSE, scanner |-> NoScanner]
MCRecords == {MCHost, MCSaml}

MCPatches == {[enabled |-> FALSE], [scanner |-> s1], [host |-> h2, url |-> FALSE],
              [exempt |-> FALSE]}
MCImports == {<<MCHost, MCSaml>>}
MCReports == {<<t1>>, <<t1, t1>>}

\* Nothing tells one request from another.
MCSymmetry == Permutations(Workers)

=============================================================================
