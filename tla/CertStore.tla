------------------------------ MODULE CertStore ------------------------------
(***************************************************************************)
(* The certificates table: rows arrive from scans, uploads and the root    *)
(* store refresh, an AFTER INSERT trigger links every row to its issuer,   *)
(* and the nightly job PurgeUnreferencedCerts removes what nothing keeps   *)
(* alive.                                                                  *)
(*                                                                         *)
(* An INSERT is two steps: the statement with its trigger, which sees the  *)
(* committed rows only, and the commit that makes the row visible.  The    *)
(* rows the trigger updates and the row its foreign key points at stay     *)
(* locked in between, so a DELETE of one of them waits for the commit.     *)
(*                                                                         *)
(* MayIssue[c] abstracts the match of c's authority key id and issuer DN   *)
(* against the subject key id and subject DN of other certificates.        *)
(***************************************************************************)
EXTENDS Naturals, FiniteSets

CONSTANTS
    Fps,        \* certificate fingerprints
    MayIssue,   \* [Fps -> SUBSET Fps]: the matching issuers
    NotAfter,   \* [Fps -> Nat]: the expiry dates
    NoFp,       \* NULL
    Ingests,    \* concurrent InsertCertificate / UpsertTrustAnchor calls
    MaxInserts, \* bound: inserts per behaviour
    MaxChanges  \* bound: reference changes and restarts per behaviour

ASSUME CertStoreAssumption ==
    /\ NoFp \notin Fps
    /\ MayIssue \in [Fps -> SUBSET Fps]
    /\ \A c \in Fps : c \notin MayIssue[c]
    /\ NotAfter \in [Fps -> Nat]
    /\ MaxInserts \in Nat /\ MaxChanges \in Nat

VARIABLES
    certs,    \* the committed rows
    issuer,   \* issuer_fingerprint, NoFp for NULL and for absent rows
    refs,     \* fingerprints in endpoint_certs or endpoint_scan_history
    kept,     \* rows with trust_anchor set or listed in root_store_anchors
    inbox,    \* fingerprints in discovery_inbox (no foreign key)
    ins,      \* the inserts in flight
    inserts,  \* inserts begun so far
    changes   \* reference changes and restarts so far

vars == <<certs, issuer, refs, kept, inbox, ins, inserts, changes>>

NullFp == Fps \cup {NoFp}

\* anchor: the call is UpsertTrustAnchor, which sets trust_anchor on its row.
Insert == [pc : {"idle", "open"}, cert : Fps, anchor : BOOLEAN,
           up : NullFp, down : SUBSET Fps]

Open(w) == ins[w].pc = "open"

\* Rows a transaction in flight holds a lock on.
Locked ==
    UNION {ins[w].down \cup ({ins[w].up} \ {NoFp}) : w \in {v \in Ingests : Open(v)}}

Init ==
    /\ certs = {}
    /\ issuer = [c \in Fps |-> NoFp]
    /\ refs = {}
    /\ kept = {}
    /\ inbox = {}
    /\ ins \in {[w \in Ingests |-> [pc |-> "idle", cert |-> c, anchor |-> FALSE,
                                    up |-> NoFp, down |-> {}]] : c \in Fps}
    /\ inserts = 0
    /\ changes = 0

(***************************************************************************)
(* InsertCertificate with its trigger                                      *)
(***************************************************************************)
\* Mutant of IssuerChoice: the subquery without its LIMIT 1.
IssuerChoiceAll(c) == {MayIssue[c] \cap certs}

\* First UPDATE of the trigger: the issuer of the new row, the candidate that
\* expires last, NULL when there is none.
IssuerChoice(c) ==
    LET candidates == MayIssue[c] \cap certs
    IN  IF candidates = {} THEN {NoFp}
        ELSE {i \in candidates : \A k \in candidates : NotAfter[k] <= NotAfter[i]}

\* Mutant of Orphans: the trigger without its second UPDATE.
OrphansIgnored(c) == {}

\* Second UPDATE of the trigger: the rows that were waiting for this issuer.
Orphans(c) == {x \in certs : c \in MayIssue[x] /\ issuer[x] = NoFp}

\* The statement.  ON CONFLICT (fingerprint) DO NOTHING: a row that exists is
\* no step, and one another transaction is inserting is waited for.  The two
\* UPDATEs wait for rows other transactions hold.
InsertBegin(w, c, anchor) ==
    /\ ins[w].pc = "idle"
    /\ inserts < MaxInserts
    /\ c \notin certs
    /\ \A v \in Ingests : Open(v) => ins[v].cert # c
    /\ \A v \in Ingests : Open(v) => Orphans(c) \cap ins[v].down = {}
    /\ \E i \in IssuerChoice(c) :
          ins' = [ins EXCEPT ![w] = [pc |-> "open", cert |-> c, anchor |-> anchor,
                                     up |-> i, down |-> Orphans(c)]]
    /\ inserts' = inserts + 1
    /\ UNCHANGED <<certs, issuer, refs, kept, inbox, changes>>

\* The commit.
InsertCommit(w) ==
    /\ Open(w)
    /\ certs' = certs \cup {ins[w].cert}
    /\ issuer' = [x \in Fps |-> CASE x = ins[w].cert -> ins[w].up
                                  [] x \in ins[w].down -> ins[w].cert
                                  [] OTHER -> issuer[x]]
    /\ kept' = IF ins[w].anchor THEN kept \cup {ins[w].cert} ELSE kept
    /\ ins' = [ins EXCEPT ![w].pc = "idle"]
    /\ UNCHANGED <<refs, inbox, inserts, changes>>

\* The statement fails or its connection is lost: the callers log and go on.
InsertFails(w) ==
    /\ Open(w)
    /\ ins' = [ins EXCEPT ![w].pc = "idle"]
    /\ UNCHANGED <<certs, issuer, refs, kept, inbox, inserts, changes>>

(***************************************************************************)
(* References come and go                                                  *)
(***************************************************************************)
\* endpoint_certs and scan history rows: foreign keys, so only to stored rows.
LinkCert(c) ==
    /\ c \in certs \ refs
    /\ changes < MaxChanges
    /\ refs' = refs \cup {c}
    /\ changes' = changes + 1
    /\ UNCHANGED <<certs, issuer, kept, inbox, ins, inserts>>

\* The last endpoint link and history row go (DeleteEndpoint, PurgeScanHistory).
UnlinkCert(c) ==
    /\ c \in refs
    /\ changes < MaxChanges
    /\ refs' = refs \ {c}
    /\ changes' = changes + 1
    /\ UNCHANGED <<certs, issuer, kept, inbox, ins, inserts>>

\* MarkTrustAnchor, or UpsertTrustAnchor's DO UPDATE, on a stored row.
MarkTrustAnchor(c) ==
    /\ c \in certs \ kept
    /\ changes < MaxChanges
    /\ kept' = kept \cup {c}
    /\ changes' = changes + 1
    /\ UNCHANGED <<certs, issuer, refs, inbox, ins, inserts>>

\* ReconcileTrustAnchorFlags drops the flag of a row no root store lists.
UnmarkTrustAnchor(c) ==
    /\ c \in kept
    /\ changes < MaxChanges
    /\ kept' = kept \ {c}
    /\ changes' = changes + 1
    /\ UNCHANGED <<certs, issuer, refs, inbox, ins, inserts>>

\* A discovery report names the fingerprint it saw, stored or not.
UpsertDiscoveryInboxItem(c) ==
    /\ c \notin inbox
    /\ changes < MaxChanges
    /\ inbox' = inbox \cup {c}
    /\ changes' = changes + 1
    /\ UNCHANGED <<certs, issuer, refs, kept, ins, inserts>>

\* The item is promoted or deleted.
DeleteDiscoveryInboxItem(c) ==
    /\ c \in inbox
    /\ changes < MaxChanges
    /\ inbox' = inbox \ {c}
    /\ changes' = changes + 1
    /\ UNCHANGED <<certs, issuer, refs, kept, ins, inserts>>

(***************************************************************************)
(* Deletes                                                                 *)
(***************************************************************************)
IsIssuer(c) == \E x \in certs : issuer[x] = c

DeleteRows(S) ==
    /\ certs' = certs \ S
    /\ issuer' = [x \in Fps |-> IF x \in S THEN NoFp ELSE issuer[x]]
    /\ kept' = kept \ S

\* DELETE of one certificate: the foreign keys refuse while anything in
\* endpoint_certs, scan history or issuer_fingerprint points at it; the root
\* store rows go with it.
DeleteCertificate(c) ==
    /\ c \in certs \ (refs \cup Locked)
    /\ ~IsIssuer(c)
    /\ DeleteRows({c})
    /\ UNCHANGED <<refs, inbox, ins, inserts, changes>>

\* DELETE ?purge=true: refuses issuers, removes the links and history first.
PurgeCertificate(c) ==
    /\ c \in certs \ Locked
    /\ ~IsIssuer(c)
    /\ DeleteRows({c})
    /\ refs' = refs \ {c}
    /\ UNCHANGED <<inbox, ins, inserts, changes>>

\* Mutant of Unreferenced: the self-join of the issuer test the wrong way
\* round.
UnreferencedWrongSide(c) ==
    c \notin refs \cup kept \cup inbox /\ issuer[c] = NoFp

\* The WHERE clause of PurgeUnreferencedCerts.
Unreferenced(c) == c \notin refs \cup kept \cup inbox /\ ~IsIssuer(c)

\* The nightly single pass.
PurgeUnreferencedCerts ==
    LET gone == {c \in certs : Unreferenced(c)} IN
    /\ gone # {}
    /\ gone \cap Locked = {}
    /\ DeleteRows(gone)
    /\ UNCHANGED <<refs, inbox, ins, inserts, changes>>

(***************************************************************************)
(* Start-up                                                                *)
(***************************************************************************)
\* Transactions in flight are rolled back, then New runs
\* ReconcileCertificateChains; its failure is only logged.
Restart ==
    /\ changes < MaxChanges
    /\ changes' = changes + 1
    /\ ins' = [w \in Ingests |-> [ins[w] EXCEPT !.pc = "idle"]]
    /\ \/ /\ issuer' \in [Fps -> NullFp]
          /\ \A c \in Fps :
                LET candidates == MayIssue[c] \cap certs IN
                IF c \in certs /\ issuer[c] = NoFp /\ candidates # {}
                THEN issuer'[c] \in candidates
                ELSE issuer'[c] = issuer[c]
       \/ UNCHANGED issuer
    /\ UNCHANGED <<certs, refs, kept, inbox, inserts>>

Next ==
    \/ \E w \in Ingests, c \in Fps, anchor \in BOOLEAN : InsertBegin(w, c, anchor)
    \/ \E w \in Ingests : InsertCommit(w) \/ InsertFails(w)
    \/ \E c \in Fps : LinkCert(c) \/ UnlinkCert(c)
    \/ \E c \in Fps : MarkTrustAnchor(c) \/ UnmarkTrustAnchor(c)
    \/ \E c \in Fps : UpsertDiscoveryInboxItem(c) \/ DeleteDiscoveryInboxItem(c)
    \/ \E c \in Fps : DeleteCertificate(c) \/ PurgeCertificate(c)
    \/ PurgeUnreferencedCerts
    \/ Restart

Spec == Init /\ [][Next]_vars

\* The purge job runs every night; a transaction ends one way or the other.
FairSpec ==
    /\ Spec
    /\ WF_vars(PurgeUnreferencedCerts)
    /\ \A w \in Ingests : WF_vars(InsertCommit(w) \/ InsertFails(w))

(***************************************************************************)
(* Properties                                                              *)
(***************************************************************************)
\* The shape of the state.
TypeOK ==
    /\ certs \subseteq Fps
    /\ issuer \in [Fps -> NullFp]
    /\ refs \subseteq Fps
    /\ kept \subseteq Fps
    /\ inbox \subseteq Fps
    /\ ins \in [Ingests -> Insert]
    /\ inserts \in Nat /\ changes \in Nat

\* certificates_store.go, ReconcileCertificateChains: "The INSERT trigger
\* handles this automatically for new rows".  No stored certificate lacks its
\* issuer link while a matching issuer is stored, whatever the order of
\* arrival (Result inserts the leaf before its issuer) and of deletes.  (One
\* insert at a time: the triggers of two that overlap do not see each other.)
ChainsLinked ==
    \A c \in certs : issuer[c] = NoFp => MayIssue[c] \cap certs = {}

\* No link dangles, and every link is to a matching issuer.
LinksAreStored ==
    \A c \in Fps : issuer[c] # NoFp =>
        c \in certs /\ issuer[c] \in certs \cap MayIssue[c]

\* maintenance_store.go, PurgeUnreferencedCerts keeps "issuer_fingerprint of any
\* other cert (chain integrity)": a certificate that stays never loses the last
\* stored certificate it chains to.
ChainsSurvivePurge ==
    [][\A c \in certs \cap certs' :
          MayIssue[c] \cap certs # {} => MayIssue[c] \cap certs' # {}]_vars

\* The certificates some reference keeps alive, directly or as an issuer of one
\* that is: the least set with the references that is closed under issuer.
Alive ==
    {c \in certs : \A S \in SUBSET certs :
        /\ (refs \cup kept \cup inbox) \cap certs \subseteq S
        /\ \A x \in S : issuer[x] # NoFp => issuer[x] \in S
        => c \in S}

\* maintenance_store.go, PurgeUnreferencedCerts: "certs freed up by today's
\* deletes become eligible on the next run ... Convergence is intentional":
\* what nothing keeps alive is removed in the end, or is used again.  (No two
\* certificates issue each other: such a pair keeps itself alive.)
GarbageIsPurged ==
    \A c \in Fps : (c \in certs \ Alive) ~> (c \notin certs \/ c \in Alive)

=============================================================================
