-------------------------------- MODULE Trust --------------------------------
(***************************************************************************)
(* The trust matrix: which root program trusts which certificate.          *)
(*                                                                         *)
(* rootstore.Refresh fetches the CCADB matrix and rewrites the anchors of  *)
(* every program; the job then rebuilds the evaluator's pools (LoadPools)  *)
(* and judges every stored certificate again (ReevaluateAll).  Meanwhile   *)
(* probe ingests store the chains scanners submit, add their CAs to the    *)
(* intermediates pool and judge them certificate by certificate.  All of   *)
(* them share the database and the evaluator; the locks of the evaluator   *)
(* cover single pool reads and writes only.  Three more requests insert    *)
(* certificates and leave the evaluator alone: Upload.                     *)
(*                                                                         *)
(* x509.Verify is a search for a path: Signers[c] holds the CA             *)
(* certificates that verify as the issuer of c (signature, constraints,    *)
(* key usage and validity).                                                *)
(***************************************************************************)
EXTENDS Naturals, Sequences, FiniteSets

CONSTANTS
    Stores,     \* the root programs
    Certs,
    CAs,        \* certificates with IsCA
    Signers,    \* [Certs -> SUBSET CAs]
    Twins,      \* [Certs -> SUBSET Certs]: same subject and key id, itself included
    WithPem,    \* certificates the PEM bundles of CCADB contain
    Matrices,   \* what CCADB may list: functions from its roots to programs
    Chains,     \* what scanners submit: sequences of certificates, leaf first
    Uploads,    \* what the requests that do not evaluate may carry
    Jobs,       \* refreshes that may overlap: the scheduled one, manual ones
    Ingests,    \* probe requests that may overlap
    MaxEvents   \* bound: refreshes, submissions, deletions, failures, restarts

ASSUME TrustAssumption ==
    /\ CAs \subseteq Certs
    /\ Signers \in [Certs -> SUBSET CAs]
    /\ Twins \in [Certs -> SUBSET Certs] /\ \A c \in Certs : c \in Twins[c]
    /\ WithPem \subseteq Certs
    /\ \A m \in Matrices : DOMAIN m \subseteq Certs /\ \A c \in DOMAIN m : m[c] \subseteq Stores
    /\ Chains \subseteq Seq(Certs) /\ Uploads \subseteq Certs
    /\ MaxEvents \in Nat
    /\ Jobs \cap Ingests = {}

VARIABLES
    stored,   \* certificates
    flagged,  \* certificates with trust_anchor = TRUE
    anchors,  \* root_store_anchors
    verdict,  \* certificate_trust; "none" for a missing row
    roots,    \* Evaluator.rootPools; an empty set for a missing pool
    inter,    \* Evaluator.intermediates
    job,      \* the refreshes
    chain,    \* the certificates an ingest has left
    step,     \* what an ingest does next with the first of them
    held,     \* a verdict that is computed and not yet persisted
    ever,     \* history: the anchors a program has had
    clean,    \* history: nothing has disturbed the latest refresh
    unjudged, \* history: uploaded since a walk last listed the table, and not yet
              \* judged by a probe request
    events    \* events so far

vars == <<stored, flagged, anchors, verdict, roots, inter, job, chain, step, held,
          ever, clean, unjudged, events>>

Procs == Jobs \cup Ingests
Verdict == [Stores -> {"none", "yes", "no"}]
Membership == [Stores -> SUBSET Certs]
NoMembers == [s \in Stores |-> {}]

\* pc: "idle"; "rows" (the loop over the matrix); "replace"
\* (ReplaceRootStoreAnchors per program); "reconcile"; "anchors" and "others" (the
\* two queries of LoadPools); "swap"; "list" (the query of ForEachCert); "walk".
Job == [pc : {"idle", "rows", "replace", "reconcile", "anchors", "others", "swap",
              "list", "walk"},
        matrix : Matrices \cup {<<>>}, todo : SUBSET Certs, left : SUBSET Stores,
        per : Membership, roots : Membership, inter : SUBSET Certs]

Idle == [pc |-> "idle", matrix |-> <<>>, todo |-> {}, left |-> {}, per |-> NoMembers,
         roots |-> NoMembers, inter |-> {}]

Init ==
    /\ stored = {} /\ flagged = {}
    /\ anchors = NoMembers
    /\ verdict = [c \in Certs |-> [s \in Stores |-> "none"]]
    /\ roots = NoMembers /\ inter = {}
    /\ job = [j \in Jobs |-> Idle]
    /\ chain = [w \in Ingests |-> <<>>]
    /\ step = [w \in Ingests |-> "insert"]
    /\ held = [p \in Procs |-> {}]
    /\ ever = NoMembers
    /\ clean = FALSE
    /\ unjudged = {}
    /\ events = 0

Event == events < MaxEvents /\ events' = events + 1

tables == <<stored, flagged, anchors, ever>>
database == <<tables, unjudged>>
pools == <<roots, inter>>
requests == <<chain, step>>

(***************************************************************************)
(* The evaluator                                                           *)
(***************************************************************************)
\* c has a path over I to a member of R: c is in the least set that contains R
\* and, with a signer, the members of I and c.
Verify(c, R, I) ==
    \A S \in SUBSET Certs :
        (R \subseteq S /\ \A x \in I \cup {c} : Signers[x] \cap S # {} => x \in S)
            => c \in S

\* Mutant of Evaluate: a path may end at an intermediate.
EvaluateAnyCA(c) ==
    [s \in Stores |-> IF roots[s] = {} THEN "none"
                      ELSE IF Verify(c, roots[s] \cup inter, inter) THEN "yes" ELSE "no"]

\* A verdict per loaded pool; a program without anchors has no pool.
Evaluate(c) ==
    [s \in Stores |-> IF roots[s] = {} THEN "none"
                      ELSE IF Verify(c, roots[s], inter) THEN "yes" ELSE "no"]

\* Mutant of UpsertCertificateTrust: ON CONFLICT DO NOTHING.
UpsertCertificateTrustOnce(c, v) ==
    [verdict EXCEPT ![c] =
        IF c \notin stored THEN @
        ELSE [s \in Stores |-> IF verdict[c][s] = "none" THEN v[s] ELSE verdict[c][s]]]

\* Mutant of UpsertCertificateTrust: no foreign key.
UpsertCertificateTrustUnchecked(c, v) ==
    [verdict EXCEPT ![c] =
        [s \in Stores |-> IF v[s] = "none" THEN verdict[c][s] ELSE v[s]]]

\* The table after UpsertCertificateTrust.  The foreign key refuses a certificate
\* that is gone; programs without a verdict keep their row.
UpsertCertificateTrust(c, v) ==
    [verdict EXCEPT ![c] =
        IF c \notin stored THEN @
        ELSE [s \in Stores |-> IF v[s] = "none" THEN verdict[c][s] ELSE v[s]]]

Persist(p) ==
    \E h \in held[p] :
        /\ verdict' = UpsertCertificateTrust(h[1], h[2])
        /\ held' = [held EXCEPT ![p] = {}]
        /\ unjudged' = unjudged \ {h[1]}
        /\ UNCHANGED <<tables, pools, job, requests, clean, events>>

(***************************************************************************)
(* Refresh                                                                 *)
(***************************************************************************)
At(j, pc) == job[j].pc = pc

\* The fetches succeeded; a refresh that fails to fetch changes nothing.
Fetch(j, m) ==
    /\ Event
    /\ At(j, "idle")
    /\ job' = [job EXCEPT ![j] = [Idle EXCEPT !.pc = "rows", !.matrix = m,
                                              !.todo = DOMAIN m]]
    /\ clean' = \A k \in Jobs : At(k, "idle")
    /\ UNCHANGED <<database, verdict, pools, requests, held>>

\* The row ends with a certificate in the table: UpsertTrustAnchor inserts one
\* whose PEM is known, MarkTrustAnchor needs one that exists.
Resolves(c) == c \in WithPem \/ c \in stored

\* UpsertTrustAnchor or MarkTrustAnchor, and the membership of the row.
MarkRow(j, c) ==
    /\ At(j, "rows")
    /\ c \in job[j].todo
    /\ stored' = IF c \in WithPem THEN stored \cup {c} ELSE stored
    /\ flagged' = flagged \cup ({c} \cap stored')
    /\ job' = [job EXCEPT ![j].todo = @ \ {c},
                 ![j].per = [s \in Stores |->
                    IF Resolves(c) /\ s \in job[j].matrix[c] THEN job[j].per[s] \cup {c}
                    ELSE job[j].per[s]]]
    /\ UNCHANGED <<anchors, ever, verdict, pools, requests, held, clean, unjudged,
                   events>>

EndRows(j) ==
    /\ At(j, "rows")
    /\ job[j].todo = {}
    /\ job' = [job EXCEPT ![j].pc = "replace", ![j].left = Stores]
    /\ UNCHANGED <<database, verdict, pools, requests, held, clean, events>>

\* The table after ReplaceRootStoreAnchors; a foreign key undoes all of it.
ReplaceRootStoreAnchors(s, S) ==
    IF S \subseteq stored THEN [anchors EXCEPT ![s] = S] ELSE anchors

Replace(j, s) ==
    /\ At(j, "replace")
    /\ s \in job[j].left
    /\ anchors' = ReplaceRootStoreAnchors(s, job[j].per[s])
    /\ ever' = [t \in Stores |-> ever[t] \cup anchors'[t]]
    /\ job' = [job EXCEPT ![j].left = @ \ {s}]
    /\ UNCHANGED <<stored, flagged, verdict, pools, requests, held, clean, unjudged,
                   events>>

ReconcileTrustAnchorFlags(j) ==
    /\ At(j, "replace")
    /\ job[j].left = {}
    /\ flagged' = {c \in stored : \E s \in Stores : \E a \in anchors[s] : c \in Twins[a]}
    /\ job' = [job EXCEPT ![j].pc = "anchors"]
    /\ UNCHANGED <<stored, anchors, ever, verdict, pools, requests, held, clean, unjudged,
                   events>>

(***************************************************************************)
(* LoadPools and ReevaluateAll                                             *)
(***************************************************************************)
ListAnchorPEMsByStore(j) ==
    /\ At(j, "anchors")
    /\ job' = [job EXCEPT ![j].pc = "others", ![j].roots = anchors]
    /\ UNCHANGED <<database, verdict, pools, requests, held, clean, events>>

\* The CAs among the rows with trust_anchor = FALSE.
NonAnchorCAs == (stored \ flagged) \cap CAs

ListNonAnchorCertPEMs(j) ==
    /\ At(j, "others")
    /\ job' = [job EXCEPT ![j].pc = "swap", ![j].inter = NonAnchorCAs]
    /\ UNCHANGED <<database, verdict, pools, requests, held, clean, events>>

\* The refresh is disturbed by ingests that still hold a verdict of the old pools,
\* and by CAs learned since the query, which the new pool lacks.
Swap(j) ==
    /\ At(j, "swap")
    /\ roots' = job[j].roots
    /\ inter' = job[j].inter
    /\ job' = [job EXCEPT ![j].pc = "list"]
    /\ clean' = /\ clean
                /\ \A w \in Ingests : held[w] = {}
                /\ NonAnchorCAs \cap inter \subseteq job[j].inter
    /\ UNCHANGED <<database, verdict, requests, held, events>>

\* Mutant of ForEachCert: anchors are left out.
ForEachCertNonAnchors == stored \ flagged

\* The certificates ReevaluateAll walks over.
ForEachCert == stored

ListForWalk(j) ==
    /\ At(j, "list")
    /\ job' = [job EXCEPT ![j].pc = "walk", ![j].todo = ForEachCert]
    /\ unjudged' = {}
    /\ UNCHANGED <<tables, verdict, pools, requests, held, clean, events>>

Reevaluate(j, c) ==
    /\ At(j, "walk")
    /\ c \in job[j].todo
    /\ held[j] = {}
    /\ held' = [held EXCEPT ![j] = {<<c, Evaluate(c)>>}]
    /\ job' = [job EXCEPT ![j].todo = @ \ {c}]
    /\ UNCHANGED <<database, verdict, pools, requests, clean, events>>

EndWalk(j) ==
    /\ At(j, "walk")
    /\ job[j].todo = {} /\ held[j] = {}
    /\ job' = [job EXCEPT ![j] = Idle]
    /\ UNCHANGED <<database, verdict, pools, requests, held, clean, events>>

(***************************************************************************)
(* Probe ingest                                                            *)
(***************************************************************************)
Submit(w, ch) ==
    /\ Event
    /\ chain[w] = <<>> /\ held[w] = {}
    /\ chain' = [chain EXCEPT ![w] = ch]
    /\ UNCHANGED <<database, verdict, pools, job, step, held, clean>>

Busy(w, s) == chain[w] # <<>> /\ step[w] = s /\ held[w] = {}

\* ON CONFLICT DO NOTHING: a row that exists keeps its flag.
InsertCertificate(w) ==
    /\ Busy(w, "insert")
    /\ stored' = stored \cup {Head(chain[w])}
    /\ step' = [step EXCEPT ![w] = "add"]
    /\ UNCHANGED <<flagged, anchors, ever, verdict, pools, job, chain, held, clean, unjudged,
                   events>>

\* The pool after AddIntermediate.
AddIntermediate(c) == inter \cup ({c} \cap CAs)

Learn(w) ==
    /\ Busy(w, "add")
    /\ inter' = AddIntermediate(Head(chain[w]))
    /\ step' = [step EXCEPT ![w] = "evaluate"]
    /\ UNCHANGED <<database, verdict, roots, job, chain, held, clean, events>>

\* The first half of evaluateAndPersist.
Judge(w) ==
    /\ Busy(w, "evaluate")
    /\ held' = [held EXCEPT ![w] = {<<Head(chain[w]), Evaluate(Head(chain[w]))>>}]
    /\ chain' = [chain EXCEPT ![w] = Tail(@)]
    /\ step' = [step EXCEPT ![w] = "insert"]
    /\ UNCHANGED <<database, verdict, pools, job, clean, events>>

(***************************************************************************)
(* The other inserts                                                       *)
(***************************************************************************)
\* InsertCertificate from SAMLResult, LinkCertificate or POST /certificates: no
\* AddIntermediate and no verdict, until a walk or a probe request meets the row.
Upload(c) ==
    /\ Event
    /\ c \in Uploads \ stored
    /\ stored' = stored \cup {c}
    /\ unjudged' = unjudged \cup {c}
    /\ UNCHANGED <<flagged, anchors, ever, verdict, pools, job, requests, held, clean>>

(***************************************************************************)
(* Deletions, failures, restarts                                           *)
(***************************************************************************)
\* DeleteCertificate or a purge; ON DELETE CASCADE takes the anchors and the
\* verdicts along.  (What CertStore refuses to delete is not refused here.)
DeleteCertificate(c) ==
    /\ Event
    /\ c \in stored
    /\ stored' = stored \ {c}
    /\ flagged' = flagged \ {c}
    /\ anchors' = [s \in Stores |-> anchors[s] \ {c}]
    /\ verdict' = [verdict EXCEPT ![c] = [s \in Stores |-> "none"]]
    /\ clean' = FALSE
    /\ unjudged' = unjudged \ {c}
    /\ UNCHANGED <<ever, pools, job, requests, held>>

\* A statement of a job fails.  A failed row, program, reconciliation or verdict
\* is logged and skipped; a failed query of LoadPools or ForEachCert ends the job.
JobFails(j) ==
    /\ Event
    /\ clean' = FALSE
    /\ \/ /\ held[j] # {}
          /\ held' = [held EXCEPT ![j] = {}]
          /\ UNCHANGED job
       \/ /\ held[j] = {}
          /\ \/ \E c \in job[j].todo : At(j, "rows") /\ job' = [job EXCEPT ![j].todo = @ \ {c}]
             \/ \E s \in job[j].left : job' = [job EXCEPT ![j].left = @ \ {s}]
             \/ /\ At(j, "replace") /\ job[j].left = {}
                /\ job' = [job EXCEPT ![j].pc = "anchors"]
             \/ /\ job[j].pc \in {"anchors", "others", "list"}
                /\ job' = [job EXCEPT ![j] = Idle]
          /\ UNCHANGED held
    /\ UNCHANGED <<database, verdict, pools, requests>>

\* InsertCertificate fails: the next certificate of the chain.  UpsertCertificateTrust
\* fails: logged.
IngestFails(w) ==
    /\ Event
    /\ clean' = FALSE
    /\ \/ /\ Busy(w, "insert")
          /\ chain' = [chain EXCEPT ![w] = Tail(@)]
          /\ UNCHANGED held
       \/ /\ held[w] # {}
          /\ held' = [held EXCEPT ![w] = {}]
          /\ UNCHANGED chain
    /\ UNCHANGED <<database, verdict, pools, job, step>>

\* The server stops and starts: New, LoadPools (which may fail) before any request,
\* and ReevaluateAll in the background.
Restart(j, loaded) ==
    /\ Event
    /\ roots' = IF loaded THEN anchors ELSE NoMembers
    /\ inter' = IF loaded THEN NonAnchorCAs ELSE {}
    /\ job' = [k \in Jobs |-> IF k = j THEN [Idle EXCEPT !.pc = "list"] ELSE Idle]
    /\ chain' = [w \in Ingests |-> <<>>]
    /\ step' = [w \in Ingests |-> "insert"]
    /\ held' = [p \in Procs |-> {}]
    /\ clean' = FALSE
    /\ UNCHANGED <<database, verdict>>

(***************************************************************************)
(* Specification                                                           *)
(***************************************************************************)
Refresh(j) ==
    \/ \E m \in Matrices : Fetch(j, m)
    \/ \E c \in Certs : MarkRow(j, c)
    \/ EndRows(j)
    \/ \E s \in Stores : Replace(j, s)
    \/ ReconcileTrustAnchorFlags(j)

LoadPools(j) == ListAnchorPEMsByStore(j) \/ ListNonAnchorCertPEMs(j) \/ Swap(j)

ReevaluateAll(j) ==
    \/ ListForWalk(j)
    \/ \E c \in Certs : Reevaluate(j, c)
    \/ EndWalk(j)

Result(w) ==
    \/ \E ch \in Chains : Submit(w, ch)
    \/ InsertCertificate(w)
    \/ Learn(w)
    \/ Judge(w)

Next ==
    \/ \E j \in Jobs : Refresh(j) \/ LoadPools(j) \/ ReevaluateAll(j) \/ JobFails(j)
    \/ \E w \in Ingests : Result(w) \/ IngestFails(w)
    \/ \E p \in Procs : Persist(p)
    \/ \E c \in Certs : Upload(c) \/ DeleteCertificate(c)
    \/ \E j \in Jobs, loaded \in BOOLEAN : Restart(j, loaded)

Spec == Init /\ [][Next]_vars

(***************************************************************************)
(* Properties                                                              *)
(***************************************************************************)
\* The shape of the state; rows of certificate_trust and root_store_anchors
\* belong to stored certificates.
TypeOK ==
    /\ stored \subseteq Certs /\ flagged \subseteq stored /\ unjudged \subseteq stored
    /\ anchors \in [Stores -> SUBSET stored]
    /\ verdict \in [Certs -> Verdict]
    /\ \A c \in Certs \ stored, s \in Stores : verdict[c][s] = "none"
    /\ roots \in Membership /\ inter \subseteq Certs
    /\ job \in [Jobs -> Job]
    /\ chain \in [Ingests -> Seq(Certs)]
    /\ step \in [Ingests -> {"insert", "add", "evaluate"}]
    /\ held \in [Procs -> SUBSET (Certs \X Verdict)]
    /\ ever \in Membership /\ clean \in BOOLEAN /\ events \in Nat

\* What scanners submit cannot make a program trust a certificate, whatever
\* overlaps, fails or is deleted: a verdict "trusted" rests on a verified path
\* over CA certificates to a certificate that was an anchor of the program.
TrustedWasJustified ==
    \A c \in Certs, s \in Stores : verdict[c][s] = "yes" => Verify(c, ever[s], CAs)

Ingesting(c) == \E w \in Ingests : chain[w] # <<>> /\ Head(chain[w]) = c

\* No job is under way, and the last one was a refresh that nothing disturbed: no
\* other job, failure, deletion or restart since it began, and no verdict and no
\* learned CA of an ingest across its Swap.  Ingests may interleave with it otherwise.
Refreshed == clean /\ \A j \in Jobs : At(j, "idle")

\* After such a refresh certificate_trust reflects the new anchors of a program
\* that has any: no certificate is still trusted on the strength of a removed one,
\* and every anchor is trusted.
RefreshIsApplied ==
    Refreshed => \A c \in stored, s \in Stores : anchors[s] # {} =>
        /\ verdict[c][s] = "yes" => Verify(c, anchors[s], CAs)
        /\ c \in anchors[s] => verdict[c][s] # "no"

\* After such a refresh every certificate that no probe request is working on has
\* a verdict of every program with anchors, whenever it was stored and by whom:
\* except what was uploaded after the walk had listed the table, which has none
\* until a walk or a probe request meets it.
EveryCertIsJudged ==
    Refreshed => \A c \in stored \ unjudged, s \in Stores :
        \/ anchors[s] = {}
        \/ verdict[c][s] # "none"
        \/ Ingesting(c)
        \/ \E w \in Ingests : \E h \in held[w] : h[1] = c

\* probe/handler.go, Result: chain intermediates are added to the pool "so later
\* leaves whose issuer happens to be this cert can build a complete path".  After
\* a refresh every stored CA that is past its ingest is in the pool, unless it is
\* an anchor itself.
IngestedCAIsUsable ==
    Refreshed => \A c \in stored \cap CAs :
        c \in inter \/ Ingesting(c) \/ \E s \in Stores : c \in anchors[s]

=============================================================================
