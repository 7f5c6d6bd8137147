------------------------------ MODULE ScanIngest ------------------------------
(***************************************************************************)
(* What scanners and operators report about endpoints, and what the server *)
(* keeps of it: the live scan state of the endpoint row, the scan history  *)
(* ledger, the certificates linked per use (endpoint_certs) and the SAML   *)
(* metadata archive.  Requests run concurrently; each statement or         *)
(* transaction of a handler is a step of its own.                          *)
(*                                                                         *)
(* Time is the database clock.  NOW() is the start of the transaction, so  *)
(* RecordScanResult draws its timestamp (BeginRecord) before it waits for  *)
(* the lock on the endpoint row (HoldEndpoint) and takes effect            *)
(* (CommitRecord).  Deletes and edits of the endpoint wait for that lock.  *)
(*                                                                         *)
(* The UPDATE of upsertEndpointCert works on the rows it saw when it       *)
(* started (HoldEndpoint, RollOver), its INSERT comes later (CommitRecord, *)
(* CommitLink).  For a scan both are under the lock; LinkCertificate and   *)
(* the loop over a document's certificates take none, whatever the use.    *)
(* Two of them may also deadlock on each other's rows, and the database    *)
(* then fails one: SkipCert.                                               *)
(*                                                                         *)
(* Issuer links and chain certificates are in CertStore; here a scan has   *)
(* its leaf only.                                                          *)
(***************************************************************************)
EXTENDS Integers, Sequences, FiniteSets

CONSTANTS
    Endpoints,   \* endpoint ids; an id is never used again
    Fps,         \* certificate fingerprints
    NoFp,        \* NULL
    Nets,        \* (TLS version, resolved IP) pairs a scan may report
    NoNet,       \* both NULL
    Docs,        \* SAML metadata documents
    NoDoc,       \* NULL
    NoRow,       \* no row in endpoint_saml: the endpoint is of another type
    DocCerts,    \* [Docs -> Seq([fp : Fps, use : Uses])]: what a document lists
    LinkUses,    \* the uses LinkCertificate requests carry
    Purgeable,   \* the certificates an operator purges with ?purge=true
    Workers,     \* requests served at a time
    MaxRequests  \* bound: requests per behaviour

Uses == {"tls", "signing", "encryption", "manual"}

ASSUME ScanIngestAssumption ==
    /\ NoFp \notin Fps /\ NoNet \notin Nets
    /\ NoDoc \notin Docs /\ NoRow \notin Docs \cup {NoDoc}
    /\ DocCerts \in [Docs -> Seq([fp : Fps, use : {"signing", "encryption"}])]
    /\ LinkUses \subseteq Uses
    /\ Purgeable \subseteq Fps
    /\ MaxRequests \in Nat

VARIABLES
    endpoint,  \* [Endpoints -> {"new", "live", "deleted"}]
    certs,     \* stored certificates
    link,      \* endpoint_certs: "none", "past" or "current" per key
    scan,      \* the live scan state of each endpoint
    ledger,    \* endpoint_scan_history
    samlDoc,   \* endpoint_saml.metadata_xml, or NoRow
    samlHist,  \* saml_metadata_history
    req,       \* the requests in flight
    clock,     \* transactions begun so far
    requests,  \* requests begun so far
    disturbed, \* history: endpoints that had two requests at a time, or a
               \* certificate purged by an operator
    raced,     \* history: endpoints that had an upload for the use "tls" in
               \* flight together with another request
    uploaded   \* history: endpoints whose "tls" links an upload wrote last

history == <<disturbed, raced, uploaded>>

vars == <<endpoint, certs, link, scan, ledger, samlDoc, samlHist, req, clock,
          requests, history>>

NullFp == Fps \cup {NoFp}
NullNet == Nets \cup {NoNet}
Time == Nat

\* err: last_scan_error IS NOT NULL; since: error_since, {} for NULL.
ScanState == [scanned : BOOLEAN, err : BOOLEAN, since : SUBSET Time]

LinkKey == Endpoints \X Fps \X Uses

Row == [ep : Endpoints, at : Time, fp : NullFp, net : NullNet, err : BOOLEAN]

Item == [fp : Fps, use : Uses]

\* pc: "ingest" (Result is to store the leaf), "record" (RecordScanResult is
\* next), "recording" (it waits for the lock), "holding" (it has it),
\* "metadata" (UpsertSAMLMetadata is next), and for the first item of todo "cert" (InsertCertificate is
\* next), "stored" and "rolled" (UpsertEndpointCert before and after its
\* UPDATE).
Request ==
    [pc : {"idle", "ingest", "record", "recording", "holding", "metadata",
           "cert", "stored", "rolled"},
     ep : Endpoints, fp : NullFp, net : NullNet, err : BOOLEAN,
     at : Time, doc : Docs \cup {NoDoc}, todo : Seq(Item), seen : SUBSET Fps]

Idle(e) == [pc |-> "idle", ep |-> e, fp |-> NoFp, net |-> NoNet, err |-> FALSE,
            at |-> 0, doc |-> NoDoc, todo |-> <<>>, seen |-> {}]

Unscanned == [scanned |-> FALSE, err |-> FALSE, since |-> {}]

Init ==
    /\ endpoint = [e \in Endpoints |-> "new"]
    /\ certs = {}
    /\ link = [k \in LinkKey |-> "none"]
    /\ scan = [e \in Endpoints |-> Unscanned]
    /\ ledger = {}
    /\ samlDoc = [e \in Endpoints |-> NoRow]
    /\ samlHist = {}
    /\ req \in {[w \in Workers |-> Idle(e)] : e \in Endpoints}
    /\ clock = 0
    /\ requests = 0
    /\ disturbed = {} /\ raced = {} /\ uploaded = {}

(***************************************************************************)
(* Helpers                                                                 *)
(***************************************************************************)
RowsOf(e) == {r \in ledger : r.ep = e}

\* ORDER BY scanned_at DESC LIMIT 1, as a set with at most one member.
Latest(e) == {r \in RowsOf(e) : \A q \in RowsOf(e) : q.at <= r.at}

\* Mutant of scanResultChanged: the error transition is not a change.
scanResultChangedNoError(e, fp, net, err) ==
    \A last \in Latest(e) : last.fp # fp \/ last.net # net

scanResultChanged(e, fp, net, err) ==
    \A last \in Latest(e) : last.fp # fp \/ last.net # net \/ last.err # err

CurrentFps(e, use) == {f \in Fps : link[<<e, f, use>>] = "current"}

\* endpoint_certs after the roll-over of the rows in seen that are still
\* current and the upsert of the new row.
upsertEndpointCert(e, fp, use, seen) ==
    [k \in LinkKey |->
        IF k = <<e, fp, use>> THEN "current"
        ELSE IF k[1] = e /\ k[3] = use /\ k[2] \in seen /\ link[k] = "current"
             THEN "past"
        ELSE link[k]]

\* Mutant of OutageStart: a success does not clear it.
OutageStartKept(s, err, at) == IF err /\ ~s.err THEN {at} ELSE s.since

\* error_since: set on the first failure, kept by the next ones, cleared by a
\* success.
OutageStart(s, err, at) ==
    IF err /\ ~s.err THEN {at} ELSE IF err THEN s.since ELSE {}

\* Mutant of Referenced: only current links count.
ReferencedCurrently(c) ==
    \/ \E r \in ledger : r.fp = c
    \/ \E e \in Endpoints, u \in Uses : link[<<e, c, u>>] = "current"

Referenced(c) ==
    \/ \E r \in ledger : r.fp = c
    \/ \E e \in Endpoints, u \in Uses : link[<<e, c, u>>] # "none"

Serves(w, e) == req[w].pc # "idle" /\ req[w].ep = e

\* A request that links a certificate for the use "tls" without the lock.
TLSUpload(r) == r.todo # <<>> /\ r.todo[1].use = "tls"

\* A transaction of RecordScanResult has locked the row of the endpoint.
Held(e) == \E w \in Workers : req[w].pc = "holding" /\ req[w].ep = e

(***************************************************************************)
(* Requests arrive                                                         *)
(***************************************************************************)
Begin(w, r) ==
    LET others == {v \in Workers : Serves(v, r.ep)}
    IN  /\ req[w].pc = "idle"
        /\ requests < MaxRequests
        /\ requests' = requests + 1
        /\ req' = [req EXCEPT ![w] = r]
        /\ disturbed' = IF others # {} THEN disturbed \cup {r.ep} ELSE disturbed
        /\ raced' = IF \E v \in others : TLSUpload(r) \/ TLSUpload(req[v])
                    THEN raced \cup {r.ep} ELSE raced
        /\ UNCHANGED <<endpoint, certs, link, scan, ledger, samlDoc, samlHist, clock,
                       uploaded>>

\* Result for a scan that failed: no certificate; an address may have been
\* resolved.
ResultError(w, e, net) ==
    Begin(w, [Idle(e) EXCEPT !.pc = "record", !.err = TRUE, !.net = net])

\* Result for a scan that saw the leaf fp.
ResultLeaf(w, e, fp, net) ==
    Begin(w, [Idle(e) EXCEPT !.pc = "ingest", !.fp = fp, !.net = net])

\* SAMLResult for a fetch that failed.
SAMLResultError(w, e) ==
    Begin(w, [Idle(e) EXCEPT !.pc = "record", !.err = TRUE])

\* SAMLResult with a metadata document.
SAMLResultDoc(w, e, doc) ==
    Begin(w, [Idle(e) EXCEPT !.pc = "record", !.doc = doc,
                             !.todo = DocCerts[doc]])

\* LinkCertificate.
LinkCertificate(w, e, fp, use) ==
    Begin(w, [Idle(e) EXCEPT !.pc = "cert", !.todo = <<[fp |-> fp, use |-> use]>>])

(***************************************************************************)
(* Result and RecordScanResult                                             *)
(***************************************************************************)
\* InsertCertificate of the leaf; when the PEM cannot be parsed or the insert
\* fails, ActiveFingerprint is cleared.
IngestLeaf(w) ==
    /\ req[w].pc = "ingest"
    /\ \/ /\ certs' = certs \cup {req[w].fp}
          /\ req' = [req EXCEPT ![w].pc = "record"]
       \/ /\ req' = [req EXCEPT ![w].pc = "record", ![w].fp = NoFp]
          /\ UNCHANGED certs
    /\ UNCHANGED <<endpoint, link, scan, ledger, samlDoc, samlHist, clock, requests,
                   history>>

\* Mutant of BeginRecord: the timestamp is the one of the last transaction.
BeginRecordStale(w) ==
    /\ req[w].pc = "record"
    /\ req' = [req EXCEPT ![w].pc = "recording", ![w].at = clock - 1]
    /\ clock' = clock + 1
    /\ UNCHANGED <<endpoint, certs, link, scan, ledger, samlDoc, samlHist, requests,
                   history>>

BeginRecord(w) ==
    /\ req[w].pc = "record"
    /\ req' = [req EXCEPT ![w].pc = "recording", ![w].at = clock]
    /\ clock' = clock + 1
    /\ UNCHANGED <<endpoint, certs, link, scan, ledger, samlDoc, samlHist, requests,
                   history>>

\* Mutant of HoldEndpoint: the transaction does not wait for the other one.
HoldEndpointUnlocked(w) ==
    LET r == req[w] IN
    /\ r.pc = "recording"
    /\ endpoint[r.ep] = "live"
    /\ req' = [req EXCEPT ![w].pc = "holding", ![w].seen = CurrentFps(r.ep, "tls")]
    /\ UNCHANGED <<endpoint, certs, link, scan, ledger, samlDoc, samlHist, clock,
                   requests, history>>

\* The first UPDATE locks the endpoint row (it finds none when the endpoint is
\* gone, and the inserts then fail on their foreign keys: Abandon), and the
\* UPDATE of upsertEndpointCert picks the rows to roll over.
HoldEndpoint(w) ==
    LET r == req[w] IN
    /\ r.pc = "recording"
    /\ endpoint[r.ep] = "live"
    /\ ~Held(r.ep)
    /\ req' = [req EXCEPT ![w].pc = "holding", ![w].seen = CurrentFps(r.ep, "tls")]
    /\ UNCHANGED <<endpoint, certs, link, scan, ledger, samlDoc, samlHist, clock,
                   requests, history>>

\* What the transaction writes, at its commit.  The foreign keys make it fail
\* when the leaf is gone: Abandon.
CommitRecord(w) ==
    LET r == req[w] IN
    /\ r.pc = "holding"
    /\ endpoint[r.ep] = "live"
    /\ r.fp \in certs \cup {NoFp}
    /\ scan' = [scan EXCEPT ![r.ep] =
                  [scanned |-> TRUE, err |-> r.err,
                   since |-> OutageStart(scan[r.ep], r.err, r.at)]]
    /\ ledger' = IF scanResultChanged(r.ep, r.fp, r.net, r.err)
                 THEN ledger \cup {[ep |-> r.ep, at |-> r.at, fp |-> r.fp,
                                    net |-> r.net, err |-> r.err]}
                 ELSE ledger
    /\ link' = IF r.fp # NoFp
               THEN upsertEndpointCert(r.ep, r.fp, "tls", r.seen)
               ELSE link
    /\ uploaded' = IF r.fp # NoFp THEN uploaded \ {r.ep} ELSE uploaded
    /\ req' = [req EXCEPT ![w] = IF r.doc = NoDoc THEN Idle(r.ep)
                                 ELSE [r EXCEPT !.pc = "metadata"]]
    /\ UNCHANGED <<endpoint, certs, samlDoc, samlHist, clock, requests, disturbed,
                   raced>>

\* The request ends early: a failed statement, a closed connection, a crash.
Abandon(w) ==
    /\ req[w].pc # "idle"
    /\ req' = [req EXCEPT ![w] = Idle(req[w].ep)]
    /\ UNCHANGED <<endpoint, certs, link, scan, ledger, samlDoc, samlHist, clock,
                   requests, history>>

(***************************************************************************)
(* SAMLResult after RecordScanResult, and LinkCertificate                  *)
(***************************************************************************)
\* ON CONFLICT (endpoint_id, sha256) DO NOTHING.
archived(e, doc) == samlHist \cup {<<e, doc>>}

\* The loop over the certificates: the next one, or the end of the request.
AfterCert(r) ==
    IF Len(r.todo) > 1
    THEN [r EXCEPT !.pc = "cert", !.todo = Tail(r.todo), !.seen = {}]
    ELSE Idle(r.ep)

\* The UPDATE of endpoint_saml touches no row when the endpoint is no longer of
\* that type; the archive gets the document even so.  Failure is logged and the
\* certificates are linked all the same.
UpsertSAMLMetadata(w) ==
    LET r == req[w] IN
    /\ r.pc = "metadata"
    /\ req' = [req EXCEPT ![w] = IF r.todo = <<>> THEN Idle(r.ep)
                                 ELSE [r EXCEPT !.pc = "cert"]]
    /\ \/ /\ endpoint[r.ep] = "live"
          /\ samlDoc' = [samlDoc EXCEPT ![r.ep] = IF @ = NoRow THEN NoRow ELSE r.doc]
          /\ samlHist' = archived(r.ep, r.doc)
       \/ UNCHANGED <<samlDoc, samlHist>>
    /\ UNCHANGED <<endpoint, certs, link, scan, ledger, clock, requests, history>>

InsertItem(w) ==
    /\ req[w].pc = "cert"
    /\ certs' = certs \cup {req[w].todo[1].fp}
    /\ req' = [req EXCEPT ![w].pc = "stored"]
    /\ UNCHANGED <<endpoint, link, scan, ledger, samlDoc, samlHist, clock, requests,
                   history>>

\* The UPDATE of UpsertEndpointCert picks the rows to roll over.
RollOver(w) ==
    LET r == req[w] IN
    /\ r.pc = "stored"
    /\ req' = [req EXCEPT ![w].pc = "rolled",
                          ![w].seen = CurrentFps(r.ep, r.todo[1].use)]
    /\ UNCHANGED <<endpoint, certs, link, scan, ledger, samlDoc, samlHist, clock,
                   requests, history>>

CommitLink(w) ==
    LET r == req[w] IN
    /\ r.pc = "rolled"
    /\ endpoint[r.ep] = "live"
    /\ r.todo[1].fp \in certs
    /\ link' = upsertEndpointCert(r.ep, r.todo[1].fp, r.todo[1].use, r.seen)
    /\ uploaded' = IF TLSUpload(r) THEN uploaded \cup {r.ep} ELSE uploaded
    /\ req' = [req EXCEPT ![w] = AfterCert(r)]
    /\ UNCHANGED <<endpoint, certs, scan, ledger, samlDoc, samlHist, clock, requests,
                   disturbed, raced>>

\* One certificate fails to parse, to be stored or to be linked: the next one.
SkipCert(w) ==
    /\ req[w].pc \in {"cert", "stored", "rolled"}
    /\ req' = [req EXCEPT ![w] = AfterCert(req[w])]
    /\ UNCHANGED <<endpoint, certs, link, scan, ledger, samlDoc, samlHist, clock,
                   requests, history>>

(***************************************************************************)
(* Endpoints and certificates come and go                                  *)
(***************************************************************************)
\* Of type saml or of another one.
InsertEndpoint(e) ==
    /\ endpoint[e] = "new"
    /\ endpoint' = [endpoint EXCEPT ![e] = "live"]
    /\ \E row \in {NoDoc, NoRow} : samlDoc' = [samlDoc EXCEPT ![e] = row]
    /\ UNCHANGED <<certs, link, scan, ledger, samlHist, req, clock, requests, history>>

\* UpdateEndpoint with a change of type from or to saml: the row of
\* endpoint_saml is removed with its metadata, or inserted without.
RetypeEndpoint(e) ==
    /\ endpoint[e] = "live"
    /\ ~Held(e)
    /\ samlDoc' = [samlDoc EXCEPT ![e] = IF @ = NoRow THEN NoDoc ELSE NoRow]
    /\ UNCHANGED <<endpoint, certs, link, scan, ledger, samlHist, req, clock, requests,
                   history>>

\* Everything that hangs off the endpoint goes with it (ON DELETE CASCADE).
DeleteEndpoint(e) ==
    /\ endpoint[e] = "live"
    /\ ~Held(e)
    /\ endpoint' = [endpoint EXCEPT ![e] = "deleted"]
    /\ link' = [k \in LinkKey |-> IF k[1] = e THEN "none" ELSE link[k]]
    /\ scan' = [scan EXCEPT ![e] = Unscanned]
    /\ ledger' = ledger \ RowsOf(e)
    /\ samlDoc' = [samlDoc EXCEPT ![e] = NoRow]
    /\ samlHist' = {h \in samlHist : h[1] # e}
    /\ UNCHANGED <<certs, req, clock, requests, history>>

\* DeleteCertificate and the nightly purge: the foreign keys and the WHERE
\* clause spare what is referenced.  (What else the purge spares is in
\* CertStore; here it may spare anything.)
RemoveUnreferencedCert(c) ==
    /\ c \in certs
    /\ ~Referenced(c)
    /\ certs' = certs \ {c}
    /\ UNCHANGED <<endpoint, link, scan, ledger, samlDoc, samlHist, req, clock,
                   requests, history>>

PurgeCertificate(c) ==
    /\ c \in certs \cap Purgeable
    /\ certs' = certs \ {c}
    /\ ledger' = {r \in ledger : r.fp # c}
    /\ link' = [k \in LinkKey |-> IF k[2] = c THEN "none" ELSE link[k]]
    /\ disturbed' = disturbed \cup {e \in Endpoints :
                       \/ \E r \in RowsOf(e) : r.fp = c
                       \/ \E u \in Uses : link[<<e, c, u>>] # "none"}
    /\ UNCHANGED <<endpoint, scan, samlDoc, samlHist, req, clock, requests, raced,
                   uploaded>>

\* Mutant of PurgeableRows: the newest row goes with the others.
PurgeableRowsAll(cutoff) == {r \in ledger : r.at < cutoff}

\* Older than the retention, and not the newest of its endpoint.
PurgeableRows(cutoff) == {r \in ledger : r.at < cutoff /\ r \notin Latest(r.ep)}

PurgeScanHistory(cutoff) ==
    /\ PurgeableRows(cutoff) # {}
    /\ ledger' = ledger \ PurgeableRows(cutoff)
    /\ UNCHANGED <<endpoint, certs, link, scan, samlDoc, samlHist, req, clock,
                   requests, history>>

(***************************************************************************)
(* Specification                                                           *)
(***************************************************************************)
Arrive(w) ==
    \E e \in Endpoints :
        \/ \E net \in NullNet : ResultError(w, e, net)
        \/ \E fp \in Fps, net \in Nets : ResultLeaf(w, e, fp, net)
        \/ SAMLResultError(w, e)
        \/ \E doc \in Docs : SAMLResultDoc(w, e, doc)
        \/ \E fp \in Fps, use \in LinkUses : LinkCertificate(w, e, fp, use)

Serve(w) ==
    \/ IngestLeaf(w)
    \/ BeginRecord(w)
    \/ HoldEndpoint(w)
    \/ CommitRecord(w)
    \/ UpsertSAMLMetadata(w)
    \/ InsertItem(w)
    \/ RollOver(w)
    \/ CommitLink(w)
    \/ SkipCert(w)
    \/ Abandon(w)

Next ==
    \/ \E w \in Workers : Arrive(w) \/ Serve(w)
    \/ \E e \in Endpoints : InsertEndpoint(e) \/ RetypeEndpoint(e) \/ DeleteEndpoint(e)
    \/ \E c \in Fps : RemoveUnreferencedCert(c) \/ PurgeCertificate(c)
    \/ \E cutoff \in 1 .. clock : PurgeScanHistory(cutoff)

Spec == Init /\ [][Next]_vars

(***************************************************************************)
(* Properties                                                              *)
(***************************************************************************)
\* The shape of the state.
TypeOK ==
    /\ endpoint \in [Endpoints -> {"new", "live", "deleted"}]
    /\ certs \subseteq Fps
    /\ link \in [LinkKey -> {"none", "past", "current"}]
    /\ scan \in [Endpoints -> ScanState]
    /\ ledger \subseteq Row
    /\ samlDoc \in [Endpoints -> Docs \cup {NoDoc, NoRow}]
    /\ samlHist \subseteq Endpoints \X Docs
    /\ req \in [Workers -> Request]
    /\ clock \in Nat /\ requests \in Nat
    /\ disturbed \subseteq Endpoints /\ raced \subseteq disturbed
    /\ uploaded \subseteq Endpoints

\* endpoints_store.go, UpsertEndpointCert: "Any previously current cert for the
\* same (endpoint, use) pair is rolled over".  However many results for an
\* endpoint are processed at a time, and whatever was uploaded as its TLS
\* certificate before or after, at most one certificate is current.  (An upload
\* for that use in flight with another request of the endpoint is the exception
\* to the comment: neither sees the other's row, and both stay current until a
\* later result rolls them over.)
OneCurrentTLS ==
    \A e \in Endpoints \ raced : \A f, g \in CurrentFps(e, "tls") : f = g

\* No row of endpoint_certs or of the ledger names a certificate that is gone,
\* and none belongs to an endpoint that is not live: the purge jobs and the
\* deletes race the requests and never strand a reference.
ReferencesAreStored ==
    /\ \A k \in LinkKey : link[k] # "none" =>
          k[2] \in certs /\ endpoint[k[1]] = "live"
    /\ \A r \in ledger : r.fp \in certs \cup {NoFp} /\ endpoint[r.ep] = "live"

\* An endpoint is marked failing exactly when it has an outage start, and the
\* start is not in the future.
OutageHasStart ==
    \A e \in Endpoints :
        IF scan[e].err THEN \E t \in 0 .. clock - 1 : scan[e].since = {t}
        ELSE scan[e].since = {}

\* The newest ledger row of a scanned endpoint, which history purges must
\* spare, is the state the next result is compared with: same error state, and
\* its certificate is the current one, unless an upload has replaced that since
\* the last scan that saw a certificate: uploads write no ledger row.  (Requests
\* of the endpoint one at a time, and no operator purge of a certificate.)
LedgerMatchesLive ==
    \A e \in Endpoints \ disturbed : scan[e].scanned =>
        \E r \in Latest(e) :
            /\ r.err = scan[e].err
            /\ r.fp # NoFp /\ e \notin uploaded => CurrentFps(e, "tls") = {r.fp}

\* Nothing in the ledger says the endpoint was healthy during the outage the
\* endpoint row claims.  (Results one at a time.)
OutageWindowIsClean ==
    \A e \in Endpoints \ disturbed : \A r \in RowsOf(e) :
        (\E t \in scan[e].since : t <= r.at) => r.err

\* endpoints_store.go, scanResultChanged: "Error state transitioned (nil <->
\* non-nil) -> write (healthy->error or recovery)".  The comment makes no
\* exception; the code has one: timestamps and commits of two results that
\* overlap may be in opposite order, and the second is then compared with a row
\* that is not the last one written.  Stated here for results one at a time.
TransitionIsLogged ==
    [][\A e \in Endpoints \ disturbed' :
          (scan[e].scanned /\ scan'[e].scanned /\ scan[e].err # scan'[e].err)
          => \E r \in ledger' \ ledger : r.ep = e /\ r.err = scan'[e].err]_vars

=============================================================================
