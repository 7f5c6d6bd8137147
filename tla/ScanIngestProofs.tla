--------------------------- MODULE ScanIngestProofs ---------------------------
(***************************************************************************)
(* Proofs about ScanIngest, for any number of endpoints, certificates,     *)
(* documents and concurrent requests.                                      *)
(***************************************************************************)
EXTENDS ScanIngest, SequenceTheorems, TLAPS

USE DEF history

(***************************************************************************)
(* Type correctness                                                        *)
(***************************************************************************)
\* Sequences over a set are sequences over a larger one.
LEMMA SeqMonotone ==
    ASSUME NEW S, NEW T, S \subseteq T, NEW s \in Seq(S)
    PROVE  s \in Seq(T)
<1>1. PICK n \in Nat : s \in [1 .. n -> S]
    BY SeqDef
<1>2. s \in [1 .. n -> T]
    BY <1>1
<1>3. QED
    BY <1>2, SeqDef

\* What a request carries at each step: the leaf it is to store, the document
\* it is to archive, the certificates it still has to link.
Fits(r) ==
    /\ r.pc = "ingest" => r.fp \in Fps
    /\ r.pc = "metadata" => r.doc \in Docs
    /\ r.pc \in {"cert", "stored", "rolled"} => r.todo # <<>>

FittingRequest == {r \in Request : Fits(r)}

TypeInv == TypeOK /\ req \in [Workers -> FittingRequest]

\* Idle builds a request, and so does setting the fields of one.
LEMMA IdleType ==
    ASSUME NEW e \in Endpoints
    PROVE  Idle(e) \in FittingRequest
<1>1. <<>> \in Seq(Item)
    OBVIOUS
<1>2. QED
    BY <1>1 DEF Idle, FittingRequest, Fits, Request, NullFp, NullNet, Time

\* The rest of the loop over a document's certificates is a request again.
LEMMA AfterCertType ==
    ASSUME NEW r \in Request
    PROVE  AfterCert(r) \in FittingRequest
<1>1. r.todo \in Seq(Item) /\ r.ep \in Endpoints
    BY DEF Request
<1>2. CASE Len(r.todo) > 1
    <2>1. r.todo # <<>>
        BY <1>1, <1>2
    <2>2. Tail(r.todo) \in Seq(Item) /\ Len(Tail(r.todo)) = Len(r.todo) - 1
        BY <1>1, <2>1
    <2>3. Tail(r.todo) # <<>>
        <3>1. Len(Tail(r.todo)) # 0
            <4> DEFINE n == Len(r.todo)
                       m == Len(Tail(r.todo))
            <4>1. n \in Nat /\ n > 1
                BY <1>1, <1>2
            <4>2. m = n - 1
                BY <2>2
            <4> HIDE DEF m, n
            <4>3. m # 0
                BY <4>1, <4>2
            <4>4. QED
                BY <4>3, Zenon DEF m
        <3>2. Len(<<>>) = 0
            OBVIOUS
        <3>3. QED
            BY <3>1, <3>2, Zenon
    <2>4. QED
        BY <1>2, <2>2, <2>3 DEF AfterCert, FittingRequest, Fits, Request
<1>3. CASE ~(Len(r.todo) > 1)
    BY <1>1, <1>3, IdleType DEF AfterCert
<1>4. QED
    BY <1>2, <1>3

\* The upsert of a link changes no key's type.
LEMMA UpsertType ==
    ASSUME TypeOK, NEW e, NEW fp, NEW use, NEW seen
    PROVE  upsertEndpointCert(e, fp, use, seen)
              \in [LinkKey -> {"none", "past", "current"}]
BY DEF TypeOK, upsertEndpointCert

\* A request arrives with a well-formed record.
LEMMA ArriveType ==
    ASSUME TypeInv, NEW w \in Workers, Arrive(w)
    PROVE  TypeInv'
<1>1. PICK e \in Endpoints :
        \/ \E net \in NullNet : ResultError(w, e, net)
        \/ \E fp \in Fps, net \in Nets : ResultLeaf(w, e, fp, net)
        \/ SAMLResultError(w, e)
        \/ \E doc \in Docs : SAMLResultDoc(w, e, doc)
        \/ \E fp \in Fps, use \in LinkUses : LinkCertificate(w, e, fp, use)
    BY DEF Arrive
<1>2. Idle(e) \in FittingRequest
    BY IdleType
<1>3. ASSUME NEW r \in FittingRequest, Begin(w, r)
      PROVE  TypeInv'
    <2>1. r.ep \in Endpoints
        BY <1>3 DEF FittingRequest, Request
    <2>2. disturbed' \subseteq Endpoints /\ raced' \subseteq disturbed'
        <3>1. disturbed' \in {disturbed, disturbed \cup {r.ep}}
            BY <1>3 DEF Begin
        <3>2. raced' = raced \/ (raced' = raced \cup {r.ep} /\ r.ep \in disturbed')
            BY <1>3 DEF Begin
        <3>3. disturbed \subseteq disturbed'
            BY <3>1
        <3>4. QED
            BY <2>1, <3>1, <3>2, <3>3 DEF TypeInv, TypeOK
    <2>3. req' \in [Workers -> FittingRequest] /\ req' \in [Workers -> Request]
        BY <1>3 DEF TypeInv, TypeOK, Begin, FittingRequest
    <2>4. requests' \in Nat
        BY <1>3 DEF TypeInv, TypeOK, Begin
    <2>5. UNCHANGED <<endpoint, certs, link, scan, ledger, samlDoc, samlHist, clock,
                      uploaded>>
        BY <1>3 DEF Begin
    <2>6. QED
        BY <2>2, <2>3, <2>4, <2>5 DEF TypeInv, TypeOK, FittingRequest
<1>4. CASE \E net \in NullNet : ResultError(w, e, net)
    <2>1. PICK net \in NullNet : ResultError(w, e, net)
        BY <1>4
    <2>2. [Idle(e) EXCEPT !.pc = "record", !.err = TRUE, !.net = net] \in FittingRequest
        BY <1>2 DEF FittingRequest, Fits, Request
    <2>3. QED
        BY <1>3, <2>1, <2>2 DEF ResultError
<1>5. CASE \E fp \in Fps, net \in Nets : ResultLeaf(w, e, fp, net)
    <2>1. PICK fp \in Fps, net \in Nets : ResultLeaf(w, e, fp, net)
        BY <1>5
    <2>2. [Idle(e) EXCEPT !.pc = "ingest", !.fp = fp, !.net = net] \in FittingRequest
        BY <1>2 DEF FittingRequest, Fits, Request, NullFp, NullNet
    <2>3. QED
        BY <1>3, <2>1, <2>2 DEF ResultLeaf
<1>6. CASE SAMLResultError(w, e)
    <2>1. [Idle(e) EXCEPT !.pc = "record", !.err = TRUE] \in FittingRequest
        BY <1>2 DEF FittingRequest, Fits, Request
    <2>2. QED
        BY <1>3, <1>6, <2>1 DEF SAMLResultError
<1>7. CASE \E doc \in Docs : SAMLResultDoc(w, e, doc)
    <2>1. PICK doc \in Docs : SAMLResultDoc(w, e, doc)
        BY <1>7
    <2>2. DocCerts[doc] \in Seq(Item)
        <3>1. DocCerts[doc] \in Seq([fp : Fps, use : {"signing", "encryption"}])
            BY ScanIngestAssumption
        <3>2. [fp : Fps, use : {"signing", "encryption"}] \subseteq Item
            BY DEF Item, Uses
        <3>3. QED
            BY <3>1, <3>2, SeqMonotone
    <2>3. [Idle(e) EXCEPT !.pc = "record", !.doc = doc, !.todo = DocCerts[doc]]
             \in FittingRequest
        BY <1>2, <2>2 DEF FittingRequest, Fits, Request
    <2>4. QED
        BY <1>3, <2>1, <2>3 DEF SAMLResultDoc
<1>8. CASE \E fp \in Fps, use \in LinkUses : LinkCertificate(w, e, fp, use)
    <2>1. PICK fp \in Fps, use \in LinkUses : LinkCertificate(w, e, fp, use)
        BY <1>8
    <2>2. <<[fp |-> fp, use |-> use]>> \in Seq(Item)
        BY ScanIngestAssumption DEF Item
    <2>3. [Idle(e) EXCEPT !.pc = "cert", !.todo = <<[fp |-> fp, use |-> use]>>]
             \in FittingRequest
        BY <1>2, <2>2 DEF FittingRequest, Fits, Request
    <2>4. QED
        BY <1>3, <2>1, <2>3 DEF LinkCertificate
<1>9. QED
    BY <1>1, <1>4, <1>5, <1>6, <1>7, <1>8

\* A step of a request keeps the shape of the state.
LEMMA ServeType ==
    ASSUME TypeInv, NEW w \in Workers, Serve(w)
    PROVE  TypeInv'
<1> DEFINE r == req[w]
<1>1. r \in FittingRequest /\ r \in Request /\ Fits(r) /\ TypeOK
    BY DEF TypeInv, FittingRequest
<1>2. r.ep \in Endpoints /\ r.fp \in NullFp /\ r.net \in NullNet /\ r.err \in BOOLEAN
      /\ r.at \in Nat /\ r.doc \in Docs \cup {NoDoc} /\ r.todo \in Seq(Item)
    BY <1>1 DEF Request, Time
<1>3. Idle(r.ep) \in FittingRequest /\ AfterCert(r) \in FittingRequest
    BY <1>1, <1>2, IdleType, AfterCertType
<1>4. CASE IngestLeaf(w)
    <2>1. certs' \subseteq Fps
        BY <1>1, <1>4 DEF IngestLeaf, TypeOK, Fits
    <2>2. req' \in [Workers -> FittingRequest]
        <3>1. [r EXCEPT !.pc = "record"] \in FittingRequest
            BY <1>1 DEF FittingRequest, Fits, Request
        <3>2. [r EXCEPT !.pc = "record", !.fp = NoFp] \in FittingRequest
            BY <1>1 DEF FittingRequest, Fits, Request, NullFp
        <3>3. \/ req' = [req EXCEPT ![w] = [r EXCEPT !.pc = "record"]]
              \/ req' = [req EXCEPT ![w] = [r EXCEPT !.pc = "record", !.fp = NoFp]]
            BY <1>4 DEF IngestLeaf
        <3>4. QED
            BY <3>1, <3>2, <3>3 DEF TypeInv
    <2>3. QED
        BY <1>4, <2>1, <2>2 DEF IngestLeaf, TypeInv, TypeOK, FittingRequest
<1>5. CASE BeginRecord(w)
    <2>1. req' \in [Workers -> FittingRequest]
        <3>1. [r EXCEPT !.pc = "recording", !.at = clock] \in FittingRequest
            BY <1>1 DEF FittingRequest, Fits, Request, Time, TypeOK
        <3>2. req' = [req EXCEPT ![w] = [r EXCEPT !.pc = "recording", !.at = clock]]
            BY <1>5 DEF BeginRecord
        <3>3. QED
            BY <3>1, <3>2 DEF TypeInv
    <2>2. QED
        BY <1>5, <2>1 DEF BeginRecord, TypeInv, TypeOK, FittingRequest
<1>5a. CASE HoldEndpoint(w)
    <2>1. req' \in [Workers -> FittingRequest]
        <3>1. CurrentFps(r.ep, "tls") \subseteq Fps
            BY DEF CurrentFps
        <3>2. [r EXCEPT !.pc = "holding", !.seen = CurrentFps(r.ep, "tls")]
                 \in FittingRequest
            BY <1>1, <3>1 DEF FittingRequest, Fits, Request
        <3>3. req' = [req EXCEPT ![w] = [r EXCEPT !.pc = "holding",
                                                  !.seen = CurrentFps(r.ep, "tls")]]
            BY <1>5a DEF HoldEndpoint
        <3>4. QED
            BY <3>2, <3>3 DEF TypeInv
    <2>2. QED
        BY <1>5a, <2>1 DEF HoldEndpoint, TypeInv, TypeOK, FittingRequest
<1>6. CASE CommitRecord(w)
    <2>1. req' \in [Workers -> FittingRequest]
        <3>1. r.doc # NoDoc => [r EXCEPT !.pc = "metadata"] \in FittingRequest
            BY <1>1, <1>2 DEF FittingRequest, Fits, Request
        <3>2. QED
            BY <1>3, <1>6, <3>1 DEF CommitRecord, TypeInv
    <2>2. scan' \in [Endpoints -> ScanState]
        <3>1. scan[r.ep] \in ScanState
            BY <1>1, <1>2 DEF TypeOK
        <3>2. OutageStart(scan[r.ep], r.err, r.at) \in SUBSET Time
            BY <1>2, <3>1 DEF OutageStart, ScanState, Time
        <3>3. [scanned |-> TRUE, err |-> r.err,
               since |-> OutageStart(scan[r.ep], r.err, r.at)] \in ScanState
            BY <1>2, <3>2 DEF ScanState
        <3>4. QED
            BY <1>1, <1>2, <1>6, <3>3 DEF CommitRecord, TypeOK
    <2>3. ledger' \subseteq Row
        BY <1>1, <1>2, <1>6 DEF CommitRecord, TypeOK, Row, Time
    <2>4. link' \in [LinkKey -> {"none", "past", "current"}]
        BY <1>1, <1>6, UpsertType DEF CommitRecord, TypeOK
    <2>5. QED
        BY <1>6, <2>1, <2>2, <2>3, <2>4 DEF CommitRecord, TypeInv, TypeOK, FittingRequest
<1>7. CASE UpsertSAMLMetadata(w)
    <2>1. req' \in [Workers -> FittingRequest]
        <3>1. r.todo # <<>> => [r EXCEPT !.pc = "cert"] \in FittingRequest
            BY <1>1, <1>2 DEF FittingRequest, Fits, Request
        <3>2. QED
            BY <1>3, <1>7, <3>1 DEF UpsertSAMLMetadata, TypeInv
    <2>2. r.doc \in Docs
        BY <1>1, <1>7 DEF UpsertSAMLMetadata, Fits
    <2>3. samlDoc' \in [Endpoints -> Docs \cup {NoDoc, NoRow}]
        BY <1>1, <1>2, <1>7 DEF UpsertSAMLMetadata, TypeOK
    <2>4. samlHist' \subseteq Endpoints \X Docs
        BY <1>1, <1>2, <1>7, <2>2 DEF UpsertSAMLMetadata, TypeOK, archived
    <2>5. QED
        BY <1>7, <2>1, <2>3, <2>4 DEF UpsertSAMLMetadata, TypeInv, TypeOK, FittingRequest
<1>8. CASE InsertItem(w)
    <2>1. req' \in [Workers -> FittingRequest]
        BY <1>1, <1>8 DEF InsertItem, TypeInv, FittingRequest, Fits, Request
    <2>2. r.todo[1] \in Item
        BY <1>1, <1>2, <1>8 DEF InsertItem, Fits
    <2>3. certs' \subseteq Fps
        BY <1>1, <1>8, <2>2 DEF InsertItem, TypeOK, Item
    <2>4. QED
        BY <1>1, <1>8, <2>1, <2>3 DEF InsertItem, TypeInv, TypeOK, FittingRequest
<1>9. CASE RollOver(w)
    <2>1. CurrentFps(r.ep, r.todo[1].use) \subseteq Fps
        BY DEF CurrentFps
    <2>2. req' \in [Workers -> FittingRequest]
        BY <1>1, <1>9, <2>1 DEF RollOver, TypeInv, FittingRequest, Fits, Request
    <2>3. QED
        BY <1>9, <2>2 DEF RollOver, TypeInv, TypeOK, FittingRequest
<1>10. CASE CommitLink(w)
    <2>1. req' \in [Workers -> FittingRequest]
        BY <1>3, <1>10 DEF CommitLink, TypeInv
    <2>2. link' \in [LinkKey -> {"none", "past", "current"}]
        BY <1>1, <1>10, UpsertType DEF CommitLink
    <2>3. uploaded' \subseteq Endpoints
        BY <1>1, <1>2, <1>10 DEF CommitLink, TypeOK
    <2>4. QED
        BY <1>10, <2>1, <2>2, <2>3 DEF CommitLink, TypeInv, TypeOK, FittingRequest
<1>11. CASE SkipCert(w) \/ Abandon(w)
    BY <1>3, <1>11 DEF SkipCert, Abandon, TypeInv, TypeOK, FittingRequest
<1>12. QED
    BY <1>4, <1>5, <1>5a, <1>6, <1>7, <1>8, <1>9, <1>10, <1>11 DEF Serve

\* Every action keeps the shape of the state.
LEMMA TypeStep == TypeInv /\ [Next]_vars => TypeInv'
<1> SUFFICES ASSUME TypeInv, [Next]_vars PROVE TypeInv'
    OBVIOUS
<1>1. ASSUME NEW w \in Workers, Arrive(w) \/ Serve(w) PROVE TypeInv'
    BY <1>1, ArriveType, ServeType
<1>2. ASSUME NEW e \in Endpoints, InsertEndpoint(e) PROVE TypeInv'
    BY <1>2 DEF InsertEndpoint, TypeInv, TypeOK
<1>2a. ASSUME NEW e \in Endpoints, RetypeEndpoint(e) PROVE TypeInv'
    BY <1>2a DEF RetypeEndpoint, TypeInv, TypeOK
<1>3. ASSUME NEW e \in Endpoints, DeleteEndpoint(e) PROVE TypeInv'
    <2>1. scan' \in [Endpoints -> ScanState]
        BY <1>3 DEF DeleteEndpoint, TypeInv, TypeOK, ScanState, Unscanned
    <2>2. link' \in [LinkKey -> {"none", "past", "current"}]
        BY <1>3 DEF DeleteEndpoint, TypeInv, TypeOK
    <2>3. QED
        BY <1>3, <2>1, <2>2 DEF DeleteEndpoint, TypeInv, TypeOK
<1>4. ASSUME NEW c \in Fps, RemoveUnreferencedCert(c) \/ PurgeCertificate(c)
      PROVE  TypeInv'
    BY <1>4 DEF RemoveUnreferencedCert, PurgeCertificate, TypeInv, TypeOK
<1>5. ASSUME NEW cutoff, PurgeScanHistory(cutoff) PROVE TypeInv'
    BY <1>5 DEF PurgeScanHistory, TypeInv, TypeOK
<1>6. CASE UNCHANGED vars
    BY <1>6 DEF vars, TypeInv, TypeOK
<1>7. QED
    BY <1>1, <1>2, <1>2a, <1>3, <1>4, <1>5, <1>6 DEF Next

\* Before the first request.
LEMMA TypeInit == Init => TypeInv
<1> SUFFICES ASSUME Init PROVE TypeInv
    OBVIOUS
<1>1. req \in [Workers -> FittingRequest]
    <2>1. PICK e \in Endpoints : req = [w \in Workers |-> Idle(e)]
        BY DEF Init
    <2>2. QED
        BY <2>1, IdleType
<1>2. scan \in [Endpoints -> ScanState]
    BY DEF Init, ScanState, Unscanned
<1>3. QED
    BY <1>1, <1>2 DEF Init, TypeInv, TypeOK, FittingRequest

\* The state of the ingest handlers and tables is always well typed.
THEOREM ScanIngestTypeCorrect == Spec => []TypeOK
<1>1. TypeInv => TypeOK
    BY DEF TypeInv
<1>2. QED
    BY <1>1, TypeInit, TypeStep, PTL DEF Spec

(***************************************************************************)
(* No stranded reference                                                   *)
(***************************************************************************)
\* The upsert changes the keys of one (endpoint, use) pair only; a key it adds
\* is the one it was called for.
LEMMA UpsertAdds ==
    ASSUME NEW e, NEW fp, NEW use, NEW seen, NEW k \in LinkKey,
           upsertEndpointCert(e, fp, use, seen)[k] # "none"
    PROVE  link[k] # "none" \/ k = <<e, fp, use>>
BY DEF upsertEndpointCert

\* Every action keeps references valid: the inserts check them (foreign keys)
\* at their commit, and what removes a row removes or respects its references.
LEMMA ReferencesStep ==
    ASSUME TypeInv, ReferencesAreStored, [Next]_vars
    PROVE  ReferencesAreStored'
<1>1. ASSUME NEW w \in Workers, Arrive(w) PROVE ReferencesAreStored'
    <2>1. \A r : Begin(w, r) => UNCHANGED <<endpoint, certs, link, ledger>>
        BY DEF Begin
    <2>2. UNCHANGED <<endpoint, certs, link, ledger>>
        BY <1>1, <2>1 DEF Arrive, ResultError, ResultLeaf, SAMLResultError,
                          SAMLResultDoc, LinkCertificate
    <2>3. QED
        BY <2>2 DEF ReferencesAreStored
<1>2. ASSUME NEW w \in Workers, CommitRecord(w) PROVE ReferencesAreStored'
    <2> DEFINE r == req[w]
    <2>1. endpoint[r.ep] = "live" /\ r.fp \in certs \cup {NoFp}
          /\ UNCHANGED <<endpoint, certs>>
        BY <1>2 DEF CommitRecord
    <2>2. ASSUME NEW k \in LinkKey, link'[k] # "none"
          PROVE  k[2] \in certs /\ endpoint[k[1]] = "live"
        <3>1. CASE link[k] # "none"
            BY <3>1 DEF ReferencesAreStored
        <3>2. CASE r.fp # NoFp /\ k = <<r.ep, r.fp, "tls">>
            BY <2>1, <3>2
        <3>3. QED
            BY <1>2, <2>2, <3>1, <3>2, UpsertAdds DEF CommitRecord
    <2>3. ASSUME NEW q \in ledger'
          PROVE  q.fp \in certs \cup {NoFp} /\ endpoint[q.ep] = "live"
        BY <1>2, <2>1, <2>3 DEF CommitRecord, ReferencesAreStored
    <2>4. QED
        BY <2>1, <2>2, <2>3 DEF ReferencesAreStored
<1>3. ASSUME NEW w \in Workers, CommitLink(w) PROVE ReferencesAreStored'
    <2> DEFINE r == req[w]
    <2>1. endpoint[r.ep] = "live" /\ r.todo[1].fp \in certs
          /\ UNCHANGED <<endpoint, certs, ledger>>
        BY <1>3 DEF CommitLink
    <2>2. ASSUME NEW k \in LinkKey, link'[k] # "none"
          PROVE  k[2] \in certs /\ endpoint[k[1]] = "live"
        <3>1. CASE link[k] # "none"
            BY <3>1 DEF ReferencesAreStored
        <3>2. CASE k = <<r.ep, r.todo[1].fp, r.todo[1].use>>
            BY <2>1, <3>2
        <3>3. QED
            BY <1>3, <2>2, <3>1, <3>2, UpsertAdds DEF CommitLink
    <2>3. QED
        BY <2>1, <2>2 DEF ReferencesAreStored
<1>4. ASSUME NEW w \in Workers,
             \/ IngestLeaf(w) \/ BeginRecord(w) \/ HoldEndpoint(w)
             \/ UpsertSAMLMetadata(w) \/ InsertItem(w) \/ RollOver(w) \/ SkipCert(w)
             \/ Abandon(w)
      PROVE  ReferencesAreStored'
    <2>1. certs \subseteq certs' /\ UNCHANGED <<endpoint, link, ledger>>
        BY <1>4 DEF IngestLeaf, BeginRecord, HoldEndpoint, UpsertSAMLMetadata,
                    InsertItem, RollOver, SkipCert, Abandon
    <2>2. QED
        BY <2>1 DEF ReferencesAreStored
<1>5. ASSUME NEW e \in Endpoints, InsertEndpoint(e) PROVE ReferencesAreStored'
    BY <1>5 DEF InsertEndpoint, ReferencesAreStored, TypeInv, TypeOK
<1>6. ASSUME NEW e \in Endpoints, DeleteEndpoint(e) PROVE ReferencesAreStored'
    <2>1. \A f \in Endpoints : f # e => endpoint'[f] = endpoint[f]
        BY <1>6 DEF DeleteEndpoint, TypeInv, TypeOK
    <2>2. ASSUME NEW k \in LinkKey, link'[k] # "none"
          PROVE  k[2] \in certs /\ endpoint'[k[1]] = "live"
        <3>1. k[1] # e /\ link[k] # "none" /\ k[1] \in Endpoints
            BY <1>6, <2>2 DEF DeleteEndpoint, LinkKey
        <3>2. QED
            BY <2>1, <3>1 DEF ReferencesAreStored
    <2>3. ASSUME NEW q \in ledger'
          PROVE  q.fp \in certs \cup {NoFp} /\ endpoint'[q.ep] = "live"
        <3>1. q \in ledger /\ q.ep # e
            BY <1>6, <2>3 DEF DeleteEndpoint, RowsOf
        <3>2. q.ep \in Endpoints
            BY <3>1 DEF TypeInv, TypeOK, Row
        <3>3. QED
            BY <2>1, <3>1, <3>2 DEF ReferencesAreStored
    <2>4. QED
        BY <1>6, <2>2, <2>3 DEF DeleteEndpoint, ReferencesAreStored
<1>7. ASSUME NEW c \in Fps, RemoveUnreferencedCert(c) PROVE ReferencesAreStored'
    <2>1. ASSUME NEW k \in LinkKey, link[k] # "none" PROVE k[2] # c
        <3>1. k[1] \in Endpoints /\ k[3] \in Uses /\ k = <<k[1], k[2], k[3]>>
            BY DEF LinkKey
        <3>2. QED
            BY <1>7, <2>1, <3>1 DEF RemoveUnreferencedCert, Referenced
    <2>2. QED
        BY <1>7, <2>1 DEF RemoveUnreferencedCert, Referenced, ReferencesAreStored
<1>8. ASSUME NEW c \in Fps, PurgeCertificate(c) PROVE ReferencesAreStored'
    BY <1>8 DEF PurgeCertificate, ReferencesAreStored
<1>9. ASSUME NEW cutoff, PurgeScanHistory(cutoff) PROVE ReferencesAreStored'
    BY <1>9 DEF PurgeScanHistory, ReferencesAreStored
<1>10. CASE UNCHANGED vars \/ \E e \in Endpoints : RetypeEndpoint(e)
    BY <1>10 DEF RetypeEndpoint, vars, ReferencesAreStored
<1>11. QED
    BY <1>1, <1>2, <1>3, <1>4, <1>5, <1>6, <1>7, <1>8, <1>9, <1>10 DEF Next, Serve

\* Whatever requests, deletes and purge jobs run at a time, no link and no
\* ledger row names a certificate or an endpoint that is gone.
THEOREM NoStrandedReference == Spec => []ReferencesAreStored
<1>1. Init => ReferencesAreStored
    BY DEF Init, ReferencesAreStored
<1>2. TypeInv /\ ReferencesAreStored /\ [Next]_vars => ReferencesAreStored'
    BY ReferencesStep
<1>3. QED
    BY <1>1, <1>2, TypeInit, TypeStep, PTL DEF Spec

(***************************************************************************)
(* Outages                                                                 *)
(***************************************************************************)
\* A transaction's timestamp is drawn before the clock moves on.
StampsArePast ==
    \A w \in Workers : req[w].pc \in {"recording", "holding"} => req[w].at < clock

OutageInv == StampsArePast /\ OutageHasStart

\* The live scan state after a result, from the state before.
LEMMA OutageStartFits ==
    ASSUME NEW s \in ScanState, NEW err \in BOOLEAN, NEW at \in Nat, at < clock,
           clock \in Nat,
           IF s.err THEN \E t \in 0 .. clock - 1 : s.since = {t} ELSE s.since = {}
    PROVE  IF err THEN \E t \in 0 .. clock - 1 : OutageStart(s, err, at) = {t}
           ELSE OutageStart(s, err, at) = {}
<1>1. at \in 0 .. clock - 1
    OBVIOUS
<1>2. QED
    BY <1>1 DEF OutageStart

\* Every action keeps the outage start consistent.
LEMMA OutageStep ==
    ASSUME TypeInv, OutageInv, [Next]_vars
    PROVE  OutageInv'
<1> USE DEF OutageInv
<1>0. TypeOK /\ clock \in Nat
    BY DEF TypeInv, TypeOK
<1>1. ASSUME NEW w \in Workers, NEW r, r.pc \notin {"recording", "holding"}, Begin(w, r)
      PROVE  OutageInv'
    BY <1>0, <1>1 DEF Begin, TypeOK, StampsArePast, OutageHasStart
<1>2. ASSUME NEW w \in Workers, Arrive(w) PROVE OutageInv'
    BY <1>1, <1>2 DEF Arrive, ResultError, ResultLeaf, SAMLResultError,
                      SAMLResultDoc, LinkCertificate, Idle
<1>3. ASSUME NEW w \in Workers, BeginRecord(w) PROVE OutageInv'
    <2>1. StampsArePast'
        BY <1>0, <1>3 DEF BeginRecord, TypeOK, Request, Time, StampsArePast
    <2>2. OutageHasStart'
        BY <1>0, <1>3 DEF BeginRecord, OutageHasStart
    <2>3. QED
        BY <2>1, <2>2
<1>4. ASSUME NEW w \in Workers, CommitRecord(w) PROVE OutageInv'
    <2> DEFINE r == req[w]
    <2>1. r \in Request /\ r.ep \in Endpoints /\ r.err \in BOOLEAN /\ r.at \in Nat
          /\ r.at < clock /\ scan[r.ep] \in ScanState
        BY <1>0, <1>4 DEF CommitRecord, TypeOK, Request, Time, StampsArePast
    <2>2. scan' = [scan EXCEPT ![r.ep] =
                     [scanned |-> TRUE, err |-> r.err,
                      since |-> OutageStart(scan[r.ep], r.err, r.at)]]
          /\ clock' = clock
        BY <1>4 DEF CommitRecord
    <2>3. OutageHasStart'
        <3> HIDE DEF r
        <3> SUFFICES ASSUME NEW e \in Endpoints
                     PROVE  IF scan'[e].err
                            THEN \E t \in 0 .. clock - 1 : scan'[e].since = {t}
                            ELSE scan'[e].since = {}
            BY <2>2 DEF OutageHasStart
        <3>1. CASE e = r.ep
            <4>1. scan'[e].err = r.err
                  /\ scan'[e].since = OutageStart(scan[e], r.err, r.at)
                BY <1>0, <2>1, <2>2, <3>1 DEF TypeOK
            <4>2. QED
                BY <1>0, <2>1, <3>1, <4>1, OutageStartFits DEF OutageHasStart
        <3>2. CASE e # r.ep
            BY <1>0, <2>2, <3>2 DEF TypeOK, OutageHasStart
        <3>3. QED
            BY <3>1, <3>2
    <2>4. StampsArePast'
        BY <1>0, <1>4 DEF CommitRecord, TypeOK, StampsArePast, Idle
    <2>5. QED
        BY <2>3, <2>4
<1>4a. ASSUME NEW w \in Workers, HoldEndpoint(w) PROVE OutageInv'
    <2>1. req[w].pc = "recording" /\ req'[w].at = req[w].at
        BY <1>0, <1>4a DEF HoldEndpoint, TypeOK, Request
    <2>2. \A v \in Workers : v # w => req'[v] = req[v]
        BY <1>0, <1>4a DEF HoldEndpoint, TypeOK
    <2>3. UNCHANGED <<scan, clock>>
        BY <1>4a DEF HoldEndpoint
    <2>4. QED
        BY <2>1, <2>2, <2>3 DEF StampsArePast, OutageHasStart
<1>5. ASSUME NEW w \in Workers,
             \/ IngestLeaf(w) \/ UpsertSAMLMetadata(w) \/ InsertItem(w)
             \/ RollOver(w) \/ CommitLink(w) \/ SkipCert(w) \/ Abandon(w)
      PROVE  OutageInv'
    <2>1. UNCHANGED <<scan, clock>>
        BY <1>5 DEF IngestLeaf, UpsertSAMLMetadata, InsertItem, RollOver,
                    CommitLink, SkipCert, Abandon
    <2>2. \A v \in Workers : req'[v].pc \in {"recording", "holding"} => req'[v] = req[v]
        <3>1. \A v \in Workers : v # w => req'[v] = req[v]
            BY <1>0, <1>5 DEF TypeOK, IngestLeaf, UpsertSAMLMetadata, InsertItem,
                              RollOver, CommitLink, SkipCert, Abandon
        <3>2. CASE IngestLeaf(w) \/ InsertItem(w) \/ RollOver(w)
            BY <1>0, <3>1, <3>2 DEF TypeOK, Request, IngestLeaf, InsertItem, RollOver
        <3>3. CASE UpsertSAMLMetadata(w)
            BY <1>0, <3>1, <3>3 DEF TypeOK, Request, UpsertSAMLMetadata, Idle
        <3>4. CASE CommitLink(w) \/ SkipCert(w) \/ Abandon(w)
            <4>1. req'[w] \in {AfterCert(req[w]), Idle(req[w].ep)}
                BY <1>0, <3>4 DEF TypeOK, CommitLink, SkipCert, Abandon
            <4>2. req[w] \in Request
                BY <1>0 DEF TypeOK
            <4>3. /\ AfterCert(req[w]).pc \notin {"recording", "holding"}
                  /\ Idle(req[w].ep).pc \notin {"recording", "holding"}
                BY <4>2 DEF AfterCert, Idle, Request
            <4>4. QED
                BY <3>1, <4>1, <4>3
        <3>5. QED
            BY <1>5, <3>2, <3>3, <3>4
    <2>3. QED
        BY <2>1, <2>2 DEF StampsArePast, OutageHasStart
<1>6. ASSUME NEW e \in Endpoints, DeleteEndpoint(e) PROVE OutageInv'
    BY <1>0, <1>6 DEF DeleteEndpoint, TypeOK, StampsArePast, OutageHasStart,
                      Unscanned
<1>7. CASE \/ \E e \in Endpoints : InsertEndpoint(e) \/ RetypeEndpoint(e)
           \/ \E c \in Fps : RemoveUnreferencedCert(c) \/ PurgeCertificate(c)
           \/ \E cutoff \in 1 .. clock : PurgeScanHistory(cutoff)
           \/ UNCHANGED vars
    BY <1>7 DEF InsertEndpoint, RetypeEndpoint, RemoveUnreferencedCert, PurgeCertificate,
                PurgeScanHistory, vars, StampsArePast, OutageHasStart
<1>8. QED
    BY <1>2, <1>3, <1>4, <1>4a, <1>5, <1>6, <1>7 DEF Next, Serve

\* However results race, an endpoint is marked failing exactly when it has an
\* outage start, and that start lies in the past.
THEOREM OutageStartIsConsistent == Spec => []OutageHasStart
<1>1. Init => OutageInv
    BY DEF Init, OutageInv, StampsArePast, OutageHasStart, Idle, Unscanned
<1>2. TypeInv /\ OutageInv /\ [Next]_vars => OutageInv'
    BY OutageStep
<1>3. OutageInv => OutageHasStart
    BY DEF OutageInv
<1>4. QED
    BY <1>1, <1>2, <1>3, TypeInit, TypeStep, PTL DEF Spec

(***************************************************************************)
(* The requests of an endpoint                                             *)
(***************************************************************************)
\* A step of a request is its own: it leaves the other requests alone, and its
\* endpoint is the one it came with.
LEMMA ServeShape ==
    ASSUME TypeInv, NEW w \in Workers, Serve(w)
    PROVE  /\ req[w].pc # "idle"
           /\ \A v \in Workers : v # w => req'[v] = req[v]
           /\ req'[w].ep = req[w].ep
           /\ req'[w].pc = "recording" => BeginRecord(w)
           /\ req'[w].pc = "holding" => HoldEndpoint(w)
           /\ req'[w].pc = "rolled" => RollOver(w)
           /\ disturbed' = disturbed /\ raced' = raced
<1> DEFINE r == req[w]
<1>0. req \in [Workers -> Request] /\ r \in Request
    BY DEF TypeInv, TypeOK
<1>1. AfterCert(r).ep = r.ep /\ AfterCert(r).pc \in {"cert", "idle"}
      /\ Idle(r.ep).ep = r.ep /\ Idle(r.ep).pc = "idle"
    BY <1>0 DEF AfterCert, Idle, Request
<1>2. CASE IngestLeaf(w) \/ BeginRecord(w) \/ InsertItem(w)
    BY <1>0, <1>2 DEF IngestLeaf, BeginRecord, InsertItem, Request
<1>3. CASE HoldEndpoint(w) \/ RollOver(w)
    BY <1>0, <1>3 DEF HoldEndpoint, RollOver, Request
<1>4. CASE CommitRecord(w) \/ UpsertSAMLMetadata(w)
    BY <1>0, <1>1, <1>4 DEF CommitRecord, UpsertSAMLMetadata, Request
<1>5. CASE CommitLink(w) \/ SkipCert(w) \/ Abandon(w)
    BY <1>0, <1>1, <1>5 DEF CommitLink, SkipCert, Abandon
<1>6. QED
    BY <1>2, <1>3, <1>4, <1>5 DEF Serve

\* An arriving request, seen from one endpoint.
LEMMA ArriveShape ==
    ASSUME TypeInv, NEW w \in Workers, Arrive(w)
    PROVE  /\ UNCHANGED <<scan, ledger, clock, link, uploaded>>
           /\ \A v \in Workers : v # w => req'[v] = req[v]
           /\ req[w].pc = "idle"
           /\ req'[w].pc \notin {"recording", "holding", "rolled"}
           /\ disturbed \subseteq disturbed' /\ raced \subseteq raced'
           /\ \A v \in Workers : Serves(v, req'[w].ep) =>
                 /\ req'[w].ep \in disturbed'
                 /\ TLSUpload(req'[w]) \/ TLSUpload(req[v]) => req'[w].ep \in raced'
<1>1. ASSUME NEW r, r.pc \notin {"recording", "holding", "rolled"}, Begin(w, r)
      PROVE  /\ UNCHANGED <<scan, ledger, clock, link, uploaded>>
             /\ \A v \in Workers : v # w => req'[v] = req[v]
             /\ req[w].pc = "idle"
             /\ req'[w].pc \notin {"recording", "holding", "rolled"}
             /\ disturbed \subseteq disturbed' /\ raced \subseteq raced'
             /\ \A v \in Workers : Serves(v, req'[w].ep) =>
                   /\ req'[w].ep \in disturbed'
                   /\ TLSUpload(req'[w]) \/ TLSUpload(req[v]) => req'[w].ep \in raced'
    <2>1. req'[w] = r /\ \A v \in Workers : v # w => req'[v] = req[v]
        BY <1>1 DEF Begin, TypeInv, TypeOK
    <2> DEFINE others == {v \in Workers : Serves(v, r.ep)}
    <2>2. /\ disturbed' = IF others # {} THEN disturbed \cup {r.ep} ELSE disturbed
          /\ raced' = IF \E v \in others : TLSUpload(r) \/ TLSUpload(req[v])
                      THEN raced \cup {r.ep} ELSE raced
          /\ req[w].pc = "idle"
          /\ UNCHANGED <<scan, ledger, clock, link, uploaded>>
        BY <1>1 DEF Begin
    <2>3. \A v \in Workers : Serves(v, r.ep) => v \in others
        OBVIOUS
    <2> HIDE DEF others
    <2>4. QED
        BY <1>1, <2>1, <2>2, <2>3
<1>2. QED
    BY <1>1 DEF Arrive, ResultError, ResultLeaf, SAMLResultError, SAMLResultDoc,
                LinkCertificate, Idle

(***************************************************************************)
(* One current TLS certificate                                             *)
(***************************************************************************)
OtherItem == [fp : Fps, use : Uses \ {"tls"}]

\* A document's certificates are never for the use "tls": a request that links
\* one without the lock is an upload, and has that one only.
UploadsAlone == \A w \in Workers : \/ req[w].todo \in Seq(OtherItem)
                                   \/ Len(req[w].todo) = 1

LEMMA OtherIsNoUpload ==
    ASSUME NEW r, r.todo \in Seq(OtherItem)
    PROVE  ~TLSUpload(r)
<1>1. r.todo # <<>> => r.todo[1] \in OtherItem
    OBVIOUS
<1>2. QED
    BY <1>1 DEF TLSUpload, OtherItem

\* Requests arrive with the items of one kind.
LEMMA ArriveAlone ==
    ASSUME TypeInv, UploadsAlone, NEW w \in Workers, Arrive(w)
    PROVE  UploadsAlone'
<1>0. req \in [Workers -> Request] /\ <<>> \in Seq(OtherItem)
    BY DEF TypeInv, TypeOK
<1>1. ASSUME NEW r, r.todo \in Seq(OtherItem) \/ Len(r.todo) = 1, Begin(w, r)
      PROVE  UploadsAlone'
    BY <1>0, <1>1 DEF Begin, UploadsAlone
<1>2. PICK e \in Endpoints :
        \/ \E net \in NullNet : ResultError(w, e, net)
        \/ \E fp \in Fps, net \in Nets : ResultLeaf(w, e, fp, net)
        \/ SAMLResultError(w, e)
        \/ \E doc \in Docs : SAMLResultDoc(w, e, doc)
        \/ \E fp \in Fps, use \in LinkUses : LinkCertificate(w, e, fp, use)
    BY DEF Arrive
<1>3. CASE \/ \E net \in NullNet : ResultError(w, e, net)
           \/ \E fp \in Fps, net \in Nets : ResultLeaf(w, e, fp, net)
           \/ SAMLResultError(w, e)
    BY <1>0, <1>1, <1>3 DEF ResultError, ResultLeaf, SAMLResultError, Idle
<1>4. CASE \E doc \in Docs : SAMLResultDoc(w, e, doc)
    <2>1. PICK doc \in Docs : SAMLResultDoc(w, e, doc)
        BY <1>4
    <2>2. DocCerts[doc] \in Seq([fp : Fps, use : {"signing", "encryption"}])
        BY ScanIngestAssumption
    <2>3. [fp : Fps, use : {"signing", "encryption"}] \subseteq OtherItem
        BY DEF OtherItem, Uses
    <2>4. DocCerts[doc] \in Seq(OtherItem)
        BY <2>2, <2>3, SeqMonotone
    <2>5. QED
        BY <1>1, <2>1, <2>4 DEF SAMLResultDoc, Idle
<1>5. CASE \E fp \in Fps, use \in LinkUses : LinkCertificate(w, e, fp, use)
    <2>1. PICK fp \in Fps, use \in LinkUses : LinkCertificate(w, e, fp, use)
        BY <1>5
    <2>2. Len(<<[fp |-> fp, use |-> use]>>) = 1
        OBVIOUS
    <2>3. QED
        BY <1>1, <2>1, <2>2 DEF LinkCertificate, Idle
<1>6. QED
    BY <1>2, <1>3, <1>4, <1>5

\* What is left of a document's certificates is never for the use "tls".
LEMMA AfterCertOther ==
    ASSUME NEW r \in Request, r.todo \in Seq(OtherItem) \/ Len(r.todo) = 1
    PROVE  AfterCert(r).todo \in Seq(OtherItem)
<1>1. r.todo \in Seq(Item) /\ <<>> \in Seq(OtherItem)
    BY DEF Request
<1>2. CASE Len(r.todo) > 1
    <2>1. r.todo \in Seq(OtherItem)
        <3>1. ~(1 > 1)
            OBVIOUS
        <3>2. QED
            BY <1>2, <3>1, Zenon
    <2>2. r.todo # <<>>
        <3>1. Len(<<>>) = 0
            OBVIOUS
        <3>2. ~(0 > 1)
            OBVIOUS
        <3>3. QED
            BY <1>2, <3>1, <3>2, Zenon
    <2>3. Tail(r.todo) \in Seq(OtherItem)
        BY <2>1, <2>2
    <2>4. AfterCert(r).todo = Tail(r.todo)
        BY <1>2 DEF AfterCert, Request
    <2>5. QED
        BY <2>3, <2>4
<1>3. CASE ~(Len(r.todo) > 1)
    BY <1>1, <1>3 DEF AfterCert, Idle
<1>4. QED
    BY <1>2, <1>3

\* A request that is served does not become an upload.
LEMMA ServeAlone ==
    ASSUME TypeInv, UploadsAlone, NEW w \in Workers, Serve(w)
    PROVE  UploadsAlone' /\ (TLSUpload(req'[w]) => TLSUpload(req[w]))
<1> DEFINE r == req[w]
           s == req'[w]
<1>0. req \in [Workers -> Request] /\ r \in Request /\ r.todo \in Seq(Item)
      /\ (r.todo \in Seq(OtherItem) \/ Len(r.todo) = 1) /\ <<>> \in Seq(OtherItem)
    BY DEF TypeInv, TypeOK, Request, UploadsAlone
<1>1. AfterCert(r).todo \in Seq(OtherItem) /\ Idle(r.ep).todo \in Seq(OtherItem)
    BY <1>0, AfterCertOther DEF Idle
<1>2. s.todo = r.todo \/ s.todo \in Seq(OtherItem)
    <2>1. CASE \/ IngestLeaf(w) \/ BeginRecord(w) \/ HoldEndpoint(w) \/ InsertItem(w)
               \/ RollOver(w)
        BY <1>0, <2>1 DEF IngestLeaf, BeginRecord, HoldEndpoint, InsertItem, RollOver,
                          Request
    <2>2. CASE CommitRecord(w) \/ UpsertSAMLMetadata(w)
        BY <1>0, <1>1, <2>2 DEF CommitRecord, UpsertSAMLMetadata, Request
    <2>3. CASE CommitLink(w) \/ SkipCert(w) \/ Abandon(w)
        BY <1>0, <1>1, <2>3 DEF CommitLink, SkipCert, Abandon
    <2>4. QED
        BY <2>1, <2>2, <2>3 DEF Serve
<1>3. UploadsAlone'
    <2>1. \A v \in Workers : v # w => req'[v] = req[v]
        BY ServeShape
    <2>2. s.todo \in Seq(OtherItem) \/ Len(s.todo) = 1
        BY <1>0, <1>2
    <2>3. QED
        BY <2>1, <2>2 DEF UploadsAlone
<1>4. TLSUpload(s) => TLSUpload(r)
    <2>1. CASE s.todo = r.todo
        BY <2>1 DEF TLSUpload
    <2>2. CASE s.todo \in Seq(OtherItem)
        BY <2>2, OtherIsNoUpload
    <2>3. QED
        BY <1>2, <2>1, <2>2
<1>5. QED
    BY <1>3, <1>4

\* Where no upload raced: it is the only request of its endpoint.
UploadIsSole ==
    \A e \in Endpoints \ raced, v, w \in Workers :
        Serves(v, e) /\ Serves(w, e) /\ TLSUpload(req[v]) => v = w

\* One transaction at a time holds the row of an endpoint.
LockIsExclusive ==
    \A v, w \in Workers :
        req[v].pc = "holding" /\ req[w].pc = "holding" /\ req[v].ep = req[w].ep
        => v = w

\* A request about to write a TLS link has seen the ones to roll over.
WritesTLS(w) ==
    req[w].pc = "holding" \/ (req[w].pc = "rolled" /\ TLSUpload(req[w]))

SeesCurrent ==
    \A e \in Endpoints \ raced, w \in Workers :
        WritesTLS(w) /\ req[w].ep = e => CurrentFps(e, "tls") \subseteq req[w].seen

RaceInv == UploadsAlone /\ UploadIsSole /\ LockIsExclusive

TLSInv == RaceInv /\ SeesCurrent /\ OneCurrentTLS

\* Every action keeps uploads and scan transactions apart.
LEMMA RaceStep ==
    ASSUME TypeInv, RaceInv, [Next]_vars
    PROVE  RaceInv'
<1> USE DEF RaceInv
<1>1. ASSUME NEW w \in Workers, Arrive(w) PROVE RaceInv'
    <2>1. UploadsAlone'
        BY <1>1, ArriveAlone
    <2>2. UploadIsSole'
        <3> SUFFICES ASSUME NEW e \in Endpoints, e \notin raced', NEW u \in Workers,
                            NEW v \in Workers, Serves(u, e)', Serves(v, e)',
                            TLSUpload(req'[u])
                     PROVE  u = v
            BY DEF UploadIsSole
        <3>1. e \notin raced
            BY <1>1, ArriveShape
        <3>2. CASE u # w /\ v # w
            BY <1>1, <3>1, <3>2, ArriveShape DEF UploadIsSole, Serves
        <3>3. CASE u = w /\ v # w
            BY <1>1, <3>3, ArriveShape DEF Serves
        <3>4. CASE u # w /\ v = w
            BY <1>1, <3>4, ArriveShape DEF Serves
        <3>5. QED
            BY <3>2, <3>3, <3>4
    <2>3. LockIsExclusive'
        BY <1>1, ArriveShape DEF LockIsExclusive
    <2>4. QED
        BY <2>1, <2>2, <2>3
<1>2. ASSUME NEW w \in Workers, Serve(w) PROVE RaceInv'
    <2>1. UploadsAlone' /\ (TLSUpload(req'[w]) => TLSUpload(req[w]))
        BY <1>2, ServeAlone
    <2>2. UploadIsSole'
        <3>1. \A v \in Workers, e \in Endpoints : Serves(v, e)' => Serves(v, e)
            BY <1>2, ServeShape DEF Serves
        <3>2. \A v \in Workers : TLSUpload(req'[v]) => TLSUpload(req[v])
            BY <1>2, <2>1, ServeShape
        <3>3. QED
            BY <1>2, <3>1, <3>2, ServeShape DEF UploadIsSole
    <2>3. LockIsExclusive'
        <3>1. CASE HoldEndpoint(w)
            <4>1. \A v \in Workers : v # w => ~(req[v].pc = "holding"
                                                /\ req[v].ep = req[w].ep)
                BY <3>1 DEF HoldEndpoint, Held
            <4>2. QED
                BY <1>2, <4>1, ServeShape DEF LockIsExclusive
        <3>2. CASE ~HoldEndpoint(w)
            BY <1>2, <3>2, ServeShape DEF LockIsExclusive
        <3>3. QED
            BY <3>1, <3>2
    <2>4. QED
        BY <2>1, <2>2, <2>3
<1>3. CASE UNCHANGED <<req, raced>>
    BY <1>3 DEF UploadsAlone, UploadIsSole, LockIsExclusive, Serves
<1>4. QED
    BY <1>1, <1>2, <1>3 DEF Next, InsertEndpoint, RetypeEndpoint, DeleteEndpoint,
          RemoveUnreferencedCert, PurgeCertificate, PurgeScanHistory, vars

\* An upsert that has seen the current links leaves one current.
LEMMA TLSLinkIs ==
    ASSUME TypeOK, NEW e \in Endpoints, NEW fp \in Fps, NEW seen,
           CurrentFps(e, "tls") \subseteq seen,
           link' = upsertEndpointCert(e, fp, "tls", seen)
    PROVE  CurrentFps(e, "tls")' = {fp}
<1>1. \A f \in Fps : link'[<<e, f, "tls">>] = "current" <=> f = fp
    <2> SUFFICES ASSUME NEW f \in Fps
                 PROVE  link'[<<e, f, "tls">>] = "current" <=> f = fp
        OBVIOUS
    <2> DEFINE k == <<e, f, "tls">>
    <2>1. k \in LinkKey /\ k[1] = e /\ k[2] = f /\ k[3] = "tls"
        BY DEF LinkKey, Uses
    <2>2. link[k] = "current" => f \in seen
        BY DEF CurrentFps
    <2>3. k = <<e, fp, "tls">> <=> f = fp
        OBVIOUS
    <2> HIDE DEF k
    <2>4. link'[k] = IF k = <<e, fp, "tls">> THEN "current"
                     ELSE IF k[1] = e /\ k[3] = "tls" /\ k[2] \in seen
                             /\ link[k] = "current" THEN "past"
                     ELSE link[k]
        BY <2>1 DEF upsertEndpointCert
    <2>5. link'[k] = "current" <=> f = fp
        BY <2>1, <2>2, <2>3, <2>4
    <2>6. QED
        BY <2>5 DEF k
<1>2. QED
    BY <1>1 DEF CurrentFps

\* An upsert for another endpoint or another use leaves the TLS links alone.
LEMMA TLSLinkKept ==
    ASSUME TypeOK, NEW e \in Endpoints, NEW d, NEW fp, NEW use, NEW seen,
           link' = upsertEndpointCert(d, fp, use, seen), d # e \/ use # "tls"
    PROVE  CurrentFps(e, "tls")' = CurrentFps(e, "tls")
<1>1. \A f \in Fps : link'[<<e, f, "tls">>] = link[<<e, f, "tls">>]
    <2> SUFFICES ASSUME NEW f \in Fps
                 PROVE  link'[<<e, f, "tls">>] = link[<<e, f, "tls">>]
        OBVIOUS
    <2> DEFINE k == <<e, f, "tls">>
    <2>1. k \in LinkKey /\ k # <<d, fp, use>> /\ ~(k[1] = d /\ k[3] = use)
        BY DEF LinkKey, Uses
    <2> HIDE DEF k
    <2>2. link'[k] = link[k]
        BY <2>1 DEF upsertEndpointCert
    <2>3. QED
        BY <2>2 DEF k
<1>2. QED
    BY <1>1 DEF CurrentFps

\* What a step does to the TLS links of an endpoint: a result or an upload
\* writes them, or they only go.
LEMMA TLSLinkStep ==
    ASSUME TypeInv, SeesCurrent, [Next]_vars, NEW e \in Endpoints, e \notin raced
    PROVE  \/ CurrentFps(e, "tls")' \subseteq CurrentFps(e, "tls")
           \/ \E w \in Workers :
                 /\ WritesTLS(w) /\ req[w].ep = e /\ (CommitRecord(w) \/ CommitLink(w))
                 /\ \E f \in Fps : CurrentFps(e, "tls")' = {f}
<1>0. TypeOK
    BY DEF TypeInv
<1>1. CASE UNCHANGED link
    BY <1>1 DEF CurrentFps
<1>2. ASSUME NEW w \in Workers, CommitRecord(w), link' # link, req[w].ep = e
      PROVE  WritesTLS(w) /\ \E f \in Fps : CurrentFps(e, "tls")' = {f}
    <2>1. WritesTLS(w) /\ req[w].fp \in Fps
          /\ link' = upsertEndpointCert(e, req[w].fp, "tls", req[w].seen)
        BY <1>0, <1>2 DEF CommitRecord, WritesTLS, TypeOK, Request, NullFp
    <2>2. CurrentFps(e, "tls") \subseteq req[w].seen
        BY <1>2, <2>1 DEF SeesCurrent
    <2>3. QED
        BY <1>0, <2>1, <2>2, TLSLinkIs
<1>3. ASSUME NEW w \in Workers, CommitRecord(w), link' # link, req[w].ep # e
      PROVE  CurrentFps(e, "tls")' = CurrentFps(e, "tls")
    BY <1>0, <1>3, TLSLinkKept DEF CommitRecord
<1>4. ASSUME NEW w \in Workers, CommitLink(w), req[w].ep = e, TLSUpload(req[w])
      PROVE  WritesTLS(w) /\ \E f \in Fps : CurrentFps(e, "tls")' = {f}
    <2> DEFINE fp == req[w].todo[1].fp
    <2>1. fp \in Fps
        <3>1. req[w].todo \in Seq(Item) /\ req[w].todo # <<>>
            BY <1>0, <1>4 DEF TLSUpload, TypeOK, Request
        <3>2. req[w].todo[1] \in Item
            BY <3>1
        <3>3. QED
            BY <3>2 DEF Item
    <2>2. WritesTLS(w) /\ link' = upsertEndpointCert(e, fp, "tls", req[w].seen)
        BY <1>4 DEF CommitLink, WritesTLS, TLSUpload
    <2>3. CurrentFps(e, "tls") \subseteq req[w].seen
        BY <1>4, <2>2 DEF SeesCurrent
    <2> HIDE DEF fp
    <2>4. QED
        BY <1>0, <2>1, <2>2, <2>3, TLSLinkIs
<1>5. ASSUME NEW w \in Workers, CommitLink(w), req[w].ep # e \/ ~TLSUpload(req[w])
      PROVE  CurrentFps(e, "tls")' = CurrentFps(e, "tls")
    <2>1. req[w].todo # <<>>
        BY <1>5 DEF CommitLink, TypeInv, FittingRequest, Fits
    <2>2. req[w].ep # e \/ req[w].todo[1].use # "tls"
        BY <1>5, <2>1 DEF TLSUpload
    <2>3. QED
        BY <1>0, <1>5, <2>2, TLSLinkKept DEF CommitLink
<1>6. CASE \/ \E d \in Endpoints : DeleteEndpoint(d)
           \/ \E c \in Fps : PurgeCertificate(c)
    <2>1. \A k \in LinkKey : link'[k] \in {"none", link[k]}
        BY <1>6 DEF DeleteEndpoint, PurgeCertificate
    <2>2. \A f \in Fps : <<e, f, "tls">> \in LinkKey
        BY DEF LinkKey, Uses
    <2>3. \A f \in Fps : link'[<<e, f, "tls">>] = "current"
              => link[<<e, f, "tls">>] = "current"
        BY <2>1, <2>2
    <2>4. QED
        BY <2>3 DEF CurrentFps
<1>7. ASSUME NEW w \in Workers, Serve(w)
      PROVE  \/ CurrentFps(e, "tls")' \subseteq CurrentFps(e, "tls")
             \/ /\ WritesTLS(w) /\ req[w].ep = e /\ (CommitRecord(w) \/ CommitLink(w))
                /\ \E f \in Fps : CurrentFps(e, "tls")' = {f}
    <2>1. CASE CommitRecord(w) /\ link' # link
        BY <1>2, <1>3, <2>1
    <2>2. CASE CommitLink(w)
        BY <1>4, <1>5, <2>2
    <2>3. CASE ~CommitRecord(w) /\ ~CommitLink(w)
        <3>1. UNCHANGED link
            BY <1>7, <2>3 DEF Serve, IngestLeaf, BeginRecord, HoldEndpoint,
                  UpsertSAMLMetadata, InsertItem, RollOver, SkipCert, Abandon
        <3>2. QED
            BY <3>1 DEF CurrentFps
    <2>4. CASE UNCHANGED link
        BY <2>4 DEF CurrentFps
    <2>5. QED
        BY <2>1, <2>2, <2>3, <2>4
<1>8. ASSUME NEW w \in Workers, Arrive(w) PROVE UNCHANGED link
    BY <1>8, ArriveShape
<1>9. QED
    BY <1>1, <1>6, <1>7, <1>8 DEF Next, InsertEndpoint, RetypeEndpoint,
          RemoveUnreferencedCert, PurgeScanHistory, vars

\* Every action keeps the writers of TLS links informed of what is current.
LEMMA SeesStep ==
    ASSUME TypeInv, RaceInv, SeesCurrent, [Next]_vars
    PROVE  SeesCurrent'
<1>0. req \in [Workers -> Request] /\ raced \subseteq raced'
    <2>1. ASSUME NEW w \in Workers, Arrive(w) \/ Serve(w) PROVE raced \subseteq raced'
        BY <2>1, ArriveShape, ServeShape
    <2>2. QED
        BY <2>1 DEF TypeInv, TypeOK, Next, InsertEndpoint, RetypeEndpoint,
              DeleteEndpoint, RemoveUnreferencedCert, PurgeCertificate,
              PurgeScanHistory, vars
<1> SUFFICES ASSUME NEW e \in Endpoints, e \notin raced', NEW w \in Workers,
                    WritesTLS(w)', req'[w].ep = e
             PROVE  CurrentFps(e, "tls")' \subseteq req'[w].seen
    BY DEF SeesCurrent
<1>1. req'[w] = req[w] \/ HoldEndpoint(w) \/ RollOver(w)
    <2>1. ASSUME NEW v \in Workers, Arrive(v) PROVE req'[w] = req[w]
        BY <2>1, ArriveShape DEF WritesTLS
    <2>2. ASSUME NEW v \in Workers, Serve(v)
          PROVE  req'[w] = req[w] \/ HoldEndpoint(w) \/ RollOver(w)
        BY <2>2, ServeShape DEF WritesTLS
    <2>3. QED
        BY <2>1, <2>2 DEF Next, InsertEndpoint, RetypeEndpoint, DeleteEndpoint,
              RemoveUnreferencedCert, PurgeCertificate, PurgeScanHistory, vars
<1>2. CASE HoldEndpoint(w)
    <2>1. /\ req'[w].ep = req[w].ep /\ req'[w].seen = CurrentFps(req[w].ep, "tls")
          /\ link' = link
        BY <1>0, <1>2 DEF HoldEndpoint, Request
    <2>2. QED
        BY <2>1 DEF CurrentFps
<1>3. CASE RollOver(w)
    <2>1. /\ req'[w].ep = req[w].ep /\ req'[w].pc = "rolled" /\ req'[w].todo = req[w].todo
          /\ req'[w].seen = CurrentFps(req[w].ep, req[w].todo[1].use) /\ link' = link
        BY <1>0, <1>3 DEF RollOver, Request
    <2>2. req[w].todo[1].use = "tls"
        BY <2>1 DEF WritesTLS, TLSUpload
    <2>3. QED
        BY <2>1, <2>2 DEF CurrentFps
<1>4. CASE req'[w] = req[w] /\ ~HoldEndpoint(w) /\ ~RollOver(w)
    <2>1. req[w].ep = e /\ e \notin raced /\ WritesTLS(w) /\ Serves(w, e)
        BY <1>0, <1>4 DEF Request, WritesTLS, Serves
    <2>2. CurrentFps(e, "tls") \subseteq req[w].seen
        BY <2>1 DEF SeesCurrent
    <2>3. ASSUME NEW v \in Workers, WritesTLS(v), req[v].ep = e,
                 CommitRecord(v) \/ CommitLink(v)
          PROVE  FALSE
        <3>1. Serves(v, e)
            BY <2>3 DEF WritesTLS, Serves
        <3>2. CASE v = w
            <4>1. Serve(w)
                BY <2>3, <3>2 DEF Serve
            <4>2. req'[w].pc \in {"holding", "rolled"}
                BY DEF WritesTLS
            <4>3. QED
                BY <1>4, <4>1, <4>2, ServeShape
        <3>3. CASE v # w
            <4>1. ~TLSUpload(req[v]) /\ ~TLSUpload(req[w])
                BY <2>1, <3>1, <3>3 DEF RaceInv, UploadIsSole
            <4>2. req[v].pc = "holding" /\ req[w].pc = "holding"
                BY <2>1, <2>3, <4>1 DEF WritesTLS
            <4>3. QED
                BY <2>1, <2>3, <3>3, <4>2 DEF RaceInv, LockIsExclusive
        <3>4. QED
            BY <3>2, <3>3
    <2>4. CurrentFps(e, "tls")' \subseteq CurrentFps(e, "tls")
        BY <2>1, <2>3, TLSLinkStep
    <2>5. QED
        BY <1>4, <2>2, <2>4
<1>5. QED
    BY <1>1, <1>2, <1>3, <1>4

LEMMA TLSInvCorrect == Spec => [](TypeInv /\ TLSInv)
<1>1. Init => TLSInv
    <2> SUFFICES ASSUME Init PROVE TLSInv
        OBVIOUS
    <2>1. PICK e \in Endpoints : req = [w \in Workers |-> Idle(e)]
        BY DEF Init
    <2>2. \A w \in Workers : req[w].pc = "idle" /\ req[w].todo = <<>>
        BY <2>1 DEF Idle
    <2>3. <<>> \in Seq(OtherItem)
        OBVIOUS
    <2>4. RaceInv /\ SeesCurrent
        BY <2>2, <2>3 DEF RaceInv, UploadsAlone, UploadIsSole, LockIsExclusive, Serves,
                          SeesCurrent, WritesTLS
    <2>5. \A d \in Endpoints : CurrentFps(d, "tls") = {}
        BY DEF Init, CurrentFps, LinkKey, Uses
    <2>6. QED
        BY <2>4, <2>5 DEF TLSInv, OneCurrentTLS
<1>2. TypeInv /\ TLSInv /\ [Next]_vars => TLSInv'
    <2> SUFFICES ASSUME TypeInv, TLSInv, [Next]_vars PROVE TLSInv'
        OBVIOUS
    <2>1. RaceInv' /\ SeesCurrent'
        BY RaceStep, SeesStep DEF TLSInv
    <2>2. OneCurrentTLS'
        <3> SUFFICES ASSUME NEW e \in Endpoints, e \notin raced'
                     PROVE  (\A f, g \in CurrentFps(e, "tls") : f = g)'
            BY DEF OneCurrentTLS
        <3>1. e \notin raced
            <4>1. ASSUME NEW w \in Workers, Arrive(w) \/ Serve(w)
                  PROVE  raced \subseteq raced'
                BY <4>1, ArriveShape, ServeShape
            <4>2. QED
                BY <4>1 DEF Next, InsertEndpoint, RetypeEndpoint, DeleteEndpoint,
                      RemoveUnreferencedCert, PurgeCertificate, PurgeScanHistory, vars
        <3>2. \A f, g \in CurrentFps(e, "tls") : f = g
            BY <3>1 DEF TLSInv, OneCurrentTLS
        <3>3. QED
            BY <3>1, <3>2, TLSLinkStep DEF TLSInv
    <2>3. QED
        BY <2>1, <2>2 DEF TLSInv
<1>3. QED
    BY <1>1, <1>2, TypeInit, TypeStep, PTL DEF Spec

\* However many results are processed at a time, and whatever certificate was
\* uploaded for the use "tls" before or after them, an endpoint does not have
\* two current TLS certificates, unless such an upload was in flight together
\* with another request of the endpoint.
THEOREM TLSCertificateIsUnique == Spec => []OneCurrentTLS
<1>1. TLSInv => OneCurrentTLS
    BY DEF TLSInv
<1>2. QED
    BY <1>1, TLSInvCorrect, PTL

(***************************************************************************)
(* Results one at a time                                                   *)
(***************************************************************************)
\* An endpoint that never had two requests at a time: the timestamp of a result
\* that waits for the lock is later than every row of the ledger, so the order
\* of the timestamps is the order of the commits.
InOrder(e) ==
    /\ \A v, w \in Workers : Serves(v, e) /\ Serves(w, e) => v = w
    /\ \A r \in RowsOf(e) : r.at < clock
    /\ \A w \in Workers : req[w].ep = e /\ req[w].pc \in {"recording", "holding"} =>
          \A r \in RowsOf(e) : r.at < req[w].at
    /\ \A q, r \in RowsOf(e) : q.at = r.at => q = r

OrderInv == \A e \in Endpoints \ disturbed : InOrder(e)

\* The steps that write neither the live state nor the ledger.
LEMMA ServeQuiet ==
    ASSUME NEW w \in Workers, Serve(w), ~CommitRecord(w)
    PROVE  UNCHANGED <<scan, ledger>> /\ (BeginRecord(w) \/ UNCHANGED clock)
BY DEF Serve, IngestLeaf, BeginRecord, HoldEndpoint, UpsertSAMLMetadata, InsertItem,
       RollOver, CommitLink, SkipCert, Abandon

\* Whatever takes rows away and changes no request keeps the order.
LEMMA OrderByRemoval ==
    ASSUME OrderInv, ledger' \subseteq ledger, disturbed \subseteq disturbed',
           UNCHANGED <<req, clock>>
    PROVE  OrderInv'
BY DEF OrderInv, InOrder, RowsOf, Serves

\* Every action keeps timestamps and commits in one order, where results do not
\* overlap.
LEMMA OrderStep ==
    ASSUME TypeInv, StampsArePast, OrderInv, [Next]_vars
    PROVE  OrderInv'
<1>0. /\ TypeOK /\ clock \in Nat /\ req \in [Workers -> Request]
      /\ \A r \in ledger : r \in Row
    BY DEF TypeInv, TypeOK
<1>1. ASSUME NEW w \in Workers, Arrive(w) PROVE OrderInv'
    <2> SUFFICES ASSUME NEW e \in Endpoints, e \notin disturbed' PROVE InOrder(e)'
        BY DEF OrderInv
    <2>1. InOrder(e) /\ UNCHANGED <<ledger, clock>>
        BY <1>1, ArriveShape DEF OrderInv
    <2>2. \A u, v \in Workers : Serves(u, e)' /\ Serves(v, e)' => u = v
        BY <1>1, <2>1, ArriveShape DEF InOrder, Serves
    <2>3. QED
        BY <1>1, <2>1, <2>2, ArriveShape DEF InOrder, RowsOf
<1>2. ASSUME NEW w \in Workers, Serve(w) PROVE OrderInv'
    <2> SUFFICES ASSUME NEW e \in Endpoints, e \notin disturbed PROVE InOrder(e)'
        BY <1>2, ServeShape DEF OrderInv
    <2>1. InOrder(e)
        BY DEF OrderInv
    <2>2. \A u, v \in Workers : Serves(u, e)' /\ Serves(v, e)' => u = v
        BY <1>2, <2>1, ServeShape DEF InOrder, Serves
    <2>3. CASE BeginRecord(w)
        <3>1. clock' = clock + 1 /\ ledger' = ledger /\ req'[w].at = clock
            BY <1>0, <2>3 DEF BeginRecord
        <3>2. \A r \in RowsOf(e) : r.at \in Nat /\ r.at < clock
            BY <1>0, <2>1 DEF InOrder, RowsOf, Row, Time
        <3>3. \A r \in RowsOf(e)' : r.at < clock'
            BY <1>0, <3>1, <3>2 DEF RowsOf
        <3>4. \A v \in Workers : req'[v].ep = e /\ req'[v].pc \in {"recording", "holding"} =>
                 \A r \in RowsOf(e)' : r.at < req'[v].at
            <4>1. req'[w].pc = "recording"
                BY <1>0, <2>3 DEF BeginRecord, Request
            <4>2. QED
                BY <1>2, <2>1, <3>1, <3>2, <4>1, ServeShape DEF InOrder, RowsOf
        <3>5. QED
            BY <2>1, <2>2, <3>1, <3>3, <3>4 DEF InOrder, RowsOf
    <2>4. CASE CommitRecord(w)
        <3> DEFINE r == req[w]
                   new == [ep |-> r.ep, at |-> r.at, fp |-> r.fp, net |-> r.net,
                           err |-> r.err]
        <3>1. /\ ledger' = ledger \/ ledger' = ledger \cup {new}
              /\ clock' = clock /\ r.pc = "holding"
              /\ req'[w].pc \notin {"recording", "holding"}
            BY <2>4, <1>0 DEF CommitRecord, Idle, Request
        <3>2. CASE r.ep # e
            <4>1. RowsOf(e)' = RowsOf(e)
                BY <3>1, <3>2 DEF RowsOf
            <4>2. QED
                BY <1>2, <2>1, <2>2, <3>1, <4>1, ServeShape DEF InOrder
        <3>3. CASE r.ep = e
            <4>1. RowsOf(e)' \subseteq RowsOf(e) \cup {new}
                BY <3>1 DEF RowsOf
            <4>2. \A q \in RowsOf(e) : q.at \in Nat /\ q.at < r.at
                BY <1>0, <2>1, <3>1, <3>3 DEF InOrder, RowsOf, Row, Time
            <4>3. r.at \in Nat
                BY <1>0 DEF Request, Time
            <4>4. \A v \in Workers : ~(/\ req'[v].ep = e
                                      /\ req'[v].pc \in {"recording", "holding"})
                BY <1>2, <2>1, <3>1, <3>3, ServeShape DEF InOrder, Serves
            <4>5. \A p, q \in RowsOf(e)' : p.at = q.at => p = q
                BY <2>1, <4>1, <4>2, <4>3 DEF InOrder
            <4>6. \A q \in RowsOf(e)' : q.at < clock'
                <5>1. r.at < clock
                    BY <3>1 DEF StampsArePast
                <5>2. QED
                    BY <2>1, <3>1, <4>1, <5>1 DEF InOrder
            <4>7. QED
                BY <2>2, <4>4, <4>5, <4>6 DEF InOrder
        <3>4. QED
            BY <3>2, <3>3
    <2>4a. CASE HoldEndpoint(w)
        <3>1. /\ req'[w].at = req[w].at /\ req[w].pc = "recording"
              /\ UNCHANGED <<ledger, clock>>
            BY <1>0, <2>4a DEF HoldEndpoint, Request
        <3>2. \A v \in Workers : req'[v].ep = e /\ req'[v].pc \in {"recording", "holding"}
                 => \A r \in RowsOf(e) : r.at < req'[v].at
            BY <1>2, <2>1, <3>1, ServeShape DEF InOrder
        <3>3. QED
            BY <2>1, <2>2, <3>1, <3>2 DEF InOrder, RowsOf
    <2>5. CASE ~BeginRecord(w) /\ ~HoldEndpoint(w) /\ ~CommitRecord(w)
        BY <1>2, <2>1, <2>2, <2>5, ServeShape, ServeQuiet DEF InOrder, RowsOf
    <2>6. QED
        BY <2>3, <2>4, <2>4a, <2>5
<1>3. CASE \/ \E e \in Endpoints : InsertEndpoint(e) \/ RetypeEndpoint(e)
                                   \/ DeleteEndpoint(e)
           \/ \E c \in Fps : RemoveUnreferencedCert(c) \/ PurgeCertificate(c)
           \/ \E cutoff \in 1 .. clock : PurgeScanHistory(cutoff)
           \/ UNCHANGED vars
    <2>1. ledger' \subseteq ledger /\ disturbed \subseteq disturbed'
          /\ UNCHANGED <<req, clock>>
        BY <1>3 DEF InsertEndpoint, RetypeEndpoint, DeleteEndpoint,
                    RemoveUnreferencedCert, PurgeCertificate, PurgeScanHistory, vars
    <2>2. QED
        BY <2>1, OrderByRemoval
<1>4. QED
    BY <1>1, <1>2, <1>3 DEF Next

\* A row later than all the others of its endpoint is its newest one.
LEMMA NewestRow ==
    ASSUME TypeInv, NEW e \in Endpoints, InOrder(e), NEW w \in Workers,
           CommitRecord(w), req[w].ep = e, ledger' # ledger
    PROVE  \E new \in ledger' \ ledger :
              /\ new.ep = e /\ new.err = req[w].err /\ new.fp = req[w].fp
              /\ new \in Latest(e)'
<1> DEFINE r == req[w]
           new == [ep |-> r.ep, at |-> r.at, fp |-> r.fp, net |-> r.net, err |-> r.err]
<1>1. ledger' = ledger \cup {new} /\ r.pc = "holding"
    BY DEF CommitRecord
<1>2. r.at \in Nat /\ \A q \in RowsOf(e) : q.at \in Nat
    BY DEF TypeInv, TypeOK, Request, RowsOf, Row, Time
<1>3. \A q \in RowsOf(e) : q.at < r.at
    BY <1>1 DEF InOrder
<1>4. new \notin ledger
    BY <1>1, <1>2, <1>3 DEF RowsOf
<1>5. RowsOf(e)' = RowsOf(e) \cup {new}
    BY <1>1 DEF RowsOf
<1>6. new \in Latest(e)'
    <2>1. \A q \in RowsOf(e)' : q.at <= new.at
        BY <1>2, <1>3, <1>5
    <2>2. QED
        BY <1>5, <2>1 DEF Latest
<1>7. QED
    BY <1>1, <1>4, <1>6

\* A result that differs in its error from the newest row is written.
LEMMA TransitionStep ==
    ASSUME TypeInv, NEW e \in Endpoints, InOrder(e), NEW w \in Workers,
           CommitRecord(w), req[w].ep = e,
           NEW last \in Latest(e), last.err # req[w].err
    PROVE  ledger' # ledger
<1> DEFINE r == req[w]
           new == [ep |-> r.ep, at |-> r.at, fp |-> r.fp, net |-> r.net, err |-> r.err]
<1>1. \A q \in Latest(e) : q = last
    <2>1. \A q \in Latest(e) : q \in RowsOf(e) /\ q.at \in Nat /\ q.at = last.at
        <3>1. \A q \in Latest(e) : q \in RowsOf(e) /\ q.at \in Nat
            BY DEF Latest, RowsOf, TypeInv, TypeOK, Row, Time
        <3>2. \A q \in Latest(e) : q.at <= last.at /\ last.at <= q.at
            BY DEF Latest
        <3>3. QED
            BY <3>1, <3>2
    <2>2. QED
        BY <2>1 DEF InOrder
<1>2. scanResultChanged(e, r.fp, r.net, r.err)
    BY <1>1 DEF scanResultChanged
<1>3. new \in ledger' /\ r.pc = "holding"
    BY <1>2 DEF CommitRecord
<1>4. new \notin ledger
    <2>1. r.at \in Nat
        BY DEF TypeInv, TypeOK, Request, Time
    <2>2. \A q \in RowsOf(e) : q.at < r.at
        BY <1>3 DEF InOrder
    <2>3. QED
        BY <2>1, <2>2 DEF RowsOf
<1>5. QED
    BY <1>3, <1>4

\* What the newest rows and the live state of an endpoint have to do with each
\* other, and the links besides.
Matches(e) ==
    scan[e].scanned =>
        \E r \in Latest(e) :
            /\ r.err = scan[e].err
            /\ r.fp # NoFp /\ e \notin uploaded => CurrentFps(e, "tls") = {r.fp}

\* Every action keeps the newest row in step with the live state.
LEMMA LedgerStep ==
    ASSUME TypeInv, SeesCurrent, OrderInv, LedgerMatchesLive, [Next]_vars
    PROVE  LedgerMatchesLive'
<1>0. TypeOK /\ req \in [Workers -> Request] /\ scan \in [Endpoints -> ScanState]
    BY DEF TypeInv, TypeOK
<1>1. ASSUME NEW e \in Endpoints, e \notin disturbed
      PROVE  Matches(e) /\ InOrder(e) /\ e \notin raced
    BY <1>0, <1>1 DEF LedgerMatchesLive, Matches, OrderInv, TypeOK
<1>2. ASSUME \A e \in Endpoints : e \notin disturbed' => Matches(e)' PROVE LedgerMatchesLive'
    BY <1>2 DEF LedgerMatchesLive, Matches
<1>3. ASSUME NEW e \in Endpoints, Matches(e), scan'[e] = scan[e],
             RowsOf(e)' = RowsOf(e),
             \/ e \in uploaded'
             \/ /\ CurrentFps(e, "tls")' = CurrentFps(e, "tls")
                /\ e \in uploaded => e \in uploaded'
      PROVE  Matches(e)'
    BY <1>3 DEF Matches, Latest
<1>4. ASSUME NEW w \in Workers, Arrive(w) PROVE LedgerMatchesLive'
    <2>1. ASSUME NEW e \in Endpoints, e \notin disturbed' PROVE Matches(e)'
        <3>1. e \notin disturbed /\ UNCHANGED <<scan, ledger, link, uploaded>>
            BY <1>4, <2>1, ArriveShape
        <3>2. QED
            BY <1>1, <1>3, <3>1 DEF RowsOf, CurrentFps
    <2>2. QED
        BY <1>2, <2>1
<1>5. ASSUME NEW w \in Workers, CommitRecord(w) PROVE LedgerMatchesLive'
    <2> DEFINE r == req[w]
    <2>1. disturbed' = disturbed /\ r \in Request /\ r.ep \in Endpoints
        BY <1>0, <1>5 DEF CommitRecord, Request
    <2>2. ASSUME NEW e \in Endpoints, e \notin disturbed, e # r.ep PROVE Matches(e)'
        <3>1. scan'[e] = scan[e] /\ RowsOf(e)' = RowsOf(e)
            BY <1>0, <1>5, <2>1, <2>2 DEF CommitRecord, RowsOf
        <3>2. CurrentFps(e, "tls")' = CurrentFps(e, "tls")
            <4>1. CASE link' = link
                BY <4>1 DEF CurrentFps
            <4>2. CASE link' = upsertEndpointCert(r.ep, r.fp, "tls", r.seen)
                BY <1>0, <2>2, <4>2, TLSLinkKept
            <4>3. QED
                BY <1>5, <4>1, <4>2 DEF CommitRecord
        <3>3. e \in uploaded => e \in uploaded'
            BY <1>5, <2>2 DEF CommitRecord
        <3>4. QED
            BY <1>1, <1>3, <2>2, <3>1, <3>2, <3>3
    <2>3. ASSUME NEW e \in Endpoints, e \notin disturbed, e = r.ep PROVE Matches(e)'
        <3>1. scan'[e].err = r.err
            BY <1>0, <1>5, <2>1, <2>3 DEF CommitRecord
        <3>2. r.fp # NoFp => CurrentFps(e, "tls")' = {r.fp}
            <4>1. SUFFICES ASSUME r.fp # NoFp PROVE CurrentFps(e, "tls")' = {r.fp}
                OBVIOUS
            <4>2. /\ r.fp \in Fps /\ r.pc = "holding"
                  /\ link' = upsertEndpointCert(e, r.fp, "tls", r.seen)
                BY <1>5, <2>1, <2>3, <4>1 DEF CommitRecord, Request, NullFp
            <4>3. CurrentFps(e, "tls") \subseteq r.seen
                BY <1>1, <2>3, <4>2 DEF SeesCurrent, WritesTLS
            <4>4. QED
                BY <1>0, <4>2, <4>3, TLSLinkIs
        <3>3. \E q \in Latest(e)' : q.err = r.err /\ q.fp = r.fp
            <4>1. CASE ledger' # ledger
                BY <1>1, <1>5, <2>1, <2>3, <4>1, NewestRow
            <4>2. CASE ledger' = ledger
                <5> DEFINE new == [ep |-> r.ep, at |-> r.at, fp |-> r.fp, net |-> r.net,
                                   err |-> r.err]
                <5>1. CASE scanResultChanged(e, r.fp, r.net, r.err)
                    <6>1. new \in RowsOf(e) /\ r.pc = "holding"
                        BY <1>5, <2>3, <4>2, <5>1 DEF CommitRecord, RowsOf
                    <6>2. new.at < r.at /\ r.at \in Nat
                        BY <1>1, <2>1, <2>3, <6>1 DEF InOrder, Request, Time
                    <6>3. QED
                        BY <6>2
                <5>2. CASE ~scanResultChanged(e, r.fp, r.net, r.err)
                    BY <4>2, <5>2 DEF scanResultChanged, Latest, RowsOf
                <5>3. QED
                    BY <5>1, <5>2
            <4>3. QED
                BY <4>1, <4>2
        <3>4. QED
            BY <3>1, <3>2, <3>3 DEF Matches
    <2>4. QED
        BY <1>2, <2>1, <2>2, <2>3
<1>6. ASSUME NEW w \in Workers, Serve(w), ~CommitRecord(w) PROVE LedgerMatchesLive'
    <2>1. disturbed' = disturbed /\ UNCHANGED <<scan, ledger>>
        BY <1>6, ServeShape, ServeQuiet
    <2>2. ASSUME NEW e \in Endpoints
          PROVE  \/ e \in uploaded'
                 \/ /\ CurrentFps(e, "tls")' = CurrentFps(e, "tls")
                    /\ e \in uploaded => e \in uploaded'
        <3>1. CASE UNCHANGED <<link, uploaded>>
            BY <3>1 DEF CurrentFps
        <3>2. CASE CommitLink(w)
            <4>1. req[w].todo # <<>>
                BY <3>2 DEF CommitLink, TypeInv, FittingRequest, Fits
            <4>2. CASE req[w].ep = e /\ TLSUpload(req[w])
                BY <3>2, <4>2 DEF CommitLink
            <4>3. CASE req[w].ep # e \/ req[w].todo[1].use # "tls"
                <5>1. CurrentFps(e, "tls")' = CurrentFps(e, "tls")
                    BY <1>0, <3>2, <4>3, TLSLinkKept DEF CommitLink
                <5>2. QED
                    BY <3>2, <5>1 DEF CommitLink
            <4>4. QED
                BY <4>1, <4>2, <4>3 DEF TLSUpload
        <3>3. QED
            BY <1>6, <3>1, <3>2 DEF Serve, IngestLeaf, BeginRecord, HoldEndpoint,
                  UpsertSAMLMetadata, InsertItem, RollOver, SkipCert, Abandon
    <2>3. QED
        BY <1>1, <1>2, <1>3, <2>1, <2>2 DEF RowsOf
<1>7. ASSUME NEW d \in Endpoints, DeleteEndpoint(d) PROVE LedgerMatchesLive'
    <2>1. ASSUME NEW e \in Endpoints, e \notin disturbed PROVE Matches(e)'
        <3>1. CASE e = d
            BY <1>0, <1>7, <3>1 DEF DeleteEndpoint, Matches, Unscanned
        <3>2. CASE e # d
            <4>1. scan'[e] = scan[e] /\ RowsOf(e)' = RowsOf(e)
                BY <1>0, <1>7, <3>2 DEF DeleteEndpoint, RowsOf
            <4>2. \A f \in Fps : <<e, f, "tls">> \in LinkKey /\ <<e, f, "tls">>[1] = e
                BY DEF LinkKey, Uses
            <4>3. CurrentFps(e, "tls")' = CurrentFps(e, "tls")
                BY <1>7, <3>2, <4>2 DEF DeleteEndpoint, CurrentFps
            <4>4. QED
                BY <1>1, <1>3, <1>7, <2>1, <4>1, <4>3 DEF DeleteEndpoint
        <3>3. QED
            BY <3>1, <3>2
    <2>2. QED
        BY <1>2, <1>7, <2>1 DEF DeleteEndpoint
<1>8. ASSUME NEW c \in Fps, PurgeCertificate(c) PROVE LedgerMatchesLive'
    <2>1. ASSUME NEW e \in Endpoints, e \notin disturbed' PROVE Matches(e)'
        <3>1. /\ e \notin disturbed /\ \A r \in RowsOf(e) : r.fp # c
              /\ link[<<e, c, "tls">>] = "none" /\ scan' = scan
            BY <1>8, <2>1 DEF PurgeCertificate, Uses
        <3>2. RowsOf(e)' = RowsOf(e)
            BY <1>8, <3>1 DEF PurgeCertificate, RowsOf
        <3>3. \A f \in Fps : <<e, f, "tls">> \in LinkKey /\ <<e, f, "tls">>[2] = f
            BY DEF LinkKey, Uses
        <3>4. \A f \in Fps : link'[<<e, f, "tls">>] = link[<<e, f, "tls">>]
            BY <1>8, <3>1, <3>3 DEF PurgeCertificate
        <3>5. CurrentFps(e, "tls")' = CurrentFps(e, "tls")
            BY <3>4 DEF CurrentFps
        <3>6. QED
            BY <1>1, <1>3, <1>8, <3>1, <3>2, <3>5 DEF PurgeCertificate
    <2>2. QED
        BY <1>2, <2>1
<1>9. ASSUME NEW cutoff, PurgeScanHistory(cutoff) PROVE LedgerMatchesLive'
    <2>1. \A e \in Endpoints : Latest(e) \subseteq Latest(e)'
        BY <1>9 DEF PurgeScanHistory, PurgeableRows, Latest, RowsOf
    <2>2. UNCHANGED <<scan, link, disturbed, uploaded>>
        BY <1>9 DEF PurgeScanHistory
    <2>3. QED
        BY <1>1, <1>2, <2>1, <2>2 DEF Matches, CurrentFps
<1>10. CASE UNCHANGED <<scan, link, ledger, disturbed, uploaded>>
    BY <1>10 DEF LedgerMatchesLive, Latest, RowsOf, CurrentFps
<1>11. QED
    BY <1>4, <1>5, <1>6, <1>7, <1>8, <1>9, <1>10 DEF Next, InsertEndpoint,
          RetypeEndpoint, RemoveUnreferencedCert, vars

\* Every action keeps the outage window clean: a row that is added later than
\* the start of an outage reports a failure, and a start is later than all rows.
LEMMA WindowStep ==
    ASSUME TypeInv, OrderInv, OutageWindowIsClean, [Next]_vars
    PROVE  OutageWindowIsClean'
<1>0. /\ TypeOK /\ req \in [Workers -> Request] /\ scan \in [Endpoints -> ScanState]
      /\ \A r \in ledger : r \in Row
    BY DEF TypeInv, TypeOK
<1>1. ASSUME NEW w \in Workers, CommitRecord(w) PROVE OutageWindowIsClean'
    <2> DEFINE r == req[w]
               new == [ep |-> r.ep, at |-> r.at, fp |-> r.fp, net |-> r.net,
                       err |-> r.err]
    <2>1. /\ disturbed' = disturbed /\ r \in Request /\ r.ep \in Endpoints
          /\ r.pc = "holding" /\ r.at \in Nat /\ r.err \in BOOLEAN
          /\ ledger' \subseteq ledger \cup {new}
        BY <1>0, <1>1 DEF CommitRecord, Request, Time
    <2> SUFFICES ASSUME NEW e \in Endpoints, e \notin disturbed, NEW q \in RowsOf(e)',
                        NEW t \in scan'[e].since, t <= q.at
                 PROVE  q.err
        BY <2>1 DEF OutageWindowIsClean
    <2>2. q \in RowsOf(e) \/ (q = new /\ e = r.ep)
        BY <2>1 DEF RowsOf
    <2>3. CASE e # r.ep
        <3>1. scan'[e] = scan[e]
            BY <1>0, <1>1, <2>1, <2>3 DEF CommitRecord
        <3>2. QED
            BY <2>2, <2>3, <3>1 DEF OutageWindowIsClean
    <2>4. CASE e = r.ep
        <3>1. scan'[e].since = OutageStart(scan[e], r.err, r.at)
            BY <1>0, <1>1, <2>1, <2>4 DEF CommitRecord
        <3>2. r.err /\ (scan[e].err => t \in scan[e].since) /\ (~scan[e].err => t = r.at)
            BY <3>1 DEF OutageStart
        <3>3. CASE q = new
            BY <3>2, <3>3
        <3>4. CASE q \in RowsOf(e)
            <4>1. q.at < r.at /\ q.at \in Nat
                BY <1>0, <2>1, <2>4, <3>4 DEF OrderInv, InOrder, RowsOf, Row, Time
            <4>2. t \in scan[e].since
                BY <2>1, <3>2, <4>1
            <4>3. QED
                BY <3>4, <4>2 DEF OutageWindowIsClean
        <3>5. QED
            BY <2>2, <3>3, <3>4
    <2>5. QED
        BY <2>3, <2>4
<1>2. ASSUME NEW e \in Endpoints, DeleteEndpoint(e) PROVE OutageWindowIsClean'
    BY <1>0, <1>2 DEF DeleteEndpoint, OutageWindowIsClean, RowsOf, Unscanned
<1>3. CASE scan' = scan /\ ledger' \subseteq ledger /\ disturbed \subseteq disturbed'
    BY <1>3 DEF OutageWindowIsClean, RowsOf
<1>4. ASSUME NEW w \in Workers, Arrive(w) \/ (Serve(w) /\ ~CommitRecord(w))
      PROVE  OutageWindowIsClean'
    BY <1>3, <1>4, ArriveShape, ServeShape, ServeQuiet
<1>5. QED
    BY <1>1, <1>2, <1>3, <1>4 DEF Next, InsertEndpoint, RetypeEndpoint,
          RemoveUnreferencedCert, PurgeCertificate, PurgeScanHistory, vars

\* The step of TransitionIsLogged.
Logged ==
    \A e \in Endpoints \ disturbed' :
        (scan[e].scanned /\ scan'[e].scanned /\ scan[e].err # scan'[e].err)
        => \E r \in ledger' \ ledger : r.ep = e /\ r.err = scan'[e].err

\* An error state changes only with a result of the endpoint, and then the
\* newest row, which has the old one, differs.
LEMMA LoggedStep ==
    ASSUME TypeInv, OrderInv, LedgerMatchesLive, [Next]_vars
    PROVE  Logged
<1> SUFFICES ASSUME NEW e \in Endpoints, e \notin disturbed', scan[e].scanned,
                    scan'[e].scanned, scan[e].err # scan'[e].err
             PROVE  \E r \in ledger' \ ledger : r.ep = e /\ r.err = scan'[e].err
    BY DEF Logged
<1>0. TypeOK /\ req \in [Workers -> Request] /\ scan \in [Endpoints -> ScanState]
    BY DEF TypeInv, TypeOK
<1>1. ASSUME NEW w \in Workers, CommitRecord(w)
      PROVE  \E r \in ledger' \ ledger : r.ep = e /\ r.err = scan'[e].err
    <2>1. disturbed' = disturbed /\ req[w].ep = e /\ scan'[e].err = req[w].err
        BY <1>0, <1>1 DEF CommitRecord
    <2>2. InOrder(e)
        BY <2>1 DEF OrderInv
    <2>3. PICK last \in Latest(e) : last.err = scan[e].err
        BY <2>1 DEF LedgerMatchesLive
    <2>4. ledger' # ledger
        BY <1>1, <2>1, <2>2, <2>3, TransitionStep
    <2>5. QED
        BY <1>1, <2>1, <2>2, <2>4, NewestRow
<1>2. ASSUME NEW d \in Endpoints, DeleteEndpoint(d) PROVE FALSE
    BY <1>0, <1>2 DEF DeleteEndpoint, Unscanned
<1>3. scan' # scan
    OBVIOUS
<1>4. QED
    BY <1>1, <1>2, <1>3, ArriveShape, ServeQuiet DEF Next, InsertEndpoint,
          RetypeEndpoint, RemoveUnreferencedCert, PurgeCertificate, PurgeScanHistory, vars

\* For any number of requests at a time: where results of an endpoint do not
\* overlap, nothing in the ledger says that it was healthy during the outage the
\* endpoint row claims.
THEOREM OutageWindowsAreClean == Spec => []OutageWindowIsClean
<1>1. Init => OutageInv /\ OrderInv /\ OutageWindowIsClean
    BY DEF Init, OutageInv, StampsArePast, OutageHasStart, OrderInv, InOrder, Serves,
           OutageWindowIsClean, RowsOf, Idle, Unscanned
<1>2. TypeInv /\ OutageInv /\ OrderInv /\ OutageWindowIsClean /\ [Next]_vars
         => (OutageInv /\ OrderInv /\ OutageWindowIsClean)'
    BY OutageStep, OrderStep, WindowStep DEF OutageInv
<1>3. QED
    BY <1>1, <1>2, TypeInit, TypeStep, PTL DEF Spec

\* What holds of the newest row, with what it takes to keep it.
LedgerInv == OutageInv /\ OrderInv /\ LedgerMatchesLive

LEMMA LedgerInvCorrect == Spec => [](TypeInv /\ LedgerInv)
<1>1. Init => LedgerInv
    BY DEF Init, LedgerInv, OutageInv, StampsArePast, OutageHasStart, OrderInv, InOrder,
           Serves, LedgerMatchesLive, RowsOf, Idle, Unscanned
<1>2. TypeInv /\ TLSInv /\ LedgerInv /\ [Next]_vars => LedgerInv'
    BY OutageStep, OrderStep, LedgerStep DEF LedgerInv, OutageInv, TLSInv
<1>3. QED
    BY <1>1, <1>2, TLSInvCorrect, PTL DEF Spec

\* Where requests of an endpoint do not overlap, the newest ledger row has the
\* error state of the live state, and its certificate unless an upload has
\* replaced that since, whatever history is purged and whatever else races.
THEOREM LedgerFollowsLive == Spec => []LedgerMatchesLive
<1>1. LedgerInv => LedgerMatchesLive
    BY DEF LedgerInv
<1>2. QED
    BY <1>1, LedgerInvCorrect, PTL

\* Under the same conditions no change between healthy and failing goes without
\* a ledger row that says so.
THEOREM TransitionsAreLogged == Spec => TransitionIsLogged
<1>1. TypeInv /\ LedgerInv /\ [Next]_vars => [Logged]_vars
    BY LoggedStep DEF LedgerInv
<1>2. Spec => [][Logged]_vars
    BY <1>1, LedgerInvCorrect, PTL DEF Spec
<1>3. QED
    BY <1>2 DEF TransitionIsLogged, Logged

=============================================================================
