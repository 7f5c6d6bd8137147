--------------------------- MODULE CertStoreProofs ---------------------------
(***************************************************************************)
(* Proofs about CertStore for any set of certificates, any issuer relation *)
(* (cycles included) and any value of the bounds.                          *)
(***************************************************************************)
EXTENDS CertStore, TLAPS

\* The shape of the state before the first insert.
LEMMA TypeInit == Init => TypeOK
<1> SUFFICES ASSUME Init PROVE TypeOK
  OBVIOUS
<1>1. ins \in [Ingests -> Insert]
  <2>1. PICK c \in Fps :
          ins = [w \in Ingests |-> [pc |-> "idle", cert |-> c, anchor |-> FALSE,
                                    up |-> NoFp, down |-> {}]]
    BY DEF Init
  <2> QED BY <2>1 DEF Insert, NullFp
<1> QED BY <1>1 DEF Init, TypeOK, NullFp

\* Every action keeps the shape of the state.
LEMMA TypeStep == TypeOK /\ [Next]_vars => TypeOK'
<1> SUFFICES ASSUME TypeOK, [Next]_vars PROVE TypeOK'
  OBVIOUS
<1> USE DEF TypeOK
<1>1. ASSUME NEW w \in Ingests, NEW c \in Fps, NEW anchor \in BOOLEAN,
             InsertBegin(w, c, anchor)
      PROVE  TypeOK'
  <2>1. PICK i \in IssuerChoice(c) :
          ins' = [ins EXCEPT ![w] = [pc |-> "open", cert |-> c, anchor |-> anchor,
                                     up |-> i, down |-> Orphans(c)]]
    BY <1>1 DEF InsertBegin
  <2>2. i \in NullFp /\ Orphans(c) \subseteq Fps
    BY <2>1, CertStoreAssumption DEF IssuerChoice, NullFp, Orphans
  <2> QED BY <1>1, <2>1, <2>2 DEF InsertBegin, Insert
<1>2. ASSUME NEW w \in Ingests, InsertCommit(w) PROVE TypeOK'
  <2>1. ins[w].cert \in Fps /\ ins[w].up \in NullFp
    BY DEF Insert
  <2>2. issuer' \in [Fps -> NullFp]
    BY <1>2, <2>1 DEF InsertCommit, NullFp
  <2>3. ins' \in [Ingests -> Insert]
    BY <1>2 DEF InsertCommit, Insert
  <2> QED BY <1>2, <2>1, <2>2, <2>3 DEF InsertCommit
<1>3. ASSUME NEW w \in Ingests, InsertFails(w) PROVE TypeOK'
  BY <1>3 DEF InsertFails, Insert
<1>4. ASSUME NEW c \in Fps,
             \/ LinkCert(c) \/ UnlinkCert(c)
             \/ MarkTrustAnchor(c) \/ UnmarkTrustAnchor(c)
             \/ UpsertDiscoveryInboxItem(c) \/ DeleteDiscoveryInboxItem(c)
      PROVE  TypeOK'
  BY <1>4 DEF LinkCert, UnlinkCert, MarkTrustAnchor, UnmarkTrustAnchor,
              UpsertDiscoveryInboxItem, DeleteDiscoveryInboxItem
<1>5. ASSUME NEW c \in Fps, DeleteCertificate(c) \/ PurgeCertificate(c)
      PROVE  TypeOK'
  BY <1>5 DEF DeleteCertificate, PurgeCertificate, DeleteRows, NullFp
<1>6. CASE PurgeUnreferencedCerts
  BY <1>6 DEF PurgeUnreferencedCerts, DeleteRows, NullFp
<1>7. CASE Restart
  BY <1>7 DEF Restart, Insert
<1>8. CASE UNCHANGED vars
  BY <1>8 DEF vars
<1> HIDE DEF TypeOK
<1> QED BY <1>1, <1>2, <1>3, <1>4, <1>5, <1>6, <1>7, <1>8 DEF Next

\* The certificate table's state is always well typed.
THEOREM CertStoreTypeCorrect == Spec => []TypeOK
BY TypeInit, TypeStep, PTL DEF Spec

(***************************************************************************)
(* Chains                                                                  *)
(***************************************************************************)

\* What an insert in flight found stays true until its commit: its locks keep
\* the rows it will link, and no other insert runs beside it.
OpenInsertIsCurrent ==
    \A w \in Ingests : Open(w) =>
        /\ ins[w].cert \notin certs
        /\ IF ins[w].up = NoFp
           THEN MayIssue[ins[w].cert] \cap certs = {}
           ELSE ins[w].up \in certs \cap MayIssue[ins[w].cert]
        /\ ins[w].down = Orphans(ins[w].cert)

ChainInv ==
    /\ TypeOK
    /\ OpenInsertIsCurrent
    /\ LinksAreStored
    /\ ChainsLinked

\* At most one insert is in flight at any time.
OneIngest == \A v, w \in Ingests : v = w

\* A row a transaction in flight points at or updates is locked.
LEMMA LockedRows ==
    ASSUME NEW w \in Ingests, Open(w)
    PROVE  /\ ins[w].down \subseteq Locked
           /\ ins[w].up # NoFp => ins[w].up \in Locked
BY DEF Locked

\* Removing rows that are unlocked and issue nothing that stays.
LEMMA DeleteKeepsChains ==
    ASSUME ChainInv, NEW S \in SUBSET certs, DeleteRows(S), UNCHANGED ins,
           S \cap Locked = {}, \A c \in S : ~IsIssuer(c)
    PROVE  (OpenInsertIsCurrent /\ LinksAreStored /\ ChainsLinked)'
<1> USE DEF ChainInv, TypeOK
<1>1. LinksAreStored'
  BY CertStoreAssumption DEF LinksAreStored, DeleteRows, IsIssuer, NullFp
<1>2. ChainsLinked'
  BY CertStoreAssumption DEF LinksAreStored, ChainsLinked, DeleteRows, IsIssuer
<1>3. OpenInsertIsCurrent'
  <2> SUFFICES ASSUME NEW w \in Ingests, Open(w)
               PROVE  /\ ins[w].cert \notin certs'
                      /\ IF ins[w].up = NoFp
                         THEN MayIssue[ins[w].cert] \cap certs' = {}
                         ELSE ins[w].up \in certs' \cap MayIssue[ins[w].cert]
                      /\ ins[w].down = Orphans(ins[w].cert)'
    BY DEF OpenInsertIsCurrent, Open, Orphans
  <2>1. /\ ins[w].cert \notin certs
        /\ IF ins[w].up = NoFp
           THEN MayIssue[ins[w].cert] \cap certs = {}
           ELSE ins[w].up \in certs \cap MayIssue[ins[w].cert]
        /\ ins[w].down = Orphans(ins[w].cert)
    BY DEF OpenInsertIsCurrent
  <2>2. ins[w].down \cap S = {} /\ (ins[w].up # NoFp => ins[w].up \notin S)
    BY LockedRows
  <2>3. Orphans(ins[w].cert)' = Orphans(ins[w].cert)
    <3>1. \A x \in certs' : issuer'[x] = issuer[x] /\ x \in certs
      BY DEF DeleteRows
    <3>2. \A x \in Orphans(ins[w].cert) : x \in certs'
      BY <2>1, <2>2 DEF DeleteRows, Orphans
    <3> QED BY <3>1, <3>2 DEF Orphans
  <2> QED BY <2>1, <2>2, <2>3 DEF DeleteRows
<1> QED BY <1>1, <1>2, <1>3

\* Every action preserves the chain invariant, one insert at a time.
LEMMA ChainStep ==
    ASSUME OneIngest
    PROVE  ChainInv /\ [Next]_vars => ChainInv'
<1> SUFFICES ASSUME ChainInv, [Next]_vars
             PROVE  (OpenInsertIsCurrent /\ LinksAreStored /\ ChainsLinked)'
  BY TypeStep DEF ChainInv
<1> DEFINE Goal == (OpenInsertIsCurrent /\ LinksAreStored /\ ChainsLinked)'
<1>1. ASSUME NEW w \in Ingests, NEW c \in Fps, NEW anchor \in BOOLEAN,
             InsertBegin(w, c, anchor)
      PROVE  Goal
  <2>1. PICK i \in IssuerChoice(c) :
          ins' = [ins EXCEPT ![w] = [pc |-> "open", cert |-> c, anchor |-> anchor,
                                     up |-> i, down |-> Orphans(c)]]
    BY <1>1 DEF InsertBegin
  <2>2. certs' = certs /\ issuer' = issuer /\ c \notin certs
    BY <1>1 DEF InsertBegin
  <2>3. IF i = NoFp THEN MayIssue[c] \cap certs = {}
        ELSE i \in certs \cap MayIssue[c]
    BY CertStoreAssumption DEF IssuerChoice
  <2>4. /\ Ingests = {w}
        /\ ins'[w].cert = c /\ ins'[w].up = i /\ ins'[w].down = Orphans(c)
    BY <2>1, OneIngest DEF OneIngest, ChainInv, TypeOK
  <2>5. Orphans(c)' = Orphans(c)
    BY <2>2 DEF Orphans
  <2>6. OpenInsertIsCurrent'
    BY <2>2, <2>3, <2>4, <2>5 DEF OpenInsertIsCurrent, Orphans
  <2> QED BY <2>2, <2>6 DEF ChainInv, LinksAreStored, ChainsLinked
<1>2. ASSUME NEW w \in Ingests, InsertCommit(w) PROVE Goal
  <2> DEFINE c == ins[w].cert
  <2>1. /\ Ingests = {w} /\ ~Open(w)'
        /\ c \in Fps /\ c \notin certs
        /\ IF ins[w].up = NoFp THEN MayIssue[c] \cap certs = {}
           ELSE ins[w].up \in certs \cap MayIssue[c]
        /\ ins[w].down = Orphans(c)
    BY <1>2, OneIngest DEF OneIngest, InsertCommit, Open, ChainInv, TypeOK,
       OpenInsertIsCurrent, Insert
  <2>2. certs' = certs \cup {c}
    BY <1>2 DEF InsertCommit
  <2>3. \A x \in Fps : issuer'[x] = IF x = c THEN ins[w].up
                                    ELSE IF x \in Orphans(c) THEN c
                                    ELSE issuer[x]
    <3>1. \A x \in Fps : issuer'[x] = CASE x = ins[w].cert -> ins[w].up
                                       [] x \in ins[w].down -> ins[w].cert
                                       [] OTHER -> issuer[x]
      BY <1>2 DEF InsertCommit
    <3>2. \A x \in ins[w].down : x # ins[w].cert
      BY <2>1 DEF Orphans
    <3> QED BY <2>1, <3>1, <3>2
  <2> HIDE DEF c
  <2>4. LinksAreStored'
    BY <2>1, <2>2, <2>3 DEF ChainInv, LinksAreStored, Orphans
  <2>5. ChainsLinked'
    <3> SUFFICES ASSUME NEW x \in certs', issuer'[x] = NoFp
                 PROVE  MayIssue[x] \cap certs' = {}
      BY DEF ChainsLinked
    <3>0. x \in Fps
      BY <2>1, <2>2 DEF ChainInv, TypeOK
    <3>1. CASE x = c
      BY <2>1, <2>2, <2>3, <3>0, <3>1, CertStoreAssumption
    <3>2. CASE x # c
      <4>1. x \in certs /\ x \notin Orphans(c) /\ issuer[x] = NoFp
        BY <2>1, <2>2, <2>3, <3>0, <3>2, CertStoreAssumption
      <4>2. c \notin MayIssue[x]
        BY <4>1 DEF Orphans
      <4> QED BY <2>2, <4>1, <4>2 DEF ChainInv, ChainsLinked
    <3> QED BY <3>1, <3>2
  <2>6. OpenInsertIsCurrent'
    BY <2>1 DEF OpenInsertIsCurrent, Open
  <2> QED BY <2>4, <2>5, <2>6
<1>3. ASSUME NEW w \in Ingests, InsertFails(w) PROVE Goal
  <2>1. Ingests = {w} /\ ~Open(w)' /\ UNCHANGED <<certs, issuer>>
    BY <1>3, OneIngest DEF OneIngest, InsertFails, Open, ChainInv, TypeOK
  <2> QED BY <2>1 DEF ChainInv, OpenInsertIsCurrent, Open, LinksAreStored,
                      ChainsLinked
<1>4. CASE UNCHANGED <<certs, issuer, ins>>
  BY <1>4 DEF ChainInv, OpenInsertIsCurrent, Open, Orphans, LinksAreStored,
              ChainsLinked
<1>5. ASSUME NEW c \in Fps,
             \/ LinkCert(c) \/ UnlinkCert(c)
             \/ MarkTrustAnchor(c) \/ UnmarkTrustAnchor(c)
             \/ UpsertDiscoveryInboxItem(c) \/ DeleteDiscoveryInboxItem(c)
      PROVE  UNCHANGED <<certs, issuer, ins>>
  BY <1>5 DEF LinkCert, UnlinkCert, MarkTrustAnchor, UnmarkTrustAnchor,
              UpsertDiscoveryInboxItem, DeleteDiscoveryInboxItem
<1>6. ASSUME NEW c \in Fps, DeleteCertificate(c) \/ PurgeCertificate(c)
      PROVE  Goal
  <2>1. {c} \in SUBSET certs /\ DeleteRows({c}) /\ UNCHANGED ins
        /\ {c} \cap Locked = {} /\ ~IsIssuer(c)
    BY <1>6 DEF DeleteCertificate, PurgeCertificate
  <2> QED BY <2>1, DeleteKeepsChains
<1>7. CASE PurgeUnreferencedCerts
  <2> DEFINE gone == {c \in certs : Unreferenced(c)}
  <2>1. DeleteRows(gone) /\ UNCHANGED ins /\ gone \cap Locked = {}
    BY <1>7 DEF PurgeUnreferencedCerts
  <2>2. gone \in SUBSET certs /\ \A c \in gone : ~IsIssuer(c)
    BY DEF Unreferenced
  <2> HIDE DEF gone
  <2> QED BY <2>1, <2>2, DeleteKeepsChains
<1>8. CASE Restart
  <2>1. certs' = certs /\ \A w \in Ingests : ~Open(w)'
    BY <1>8 DEF Restart, Open, ChainInv, TypeOK, Insert
  <2>2. issuer' = issuer
    <3>1. \A c \in Fps : ~(c \in certs /\ issuer[c] = NoFp
                             /\ MayIssue[c] \cap certs # {})
      BY DEF ChainInv, ChainsLinked
    <3>2. CASE /\ issuer' \in [Fps -> NullFp]
               /\ \A c \in Fps : issuer'[c] = issuer[c]
      BY <3>2 DEF ChainInv, TypeOK
    <3> QED BY <1>8, <3>1, <3>2 DEF Restart
  <2> QED BY <2>1, <2>2 DEF ChainInv, OpenInsertIsCurrent, LinksAreStored,
                            ChainsLinked
<1>9. CASE UNCHANGED vars
  BY <1>4, <1>9 DEF vars
<1> QED
  BY <1>1, <1>2, <1>3, <1>4, <1>5, <1>6, <1>7, <1>8, <1>9 DEF Next

\* With one insert at a time, every certificate whose issuer is stored is
\* linked to a stored, matching issuer, whatever the order of arrival, of
\* deletes, of purges and of restarts, also for issuer relations with cycles.
THEOREM ChainsAreLinked ==
    ASSUME OneIngest
    PROVE  Spec => [](ChainsLinked /\ LinksAreStored)
<1>1. Init => ChainInv
  BY TypeInit DEF Init, ChainInv, OpenInsertIsCurrent, Open, LinksAreStored,
                  ChainsLinked
<1>2. ChainInv => ChainsLinked /\ LinksAreStored
  BY DEF ChainInv
<1> QED BY <1>1, <1>2, OneIngest, ChainStep, PTL DEF Spec

\* A link is never cleared while its certificate stays.
LEMMA LinksPersist ==
    ASSUME ChainInv, [Next]_vars, NEW c \in certs \cap certs', issuer[c] # NoFp
    PROVE  issuer'[c] # NoFp
<1> USE DEF ChainInv, TypeOK
<1>1. ASSUME NEW w \in Ingests, InsertCommit(w) PROVE issuer'[c] # NoFp
  <2>1. ins[w].cert \in Fps /\ ins[w].cert \notin certs
    BY <1>1 DEF InsertCommit, OpenInsertIsCurrent, Insert
  <2> QED BY <1>1, <2>1, CertStoreAssumption DEF InsertCommit
<1>2. ASSUME NEW S \in SUBSET certs, DeleteRows(S) PROVE issuer'[c] # NoFp
  BY <1>2 DEF DeleteRows
<1>3. ASSUME NEW d \in Fps, DeleteCertificate(d) \/ PurgeCertificate(d)
      PROVE  issuer'[c] # NoFp
  BY <1>2, <1>3 DEF DeleteCertificate, PurgeCertificate
<1>4. CASE PurgeUnreferencedCerts
  <2>1. DeleteRows({d \in certs : Unreferenced(d)})
    BY <1>4 DEF PurgeUnreferencedCerts
  <2> QED BY <1>2, <2>1
<1>5. CASE Restart
  BY <1>5 DEF Restart
<1>6. CASE UNCHANGED issuer
  BY <1>6
<1>7. ASSUME NEW d \in Fps,
             \/ LinkCert(d) \/ UnlinkCert(d)
             \/ MarkTrustAnchor(d) \/ UnmarkTrustAnchor(d)
             \/ UpsertDiscoveryInboxItem(d) \/ DeleteDiscoveryInboxItem(d)
      PROVE  UNCHANGED issuer
  BY <1>7 DEF LinkCert, UnlinkCert, MarkTrustAnchor, UnmarkTrustAnchor,
              UpsertDiscoveryInboxItem, DeleteDiscoveryInboxItem
<1>8. ASSUME NEW w \in Ingests, InsertFails(w) PROVE UNCHANGED issuer
  BY <1>8 DEF InsertFails
<1>9. ASSUME NEW w \in Ingests, NEW d \in Fps, NEW anchor \in BOOLEAN,
             InsertBegin(w, d, anchor)
      PROVE  UNCHANGED issuer
  BY <1>9 DEF InsertBegin
<1>10. CASE UNCHANGED vars
  BY <1>6, <1>10 DEF vars
<1> HIDE DEF ChainInv, TypeOK
<1> QED
  BY <1>1, <1>3, <1>4, <1>5, <1>6, <1>7, <1>8, <1>9, <1>10 DEF Next

\* With one insert at a time, no delete and no purge takes away the last stored
\* issuer of a certificate that stays.
THEOREM PurgeKeepsChains ==
    ASSUME OneIngest
    PROVE  Spec => ChainsSurvivePurge
<1> DEFINE Keeps == \A c \in certs \cap certs' :
                       MayIssue[c] \cap certs # {} => MayIssue[c] \cap certs' # {}
<1>1. Init => ChainInv
  BY TypeInit DEF Init, ChainInv, OpenInsertIsCurrent, Open, LinksAreStored,
                  ChainsLinked
<1>2. ChainInv /\ ChainInv' /\ [Next]_vars => [Keeps]_vars
  <2> SUFFICES ASSUME ChainInv, ChainInv', [Next]_vars,
                      NEW c \in certs \cap certs', MayIssue[c] \cap certs # {}
               PROVE  MayIssue[c] \cap certs' # {}
    OBVIOUS
  <2>1. issuer[c] # NoFp /\ c \in Fps
    BY DEF ChainInv, ChainsLinked, TypeOK
  <2>2. CASE issuer'[c] # NoFp
    BY <2>1, <2>2 DEF ChainInv, LinksAreStored
  <2>3. issuer'[c] # NoFp
    BY <2>1, LinksPersist
  <2> QED BY <2>2, <2>3
<1> QED BY <1>1, <1>2, OneIngest, ChainStep, PTL DEF Spec, ChainsSurvivePurge

=============================================================================
