----------------------------- MODULE TrustProofs -----------------------------
(***************************************************************************)
(* Proofs about Trust, for any certificates, programs, listings, chains,   *)
(* and any number of overlapping refreshes and ingests.                    *)
(***************************************************************************)
EXTENDS Trust, TLAPS

(***************************************************************************)
(* Paths                                                                   *)
(***************************************************************************)
\* More anchors and more intermediates never break a path.
LEMMA VerifyMonotone ==
    ASSUME NEW c, NEW R, NEW R2, NEW I, NEW I2,
           R \subseteq R2, I \subseteq I2, Verify(c, R, I)
    PROVE  Verify(c, R2, I2)
<1> SUFFICES ASSUME NEW S \in SUBSET Certs, R2 \subseteq S,
                    \A x \in I2 \cup {c} : Signers[x] \cap S # {} => x \in S
             PROVE  c \in S
    BY DEF Verify
<1>1. R \subseteq S /\ \A x \in I \cup {c} : Signers[x] \cap S # {} => x \in S
    OBVIOUS
<1>2. QED
    BY <1>1 DEF Verify

(***************************************************************************)
(* The inductive invariant                                                 *)
(***************************************************************************)
\* Pools, the pools a job has read and the anchors are within the history, and
\* only CAs are intermediates.
PoolsKnown ==
    /\ inter \subseteq CAs
    /\ \A s \in Stores : anchors[s] \subseteq ever[s] /\ roots[s] \subseteq ever[s]
    /\ \A j \in Jobs : job[j].inter \subseteq CAs
    /\ \A j \in Jobs, s \in Stores : job[j].roots[s] \subseteq ever[s]

Justified(c, v) == \A s \in Stores : v[s] = "yes" => Verify(c, ever[s], CAs)

\* So is every verdict that is still to be persisted.
HeldJustified == \A p \in Procs : \A h \in held[p] : Justified(h[1], h[2])

TrustInv == TypeOK /\ PoolsKnown /\ HeldJustified /\ TrustedWasJustified

\* What Evaluate returns is justified.
LEMMA EvaluateJustified ==
    ASSUME TrustInv, NEW c \in Certs
    PROVE  Evaluate(c) \in Verdict /\ Justified(c, Evaluate(c))
<1>1. Evaluate(c) \in Verdict
    BY DEF Evaluate, Verdict
<1>2. ASSUME NEW s \in Stores, Evaluate(c)[s] = "yes"
      PROVE  Verify(c, ever[s], CAs)
    <2>1. Verify(c, roots[s], inter)
        BY <1>2 DEF Evaluate
    <2>2. roots[s] \subseteq ever[s] /\ inter \subseteq CAs
        BY DEF TrustInv, PoolsKnown
    <2>3. QED
        BY <2>1, <2>2, VerifyMonotone
<1>3. QED
    BY <1>1, <1>2 DEF Justified

(***************************************************************************)
(* Steps                                                                   *)
(***************************************************************************)
\* A job moves on, and the database, the verdicts and the pools stay.
LEMMA JobMoves ==
    ASSUME TrustInv, NEW j \in Jobs, NEW y \in Job,
           y.inter \subseteq CAs, \A s \in Stores : y.roots[s] \subseteq ever[s],
           job' = [job EXCEPT ![j] = y], clean' \in BOOLEAN, events' \in Nat,
           unjudged' \subseteq unjudged, UNCHANGED <<tables, verdict, pools, requests, held>>
    PROVE  TrustInv'
<1>1. job \in [Jobs -> Job]
    BY DEF TrustInv, TypeOK
<1>2. job' \in [Jobs -> Job] /\ \A k \in Jobs : job'[k] = IF k = j THEN y ELSE job[k]
    BY <1>1
<1>3. TypeOK'
    BY <1>2 DEF TrustInv, TypeOK, database, tables, pools, requests
<1>4. PoolsKnown'
    BY <1>2 DEF TrustInv, PoolsKnown, database, tables, pools
<1>5. HeldJustified' /\ TrustedWasJustified'
    BY DEF TrustInv, HeldJustified, Justified, TrustedWasJustified, database, tables
<1>6. QED
    BY <1>3, <1>4, <1>5 DEF TrustInv

\* The shape of a job, part by part.
LEMMA JobParts ==
    ASSUME TrustInv, NEW j \in Jobs
    PROVE  /\ job[j] \in Job /\ job[j].inter \subseteq CAs
           /\ \A s \in Stores : job[j].roots[s] \subseteq ever[s]
           /\ Idle \in Job /\ Idle.inter = {} /\ \A s \in Stores : Idle.roots[s] = {}
<1>1. NoMembers \in Membership /\ \A s \in Stores : NoMembers[s] = {}
    BY DEF NoMembers, Membership
<1> HIDE DEF NoMembers
<1>2. Idle \in Job /\ Idle.inter = {} /\ \A s \in Stores : Idle.roots[s] = {}
    BY <1>1 DEF Idle, Job
<1>3. QED
    BY <1>2 DEF TrustInv, TypeOK, PoolsKnown

\* The events of the model are counted.
LEMMA EventType == ASSUME TrustInv, Event PROVE events' \in Nat
BY DEF TrustInv, TypeOK, Event

\* Refresh keeps the invariant.
LEMMA RefreshStep ==
    ASSUME TrustInv, NEW j \in Jobs, Refresh(j)
    PROVE  TrustInv'
<1> DEFINE x == job[j]
<1>1. /\ x \in Job /\ x.inter \subseteq CAs /\ Idle \in Job
      /\ \A s \in Stores : x.roots[s] \subseteq ever[s]
      /\ Idle.inter = {} /\ \A s \in Stores : Idle.roots[s] = {}
    BY JobParts
<1>2. TypeOK /\ job \in [Jobs -> Job] /\ events \in Nat /\ clean \in BOOLEAN
    BY DEF TrustInv, TypeOK
<1>3. ASSUME NEW m \in Matrices, Fetch(j, m) PROVE TrustInv'
    <2> DEFINE y == [Idle EXCEPT !.pc = "rows", !.matrix = m, !.todo = DOMAIN m]
    <2>1. y \in Job
        BY <1>1, TrustAssumption DEF Job
    <2>2. y.inter = {} /\ y.roots = Idle.roots
        BY <1>1 DEF Job
    <2>3. events' \in Nat /\ clean' \in BOOLEAN
        BY <1>3, EventType DEF Fetch
    <2>4. job' = [job EXCEPT ![j] = y]
          /\ UNCHANGED <<database, verdict, pools, requests, held>>
        BY <1>3 DEF Fetch
    <2> HIDE DEF y
    <2>5. QED
        BY <1>1, <2>1, <2>2, <2>3, <2>4, JobMoves DEF database
<1>4. ASSUME NEW c \in Certs, MarkRow(j, c) PROVE TrustInv'
    <2> DEFINE P == [s \in Stores |->
                       IF Resolves(c) /\ s \in x.matrix[c] THEN x.per[s] \cup {c}
                       ELSE x.per[s]]
               y == [x EXCEPT !.todo = x.todo \ {c}, !.per = P]
    <2>1. x.per \in Membership
        BY <1>1 DEF Job
    <2>2. P \in Membership
        BY <2>1 DEF Membership
    <2>3. job' = [job EXCEPT ![j] = y]
        BY <1>4 DEF MarkRow
    <2> HIDE DEF P
    <2>4. y \in Job /\ y.inter = x.inter /\ y.roots = x.roots
        BY <1>1, <2>2 DEF Job
    <2> HIDE DEF y
    <2>5. job' \in [Jobs -> Job] /\ \A k \in Jobs : job'[k] = IF k = j THEN y ELSE job[k]
        BY <1>2, <2>3, <2>4
    <2>6. /\ stored \subseteq stored' /\ stored' \subseteq Certs /\ flagged' \subseteq stored'
          /\ UNCHANGED <<anchors, ever, verdict, pools, requests, held, clean, unjudged, events>>
        BY <1>2, <1>4 DEF MarkRow, TypeOK
    <2>7. anchors' \in [Stores -> SUBSET stored']
        BY <1>2, <2>6 DEF TypeOK
    <2>8. TypeOK'
        BY <1>2, <2>5, <2>6, <2>7 DEF TypeOK, pools, requests
    <2>9. PoolsKnown'
        BY <1>1, <2>4, <2>5, <2>6 DEF TrustInv, PoolsKnown, pools
    <2>10. HeldJustified' /\ TrustedWasJustified'
        BY <2>6 DEF TrustInv, HeldJustified, Justified, TrustedWasJustified
    <2>11. QED
        BY <2>8, <2>9, <2>10 DEF TrustInv
<1>5. CASE EndRows(j)
    <2> DEFINE y == [x EXCEPT !.pc = "replace", !.left = Stores]
    <2>1. y \in Job /\ y.inter = x.inter /\ y.roots = x.roots
        BY <1>1 DEF Job
    <2>2. job' = [job EXCEPT ![j] = y]
          /\ UNCHANGED <<database, verdict, pools, requests, held, clean, events>>
        BY <1>5 DEF EndRows
    <2> HIDE DEF y
    <2>3. QED
        BY <1>1, <1>2, <2>1, <2>2, JobMoves DEF database
<1>6. ASSUME NEW s \in Stores, Replace(j, s) PROVE TrustInv'
    <2> DEFINE y == [x EXCEPT !.left = x.left \ {s}]
    <2>1. y \in Job /\ y.inter = x.inter /\ y.roots = x.roots
        BY <1>1 DEF Job
    <2>2. /\ job' = [job EXCEPT ![j] = y]
          /\ UNCHANGED <<stored, flagged, verdict, pools, requests, held, clean, unjudged, events>>
          /\ anchors' = ReplaceRootStoreAnchors(s, x.per[s])
          /\ ever' = [t \in Stores |-> ever[t] \cup anchors'[t]]
        BY <1>6 DEF Replace
    <2> HIDE DEF y
    <2>3. job' \in [Jobs -> Job] /\ \A k \in Jobs : job'[k] = IF k = j THEN y ELSE job[k]
        BY <1>2, <2>1, <2>2
    <2>4. anchors' \in [Stores -> SUBSET stored]
        BY <1>2, <2>2 DEF ReplaceRootStoreAnchors, TypeOK
    <2>5. /\ ever' \in Membership
          /\ \A t \in Stores : ever[t] \subseteq ever'[t] /\ anchors'[t] \subseteq ever'[t]
        BY <1>2, <2>2, <2>4 DEF TypeOK, Membership
    <2>6. TypeOK'
        BY <1>2, <2>2, <2>3, <2>4, <2>5 DEF TypeOK, pools, requests
    <2>7. PoolsKnown'
        BY <1>1, <2>1, <2>2, <2>3, <2>5 DEF TrustInv, PoolsKnown, pools
    <2>8. \A c, t : t \in Stores /\ Verify(c, ever[t], CAs) => Verify(c, ever'[t], CAs)
        BY <2>5, VerifyMonotone
    <2>9. HeldJustified' /\ TrustedWasJustified'
        BY <2>2, <2>8 DEF TrustInv, HeldJustified, Justified, TrustedWasJustified
    <2>10. QED
        BY <2>6, <2>7, <2>9 DEF TrustInv
<1>7. CASE ReconcileTrustAnchorFlags(j)
    <2> DEFINE y == [x EXCEPT !.pc = "anchors"]
    <2>1. y \in Job /\ y.inter = x.inter /\ y.roots = x.roots
        BY <1>1 DEF Job
    <2>2. /\ job' = [job EXCEPT ![j] = y] /\ flagged' \subseteq stored
          /\ UNCHANGED <<stored, anchors, ever, verdict, pools, requests, held, clean, unjudged, events>>
        BY <1>7 DEF ReconcileTrustAnchorFlags
    <2> HIDE DEF y
    <2>3. job' \in [Jobs -> Job] /\ \A k \in Jobs : job'[k] = IF k = j THEN y ELSE job[k]
        BY <1>2, <2>1, <2>2
    <2>4. TypeOK'
        BY <1>2, <2>2, <2>3 DEF TypeOK, pools, requests
    <2>5. PoolsKnown'
        BY <1>1, <2>1, <2>2, <2>3 DEF TrustInv, PoolsKnown, pools
    <2>6. HeldJustified' /\ TrustedWasJustified'
        BY <2>2 DEF TrustInv, HeldJustified, Justified, TrustedWasJustified
    <2>7. QED
        BY <2>4, <2>5, <2>6 DEF TrustInv
<1>8. QED
    BY <1>3, <1>4, <1>5, <1>6, <1>7 DEF Refresh

\* LoadPools and the walk of ReevaluateAll keep the invariant.
LEMMA EvaluatorStep ==
    ASSUME TrustInv, NEW j \in Jobs, LoadPools(j) \/ ReevaluateAll(j)
    PROVE  TrustInv'
<1> DEFINE x == job[j]
<1>1. /\ x \in Job /\ x.inter \subseteq CAs /\ Idle \in Job
      /\ \A s \in Stores : x.roots[s] \subseteq ever[s]
      /\ Idle.inter = {} /\ \A s \in Stores : Idle.roots[s] = {}
    BY JobParts
<1>2. TypeOK /\ job \in [Jobs -> Job] /\ events \in Nat /\ clean \in BOOLEAN
    BY DEF TrustInv, TypeOK
<1>3. CASE ListAnchorPEMsByStore(j)
    <2> DEFINE y == [x EXCEPT !.pc = "others", !.roots = anchors]
    <2>1. anchors \in Membership /\ \A s \in Stores : anchors[s] \subseteq ever[s]
        BY <1>2 DEF TrustInv, PoolsKnown, TypeOK, Membership
    <2>2. y \in Job /\ y.inter = x.inter /\ y.roots = anchors
        BY <1>1, <2>1 DEF Job
    <2>3. job' = [job EXCEPT ![j] = y]
          /\ UNCHANGED <<database, verdict, pools, requests, held, clean, events>>
        BY <1>3 DEF ListAnchorPEMsByStore
    <2> HIDE DEF y
    <2>4. QED
        BY <1>1, <1>2, <2>1, <2>2, <2>3, JobMoves DEF database
<1>4. CASE ListNonAnchorCertPEMs(j)
    <2> DEFINE y == [x EXCEPT !.pc = "swap", !.inter = NonAnchorCAs]
    <2>1. NonAnchorCAs \subseteq CAs /\ NonAnchorCAs \subseteq Certs
        BY TrustAssumption DEF NonAnchorCAs
    <2>2. y \in Job /\ y.inter = NonAnchorCAs /\ y.roots = x.roots
        BY <1>1, <2>1 DEF Job
    <2>3. job' = [job EXCEPT ![j] = y]
          /\ UNCHANGED <<database, verdict, pools, requests, held, clean, events>>
        BY <1>4 DEF ListNonAnchorCertPEMs
    <2> HIDE DEF y
    <2>4. QED
        BY <1>1, <1>2, <2>1, <2>2, <2>3, JobMoves DEF database
<1>5. CASE Swap(j)
    <2> DEFINE y == [x EXCEPT !.pc = "list"]
    <2>1. y \in Job /\ y.inter = x.inter /\ y.roots = x.roots
        BY <1>1 DEF Job
    <2>2. /\ job' = [job EXCEPT ![j] = y] /\ roots' = x.roots /\ inter' = x.inter
          /\ clean' \in BOOLEAN
          /\ UNCHANGED <<database, verdict, requests, held, events>>
        BY <1>2, <1>5 DEF Swap
    <2>3. x.roots \in Membership /\ x.inter \subseteq Certs
        BY <1>1 DEF Job
    <2> HIDE DEF y
    <2>4. job' \in [Jobs -> Job] /\ \A k \in Jobs : job'[k] = IF k = j THEN y ELSE job[k]
        BY <1>2, <2>1, <2>2
    <2>5. TypeOK'
        BY <1>2, <2>2, <2>3, <2>4 DEF TypeOK, database, tables, requests
    <2>6. PoolsKnown'
        BY <1>1, <2>1, <2>2, <2>4 DEF TrustInv, PoolsKnown, database, tables
    <2>7. HeldJustified' /\ TrustedWasJustified'
        BY <2>2 DEF TrustInv, HeldJustified, Justified, TrustedWasJustified, database, tables
    <2>8. QED
        BY <2>5, <2>6, <2>7 DEF TrustInv
<1>6. CASE ListForWalk(j)
    <2> DEFINE y == [x EXCEPT !.pc = "walk", !.todo = ForEachCert]
    <2>1. ForEachCert \subseteq Certs
        BY <1>2 DEF ForEachCert, TypeOK
    <2>2. y \in Job /\ y.inter = x.inter /\ y.roots = x.roots
        BY <1>1, <2>1 DEF Job
    <2>3. job' = [job EXCEPT ![j] = y]
          /\ unjudged' = {}
          /\ UNCHANGED <<tables, verdict, pools, requests, held, clean, events>>
        BY <1>6 DEF ListForWalk
    <2> HIDE DEF y
    <2>4. QED
        BY <1>1, <1>2, <2>2, <2>3, JobMoves DEF database
<1>7. ASSUME NEW c \in Certs, Reevaluate(j, c) PROVE TrustInv'
    <2> DEFINE y == [x EXCEPT !.todo = x.todo \ {c}]
               h == <<c, Evaluate(c)>>
    <2>1. y \in Job /\ y.inter = x.inter /\ y.roots = x.roots
        BY <1>1 DEF Job
    <2>2. /\ job' = [job EXCEPT ![j] = y] /\ held' = [held EXCEPT ![j] = {h}]
          /\ UNCHANGED <<database, verdict, pools, requests, clean, events>>
        BY <1>7 DEF Reevaluate
    <2>3. h \in Certs \X Verdict /\ Justified(h[1], h[2])
        BY EvaluateJustified
    <2> HIDE DEF y, h
    <2>4. job' \in [Jobs -> Job] /\ \A k \in Jobs : job'[k] = IF k = j THEN y ELSE job[k]
        BY <1>2, <2>1, <2>2
    <2>5. /\ held' \in [Procs -> SUBSET (Certs \X Verdict)]
          /\ \A p \in Procs : held'[p] = IF p = j THEN {h} ELSE held[p]
        BY <1>2, <2>2, <2>3 DEF TypeOK, Procs
    <2>6. TypeOK'
        BY <1>2, <2>2, <2>4, <2>5 DEF TypeOK, database, tables, pools, requests
    <2>7. PoolsKnown'
        BY <1>1, <2>1, <2>2, <2>4 DEF TrustInv, PoolsKnown, database, tables, pools
    <2>8. HeldJustified'
        BY <2>2, <2>3, <2>5 DEF TrustInv, HeldJustified, Justified, database, tables
    <2>9. TrustedWasJustified'
        BY <2>2 DEF TrustInv, TrustedWasJustified, database, tables
    <2>10. QED
        BY <2>6, <2>7, <2>8, <2>9 DEF TrustInv
<1>8. CASE EndWalk(j)
    <2>1. job' = [job EXCEPT ![j] = Idle]
          /\ UNCHANGED <<database, verdict, pools, requests, held, clean, events>>
        BY <1>8 DEF EndWalk
    <2>2. QED
        BY <1>1, <1>2, <2>1, JobMoves DEF database
<1>9. QED
    BY <1>3, <1>4, <1>5, <1>6, <1>7, <1>8 DEF LoadPools, ReevaluateAll

\* Probe requests keep the invariant, failing or not.
LEMMA IngestStep ==
    ASSUME TrustInv, NEW w \in Ingests, Result(w) \/ IngestFails(w)
    PROVE  TrustInv'
<1>1. TypeOK /\ chain \in [Ingests -> Seq(Certs)] /\ events \in Nat /\ clean \in BOOLEAN
    BY DEF TrustInv, TypeOK
<1>2. chain[w] # <<>> => Head(chain[w]) \in Certs /\ Tail(chain[w]) \in Seq(Certs)
    BY <1>1
<1>3. ASSUME NEW ch \in Chains, Submit(w, ch) PROVE TrustInv'
    <2>1. events' \in Nat
        BY <1>3, EventType DEF Submit
    <2>2. chain' \in [Ingests -> Seq(Certs)]
        BY <1>1, <1>3, TrustAssumption DEF Submit
    <2>3. UNCHANGED <<database, verdict, pools, job, step, held, clean>>
        BY <1>3 DEF Submit
    <2>4. TypeOK'
        BY <1>1, <2>1, <2>2, <2>3 DEF TypeOK, database, tables, pools
    <2>5. PoolsKnown' /\ HeldJustified' /\ TrustedWasJustified'
        BY <2>3 DEF TrustInv, PoolsKnown, HeldJustified, Justified, TrustedWasJustified,
                    database, tables, pools
    <2>6. QED
        BY <2>4, <2>5 DEF TrustInv
<1>4. CASE InsertCertificate(w)
    <2>1. /\ stored \subseteq stored' /\ stored' \subseteq Certs
          /\ step' \in [Ingests -> {"insert", "add", "evaluate"}]
          /\ UNCHANGED <<flagged, anchors, ever, verdict, pools, job, chain, held, clean,
                         unjudged, events>>
        BY <1>1, <1>2, <1>4 DEF InsertCertificate, Busy, TypeOK
    <2>2. anchors' \in [Stores -> SUBSET stored']
        BY <1>1, <2>1 DEF TypeOK
    <2>3. TypeOK'
        BY <1>1, <2>1, <2>2 DEF TypeOK, pools
    <2>4. PoolsKnown' /\ HeldJustified' /\ TrustedWasJustified'
        BY <2>1 DEF TrustInv, PoolsKnown, HeldJustified, Justified, TrustedWasJustified,
                    pools
    <2>5. QED
        BY <2>3, <2>4 DEF TrustInv
<1>5. CASE Learn(w)
    <2>1. /\ inter' = AddIntermediate(Head(chain[w]))
          /\ step' \in [Ingests -> {"insert", "add", "evaluate"}]
          /\ UNCHANGED <<database, verdict, roots, job, chain, held, clean, events>>
        BY <1>1, <1>5 DEF Learn, TypeOK
    <2>2. inter' \subseteq CAs /\ inter' \subseteq Certs
        BY <2>1, TrustAssumption DEF AddIntermediate, TrustInv, PoolsKnown
    <2>3. TypeOK'
        BY <1>1, <2>1, <2>2 DEF TypeOK, database, tables
    <2>4. PoolsKnown' /\ HeldJustified' /\ TrustedWasJustified'
        BY <2>1, <2>2 DEF TrustInv, PoolsKnown, HeldJustified, Justified,
                          TrustedWasJustified, database, tables
    <2>5. QED
        BY <2>3, <2>4 DEF TrustInv
<1>6. CASE Judge(w)
    <2> DEFINE c == Head(chain[w])
               h == <<c, Evaluate(c)>>
    <2>1. c \in Certs
        BY <1>2, <1>6 DEF Judge, Busy
    <2>2. /\ held' = [held EXCEPT ![w] = {h}] /\ chain' = [chain EXCEPT ![w] = Tail(@)]
          /\ step' = [step EXCEPT ![w] = "insert"]
          /\ UNCHANGED <<database, verdict, pools, job, clean, events>>
        BY <1>6 DEF Judge
    <2>3. h \in Certs \X Verdict /\ Justified(h[1], h[2])
        BY <2>1, EvaluateJustified
    <2> HIDE DEF h
    <2>4. /\ held' \in [Procs -> SUBSET (Certs \X Verdict)]
          /\ \A p \in Procs : held'[p] = IF p = w THEN {h} ELSE held[p]
        BY <1>1, <2>2, <2>3 DEF TypeOK, Procs
    <2>5. chain' \in [Ingests -> Seq(Certs)] /\ step' \in [Ingests -> {"insert", "add", "evaluate"}]
        BY <1>1, <1>2, <1>6, <2>2 DEF TypeOK, Judge, Busy
    <2>6. TypeOK'
        BY <1>1, <2>2, <2>4, <2>5 DEF TypeOK, database, tables, pools
    <2>7. HeldJustified'
        BY <2>2, <2>3, <2>4 DEF TrustInv, HeldJustified, Justified, database, tables
    <2>8. PoolsKnown' /\ TrustedWasJustified'
        BY <2>2 DEF TrustInv, PoolsKnown, TrustedWasJustified, database, tables, pools
    <2>9. QED
        BY <2>6, <2>7, <2>8 DEF TrustInv
<1>7. CASE IngestFails(w)
    <2>1. events' \in Nat
        BY <1>7, EventType DEF IngestFails
    <2>2. /\ chain' \in [Ingests -> Seq(Certs)]
          /\ held' \in [Procs -> SUBSET (Certs \X Verdict)]
          /\ \A p \in Procs : held'[p] = {} \/ held'[p] = held[p]
        <3>1. CASE Busy(w, "insert") /\ chain' = [chain EXCEPT ![w] = Tail(@)] /\ UNCHANGED held
            BY <1>1, <1>2, <3>1 DEF Busy, TypeOK
        <3>2. CASE held' = [held EXCEPT ![w] = {}] /\ UNCHANGED chain
            BY <1>1, <3>2 DEF TypeOK
        <3>3. QED
            BY <1>7, <3>1, <3>2 DEF IngestFails
    <2>3. clean' \in BOOLEAN /\ UNCHANGED <<database, verdict, pools, job, step>>
        BY <1>7 DEF IngestFails
    <2>4. TypeOK'
        BY <1>1, <2>1, <2>2, <2>3 DEF TypeOK, database, tables, pools
    <2>5. HeldJustified'
        BY <2>2, <2>3 DEF TrustInv, HeldJustified, Justified, database, tables
    <2>6. PoolsKnown' /\ TrustedWasJustified'
        BY <2>3 DEF TrustInv, PoolsKnown, TrustedWasJustified, database, tables, pools
    <2>7. QED
        BY <2>4, <2>5, <2>6 DEF TrustInv
<1>8. QED
    BY <1>3, <1>4, <1>5, <1>6, <1>7 DEF Result

\* Persisting a held verdict keeps the invariant.
LEMMA PersistStep ==
    ASSUME TrustInv, NEW p \in Procs, Persist(p)
    PROVE  TrustInv'
<1>1. TypeOK
    BY DEF TrustInv
<1>2. PICK h \in held[p] :
        /\ verdict' = UpsertCertificateTrust(h[1], h[2])
        /\ held' = [held EXCEPT ![p] = {}]
        /\ unjudged' = unjudged \ {h[1]}
        /\ UNCHANGED <<tables, pools, job, requests, clean, events>>
    BY DEF Persist
<1> DEFINE c == h[1]  v == h[2]
           new == IF c \notin stored THEN verdict[c]
                  ELSE [s \in Stores |-> IF v[s] = "none" THEN verdict[c][s] ELSE v[s]]
<1>3. c \in Certs /\ v \in Verdict /\ Justified(c, v)
    BY <1>1 DEF TypeOK, TrustInv, HeldJustified
<1>4. verdict' = [verdict EXCEPT ![c] = new]
    BY <1>2 DEF UpsertCertificateTrust
<1>5. verdict[c] \in Verdict
    BY <1>1, <1>3 DEF TypeOK
<1> HIDE DEF c, v
<1>6. new \in Verdict
    BY <1>3, <1>5 DEF Verdict
<1>7. \A s \in Stores : new[s] = "yes" => verdict[c][s] = "yes" \/ v[s] = "yes"
    OBVIOUS
<1>8. c \notin stored => new = verdict[c]
    OBVIOUS
<1> HIDE DEF new
<1>9. verdict' \in [Certs -> Verdict] /\ \A d \in Certs : verdict'[d] = IF d = c THEN new ELSE verdict[d]
    BY <1>1, <1>3, <1>4, <1>6 DEF TypeOK
<1>10. \A d \in Certs \ stored, s \in Stores : verdict'[d][s] = "none"
    BY <1>1, <1>8, <1>9 DEF TypeOK
<1>11. held' \in [Procs -> SUBSET (Certs \X Verdict)] /\ \A q \in Procs : held'[q] = {} \/ held'[q] = held[q]
    BY <1>1, <1>2 DEF TypeOK
<1>12. TypeOK'
    BY <1>1, <1>2, <1>9, <1>10, <1>11 DEF TypeOK, database, tables, pools, requests
<1>13. TrustedWasJustified'
    BY <1>2, <1>3, <1>7, <1>9 DEF TrustInv, TrustedWasJustified, Justified, database, tables
<1>14. HeldJustified'
    BY <1>2, <1>11 DEF TrustInv, HeldJustified, Justified, database, tables
<1>15. PoolsKnown'
    BY <1>2 DEF TrustInv, PoolsKnown, database, tables, pools
<1>16. QED
    BY <1>12, <1>13, <1>14, <1>15 DEF TrustInv

\* Failing statements of a job keep the invariant.
LEMMA JobFailsStep ==
    ASSUME TrustInv, NEW j \in Jobs, JobFails(j)
    PROVE  TrustInv'
<1> DEFINE x == job[j]
<1>1. /\ x \in Job /\ x.inter \subseteq CAs /\ Idle \in Job
      /\ \A s \in Stores : x.roots[s] \subseteq ever[s]
      /\ Idle.inter = {} /\ \A s \in Stores : Idle.roots[s] = {}
    BY JobParts
<1>2. /\ events' \in Nat /\ clean' \in BOOLEAN
      /\ UNCHANGED <<database, verdict, pools, requests>>
    BY EventType DEF JobFails
<1>3. CASE UNCHANGED job /\ held' = [held EXCEPT ![j] = {}]
    <2>1. /\ held' \in [Procs -> SUBSET (Certs \X Verdict)]
          /\ \A q \in Procs : held'[q] = {} \/ held'[q] = held[q]
        BY <1>3 DEF TrustInv, TypeOK
    <2>2. TypeOK'
        BY <1>2, <1>3, <2>1 DEF TrustInv, TypeOK, database, tables, pools, requests
    <2>3. HeldJustified'
        BY <1>2, <2>1 DEF TrustInv, HeldJustified, Justified, database, tables
    <2>4. PoolsKnown' /\ TrustedWasJustified'
        BY <1>2, <1>3 DEF TrustInv, PoolsKnown, TrustedWasJustified, database, tables, pools
    <2>5. QED
        BY <2>2, <2>3, <2>4 DEF TrustInv
<1>4. ASSUME UNCHANGED held, NEW y \in Job, y.inter = x.inter, y.roots = x.roots,
             job' = [job EXCEPT ![j] = y]
      PROVE  TrustInv'
    BY <1>1, <1>2, <1>4, JobMoves DEF database
<1>5. ASSUME UNCHANGED held, NEW c \in x.todo, job' = [job EXCEPT ![j].todo = @ \ {c}]
      PROVE  TrustInv'
    <2> DEFINE y == [x EXCEPT !.todo = x.todo \ {c}]
    <2>1. y \in Job /\ y.inter = x.inter /\ y.roots = x.roots
        BY <1>1 DEF Job
    <2>2. job' = [job EXCEPT ![j] = y]
        BY <1>5
    <2> HIDE DEF y
    <2>3. QED
        BY <1>4, <1>5, <2>1, <2>2
<1>6. ASSUME UNCHANGED held, NEW s \in x.left, job' = [job EXCEPT ![j].left = @ \ {s}]
      PROVE  TrustInv'
    <2> DEFINE y == [x EXCEPT !.left = x.left \ {s}]
    <2>1. y \in Job /\ y.inter = x.inter /\ y.roots = x.roots
        BY <1>1 DEF Job
    <2>2. job' = [job EXCEPT ![j] = y]
        BY <1>6
    <2> HIDE DEF y
    <2>3. QED
        BY <1>4, <1>6, <2>1, <2>2
<1>7. CASE UNCHANGED held /\ job' = [job EXCEPT ![j].pc = "anchors"]
    <2> DEFINE y == [x EXCEPT !.pc = "anchors"]
    <2>1. y \in Job /\ y.inter = x.inter /\ y.roots = x.roots
        BY <1>1 DEF Job
    <2>2. job' = [job EXCEPT ![j] = y]
        BY <1>7
    <2> HIDE DEF y
    <2>3. QED
        BY <1>4, <1>7, <2>1, <2>2
<1>8. CASE UNCHANGED held /\ job' = [job EXCEPT ![j] = Idle]
    BY <1>1, <1>2, <1>8, JobMoves DEF database
<1>9. QED
    BY <1>3, <1>5, <1>6, <1>7, <1>8 DEF JobFails

\* Deletions keep the invariant.
LEMMA DeleteStep ==
    ASSUME TrustInv, NEW c \in Certs, DeleteCertificate(c)
    PROVE  TrustInv'
<1>1. TypeOK /\ events' \in Nat
    BY EventType DEF DeleteCertificate, TrustInv
<1>2. /\ stored' = stored \ {c} /\ flagged' = flagged \ {c}
      /\ anchors' = [s \in Stores |-> anchors[s] \ {c}]
      /\ verdict' = [verdict EXCEPT ![c] = [s \in Stores |-> "none"]]
      /\ clean' = FALSE /\ unjudged' = unjudged \ {c}
      /\ UNCHANGED <<ever, pools, job, requests, held>>
    BY DEF DeleteCertificate
<1>3. anchors' \in [Stores -> SUBSET stored'] /\ \A s \in Stores : anchors'[s] \subseteq anchors[s]
    BY <1>1, <1>2 DEF TypeOK
<1>4. /\ verdict' \in [Certs -> Verdict]
      /\ \A d \in Certs : verdict'[d] = IF d = c THEN [s \in Stores |-> "none"] ELSE verdict[d]
    BY <1>1, <1>2 DEF TypeOK, Verdict
<1>5. \A d \in Certs \ stored', s \in Stores : verdict'[d][s] = "none"
    BY <1>1, <1>2, <1>4 DEF TypeOK
<1>6. TypeOK'
    BY <1>1, <1>2, <1>3, <1>4, <1>5 DEF TypeOK, pools, requests
<1>7. PoolsKnown' /\ HeldJustified'
    BY <1>2, <1>3 DEF TrustInv, PoolsKnown, HeldJustified, Justified, pools
<1>8. TrustedWasJustified'
    BY <1>2, <1>4 DEF TrustInv, TrustedWasJustified
<1>9. QED
    BY <1>6, <1>7, <1>8 DEF TrustInv

\* Restarts keep the invariant.
LEMMA RestartStep ==
    ASSUME TrustInv, NEW j \in Jobs, NEW loaded \in BOOLEAN, Restart(j, loaded)
    PROVE  TrustInv'
<1> DEFINE y == [Idle EXCEPT !.pc = "list"]
<1>1. Idle \in Job /\ Idle.inter = {} /\ \A s \in Stores : Idle.roots[s] = {}
    BY JobParts
<1>2. y \in Job /\ y.inter = {} /\ \A s \in Stores : y.roots[s] = {}
    BY <1>1 DEF Job
<1>3. TypeOK /\ events' \in Nat
    BY EventType DEF Restart, TrustInv
<1>4. /\ job' = [k \in Jobs |-> IF k = j THEN y ELSE Idle]
      /\ roots' = IF loaded THEN anchors ELSE NoMembers
      /\ inter' = IF loaded THEN NonAnchorCAs ELSE {}
      /\ chain' = [w \in Ingests |-> <<>>] /\ step' = [w \in Ingests |-> "insert"]
      /\ held' = [p \in Procs |-> {}] /\ clean' = FALSE /\ UNCHANGED <<database, verdict>>
    BY DEF Restart
<1> HIDE DEF y
<1>5. NoMembers \in Membership /\ \A s \in Stores : NoMembers[s] = {}
    BY DEF NoMembers, Membership
<1>6. anchors \in Membership /\ \A s \in Stores : anchors[s] \subseteq ever[s]
    BY <1>3 DEF TrustInv, PoolsKnown, TypeOK, Membership
<1>7. NonAnchorCAs \subseteq CAs /\ NonAnchorCAs \subseteq Certs
    BY TrustAssumption DEF NonAnchorCAs
<1>8. /\ roots' \in Membership /\ \A s \in Stores : roots'[s] \subseteq ever[s]
      /\ inter' \subseteq CAs /\ inter' \subseteq Certs
    BY <1>4, <1>5, <1>6, <1>7
<1>9. /\ job' \in [Jobs -> Job]
      /\ \A k \in Jobs : job'[k].inter = {} /\ \A s \in Stores : job'[k].roots[s] = {}
    BY <1>1, <1>2, <1>4
<1>10. chain' \in [Ingests -> Seq(Certs)]
    <2>1. <<>> \in Seq(Certs)
        OBVIOUS
    <2>2. QED
        BY <1>4, <2>1
<1>11. TypeOK'
    BY <1>3, <1>4, <1>8, <1>9, <1>10 DEF TypeOK, database, tables
<1>12. PoolsKnown'
    BY <1>4, <1>6, <1>8, <1>9 DEF PoolsKnown, database, tables
<1>13. HeldJustified' /\ TrustedWasJustified'
    BY <1>4 DEF TrustInv, HeldJustified, TrustedWasJustified, database, tables
<1>14. QED
    BY <1>11, <1>12, <1>13 DEF TrustInv

\* Uploads keep the invariant.
LEMMA UploadStep ==
    ASSUME TrustInv, NEW c \in Certs, Upload(c)
    PROVE  TrustInv'
<1>1. TypeOK /\ events' \in Nat
    BY EventType DEF Upload, TrustInv
<1>2. /\ stored' = stored \cup {c} /\ unjudged' = unjudged \cup {c}
      /\ UNCHANGED <<flagged, anchors, ever, verdict, pools, job, requests, held, clean>>
    BY DEF Upload
<1>3. anchors' \in [Stores -> SUBSET stored']
    BY <1>1, <1>2 DEF TypeOK
<1>4. TypeOK'
    BY <1>1, <1>2, <1>3 DEF TypeOK, pools, requests
<1>5. PoolsKnown' /\ HeldJustified' /\ TrustedWasJustified'
    BY <1>2 DEF TrustInv, PoolsKnown, HeldJustified, Justified, TrustedWasJustified, pools
<1>6. QED
    BY <1>4, <1>5 DEF TrustInv

\* Every step keeps the invariant.
LEMMA TrustStep == TrustInv /\ [Next]_vars => TrustInv'
<1> SUFFICES ASSUME TrustInv, [Next]_vars PROVE TrustInv'
    OBVIOUS
<1>1. CASE UNCHANGED vars
    BY <1>1 DEF vars, TrustInv, TypeOK, PoolsKnown, HeldJustified, Justified,
                TrustedWasJustified
<1>2. CASE Next
    BY <1>2, RefreshStep, EvaluatorStep, JobFailsStep, IngestStep, PersistStep, UploadStep,
       DeleteStep, RestartStep DEF Next
<1>3. QED
    BY <1>1, <1>2

\* It holds at first.
LEMMA TrustInit == Init => TrustInv
<1> SUFFICES ASSUME Init PROVE TrustInv
    OBVIOUS
<1>1. NoMembers \in Membership /\ NoMembers \in [Stores -> SUBSET stored]
      /\ \A s \in Stores : NoMembers[s] = {}
    BY DEF NoMembers, Membership
<1>2. Idle \in Job /\ Idle.inter = {} /\ Idle.roots = NoMembers
    BY <1>1 DEF Idle, Job
<1> HIDE DEF NoMembers, Idle
<1>3. <<>> \in Seq(Certs)
    OBVIOUS
<1>4. verdict \in [Certs -> Verdict] /\ \A c \in Certs, s \in Stores : verdict[c][s] = "none"
    BY DEF Init, Verdict
<1>5. chain \in [Ingests -> Seq(Certs)] /\ job \in [Jobs -> Job]
    BY <1>2, <1>3 DEF Init
<1>6. TypeOK
    BY <1>1, <1>4, <1>5 DEF Init, TypeOK
<1>7. PoolsKnown
    BY <1>1, <1>2 DEF Init, PoolsKnown
<1>8. HeldJustified /\ TrustedWasJustified
    BY <1>4 DEF Init, HeldJustified, TrustedWasJustified
<1>9. QED
    BY <1>6, <1>7, <1>8 DEF TrustInv

(***************************************************************************)
(* A refresh that nothing disturbs                                         *)
(***************************************************************************)
\* A process holds one verdict at a time, and a job only while it walks.
HeldOnce ==
    /\ \A p \in Procs : \A g, h \in held[p] : g = h
    /\ \A j \in Jobs : held[j] # {} => At(j, "walk")

\* What a verdict of the present anchors looks like.
Fresh(c, v) ==
    \A s \in Stores : anchors[s] # {} =>
        /\ v[s] # "none"
        /\ v[s] = "yes" => Verify(c, anchors[s], CAs)
        /\ c \in anchors[s] => v[s] # "no"

\* The row of c in certificate_trust goes with the present anchors.
Applied(c) ==
    \A s \in Stores : anchors[s] # {} =>
        /\ verdict[c][s] = "yes" => Verify(c, anchors[s], CAs)
        /\ c \in anchors[s] => verdict[c][s] # "no"

Judged(c) == \A s \in Stores : anchors[s] # {} => verdict[c][s] # "none"

HeldBy(P, c) == \E p \in P : \E h \in held[p] : h[1] = c

\* The walk has c before it.
Awaiting(c) ==
    \E j \in Jobs : At(j, "walk") /\ (c \in job[j].todo \/ HeldBy({j}, c))

\* Judged(c), or in the hand of a probe request, or uploaded since the listing.
Settled(c) ==
    Applied(c) /\ (Judged(c) \/ Ingesting(c) \/ HeldBy(Ingests, c) \/ c \in unjudged)

JobsIn(pcs) == \A j \in Jobs : job[j].pc \in pcs

\* How far an undisturbed refresh has come.  It is alone; the anchors it has read
\* are those of the table; after Swap they are the pools, and every verdict that is
\* held comes from them; the walk leaves behind what is settled.
OneJob == \A j, k \in Jobs : ~At(j, "idle") /\ ~At(k, "idle") => j = k

ReadAnchors ==
    \A j \in Jobs : job[j].pc \in {"others", "swap"} => job[j].roots = anchors

PoolsCurrent ==
    JobsIn({"idle", "list", "walk"}) =>
        /\ roots = anchors
        /\ \A p \in Procs : \A h \in held[p] : Fresh(h[1], h[2])

WalkedIsSettled ==
    JobsIn({"idle", "walk"}) => \A c \in stored : Awaiting(c) \/ Settled(c)

RefreshInv == OneJob /\ ReadAnchors /\ PoolsCurrent /\ WalkedIsSettled

CleanInv == HeldOnce /\ (clean => RefreshInv)

\* Once the pools are the anchors, Evaluate gives verdicts that go with them.
LEMMA EvaluateFresh ==
    ASSUME TrustInv, roots = anchors, NEW c \in Certs
    PROVE  Fresh(c, Evaluate(c))
<1> SUFFICES ASSUME NEW s \in Stores, anchors[s] # {}
             PROVE  /\ Evaluate(c)[s] # "none"
                    /\ Evaluate(c)[s] = "yes" => Verify(c, anchors[s], CAs)
                    /\ c \in anchors[s] => Evaluate(c)[s] # "no"
    BY DEF Fresh
<1>1. Evaluate(c)[s] = IF Verify(c, anchors[s], inter) THEN "yes" ELSE "no"
    BY DEF Evaluate
<1>2. Verify(c, anchors[s], inter) => Verify(c, anchors[s], CAs)
    BY VerifyMonotone DEF TrustInv, PoolsKnown
<1>3. c \in anchors[s] => Verify(c, anchors[s], inter)
    BY DEF Verify
<1>4. QED
    BY <1>1, <1>2, <1>3

\* A verdict that is persisted settles its certificate and no other.
LEMMA PersistSettles ==
    ASSUME TrustInv, NEW h \in Certs \X Verdict, Fresh(h[1], h[2]),
           verdict' = UpsertCertificateTrust(h[1], h[2]), UNCHANGED <<stored, anchors>>
    PROVE  /\ h[1] \in stored => Applied(h[1])' /\ Judged(h[1])'
           /\ \A c \in Certs : c # h[1] => verdict'[c] = verdict[c]
<1> DEFINE c == h[1]
           v == h[2]
<1>1. c \in Certs /\ v \in Verdict /\ verdict \in [Certs -> Verdict]
    BY DEF TrustInv, TypeOK
<1> HIDE DEF c, v
<1>2. verdict' = [verdict EXCEPT ![c] =
                    IF c \notin stored THEN @
                    ELSE [s \in Stores |-> IF v[s] = "none" THEN verdict[c][s] ELSE v[s]]]
    BY DEF UpsertCertificateTrust, c, v
<1>3. \A d \in Certs : d # c => verdict'[d] = verdict[d]
    BY <1>1, <1>2
<1>4. Fresh(c, v)
    BY DEF c, v
<1>5. ASSUME c \in stored, NEW s \in Stores, anchors[s] # {}
      PROVE  verdict'[c][s] = v[s] /\ v[s] # "none"
    BY <1>1, <1>2, <1>4, <1>5 DEF Fresh
<1>6. ASSUME NEW d \in Certs, d = c, d \in stored PROVE Applied(d)' /\ Judged(d)'
    BY <1>4, <1>5, <1>6 DEF Applied, Judged, Fresh
<1>7. QED
    BY <1>1, <1>3, <1>6 DEF c

\* A process goes on holding at most one verdict.
LEMMA HeldOnceStep == ASSUME TrustInv, HeldOnce, Next PROVE HeldOnce'
<1>1. /\ job \in [Jobs -> Job] /\ held \in [Procs -> SUBSET (Certs \X Verdict)]
      /\ Jobs \cap Ingests = {} /\ Procs = Jobs \cup Ingests
    BY TrustAssumption DEF TrustInv, TypeOK, Procs
<1>2. ASSUME NEW j \in Jobs, UNCHANGED held, \A k \in Jobs : k # j => job'[k] = job[k],
             At(j, "walk") => job'[j].pc = "walk" \/ held[j] = {}
      PROVE  HeldOnce'
    BY <1>1, <1>2 DEF HeldOnce, At
<1>3. ASSUME NEW p \in Procs, \A q \in Procs : q # p => held'[q] = held[q],
             \A g, h \in held'[p] : g = h, \A k \in Jobs : job'[k].pc = job[k].pc,
             p \in Jobs => At(p, "walk") \/ held'[p] = {}
      PROVE  HeldOnce'
    BY <1>1, <1>3 DEF HeldOnce, At
<1>4. ASSUME NEW j \in Jobs, Refresh(j) PROVE HeldOnce'
    <2>1. /\ UNCHANGED held /\ \A k \in Jobs : k # j => job'[k] = job[k]
          /\ ~At(j, "walk")
        BY <1>1, <1>4 DEF Refresh, Fetch, MarkRow, EndRows, Replace,
                          ReconcileTrustAnchorFlags, At
    <2>2. QED
        BY <1>2, <2>1
<1>5. ASSUME NEW j \in Jobs, LoadPools(j) PROVE HeldOnce'
    <2>1. /\ UNCHANGED held /\ \A k \in Jobs : k # j => job'[k] = job[k]
          /\ ~At(j, "walk")
        BY <1>1, <1>5 DEF LoadPools, ListAnchorPEMsByStore, ListNonAnchorCertPEMs, Swap, At
    <2>2. QED
        BY <1>2, <2>1
<1>6. ASSUME NEW j \in Jobs, ReevaluateAll(j) PROVE HeldOnce'
    <2>1. CASE ListForWalk(j)
        <3>1. /\ UNCHANGED held /\ \A k \in Jobs : k # j => job'[k] = job[k]
              /\ ~At(j, "walk")
            BY <1>1, <2>1 DEF ListForWalk, At
        <3>2. QED
            BY <1>2, <3>1
    <2>2. ASSUME NEW c \in Certs, Reevaluate(j, c) PROVE HeldOnce'
        <3>1. /\ \A q \in Procs : held'[q] = IF q = j THEN {<<c, Evaluate(c)>>} ELSE held[q]
              /\ At(j, "walk")
            BY <1>1, <2>2 DEF Reevaluate
        <3>2. \A k \in Jobs : job'[k].pc = job[k].pc
            BY <1>1, <2>2 DEF Reevaluate, Job
        <3>3. QED
            BY <1>1, <1>3, <3>1, <3>2
    <2>3. CASE EndWalk(j)
        <3>1. UNCHANGED held /\ held[j] = {} /\ \A k \in Jobs : k # j => job'[k] = job[k]
            BY <1>1, <2>3 DEF EndWalk
        <3>2. QED
            BY <1>2, <3>1
    <2>4. QED
        BY <1>6, <2>1, <2>2, <2>3 DEF ReevaluateAll
<1>7. ASSUME NEW j \in Jobs, JobFails(j) PROVE HeldOnce'
    <2>1. CASE held' = [held EXCEPT ![j] = {}] /\ UNCHANGED job
        BY <1>1, <1>3, <2>1
    <2>2. CASE held[j] = {} /\ UNCHANGED held /\ \A k \in Jobs : k # j => job'[k] = job[k]
        BY <1>2, <2>2
    <2>3. QED
        BY <1>1, <1>7, <2>1, <2>2 DEF JobFails
<1>8. ASSUME NEW w \in Ingests, Result(w) \/ IngestFails(w) PROVE HeldOnce'
    <2>1. CASE Judge(w)
        <3>1. /\ \A q \in Procs : q # w => held'[q] = held[q]
              /\ held'[w] = {<<Head(chain[w]), Evaluate(Head(chain[w]))>>} /\ UNCHANGED job
            BY <1>1, <2>1 DEF Judge
        <3>2. w \notin Jobs /\ w \in Procs /\ \A g, h \in held'[w] : g = h
            BY <1>1, <3>1
        <3>3. QED
            BY <1>3, <3>1, <3>2
    <2>2. CASE UNCHANGED <<job, held>>
        BY <2>2 DEF HeldOnce, At
    <2>3. CASE held' = [held EXCEPT ![w] = {}] /\ UNCHANGED job
        BY <1>1, <1>3, <2>3
    <2>4. QED
        BY <1>8, <2>1, <2>2, <2>3 DEF Result, Submit, InsertCertificate, Learn, IngestFails
<1>9. ASSUME NEW p \in Procs, Persist(p) PROVE HeldOnce'
    <2>1. held' = [held EXCEPT ![p] = {}] /\ UNCHANGED job
        BY <1>9 DEF Persist
    <2>2. QED
        BY <1>1, <1>3, <2>1
<1>10. ASSUME NEW c \in Certs, Upload(c) \/ DeleteCertificate(c) PROVE HeldOnce'
    BY <1>10 DEF Upload, DeleteCertificate, HeldOnce, At
<1>11. ASSUME NEW j \in Jobs, NEW loaded \in BOOLEAN, Restart(j, loaded) PROVE HeldOnce'
    BY <1>1, <1>11 DEF Restart, HeldOnce
<1>12. QED
    BY <1>4, <1>5, <1>6, <1>7, <1>8, <1>9, <1>10, <1>11 DEF Next

\* Before Swap an undisturbed refresh owes only what it has read of the anchors.
LEMMA EarlyPhase ==
    ASSUME NEW j \in Jobs, \A k \in Jobs : k # j => job'[k].pc = "idle",
           job'[j].pc \in {"rows", "replace", "anchors", "others", "swap"},
           job'[j].pc \in {"others", "swap"} => job'[j].roots = anchors'
    PROVE  RefreshInv'
<1>1. OneJob' /\ ReadAnchors'
    BY DEF OneJob, ReadAnchors, At
<1>2. ~JobsIn({"idle", "list", "walk"})' /\ ~JobsIn({"idle", "walk"})'
    BY DEF JobsIn
<1>3. QED
    BY <1>1, <1>2 DEF RefreshInv, PoolsCurrent, WalkedIsSettled

\* The refresh itself, up to the queries of LoadPools.
LEMMA RefreshStaysClean ==
    ASSUME TrustInv, clean => RefreshInv, clean',
           NEW j \in Jobs, Refresh(j) \/ ListAnchorPEMsByStore(j) \/ ListNonAnchorCertPEMs(j)
    PROVE  RefreshInv'
<1>1. job \in [Jobs -> Job] /\ job[j] \in Job /\ Idle \in Job
    BY JobParts DEF TrustInv, TypeOK
<1>2. ASSUME NEW m \in Matrices, Fetch(j, m) PROVE RefreshInv'
    <2>1. \A k \in Jobs : k # j => job'[k].pc = "idle"
        BY <1>1, <1>2 DEF Fetch, At
    <2>2. job'[j].pc = "rows"
        BY <1>1, <1>2 DEF Fetch, Job
    <2>3. QED
        BY <2>1, <2>2, EarlyPhase
<1>3. ASSUME ~At(j, "idle"), clean, \A k \in Jobs : k # j => job'[k] = job[k],
             job'[j].pc \in {"rows", "replace", "anchors", "others", "swap"},
             job'[j].pc \in {"others", "swap"} => job'[j].roots = anchors'
      PROVE  RefreshInv'
    <2>1. \A k \in Jobs : k # j => job'[k].pc = "idle"
        BY <1>3 DEF RefreshInv, OneJob, At
    <2>2. QED
        BY <1>3, <2>1, EarlyPhase
<1>4. ASSUME NEW c \in Certs, MarkRow(j, c) PROVE RefreshInv'
    <2>1. clean /\ ~At(j, "idle") /\ \A k \in Jobs : k # j => job'[k] = job[k]
        BY <1>1, <1>4 DEF MarkRow, At
    <2>2. job'[j].pc = "rows"
        BY <1>1, <1>4 DEF MarkRow, At, Job
    <2>3. QED
        BY <1>3, <2>1, <2>2
<1>5. CASE EndRows(j)
    <2>1. clean /\ ~At(j, "idle") /\ \A k \in Jobs : k # j => job'[k] = job[k]
        BY <1>1, <1>5 DEF EndRows, At
    <2>2. job'[j].pc = "replace"
        BY <1>1, <1>5 DEF EndRows, Job
    <2>3. QED
        BY <1>3, <2>1, <2>2
<1>6. ASSUME NEW s \in Stores, Replace(j, s) PROVE RefreshInv'
    <2>1. clean /\ ~At(j, "idle") /\ \A k \in Jobs : k # j => job'[k] = job[k]
        BY <1>1, <1>6 DEF Replace, At
    <2>2. job'[j].pc = "replace"
        BY <1>1, <1>6 DEF Replace, At, Job
    <2>3. QED
        BY <1>3, <2>1, <2>2
<1>7. CASE ReconcileTrustAnchorFlags(j)
    <2>1. clean /\ ~At(j, "idle") /\ \A k \in Jobs : k # j => job'[k] = job[k]
        BY <1>1, <1>7 DEF ReconcileTrustAnchorFlags, At
    <2>2. job'[j].pc = "anchors"
        BY <1>1, <1>7 DEF ReconcileTrustAnchorFlags, Job
    <2>3. QED
        BY <1>3, <2>1, <2>2
<1>8. CASE ListAnchorPEMsByStore(j)
    <2>1. clean /\ ~At(j, "idle") /\ \A k \in Jobs : k # j => job'[k] = job[k]
        BY <1>1, <1>8 DEF ListAnchorPEMsByStore, At
    <2>2. job'[j].pc = "others" /\ job'[j].roots = anchors'
        BY <1>1, <1>8 DEF ListAnchorPEMsByStore, database, tables, Job
    <2>3. QED
        BY <1>3, <2>1, <2>2
<1>9. CASE ListNonAnchorCertPEMs(j)
    <2>1. clean /\ ~At(j, "idle") /\ \A k \in Jobs : k # j => job'[k] = job[k]
        BY <1>1, <1>9 DEF ListNonAnchorCertPEMs, At
    <2>2. job'[j].pc = "swap" /\ job'[j].roots = job[j].roots /\ anchors' = anchors
        BY <1>1, <1>9 DEF ListNonAnchorCertPEMs, database, tables, Job
    <2>3. job[j].roots = anchors
        BY <1>9, <2>1 DEF RefreshInv, ReadAnchors, ListNonAnchorCertPEMs, At
    <2>4. QED
        BY <1>3, <2>1, <2>2, <2>3
<1>10. QED
    BY <1>2, <1>4, <1>5, <1>6, <1>7, <1>8, <1>9 DEF Refresh

\* From Swap to the end of the walk.
LEMMA WalkStaysClean ==
    ASSUME TrustInv, HeldOnce, clean => RefreshInv, clean',
           NEW j \in Jobs, Swap(j) \/ ReevaluateAll(j)
    PROVE  RefreshInv'
<1>1. job \in [Jobs -> Job] /\ job[j] \in Job /\ Idle.pc = "idle"
    BY JobParts DEF TrustInv, TypeOK, Idle
<1>2. /\ clean /\ ~At(j, "idle") /\ (\A k \in Jobs : k # j => job'[k] = job[k])
      /\ UNCHANGED <<tables, verdict, requests>>
      /\ ~ListForWalk(j) => UNCHANGED unjudged
    BY <1>1 DEF Swap, ReevaluateAll, ListForWalk, Reevaluate, EndWalk, At, database
<1>3. RefreshInv /\ \A k \in Jobs : k # j => job[k].pc = "idle" /\ job'[k].pc = "idle"
    BY <1>2 DEF RefreshInv, OneJob, At
<1>4. OneJob'
    BY <1>3 DEF OneJob, At
<1>5. held \in [Procs -> SUBSET (Certs \X Verdict)] /\ Jobs \cap Ingests = {}
      /\ Procs = Jobs \cup Ingests
    BY TrustAssumption DEF TrustInv, TypeOK, Procs
<1>6. CASE Swap(j)
    <2>1. job'[j].pc = "list" /\ job[j].pc = "swap"
        BY <1>1, <1>6 DEF Swap, At, Job
    <2>2. roots' = anchors'
        BY <1>2, <1>3, <1>6, <2>1 DEF Swap, RefreshInv, ReadAnchors, database, tables
    <2>3. \A p \in Procs : held'[p] = {}
        <3>1. \A k \in Jobs : held[k] = {}
            BY <1>3, <2>1 DEF HeldOnce, At
        <3>2. \A w \in Ingests : held[w] = {}
            BY <1>6 DEF Swap
        <3>3. held' = held
            BY <1>6 DEF Swap
        <3>4. QED
            BY <1>5, <3>1, <3>2, <3>3
    <2>4. ReadAnchors' /\ PoolsCurrent'
        BY <1>3, <2>1, <2>2, <2>3 DEF ReadAnchors, PoolsCurrent
    <2>5. ~JobsIn({"idle", "walk"})'
        BY <2>1 DEF JobsIn
    <2>6. QED
        BY <1>4, <2>4, <2>5 DEF RefreshInv, WalkedIsSettled
<1>7. CASE ListForWalk(j)
    <2>1. job'[j].pc = "walk" /\ job'[j].todo = stored /\ job[j].pc = "list"
        BY <1>1, <1>7 DEF ListForWalk, ForEachCert, At, Job
    <2>2. UNCHANGED <<roots, held, anchors, stored>>
        BY <1>7 DEF ListForWalk, pools, database, tables
    <2>3. JobsIn({"idle", "list", "walk"})
        BY <1>3, <2>1 DEF JobsIn
    <2>4. ReadAnchors'
        BY <1>3, <2>1 DEF ReadAnchors
    <2>5. PoolsCurrent'
        BY <1>3, <2>2, <2>3 DEF RefreshInv, PoolsCurrent, Fresh
    <2>6. \A c \in stored' : Awaiting(c)'
        BY <2>1, <2>2 DEF Awaiting, At
    <2>7. QED
        BY <1>4, <2>4, <2>5, <2>6 DEF RefreshInv, WalkedIsSettled
<1>8. ASSUME NEW c \in Certs, Reevaluate(j, c) PROVE RefreshInv'
    <2>1. job'[j].pc = "walk" /\ job'[j].todo = job[j].todo \ {c} /\ job[j].pc = "walk"
        BY <1>1, <1>8 DEF Reevaluate, At, Job
    <2>2. UNCHANGED <<roots, anchors, stored, verdict, chain, unjudged>>
        BY <1>2, <1>8 DEF Reevaluate, pools, database, tables, requests
    <2>3. /\ \A q \in Procs : held'[q] = IF q = j THEN {<<c, Evaluate(c)>>} ELSE held[q]
          /\ held[j] = {}
        BY <1>5, <1>8 DEF Reevaluate
    <2>4. JobsIn({"idle", "list", "walk"}) /\ JobsIn({"idle", "walk"})
        BY <1>3, <2>1 DEF JobsIn
    <2>5. roots = anchors
        BY <1>3, <2>4 DEF RefreshInv, PoolsCurrent
    <2>6. Fresh(c, Evaluate(c))
        BY <2>5, EvaluateFresh
    <2>7. ReadAnchors'
        BY <1>3, <2>1 DEF ReadAnchors
    <2>8. \A p \in Procs : \A h \in held[p] : Fresh(h[1], h[2])
        BY <1>3, <2>4 DEF RefreshInv, PoolsCurrent
    <2>9. \A p \in Procs : \A h \in held'[p] : Fresh(h[1], h[2])
        <3>1. PICK v : v = Evaluate(c)
            OBVIOUS
        <3>2. Fresh(c, v)
            BY <2>6, <3>1
        <3>3. \A q \in Procs : held'[q] = IF q = j THEN {<<c, v>>} ELSE held[q]
            BY <2>3, <3>1
        <3>4. QED
            BY <2>8, <3>2, <3>3
    <2>10. PoolsCurrent'
        BY <2>2, <2>5, <2>9 DEF PoolsCurrent, Fresh
    <2>11. ASSUME NEW d \in stored PROVE Awaiting(d)' \/ Settled(d)'
        <3>1. CASE d = c
            <4>0. PICK h : h = <<c, Evaluate(c)>>
                OBVIOUS
            <4>1. h \in held'[j] /\ h[1] = d
                BY <1>5, <2>3, <3>1, <4>0
            <4>2. HeldBy({j}, d)'
                BY <4>1 DEF HeldBy
            <4>3. QED
                BY <2>1, <4>2 DEF Awaiting, At
        <3>2. CASE d # c /\ Awaiting(d)
            <4>1. d \in job[j].todo
                BY <1>3, <2>3, <3>2 DEF Awaiting, At, HeldBy
            <4>2. QED
                BY <2>1, <3>2, <4>1 DEF Awaiting, At
        <3>3. CASE Settled(d)
            <4>1. \A w \in Ingests : held'[w] = held[w]
                BY <1>5, <2>3
            <4>2. HeldBy(Ingests, d)' <=> HeldBy(Ingests, d)
                BY <4>1 DEF HeldBy
            <4>3. QED
                BY <2>2, <3>3, <4>2 DEF Settled, Applied, Judged, Ingesting
        <3>4. QED
            BY <1>3, <2>4, <3>1, <3>2, <3>3 DEF RefreshInv, WalkedIsSettled
    <2>12. QED
        BY <1>4, <2>2, <2>7, <2>10, <2>11 DEF RefreshInv, WalkedIsSettled
<1>9. CASE EndWalk(j)
    <2>1. job'[j].pc = "idle" /\ job[j].pc = "walk" /\ job[j].todo = {} /\ held[j] = {}
        BY <1>1, <1>9 DEF EndWalk, At
    <2>2. UNCHANGED <<roots, anchors, stored, verdict, chain, held, unjudged>>
        BY <1>2, <1>9 DEF EndWalk, pools, database, tables, requests
    <2>3. JobsIn({"idle", "list", "walk"}) /\ JobsIn({"idle", "walk"})
        BY <1>3, <2>1 DEF JobsIn
    <2>4. ReadAnchors'
        BY <1>3, <2>1 DEF ReadAnchors
    <2>5. PoolsCurrent'
        BY <1>3, <2>2, <2>3 DEF RefreshInv, PoolsCurrent, Fresh
    <2>6. ASSUME NEW d \in stored PROVE Settled(d)'
        <3>1. ~Awaiting(d)
            BY <1>3, <2>1 DEF Awaiting, At, HeldBy
        <3>2. Settled(d)
            BY <1>3, <2>3, <3>1 DEF RefreshInv, WalkedIsSettled
        <3>3. QED
            BY <2>2, <3>2 DEF Settled, Applied, Judged, Ingesting, HeldBy
    <2>7. QED
        BY <1>4, <2>2, <2>4, <2>5, <2>6 DEF RefreshInv, WalkedIsSettled
<1>10. QED
    BY <1>6, <1>7, <1>8, <1>9 DEF ReevaluateAll

\* Probe requests that interleave with it.
LEMMA IngestStaysClean ==
    ASSUME TrustInv, HeldOnce, RefreshInv, NEW w \in Ingests, Result(w)
    PROVE  RefreshInv'
<1>1. /\ UNCHANGED <<job, roots, anchors, verdict, unjudged>>
      /\ stored \subseteq stored' /\ stored' \subseteq Certs
      /\ chain \in [Ingests -> Seq(Certs)]
    <2>1. /\ chain \in [Ingests -> Seq(Certs)] /\ stored \subseteq Certs
        BY DEF TrustInv, TypeOK
    <2>2. chain[w] # <<>> => Head(chain[w]) \in Certs
        BY <2>1
    <2>3. QED
        BY <2>1, <2>2 DEF Result, Submit, InsertCertificate, Learn, Judge, Busy, database, tables,
                          pools
<1>2. OneJob' /\ ReadAnchors'
    BY <1>1 DEF RefreshInv, OneJob, ReadAnchors, At
<1>3. /\ JobsIn({"idle", "list", "walk"})' <=> JobsIn({"idle", "list", "walk"})
      /\ JobsIn({"idle", "walk"})' <=> JobsIn({"idle", "walk"})
      /\ JobsIn({"idle", "walk"}) => JobsIn({"idle", "list", "walk"})
    BY <1>1 DEF JobsIn
<1>4. held \in [Procs -> SUBSET (Certs \X Verdict)] /\ Jobs \cap Ingests = {}
      /\ Procs = Jobs \cup Ingests
    BY TrustAssumption DEF TrustInv, TypeOK, Procs
<1>5. CASE UNCHANGED held /\ ~Judge(w)
    <2>1. PoolsCurrent'
        BY <1>1, <1>3, <1>5 DEF RefreshInv, PoolsCurrent, Fresh
    <2>2. ASSUME NEW d \in stored', JobsIn({"idle", "walk"}) PROVE Awaiting(d)' \/ Settled(d)'
        <3>1. CASE d \in stored /\ Awaiting(d)
            BY <1>1, <1>5, <3>1 DEF Awaiting, At, HeldBy
        <3>2. Ingesting(d) => Ingesting(d)'
            <4>1. \/ UNCHANGED chain
                  \/ chain[w] = <<>> /\ \A v \in Ingests : v # w => chain'[v] = chain[v]
                BY <1>1, <1>5 DEF Result, Submit, InsertCertificate, Learn
            <4>2. QED
                BY <4>1 DEF Ingesting
        <3>3. CASE d \in stored /\ Settled(d)
            BY <1>1, <1>5, <3>2, <3>3 DEF Settled, Applied, Judged, HeldBy
        <3>4. CASE d \notin stored
            <4>1. InsertCertificate(w) /\ d = Head(chain[w]) /\ chain[w] # <<>>
                BY <3>4 DEF Result, Submit, InsertCertificate, Learn, Judge, Busy, database, tables
            <4>2. Ingesting(d)'
                BY <4>1 DEF InsertCertificate, Ingesting
            <4>3. \A s \in Stores : verdict'[d][s] = "none"
                BY <1>1, <3>4 DEF TrustInv, TypeOK
            <4>4. Applied(d)'
                BY <4>3 DEF Applied
            <4>5. QED
                BY <4>2, <4>4 DEF Settled
        <3>5. QED
            BY <2>2, <3>1, <3>3, <3>4 DEF RefreshInv, WalkedIsSettled
    <2>3. QED
        BY <1>2, <1>3, <2>1, <2>2 DEF RefreshInv, WalkedIsSettled
<1>6. CASE Judge(w)
    <2> DEFINE c == Head(chain[w])
    <2>1. c \in Certs /\ held[w] = {} /\ UNCHANGED stored
        BY <1>1, <1>6 DEF Judge, Busy, database, tables
    <2>2. PICK v : v = Evaluate(c)
        OBVIOUS
    <2>3. \A q \in Procs : held'[q] = IF q = w THEN {<<c, v>>} ELSE held[q]
        BY <1>4, <1>6, <2>2 DEF Judge
    <2>4. \A d : Ingesting(d) => d = c \/ Ingesting(d)'
        BY <1>1, <1>6 DEF Judge, Ingesting
    <2> HIDE DEF c
    <2>5. PoolsCurrent'
        <3> SUFFICES ASSUME JobsIn({"idle", "list", "walk"})
                     PROVE  roots' = anchors' /\ \A p \in Procs : \A h \in held'[p] : Fresh(h[1], h[2])'
            BY <1>3 DEF PoolsCurrent
        <3>1. roots = anchors /\ \A p \in Procs : \A h \in held[p] : Fresh(h[1], h[2])
            BY DEF RefreshInv, PoolsCurrent
        <3>2. Fresh(c, v)
            BY <2>1, <2>2, <3>1, EvaluateFresh
        <3>3. \A p \in Procs : \A h \in held'[p] : Fresh(h[1], h[2])
            BY <2>3, <3>1, <3>2
        <3>4. QED
            BY <1>1, <3>1, <3>3 DEF Fresh
    <2>6. ASSUME NEW d \in stored, JobsIn({"idle", "walk"}) PROVE Awaiting(d)' \/ Settled(d)'
        <3>1. CASE Awaiting(d)
            <4>1. \A k \in Jobs : held'[k] = held[k]
                BY <1>4, <2>3
            <4>2. QED
                BY <1>1, <3>1, <4>1 DEF Awaiting, At, HeldBy
        <3>2. CASE Settled(d)
            <4>0. PICK h : h = <<c, v>>
                OBVIOUS
            <4>1. h \in held'[w] /\ h[1] = c
                BY <1>4, <2>3, <4>0
            <4>2. HeldBy(Ingests, d) => HeldBy(Ingests, d)'
                BY <1>4, <2>1, <2>3 DEF HeldBy
            <4>3. d = c => HeldBy(Ingests, d)'
                BY <4>1 DEF HeldBy
            <4>4. QED
                BY <1>1, <2>4, <3>2, <4>2, <4>3 DEF Settled, Applied, Judged
        <3>3. QED
            BY <2>6, <3>1, <3>2 DEF RefreshInv, WalkedIsSettled
    <2>7. QED
        BY <1>2, <1>3, <2>1, <2>5, <2>6 DEF RefreshInv, WalkedIsSettled
<1>7. QED
    BY <1>5, <1>6 DEF Result, Submit, InsertCertificate, Learn

\* Persisting a verdict, by the walk or by a probe request.
LEMMA PersistStaysClean ==
    ASSUME TrustInv, HeldOnce, RefreshInv, NEW p \in Procs, Persist(p)
    PROVE  RefreshInv'
<1>1. PICK h \in held[p] :
        /\ verdict' = UpsertCertificateTrust(h[1], h[2])
        /\ held' = [held EXCEPT ![p] = {}]
        /\ unjudged' = unjudged \ {h[1]}
        /\ UNCHANGED <<tables, pools, job, requests, clean, events>>
    BY DEF Persist
<1>2. UNCHANGED <<stored, anchors, roots, job, chain>>
    BY <1>1 DEF database, tables, pools, requests
<1>3. held \in [Procs -> SUBSET (Certs \X Verdict)] /\ Jobs \cap Ingests = {}
      /\ Procs = Jobs \cup Ingests /\ stored \subseteq Certs
    BY TrustAssumption DEF TrustInv, TypeOK, Procs
<1>4. h \in Certs \X Verdict /\ \A g \in held[p] : g = h
    BY <1>3 DEF HeldOnce
<1>5. \A q \in Procs : held'[q] = IF q = p THEN {} ELSE held[q]
    BY <1>1, <1>3
<1>6. OneJob' /\ ReadAnchors'
    BY <1>2 DEF RefreshInv, OneJob, ReadAnchors, At
<1>7. /\ JobsIn({"idle", "list", "walk"})' <=> JobsIn({"idle", "list", "walk"})
      /\ JobsIn({"idle", "walk"})' <=> JobsIn({"idle", "walk"})
      /\ JobsIn({"idle", "walk"}) => JobsIn({"idle", "list", "walk"})
    BY <1>2 DEF JobsIn
<1>8. PoolsCurrent'
    BY <1>2, <1>5, <1>7 DEF RefreshInv, PoolsCurrent, Fresh
<1>9. ASSUME NEW d \in stored, JobsIn({"idle", "walk"}) PROVE Awaiting(d)' \/ Settled(d)'
    <2>1. Fresh(h[1], h[2])
        BY <1>7, <1>9 DEF RefreshInv, PoolsCurrent
    <2>2. /\ h[1] \in stored => Applied(h[1])' /\ Judged(h[1])'
          /\ \A c \in Certs : c # h[1] => verdict'[c] = verdict[c]
        BY <1>1, <1>2, <1>4, <2>1, PersistSettles
    <2>3. CASE d = h[1]
        BY <2>2, <2>3 DEF Settled
    <2>4. \A P \in SUBSET Procs : d # h[1] /\ HeldBy(P, d) => HeldBy(P, d)'
        BY <1>4, <1>5 DEF HeldBy
    <2>5. CASE d # h[1] /\ Awaiting(d)
        <3>1. PICK j \in Jobs : At(j, "walk") /\ (d \in job[j].todo \/ HeldBy({j}, d))
            BY <2>5 DEF Awaiting
        <3>2. HeldBy({j}, d) => HeldBy({j}, d)'
            BY <1>3, <2>4, <2>5
        <3>3. QED
            BY <1>2, <3>1, <3>2 DEF Awaiting, At
    <2>6. CASE d # h[1] /\ Settled(d)
        <3>0. d \in unjudged => d \in unjudged'
            BY <1>1, <2>6
        <3>1. HeldBy(Ingests, d) => HeldBy(Ingests, d)'
            BY <1>3, <2>4, <2>6
        <3>2. verdict'[d] = verdict[d]
            BY <1>3, <2>2, <2>6
        <3>3. QED
            BY <1>2, <2>6, <3>0, <3>1, <3>2 DEF Settled, Applied, Judged, Ingesting
    <2>7. QED
        BY <1>9, <2>3, <2>5, <2>6 DEF RefreshInv, WalkedIsSettled
<1>10. QED
    BY <1>2, <1>6, <1>7, <1>8, <1>9 DEF RefreshInv, WalkedIsSettled

\* Uploads that interleave with it: the new row is not judged, and is marked so.
LEMMA UploadStaysClean ==
    ASSUME TrustInv, RefreshInv, NEW c \in Certs, Upload(c)
    PROVE  RefreshInv'
<1>1. /\ stored' = stored \cup {c} /\ unjudged' = unjudged \cup {c} /\ c \notin stored
      /\ UNCHANGED <<job, roots, anchors, verdict, chain, held>>
    BY DEF Upload, pools, requests
<1>2. OneJob' /\ ReadAnchors' /\ PoolsCurrent'
    BY <1>1 DEF RefreshInv, OneJob, ReadAnchors, PoolsCurrent, JobsIn, Fresh, At
<1>3. ASSUME NEW d \in stored', JobsIn({"idle", "walk"}) PROVE Awaiting(d)' \/ Settled(d)'
    <2>1. CASE d = c
        <3>1. \A s \in Stores : verdict'[d][s] = "none"
            BY <1>1, <2>1 DEF TrustInv, TypeOK
        <3>2. Applied(d)'
            BY <3>1 DEF Applied
        <3>3. QED
            BY <1>1, <2>1, <3>2 DEF Settled
    <2>2. CASE d \in stored /\ Awaiting(d)
        BY <1>1, <2>2 DEF Awaiting, At, HeldBy
    <2>3. CASE d \in stored /\ Settled(d)
        BY <1>1, <2>3 DEF Settled, Applied, Judged, Ingesting, HeldBy
    <2>4. QED
        BY <1>1, <1>3, <2>1, <2>2, <2>3 DEF RefreshInv, WalkedIsSettled
<1>4. QED
    BY <1>1, <1>2, <1>3 DEF RefreshInv, WalkedIsSettled, JobsIn

\* Every step keeps what is known of an undisturbed refresh.
LEMMA CleanStep == TrustInv /\ CleanInv /\ [Next]_vars => CleanInv'
<1> SUFFICES ASSUME TrustInv, CleanInv, [Next]_vars PROVE CleanInv'
    OBVIOUS
<1>1. CASE UNCHANGED vars
    <2>1. HeldOnce'
        BY <1>1 DEF CleanInv, HeldOnce, At, vars
    <2>2. clean' => OneJob' /\ ReadAnchors' /\ PoolsCurrent'
        BY <1>1 DEF CleanInv, RefreshInv, OneJob, ReadAnchors, PoolsCurrent, JobsIn, Fresh,
                    At, vars
    <2>3. clean' => WalkedIsSettled'
        BY <1>1 DEF CleanInv, RefreshInv, WalkedIsSettled, JobsIn, Awaiting, Settled, Applied,
                    Judged, Ingesting, HeldBy, At, vars
    <2>4. QED
        BY <2>1, <2>2, <2>3 DEF CleanInv, RefreshInv
<1>2. CASE Next
    <2>1. HeldOnce'
        BY <1>2, HeldOnceStep DEF CleanInv
    <2>2. ASSUME clean' PROVE RefreshInv'
        <3>1. ASSUME NEW j \in Jobs, Refresh(j) \/ LoadPools(j) \/ ReevaluateAll(j)
              PROVE  RefreshInv'
            BY <2>2, <3>1, RefreshStaysClean, WalkStaysClean DEF CleanInv, LoadPools
        <3>2. ASSUME NEW w \in Ingests, Result(w) PROVE RefreshInv'
            <4>1. clean
                BY <2>2, <3>2 DEF Result, Submit, InsertCertificate, Learn, Judge
            <4>2. QED
                BY <3>2, <4>1, IngestStaysClean DEF CleanInv
        <3>3. ASSUME NEW p \in Procs, Persist(p) PROVE RefreshInv'
            <4>1. clean
                BY <2>2, <3>3 DEF Persist
            <4>2. QED
                BY <3>3, <4>1, PersistStaysClean DEF CleanInv
        <3>4. ~(\E j \in Jobs : JobFails(j)) /\ ~(\E w \in Ingests : IngestFails(w))
              /\ ~(\E c \in Certs : DeleteCertificate(c))
              /\ ~(\E j \in Jobs, loaded \in BOOLEAN : Restart(j, loaded))
            BY <2>2 DEF JobFails, IngestFails, DeleteCertificate, Restart
        <3>5. ASSUME NEW c \in Certs, Upload(c) PROVE RefreshInv'
            <4>1. clean
                BY <2>2, <3>5 DEF Upload
            <4>2. QED
                BY <3>5, <4>1, UploadStaysClean DEF CleanInv
        <3>6. QED
            BY <1>2, <3>1, <3>2, <3>3, <3>4, <3>5 DEF Next
    <2>3. QED
        BY <2>1, <2>2 DEF CleanInv
<1>3. QED
    BY <1>1, <1>2

\* At first nothing is held and no refresh has run.
LEMMA CleanInit == Init => CleanInv
BY DEF Init, CleanInv, HeldOnce, Procs

(***************************************************************************)
(* Theorems                                                                *)
(***************************************************************************)
\* The tables and pools are always well typed: no anchor row and no verdict row
\* outlives its certificate.
THEOREM TrustTypeCorrect == Spec => []TypeOK
<1>1. TrustInv => TypeOK
    BY DEF TrustInv
<1>2. QED
    BY <1>1, TrustInit, TrustStep, PTL DEF Spec

\* Whatever scanners submit and however refreshes, ingests, failures, deletions
\* and restarts interleave: a program that trusts a certificate had an anchor at
\* the end of a verified path from it.
THEOREM TrustIsJustified == Spec => []TrustedWasJustified
<1>1. TrustInv => TrustedWasJustified
    BY DEF TrustInv
<1>2. QED
    BY <1>1, TrustInit, TrustStep, PTL DEF Spec

\* After a refresh that no failure, deletion, restart or other job disturbed, the
\* stored verdicts follow the new anchors: nothing is still trusted through a
\* removed anchor, and no anchor is distrusted, though probe requests interleave.
THEOREM RefreshTakesEffect == Spec => []RefreshIsApplied
<1>1. TrustInv /\ CleanInv => RefreshIsApplied
    <2> SUFFICES ASSUME TrustInv, CleanInv, Refreshed, NEW c \in stored, NEW s \in Stores,
                        anchors[s] # {}
                 PROVE  /\ verdict[c][s] = "yes" => Verify(c, anchors[s], CAs)
                        /\ c \in anchors[s] => verdict[c][s] # "no"
        BY DEF RefreshIsApplied
    <2>1. JobsIn({"idle", "walk"}) /\ ~Awaiting(c)
        BY DEF Refreshed, JobsIn, Awaiting, At
    <2>2. Applied(c)
        BY <2>1 DEF CleanInv, RefreshInv, WalkedIsSettled, Refreshed, Settled
    <2>3. QED
        BY <2>2 DEF Applied
<1>2. QED
    BY <1>1, TrustInit, TrustStep, CleanInit, CleanStep, PTL DEF Spec

\* And every stored certificate has been judged by every program with anchors,
\* unless a probe request still has it in hand, or it was uploaded after the walk
\* had listed the table: what is stored before the listing, by whatever request, is
\* judged by the walk, and what a probe request stores later is judged by it.
THEOREM EveryCertificateIsJudged == Spec => []EveryCertIsJudged
<1>1. TrustInv /\ CleanInv => EveryCertIsJudged
    <2> SUFFICES ASSUME TrustInv, CleanInv, Refreshed, NEW c \in stored \ unjudged,
                        NEW s \in Stores, anchors[s] # {}, ~Ingesting(c)
                 PROVE  verdict[c][s] # "none" \/ HeldBy(Ingests, c)
        BY DEF EveryCertIsJudged, HeldBy
    <2>1. JobsIn({"idle", "walk"}) /\ ~Awaiting(c)
        BY DEF Refreshed, JobsIn, Awaiting, At
    <2>2. Settled(c)
        BY <2>1 DEF CleanInv, RefreshInv, WalkedIsSettled, Refreshed
    <2>3. QED
        BY <2>2 DEF Settled, Judged
<1>2. QED
    BY <1>1, TrustInit, TrustStep, CleanInit, CleanStep, PTL DEF Spec

=============================================================================
