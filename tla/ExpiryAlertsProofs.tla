-------------------------- MODULE ExpiryAlertsProofs --------------------------
(***************************************************************************)
(* Proofs about ExpiryAlerts, for any number of users, certificates,       *)
(* thresholds and overlapping runs.                                        *)
(***************************************************************************)
EXTENDS ExpiryAlerts, FiniteSetTheorems, WellFoundedInduction, TLAPS

(***************************************************************************)
(* The bucket of a certificate                                             *)
(***************************************************************************)
\* A set of naturals that has a member has a smallest one.
LEMMA LeastMember ==
    ASSUME NEW T \in SUBSET Nat, T # {}
    PROVE  \E x \in T : \A y \in T : x <= y
<1>1. PICK x \in T : \A y \in T : ~(<<y, x>> \in OpToRel(<, Nat))
    BY NatLessThanWellFounded, WFMin
<1>2. \A y \in T : ~(y < x)
    BY <1>1 DEF OpToRel
<1>3. \A y \in T : x <= y
    <2> SUFFICES ASSUME NEW y \in T PROVE x <= y
        OBVIOUS
    <2>1. x \in Nat /\ y \in Nat
        OBVIOUS
    <2>2. QED
        BY <1>2, <2>1
<1>4. QED
    BY <1>3

\* An index set that has a member has a last one.
LEMMA LastIndex ==
    ASSUME NEW n \in Nat, NEW Q \in SUBSET (1 .. n), Q # {}
    PROVE  \E i \in Q : \A j \in Q : j <= i
<1> DEFINE T == {n - i : i \in Q}
<1>1. T \in SUBSET Nat /\ T # {}
    <2>1. \A i \in Q : n - i \in Nat
        OBVIOUS
    <2>2. T # {}
        BY Zenon
    <2>3. QED
        BY <2>1, <2>2
<1>2. PICK x \in T : \A y \in T : x <= y
    <2> HIDE DEF T
    <2>1. QED
        BY <1>1, LeastMember
<1>3. PICK i \in Q : x = n - i
    BY <1>2
<1>4. \A j \in Q : n - i <= n - j
    BY <1>2, <1>3
<1>5. \A j \in Q : j <= i
    BY <1>4
<1>6. QED
    BY <1>5

\* Over a descending list, the loop of alertThreshold ends with the smallest
\* threshold that covers the days, if one does.
LEMMA LoopFindsSmallest ==
    ASSUME NEW n \in Nat, NEW ts \in [1 .. n -> Nat],
           \A i, j \in 1 .. n : i < j => ts[i] > ts[j],
           NEW days \in Int, NEW m \in 1 .. n, days <= ts[m]
    PROVE  /\ \E i \in 1 .. n : alertThreshold(days, ts) = ts[i]
           /\ days <= alertThreshold(days, ts)
           /\ \A j \in 1 .. n : days <= ts[j] => alertThreshold(days, ts) <= ts[j]
<1> DEFINE Q == {i \in 1 .. n : days <= ts[i]}
           last == CHOOSE i \in Q : \A j \in Q : j <= i
<1>1. Len(ts) = n
    OBVIOUS
<1>2. Q # {} /\ Q \in SUBSET (1 .. n)
    OBVIOUS
<1>3. last \in Q /\ \A j \in Q : j <= last
    <2>1. \E i \in Q : \A j \in Q : j <= i
        <3> HIDE DEF Q
        <3>1. QED
            BY <1>2, LastIndex
    <2>2. QED
        BY <2>1
<1>4. alertThreshold(days, ts) = ts[last]
    BY <1>1, <1>2 DEF alertThreshold
<1> HIDE DEF last
<1>5. \A j \in 1 .. n : days <= ts[j] => ts[last] <= ts[j]
    <2> SUFFICES ASSUME NEW j \in 1 .. n, days <= ts[j]
                 PROVE  ts[last] <= ts[j]
        OBVIOUS
    <2>1. j <= last /\ last \in 1 .. n
        BY <1>3
    <2>2. j = last \/ j < last
        BY <2>1
    <2>3. ts[j] \in Nat /\ ts[last] \in Nat
        BY <2>1
    <2>4. QED
        BY <2>1, <2>2, <2>3
<1>6. QED
    BY <1>3, <1>4, <1>5

(***************************************************************************)
(* Type correctness, and what a run has in hand                            *)
(***************************************************************************)
Descending(ts) == \A i, j \in 1 .. Len(ts) : i < j => ts[i] > ts[j]

\* A run past LoadThresholds has its thresholds, largest first; what it has
\* listed lies within the largest.
Fits(x) ==
    /\ x.pc \notin {"idle", "thresholds"} => Len(x.ts) > 0 /\ Descending(x.ts)
    /\ x.items # {} => x.pc \in {"certs", "send", "stalled"}
    /\ \A i \in x.items : i.days <= x.ts[1]

FittingRun == {x \in RunState : Fits(x)}

TypeInv == TypeOK /\ run \in [Runs -> FittingRun]

\* Thresholds are positive numbers, finitely many at a time.
LEMMA ThresholdSetType ==
    ASSUME NEW S \in ThresholdSets
    PROVE  S \subseteq Thresholds /\ Thresholds \subseteq Nat /\ Cardinality(S) \in Nat
<1>1. S \subseteq 1 .. 365 /\ Thresholds \subseteq Nat /\ S \subseteq Thresholds
    BY ExpiryAlertsAssumption DEF Thresholds
<1>2. IsFiniteSet(1 .. 365)
    <2>1. 1 \in Int /\ 365 \in Int
        OBVIOUS
    <2>2. \A a, b \in Int : IsFiniteSet(a .. b)
        BY FS_Interval
    <2>3. QED
        BY <2>1, <2>2, Zenon
<1>3. IsFiniteSet(S)
    BY <1>1, <1>2, FS_Subset
<1>4. QED
    BY <1>1, <1>3, FS_CardinalityType

\* The sorted thresholds are a descending sequence.
LEMMA SortType ==
    ASSUME NEW S \in ThresholdSets, NEW ts \in SortDescending(S)
    PROVE  ts \in Seq(Thresholds) /\ Descending(ts) /\ (ts # <<>> => Len(ts) > 0)
<1> DEFINE n == Cardinality(S)
<1>1. n \in Nat /\ S \subseteq Thresholds
    BY ThresholdSetType
<1>2. ts \in [1 .. n -> S]
    BY DEF SortDescending
<1>3. \A i, j \in 1 .. n : i < j => ts[i] > ts[j]
    BY DEF SortDescending
<1> HIDE DEF n
<1>4. ts \in [1 .. n -> Thresholds]
    BY <1>1, <1>2
<1>5. ts \in Seq(Thresholds) /\ Len(ts) = n
    BY <1>1, <1>4
<1>6. Descending(ts)
    BY <1>3, <1>5 DEF Descending
<1>7. ts # <<>> => Len(ts) > 0
    BY <1>5
<1>8. QED
    BY <1>5, <1>6, <1>7

\* The bucket of a listed certificate.
LEMMA BucketOfItem ==
    ASSUME NEW x \in FittingRun, NEW i \in x.items
    PROVE  LET t == alertThreshold(i.days, x.ts) IN
           /\ \E m \in 1 .. Len(x.ts) : t = x.ts[m]
           /\ i.days <= t
           /\ \A m \in 1 .. Len(x.ts) : i.days <= x.ts[m] => t <= x.ts[m]
           /\ t \in Thresholds
<1>1. /\ x.ts \in Seq(Thresholds) /\ i \in Item /\ i.days \in Int
      /\ Len(x.ts) > 0 /\ Descending(x.ts) /\ i.days <= x.ts[1]
    BY DEF FittingRun, RunState, Fits, Item
<1> DEFINE n == Len(x.ts)
<1>2. Thresholds \subseteq Nat
    BY ExpiryAlertsAssumption DEF Thresholds
<1>3. n \in Nat /\ x.ts \in [1 .. n -> Thresholds] /\ 1 \in 1 .. n
    BY <1>1
<1>4. x.ts \in [1 .. n -> Nat]
    BY <1>2, <1>3
<1>5. \A a, b \in 1 .. n : a < b => x.ts[a] > x.ts[b]
    BY <1>1 DEF Descending
<1> DEFINE ts == x.ts  days == i.days
<1> HIDE DEF n, ts, days
<1>6. n = Len(x.ts) /\ ts = x.ts /\ days = i.days
    BY DEF n, ts, days
<1>7. /\ \E a \in 1 .. n : alertThreshold(days, ts) = ts[a]
      /\ days <= alertThreshold(days, ts)
      /\ \A j \in 1 .. n : days <= ts[j] => alertThreshold(days, ts) <= ts[j]
    BY <1>1, <1>3, <1>4, <1>5, <1>6, LoopFindsSmallest
<1>8. alertThreshold(days, ts) \in Thresholds
    BY <1>3, <1>6, <1>7
<1>9. QED
    BY <1>6, <1>7, <1>8

\* A step that changes a run, and counts an upset at most, keeps the shape of the state.
LEMMA RunStepType ==
    ASSUME TypeInv, NEW r \in Runs, NEW x \in FittingRun,
           run' = [run EXCEPT ![r] = x], upsets' \in Nat,
           UNCHANGED <<settings, inventory, alerts, sent, spell>>
    PROVE  TypeInv'
BY DEF TypeInv, TypeOK, FittingRun, settings, inventory

\* Whole days, and fewer of them as the clock moves on.
LEMMA FloorMono ==
    ASSUME NEW a \in Int, NEW d \in Nat \ {0}
    PROVE  a \div d \in Int /\ (a - 1) \div d <= a \div d
OBVIOUS

\* The days that are left.
LEMMA DaysType ==
    ASSUME TypeOK, NEW c \in Certs
    PROVE  DaysRemaining(c) \in Int
<1>1. NotAfter[c] - now \in Int /\ Day \in Nat \ {0}
    BY ExpiryAlertsAssumption DEF TypeOK
<1>2. QED
    BY <1>1, FloorMono DEF DaysRemaining

\* Every step of a run keeps the shape of the state.
LEMMA RunType ==
    ASSUME TypeInv, NEW r \in Runs, RunExpiryAlerts(r)
    PROVE  TypeInv'
<1> DEFINE x == run[r]
<1>0. upsets' \in Nat
    <2>1. upsets \in Nat
        BY DEF TypeInv, TypeOK
    <2>2. CASE Upset
        BY <2>1, <2>2 DEF Upset
    <2>3. CASE UNCHANGED upsets
        BY <2>1, <2>3
    <2>4. QED
        BY <2>2, <2>3 DEF RunExpiryAlerts, Step, Fault, Begin, LoadThresholds,
           ListNotifyUsers, NextUser, ListCerts, ListFails, EndUser, EndRun, ClaimAlert,
           SkipAlert, ClaimFails, Send, SendFails, SendStalls, LateAnswer, Abort
<1>1. x \in FittingRun /\ x \in RunState /\ Fits(x) /\ TypeOK
    BY DEF TypeInv, FittingRun
<1>2. Idle \in FittingRun
    <2>1. <<>> \in Seq(Thresholds)
        OBVIOUS
    <2>2. QED
        BY <2>1 DEF Idle, FittingRun, RunState, Fits
<1>3. CASE Begin(r)
    <2>1. [x EXCEPT !.pc = "thresholds"] \in FittingRun
        BY <1>1, <1>3 DEF Begin, FittingRun, RunState, Fits
    <2>2. QED
        BY <1>3, <2>1, <1>0, RunStepType DEF Begin
<1>4. CASE LoadThresholds(r)
    <2>1. PICK ts \in SortDescending(thresholds) :
            run' = [run EXCEPT ![r] =
                      IF ts = <<>> THEN Idle
                      ELSE [x EXCEPT !.pc = "recipients", !.ts = ts]]
        BY <1>4 DEF LoadThresholds
    <2>2. ts \in Seq(Thresholds) /\ Descending(ts) /\ (ts # <<>> => Len(ts) > 0)
        BY <1>1, SortType DEF TypeOK
    <2>3. ts # <<>> => [x EXCEPT !.pc = "recipients", !.ts = ts] \in FittingRun
        BY <1>1, <1>4, <2>2 DEF LoadThresholds, FittingRun, RunState, Fits
    <2>4. QED
        BY <1>2, <1>4, <2>1, <2>3, <1>0, RunStepType DEF LoadThresholds
<1>5. CASE ListNotifyUsers(r)
    <2> DEFINE y == [x EXCEPT !.pc = "users", !.todo = notify]
    <2>1. y \in FittingRun
        BY <1>1, <1>5 DEF ListNotifyUsers, FittingRun, RunState, Fits, TypeOK
    <2>2. run' = [run EXCEPT ![r] = y]
        BY <1>5 DEF ListNotifyUsers
    <2>3. QED
        BY <1>5, <2>1, <2>2, <1>0, RunStepType DEF ListNotifyUsers
<1>6. ASSUME NEW u \in Users, NextUser(r, u) PROVE TypeInv'
    <2> DEFINE y == [x EXCEPT !.pc = "listing", !.todo = x.todo \ {u}, !.user = {u},
                              !.eps = SubscribedEndpoints(u)]
    <2>1. SubscribedEndpoints(u) \subseteq Endpoints
        BY DEF SubscribedEndpoints
    <2>2. y \in FittingRun
        BY <1>1, <1>6, <2>1 DEF NextUser, FittingRun, RunState, Fits
    <2>3. run' = [run EXCEPT ![r] = y]
        BY <1>6 DEF NextUser
    <2>4. QED
        BY <1>6, <2>2, <2>3, <1>0, RunStepType DEF NextUser
<1>7. CASE ListCerts(r)
    <2> DEFINE L == ListExpiringActiveCertsTagged(x.eps, x.ts[1])
               y == [x EXCEPT !.pc = "certs", !.items = L]
    <2>1. VActiveCertificates \subseteq Item
        <3>1. \A c \in Certs : DaysRemaining(c) \in Int
            BY <1>1, DaysType
        <3>2. QED
            BY <1>1, <3>1 DEF VActiveCertificates, Item, TypeOK
    <2>2. L \subseteq Item /\ \A i \in L : i.days <= x.ts[1]
        BY <2>1 DEF ListExpiringActiveCertsTagged, ListExpiringActiveCerts
    <2>3. run' = [run EXCEPT ![r] = y]
        BY <1>7 DEF ListCerts
    <2> HIDE DEF L
    <2>4. y \in FittingRun
        BY <1>1, <1>7, <2>2 DEF ListCerts, FittingRun, RunState, Fits
    <2>5. QED
        BY <1>7, <2>3, <2>4, <1>0, RunStepType DEF ListCerts
<1>8. CASE EndUser(r)
    <2> DEFINE y == [x EXCEPT !.pc = "users", !.user = {}, !.eps = {}]
    <2>1. y \in FittingRun
        BY <1>1, <1>8 DEF EndUser, FittingRun, RunState, Fits
    <2>2. run' = [run EXCEPT ![r] = y]
        BY <1>8 DEF EndUser
    <2>3. QED
        BY <1>8, <2>1, <2>2, <1>0, RunStepType DEF EndUser
<1>9. CASE ListFails(r)
    <2> DEFINE y == [x EXCEPT !.pc = "users", !.user = {}, !.eps = {}]
    <2>1. y \in FittingRun
        BY <1>1, <1>9 DEF ListFails, FittingRun, RunState, Fits
    <2>2. run' = [run EXCEPT ![r] = y]
        BY <1>9 DEF ListFails
    <2>3. QED
        BY <1>0, <1>9, <2>1, <2>2, RunStepType DEF ListFails
<1>10. CASE EndRun(r) \/ Abort(r)
    BY <1>2, <1>10, <1>0, RunStepType DEF EndRun, Abort
<1>11. ASSUME NEW u \in Users, NEW i \in x.items, ClaimAlert(r, u, i)
       PROVE  TypeInv'
    <2> DEFINE k == AlertOf(r, u, i)
               y == [x EXCEPT !.pc = "send", !.items = x.items \ {i}, !.claim = {k}]
    <2>1. alertThreshold(i.days, x.ts) \in Thresholds /\ i.cert \in Certs
        BY <1>1, BucketOfItem DEF RunState, Item
    <2>2. k \in Alerts
        BY <2>1 DEF AlertOf, Alerts
    <2>3. run' = [run EXCEPT ![r] = y]
        BY <1>11 DEF ClaimAlert
    <2>4. k \notin alerts /\ k[1] \in users /\ k[2] \in stored /\ alerts' = alerts \cup {k}
          /\ spell' = [spell EXCEPT ![k] = @ + 1]
        BY <1>11 DEF ClaimAlert, TryInsertExpiryAlert
    <2> HIDE DEF k
    <2>5. y \in FittingRun
        BY <1>1, <1>11, <2>2 DEF ClaimAlert, NextItem, FittingRun, RunState, Fits
    <2>6. alerts' \subseteq users \X stored \X Thresholds
        <3>1. k \in users \X stored \X Thresholds
            BY <2>2, <2>4 DEF Alerts
        <3>2. QED
            BY <1>1, <2>4, <3>1 DEF TypeOK
    <2>7. spell' \in [Alerts -> Nat]
        BY <1>1, <2>2, <2>4 DEF TypeOK
    <2> HIDE DEF y
    <2>8. run' \in [Runs -> FittingRun] /\ run' \in [Runs -> RunState]
        BY <2>3, <2>5 DEF TypeInv, FittingRun
    <2>9. UNCHANGED <<settings, inventory, sent>>
        BY <1>11 DEF ClaimAlert
    <2>10. QED
        BY <1>0, <1>1, <2>6, <2>7, <2>8, <2>9 DEF TypeInv, TypeOK, settings, inventory
<1>12. ASSUME NEW u \in Users, NEW i \in x.items, SkipAlert(r, u, i)
       PROVE  TypeInv'
    <2> DEFINE y == [x EXCEPT !.items = x.items \ {i}]
    <2>1. y \in FittingRun
        BY <1>1, <1>12 DEF SkipAlert, FittingRun, RunState, Fits
    <2>2. run' = [run EXCEPT ![r] = y]
        BY <1>12 DEF SkipAlert
    <2>3. QED
        BY <1>12, <2>1, <2>2, <1>0, RunStepType DEF SkipAlert
<1>13. ASSUME NEW i \in x.items, ClaimFails(r, i)
       PROVE  TypeInv'
    <2> DEFINE y == [x EXCEPT !.items = x.items \ {i}]
    <2>1. y \in FittingRun
        BY <1>1, <1>13 DEF ClaimFails, FittingRun, RunState, Fits
    <2>2. run' = [run EXCEPT ![r] = y]
        BY <1>13 DEF ClaimFails
    <2>3. QED
        BY <1>0, <1>13, <2>1, <2>2, RunStepType DEF ClaimFails
<1>14. [x EXCEPT !.pc = "certs", !.claim = {}] \in FittingRun \/ x.pc \notin {"send", "stalled"}
    BY <1>1 DEF FittingRun, RunState, Fits
<1>15. ASSUME NEW k \in Alerts, Send(r, k) PROVE TypeInv'
    <2>1. run' = [run EXCEPT ![r] = [x EXCEPT !.pc = "certs", !.claim = {}]]
        BY <1>15 DEF Send
    <2>2. sent' \in [Alerts -> Nat]
        BY <1>1, <1>15 DEF Send, TypeOK
    <2>3. QED
        BY <1>0, <1>14, <1>15, <2>1, <2>2 DEF Send, Sending, TypeInv, TypeOK, FittingRun,
              settings, inventory
<1>16. CASE SendFails(r)
    <2>1. run' = [run EXCEPT ![r] = [x EXCEPT !.pc = "certs", !.claim = {}]]
        BY <1>16 DEF SendFails
    <2>2. QED
        BY <1>14, <1>16, <2>1, <1>0, RunStepType DEF SendFails
<1>17. CASE SendStalls(r)
    <2>1. [x EXCEPT !.pc = "stalled"] \in FittingRun
        BY <1>1, <1>17 DEF SendStalls, FittingRun, RunState, Fits
    <2>2. QED
        BY <1>17, <2>1, <1>0, RunStepType DEF SendStalls
<1>18. QED
    BY <1>3, <1>4, <1>5, <1>6, <1>7, <1>8, <1>10, <1>11, <1>12, <1>15, <1>16,
       <1>9, <1>13, <1>17 DEF RunExpiryAlerts, Step, LateAnswer, Fault

\* Every step of the rest of the system keeps it too.
LEMMA OthersType ==
    ASSUME TypeInv, Inventory \/ Administration
    PROVE  TypeInv'
<1>1. TypeOK /\ run \in [Runs -> FittingRun]
    BY DEF TypeInv
<1>2. CASE Tick
    BY <1>1, <1>2, ExpiryAlertsAssumption DEF Tick, TypeInv, TypeOK, inventory
<1>3. ASSUME NEW cur, Respell(cur) PROVE spell' \in [Alerts -> Nat]
    BY <1>1, <1>3 DEF Respell, TypeOK
<1>4. ASSUME NEW e \in Endpoints, NEW c \in Certs, ScanFinds(e, c) PROVE TypeInv'
    <2>1. spell' \in [Alerts -> Nat]
        BY <1>3, <1>4 DEF ScanFinds
    <2>2. current' \subseteq Endpoints \X stored' /\ stored' \subseteq Certs
        BY <1>1, <1>4 DEF ScanFinds, TypeOK
    <2>3. alerts' \subseteq users' \X stored' \X Thresholds
        BY <1>1, <1>4 DEF ScanFinds, TypeOK, settings
    <2>4. QED
        BY <1>1, <1>4, <2>1, <2>2, <2>3 DEF ScanFinds, TypeInv, TypeOK, settings
<1>5. CASE PurgeExpiryAlerts
    BY <1>1, <1>5 DEF PurgeExpiryAlerts, TypeInv, TypeOK, settings, inventory
<1>6. ASSUME NEW c \in Certs, PurgeCertificate(c) PROVE TypeInv'
    <2>1. spell' \in [Alerts -> Nat]
        BY <1>3, <1>6 DEF PurgeCertificate
    <2>2. current' \subseteq Endpoints \X stored' /\ stored' \subseteq Certs
        BY <1>1, <1>6 DEF PurgeCertificate, TypeOK
    <2>3. alerts' \subseteq users' \X stored' \X Thresholds
        BY <1>1, <1>6 DEF PurgeCertificate, TypeOK, settings
    <2>4. QED
        BY <1>1, <1>6, <2>1, <2>2, <2>3 DEF PurgeCertificate, TypeInv, TypeOK, settings
<1>7. ASSUME NEW u \in Users, DeleteUser(u) PROVE TypeInv'
    <2>1. alerts' \subseteq users' \X stored' \X Thresholds
        BY <1>1, <1>7 DEF DeleteUser, TypeOK, inventory
    <2>2. subs' \in [Users -> SUBSET Tags]
        BY <1>1, <1>7 DEF DeleteUser, TypeOK
    <2>3. QED
        BY <1>1, <1>7, <2>1, <2>2 DEF DeleteUser, Upset, TypeInv, TypeOK, inventory
<1>8. ASSUME NEW u \in Users, NEW S \in SUBSET Tags, SetUserTagSubscriptions(u, S)
      PROVE  TypeInv'
    BY <1>1, <1>8 DEF SetUserTagSubscriptions, Upset, TypeInv, TypeOK, inventory
<1>9. ASSUME NEW e \in Endpoints, NEW S \in SUBSET Tags, SetEndpointTags(e, S)
      PROVE  TypeInv'
    BY <1>1, <1>9 DEF SetEndpointTags, Upset, TypeInv, TypeOK, inventory
<1>10. ASSUME NEW u \in Users, NEW on \in BOOLEAN, SetNotify(u, on) PROVE TypeInv'
    BY <1>1, <1>10 DEF SetNotify, Upset, TypeInv, TypeOK, inventory
<1>11. ASSUME NEW e \in Endpoints, NEW on \in BOOLEAN, SetEndpointEnabled(e, on)
       PROVE  TypeInv'
    BY <1>1, <1>11 DEF SetEndpointEnabled, Upset, TypeInv, TypeOK, settings
<1>12. ASSUME NEW on \in BOOLEAN, SetMailEnabled(on) PROVE TypeInv'
    BY <1>1, <1>12 DEF SetMailEnabled, Upset, TypeInv, TypeOK, inventory
<1>13. ASSUME NEW S \in ThresholdSets, SetAlertThresholds(S) PROVE TypeInv'
    BY <1>1, <1>13 DEF SetAlertThresholds, Upset, TypeInv, TypeOK, inventory
<1>14. QED
    BY <1>2, <1>4, <1>5, <1>6, <1>7, <1>8, <1>9, <1>10, <1>11, <1>12, <1>13
       DEF Inventory, Administration

\* Every step keeps the shape of the state.
LEMMA TypeStep == TypeInv /\ [Next]_vars => TypeInv'
<1> SUFFICES ASSUME TypeInv, [Next]_vars PROVE TypeInv'
    OBVIOUS
<1>1. CASE UNCHANGED vars
    BY <1>1 DEF vars, TypeInv, TypeOK
<1>2. QED
    BY <1>1, RunType, OthersType DEF Next

\* The shape of the state at first.
LEMMA TypeInit == Init => TypeInv
<1> SUFFICES ASSUME Init PROVE TypeInv
    OBVIOUS
<1>1. Idle \in FittingRun
    <2>1. <<>> \in Seq(Thresholds)
        OBVIOUS
    <2>2. QED
        BY <2>1 DEF Idle, FittingRun, RunState, Fits
<1>2. run \in [Runs -> FittingRun] /\ run \in [Runs -> RunState]
    BY <1>1 DEF Init, FittingRun
<1>3. QED
    BY <1>2, ExpiryAlertsAssumption DEF Init, TypeInv, TypeOK

\* The state of the alert runs and their tables is always well typed.
THEOREM ExpiryAlertsTypeCorrect == Spec => []TypeOK
<1>1. TypeInv => TypeOK
    BY DEF TypeInv
<1>2. QED
    BY <1>1, TypeInit, TypeStep, PTL DEF Spec

\* alertThreshold gives every certificate a run has listed the smallest
\* configured threshold that covers its days, for any thresholds.
THEOREM BucketCorrect == Spec => []BucketIsMostUrgent
<1>1. TypeInv => BucketIsMostUrgent
    <2> SUFFICES ASSUME TypeInv, NEW r \in Runs, NEW i \in run[r].items
                 PROVE  LET ts == run[r].ts
                            t == alertThreshold(i.days, ts) IN
                        /\ \E n \in 1 .. Len(ts) : t = ts[n]
                        /\ i.days <= t
                        /\ \A n \in 1 .. Len(ts) : i.days <= ts[n] => t <= ts[n]
        BY DEF BucketIsMostUrgent
    <2>1. run[r] \in FittingRun
        BY DEF TypeInv
    <2>2. QED
        BY <2>1, BucketOfItem
<1>2. QED
    BY <1>1, TypeInit, TypeStep, PTL DEF Spec

(***************************************************************************)
(* At most one claim while a certificate stays                             *)
(***************************************************************************)
\* A claim of this spell still has its row, unless its user is gone.
SpellInv ==
    \A k \in Alerts : OnSome(k[2], current) =>
        spell[k] <= 1 /\ (spell[k] # 0 => k \in alerts \/ k[1] \notin users)

\* What a step of a run does to the claims.
LEMMA RunEffect ==
    ASSUME TypeInv, NEW r \in Runs, RunExpiryAlerts(r)
    PROVE  /\ UNCHANGED <<settings, inventory>>
           /\ \/ UNCHANGED <<alerts, sent, spell>>
              \/ \E k \in Alerts : Send(r, k)
              \/ \E u \in Users, i \in run[r].items :
                    ClaimAlert(r, u, i) /\ AlertOf(r, u, i) \in Alerts
<1>1. ASSUME NEW u \in Users, NEW i \in run[r].items, ClaimAlert(r, u, i)
      PROVE  AlertOf(r, u, i) \in Alerts
    <2>1. run[r] \in FittingRun /\ run[r] \in RunState
        BY DEF TypeInv, FittingRun
    <2>2. alertThreshold(i.days, run[r].ts) \in Thresholds /\ i.cert \in Certs
        BY <2>1, BucketOfItem DEF RunState, Item
    <2>3. QED
        BY <2>2 DEF AlertOf, Alerts
<1>2. CASE \E k \in Alerts : Send(r, k)
    BY <1>2 DEF Send
<1>3. CASE \E u \in Users, i \in run[r].items : ClaimAlert(r, u, i)
    BY <1>1, <1>3 DEF ClaimAlert
<1>4. CASE \/ Begin(r) \/ LoadThresholds(r) \/ ListNotifyUsers(r)
           \/ \E u \in Users : NextUser(r, u)
           \/ ListCerts(r) \/ EndUser(r) \/ EndRun(r)
           \/ \E u \in Users, i \in run[r].items : SkipAlert(r, u, i)
           \/ Fault(r)
    BY <1>4 DEF Begin, LoadThresholds, ListNotifyUsers, NextUser, ListCerts, EndUser,
                EndRun, SkipAlert, Fault, ListFails, ClaimFails, SendFails, SendStalls, Abort
<1>5. QED
    BY <1>2, <1>3, <1>4 DEF RunExpiryAlerts, Step, LateAnswer

\* Every step keeps the claims of a spell accounted for.
LEMMA SpellStep == TypeInv /\ SpellInv /\ [Next]_vars => SpellInv'
<1> SUFFICES ASSUME TypeInv, SpellInv, [Next]_vars PROVE SpellInv'
    OBVIOUS
<1>0. TypeOK
    BY DEF TypeInv
<1>1. CASE UNCHANGED <<current, spell, alerts, users>>
    BY <1>1 DEF SpellInv, OnSome
<1>2. ASSUME NEW r \in Runs, NEW u \in Users, NEW i \in run[r].items,
             ClaimAlert(r, u, i), AlertOf(r, u, i) \in Alerts
      PROVE  SpellInv'
    <2> DEFINE a == AlertOf(r, u, i)
    <2>1. /\ a \in Alerts /\ a \notin alerts /\ a[1] \in users /\ alerts' = alerts \cup {a}
          /\ spell' = [spell EXCEPT ![a] = @ + 1]
          /\ UNCHANGED <<current, users>>
        BY <1>2 DEF ClaimAlert, TryInsertExpiryAlert, settings, inventory
    <2> HIDE DEF a
    <2> SUFFICES ASSUME NEW k \in Alerts, OnSome(k[2], current)
                 PROVE  spell'[k] <= 1 /\ (spell'[k] # 0 => k \in alerts' \/ k[1] \notin users)
        BY <2>1 DEF SpellInv, OnSome
    <2>2. CASE k = a
        <3>1. spell[a] = 0
            BY <1>0, <2>1, <2>2 DEF SpellInv, TypeOK
        <3>2. QED
            BY <1>0, <2>1, <2>2, <3>1 DEF TypeOK
    <2>3. CASE k # a
        BY <1>0, <2>1, <2>3 DEF SpellInv, TypeOK
    <2>4. QED
        BY <2>2, <2>3
<1>3. ASSUME NEW e \in Endpoints, NEW c \in Certs, ScanFinds(e, c) PROVE SpellInv'
    <2>1. Respell(current') /\ UNCHANGED <<alerts, users>>
        BY <1>3 DEF ScanFinds, settings
    <2> SUFFICES ASSUME NEW k \in Alerts, OnSome(k[2], current')
                 PROVE  spell'[k] <= 1 /\ (spell'[k] # 0 => k \in alerts \/ k[1] \notin users)
        BY <2>1 DEF SpellInv, OnSome
    <2>2. spell'[k] = IF OnSome(k[2], current) THEN spell[k] ELSE 0
        BY <2>1 DEF Respell
    <2>3. QED
        BY <2>2 DEF SpellInv
<1>4. ASSUME NEW c \in Certs, PurgeCertificate(c) PROVE SpellInv'
    <2>1. Respell(current') /\ UNCHANGED users
          /\ alerts' = {k \in alerts : k[2] # c} /\ current' = {p \in current : p[2] # c}
        BY <1>4 DEF PurgeCertificate, settings
    <2>2. \A k \in Alerts : OnSome(k[2], current') => k[2] # c
        BY <2>1 DEF OnSome
    <2>3. QED
        BY <1>0, <2>1, <2>2 DEF Respell, SpellInv, TypeOK, OnSome
<1>5. CASE PurgeExpiryAlerts
    <2>1. UNCHANGED <<current, spell, users>> /\ alerts' = alerts \ PurgeableAlerts
        BY <1>5 DEF PurgeExpiryAlerts, settings, inventory
    <2>2. \A k \in Alerts : OnSome(k[2], current) => k \notin PurgeableAlerts
        BY DEF OnSome, PurgeableAlerts
    <2>3. QED
        BY <2>1, <2>2 DEF SpellInv, OnSome
<1>6. ASSUME NEW u \in Users, DeleteUser(u) PROVE SpellInv'
    <2>1. UNCHANGED <<current, spell>> /\ users' = users \ {u}
          /\ alerts' = {k \in alerts : k[1] # u}
        BY <1>6 DEF DeleteUser, inventory
    <2>2. QED
        BY <2>1 DEF SpellInv, OnSome
<1>7. ASSUME NEW r \in Runs, RunExpiryAlerts(r) PROVE SpellInv'
    <2>1. CASE \E k \in Alerts : Send(r, k)
        BY <1>1, <2>1 DEF Send, settings, inventory
    <2>2. CASE \E u \in Users, i \in run[r].items :
                 ClaimAlert(r, u, i) /\ AlertOf(r, u, i) \in Alerts
        BY <1>2, <2>2
    <2>3. CASE UNCHANGED <<settings, inventory, alerts, sent, spell>>
        BY <1>1, <2>3 DEF settings, inventory
    <2>4. QED
        BY <1>7, <2>1, <2>2, <2>3, RunEffect
<1>8. CASE Tick \/ Administration
    BY <1>1, <1>6, <1>8 DEF Tick, Administration, SetEndpointEnabled,
       SetMailEnabled, SetAlertThresholds, SetNotify, SetUserTagSubscriptions,
       SetEndpointTags, settings, inventory
<1>9. QED
    BY <1>1, <1>3, <1>4, <1>5, <1>7, <1>8 DEF Next, Inventory, vars

\* While a certificate stays on some endpoint each of its alerts is claimed at
\* most once: overlapping runs, stale lists, purges, key rotations and faults
\* make no difference.
THEOREM AlertClaimedOncePerSpell == Spec => []ClaimedOncePerSpell
<1>1. Init => SpellInv
    BY DEF Init, SpellInv, OnSome
<1>2. SpellInv => ClaimedOncePerSpell
    BY DEF SpellInv, ClaimedOncePerSpell
<1>3. QED
    BY <1>1, <1>2, SpellStep, TypeInit, TypeStep, PTL DEF Spec

(***************************************************************************)
(* Delivery, when nothing is purged                                        *)
(***************************************************************************)
\* A claim has one owner and a row (unless its user is gone), and is mailed at
\* most once.
DeliveryInv ==
    \A k \in Alerts :
        /\ sent[k] <= 1
        /\ sent[k] # 0 => \A r \in Runs : ~Sending(r, k)
        /\ \A q, r \in Runs : Sending(q, k) /\ Sending(r, k) => q = r
        /\ sent[k] # 0 \/ (\E r \in Runs : Sending(r, k))
              => k \in alerts \/ k[1] \notin users

\* Only ClaimAlert makes a run the owner of a claim.
LEMMA OwnerStep ==
    ASSUME TypeInv, NEW r \in Runs, RunExpiryAlerts(r)
    PROVE  /\ \A q \in Runs, k \in Alerts : q # r => (Sending(q, k)' <=> Sending(q, k))
           /\ \/ \A k \in Alerts : Sending(r, k)' => Sending(r, k)
              \/ \E u \in Users, i \in run[r].items :
                    ClaimAlert(r, u, i) /\ AlertOf(r, u, i) \in Alerts
<1>0. run \in [Runs -> RunState] /\ run[r] \in RunState
    BY DEF TypeInv, TypeOK
<1>1. \A q \in Runs : q # r => run'[q] = run[q]
    BY <1>0 DEF RunExpiryAlerts, Step, Fault, Begin, LoadThresholds, ListNotifyUsers,
          NextUser, ListCerts, ListFails, EndUser, EndRun, ClaimAlert, SkipAlert,
          ClaimFails, Send, SendFails, SendStalls, LateAnswer, Abort
<1>2. \A q \in Runs, k \in Alerts : q # r => (Sending(q, k)' <=> Sending(q, k))
    BY <1>1 DEF Sending
<1>3. CASE \E u \in Users, i \in run[r].items : ClaimAlert(r, u, i)
    <2>1. \A k \in Alerts : ~Send(r, k)
        BY <1>3 DEF ClaimAlert, NextItem, Send, Sending
    <2>2. \A u \in Users, i \in run[r].items :
            ClaimAlert(r, u, i) => AlertOf(r, u, i) \in Alerts
        <3> SUFFICES ASSUME NEW u \in Users, NEW i \in run[r].items
                     PROVE  AlertOf(r, u, i) \in Alerts
            OBVIOUS
        <3>1. run[r] \in FittingRun
            BY DEF TypeInv
        <3>2. alertThreshold(i.days, run[r].ts) \in Thresholds /\ i.cert \in Certs
            BY <1>0, <3>1, BucketOfItem DEF RunState, Item
        <3>3. QED
            BY <3>2 DEF AlertOf, Alerts
    <2>3. QED
        BY <1>2, <1>3, <2>2
<1>4. CASE \/ Begin(r) \/ ListNotifyUsers(r) \/ \E u \in Users : NextUser(r, u)
           \/ ListCerts(r) \/ ListFails(r) \/ EndUser(r) \/ EndRun(r)
           \/ SendFails(r) \/ Abort(r)
           \/ \E k \in Alerts : Send(r, k)
    <2>1. run'[r].pc \notin {"send", "stalled"}
        <3>1. CASE Begin(r) \/ ListNotifyUsers(r)
            BY <1>0, <3>1 DEF Begin, ListNotifyUsers, RunState
        <3>2. CASE EndRun(r) \/ Abort(r)
            BY <1>0, <3>2 DEF EndRun, Abort, Idle
        <3>3. CASE \E u \in Users : NextUser(r, u)
            BY <1>0, <3>3 DEF NextUser, RunState
        <3>4. CASE ListCerts(r) \/ ListFails(r) \/ EndUser(r)
            BY <1>0, <3>4 DEF ListCerts, ListFails, EndUser, RunState
        <3>5. CASE SendFails(r) \/ \E k \in Alerts : Send(r, k)
            BY <1>0, <3>5 DEF SendFails, Send, RunState
        <3>6. QED
            BY <1>4, <3>1, <3>2, <3>5, <3>3, <3>4
    <2>2. QED
        BY <1>2, <2>1 DEF Sending
<1>5. CASE LoadThresholds(r)
    <2>1. run'[r].pc \notin {"send", "stalled"}
        BY <1>0, <1>5 DEF LoadThresholds, Idle, RunState
    <2>2. QED
        BY <1>2, <2>1 DEF Sending
<1>6. CASE \/ \E u \in Users, i \in run[r].items : SkipAlert(r, u, i)
           \/ \E i \in run[r].items : ClaimFails(r, i)
    <2>1. run'[r].pc \notin {"send", "stalled"}
        BY <1>0, <1>6 DEF SkipAlert, ClaimFails, NextItem, RunState
    <2>2. QED
        BY <1>2, <2>1 DEF Sending
<1>7. CASE SendStalls(r)
    <2>1. run'[r].claim = run[r].claim /\ run[r].pc = "send"
        BY <1>0, <1>7 DEF SendStalls, RunState
    <2>2. QED
        BY <1>2, <2>1 DEF Sending
<1>8. QED
    BY <1>3, <1>4, <1>5, <1>6, <1>7 DEF RunExpiryAlerts, Step, LateAnswer, Fault

\* What every step other than a claim and a mail leaves alone.
Quiet ==
    /\ sent' = sent /\ users' \subseteq users
    /\ \A k \in alerts : k \in alerts' \/ k[1] \notin users'
    /\ \A k \in alerts' : k \in alerts
    /\ \A r \in Runs, k \in Alerts : Sending(r, k)' => Sending(r, k)

\* Without purges, a step claims, mails or is quiet.
LEMMA StepKinds ==
    ASSUME Purges = {}, TypeInv, [Next]_vars
    PROVE  \/ Quiet
           \/ \E r \in Runs, k \in Alerts : Send(r, k)
           \/ \E r \in Runs : \E u \in Users, i \in run[r].items :
                 ClaimAlert(r, u, i) /\ AlertOf(r, u, i) \in Alerts
<1>1. CASE UNCHANGED <<sent, users, alerts, run>>
    BY <1>1 DEF Quiet, Sending
<1>2. ASSUME NEW r \in Runs, RunExpiryAlerts(r),
             ~\E k \in Alerts : Send(r, k),
             ~\E u \in Users, i \in run[r].items :
                ClaimAlert(r, u, i) /\ AlertOf(r, u, i) \in Alerts
      PROVE  Quiet
    <2>1. UNCHANGED <<alerts, sent, users>>
        BY <1>2, RunEffect DEF settings
    <2>2. \A q \in Runs, k \in Alerts : Sending(q, k)' => Sending(q, k)
        BY <1>2, OwnerStep
    <2>3. QED
        BY <2>1, <2>2 DEF Quiet
<1>3. ASSUME NEW u \in Users, DeleteUser(u) PROVE Quiet
    BY <1>3 DEF DeleteUser, Quiet, Sending
<1>4. CASE Inventory
    BY <1>1, <1>4 DEF Inventory, Tick, ScanFinds, PurgeExpiryAlerts,
                      PurgeCertificate, settings
<1>5. CASE Administration
    BY <1>1, <1>3, <1>5 DEF Administration, SetEndpointEnabled, SetMailEnabled,
       SetAlertThresholds, SetNotify, SetUserTagSubscriptions, SetEndpointTags,
       settings
<1>6. QED
    BY <1>1, <1>2, <1>4, <1>5 DEF Next, vars

\* A claim: its alert was free, and belongs to one run now.
LEMMA ClaimEffect ==
    ASSUME TypeInv, DeliveryInv, NEW r \in Runs, NEW u \in Users, NEW i \in run[r].items,
           ClaimAlert(r, u, i), NEW a \in Alerts, a = AlertOf(r, u, i)
    PROVE  /\ a \notin alerts /\ a[1] \in users /\ alerts' = alerts \cup {a}
           /\ UNCHANGED <<sent, users>>
           /\ sent[a] = 0 /\ \A q \in Runs : ~Sending(q, a)
           /\ \A q \in Runs, k \in Alerts : Sending(q, k)' <=>
                 Sending(q, k) \/ (q = r /\ k = a)
<1>1. a \notin alerts /\ a[1] \in users /\ alerts' = alerts \cup {a}
      /\ UNCHANGED <<sent, users>> /\ run[r].pc = "certs"
    BY DEF ClaimAlert, TryInsertExpiryAlert, NextItem, settings
<1>2. sent[a] = 0 /\ \A q \in Runs : ~Sending(q, a)
    BY <1>1 DEF DeliveryInv
<1>3. run \in [Runs -> RunState]
    BY DEF TypeInv, TypeOK
<1>4. run'[r].pc = "send" /\ run'[r].claim = {a} /\ \A q \in Runs : q # r => run'[q] = run[q]
    BY <1>3 DEF ClaimAlert, RunState
<1>5. \A q \in Runs, k \in Alerts : Sending(q, k)' <=> Sending(q, k) \/ (q = r /\ k = a)
    <2> SUFFICES ASSUME NEW q \in Runs, NEW k \in Alerts
                 PROVE  Sending(q, k)' <=> Sending(q, k) \/ (q = r /\ k = a)
        OBVIOUS
    <2>1. CASE q = r
        <3>1. ~Sending(q, k)
            BY <1>1, <2>1 DEF Sending
        <3>2. Sending(q, k)' <=> {a} = {k}
            BY <1>4, <2>1 DEF Sending
        <3>3. {a} = {k} <=> k = a
            OBVIOUS
        <3>4. QED
            BY <2>1, <3>1, <3>2, <3>3
    <2>2. CASE q # r
        BY <1>4, <2>2 DEF Sending
    <2>3. QED
        BY <2>1, <2>2
<1>6. QED
    BY <1>1, <1>2, <1>5

\* A mail: its alert belonged to the run, and to no run any more.
LEMMA SendEffect ==
    ASSUME TypeInv, DeliveryInv, NEW r \in Runs, NEW a \in Alerts, Send(r, a)
    PROVE  /\ Sending(r, a) /\ sent[a] = 0
           /\ sent' = [sent EXCEPT ![a] = 1] /\ UNCHANGED <<alerts, users>>
           /\ \A q \in Runs, k \in Alerts : Sending(q, k)' <=> Sending(q, k) /\ k # a
<1>1. Sending(r, a) /\ sent' = [sent EXCEPT ![a] = sent[a] + 1] /\ UNCHANGED <<alerts, users>>
    BY DEF Send, settings
<1>2. sent[a] = 0 /\ \A q \in Runs : Sending(q, a) => q = r
    BY <1>1 DEF DeliveryInv
<1>3. run \in [Runs -> RunState]
    BY DEF TypeInv, TypeOK
<1>4. run'[r].pc = "certs" /\ \A q \in Runs : q # r => run'[q] = run[q]
    BY <1>3 DEF Send, RunState
<1>5. \A q \in Runs, k \in Alerts : Sending(q, k)' <=> Sending(q, k) /\ k # a
    <2> SUFFICES ASSUME NEW q \in Runs, NEW k \in Alerts
                 PROVE  Sending(q, k)' <=> Sending(q, k) /\ k # a
        OBVIOUS
    <2>1. CASE q = r
        <3>1. ~Sending(q, k)'
            BY <1>4, <2>1 DEF Sending
        <3>2. Sending(q, k) => {k} = {a}
            BY <1>1, <2>1 DEF Sending
        <3>3. {k} = {a} => k = a
            OBVIOUS
        <3>4. QED
            BY <3>1, <3>2, <3>3
    <2>2. CASE q # r
        <3>1. Sending(q, k)' <=> Sending(q, k)
            BY <1>4, <2>2 DEF Sending
        <3>2. QED
            BY <1>2, <2>2, <3>1
    <2>3. QED
        BY <2>1, <2>2
<1>6. QED
    BY <1>1, <1>2, <1>5

\* Every step keeps the claims in order.
LEMMA DeliveryStep ==
    ASSUME Purges = {}, TypeInv, DeliveryInv, [Next]_vars
    PROVE  DeliveryInv'
<1>0. sent \in [Alerts -> Nat]
    BY DEF TypeInv, TypeOK
<1>1. CASE Quiet
    BY <1>1 DEF Quiet, DeliveryInv
<1>2. ASSUME NEW r \in Runs, NEW a \in Alerts, Send(r, a) PROVE DeliveryInv'
    <2>1. /\ Sending(r, a) /\ sent[a] = 0
          /\ sent' = [sent EXCEPT ![a] = 1] /\ UNCHANGED <<alerts, users>>
          /\ \A q \in Runs, k \in Alerts : Sending(q, k)' <=> Sending(q, k) /\ k # a
        BY <1>2, SendEffect
    <2> SUFFICES ASSUME NEW k \in Alerts
                 PROVE  /\ sent'[k] <= 1
                        /\ sent'[k] # 0 => \A q \in Runs : ~Sending(q, k)'
                        /\ \A p, q \in Runs : Sending(p, k)' /\ Sending(q, k)' => p = q
                        /\ sent'[k] # 0 \/ (\E q \in Runs : Sending(q, k)')
                              => k \in alerts \/ k[1] \notin users
        BY <2>1 DEF DeliveryInv
    <2>2. CASE k = a
        BY <1>0, <2>1, <2>2 DEF DeliveryInv
    <2>3. CASE k # a
        BY <1>0, <2>1, <2>3 DEF DeliveryInv
    <2>4. QED
        BY <2>2, <2>3
<1>3. ASSUME NEW r \in Runs, NEW u \in Users, NEW i \in run[r].items,
             ClaimAlert(r, u, i), AlertOf(r, u, i) \in Alerts
      PROVE  DeliveryInv'
    <2>1. PICK a \in Alerts : a = AlertOf(r, u, i)
        BY <1>3
    <2>2. /\ a \notin alerts /\ a[1] \in users /\ alerts' = alerts \cup {a}
          /\ UNCHANGED <<sent, users>>
          /\ sent[a] = 0 /\ \A q \in Runs : ~Sending(q, a)
          /\ \A q \in Runs, k \in Alerts : Sending(q, k)' <=>
                Sending(q, k) \/ (q = r /\ k = a)
        BY <1>3, <2>1, ClaimEffect
    <2>3. QED
        BY <2>2 DEF DeliveryInv
<1>4. QED
    BY <1>1, <1>2, <1>3, StepKinds

\* At first nothing is claimed.
LEMMA DeliveryInit == Init => DeliveryInv
BY DEF Init, DeliveryInv, Sending, Idle

\* Without purges no alert is mailed twice, whatever overlaps, fails or stops.
THEOREM AlertSentOnce ==
    ASSUME Purges = {}
    PROVE  Spec => []SentOnce
<1>1. TypeInv /\ DeliveryInv /\ [Next]_vars => DeliveryInv'
    BY DeliveryStep
<1>2. DeliveryInv => SentOnce
    BY DEF DeliveryInv, SentOnce
<1>3. QED
    BY <1>1, <1>2, DeliveryInit, TypeInit, TypeStep, PTL DEF Spec

(***************************************************************************)
(* Refinement                                                              *)
(***************************************************************************)
status == [k \in Alerts |-> Status(k)]

\* A quiet step loses alerts at most.
LEMMA QuietRefines ==
    ASSUME DeliveryInv, Quiet, NEW k \in Alerts
    PROVE  Status(k)' = Status(k) \/ (Status(k) # "mailed" /\ Status(k)' = "lost")
<1>1. CASE sent[k] > 0
    BY <1>1 DEF Quiet, Status
<1>2. CASE ~(sent[k] > 0) /\ \E r \in Runs : Sending(r, k)'
    <2>1. \E r \in Runs : Sending(r, k)
        BY <1>2 DEF Quiet
    <2>2. Status(k) = "claimed" /\ Status(k)' = "claimed"
        BY <1>2, <2>1 DEF Quiet, Status
    <2>3. QED
        BY <2>2
<1>3. CASE ~(sent[k] > 0) /\ ~\E r \in Runs : Sending(r, k)'
    <2>1. Status(k)' = IF k \in alerts' \/ k[1] \notin users' THEN "lost" ELSE "pending"
        BY <1>3 DEF Quiet, Status
    <2>2. CASE \E r \in Runs : Sending(r, k)
        <3>1. Status(k) = "claimed"
            BY <1>3, <2>2 DEF Status
        <3>2. k \in alerts' \/ k[1] \notin users'
            BY <2>2 DEF DeliveryInv, Quiet
        <3>3. QED
            BY <2>1, <3>1, <3>2
    <2>3. CASE ~\E r \in Runs : Sending(r, k)
        <3>1. Status(k) = IF k \in alerts \/ k[1] \notin users THEN "lost" ELSE "pending"
            BY <1>3, <2>3 DEF Status
        <3>2. k \in alerts \/ k[1] \notin users => k \in alerts' \/ k[1] \notin users'
            BY DEF Quiet
        <3>3. QED
            BY <2>1, <3>1, <3>2
    <2>4. QED
        BY <2>2, <2>3
<1>4. QED
    BY <1>1, <1>2, <1>3

\* Every step is a step of AlertDelivery or leaves every status alone.
LEMMA StepRefines ==
    ASSUME Purges = {}, TypeInv, DeliveryInv, [Next]_vars
    PROVE  [Delivery!Next]_status
<1>0. sent \in [Alerts -> Nat]
    BY DEF TypeInv, TypeOK
<1>1. status' = [k \in Alerts |-> Status(k)']
    BY DEF status
<1>2. CASE Quiet
    <2> DEFINE S == {k \in Alerts : Status(k)' # Status(k)}
    <2>1. \A k \in Alerts : Status(k)' =
            IF k \in S /\ status[k] # "mailed" THEN "lost" ELSE status[k]
        <3> SUFFICES ASSUME NEW k \in Alerts
                     PROVE  Status(k)' =
                              IF k \in S /\ status[k] # "mailed" THEN "lost" ELSE status[k]
            OBVIOUS
        <3>1. status[k] = Status(k)
            BY DEF status
        <3>2. k \in S <=> Status(k)' # Status(k)
            OBVIOUS
        <3> HIDE DEF S
        <3>3. QED
            BY <1>2, <3>1, <3>2, QuietRefines
    <2>2. S \in SUBSET Alerts
        OBVIOUS
    <2> HIDE DEF S
    <2>3. Delivery!Lose(S)
        BY <1>1, <2>1, Zenon DEF Delivery!Lose, status
    <2>4. QED
        BY <2>2, <2>3, Zenon DEF Delivery!Next
<1>3. ASSUME NEW r \in Runs, NEW a \in Alerts, Send(r, a)
      PROVE  Delivery!Next
    <2>1. /\ Sending(r, a) /\ sent[a] = 0
          /\ sent' = [sent EXCEPT ![a] = 1] /\ UNCHANGED <<alerts, users>>
          /\ \A q \in Runs, k \in Alerts : Sending(q, k)' <=> Sending(q, k) /\ k # a
        BY <1>3, SendEffect
    <2>2. Status(a) = "claimed" /\ Status(a)' = "mailed"
        BY <1>0, <2>1 DEF Status
    <2>3. \A k \in Alerts : k # a => Status(k)' = Status(k)
        BY <1>0, <2>1 DEF Status
    <2>4. status[a] = "claimed" /\ status' = [status EXCEPT ![a] = "mailed"]
        BY <1>1, <2>2, <2>3 DEF status
    <2>5. Delivery!Deliver(a)
        BY <2>4 DEF Delivery!Deliver, status
    <2>6. QED
        BY <2>5 DEF Delivery!Next
<1>4. ASSUME NEW r \in Runs, NEW u \in Users, NEW i \in run[r].items,
             ClaimAlert(r, u, i), AlertOf(r, u, i) \in Alerts
      PROVE  Delivery!Next
    <2>1. PICK a \in Alerts : a = AlertOf(r, u, i)
        BY <1>4
    <2>2. /\ a \notin alerts /\ a[1] \in users /\ alerts' = alerts \cup {a}
          /\ UNCHANGED <<sent, users>>
          /\ sent[a] = 0 /\ \A q \in Runs : ~Sending(q, a)
          /\ \A q \in Runs, k \in Alerts : Sending(q, k)' <=>
                Sending(q, k) \/ (q = r /\ k = a)
        BY <1>4, <2>1, ClaimEffect
    <2>3. Status(a) = "pending" /\ Status(a)' = "claimed"
        BY <2>2 DEF Status
    <2>4. \A k \in Alerts : k # a => Status(k)' = Status(k)
        BY <2>2 DEF Status
    <2>5. status[a] = "pending" /\ status' = [status EXCEPT ![a] = "claimed"]
        BY <1>1, <2>3, <2>4 DEF status
    <2>6. Delivery!Claim(a)
        BY <2>5 DEF Delivery!Claim, status
    <2>7. QED
        BY <2>6 DEF Delivery!Next
<1>5. QED
    BY <1>2, <1>3, <1>4, StepKinds

\* Without purges the overlapping runs implement AlertDelivery: each alert is
\* claimed by one run and then mailed or lost, and neither is undone.
THEOREM RunsImplementDelivery ==
    ASSUME Purges = {}
    PROVE  Spec => ImplementsDelivery
<1>1. Init => Delivery!Init
    <2> SUFFICES ASSUME Init PROVE Delivery!Init
        OBVIOUS
    <2>1. \A k \in Alerts : Status(k) = "pending"
        BY DEF Init, Status, Sending, Idle, Alerts
    <2>2. QED
        BY <2>1 DEF Delivery!Init
<1>2. TypeInv /\ DeliveryInv /\ [Next]_vars => [Delivery!Next]_status
    BY StepRefines
<1>3. TypeInv /\ DeliveryInv /\ [Next]_vars => DeliveryInv'
    BY DeliveryStep
<1>4. QED
    BY <1>1, <1>2, <1>3, DeliveryInit, TypeInit, TypeStep, PTL
       DEF Spec, ImplementsDelivery, Delivery!Spec, status

(***************************************************************************)
(* The order of urgency                                                    *)
(***************************************************************************)
\* What an alert promises to later ones: its threshold is one of those in force and
\* covers what is left of the certificate, on the lists of the run as well.
Covers(k, x) ==
    /\ k[3] \in DefaultSet
    /\ DaysRemaining(k[2]) <= k[3]
    /\ \A i \in x.items : i.cert = k[2] => i.days <= k[3]

\* The thresholds of a run are those in force, what it has listed was listed at
\* once, at a time that is not later than this one, and its claim is due.
RunInv(x) ==
    /\ x.pc \notin {"idle", "thresholds"} =>
          DefaultSet = {x.ts[n] : n \in 1 .. Len(x.ts)}
    /\ \A i, j \in x.items : i.cert = j.cert => i.days = j.days
    /\ \A i \in x.items : DaysRemaining(i.cert) <= i.days
    /\ \A k \in x.claim : Covers(k, x)

\* Next to a mail that was sent, the claim of the run is at least as urgent.
SentInv(x) ==
    \A k \in Alerts : sent[k] # 0 =>
        /\ Covers(k, x)
        /\ \A m \in x.claim : m[2] = k[2] => m[3] <= k[3]

UrgencyInv ==
    /\ thresholds = DefaultSet
    /\ \A r \in Runs : RunInv(run[r]) /\ SentInv(run[r])

\* The sorted thresholds are all of them.
LEMMA SortCovers ==
    ASSUME NEW S \in ThresholdSets, NEW ts \in SortDescending(S)
    PROVE  S = {ts[n] : n \in 1 .. Len(ts)}
<1> DEFINE n == Cardinality(S)
<1>1. n \in Nat /\ S \subseteq Nat /\ S \subseteq 1 .. 365
    BY ThresholdSetType, ExpiryAlertsAssumption
<1>2. IsFiniteSet(S)
    <2>1. IsFiniteSet(1 .. 365)
        <3>1. 1 \in Int /\ 365 \in Int
            OBVIOUS
        <3>2. \A a, b \in Int : IsFiniteSet(a .. b)
            BY FS_Interval
        <3>3. QED
            BY <3>1, <3>2, Zenon
    <2>2. QED
        BY <1>1, <2>1, FS_Subset
<1>3. ts \in [1 .. n -> S] /\ \A i, j \in 1 .. n : i < j => ts[i] > ts[j]
    BY DEF SortDescending
<1> HIDE DEF n
<1>4. Cardinality(1 .. n) = n
    <2>1. Cardinality(1 .. n) = IF 1 > n THEN 0 ELSE n - 1 + 1
        BY <1>1, FS_Interval
    <2>2. QED
        BY <1>1, <2>1
<1>5. \A i, j \in 1 .. n : ts[i] = ts[j] => i = j
    <2> SUFFICES ASSUME NEW i \in 1 .. n, NEW j \in 1 .. n, ts[i] = ts[j], i # j PROVE FALSE
        OBVIOUS
    <2>1. ts[i] \in S /\ ts[j] \in S /\ S \subseteq Nat
        BY <1>1, <1>3
    <2>2. i < j \/ j < i
        BY <1>1
    <2>3. QED
        <3>1. \A a, b \in Nat : a = b => ~(a > b)
            OBVIOUS
        <3>2. ts[i] > ts[j] \/ ts[j] > ts[i]
            BY <1>3, <2>2
        <3>3. QED
            BY <2>1, <3>1, <3>2
<1>6. ts \in Injection(1 .. n, S)
    BY <1>3, <1>5 DEF Injection, IsInjective
<1>7. ts \in Surjection(1 .. n, S)
    BY <1>2, <1>4, <1>6, FS_Injection DEF n
<1>8. \A t \in S : \E i \in 1 .. n : ts[i] = t
    BY <1>7 DEF Surjection
<1>9. Len(ts) = n
    BY <1>1, <1>3
<1>10. QED
    BY <1>3, <1>8, <1>9

\* A run that lists nothing and claims nothing.
LEMMA ShrinksUrgency ==
    ASSUME NEW x, NEW y, RunInv(x), SentInv(x), UNCHANGED <<now, sent>>,
           y.items \subseteq x.items, y.claim \subseteq x.claim,
           y.pc \notin {"idle", "thresholds"} =>
              x.pc \notin {"idle", "thresholds"} /\ y.ts = x.ts
    PROVE  RunInv(y)' /\ SentInv(y)'
<1>1. RunInv(y)'
    BY DEF RunInv, Covers, DaysRemaining
<1>2. SentInv(y)'
    BY DEF SentInv, Covers, DaysRemaining
<1>3. QED
    BY <1>1, <1>2

\* A run lists for the next user: all at once, as the clock stands.
LEMMA ListsUrgency ==
    ASSUME TypeInv, NEW r \in Runs, NEW x, x = run[r], NEW y, y = run'[r],
           RunInv(x), SentInv(x), ListCerts(r)
    PROVE  RunInv(y)' /\ SentInv(y)'
<1>1. /\ y.pc = "certs" /\ y.ts = x.ts /\ y.claim = x.claim /\ x.pc = "listing"
      /\ y.items = ListExpiringActiveCertsTagged(x.eps, x.ts[1])
      /\ UNCHANGED <<now, sent>>
    BY DEF ListCerts, TypeInv, TypeOK, RunState, settings
<1>2. \A i \in y.items : i.days = DaysRemaining(i.cert) /\ i.cert \in Certs
    <2>1. y.items \subseteq VActiveCertificates
        BY <1>1 DEF ListExpiringActiveCertsTagged, ListExpiringActiveCerts
    <2>2. \A i \in VActiveCertificates : i.days = DaysRemaining(i.cert) /\ i.cert \in Certs
        BY DEF VActiveCertificates, TypeInv, TypeOK
    <2>3. QED
        BY <2>1, <2>2
<1>3. \A c \in Certs : DaysRemaining(c) \in Int
    BY DaysType DEF TypeInv
<1>4. RunInv(y)'
    BY <1>1, <1>2, <1>3 DEF RunInv, Covers, DaysRemaining
<1>5. SentInv(y)'
    BY <1>1, <1>2 DEF SentInv, Covers, DaysRemaining
<1>6. QED
    BY <1>4, <1>5

\* A run claims: the bucket is the smallest threshold that covers the days, so it
\* is not larger than one that was mailed.
LEMMA ClaimsUrgency ==
    ASSUME TypeInv, NEW r \in Runs, NEW x, x = run[r], NEW y, y = run'[r],
           RunInv(x), SentInv(x),
           NEW u \in Users, NEW i \in x.items, ClaimAlert(r, u, i)
    PROVE  RunInv(y)' /\ SentInv(y)'
<1> DEFINE t == alertThreshold(i.days, x.ts)
<1>1. /\ y.pc = "send" /\ y.ts = x.ts /\ y.items = x.items \ {i} /\ x.pc = "certs"
      /\ y.claim = {<<u, i.cert, t>>} /\ UNCHANGED <<now, sent>>
    BY DEF ClaimAlert, NextItem, AlertOf, TypeInv, TypeOK, RunState, settings
<1>2. x \in FittingRun /\ i \in x.items /\ i \in Item
    BY DEF TypeInv, FittingRun, RunState
<1>3. /\ \E m \in 1 .. Len(x.ts) : t = x.ts[m]
      /\ i.days <= t
      /\ \A m \in 1 .. Len(x.ts) : i.days <= x.ts[m] => t <= x.ts[m]
      /\ t \in Thresholds
    BY <1>2, BucketOfItem
<1> HIDE DEF t
<1>4. t \in DefaultSet /\ \A s \in DefaultSet : i.days <= s => t <= s
    BY <1>1, <1>3 DEF RunInv
<1>5. t \in Int /\ i.days \in Int /\ i.cert \in Certs /\ DaysRemaining(i.cert) \in Int
    <2>1. Thresholds \subseteq Nat
        BY ExpiryAlertsAssumption DEF Thresholds
    <2>2. QED
        BY <1>2, <1>3, <2>1, DaysType DEF Item, TypeInv
<1>6. DaysRemaining(i.cert) <= t /\ \A j \in x.items : j.cert = i.cert => j.days <= t
    <2>1. DaysRemaining(i.cert) <= i.days /\ \A j \in x.items : j.cert = i.cert => j.days = i.days
        BY <1>2 DEF RunInv
    <2>2. QED
        BY <1>3, <1>5, <2>1
<1>7. ASSUME NEW k \in y.claim PROVE Covers(k, y)
    <2>1. k[2] = i.cert /\ k[3] = t
        BY <1>1, <1>7
    <2>2. QED
        BY <1>1, <1>4, <1>6, <2>1 DEF Covers
<1>8. RunInv(y)'
    BY <1>1, <1>7 DEF RunInv, Covers, DaysRemaining
<1>9. SentInv(y)'
    <2> SUFFICES ASSUME NEW k \in Alerts, sent[k] # 0
                 PROVE  Covers(k, y) /\ \A m \in y.claim : m[2] = k[2] => m[3] <= k[3]
        BY <1>1 DEF SentInv, Covers, DaysRemaining
    <2>1. Covers(k, x)
        BY DEF SentInv
    <2>2. Covers(k, y)
        BY <1>1, <2>1 DEF Covers
    <2>3. i.cert = k[2] => t <= k[3]
        BY <1>2, <1>4, <2>1 DEF Covers
    <2>4. QED
        BY <1>1, <2>2, <2>3
<1>10. QED
    BY <1>8, <1>9

\* A run sends the mail of its claim.
LEMMA SendsUrgency ==
    ASSUME TypeInv, NEW r \in Runs, NEW x, x = run[r], NEW y, y = run'[r],
           RunInv(x), SentInv(x), NEW k \in Alerts, Send(r, k)
    PROVE  RunInv(y)' /\ SentInv(y)'
<1>1. /\ y.pc = "certs" /\ y.ts = x.ts /\ y.items = x.items
      /\ x.pc \in {"send", "stalled"}
      /\ x.claim = {k} /\ y.claim = {} /\ now' = now
    BY DEF Send, Sending, TypeInv, TypeOK, RunState, settings
<1>2. \A l \in Alerts : l # k => sent'[l] = sent[l]
    BY DEF Send, TypeInv, TypeOK
<1>3. RunInv(y)'
    BY <1>1 DEF RunInv, Covers, DaysRemaining
<1>4. Covers(k, x)
    BY <1>1 DEF RunInv
<1>5. SentInv(y)'
    BY <1>1, <1>2, <1>4 DEF SentInv, Covers, DaysRemaining
<1>6. QED
    BY <1>3, <1>5

\* The clock moves on: no more is left of any certificate.
LEMMA TickUrgency ==
    ASSUME TypeInv, UrgencyInv, Tick PROVE UrgencyInv'
<1>1. UNCHANGED <<thresholds, run, sent>> /\ now' = now + 1
    BY DEF Tick
<1>2. ASSUME NEW c \in Certs
      PROVE  /\ DaysRemaining(c) \in Int /\ DaysRemaining(c)' \in Int
             /\ DaysRemaining(c)' <= DaysRemaining(c)
    <2>1. PICK a \in Int : a = NotAfter[c] - now
        BY ExpiryAlertsAssumption DEF TypeInv, TypeOK
    <2>2. Day \in Nat \ {0} /\ Day' = Day /\ NotAfter[c] - now' = a - 1
        BY <1>1, <2>1, ExpiryAlertsAssumption DEF TypeInv, TypeOK
    <2>3. a \div Day \in Int /\ (a - 1) \div Day \in Int /\ (a - 1) \div Day <= a \div Day
        BY <2>1, <2>2, FloorMono
    <2>4. DaysRemaining(c) = a \div Day /\ DaysRemaining(c)' = (a - 1) \div Day
        BY <2>1, <2>2 DEF DaysRemaining
    <2>5. QED
        BY <2>3, <2>4
<1>3. DefaultSet \subseteq Nat
    BY ExpiryAlertsAssumption
<1>4. ASSUME NEW r \in Runs PROVE RunInv(run[r])' /\ SentInv(run[r])'
    <2>1. /\ run[r].items \subseteq Item /\ run[r].claim \subseteq Alerts
        BY DEF TypeInv, TypeOK, RunState
    <2>2. ASSUME NEW k \in Alerts, Covers(k, run[r]) PROVE Covers(k, run[r])'
        <3>1. k[2] \in Certs /\ k[3] \in Nat /\ DaysRemaining(k[2]) <= k[3]
            BY <1>3, <2>2 DEF Covers, Alerts
        <3>2. DaysRemaining(k[2])' <= k[3]
            BY <1>2, <3>1
        <3>3. QED
            BY <1>1, <2>2, <3>2 DEF Covers
    <2>3. \A i \in run[r].items : DaysRemaining(i.cert)' <= i.days
        <3> SUFFICES ASSUME NEW i \in run[r].items PROVE DaysRemaining(i.cert)' <= i.days
            OBVIOUS
        <3>1. i.cert \in Certs /\ i.days \in Int /\ DaysRemaining(i.cert) <= i.days
            BY <2>1 DEF Item, UrgencyInv, RunInv
        <3>2. QED
            BY <1>2, <3>1
    <2>4. RunInv(run[r])'
        BY <1>1, <2>1, <2>2, <2>3 DEF UrgencyInv, RunInv
    <2>5. SentInv(run[r])'
        BY <1>1, <2>2 DEF UrgencyInv, SentInv
    <2>6. QED
        BY <2>4, <2>5
<1>5. QED
    BY <1>1, <1>4 DEF UrgencyInv

\* A step of the only run.
LEMMA RunUrgency ==
    ASSUME \A q, r \in Runs : q = r, TypeInv, UrgencyInv, NEW r \in Runs, RunExpiryAlerts(r)
    PROVE  UrgencyInv'
<1>1. PICK x, y : x = run[r] /\ y = run'[r]
    OBVIOUS
<1>2. RunInv(x) /\ SentInv(x) /\ thresholds = DefaultSet /\ run \in [Runs -> RunState]
      /\ thresholds \in ThresholdSets
    BY <1>1 DEF UrgencyInv, TypeInv, TypeOK
<1>3. thresholds' = thresholds
    BY DEF RunExpiryAlerts, Step, Fault, Begin, LoadThresholds, ListNotifyUsers, NextUser,
       ListCerts, ListFails, EndUser, EndRun, ClaimAlert, SkipAlert, ClaimFails, Send,
       SendFails, SendStalls, LateAnswer, Abort, settings
<1>4. SUFFICES RunInv(y)' /\ SentInv(y)'
    <2>1. \A q \in Runs : run'[q] = y
        BY <1>1
    <2>2. QED
        BY <1>2, <1>3, <1>4, <2>1 DEF UrgencyInv, RunInv, SentInv, Covers, DaysRemaining
<1>5. ASSUME y.items \subseteq x.items, y.claim \subseteq x.claim, UNCHANGED <<now, sent>>,
             y.pc = "thresholds" \/ (x.pc \notin {"idle", "thresholds"} /\ y.ts = x.ts)
      PROVE  RunInv(y)' /\ SentInv(y)'
    BY <1>2, <1>5, ShrinksUrgency
<1>6. CASE Begin(r)
    BY <1>1, <1>2, <1>5, <1>6 DEF Begin, RunState, settings
<1>7. CASE ListNotifyUsers(r)
    BY <1>1, <1>2, <1>5, <1>7 DEF ListNotifyUsers, RunState, settings
<1>8. ASSUME NEW u \in Users, NextUser(r, u) PROVE RunInv(y)' /\ SentInv(y)'
    <2>1. run' = [run EXCEPT ![r] = [x EXCEPT !.pc = "listing", !.todo = @ \ {u}, !.user = {u},
                                              !.eps = SubscribedEndpoints(u)]]
          /\ x.pc = "users" /\ UNCHANGED <<now, sent>>
        BY <1>1, <1>2, <1>8 DEF NextUser, settings
    <2>2. y.items = x.items /\ y.claim = x.claim /\ y.ts = x.ts
        BY <1>1, <1>2, <2>1 DEF RunState
    <2>3. QED
        BY <1>5, <2>1, <2>2
<1>9. CASE EndUser(r) \/ ListFails(r) \/ SendFails(r) \/ SendStalls(r)
    BY <1>1, <1>2, <1>5, <1>9 DEF EndUser, ListFails, SendFails, SendStalls, RunState, settings
<1>10. CASE \E i \in run[r].items : ClaimFails(r, i) \/ \E u \in Users : SkipAlert(r, u, i)
    BY <1>1, <1>2, <1>5, <1>10 DEF ClaimFails, SkipAlert, NextItem, RunState, settings
<1>11. CASE EndRun(r) \/ Abort(r)
    <2>1. y = Idle /\ UNCHANGED <<now, sent>>
        BY <1>1, <1>2, <1>11 DEF EndRun, Abort, settings
    <2>2. y.items = {} /\ y.claim = {} /\ y.pc = "idle"
        BY <2>1 DEF Idle
    <2>3. QED
        BY <1>2, <2>1, <2>2, ShrinksUrgency
<1>12. CASE LoadThresholds(r)
    <2>1. PICK ts \in SortDescending(DefaultSet) :
             run' = [run EXCEPT ![r] = IF ts = <<>> THEN Idle
                                       ELSE [run[r] EXCEPT !.pc = "recipients", !.ts = ts]]
        BY <1>2, <1>12 DEF LoadThresholds
    <2>2. UNCHANGED <<now, sent>>
        BY <1>12 DEF LoadThresholds, settings
    <2>3. CASE ts = <<>>
        <3>1. y.items = {} /\ y.claim = {} /\ y.pc = "idle"
            BY <1>1, <1>2, <2>1, <2>3 DEF Idle
        <3>2. QED
            BY <1>2, <2>2, <3>1, ShrinksUrgency
    <2>4. CASE ts # <<>>
        <3>1. y.items = x.items /\ y.claim = x.claim /\ y.ts = ts
            BY <1>1, <1>2, <2>1, <2>4 DEF RunState
        <3>2. DefaultSet = {ts[n] : n \in 1 .. Len(ts)}
            BY <1>2, SortCovers
        <3>3. RunInv(y)'
            BY <1>2, <2>2, <3>1, <3>2 DEF RunInv, Covers, DaysRemaining
        <3>4. SentInv(y)'
            BY <1>2, <2>2, <3>1 DEF SentInv, Covers, DaysRemaining
        <3>5. QED
            BY <3>3, <3>4
    <2>5. QED
        BY <2>3, <2>4
<1>13. ASSUME NEW u \in Users, NEW i \in run[r].items, ClaimAlert(r, u, i)
      PROVE  RunInv(y)' /\ SentInv(y)'
    BY <1>1, <1>2, <1>13, ClaimsUrgency
<1>14. ASSUME NEW k \in Alerts, Send(r, k) PROVE RunInv(y)' /\ SentInv(y)'
    BY <1>1, <1>2, <1>14, SendsUrgency
<1>15. CASE ListCerts(r)
    BY <1>1, <1>2, <1>15, ListsUrgency
<1>16. QED
    BY <1>11, <1>12, <1>13, <1>14, <1>15, <1>6, <1>7, <1>9, <1>10, <1>8
       DEF RunExpiryAlerts, Step, LateAnswer, Fault

\* Every step keeps the order of urgency, with one run at a time and the
\* thresholds as they were.
LEMMA UrgencyStep ==
    ASSUME \A q, r \in Runs : q = r, "thresholds" \notin Admin, TypeInv, UrgencyInv, [Next]_vars
    PROVE  UrgencyInv'
<1>1. CASE UNCHANGED <<now, thresholds, run, sent>>
    BY <1>1 DEF UrgencyInv, RunInv, SentInv, Covers, DaysRemaining
<1>2. CASE Inventory
    BY <1>1, <1>2, TickUrgency DEF Inventory, ScanFinds, PurgeExpiryAlerts,
       PurgeCertificate, settings
<1>3. CASE Administration
    BY <1>1, <1>3 DEF Administration, SetEndpointEnabled, SetMailEnabled, SetAlertThresholds,
       SetNotify, DeleteUser, SetUserTagSubscriptions, SetEndpointTags, settings
<1>4. QED
    BY <1>1, <1>2, <1>3, RunUrgency DEF Next, vars

\* At first nothing is listed and nothing sent.
LEMMA UrgencyInit == Init => UrgencyInv
BY DEF Init, UrgencyInv, RunInv, SentInv, Idle

\* With one run at a time and the thresholds as they were at first, a user hears
\* about a certificate in order of urgency: RunExpiryAlerts never mails a
\* larger threshold after a smaller one, whatever fails, is purged, changes hands
\* or comes back in between.
THEOREM AlertsGrowMoreUrgent ==
    ASSUME \A q, r \in Runs : q = r, "thresholds" \notin Admin
    PROVE  Spec => UrgencyRises
<1>1. TypeInv /\ UrgencyInv /\ [Next]_vars => UrgencyInv'
    BY UrgencyStep
<1>2. ASSUME TypeInv, UrgencyInv, [Next]_vars,
             NEW k \in Alerts, sent'[k] # sent[k], NEW t \in Thresholds, t < k[3]
      PROVE  sent[<<k[1], k[2], t>>] = 0
    <2>1. PICK r \in Runs, l \in Alerts : Send(r, l)
        <3>1. ASSUME NEW q \in Runs, RunExpiryAlerts(q) PROVE \E l \in Alerts : Send(q, l)
            BY <1>2, <3>1 DEF RunExpiryAlerts, Step, Fault, Begin, LoadThresholds,
               ListNotifyUsers, NextUser, ListCerts, ListFails, EndUser, EndRun, ClaimAlert,
               SkipAlert, ClaimFails, SendFails, SendStalls, LateAnswer, Abort
        <3>2. ~Inventory
            BY <1>2 DEF Inventory, Tick, ScanFinds, PurgeExpiryAlerts, PurgeCertificate
        <3>3. ~Administration
            BY <1>2 DEF Administration, SetEndpointEnabled, SetMailEnabled, SetAlertThresholds,
               SetNotify, DeleteUser, SetUserTagSubscriptions, SetEndpointTags
        <3>4. QED
            BY <1>2, <3>1, <3>2, <3>3 DEF Next, vars
    <2>2. l = k
        BY <1>2, <2>1 DEF Send, TypeInv, TypeOK
    <2>3. k \in run[r].claim
        BY <2>1, <2>2 DEF Send, Sending
    <2>4. PICK m : m = <<k[1], k[2], t>>
        OBVIOUS
    <2>5. m \in Alerts /\ m[2] = k[2] /\ m[3] = t
        BY <1>2, <2>4 DEF Alerts
    <2>6. sent[m] # 0 => k[3] <= t
        BY <1>2, <2>3, <2>5 DEF UrgencyInv, SentInv
    <2>7. k[3] \in Nat /\ t \in Nat
        <3>1. Thresholds \subseteq Nat
            BY ExpiryAlertsAssumption DEF Thresholds
        <3>2. QED
            BY <1>2, <3>1 DEF Alerts
    <2>8. QED
        BY <1>2, <2>4, <2>6, <2>7
<1>3. TypeInv /\ UrgencyInv /\ [Next]_vars
      => [\A k \in Alerts : sent'[k] # sent[k] =>
             \A t \in Thresholds : t < k[3] => sent[<<k[1], k[2], t>>] = 0]_vars
    BY <1>2
<1>4. QED
    BY <1>1, <1>3, UrgencyInit, TypeInit, TypeStep, PTL DEF Spec, UrgencyRises

=============================================================================
