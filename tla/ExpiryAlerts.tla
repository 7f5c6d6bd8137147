----------------------------- MODULE ExpiryAlerts -----------------------------
(***************************************************************************)
(* RunExpiryAlerts: for every recipient, list the certificates that expire *)
(* soon, claim the (user, certificate, threshold) row of                   *)
(* certificate_expiry_alerts, and mail the ones that were claimed.         *)
(*                                                                         *)
(* Every query is a step of its own: tags, links, settings and accounts    *)
(* change between them.  Runs may overlap: a job that was updated has two  *)
(* entries in the scheduler (see Scheduler).                               *)
(*                                                                         *)
(* mail.Send takes no context and sets no deadline: a mail server that     *)
(* accepts the connection and then says nothing keeps the run in the send  *)
(* (SendStalls) until it answers after all or the server is stopped.       *)
(***************************************************************************)
EXTENDS Integers, Sequences, FiniteSets

CONSTANTS
    Users, Certs, Endpoints, Tags,
    ThresholdSets,  \* the sets of thresholds an administrator may save
    DefaultSet,     \* the one in force at first
    Day,            \* a day, in ticks of the clock
    NotAfter,       \* [Certs -> Nat]: when each certificate expires
    MaxNow,         \* bound: the last tick
    MaxMails,       \* bound: mails per alert
    Runs,           \* runs of the job that may overlap
    Purges,         \* which purges happen: "alerts", "certs"
    Admin,          \* which settings change: "mail", "thresholds", "users", "tags",
                    \* "endpoints"
    MaxUpsets       \* bound: changes of settings, failed statements and mails, and
                    \* stops of the server, per behaviour

Thresholds == UNION ThresholdSets
Alerts == Users \X Certs \X Thresholds

ASSUME ExpiryAlertsAssumption ==
    /\ ThresholdSets \subseteq SUBSET (1 .. 365) /\ DefaultSet \in ThresholdSets
    /\ Day \in Nat \ {0} /\ NotAfter \in [Certs -> Nat]
    /\ MaxNow \in Nat /\ MaxMails \in Nat /\ MaxUpsets \in Nat
    /\ Purges \subseteq {"alerts", "certs"}
    /\ Admin \subseteq {"mail", "thresholds", "users", "tags", "endpoints"}

VARIABLES
    now,         \* the database clock
    mailOn,      \* mail_config.enabled
    thresholds,  \* the saved thresholds
    users,       \* accounts that exist
    notify,      \* enabled, notify = TRUE and an email address
    subs,        \* user_tag_subscriptions
    tags,        \* endpoint_tags
    enabled,     \* enabled endpoints
    current,     \* endpoint_certs WHERE is_current
    stored,      \* certificates
    alerts,      \* certificate_expiry_alerts
    run,         \* the runs
    sent,        \* mails delivered, per alert
    spell,       \* history: claims since the certificate last came or went
    upsets       \* changes of settings and faults so far

vars == <<now, mailOn, thresholds, users, notify, subs, tags, enabled, current,
          stored, alerts, run, sent, spell, upsets>>

settings == <<now, mailOn, thresholds, users, notify, subs, tags>>
inventory == <<enabled, current, stored>>

Item == [ep : Endpoints, cert : Certs, days : Int]

\* pc: "idle", "thresholds" (GetAlertThresholds is next), "recipients"
\* (ListNotifyUsers), "users" (the loop over the recipients), "listing" (the
\* certificate query of ListExpiringActiveCertsTagged), "certs" (the loop over
\* the certificates), "send" (mail.Send for the claim), "stalled" (the mail
\* server has stopped answering).
RunState ==
    [pc : {"idle", "thresholds", "recipients", "users", "listing", "certs", "send",
           "stalled"},
     ts : Seq(Thresholds), todo : SUBSET Users, user : SUBSET Users,
     eps : SUBSET Endpoints, items : SUBSET Item, claim : SUBSET Alerts]

Idle == [pc |-> "idle", ts |-> <<>>, todo |-> {}, user |-> {}, eps |-> {},
         items |-> {}, claim |-> {}]

Init ==
    /\ now = 0
    /\ mailOn = TRUE
    /\ thresholds = DefaultSet
    /\ users = Users /\ notify = Users
    /\ subs \in [Users -> SUBSET Tags]
    /\ tags \in [Endpoints -> SUBSET Tags]
    /\ enabled = Endpoints
    /\ current = {}
    /\ stored = {}
    /\ alerts = {}
    /\ run = [r \in Runs |-> Idle]
    /\ sent = [k \in Alerts |-> 0]
    /\ spell = [k \in Alerts |-> 0]
    /\ upsets = 0

Upset == upsets < MaxUpsets /\ upsets' = upsets + 1

(***************************************************************************)
(* The queries                                                             *)
(***************************************************************************)
\* Mutant of DaysRemaining: the operands swapped.
DaysRemainingSwapped(c) == (now - NotAfter[c]) \div Day

\* FLOOR of the days left: it drops at each certificate's own time of the day.
DaysRemaining(c) == (NotAfter[c] - now) \div Day

\* Mutant of SortDescending: ascending.
SortAscending(S) ==
    {ts \in [1 .. Cardinality(S) -> S] :
        \A i, j \in 1 .. Cardinality(S) : i < j => ts[i] < ts[j]}

\* The listings of S from large to small: there is one.
SortDescending(S) ==
    {ts \in [1 .. Cardinality(S) -> S] :
        \A i, j \in 1 .. Cardinality(S) : i < j => ts[i] > ts[j]}

\* The loop keeps the last threshold that qualifies; 0 for none.
alertThreshold(days, ts) ==
    LET Q == {i \in 1 .. Len(ts) : days <= ts[i]} IN
    IF Q = {} THEN 0 ELSE ts[CHOOSE i \in Q : \A j \in Q : j <= i]

\* Rows of v_active_certificates.
VActiveCertificates ==
    {[ep |-> p[1], cert |-> p[2], days |-> DaysRemaining(p[2])] :
        p \in {q \in current : q[1] \in enabled}}

\* Mutant of ListExpiringActiveCerts: the last day of the window is left out.
ListExpiringActiveCertsStrict(maxDays) == {i \in VActiveCertificates : i.days < maxDays}

\* ListExpiringActiveCerts.
ListExpiringActiveCerts(maxDays) == {i \in VActiveCertificates : i.days <= maxDays}

\* The endpoints that share a tag with the user's subscriptions.
SubscribedEndpoints(u) == {e \in Endpoints : tags[e] \cap subs[u] # {}}

\* The certificate query: no endpoint reached through a subscription means all.
ListExpiringActiveCertsTagged(eps, maxDays) ==
    IF eps = {} THEN ListExpiringActiveCerts(maxDays)
    ELSE {i \in ListExpiringActiveCerts(maxDays) : i.ep \in eps}

(***************************************************************************)
(* RunExpiryAlerts                                                         *)
(***************************************************************************)
Begin(r) ==
    /\ run[r].pc = "idle"
    /\ mailOn
    /\ run' = [run EXCEPT ![r].pc = "thresholds"]
    /\ UNCHANGED <<settings, inventory, alerts, sent, spell, upsets>>

LoadThresholds(r) ==
    /\ run[r].pc = "thresholds"
    /\ \E ts \in SortDescending(thresholds) :
          run' = [run EXCEPT ![r] =
                    IF ts = <<>> THEN Idle
                    ELSE [run[r] EXCEPT !.pc = "recipients", !.ts = ts]]
    /\ UNCHANGED <<settings, inventory, alerts, sent, spell, upsets>>

ListNotifyUsers(r) ==
    /\ run[r].pc = "recipients"
    /\ run' = [run EXCEPT ![r].pc = "users", ![r].todo = notify]
    /\ UNCHANGED <<settings, inventory, alerts, sent, spell, upsets>>

\* The first query of ListExpiringActiveCertsTagged for the next recipient.
NextUser(r, u) ==
    /\ run[r].pc = "users"
    /\ u \in run[r].todo
    /\ run' = [run EXCEPT ![r].pc = "listing", ![r].todo = @ \ {u}, ![r].user = {u},
                          ![r].eps = SubscribedEndpoints(u)]
    /\ UNCHANGED <<settings, inventory, alerts, sent, spell, upsets>>

ListCerts(r) ==
    /\ run[r].pc = "listing"
    /\ run' = [run EXCEPT ![r].pc = "certs",
                 ![r].items = ListExpiringActiveCertsTagged(run[r].eps, run[r].ts[1])]
    /\ UNCHANGED <<settings, inventory, alerts, sent, spell, upsets>>

\* A query of ListExpiringActiveCertsTagged fails: the next recipient.
ListFails(r) ==
    /\ Upset
    /\ run[r].pc = "listing"
    /\ run' = [run EXCEPT ![r].pc = "users", ![r].user = {}, ![r].eps = {}]
    /\ UNCHANGED <<settings, inventory, alerts, sent, spell>>

EndUser(r) ==
    /\ run[r].pc = "certs"
    /\ run[r].items = {}
    /\ run' = [run EXCEPT ![r].pc = "users", ![r].user = {}, ![r].eps = {}]
    /\ UNCHANGED <<settings, inventory, alerts, sent, spell, upsets>>

EndRun(r) ==
    /\ run[r].pc = "users"
    /\ run[r].todo = {}
    /\ run' = [run EXCEPT ![r] = Idle]
    /\ UNCHANGED <<settings, inventory, alerts, sent, spell, upsets>>

\* ORDER BY days_remaining.
NextItem(r, i) ==
    /\ run[r].pc = "certs"
    /\ i \in run[r].items
    /\ \A j \in run[r].items : i.days <= j.days

AlertOf(r, u, i) == <<u, i.cert, alertThreshold(i.days, run[r].ts)>>

\* Mutant of TryInsertExpiryAlert: reports an insert on conflict as well.
TryInsertExpiryAlertAlways(k) == alerts' = alerts \cup {k}

\* Mutant of TryInsertExpiryAlert: without the foreign keys.
TryInsertExpiryAlertUnchecked(k) ==
    /\ k \notin alerts
    /\ alerts' = alerts \cup {k}

\* The row is new, and the account and the certificate exist (foreign keys).
TryInsertExpiryAlert(k) ==
    /\ k \notin alerts
    /\ k[1] \in users /\ k[2] \in stored
    /\ alerts' = alerts \cup {k}

ClaimAlert(r, u, i) ==
    /\ NextItem(r, i)
    /\ run[r].user = {u}
    /\ alertThreshold(i.days, run[r].ts) # 0
    /\ TryInsertExpiryAlert(AlertOf(r, u, i))
    /\ spell' = [spell EXCEPT ![AlertOf(r, u, i)] = @ + 1]
    /\ run' = [run EXCEPT ![r].pc = "send", ![r].items = @ \ {i},
                          ![r].claim = {AlertOf(r, u, i)}]
    /\ UNCHANGED <<settings, inventory, sent, upsets>>

\* The certificate needs no alert or has had it, or a foreign key refuses it.
SkipAlert(r, u, i) ==
    /\ NextItem(r, i)
    /\ run[r].user = {u}
    /\ \/ alertThreshold(i.days, run[r].ts) = 0
       \/ AlertOf(r, u, i) \in alerts
       \/ u \notin users \/ i.cert \notin stored
    /\ run' = [run EXCEPT ![r].items = @ \ {i}]
    /\ UNCHANGED <<settings, inventory, alerts, sent, spell, upsets>>

\* The INSERT fails for another reason: the next certificate.
ClaimFails(r, i) ==
    /\ Upset
    /\ NextItem(r, i)
    /\ run' = [run EXCEPT ![r].items = @ \ {i}]
    /\ UNCHANGED <<settings, inventory, alerts, sent, spell>>

Sending(r, k) == run[r].pc \in {"send", "stalled"} /\ run[r].claim = {k}

Send(r, k) ==
    /\ Sending(r, k)
    /\ sent[k] < MaxMails
    /\ sent' = [sent EXCEPT ![k] = @ + 1]
    /\ run' = [run EXCEPT ![r].pc = "certs", ![r].claim = {}]
    /\ UNCHANGED <<settings, inventory, alerts, spell, upsets>>

\* mail.Send returns an error: it is logged, and the row stays.
SendFails(r) ==
    /\ Upset
    /\ run[r].pc \in {"send", "stalled"}
    /\ run' = [run EXCEPT ![r].pc = "certs", ![r].claim = {}]
    /\ UNCHANGED <<settings, inventory, alerts, sent, spell>>

\* The mail server goes silent in the middle of mail.Send.
SendStalls(r) ==
    /\ run[r].pc = "send"
    /\ run' = [run EXCEPT ![r].pc = "stalled"]
    /\ UNCHANGED <<settings, inventory, alerts, sent, spell, upsets>>

\* The run gives up (a query fails), or the server stops.
Abort(r) ==
    /\ Upset
    /\ run[r].pc # "idle"
    /\ run' = [run EXCEPT ![r] = Idle]
    /\ UNCHANGED <<settings, inventory, alerts, sent, spell>>

(***************************************************************************)
(* Everything else                                                         *)
(***************************************************************************)
Tick ==
    /\ now < MaxNow
    /\ now' = now + 1
    /\ UNCHANGED <<mailOn, thresholds, users, notify, subs, tags, inventory, alerts,
                   run, sent, spell, upsets>>

OnSome(c, cur) == \E e \in Endpoints : <<e, c>> \in cur

\* spell starts again for the certificates that come or go.
Respell(cur) ==
    spell' = [k \in Alerts |-> IF OnSome(k[2], current) <=> OnSome(k[2], cur)
                               THEN spell[k] ELSE 0]

\* A scan finds c on e: the certificate is stored and becomes the current one.
ScanFinds(e, c) ==
    LET cur == {p \in current : p[1] # e} \cup {<<e, c>>} IN
    /\ current # cur
    /\ current' = cur
    /\ stored' = stored \cup {c}
    /\ Respell(cur)
    /\ UNCHANGED <<settings, enabled, alerts, run, sent, upsets>>

\* Mutant of PurgeableAlerts: looks at one endpoint's certificate only.
PurgeableAlertsAny ==
    {k \in alerts : \E e \in Endpoints : <<e, k[2]>> \notin current}

PurgeableAlerts ==
    {k \in alerts : \A e \in Endpoints : <<e, k[2]>> \notin current}

PurgeExpiryAlerts ==
    /\ "alerts" \in Purges
    /\ PurgeableAlerts # {}
    /\ alerts' = alerts \ PurgeableAlerts
    /\ UNCHANGED <<settings, inventory, run, sent, spell, upsets>>

\* PurgeCertificate: the row, its links and (ON DELETE CASCADE) its alerts.
PurgeCertificate(c) ==
    LET cur == {p \in current : p[2] # c} IN
    /\ "certs" \in Purges
    /\ c \in stored
    /\ stored' = stored \ {c}
    /\ current' = cur
    /\ alerts' = {k \in alerts : k[2] # c}
    /\ Respell(cur)
    /\ UNCHANGED <<settings, enabled, run, sent, upsets>>

SetEndpointEnabled(e, on) ==
    /\ "endpoints" \in Admin /\ Upset
    /\ on # (e \in enabled)
    /\ enabled' = IF on THEN enabled \cup {e} ELSE enabled \ {e}
    /\ UNCHANGED <<settings, current, stored, alerts, run, sent, spell>>

SetMailEnabled(on) ==
    /\ "mail" \in Admin /\ Upset
    /\ mailOn # on
    /\ mailOn' = on
    /\ UNCHANGED <<now, thresholds, users, notify, subs, tags, inventory, alerts,
                   run, sent, spell>>

SetAlertThresholds(S) ==
    /\ "thresholds" \in Admin /\ Upset
    /\ S # {} /\ S # thresholds
    /\ thresholds' = S
    /\ UNCHANGED <<now, mailOn, users, notify, subs, tags, inventory, alerts, run,
                   sent, spell>>

\* SetUserEnabled, and UpdateUser and UpdateMe for notify and email.
SetNotify(u, on) ==
    /\ "users" \in Admin /\ Upset
    /\ u \in users
    /\ on # (u \in notify)
    /\ notify' = IF on THEN notify \cup {u} ELSE notify \ {u}
    /\ UNCHANGED <<now, mailOn, thresholds, users, subs, tags, inventory, alerts,
                   run, sent, spell>>

\* ON DELETE CASCADE takes the subscriptions and the alerts along.
DeleteUser(u) ==
    /\ "users" \in Admin /\ Upset
    /\ u \in users
    /\ users' = users \ {u}
    /\ notify' = notify \ {u}
    /\ subs' = [subs EXCEPT ![u] = {}]
    /\ alerts' = {k \in alerts : k[1] # u}
    /\ UNCHANGED <<now, mailOn, thresholds, tags, inventory, run, sent, spell>>

SetUserTagSubscriptions(u, S) ==
    /\ "tags" \in Admin /\ Upset
    /\ u \in users
    /\ subs[u] # S
    /\ subs' = [subs EXCEPT ![u] = S]
    /\ UNCHANGED <<now, mailOn, thresholds, users, notify, tags, inventory, alerts,
                   run, sent, spell>>

SetEndpointTags(e, S) ==
    /\ "tags" \in Admin /\ Upset
    /\ tags[e] # S
    /\ tags' = [tags EXCEPT ![e] = S]
    /\ UNCHANGED <<now, mailOn, thresholds, users, notify, subs, inventory, alerts,
                   run, sent, spell>>

(***************************************************************************)
(* Specification                                                           *)
(***************************************************************************)
Step(r) ==
    \/ LoadThresholds(r)
    \/ ListNotifyUsers(r)
    \/ \E u \in Users : NextUser(r, u)
    \/ ListCerts(r)
    \/ EndUser(r)
    \/ EndRun(r)
    \/ \E u \in Users, i \in run[r].items : ClaimAlert(r, u, i) \/ SkipAlert(r, u, i)
    \/ run[r].pc = "send" /\ \E k \in Alerts : Send(r, k)

\* The mail server answers after all.
LateAnswer(r) == run[r].pc = "stalled" /\ \E k \in Alerts : Send(r, k)

Fault(r) ==
    \/ ListFails(r)
    \/ \E i \in run[r].items : ClaimFails(r, i)
    \/ SendFails(r)
    \/ SendStalls(r)
    \/ Abort(r)

RunExpiryAlerts(r) == Begin(r) \/ Step(r) \/ LateAnswer(r) \/ Fault(r)

Inventory ==
    \/ Tick
    \/ \E e \in Endpoints, c \in Certs : ScanFinds(e, c)
    \/ PurgeExpiryAlerts
    \/ \E c \in Certs : PurgeCertificate(c)

Administration ==
    \/ \E e \in Endpoints, on \in BOOLEAN : SetEndpointEnabled(e, on)
    \/ \E on \in BOOLEAN : SetMailEnabled(on)
    \/ \E S \in ThresholdSets : SetAlertThresholds(S)
    \/ \E u \in Users, on \in BOOLEAN : SetNotify(u, on)
    \/ \E u \in Users : DeleteUser(u)
    \/ \E u \in Users, S \in SUBSET Tags : SetUserTagSubscriptions(u, S)
    \/ \E e \in Endpoints, S \in SUBSET Tags : SetEndpointTags(e, S)

Next == (\E r \in Runs : RunExpiryAlerts(r)) \/ Inventory \/ Administration

Spec == Init /\ [][Next]_vars

\* The cron fires every hour, and a run takes its next step: a query is answered,
\* a mail server that has not gone silent answers.  Nothing ends a stalled send.
FairSpec == Spec /\ \A r \in Runs : WF_vars(Begin(r)) /\ WF_vars(Step(r))

(***************************************************************************)
(* Properties                                                              *)
(***************************************************************************)
\* The shape of the state.
TypeOK ==
    /\ now \in 0 .. MaxNow /\ mailOn \in BOOLEAN /\ thresholds \in ThresholdSets
    /\ users \subseteq Users /\ notify \subseteq users
    /\ subs \in [Users -> SUBSET Tags] /\ tags \in [Endpoints -> SUBSET Tags]
    /\ enabled \subseteq Endpoints
    /\ current \subseteq Endpoints \X stored /\ stored \subseteq Certs
    /\ alerts \subseteq users \X stored \X Thresholds
    /\ run \in [Runs -> RunState]
    /\ sent \in [Alerts -> Nat] /\ spell \in [Alerts -> Nat]
    /\ upsets \in Nat

\* No alert is mailed twice, however runs overlap, statements fail and the
\* server stops.  (Nothing is purged.)
SentOnce == \A k \in Alerts : sent[k] <= 1

\* The overlapping runs implement AlertDelivery: claimed once, then mailed or
\* lost, for good.  (Nothing is purged.)
Status(k) ==
    IF sent[k] > 0 THEN "mailed"
    ELSE IF \E r \in Runs : Sending(r, k) THEN "claimed"
    ELSE IF k \in alerts \/ k[1] \notin users THEN "lost"
    ELSE "pending"

Delivery == INSTANCE AlertDelivery WITH status <- [k \in Alerts |-> Status(k)]

\* See Status.
ImplementsDelivery == Delivery!Spec

\* While a certificate stays on some endpoint, no alert for it is claimed a
\* second time, whatever is purged, rotated or deleted in the meantime and
\* however stale the lists of the runs are.
ClaimedOncePerSpell == \A k \in Alerts : OnSome(k[2], current) => spell[k] <= 1

\* A user hears about a certificate in order of urgency: after a mail for a
\* threshold, never one for a larger threshold.  (One run at a time, thresholds
\* as they were at first.)
UrgencyRises ==
    [][\A k \in Alerts : sent'[k] # sent[k] =>
          \A t \in Thresholds : t < k[3] => sent[<<k[1], k[2], t>>] = 0]_vars

\* The certificate query's limit is the largest threshold and the bucket of a
\* listed certificate the smallest that still covers its days: no listed
\* certificate falls through, and none is put in a bucket less urgent than due.
BucketIsMostUrgent ==
    \A r \in Runs : \A i \in run[r].items :
        LET ts == run[r].ts
            t == alertThreshold(i.days, ts) IN
        /\ \E n \in 1 .. Len(ts) : t = ts[n]
        /\ i.days <= t
        /\ \A n \in 1 .. Len(ts) : i.days <= ts[n] => t <= ts[n]

\* What a run would claim an alert for, as the settings and the inventory stand.
Due(u, c, t) ==
    /\ mailOn /\ u \in notify
    /\ \E i \in VActiveCertificates :
          /\ i.cert = c
          /\ SubscribedEndpoints(u) = {} \/ i.ep \in SubscribedEndpoints(u)
          /\ \E ts \in SortDescending(thresholds) : alertThreshold(i.days, ts) = t

\* A certificate that stays in a bucket of a standing recipient is mailed in the
\* end, or its alert was lost to a failed mail or a stop of the server, whatever
\* settings change while runs are under way.  (Unless a run hangs in mail.Send
\* for good: it then holds the entry of the job, and the alerts behind it wait.)
HangsInSend == \E r \in Runs : <>[](run[r].pc = "stalled")

DueAlertIsSettled ==
    \A u \in Users, c \in Certs, t \in Thresholds :
        <>[]Due(u, c, t) =>
            <>(Status(<<u, c, t>>) \in {"mailed", "lost"}) \/ HangsInSend

\* alerts_store.go, ListExpiringActiveCertsTagged: "If the user has no
\* subscriptions the call falls back to ListExpiringActiveCerts (notify-all)."
SubscribersGetTaggedOnly ==
    \A r \in Runs : \A u \in run[r].user : subs[u] # {} =>
        \A i \in run[r].items : tags[i.ep] \cap subs[u] # {}

=============================================================================
