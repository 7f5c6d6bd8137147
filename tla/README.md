# TLSentinel: a verification project

TLSentinel watches the TLS and SAML certificates of an organisation's endpoints.
Scanner agents fetch their endpoint lists from the server, probe the endpoints and
report what they saw; the server stores certificates and scan history in PostgreSQL,
judges the certificates against the root programs of the browsers and operating
systems, mails expiry alerts and serves a web user interface.

This directory models the server's stateful core and its web interface in TLA+. TLC checks the models on
small instances, TLAPS proves the central invariants for every value of the constants.
`PROJECT.json` holds the map from definitions to source lines, the runs, the mutants,
the findings, the hazards and the theorems. Paths below are relative to the repository
root; `src/` is that root in `PROJECT.json`.

- [1. The system](#1-the-system)
- [2. Modules and the code](#2-modules-and-the-code)
- [3. Runs](#3-runs)
- [4. Proofs](#4-proofs)
- [5. Findings](#5-findings)
- [6. What is not modelled](#6-what-is-not-modelled)
- [7. Plan](#7-plan)

## 1. The system

The server is one Go process with a PostgreSQL database. Handlers run concurrently,
one goroutine per request; a cron runner starts the maintenance jobs in the same
process. There are few locks: the evaluator's read-write lock, the atomic overlap guard
of each cron entry, and the row locks of the database. Everything else is kept apart by
statements and transactions alone, so the models take a statement (or a transaction that
holds the lock it needs) as the unit of atomicity.

| component | state | operations | talks to |
|---|---|---|---|
| job scheduler (`internal/scheduler`, `internal/app/jobs.go`, `internal/settings`) | cron entries, map `entryIDs`, overlap guards; table `scheduled_jobs` | load at start-up, `Add`, `Reload`, tick, record last run, stop | starts every job below |
| certificate store (`internal/db/certificates_store.go`, `maintenance_store.go`, the trigger in `migrations/000001`) | `certificates` with `issuer_fingerprint`, `trust_anchor` | insert with linking trigger, delete, purge one, nightly purge, reconcile at start-up | referenced by scans, inbox, anchors, alerts, verdicts |
| probe ingest and history (`internal/probe`, `internal/db/endpoints_store.go`) | live scan columns of `endpoints`, `endpoint_scan_history`, `endpoint_certs`, `endpoint_saml`, `saml_metadata_history` | `Result`, `SAMLResult`, `LinkCertificate`, history purge | stores certificates, asks the evaluator |
| expiry alerts (`internal/notifications`, `internal/db/alerts_store.go`) | `certificate_expiry_alerts`, thresholds, recipients | one run: list, claim, mail | reads links, tags, users, settings; started by the scheduler |
| trust evaluator and root stores (`internal/trust`, `internal/rootstore`) | root pools and intermediates pool in memory; `root_stores`, `root_store_anchors`, `certificate_trust` | `Refresh`, `LoadPools`, `AddIntermediate`, `Evaluate`, `ReevaluateAll` | fed by ingest and the refresh job |
| authentication, TOTP, OIDC, API keys (`internal/auth`, `internal/users`) | `users`, TOTP secrets, recovery codes, tokens | login, challenge, enrolment, recovery, password change, revoke | guards every route |
| endpoint configuration, scanners, discovery, tags and groups | `endpoints`, `scanners`, `discovery_networks`, `discovery_inbox`, tags | create, patch, bulk import, promote, dismiss, assign | read by scanners, ingest, alerts |
| settings, mail, templates, audit log, reports, search | settings rows, text | read and write rows | settings are read by jobs |
| web user interface (`web/src`) | token, query cache, requests in flight, the state of the mounted page | pages, dialogs, forms, background refetches, login and logout | the HTTP API |

Where it is hard:

- *Concurrency*: two scans of one endpoint, a scan and a purge, a refresh and an ingest,
  two alert runs, two reloads of one job. Hardly any of these orders can be forced by a
  test.
- *Failure*: handlers log a failing statement and carry on, so every sequence of
  statements can be executed with any of its members missing; the process can stop
  between any two.
- *Ordering*: `NOW()` is fixed before a row lock is waited for, so timestamps and commit
  order can disagree; certificates arrive before their issuers; verdicts are computed
  with one set of pools and persisted after the next was loaded.
- *Answers*: the browser applies whatever answers come, in the order they come, to whatever page
  and dialog are there by then; closing a dialog or leaving a page cancels nothing.
- *Time*: outages, expiry days and retention cut-offs.
- *Eventual effect*: guards must be released, garbage purged, due alerts settled.

What makes each component correct, in a sentence: an enabled job keeps exactly the
schedule that was saved and never overlaps itself; every chain stays linked and only
what nothing needs is purged; the current certificate, the outage start and the history
of an endpoint agree with the results in the order they took effect; an alert is mailed
at most once, at the most urgent threshold that applies, and is not forgotten; no
certificate is called trusted without a path to an anchor of that program; an endpoint has
the row of its type and one scanner, and what was discovered is neither lost nor brought back
after it was dismissed; a page that fetches its list again after a write comes to show the write, a form
writes each record's values to that record only, a secret that is handed out once is shown or lost with its
answer or page, and a tab whose request the server rejects for its token ends at the login page.

`PROJECT.json` lists the places where the code is exposed to these difficulties as
"hazards", with the property that covers each or the reason why none does.

## 2. Modules and the code

Each module has its state as variables named after tables and fields, one action per
handler, statement or transaction, and its properties at the end. Definitions whose name
says what is wrong with them (`CompareAndSwapAlways`, `PurgeableRowsAll`, ...) stand just
before the definition they vary; they are the mutants, used by no specification.

### Scheduler

`table` is `scheduled_jobs`; `entries`, `entryIDs`, `running` and `runs` are the memory of
the process, gone after `Exit`. `Boot` is `app.Run` up to `loadScheduledJobs`: it registers
the enabled jobs the registry knows, under their display names. `UpsertScheduledJob`,
`ReloadRemove` and `ReloadAdd` are the three steps of the handler `UpdateScheduledJob`;
nothing locks the map, so requests interleave between them. `Tick` is a cron firing with
the `CompareAndSwap` of the guard, `FnReturns` the end of the job, `RecordLastRun` the
write of its result with the deferred release of the guard. `Mailers` are the jobs that call `mail.Send`: a run of
one may stall there (`Stall`) and stay for as long as the process runs. An expression the cron parser
refuses is saved, the old entry is removed, and none is added, as in the code.
Names, schedules and results are model values.

### CertStore

An insert is two steps, `InsertBegin` (the statement and its trigger, which sees
committed rows and locks those it links) and `InsertCommit`. `IssuerChoice` is the
trigger's first UPDATE, `Orphans` its second. `DeleteCertificate`, `PurgeCertificate` and
`PurgeUnreferencedCerts` wait for those locks. `Restart` is the reconciliation of
`ReconcileCertificateChains`. `MayIssue` abstracts the comparison of key identifiers and
distinguished names; it is any relation in which no certificate matches itself, cycles
included. `refs`, `kept` and `inbox` are the three kinds of reference the purge respects.

### ScanIngest

`req` holds the requests in flight, each with a program counter. A TLS result is
`IngestLeaf`, `BeginRecord` (the timestamp), `CommitRecord` (everything under the lock of
the endpoint row: the live columns, the history row when something changed, the roll-over
of the current certificate). A SAML result adds `UpsertSAMLMetadata` and then, per listed
certificate, `InsertItem`, `RollOver` and `CommitLink`, which take no common lock.
`LinkCertificate` is an upload for any of `LinkUses`, `tls` included: it is linked by an UPDATE and an INSERT
that lock nothing another request waits for.
`Abandon` and `SkipCert` are the failing statements. `DeleteEndpoint`,
`RemoveUnreferencedCert`, `PurgeCertificate` and `PurgeScanHistory` run between any two
of these. The history variable `disturbed` marks endpoints that had two requests at a
time or lost a certificate to an operator's purge, `raced` those that had an upload for `tls` under way together with
another request, `uploaded` those whose TLS certificate comes from an upload and not from the last scan that saw one; the
properties that the code keeps only without such a disturbance name it.

### ExpiryAlerts and AlertDelivery

`run` holds overlapping runs of `RunExpiryAlerts` with what each has read so far: the
configuration, the thresholds, the recipients, one recipient's list. The list query, the
bucket (`alertThreshold`), the claim (`INSERT ... ON CONFLICT DO NOTHING`) and the mail are
steps of their own, and so are their failures. A mail may also stall (`Stall`): `mail.Send` has no deadline, and the run waits in it
until the connection breaks. Everything a run reads may change
in between: settings, accounts, subscriptions, tags, links, certificates, the time. The days that are left are those of
the view in migration 38, whole periods of 24 hours until `not_after`, so each certificate changes its day at an hour of its own.
`AlertDelivery` is the abstract promise: per alert, one claim, then mailed or lost, for
good. `ImplementsDelivery` is the refinement: an alert is *mailed* once a mail went out,
*claimed* while a run is about to send it, *lost* when its row is there and no run will, or when
its user is gone, and *pending* otherwise.

### Trust

A refresh fetches a matrix, stores and flags the roots it has a PEM for, replaces the
anchors of each program, reconciles the `trust_anchor` flags, loads the pools in two
steps (query, swap) and judges every certificate. An ingest stores each certificate of a
chain, adds it to the intermediates if it is a CA, evaluates it and persists the verdict. The other inserts (a SAML result,
`LinkCertificate`, `POST /certificates`) store a certificate and do neither (`Upload`); `unjudged` has those that came after
the walk in progress, or the last one, had read its list.
`Verify` is `x509.Verify` as a search for a path over `Signers`: the certificate is in the least
set that holds the roots of the pool and, with a signer in the set, every intermediate and the
certificate itself. It is written without recursion, as membership in every such set, so that
it can be proved about.
The history variables are `ever` (every anchor a program has had) and
`clean` (nothing has disturbed the latest refresh).

### Inventory

What is monitored and by whom: the endpoint rows with the two type tables (`row`, `hostRow`,
`samlRow`), the scanners and the default among them, the discovery networks and the inbox.
A handler that is one transaction is one step (`Create`, `Update`, `DeleteEndpoint`,
`DeleteScannerToken` with the foreign keys that are set to NULL, ...). The others are requests
in flight (`req`): `Patch` reads (`PatchRead`), lays the fields of the request over the record
(`Merge`) and writes all of it (`PatchWrite`); `BulkImport` stores row by row and skips what
fails; a report checks target by target (`CheckItem`) and then upserts the rest in one
statement; a promotion reads the item, creates the endpoint and deletes the item; setting the
default takes a snapshot and commits against the partial unique index. `Fails` ends any of
them between two steps. `Listed` is what a scanner is sent. `Covers` says which targets a host
accounts for: the comparison of address, name and port in `endpointExistsForTarget`. `held` and
`promoted` are history variables: the targets monitored ever since a report began, and the
items an endpoint was made of.

### The web interface: WebTab, WebLists, WebForms, WebAdmin, Web

One browser tab, the rows of the server it works on, and everybody else as steps that change those
rows. `WebTab` is what all pages share:

| variable | in the code |
|---|---|
| `auth` | the server accepts the token of `client.ts` |
| `page`, `view`, `held` | the mounted route, the key its query observes, the rows `keepPreviousData` shows until that key has an answer |
| `cache`, `fetch` | the query cache of `main.tsx` by key: rows, whether they are invalidated; the query in flight |
| `calls` | every other request in flight: what it asks, the component that sent it, whether that component is still there, the requests that follow it |
| `dlg` | the open dialog or form: its row, the values it started from and holds, the fields that were typed |
| `busy` | the `loading`, `saving` and `submitting` flags of components |
| `sel`, `bulk` | a list's selection, or a page's own copy of rows; the phase and results of a bulk dialog |
| `reveal` | the secret on display, and what became of each one that was issued |
| `srv` | the rows of the server |
| `used` | operations and events so far, for the bounds |
| `acks`, `owed`, `tally` | history: answered writes; per key, the last write its rows must show; records made and failures reported by a form |

A query is asked, served (`Serve` takes the rows as they are then) and delivered (`Deliver`), each a
step of its own, so that writes fall between them. `Refetch` and `Invalidate` are what the
library does for `refetch()` and `invalidateQueries()`: the first drops an answer under way, except the very
first of a key, which is joined; the second marks every key and fetches the one on display. `staleTime`
is a choice: rows that are neither missing nor invalidated may or may not be fetched again when a page
observes them. Any other request is sent, applied or refused by the server (`Apply`,
`Refuse`, also with the answer lost after the change was made) and settled by the component (`...Settles`). Closing a
dialog (`Close`) or leaving a page (`Leave`) leaves the request under way; `Finish` shows what the code does with
its answer then: the flag of the component clears, and a dialog of that kind closes, whichever row it
is open for. `Open`, `OpenAfresh` and `OpenReset` are the three ways a dialog comes back: reused with its flag,
remounted under a new `key`, or reset by an effect.

The pages, by area (a behaviour stays in one; they meet only in the session):

| module | areas | code |
|---|---|---|
| `WebLists` | `endpoints`, `certs`, `inbox` | `EndpointPage`, `CertificatesPage`, `DiscoveryInboxPage` and their dialogs: selection across pages, bulk delete and bulk tag, import, delete with references |
| `WebForms` | `endpoint`, `newEndpoint`, `clone`, `mail`, `general`, `group`, `notify`, `templates` | the detail pages' switch, notes and delete; `EndpointFormPage` with its several requests; the settings forms |
| `WebAdmin` | `networks`, `users`, `scanners`, `tags`, `jobs`, `twofa`, `apikeys`, `adminkeys` | the administration pages, and the secrets that are shown once |

`Web` puts them together, says what the mounted page does with new rows (`SelectionAfter`, `DialogsAfter`: the
`useEffect`s) and states the properties. What a row of an area holds is three columns, listed at the head of
`WebTab`; a configuration is the number of the row it belongs to, what the tab's user typed, or what somebody else
wrote, so a value that ends in the wrong row is seen. Other abstractions: one filter and pages of one row;
a field is typed once; tags and categories are rows of one kind; the retention of a job is its `tags` column;
permissions decide which buttons there are and are left out, as all are there; requests fail at any time, whatever the reason. A read whose page is gone is
dropped, since nothing is left that its answer could change, unless the session is over and its answer would be a 401.

### How they fit together

The modules share tables and meet there. Scheduler shows that one job can have two
entries, so ExpiryAlerts and Trust let runs overlap. CertStore is the lifetime of a
certificate; ScanIngest and Trust take its deletes as steps that may happen at any time a
foreign key allows them. Inventory owns the endpoints' configuration, of which ScanIngest and
ExpiryAlerts have what they depend on. ScanIngest's current links are what ExpiryAlerts lists. The web modules take the
server as rows that change by their requests and by everybody else's. Each module
states what it leaves to another in its opening comment.

## 3. Runs

All runs have `CHECK_DEADLOCK FALSE`: the models count requests, ticks or events up to a
bound, and behaviours end there; a tab also waits for its user. The bounds are constants (`Max...`); nothing else stops.

| run | instance | shows |
|---|---|---|
| `scheduler` | 2 jobs, one of which mails; 3 cron expressions, one rejected; 1 request at a time, 2 updates, 2 ticks, 2 starts | `EntryNeverOverlaps`, `EnabledJobIsScheduled`, `GuardReleased` |
| `scheduler_disabled` | 2 jobs, one of them without a function, 1 update | finding: `DisabledJobHasNoEntry` fails |
| `certstore` | leaf, two candidate intermediates, root; 1 insert at a time, 4 inserts, 2 reference changes or restarts | `ChainsLinked`, `ChainsSurvivePurge`, `GarbageIsPurged` |
| `scaningest` | 1 endpoint, 2 certificates, 2 documents (one a signing key roll-over), uploads for `manual` and `tls`, 2 requests at a time, 3 in all | `OneCurrentTLS`, `ReferencesAreStored`, `LedgerMatchesLive`, `OutageWindowIsClean`, `TransitionIsLogged` |
| `expiryalerts` | 1 user, 2 certificates, 2 endpoints, 1 run, both purges, a day of 2 ticks, 5 points in time | `ClaimedOncePerSpell`, `UrgencyRises` |
| `expiryalerts_delivery` | 1 user, certificate, endpoint and tag, 2 overlapping runs, all settings change, 2 changes or faults, mails that stall at any time | `SentOnce`, `BucketIsMostUrgent`, `ImplementsDelivery`, `DueAlertIsSettled` |
| `expiryalerts_notifyall` | 1 user, 1 tag, 1 run | finding: `SubscribersGetTaggedOnly` fails |
| `trust` | 2 programs; a root, its cross-signed copy, the cross-signing root, a leaf; 1 refresh at a time and 1 ingest, uploads of 2 of the certificates, 3 events | `TrustedWasJustified`, `RefreshIsApplied`, `EveryCertIsJudged` |
| `trust_crosssigned` | the same, 2 events | finding: `IngestedCAIsUsable` fails |
| `inventory` | 2 scanners, 2 networks, 2 endpoints, 2 hosts, 1 target; 2 requests at a time, 3 in all | `TypeRowsMatch`, `ScannedByOne`, `DismissedStaysDismissed`, `DiscoveryIsNotLost`, `MonitoredStaysOut` |
| `inventory_patch` | the same without networks, 2 requests | finding: `PatchKeepsOmittedFields` fails |
| `web` | all 19 areas; 1 or 2 rows and room for more, 2 operations of the user, 2 events (3 in the six small areas) | `StaleRowsAreRefetched`, `RefetchedWriteIsShown`, `SelectionMatchesPage`, `DeletedMeansGone`, `WritesComeFromTheirRow`, `IssuedSecretsAreShown`, `OneRecordPerCleanSave`, `RejectedReachesLogin` |

Every passing run checks the module's `TypeOK` as well, in one run per module. The types
include what foreign keys enforce: an alert row has a user and a certificate, a
verdict row a certificate, an inbox item a network.

Why the bounds suffice for the cases that matter:

- *scheduler*: two updates are what it takes to disable and re-enable a job, two starts to
  come back after a crash, two ticks to meet a running invocation, stalled or not. The job without a function is in
  the second run.
- *certstore*: a chain of three with an alternative issuer gives every arrival order, the
  choice between issuers, and a chain whose middle is deleted; four inserts allow a
  deleted certificate to come back.
- *scaningest*: two requests meet at every pair of statements; the third finds the state
  they leave (failure, failure, success; success, failure, success; an upload and two
  scans). Requests are interchangeable,
  which makes the symmetry on them sound.
- *expiryalerts*: a certificate can leave one endpoint and stay on the other, go and come
  back, lose its alert rows in between, and cross both thresholds; with a day of two ticks the two certificates change
  their days at different times. Endpoints start alike and
  no constant tells them apart.
- *expiryalerts_delivery*: two runs race for one alert; two thresholds and a changed set
  re-bucket it. Temporal properties are checked without symmetry.
- *trust*: three events give a refresh that meets an ingest and a deletion, a failure, a
  restart or a second refresh. Two refreshes at once do not fit in TLC's reach with this
  instance; `TrustIsJustified` is proved for any number.
- *inventory*: two requests meet at every pair of their steps, and the third step of an operator
  (a deletion, a change of type, a removed scanner) falls between them: a patch meets an update, a
  promotion meets the deletion and the rediscovery of its item, two changes of the default race.
  The installation is in use at the start: an endpoint of either type, a network, an inbox item.
  Requests are interchangeable, so the symmetry on them is sound.
- *web*: an event is an operation of the user, a page turned or left, a change by somebody else, a refetch on
  focus, a failed request or lost answer, or the end of the session; the steps of the server, the browser and the
  dialogs are free. Two events are an operation and what disturbs it (a second operation whose answer overtakes it, a refetch that
  was served before it, its failure, leaving its page); rows 3 and 4 are what two operations can create. The areas marked
  small (`Small` in `MCWeb`) have room for three. Row ids are ordered, so there is no symmetry.

What the properties of `web` say, in the words of the interface: after a delete, an edit or an import the list that is
on display is fetched again after the write, whichever answers come in between (`StaleRowsAreRefetched`), and does come to show it
(`RefetchedWriteIsShown`). Both speak of the pages that ask for their rows again: `owed` is raised where the code refetches or invalidates
and nowhere else. `EndpointFormPage` does neither: after a save it shows the detail page with the record as it was cached, for up to 30 seconds
(`FormSaved`; it is among the hazards). Further, a bulk dialog acts on rows as the page shows them (`SelectionMatchesPage`); what its summary does not list as
failed is gone, as long as no request was rejected for its token (`DeletedMeansGone`); a form that was reused, remounted or overtaken never stores one record's values in another
(`WritesComeFromTheirRow`); a token, key or set of recovery codes is shown once it was issued, unless its answer or
page is gone, a second one took its place, or the request after it failed (`IssuedSecretsAreShown`); the
endpoint form makes a second record only after it reported a failure (`OneRecordPerCleanSave`); and a tab with a query or a request of
`client.ts` under way when its token is rejected ends at the login page (`RejectedReachesLogin`).

What happens from the 401 to the login page is in the model (`Denied`): `request()` clears the token, sets `window.location` and
resolves with `undefined`, so the handler that waits goes on as after a success, until the document is replaced
(`page = "leaving"`). A handler that looks into the answer fails instead (`UsesAnswer`). A bulk delete counts such a row as deleted and
may show its summary with the row still there, which is why `DeletedMeansGone` ends where the document does. The read that follows the
reset of a template is a bare `fetch` (`Bare`): its 401 is ignored, and nobody is sent to the login page.

`EnabledJobIsScheduled`, `ChainsLinked` and `ChainsSurvivePurge` hold under a
condition the runs and theorems state: one `UpdateScheduledJob` request at a time; one insert at a time. Other
properties name what they exempt: `OneCurrentTLS` an endpoint where an upload for `tls` met another request (`raced`),
`LedgerMatchesLive`, `TransitionIsLogged` and `OutageWindowIsClean` one whose requests overlapped (`disturbed`) and the first the certificate of one whose
last TLS certificate was uploaded (`uploaded`), `EveryCertIsJudged` what was uploaded after the walk had listed the table. The code
does not keep the properties there. See the notes on the hazards.

### Fairness

- `Scheduler!JobFairness`: an invocation that was started goes on, unless it is stalled in `mail.Send`. Queries and downloads
  take the context, which ends after 30 minutes (`scheduler.go:17`). `mail.Send` takes neither it nor a deadline
  (`mail/sender.go:113`, `136`), and a job that hangs cannot be stopped, so nothing makes a stalled run return, and `GuardReleased`
  says which entries stay blocked then. `UpdateJobLastRun` uses `context.Background()`: PostgreSQL is assumed to answer it. Ticks and
  requests have no fairness.
- `CertStore!FairSpec`: an open transaction ends (commits or fails), and the nightly purge
  comes again. The cron runner fires every night and PostgreSQL ends what it began.
- `ExpiryAlerts!FairSpec`: cron starts the job again and a started run takes its next step, unless it is stalled in
  `mail.Send`. Failing statements, failing mails and stops may come instead, at most `MaxUpsets` times; a mail may stall whenever one is
  sent. Nothing makes administrators act, and nothing makes a stalled mail go through.
- `Web!Fairness`: the server answers the query on display, the browser delivers the answer, a 401 is acted on and a
  document that is being left is replaced. Nothing makes the user, other users or the clock act, and requests may fail
  instead, within the bound on events.

## 4. Proofs

Proofs are in modules of their own (`...Proofs`), which extend the module they are about.
They hold for every value of the constants allowed by the module's `ASSUME` and do not use the
bounds, which only have to be natural numbers.

**SchedulerProofs.** `SchedulerTypeCorrect`. `GuardCorrect`: `EntryNeverOverlaps` and
`GuardHeldWhileRunning` for any number of jobs, requests and ticks. `GuardInv` takes the two together
with the types: neither is inductive alone, because releasing a guard is right only if no second
invocation of the entry is under way, and starting one is right only if the guard tells. `EnabledJobsStayScheduled`: assuming `OneRequest`, every enabled
job has its entry. `ScheduledInv` exempts the job whose request is between its statements, says
that such a request carries what the row says, and that a key of `entryIDs` names an entry of its own job.

**CertStoreProofs.** `CertStoreTypeCorrect`, `ChainsAreLinked`, `PurgeKeepsChains`, for any
certificates and any matching relation, assuming `OneIngest`. `ChainInv` adds that what the trigger
saw when the insert in flight began is still so: its issuer is stored, or there is none, and the rows
it will link are still the orphans. The row locks are what keeps this true across deletes.

**ScanIngestProofs.** `ScanIngestTypeCorrect` (with `FittingRequest`, which ties the program counter of a
request to the fields it may use), `NoStrandedReference`, `OutageStartIsConsistent` (with
`StampsArePast`: timestamps drawn by requests in flight lie in the past),
`TLSCertificateIsUnique`, all for any number of
concurrent requests and any uses of uploads. The last rests on `TLSInv`: where no upload for `tls` met another request (`UploadIsSole`), whoever is about
to write a TLS link has seen every link that is current by then (`SeesCurrent`), a scan because it holds the row of the endpoint
(`LockIsExclusive`), an upload because nobody else is there. `OutageWindowsAreClean` rests on `OrderInv`: for an endpoint that never
had two requests at a time, the timestamp of a result that waits for the lock is later than every row of the
ledger, so that the order of the timestamps is the order of the commits. `LedgerFollowsLive` and the action
property `TransitionsAreLogged` come from `LedgerInv`, which takes it together with `OutageInv` and `TLSInv`; an upload for `tls`
changes the live certificate without a scan, so the certificate of an endpoint is compared with the ledger unless it is in
`uploaded`. "Undisturbed" is the history variable `disturbed` of the model, which the runs use too.

**ExpiryAlertsProofs.** `ExpiryAlertsTypeCorrect` (with `FittingRun`), `BucketCorrect` (the
bucket is the smallest threshold that covers the days, for every set of thresholds),
`AlertClaimedOncePerSpell` (from `SpellInv`: while a certificate is on an endpoint, the row of a
claim stays until its user goes), `AlertSentOnce` and `RunsImplementDelivery` (from `DeliveryInv`: an
alert is held by at most one run, none once it was mailed, and its row stays until its user
goes; assuming `Purges = {}`). The refinement is proved step by step: the initial states map to initial
states, every step maps to a step of `AlertDelivery` or leaves its variables alone. `AlertsGrowMoreUrgent` (the action
property `UrgencyRises`, assuming one run at a time and that nobody changes the thresholds, as its run does) comes
from `UrgencyInv`: a threshold that was mailed still covers what is left of the certificate, on the lists of the run too,
so the smallest threshold that covers it cannot be larger. A second run with an older list breaks it.

**TrustProofs.** `TrustTypeCorrect` and `TrustIsJustified`, for any number of overlapping
refreshes and ingests. The invariant `TrustInv` adds to the types that the pools hold anchors
of their program only (`PoolsKnown`) and that a verdict that was computed and not yet
persisted is justified (`HeldJustified`). The lemma `VerifyMonotone` carries a path over when
the set of anchors a program has had grows. `RefreshTakesEffect` and `EveryCertificateIsJudged` speak of
refreshes nothing disturbed. `CleanInv` says how far such a refresh has come: it is alone (`OneJob`), the anchors it has read
are those of the table (`ReadAnchors`), after `Swap` they are the pools and every verdict in hand comes from them
(`PoolsCurrent`), and each stored certificate is still before the walk or settled (`WalkedIsSettled`); `HeldOnce` adds
that a process holds one verdict at a time. A certificate stored during the walk is not on its list: one that a probe request
stores is settled because that request judges it with the new pools, one that was uploaded has no verdict, and the
statement leaves it out (`unjudged`).

**InventoryProofs.** `InventoryTypeCorrect`, `NoOrphanRows`, `EveryEndpointHasOneScanner`, and the
action properties `DismissalsHold`, `DiscoveriesStay`, `MonitoredTargetsStayOut`, for any number of
scanners, networks, endpoints and requests. `InventoryInv` has one part per table group: `EndpointInv`
(the rows fit the type, and a scanner that is named exists), `FleetInv` (one default at most, and
it exists), `InboxInv`, and `RequestInv`, which says what a request in flight may still do: the record a
patch read can be written back, a promotion that will delete an item has made its endpoint, and
what a report has kept was not monitored all the while. The action properties follow from it by one
lemma on how a step can change the inbox.

**WebProofs, WebPageProofs.** For any rows (up to seven: 8 and 9 code what the user and others
type), any number of operations, events and faults, and for all 19 areas in one proof. Every step of every page is
covered: each invariant has a lemma per page.

- `OriginInv` is what the others stand on: a request, and the open dialog, comes from a component of the page the
  route shows (`AtHome`). Without it an invariant about one page would have to be proved against the answers of all.
  The area lemmas (`EndpointsArea` ...) say that a page's steps are taken on that page and stay there.
- `StaleListsAreRefetched`, from `QueryInv`: what was served shows the writes its key owes. Four shapes
  of step are enough (`AsksOnly`, `Refetches`, `Invalidates`, `SetsDetail`); every action is shown to be one of them.
- `BulkDialogsSeeThePage`, from `SelectionInv`: besides the statement, nothing is selected on a page that is not there.
- `BulkSummariesAreTrue`, from `RowsInv` and `BulkInv`: a row of a running bulk delete is gone, failed, or
  waited for by a request that belongs to this very dialog (`Pending`), and an answer "done" means gone, because
  an id is not used twice, or a rejected token: from then on the document is on its way out, and so the invariant ends there. A page that was left and opened again while requests of its first
  dialog are in flight is what makes `CallInv` necessary: they are not `here`, and count for no new dialog.
- `SecretsAreNotLost`, from `SecretInv`: only requests of components that display secrets issue
  them (`Fits`), and an issued secret is carried by an answer or by the request that follows it (`Carries`). Which losses remain
  (an answer that was cut, a page that was left, a second secret in its place, a failed second request) is part of the statement.
- `CleanSavesMakeOneRecord`, from `FormInv`: at most one request of the save chain is there, the loading flag is
  set for as long as it is, and before it makes its record there are no more records than errors (`Even`).
- `WebTypeCorrect` and `WritesStayWithTheirRow`, both from `ValuesInv`. The statement about writes is not inductive: what
  a form sends it was filled with, from the cache, which was filled from an answer, which the server took from rows
  that earlier writes have set. So the invariant follows a configuration all the way round. A row of `srv`, `cache`, `fetch`,
  `held` or `sel` that has the configuration of a row has its own (`TableInv`, `RowFor`); a dialog about a row holds values
  of that row, one for a new row holds none (`DlgFits`); a request writes values of the row it names, and one that
  creates a row carries no other row's configuration (`CallFits`, `Asks`). Only the clone form takes values over from
  another row, and in that area no request sets the configuration of an existing row. The steps are shown to be of one shape
  (`ValuesStep`), page by page; `ResultsInv` adds what a bulk dialog knows of its requests, `CountInv` and `RevealInv`
  the counters and what became of the secrets. TLC checked the invariant on the instance of the `web` run first.

The proofs corrected the model in two places. An attempt at the lemma about `SelectionAfter` failed because the
arms of its `CASE` overlapped (TLC takes the first that is true, the prover any): `SelectionAfter` and `DialogsAfter`
now say which goes first. And choosing another default scanner wrote rows that are not there; `Applied` leaves them alone.

Only model-checked:

- liveness (`GuardReleased`, `GarbageIsPurged`, `DueAlertIsSettled`, `RefetchedWriteIsShown`, `RejectedReachesLogin`): the prover has no rules for
  fairness and `ENABLED`.

Every invariant and every action property that a passing run checks is stated by a theorem.
`GuardHeldWhileRunning`, `LinksAreStored` and `OutageHasStart` are parts of inductive invariants and are proved
as such; no run repeats them.

What a recursive definition computes for every input is out of the prover's reach as well (it
cannot instantiate an induction rule), and a module with `RECURSIVE` operators loses the SMT
backend. The modules here contain none.

## 5. Findings

1. *A disabled job keeps running* (`scheduler_disabled`). `loadScheduledJobs` registers under the
   display name (`internal/app/jobs.go:43`), `Reload` looks under the name
   (`internal/settings/handler.go:185`). The entry from start-up is never found, so it stays
   after a job was disabled or rescheduled, until the next restart. The comment at
   `internal/scheduler/scheduler.go:102` says that the job is removed.
2. *A subscription to an unused tag means everything* (`expiryalerts_notifyall`). The fallback to
   notify-all at `internal/db/alerts_store.go:57` tests whether an endpoint carries a
   subscribed tag; the comment at line 41 speaks of users without subscriptions.
3. *A refresh takes cross-signed CAs out of the pools* (`trust_crosssigned`).
   `ReconcileTrustAnchorFlags` (`internal/db/root_stores_store.go:217`) flags every certificate
   that shares subject and key with an anchor, and `ListNonAnchorCertPEMs`
   (`internal/db/trust_store.go:50`) gives `LoadPools` only unflagged rows as intermediates. Paths
   that need the cross-signed copy end, and a certificate that was trusted turns untrusted.
4. *A patch reverts a concurrent edit* (`inventory_patch`). `Patch` reads the endpoint
   (`internal/endpoints/handler.go:336`) and `UpdateEndpoint` sets every column: fields the request
   omits get the values read at the start. Line 314 says that they retain their current values.

A finding is a comment that one run refutes. Some comments are contradicted by the code in cases that the properties of the
passing runs exempt; no run shows these, and the notes of the hazards name them:

- *Jobs must honor the context* (`internal/scheduler/scheduler.go:17`): `mail.Send` does not, and a stalled mail holds the guard of the
  alert job until the server restarts.
- *The INSERT trigger handles this automatically for new rows* (`internal/db/certificates_store.go:350`): of two overlapping inserts neither
  trigger sees the other's row, and the link stays unset until the next start.
- *Error state transitioned: write* (`internal/db/endpoints_store.go:601`): when two results overlap, timestamps and commits can have opposite
  orders, and a transition is compared with the wrong row and not written.
- *Any previously current cert is rolled over* (`internal/db/endpoints_store.go:708`): two overlapping uploads for one use both stay
  current.
- *On conflict only `last_seen_at` is updated* (`internal/db/discovery_store.go:363`): network and scanner are taken over as well, so a
  dismissed item goes with the network that saw it last.
- *Existing tags are preserved* (`BulkTagEndpointsDialog.tsx:76`, `116`): a tag set since the rows were listed is removed.

Other behaviour found on the way, about which we know of no comment, is in the notes too:
a rejected cron expression leaves the job unscheduled; a failed mail loses the alert; a verdict held across a swap of the pools
overwrites the newer one; a certificate uploaded after a refresh has listed the table has no verdict until the next one; a program that lost
all its anchors keeps its trusted rows; an endpoint created while a report is served can enter the inbox; two promotions of one
item make two endpoints; removing the default scanner leaves unassigned endpoints to nobody; one repeated target fails
a whole report.

In the web interface: the late answer of one dialog closes the same dialog opened for another row; after a rejected token a bulk delete
calls live rows deleted until the login page is there; after a save the detail page can show the record as it was; saving the endpoint form before its tags have loaded, or after that failed, stores none; a scanner whose second request
failed was created and its token is never shown; saving an endpoint again after a later request failed creates a second one; mail
settings and thresholds that could not be loaded show defaults, which Save stores; a delete of a
certificate is offered when the request for its references failed; the answers of two PATCH requests enter the cache in the order of
arrival, not of the writes; typing in the tag dialog is undone when the list is fetched again; logging out keeps the
query cache, so the next user of the tab sees the rows of the last one until they are fetched again.

## 6. What is not modelled

- *Authentication, users, TOTP, OIDC, API keys and permissions on the server; TLS profile scoring*: planned, below.
- *Pages that only read*: dashboard, monitor, reports, root stores, certificate detail, scan history, audit log, toolbox,
  search, help. They add queries to the cache and no writes; what can go wrong with a query is in `WebTab`.
- *Small pages*: the list of groups, profile, password and calendar: one form or dialog each, with the flows of
  `WebForms` and `WebAdmin`.
- *Presentation*: components without state of their own, formatting, charts, styles, and validation of single fields.
- *Two tabs*: the token is shared through local storage; a second tab is among those who change the server's rows.
- *Audit log, rendering of templates, reports, search, calendar on the server*: append-only or read-only; nothing
  decides on them.
- *Mail dialogue, configuration, crypto, logging, running the migrations*: input and output, or
  thin layers over libraries. What the tables, foreign keys and triggers do is part of the actions.
- *Certificate parsing and X.509 path validation*: external; the models take the
  outcome as relations (`MayIssue`, `Signers`) and leave them arbitrary. In Trust certificates do not expire.
- *Columns that no property tells apart*: names, addresses, texts, `last_seen` of a scanner,
  the one-off backfills of columns.

## 7. Plan

Done: Scheduler, CertStore, ScanIngest, ExpiryAlerts with AlertDelivery, Trust, Inventory and the web interface, each
with runs and proofs.

Next, in this order:

1. **Auth**: login, the TOTP challenge, enrolment, recovery codes, password change, role and
   status changes, removal, break-glass and bootstrap, API keys and OIDC provisioning, with
   concurrent requests. Properties: a session follows only from every factor the account required
   at that time; an account that requires a second factor has a secret and recovery codes, also when
   a statement of the enrolment fails; a request of a disabled account is refused. Abstract
   specification: a login automaton with two factors.
2. **TLS profile scoring** as a function over small tables, against a reference definition.
