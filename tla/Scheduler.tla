------------------------------ MODULE Scheduler ------------------------------
(***************************************************************************)
(* The in-process maintenance scheduler: internal/scheduler wraps a cron   *)
(* runner, internal/app/jobs.go fills it from the scheduled_jobs table at  *)
(* start-up, and the settings handler UpdateScheduledJob rewrites a row    *)
(* and hot-reloads the runner while the server serves.                     *)
(*                                                                         *)
(* A cron entry lives in memory until Remove or the end of the process.    *)
(* Every entry carries its own overlap guard, an atomic.Bool allocated by  *)
(* Add.  The map entryIDs remembers, per key, which entry Reload is to     *)
(* replace; start-up uses the job's display name as the key, the handler   *)
(* uses the job's name.  No lock protects the map, so the two halves of    *)
(* Reload (take the old entry out, put the new one in) are separate steps  *)
(* that two requests may interleave.  The Go runtime may also stop the     *)
(* process on such an interleaving: Exit covers that outcome.              *)
(***************************************************************************)
EXTENDS Naturals, FiniteSets

CONSTANTS
    Jobs,        \* the names in scheduled_jobs
    Registry,    \* the names buildJobRegistry has a function for
    Mailers,     \* those whose function calls mail.Send: the expiry alerts
    Specs,       \* cron expressions a request may carry
    ValidSpecs,  \* those the cron parser accepts
    Admins,      \* concurrent UpdateScheduledJob requests
    MaxUpdates,  \* bound: UpdateScheduledJob requests per behaviour
    MaxTicks,    \* bound: invocations started per behaviour
    MaxBoots     \* bound: process starts per behaviour

ASSUME SchedulerAssumption ==
    /\ Registry \subseteq Jobs
    /\ Mailers \subseteq Registry
    /\ ValidSpecs \subseteq Specs
    /\ MaxUpdates \in Nat /\ MaxTicks \in Nat /\ MaxBoots \in Nat

VARIABLES
    table,     \* scheduled_jobs: [Jobs -> [spec, enabled]]
    proc,      \* "down", "up", or "stopping" (schedCancel was called)
    loaded,    \* loadScheduledJobs could read the table
    entries,   \* the live cron entries
    entryIDs,  \* Scheduler.entryIDs; NoEntry when the key is absent
    nextID,    \* the number the next AddFunc call uses
    running,   \* ids of the entries whose atomic.Bool is TRUE
    runs,      \* invocations in flight
    admin,     \* UpdateScheduledJob requests in flight
    ticks,     \* invocations started so far
    updates,   \* requests accepted so far
    boots      \* process starts so far

vars == <<table, proc, loaded, entries, entryIDs, nextID, running, runs,
          admin, ticks, updates, boots>>

(***************************************************************************)
(* Types                                                                   *)
(***************************************************************************)
Row == [spec : Specs, enabled : BOOLEAN]

\* Start-up registers under display_name, Reload under name; the seeded rows
\* never have the two equal.
Keys == Jobs \X {"display_name", "name"}

EntryID == Jobs \X Nat

NoEntry == <<>>

\* logs: the closure of loadScheduledJobs, which also stamps last_run_at.
Entry == [id : EntryID, spec : ValidSpecs, logs : BOOLEAN]

\* pc: in the job function, in a mail.Send the SMTP server does not answer, or
\* back from the function and stamping last_run_at.
Run == [tick : Nat, id : EntryID, logs : BOOLEAN,
        pc : {"fn", "stalled", "record"}]

AdminState == [pc : {"idle", "upserted", "removed"},
               job : Jobs, spec : Specs, enabled : BOOLEAN]

JobOf(e) == e.id[1]

IdleAdmins == \A a \in Admins : admin[a].pc = "idle"

(***************************************************************************)
(* Start-up and the end of the process                                     *)
(***************************************************************************)
Init ==
    /\ table \in [Jobs -> [spec : ValidSpecs, enabled : BOOLEAN]]
    /\ proc = "down"
    /\ loaded = FALSE
    /\ entries = {}
    /\ entryIDs = [k \in Keys |-> NoEntry]
    /\ nextID = 0
    /\ running = {}
    /\ runs = {}
    /\ admin \in {[a \in Admins |-> [pc |-> "idle", job |-> j, spec |-> s,
                                     enabled |-> FALSE]]
                    : j \in Jobs, s \in Specs}
    /\ ticks = 0
    /\ updates = 0
    /\ boots = 0

\* Mutant of Schedulable: the cron expression is not parsed.
SchedulableUnparsed(j) == table[j].enabled /\ j \in Registry

\* The jobs loadScheduledJobs registers: enabled, with a function, and with a
\* cron expression AddFunc accepts.
Schedulable(j) ==
    table[j].enabled /\ j \in Registry /\ table[j].spec \in ValidSpecs

\* New + Start: one entry per schedulable row, keyed by display name.  When
\* ListScheduledJobs fails the server runs without any entry.
Boot ==
    /\ proc = "down"
    /\ boots < MaxBoots
    /\ boots' = boots + 1
    /\ proc' = "up"
    /\ loaded' \in BOOLEAN
    /\ entries' = {[id |-> <<j, nextID>>, spec |-> table[j].spec, logs |-> TRUE]
                      : j \in {i \in Jobs : loaded' /\ Schedulable(i)}}
    /\ entryIDs' = [k \in Keys |->
                      IF k[2] = "display_name" /\ loaded' /\ Schedulable(k[1])
                      THEN <<k[1], nextID>> ELSE NoEntry]
    /\ nextID' = nextID + 1
    /\ UNCHANGED <<table, running, runs, admin, ticks, updates>>

\* Shutdown cancels the scheduler's context: cron starts nothing any more,
\* and requests and jobs in flight may still finish.
Shutdown ==
    /\ proc = "up"
    /\ proc' = "stopping"
    /\ UNCHANGED <<table, loaded, entries, entryIDs, nextID, running, runs,
                   admin, ticks, updates, boots>>

\* The process ends, after Shutdown (which does not wait for the jobs) or by
\* a crash.  Only the table survives.
Exit ==
    /\ proc # "down"
    /\ proc' = "down"
    /\ loaded' = FALSE
    /\ entries' = {}
    /\ entryIDs' = [k \in Keys |-> NoEntry]
    /\ nextID' = 0
    /\ running' = {}
    /\ runs' = {}
    /\ admin' = [a \in Admins |-> [admin[a] EXCEPT !.pc = "idle"]]
    /\ UNCHANGED <<table, ticks, updates, boots>>

(***************************************************************************)
(* UpdateScheduledJob: the row first, then Reload                          *)
(***************************************************************************)
UpsertScheduledJob(a, j, s, on) ==
    /\ proc # "down"
    /\ admin[a].pc = "idle"
    /\ updates < MaxUpdates
    /\ updates' = updates + 1
    /\ table' = [table EXCEPT ![j] = [spec |-> s, enabled |-> on]]
    /\ admin' = [admin EXCEPT ![a] =
                   [pc |-> IF j \in Registry THEN "upserted" ELSE "idle",
                    job |-> j, spec |-> s, enabled |-> on]]
    /\ UNCHANGED <<proc, loaded, entries, entryIDs, nextID, running, runs,
                   ticks, boots>>

\* Mutant of ReAdds: the early return of Reload, inverted.
ReAddsInverted(a) == ~admin[a].enabled

\* Reload returns before Add when the job is disabled.
ReAdds(a) == admin[a].enabled

\* The first half of Reload: look the key up, remove the entry it names.
ReloadRemove(a) ==
    LET key == <<admin[a].job, "name">> IN
    /\ admin[a].pc = "upserted"
    /\ entries' = {e \in entries : e.id # entryIDs[key]}
    /\ entryIDs' = [entryIDs EXCEPT ![key] = NoEntry]
    /\ admin' = [admin EXCEPT ![a].pc =
                   IF ReAdds(a) THEN "removed" ELSE "idle"]
    /\ UNCHANGED <<table, proc, loaded, nextID, running, runs, ticks,
                   updates, boots>>

\* The second half: Add.  A rejected cron expression is logged and leaves the
\* job without the entry that was just removed.
ReloadAdd(a) ==
    LET j == admin[a].job
        s == admin[a].spec
        id == <<j, nextID>>
    IN
    /\ admin[a].pc = "removed"
    /\ \/ /\ s \in ValidSpecs
          /\ entries' = entries \cup {[id |-> id, spec |-> s, logs |-> FALSE]}
          /\ entryIDs' = [entryIDs EXCEPT ![<<j, "name">>] = id]
          /\ nextID' = nextID + 1
       \/ /\ s \notin ValidSpecs
          /\ UNCHANGED <<entries, entryIDs, nextID>>
    /\ admin' = [admin EXCEPT ![a].pc = "idle"]
    /\ UNCHANGED <<table, proc, loaded, running, runs, ticks, updates, boots>>

(***************************************************************************)
(* Invocations                                                             *)
(***************************************************************************)
\* Mutant of CompareAndSwap: the guard is not consulted.
CompareAndSwapAlways(id) == TRUE

\* running.CompareAndSwap(false, true) on the guard of one entry.
CompareAndSwap(id) == id \notin running

\* Cron fires an entry; when its guard is held the tick is skipped and nothing
\* changes.
Tick(e) ==
    /\ proc = "up"
    /\ ticks < MaxTicks
    /\ CompareAndSwap(e.id)
    /\ running' = running \cup {e.id}
    /\ runs' = runs \cup {[tick |-> ticks, id |-> e.id, logs |-> e.logs,
                           pc |-> "fn"]}
    /\ ticks' = ticks + 1
    /\ UNCHANGED <<table, proc, loaded, entries, entryIDs, nextID, admin,
                   updates, boots>>

\* Mutant of Finish: no deferred Store(false).
FinishHoldingGuard(r) == runs' = runs \ {r} /\ UNCHANGED running

\* The invocation is over: the deferred running.Store(false).
Finish(r) ==
    /\ runs' = runs \ {r}
    /\ running' = running \ {r.id}

\* mail.Send takes neither the context nor a deadline (smtp.Dial, tls.Dial): a
\* server that stops answering holds the job, past its 30 minutes, until the
\* connection breaks or the process ends.
Stall(r) ==
    /\ r.pc = "fn"
    /\ r.id[1] \in Mailers
    /\ runs' = (runs \ {r}) \cup {[r EXCEPT !.pc = "stalled"]}
    /\ UNCHANGED <<table, proc, loaded, entries, entryIDs, nextID, running,
                   admin, ticks, updates, boots>>

\* The job function returns, whatever its outcome: done, failed, its context
\* cancelled or past the deadline, or a stalled connection broken at last.
FnReturns(r) ==
    /\ r.pc \in {"fn", "stalled"}
    /\ \/ /\ r.logs
          /\ runs' = (runs \ {r}) \cup {[r EXCEPT !.pc = "record"]}
          /\ UNCHANGED running
       \/ /\ ~r.logs
          /\ Finish(r)
    /\ UNCHANGED <<table, proc, loaded, entries, entryIDs, nextID, admin,
                   ticks, updates, boots>>

\* UpdateJobLastRun(..., "success"); its failure is only logged.
RecordLastRun(r) ==
    /\ r.pc = "record"
    /\ Finish(r)
    /\ UNCHANGED <<table, proc, loaded, entries, entryIDs, nextID, admin,
                   ticks, updates, boots>>

(***************************************************************************)
(* Specification                                                           *)
(***************************************************************************)
Next ==
    \/ Boot
    \/ Shutdown
    \/ Exit
    \/ \E a \in Admins, j \in Jobs, s \in Specs, on \in BOOLEAN :
          UpsertScheduledJob(a, j, s, on)
    \/ \E a \in Admins : ReloadRemove(a) \/ ReloadAdd(a)
    \/ \E e \in entries : Tick(e)
    \/ \E r \in runs : Stall(r) \/ FnReturns(r) \/ RecordLastRun(r)

Spec == Init /\ [][Next]_vars

\* Fairness of each invocation's goroutine.  Outside mail.Send everything a job
\* waits for takes its context (queries, the root store download), whose
\* deadline ends the wait; UpdateJobLastRun does not, and is assumed to be
\* answered by PostgreSQL.  Nothing makes a stalled mail.Send return.
JobFairness ==
    \A n \in 0 .. MaxTicks :
        WF_vars(\E r \in runs : /\ r.tick = n
                                /\ r.pc # "stalled"
                                /\ FnReturns(r) \/ RecordLastRun(r))

FairSpec == Spec /\ JobFairness

(***************************************************************************)
(* Properties                                                              *)
(***************************************************************************)
\* The shape of the state.
TypeOK ==
    /\ table \in [Jobs -> Row]
    /\ proc \in {"down", "up", "stopping"}
    /\ loaded \in BOOLEAN
    /\ entries \subseteq Entry
    /\ entryIDs \in [Keys -> EntryID \cup {NoEntry}]
    /\ nextID \in Nat
    /\ running \subseteq EntryID
    /\ runs \subseteq Run
    /\ admin \in [Admins -> AdminState]
    /\ ticks \in Nat /\ updates \in Nat /\ boots \in Nat

\* The atomic.Bool of Add: two invocations of one cron entry are never in
\* flight together, however long the job takes and however often it fires.
EntryNeverOverlaps ==
    \A r1, r2 \in runs : r1.id = r2.id => r1 = r2

\* The guard is held exactly while an invocation is in flight: a guard left
\* set would silence its entry for the rest of the process's life.
GuardHeldWhileRunning == running = {r.id : r \in runs}

\* An update never loses an enabled job: between requests, every enabled row
\* with a function and an accepted cron expression has a live entry with that
\* expression, across hot reloads, crashes and restarts.  (One request at a
\* time: two that interleave in Reload can lose the entry.)
EnabledJobIsScheduled ==
    (proc = "up" /\ loaded /\ IdleAdmins) =>
        \A j \in Jobs : Schedulable(j) =>
            \E e \in entries : JobOf(e) = j /\ e.spec = table[j].spec

\* A run of the entry waits in mail.Send for a server that does not answer.
StalledInSend(id) == \E r \in runs : r.id = id /\ r.pc = "stalled"

\* A guard that is set is eventually released (or the process ends), whatever
\* the job, its outcome and the reloads meanwhile, unless the run that holds it
\* is stuck in mail.Send: that is the one way an entry is skipped for ever.
GuardReleased ==
    \A j \in Jobs, n \in 0 .. MaxUpdates + 1 :
        (<<j, n>> \in running) ~>
            \/ <<j, n>> \notin running
            \/ j \in Mailers /\ StalledInSend(<<j, n>>)

\* scheduler.go, Reload: "If enabled is false the job is removed and not
\* re-added."
DisabledJobHasNoEntry ==
    IdleAdmins => \A e \in entries : table[JobOf(e)].enabled

=============================================================================
