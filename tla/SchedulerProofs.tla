--------------------------- MODULE SchedulerProofs ---------------------------
(***************************************************************************)
(* Proofs about Scheduler for any set of jobs, cron expressions and        *)
(* requests, and for any value of the bounds.                              *)
(***************************************************************************)
EXTENDS Scheduler, TLAPS

(***************************************************************************)
(* Type correctness                                                        *)
(***************************************************************************)

\* Every action keeps the shape of the state: in particular only expressions
\* the cron parser accepts ever reach a live entry.
LEMMA TypeStep == TypeOK /\ [Next]_vars => TypeOK'
<1> SUFFICES ASSUME TypeOK, [Next]_vars PROVE TypeOK'
  OBVIOUS
<1> USE DEF TypeOK, Row, Keys, EntryID, NoEntry, Entry, Run, AdminState
<1>1. CASE Boot
  <2>1. ASSUME NEW e \in entries' PROVE e \in Entry
    <3>1. PICK j \in Jobs :
            /\ Schedulable(j)
            /\ e = [id |-> <<j, nextID>>, spec |-> table[j].spec, logs |-> TRUE]
      BY <1>1 DEF Boot
    <3> QED BY <3>1 DEF Schedulable
  <2>2. entryIDs' \in [Keys -> EntryID \cup {NoEntry}]
    BY <1>1 DEF Boot
  <2> QED BY <1>1, <2>1, <2>2 DEF Boot
<1>2. CASE Shutdown
  BY <1>2 DEF Shutdown
<1>3. CASE Exit
  BY <1>3 DEF Exit
<1>4. ASSUME NEW a \in Admins, NEW j \in Jobs, NEW s \in Specs,
             NEW on \in BOOLEAN, UpsertScheduledJob(a, j, s, on)
      PROVE  TypeOK'
  BY <1>4 DEF UpsertScheduledJob
<1>5. ASSUME NEW a \in Admins, ReloadRemove(a)
      PROVE  TypeOK'
  <2>1. <<admin[a].job, "name">> \in Keys
    OBVIOUS
  <2>2. admin' \in [Admins -> AdminState]
    BY <1>5 DEF ReloadRemove
  <2> QED BY <1>5, <2>1, <2>2 DEF ReloadRemove
<1>6. ASSUME NEW a \in Admins, ReloadAdd(a)
      PROVE  TypeOK'
  <2>1. admin' \in [Admins -> AdminState]
    BY <1>6 DEF ReloadAdd
  <2>2. CASE admin[a].spec \in ValidSpecs
    <3> DEFINE id == <<admin[a].job, nextID>>
    <3>1. id \in EntryID /\ <<admin[a].job, "name">> \in Keys
      OBVIOUS
    <3>2. /\ entries' = entries \cup
                          {[id |-> id, spec |-> admin[a].spec, logs |-> FALSE]}
          /\ entryIDs' = [entryIDs EXCEPT ![<<admin[a].job, "name">>] = id]
          /\ nextID' = nextID + 1
      BY <1>6, <2>2 DEF ReloadAdd
    <3> HIDE DEF id, EntryID, Keys, NoEntry
    <3> DEFINE e == [id |-> id, spec |-> admin[a].spec, logs |-> FALSE]
    <3>3. entries' \subseteq Entry
      <4>1. e \in Entry
        BY <2>2, <3>1
      <4>2. entries' = entries \cup {e}
        BY <3>2
      <4> HIDE DEF e, Entry
      <4> QED BY <4>1, <4>2
    <3>4. entryIDs' \in [Keys -> EntryID \cup {NoEntry}]
      BY <3>1, <3>2
    <3> QED BY <1>6, <2>1, <3>2, <3>3, <3>4 DEF ReloadAdd
  <2>3. CASE admin[a].spec \notin ValidSpecs
    BY <1>6, <2>1, <2>3 DEF ReloadAdd
  <2> QED BY <2>2, <2>3
<1>7. ASSUME NEW e \in entries, Tick(e)
      PROVE  TypeOK'
  BY <1>7 DEF Tick
<1>8. ASSUME NEW r \in runs, FnReturns(r)
      PROVE  TypeOK'
  <2>1. [r EXCEPT !.pc = "record"] \in Run
    OBVIOUS
  <2> QED BY <1>8, <2>1 DEF FnReturns, Finish
<1>9. ASSUME NEW r \in runs, RecordLastRun(r)
      PROVE  TypeOK'
  BY <1>9 DEF RecordLastRun, Finish
<1>10. ASSUME NEW r \in runs, Stall(r)
       PROVE  TypeOK'
  <2>1. [r EXCEPT !.pc = "stalled"] \in Run
    OBVIOUS
  <2> QED BY <1>10, <2>1 DEF Stall
<1>11. CASE UNCHANGED vars
  BY <1>11 DEF vars
<1> HIDE DEF TypeOK
<1> QED
  BY <1>1, <1>2, <1>3, <1>4, <1>5, <1>6, <1>7, <1>8, <1>9, <1>10, <1>11 DEF Next

\* The state before the first start is well typed.
LEMMA TypeInit == Init => TypeOK
<1> SUFFICES ASSUME Init PROVE TypeOK
  OBVIOUS
<1>1. admin \in [Admins -> AdminState]
  <2>1. PICK j \in Jobs, s \in Specs :
          admin = [a \in Admins |-> [pc |-> "idle", job |-> j, spec |-> s,
                                     enabled |-> FALSE]]
    BY DEF Init
  <2> QED BY <2>1 DEF AdminState
<1>2. table \in [Jobs -> Row]
  BY SchedulerAssumption DEF Init, Row
<1> QED BY <1>1, <1>2 DEF Init, TypeOK, NoEntry

\* The scheduler's state is always well typed.
THEOREM SchedulerTypeCorrect == Spec => []TypeOK
BY TypeInit, TypeStep, PTL DEF Spec

(***************************************************************************)
(* The overlap guard                                                       *)
(***************************************************************************)

\* Neither half is inductive alone: without GuardHeldWhileRunning a free guard
\* says nothing of the runs, without EntryNeverOverlaps the end of one run
\* could release a guard that another still relies on.
GuardInv == TypeOK /\ GuardHeldWhileRunning /\ EntryNeverOverlaps

\* The end of an invocation releases its own guard and no other's.
LEMMA FinishKeepsGuard ==
    ASSUME GuardInv, NEW r \in runs, Finish(r)
    PROVE  GuardHeldWhileRunning' /\ EntryNeverOverlaps'
BY DEF GuardInv, TypeOK, Run, GuardHeldWhileRunning, EntryNeverOverlaps, Finish

\* An invocation that only moves on keeps its entry and its guard.
LEMMA SamePlaceKeepsGuard ==
    ASSUME GuardInv, NEW r \in runs, NEW p \in {"stalled", "record"},
           runs' = (runs \ {r}) \cup {[r EXCEPT !.pc = p]}, running' = running
    PROVE  GuardHeldWhileRunning' /\ EntryNeverOverlaps'
<1> USE DEF GuardInv, GuardHeldWhileRunning, EntryNeverOverlaps
<1> DEFINE q == [r EXCEPT !.pc = p]
<1>1. runs' = (runs \ {r}) \cup {q} /\ running' = running
  OBVIOUS
<1>2. q.id = r.id
  BY DEF TypeOK, Run
<1> HIDE DEF q
<1> QED BY <1>1, <1>2

\* Every action preserves the guard invariant.
LEMMA GuardStep == GuardInv /\ [Next]_vars => GuardInv'
<1> SUFFICES ASSUME GuardInv, [Next]_vars
             PROVE  GuardHeldWhileRunning' /\ EntryNeverOverlaps'
  BY TypeStep DEF GuardInv
<1> USE DEF GuardInv, GuardHeldWhileRunning, EntryNeverOverlaps
<1>1. CASE UNCHANGED <<running, runs>>
  BY <1>1
<1>2. CASE Exit
  BY <1>2 DEF Exit
<1>3. ASSUME NEW e \in entries, Tick(e)
      PROVE  GuardHeldWhileRunning' /\ EntryNeverOverlaps'
  <2>1. \A r \in runs : r.id # e.id
    BY <1>3 DEF Tick, CompareAndSwap
  <2> DEFINE n == [tick |-> ticks, id |-> e.id, logs |-> e.logs, pc |-> "fn"]
  <2>2. runs' = runs \cup {n} /\ running' = running \cup {e.id}
    BY <1>3 DEF Tick
  <2>3. n.id = e.id
    OBVIOUS
  <2> HIDE DEF n
  <2> QED BY <2>1, <2>2, <2>3
<1>4. ASSUME NEW r \in runs, FnReturns(r)
      PROVE  GuardHeldWhileRunning' /\ EntryNeverOverlaps'
  <2>1. CASE r.logs
    BY <1>4, <2>1, SamePlaceKeepsGuard DEF FnReturns
  <2>2. CASE ~r.logs
    BY <1>4, <2>2, FinishKeepsGuard DEF FnReturns
  <2> QED BY <2>1, <2>2
<1>5. ASSUME NEW r \in runs, RecordLastRun(r)
      PROVE  GuardHeldWhileRunning' /\ EntryNeverOverlaps'
  BY <1>5, FinishKeepsGuard DEF RecordLastRun
<1>6. ASSUME \/ Boot
             \/ Shutdown
             \/ \E a \in Admins, j \in Jobs, s \in Specs, on \in BOOLEAN :
                   UpsertScheduledJob(a, j, s, on)
             \/ \E a \in Admins : ReloadRemove(a) \/ ReloadAdd(a)
             \/ UNCHANGED vars
      PROVE  UNCHANGED <<running, runs>>
  BY <1>6 DEF Boot, Shutdown, UpsertScheduledJob, ReloadRemove, ReloadAdd, vars
<1>7. ASSUME NEW r \in runs, Stall(r)
      PROVE  GuardHeldWhileRunning' /\ EntryNeverOverlaps'
  BY <1>7, SamePlaceKeepsGuard DEF Stall
<1> QED
  BY <1>1, <1>2, <1>3, <1>4, <1>5, <1>6, <1>7 DEF Next

\* However often an entry fires and however long its job takes, one entry
\* never runs twice at a time, and its guard is held exactly while it runs.
THEOREM GuardCorrect == Spec => [](EntryNeverOverlaps /\ GuardHeldWhileRunning)
<1>1. Init => GuardInv
  BY TypeInit DEF Init, GuardInv, GuardHeldWhileRunning, EntryNeverOverlaps
<1>2. GuardInv => EntryNeverOverlaps /\ GuardHeldWhileRunning
  BY DEF GuardInv
<1> QED BY <1>1, <1>2, GuardStep, PTL DEF Spec

(***************************************************************************)
(* One request at a time                                                   *)
(***************************************************************************)

\* A request for the job is between its row update and the end of Reload.
Reloading(j) == \E a \in Admins : admin[a].pc # "idle" /\ admin[a].job = j

\* A key of entryIDs only ever names an entry of its own job.
KeysNameOwnJob ==
    \A k \in Keys : entryIDs[k] # NoEntry => entryIDs[k][1] = k[1]

\* What a request still in Reload will install is what the row says.
RequestMatchesRow ==
    \A a \in Admins : admin[a].pc # "idle" =>
        /\ table[admin[a].job] = [spec |-> admin[a].spec,
                                  enabled |-> admin[a].enabled]
        /\ admin[a].pc = "removed" => admin[a].enabled

\* A job nobody is reloading is scheduled as its row says.
SettledJobIsScheduled ==
    (proc = "up" /\ loaded) =>
        \A j \in Jobs : (Schedulable(j) /\ ~Reloading(j)) =>
            \E e \in entries : JobOf(e) = j /\ e.spec = table[j].spec

ScheduledInv ==
    /\ TypeOK
    /\ KeysNameOwnJob
    /\ RequestMatchesRow
    /\ SettledJobIsScheduled

\* At most one UpdateScheduledJob request is served at any time.
OneRequest == \A a, b \in Admins : a = b

\* An entry's id is never the "absent" value of the map.
LEMMA IdIsNotNoEntry == ASSUME NEW id \in EntryID PROVE id # NoEntry
BY DEF EntryID, NoEntry

\* Reload and start-up store an entry only under a key of its own job.
LEMMA KeysStep == TypeOK /\ KeysNameOwnJob /\ [Next]_vars => KeysNameOwnJob'
<1> SUFFICES ASSUME TypeOK, KeysNameOwnJob, [Next]_vars PROVE KeysNameOwnJob'
  OBVIOUS
<1> USE DEF KeysNameOwnJob
<1>1. CASE UNCHANGED entryIDs
  BY <1>1
<1>2. CASE Boot
  BY <1>2 DEF Boot
<1>3. CASE Exit
  BY <1>3 DEF Exit
<1>4. ASSUME NEW a \in Admins, ReloadRemove(a) PROVE KeysNameOwnJob'
  BY <1>4 DEF ReloadRemove, TypeOK
<1>5. ASSUME NEW a \in Admins, ReloadAdd(a) PROVE KeysNameOwnJob'
  BY <1>5 DEF ReloadAdd, TypeOK
<1>6. ASSUME \/ Shutdown
             \/ \E a \in Admins, j \in Jobs, s \in Specs, on \in BOOLEAN :
                   UpsertScheduledJob(a, j, s, on)
             \/ \E e \in entries : Tick(e)
             \/ \E r \in runs : Stall(r) \/ FnReturns(r) \/ RecordLastRun(r)
             \/ UNCHANGED vars
      PROVE  UNCHANGED entryIDs
  BY <1>6 DEF Shutdown, UpsertScheduledJob, Tick, Stall, FnReturns, RecordLastRun, vars
<1> QED
  BY <1>1, <1>2, <1>3, <1>4, <1>5, <1>6 DEF Next

\* With one request at a time nobody overwrites the row before Reload ends.
LEMMA RequestStep ==
    ASSUME OneRequest
    PROVE  TypeOK /\ RequestMatchesRow /\ [Next]_vars => RequestMatchesRow'
<1> SUFFICES ASSUME TypeOK, RequestMatchesRow, [Next]_vars
             PROVE  RequestMatchesRow'
  OBVIOUS
<1> USE DEF RequestMatchesRow
<1>1. CASE UNCHANGED <<table, admin>>
  BY <1>1
<1>2. CASE Exit
  BY <1>2 DEF Exit, TypeOK, AdminState
<1>3. ASSUME NEW a \in Admins, NEW j \in Jobs, NEW s \in Specs,
             NEW on \in BOOLEAN, UpsertScheduledJob(a, j, s, on)
      PROVE  RequestMatchesRow'
  <2>1. Admins = {a}
    BY OneRequest DEF OneRequest
  <2>2. admin'[a].pc # "removed" /\ admin'[a].job = j
        /\ admin'[a].spec = s /\ admin'[a].enabled = on
    BY <1>3 DEF UpsertScheduledJob, TypeOK
  <2>3. table'[j] = [spec |-> s, enabled |-> on]
    BY <1>3 DEF UpsertScheduledJob, TypeOK
  <2> QED BY <2>1, <2>2, <2>3
<1>4. ASSUME NEW a \in Admins, ReloadRemove(a) PROVE RequestMatchesRow'
  BY <1>4 DEF ReloadRemove, ReAdds, TypeOK, AdminState
<1>5. ASSUME NEW a \in Admins, ReloadAdd(a) PROVE RequestMatchesRow'
  BY <1>5 DEF ReloadAdd, TypeOK, AdminState
<1>6. ASSUME \/ Boot
             \/ Shutdown
             \/ \E e \in entries : Tick(e)
             \/ \E r \in runs : Stall(r) \/ FnReturns(r) \/ RecordLastRun(r)
             \/ UNCHANGED vars
      PROVE  UNCHANGED <<table, admin>>
  BY <1>6 DEF Boot, Shutdown, Tick, Stall, FnReturns, RecordLastRun, vars
<1> QED
  BY <1>1, <1>2, <1>3, <1>4, <1>5, <1>6 DEF Next

\* The row a request in Reload left behind, field by field.
LEMMA RowOfRequest ==
    ASSUME ScheduledInv, NEW a \in Admins, admin[a].pc # "idle"
    PROVE  /\ table[admin[a].job].spec = admin[a].spec
           /\ table[admin[a].job].enabled = admin[a].enabled
<1>1. table[admin[a].job] = [spec |-> admin[a].spec, enabled |-> admin[a].enabled]
  BY DEF ScheduledInv, RequestMatchesRow
<1> QED BY <1>1

\* Only the request in Reload for a job can leave that job without its entry.
LEMMA SettledStep == ScheduledInv /\ [Next]_vars => SettledJobIsScheduled'
<1> SUFFICES ASSUME ScheduledInv, [Next]_vars,
                    proc' = "up", loaded',
                    NEW i \in Jobs, Schedulable(i)', ~Reloading(i)'
             PROVE  \E e \in entries' : JobOf(e) = i /\ e.spec = table'[i].spec
  BY DEF SettledJobIsScheduled, JobOf
<1> USE DEF JobOf
<1> DEFINE Settled(E, s) == \E e \in E : e.id[1] = i /\ e.spec = s
<1>1. ASSUME proc = "up", loaded, Schedulable(i), ~Reloading(i)
      PROVE  Settled(entries, table[i].spec)
  BY <1>1 DEF ScheduledInv, SettledJobIsScheduled
<1>2. CASE Boot
  <2>1. Schedulable(i) /\ loaded'
    BY <1>2 DEF Boot, Schedulable
  <2>2. [id |-> <<i, nextID>>, spec |-> table[i].spec, logs |-> TRUE] \in entries'
    BY <1>2, <2>1 DEF Boot
  <2> QED BY <1>2, <2>2 DEF Boot
<1>3. CASE Shutdown \/ Exit
  BY <1>3 DEF Shutdown, Exit
<1>4. ASSUME NEW a \in Admins, NEW j \in Jobs, NEW s \in Specs,
             NEW on \in BOOLEAN, UpsertScheduledJob(a, j, s, on)
      PROVE  Settled(entries', table'[i].spec)
  <2>1. i # j
    BY <1>4 DEF UpsertScheduledJob, Schedulable, Reloading, ScheduledInv, TypeOK
  <2>2. table'[i] = table[i] /\ Schedulable(i)
    BY <1>4, <2>1 DEF UpsertScheduledJob, Schedulable, ScheduledInv, TypeOK
  <2>3. ~Reloading(i)
    BY <1>4, <2>1 DEF UpsertScheduledJob, Reloading, ScheduledInv, TypeOK
  <2>4. proc = "up" /\ loaded /\ entries' = entries
    BY <1>4 DEF UpsertScheduledJob
  <2> QED BY <1>1, <2>2, <2>3, <2>4
<1>5. ASSUME NEW a \in Admins, ReloadRemove(a)
      PROVE  Settled(entries', table'[i].spec)
  <2> DEFINE key == <<admin[a].job, "name">>
  <2>0. /\ admin[a].pc # "idle"
        /\ table[admin[a].job].enabled = admin[a].enabled
    BY <1>5, RowOfRequest DEF ReloadRemove
  <2>1. i # admin[a].job
    <3>1. CASE ReAdds(a)
      BY <1>5, <3>1 DEF ReloadRemove, Reloading, ScheduledInv, TypeOK, AdminState
    <3>2. CASE ~ReAdds(a)
      BY <1>5, <2>0, <3>2 DEF ReloadRemove, ReAdds, Schedulable
    <3> QED BY <3>1, <3>2
  <2>2. Schedulable(i) /\ ~Reloading(i)
    BY <1>5, <2>1 DEF ReloadRemove, Schedulable, Reloading, ScheduledInv,
                      TypeOK, AdminState
  <2>3. PICK e \in entries : e.id[1] = i /\ e.spec = table[i].spec
    BY <1>1, <1>5, <2>2 DEF ReloadRemove
  <2>4. key \in Keys
    BY DEF Keys, ScheduledInv, TypeOK, AdminState
  <2>5. e.id # entryIDs[key]
    <3>1. e.id # NoEntry
      BY IdIsNotNoEntry DEF ScheduledInv, TypeOK, Entry
    <3>2. entryIDs[key] # NoEntry => entryIDs[key][1] # i
      BY <2>1, <2>4 DEF ScheduledInv, KeysNameOwnJob
    <3> QED BY <2>3, <3>1, <3>2
  <2>6. e \in entries'
    BY <1>5, <2>5 DEF ReloadRemove
  <2> QED BY <1>5, <2>3, <2>6 DEF ReloadRemove
<1>6. ASSUME NEW a \in Admins, ReloadAdd(a)
      PROVE  Settled(entries', table'[i].spec)
  <2>1. CASE i = admin[a].job
    <3>1. table[i].spec = admin[a].spec
      BY <1>6, <2>1, RowOfRequest DEF ReloadAdd
    <3>2. admin[a].spec \in ValidSpecs
      BY <1>6, <3>1 DEF ReloadAdd, Schedulable
    <3>3. [id |-> <<i, nextID>>, spec |-> admin[a].spec, logs |-> FALSE]
            \in entries'
      BY <1>6, <2>1, <3>2 DEF ReloadAdd
    <3> QED BY <1>6, <3>1, <3>3 DEF ReloadAdd
  <2>2. CASE i # admin[a].job
    <3>1. Schedulable(i) /\ ~Reloading(i)
      BY <1>6, <2>2 DEF ReloadAdd, Schedulable, Reloading, ScheduledInv,
                        TypeOK, AdminState
    <3>2. entries \subseteq entries'
      BY <1>6 DEF ReloadAdd
    <3> QED BY <1>1, <1>6, <3>1, <3>2 DEF ReloadAdd
  <2> QED BY <2>1, <2>2
<1>7. ASSUME \/ \E e \in entries : Tick(e)
             \/ \E r \in runs : Stall(r) \/ FnReturns(r) \/ RecordLastRun(r)
             \/ UNCHANGED vars
      PROVE  Settled(entries', table'[i].spec)
  <2>1. UNCHANGED <<table, proc, loaded, entries, admin>>
    BY <1>7 DEF Tick, Stall, FnReturns, RecordLastRun, vars
  <2> QED BY <1>1, <2>1 DEF Schedulable, Reloading
<1> QED
  BY <1>2, <1>3, <1>4, <1>5, <1>6, <1>7 DEF Next

\* When settings requests come one at a time, no sequence of updates, hot
\* reloads, crashes and restarts leaves an enabled job without a live entry
\* that carries the row's cron expression.
THEOREM EnabledJobsStayScheduled ==
    ASSUME OneRequest
    PROVE  Spec => []EnabledJobIsScheduled
<1>1. Init => ScheduledInv
  BY TypeInit DEF Init, ScheduledInv, KeysNameOwnJob, RequestMatchesRow,
                  SettledJobIsScheduled, Keys
<1>2. ScheduledInv /\ [Next]_vars => ScheduledInv'
  BY OneRequest, TypeStep, KeysStep, RequestStep, SettledStep DEF ScheduledInv
<1>3. ScheduledInv => EnabledJobIsScheduled
  BY DEF ScheduledInv, SettledJobIsScheduled, EnabledJobIsScheduled,
         Reloading, IdleAdmins
<1> QED BY <1>1, <1>2, <1>3, PTL DEF Spec

=============================================================================
