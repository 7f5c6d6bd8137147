------------------------------- MODULE WebTab -------------------------------
(***************************************************************************)
(* One browser tab of the web interface (src/web/src) and the part of the  *)
(* server it talks to.  This module holds what every page shares: the      *)
(* session (client.ts, App.tsx, LoginPage), the query cache (main.tsx and  *)
(* the library behind useQuery), the requests in flight, and the state of  *)
(* the mounted page's components.  WebLists, WebForms and WebAdmin add the *)
(* pages, Web puts them together.                                          *)
(*                                                                         *)
(* A behaviour stays in one area of the interface, a page or the pages     *)
(* that share a resource; only one page is mounted at a time, so areas     *)
(* meet only in the session.  Every area's resource is a table of rows:    *)
(*                                                                         *)
(*    area         on                     cfg              tags            *)
(*    endpoints    enabled                configuration    tags            *)
(*    endpoint     enabled                notes            tags            *)
(*    clone, newEndpoint                  configuration    tags            *)
(*    certs        still referenced       certificate      -               *)
(*    inbox        new (not dismissed)    finding          -               *)
(*    networks     enabled                range, schedule  -               *)
(*    users        enabled                name, role       -               *)
(*    scanners     default                name, schedule   -               *)
(*    tags         -                      name             -               *)
(*    jobs         enabled                cron             retention       *)
(*    twofa        enrolled               -                -               *)
(*    apikeys      -                      name             -               *)
(*    adminkeys    -                      name             -               *)
(*    mail         enabled                settings         -               *)
(*    general      -                      thresholds       -               *)
(*    notify       notifications wanted   profile          subscribed tags *)
(*    templates    customised             text             -               *)
(*    group        -                      name             hosts           *)
(*                                                                         *)
(* A row's configuration starts as its own id; the tab's user types Mine,  *)
(* everybody else writes Theirs, an empty form holds Empty.                *)
(***************************************************************************)
EXTENDS Naturals, FiniteSets, Sequences

CONSTANTS
    Areas,      \* the areas explored
    Ids,        \* rows of a table, and room for new ones
    MaxSent,    \* operations the user starts
    MaxEvents   \* by area: those, pages turned and left, changes made outside the
                \* tab, and faults (failed requests, lost answers, expired sessions)

ASSUME WebBounds ==
    /\ Ids \subseteq 1..7 /\ {1, 2} \subseteq Ids
    /\ MaxSent \in Nat /\ MaxEvents \in [Areas -> Nat]

VARIABLES
    area,    \* the area this behaviour is about
    page,    \* the mounted page, or "leaving" while the document is replaced
    view,    \* the key the mounted page's main query observes
    held,    \* the rows shown until that key has an answer (keepPreviousData)
    auth,    \* the server accepts the tab's token
    srv,     \* the server's rows
    cache,   \* the query cache, by key
    fetch,   \* the query in flight, by key
    calls,   \* the other requests in flight
    dlg,     \* the open dialog or form, and what it holds
    busy,    \* the flags (loading, mostly) set in the page's components
    sel,     \* the list's selection: id -> the row as it was listed
    bulk,    \* the bulk dialog's phase and results
    reveal,  \* the secret on display and what became of each issued one
    used,    \* operations and events so far
    \* history
    acks,    \* answered writes of the tab
    owed,    \* by key, the last write whose page asked for its rows again
    tally    \* rows made and failures reported since the form was mounted

server == <<auth, srv>>
nav    == <<page, view, held>>
query  == <<cache, fetch>>
pane   == <<dlg, busy, sel, bulk>>
ledger == <<acks, owed, tally>>
vars   == <<area, nav, server, query, calls, pane, reveal, used, ledger>>

Empty  == 0
Mine   == 8
Theirs == 9
Vals   == Ids \cup {Empty, Mine, Theirs}
Tags   == {"own", "mine", "theirs"}
Fields == {"on", "cfg", "tags"}
Keys   == {"p1", "p2", "on", "all", "detail"}

Val == [on: BOOLEAN, cfg: Vals, tags: SUBSET Tags]
Row == [live: BOOLEAN, on: BOOLEAN, cfg: Vals, tags: SUBSET Tags]

ValOf(r) == [on |-> r.on, cfg |-> r.cfg, tags |-> r.tags]
Blank    == [on |-> TRUE, cfg |-> Empty, tags |-> {}]
NotYet   == [live |-> FALSE, on |-> FALSE, cfg |-> Empty, tags |-> {}]
Gone     == [NotYet EXCEPT !.on = TRUE]   \* an id is not used twice

\* A form or dialog of a kind, about a row, with the values it starts from
\* (base), the ones it holds (val) and the fields the user has set (typed).
Form(kind, i, v) == [kind |-> kind, id |-> i, val |-> v, base |-> v, typed |-> {}]
NoDlg    == Form("none", 0, Blank)
NoBulk   == [phase |-> "none", ids |-> {}, failed |-> {}]
NoRows   == [i \in {} |-> Gone]
NoTally  == [made |-> 0, errs |-> 0]

On(a, p) == area = a /\ page = p

\* The list page is on screen with nothing over it.
Clear(a) == On(a, "list") /\ dlg.kind = "none" /\ reveal.on = 0

\* What a row of an area holds, and the records that are never deleted.
Columns ==
    [endpoints |-> {"tags"}, certs |-> {"on"}, inbox |-> {"on"}, endpoint |-> Fields,
     newEndpoint |-> {}, clone |-> {"cfg", "tags"},
     networks |-> {"on", "cfg"}, users |-> {"on", "cfg"}, scanners |-> {"cfg"}, tags |-> {"cfg"},
     jobs |-> Fields, twofa |-> {"on"}, apikeys |-> {}, adminkeys |-> {}, mail |-> {"on", "cfg"},
     general |-> {"cfg"}, notify |-> Fields, templates |-> {"cfg"}, group |-> {"cfg", "tags"}]
Fixed == {"jobs", "twofa", "mail", "general", "notify", "templates"}

Event ==
    /\ used.events < MaxEvents[area]
    /\ used' = [used EXCEPT !.events = @ + 1]

SignedOut == page \in {"login", "leaving"}

-----------------------------------------------------------------------------
(***************************************************************************)
(* The query cache.  A fetch is asked by the page, served by the server    *)
(* and answered to the cache; acks at the time it was served says which of *)
(* the tab's writes its rows are sure to contain.                          *)
(***************************************************************************)
Idle     == [st |-> "idle", rows |-> NoRows, at |-> 0]
NoAnswer == [have |-> FALSE, rows |-> NoRows, inv |-> FALSE, at |-> 0]

\* The live rows, a page of one row at a time where the list is paged.
Live == {i \in Ids : srv[i].live}
Rank(i) == Cardinality({j \in Live : j <= i})
KeyHolds(k, i) ==
    CASE k = "p1"     -> Rank(i) = 1
      [] k = "p2"     -> Rank(i) = 2
      [] k = "on"     -> srv[i].on
      [] k = "detail" -> i = 1
      [] OTHER        -> TRUE
RowsOf(k) == [i \in {j \in Live : KeyHolds(k, j)} |-> srv[i]]

\* What the mounted page shows: its key's rows, or the previous key's.
Shown == IF cache[view].have THEN cache[view].rows ELSE held

Ask(k) == [fetch EXCEPT ![k] = [Idle EXCEPT !.st = "asked"]]

\* refetch(): a fetch in flight is dropped and asked again, but the very
\* first one of a key is joined.
Refetch(k) == IF fetch[k].st = "idle" \/ cache[k].have THEN Ask(k) ELSE fetch

\* invalidateQueries(): every key of the list is out of date, and the one
\* on display is fetched again.  A fetch in flight for another key goes on,
\* and its answer counts as new.
Mounted == ~SignedOut /\ page # "away"
Watched(k) == Mounted /\ k = view /\ ~(page = "form" /\ area \in {"endpoint", "clone", "newEndpoint", "inbox"})
Reached == {k \in Keys : fetch[k].st = "idle" \/ Watched(k)}
Invalidate == [k \in Keys |-> [cache[k] EXCEPT !.inv = cache[k].have]]

\* Observing a key asks for it when it has no answer, an invalidated one, or
\* one older than staleTime, which is a matter of time.
MustAsk(k) == fetch[k].st = "idle" /\ (~cache[k].have \/ cache[k].inv)
Observe(k) ==
    /\ view' = k
    /\ \/ fetch' = Ask(k) /\ fetch[k].st = "idle"
       \/ fetch' = fetch /\ ~MustAsk(k)

\* A key is owed the writes answered from now on: its next rows must be
\* served after them.  The first fetch of a key is joined, so it owes nothing.
Owe(ks) ==
    /\ acks' = acks + 1
    /\ owed' = [k \in Keys |-> IF k \in ks /\ cache[k].have THEN acks + 1 ELSE owed[k]]
OweNothing == UNCHANGED <<acks, owed>>

\* The window regains focus: rows older than staleTime are fetched again.
Focus ==
    /\ Watched(view) /\ Event
    /\ fetch[view].st = "idle" /\ cache[view].have
    /\ fetch' = Ask(view)
    /\ UNCHANGED <<area, nav, server, cache, calls, pane, reveal, ledger>>

Serve(k) ==
    /\ auth
    /\ fetch[k].st = "asked"
    /\ fetch' = [fetch EXCEPT ![k] = [st |-> "served", rows |-> RowsOf(k), at |-> acks]]
    /\ UNCHANGED <<area, nav, server, cache, calls, pane, reveal, used, ledger>>

\* The answer reaches the cache; what the mounted page does with new rows is
\* its selection and its dialog after its effects have run.
Answered(k, selection, dialog) ==
    /\ fetch[k].st = "served"
    /\ cache' = [cache EXCEPT ![k] = [have |-> TRUE, rows |-> fetch[k].rows,
                                      inv |-> FALSE, at |-> fetch[k].at]]
    /\ fetch' = [fetch EXCEPT ![k] = Idle]
    /\ owed' = [owed EXCEPT ![k] = IF fetch[k].at >= @ THEN 0 ELSE @]
    /\ sel' = selection
    /\ dlg' = dialog
    /\ UNCHANGED <<area, nav, server, calls, busy, bulk, reveal, used, acks, tally>>

\* A fetch and its one retry both failed: the rows stay, with an error.
FetchFails(k) ==
    /\ Event
    /\ fetch[k].st # "idle"
    /\ fetch' = [fetch EXCEPT ![k] = Idle]
    /\ owed' = [owed EXCEPT ![k] = 0]
    /\ UNCHANGED <<area, nav, server, cache, calls, pane, reveal, acks, tally>>

-----------------------------------------------------------------------------
(***************************************************************************)
(* Requests other than queries.  Each belongs to an operation (n), was     *)
(* sent by a component (by) that may have started afresh by the time the   *)
(* answer comes (own) or gone with its page (here), and may be the first   *)
(* of several (rest).                                                      *)
(***************************************************************************)
Ops == {"read", "put", "all", "on", "cfg", "tags", "delete", "purge", "create", "make",
        "link", "rotate", "revert", "default", "enrol", "unenrol", "touch"}
Issues == {"rotate", "enrol"}   \* and "create" where the new row has a secret

Call(by, op, i, v, rest) ==
    [n |-> used.sent + 1, by |-> by, op |-> op, id |-> i, val |-> v,
     rest |-> rest, st |-> "sent", own |-> TRUE, here |-> TRUE]

Send(cs) ==
    /\ used.sent < MaxSent /\ used.events < MaxEvents[area]
    /\ calls' = calls \cup cs
    /\ used' = [sent |-> used.sent + 1, events |-> used.events + 1]

\* A read is not an operation: it goes with the page or dialog it fills.
Read(by, i) == [Call(by, "read", i, Blank, <<>>) EXCEPT !.n = 0]

Free == {i \in Ids : srv[i] = NotYet}
HasSecret(c) == c.op \in Issues \/ (c.op = "create" /\ area \in {"scanners", "apikeys"})

\* What the server does with a request it accepts.
Takes(c) ==
    CASE c.op = "create"     -> Free # {}
      [] c.op = "make"       -> TRUE
      [] c.op = "link"       -> area = "inbox" \/ srv[c.id].live
      [] c.op = "delete"     -> srv[c.id].live /\ (area = "certs" => ~srv[c.id].on)
      [] OTHER               -> srv[c.id].live

Target(c) == IF c.op = "create" THEN CHOOSE i \in Free : \A j \in Free : i <= j ELSE c.id

Applied(c) ==
    LET i == Target(c)
        put(f) == [srv EXCEPT ![i] = f]
    IN CASE c.op \in {"read", "make", "link", "rotate", "touch"} -> srv
         [] c.op \in {"delete", "purge"} -> put(Gone)
         [] c.op = "create"  -> put([live |-> TRUE, on |-> c.val.on, cfg |-> c.val.cfg,
                                     tags |-> IF area = "group" THEN c.val.tags ELSE {}])
         [] c.op = "put"     -> put([srv[i] EXCEPT !.on = c.val.on, !.cfg = c.val.cfg])
         [] c.op = "all"     -> put([srv[i] EXCEPT !.on = c.val.on, !.cfg = c.val.cfg, !.tags = c.val.tags])
         [] c.op = "revert"  -> put([srv[i] EXCEPT !.on = FALSE, !.cfg = i])
         [] c.op = "on"      -> put([srv[i] EXCEPT !.on = c.val.on])
         [] c.op = "cfg"     -> put([srv[i] EXCEPT !.cfg = c.val.cfg])
         [] c.op = "tags"    -> put([srv[i] EXCEPT !.tags = c.val.tags])
         [] c.op = "enrol"   -> put([srv[i] EXCEPT !.on = TRUE])
         [] c.op = "unenrol" -> put([srv[i] EXCEPT !.on = FALSE])
         [] c.op = "default" -> [j \in Ids |-> IF srv[j].live THEN [srv[j] EXCEPT !.on = (j = i)]
                                                ELSE srv[j]]

Answer(c, st) == (calls \ {c}) \cup {[c EXCEPT !.st = st]}

\* The server applies a request; the answer names the row and, for the
\* operations whose answer is used, carries it.
Apply(c) ==
    /\ auth /\ c.st = "sent" /\ Takes(c)
    /\ srv' = Applied(c)
    /\ \E lost \in {FALSE, TRUE} :
        /\ IF lost THEN Event ELSE UNCHANGED used
        /\ LET i == Target(c)
               got == IF c.op \in {"read", "on", "cfg"} THEN ValOf(srv'[i]) ELSE c.val
           IN calls' = (calls \ {c}) \cup
                       {[c EXCEPT !.st = IF lost THEN "cut" ELSE "done", !.id = i, !.val = got]}
        /\ reveal' = IF HasSecret(c)
                     THEN [reveal EXCEPT !.fate[c.n] = IF lost THEN "cut" ELSE "issued"]
                     ELSE reveal
    /\ UNCHANGED <<area, nav, auth, query, pane, ledger>>

\* It refuses a request about a row that is gone or in use; any request can
\* fail on the way.
Refuse(c) ==
    /\ auth /\ c.st = "sent"
    /\ IF Takes(c) THEN Event ELSE UNCHANGED used
    /\ calls' = Answer(c, "refused")
    /\ UNCHANGED <<area, nav, server, query, pane, reveal, ledger>>

\* Somebody else, or the same user in another tab, changes a row.
OtherChanges ==
    /\ Event
    /\ \E i \in Live :
        \/ "on"   \in Columns[area] /\ srv' = [srv EXCEPT ![i].on = ~@]
        \/ "cfg"  \in Columns[area] /\ srv' = [srv EXCEPT ![i].cfg = Theirs]
        \/ "tags" \in Columns[area] /\ srv' = [srv EXCEPT ![i].tags = @ \cup {"theirs"}]
        \/ area \notin Fixed /\ srv' = [srv EXCEPT ![i] = Gone]
    /\ UNCHANGED <<area, nav, auth, query, calls, pane, reveal, ledger>>

-----------------------------------------------------------------------------
(***************************************************************************)
(* The session.                                                            *)
(***************************************************************************)
\* The token expires, or its user is disabled.
Expire ==
    /\ auth /\ Event
    /\ auth' = FALSE
    /\ UNCHANGED <<area, nav, srv, query, calls, pane, reveal, ledger>>

\* The one request that does not go through client.ts: a template's default is
\* read with a bare fetch (handleReset), which takes any failure silently.
Bare(c) == c.by \in {"reset", "left"} /\ c.op = "read"

Asking == \/ \E c \in calls : c.st = "sent" /\ ~Bare(c)
          \/ \E k \in Keys : fetch[k].st = "asked"

\* Handlers that look into the answer, and fail where there is none; the others
\* go on as after a success.  A job's Run Now may be of either kind.
UsesAnswer(c) ==
    \/ HasSecret(c) \/ c.op \in {"read", "make"}
    \/ c.op = "create" /\ c.by \notin {"netNew", "user", "tag", "category", "newGroup"}
    \/ c.by \in {"toggle", "notes", "general", "template", "notifyOn", "notifyTags", "start"}
Unanswered(c) == {IF UsesAnswer(c) THEN "refused" ELSE "done"} \cup
                 (IF c.by \in {"run", "runMenu"} THEN {"refused"} ELSE {})

\* Mutant of Denied: a 401 is only thrown to the caller.
DeniedStays ==
    /\ ~auth
    /\ \E c \in calls : c.st = "sent" /\ calls' = Answer(c, "refused")
    /\ UNCHANGED <<area, nav, server, query, pane, reveal, used, ledger>>

\* A 401 clears the token, sends the browser to the login page and resolves the
\* request with undefined, until the document is replaced.  The query library
\* takes undefined for an error and asks once more.
Denied ==
    /\ ~auth
    /\ \/ \E c \in calls, st \in {"done", "refused"} :
            /\ c.st = "sent" /\ st \in Unanswered(c)
            /\ calls' = Answer(c, st)
            /\ page' = IF Bare(c) THEN page ELSE "leaving"
       \/ /\ page # "leaving" /\ \E k \in Keys : fetch[k].st = "asked"
          /\ page' = "leaving" /\ UNCHANGED calls
    /\ UNCHANGED <<area, view, held, server, query, pane, reveal, used, ledger>>

\* Nothing of the tab's memory survives a new document.
NewDocument ==
    /\ held' = NoRows
    /\ cache' = [k \in Keys |-> NoAnswer]
    /\ fetch' = [k \in Keys |-> Idle]
    /\ calls' = {}
    /\ busy' = {} /\ sel' = NoRows /\ bulk' = NoBulk
    /\ reveal' = [on |-> 0, fate |-> [n \in DOMAIN reveal.fate |->
                    IF reveal.fate[n] \in {"issued", "shown"} THEN "left" ELSE reveal.fate[n]]]
    /\ owed' = [k \in Keys |-> 0]
    /\ UNCHANGED <<area, view, srv, used, acks, tally>>

Unload ==
    /\ page = "leaving"
    /\ page' = "login"
    /\ dlg' = [NoDlg EXCEPT !.kind = "credentials"]
    /\ NewDocument
    /\ UNCHANGED auth

\* Requests whose page is gone; a read that would have filled it matters no
\* more, unless it is about to be rejected.
Orphaned(cs) ==
    {[c EXCEPT !.here = FALSE] : c \in {d \in cs : d.n # 0 \/ (d.st = "sent" /\ ~auth)}}

\* A page unmounts: its components' state goes, its requests stay.
Unmount ==
    /\ calls' = Orphaned(calls)
    /\ busy' = {} /\ sel' = NoRows /\ bulk' = NoBulk
    /\ reveal' = IF reveal.on = 0 THEN reveal
                 ELSE [on |-> 0, fate |-> [reveal.fate EXCEPT ![reveal.on] = "left"]]
    /\ tally' = NoTally

\* handleLogout: the token goes, the page unmounts, the query cache stays.
Logout ==
    /\ ~SignedOut /\ Event
    /\ page' = "login" /\ held' = NoRows
    /\ dlg' = [NoDlg EXCEPT !.kind = "credentials"]
    /\ Unmount
    /\ UNCHANGED <<area, view, server, query, acks, owed>>

\* ProtectedRoute: a route rendered after the token's expiry date is the login
\* page.
ProtectedRoute ==
    /\ ~auth /\ page = "away"
    /\ page' = "login"
    /\ dlg' = [NoDlg EXCEPT !.kind = "credentials"]
    /\ UNCHANGED <<area, view, held, server, query, calls, busy, sel, bulk, reveal, used, ledger>>

\* handleCredentials: the password is right, and a second factor is asked for
\* or the token is kept and the dashboard opens.
Credentials ==
    /\ page = "login" /\ dlg.kind = "credentials"
    /\ \/ dlg' = [dlg EXCEPT !.kind = "totp"] /\ UNCHANGED <<page, auth>>
       \/ dlg' = NoDlg /\ page' = "away" /\ auth' = TRUE
    /\ UNCHANGED <<area, view, held, srv, query, calls, busy, sel, bulk, reveal, used, ledger>>

\* handleTOTP, cancelTOTP.
SecondFactor ==
    /\ page = "login" /\ dlg.kind = "totp"
    /\ \/ dlg' = NoDlg /\ page' = "away" /\ auth' = TRUE
       \/ dlg' = [dlg EXCEPT !.kind = "credentials"] /\ UNCHANGED <<page, auth>>
    /\ UNCHANGED <<area, view, held, srv, query, calls, busy, sel, bulk, reveal, used, ledger>>

\* AuthCallbackPage: the identity provider sends the browser back, in a new
\* document, with the token.
AuthCallback ==
    /\ page = "login"
    /\ page' = "away"
    /\ dlg' = NoDlg
    /\ auth' = TRUE
    /\ NewDocument

\* A route of the area is opened from elsewhere, or left.
Mount(p, k) ==
    /\ page = "away"
    /\ page' = p /\ held' = NoRows
    /\ Observe(k)
    /\ UNCHANGED <<area, server, cache, calls, pane, reveal, used, ledger>>

Leave ==
    /\ Mounted /\ Event
    /\ page' = "away" /\ held' = NoRows
    /\ dlg' = NoDlg
    /\ Unmount
    /\ UNCHANGED <<area, view, server, query, acks, owed>>

\* Another key comes into view: the page before it stays on display until it
\* has rows, and rows it already has go through the page's effect.
Turn(k, selection) ==
    /\ k # view /\ Event
    /\ Observe(k)
    /\ held' = Shown
    /\ sel' = IF cache[k].have THEN selection ELSE sel
    /\ UNCHANGED <<area, page, server, cache, calls, dlg, busy, bulk, reveal, ledger>>

-----------------------------------------------------------------------------
(***************************************************************************)
(* Dialogs.  A kind names a component; its loading flag outlives the       *)
(* dialog's closing, unless the component is remounted or resets itself    *)
(* when it opens.                                                          *)
(***************************************************************************)
Flag(kind) == <<kind, 0>>
Busy(kind) == Flag(kind) \in busy

Open(kind, i, v) ==
    /\ dlg.kind = "none"
    /\ dlg' = Form(kind, i, v)
    /\ UNCHANGED <<area, nav, server, query, calls, busy, sel, bulk, reveal, used, ledger>>

\* The same for a component that is keyed by what it is opened for: its flag
\* is a new one, and an answer to the old one's request leaves it alone.
OpenAfresh(kind, i, v) ==
    /\ dlg.kind = "none"
    /\ dlg' = Form(kind, i, v)
    /\ busy' = busy \ {Flag(kind)}
    /\ calls' = {IF c.by = kind THEN [c EXCEPT !.own = FALSE] ELSE c : c \in calls}
    /\ UNCHANGED <<area, nav, server, query, sel, bulk, reveal, used, ledger>>

\* And for one that clears its flag when it opens.
OpenReset(kind, i, v) ==
    /\ dlg.kind = "none"
    /\ dlg' = Form(kind, i, v)
    /\ busy' = busy \ {Flag(kind)}
    /\ UNCHANGED <<area, nav, server, query, calls, sel, bulk, reveal, used, ledger>>

\* The user edits a field of the open form, once.
Type(kind, f) ==
    /\ dlg.kind = kind /\ f \notin dlg.typed
    /\ \E v \in {[dlg.val EXCEPT !.on = ~@], [dlg.val EXCEPT !.cfg = Mine],
                 [dlg.val EXCEPT !.tags = @ \cup {"mine"}], [dlg.val EXCEPT !.tags = @ \ {"own"}]} :
        /\ v # dlg.val
        /\ \A g \in Fields \ {f} : v[g] = dlg.val[g]
        /\ dlg' = [dlg EXCEPT !.val = v, !.typed = @ \cup {f}]
    /\ UNCHANGED <<area, nav, server, query, calls, busy, sel, bulk, reveal, used, ledger>>

Edit(kind, fields) == \E f \in fields : Type(kind, f)

Close(kind) ==
    /\ dlg.kind = kind
    /\ dlg' = NoDlg
    /\ UNCHANGED <<area, nav, server, query, calls, busy, sel, bulk, reveal, used, ledger>>

Submit(kind, cs) ==
    /\ dlg.kind = kind /\ ~Busy(kind) /\ reveal.on = 0
    /\ Send(cs)
    /\ busy' = busy \cup {Flag(kind)}
    /\ UNCHANGED <<area, nav, server, query, dlg, sel, bulk, reveal, ledger>>

\* A row's menu or switch sends a request without a dialog.
Press(kind, cs) ==
    /\ dlg.kind = "none"
    /\ Send(cs)
    /\ busy' = busy \cup {Flag(kind)}
    /\ UNCHANGED <<area, nav, server, query, dlg, sel, bulk, reveal, ledger>>

\* The answer to a component's request: its flag clears, and a dialog of
\* that kind closes, whichever row it is open for by now.
Finish(c) ==
    /\ calls' = calls \ {c}
    /\ busy' = IF c.here /\ c.own THEN busy \ {Flag(c.by)} ELSE busy
    /\ dlg' = IF c.here /\ dlg.kind = c.by THEN NoDlg ELSE dlg

\* An error is shown and the dialog stays.
Fail(c) ==
    /\ c.st \in {"refused", "cut"}
    /\ calls' = calls \ {c}
    /\ busy' = IF c.here /\ c.own THEN busy \ {Flag(c.by)} ELSE busy
    /\ tally' = [tally EXCEPT !.errs = IF c.here /\ page = "form" THEN @ + 1 ELSE @]
    /\ UNCHANGED <<area, nav, server, query, dlg, sel, bulk, reveal, used, acks, owed>>

\* onSaved / onDeleted = refetch, then onClose; refetch works from a page
\* that is gone, and without a token it ends at the login page.
RefetchAfter(c) ==
    /\ Finish(c)
    /\ IF page = "login"
       THEN page' = "leaving" /\ OweNothing /\ UNCHANGED fetch
       ELSE page' = page /\ Owe({view}) /\ fetch' = Refetch(view)
    /\ UNCHANGED <<area, view, held, server, cache, sel, bulk, reveal, used, tally>>

FinishAndRefetch(c) == c.st = "done" /\ RefetchAfter(c)

\* Mutant of FinishAndInvalidate: the rows are marked, a fetch in flight is
\* dropped and nothing is asked.
FinishAndMark(c) ==
    /\ c.st = "done"
    /\ Finish(c)
    /\ cache' = Invalidate
    /\ fetch' = IF cache[view].have THEN [fetch EXCEPT ![view] = Idle] ELSE fetch
    /\ Owe(Reached)
    /\ UNCHANGED <<area, nav, server, sel, bulk, reveal, used, tally>>

\* The same with invalidateQueries.
FinishAndInvalidate(c) ==
    /\ c.st = "done"
    /\ Finish(c)
    /\ cache' = Invalidate
    /\ fetch' = IF Watched(view) THEN Refetch(view) ELSE fetch
    /\ Owe(Reached)
    /\ UNCHANGED <<area, nav, server, sel, bulk, reveal, used, tally>>

\* Nothing the list shows has changed.
FinishOnly(c) ==
    /\ c.st = "done"
    /\ Finish(c)
    /\ UNCHANGED <<area, nav, server, query, sel, bulk, reveal, used, ledger>>

=============================================================================
