-------------------------------- MODULE Web ---------------------------------
(***************************************************************************)
(* The web interface: the pages of WebLists, WebForms and WebAdmin over    *)
(* the tab of WebTab, and what they promise.                               *)
(***************************************************************************)
EXTENDS WebLists, WebForms, WebAdmin

Stock == IF area \in {"endpoints", "certs", "inbox", "users", "templates"} THEN {1, 2} ELSE {1}
OnAtFirst(i) ==
    CASE area = "certs"     -> {i = 1}
      [] area = "twofa"     -> BOOLEAN
      [] area \in {"templates", "scanners"} -> {FALSE}
      [] OTHER              -> {TRUE}

Init ==
    /\ area \in Areas
    /\ page = "away" /\ view = "all" /\ held = NoRows
    /\ auth = TRUE
    /\ \E on \in [Stock -> BOOLEAN] :
        /\ \A i \in Stock : on[i] \in OnAtFirst(i)
        /\ srv = [i \in Ids |->
                    IF i \in Stock
                    THEN [live |-> TRUE, on |-> on[i], cfg |-> i,
                          tags |-> IF "tags" \in Columns[area] THEN {"own"} ELSE {}]
                    ELSE NotYet]
    /\ cache = [k \in Keys |-> NoAnswer] /\ fetch = [k \in Keys |-> Idle]
    /\ calls = {} /\ dlg = NoDlg /\ busy = {} /\ sel = NoRows /\ bulk = NoBulk
    /\ reveal = [on |-> 0, fate |-> [n \in 1..MaxSent |-> "none"]]
    /\ used = [sent |-> 0, events |-> 0]
    /\ acks = 0 /\ owed = [k \in Keys |-> 0] /\ tally = NoTally

-----------------------------------------------------------------------------
\* What the mounted page does with new rows.  Rows equal to the cached ones
\* are the cached ones, and run no effect.
SelectionAfter(k) ==
    LET rows == fetch[k].rows
        same == cache[k].have /\ cache[k].rows = rows
    IN IF k # view \/ ~Mounted THEN sel
       ELSE CASE area = "endpoints"                           -> RefreshSelected(rows)
              [] area = "certs"                               -> RefreshSelectedCerts(rows)
              [] area \in {"apikeys", "templates"} /\ ~same   -> rows
              [] OTHER                                        -> sel

DialogsAfter(k) ==
    LET rows == fetch[k].rows
    IN IF ~Mounted THEN {dlg}
       ELSE CASE area = "endpoint"  -> {NotesEffect(dlg, rows)}
              [] area = "mail"      -> {MailLoaded(rows)}
              [] area = "group"     -> {GroupLoaded(rows)}
              [] area = "notify"    -> {NotifyLoaded(k, rows)}
              [] area = "templates" -> {TemplatesLoaded(rows)}
              [] area = "tags"      -> {TagDialogEffect}
              [] area = "jobs"      -> JobDialogEffects(rows)
              [] OTHER              -> {dlg}

Deliver(k) == \E d \in DialogsAfter(k) : Answered(k, SelectionAfter(k), d)

Respond == \/ \E k \in Keys : Serve(k)
           \/ \E c \in calls : Apply(c) \/ Refuse(c)

Session == \/ Expire \/ Denied \/ Unload \/ ProtectedRoute
           \/ Logout \/ Credentials \/ SecondFactor \/ AuthCallback

Pages == \/ EndpointsNext \/ CertsNext \/ InboxNext
         \/ EndpointNext \/ FormNext \/ SettingsNext \/ NotifyNext \/ TemplatesNext
         \/ NetworksNext \/ UsersNext \/ ScannersNext \/ TwoFactorNext \/ KeysNext
         \/ TagsNext \/ JobsNext \/ DismissSecret \/ Leave

Next == \/ Session \/ Pages \/ Respond \/ Focus \/ OtherChanges
        \/ \E k \in Keys : Deliver(k) \/ FetchFails(k)

\* The server answers the query on display, the browser delivers the answer
\* and follows a redirection; nothing is asked of the user.
Fairness ==
    /\ WF_vars(Serve(view))
    /\ WF_vars(Deliver(view))
    /\ WF_vars(Denied)
    /\ WF_vars(Unload)

Spec == Init /\ [][Next]_vars /\ Fairness

-----------------------------------------------------------------------------
Fates == {"none", "issued", "cut", "shown", "replaced", "dismissed", "left", "followup"}
IsRows(f) == DOMAIN f \subseteq Ids /\ \A i \in DOMAIN f : f[i] \in Row

\* Every variable keeps its shape; in particular a write carries a set of tags
\* and a value the forms can hold (BulkTagEndpointsDialog's union included).
WebTypeOK ==
    /\ area \in Areas /\ page \in {"away", "list", "detail", "form", "login", "leaving"}
    /\ view \in Keys /\ IsRows(held) /\ auth \in BOOLEAN
    /\ srv \in [Ids -> Row]
    /\ \A k \in Keys : /\ cache[k].have \in BOOLEAN /\ cache[k].inv \in BOOLEAN
                       /\ IsRows(cache[k].rows) /\ cache[k].at \in 0..acks
                       /\ fetch[k].st \in {"idle", "asked", "served"}
                       /\ IsRows(fetch[k].rows) /\ fetch[k].at \in 0..acks
    /\ \A c \in calls : /\ c.op \in Ops /\ c.id \in Ids \cup {0} /\ c.val \in Val
                        /\ c.st \in {"sent", "done", "refused", "cut"}
    /\ dlg.id \in Ids \cup {0} /\ dlg.val \in Val /\ dlg.base \in Val /\ dlg.typed \subseteq Fields
    /\ IsRows(sel) /\ bulk.ids \subseteq Ids /\ bulk.failed \subseteq bulk.ids
    /\ reveal.on \in 0..MaxSent /\ \A n \in 1..MaxSent : reveal.fate[n] \in Fates
    /\ used.sent \in 0..MaxSent /\ used.events \in 0..MaxEvents[area]
    /\ \A k \in Keys : owed[k] \in 0..acks

\* A list that is on display and older than a write its page reported as done
\* is about to be replaced: it is marked out of date, its query has not been
\* served yet, or was served after the write (refetch and invalidateQueries in
\* the pages' onSaved and onDeleted callbacks, whatever closed, opened or
\* answered in between).
StaleRowsAreRefetched ==
    \A k \in Keys :
        cache[k].have /\ owed[k] > cache[k].at =>
            \/ cache[k].inv
            \/ fetch[k].st = "asked"
            \/ fetch[k].st = "served" /\ fetch[k].at >= owed[k]

\* A write after which the page asks for its list again (refetch and
\* invalidateQueries in onSaved, onDeleted, onDone) ends up on the screen: unless
\* the user leaves the list or the query fails, its rows come to include it.  The
\* pages that do not ask again (EndpointFormPage after a save, MailConfigPage) are
\* outside this.
RefetchedWriteIsShown ==
    (Watched(view) /\ owed[view] > 0) ~> (~Watched(view) \/ owed[view] = 0)

\* The bulk dialogs act on the rows the user sees: a selected row that is on
\* the page is the row of the page (the effects of EndpointPage and
\* CertificatesPage that refresh the selection).
SelectionMatchesPage ==
    area \in {"endpoints", "certs"} /\ page = "list" /\ cache[view].have =>
        \A i \in DOMAIN sel \cap DOMAIN cache[view].rows : sel[i] = cache[view].rows[i]

\* What a bulk delete's summary does not list as failed is gone, as long as no
\* request was rejected for its token.  A rejected one resolves like a success
\* (client.ts, request), so the summary can call a live row deleted until the
\* document is replaced by the login page.
DeletedMeansGone ==
    dlg.kind \in {"bulkDelete", "bulkDeleteCerts"} /\ bulk.phase = "summary" /\ page # "leaving" =>
        \A i \in bulk.ids \ bulk.failed : ~srv[i].live

\* No form writes one row's values to another row, however its dialog was
\* reused, remounted or overtaken by a late answer.
WritesComeFromTheirRow ==
    \A c \in calls : c.op \in {"put", "all", "cfg"} /\ c.val.cfg \in Ids => c.val.cfg = c.id

\* A secret the server has issued is on its way, on display, or has been: it
\* is lost only with the answer or the page that carried it, to a second one
\* answered in its place, or when the request after it failed.
IssuedSecretsAreShown ==
    \A n \in 1..MaxSent :
        /\ reveal.fate[n] = "issued" => \E c \in calls : c.n = n
        /\ reveal.fate[n] = "shown"  => reveal.on = n
        /\ reveal.fate[n] = "followup" => area = "scanners"

\* EndpointFormPage makes a second record only after it reported a failure.
OneRecordPerCleanSave == tally.made <= 1 + tally.errs

\* Once the server rejects the token, a tab with a request of client.ts on its
\* way ends up on the login page, unless something else happens first: a query
\* fails or the user leaves.  The bare fetch of a template's default (Bare) asks
\* outside client.ts and takes nobody to the login page.
RejectedReachesLogin ==
    \A e \in 1..3 :
        (~auth /\ Mounted /\ Asking /\ used.events = e) ~> (page = "login" \/ used.events > e)

=============================================================================
