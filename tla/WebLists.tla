------------------------------ MODULE WebLists ------------------------------
(***************************************************************************)
(* The list pages one selects in and works through: endpoints              *)
(* (EndpointPage and its dialogs), certificates (CertificatesPage and its  *)
(* dialogs) and the discovery inbox (DiscoveryInboxPage).                  *)
(***************************************************************************)
EXTENDS WebTab

-----------------------------------------------------------------------------
(***************************************************************************)
(* Selection: a map from id to the row as it was listed when it was last   *)
(* on the page, so that the bulk dialogs know rows of other pages.         *)
(***************************************************************************)
Restricted(f, S) == [i \in S |-> f[i]]
Merged(f, g)     == [i \in DOMAIN f \cup DOMAIN g |-> IF i \in DOMAIN g THEN g[i] ELSE f[i]]

\* Mutant of Refreshed: no effect.
NotRefreshed(s, rows) == s

\* The effect on new rows: a selected row that is on the page is replaced.
Refreshed(s, rows) == [i \in DOMAIN s |-> IF i \in DOMAIN rows THEN rows[i] ELSE s[i]]

RefreshSelected(rows)     == Refreshed(sel, rows)
RefreshSelectedCerts(rows) == Refreshed(sel, rows)

Picked(S) ==
    IF S \subseteq DOMAIN sel THEN Restricted(sel, DOMAIN sel \ S)
    ELSE Merged(sel, Restricted(Shown, S))

Select(S) ==
    /\ sel' = Picked(S)
    /\ UNCHANGED <<area, nav, server, query, calls, dlg, busy, bulk, reveal, used, ledger>>

-----------------------------------------------------------------------------
(***************************************************************************)
(* Bulk dialogs: one request per selected row, all at once, then a summary *)
(* of what failed; closing the summary clears the selection and refetches. *)
(***************************************************************************)
BulkOpen(kind) ==
    /\ sel # NoRows
    /\ dlg' = [NoDlg EXCEPT !.kind = kind]
    /\ bulk' = [NoBulk EXCEPT !.phase = "confirm"]
    /\ UNCHANGED <<area, nav, server, query, calls, busy, sel, reveal, used, ledger>>

AllBlank == [i \in DOMAIN sel |-> Blank]

BulkRun(kind, op, val) ==
    /\ dlg.kind = kind /\ bulk.phase = "confirm"
    /\ Send({Call(kind, op, i, val[i], <<>>) : i \in DOMAIN sel})
    /\ bulk' = [phase |-> "running", ids |-> DOMAIN sel, failed |-> {}]
    /\ UNCHANGED <<area, nav, server, query, dlg, busy, sel, reveal, ledger>>

AnswersDue(c) == \E d \in calls \ {c} : d.by = c.by /\ d.here

\* Mutant of BulkSettle: results are kept outside the dialog.
BulkSettleAnywhere(c) ==
    /\ c.st # "sent"
    /\ calls' = calls \ {c}
    /\ bulk' = [bulk EXCEPT !.failed = IF c.st = "done" THEN @ ELSE @ \cup {c.id},
                            !.phase = IF AnswersDue(c) THEN "running" ELSE "summary"]
    /\ UNCHANGED <<area, nav, server, query, dlg, busy, sel, reveal, used, ledger>>

\* Mutant of BulkSettle: rejections are not looked at.
BulkSettleTrusting(c) ==
    /\ c.st # "sent"
    /\ calls' = calls \ {c}
    /\ bulk' = IF ~c.here THEN bulk
               ELSE [bulk EXCEPT !.phase = IF AnswersDue(c) THEN "running" ELSE "summary"]
    /\ UNCHANGED <<area, nav, server, query, dlg, busy, sel, reveal, used, ledger>>

\* Promise.allSettled: the summary waits for every answer.
BulkSettle(c) ==
    /\ c.st # "sent"
    /\ calls' = calls \ {c}
    /\ bulk' = IF ~c.here THEN bulk
               ELSE [bulk EXCEPT !.failed = IF c.st = "done" THEN @ ELSE @ \cup {c.id},
                                !.phase = IF AnswersDue(c) THEN "running" ELSE "summary"]
    /\ UNCHANGED <<area, nav, server, query, dlg, busy, sel, reveal, used, ledger>>

BulkClose(kind) ==
    /\ dlg.kind = kind /\ bulk.phase # "running"
    /\ dlg' = NoDlg /\ bulk' = NoBulk
    /\ IF bulk.phase = "summary"
       THEN sel' = NoRows /\ fetch' = Refetch(view) /\ Owe({view})
       ELSE UNCHANGED sel /\ UNCHANGED fetch /\ OweNothing
    /\ UNCHANGED <<area, nav, server, cache, calls, busy, reveal, used, tally>>

-----------------------------------------------------------------------------
(***************************************************************************)
(* EndpointPage.                                                           *)
(***************************************************************************)
EndpointPage == area = "endpoints" /\ Mount("list", "p1")

\* The table: the rows of the key in view, or the previous one's.
EndpointRows == IF On("endpoints", "list") THEN Shown ELSE NoRows

\* A row (or, on a phone, a card) with its checkbox and its menu.
EndpointRow(i) == Clear("endpoints") /\ i \in DOMAIN EndpointRows

ToggleOne(i) == EndpointRow(i) /\ Select({i})

ToggleAll ==
    /\ Clear("endpoints") /\ EndpointRows # NoRows
    /\ Select(DOMAIN EndpointRows)

ClearSelection ==
    /\ Clear("endpoints") /\ sel # NoRows
    /\ sel' = NoRows
    /\ UNCHANGED <<area, nav, server, query, calls, dlg, busy, bulk, reveal, used, ledger>>

\* Prev and Next; the count that enables Next comes with the rows.
EndpointPager ==
    /\ Clear("endpoints")
    /\ \/ view = "p1" /\ Turn("p2", RefreshSelected(cache["p2"].rows))
       \/ view = "p2" /\ Turn("p1", RefreshSelected(cache["p1"].rows))

\* A stat card, a filter or a chip sets a filter or clears it: first page.
EndpointFilter ==
    /\ Clear("endpoints")
    /\ \/ view # "on" /\ Turn("on", RefreshSelected(cache["on"].rows))
       \/ view = "on" /\ Turn("p1", RefreshSelected(cache["p1"].rows))

\* Another type's list and back: filters, page and selection start over.
TypeSwitch ==
    /\ Clear("endpoints") /\ Event
    /\ Observe("p1")
    /\ held' = NoRows
    /\ sel' = NoRows
    /\ UNCHANGED <<area, page, server, cache, calls, dlg, busy, bulk, reveal, ledger>>

\* Mutant of DeleteEndpointSettles: nothing is fetched again.
DeleteEndpointSettlesUnseen(c) ==
    /\ c.by = "deleteEndpoint"
    /\ Fail(c) \/ (/\ c.st = "done" /\ Finish(c) /\ Owe({view})
                   /\ UNCHANGED <<area, nav, server, query, sel, bulk, reveal, used, tally>>)

\* DeleteEndpointDialog: Esc closes it even while the request is out.
DeleteEndpointOpen(i) == EndpointRow(i) /\ Open("deleteEndpoint", i, Blank)
DeleteEndpoint ==
    Submit("deleteEndpoint", {Call("deleteEndpoint", "delete", dlg.id, Blank, <<>>)})
DeleteEndpointSettles(c) ==
    /\ c.by = "deleteEndpoint"
    /\ FinishAndRefetch(c) \/ Fail(c)

\* BulkDeleteEndpointsDialog.
BulkDeleteOpen    == Clear("endpoints") /\ BulkOpen("bulkDelete")
BulkDeleteConfirm == BulkRun("bulkDelete", "delete", AllBlank)
BulkDeleteSettles(c) == c.by = "bulkDelete" /\ BulkSettle(c)

\* BulkTagEndpointsDialog: every request carries the row's tags as they were
\* listed and the picked ones.
BulkTagOpen == Clear("endpoints") /\ BulkOpen("bulkTag")
BulkTagPick ==
    /\ dlg.kind = "bulkTag" /\ bulk.phase = "confirm" /\ dlg.typed = {}
    /\ \E tag \in {"mine", "theirs"} :
          dlg' = [dlg EXCEPT !.val.tags = {tag}, !.typed = {"tags"}]
    /\ UNCHANGED <<area, nav, server, query, calls, busy, sel, bulk, reveal, used, ledger>>
UnionOfTags == [i \in DOMAIN sel |-> [Blank EXCEPT !.tags = sel[i].tags \cup dlg.val.tags]]
BulkTagConfirm ==
    /\ dlg.val.tags # {}
    /\ BulkRun("bulkTag", "tags", UnionOfTags)
BulkTagSettles(c) == c.by = "bulkTag" /\ BulkSettle(c)

EndpointBulkDone == \E kind \in {"bulkDelete", "bulkTag"} :
                        area = "endpoints" /\ BulkClose(kind)

\* BulkImportDialog: upload, preview and results; Esc and Back work while the
\* import is out, and its answer turns up whatever the dialog shows then.
ImportOpen == Clear("endpoints") /\ Open("import", 0, Blank)

InResults   == Busy("results")
ImportFlags == {Flag("preview"), Flag("import"), Flag("results")}

\* parseCSV found rows, and the preview shows them.
ImportPreview ==
    /\ dlg.kind = "import" /\ ~InResults /\ ~Busy("preview")
    /\ busy' = busy \cup {Flag("preview")}
    /\ UNCHANGED <<area, nav, server, query, calls, dlg, sel, bulk, reveal, used, ledger>>

ImportConfirm ==
    /\ dlg.kind = "import" /\ Busy("preview") /\ ~Busy("import")
    /\ Send({Call("import", "create", 0, [Blank EXCEPT !.cfg = Mine], <<>>)})
    /\ busy' = busy \cup {Flag("import")}
    /\ UNCHANGED <<area, nav, server, query, dlg, sel, bulk, reveal, ledger>>

ImportSettles(c) ==
    /\ c.by = "import" /\ c.st # "sent"
    /\ calls' = calls \ {c}
    /\ busy' = IF ~c.here THEN busy
               ELSE IF c.st = "done" THEN (busy \ ImportFlags) \cup {Flag("results")}
               ELSE busy \ {Flag("import")}
    /\ UNCHANGED <<area, nav, server, query, dlg, sel, bulk, reveal, used, ledger>>

\* Back, which stays in the dialog, or closing it; only closing the results
\* refetches.
ImportBack ==
    /\ dlg.kind = "import" /\ Busy("preview")
    /\ busy' = busy \ ImportFlags
    /\ UNCHANGED <<area, nav, server, query, calls, dlg, sel, bulk, reveal, used, ledger>>

ImportClose ==
    /\ dlg.kind = "import"
    /\ dlg' = NoDlg
    /\ busy' = busy \ ImportFlags
    /\ IF InResults THEN fetch' = Refetch(view) /\ Owe({view})
       ELSE UNCHANGED fetch /\ OweNothing
    /\ UNCHANGED <<area, nav, server, cache, calls, sel, bulk, reveal, used, tally>>

EndpointsNext ==
    \/ EndpointPage \/ EndpointPager \/ EndpointFilter \/ TypeSwitch
    \/ \E i \in Ids : ToggleOne(i) \/ DeleteEndpointOpen(i)
    \/ ToggleAll \/ ClearSelection
    \/ DeleteEndpoint \/ Close("deleteEndpoint")
    \/ BulkDeleteOpen \/ BulkDeleteConfirm
    \/ BulkTagOpen \/ BulkTagPick \/ BulkTagConfirm \/ EndpointBulkDone
    \/ ImportOpen \/ ImportPreview \/ ImportConfirm \/ ImportBack \/ ImportClose
    \/ \E c \in calls : \/ DeleteEndpointSettles(c) \/ BulkDeleteSettles(c)
                        \/ BulkTagSettles(c) \/ ImportSettles(c)

-----------------------------------------------------------------------------
(***************************************************************************)
(* CertificatesPage.                                                       *)
(***************************************************************************)
CertificatesPage == area = "certs" /\ Mount("list", "p1")
CertRows   == IF On("certs", "list") THEN Shown ELSE NoRows
CertRow(i) == Clear("certs") /\ i \in DOMAIN CertRows

ToggleOneCert(i) == CertRow(i) /\ Select({i})
ToggleAllCerts   == Clear("certs") /\ CertRows # NoRows /\ Select(DOMAIN CertRows)

CertPager ==
    /\ Clear("certs")
    /\ \/ view = "p1" /\ Turn("p2", RefreshSelectedCerts(cache["p2"].rows))
       \/ view = "p2" /\ Turn("p1", RefreshSelectedCerts(cache["p1"].rows))

\* A stat card or the status filter, set or cleared: first page.  Certificate 1
\* is the one that passes it.
CertFilter ==
    /\ Clear("certs")
    /\ \/ view # "detail" /\ Turn("detail", RefreshSelectedCerts(cache["detail"].rows))
       \/ view = "detail" /\ Turn("p1", RefreshSelectedCerts(cache["p1"].rows))

\* DeleteCertificateDialog first asks what still refers to the certificate
\* (refs); Delete waits for the answer, and for the box to be ticked when
\* there are references, but not for a request that failed.
DeleteCertOpen(i) ==
    /\ CertRow(i)
    /\ dlg' = Form("deleteCert", i, [Blank EXCEPT !.on = FALSE])
    /\ calls' = {c \in calls : c.by # "refs"} \cup {Read("refs", i)}
    /\ UNCHANGED <<area, nav, server, query, busy, sel, bulk, reveal, used, ledger>>

CertReferences(c) ==
    /\ c.by = "refs" /\ c.st # "sent"
    /\ calls' = calls \ {c}
    /\ dlg' = IF c.st = "done" /\ c.here /\ dlg.kind = "deleteCert" /\ dlg.id = c.id
              THEN [dlg EXCEPT !.val.on = c.val.on] ELSE dlg
    /\ UNCHANGED <<area, nav, server, query, busy, sel, bulk, reveal, used, ledger>>

HasBlockingRefs == dlg.val.on

PurgeTick ==
    /\ dlg.kind = "deleteCert" /\ HasBlockingRefs /\ ~Busy("deleteCert")
    /\ dlg' = [dlg EXCEPT !.typed = IF @ = {} THEN {"on"} ELSE {}]
    /\ UNCHANGED <<area, nav, server, query, calls, busy, sel, bulk, reveal, used, ledger>>

DeleteCertificate ==
    /\ ~\E c \in calls : c.by = "refs" /\ c.id = dlg.id /\ c.here
    /\ HasBlockingRefs => dlg.typed # {}
    /\ Submit("deleteCert", {Call("deleteCert", IF HasBlockingRefs THEN "purge" ELSE "delete",
                                  dlg.id, Blank, <<>>)})
DeleteCertSettles(c) ==
    /\ c.by = "deleteCert"
    /\ FinishAndRefetch(c) \/ Fail(c)

\* BulkDeleteCertificatesDialog, with its purge box.
BulkDeleteCertsOpen == Clear("certs") /\ BulkOpen("bulkDeleteCerts")
BulkPurgeTick ==
    /\ dlg.kind = "bulkDeleteCerts" /\ bulk.phase = "confirm"
    /\ dlg' = [dlg EXCEPT !.typed = IF @ = {} THEN {"on"} ELSE {}]
    /\ UNCHANGED <<area, nav, server, query, calls, busy, sel, bulk, reveal, used, ledger>>
BulkDeleteCertsConfirm ==
    BulkRun("bulkDeleteCerts", IF dlg.typed = {} THEN "delete" ELSE "purge", AllBlank)
BulkDeleteCertsSettles(c) == c.by = "bulkDeleteCerts" /\ BulkSettle(c)

CertBulkDone == area = "certs" /\ BulkClose("bulkDeleteCerts")

\* IngestDialog: the new certificate's page opens.
IngestOpen == Clear("certs") /\ Open("ingest", 0, Blank)
IngestType == Type("ingest", "cfg")
IngestSubmit ==
    /\ dlg.val.cfg # Empty
    /\ Submit("ingest", {Call("ingest", "create", 0, [dlg.val EXCEPT !.on = FALSE], <<>>)})
IngestSettles(c) ==
    /\ c.by = "ingest"
    /\ \/ Fail(c)
       \/ /\ c.st = "done"
          /\ IF SignedOut
             THEN calls' = calls \ {c} /\ UNCHANGED <<nav, pane, tally>>
             ELSE /\ page' = "away" /\ held' = NoRows /\ dlg' = NoDlg /\ UNCHANGED view
                  /\ calls' = Orphaned(calls \ {c})
                  /\ busy' = {} /\ sel' = NoRows /\ bulk' = NoBulk
                  /\ tally' = NoTally
          /\ UNCHANGED <<area, server, query, reveal, used, acks, owed>>

CertsNext ==
    \/ CertificatesPage \/ CertPager \/ CertFilter \/ ToggleAllCerts
    \/ \E i \in Ids : ToggleOneCert(i) \/ DeleteCertOpen(i)
    \/ PurgeTick \/ DeleteCertificate \/ Close("deleteCert")
    \/ BulkDeleteCertsOpen \/ BulkPurgeTick \/ BulkDeleteCertsConfirm \/ CertBulkDone
    \/ IngestOpen \/ IngestType \/ IngestSubmit \/ Close("ingest")
    \/ \E c \in calls : \/ CertReferences(c) \/ DeleteCertSettles(c)
                        \/ BulkDeleteCertsSettles(c) \/ IngestSettles(c)

-----------------------------------------------------------------------------
(***************************************************************************)
(* DiscoveryInboxPage: the new findings, or the dismissed ones too.        *)
(***************************************************************************)
DiscoveryInboxPage == area = "inbox" /\ Mount("list", "on")
InboxRows   == IF On("inbox", "list") THEN Shown ELSE NoRows
InboxRow(i) == Clear("inbox") /\ i \in DOMAIN InboxRows

ShowDismissed ==
    /\ Clear("inbox")
    /\ \/ view = "on"  /\ Turn("all", sel)
       \/ view = "all" /\ Turn("on", sel)

\* A dismissed finding can only be deleted.
InboxActionsMenu(i) == InboxRow(i) /\ InboxRows[i].on

\* handleDismiss: one slot says which row is being dismissed.
Dismissing == {b \in busy : b[1] = "dismiss"}
Dismiss(i) ==
    /\ InboxActionsMenu(i)
    /\ <<"dismiss", i>> \notin busy
    /\ Send({Call("dismiss", "on", i, [Blank EXCEPT !.on = FALSE], <<>>)})
    /\ busy' = (busy \ Dismissing) \cup {<<"dismiss", i>>}
    /\ UNCHANGED <<area, nav, server, query, dlg, sel, bulk, reveal, ledger>>

DismissSettles(c) ==
    /\ c.by = "dismiss" /\ c.st # "sent"
    /\ calls' = calls \ {c}
    /\ busy' = IF c.here THEN busy \ Dismissing ELSE busy
    /\ IF c.st = "done"
       THEN /\ cache' = Invalidate
            /\ fetch' = IF On("inbox", "list") THEN Refetch(view) ELSE fetch
            /\ Owe(Reached)
       ELSE UNCHANGED query /\ OweNothing
    /\ UNCHANGED <<area, nav, server, dlg, sel, bulk, reveal, used, tally>>

InboxDeleteOpen(i) == InboxRow(i) /\ Open("deleteFinding", i, Blank)
InboxDelete ==
    Submit("deleteFinding", {Call("deleteFinding", "delete", dlg.id, Blank, <<>>)})
InboxDeleteSettles(c) ==
    /\ c.by = "deleteFinding"
    /\ FinishAndInvalidate(c) \/ Fail(c)

\* Add as Endpoint: the endpoint form opens on the finding (WebForms saves it).
Promote(i) ==
    /\ InboxActionsMenu(i)
    /\ page' = "form" /\ held' = NoRows
    /\ dlg' = Form("loading", i, Blank)
    /\ calls' = Orphaned(calls) \cup {Read("promote", i)}
    /\ busy' = {}
    /\ tally' = NoTally
    /\ UNCHANGED <<area, view, server, query, sel, bulk, reveal, used, acks, owed>>

InboxNext ==
    \/ DiscoveryInboxPage \/ ShowDismissed
    \/ \E i \in Ids : Dismiss(i) \/ InboxDeleteOpen(i) \/ Promote(i)
    \/ InboxDelete \/ Close("deleteFinding")
    \/ \E c \in calls : DismissSettles(c) \/ InboxDeleteSettles(c)

=============================================================================
