------------------------------ MODULE WebForms ------------------------------
(***************************************************************************)
(* The pages one edits a single record in: an endpoint's detail and form   *)
(* pages, and the forms of mail, general settings, notifications,          *)
(* notification templates and groups.                                      *)
(***************************************************************************)
EXTENDS WebTab

ValIn(rows) == IF 1 \in DOMAIN rows THEN ValOf(rows[1]) ELSE Blank

-----------------------------------------------------------------------------
(***************************************************************************)
(* EndpointDetailPage and what its three layouts share.                    *)
(***************************************************************************)
EndpointDetailPage == area = "endpoint" /\ Mount("detail", "detail")
DetailRows == IF On("endpoint", "detail") /\ cache["detail"].have
              THEN cache["detail"].rows ELSE NoRows
Detail     == DetailRows[1]
HasDetail  == 1 \in DOMAIN DetailRows

\* A PATCH answer becomes the cached endpoint, in the order of arrival; an
\* open notes dialog starts over when the notes change under it.
NotesEffect(d, rows) ==
    IF d.kind = "notes" /\ 1 \in DOMAIN rows /\ HasDetail /\ rows[1].cfg # Detail.cfg
    THEN Form("notes", 1, ValOf(rows[1])) ELSE d
Updated(c) == [i \in {1} |-> [live |-> TRUE, on |-> c.val.on, cfg |-> c.val.cfg, tags |-> c.val.tags]]
SetQueryData(c) == [cache EXCEPT !["detail"] = [have |-> TRUE, rows |-> Updated(c),
                                                inv |-> FALSE, at |-> acks]]

\* MonitoringRows: the switch sends the opposite of what it shows.
ToggleEnabled ==
    /\ HasDetail
    /\ Press("toggle", {Call("toggle", "on", 1, [Blank EXCEPT !.on = ~Detail.on], <<>>)})
ToggleSettles(c) ==
    /\ c.by = "toggle" /\ c.st # "sent"
    /\ calls' = calls \ {c}
    /\ busy' = busy \ {Flag("toggle")}
    /\ cache' = IF c.st = "done" THEN SetQueryData(c) ELSE cache
    /\ dlg' = IF c.st = "done" THEN NotesEffect(dlg, Updated(c)) ELSE dlg
    /\ UNCHANGED <<area, nav, server, fetch, sel, bulk, reveal, used, ledger>>

\* NotesEditDialog: it cannot be closed while the request is out.
NotesOpen  == HasDetail /\ Open("notes", 1, ValOf(Detail))
NotesType  == Type("notes", "cfg")
NotesSave  == Submit("notes", {Call("notes", "cfg", 1, dlg.val, <<>>)})
NotesClose == ~Busy("notes") /\ Close("notes")
NotesSettles(c) ==
    /\ c.by = "notes"
    /\ \/ Fail(c)
       \/ /\ c.st = "done"
          /\ Finish(c)
          /\ cache' = SetQueryData(c)
          /\ UNCHANGED <<area, nav, server, fetch, sel, bulk, reveal, used, ledger>>

\* EndpointHeader's delete leads to the list, from wherever the user is.
DetailDeleteOpen == HasDetail /\ Open("deleteDetail", 1, Blank)
DetailDelete == Submit("deleteDetail", {Call("deleteDetail", "delete", 1, Blank, <<>>)})
DetailDeleted(c) ==
    /\ c.by = "deleteDetail"
    /\ \/ Fail(c)
       \/ /\ c.st = "done"
          /\ IF SignedOut
             THEN calls' = calls \ {c} /\ UNCHANGED <<nav, dlg, busy, tally>>
             ELSE /\ calls' = Orphaned(calls \ {c})
                  /\ page' = "away" /\ held' = NoRows /\ UNCHANGED view
                  /\ dlg' = NoDlg /\ busy' = {}
                  /\ tally' = NoTally
          /\ UNCHANGED <<area, server, query, sel, bulk, reveal, used, acks, owed>>

-----------------------------------------------------------------------------
(***************************************************************************)
(* EndpointFormPage: edit, new, clone, or from a discovery finding.        *)
(***************************************************************************)
Modes == {"edit", "new", "clone", "promote"}

\* The effects that load what the form starts from: the endpoint and its tags
\* in two requests, or the finding.
FormMount(mode) ==
    /\ \/ mode = "edit" /\ HasDetail /\ dlg.kind = "none"
       \/ mode = "clone" /\ area = "clone" /\ page = "away"
       \/ mode = "new" /\ area = "newEndpoint" /\ page = "away"
    /\ page' = "form" /\ held' = NoRows
    /\ dlg' = IF mode = "new" THEN Form("new", 0, Blank) ELSE Form("loading", 1, Blank)
    /\ calls' = Orphaned(calls) \cup
                (IF mode = "new" THEN {} ELSE {Read(mode, 1), Read("loadTags", 1)})
    /\ busy' = {}
    /\ tally' = NoTally
    /\ UNCHANGED <<area, view, server, query, sel, bulk, reveal, used, acks, owed>>

\* The form is ready when the endpoint is there, with or without its tags.
FormLoaded(c) ==
    /\ c.by \in Modes /\ c.op = "read" /\ c.st # "sent"
    /\ calls' = calls \ {c}
    /\ dlg' = IF ~c.here \/ c.st # "done" THEN dlg
              ELSE Form(IF c.by = "clone" THEN "new" ELSE c.by, c.id,
                        [on |-> IF c.by = "edit" THEN c.val.on ELSE TRUE,
                         cfg |-> c.val.cfg, tags |-> dlg.val.tags])
    /\ UNCHANGED <<area, nav, server, query, busy, sel, bulk, reveal, used, ledger>>

\* The tags replace whatever was picked meanwhile; a failure is ignored.
FormTagsLoaded(c) ==
    /\ c.by = "loadTags" /\ c.st # "sent"
    /\ calls' = calls \ {c}
    /\ dlg' = IF c.here /\ c.st = "done" THEN [dlg EXCEPT !.val.tags = c.val.tags] ELSE dlg
    /\ UNCHANGED <<area, nav, server, query, busy, sel, bulk, reveal, used, ledger>>

\* The fields (the enabled box goes with the rest of the record) and the tag
\* picker with its chips.
FormEdit == \E mode \in {"edit", "new", "promote"} : Edit(mode, {"cfg"})
FormTags == \E mode \in {"edit", "new"} : Edit(mode, {"tags"})

\* handleSave: the endpoint, the certificate of a manual one or the tags of a
\* promoted one (link), the tags, and the finding it came from, one request
\* after another.
Steps(kind, link) ==
    (IF link THEN <<"link">> ELSE <<>>) \o
    CASE kind = "edit"    -> <<"tags">>
      [] kind = "promote" -> <<"delete">>
      [] OTHER            -> IF dlg.val.tags = {} THEN <<>> ELSE <<"tags">>
FirstStep == [edit |-> "put", new |-> "create", promote |-> "make"]

\* Mutant of FormSave: the button stays enabled while a save is under way.
FormSaveTwice ==
    \E kind \in DOMAIN FirstStep, link \in BOOLEAN :
        /\ dlg.kind = kind /\ dlg.val.cfg # Empty
        /\ Send({Call(kind, FirstStep[kind], dlg.id, dlg.val, Steps(kind, link))})
        /\ UNCHANGED <<area, nav, server, query, pane, reveal, ledger>>
FormSave ==
    \E kind \in DOMAIN FirstStep, link \in BOOLEAN :
        /\ dlg.val.cfg # Empty
        /\ Submit(kind, {Call(kind, FirstStep[kind], dlg.id, dlg.val, Steps(kind, link))})

IsForm(c)  == c.by \in DOMAIN FirstStep /\ c.op # "read"
\* The finding's removal may fail, the rest may not.
StepDone(c) == c.st = "done" \/ (c.op = "delete" /\ c.st # "sent")

FormStep(c) ==
    /\ IsForm(c) /\ StepDone(c) /\ c.rest # <<>>
    /\ calls' = (calls \ {c}) \cup
                {[c EXCEPT !.op = Head(c.rest), !.rest = Tail(c.rest), !.st = "sent"]}
    /\ tally' = [tally EXCEPT !.made = IF c.here /\ c.op \in {"create", "make"} THEN @ + 1 ELSE @]
    /\ UNCHANGED <<area, nav, server, query, pane, reveal, used, acks, owed>>

\* The last answer navigates to the endpoint, from wherever the user is.  Nothing
\* marks the record in the cache: the page shows what was cached before the save
\* while that counts as fresh, so the save owes the key nothing.
FormSaved(c) ==
    /\ IsForm(c) /\ StepDone(c) /\ c.rest = <<>>
    /\ IF SignedOut
       THEN calls' = calls \ {c} /\ UNCHANGED <<nav, pane, fetch, reveal, tally>>
       ELSE /\ calls' = Orphaned(calls \ {c})
            /\ dlg' = NoDlg /\ busy' = {} /\ held' = NoRows
            /\ tally' = NoTally
            /\ IF c.by = "edit" THEN page' = "detail" /\ Observe("detail")
               ELSE page' = "away" /\ UNCHANGED <<view, fetch>>
            /\ UNCHANGED <<sel, bulk, reveal>>
    /\ UNCHANGED <<area, server, cache, used, acks, owed>>

\* An error leaves the form as it is, ready to be saved again.
FormFails(c) == IsForm(c) /\ ~StepDone(c) /\ Fail(c)

EndpointNext ==
    \/ EndpointDetailPage \/ ToggleEnabled
    \/ NotesOpen \/ NotesType \/ NotesSave \/ NotesClose
    \/ DetailDeleteOpen \/ DetailDelete \/ Close("deleteDetail")
    \/ \E mode \in {"edit", "new", "clone"} : FormMount(mode)
    \/ \E c \in calls : \/ ToggleSettles(c) \/ NotesSettles(c)
                        \/ DetailDeleted(c) \/ FormTagsLoaded(c)

FormNext ==
    \/ FormEdit \/ FormTags \/ FormSave
    \/ \E c \in calls : FormLoaded(c) \/ FormStep(c) \/ FormSaved(c) \/ FormFails(c)

-----------------------------------------------------------------------------
(***************************************************************************)
(* Settings forms over one query.  The form starts from the cached answer, *)
(* and an answer with other content starts it over.                        *)
(***************************************************************************)
MountForm(a, kind) ==
    /\ area = a /\ page = "away"
    /\ page' = "form" /\ held' = NoRows
    /\ Observe("detail")
    /\ dlg' = IF cache["detail"].have THEN Form(kind, 1, ValIn(cache["detail"].rows))
              ELSE Form("loading", 1, Blank)
    /\ UNCHANGED <<area, server, cache, calls, busy, sel, bulk, reveal, used, ledger>>

Reloaded(kind, rows) ==
    IF dlg.kind = "loading" \/ (dlg.kind = kind /\ cache["detail"].rows # rows)
    THEN Form(kind, 1, ValIn(rows)) ELSE dlg

\* MailConfigPage: saving leaves the cached configuration as it was.
MailConfigPage  == MountForm("mail", "mail")
MailLoaded(rows) == Reloaded("mail", rows)
\* When the load fails the form shows its defaults.
MailDefaults ==
    /\ On("mail", "form") /\ dlg.kind = "loading" /\ fetch["detail"].st = "idle"
    /\ dlg' = Form("mail", 1, Blank)
    /\ UNCHANGED <<area, nav, server, query, calls, busy, sel, bulk, reveal, used, ledger>>
MailEdit  == Edit("mail", {"on", "cfg"})
MailSave  == Submit("mail", {Call("mail", "put", 1, dlg.val, <<>>)})
MailSettles(c) ==
    /\ c.by = "mail" /\ c.op = "put"
    /\ \/ Fail(c)
       \/ /\ c.st = "done"
          /\ calls' = calls \ {c}
          /\ busy' = IF c.here THEN busy \ {Flag("mail")} ELSE busy
          /\ UNCHANGED <<area, nav, server, query, dlg, sel, bulk, reveal, used, ledger>>
\* handleTest sends a message with the stored configuration.
MailTest ==
    /\ dlg.kind = "mail" /\ ~Busy("mailTest")
    /\ Send({Call("mailTest", "touch", 1, Blank, <<>>)})
    /\ busy' = busy \cup {Flag("mailTest")}
    /\ UNCHANGED <<area, nav, server, query, dlg, sel, bulk, reveal, ledger>>
MailTestSettles(c) == c.by = "mailTest" /\ (Fail(c) \/ FinishOnly(c))

\* GeneralSettingsPage loads without the cache, and shows its default
\* thresholds when that fails.
GeneralSettingsPage ==
    /\ area = "general" /\ page = "away"
    /\ page' = "form" /\ held' = NoRows
    /\ dlg' = Form("loading", 1, Blank)
    /\ calls' = calls \cup {Read("thresholds", 1)}
    /\ UNCHANGED <<area, view, server, query, busy, sel, bulk, reveal, used, ledger>>
ThresholdsLoaded(c) ==
    /\ c.by = "thresholds" /\ c.op = "read" /\ c.st # "sent"
    /\ calls' = calls \ {c}
    /\ dlg' = IF c.here THEN Form("general", 1, IF c.st = "done" THEN c.val ELSE Blank) ELSE dlg
    /\ UNCHANGED <<area, nav, server, query, busy, sel, bulk, reveal, used, ledger>>
ThresholdsEdit == Edit("general", {"cfg"})
\* resetToDefaults shows and saves the defaults, handleSave what is shown.
ThresholdsSave ==
    \E v \in {dlg.val, [dlg.val EXCEPT !.cfg = Empty]} :
        /\ dlg.kind = "general" /\ ~Busy("general")
        /\ Send({Call("general", "cfg", 1, v, <<>>)})
        /\ busy' = busy \cup {Flag("general")}
        /\ dlg' = [dlg EXCEPT !.val = v, !.typed = IF v = dlg.val THEN @ ELSE {"cfg"}]
        /\ UNCHANGED <<area, nav, server, query, sel, bulk, reveal, ledger>>
ThresholdsSettle(c) ==
    /\ c.by = "general"
    /\ \/ Fail(c)
       \/ /\ c.st = "done"
          /\ calls' = calls \ {c}
          /\ busy' = IF c.here THEN busy \ {Flag("general")} ELSE busy
          /\ dlg' = IF c.here THEN [dlg EXCEPT !.val.cfg = c.val.cfg] ELSE dlg
          /\ UNCHANGED <<area, nav, server, query, sel, bulk, reveal, used, ledger>>

\* GroupFormPage: the members it knows are those among the first endpoints
\* listed; saving goes back to the list of groups.
FirstHosts == {"own", "mine"}
GroupVal(v) == [v EXCEPT !.tags = @ \cap FirstHosts]
GroupFormPage ==
    /\ area = "group" /\ page = "away"
    /\ page' = "form" /\ held' = NoRows
    /\ tally' = NoTally
    /\ \/ /\ Observe("detail")
          /\ dlg' = IF cache["detail"].have
                    THEN Form("group", 1, GroupVal(ValIn(cache["detail"].rows)))
                    ELSE Form("loading", 1, Blank)
       \/ dlg' = Form("newGroup", 0, Blank) /\ UNCHANGED <<view, fetch>>
    /\ UNCHANGED <<area, server, cache, calls, busy, sel, bulk, reveal, used, acks, owed>>
GroupLoaded(rows) ==
    LET d == Reloaded("group", rows) IN
    IF d.kind = "group" THEN [d EXCEPT !.val = GroupVal(@)] ELSE d
GroupEdit  == Edit("group", {"cfg"}) \/ Edit("newGroup", {"cfg"})
GroupHosts == Edit("group", {"tags"}) \/ Edit("newGroup", {"tags"})
GroupSave ==
    \E kind \in {"group", "newGroup"} :
        /\ dlg.val.cfg # Empty
        /\ Submit(kind, {Call(kind, IF kind = "group" THEN "all" ELSE "create", dlg.id, dlg.val, <<>>)})
GroupSaved(c) ==
    /\ c.by \in {"group", "newGroup"}
    /\ \/ Fail(c)
       \/ /\ c.st = "done"
          /\ IF SignedOut
             THEN calls' = calls \ {c} /\ UNCHANGED <<nav, dlg, busy, tally>>
             ELSE /\ calls' = Orphaned(calls \ {c})
                  /\ page' = "away" /\ held' = NoRows /\ UNCHANGED view
                  /\ dlg' = NoDlg /\ busy' = {}
                  /\ tally' = NoTally
          /\ UNCHANGED <<area, server, query, sel, bulk, reveal, used, acks, owed>>

SettingsNext ==
    \/ MailConfigPage \/ MailDefaults \/ MailEdit \/ MailSave \/ MailTest
    \/ GeneralSettingsPage \/ ThresholdsEdit \/ ThresholdsSave
    \/ GroupFormPage \/ GroupEdit \/ GroupHosts \/ GroupSave
    \/ \E c \in calls : \/ MailSettles(c) \/ MailTestSettles(c)
                        \/ ThresholdsLoaded(c) \/ ThresholdsSettle(c) \/ GroupSaved(c)

-----------------------------------------------------------------------------
(***************************************************************************)
(* AccountNotificationsPage: the profile and the tag subscriptions come in *)
(* two queries, are shown with defaults until then, and are saved apart.   *)
(***************************************************************************)
AccountNotificationsPage ==
    /\ area = "notify" /\ page = "away"
    /\ page' = "form" /\ held' = NoRows
    /\ view' = "detail"
    /\ fetch' = [k \in Keys |-> IF k \in {"detail", "all"} /\ MustAsk(k)
                                THEN [Idle EXCEPT !.st = "asked"] ELSE fetch[k]]
    /\ dlg' = Form("notify", 1,
                [on |-> cache["detail"].have /\ ValIn(cache["detail"].rows).on,
                 cfg |-> IF cache["detail"].have THEN ValIn(cache["detail"].rows).cfg ELSE Empty,
                 tags |-> IF cache["all"].have THEN ValIn(cache["all"].rows).tags ELSE {}])
    /\ UNCHANGED <<area, server, cache, calls, busy, sel, bulk, reveal, used, ledger>>
NotifyLoaded(k, rows) ==
    IF dlg.kind # "notify" \/ (cache[k].have /\ cache[k].rows = rows) THEN dlg
    ELSE IF k = "detail"
         THEN [dlg EXCEPT !.val.on = ValIn(rows).on, !.val.cfg = ValIn(rows).cfg, !.typed = @ \ {"on"}]
         ELSE [dlg EXCEPT !.val.tags = ValIn(rows).tags, !.typed = @ \ {"tags"}]

\* saveNotify sends the switch with the profile the page holds, if it has one.
SaveNotify ==
    /\ dlg.kind = "notify" /\ dlg.val.cfg # Empty
    /\ LET v == [dlg.val EXCEPT !.on = ~@] IN
       /\ ~Busy("notifyOn")
       /\ Send({Call("notifyOn", "put", 1, v, <<>>)})
       /\ dlg' = [dlg EXCEPT !.val = v, !.typed = @ \cup {"on"}]
    /\ busy' = busy \cup {Flag("notifyOn")}
    /\ UNCHANGED <<area, nav, server, query, sel, bulk, reveal, ledger>>
SaveNotifySettles(c) ==
    /\ c.by = "notifyOn" /\ c.st # "sent"
    /\ calls' = calls \ {c}
    /\ busy' = IF c.here THEN busy \ {Flag("notifyOn")} ELSE busy
    /\ dlg' = IF c.here THEN [dlg EXCEPT !.val.on = IF c.st = "done" THEN c.val.on ELSE ~c.val.on]
              ELSE dlg
    /\ UNCHANGED <<area, nav, server, query, sel, bulk, reveal, used, ledger>>

\* saveTags sends the ticked tags, or none of them for "all certificates".
SubscriptionEdit == Edit("notify", {"tags"})
SaveTags ==
    /\ dlg.kind = "notify" /\ ~Busy("notifyTags")
    /\ \E ids \in {dlg.val.tags, {}} :
        Send({Call("notifyTags", "tags", 1, [dlg.val EXCEPT !.tags = ids], <<>>)})
    /\ busy' = busy \cup {Flag("notifyTags")}
    /\ UNCHANGED <<area, nav, server, query, dlg, sel, bulk, reveal, ledger>>
SaveTagsSettles(c) ==
    /\ c.by = "notifyTags" /\ c.st # "sent"
    /\ calls' = calls \ {c}
    /\ busy' = IF c.here THEN busy \ {Flag("notifyTags")} ELSE busy
    /\ dlg' = IF c.here /\ c.st = "done" THEN [dlg EXCEPT !.val.tags = c.val.tags] ELSE dlg
    /\ UNCHANGED <<area, nav, server, query, sel, bulk, reveal, used, ledger>>

NotifyNext ==
    \/ AccountNotificationsPage \/ SaveNotify \/ SubscriptionEdit \/ SaveTags
    \/ \E c \in calls : SaveNotifySettles(c) \/ SaveTagsSettles(c)

-----------------------------------------------------------------------------
(***************************************************************************)
(* NotificationTemplatesPage: sel is the page's own copy of the templates, *)
(* the form is the editor of the chosen one.                               *)
(***************************************************************************)
NotificationTemplatesPage ==
    /\ area = "templates" /\ page = "away"
    /\ page' = "form" /\ held' = NoRows
    /\ Observe("all")
    /\ sel' = cache["all"].rows
    /\ dlg' = IF 1 \in DOMAIN cache["all"].rows
              THEN Form("template", 1, ValOf(cache["all"].rows[1])) ELSE NoDlg
    /\ UNCHANGED <<area, server, cache, calls, busy, bulk, reveal, used, ledger>>

\* New rows replace the copy; the editor keeps what it holds.
TemplatesLoaded(rows) ==
    IF dlg.kind = "none" /\ 1 \in DOMAIN rows THEN Form("template", 1, ValOf(rows[1])) ELSE dlg

\* Choosing another template remounts the editor (its key); a request of the
\* editor that was left still reports to the page.
Left(cs) == {IF c.by \in {"template", "reset"} THEN [c EXCEPT !.by = "left"] ELSE c : c \in cs}

\* Mutant of ChooseTemplate: the editor is not keyed and keeps its text.
ChooseTemplateUnkeyed(i) ==
    /\ On("templates", "form") /\ i \in DOMAIN sel /\ dlg.kind = "template"
    /\ dlg' = [dlg EXCEPT !.id = i]
    /\ UNCHANGED <<area, nav, server, query, calls, busy, sel, bulk, reveal, used, ledger>>
ChooseTemplate(i) ==
    /\ On("templates", "form") /\ i \in DOMAIN sel /\ i # dlg.id
    /\ dlg' = Form("template", i, ValOf(sel[i]))
    /\ busy' = {}
    /\ calls' = Left(calls)
    /\ UNCHANGED <<area, nav, server, query, sel, bulk, reveal, used, ledger>>
TemplateEdit == Edit("template", {"cfg"})
TemplateSave ==
    Submit("template", {Call("template", "put", dlg.id, [dlg.val EXCEPT !.on = TRUE], <<>>)})
\* handleReset drops the customisation, then reads the default.
TemplateReset ==
    /\ dlg.kind = "template" /\ ~Busy("reset")
    /\ Send({Call("reset", "revert", dlg.id, Blank, <<"read">>)})
    /\ busy' = busy \cup {Flag("reset")}
    /\ UNCHANGED <<area, nav, server, query, dlg, sel, bulk, reveal, ledger>>
\* The read is a bare fetch (Bare in WebTab): one that is refused is ignored.
TemplateResetStep(c) ==
    /\ c.by \in {"reset", "left"} /\ c.st = "done" /\ c.rest # <<>>
    /\ calls' = (calls \ {c}) \cup {[c EXCEPT !.op = "read", !.rest = <<>>, !.st = "sent"]}
    /\ UNCHANGED <<area, nav, server, query, pane, reveal, used, ledger>>

\* handleSaved, handleReset: the answer enters the page's copy and is chosen
\* again, whatever is being edited by then.
TemplateSettles(c) ==
    /\ c.by \in {"template", "reset", "left"} /\ c.rest = <<>> /\ c.st = "done"
    /\ IF c.here
       THEN /\ sel' = [i \in DOMAIN sel \cup {c.id} |->
                         IF i = c.id THEN [live |-> TRUE, on |-> c.val.on, cfg |-> c.val.cfg,
                                           tags |-> c.val.tags] ELSE sel[i]]
            /\ IF dlg.id # c.id
               THEN dlg' = Form("template", c.id, c.val) /\ busy' = {} /\ calls' = Left(calls \ {c})
               ELSE /\ dlg' = CASE c.by = "reset"    -> Form("template", c.id, c.val)
                                [] c.by = "template" -> [dlg EXCEPT !.typed = {}]
                                [] OTHER             -> dlg
                    /\ busy' = busy \ {Flag(c.by)}
                    /\ calls' = calls \ {c}
       ELSE calls' = calls \ {c} /\ UNCHANGED <<sel, dlg, busy>>
    /\ UNCHANGED <<area, nav, server, query, bulk, reveal, used, ledger>>
TemplateFails(c) == c.by \in {"template", "reset", "left"} /\ Fail(c)

TemplatesNext ==
    \/ NotificationTemplatesPage \/ TemplateEdit \/ TemplateSave \/ TemplateReset
    \/ \E i \in Ids : ChooseTemplate(i)
    \/ \E c \in calls : TemplateResetStep(c) \/ TemplateSettles(c) \/ TemplateFails(c)

=============================================================================
