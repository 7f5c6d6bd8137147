------------------------------ MODULE WebProofs ------------------------------
(***************************************************************************)
(* Proofs about Web, for any values of its constants: where requests and   *)
(* dialogs come from, which page a step is taken on, and what the query    *)
(* cache owes after a write.  WebPageProofs builds on them.                *)
(***************************************************************************)
EXTENDS Web, TLAPS

(***************************************************************************)
(* Requests and dialogs come from the page that is there                   *)
(***************************************************************************)
\* The shape of a request and of a dialog.
CallFields == {"n", "by", "op", "id", "val", "rest", "st", "own", "here"}
DlgFields  == {"kind", "id", "val", "base", "typed"}

\* The page a component belongs to: what sends a request or opens a dialog is
\* mounted by that page only.
AtHome(k) ==
    /\ k \in {"deleteEndpoint", "bulkDelete", "bulkTag", "import"} => area = "endpoints"
    /\ k \in {"deleteCert", "refs", "bulkDeleteCerts", "ingest"} => area = "certs"
    /\ k \in {"dismiss", "deleteFinding", "promote"} => area = "inbox"
    /\ k \in {"toggle", "notes", "deleteDetail", "edit"} => area = "endpoint"
    /\ k = "new" => area \in {"newEndpoint", "clone"}
    /\ k = "clone" => area = "clone"
    /\ k = "loadTags" => area \in {"endpoint", "clone"}
    /\ k \in {"mail", "mailTest"} => area = "mail"
    /\ k \in {"thresholds", "general"} => area = "general"
    /\ k \in {"group", "newGroup"} => area = "group"
    /\ k \in {"notify", "notifyOn", "notifyTags"} => area = "notify"
    /\ k \in {"template", "reset", "left"} => area = "templates"
    /\ k \in {"netNew", "netEdit", "deleteNet", "toggleNet"} => area = "networks"
    /\ k \in {"user", "password", "reset2fa", "deleteUser", "toggleUser"} => area = "users"
    /\ k \in {"scannerNew", "scannerEdit", "rotate", "revoke", "default"} => area = "scanners"
    /\ k \in {"status", "start", "setup", "disable", "recovery"} => area = "twofa"
    /\ k \in {"key", "revokeKey"} => area = "apikeys"
    /\ k = "adminRevoke" => area = "adminkeys"
    /\ k \in {"tag", "category", "deleteTag"} => area = "tags"
    /\ k \in {"job", "retention", "dropped", "run", "runMenu", "toggleJob"} => area = "jobs"

\* Every request, and the open dialog, comes from a component of the page that
\* the route shows.
OriginInv ==
    /\ \A c \in calls : DOMAIN c = CallFields /\ AtHome(c.by)
    /\ DOMAIN dlg = DlgFields /\ AtHome(dlg.kind)

\* What a step may do to the calls and to the dialog: requests stay, go, are marked
\* or are sent by a component of the area, and so are dialogs.
LEMMA OriginKept ==
    ASSUME OriginInv, area' = area,
           \A d \in calls' : DOMAIN d = CallFields /\ (AtHome(d.by) \/ \E c \in calls : d.by = c.by),
           DOMAIN dlg' = DlgFields, AtHome(dlg'.kind)
    PROVE  OriginInv'
<1>1. \A k : AtHome(k) => AtHome(k)'
    BY DEF AtHome
<1>2. QED
    BY <1>1 DEF OriginInv

\* A request moves on.
LEMMA CallMoves ==
    ASSUME OriginInv, NEW c \in calls, NEW d, DOMAIN d = CallFields, d.by = c.by,
           calls' = (calls \ {c}) \cup {d}, area' = area, DOMAIN dlg' = DlgFields, AtHome(dlg'.kind)
    PROVE  OriginInv'
BY OriginKept DEF OriginInv

\* Typing changes the values of the dialog and nothing else.
LEMMA TypeShape ==
    ASSUME DOMAIN dlg = DlgFields, NEW kind, NEW f, Type(kind, f)
    PROVE  /\ DOMAIN dlg' = DlgFields /\ dlg'.kind = dlg.kind /\ dlg'.id = dlg.id
           /\ dlg'.base = dlg.base
           /\ UNCHANGED <<area, page, view, held, auth, srv, cache, fetch, calls, busy, sel,
                          bulk, reveal, used, acks, owed, tally>>
<1>1. PICK v : dlg' = [dlg EXCEPT !.val = v, !.typed = @ \cup {f}]
    BY DEF Type
<1>2. DOMAIN dlg' = DlgFields /\ dlg'.kind = dlg.kind /\ dlg'.id = dlg.id /\ dlg'.base = dlg.base
    BY <1>1 DEF DlgFields
<1>3. QED
    BY <1>2 DEF Type, nav, server, query, ledger

\* Typing in a dialog leaves it where it is.
LEMMA TypeOrigin ==
    ASSUME OriginInv, NEW kind, NEW f, Type(kind, f) PROVE OriginInv'
BY TypeShape, OriginKept DEF OriginInv

\* The requests of a bulk dialog are sent by that dialog.
LEMMA BulkRunOrigin ==
    ASSUME OriginInv, NEW kind, NEW op, NEW val, BulkRun(kind, op, val) PROVE OriginInv'
<1>1. PICK cs : calls' = calls \cup cs /\ cs = {Call(kind, op, i, val[i], <<>>) : i \in DOMAIN sel}
    BY DEF BulkRun, Send
<1>2. ASSUME NEW d \in cs PROVE DOMAIN d = CallFields /\ d.by = kind
    <2>1. PICK i \in DOMAIN sel : d = Call(kind, op, i, val[i], <<>>)
        BY <1>1, <1>2
    <2>2. QED
        BY <2>1 DEF Call, CallFields
<1>3. dlg.kind = kind /\ UNCHANGED <<area, dlg>>
    BY DEF BulkRun
<1>4. QED
    BY <1>1, <1>2, <1>3, OriginKept DEF OriginInv

\* Requests and dialogs of the endpoint list are sent and opened there.
LEMMA EndpointsOrigin == ASSUME OriginInv, EndpointsNext PROVE OriginInv'
<1> USE DEF OriginInv, AtHome, DlgFields, CallFields
<1>1. ASSUME EndpointPage \/ EndpointPager \/ EndpointFilter \/ TypeSwitch \/ ToggleAll \/ ClearSelection
      PROVE  OriginInv'
    BY <1>1 DEF EndpointPage, EndpointPager, EndpointFilter, TypeSwitch, ToggleAll,
       ClearSelection, Mount, Turn, Select, pane
<1>2. ASSUME NEW i \in Ids, ToggleOne(i) \/ DeleteEndpointOpen(i) PROVE OriginInv'
    BY <1>2 DEF ToggleOne, Select, DeleteEndpointOpen, EndpointRow, Open, Clear, On, Form
<1>3. ASSUME DeleteEndpoint \/ Close("deleteEndpoint") PROVE OriginInv'
    BY <1>3 DEF DeleteEndpoint, Close, Submit, Send, Call, NoDlg, Form
<1>9. ASSUME BulkTagPick PROVE OriginInv'
    <2>1. PICK tag : dlg' = [dlg EXCEPT !.val.tags = {tag}, !.typed = {"tags"}]
        BY <1>9 DEF BulkTagPick
    <2>2. DOMAIN dlg' = DlgFields /\ dlg'.kind = dlg.kind
        BY <2>1
    <2>3. UNCHANGED <<area, calls>>
        BY <1>9 DEF BulkTagPick
    <2>4. QED
        BY <2>2, <2>3
<1>4. ASSUME BulkDeleteOpen \/ BulkTagOpen \/ EndpointBulkDone PROVE OriginInv'
    BY <1>4 DEF BulkDeleteOpen, BulkTagOpen, EndpointBulkDone, BulkOpen, BulkClose, Clear, On,
       NoDlg, Form
<1>5. ASSUME BulkDeleteConfirm \/ BulkTagConfirm PROVE OriginInv'
    BY <1>5, BulkRunOrigin DEF BulkDeleteConfirm, BulkTagConfirm
<1>6. ASSUME ImportOpen \/ ImportPreview \/ ImportConfirm \/ ImportBack \/ ImportClose PROVE OriginInv'
    BY <1>6 DEF ImportOpen, ImportPreview, ImportConfirm, ImportBack, ImportClose, Send, Call,
       Open, Clear, On, NoDlg, Form
<1>7. ASSUME NEW c \in calls, DeleteEndpointSettles(c) \/ BulkDeleteSettles(c) \/ BulkTagSettles(c) \/ ImportSettles(c)
      PROVE  OriginInv'
    BY <1>7 DEF DeleteEndpointSettles, BulkDeleteSettles, BulkTagSettles, ImportSettles,
       BulkSettle, FinishAndRefetch, RefetchAfter, Finish, Fail, NoDlg, Form
<1>8. QED
    BY <1>1, <1>2, <1>3, <1>4, <1>5, <1>6, <1>7, <1>9 DEF EndpointsNext

\* Requests and dialogs of the certificate list are sent and opened there.
LEMMA CertsOrigin == ASSUME OriginInv, CertsNext PROVE OriginInv'
<1> USE DEF OriginInv, AtHome, DlgFields, CallFields
<1>1. ASSUME CertificatesPage \/ CertPager \/ CertFilter \/ ToggleAllCerts PROVE OriginInv'
    BY <1>1 DEF CertificatesPage, CertPager, CertFilter, ToggleAllCerts, Mount, Turn, Select, pane
<1>2. ASSUME NEW i \in Ids, ToggleOneCert(i) \/ DeleteCertOpen(i) PROVE OriginInv'
    BY <1>2 DEF ToggleOneCert, Select, DeleteCertOpen, CertRow, Clear, On, Form, Read, Call
<1>3. ASSUME PurgeTick \/ DeleteCertificate \/ Close("deleteCert") PROVE OriginInv'
    BY <1>3 DEF PurgeTick, DeleteCertificate, Close, Submit, Send, Call, NoDlg, Form
<1>4. ASSUME BulkDeleteCertsOpen \/ BulkPurgeTick \/ CertBulkDone PROVE OriginInv'
    BY <1>4 DEF BulkDeleteCertsOpen, BulkPurgeTick, CertBulkDone, BulkOpen, BulkClose, Clear,
                On, NoDlg, Form
<1>5. ASSUME BulkDeleteCertsConfirm PROVE OriginInv'
    BY <1>5, BulkRunOrigin DEF BulkDeleteCertsConfirm
<1>6. ASSUME IngestOpen \/ IngestType \/ IngestSubmit \/ Close("ingest") PROVE OriginInv'
    BY <1>6, TypeOrigin DEF IngestOpen, IngestType, IngestSubmit, Close, Submit, Send, Call, Open,
                Clear, On, NoDlg, Form
<1>7. ASSUME NEW c \in calls, CertReferences(c) \/ DeleteCertSettles(c) \/ BulkDeleteCertsSettles(c)
      PROVE  OriginInv'
    BY <1>7 DEF CertReferences, DeleteCertSettles, BulkDeleteCertsSettles, BulkSettle,
                FinishAndRefetch, RefetchAfter, Finish, Fail, NoDlg, Form
<1>8. ASSUME NEW c \in calls, IngestSettles(c) PROVE OriginInv'
    BY <1>8 DEF IngestSettles, Fail, Orphaned, NoDlg, Form, pane
<1>9. QED
    BY <1>1, <1>2, <1>3, <1>4, <1>5, <1>6, <1>7, <1>8 DEF CertsNext

\* Requests and dialogs of the discovery inbox are sent and opened there.
LEMMA InboxOrigin == ASSUME OriginInv, InboxNext PROVE OriginInv'
<1> USE DEF OriginInv, AtHome, DlgFields, CallFields
<1>1. ASSUME DiscoveryInboxPage \/ ShowDismissed PROVE OriginInv'
    BY <1>1 DEF DiscoveryInboxPage, ShowDismissed, Mount, Turn, pane
<1>2. ASSUME NEW i \in Ids, Dismiss(i) \/ InboxDeleteOpen(i) PROVE OriginInv'
    BY <1>2 DEF Dismiss, InboxDeleteOpen, InboxActionsMenu, InboxRow, Open, Send, Call, Clear,
                On, Form
<1>3. ASSUME NEW i \in Ids, Promote(i) PROVE OriginInv'
    BY <1>3 DEF Promote, InboxActionsMenu, InboxRow, Orphaned, Read, Call, Clear, On, Form
<1>4. ASSUME InboxDelete \/ Close("deleteFinding") PROVE OriginInv'
    BY <1>4 DEF InboxDelete, Close, Submit, Send, Call, NoDlg, Form
<1>5. ASSUME NEW c \in calls, DismissSettles(c) \/ InboxDeleteSettles(c) PROVE OriginInv'
    BY <1>5 DEF DismissSettles, InboxDeleteSettles, FinishAndInvalidate, Finish, Fail, NoDlg,
                Form
<1>6. QED
    BY <1>1, <1>2, <1>3, <1>4, <1>5 DEF InboxNext

\* Requests and dialogs of an endpoint's detail page, and of opening its form are sent and opened
\* there.
LEMMA EndpointOrigin == ASSUME OriginInv, EndpointNext PROVE OriginInv'
<1> USE DEF OriginInv, AtHome, DlgFields, CallFields
<1>0. HasDetail => area = "endpoint"
    BY DEF HasDetail, DetailRows, On, NoRows
<1>1. ASSUME EndpointDetailPage \/ ToggleEnabled \/ NotesOpen \/ NotesType PROVE OriginInv'
    BY <1>0, <1>1, TypeOrigin DEF EndpointDetailPage, ToggleEnabled, NotesOpen, NotesType, Mount,
                Press, Open, Send, Call, Form, pane
<1>2. ASSUME NotesSave \/ NotesClose \/ DetailDeleteOpen \/ DetailDelete \/ Close("deleteDetail")
      PROVE  OriginInv'
    BY <1>0, <1>2 DEF NotesSave, NotesClose, DetailDeleteOpen, DetailDelete, Close, Submit, Send,
                Call, Open, NoDlg, Form
<1>3. ASSUME NEW mode \in {"edit", "new", "clone"}, FormMount(mode) PROVE OriginInv'
    <2>1. AtHome(mode)
        BY <1>0, <1>3 DEF FormMount
    <2>2. DOMAIN dlg' = DlgFields /\ AtHome(dlg'.kind) /\ area' = area
        BY <1>3 DEF FormMount, Form
    <2>3. mode # "new" => AtHome("loadTags")
        BY <1>0, <1>3 DEF FormMount
    <2>4. ASSUME NEW d \in calls'
          PROVE  DOMAIN d = CallFields /\ (AtHome(d.by) \/ \E c \in calls : d.by = c.by)
        <3>1. CASE d \in Orphaned(calls)
            BY <3>1 DEF Orphaned
        <3>2. CASE mode # "new" /\ d \in {Read(mode, 1), Read("loadTags", 1)}
            BY <2>1, <2>3, <3>2 DEF Read, Call
        <3>3. QED
            BY <1>3, <2>4, <3>1, <3>2 DEF FormMount
    <2>5. QED
        BY <2>2, <2>4, OriginKept
<1>4. ASSUME NEW c \in calls, ToggleSettles(c) \/ NotesSettles(c) PROVE OriginInv'
    BY <1>4 DEF ToggleSettles, NotesSettles, NotesEffect, Finish, Fail, NoDlg, Form
<1>5. ASSUME NEW c \in calls, DetailDeleted(c) \/ FormTagsLoaded(c) PROVE OriginInv'
    BY <1>5 DEF DetailDeleted, FormTagsLoaded, Orphaned, Fail, NoDlg, Form
<1>6. QED
    BY <1>1, <1>2, <1>3, <1>4, <1>5 DEF EndpointNext

\* Requests and dialogs of EndpointFormPage are sent and opened there.
LEMMA FormOrigin == ASSUME OriginInv, FormNext PROVE OriginInv'
<1> USE DEF OriginInv, AtHome, DlgFields, CallFields
<1>1. ASSUME FormEdit \/ FormTags PROVE OriginInv'
    BY <1>1, TypeOrigin DEF FormEdit, FormTags, Edit
<1>2. ASSUME FormSave PROVE OriginInv'
    BY <1>2 DEF FormSave, Submit, Send, Call
<1>3. ASSUME NEW c \in calls, FormLoaded(c) PROVE OriginInv'
    BY <1>3 DEF FormLoaded, Modes, Form
<1>7. ASSUME NEW c \in calls, FormStep(c) PROVE OriginInv'
    <2>1. PICK d : d = [c EXCEPT !.op = Head(c.rest), !.rest = Tail(c.rest), !.st = "sent"]
        OBVIOUS
    <2>2. calls' = (calls \ {c}) \cup {d} /\ area' = area
        BY <1>7, <2>1 DEF FormStep
    <2>3. DOMAIN dlg' = DlgFields /\ AtHome(dlg'.kind)
        BY <1>7 DEF FormStep, pane
    <2> HIDE DEF OriginInv, AtHome, DlgFields, CallFields
    <2>4. DOMAIN c = CallFields
        BY DEF OriginInv
    <2>5. DOMAIN d = CallFields /\ d.by = c.by
        BY <2>1, <2>4 DEF CallFields
    <2>6. QED
        BY <2>2, <2>3, <2>5, CallMoves
<1>4. ASSUME NEW c \in calls, FormFails(c) PROVE OriginInv'
    BY <1>4 DEF FormFails, Fail
<1>5. ASSUME NEW c \in calls, FormSaved(c) PROVE OriginInv'
    BY <1>5 DEF FormSaved, Orphaned, NoDlg, Form, pane
<1>6. QED
    BY <1>1, <1>2, <1>3, <1>4, <1>5, <1>7 DEF FormNext

\* Requests and dialogs of the mail, general and group settings are sent and opened there.
LEMMA SettingsOrigin == ASSUME OriginInv, SettingsNext PROVE OriginInv'
<1> USE DEF OriginInv, AtHome, DlgFields, CallFields
<1>1. ASSUME MailConfigPage \/ MailDefaults PROVE OriginInv'
    BY <1>1 DEF MailConfigPage, MailDefaults, MountForm, On, Form
<1>2. ASSUME MailEdit \/ ThresholdsEdit \/ GroupEdit \/ GroupHosts PROVE OriginInv'
    BY <1>2, TypeOrigin DEF MailEdit, ThresholdsEdit, GroupEdit, GroupHosts, Edit
<1>3. ASSUME MailSave \/ MailTest PROVE OriginInv'
    BY <1>3 DEF MailSave, MailTest, Submit, Send, Call
<1>4. ASSUME GeneralSettingsPage PROVE OriginInv'
    BY <1>4 DEF GeneralSettingsPage, Read, Call, Form
<1>5. ASSUME ThresholdsSave PROVE OriginInv'
    BY <1>5 DEF ThresholdsSave, Send, Call
<1>6. ASSUME GroupFormPage PROVE OriginInv'
    BY <1>6 DEF GroupFormPage, Form
<1>7. ASSUME GroupSave PROVE OriginInv'
    BY <1>7 DEF GroupSave, Submit, Send, Call
<1>8. ASSUME NEW c \in calls, MailSettles(c) \/ MailTestSettles(c) \/ ThresholdsLoaded(c)
      PROVE  OriginInv'
    BY <1>8 DEF MailSettles, MailTestSettles, ThresholdsLoaded, FinishOnly, Finish, Fail, NoDlg,
                Form
<1>9. ASSUME NEW c \in calls, ThresholdsSettle(c) PROVE OriginInv'
    BY <1>9 DEF ThresholdsSettle, Fail
<1>10. ASSUME NEW c \in calls, GroupSaved(c) PROVE OriginInv'
    BY <1>10 DEF GroupSaved, Orphaned, Fail, NoDlg, Form
<1>11. QED
    BY <1>1, <1>2, <1>3, <1>4, <1>5, <1>6, <1>7, <1>8, <1>9, <1>10 DEF SettingsNext

\* Requests and dialogs of the account's notification page are sent and opened there.
LEMMA NotifyOrigin == ASSUME OriginInv, NotifyNext PROVE OriginInv'
<1> USE DEF OriginInv, AtHome, DlgFields, CallFields
<1>1. ASSUME AccountNotificationsPage PROVE OriginInv'
    BY <1>1 DEF AccountNotificationsPage, Form
<1>2. ASSUME SaveNotify PROVE OriginInv'
    BY <1>2 DEF SaveNotify, Send, Call
<1>3. ASSUME SubscriptionEdit PROVE OriginInv'
    BY <1>3, TypeOrigin DEF SubscriptionEdit, Edit
<1>4. ASSUME SaveTags PROVE OriginInv'
    BY <1>4 DEF SaveTags, Send, Call
<1>5. ASSUME NEW c \in calls, SaveNotifySettles(c) \/ SaveTagsSettles(c) PROVE OriginInv'
    BY <1>5 DEF SaveNotifySettles, SaveTagsSettles
<1>6. QED
    BY <1>1, <1>2, <1>3, <1>4, <1>5 DEF NotifyNext

\* Requests and dialogs of NotificationTemplatesPage are sent and opened there.
LEMMA TemplatesOrigin == ASSUME OriginInv, TemplatesNext PROVE OriginInv'
<1> USE DEF OriginInv, AtHome, DlgFields, CallFields
<1>1. ASSUME NotificationTemplatesPage PROVE OriginInv'
    BY <1>1 DEF NotificationTemplatesPage, NoDlg, Form
<1>2. ASSUME TemplateEdit PROVE OriginInv'
    BY <1>2, TypeOrigin DEF TemplateEdit, Edit
<1>3. ASSUME TemplateSave \/ TemplateReset PROVE OriginInv'
    BY <1>3 DEF TemplateSave, TemplateReset, Submit, Send, Call
<1>4. ASSUME NEW i \in Ids, ChooseTemplate(i) PROVE OriginInv'
    BY <1>4 DEF ChooseTemplate, Left, On, Form
<1>5. ASSUME NEW c \in calls, TemplateResetStep(c) PROVE OriginInv'
    <2>1. PICK d : d = [c EXCEPT !.op = "read", !.rest = <<>>, !.st = "sent"]
        OBVIOUS
    <2>2. calls' = (calls \ {c}) \cup {d} /\ area' = area
        BY <1>5, <2>1 DEF TemplateResetStep
    <2>3. DOMAIN dlg' = DlgFields /\ AtHome(dlg'.kind)
        BY <1>5 DEF TemplateResetStep, pane
    <2> HIDE DEF OriginInv, AtHome, DlgFields, CallFields
    <2>4. DOMAIN c = CallFields
        BY DEF OriginInv
    <2>5. DOMAIN d = CallFields /\ d.by = c.by
        BY <2>1, <2>4 DEF CallFields
    <2>6. QED
        BY <2>2, <2>3, <2>5, CallMoves
<1>6. ASSUME NEW c \in calls, TemplateSettles(c) PROVE OriginInv'
    <2>1. DOMAIN dlg' = DlgFields /\ AtHome(dlg'.kind) /\ area' = area
        BY <1>6 DEF TemplateSettles, Form
    <2>2. \A d \in calls' : DOMAIN d = CallFields /\ (AtHome(d.by) \/ \E e \in calls : d.by = e.by)
        <3>1. calls' = calls \ {c} \/ calls' = Left(calls \ {c})
            BY <1>6 DEF TemplateSettles
        <3>2. \A d \in Left(calls \ {c}) : DOMAIN d = CallFields /\ (d.by = "left" \/ d \in calls)
            BY DEF Left
        <3>3. area = "templates"
            BY <1>6 DEF TemplateSettles
        <3>4. QED
            BY <3>1, <3>2, <3>3
    <2> HIDE DEF OriginInv, AtHome, DlgFields, CallFields
    <2>3. QED
        BY <2>1, <2>2, OriginKept
<1>7. ASSUME NEW c \in calls, TemplateFails(c) PROVE OriginInv'
    BY <1>7 DEF TemplateFails, Fail
<1>8. QED
    BY <1>1, <1>2, <1>3, <1>4, <1>5, <1>6, <1>7 DEF TemplatesNext

\* Requests and dialogs of DiscoveryNetworksPage are sent and opened there.
LEMMA NetworksOrigin == ASSUME OriginInv, NetworksNext PROVE OriginInv'
<1> USE DEF OriginInv, AtHome, DlgFields, CallFields
<1>1. ASSUME DiscoveryNetworksPage \/ NetworkCreateOpen PROVE OriginInv'
    BY <1>1 DEF DiscoveryNetworksPage, NetworkCreateOpen, Mount, Open, Clear, On, Form, pane
<1>2. ASSUME NetworkType PROVE OriginInv'
    BY <1>2, TypeOrigin DEF NetworkType, Edit
<1>3. ASSUME NetworkSave \/ NetworkDelete PROVE OriginInv'
    BY <1>3 DEF NetworkSave, NetworkDelete, Delete, Submit, Send, Call
<1>4. ASSUME NEW i \in Ids, NetworkEditOpen(i) \/ NetworkDeleteOpen(i) \/ NetworkToggle(i)
      PROVE  OriginInv'
    BY <1>4 DEF NetworkEditOpen, NetworkDeleteOpen, NetworkToggle, NetworkRow, Listed, Open,
       Press, Send, Call, Clear, On, Form
<1>5. ASSUME NEW kind \in {"netNew", "netEdit", "deleteNet"}, Close(kind) PROVE OriginInv'
    BY <1>5 DEF Close, NoDlg, Form
<1>6. ASSUME NEW c \in calls, NetworkSettles(c) PROVE OriginInv'
    BY <1>6 DEF NetworkSettles, FinishAndInvalidate, Finish, Fail, NoDlg, Form
<1>7. QED
    BY <1>1, <1>2, <1>3, <1>4, <1>5, <1>6 DEF NetworksNext

\* Requests and dialogs of UsersPage are sent and opened there.
LEMMA UsersOrigin == ASSUME OriginInv, UsersNext PROVE OriginInv'
<1> USE DEF OriginInv, AtHome, DlgFields, CallFields
<1>1. ASSUME UsersPage \/ UserPager PROVE OriginInv'
    BY <1>1 DEF UsersPage, UserPager, Mount, Turn, pane
<1>2. ASSUME UserAddOpen PROVE OriginInv'
    BY <1>2 DEF UserAddOpen, OpenAfresh, Clear, On, Form
<1>3. ASSUME UserType PROVE OriginInv'
    BY <1>3, TypeOrigin DEF UserType, Edit
<1>4. ASSUME UserSubmit \/ CredentialSubmit \/ UserDelete PROVE OriginInv'
    BY <1>4 DEF UserSubmit, CredentialSubmit, UserDelete, Delete, Submit, Send, Call
<1>5. ASSUME NEW i \in Ids, UserDialogOpen(i) \/ PasswordOpen(i) PROVE OriginInv'
    BY <1>5 DEF UserDialogOpen, PasswordOpen, UserRow, Listed, OpenAfresh, Clear, On, Form
<1>6. ASSUME NEW i \in Ids, Reset2FAOpen(i) \/ UserDeleteOpen(i) \/ HandleToggleEnabled(i)
      PROVE  OriginInv'
    BY <1>6 DEF Reset2FAOpen, UserDeleteOpen, HandleToggleEnabled, UserRow, Listed, Open, Press,
                Send, Call, Clear, On, Form
<1>7. ASSUME NEW kind \in {"user", "password", "reset2fa", "deleteUser"}, Close(kind)
      PROVE  OriginInv'
    BY <1>7 DEF Close, NoDlg, Form
<1>8. ASSUME NEW c \in calls, UserSettles(c) PROVE OriginInv'
    BY <1>8 DEF UserSettles, FinishAndRefetch, RefetchAfter, FinishOnly, Finish, Fail, NoDlg, Form
<1>9. QED
    BY <1>1, <1>2, <1>3, <1>4, <1>5, <1>6, <1>7, <1>8 DEF UsersNext

\* Requests and dialogs of ScannersPage are sent and opened there.
LEMMA ScannersOrigin == ASSUME OriginInv, ScannersNext PROVE OriginInv'
<1> USE DEF OriginInv, AtHome, DlgFields, CallFields
<1>1. ASSUME ScannersPage \/ ScannerCreateOpen PROVE OriginInv'
    BY <1>1 DEF ScannersPage, ScannerCreateOpen, Mount, OpenAfresh, Clear, On, Form, pane
<1>2. ASSUME ScannerCreateType \/ ScannerEditType PROVE OriginInv'
    BY <1>2, TypeOrigin DEF ScannerCreateType, ScannerEditType
<1>3. ASSUME ScannerCreate PROVE OriginInv'
    BY <1>3 DEF ScannerCreate, Submit, Send, Call
<1>4. ASSUME ScannerEdit \/ Regenerate \/ Revoke PROVE OriginInv'
    BY <1>4 DEF ScannerEdit, Regenerate, Revoke, Delete, Submit, Send, Call
<1>5. ASSUME NEW i \in Ids, ScannerEditOpen(i) PROVE OriginInv'
    BY <1>5 DEF ScannerEditOpen, ScannerRow, Listed, OpenAfresh, Clear, On, Form
<1>6. ASSUME NEW i \in Ids, OpenRegenerate(i) \/ RevokeOpen(i) \/ HandleSetDefault(i)
      PROVE  OriginInv'
    BY <1>6 DEF OpenRegenerate, RevokeOpen, HandleSetDefault, ScannerRow, Listed, Open, Press,
                Send, Call, Clear, On, Form
<1>7. ASSUME NEW kind \in {"scannerNew", "scannerEdit", "rotate", "revoke"}, Close(kind)
      PROVE  OriginInv'
    BY <1>7 DEF Close, NoDlg, Form
<1>8. ASSUME NEW c \in calls, ScannerSchedule(c) PROVE OriginInv'
    <2>1. PICK d : d = [c EXCEPT !.op = "cfg", !.rest = <<>>, !.st = "sent"]
        OBVIOUS
    <2>2. calls' = (calls \ {c}) \cup {d} /\ area' = area
        BY <1>8, <2>1 DEF ScannerSchedule
    <2>3. DOMAIN dlg' = DlgFields /\ AtHome(dlg'.kind)
        BY <1>8 DEF ScannerSchedule, pane
    <2> HIDE DEF OriginInv, AtHome, DlgFields, CallFields
    <2>4. DOMAIN c = CallFields
        BY DEF OriginInv
    <2>5. DOMAIN d = CallFields /\ d.by = c.by
        BY <2>1, <2>4 DEF CallFields
    <2>6. QED
        BY <2>2, <2>3, <2>5, CallMoves
<1>9. ASSUME NEW c \in calls, HandleCreated(c) \/ ScannerCreateFails(c) \/ HandleRegenerated(c)
      PROVE  OriginInv'
    BY <1>9 DEF HandleCreated, ScannerCreateFails, HandleRegenerated, Finish, NoDlg, Form
<1>10. ASSUME NEW c \in calls, ScannerSettles(c) PROVE OriginInv'
    BY <1>10 DEF ScannerSettles, FinishAndRefetch, RefetchAfter, Finish, Fail, NoDlg, Form
<1>11. QED
    BY <1>1, <1>2, <1>3, <1>4, <1>5, <1>6, <1>7, <1>8, <1>9, <1>10 DEF ScannersNext

\* Requests and dialogs of Account2FAPage are sent and opened there.
LEMMA TwoFactorOrigin == ASSUME OriginInv, TwoFactorNext PROVE OriginInv'
<1> USE DEF OriginInv, AtHome, DlgFields, CallFields
<1>1. ASSUME Account2FAPage \/ StartSetup PROVE OriginInv'
    BY <1>1 DEF Account2FAPage, StartSetup, Read, Press, Send, Call, Clear, On, pane
<1>2. ASSUME ConfirmSetup \/ CancelSetup PROVE OriginInv'
    BY <1>2 DEF ConfirmSetup, CancelSetup, Submit, Send, Call, Close, NoDlg, Form
<1>3. ASSUME DisableOpen \/ RecoveryOpen PROVE OriginInv'
    BY <1>3 DEF DisableOpen, RecoveryOpen, OpenReset, Clear, On, Form
<1>4. ASSUME Disable \/ RecoveryCodes \/ Close("disable") \/ Close("recovery") PROVE OriginInv'
    BY <1>4 DEF Disable, RecoveryCodes, Submit, Send, Call, Close, NoDlg, Form
<1>5. ASSUME NEW c \in calls, StatusLoaded(c) \/ SetupStarted(c) PROVE OriginInv'
    BY <1>5 DEF StatusLoaded, SetupStarted, Form
<1>6. ASSUME NEW c \in calls, TwoFactorChanged(c) PROVE OriginInv'
    <2>1. PICK d : d = [c EXCEPT !.op = "read", !.rest = <<>>, !.st = "sent"]
        OBVIOUS
    <2>2. calls' = (calls \ {c}) \cup {d} /\ area' = area
        BY <1>6, <2>1 DEF TwoFactorChanged
    <2>3. DOMAIN dlg' = DlgFields /\ AtHome(dlg'.kind)
        BY <1>6 DEF TwoFactorChanged, NoDlg, Form
    <2> HIDE DEF OriginInv, AtHome, DlgFields, CallFields
    <2>4. DOMAIN c = CallFields
        BY DEF OriginInv
    <2>5. DOMAIN d = CallFields /\ d.by = c.by
        BY <2>1, <2>4 DEF CallFields
    <2>6. QED
        BY <2>2, <2>3, <2>5, CallMoves
<1>7. ASSUME NEW c \in calls, TwoFactorSettles(c) PROVE OriginInv'
    BY <1>7 DEF TwoFactorSettles
<1>8. QED
    BY <1>1, <1>2, <1>3, <1>4, <1>5, <1>6, <1>7 DEF TwoFactorNext

\* Requests and dialogs of the two API key pages are sent and opened there.
LEMMA KeysOrigin == ASSUME OriginInv, KeysNext PROVE OriginInv'
<1> USE DEF OriginInv, AtHome, DlgFields, CallFields
<1>1. ASSUME APIKeysPage \/ AccountAPIKeysPage \/ CreateKeyOpen PROVE OriginInv'
    BY <1>1 DEF APIKeysPage, AccountAPIKeysPage, CreateKeyOpen, Mount, OpenReset, Clear, On, Form,
                pane
<1>2. ASSUME CreateKeyType PROVE OriginInv'
    BY <1>2, TypeOrigin DEF CreateKeyType
<1>3. ASSUME HandleRevoke \/ CreateKey \/ RevokeKey PROVE OriginInv'
    BY <1>3 DEF HandleRevoke, CreateKey, RevokeKey, Delete, Submit, Send, Call
<1>4. ASSUME NEW i \in Ids, RevokeKeyOpen(i) \/ AdminRevokeOpen(i) PROVE OriginInv'
    BY <1>4 DEF RevokeKeyOpen, AdminRevokeOpen, KeyRow, Listed, Open, Clear, On, Form
<1>5. ASSUME NEW kind \in {"key", "revokeKey", "adminRevoke"}, Close(kind) PROVE OriginInv'
    BY <1>5 DEF Close, NoDlg, Form
<1>6. ASSUME NEW c \in calls, KeyCreated(c) \/ KeyRevoked(c) PROVE OriginInv'
    BY <1>6 DEF KeyCreated, KeyRevoked, Finish, NoDlg, Form
<1>7. ASSUME NEW c \in calls, KeyFails(c) \/ AdminRevokeSettles(c) PROVE OriginInv'
    BY <1>7 DEF KeyFails, AdminRevokeSettles, FinishAndRefetch, RefetchAfter, Finish, Fail, NoDlg,
                Form
<1>8. QED
    BY <1>1, <1>2, <1>3, <1>4, <1>5, <1>6, <1>7 DEF KeysNext

\* Requests and dialogs of TagsPage are sent and opened there.
LEMMA TagsOrigin == ASSUME OriginInv, TagsNext PROVE OriginInv'
<1> USE DEF OriginInv, AtHome, DlgFields, CallFields
<1>1. ASSUME TagsPage \/ TagDelete PROVE OriginInv'
    BY <1>1 DEF TagsPage, TagDelete, Mount, Delete, Submit, Send, Call, pane
<1>2. ASSUME TagType PROVE OriginInv'
    BY <1>2, TypeOrigin DEF TagType, Edit
<1>3. ASSUME NEW kind \in {"tag", "category"}, TagNew(kind) \/ TagSubmit(kind) PROVE OriginInv'
    BY <1>3 DEF TagNew, TagSubmit, Open, Submit, Send, Call, Clear, On, Form
<1>4. ASSUME NEW kind \in {"tag", "category"}, NEW i \in Ids, TagEdit(kind, i) PROVE OriginInv'
    BY <1>4 DEF TagEdit, TagRow, Listed, Open, Clear, On, Form
<1>5. ASSUME NEW i \in Ids, TagDeleteOpen(i) PROVE OriginInv'
    BY <1>5 DEF TagDeleteOpen, TagRow, Listed, Open, Clear, On, Form
<1>6. ASSUME NEW kind \in {"tag", "category", "deleteTag"}, Close(kind) PROVE OriginInv'
    BY <1>6 DEF Close, NoDlg, Form
<1>7. ASSUME NEW c \in calls, TagSettles(c) PROVE OriginInv'
    BY <1>7 DEF TagSettles, FinishAndRefetch, RefetchAfter, Finish, Fail, NoDlg, Form
<1>8. QED
    BY <1>1, <1>2, <1>3, <1>4, <1>5, <1>6, <1>7 DEF TagsNext

\* Requests and dialogs of MaintenancePage are sent and opened there.
LEMMA JobsOrigin == ASSUME OriginInv, JobsNext PROVE OriginInv'
<1> USE DEF OriginInv, AtHome, DlgFields, CallFields
<1>1. ASSUME MaintenancePage \/ JobClose \/ JobSaveNothing PROVE OriginInv'
    BY <1>1 DEF MaintenancePage, JobClose, JobSaveNothing, Mount, Close, NoDlg, Form, pane
<1>2. ASSUME JobType PROVE OriginInv'
    BY <1>2, TypeOrigin DEF JobType, Edit
<1>3. ASSUME JobSave \/ JobRunInDialog PROVE OriginInv'
    BY <1>3 DEF JobSave, JobRunInDialog, JobChanges, Submit, Send, Call
<1>4. ASSUME NEW i \in Ids, JobEditOpen(i) PROVE OriginInv'
    BY <1>4 DEF JobEditOpen, JobRow, Listed, Clear, On, Form, Read, Call
<1>5. ASSUME NEW i \in Ids, JobRun(i) \/ JobToggle(i) PROVE OriginInv'
    BY <1>5 DEF JobRun, JobToggle, JobRow, Listed, Press, Send, Call, Clear, On
<1>6. ASSUME NEW c \in calls, RetentionLoaded(c) PROVE OriginInv'
    BY <1>6 DEF RetentionLoaded
<1>7. ASSUME NEW c \in calls, JobSaved(c) \/ Dropped(c) \/ JobSettles(c) PROVE OriginInv'
    BY <1>7 DEF JobSaved, Dropped, JobSettles, FinishAndInvalidate, Finish, Fail, NoDlg, Form,
       pane
<1>8. ASSUME NEW c \in calls, JobSaveFails(c) PROVE OriginInv'
    BY <1>8 DEF JobSaveFails, OtherChange
<1>9. QED
    BY <1>1, <1>2, <1>3, <1>4, <1>5, <1>6, <1>7, <1>8 DEF JobsNext

\* A rejected token answers a request, and a handler that looks into the answer
\* finds none, or only sends the tab to the login page.
LEMMA DeniedShape ==
    ASSUME OriginInv, Denied
    PROVE  /\ UNCHANGED <<area, view, held, server, query, pane, reveal, used, ledger>>
           /\ ~auth /\ page' \in {page, "leaving"}
           /\ \/ calls' = calls /\ page' = "leaving"
              \/ \E c \in calls : \E d :
                    /\ calls' = (calls \ {c}) \cup {d} /\ d = [c EXCEPT !.st = d.st]
                    /\ c.st = "sent" /\ d.st \in {"done", "refused"}
                    /\ \A f \in CallFields \ {"st"} : d[f] = c[f]
                    /\ DOMAIN d = CallFields
                    /\ UsesAnswer(c) => d.st = "refused"
                    /\ Bare(c) \/ page' = "leaving"
<1>1. /\ UNCHANGED <<area, view, held, server, query, pane, reveal, used, ledger>>
      /\ ~auth /\ page' \in {page, "leaving"}
    BY DEF Denied
<1>2. CASE calls' = calls /\ page' = "leaving"
    BY <1>1, <1>2
<1>3. CASE \E c \in calls, st \in {"done", "refused"} :
            /\ c.st = "sent" /\ st \in Unanswered(c)
            /\ calls' = Answer(c, st)
            /\ page' = IF Bare(c) THEN page ELSE "leaving"
    <2>1. PICK c \in calls, st \in {"done", "refused"} :
            /\ c.st = "sent" /\ st \in Unanswered(c)
            /\ calls' = Answer(c, st)
            /\ page' = IF Bare(c) THEN page ELSE "leaving"
        BY <1>3
    <2>2. PICK d : d = [c EXCEPT !.st = st]
        OBVIOUS
    <2>3. DOMAIN c = CallFields
        BY DEF OriginInv
    <2>4. DOMAIN d = CallFields /\ d.st = st /\ \A f \in CallFields \ {"st"} : d[f] = c[f]
        BY <2>2, <2>3 DEF CallFields
    <2>5. UsesAnswer(c) => st = "refused"
        BY <2>1 DEF Unanswered
    <2>6. calls' = (calls \ {c}) \cup {d} /\ d = [c EXCEPT !.st = d.st]
        BY <2>1, <2>2, <2>4 DEF Answer
    <2>7. QED
        BY <1>1, <2>1, <2>4, <2>5, <2>6
<1>4. QED
    BY <1>2, <1>3 DEF Denied

\* The session, the server and other tabs send no requests of a page.
LEMMA TabOrigin ==
    ASSUME OriginInv, Session \/ Respond \/ Focus \/ OtherChanges \/ DismissSecret \/ Leave
    PROVE  OriginInv'
<1> USE DEF OriginInv, AtHome, DlgFields, CallFields
<1>1. ASSUME Expire \/ ProtectedRoute \/ Credentials \/ SecondFactor PROVE OriginInv'
    BY <1>1 DEF Expire, ProtectedRoute, Credentials, SecondFactor, NoDlg, Form, pane
<1>9. ASSUME Denied PROVE OriginInv'
    <2> HIDE DEF OriginInv, AtHome, DlgFields, CallFields
    <2>1. UNCHANGED <<area, dlg>>
        BY <1>9, DeniedShape DEF pane
    <2>2. CASE calls' = calls
        BY <2>1, <2>2 DEF OriginInv, AtHome
    <2>3. CASE calls' # calls
        <3>1. PICK c \in calls : \E d : /\ calls' = (calls \ {c}) \cup {d}
                                       /\ \A f \in CallFields \ {"st"} : d[f] = c[f]
                                       /\ DOMAIN d = CallFields
            BY <1>9, <2>3, DeniedShape
        <3>2. PICK d : /\ calls' = (calls \ {c}) \cup {d} /\ d.by = c.by /\ DOMAIN d = CallFields
            BY <3>1 DEF CallFields
        <3>3. QED
            BY <2>1, <3>2, CallMoves DEF OriginInv
    <2>4. QED
        BY <2>2, <2>3
<1>2. ASSUME Unload \/ AuthCallback PROVE OriginInv'
    BY <1>2 DEF Unload, AuthCallback, NewDocument, NoDlg, Form
<1>3. ASSUME Logout \/ Leave PROVE OriginInv'
    BY <1>3 DEF Logout, Leave, Unmount, Orphaned, NoDlg, Form
<1>4. ASSUME NEW k \in Keys, Serve(k) PROVE OriginInv'
    BY <1>4 DEF Serve, pane
<1>5. ASSUME NEW c \in calls, Apply(c) PROVE OriginInv'
    <2> HIDE DEF OriginInv, AtHome, DlgFields, CallFields
    <2>1. DOMAIN c = CallFields
        BY DEF OriginInv
    <2>2. PICK st, v : calls' = (calls \ {c}) \cup {[c EXCEPT !.st = st, !.id = Target(c), !.val = v]}
        BY <1>5 DEF Apply
    <2>3. PICK d : d = [c EXCEPT !.st = st, !.id = Target(c), !.val = v]
        OBVIOUS
    <2>4. DOMAIN d = CallFields /\ d.by = c.by
        BY <2>1, <2>3 DEF CallFields
    <2>5. UNCHANGED <<area, dlg>>
        BY <1>5 DEF Apply, pane
    <2>6. QED
        BY <2>2, <2>3, <2>4, <2>5, CallMoves DEF OriginInv
<1>6. ASSUME NEW c \in calls, Refuse(c) PROVE OriginInv'
    BY <1>6 DEF Refuse, Answer, pane
<1>7. ASSUME Focus \/ OtherChanges \/ DismissSecret PROVE OriginInv'
    BY <1>7 DEF Focus, OtherChanges, DismissSecret, pane
<1>8. QED
    BY <1>1, <1>2, <1>3, <1>4, <1>5, <1>6, <1>7, <1>9 DEF Session, Respond

\* The effects of new rows leave a dialog of the area.
LEMMA DialogsAfterOrigin ==
    ASSUME OriginInv, NEW k \in Keys, NEW d \in DialogsAfter(k)
    PROVE  DOMAIN d = DlgFields /\ AtHome(d.kind)
<1> DEFINE rows == fetch[k].rows
<1> HIDE DEF rows
<1> USE DEF OriginInv, AtHome, DlgFields
<1>1. CASE d = dlg
    BY <1>1
<1>2. CASE area = "endpoint" /\ d = NotesEffect(dlg, rows)
    BY <1>2 DEF NotesEffect, Form
<1>3. CASE area = "mail" /\ d = MailLoaded(rows)
    BY <1>3 DEF MailLoaded, Reloaded, Form
<1>4. CASE area = "group" /\ d = GroupLoaded(rows)
    BY <1>4 DEF GroupLoaded, Reloaded, Form
<1>5. CASE area = "notify" /\ d = NotifyLoaded(k, rows)
    BY <1>5 DEF NotifyLoaded
<1>6. CASE area = "templates" /\ d = TemplatesLoaded(rows)
    BY <1>6 DEF TemplatesLoaded, Form
<1>7. CASE area = "tags" /\ d = TagDialogEffect
    BY <1>7 DEF TagDialogEffect, Form
<1>8. CASE area = "jobs" /\ d \in JobDialogEffects(rows)
    BY <1>8 DEF JobDialogEffects
<1>9. QED
    BY <1>1, <1>2, <1>3, <1>4, <1>5, <1>6, <1>7, <1>8 DEF DialogsAfter, rows

\* An answer that is rendered opens no dialog of another page.
LEMMA DeliverOrigin ==
    ASSUME OriginInv, NEW k \in Keys, Deliver(k) \/ FetchFails(k) PROVE OriginInv'
<1>1. ASSUME NEW d \in DialogsAfter(k), Answered(k, SelectionAfter(k), d) PROVE OriginInv'
    <2>1. dlg' = d /\ UNCHANGED <<area, calls>>
        BY <1>1 DEF Answered
    <2>2. QED
        BY <1>1, <2>1, DialogsAfterOrigin, OriginKept DEF OriginInv
<1>2. CASE FetchFails(k)
    <2>1. UNCHANGED <<area, calls, dlg>>
        BY <1>2 DEF FetchFails, pane
    <2>2. QED
        BY <2>1, OriginKept DEF OriginInv
<1>3. QED
    BY <1>1, <1>2 DEF Deliver

\* Every step keeps requests and dialogs at home.
LEMMA OriginStep == OriginInv /\ [Next]_vars => OriginInv'
<1> SUFFICES ASSUME OriginInv, [Next]_vars PROVE OriginInv'
    OBVIOUS
<1>1. CASE UNCHANGED vars
    <2>1. UNCHANGED <<area, calls, dlg>>
        BY <1>1 DEF vars, pane
    <2>2. QED
        BY <2>1, OriginKept DEF OriginInv
<1>2. CASE Pages
    BY <1>2, EndpointsOrigin, CertsOrigin, InboxOrigin, EndpointOrigin, FormOrigin,
       SettingsOrigin, NotifyOrigin, TemplatesOrigin, NetworksOrigin, UsersOrigin,
       ScannersOrigin, TwoFactorOrigin, KeysOrigin, TagsOrigin, JobsOrigin, TabOrigin DEF Pages
<1>3. QED
    BY <1>1, <1>2, TabOrigin, DeliverOrigin DEF Next

\* A tab starts without requests and without a dialog.
LEMMA OriginInit == Init => OriginInv
BY DEF Init, OriginInv, AtHome, NoDlg, Form, DlgFields

(***************************************************************************)
(* The page a step is taken on                                             *)
(***************************************************************************)
\* The steps of the endpoint list are taken there, and stay there.
LEMMA EndpointsArea == ASSUME OriginInv, EndpointsNext PROVE area = "endpoints" /\ area' = area
<1> USE DEF OriginInv, AtHome
<1>1. ASSUME EndpointPage \/ EndpointPager \/ EndpointFilter \/ TypeSwitch \/ ToggleAll \/ ClearSelection
      PROVE  area = "endpoints" /\ area' = area
    BY <1>1 DEF EndpointPage, EndpointPager, EndpointFilter, TypeSwitch, ToggleAll,
       ClearSelection, Mount, Turn, Select, Clear, On
<1>2. ASSUME NEW i \in Ids, ToggleOne(i) \/ DeleteEndpointOpen(i)
      PROVE  area = "endpoints" /\ area' = area
    BY <1>2 DEF ToggleOne, Select, DeleteEndpointOpen, EndpointRow, Open, Clear, On
<1>3. ASSUME \/ DeleteEndpoint \/ Close("deleteEndpoint") \/ BulkDeleteOpen \/ BulkDeleteConfirm
             \/ BulkTagOpen \/ BulkTagPick \/ BulkTagConfirm \/ EndpointBulkDone
      PROVE  area = "endpoints" /\ area' = area
    BY <1>3 DEF DeleteEndpoint, Close, Submit, BulkDeleteOpen, BulkDeleteConfirm, BulkTagOpen,
       BulkTagPick, BulkTagConfirm, EndpointBulkDone, BulkOpen, BulkRun, BulkClose, Clear, On
<1>4. ASSUME ImportOpen \/ ImportPreview \/ ImportConfirm \/ ImportBack \/ ImportClose
      PROVE  area = "endpoints" /\ area' = area
    BY <1>4 DEF ImportOpen, ImportPreview, ImportConfirm, ImportBack, ImportClose, Open, Clear, On
<1>5. ASSUME NEW c \in calls, DeleteEndpointSettles(c) \/ BulkDeleteSettles(c) \/ BulkTagSettles(c)
                              \/ ImportSettles(c)
      PROVE  area = "endpoints" /\ area' = area
    BY <1>5 DEF DeleteEndpointSettles, BulkDeleteSettles, BulkTagSettles, ImportSettles,
       BulkSettle, FinishAndRefetch, RefetchAfter, Fail
<1>6. QED
    BY <1>1, <1>2, <1>3, <1>4, <1>5 DEF EndpointsNext

\* The steps of the certificate list are taken there, and stay there.
LEMMA CertsArea == ASSUME OriginInv, CertsNext PROVE area = "certs" /\ area' = area
<1> USE DEF OriginInv, AtHome
<1>1. ASSUME CertificatesPage \/ CertPager \/ CertFilter \/ ToggleAllCerts
             \/ \E i \in Ids : ToggleOneCert(i) \/ DeleteCertOpen(i)
      PROVE  area = "certs" /\ area' = area
    BY <1>1 DEF CertificatesPage, CertPager, CertFilter, ToggleAllCerts, ToggleOneCert,
       DeleteCertOpen, CertRow, Mount, Turn, Select, Clear, On
<1>2. ASSUME \/ PurgeTick \/ DeleteCertificate \/ Close("deleteCert") \/ BulkDeleteCertsOpen
             \/ BulkPurgeTick \/ BulkDeleteCertsConfirm \/ CertBulkDone
      PROVE  area = "certs" /\ area' = area
    BY <1>2 DEF PurgeTick, DeleteCertificate, Close, Submit, BulkDeleteCertsOpen, BulkPurgeTick,
                BulkDeleteCertsConfirm, CertBulkDone, BulkOpen, BulkRun, BulkClose, Clear, On
<1>3. ASSUME IngestOpen \/ IngestType \/ IngestSubmit \/ Close("ingest")
      PROVE  area = "certs" /\ area' = area
    BY <1>3 DEF IngestOpen, IngestType, IngestSubmit, Close, Submit, Open, Type, Clear, On
<1>4. ASSUME NEW c \in calls, CertReferences(c) \/ DeleteCertSettles(c) \/ BulkDeleteCertsSettles(c)
                              \/ IngestSettles(c)
      PROVE  area = "certs" /\ area' = area
    BY <1>4 DEF CertReferences, DeleteCertSettles, BulkDeleteCertsSettles, IngestSettles,
       BulkSettle, FinishAndRefetch, RefetchAfter, Fail
<1>5. QED
    BY <1>1, <1>2, <1>3, <1>4 DEF CertsNext

\* The steps of the discovery inbox are taken there, and stay there.
LEMMA InboxArea == ASSUME OriginInv, InboxNext PROVE area = "inbox" /\ area' = area
<1> USE DEF OriginInv, AtHome
<1>1. ASSUME \/ DiscoveryInboxPage \/ ShowDismissed \/ InboxDelete \/ Close("deleteFinding")
             \/ \E i \in Ids : Dismiss(i) \/ InboxDeleteOpen(i) \/ Promote(i)
      PROVE  area = "inbox" /\ area' = area
    BY <1>1 DEF DiscoveryInboxPage, ShowDismissed, InboxDelete, Close, Dismiss, InboxDeleteOpen,
       Promote, InboxActionsMenu, InboxRow, Mount, Turn, Submit, Open, Clear, On
<1>2. ASSUME NEW c \in calls, DismissSettles(c) \/ InboxDeleteSettles(c)
      PROVE  area = "inbox" /\ area' = area
    BY <1>2 DEF DismissSettles, InboxDeleteSettles, FinishAndInvalidate, Fail
<1>3. QED
    BY <1>1, <1>2 DEF InboxNext

\* The steps of an endpoint's detail page, and of opening its form are taken there, and stay there.
LEMMA EndpointArea ==
    ASSUME OriginInv, EndpointNext
    PROVE  area \in {"endpoint", "newEndpoint", "clone"} /\ area' = area
<1> USE DEF OriginInv, AtHome
<1>1. HasDetail => area = "endpoint"
    BY DEF HasDetail, DetailRows, On, NoRows
<1>2. ASSUME \/ EndpointDetailPage \/ ToggleEnabled \/ NotesOpen \/ NotesType \/ NotesSave \/ NotesClose
             \/ DetailDeleteOpen \/ DetailDelete \/ Close("deleteDetail")
      PROVE  area = "endpoint" /\ area' = area
    BY <1>1, <1>2 DEF EndpointDetailPage, ToggleEnabled, NotesOpen, NotesType, NotesSave,
       NotesClose, DetailDeleteOpen, DetailDelete, Close, Mount, Press, Submit, Open, Type
<1>3. ASSUME NEW mode \in {"edit", "new", "clone"}, FormMount(mode)
      PROVE  area \in {"endpoint", "newEndpoint", "clone"} /\ area' = area
    BY <1>1, <1>3 DEF FormMount
<1>4. ASSUME NEW c \in calls, ToggleSettles(c) \/ NotesSettles(c) \/ DetailDeleted(c) \/ FormTagsLoaded(c)
      PROVE  area \in {"endpoint", "clone"} /\ area' = area
    BY <1>4 DEF ToggleSettles, NotesSettles, DetailDeleted, FormTagsLoaded, Fail
<1>5. QED
    BY <1>2, <1>3, <1>4 DEF EndpointNext

\* The steps of EndpointFormPage are taken there, and stay there.
LEMMA FormArea ==
    ASSUME OriginInv, FormNext
    PROVE  area \in {"endpoint", "newEndpoint", "clone", "inbox"} /\ area' = area
<1> USE DEF OriginInv, AtHome
<1>1. ASSUME FormEdit \/ FormTags
      PROVE  area \in {"endpoint", "newEndpoint", "clone", "inbox"} /\ area' = area
    BY <1>1 DEF FormEdit, FormTags, Edit, Type
<1>2. ASSUME FormSave
      PROVE  area \in {"endpoint", "newEndpoint", "clone", "inbox"} /\ area' = area
    BY <1>2 DEF FormSave, Submit, FirstStep
<1>3. ASSUME NEW c \in calls, FormLoaded(c) \/ FormStep(c) \/ FormSaved(c) \/ FormFails(c)
      PROVE  area \in {"endpoint", "newEndpoint", "clone", "inbox"} /\ area' = area
    BY <1>3 DEF FormLoaded, FormStep, FormSaved, FormFails, Fail, IsForm, FirstStep, Modes
<1>4. QED
    BY <1>1, <1>2, <1>3 DEF FormNext

\* The steps of the mail, general and group settings are taken there, and stay there.
LEMMA SettingsArea ==
    ASSUME OriginInv, SettingsNext PROVE area \in {"mail", "general", "group"} /\ area' = area
<1> USE DEF OriginInv, AtHome
<1>1. ASSUME MailConfigPage \/ MailDefaults \/ MailEdit \/ MailSave \/ MailTest
      PROVE  area = "mail" /\ area' = area
    BY <1>1 DEF MailConfigPage, MailDefaults, MailEdit, MailSave, MailTest, MountForm, Edit, Type,
                Submit, On
<1>2. ASSUME \/ GeneralSettingsPage \/ ThresholdsEdit \/ ThresholdsSave
             \/ GroupFormPage \/ GroupEdit \/ GroupHosts \/ GroupSave
      PROVE  area \in {"general", "group"} /\ area' = area
    BY <1>2 DEF GeneralSettingsPage, ThresholdsEdit, ThresholdsSave, GroupFormPage, GroupEdit,
                GroupHosts, GroupSave, Edit, Type, Submit
<1>3. ASSUME NEW c \in calls, MailSettles(c) \/ MailTestSettles(c) \/ ThresholdsLoaded(c)
                              \/ ThresholdsSettle(c) \/ GroupSaved(c)
      PROVE  area \in {"mail", "general", "group"} /\ area' = area
    BY <1>3 DEF MailSettles, MailTestSettles, ThresholdsLoaded, ThresholdsSettle, GroupSaved,
                FinishOnly, Fail
<1>4. QED
    BY <1>1, <1>2, <1>3 DEF SettingsNext

\* The steps of the account's notification page are taken there, and stay there.
LEMMA NotifyArea ==
    ASSUME OriginInv, NotifyNext \/ TemplatesNext PROVE area \in {"notify", "templates"} /\ area' = area
<1> USE DEF OriginInv, AtHome
<1>1. ASSUME \/ AccountNotificationsPage \/ SaveNotify \/ SubscriptionEdit \/ SaveTags
             \/ \E c \in calls : SaveNotifySettles(c) \/ SaveTagsSettles(c)
      PROVE  area = "notify" /\ area' = area
    BY <1>1 DEF AccountNotificationsPage, SaveNotify, SubscriptionEdit, SaveTags,
       SaveNotifySettles, SaveTagsSettles, Edit, Type
<1>2. ASSUME \/ NotificationTemplatesPage \/ TemplateEdit \/ TemplateSave \/ TemplateReset
             \/ \E i \in Ids : ChooseTemplate(i)
             \/ \E c \in calls : TemplateResetStep(c) \/ TemplateSettles(c) \/ TemplateFails(c)
      PROVE  area = "templates" /\ area' = area
    BY <1>2 DEF NotificationTemplatesPage, TemplateEdit, TemplateSave, TemplateReset,
       ChooseTemplate, TemplateResetStep, TemplateSettles, TemplateFails, Fail, Edit, Type,
       Submit, On
<1>3. QED
    BY <1>1, <1>2 DEF NotifyNext, TemplatesNext

\* The steps of the networks, users and tags pages are taken there, and stay there.
LEMMA AdminArea ==
    ASSUME OriginInv, NetworksNext \/ UsersNext \/ TagsNext
    PROVE  area \in {"networks", "users", "tags"} /\ area' = area
<1> USE DEF OriginInv, AtHome
<1>1. ASSUME NetworksNext PROVE area = "networks" /\ area' = area
    BY <1>1 DEF NetworksNext, DiscoveryNetworksPage, NetworkCreateOpen, NetworkType,
       NetworkSave, NetworkDelete, NetworkEditOpen, NetworkDeleteOpen, NetworkToggle,
       NetworkRow, Close, NetworkSettles, Listed, Mount, Open, Edit, Type, Delete, Submit,
       Press, FinishAndInvalidate, Fail, Clear, On
<1>2. ASSUME \/ UsersPage \/ UserPager \/ UserAddOpen \/ UserType \/ UserSubmit
             \/ CredentialSubmit \/ UserDelete
             \/ \E i \in Ids : \/ UserDialogOpen(i) \/ PasswordOpen(i) \/ Reset2FAOpen(i)
                               \/ UserDeleteOpen(i) \/ HandleToggleEnabled(i)
      PROVE  area = "users" /\ area' = area
    BY <1>2 DEF UsersPage, UserPager, UserAddOpen, UserType, UserSubmit, CredentialSubmit,
       UserDelete, UserDialogOpen, PasswordOpen, Reset2FAOpen, UserDeleteOpen,
       HandleToggleEnabled, UserRow, Listed, Mount, Turn, OpenAfresh, Open, Edit, Type, Delete,
       Submit, Press, Clear, On
<1>3. ASSUME \/ \E kind \in {"user", "password", "reset2fa", "deleteUser"} : Close(kind)
             \/ \E c \in calls : UserSettles(c)
      PROVE  area = "users" /\ area' = area
    BY <1>3 DEF Close, UserSettles, FinishAndRefetch, RefetchAfter, FinishOnly, Fail
<1>4. ASSUME TagsNext PROVE area = "tags" /\ area' = area
    BY <1>4 DEF TagsNext, TagsPage, TagType, TagDelete, TagNew, TagSubmit, TagEdit,
       TagDeleteOpen, TagRow, Close, TagSettles, Listed, Mount, Open, Edit, Type, Delete,
       Submit, FinishAndRefetch, RefetchAfter, Fail, Clear, On
<1>5. QED
    BY <1>1, <1>2, <1>3, <1>4 DEF UsersNext

\* The steps of the scanner, two-factor and API key pages are taken there, and stay there.
LEMMA SecretArea ==
    ASSUME OriginInv, ScannersNext \/ TwoFactorNext \/ KeysNext
    PROVE  area \in {"scanners", "twofa", "apikeys", "adminkeys"} /\ area' = area
<1> USE DEF OriginInv, AtHome
<1>1. ASSUME \/ ScannersPage \/ ScannerCreateOpen \/ ScannerCreateType \/ ScannerCreate
             \/ ScannerEditType \/ ScannerEdit \/ Regenerate \/ Revoke
             \/ \E i \in Ids : \/ ScannerEditOpen(i) \/ OpenRegenerate(i)
                               \/ RevokeOpen(i) \/ HandleSetDefault(i)
      PROVE  area = "scanners" /\ area' = area
    BY <1>1 DEF ScannersPage, ScannerCreateOpen, ScannerCreateType, ScannerCreate,
       ScannerEditType, ScannerEdit, Regenerate, Revoke, ScannerEditOpen, OpenRegenerate,
       RevokeOpen, HandleSetDefault, ScannerRow, Listed, Mount, OpenAfresh, Open, Type, Delete,
       Submit, Press, Clear, On
<1>2. ASSUME \/ \E kind \in {"scannerNew", "scannerEdit", "rotate", "revoke"} : Close(kind)
             \/ \E c \in calls : \/ ScannerSchedule(c) \/ HandleCreated(c) \/ ScannerCreateFails(c)
                                 \/ HandleRegenerated(c) \/ ScannerSettles(c)
      PROVE  area = "scanners" /\ area' = area
    BY <1>2 DEF Close, ScannerSchedule, HandleCreated, ScannerCreateFails, HandleRegenerated,
                ScannerSettles, FinishAndRefetch, RefetchAfter, Fail
<1>3. ASSUME TwoFactorNext PROVE area = "twofa" /\ area' = area
    BY <1>3 DEF TwoFactorNext, Account2FAPage, StartSetup, ConfirmSetup, CancelSetup, DisableOpen,
                Disable, RecoveryOpen, RecoveryCodes, Close, StatusLoaded, SetupStarted,
                TwoFactorChanged, TwoFactorSettles, OpenReset, Submit, Press, Clear, On
<1>4. ASSUME KeysNext PROVE area \in {"apikeys", "adminkeys"} /\ area' = area
    BY <1>4 DEF KeysNext, APIKeysPage, HandleRevoke, AccountAPIKeysPage, CreateKeyOpen,
       CreateKeyType, CreateKey, RevokeKey, RevokeKeyOpen, AdminRevokeOpen, KeyRow, Listed,
       Close, KeyCreated, KeyRevoked, KeyFails, AdminRevokeSettles, Mount, OpenReset, Open,
       Type, Delete, Submit, FinishAndRefetch, RefetchAfter, Fail, Clear, On
<1>5. QED
    BY <1>1, <1>2, <1>3, <1>4 DEF ScannersNext

\* The steps of MaintenancePage are taken there, and stay there.
LEMMA JobsArea == ASSUME OriginInv, JobsNext PROVE area = "jobs" /\ area' = area
<1> USE DEF OriginInv, AtHome
<1>1. ASSUME \/ MaintenancePage \/ JobType \/ JobClose \/ JobSave \/ JobSaveNothing \/ JobRunInDialog
             \/ \E i \in Ids : JobEditOpen(i) \/ JobRun(i) \/ JobToggle(i)
      PROVE  area = "jobs" /\ area' = area
    BY <1>1 DEF MaintenancePage, JobType, JobClose, JobSave, JobSaveNothing, JobRunInDialog,
                JobEditOpen, JobRun, JobToggle, JobRow, Listed, Mount, Close, Edit, Type, Submit,
                Press, Clear, On
<1>2. ASSUME NEW c \in calls, \/ RetentionLoaded(c) \/ JobSaved(c) \/ JobSaveFails(c)
                              \/ Dropped(c) \/ JobSettles(c)
      PROVE  area = "jobs" /\ area' = area
    BY <1>2 DEF RetentionLoaded, JobSaved, JobSaveFails, Dropped, JobSettles,
       FinishAndInvalidate, Fail
<1>3. QED
    BY <1>1, <1>2 DEF JobsNext

(***************************************************************************)
(* What steps do to the query cache                                        *)
(***************************************************************************)
\* Detail pages are the endpoint's, and lists one selects in are no forms.
PagesAtHome ==
    /\ page \in {"away", "list", "detail", "form", "login", "leaving"}
    /\ page = "detail" => area = "endpoint"
    /\ page = "form" => area \notin {"endpoints", "certs"}

\* The cache and the queries have their shape, and count the writes that were
\* answered.
QueryType ==
    /\ acks \in Nat /\ view \in Keys
    /\ DOMAIN cache = Keys /\ DOMAIN fetch = Keys /\ DOMAIN owed = Keys
    /\ \A k \in Keys : /\ DOMAIN cache[k] = {"have", "rows", "inv", "at"}
                       /\ cache[k].have \in BOOLEAN /\ cache[k].inv \in BOOLEAN
                       /\ fetch[k].st \in {"idle", "asked", "served"}
                       /\ cache[k].at \in 0..acks /\ fetch[k].at \in 0..acks
                       /\ owed[k] \in 0..acks

\* The inductive invariant of the query cache: what was served since a write shows
\* it, and no list that a write owes a refetch is shown as current.
QueryInv ==
    /\ PagesAtHome /\ QueryType
    \* what was served shows the writes its key owes
    /\ \A k \in Keys : fetch[k].st = "served" => fetch[k].at >= owed[k]
    /\ StaleRowsAreRefetched

\* The ways a step may change page and queries: it may ask for a key, turn to
\* another page, fetch the list in view after a write, mark all lists out of date,
\* or put the answer of a write in the place of the record.
AsksOnly ==
    /\ UNCHANGED <<area, cache, acks, owed>> /\ view' \in Keys /\ DOMAIN fetch' = Keys
    /\ \A k \in Keys : \/ fetch'[k] = fetch[k]
                       \/ fetch'[k].st = "asked" /\ fetch'[k].at = 0 /\ fetch'[k].rows = NoRows
    /\ PagesAtHome'
Refetches ==
    UNCHANGED <<area, page, view, cache>> /\ fetch' = Refetch(view) /\ Owe({view})
Invalidates ==
    /\ UNCHANGED <<area, page, view>> /\ cache' = Invalidate
    /\ \/ fetch' = (IF Watched(view) THEN Refetch(view) ELSE fetch) /\ Owe(Reached)
       \/ fetch' = Refetch(view) /\ OweNothing
SetsDetail ==
    /\ UNCHANGED <<area, page, view, fetch, acks, owed>>
    /\ \E c \in calls : c.by \in {"toggle", "notes"} /\ cache' = SetQueryData(c)
QueryStep == AsksOnly \/ Refetches \/ Invalidates \/ SetsDetail

\* Asking for a key replaces the query of that key alone.
LEMMA AskIsAsked ==
    ASSUME QueryType, NEW k \in Keys
    PROVE  /\ DOMAIN Ask(k) = Keys
           /\ Ask(k)[k].st = "asked" /\ Ask(k)[k].at = 0 /\ Ask(k)[k].rows = NoRows
           /\ \A l \in Keys : l # k => Ask(k)[l] = fetch[l]
BY DEF QueryType, Ask, Idle

\* Each of the four ways keeps the invariant.
LEMMA KeepsQueryInv ==
    ASSUME QueryInv, QueryStep PROVE QueryInv'
<1>1. CASE AsksOnly
    BY <1>1 DEF AsksOnly, QueryInv, QueryType, StaleRowsAreRefetched
<1>2. QueryType /\ view \in Keys /\ acks \in Nat
    BY DEF QueryInv, QueryType
<1>3. ASSUME NEW k \in Keys
      PROVE  /\ DOMAIN Refetch(view) = Keys
             /\ \/ Refetch(view)[k] = fetch[k] /\ (k = view => ~cache[k].have /\ fetch[k].st # "idle")
                \/ k = view /\ Refetch(view)[k].st = "asked" /\ Refetch(view)[k].at = 0
    BY <1>2, <1>3, AskIsAsked DEF Refetch, QueryType
<1>4. CASE Refetches
    <2>1. \A k \in Keys : owed'[k] = IF k = view /\ cache[k].have THEN acks + 1 ELSE owed[k]
        BY <1>4 DEF Refetches, Owe
    <2>2. acks' = acks + 1 /\ DOMAIN owed' = Keys /\ UNCHANGED <<area, page, view, cache>>
          /\ fetch' = Refetch(view)
        BY <1>4 DEF Refetches, Owe
    <2>3. PagesAtHome'
        BY <2>2 DEF PagesAtHome, QueryInv
    <2>4. QueryType'
        BY <1>2, <1>3, <2>1, <2>2 DEF QueryType
    <2>5. QED
        BY <1>2, <1>3, <2>1, <2>2, <2>3, <2>4 DEF QueryInv, QueryType, StaleRowsAreRefetched
<1>5. CASE Invalidates
    <2>1. \A k \in Keys : /\ cache'[k].have = cache[k].have /\ cache'[k].at = cache[k].at
                          /\ cache'[k].inv = cache[k].have
                          /\ DOMAIN cache'[k] = {"have", "rows", "inv", "at"}
        BY <1>2, <1>5 DEF Invalidates, Invalidate, QueryType
    <2>2. DOMAIN cache' = Keys /\ UNCHANGED <<area, page, view>>
        BY <1>5 DEF Invalidates, Invalidate
    <2>3. PagesAtHome'
        BY <2>2 DEF PagesAtHome, QueryInv
    <2>4. CASE fetch' = Refetch(view) /\ OweNothing
        <3>1. QueryType'
            BY <1>2, <1>3, <2>1, <2>2, <2>4 DEF QueryType, OweNothing
        <3>2. QED
            BY <1>2, <1>3, <2>1, <2>2, <2>3, <2>4, <3>1
               DEF QueryInv, QueryType, StaleRowsAreRefetched, OweNothing
    <2>5. CASE fetch' = (IF Watched(view) THEN Refetch(view) ELSE fetch) /\ Owe(Reached)
        <3>1. \A k \in Keys : owed'[k] = IF k \in Reached /\ cache[k].have THEN acks + 1 ELSE owed[k]
            BY <2>5 DEF Owe
        <3>2. acks' = acks + 1 /\ DOMAIN owed' = Keys
            BY <2>5 DEF Owe
        <3>3. \A k \in Keys : k \in Reached => fetch[k].st = "idle" \/ (k = view /\ Watched(view))
            BY DEF Reached, Watched
        <3>4. DOMAIN fetch' = Keys /\ \A k \in Keys :
                \/ fetch'[k] = fetch[k] /\ (k \in Reached /\ cache[k].have => fetch[k].st = "idle")
                \/ fetch'[k].st = "asked" /\ fetch'[k].at = 0
            BY <1>2, <1>3, <2>5, <3>3 DEF QueryType
        <3>5. QueryType'
            BY <1>2, <2>1, <2>2, <3>1, <3>2, <3>4 DEF QueryType
        <3>6. QED
            BY <1>2, <2>1, <2>2, <2>3, <3>1, <3>2, <3>4, <3>5
               DEF QueryInv, QueryType, StaleRowsAreRefetched
    <2>6. QED
        BY <1>5, <2>4, <2>5 DEF Invalidates
<1>6. CASE SetsDetail
    <2>1. PICK c : cache' = SetQueryData(c)
        BY <1>6 DEF SetsDetail
    <2>2. UNCHANGED <<area, page, view, fetch, acks, owed>>
        BY <1>6 DEF SetsDetail
    <2>0. PICK r : cache' = [cache EXCEPT !["detail"] = [have |-> TRUE, rows |-> r, inv |-> FALSE,
                                                         at |-> acks]]
        BY <2>1 DEF SetQueryData
    <2>3. /\ DOMAIN cache' = Keys
          /\ \A k \in Keys : k # "detail" => cache'[k] = cache[k]
          /\ DOMAIN cache'["detail"] = {"have", "rows", "inv", "at"}
          /\ cache'["detail"].have = TRUE /\ cache'["detail"].inv = FALSE
          /\ cache'["detail"].at = acks
        BY <1>2, <2>0 DEF QueryType, Keys
    <2>4. PagesAtHome'
        BY <2>2 DEF QueryInv, PagesAtHome
    <2>5. QueryType'
        <3>1. acks' \in Nat /\ view' \in Keys /\ DOMAIN cache' = Keys /\ DOMAIN fetch' = Keys
              /\ DOMAIN owed' = Keys
            BY <1>2, <2>2, <2>3 DEF QueryType
        <3>2. ASSUME NEW k \in Keys
              PROVE  /\ DOMAIN cache'[k] = {"have", "rows", "inv", "at"}
                     /\ cache'[k].have \in BOOLEAN /\ cache'[k].inv \in BOOLEAN
                     /\ cache'[k].at \in 0..acks
            <4>1. CASE k = "detail"
                <5>1. cache'[k].have \in BOOLEAN /\ cache'[k].inv \in BOOLEAN
                    BY <2>3, <4>1, Zenon
                <5>2. acks \in 0..acks
                    BY <1>2
                <5>3. cache'[k].at \in 0..acks
                    BY <2>3, <4>1, <5>2
                <5>4. QED
                    BY <2>3, <4>1, <5>1, <5>3
            <4>2. CASE k # "detail"
                BY <1>2, <2>3, <4>2 DEF QueryType
            <4>3. QED
                BY <4>1, <4>2
        <3>3. QED
            BY <1>2, <2>2, <3>1, <3>2 DEF QueryType
    <2>6. \A k \in Keys : fetch'[k].st = "served" => fetch'[k].at >= owed'[k]
        BY <2>2 DEF QueryInv
    <2>7. StaleRowsAreRefetched'
        <3>1. \A k \in Keys : cache'[k] = cache[k] \/ cache'[k].at = acks
            BY <2>3
        <3>2. \A k \in Keys : cache'[k].at = acks => ~(owed[k] > cache'[k].at)
            BY <1>2 DEF QueryType
        <3>3. QED
            BY <2>2, <3>1, <3>2 DEF QueryInv, StaleRowsAreRefetched
    <2>8. QED
        BY <2>4, <2>5, <2>6, <2>7 DEF QueryInv
<1>7. QED
    BY <1>1, <1>4, <1>5, <1>6 DEF QueryStep

\* Most steps leave page and queries alone.
Quiet == UNCHANGED <<area, page, view, cache, fetch, acks, owed>>

\* A step that leaves the queries alone is such a step.
LEMMA QuietStep == ASSUME QueryInv, Quiet PROVE QueryStep
BY DEF QueryInv, QueryType, PagesAtHome, Quiet, QueryStep, AsksOnly

\* A component that mounts asks for its key, unless what is cached is current.
LEMMA ObserveStep ==
    ASSUME QueryInv, NEW k \in Keys, Observe(k), UNCHANGED <<area, cache, acks, owed>>, PagesAtHome'
    PROVE  QueryStep
<1>1. fetch' = Ask(k) \/ fetch' = fetch
    BY DEF Observe
<1>2. DOMAIN fetch' = Keys
      /\ \A l \in Keys : \/ fetch'[l] = fetch[l]
                         \/ fetch'[l].st = "asked" /\ fetch'[l].at = 0 /\ fetch'[l].rows = NoRows
    BY <1>1, AskIsAsked DEF QueryInv, QueryType
<1>3. QED
    BY <1>2 DEF Observe, QueryStep, AsksOnly

\* Leaving a page, or going to one that asks nothing.
LEMMA GoStep ==
    ASSUME QueryInv, UNCHANGED <<area, view, cache, fetch, acks, owed>>, PagesAtHome'
    PROVE  QueryStep
BY DEF QueryInv, QueryType, QueryStep, AsksOnly

\* A page that mounts observes its list or its record.
LEMMA MountStep ==
    ASSUME QueryInv, NEW p \in {"list", "detail"}, NEW k \in Keys, Mount(p, k),
           p = "detail" => area = "endpoint"
    PROVE  QueryStep
BY ObserveStep DEF Mount, PagesAtHome, ledger

\* The requests a component settles: an error, a refetch, an invalidation.
LEMMA FailStep == ASSUME QueryInv, NEW c, Fail(c) PROVE QueryStep
BY QuietStep DEF Fail, Quiet, nav, query

\* A write that calls refetch() fetches the list in view.
LEMMA RefetchStep == ASSUME QueryInv, NEW c, RefetchAfter(c) PROVE QueryStep
<1>1. CASE page = "login"
    <2>1. UNCHANGED <<area, view, cache, fetch, acks, owed>> /\ PagesAtHome'
        BY <1>1 DEF RefetchAfter, OweNothing, PagesAtHome
    <2>2. QED
        BY <2>1, GoStep
<1>2. CASE page # "login"
    BY <1>2 DEF RefetchAfter, QueryStep, Refetches
<1>3. QED
    BY <1>1, <1>2

\* A write that calls invalidateQueries marks every list, and fetches the one that
\* is watched.
LEMMA InvalidateStep == ASSUME NEW c, FinishAndInvalidate(c) PROVE QueryStep
BY DEF FinishAndInvalidate, QueryStep, Invalidates, nav

\* The pages, one by one.
LEMMA EndpointsQuery ==
    ASSUME OriginInv, QueryInv, EndpointsNext PROVE QueryStep
<1>1. CASE EndpointPage
    BY <1>1, MountStep DEF EndpointPage, Keys
<1>2. ASSUME NEW k \in Keys, Observe(k), UNCHANGED <<area, page, cache, acks, owed>> PROVE QueryStep
    BY <1>2, ObserveStep DEF QueryInv, PagesAtHome
<1>3. CASE EndpointPager \/ EndpointFilter \/ TypeSwitch
    BY <1>2, <1>3 DEF EndpointPager, EndpointFilter, TypeSwitch, Turn, Keys, ledger
<1>4. ASSUME ToggleAll \/ ClearSelection \/ \E i \in Ids : ToggleOne(i) \/ DeleteEndpointOpen(i)
      PROVE  Quiet
    BY <1>4 DEF ToggleOne, ToggleAll, ClearSelection, Select, DeleteEndpointOpen, Open, Quiet,
       nav, query, ledger
<1>5. ASSUME DeleteEndpoint \/ Close("deleteEndpoint") \/ BulkDeleteOpen \/ BulkDeleteConfirm
      PROVE  Quiet
    BY <1>5 DEF DeleteEndpoint, Submit, Close, BulkDeleteOpen, BulkDeleteConfirm, BulkOpen,
       BulkRun, Quiet, nav, query, ledger
<1>6. ASSUME BulkTagOpen \/ BulkTagPick \/ BulkTagConfirm PROVE Quiet
    BY <1>6 DEF BulkTagOpen, BulkTagPick, BulkTagConfirm, BulkOpen, BulkRun, Quiet, nav, query,
                ledger
<1>7. ASSUME NEW kind, BulkClose(kind) PROVE QueryStep
    <2>1. Quiet \/ Refetches
        BY <1>7 DEF BulkClose, Refetches, Quiet, OweNothing, nav
    <2>2. QED
        BY <2>1, QuietStep DEF QueryStep
<1>8. ASSUME ImportOpen \/ ImportPreview \/ ImportConfirm \/ ImportBack PROVE Quiet
    BY <1>8 DEF ImportOpen, ImportPreview, ImportConfirm, ImportBack, Open, Quiet, nav, query,
       ledger
<1>9. CASE ImportClose
    <2>1. Quiet \/ Refetches
        BY <1>9 DEF ImportClose, Refetches, Quiet, OweNothing, nav
    <2>2. QED
        BY <2>1, QuietStep DEF QueryStep
<1>10. ASSUME NEW c \in calls, DeleteEndpointSettles(c) PROVE QueryStep
    BY <1>10, FailStep, RefetchStep DEF DeleteEndpointSettles, FinishAndRefetch
<1>11. ASSUME NEW c \in calls, BulkDeleteSettles(c) \/ BulkTagSettles(c) \/ ImportSettles(c)
       PROVE  Quiet
    BY <1>11 DEF BulkDeleteSettles, BulkTagSettles, ImportSettles, BulkSettle, Quiet, nav, query,
                 ledger
<1>12. QED
    BY <1>1, <1>3, <1>4, <1>5, <1>6, <1>7, <1>8, <1>9, <1>10, <1>11, QuietStep
       DEF EndpointsNext, EndpointBulkDone

\* Another key of the same page.
LEMMA TurnStep == ASSUME QueryInv, NEW k \in Keys, NEW s, Turn(k, s) PROVE QueryStep
BY ObserveStep DEF Turn, QueryInv, PagesAtHome, ledger

\* The bulk dialogs refetch when they close after a run.
LEMMA BulkCloseStep == ASSUME QueryInv, NEW kind, BulkClose(kind) PROVE QueryStep
<1>1. Quiet \/ Refetches
    BY DEF BulkClose, Refetches, Quiet, OweNothing, nav
<1>2. QED
    BY <1>1, QuietStep DEF QueryStep

\* What the steps of the certificate list do to the query cache.
LEMMA CertsQuery ==
    ASSUME OriginInv, QueryInv, CertsNext PROVE QueryStep
<1>1. CASE CertificatesPage
    BY <1>1, MountStep DEF CertificatesPage, Keys
<1>2. CASE CertPager \/ CertFilter
    BY <1>2, TurnStep DEF CertPager, CertFilter, Keys
<1>3. ASSUME ToggleAllCerts \/ \E i \in Ids : ToggleOneCert(i) \/ DeleteCertOpen(i) PROVE Quiet
    BY <1>3 DEF ToggleOneCert, ToggleAllCerts, Select, DeleteCertOpen, Quiet, nav, query, ledger
<1>4. ASSUME PurgeTick \/ DeleteCertificate \/ Close("deleteCert") \/ Close("ingest") PROVE Quiet
    BY <1>4 DEF PurgeTick, DeleteCertificate, Submit, Close, Quiet, nav, query, ledger
<1>5. ASSUME BulkDeleteCertsOpen \/ BulkPurgeTick \/ BulkDeleteCertsConfirm PROVE Quiet
    BY <1>5 DEF BulkDeleteCertsOpen, BulkPurgeTick, BulkDeleteCertsConfirm, BulkOpen, BulkRun,
       Quiet, nav, query, ledger
<1>6. CASE CertBulkDone
    BY <1>6, BulkCloseStep DEF CertBulkDone
<1>7. ASSUME IngestOpen \/ IngestType \/ IngestSubmit PROVE Quiet
    BY <1>7 DEF IngestOpen, IngestType, IngestSubmit, Open, Type, Submit, Quiet, nav, query,
       ledger
<1>8. ASSUME NEW c \in calls, CertReferences(c) \/ BulkDeleteCertsSettles(c) PROVE Quiet
    BY <1>8 DEF CertReferences, BulkDeleteCertsSettles, BulkSettle, Quiet, nav, query, ledger
<1>9. ASSUME NEW c \in calls, DeleteCertSettles(c) PROVE QueryStep
    BY <1>9, FailStep, RefetchStep DEF DeleteCertSettles, FinishAndRefetch
<1>10. ASSUME NEW c \in calls, IngestSettles(c) PROVE QueryStep
    <2>1. CASE Fail(c)
        BY <2>1, FailStep
    <2>2. CASE ~Fail(c) /\ SignedOut
        BY <1>10, <2>2, QuietStep DEF IngestSettles, Quiet, nav, query
    <2>3. CASE ~Fail(c) /\ ~SignedOut
        BY <1>10, <2>3, GoStep DEF IngestSettles, PagesAtHome, query
    <2>4. QED
        BY <2>1, <2>2, <2>3
<1>11. QED
    BY <1>1, <1>2, <1>3, <1>4, <1>5, <1>6, <1>7, <1>8, <1>9, <1>10, QuietStep DEF CertsNext

\* What the steps of the discovery inbox do to the query cache.
LEMMA InboxQuery ==
    ASSUME OriginInv, QueryInv, InboxNext PROVE QueryStep
<1>1. CASE DiscoveryInboxPage
    BY <1>1, MountStep DEF DiscoveryInboxPage, Keys
<1>2. CASE ShowDismissed
    BY <1>2, TurnStep DEF ShowDismissed, Keys
<1>3. ASSUME \/ \E i \in Ids : Dismiss(i) \/ InboxDeleteOpen(i)
             \/ InboxDelete \/ Close("deleteFinding")
      PROVE  Quiet
    BY <1>3 DEF Dismiss, InboxDeleteOpen, InboxDelete, Open, Submit, Close, Quiet, nav, query,
                ledger
<1>4. ASSUME NEW i \in Ids, Promote(i) PROVE QueryStep
    BY <1>4, GoStep DEF Promote, InboxActionsMenu, InboxRow, Clear, On, PagesAtHome, query
<1>5. ASSUME NEW c \in calls, DismissSettles(c) PROVE QueryStep
    <2>1. area = "inbox"
        BY <1>5 DEF DismissSettles, OriginInv, AtHome
    <2>2. On("inbox", "list") <=> Watched(view)
        BY <2>1 DEF On, Watched, Mounted, SignedOut, QueryInv, PagesAtHome
    <2>3. CASE c.st = "done"
        BY <1>5, <2>2, <2>3 DEF DismissSettles, QueryStep, Invalidates, nav
    <2>4. CASE c.st # "done"
        BY <1>5, <2>4, QuietStep DEF DismissSettles, Quiet, nav, query, OweNothing
    <2>5. QED
        BY <2>3, <2>4
<1>6. ASSUME NEW c \in calls, InboxDeleteSettles(c) PROVE QueryStep
    BY <1>6, FailStep, InvalidateStep DEF InboxDeleteSettles
<1>7. QED
    BY <1>1, <1>2, <1>3, <1>4, <1>5, <1>6, QuietStep DEF InboxNext

\* What the steps of an endpoint's detail page, and of opening its form do to the query cache.
LEMMA EndpointQuery ==
    ASSUME OriginInv, QueryInv, EndpointNext PROVE QueryStep
<1>1. CASE EndpointDetailPage
    BY <1>1, MountStep DEF EndpointDetailPage, Keys
<1>2. ASSUME ToggleEnabled \/ NotesOpen \/ NotesType \/ NotesSave PROVE Quiet
    BY <1>2 DEF ToggleEnabled, NotesOpen, NotesType, NotesSave, Press, Open, Type, Submit,
       Quiet, nav, query, ledger
<1>3. ASSUME NotesClose \/ DetailDeleteOpen \/ DetailDelete \/ Close("deleteDetail") PROVE Quiet
    BY <1>3 DEF NotesClose, DetailDeleteOpen, DetailDelete, Open, Submit, Close, Quiet, nav,
       query, ledger
<1>4. ASSUME NEW mode \in {"edit", "new", "clone"}, FormMount(mode) PROVE QueryStep
    <2>1. HasDetail => area = "endpoint"
        BY DEF HasDetail, DetailRows, On, NoRows
    <2>2. area \notin {"endpoints", "certs"}
        BY <1>4, <2>1 DEF FormMount
    <2>3. UNCHANGED <<area, view, cache, fetch, acks, owed>> /\ page' = "form"
        BY <1>4 DEF FormMount, query
    <2>4. QED
        BY <2>2, <2>3, GoStep DEF PagesAtHome
<1>5. ASSUME NEW c \in calls, ToggleSettles(c) PROVE QueryStep
    <2>1. Quiet \/ SetsDetail
        BY <1>5 DEF ToggleSettles, SetsDetail, Quiet, nav, ledger
    <2>2. QED
        BY <2>1, QuietStep DEF QueryStep
<1>6. ASSUME NEW c \in calls, NotesSettles(c) PROVE QueryStep
    <2>1. Fail(c) \/ SetsDetail
        BY <1>6 DEF NotesSettles, SetsDetail, nav, ledger
    <2>2. QED
        BY <2>1, FailStep DEF QueryStep
<1>7. ASSUME NEW c \in calls, DetailDeleted(c) PROVE QueryStep
    <2>1. CASE Fail(c)
        BY <2>1, FailStep
    <2>2. CASE ~Fail(c)
        <3>1. UNCHANGED <<area, view, cache, fetch, acks, owed>> /\ (page' = page \/ page' = "away")
            BY <1>7, <2>2 DEF DetailDeleted, nav, query
        <3>2. QED
            BY <3>1, GoStep DEF QueryInv, PagesAtHome
    <2>3. QED
        BY <2>1, <2>2
<1>8. ASSUME NEW c \in calls, FormTagsLoaded(c) PROVE Quiet
    BY <1>8 DEF FormTagsLoaded, Quiet, nav, query, ledger
<1>9. QED
    BY <1>1, <1>2, <1>3, <1>4, <1>5, <1>6, <1>7, <1>8, QuietStep DEF EndpointNext

\* What the steps of EndpointFormPage do to the query cache.
LEMMA FormQuery ==
    ASSUME OriginInv, QueryInv, FormNext PROVE QueryStep
<1>1. ASSUME FormEdit \/ FormTags \/ FormSave PROVE Quiet
    BY <1>1 DEF FormEdit, FormTags, FormSave, Edit, Type, Submit, Quiet, nav, query, ledger
<1>2. ASSUME NEW c \in calls, FormLoaded(c) \/ FormStep(c) \/ FormFails(c) PROVE Quiet
    BY <1>2 DEF FormLoaded, FormStep, FormFails, Fail, Quiet, nav, query, ledger
<1>3. ASSUME NEW c \in calls, FormSaved(c) PROVE QueryStep
    <2>1. CASE SignedOut
        BY <1>3, <2>1, QuietStep DEF FormSaved, Quiet, nav
    <2>2. CASE ~SignedOut /\ c.by = "edit"
        <3>1. area = "endpoint"
            BY <2>2 DEF OriginInv, AtHome
        <3>2. Observe("detail") /\ UNCHANGED <<area, cache, acks, owed>> /\ page' = "detail"
            BY <1>3, <2>2 DEF FormSaved
        <3>3. QED
            BY <3>1, <3>2, ObserveStep DEF PagesAtHome, Keys
    <2>3. CASE ~SignedOut /\ c.by # "edit"
        BY <1>3, <2>3, GoStep DEF FormSaved, PagesAtHome
    <2>4. QED
        BY <2>1, <2>2, <2>3
<1>4. QED
    BY <1>1, <1>2, <1>3, QuietStep DEF FormNext

\* What the steps of the mail, general and group settings do to the query cache.
LEMMA SettingsQuery ==
    ASSUME OriginInv, QueryInv, SettingsNext PROVE QueryStep
<1>1. CASE MailConfigPage
    BY <1>1, ObserveStep DEF MailConfigPage, MountForm, PagesAtHome, Keys, ledger
<1>2. ASSUME MailDefaults \/ MailEdit \/ MailSave \/ MailTest PROVE Quiet
    BY <1>2 DEF MailDefaults, MailEdit, MailSave, MailTest, Edit, Type, Submit, Quiet, nav, query,
                ledger
<1>3. CASE GeneralSettingsPage
    BY <1>3, GoStep DEF GeneralSettingsPage, PagesAtHome, query, ledger
<1>4. ASSUME ThresholdsEdit \/ ThresholdsSave \/ GroupEdit \/ GroupHosts \/ GroupSave PROVE Quiet
    BY <1>4 DEF ThresholdsEdit, ThresholdsSave, GroupEdit, GroupHosts, GroupSave, Edit, Type,
       Submit, Quiet, nav, query, ledger
<1>5. CASE GroupFormPage
    BY <1>5, ObserveStep, GoStep DEF GroupFormPage, PagesAtHome, Keys
<1>6. ASSUME NEW c \in calls, MailSettles(c) \/ MailTestSettles(c) PROVE Quiet
    BY <1>6 DEF MailSettles, MailTestSettles, FinishOnly, Fail, Quiet, nav, query, ledger
<1>7. ASSUME NEW c \in calls, ThresholdsLoaded(c) \/ ThresholdsSettle(c) PROVE Quiet
    BY <1>7 DEF ThresholdsLoaded, ThresholdsSettle, Fail, Quiet, nav, query, ledger
<1>8. ASSUME NEW c \in calls, GroupSaved(c) PROVE QueryStep
    <2>1. CASE Fail(c)
        BY <2>1, FailStep
    <2>2. CASE ~Fail(c)
        <3>1. UNCHANGED <<area, view, cache, fetch, acks, owed>> /\ (page' = page \/ page' = "away")
            BY <1>8, <2>2 DEF GroupSaved, nav, query
        <3>2. QED
            BY <3>1, GoStep DEF QueryInv, PagesAtHome
    <2>3. QED
        BY <2>1, <2>2
<1>9. QED
    BY <1>1, <1>2, <1>3, <1>4, <1>5, <1>6, <1>7, <1>8, QuietStep DEF SettingsNext

\* What the steps of the account's notification page do to the query cache.
LEMMA NotifyQuery ==
    ASSUME OriginInv, QueryInv, NotifyNext PROVE QueryStep
<1>1. CASE AccountNotificationsPage
    <2>1. \A k \in Keys : \/ fetch'[k] = fetch[k]
                          \/ fetch'[k].st = "asked" /\ fetch'[k].at = 0 /\ fetch'[k].rows = NoRows
        BY <1>1 DEF AccountNotificationsPage, Idle
    <2>2. PagesAtHome' /\ DOMAIN fetch' = Keys /\ view' \in Keys
        BY <1>1 DEF AccountNotificationsPage, PagesAtHome, Keys
    <2>3. QED
        BY <1>1, <2>1, <2>2 DEF AccountNotificationsPage, QueryStep, AsksOnly, ledger
<1>2. ASSUME SaveNotify \/ SubscriptionEdit \/ SaveTags PROVE Quiet
    BY <1>2 DEF SaveNotify, SubscriptionEdit, SaveTags, Edit, Type, Quiet, nav, query, ledger
<1>3. ASSUME NEW c \in calls, SaveNotifySettles(c) \/ SaveTagsSettles(c) PROVE Quiet
    BY <1>3 DEF SaveNotifySettles, SaveTagsSettles, Quiet, nav, query, ledger
<1>4. QED
    BY <1>1, <1>2, <1>3, QuietStep DEF NotifyNext

\* What the steps of NotificationTemplatesPage do to the query cache.
LEMMA TemplatesQuery ==
    ASSUME OriginInv, QueryInv, TemplatesNext PROVE QueryStep
<1>1. CASE NotificationTemplatesPage
    BY <1>1, ObserveStep DEF NotificationTemplatesPage, PagesAtHome, Keys, ledger
<1>2. ASSUME \/ TemplateEdit \/ TemplateSave \/ TemplateReset
             \/ \E i \in Ids : ChooseTemplate(i)
      PROVE  Quiet
    BY <1>2 DEF TemplateEdit, TemplateSave, TemplateReset, ChooseTemplate, Edit, Type, Submit,
       Quiet, nav, query, ledger
<1>3. ASSUME NEW c \in calls, TemplateResetStep(c) \/ TemplateSettles(c) \/ TemplateFails(c)
      PROVE  Quiet
    BY <1>3 DEF TemplateResetStep, TemplateSettles, TemplateFails, Fail, Quiet, nav, query, ledger
<1>4. QED
    BY <1>1, <1>2, <1>3, QuietStep DEF TemplatesNext

\* What the steps of DiscoveryNetworksPage do to the query cache.
LEMMA NetworksQuery ==
    ASSUME OriginInv, QueryInv, NetworksNext PROVE QueryStep
<1>1. CASE DiscoveryNetworksPage
    BY <1>1, MountStep DEF DiscoveryNetworksPage, Keys
<1>2. ASSUME NetworkCreateOpen \/ NetworkType \/ NetworkSave \/ NetworkDelete PROVE Quiet
    BY <1>2 DEF NetworkCreateOpen, NetworkType, NetworkSave, NetworkDelete, Open, Edit, Type,
       Delete, Submit, Quiet, nav, query, ledger
<1>3. ASSUME NEW i \in Ids, NetworkEditOpen(i) \/ NetworkDeleteOpen(i) \/ NetworkToggle(i)
      PROVE  Quiet
    BY <1>3 DEF NetworkEditOpen, NetworkDeleteOpen, NetworkToggle, Open, Press, Quiet, nav, query,
                ledger
<1>4. ASSUME NEW kind, Close(kind) PROVE Quiet
    BY <1>4 DEF Close, Quiet, nav, query, ledger
<1>5. ASSUME NEW c \in calls, NetworkSettles(c) PROVE QueryStep
    BY <1>5, FailStep, InvalidateStep DEF NetworkSettles
<1>6. QED
    BY <1>1, <1>2, <1>3, <1>4, <1>5, QuietStep DEF NetworksNext

\* What the steps of UsersPage do to the query cache.
LEMMA UsersQuery ==
    ASSUME OriginInv, QueryInv, UsersNext PROVE QueryStep
<1>1. CASE UsersPage
    BY <1>1, MountStep DEF UsersPage, Keys
<1>2. CASE UserPager
    BY <1>2, TurnStep DEF UserPager, Keys
<1>3. ASSUME UserAddOpen \/ UserType \/ UserSubmit \/ CredentialSubmit \/ UserDelete PROVE Quiet
    BY <1>3 DEF UserAddOpen, UserType, UserSubmit, CredentialSubmit, UserDelete, OpenAfresh, Edit,
                Type, Delete, Submit, Quiet, nav, query, ledger
<1>4. ASSUME NEW i \in Ids, UserDialogOpen(i) \/ PasswordOpen(i) \/ Reset2FAOpen(i) PROVE Quiet
    BY <1>4 DEF UserDialogOpen, PasswordOpen, Reset2FAOpen, OpenAfresh, Open, Quiet, nav, query,
                ledger
<1>5. ASSUME NEW i \in Ids, UserDeleteOpen(i) \/ HandleToggleEnabled(i) PROVE Quiet
    BY <1>5 DEF UserDeleteOpen, HandleToggleEnabled, Open, Press, Quiet, nav, query, ledger
<1>6. ASSUME NEW kind, Close(kind) PROVE Quiet
    BY <1>6 DEF Close, Quiet, nav, query, ledger
<1>7. ASSUME NEW c \in calls, FinishOnly(c) PROVE Quiet
    BY <1>7 DEF FinishOnly, Quiet, nav, query, ledger
<1>8. ASSUME NEW c \in calls, UserSettles(c) PROVE QueryStep
    BY <1>7, <1>8, QuietStep, FailStep, RefetchStep DEF UserSettles, FinishAndRefetch
<1>9. QED
    BY <1>1, <1>2, <1>3, <1>4, <1>5, <1>6, <1>8, QuietStep DEF UsersNext

\* What the steps of ScannersPage do to the query cache.
LEMMA ScannersQuery ==
    ASSUME OriginInv, QueryInv, ScannersNext PROVE QueryStep
<1>1. CASE ScannersPage
    BY <1>1, MountStep DEF ScannersPage, Keys
<1>2. ASSUME ScannerCreateOpen \/ ScannerCreateType \/ ScannerCreate PROVE Quiet
    BY <1>2 DEF ScannerCreateOpen, ScannerCreateType, ScannerCreate, OpenAfresh, Type, Submit,
       Quiet, nav, query, ledger
<1>3. ASSUME ScannerEditType \/ ScannerEdit \/ Regenerate \/ Revoke PROVE Quiet
    BY <1>3 DEF ScannerEditType, ScannerEdit, Regenerate, Revoke, Type, Delete, Submit, Quiet,
       nav, query, ledger
<1>4. ASSUME NEW i \in Ids, ScannerEditOpen(i) \/ OpenRegenerate(i) PROVE Quiet
    BY <1>4 DEF ScannerEditOpen, OpenRegenerate, OpenAfresh, Open, Quiet, nav, query, ledger
<1>5. ASSUME NEW i \in Ids, RevokeOpen(i) \/ HandleSetDefault(i) PROVE Quiet
    BY <1>5 DEF RevokeOpen, HandleSetDefault, Open, Press, Quiet, nav, query, ledger
<1>6. ASSUME NEW kind, Close(kind) PROVE Quiet
    BY <1>6 DEF Close, Quiet, nav, query, ledger
<1>7. ASSUME NEW c \in calls, ScannerSchedule(c) \/ ScannerCreateFails(c) \/ HandleRegenerated(c)
      PROVE  Quiet
    BY <1>7 DEF ScannerSchedule, ScannerCreateFails, HandleRegenerated, Quiet, nav, query, ledger
<1>8. ASSUME NEW c \in calls, HandleCreated(c) PROVE QueryStep
    <2>1. CASE page = "login"
        BY <1>8, <2>1, GoStep DEF HandleCreated, OweNothing, PagesAtHome
    <2>2. CASE page # "login"
        BY <1>8, <2>2 DEF HandleCreated, QueryStep, Refetches
    <2>3. QED
        BY <2>1, <2>2
<1>9. ASSUME NEW c \in calls, ScannerSettles(c) PROVE QueryStep
    BY <1>9, FailStep, RefetchStep DEF ScannerSettles, FinishAndRefetch
<1>10. QED
    BY <1>1, <1>2, <1>3, <1>4, <1>5, <1>6, <1>7, <1>8, <1>9, QuietStep DEF ScannersNext

\* What the steps of Account2FAPage do to the query cache.
LEMMA TwoFactorQuery ==
    ASSUME OriginInv, QueryInv, TwoFactorNext PROVE QueryStep
<1>1. CASE Account2FAPage
    BY <1>1, GoStep DEF Account2FAPage, PagesAtHome, query, ledger
<1>2. ASSUME StartSetup \/ ConfirmSetup \/ CancelSetup \/ Close("disable") \/ Close("recovery")
      PROVE  Quiet
    BY <1>2 DEF StartSetup, ConfirmSetup, CancelSetup, Press, Submit, Close, Quiet, nav, query,
       ledger
<1>3. ASSUME DisableOpen \/ Disable \/ RecoveryOpen \/ RecoveryCodes PROVE Quiet
    BY <1>3 DEF DisableOpen, Disable, RecoveryOpen, RecoveryCodes, OpenReset, Submit, Quiet, nav,
                query, ledger
<1>4. ASSUME NEW c \in calls, \/ StatusLoaded(c) \/ SetupStarted(c)
                              \/ TwoFactorChanged(c) \/ TwoFactorSettles(c)
      PROVE  Quiet
    BY <1>4 DEF StatusLoaded, SetupStarted, TwoFactorChanged, TwoFactorSettles, Quiet, nav, query,
                ledger
<1>5. QED
    BY <1>1, <1>2, <1>3, <1>4, QuietStep DEF TwoFactorNext

\* What the steps of the two API key pages do to the query cache.
LEMMA KeysQuery ==
    ASSUME OriginInv, QueryInv, KeysNext PROVE QueryStep
<1>1. CASE APIKeysPage
    BY <1>1, MountStep DEF APIKeysPage, Keys
<1>2. CASE AccountAPIKeysPage
    BY <1>2, ObserveStep DEF AccountAPIKeysPage, PagesAtHome, Keys, ledger
<1>3. ASSUME HandleRevoke \/ CreateKeyOpen \/ CreateKeyType \/ CreateKey \/ RevokeKey PROVE Quiet
    BY <1>3 DEF HandleRevoke, CreateKeyOpen, CreateKeyType, CreateKey, RevokeKey, OpenReset, Type,
                Delete, Submit, Quiet, nav, query, ledger
<1>4. ASSUME NEW i \in Ids, RevokeKeyOpen(i) \/ AdminRevokeOpen(i) PROVE Quiet
    BY <1>4 DEF RevokeKeyOpen, AdminRevokeOpen, Open, Quiet, nav, query, ledger
<1>5. ASSUME NEW kind, Close(kind) PROVE Quiet
    BY <1>5 DEF Close, Quiet, nav, query, ledger
<1>6. ASSUME NEW c \in calls, KeyCreated(c) \/ KeyRevoked(c) \/ KeyFails(c) PROVE Quiet
    BY <1>6 DEF KeyCreated, KeyRevoked, KeyFails, Fail, Quiet, nav, query, ledger
<1>7. ASSUME NEW c \in calls, AdminRevokeSettles(c) PROVE QueryStep
    BY <1>7, FailStep, RefetchStep DEF AdminRevokeSettles, FinishAndRefetch
<1>8. QED
    BY <1>1, <1>2, <1>3, <1>4, <1>5, <1>6, <1>7, QuietStep DEF KeysNext

\* What the steps of TagsPage do to the query cache.
LEMMA TagsQuery ==
    ASSUME OriginInv, QueryInv, TagsNext PROVE QueryStep
<1>1. CASE TagsPage
    BY <1>1, MountStep DEF TagsPage, Keys
<1>2. ASSUME TagType \/ TagDelete \/ \E i \in Ids : TagDeleteOpen(i) PROVE Quiet
    BY <1>2 DEF TagType, TagDelete, TagDeleteOpen, Edit, Type, Delete, Submit, Open, Quiet, nav,
       query, ledger
<1>3. ASSUME NEW kind, TagNew(kind) \/ TagSubmit(kind) \/ (\E i \in Ids : TagEdit(kind, i))
      PROVE  Quiet
    BY <1>3 DEF TagNew, TagSubmit, TagEdit, Open, Submit, Quiet, nav, query, ledger
<1>4. ASSUME NEW kind, Close(kind) PROVE Quiet
    BY <1>4 DEF Close, Quiet, nav, query, ledger
<1>5. ASSUME NEW c \in calls, TagSettles(c) PROVE QueryStep
    BY <1>5, FailStep, RefetchStep DEF TagSettles, FinishAndRefetch
<1>6. QED
    BY <1>1, <1>2, <1>3, <1>4, <1>5, QuietStep DEF TagsNext

\* What the steps of MaintenancePage do to the query cache.
LEMMA JobsQuery ==
    ASSUME OriginInv, QueryInv, JobsNext PROVE QueryStep
<1>1. CASE MaintenancePage
    BY <1>1, MountStep DEF MaintenancePage, Keys
<1>2. ASSUME JobType \/ JobClose \/ JobSave \/ JobRunInDialog PROVE Quiet
    BY <1>2 DEF JobType, JobClose, JobSave, JobRunInDialog, Edit, Type, Close, Submit, Quiet, nav,
                query, ledger
<1>3. CASE JobSaveNothing
    BY <1>3 DEF JobSaveNothing, QueryStep, Invalidates, OweNothing, nav, ledger
<1>4. ASSUME NEW i \in Ids, JobEditOpen(i) \/ JobRun(i) \/ JobToggle(i) PROVE Quiet
    BY <1>4 DEF JobEditOpen, JobRun, JobToggle, Press, Quiet, nav, query, ledger
<1>5. ASSUME NEW c \in calls, RetentionLoaded(c) \/ JobSaveFails(c) \/ Dropped(c) PROVE Quiet
    BY <1>5 DEF RetentionLoaded, JobSaveFails, Dropped, Quiet, nav, query, ledger
<1>6. ASSUME NEW c \in calls, JobSaved(c) PROVE QueryStep
    <2>1. FinishAndInvalidate(c) \/ Quiet
        BY <1>6 DEF JobSaved, Quiet, nav, query, ledger
    <2>2. QED
        BY <2>1, InvalidateStep, QuietStep
<1>7. ASSUME NEW c \in calls, JobSettles(c) PROVE QueryStep
    BY <1>7, FailStep, InvalidateStep DEF JobSettles
<1>8. QED
    BY <1>1, <1>2, <1>3, <1>4, <1>5, <1>6, <1>7, QuietStep DEF JobsNext

\* The session and the server.
LEMMA SessionQuery ==
    ASSUME QueryInv, Expire \/ Denied \/ ProtectedRoute \/ Logout \/ Credentials \/ SecondFactor \/ Leave
    PROVE  QueryStep
<1>1. CASE Expire
    BY <1>1, QuietStep DEF Expire, Quiet, nav, query, ledger
<1>2. UNCHANGED <<area, view, cache, fetch, acks, owed>>
      /\ (page' = page \/ page' \in {"away", "login", "leaving"})
    BY DEF Expire, Denied, ProtectedRoute, Logout, Credentials, SecondFactor, Leave, nav, query,
       ledger
<1>3. QED
    BY <1>2, GoStep DEF QueryInv, PagesAtHome

\* A new document starts with an empty query cache.
LEMMA NewDocumentQuery ==
    ASSUME QueryInv, Unload \/ AuthCallback PROVE QueryInv'
<1>1. /\ UNCHANGED <<area, view, acks>> /\ page' \in {"login", "away"}
      /\ cache' = [k \in Keys |-> NoAnswer] /\ fetch' = [k \in Keys |-> Idle]
      /\ owed' = [k \in Keys |-> 0]
    BY DEF Unload, AuthCallback, NewDocument
<1>2. PagesAtHome'
    BY <1>1 DEF PagesAtHome
<1>3. QueryType'
    <2>1. \A k \in Keys : cache'[k].have \in BOOLEAN /\ cache'[k].inv \in BOOLEAN
        BY <1>1, Zenon DEF NoAnswer
    <2>2. \A k \in Keys : cache'[k].at = 0 /\ fetch'[k].at = 0
                          /\ DOMAIN cache'[k] = {"have", "rows", "inv", "at"}
                          /\ owed'[k] = 0
        BY <1>1 DEF NoAnswer, Idle
    <2>3. acks' \in Nat /\ view' \in Keys /\ \A k \in Keys : fetch'[k].st = "idle"
        BY <1>1 DEF QueryInv, QueryType, Idle
    <2>4. QED
        BY <1>1, <2>1, <2>2, <2>3 DEF QueryType
<1>4. \A k \in Keys : fetch'[k].st = "idle" /\ cache'[k].at = 0 /\ owed'[k] = 0
    BY <1>1 DEF NoAnswer, Idle
<1>5. QED
    BY <1>2, <1>3, <1>4 DEF QueryInv, StaleRowsAreRefetched

\* The server answers a query with the writes it has accepted.
LEMMA RespondQuery ==
    ASSUME QueryInv, Respond \/ Focus \/ OtherChanges \/ DismissSecret PROVE QueryInv'
<1>1. ASSUME NEW k \in Keys, Serve(k) PROVE QueryInv'
    <2>1. /\ fetch'[k].st = "served" /\ fetch'[k].at = acks /\ DOMAIN fetch' = Keys
          /\ \A l \in Keys : l # k => fetch'[l] = fetch[l]
          /\ UNCHANGED <<area, page, view, cache, acks, owed>>
        BY <1>1 DEF Serve, QueryInv, QueryType, nav, ledger
    <2>2. PagesAtHome' /\ QueryType'
        BY <2>1 DEF QueryInv, QueryType, PagesAtHome
    <2>3. \A l \in Keys : fetch'[l].st = "served" => fetch'[l].at >= owed'[l]
        BY <2>1 DEF QueryInv, QueryType
    <2>4. StaleRowsAreRefetched'
        BY <2>1, <2>3 DEF QueryInv, StaleRowsAreRefetched
    <2>5. QED
        BY <2>2, <2>3, <2>4 DEF QueryInv
<1>2. ASSUME NEW c \in calls, Apply(c) \/ Refuse(c) PROVE Quiet
    BY <1>2 DEF Apply, Refuse, Quiet, nav, query, ledger
<1>3. CASE Focus
    <2>1. Watched(view) /\ view \in Keys /\ fetch' = Ask(view) /\ UNCHANGED <<area, page, view, cache, acks, owed>>
        BY <1>3 DEF Focus, QueryInv, QueryType, nav, ledger
    <2>2. AsksOnly
        BY <2>1, AskIsAsked DEF AsksOnly, QueryInv, PagesAtHome
    <2>3. QED
        BY <2>2, KeepsQueryInv DEF QueryStep
<1>4. ASSUME OtherChanges \/ DismissSecret PROVE Quiet
    BY <1>4 DEF OtherChanges, DismissSecret, Quiet, nav, query, ledger
<1>5. QED
    BY <1>1, <1>2, <1>3, <1>4, QuietStep, KeepsQueryInv DEF Respond

\* A query that is answered shows the writes its key owes.
LEMMA DeliverQuery ==
    ASSUME QueryInv, NEW k \in Keys, Deliver(k) \/ FetchFails(k) PROVE QueryInv'
<1>1. ASSUME NEW s, NEW d, Answered(k, s, d) PROVE QueryInv'
    <2>1. /\ \A l \in Keys : l # k => cache'[l] = cache[l] /\ fetch'[l] = fetch[l] /\ owed'[l] = owed[l]
          /\ DOMAIN cache' = Keys /\ DOMAIN fetch' = Keys /\ DOMAIN owed' = Keys
          /\ UNCHANGED <<area, page, view, acks>>
        BY <1>1 DEF Answered, QueryInv, QueryType, nav
    <2>2. /\ fetch'[k].st = "idle" /\ fetch'[k].at = 0 /\ cache'[k].at = fetch[k].at
          /\ DOMAIN cache'[k] = {"have", "rows", "inv", "at"}
        BY <1>1 DEF Answered, QueryInv, QueryType, Idle
    <2>3. cache'[k].have \in BOOLEAN /\ cache'[k].inv \in BOOLEAN
        BY <1>1 DEF Answered, QueryInv, QueryType
    <2>4. owed'[k] = 0
        BY <1>1 DEF Answered, QueryInv, QueryType
    <2>5. PagesAtHome' /\ QueryType'
        BY <2>1, <2>2, <2>3, <2>4 DEF QueryInv, QueryType, PagesAtHome
    <2>6. QED
        BY <2>1, <2>2, <2>4, <2>5 DEF QueryInv, QueryType, StaleRowsAreRefetched
<1>2. CASE FetchFails(k)
    <2>1. /\ \A l \in Keys : l # k => fetch'[l] = fetch[l] /\ owed'[l] = owed[l]
          /\ fetch'[k].st = "idle" /\ fetch'[k].at = 0 /\ owed'[k] = 0
          /\ DOMAIN fetch' = Keys /\ DOMAIN owed' = Keys
          /\ UNCHANGED <<area, page, view, cache, acks>>
        BY <1>2 DEF FetchFails, QueryInv, QueryType, Idle, nav
    <2>2. PagesAtHome' /\ QueryType'
        BY <2>1 DEF QueryInv, QueryType, PagesAtHome
    <2>3. QED
        BY <2>1, <2>2 DEF QueryInv, QueryType, StaleRowsAreRefetched
<1>3. QED
    BY <1>1, <1>2 DEF Deliver

\* Every step keeps the invariant of the query cache.
LEMMA QueryInvStep == OriginInv /\ QueryInv /\ [Next]_vars => QueryInv'
<1> SUFFICES ASSUME OriginInv, QueryInv, [Next]_vars PROVE QueryInv'
    OBVIOUS
<1>1. CASE UNCHANGED vars
    BY <1>1, QuietStep, KeepsQueryInv DEF vars, Quiet, nav, query, ledger
<1>2. CASE Pages
    BY <1>2, KeepsQueryInv, EndpointsQuery, CertsQuery, InboxQuery, EndpointQuery, FormQuery,
       SettingsQuery, NotifyQuery, TemplatesQuery, NetworksQuery, UsersQuery, ScannersQuery,
       TwoFactorQuery, KeysQuery, TagsQuery, JobsQuery, RespondQuery, SessionQuery DEF Pages
<1>3. CASE Session
    BY <1>3, KeepsQueryInv, SessionQuery, NewDocumentQuery DEF Session
<1>4. QED
    BY <1>1, <1>2, <1>3, RespondQuery, DeliverQuery DEF Next

\* A tab starts with no answers.
LEMMA QueryInvInit == Init => QueryInv
<1> SUFFICES ASSUME Init PROVE QueryInv
    OBVIOUS
<1>1. PagesAtHome
    BY DEF Init, PagesAtHome
<1>2. /\ cache = [k \in Keys |-> NoAnswer] /\ fetch = [k \in Keys |-> Idle]
      /\ owed = [k \in Keys |-> 0] /\ acks = 0 /\ view \in Keys
    BY DEF Init, Keys
<1>3. \A k \in Keys : cache[k].have \in BOOLEAN /\ cache[k].inv \in BOOLEAN
    BY <1>2, Zenon DEF NoAnswer
<1>4. \A k \in Keys : cache[k].at = 0 /\ fetch[k].at = 0 /\ fetch[k].st = "idle"
                      /\ DOMAIN cache[k] = {"have", "rows", "inv", "at"} /\ owed[k] = 0
    BY <1>2 DEF NoAnswer, Idle
<1>5. QueryType
    BY <1>2, <1>3, <1>4 DEF QueryType
<1>6. QED
    BY <1>1, <1>4, <1>5 DEF QueryInv, StaleRowsAreRefetched

\* A list that is older than a write its page reported as done is about to be
\* replaced: it is marked out of date, its query is not served yet, or was served
\* after the write (refetch and invalidateQueries in the callbacks of the pages),
\* whatever answer of the same query was already on its way.
THEOREM StaleListsAreRefetched == Spec => []StaleRowsAreRefetched
<1>1. OriginInv /\ QueryInv => StaleRowsAreRefetched
    BY DEF QueryInv
<1>2. QED
    BY <1>1, OriginInit, OriginStep, QueryInvInit, QueryInvStep, PTL DEF Spec
=============================================================================
