------------------------------ MODULE WebAdmin ------------------------------
(***************************************************************************)
(* The administration pages: discovery networks, users, scanners, tags and *)
(* the scheduled jobs, and the account pages that hand out a secret, the   *)
(* second factor and the API keys.                                         *)
(***************************************************************************)
EXTENDS WebTab

\* A row on the list, with its menu.
Listed(a, i) == Clear(a) /\ i \in DOMAIN Shown
Switched(r)  == [ValOf(r) EXCEPT !.on = ~@]
JustName     == [Blank EXCEPT !.on = FALSE]

\* A delete dialog that is reused from row to row.
Delete(kind) == Submit(kind, {Call(kind, "delete", dlg.id, Blank, <<>>)})

-----------------------------------------------------------------------------
(***************************************************************************)
(* DiscoveryNetworksPage: two NetworkDialogs, one of them for new networks,*)
(* whose saving flags outlive Esc.                                         *)
(***************************************************************************)
DiscoveryNetworksPage == area = "networks" /\ Mount("list", "all")
NetworkRow(i) == Listed("networks", i)

NetworkCreateOpen  == Clear("networks") /\ Open("netNew", 0, Blank)
NetworkEditOpen(i) == NetworkRow(i) /\ Open("netEdit", i, ValOf(Shown[i]))
NetworkType == Edit("netNew", {"cfg"}) \/ Edit("netEdit", {"on", "cfg"})
NetworkSave ==
    \E kind \in {"netNew", "netEdit"} :
        /\ dlg.val.cfg # Empty
        /\ Submit(kind, {Call(kind, IF kind = "netNew" THEN "create" ELSE "put",
                              dlg.id, dlg.val, <<>>)})

NetworkDeleteOpen(i) == NetworkRow(i) /\ Open("deleteNet", i, Blank)
NetworkDelete == Delete("deleteNet")

\* The switch sends the whole listed network, with enabled flipped.
NetworkToggle(i) ==
    /\ NetworkRow(i) /\ ~Busy("toggleNet")
    /\ Press("toggleNet", {Call("toggleNet", "put", i, Switched(Shown[i]), <<>>)})

\* onSaved, onDeleted and onSuccess close what is open and refresh().
NetworkSettles(c) ==
    /\ c.by \in {"netNew", "netEdit", "deleteNet", "toggleNet"}
    /\ FinishAndInvalidate(c) \/ Fail(c)

NetworksNext ==
    \/ DiscoveryNetworksPage \/ NetworkCreateOpen \/ NetworkType \/ NetworkSave \/ NetworkDelete
    \/ \E i \in Ids : NetworkEditOpen(i) \/ NetworkDeleteOpen(i) \/ NetworkToggle(i)
    \/ \E kind \in {"netNew", "netEdit", "deleteNet"} : Close(kind)
    \/ \E c \in calls : NetworkSettles(c)

-----------------------------------------------------------------------------
(***************************************************************************)
(* UsersPage.  Row 1 is the signed-in user.                                *)
(***************************************************************************)
Me == 1

UsersPage == area = "users" /\ Mount("list", "p1")
UserRow(i) == Listed("users", i)
UserPager ==
    /\ Clear("users")
    /\ \E k \in {"p1", "p2"} : Turn(k, sel)

\* UserDialog takes its fields from the user when it is mounted, and its key
\* mounts it for every user and every Add.
UserDialogOpen(i) == UserRow(i) /\ OpenAfresh("user", i, ValOf(Shown[i]))
UserAddOpen == Clear("users") /\ OpenAfresh("user", 0, Blank)
UserType    == Edit("user", {"cfg"})
UserSubmit  ==
    /\ dlg.val.cfg # Empty
    /\ Submit("user", {Call("user", IF dlg.id = 0 THEN "create" ELSE "cfg", dlg.id, dlg.val, <<>>)})

\* ChangePasswordDialog, for local users, and Reset2FADialog, for enrolled ones.
PasswordOpen(i) == UserRow(i) /\ OpenAfresh("password", i, Blank)
Reset2FAOpen(i) == UserRow(i) /\ Open("reset2fa", i, Blank)
CredentialSubmit ==
    \E kind \in {"password", "reset2fa"} :
        Submit(kind, {Call(kind, "touch", dlg.id, Blank, <<>>)})

UserDeleteOpen(i) == UserRow(i) /\ Open("deleteUser", i, Blank)
UserDelete == Delete("deleteUser")

\* handleToggleEnabled sends the opposite of what the row shows; nobody
\* disables himself.
HandleToggleEnabled(i) ==
    /\ UserRow(i) /\ i # Me
    /\ Press("toggleUser", {Call("toggleUser", "on", i, Switched(Shown[i]), <<>>)})

UserSettles(c) ==
    /\ c.by \in {"user", "deleteUser", "reset2fa", "toggleUser", "password"}
    /\ \/ c.by = "password" /\ FinishOnly(c)
       \/ c.by # "password" /\ FinishAndRefetch(c)
       \/ Fail(c)

UsersNext ==
    \/ UsersPage \/ UserPager \/ UserAddOpen \/ UserType \/ UserSubmit
    \/ CredentialSubmit \/ UserDelete
    \/ \E i \in Ids : \/ UserDialogOpen(i) \/ PasswordOpen(i) \/ Reset2FAOpen(i)
                      \/ UserDeleteOpen(i) \/ HandleToggleEnabled(i)
    \/ \E kind \in {"user", "password", "reset2fa", "deleteUser"} : Close(kind)
    \/ \E c \in calls : UserSettles(c)

-----------------------------------------------------------------------------
(***************************************************************************)
(* Secrets.  An answer that carries one puts it on display, in the place   *)
(* of the one that is there, if its page still is.                         *)
(***************************************************************************)
Fate(n, f) == [reveal.fate EXCEPT ![n] = f]
Display(c) ==
    IF c.here
    THEN [on   |-> c.n,
          fate |-> [n \in DOMAIN reveal.fate |->
                      CASE n = c.n                          -> "shown"
                        [] n = reveal.on /\ n # c.n         -> "replaced"
                        [] OTHER                            -> reveal.fate[n]]]
    ELSE [reveal EXCEPT !.fate = Fate(c.n, "left")]

\* Done, "I saved them" or Esc.
DismissSecret ==
    /\ reveal.on # 0
    /\ reveal' = [on |-> 0, fate |-> Fate(reveal.on, "dismissed")]
    /\ UNCHANGED <<area, nav, server, query, calls, pane, used, ledger>>

-----------------------------------------------------------------------------
(***************************************************************************)
(* ScannersPage.                                                           *)
(***************************************************************************)
ScannersPage == area = "scanners" /\ Mount("list", "all")
ScannerRow(i) == Listed("scanners", i)

\* CreateDialog: create the scanner, then set a schedule other than the
\* server's; only then is the token handed on.
ScannerCreateOpen == Clear("scanners") /\ OpenAfresh("scannerNew", 0, JustName)
ScannerCreateType == Type("scannerNew", "cfg")
ScannerCreate ==
    /\ dlg.val.cfg # Empty
    /\ \E rest \in {<<>>, <<"cfg">>} :
          Submit("scannerNew", {Call("scannerNew", "create", 0, dlg.val, rest)})
ScannerSchedule(c) ==
    /\ c.by = "scannerNew" /\ c.st = "done" /\ c.rest # <<>>
    /\ calls' = (calls \ {c}) \cup {[c EXCEPT !.op = "cfg", !.rest = <<>>, !.st = "sent"]}
    /\ UNCHANGED <<area, nav, server, query, pane, reveal, used, ledger>>

\* handleCreated refetches and displays the token.
HandleCreated(c) ==
    /\ c.by = "scannerNew" /\ c.st = "done" /\ c.rest = <<>>
    /\ Finish(c)
    /\ IF page = "login"
       THEN page' = "leaving" /\ OweNothing /\ UNCHANGED fetch
       ELSE page' = page /\ Owe({view}) /\ fetch' = Refetch(view)
    /\ reveal' = Display(c)
    /\ UNCHANGED <<area, view, held, server, cache, sel, bulk, used, tally>>

\* When the second request fails, the first one's token is forgotten.
ScannerCreateFails(c) ==
    /\ c.by = "scannerNew" /\ c.st \in {"refused", "cut"}
    /\ calls' = calls \ {c}
    /\ busy' = IF c.here /\ c.own THEN busy \ {Flag(c.by)} ELSE busy
    /\ reveal' = IF reveal.fate[c.n] = "issued"
                 THEN [reveal EXCEPT !.fate = Fate(c.n, "followup")] ELSE reveal
    /\ UNCHANGED <<area, nav, server, query, dlg, sel, bulk, used, ledger>>

ScannerEditOpen(i) == ScannerRow(i) /\ OpenAfresh("scannerEdit", i, ValOf(Shown[i]))
ScannerEditType    == Type("scannerEdit", "cfg")
ScannerEdit == Submit("scannerEdit", {Call("scannerEdit", "cfg", dlg.id, dlg.val, <<>>)})

\* openRegenerate, from the menu or from the edit dialog, which closes.
OpenRegenerate(i) ==
    \/ ScannerRow(i) /\ Open("rotate", i, Blank)
    \/ /\ dlg.kind = "scannerEdit" /\ dlg.id = i /\ reveal.on = 0
       /\ dlg' = Form("rotate", i, Blank)
       /\ UNCHANGED <<area, nav, server, query, calls, busy, sel, bulk, reveal, used, ledger>>
Regenerate == Submit("rotate", {Call("rotate", "rotate", dlg.id, Blank, <<>>)})

\* Mutant of HandleRegenerated: it only closes the dialog.
HandleRegeneratedUnseen(c) == c.by = "rotate" /\ FinishOnly(c)

\* handleRegenerated displays the new token; the list is left alone.
HandleRegenerated(c) ==
    /\ c.by = "rotate" /\ c.st = "done"
    /\ Finish(c)
    /\ reveal' = Display(c)
    /\ UNCHANGED <<area, nav, server, query, sel, bulk, used, ledger>>

RevokeOpen(i) == ScannerRow(i) /\ Open("revoke", i, Blank)
Revoke == Delete("revoke")

\* handleSetDefault refetches whatever the answer.
HandleSetDefault(i) ==
    /\ ScannerRow(i) /\ ~Shown[i].on
    /\ Press("default", {Call("default", "default", i, Blank, <<>>)})

ScannerSettles(c) ==
    \/ c.by \in {"scannerEdit", "revoke"} /\ FinishAndRefetch(c)
    \/ c.by \in {"scannerEdit", "revoke", "rotate"} /\ Fail(c)
    \/ c.by = "default" /\ c.st # "sent" /\ RefetchAfter(c)

ScannersNext ==
    \/ ScannersPage \/ ScannerCreateOpen \/ ScannerCreateType \/ ScannerCreate
    \/ ScannerEditType \/ ScannerEdit \/ Regenerate \/ Revoke
    \/ \E i \in Ids : \/ ScannerEditOpen(i) \/ OpenRegenerate(i)
                      \/ RevokeOpen(i) \/ HandleSetDefault(i)
    \/ \E kind \in {"scannerNew", "scannerEdit", "rotate", "revoke"} : Close(kind)
    \/ \E c \in calls : \/ ScannerSchedule(c) \/ HandleCreated(c) \/ ScannerCreateFails(c)
                        \/ HandleRegenerated(c) \/ ScannerSettles(c)

-----------------------------------------------------------------------------
(***************************************************************************)
(* Account2FAPage keeps its own copy of the status (sel), read when it is  *)
(* mounted and after every change.                                         *)
(***************************************************************************)
Account2FAPage ==
    /\ area = "twofa" /\ page = "away"
    /\ page' = "list" /\ held' = NoRows
    /\ calls' = calls \cup {Read("status", 1)}
    /\ UNCHANGED <<area, view, server, query, pane, reveal, used, ledger>>

Status(c) == IF c.here /\ c.st = "done"
             THEN [i \in {1} |-> [live |-> TRUE, on |-> c.val.on, cfg |-> 1, tags |-> {}]] ELSE sel
StatusLoaded(c) ==
    /\ c.by = "status" /\ c.st # "sent"
    /\ calls' = calls \ {c}
    /\ sel' = Status(c)
    /\ UNCHANGED <<area, nav, server, query, dlg, busy, bulk, reveal, used, ledger>>

Enrolled == sel # NoRows /\ sel[1].on

\* startSetup shows a secret to scan, confirmSetup sends a code made from it.
StartSetup ==
    /\ Clear("twofa") /\ sel # NoRows /\ ~Enrolled
    /\ Press("start", {Call("start", "touch", 1, Blank, <<>>)})
SetupStarted(c) ==
    /\ c.by = "start" /\ c.st # "sent"
    /\ calls' = calls \ {c}
    /\ dlg' = IF c.here /\ c.st = "done" /\ dlg.kind = "none" THEN Form("setup", 1, Blank) ELSE dlg
    /\ UNCHANGED <<area, nav, server, query, busy, sel, bulk, reveal, used, ledger>>
ConfirmSetup == Submit("setup", {Call("setup", "enrol", 1, Blank, <<"read">>)})
CancelSetup  == ~Busy("setup") /\ Close("setup")

\* DisableDialog and RegenerateDialog clear their flags when they open.
DisableOpen   == Clear("twofa") /\ Enrolled /\ OpenReset("disable", 1, Blank)
Disable       == Submit("disable", {Call("disable", "unenrol", 1, Blank, <<"read">>)})
RecoveryOpen  == Clear("twofa") /\ Enrolled /\ OpenReset("recovery", 1, Blank)
RecoveryCodes == Submit("recovery", {Call("recovery", "rotate", 1, Blank, <<"read">>)})

\* The change is made: its form goes, its codes are displayed, and the status
\* is read again.
TwoFactorChanged(c) ==
    /\ c.by \in {"setup", "disable", "recovery"} /\ c.st = "done" /\ c.rest # <<>>
    /\ calls' = (calls \ {c}) \cup {[c EXCEPT !.op = "read", !.rest = <<>>, !.st = "sent"]}
    /\ dlg' = IF c.here /\ dlg.kind = c.by THEN NoDlg ELSE dlg
    /\ reveal' = IF HasSecret(c) THEN Display(c) ELSE reveal
    /\ UNCHANGED <<area, nav, server, query, busy, sel, bulk, used, ledger>>
TwoFactorSettles(c) ==
    /\ c.by \in {"setup", "disable", "recovery"}
    /\ c.st \in {"refused", "cut"} \/ (c.st = "done" /\ c.rest = <<>>)
    /\ calls' = calls \ {c}
    /\ busy' = IF c.here THEN busy \ {Flag(c.by)} ELSE busy
    /\ sel' = Status(c)
    /\ UNCHANGED <<area, nav, server, query, dlg, bulk, reveal, used, ledger>>

TwoFactorNext ==
    \/ Account2FAPage \/ StartSetup \/ ConfirmSetup \/ CancelSetup
    \/ DisableOpen \/ Disable \/ Close("disable")
    \/ RecoveryOpen \/ RecoveryCodes \/ Close("recovery")
    \/ \E c \in calls : \/ StatusLoaded(c) \/ SetupStarted(c)
                        \/ TwoFactorChanged(c) \/ TwoFactorSettles(c)

-----------------------------------------------------------------------------
(***************************************************************************)
(* AccountAPIKeysPage works on its own copy of the keys (sel); the cached  *)
(* list is not told of a new or a revoked key.                             *)
(***************************************************************************)
AccountAPIKeysPage ==
    /\ area = "apikeys" /\ page = "away"
    /\ page' = "list" /\ held' = NoRows
    /\ Observe("all")
    /\ sel' = cache["all"].rows
    /\ UNCHANGED <<area, server, cache, calls, dlg, busy, bulk, reveal, used, ledger>>

KeyRow(i) == Clear("apikeys") /\ i \in DOMAIN sel
CreateKeyOpen == Clear("apikeys") /\ OpenReset("key", 0, JustName)
CreateKeyType == Type("key", "cfg")
CreateKey ==
    /\ dlg.val.cfg # Empty
    /\ Submit("key", {Call("key", "create", 0, dlg.val, <<>>)})
KeyCreated(c) ==
    /\ c.by = "key" /\ c.st = "done"
    /\ Finish(c)
    /\ sel' = IF c.here
              THEN [i \in DOMAIN sel \cup {c.id} |->
                      IF i = c.id THEN [live |-> TRUE, on |-> FALSE, cfg |-> c.val.cfg, tags |-> {}]
                      ELSE sel[i]]
              ELSE sel
    /\ reveal' = Display(c)
    /\ UNCHANGED <<area, nav, server, query, bulk, used, ledger>>

RevokeKeyOpen(i) == KeyRow(i) /\ Open("revokeKey", i, Blank)
RevokeKey == Delete("revokeKey")
KeyRevoked(c) ==
    /\ c.by = "revokeKey" /\ c.st = "done"
    /\ Finish(c)
    /\ sel' = IF c.here THEN [i \in DOMAIN sel \ {c.id} |-> sel[i]] ELSE sel
    /\ UNCHANGED <<area, nav, server, query, bulk, reveal, used, ledger>>
KeyFails(c) == c.by \in {"key", "revokeKey"} /\ Fail(c)

\* APIKeysPage: everybody's keys, for administrators.
APIKeysPage == area = "adminkeys" /\ Mount("list", "all")
AdminRevokeOpen(i) == Listed("adminkeys", i) /\ Open("adminRevoke", i, Blank)
HandleRevoke == Delete("adminRevoke")
AdminRevokeSettles(c) == c.by = "adminRevoke" /\ (FinishAndRefetch(c) \/ Fail(c))

KeysNext ==
    \/ APIKeysPage \/ HandleRevoke
    \/ AccountAPIKeysPage \/ CreateKeyOpen \/ CreateKeyType \/ CreateKey \/ RevokeKey
    \/ \E i \in Ids : RevokeKeyOpen(i) \/ AdminRevokeOpen(i)
    \/ \E kind \in {"key", "revokeKey", "adminRevoke"} : Close(kind)
    \/ \E c \in calls : KeyCreated(c) \/ KeyRevoked(c) \/ KeyFails(c) \/ AdminRevokeSettles(c)

-----------------------------------------------------------------------------
(***************************************************************************)
(* TagsPage: tags and their categories.                                    *)
(***************************************************************************)
TagsPage == area = "tags" /\ Mount("list", "all")
TagRow(i) == Listed("tags", i)

TagNew(kind)  == Clear("tags") /\ Open(kind, 0, JustName)
TagEdit(kind, i) == TagRow(i) /\ Open(kind, i, ValOf(Shown[i]))
TagType == Edit("tag", {"cfg"}) \/ Edit("category", {"cfg"})

\* The effect of TagDialog depends on a list the page rebuilds whenever it
\* renders: new rows put the fields back to what the dialog was opened with.
TagDialogEffect == IF dlg.kind = "tag" THEN Form("tag", dlg.id, dlg.base) ELSE dlg

TagSubmit(kind) ==
    /\ dlg.val.cfg # Empty
    /\ Submit(kind, {Call(kind, IF dlg.id = 0 THEN "create" ELSE "cfg", dlg.id, dlg.val, <<>>)})

TagDeleteOpen(i) == TagRow(i) /\ Open("deleteTag", i, Blank)
TagDelete == Delete("deleteTag")

\* A failed delete says nothing.
TagSettles(c) ==
    /\ c.by \in {"tag", "category", "deleteTag"}
    /\ FinishAndRefetch(c) \/ Fail(c)

TagsNext ==
    \/ TagsPage \/ TagType \/ TagDelete
    \/ \E kind \in {"tag", "category"} :
          TagNew(kind) \/ TagSubmit(kind) \/ (\E i \in Ids : TagEdit(kind, i))
    \/ \E i \in Ids : TagDeleteOpen(i)
    \/ \E kind \in {"tag", "category", "deleteTag"} : Close(kind)
    \/ \E c \in calls : TagSettles(c)

-----------------------------------------------------------------------------
(***************************************************************************)
(* MaintenancePage: the scheduled jobs.  The retention of a job (tags) has *)
(* a request of its own, made when the dialog opens.                       *)
(***************************************************************************)
MaintenancePage == area = "jobs" /\ Mount("list", "all")
JobRow(i) == Listed("jobs", i)

JobEditOpen(i) ==
    /\ JobRow(i)
    /\ dlg' = Form("job", i, [ValOf(Shown[i]) EXCEPT !.tags = {}])
    /\ calls' = {c \in calls : c.by # "retention"} \cup {Read("retention", i)}
    /\ UNCHANGED <<area, nav, server, query, busy, sel, bulk, reveal, used, ledger>>
RetentionLoaded(c) ==
    /\ c.by = "retention" /\ c.st # "sent"
    /\ calls' = calls \ {c}
    /\ dlg' = IF c.st = "done" /\ dlg.kind = "job"
              THEN [dlg EXCEPT !.val.tags = c.val.tags, !.base.tags = c.val.tags,
                               !.typed = @ \ {"tags"}]
              ELSE dlg
    /\ UNCHANGED <<area, nav, server, query, busy, sel, bulk, reveal, used, ledger>>

\* The enabled box goes with the schedule.
JobType  == Edit("job", {"cfg", "tags"})
JobClose == ~Busy("job") /\ Close("job")

\* A job object with other content, be it only its last run, resets the
\* schedule but not the retention.
JobDialogEffects(rows) ==
    IF dlg.kind # "job" \/ dlg.id \notin DOMAIN rows THEN {dlg}
    ELSE {[dlg EXCEPT !.val.on = rows[dlg.id].on, !.val.cfg = rows[dlg.id].cfg,
                      !.typed = @ \ {"cfg"}]} \cup
         (IF cache["all"].rows[dlg.id] = rows[dlg.id] THEN {dlg} ELSE {})

\* handleSave sends what differs from the listed job and, once it is known,
\* the retention, at once; when nothing does it only closes.
JobChanges ==
    LET job == Shown[dlg.id] IN
    (IF dlg.val.on # job.on \/ dlg.val.cfg # job.cfg
     THEN {Call("job", "put", dlg.id, dlg.val, <<>>)} ELSE {}) \cup
    (IF dlg.base.tags # {} /\ dlg.val.tags # dlg.base.tags
     THEN {Call("job", "tags", dlg.id, dlg.val, <<>>)} ELSE {})
JobSave ==
    /\ dlg.kind = "job" /\ dlg.id \in DOMAIN Shown
    /\ JobChanges # {} /\ Submit("job", JobChanges)
JobSaveNothing ==
    /\ dlg.kind = "job" /\ dlg.id \in DOMAIN Shown /\ ~Busy("job")
    /\ JobChanges = {} /\ Event
    /\ dlg' = NoDlg
    /\ cache' = Invalidate
    /\ fetch' = Refetch(view)
    /\ UNCHANGED <<area, nav, server, calls, busy, sel, bulk, reveal, ledger>>

\* Promise.all waits for every answer, or for the first failure.
OtherChange(c) == {d \in calls \ {c} : d.by = "job" /\ d.n = c.n}
JobSaved(c) ==
    /\ c.by = "job"
    /\ IF OtherChange(c) = {} THEN FinishAndInvalidate(c)
       ELSE /\ c.st = "done"
            /\ calls' = calls \ {c}
            /\ UNCHANGED <<area, nav, server, query, pane, reveal, used, ledger>>
JobSaveFails(c) ==
    /\ c.by = "job" /\ c.st \in {"refused", "cut"}
    /\ calls' = (calls \ ({c} \cup OtherChange(c))) \cup
                {[d EXCEPT !.by = "dropped"] : d \in OtherChange(c)}
    /\ busy' = IF c.here THEN busy \ {Flag("job")} ELSE busy
    /\ UNCHANGED <<area, nav, server, query, dlg, sel, bulk, reveal, used, ledger>>
Dropped(c) ==
    /\ c.by = "dropped" /\ c.st # "sent"
    /\ calls' = calls \ {c}
    /\ UNCHANGED <<area, nav, server, query, pane, reveal, used, ledger>>

\* Run Now, from the dialog or from the menu, and the menu's switch, which
\* sends the cached schedule with enabled flipped.
JobRunInDialog ==
    /\ dlg.kind = "job" /\ ~Busy("job") /\ ~Busy("run")
    /\ Send({Call("run", "touch", dlg.id, Blank, <<>>)})
    /\ busy' = busy \cup {Flag("run")}
    /\ UNCHANGED <<area, nav, server, query, dlg, sel, bulk, reveal, ledger>>
JobRun(i) ==
    /\ JobRow(i) /\ ~\E c \in calls : c.by = "runMenu" /\ c.id = i /\ c.here
    /\ Press("runMenu", {Call("runMenu", "touch", i, Blank, <<>>)})
JobToggle(i) ==
    /\ JobRow(i) /\ ~Busy("toggleJob")
    /\ Press("toggleJob", {Call("toggleJob", "put", i, Switched(Shown[i]), <<>>)})
JobSettles(c) ==
    /\ c.by \in {"run", "runMenu", "toggleJob"}
    /\ FinishAndInvalidate(c) \/ Fail(c)

JobsNext ==
    \/ MaintenancePage \/ JobType \/ JobClose \/ JobSave \/ JobSaveNothing \/ JobRunInDialog
    \/ \E i \in Ids : JobEditOpen(i) \/ JobRun(i) \/ JobToggle(i)
    \/ \E c \in calls : \/ RetentionLoaded(c) \/ JobSaved(c) \/ JobSaveFails(c)
                        \/ Dropped(c) \/ JobSettles(c)

=============================================================================
