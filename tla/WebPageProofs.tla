---------------------------- MODULE WebPageProofs ----------------------------
(***************************************************************************)
(* Proofs about what the pages of Web promise, for any values of its       *)
(* constants: a selection is what the page shows, the summary of a bulk    *)
(* delete is true, an issued secret is displayed, a form that reports no   *)
(* error makes one record, every variable keeps its shape, and no form     *)
(* writes one row's values to another.                                     *)
(***************************************************************************)
EXTENDS WebProofs

(***************************************************************************)
(* What is selected                                                        *)
(***************************************************************************)
\* The two pages that select rows.
SelectAreas == {"endpoints", "certs"}

\* The pages that have no selection.
Elsewhere ==
    \/ InboxNext \/ EndpointNext \/ FormNext \/ SettingsNext \/ NotifyNext \/ TemplatesNext
    \/ NetworksNext \/ UsersNext \/ ScannersNext \/ TwoFactorNext \/ KeysNext \/ TagsNext \/ JobsNext

\* The other pages are none of the two.
LEMMA ElsewhereArea ==
    ASSUME OriginInv, Elsewhere PROVE area \notin SelectAreas /\ area' = area
BY InboxArea, EndpointArea, FormArea, SettingsArea, NotifyArea, AdminArea, SecretArea, JobsArea
   DEF Elsewhere, SelectAreas

\* A selected row that is on the page is the row of the page, and a page that is
\* not there has no selection.
SelectionInv ==
    area \in SelectAreas =>
        /\ page \in {"away", "list", "login", "leaving"}
        /\ page \notin {"list", "leaving"} => DOMAIN sel = {}
        /\ page = "list" /\ cache[view].have =>
              \A i \in DOMAIN sel \cap DOMAIN cache[view].rows : sel[i] = cache[view].rows[i]

\* The steps that leave the rows, and what is selected of them, alone.
SelectionKept ==
    /\ UNCHANGED <<area, view>>
    /\ page' = page \/ page' = "leaving" \/ (page = "away" /\ page' = "login")
       \/ (page = "login" /\ page' = "away")
    /\ sel' = sel \/ sel' = NoRows
    /\ \A k \in Keys : cache'[k].have = cache[k].have /\ cache'[k].rows = cache[k].rows

\* Such a step keeps the selection true to the page.
LEMMA KeepsSelection ==
    ASSUME QueryInv, SelectionInv, SelectionKept PROVE SelectionInv'
<1>1. DOMAIN NoRows = {} /\ view \in Keys
    BY DEF NoRows, QueryInv, QueryType
<1>2. QED
    BY <1>1 DEF SelectionInv, SelectionKept

\* Nothing is selected.
LEMMA NothingSelected ==
    ASSUME sel' = NoRows, page' \in {"away", "list", "login", "leaving"} PROVE SelectionInv'
<1>1. DOMAIN NoRows = {}
    BY DEF NoRows
<1>2. QED
    BY <1>1 DEF SelectionInv

\* A page opens with nothing selected.
LEMMA MountSelection ==
    ASSUME SelectionInv, area \in SelectAreas, NEW k, Mount("list", k) PROVE SelectionInv'
<1>1. page = "away" /\ page' = "list" /\ UNCHANGED <<area, sel>>
    BY DEF Mount, pane
<1>2. DOMAIN sel = {}
    BY <1>1 DEF SelectionInv
<1>3. QED
    BY <1>1, <1>2 DEF SelectionInv

\* What the effect on new rows leaves selected.
LEMMA RefreshedMatches ==
    ASSUME NEW s, NEW rows
    PROVE  \A i \in DOMAIN Refreshed(s, rows) \cap DOMAIN rows : Refreshed(s, rows)[i] = rows[i]
BY DEF Refreshed

\* Turning to another key runs that effect when the key has rows.
LEMMA TurnSelection ==
    ASSUME SelectionInv, area \in SelectAreas, page = "list", NEW k \in Keys,
           Turn(k, Refreshed(sel, cache[k].rows))
    PROVE  SelectionInv'
<1>1. /\ view' = k /\ UNCHANGED <<area, page, cache>>
      /\ sel' = IF cache[k].have THEN Refreshed(sel, cache[k].rows) ELSE sel
    BY DEF Turn, Observe
<1>2. QED
    BY <1>1, RefreshedMatches DEF SelectionInv

\* Ticking boxes takes the rows of the page.
LEMMA SelectSelection ==
    ASSUME SelectionInv, area \in SelectAreas, page = "list", NEW S, Select(S),
           S \subseteq DOMAIN Shown
    PROVE  SelectionInv'
<1>1. sel' = Picked(S) /\ UNCHANGED <<area, page, view, cache>>
    BY DEF Select, nav, query
<1>2. ASSUME cache[view].have,
             NEW i \in DOMAIN Picked(S) \cap DOMAIN cache[view].rows
      PROVE  Picked(S)[i] = cache[view].rows[i]
    <2>1. Shown = cache[view].rows
        BY <1>2 DEF Shown
    <2>2. i \in DOMAIN sel => sel[i] = cache[view].rows[i]
        BY <1>2 DEF SelectionInv
    <2>3. QED
        BY <1>2, <2>1, <2>2 DEF Picked, Restricted, Merged
<1>3. QED
    BY <1>1, <1>2 DEF SelectionInv

\* The steps of the endpoint list keep the selection true to the page.
LEMMA EndpointsSelection ==
    ASSUME OriginInv, QueryInv, SelectionInv, EndpointsNext PROVE SelectionInv'
<1>1. area = "endpoints" /\ area' = area
    BY EndpointsArea
<1>2. CASE EndpointPage
    BY <1>1, <1>2, MountSelection DEF EndpointPage, SelectAreas
<1>3. CASE EndpointPager \/ EndpointFilter
    BY <1>1, <1>3, TurnSelection DEF EndpointPager, EndpointFilter, RefreshSelected, Clear, On,
                                     SelectAreas, Keys
<1>4. CASE TypeSwitch \/ ClearSelection
    BY <1>4, NothingSelected DEF TypeSwitch, ClearSelection, Clear, On, nav
<1>5. CASE ToggleAll \/ \E i \in Ids : ToggleOne(i)
    BY <1>1, <1>5, SelectSelection DEF ToggleAll, ToggleOne, EndpointRow, EndpointRows, Clear, On,
                                       SelectAreas
<1>6. ASSUME \/ \E i \in Ids : DeleteEndpointOpen(i)
             \/ DeleteEndpoint \/ Close("deleteEndpoint") \/ BulkDeleteOpen \/ BulkDeleteConfirm
             \/ BulkTagOpen \/ BulkTagPick \/ BulkTagConfirm
      PROVE  SelectionKept
    BY <1>6 DEF DeleteEndpointOpen, DeleteEndpoint, Close, BulkDeleteOpen, BulkDeleteConfirm,
                BulkTagOpen, BulkTagPick, BulkTagConfirm, Open, Submit, BulkOpen, BulkRun,
                SelectionKept, nav, query
<1>7. ASSUME EndpointBulkDone \/ ImportOpen \/ ImportPreview \/ ImportConfirm \/ ImportBack \/ ImportClose
      PROVE  SelectionKept
    BY <1>7 DEF EndpointBulkDone, ImportOpen, ImportPreview, ImportConfirm, ImportBack,
       ImportClose, Open, BulkClose, SelectionKept, nav, query
<1>8. ASSUME NEW c \in calls, DeleteEndpointSettles(c) \/ BulkDeleteSettles(c) \/ BulkTagSettles(c)
                              \/ ImportSettles(c)
      PROVE  SelectionKept
    BY <1>8 DEF DeleteEndpointSettles, BulkDeleteSettles, BulkTagSettles, ImportSettles,
       BulkSettle, FinishAndRefetch, RefetchAfter, Fail, SelectionKept, nav, query
<1>9. QED
    BY <1>2, <1>3, <1>4, <1>5, <1>6, <1>7, <1>8, KeepsSelection DEF EndpointsNext

\* The steps of the certificate list keep the selection true to the page.
LEMMA CertsSelection ==
    ASSUME OriginInv, QueryInv, SelectionInv, CertsNext PROVE SelectionInv'
<1>1. area = "certs" /\ area' = area
    BY CertsArea
<1>2. CASE CertificatesPage
    BY <1>1, <1>2, MountSelection DEF CertificatesPage, SelectAreas
<1>3. CASE CertPager \/ CertFilter
    BY <1>1, <1>3, TurnSelection DEF CertPager, CertFilter, RefreshSelectedCerts, Clear, On,
                                     SelectAreas, Keys
<1>4. CASE ToggleAllCerts \/ \E i \in Ids : ToggleOneCert(i)
    BY <1>1, <1>4, SelectSelection DEF ToggleAllCerts, ToggleOneCert, CertRow, CertRows, Clear,
       On, SelectAreas
<1>5. ASSUME \/ \E i \in Ids : DeleteCertOpen(i)
             \/ PurgeTick \/ DeleteCertificate \/ Close("deleteCert") \/ Close("ingest")
             \/ BulkDeleteCertsOpen \/ BulkPurgeTick \/ BulkDeleteCertsConfirm \/ CertBulkDone
      PROVE  SelectionKept
    BY <1>5 DEF DeleteCertOpen, PurgeTick, DeleteCertificate, Close, BulkDeleteCertsOpen,
       BulkPurgeTick, BulkDeleteCertsConfirm, CertBulkDone, Submit, BulkOpen, BulkRun,
       BulkClose, SelectionKept, nav, query
<1>6. ASSUME IngestOpen \/ IngestType \/ IngestSubmit PROVE SelectionKept
    BY <1>6 DEF IngestOpen, IngestType, IngestSubmit, Open, Type, Submit, SelectionKept, nav,
       query
<1>7. ASSUME NEW c \in calls, CertReferences(c) \/ DeleteCertSettles(c) \/ BulkDeleteCertsSettles(c)
      PROVE  SelectionKept
    BY <1>7 DEF CertReferences, DeleteCertSettles, BulkDeleteCertsSettles, BulkSettle,
                FinishAndRefetch, RefetchAfter, Fail, SelectionKept, nav, query
<1>8. ASSUME NEW c \in calls, IngestSettles(c) PROVE SelectionInv'
    <2>1. SelectionKept \/ (sel' = NoRows /\ page' = "away")
        BY <1>8 DEF IngestSettles, Fail, SelectionKept, nav, query, pane
    <2>2. QED
        BY <2>1, KeepsSelection, NothingSelected
<1>9. QED
    BY <1>2, <1>3, <1>4, <1>5, <1>6, <1>7, <1>8, KeepsSelection DEF CertsNext

\* The steps of the session, the server and other tabs keep the selection true to the page.
LEMMA TabSelection ==
    ASSUME QueryInv, SelectionInv,
           Session \/ Respond \/ Focus \/ OtherChanges \/ DismissSecret \/ Leave
    PROVE  SelectionInv'
<1>1. ASSUME Expire \/ Denied \/ ProtectedRoute \/ Credentials \/ SecondFactor PROVE SelectionKept
    BY <1>1 DEF Expire, Denied, ProtectedRoute, Credentials, SecondFactor, SelectionKept, nav,
       query, pane
<1>2. CASE Unload \/ AuthCallback \/ Logout \/ Leave
    BY <1>2, NothingSelected DEF Unload, AuthCallback, NewDocument, Logout, Leave, Unmount
<1>3. ASSUME \/ \E k \in Keys : Serve(k)
             \/ \E c \in calls : Apply(c) \/ Refuse(c)
             \/ Focus \/ OtherChanges \/ DismissSecret
      PROVE  SelectionKept
    BY <1>3 DEF Serve, Apply, Refuse, Focus, OtherChanges, DismissSecret, SelectionKept, nav,
       query, pane
<1>4. QED
    BY <1>1, <1>2, <1>3, KeepsSelection DEF Session, Respond

\* The selection after new rows, in these areas.
LEMMA SelectionAfterList ==
    ASSUME NEW k \in Keys, area \in SelectAreas
    PROVE  /\ k = view /\ page = "list" => SelectionAfter(k) = Refreshed(sel, fetch[k].rows)
           /\ k # view \/ page \in {"away", "login", "leaving"} => SelectionAfter(k) = sel
<1>1. page = "list" => Mounted
    BY DEF Mounted, SignedOut
<1>2. page \in {"away", "login", "leaving"} => ~Mounted
    BY DEF Mounted, SignedOut
<1>3. k # view \/ ~Mounted => SelectionAfter(k) = sel
    BY DEF SelectionAfter
<1>4. ~(k # view \/ ~Mounted) /\ area = "endpoints" => SelectionAfter(k) = Refreshed(sel, fetch[k].rows)
    BY DEF SelectionAfter, RefreshSelected
<1>5. ~(k # view \/ ~Mounted) /\ area = "certs" => SelectionAfter(k) = Refreshed(sel, fetch[k].rows)
    BY DEF SelectionAfter, RefreshSelectedCerts
<1>6. QED
    BY <1>1, <1>2, <1>3, <1>4, <1>5 DEF SelectAreas

\* New rows refresh the selection before anything else can use it.
LEMMA DeliverSelection ==
    ASSUME QueryInv, SelectionInv, NEW k \in Keys, Deliver(k) \/ FetchFails(k) PROVE SelectionInv'
<1>1. CASE FetchFails(k)
    BY <1>1, KeepsSelection DEF FetchFails, SelectionKept, nav, pane
<1>2. CASE Deliver(k)
    <2>1. /\ UNCHANGED <<area, page, view>> /\ sel' = SelectionAfter(k)
          /\ cache' = [cache EXCEPT ![k] = [have |-> TRUE, rows |-> fetch[k].rows,
                                            inv |-> FALSE, at |-> fetch[k].at]]
        BY <1>2 DEF Deliver, Answered, nav
    <2>2. /\ cache'[k].rows = fetch[k].rows
          /\ \A l \in Keys : l # k => cache'[l] = cache[l]
        BY <2>1 DEF QueryInv, QueryType
    <2>3. CASE area \notin SelectAreas
        BY <2>1, <2>3 DEF SelectionInv
    <2>4. CASE area \in SelectAreas /\ page = "list" /\ k = view
        <3>1. sel' = Refreshed(sel, fetch[k].rows)
            BY <2>1, <2>4, SelectionAfterList
        <3>2. QED
            BY <2>1, <2>2, <2>4, <3>1, RefreshedMatches DEF SelectionInv
    <2>5. CASE area \in SelectAreas /\ page = "list" /\ k # view
        <3>1. sel' = sel
            BY <2>1, <2>5, SelectionAfterList
        <3>2. view \in Keys
            BY DEF QueryInv, QueryType
        <3>3. QED
            BY <2>1, <2>2, <2>5, <3>1, <3>2 DEF SelectionInv
    <2>6. CASE area \in SelectAreas /\ page # "list"
        <3>1. sel' = sel
            BY <2>1, <2>6, SelectionAfterList DEF SelectionInv
        <3>2. QED
            BY <2>1, <2>6, <3>1 DEF SelectionInv
    <2>7. QED
        BY <2>3, <2>4, <2>5, <2>6
<1>3. QED
    BY <1>1, <1>2

\* Every step keeps the selection true to the page.
LEMMA SelectionStep ==
    OriginInv /\ QueryInv /\ SelectionInv /\ [Next]_vars => SelectionInv'
<1> SUFFICES ASSUME OriginInv, QueryInv, SelectionInv, [Next]_vars PROVE SelectionInv'
    OBVIOUS
<1>1. CASE UNCHANGED vars
    BY <1>1, KeepsSelection DEF vars, SelectionKept, nav, query, pane
<1>2. CASE Elsewhere
    BY <1>2, ElsewhereArea DEF SelectionInv
<1>3. CASE Pages
    BY <1>2, <1>3, EndpointsSelection, CertsSelection, TabSelection DEF Pages, Elsewhere
<1>4. QED
    BY <1>1, <1>3, TabSelection, DeliverSelection DEF Next

\* A tab starts with nothing selected.
LEMMA SelectionInit == Init => SelectionInv
BY DEF Init, SelectionInv, NoRows

\* The rows a bulk dialog acts on are the rows the user sees: EndpointPage and
\* CertificatesPage keep the selected records, and refresh them with every answer
\* and with every page turned, so no record of an earlier fetch is used.
THEOREM BulkDialogsSeeThePage == Spec => []SelectionMatchesPage
<1>1. SelectionInv => SelectionMatchesPage
    BY DEF SelectionInv, SelectionMatchesPage, SelectAreas
<1>2. QED
    BY <1>1, OriginInit, OriginStep, QueryInvInit, QueryInvStep, SelectionInit, SelectionStep,
       PTL DEF Spec

(***************************************************************************)
(* The rows of the table                                                   *)
(***************************************************************************)
\* Rows are rows of the table: on the server, in the cache, on display and in
\* the selection.
RowsInv ==
    area \in SelectAreas =>
        /\ DOMAIN srv = Ids /\ DOMAIN held \subseteq Ids /\ DOMAIN sel \subseteq Ids
        /\ \A k \in Keys : DOMAIN cache[k].rows \subseteq Ids /\ DOMAIN fetch[k].rows \subseteq Ids

\* The steps that bring no rows the tab does not have.
RowsKept ==
    /\ area' = area /\ DOMAIN srv' = DOMAIN srv
    /\ held' \in {held, NoRows, Shown}
    /\ DOMAIN sel' \subseteq DOMAIN sel \cup DOMAIN Shown
    /\ \A k \in Keys : cache'[k].rows = cache[k].rows
    /\ \A k \in Keys : fetch'[k].rows \in {fetch[k].rows, NoRows}

\* Such a step keeps the rows rows of the table.
LEMMA KeepsRows == ASSUME QueryInv, RowsInv, RowsKept PROVE RowsInv'
<1>1. DOMAIN NoRows = {} /\ view \in Keys
    BY DEF NoRows, QueryInv, QueryType
<1>2. area \in SelectAreas => DOMAIN Shown \subseteq Ids
    BY <1>1 DEF RowsInv, Shown
<1>3. QED
    BY <1>1, <1>2 DEF RowsInv, RowsKept

\* Asking for a key drops the rows that were on their way.
LEMMA AskedRows ==
    ASSUME QueryInv, NEW k \in Keys,
           fetch' = Ask(k) \/ fetch' = Refetch(k) \/ fetch' = fetch \/ fetch' = [fetch EXCEPT ![k] = Idle]
    PROVE  \A l \in Keys : fetch'[l].rows \in {fetch[l].rows, NoRows}
<1>1. Idle.rows = NoRows /\ [Idle EXCEPT !.st = "asked"].rows = NoRows
    BY DEF Idle
<1>2. \A l \in Keys : Ask(k)[l].rows \in {fetch[l].rows, NoRows}
    BY <1>1 DEF Ask, QueryInv, QueryType
<1>3. QED
    BY <1>1, <1>2 DEF Refetch, QueryInv, QueryType

\* Ticking rows selects rows that are shown.
LEMMA SelectDomains ==
    ASSUME NEW S, S \subseteq DOMAIN Shown
    PROVE  DOMAIN Picked(S) \subseteq DOMAIN sel \cup DOMAIN Shown
BY DEF Picked, Merged, Restricted

\* Refreshing the selection selects nothing new.
LEMMA RefreshedDomain == ASSUME NEW s, NEW rows PROVE DOMAIN Refreshed(s, rows) = DOMAIN s
BY DEF Refreshed

\* The steps of the two pages that fetch nothing and select nothing.
RowsIdle == UNCHANGED <<area, srv, held, cache, fetch>> /\ sel' \in {sel, NoRows}

\* They bring no rows.
LEMMA IdleRows == ASSUME RowsIdle PROVE RowsKept
<1>1. DOMAIN NoRows = {}
    BY DEF NoRows
<1>2. QED
    BY <1>1 DEF RowsIdle, RowsKept

\* Turning the page, or filtering it, brings no rows yet.
LEMMA TurnRows ==
    ASSUME QueryInv, NEW k \in Keys, Turn(k, Refreshed(sel, cache[k].rows)) PROVE RowsKept
<1>1. fetch' = Ask(k) \/ fetch' = fetch
    BY DEF Turn, Observe
<1>2. \A l \in Keys : fetch'[l].rows \in {fetch[l].rows, NoRows}
    BY <1>1, AskedRows
<1>3. DOMAIN sel' = DOMAIN sel
    BY RefreshedDomain DEF Turn
<1>4. QED
    BY <1>2, <1>3 DEF Turn, RowsKept, server

\* Nor does opening the page.
LEMMA MountRows ==
    ASSUME QueryInv, NEW k \in Keys, Mount("list", k) PROVE RowsKept
<1>1. fetch' = Ask(k) \/ fetch' = fetch
    BY DEF Mount, Observe
<1>2. \A l \in Keys : fetch'[l].rows \in {fetch[l].rows, NoRows}
    BY <1>1, AskedRows
<1>3. QED
    BY <1>2 DEF Mount, RowsKept, server, pane

\* Nor does ticking rows.
LEMMA SelectRows ==
    ASSUME NEW S, S \subseteq DOMAIN Shown, Select(S) PROVE RowsKept
BY SelectDomains DEF Select, RowsKept, server, nav, query

\* The steps that refetch the list in view.
LEMMA RefetchRows ==
    ASSUME QueryInv, UNCHANGED <<area, srv, held, cache>>, sel' \in {sel, NoRows},
           fetch' = Refetch(view) \/ fetch' = fetch
    PROVE  RowsKept
<1>1. view \in Keys /\ DOMAIN NoRows = {}
    BY DEF QueryInv, QueryType, NoRows
<1>2. QED
    BY <1>1, AskedRows DEF RowsKept

\* The steps of the endpoint list bring no row that the tab does not have.
LEMMA EndpointsRows ==
    ASSUME OriginInv, QueryInv, RowsInv, EndpointsNext PROVE RowsKept
<1>1. CASE EndpointPage
    BY <1>1, MountRows DEF EndpointPage, Keys
<1>2. CASE EndpointPager \/ EndpointFilter
    BY <1>2, TurnRows DEF EndpointPager, EndpointFilter, RefreshSelected, Keys
<1>3. CASE TypeSwitch
    <2>1. "p1" \in Keys /\ (fetch' = Ask("p1") \/ fetch' = fetch) /\ DOMAIN NoRows = {}
        BY <1>3 DEF TypeSwitch, Observe, Keys, NoRows
    <2>2. \A l \in Keys : fetch'[l].rows \in {fetch[l].rows, NoRows}
        BY <2>1, AskedRows
    <2>3. QED
        BY <1>3, <2>1, <2>2 DEF TypeSwitch, RowsKept, server
<1>4. CASE ToggleAll \/ \E i \in Ids : ToggleOne(i)
    BY <1>4, SelectRows DEF ToggleAll, ToggleOne, EndpointRow, EndpointRows, Clear
<1>5. ASSUME \/ \E i \in Ids : DeleteEndpointOpen(i)
             \/ DeleteEndpoint \/ Close("deleteEndpoint") \/ BulkDeleteOpen \/ BulkDeleteConfirm
             \/ BulkTagOpen \/ BulkTagPick \/ BulkTagConfirm \/ ClearSelection
      PROVE  RowsIdle
    BY <1>5 DEF DeleteEndpointOpen, DeleteEndpoint, Close, BulkDeleteOpen, BulkDeleteConfirm,
                BulkTagOpen, BulkTagPick, BulkTagConfirm, ClearSelection, Open, Submit, BulkOpen,
                BulkRun, RowsIdle, nav, query, server
<1>6. ASSUME ImportOpen \/ ImportPreview \/ ImportConfirm \/ ImportBack
      PROVE  RowsIdle
    BY <1>6 DEF ImportOpen, ImportPreview, ImportConfirm, ImportBack, Open, RowsIdle, nav,
       query, server
<1>7. CASE EndpointBulkDone \/ ImportClose
    BY <1>7, RefetchRows DEF EndpointBulkDone, ImportClose, BulkClose, nav, server
<1>8. ASSUME NEW c \in calls, DeleteEndpointSettles(c) PROVE RowsKept
    BY <1>8, RefetchRows DEF DeleteEndpointSettles, FinishAndRefetch, RefetchAfter, Fail, nav,
       query, server
<1>9. ASSUME NEW c \in calls, BulkDeleteSettles(c) \/ BulkTagSettles(c) \/ ImportSettles(c)
      PROVE  RowsIdle
    BY <1>9 DEF BulkDeleteSettles, BulkTagSettles, ImportSettles, BulkSettle, RowsIdle, nav,
       query, server
<1>10. QED
    BY <1>1, <1>2, <1>3, <1>4, <1>5, <1>6, <1>7, <1>8, <1>9, IdleRows DEF EndpointsNext

\* The steps of the certificate list bring no row that the tab does not have.
LEMMA CertsRows ==
    ASSUME OriginInv, QueryInv, RowsInv, CertsNext PROVE RowsKept
<1>1. CASE CertificatesPage
    BY <1>1, MountRows DEF CertificatesPage, Keys
<1>2. CASE CertPager \/ CertFilter
    BY <1>2, TurnRows DEF CertPager, CertFilter, RefreshSelectedCerts, Keys
<1>3. CASE ToggleAllCerts \/ \E i \in Ids : ToggleOneCert(i)
    BY <1>3, SelectRows DEF ToggleAllCerts, ToggleOneCert, CertRow, CertRows, Clear
<1>4. ASSUME \/ \E i \in Ids : DeleteCertOpen(i)
             \/ PurgeTick \/ DeleteCertificate \/ Close("deleteCert") \/ Close("ingest")
             \/ BulkDeleteCertsOpen \/ BulkPurgeTick \/ BulkDeleteCertsConfirm
      PROVE  RowsIdle
    BY <1>4 DEF DeleteCertOpen, PurgeTick, DeleteCertificate, Close, BulkDeleteCertsOpen,
       BulkPurgeTick, BulkDeleteCertsConfirm, Submit, BulkOpen, BulkRun, RowsIdle, nav, query,
       server
<1>5. ASSUME IngestOpen \/ IngestType \/ IngestSubmit PROVE RowsIdle
    BY <1>5 DEF IngestOpen, IngestType, IngestSubmit, Open, Type, Submit, RowsIdle, nav, query,
       server
<1>6. CASE CertBulkDone
    BY <1>6, RefetchRows DEF CertBulkDone, BulkClose, nav, server
<1>7. ASSUME NEW c \in calls, DeleteCertSettles(c) PROVE RowsKept
    BY <1>7, RefetchRows DEF DeleteCertSettles, FinishAndRefetch, RefetchAfter, Fail, nav,
       query, server
<1>8. ASSUME NEW c \in calls, CertReferences(c) \/ BulkDeleteCertsSettles(c) PROVE RowsIdle
    BY <1>8 DEF CertReferences, BulkDeleteCertsSettles, BulkSettle, RowsIdle, nav, query, server
<1>9. ASSUME NEW c \in calls, IngestSettles(c) PROVE RowsKept
    <2>1. DOMAIN NoRows = {}
        BY DEF NoRows
    <2>2. QED
        BY <1>9, <2>1 DEF IngestSettles, Fail, RowsKept, nav, query, server, pane
<1>10. QED
    BY <1>1, <1>2, <1>3, <1>4, <1>5, <1>6, <1>7, <1>8, <1>9, IdleRows DEF CertsNext

\* A request of these pages leaves the table its ids.
LEMMA AppliedDomain ==
    ASSUME NEW c \in calls, DOMAIN srv = Ids,
           c.op \in {"read", "delete", "purge", "tags", "create"}
    PROVE  DOMAIN Applied(c) = Ids
BY DEF Applied

(***************************************************************************)
(* Bulk dialogs                                                            *)
(***************************************************************************)
\* The bulk dialogs, and what the pages that have them ask of the server.
DeleteKinds == {"bulkDelete", "bulkDeleteCerts"}
BulkKinds   == DeleteKinds \cup {"bulkTag"}
ListOps     == {"read", "delete", "purge", "tags", "create"}

\* The open bulk dialog still waits for the answer about a row.
Pending(i) == \E c \in calls : c.by = dlg.kind /\ c.here /\ c.id = i

\* The requests of these pages, and the state of their bulk dialog: a request of
\* the page that is there belongs to the dialog that is running, and is done only
\* when its row is gone or the document is being replaced.
CallInv(c) ==
    /\ c.op \in ListOps
    /\ c.by \in DeleteKinds =>
        /\ c.op \in {"delete", "purge"} /\ c.id \in Ids
        /\ c.st = "done" /\ c.here /\ page # "leaving" => srv[c.id] = Gone
    /\ c.by \in BulkKinds /\ c.here => dlg.kind = c.by /\ bulk.phase = "running"

\* What a bulk delete does not report as failed is gone, or still waited for, unless
\* the document is being replaced.
ResultInv ==
    dlg.kind \in DeleteKinds /\ bulk.phase \in {"running", "summary"} /\ page # "leaving" =>
        \A i \in bulk.ids \ bulk.failed :
            i \in Ids /\ (srv[i] = Gone \/ (bulk.phase = "running" /\ Pending(i)))

\* The inductive invariant of the bulk dialogs.
BulkInv ==
    area \in SelectAreas =>
        /\ DOMAIN bulk = {"phase", "ids", "failed"}
        /\ dlg.kind \in BulkKinds => page \in {"list", "leaving"}
        /\ \A c \in calls : CallInv(c)
        /\ ResultInv

\* The steps that leave the bulk dialogs, and their requests, alone.
BulkKept ==
    /\ UNCHANGED <<area, srv, bulk>>
    /\ \/ dlg'.kind = dlg.kind /\ page' \in {page, "leaving"}
       \/ dlg.kind \notin BulkKinds /\ dlg'.kind \notin BulkKinds
    /\ \A d \in calls' : d \in calls \/ (d.by \notin BulkKinds /\ d.op \in ListOps)
    /\ \A c \in calls : c.by \in BulkKinds => c \in calls'

\* Such a step keeps the bulk dialogs and their requests in step.
LEMMA KeepsBulk == ASSUME BulkInv, BulkKept PROVE BulkInv'
<1>1. CASE area \notin SelectAreas
    BY <1>1 DEF BulkInv, BulkKept
<1>2. CASE area \in SelectAreas
    <2>1. ASSUME NEW d \in calls' PROVE CallInv(d)'
        <3>1. CASE d.by \notin BulkKinds
            BY <1>2, <2>1, <3>1 DEF BulkInv, BulkKept, CallInv, BulkKinds
        <3>2. CASE d.by \in BulkKinds
            <4>1. d \in calls /\ CallInv(d)
                BY <1>2, <2>1, <3>2 DEF BulkInv, BulkKept
            <4>2. QED
                BY <3>2, <4>1 DEF BulkKept, CallInv
        <3>3. QED
            BY <3>1, <3>2
    <2>2. ResultInv'
        <3>1. dlg'.kind \in DeleteKinds => dlg.kind = dlg'.kind /\ dlg.kind \in BulkKinds
            BY DEF BulkKept, BulkKinds
        <3>2. QED
            BY <1>2, <3>1 DEF BulkInv, ResultInv, BulkKept, Pending
    <2>3. QED
        BY <2>1, <2>2 DEF BulkInv, BulkKept
<1>3. QED
    BY <1>1, <1>2

\* A page that goes takes its dialog with it, and its requests stay behind.
LEMMA LeavesBulk ==
    ASSUME OriginInv, BulkInv, NEW S \in SUBSET calls, calls' = Orphaned(S) \/ calls' = {},
           UNCHANGED <<area, srv>>, bulk' = NoBulk, dlg'.kind \notin BulkKinds
    PROVE  BulkInv'
<1>1. DOMAIN bulk' = {"phase", "ids", "failed"}
    BY DEF NoBulk
<1>2. ASSUME area \in SelectAreas, NEW d \in calls' PROVE CallInv(d)'
    <2>1. PICK c \in calls : d = [c EXCEPT !.here = FALSE]
        BY <1>2 DEF Orphaned
    <2>2. DOMAIN c = CallFields /\ CallInv(c)
        BY <1>2 DEF OriginInv, BulkInv
    <2>3. d.by = c.by /\ d.op = c.op /\ d.id = c.id /\ d.st = c.st /\ ~d.here
        BY <2>1, <2>2 DEF CallFields
    <2>4. QED
        BY <2>2, <2>3 DEF CallInv
<1>3. ResultInv'
    BY DEF ResultInv, BulkKinds
<1>4. QED
    BY <1>1, <1>2, <1>3 DEF BulkInv

\* A bulk dialog opens with nothing sent.
LEMMA OpensBulk ==
    ASSUME OriginInv, BulkInv, page = "list", dlg.kind = "none", NEW kind \in BulkKinds, BulkOpen(kind)
    PROVE  BulkInv'
<1>1. /\ UNCHANGED <<area, page, srv, calls>>
      /\ dlg' = [NoDlg EXCEPT !.kind = kind] /\ bulk' = [NoBulk EXCEPT !.phase = "confirm"]
    BY DEF BulkOpen, nav, server
<1>2. bulk'.phase = "confirm" /\ DOMAIN bulk' = {"phase", "ids", "failed"}
    BY <1>1 DEF NoBulk
<1>3. "none" \notin BulkKinds
    BY DEF BulkKinds, DeleteKinds
<1>4. ASSUME area \in SelectAreas, NEW c \in calls PROVE CallInv(c)'
    BY <1>1, <1>3, <1>4 DEF BulkInv, CallInv
<1>5. ResultInv'
    BY <1>2 DEF ResultInv
<1>6. QED
    BY <1>1, <1>2, <1>4, <1>5 DEF BulkInv

\* A bulk dialog closes once it has all its answers.
LEMMA ClosesBulk ==
    ASSUME BulkInv, NEW kind \in BulkKinds, BulkClose(kind) PROVE BulkInv'
<1>1. /\ UNCHANGED <<area, page, srv, calls>> /\ dlg' = NoDlg /\ bulk' = NoBulk
      /\ bulk.phase # "running"
    BY DEF BulkClose, nav, server
<1>2. dlg'.kind = "none" /\ "none" \notin BulkKinds /\ DOMAIN bulk' = {"phase", "ids", "failed"}
    BY <1>1 DEF NoDlg, Form, NoBulk, BulkKinds, DeleteKinds
<1>3. ASSUME area \in SelectAreas, NEW c \in calls PROVE CallInv(c)'
    BY <1>1, <1>3 DEF BulkInv, CallInv
<1>4. ResultInv'
    BY <1>2 DEF ResultInv, BulkKinds
<1>5. QED
    BY <1>1, <1>2, <1>3, <1>4 DEF BulkInv

\* Confirming sends one request for every selected row.
LEMMA RunsBulk ==
    ASSUME BulkInv, RowsInv, NEW kind \in BulkKinds, NEW op, NEW val, BulkRun(kind, op, val),
           op \in ListOps, kind \in DeleteKinds => op \in {"delete", "purge"}
    PROVE  BulkInv'
<1>1. PICK cs : calls' = calls \cup cs /\ cs = {Call(kind, op, i, val[i], <<>>) : i \in DOMAIN sel}
    BY DEF BulkRun, Send
<1>2. /\ UNCHANGED <<area, page, srv, dlg>> /\ dlg.kind = kind /\ bulk.phase = "confirm"
      /\ bulk' = [phase |-> "running", ids |-> DOMAIN sel, failed |-> {}]
    BY DEF BulkRun, nav, server
<1>3. ASSUME NEW d \in cs
      PROVE  /\ d.by = kind /\ d.op = op /\ d.st = "sent" /\ d.here /\ d.id \in DOMAIN sel
    BY <1>1, <1>3 DEF Call
<1>4. ASSUME NEW i \in DOMAIN sel PROVE \E d \in cs : d.id = i
    <2>1. Call(kind, op, i, val[i], <<>>) \in cs /\ Call(kind, op, i, val[i], <<>>).id = i
        BY <1>1, <1>4 DEF Call
    <2>2. QED
        BY <2>1
<1>5. ASSUME area \in SelectAreas, NEW d \in calls' PROVE CallInv(d)'
    <2>1. DOMAIN sel \subseteq Ids
        BY <1>5 DEF RowsInv
    <2>2. CASE d \in cs
        BY <1>2, <1>3, <2>1, <2>2 DEF CallInv
    <2>3. CASE d \in calls
        BY <1>2, <1>5, <2>3 DEF BulkInv, CallInv
    <2>4. QED
        BY <1>1, <1>5, <2>2, <2>3
<1>6. ASSUME area \in SelectAreas PROVE ResultInv'
    <2>1. DOMAIN sel \subseteq Ids /\ bulk'.ids = DOMAIN sel /\ bulk'.phase = "running"
        BY <1>2, <1>6 DEF RowsInv
    <2>2. \A i \in DOMAIN sel : Pending(i)'
        BY <1>1, <1>2, <1>3, <1>4 DEF Pending
    <2>3. QED
        BY <2>1, <2>2 DEF ResultInv
<1>7. QED
    BY <1>2, <1>5, <1>6 DEF BulkInv

\* An answer is counted; the summary comes with the last one.
LEMMA SettlesBulk ==
    ASSUME BulkInv, NEW c \in calls, c.by \in BulkKinds, BulkSettle(c) PROVE BulkInv'
<1>1. /\ UNCHANGED <<area, page, srv, dlg>> /\ calls' = calls \ {c} /\ c.st # "sent"
      /\ bulk' = IF ~c.here THEN bulk
                 ELSE [bulk EXCEPT !.failed = IF c.st = "done" THEN @ ELSE @ \cup {c.id},
                                  !.phase = IF AnswersDue(c) THEN "running" ELSE "summary"]
    BY DEF BulkSettle, nav, server
<1>2. CASE area \notin SelectAreas
    BY <1>1, <1>2 DEF BulkInv
<1>3. CASE area \in SelectAreas /\ ~c.here
    <2>1. \A d \in calls' : CallInv(d)'
        BY <1>1, <1>3 DEF BulkInv, CallInv
    <2>2. ResultInv'
        BY <1>1, <1>3 DEF BulkInv, ResultInv, Pending
    <2>3. QED
        BY <1>1, <1>3, <2>1, <2>2 DEF BulkInv
<1>4. CASE area \in SelectAreas /\ c.here
    <2>1. DOMAIN bulk = {"phase", "ids", "failed"} /\ dlg.kind = c.by /\ bulk.phase = "running"
        BY <1>4 DEF BulkInv, CallInv
    <2>2. /\ DOMAIN bulk' = {"phase", "ids", "failed"} /\ bulk'.ids = bulk.ids
          /\ bulk'.failed = (IF c.st = "done" THEN bulk.failed ELSE bulk.failed \cup {c.id})
          /\ bulk'.phase = (IF AnswersDue(c) THEN "running" ELSE "summary")
        BY <1>1, <1>4, <2>1
    <2>3. ASSUME NEW d \in calls' PROVE CallInv(d)'
        <3>1. d \in calls \ {c} /\ CallInv(d)
            BY <1>1, <1>4, <2>3 DEF BulkInv
        <3>2. d.by \in BulkKinds /\ d.here => AnswersDue(c)
            BY <2>1, <3>1 DEF CallInv, AnswersDue
        <3>3. QED
            BY <1>1, <2>2, <3>1, <3>2 DEF CallInv
    <2>4. ASSUME dlg.kind \in DeleteKinds, page # "leaving", NEW i \in bulk'.ids \ bulk'.failed
          PROVE  i \in Ids /\ (srv[i] = Gone \/ (bulk'.phase = "running" /\ Pending(i)'))
        <3>1. i \in bulk.ids \ bulk.failed /\ (i = c.id => c.st = "done")
            BY <2>2, <2>4
        <3>2. i \in Ids /\ (srv[i] = Gone \/ Pending(i))
            BY <1>4, <2>1, <2>4, <3>1 DEF BulkInv, ResultInv
        <3>3. CASE i = c.id
            <4>1. CallInv(c)
                BY <1>4 DEF BulkInv
            <4>2. c.by \in DeleteKinds /\ c.st = "done"
                BY <2>1, <2>4, <3>1, <3>3
            <4>3. srv[c.id] = Gone
                BY <1>4, <2>4, <4>1, <4>2 DEF CallInv
            <4>4. QED
                BY <3>2, <3>3, <4>3
        <3>4. CASE Pending(i) /\ i # c.id
            <4>1. PICK d \in calls : d.by = dlg.kind /\ d.here /\ d.id = i
                BY <3>4 DEF Pending
            <4>2. d \in calls \ {c} /\ AnswersDue(c)
                BY <2>1, <3>4, <4>1 DEF AnswersDue
            <4>3. QED
                BY <1>1, <2>2, <3>2, <4>1, <4>2 DEF Pending
        <3>5. QED
            BY <3>2, <3>3, <3>4
    <2>5. ResultInv'
        BY <1>1, <2>4 DEF ResultInv
    <2>6. QED
        BY <1>1, <1>4, <2>2, <2>3, <2>5 DEF BulkInv
<1>5. QED
    BY <1>2, <1>3, <1>4

\* What the two lists do with a bulk dialog: it opens over the list, it runs, takes
\* an answer and closes, or its page goes.
BulkMoves ==
    \/ BulkKept
    \/ \E kind \in BulkKinds :
        \/ page = "list" /\ dlg.kind = "none" /\ BulkOpen(kind)
        \/ BulkClose(kind)
        \/ \E op \in {"delete", "purge", "tags"} : \E val :
              (kind \in DeleteKinds => op # "tags") /\ BulkRun(kind, op, val)
    \/ \E c \in calls : c.by \in BulkKinds /\ BulkSettle(c)
    \/ \E S \in SUBSET calls :
        calls' = Orphaned(S) /\ UNCHANGED <<area, srv>> /\ bulk' = NoBulk /\ dlg' = NoDlg

\* All of that keeps the bulk dialogs and their requests in step.
LEMMA MovesKeepBulk ==
    ASSUME OriginInv, BulkInv, RowsInv, BulkMoves PROVE BulkInv'
<1>1. ASSUME NEW kind \in BulkKinds, NEW op \in {"delete", "purge", "tags"}, NEW val,
             kind \in DeleteKinds => op # "tags", BulkRun(kind, op, val)
      PROVE  BulkInv'
    BY <1>1, RunsBulk DEF ListOps
<1>2. ASSUME NEW S \in SUBSET calls, calls' = Orphaned(S), UNCHANGED <<area, srv>>,
             bulk' = NoBulk, dlg' = NoDlg
      PROVE  BulkInv'
    <2>1. dlg'.kind \notin BulkKinds
        BY <1>2 DEF NoDlg, Form, BulkKinds, DeleteKinds
    <2>2. QED
        BY <1>2, <2>1, LeavesBulk
<1>3. QED
    BY <1>1, <1>2, KeepsBulk, OpensBulk, ClosesBulk, SettlesBulk DEF BulkMoves

\* The endpoint list does nothing else with them.
LEMMA EndpointsBulk ==
    ASSUME OriginInv, BulkInv, EndpointsNext PROVE BulkMoves
<1> USE DEF BulkKinds, DeleteKinds, ListOps
<1>1. ASSUME \/ EndpointPage \/ EndpointPager \/ EndpointFilter \/ TypeSwitch \/ ToggleAll
             \/ ClearSelection \/ \E i \in Ids : ToggleOne(i)
      PROVE  BulkKept
    <2>1. UNCHANGED <<area, srv, bulk, dlg, calls>>
        BY <1>1 DEF EndpointPage, EndpointPager, EndpointFilter, TypeSwitch, ToggleAll,
           ClearSelection, ToggleOne, Mount, Turn, Select, server, pane
    <2>2. page' = page \/ page = "away"
        BY <1>1 DEF EndpointPage, EndpointPager, EndpointFilter, TypeSwitch, ToggleAll,
           ClearSelection, ToggleOne, Mount, Turn, Select, nav
    <2>3. area = "endpoints"
        BY <1>1, EndpointsArea DEF EndpointsNext
    <2>4. page = "away" => dlg.kind \notin BulkKinds
        BY <2>3 DEF BulkInv, SelectAreas
    <2>5. QED
        BY <2>1, <2>2, <2>4 DEF BulkKept
<1>2. ASSUME \/ \E i \in Ids : DeleteEndpointOpen(i)
             \/ DeleteEndpoint \/ Close("deleteEndpoint") \/ ImportOpen \/ ImportPreview \/ ImportConfirm
      PROVE  BulkKept
    BY <1>2 DEF DeleteEndpointOpen, DeleteEndpoint, Close, ImportOpen, ImportPreview,
       ImportConfirm, Open, Submit, Send, Call, Form, NoDlg, BulkKept, nav, server
<1>3. ASSUME ImportBack \/ ImportClose PROVE BulkKept
    BY <1>3 DEF ImportBack, ImportClose, Form, NoDlg, BulkKept, nav, server
<1>4. CASE BulkDeleteOpen \/ BulkTagOpen
    BY <1>4 DEF BulkDeleteOpen, BulkTagOpen, Clear, On, BulkMoves
<1>5. CASE BulkDeleteConfirm \/ BulkTagConfirm
    BY <1>5 DEF BulkDeleteConfirm, BulkTagConfirm, BulkMoves
<1>6. ASSUME BulkTagPick PROVE BulkKept
    <2>1. PICK tag : dlg' = [dlg EXCEPT !.val.tags = {tag}, !.typed = {"tags"}]
        BY <1>6 DEF BulkTagPick
    <2>2. dlg'.kind = dlg.kind
        BY <2>1 DEF OriginInv, DlgFields
    <2>3. QED
        BY <1>6, <2>2 DEF BulkTagPick, BulkKept, nav, server
<1>7. CASE EndpointBulkDone
    BY <1>7 DEF EndpointBulkDone, BulkMoves
<1>8. ASSUME NEW c \in calls, DeleteEndpointSettles(c) \/ ImportSettles(c) PROVE BulkKept
    <2>1. c.by \notin BulkKinds
        BY <1>8 DEF DeleteEndpointSettles, ImportSettles
    <2>2. UNCHANGED <<area, srv, bulk>> /\ calls' = calls \ {c} /\ page' \in {page, "leaving"}
        BY <1>8 DEF DeleteEndpointSettles, ImportSettles, FinishAndRefetch, RefetchAfter,
           Finish, Fail, nav, server
    <2>3. dlg' = dlg \/ (dlg' = NoDlg /\ dlg.kind = c.by)
        BY <1>8 DEF DeleteEndpointSettles, ImportSettles, FinishAndRefetch, RefetchAfter,
           Finish, Fail
    <2>4. QED
        BY <2>1, <2>2, <2>3 DEF BulkKept, NoDlg, Form
<1>9. ASSUME NEW c \in calls, BulkDeleteSettles(c) \/ BulkTagSettles(c) PROVE BulkMoves
    BY <1>9 DEF BulkDeleteSettles, BulkTagSettles, BulkMoves
<1>10. QED
    BY <1>1, <1>2, <1>3, <1>4, <1>5, <1>6, <1>7, <1>8, <1>9 DEF EndpointsNext, BulkMoves

\* Nor does the certificate list.
LEMMA CertsBulk ==
    ASSUME OriginInv, BulkInv, CertsNext PROVE BulkMoves
<1> USE DEF BulkKinds, DeleteKinds, ListOps
<1>1. ASSUME \/ CertificatesPage \/ CertPager \/ CertFilter \/ ToggleAllCerts
             \/ \E i \in Ids : ToggleOneCert(i)
      PROVE  BulkKept
    <2>1. UNCHANGED <<area, srv, bulk, dlg, calls>>
        BY <1>1 DEF CertificatesPage, CertPager, CertFilter, ToggleAllCerts, ToggleOneCert,
           Mount, Turn, Select, server, pane
    <2>2. page' = page \/ page = "away"
        BY <1>1 DEF CertificatesPage, CertPager, CertFilter, ToggleAllCerts, ToggleOneCert,
           Mount, Turn, Select, nav
    <2>3. area = "certs"
        BY <1>1, CertsArea DEF CertsNext
    <2>4. page = "away" => dlg.kind \notin BulkKinds
        BY <2>3 DEF BulkInv, SelectAreas
    <2>5. QED
        BY <2>1, <2>2, <2>4 DEF BulkKept
<1>2. ASSUME NEW i \in Ids, DeleteCertOpen(i) PROVE BulkKept
    <2>1. Read("refs", i).by = "refs" /\ Read("refs", i).op = "read"
        BY DEF Read, Call
    <2>2. dlg.kind = "none" /\ dlg'.kind = "deleteCert" /\ UNCHANGED <<area, srv, bulk, page>>
          /\ calls' = {c \in calls : c.by # "refs"} \cup {Read("refs", i)}
        BY <1>2 DEF DeleteCertOpen, CertRow, Clear, Form, nav, server
    <2>3. QED
        BY <2>1, <2>2 DEF BulkKept
<1>3. ASSUME DeleteCertificate \/ Close("deleteCert") \/ Close("ingest") \/ IngestOpen \/ IngestSubmit
      PROVE  BulkKept
    BY <1>3 DEF DeleteCertificate, Close, IngestOpen, IngestSubmit, Open, Submit, Send, Call,
       Form, NoDlg, BulkKept, nav, server
<1>4. ASSUME PurgeTick \/ BulkPurgeTick PROVE BulkKept
    <2>1. PICK v : dlg' = [dlg EXCEPT !.typed = v]
        BY <1>4 DEF PurgeTick, BulkPurgeTick
    <2>2. dlg'.kind = dlg.kind
        BY <2>1 DEF OriginInv, DlgFields
    <2>3. QED
        BY <1>4, <2>2 DEF PurgeTick, BulkPurgeTick, BulkKept, nav, server
<1>5. ASSUME IngestType PROVE BulkKept
    BY <1>5, TypeShape DEF IngestType, OriginInv, BulkKept
<1>6. CASE BulkDeleteCertsOpen
    BY <1>6 DEF BulkDeleteCertsOpen, Clear, On, BulkMoves
<1>7. CASE BulkDeleteCertsConfirm
    <2>1. PICK op : op \in {"delete", "purge"} /\ BulkRun("bulkDeleteCerts", op, AllBlank)
        BY <1>7 DEF BulkDeleteCertsConfirm
    <2>2. QED
        BY <2>1 DEF BulkMoves
<1>8. CASE CertBulkDone
    BY <1>8 DEF CertBulkDone, BulkMoves
<1>9. ASSUME NEW c \in calls, DeleteCertSettles(c) PROVE BulkKept
    <2>1. c.by \notin BulkKinds
        BY <1>9 DEF DeleteCertSettles
    <2>2. UNCHANGED <<area, srv, bulk>> /\ calls' = calls \ {c} /\ page' \in {page, "leaving"}
        BY <1>9 DEF DeleteCertSettles, FinishAndRefetch, RefetchAfter, Finish, Fail, nav, server
    <2>3. dlg' = dlg \/ (dlg' = NoDlg /\ dlg.kind = c.by)
        BY <1>9 DEF DeleteCertSettles, FinishAndRefetch, RefetchAfter, Finish, Fail
    <2>4. QED
        BY <2>1, <2>2, <2>3 DEF BulkKept, NoDlg, Form
<1>10. ASSUME NEW c \in calls, CertReferences(c) PROVE BulkKept
    <2>1. dlg' = dlg \/ (\E v : dlg' = [dlg EXCEPT !.val.on = v])
        BY <1>10 DEF CertReferences
    <2>2. dlg'.kind = dlg.kind
        BY <2>1 DEF OriginInv, DlgFields
    <2>3. QED
        BY <1>10, <2>2 DEF CertReferences, BulkKept, nav, server
<1>11. ASSUME NEW c \in calls, BulkDeleteCertsSettles(c) PROVE BulkMoves
    BY <1>11 DEF BulkDeleteCertsSettles, BulkMoves
<1>12. ASSUME NEW c \in calls, IngestSettles(c) PROVE BulkMoves
    <2>1. CASE Fail(c)
        <3>1. c.by \notin BulkKinds
            BY <1>12 DEF IngestSettles
        <3>2. BulkKept
            BY <2>1, <3>1 DEF Fail, BulkKept, nav, server
        <3>3. QED
            BY <3>2 DEF BulkMoves
    <2>2. CASE ~Fail(c) /\ SignedOut
        <3>1. c.by \notin BulkKinds
            BY <1>12 DEF IngestSettles
        <3>2. BulkKept
            BY <1>12, <2>2, <3>1 DEF IngestSettles, BulkKept, nav, server, pane
        <3>3. QED
            BY <3>2 DEF BulkMoves
    <2>3. CASE ~Fail(c) /\ ~SignedOut
        <3>1. PICK S : S = calls \ {c} /\ S \in SUBSET calls
            OBVIOUS
        <3>2. /\ calls' = Orphaned(S) /\ UNCHANGED <<area, srv>> /\ bulk' = NoBulk /\ dlg' = NoDlg
            BY <1>12, <2>3, <3>1 DEF IngestSettles, server
        <3>3. QED
            BY <3>1, <3>2 DEF BulkMoves
    <2>4. QED
        BY <2>1, <2>2, <2>3
<1>13. QED
    BY <1>1, <1>2, <1>3, <1>4, <1>5, <1>6, <1>7, <1>8, <1>9, <1>10, <1>11, <1>12
       DEF CertsNext, BulkMoves

-----------------------------------------------------------------------------
\* The server.  A new row gets an id that was never used.
LEMMA TargetIsFree ==
    ASSUME NEW c, c.op = "create", Free # {} PROVE Target(c) \in Free
<1>1. Free \subseteq 1..7
    BY WebBounds DEF Free
<1>2. \E i \in Free : \A j \in Free : i <= j
    <2>1. ASSUME NEW n \in 1..7, n \in Free, \A j \in 1..7 : j < n => j \notin Free
          PROVE  \E i \in Free : \A j \in Free : i <= j
        BY <1>1, <2>1
    <2>2. \E n \in 1..7 : n \in Free /\ \A j \in 1..7 : j < n => j \notin Free
        <3>1. \A j \in 1..7 : j \in {1, 2, 3, 4, 5, 6, 7}
            OBVIOUS
        <3>2. 1 \in Free \/ 2 \in Free \/ 3 \in Free \/ 4 \in Free \/ 5 \in Free \/ 6 \in Free \/ 7 \in Free
            BY <1>1, <3>1
        <3>3. QED
            BY <3>2
    <2>3. QED
        BY <2>1, <2>2
<1>3. QED
    BY <1>2 DEF Target

\* A row that is gone stays gone, whatever a request of these pages does.
LEMMA GoneStays ==
    ASSUME NEW c, c.op \in ListOps, DOMAIN srv = Ids, Takes(c), NEW i \in Ids, srv[i] = Gone
    PROVE  Applied(c)[i] = Gone
<1>1. ~Gone.live /\ Gone # NotYet
    <2>1. Gone.on = TRUE /\ NotYet.on = FALSE /\ Gone.live = FALSE
        BY DEF Gone, NotYet
    <2>2. QED
        BY <2>1
<1>2. CASE c.op = "read"
    BY <1>2 DEF Applied
<1>3. CASE c.op \in {"delete", "purge"}
    BY <1>3 DEF Applied, Target
<1>4. CASE c.op = "create"
    <2>1. Target(c) \in Free
        BY <1>4, TargetIsFree DEF Takes
    <2>2. Target(c) # i
        BY <1>1, <2>1 DEF Free
    <2>3. QED
        BY <1>4, <2>2 DEF Applied
<1>5. CASE c.op = "tags"
    <2>1. c.id # i
        BY <1>1, <1>5 DEF Takes
    <2>2. QED
        BY <1>5, <2>1 DEF Applied, Target
<1>6. QED
    BY <1>2, <1>3, <1>4, <1>5 DEF ListOps

\* An answer to a request changes neither who waits for it nor the row it is
\* about, and says done only when the row is gone or the document about to be.
LEMMA AnswersBulk ==
    ASSUME BulkInv, RowsInv, NEW c \in calls, NEW d,
           UNCHANGED <<area, dlg, bulk>>, page' \in {page, "leaving"},
           calls' = (calls \ {c}) \cup {d}, d.by = c.by /\ d.op = c.op /\ d.here = c.here, c.by \in DeleteKinds => d.id = c.id,
           area \in SelectAreas => \A i \in Ids : srv[i] = Gone => srv'[i] = Gone,
           area \in SelectAreas /\ c.by \in DeleteKinds /\ d.st = "done" =>
               srv'[c.id] = Gone \/ page' = "leaving"
    PROVE  BulkInv'
<1>1. CASE area \notin SelectAreas
    BY <1>1 DEF BulkInv
<1>2. CASE area \in SelectAreas
    <2>1. ASSUME NEW e \in calls' PROVE CallInv(e)'
        <3>1. CASE e = d
            BY <1>2, <3>1 DEF BulkInv, CallInv
        <3>2. CASE e \in calls
            BY <1>2, <3>2 DEF BulkInv, CallInv
        <3>3. QED
            BY <2>1, <3>1, <3>2
    <2>2. ResultInv'
        <3>1. \A i : dlg.kind \in DeleteKinds /\ Pending(i) => Pending(i)'
            BY DEF Pending
        <3>2. QED
            BY <1>2, <3>1 DEF BulkInv, ResultInv
    <2>3. QED
        BY <1>2, <2>1, <2>2 DEF BulkInv
<1>3. QED
    BY <1>1, <1>2

\* A request the server accepts deletes its row, and creates none in its place.
LEMMA AppliesBulk ==
    ASSUME OriginInv, BulkInv, RowsInv, NEW c \in calls, Apply(c) PROVE BulkInv' /\ RowsInv'
<1>1. Takes(c) /\ srv' = Applied(c) /\ UNCHANGED <<area, page, held, cache, fetch, dlg, sel, bulk>>
    BY DEF Apply, nav, query, pane
<1>2. PICK d, st, got : /\ d = [c EXCEPT !.st = st, !.id = Target(c), !.val = got]
                        /\ calls' = (calls \ {c}) \cup {d}
    BY DEF Apply
<1>3. DOMAIN c = CallFields
    BY DEF OriginInv
<1>4. d.by = c.by /\ d.op = c.op /\ d.here = c.here /\ d.id = Target(c)
    BY <1>2, <1>3 DEF CallFields
<1>5. CASE area \notin SelectAreas
    BY <1>1, <1>5 DEF BulkInv, RowsInv
<1>6. CASE area \in SelectAreas
    <2>1. DOMAIN srv = Ids /\ c.op \in ListOps
          /\ (c.by \in DeleteKinds => c.op \in {"delete", "purge"} /\ c.id \in Ids)
        BY <1>6 DEF RowsInv, BulkInv, CallInv
    <2>2. RowsInv'
        BY <1>1, <1>6, <2>1, AppliedDomain DEF RowsInv, ListOps
    <2>3. \A i \in Ids : srv[i] = Gone => srv'[i] = Gone
        BY <1>1, <2>1, GoneStays
    <2>4. c.by \in DeleteKinds => d.id = c.id /\ srv'[c.id] = Gone
        BY <1>1, <1>4, <2>1 DEF Target, Applied
    <2>5. QED
        BY <1>1, <1>2, <1>4, <2>2, <2>3, <2>4, AnswersBulk
<1>7. QED
    BY <1>5, <1>6

\* A request the server refuses, or that is lost, changes nothing.
LEMMA RefusesBulk ==
    ASSUME OriginInv, BulkInv, RowsInv, NEW c \in calls, Refuse(c) PROVE BulkInv'
<1>1. PICK d : d = [c EXCEPT !.st = "refused"] /\ calls' = (calls \ {c}) \cup {d}
    BY DEF Refuse, Answer
<1>2. UNCHANGED <<area, page, srv, dlg, bulk>> /\ DOMAIN c = CallFields
    BY DEF Refuse, OriginInv, nav, server, pane
<1>3. d.by = c.by /\ d.op = c.op /\ d.here = c.here /\ d.id = c.id /\ d.st # "done"
    BY <1>1, <1>2 DEF CallFields
<1>4. QED
    BY <1>1, <1>2, <1>3, AnswersBulk

\* Somebody else changes rows that are there.
LEMMA OthersBulk ==
    ASSUME BulkInv, RowsInv, OtherChanges PROVE BulkInv' /\ RowsInv'
<1>1. UNCHANGED <<area, page, held, cache, fetch, calls, dlg, sel, bulk>>
    BY DEF OtherChanges, nav, query, pane
<1>2. PICK i, f : i \in Live /\ srv' = [srv EXCEPT ![i] = f]
    <2>1. PICK i \in Live :
            \/ srv' = [srv EXCEPT ![i].on = ~@]
            \/ srv' = [srv EXCEPT ![i].cfg = Theirs]
            \/ srv' = [srv EXCEPT ![i].tags = @ \cup {"theirs"}]
            \/ srv' = [srv EXCEPT ![i] = Gone]
        BY DEF OtherChanges
    <2>2. QED
        BY <2>1
<1>3. i \in Ids /\ srv[i] # Gone
    BY <1>2 DEF Live, Gone, NotYet
<1>4. DOMAIN srv' = DOMAIN srv
    BY <1>2
<1>5. \A j \in Ids : DOMAIN srv = Ids /\ srv[j] = Gone => srv'[j] = Gone
    BY <1>2, <1>3
<1>6. RowsInv'
    BY <1>1, <1>4 DEF RowsInv
<1>7. CASE area \notin SelectAreas
    BY <1>1, <1>6, <1>7 DEF BulkInv
<1>8. CASE area \in SelectAreas
    <2>1. \A j \in Ids : srv[j] = Gone => srv'[j] = Gone
        BY <1>5, <1>8 DEF RowsInv
    <2>2. \A c \in calls : CallInv(c)'
        BY <1>1, <1>8, <2>1 DEF BulkInv, CallInv
    <2>3. ResultInv'
        BY <1>1, <1>8, <2>1 DEF BulkInv, ResultInv, Pending
    <2>4. QED
        BY <1>1, <1>6, <1>8, <2>2, <2>3 DEF BulkInv
<1>9. QED
    BY <1>7, <1>8

-----------------------------------------------------------------------------
\* The session.
LEMMA SessionBulk ==
    ASSUME OriginInv, QueryInv, BulkInv, RowsInv, Session \/ Leave \/ Focus \/ DismissSecret
    PROVE  BulkInv' /\ RowsInv'
<1> USE DEF BulkKinds, DeleteKinds
<1>1. DOMAIN NoRows = {} /\ NoDlg.kind = "none" /\ [NoDlg EXCEPT !.kind = "credentials"].kind = "credentials"
    BY DEF NoRows, NoDlg, Form
<1>2. CASE Expire \/ DismissSecret
    <2>1. RowsIdle
        BY <1>2 DEF Expire, DismissSecret, RowsIdle, nav, query, server, pane
    <2>2. BulkKept
        BY <1>2 DEF Expire, DismissSecret, BulkKept, nav, query, server, pane
    <2>3. QED
        BY <2>1, <2>2, IdleRows, KeepsRows, KeepsBulk
<1>8. CASE Denied
    <2>1. RowsIdle /\ UNCHANGED <<area, srv, dlg, bulk>> /\ page' \in {page, "leaving"}
        BY <1>8, DeniedShape DEF RowsIdle, query, server, pane
    <2>2. CASE calls' = calls
        <3>1. BulkKept
            BY <2>1, <2>2 DEF BulkKept
        <3>2. QED
            BY <2>1, <3>1, IdleRows, KeepsRows, KeepsBulk
    <2>3. CASE calls' # calls
        <3>1. PICK c \in calls : \E d : /\ calls' = (calls \ {c}) \cup {d}
                                        /\ \A f \in CallFields \ {"st"} : d[f] = c[f]
                                        /\ (Bare(c) \/ page' = "leaving")
            BY <1>8, <2>3, DeniedShape
        <3>2. PICK d : /\ calls' = (calls \ {c}) \cup {d}
                       /\ d.by = c.by /\ d.op = c.op /\ d.here = c.here /\ d.id = c.id
            BY <3>1 DEF CallFields
        <3>3. c.by \in DeleteKinds => page' = "leaving"
            BY <3>1 DEF Bare
        <3>4. BulkInv'
            BY <2>1, <3>2, <3>3, AnswersBulk
        <3>5. QED
            BY <2>1, <3>4, IdleRows, KeepsRows
    <2>4. QED
        BY <2>2, <2>3
<1>3. CASE Focus
    <2>1. view \in Keys /\ fetch' = Ask(view) /\ UNCHANGED <<area, srv, held, cache, sel>>
        BY <1>3 DEF Focus, QueryInv, QueryType, nav, server, pane
    <2>2. RowsKept
        BY <2>1, AskedRows DEF RowsKept
    <2>3. BulkKept
        BY <1>3 DEF Focus, BulkKept, nav, server, pane
    <2>4. QED
        BY <2>2, <2>3, KeepsRows, KeepsBulk
<1>4. CASE ProtectedRoute \/ Credentials \/ SecondFactor
    <2>1. RowsIdle
        BY <1>4 DEF ProtectedRoute, Credentials, SecondFactor, RowsIdle, query, server
    <2>2. UNCHANGED <<area, srv, bulk, calls>> /\ page \in {"away", "login"}
        BY <1>4 DEF ProtectedRoute, Credentials, SecondFactor, server
    <2>3. dlg'.kind \in {"none", "credentials", "totp"}
        BY <1>1, <1>4 DEF ProtectedRoute, Credentials, SecondFactor, OriginInv, DlgFields
    <2>4. CASE area \notin SelectAreas
        BY <2>1, <2>2, <2>4, IdleRows, KeepsRows DEF BulkInv
    <2>5. CASE area \in SelectAreas
        <3>1. dlg.kind \notin BulkKinds
            BY <2>2, <2>5 DEF BulkInv
        <3>2. BulkKept
            BY <2>2, <2>3, <3>1 DEF BulkKept
        <3>3. QED
            BY <2>1, <3>2, IdleRows, KeepsRows, KeepsBulk
    <2>6. QED
        BY <2>4, <2>5
<1>5. CASE Logout \/ Leave
    <2>1. PICK S : S = calls
        OBVIOUS
    <2>2. calls' = Orphaned(S) /\ UNCHANGED <<area, srv, cache, fetch>> /\ bulk' = NoBulk
          /\ held' = NoRows /\ sel' = NoRows
        BY <1>5, <2>1 DEF Logout, Leave, Unmount, server, query
    <2>3. dlg'.kind \in {"none", "credentials"}
        BY <1>1, <1>5 DEF Logout, Leave
    <2>4. RowsKept
        BY <1>1, <2>2 DEF RowsKept
    <2>5. S \in SUBSET calls /\ dlg'.kind \notin BulkKinds
        BY <2>1, <2>3
    <2>6. QED
        BY <2>2, <2>4, <2>5, KeepsRows, LeavesBulk
<1>6. CASE Unload \/ AuthCallback
    <2>1. /\ calls' = {} /\ UNCHANGED <<area, srv>> /\ bulk' = NoBulk /\ held' = NoRows /\ sel' = NoRows
          /\ cache' = [k \in Keys |-> NoAnswer] /\ fetch' = [k \in Keys |-> Idle]
        BY <1>6 DEF Unload, AuthCallback, NewDocument
    <2>2. dlg'.kind \in {"none", "credentials"}
        BY <1>1, <1>6 DEF Unload, AuthCallback
    <2>3. \A k \in Keys : cache'[k].rows = NoRows /\ fetch'[k].rows = NoRows
        BY <2>1 DEF NoAnswer, Idle
    <2>4. RowsInv'
        BY <1>1, <2>1, <2>3 DEF RowsInv
    <2>5. PICK S : S = calls
        OBVIOUS
    <2>6. S \in SUBSET calls /\ dlg'.kind \notin BulkKinds
        BY <2>2, <2>5
    <2>7. QED
        BY <2>1, <2>4, <2>6, LeavesBulk
<1>7. QED
    BY <1>2, <1>3, <1>4, <1>5, <1>6, <1>8 DEF Session

\* The queries bring rows of the table, and touch no bulk dialog.
LEMMA DeliverBulk ==
    ASSUME OriginInv, QueryInv, SelectionInv, BulkInv, RowsInv, NEW k \in Keys,
           Serve(k) \/ Deliver(k) \/ FetchFails(k)
    PROVE  BulkInv' /\ RowsInv'
<1>1. CASE Serve(k)
    <2>1. DOMAIN RowsOf(k) \subseteq Ids
        BY DEF RowsOf, Live
    <2>2. fetch'[k].rows = RowsOf(k) /\ \A l \in Keys : l # k => fetch'[l] = fetch[l]
        BY <1>1 DEF Serve, QueryInv, QueryType
    <2>3. UNCHANGED <<area, page, held, srv, cache, calls, dlg, sel, bulk>>
        BY <1>1 DEF Serve, nav, server, pane
    <2>4. RowsInv'
        BY <2>1, <2>2, <2>3 DEF RowsInv
    <2>5. BulkKept
        BY <2>3 DEF BulkKept
    <2>6. QED
        BY <2>4, <2>5, KeepsBulk
<1>2. CASE FetchFails(k)
    <2>1. fetch' = [fetch EXCEPT ![k] = Idle]
          /\ UNCHANGED <<area, page, held, srv, cache, calls, dlg, sel, bulk>>
        BY <1>2 DEF FetchFails, nav, server, pane
    <2>2. \A l \in Keys : fetch'[l].rows \in {fetch[l].rows, NoRows}
        BY <2>1, AskedRows
    <2>3. RowsKept /\ BulkKept
        BY <2>1, <2>2 DEF RowsKept, BulkKept
    <2>4. QED
        BY <2>3, KeepsRows, KeepsBulk
<1>3. CASE Deliver(k)
    <2>1. PICK d \in DialogsAfter(k) : Answered(k, SelectionAfter(k), d)
        BY <1>3 DEF Deliver
    <2>2. /\ UNCHANGED <<area, page, held, srv, calls, bulk>> /\ dlg' = d /\ sel' = SelectionAfter(k)
          /\ fetch' = [fetch EXCEPT ![k] = Idle]
          /\ cache' = [cache EXCEPT ![k] = [have |-> TRUE, rows |-> fetch[k].rows,
                                            inv |-> FALSE, at |-> fetch[k].at]]
        BY <2>1 DEF Answered, nav, server
    <2>3. CASE area \notin SelectAreas
        BY <2>2, <2>3 DEF BulkInv, RowsInv
    <2>4. CASE area \in SelectAreas
        <3>1. dlg' = dlg
            BY <2>1, <2>2, <2>4 DEF DialogsAfter, SelectAreas
        <3>2. DOMAIN sel' = DOMAIN sel
            BY <2>2, <2>4, SelectionAfterList, RefreshedDomain DEF SelectionInv
        <3>3. \A l \in Keys : fetch'[l].rows \in {fetch[l].rows, NoRows}
            BY <2>2, AskedRows
        <3>4. \A l \in Keys : cache'[l].rows \in {cache[l].rows, fetch[l].rows}
            BY <2>2 DEF QueryInv, QueryType
        <3>5. DOMAIN NoRows = {}
            BY DEF NoRows
        <3>6. RowsInv'
            BY <2>2, <3>2, <3>3, <3>4, <3>5 DEF RowsInv
        <3>7. BulkKept
            BY <2>2, <3>1 DEF BulkKept
        <3>8. QED
            BY <3>6, <3>7, KeepsBulk
    <2>5. QED
        BY <2>3, <2>4
<1>4. QED
    BY <1>1, <1>2, <1>3

\* Every step keeps the bulk dialogs and the rows.
LEMMA BulkStep ==
    OriginInv /\ QueryInv /\ SelectionInv /\ BulkInv /\ RowsInv /\ [Next]_vars => BulkInv' /\ RowsInv'
<1> SUFFICES ASSUME OriginInv, QueryInv, SelectionInv, BulkInv, RowsInv, [Next]_vars
             PROVE  BulkInv' /\ RowsInv'
    OBVIOUS
<1>1. CASE UNCHANGED vars
    <2>1. RowsIdle /\ BulkKept
        BY <1>1 DEF vars, RowsIdle, BulkKept, nav, query, pane, server
    <2>2. QED
        BY <2>1, IdleRows, KeepsRows, KeepsBulk
<1>2. CASE Elsewhere
    BY <1>2, ElsewhereArea DEF BulkInv, RowsInv
<1>3. CASE Pages
    BY <1>2, <1>3, EndpointsRows, CertsRows, KeepsRows, EndpointsBulk, CertsBulk, MovesKeepBulk,
       SessionBulk DEF Pages, Elsewhere
<1>4. CASE Respond
    <2>1. ASSUME NEW c \in calls, Refuse(c) PROVE BulkInv' /\ RowsInv'
        <3>1. RowsIdle
            BY <2>1 DEF Refuse, RowsIdle, nav, query, pane, server
        <3>2. QED
            BY <2>1, <3>1, RefusesBulk, IdleRows, KeepsRows
    <2>2. QED
        BY <1>4, <2>1, AppliesBulk, DeliverBulk DEF Respond
<1>5. QED
    BY <1>1, <1>3, <1>4, SessionBulk, DeliverBulk, OthersBulk DEF Next

\* A tab starts with no bulk dialog.
LEMMA BulkInit == Init => BulkInv /\ RowsInv
<1> SUFFICES ASSUME Init PROVE BulkInv /\ RowsInv
    OBVIOUS
<1>1. DOMAIN NoRows = {} /\ NoDlg.kind = "none"
    BY DEF NoRows, NoDlg, Form
<1>2. /\ held = NoRows /\ sel = NoRows /\ dlg = NoDlg /\ bulk = NoBulk /\ calls = {}
      /\ cache = [k \in Keys |-> NoAnswer] /\ fetch = [k \in Keys |-> Idle] /\ DOMAIN srv = Ids
    BY DEF Init
<1>3. \A k \in Keys : cache[k].rows = NoRows /\ fetch[k].rows = NoRows
    BY <1>2 DEF NoAnswer, Idle
<1>4. RowsInv
    BY <1>1, <1>2, <1>3 DEF RowsInv
<1>5. BulkInv
    BY <1>1, <1>2 DEF BulkInv, ResultInv, BulkKinds, DeleteKinds, NoBulk
<1>6. QED
    BY <1>4, <1>5

\* A bulk delete's summary does not call a row deleted that is still there, until
\* a rejected token takes the document away (client.ts, request): Promise.allSettled
\* in the dialogs counts every failure, however the requests were answered, refused
\* or cut in between, and an id is not used twice.
THEOREM BulkSummariesAreTrue == Spec => []DeletedMeansGone
<1>1. OriginInv /\ BulkInv => DeletedMeansGone
    <2> SUFFICES ASSUME OriginInv, BulkInv, dlg.kind \in DeleteKinds, bulk.phase = "summary",
                        page # "leaving", NEW i \in bulk.ids \ bulk.failed
                 PROVE  ~srv[i].live
        BY DEF DeletedMeansGone, DeleteKinds
    <2>1. area \in SelectAreas
        BY DEF OriginInv, AtHome, SelectAreas, DeleteKinds
    <2>2. srv[i] = Gone
        BY <2>1 DEF BulkInv, ResultInv
    <2>3. QED
        BY <2>2 DEF Gone, NotYet
<1>2. QED
    BY <1>1, OriginInit, OriginStep, QueryInvInit, QueryInvStep, SelectionInit, SelectionStep,
       BulkInit, BulkStep, PTL DEF Spec

(***************************************************************************)
(* Secrets                                                                 *)
(***************************************************************************)
\* The requests that follow the first one of a form.
FormOps == {"link", "tags", "delete"}

\* The components that know what to do with a secret.
Hands(c) == \/ c.by \in {"rotate", "scannerNew", "key"}
            \/ c.by \in {"setup", "recovery"} /\ c.rest # <<>>

\* A request a page of the area may send: a secret comes back to a component
\* that displays it, and the later requests of a form issue none.
Fits(c) == /\ HasSecret(c) => Hands(c)
           /\ c.by \in {"edit", "new", "promote"} => c.rest \in Seq(FormOps)

\* A request on whose answer, or on whose successor's answer, a secret is
\* displayed.
Carries(c) == \/ c.by \in {"rotate", "key"} /\ c.st = "done"
              \/ c.by = "scannerNew" /\ (c.st = "done" \/ c.op = "cfg")
              \/ c.by \in {"setup", "recovery"} /\ c.st = "done" /\ c.rest # <<>> /\ c.op \in Issues

\* A secret that was issued is on its way to a component that displays it, and the
\* one that is shown is the one on display.
FateInv ==
    /\ DOMAIN reveal = {"on", "fate"} /\ DOMAIN reveal.fate = 1..MaxSent
    /\ \A n \in 1..MaxSent :
        /\ reveal.fate[n] = "issued" => \E c \in calls : c.n = n /\ Carries(c)
        /\ reveal.fate[n] = "shown"  => reveal.on = n
        /\ reveal.fate[n] = "followup" => area = "scanners"

\* The inductive invariant of the secrets.
SecretInv == (\A c \in calls : Fits(c)) /\ FateInv

\* A step that displays nothing: every request that carries a secret stays, or is
\* succeeded by one that does.
PlainStep ==
    /\ UNCHANGED <<area, reveal>>
    /\ \A d \in calls' : Fits(d)
    /\ \A c \in calls : c.n # 0 /\ Carries(c) => \E d \in calls' : d.n = c.n /\ Carries(d)

\* Such a step keeps the secrets.
LEMMA PlainKeeps == ASSUME SecretInv, PlainStep PROVE SecretInv'
<1>1. \A d : Fits(d)' <=> Fits(d)
    BY DEF PlainStep, Fits, HasSecret, Hands
<1>2. \A d : Carries(d)' <=> Carries(d)
    BY DEF Carries
<1>3. (\A c \in calls : Fits(c))'
    BY <1>1 DEF PlainStep
<1>4. FateInv'
    <2>1. /\ DOMAIN reveal = {"on", "fate"} /\ DOMAIN reveal.fate = 1..MaxSent
          /\ UNCHANGED <<area, reveal>>
        BY DEF SecretInv, FateInv, PlainStep
    <2>2. ASSUME NEW n \in 1..MaxSent, reveal.fate[n] = "issued"
          PROVE  \E d \in calls' : d.n = n /\ Carries(d)
        <3>1. n # 0
            OBVIOUS
        <3>2. QED
            BY <2>2, <3>1 DEF SecretInv, FateInv, PlainStep
    <2>3. QED
        BY <1>2, <2>1, <2>2 DEF SecretInv, FateInv
<1>5. QED
    BY <1>3, <1>4 DEF SecretInv

\* A step that only adds requests.
LEMMA Sends ==
    ASSUME SecretInv, UNCHANGED <<area, reveal>>, calls \subseteq calls',
           \A d \in calls' : d \in calls \/ Fits(d)
    PROVE  PlainStep
BY DEF SecretInv, PlainStep

\* A step that takes an answer that carries no secret.
LEMMA Settles ==
    ASSUME SecretInv, NEW c \in calls, UNCHANGED <<area, reveal>>, calls' = calls \ {c}, ~Carries(c)
    PROVE  PlainStep
BY DEF SecretInv, PlainStep

\* A request becomes the next one.
LEMMA Moves ==
    ASSUME SecretInv, NEW c \in calls, NEW d, UNCHANGED <<area, reveal>>,
           calls' = (calls \ {c}) \cup {d}, Fits(d), d.n = c.n, Carries(c) => Carries(d)
    PROVE  PlainStep
BY DEF SecretInv, PlainStep

\* Requests of a page that is gone still carry what they carry.
LEMMA OrphansCarry ==
    ASSUME SecretInv, OriginInv, NEW S \in SUBSET calls
    PROVE  /\ \A d \in Orphaned(S) : Fits(d)
           /\ \A c \in S : c.n # 0 /\ Carries(c) => \E d \in Orphaned(S) : d.n = c.n /\ Carries(d)
<1>1. ASSUME NEW c \in calls
      PROVE  LET d == [c EXCEPT !.here = FALSE]
             IN Fits(d) /\ d.n = c.n /\ (Carries(c) => Carries(d))
    <2>1. PICK d : d = [c EXCEPT !.here = FALSE]
        OBVIOUS
    <2>2. DOMAIN c = CallFields
        BY DEF OriginInv
    <2>3. d.n = c.n /\ d.by = c.by /\ d.op = c.op /\ d.st = c.st /\ d.rest = c.rest
        BY <2>1, <2>2 DEF CallFields
    <2>4. QED
        BY <2>1, <2>3 DEF SecretInv, Fits, HasSecret, Hands, Carries
<1>2. \A d \in Orphaned(S) : Fits(d)
    BY <1>1 DEF Orphaned
<1>3. \A c \in S : c.n # 0 => [c EXCEPT !.here = FALSE] \in Orphaned(S)
    BY DEF Orphaned
<1>4. QED
    BY <1>1, <1>2, <1>3

\* A page that goes leaves its requests behind, and those that carry a secret too.
LEMMA Abandons ==
    ASSUME SecretInv, OriginInv, NEW S \in SUBSET calls, NEW T, \A d \in T : Fits(d),
           UNCHANGED <<area, reveal>>, calls' = Orphaned(S) \cup T, \A c \in calls \ S : ~Carries(c)
    PROVE  PlainStep
BY OrphansCarry DEF PlainStep

\* A page that goes when one of its requests is settled.
LEMMA Leaves ==
    ASSUME SecretInv, OriginInv, NEW c \in calls, ~Carries(c), UNCHANGED <<area, reveal>>,
           calls' = Orphaned(calls \ {c})
    PROVE  PlainStep
<1>1. PICK S : S = calls \ {c}
    OBVIOUS
<1>2. S \in SUBSET calls /\ \A d \in calls \ S : ~Carries(d)
    BY <1>1
<1>3. PICK T : T = {}
    OBVIOUS
<1>4. calls' = Orphaned(S) \cup T /\ \A d \in T : Fits(d)
    BY <1>1, <1>3
<1>5. QED
    BY <1>2, <1>4, Abandons

\* A page that goes while none of its requests is settled.
LEMMA Departs ==
    ASSUME SecretInv, OriginInv, NEW T, \A d \in T : Fits(d), UNCHANGED <<area, reveal>>,
           calls' = Orphaned(calls) \cup T
    PROVE  PlainStep
<1>1. PICK S : S = calls
    OBVIOUS
<1>2. S \in SUBSET calls /\ \A d \in calls \ S : ~Carries(d)
    BY <1>1
<1>3. calls' = Orphaned(S) \cup T
    BY <1>1
<1>4. QED
    BY <1>2, <1>3, Abandons

\* A dialog that starts afresh disowns the requests of the one before.
LEMMA Afresh ==
    ASSUME SecretInv, OriginInv, NEW kind, NEW i, NEW v, OpenAfresh(kind, i, v)
    PROVE  PlainStep
<1>1. ASSUME NEW c \in calls
      PROVE  LET d == [c EXCEPT !.own = FALSE]
             IN Fits(d) /\ d.n = c.n /\ (Carries(c) => Carries(d))
    <2>1. PICK d : d = [c EXCEPT !.own = FALSE]
        OBVIOUS
    <2>2. DOMAIN c = CallFields
        BY DEF OriginInv
    <2>3. d.n = c.n /\ d.by = c.by /\ d.op = c.op /\ d.st = c.st /\ d.rest = c.rest
        BY <2>1, <2>2 DEF CallFields
    <2>4. QED
        BY <2>1, <2>3 DEF SecretInv, Fits, HasSecret, Hands, Carries
<1>2. /\ UNCHANGED <<area, reveal>>
      /\ calls' = {IF c.by = kind THEN [c EXCEPT !.own = FALSE] ELSE c : c \in calls}
    BY DEF OpenAfresh
<1>3. QED
    BY <1>1, <1>2 DEF PlainStep, SecretInv

\* An answer without a secret: an error, or a component that has none to show.
LEMMA Fails ==
    ASSUME SecretInv, NEW c \in calls, Fail(c), c.by # "scannerNew" PROVE PlainStep
BY Settles DEF Fail, Carries

\* The requests of a bulk dialog issue nothing.
LEMMA Bulk ==
    ASSUME SecretInv, NEW kind, NEW op \in {"delete", "purge", "tags"}, NEW val,
           BulkRun(kind, op, val), kind \in {"bulkDelete", "bulkTag", "bulkDeleteCerts"}
    PROVE  PlainStep
<1>1. PICK cs : calls' = calls \cup cs /\ cs = {Call(kind, op, i, val[i], <<>>) : i \in DOMAIN sel}
    BY DEF BulkRun, Send
<1>2. ASSUME NEW d \in cs PROVE Fits(d)
    <2>1. PICK i \in DOMAIN sel : d = Call(kind, op, i, val[i], <<>>)
        BY <1>1, <1>2
    <2>2. QED
        BY <2>1 DEF Call, Fits, HasSecret, Issues
<1>3. UNCHANGED <<area, reveal>>
    BY DEF BulkRun
<1>4. QED
    BY <1>1, <1>2, <1>3, Sends

\* The last request of a chain is followed by none.
LEMMA EmptyIsSeq == <<>> \in Seq(FormOps)
BY DEF FormOps

-----------------------------------------------------------------------------
\* The pages, one by one.
LEMMA EndpointsSecret == ASSUME OriginInv, SecretInv, EndpointsNext PROVE PlainStep
<1>1. ASSUME \/ EndpointPage \/ EndpointPager \/ EndpointFilter \/ TypeSwitch \/ ToggleAll
             \/ ClearSelection \/ \E i \in Ids : ToggleOne(i) \/ DeleteEndpointOpen(i)
      PROVE  UNCHANGED <<area, reveal, calls>>
    BY <1>1 DEF EndpointPage, EndpointPager, EndpointFilter, TypeSwitch, ToggleAll,
       ClearSelection, ToggleOne, DeleteEndpointOpen, Mount, Turn, Select, Open
<1>2. ASSUME \/ Close("deleteEndpoint") \/ BulkDeleteOpen \/ BulkTagOpen \/ BulkTagPick
             \/ EndpointBulkDone \/ ImportOpen \/ ImportPreview \/ ImportBack \/ ImportClose
      PROVE  UNCHANGED <<area, reveal, calls>>
    BY <1>2 DEF Close, BulkDeleteOpen, BulkTagOpen, BulkTagPick, EndpointBulkDone, BulkOpen,
       BulkClose, ImportOpen, ImportPreview, ImportBack, ImportClose, Open
<1>3. CASE DeleteEndpoint
    BY <1>3, Sends DEF DeleteEndpoint, Submit, Send, Call, Fits, HasSecret, Issues
<1>4. CASE ImportConfirm
    BY <1>4, Sends DEF ImportConfirm, Send, Call, Fits, HasSecret, Issues, OriginInv, AtHome
<1>5. CASE BulkDeleteConfirm \/ BulkTagConfirm
    BY <1>5, Bulk DEF BulkDeleteConfirm, BulkTagConfirm
<1>6. ASSUME NEW c \in calls, DeleteEndpointSettles(c) \/ BulkDeleteSettles(c) \/ BulkTagSettles(c)
                              \/ ImportSettles(c)
      PROVE  calls' = calls \ {c} /\ ~Carries(c) /\ UNCHANGED <<area, reveal>>
    BY <1>6 DEF DeleteEndpointSettles, BulkDeleteSettles, BulkTagSettles, ImportSettles,
       BulkSettle, FinishAndRefetch, RefetchAfter, Finish, Fail, Carries
<1>7. QED
    BY <1>1, <1>2, <1>3, <1>4, <1>5, <1>6, Sends, Settles DEF EndpointsNext

\* The steps of the certificate list lose no secret.
LEMMA CertsSecret == ASSUME OriginInv, SecretInv, CertsNext PROVE PlainStep
<1>1. ASSUME \/ CertificatesPage \/ CertPager \/ CertFilter \/ ToggleAllCerts
             \/ \E i \in Ids : ToggleOneCert(i)
      PROVE  UNCHANGED <<area, reveal, calls>>
    BY <1>1 DEF CertificatesPage, CertPager, CertFilter, ToggleAllCerts, ToggleOneCert, Mount,
       Turn, Select
<1>2. ASSUME PurgeTick \/ Close("deleteCert") \/ BulkDeleteCertsOpen \/ BulkPurgeTick \/ CertBulkDone
      PROVE  UNCHANGED <<area, reveal, calls>>
    BY <1>2 DEF PurgeTick, Close, BulkDeleteCertsOpen, BulkPurgeTick, CertBulkDone, BulkOpen,
       BulkClose
<1>3. ASSUME IngestOpen \/ IngestType \/ Close("ingest") PROVE UNCHANGED <<area, reveal, calls>>
    BY <1>3 DEF IngestOpen, IngestType, Close, Open, Type
<1>4. ASSUME NEW i \in Ids, DeleteCertOpen(i) PROVE PlainStep
    <2>1. /\ calls' = {c \in calls : c.by # "refs"} \cup {Read("refs", i)}
          /\ UNCHANGED <<area, reveal>>
        BY <1>4 DEF DeleteCertOpen
    <2>2. Fits(Read("refs", i))
        BY DEF Read, Call, Fits, HasSecret, Issues
    <2>3. \A c \in calls : Carries(c) => c.by # "refs"
        BY DEF Carries
    <2>4. QED
        BY <2>1, <2>2, <2>3 DEF PlainStep, SecretInv
<1>5. CASE DeleteCertificate
    BY <1>5, Sends DEF DeleteCertificate, Submit, Send, Call, Fits, HasSecret, Issues
<1>6. CASE BulkDeleteCertsConfirm
    BY <1>6, Bulk DEF BulkDeleteCertsConfirm
<1>7. CASE IngestSubmit
    BY <1>7, Sends DEF IngestSubmit, Submit, Send, Call, Fits, HasSecret, Issues, OriginInv,
       AtHome
<1>8. ASSUME NEW c \in calls, CertReferences(c) \/ DeleteCertSettles(c) \/ BulkDeleteCertsSettles(c)
      PROVE  calls' = calls \ {c} /\ ~Carries(c) /\ UNCHANGED <<area, reveal>>
    BY <1>8 DEF CertReferences, DeleteCertSettles, BulkDeleteCertsSettles, BulkSettle,
                FinishAndRefetch, RefetchAfter, Finish, Fail, Carries
<1>9. ASSUME NEW c \in calls, IngestSettles(c) PROVE PlainStep
    <2>1. c.by = "ingest" /\ ~Carries(c)
        BY <1>9 DEF IngestSettles, Carries
    <2>2. Fail(c) \/ (/\ calls' = Orphaned(calls \ {c}) \/ calls' = calls \ {c}
                     /\ UNCHANGED <<area, reveal>>)
        BY <1>9 DEF IngestSettles
    <2>3. QED
        BY <2>1, <2>2, Fails, Leaves, Settles
<1>10. QED
    BY <1>1, <1>2, <1>3, <1>4, <1>5, <1>6, <1>7, <1>8, <1>9, Sends, Settles DEF CertsNext

\* The steps of the discovery inbox lose no secret.
LEMMA InboxSecret == ASSUME OriginInv, SecretInv, InboxNext PROVE PlainStep
<1>1. ASSUME \/ DiscoveryInboxPage \/ ShowDismissed \/ Close("deleteFinding")
             \/ \E i \in Ids : InboxDeleteOpen(i)
      PROVE  UNCHANGED <<area, reveal, calls>>
    BY <1>1 DEF DiscoveryInboxPage, ShowDismissed, Close, InboxDeleteOpen, Mount, Turn, Open
<1>2. ASSUME NEW i \in Ids, Dismiss(i) PROVE PlainStep
    BY <1>2, Sends DEF Dismiss, Send, Call, Fits, HasSecret, Issues
<1>3. CASE InboxDelete
    BY <1>3, Sends DEF InboxDelete, Submit, Send, Call, Fits, HasSecret, Issues
<1>4. ASSUME NEW i \in Ids, Promote(i) PROVE PlainStep
    <2>1. calls' = Orphaned(calls) \cup {Read("promote", i)} /\ UNCHANGED <<area, reveal>>
        BY <1>4 DEF Promote
    <2>2. Fits(Read("promote", i))
        BY EmptyIsSeq DEF Read, Call, Fits, HasSecret, Issues
    <2>3. PICK T : T = {Read("promote", i)}
        OBVIOUS
    <2>4. calls' = Orphaned(calls) \cup T /\ \A d \in T : Fits(d)
        BY <2>1, <2>2, <2>3
    <2>5. QED
        BY <2>1, <2>4, Departs
<1>5. ASSUME NEW c \in calls, DismissSettles(c) \/ InboxDeleteSettles(c)
      PROVE  calls' = calls \ {c} /\ ~Carries(c) /\ UNCHANGED <<area, reveal>>
    BY <1>5 DEF DismissSettles, InboxDeleteSettles, FinishAndInvalidate, Finish, Fail, Carries
<1>6. QED
    BY <1>1, <1>2, <1>3, <1>4, <1>5, Sends, Settles DEF InboxNext

\* The steps of an endpoint's detail page, and of opening its form lose no secret.
LEMMA EndpointSecret == ASSUME OriginInv, SecretInv, EndpointNext PROVE PlainStep
<1>1. ASSUME \/ EndpointDetailPage \/ NotesOpen \/ NotesType \/ NotesClose \/ DetailDeleteOpen
             \/ Close("deleteDetail")
      PROVE  UNCHANGED <<area, reveal, calls>>
    BY <1>1 DEF EndpointDetailPage, NotesOpen, NotesType, NotesClose, DetailDeleteOpen, Close,
       Mount, Open, Type
<1>2. CASE ToggleEnabled \/ NotesSave \/ DetailDelete
    BY <1>2, Sends DEF ToggleEnabled, NotesSave, DetailDelete, Press, Submit, Send, Call, Fits,
                       HasSecret, Issues
<1>3. ASSUME NEW mode \in {"edit", "new", "clone"}, FormMount(mode) PROVE PlainStep
    <2>1. PICK T : /\ calls' = Orphaned(calls) \cup T
                   /\ T = IF mode = "new" THEN {} ELSE {Read(mode, 1), Read("loadTags", 1)}
        BY <1>3 DEF FormMount
    <2>2. \A d \in T : Fits(d)
        <3>1. Fits(Read("edit", 1)) /\ Fits(Read("clone", 1)) /\ Fits(Read("loadTags", 1))
            BY EmptyIsSeq DEF Read, Call, Fits, HasSecret, Issues
        <3>2. QED
            BY <2>1, <3>1
    <2>3. UNCHANGED <<area, reveal>>
        BY <1>3 DEF FormMount
    <2>4. QED
        BY <2>1, <2>2, <2>3, Departs
<1>4. ASSUME NEW c \in calls, ToggleSettles(c) \/ NotesSettles(c) \/ FormTagsLoaded(c)
      PROVE  calls' = calls \ {c} /\ ~Carries(c) /\ UNCHANGED <<area, reveal>>
    BY <1>4 DEF ToggleSettles, NotesSettles, FormTagsLoaded, Finish, Fail, Carries
<1>5. ASSUME NEW c \in calls, DetailDeleted(c) PROVE PlainStep
    <2>1. c.by = "deleteDetail" /\ ~Carries(c)
        BY <1>5 DEF DetailDeleted, Carries
    <2>2. \/ Fail(c)
          \/ /\ calls' = Orphaned(calls \ {c}) \/ calls' = calls \ {c}
             /\ UNCHANGED <<area, reveal>>
        BY <1>5 DEF DetailDeleted
    <2>3. QED
        BY <2>1, <2>2, Fails, Leaves, Settles
<1>6. QED
    BY <1>1, <1>2, <1>3, <1>4, <1>5, Sends, Settles DEF EndpointNext

\* The steps of a form's save are those it was sent with.
LEMMA StepsAreFormOps ==
    ASSUME NEW kind, NEW link PROVE Steps(kind, link) \in Seq(FormOps)
<1> DEFINE head == IF link THEN <<"link">> ELSE <<>>
           tail == CASE kind = "edit"    -> <<"tags">>
                     [] kind = "promote" -> <<"delete">>
                     [] OTHER            -> IF dlg.val.tags = {} THEN <<>> ELSE <<"tags">>
<1>1. <<"link">> \in Seq(FormOps) /\ <<"tags">> \in Seq(FormOps) /\ <<"delete">> \in Seq(FormOps)
    BY DEF FormOps
<1>2. head \in Seq(FormOps) /\ tail \in Seq(FormOps)
    BY <1>1, EmptyIsSeq
<1>3. Steps(kind, link) = head \o tail
    BY DEF Steps
<1> HIDE DEF head, tail
<1>4. QED
    BY <1>1, <1>2, <1>3

\* The steps of EndpointFormPage lose no secret.
LEMMA FormSecret == ASSUME OriginInv, SecretInv, FormNext PROVE PlainStep
<1>1. ASSUME FormEdit \/ FormTags PROVE UNCHANGED <<area, reveal, calls>>
    BY <1>1 DEF FormEdit, FormTags, Edit, Type
<1>2. CASE FormSave
    <2>1. PICK kind \in DOMAIN FirstStep, link \in BOOLEAN :
              Submit(kind, {Call(kind, FirstStep[kind], dlg.id, dlg.val, Steps(kind, link))})
        BY <1>2 DEF FormSave
    <2>2. PICK d : d = Call(kind, FirstStep[kind], dlg.id, dlg.val, Steps(kind, link))
        OBVIOUS
    <2>3. d.by = kind /\ d.op = FirstStep[kind] /\ d.rest = Steps(kind, link)
        BY <2>2 DEF Call
    <2>4. kind \in {"edit", "new", "promote"} /\ d.op \in {"put", "create", "make"}
        BY <2>3 DEF FirstStep
    <2>5. AtHome(kind)
        BY <2>1 DEF Submit, OriginInv
    <2>6. Fits(d)
        BY <2>3, <2>4, <2>5, StepsAreFormOps DEF Fits, HasSecret, Issues, AtHome
    <2>7. calls' = calls \cup {d} /\ UNCHANGED <<area, reveal>>
        BY <2>1, <2>2 DEF Submit, Send
    <2>8. QED
        BY <2>6, <2>7, Sends
<1>3. ASSUME NEW c \in calls, FormLoaded(c) \/ FormFails(c)
      PROVE  calls' = calls \ {c} /\ ~Carries(c) /\ UNCHANGED <<area, reveal>>
    BY <1>3 DEF FormLoaded, FormFails, Fail, IsForm, FirstStep, Modes, Carries
<1>4. ASSUME NEW c \in calls, FormStep(c) PROVE PlainStep
    <2>1. PICK d : d = [c EXCEPT !.op = Head(c.rest), !.rest = Tail(c.rest), !.st = "sent"]
        OBVIOUS
    <2>2. calls' = (calls \ {c}) \cup {d} /\ UNCHANGED <<area, reveal>>
        BY <1>4, <2>1 DEF FormStep
    <2>3. DOMAIN c = CallFields
        BY DEF OriginInv
    <2>4. d.n = c.n /\ d.by = c.by /\ d.op = Head(c.rest) /\ d.rest = Tail(c.rest)
        BY <2>1, <2>3 DEF CallFields
    <2>5. c.by \in {"edit", "new", "promote"} /\ c.rest # <<>>
        BY <1>4 DEF FormStep, IsForm, FirstStep
    <2>6. c.rest \in Seq(FormOps)
        BY <2>5 DEF SecretInv, Fits
    <2>7. d.op \in FormOps /\ d.rest \in Seq(FormOps)
        BY <2>4, <2>5, <2>6
    <2>8. Fits(d) /\ ~Carries(c)
        BY <2>4, <2>5, <2>7 DEF Fits, HasSecret, Issues, FormOps, Carries
    <2>9. QED
        BY <2>2, <2>4, <2>8, Moves
<1>5. ASSUME NEW c \in calls, FormSaved(c) PROVE PlainStep
    <2>1. ~Carries(c)
        BY <1>5 DEF FormSaved, IsForm, FirstStep, Carries
    <2>2. /\ calls' = Orphaned(calls \ {c}) \/ calls' = calls \ {c}
          /\ UNCHANGED <<area, reveal>>
        BY <1>5 DEF FormSaved
    <2>3. QED
        BY <2>1, <2>2, Leaves, Settles
<1>6. QED
    BY <1>1, <1>2, <1>3, <1>4, <1>5, Sends, Settles DEF FormNext

\* The steps of the mail, general and group settings lose no secret.
LEMMA SettingsSecret == ASSUME OriginInv, SecretInv, SettingsNext PROVE PlainStep
<1>1. ASSUME \/ MailConfigPage \/ MailDefaults \/ MailEdit \/ ThresholdsEdit \/ GroupFormPage
             \/ GroupEdit \/ GroupHosts
      PROVE  UNCHANGED <<area, reveal, calls>>
    BY <1>1 DEF MailConfigPage, MailDefaults, MailEdit, ThresholdsEdit, GroupFormPage, GroupEdit,
                GroupHosts, MountForm, Edit, Type
<1>2. CASE MailSave \/ MailTest \/ ThresholdsSave
    BY <1>2, Sends DEF MailSave, MailTest, ThresholdsSave, Submit, Send, Call, Fits, HasSecret,
       Issues
<1>3. CASE GeneralSettingsPage
    BY <1>3, Sends DEF GeneralSettingsPage, Read, Call, Fits, HasSecret, Issues
<1>4. CASE GroupSave
    BY <1>4, Sends DEF GroupSave, Submit, Send, Call, Fits, HasSecret, Issues, OriginInv, AtHome
<1>5. ASSUME NEW c \in calls, MailSettles(c) \/ MailTestSettles(c) \/ ThresholdsLoaded(c)
                              \/ ThresholdsSettle(c)
      PROVE  calls' = calls \ {c} /\ ~Carries(c) /\ UNCHANGED <<area, reveal>>
    BY <1>5 DEF MailSettles, MailTestSettles, ThresholdsLoaded, ThresholdsSettle, FinishOnly,
       Finish, Fail, Carries
<1>6. ASSUME NEW c \in calls, GroupSaved(c) PROVE PlainStep
    <2>1. c.by \in {"group", "newGroup"} /\ ~Carries(c)
        BY <1>6 DEF GroupSaved, Carries
    <2>2. \/ Fail(c)
          \/ /\ calls' = Orphaned(calls \ {c}) \/ calls' = calls \ {c}
             /\ UNCHANGED <<area, reveal>>
        BY <1>6 DEF GroupSaved
    <2>3. QED
        BY <2>1, <2>2, Fails, Leaves, Settles
<1>7. QED
    BY <1>1, <1>2, <1>3, <1>4, <1>5, <1>6, Sends, Settles DEF SettingsNext

\* The steps of the account's notification page lose no secret.
LEMMA NotifySecret == ASSUME OriginInv, SecretInv, NotifyNext PROVE PlainStep
<1>1. ASSUME AccountNotificationsPage \/ SubscriptionEdit PROVE UNCHANGED <<area, reveal, calls>>
    BY <1>1 DEF AccountNotificationsPage, SubscriptionEdit, Edit, Type
<1>2. CASE SaveNotify \/ SaveTags
    BY <1>2, Sends DEF SaveNotify, SaveTags, Send, Call, Fits, HasSecret, Issues
<1>3. ASSUME NEW c \in calls, SaveNotifySettles(c) \/ SaveTagsSettles(c)
      PROVE  calls' = calls \ {c} /\ ~Carries(c) /\ UNCHANGED <<area, reveal>>
    BY <1>3 DEF SaveNotifySettles, SaveTagsSettles, Carries
<1>4. QED
    BY <1>1, <1>2, <1>3, Sends, Settles DEF NotifyNext

\* Requests of an editor that was left.
LEMMA Disowns ==
    ASSUME SecretInv, OriginInv, NEW S \in SUBSET calls, UNCHANGED <<area, reveal>>,
           calls' = Left(S), \A c \in calls \ S : ~Carries(c)
    PROVE  PlainStep
<1>1. ASSUME NEW c \in calls, c.by \in {"template", "reset"}
      PROVE  Fits([c EXCEPT !.by = "left"]) /\ ~Carries(c)
    <2>1. PICK d : d = [c EXCEPT !.by = "left"]
        OBVIOUS
    <2>2. DOMAIN c = CallFields
        BY DEF OriginInv
    <2>3. d.by = "left" /\ d.op = c.op
        BY <2>1, <2>2 DEF CallFields
    <2>4. QED
        BY <1>1, <2>1, <2>3 DEF SecretInv, Fits, HasSecret, Hands, Carries
<1>2. QED
    BY <1>1 DEF PlainStep, SecretInv, Left

\* The steps of NotificationTemplatesPage lose no secret.
LEMMA TemplatesSecret == ASSUME OriginInv, SecretInv, TemplatesNext PROVE PlainStep
<1>1. ASSUME NotificationTemplatesPage \/ TemplateEdit PROVE UNCHANGED <<area, reveal, calls>>
    BY <1>1 DEF NotificationTemplatesPage, TemplateEdit, Edit, Type
<1>2. CASE TemplateSave \/ TemplateReset
    BY <1>2, Sends DEF TemplateSave, TemplateReset, Submit, Send, Call, Fits, HasSecret, Issues
<1>3. ASSUME NEW i \in Ids, ChooseTemplate(i) PROVE PlainStep
    <2>1. PICK S : S = calls
        OBVIOUS
    <2>2. S \in SUBSET calls /\ calls' = Left(S) /\ UNCHANGED <<area, reveal>>
        BY <1>3, <2>1 DEF ChooseTemplate
    <2>3. QED
        BY <2>1, <2>2, Disowns
<1>4. ASSUME NEW c \in calls, TemplateResetStep(c) PROVE PlainStep
    <2>1. PICK d : d = [c EXCEPT !.op = "read", !.rest = <<>>, !.st = "sent"]
        OBVIOUS
    <2>2. calls' = (calls \ {c}) \cup {d} /\ UNCHANGED <<area, reveal>> /\ c.by \in {"reset", "left"}
        BY <1>4, <2>1 DEF TemplateResetStep
    <2>3. DOMAIN c = CallFields
        BY DEF OriginInv
    <2>4. d.n = c.n /\ d.by = c.by /\ d.op = "read"
        BY <2>1, <2>3 DEF CallFields
    <2>5. Fits(d) /\ ~Carries(c)
        BY <2>2, <2>4 DEF Fits, HasSecret, Issues, Carries
    <2>6. QED
        BY <2>2, <2>4, <2>5, Moves
<1>5. ASSUME NEW c \in calls, TemplateSettles(c) PROVE PlainStep
    <2>1. ~Carries(c)
        BY <1>5 DEF TemplateSettles, Carries
    <2>2. (calls' = calls \ {c} \/ calls' = Left(calls \ {c})) /\ UNCHANGED <<area, reveal>>
        BY <1>5 DEF TemplateSettles
    <2>3. PICK S : S = calls \ {c}
        OBVIOUS
    <2>4. S \in SUBSET calls /\ \A d \in calls \ S : ~Carries(d)
        BY <2>1, <2>3
    <2>5. QED
        BY <2>1, <2>2, <2>3, <2>4, Disowns, Settles
<1>6. ASSUME NEW c \in calls, TemplateFails(c) PROVE PlainStep
    BY <1>6, Fails DEF TemplateFails
<1>7. QED
    BY <1>1, <1>2, <1>3, <1>4, <1>5, <1>6, Sends DEF TemplatesNext

\* The steps of DiscoveryNetworksPage lose no secret.
LEMMA NetworksSecret == ASSUME OriginInv, SecretInv, NetworksNext PROVE PlainStep
<1>1. ASSUME \/ DiscoveryNetworksPage \/ NetworkCreateOpen \/ NetworkType
             \/ \E i \in Ids : NetworkEditOpen(i) \/ NetworkDeleteOpen(i)
             \/ \E kind : Close(kind)
      PROVE  UNCHANGED <<area, reveal, calls>>
    BY <1>1 DEF DiscoveryNetworksPage, NetworkCreateOpen, NetworkType, NetworkEditOpen,
                NetworkDeleteOpen, Close, Mount, Open, Edit, Type
<1>2. CASE NetworkSave
    BY <1>2, Sends DEF NetworkSave, Submit, Send, Call, Fits, HasSecret, Issues, OriginInv, AtHome
<1>3. CASE NetworkDelete \/ \E i \in Ids : NetworkToggle(i)
    BY <1>3, Sends DEF NetworkDelete, NetworkToggle, Delete, Submit, Press, Send, Call, Fits,
                       HasSecret, Issues
<1>4. ASSUME NEW c \in calls, NetworkSettles(c)
      PROVE  calls' = calls \ {c} /\ ~Carries(c) /\ UNCHANGED <<area, reveal>>
    BY <1>4 DEF NetworkSettles, FinishAndInvalidate, Finish, Fail, Carries
<1>5. QED
    BY <1>1, <1>2, <1>3, <1>4, Sends, Settles DEF NetworksNext

\* The steps of UsersPage lose no secret.
LEMMA UsersSecret == ASSUME OriginInv, SecretInv, UsersNext PROVE PlainStep
<1>1. ASSUME \/ UsersPage \/ UserPager \/ UserType
             \/ \E i \in Ids : Reset2FAOpen(i) \/ UserDeleteOpen(i)
             \/ \E kind : Close(kind)
      PROVE  UNCHANGED <<area, reveal, calls>>
    BY <1>1 DEF UsersPage, UserPager, UserType, Reset2FAOpen, UserDeleteOpen, Close, Mount,
       Turn, Open, Edit, Type
<1>2. CASE UserAddOpen \/ \E i \in Ids : UserDialogOpen(i) \/ PasswordOpen(i)
    BY <1>2, Afresh DEF UserAddOpen, UserDialogOpen, PasswordOpen
<1>3. CASE UserSubmit
    BY <1>3, Sends DEF UserSubmit, Submit, Send, Call, Fits, HasSecret, Issues, OriginInv, AtHome
<1>4. CASE CredentialSubmit \/ UserDelete \/ \E i \in Ids : HandleToggleEnabled(i)
    BY <1>4, Sends DEF CredentialSubmit, UserDelete, HandleToggleEnabled, Delete, Submit, Press,
       Send, Call, Fits, HasSecret, Issues
<1>5. ASSUME NEW c \in calls, UserSettles(c)
      PROVE  calls' = calls \ {c} /\ ~Carries(c) /\ UNCHANGED <<area, reveal>>
    BY <1>5 DEF UserSettles, FinishAndRefetch, RefetchAfter, FinishOnly, Finish, Fail, Carries
<1>6. QED
    BY <1>1, <1>2, <1>3, <1>4, <1>5, Sends, Settles DEF UsersNext

\* The steps of TagsPage lose no secret.
LEMMA TagsSecret == ASSUME OriginInv, SecretInv, TagsNext PROVE PlainStep
<1>1. ASSUME \/ TagsPage \/ TagType \/ \E i \in Ids : TagDeleteOpen(i)
             \/ \E kind : TagNew(kind) \/ Close(kind) \/ \E i \in Ids : TagEdit(kind, i)
      PROVE  UNCHANGED <<area, reveal, calls>>
    BY <1>1 DEF TagsPage, TagType, TagDeleteOpen, TagNew, TagEdit, Close, Mount, Open, Edit, Type
<1>2. CASE TagDelete
    BY <1>2, Sends DEF TagDelete, Delete, Submit, Send, Call, Fits, HasSecret, Issues
<1>3. ASSUME NEW kind \in {"tag", "category"}, TagSubmit(kind) PROVE PlainStep
    BY <1>3, Sends DEF TagSubmit, Submit, Send, Call, Fits, HasSecret, Issues, OriginInv, AtHome
<1>4. ASSUME NEW c \in calls, TagSettles(c)
      PROVE  calls' = calls \ {c} /\ ~Carries(c) /\ UNCHANGED <<area, reveal>>
    BY <1>4 DEF TagSettles, FinishAndRefetch, RefetchAfter, Finish, Fail, Carries
<1>5. QED
    BY <1>1, <1>2, <1>3, <1>4, Sends, Settles DEF TagsNext

\* The steps of MaintenancePage lose no secret.
LEMMA JobsSecret == ASSUME OriginInv, SecretInv, JobsNext PROVE PlainStep
<1>1. ASSUME MaintenancePage \/ JobType \/ JobClose \/ JobSaveNothing
      PROVE  UNCHANGED <<area, reveal, calls>>
    BY <1>1 DEF MaintenancePage, JobType, JobClose, JobSaveNothing, Close, Mount, Edit, Type
<1>2. CASE JobSave
    <2>1. \A d \in JobChanges : Fits(d)
        BY DEF JobChanges, Call, Fits, HasSecret, Issues
    <2>2. calls' = calls \cup JobChanges /\ UNCHANGED <<area, reveal>>
        BY <1>2 DEF JobSave, Submit, Send
    <2>3. QED
        BY <2>1, <2>2, Sends
<1>3. CASE JobRunInDialog \/ \E i \in Ids : JobRun(i) \/ JobToggle(i)
    BY <1>3, Sends DEF JobRunInDialog, JobRun, JobToggle, Press, Send, Call, Fits, HasSecret,
       Issues
<1>4. ASSUME NEW i \in Ids, JobEditOpen(i) PROVE PlainStep
    <2>1. /\ calls' = {c \in calls : c.by # "retention"} \cup {Read("retention", i)}
          /\ UNCHANGED <<area, reveal>>
        BY <1>4 DEF JobEditOpen
    <2>2. Fits(Read("retention", i))
        BY DEF Read, Call, Fits, HasSecret, Issues
    <2>3. \A c \in calls : Carries(c) => c.by # "retention"
        BY DEF Carries
    <2>4. QED
        BY <2>1, <2>2, <2>3 DEF PlainStep, SecretInv
<1>5. ASSUME NEW c \in calls, RetentionLoaded(c) \/ JobSaved(c) \/ Dropped(c) \/ JobSettles(c)
      PROVE  calls' = calls \ {c} /\ ~Carries(c) /\ UNCHANGED <<area, reveal>>
    BY <1>5 DEF RetentionLoaded, JobSaved, Dropped, JobSettles, FinishAndInvalidate, Finish, Fail,
                Carries
<1>6. ASSUME NEW c \in calls, JobSaveFails(c) PROVE PlainStep
    <2>1. /\ UNCHANGED <<area, reveal>>
          /\ calls' = (calls \ ({c} \cup OtherChange(c))) \cup
                      {[d EXCEPT !.by = "dropped"] : d \in OtherChange(c)}
        BY <1>6 DEF JobSaveFails
    <2>2. ASSUME NEW d \in OtherChange(c) PROVE Fits([d EXCEPT !.by = "dropped"])
        <3>1. d \in calls /\ d.by = "job"
            BY DEF OtherChange
        <3>2. PICK e : e = [d EXCEPT !.by = "dropped"]
            OBVIOUS
        <3>3. DOMAIN d = CallFields
            BY <3>1 DEF OriginInv
        <3>4. e.by = "dropped" /\ e.op = d.op
            BY <3>2, <3>3 DEF CallFields
        <3>5. QED
            BY <3>1, <3>2, <3>4 DEF SecretInv, Fits, HasSecret, Hands
    <2>3. \A d \in {c} \cup OtherChange(c) : ~Carries(d)
        BY <1>6 DEF JobSaveFails, OtherChange, Carries
    <2>4. QED
        BY <2>1, <2>2, <2>3 DEF PlainStep, SecretInv
<1>7. QED
    BY <1>1, <1>2, <1>3, <1>4, <1>5, <1>6, Sends, Settles DEF JobsNext

\* A secret is displayed, or its page is gone; the others stay on their way.
LEMMA Displays ==
    ASSUME SecretInv, NEW c \in calls, reveal' = Display(c), area' = area,
           calls \ {c} \subseteq calls', \A d \in calls' : Fits(d)
    PROVE  SecretInv'
<1>1. \A d : (Fits(d)' <=> Fits(d)) /\ (Carries(d)' <=> Carries(d))
    BY DEF Fits, HasSecret, Hands, Carries
<1>2. /\ DOMAIN reveal = {"on", "fate"} /\ DOMAIN reveal.fate = 1..MaxSent
      /\ DOMAIN reveal' = {"on", "fate"} /\ DOMAIN reveal'.fate = 1..MaxSent
    BY DEF SecretInv, FateInv, Display, Fate
<1>3. ASSUME NEW n \in 1..MaxSent
      PROVE  /\ n # c.n => reveal'.fate[n] = reveal.fate[n] \/ reveal'.fate[n] = "replaced"
             /\ n = c.n => reveal'.fate[n] \in {"shown", "left"}
             /\ reveal'.fate[n] = "shown" => reveal'.on = n
    <2>1. reveal.fate[n] = "shown" => reveal.on = n
        BY DEF SecretInv, FateInv
    <2>2. CASE c.here
        <3>1. /\ reveal'.on = c.n
              /\ reveal'.fate = [m \in 1..MaxSent |->
                                   CASE m = c.n                  -> "shown"
                                     [] m = reveal.on /\ m # c.n -> "replaced"
                                     [] OTHER                    -> reveal.fate[m]]
            BY <1>2, <2>2 DEF Display
        <3>2. reveal'.fate[n] = CASE n = c.n                  -> "shown"
                                  [] n = reveal.on /\ n # c.n -> "replaced"
                                  [] OTHER                    -> reveal.fate[n]
            BY <3>1, Zenon
        <3>3. n = c.n => reveal'.fate[n] = "shown"
            BY <3>2
        <3>4. n # c.n /\ n = reveal.on => reveal'.fate[n] = "replaced"
            BY <3>2
        <3>5. n # c.n /\ n # reveal.on => reveal'.fate[n] = reveal.fate[n]
            BY <3>2
        <3>6. QED
            BY <2>1, <3>1, <3>3, <3>4, <3>5
    <2>3. CASE ~c.here
        <3>1. reveal' = [reveal EXCEPT !.fate = [reveal.fate EXCEPT ![c.n] = "left"]]
            BY <2>3 DEF Display, Fate
        <3>2. reveal'.on = reveal.on /\ reveal'.fate = [reveal.fate EXCEPT ![c.n] = "left"]
            BY <1>2, <3>1
        <3>3. QED
            BY <1>2, <2>1, <3>2
    <2>4. QED
        BY <2>2, <2>3
<1>4. ASSUME NEW n \in 1..MaxSent
      PROVE  /\ reveal'.fate[n] = "issued" => \E d \in calls' : d.n = n /\ Carries(d)
             /\ reveal'.fate[n] = "shown"  => reveal'.on = n
             /\ reveal'.fate[n] = "followup" => area = "scanners"
    BY <1>3, <1>4 DEF SecretInv, FateInv
<1>5. QED
    BY <1>1, <1>2, <1>4 DEF SecretInv, FateInv

\* The fate of one secret changes, none is lost to a removed request.
LEMMA FateMoves ==
    ASSUME SecretInv, NEW m, NEW f \in {"issued", "cut", "left", "dismissed", "followup"}, NEW on,
           reveal' = [on |-> on, fate |-> [reveal.fate EXCEPT ![m] = f]], area' = area,
           on = reveal.on \/ m = reveal.on,
           f = "followup" => area = "scanners",
           f = "issued" => \E d \in calls' : d.n = m /\ Carries(d),
           \A d \in calls' : Fits(d),
           \A c \in calls : c.n # 0 /\ c.n # m /\ Carries(c) => \E d \in calls' : d.n = c.n /\ Carries(d)
    PROVE  SecretInv'
<1>1. \A d : (Fits(d)' <=> Fits(d)) /\ (Carries(d)' <=> Carries(d))
    BY DEF Fits, HasSecret, Hands, Carries
<1>2. /\ DOMAIN reveal = {"on", "fate"} /\ DOMAIN reveal.fate = 1..MaxSent
      /\ DOMAIN reveal' = {"on", "fate"} /\ DOMAIN reveal'.fate = 1..MaxSent /\ reveal'.on = on
    BY DEF SecretInv, FateInv
<1>3. ASSUME NEW n \in 1..MaxSent
      PROVE  reveal'.fate[n] = IF n = m THEN f ELSE reveal.fate[n]
    BY <1>2, <1>3
<1>4. ASSUME NEW n \in 1..MaxSent
      PROVE  /\ reveal'.fate[n] = "issued" => \E d \in calls' : d.n = n /\ Carries(d)
             /\ reveal'.fate[n] = "shown"  => reveal'.on = n
             /\ reveal'.fate[n] = "followup" => area = "scanners"
    <2>1. n # 0
        OBVIOUS
    <2>2. QED
        BY <1>2, <1>3, <1>4, <2>1 DEF SecretInv, FateInv
<1>5. QED
    BY <1>1, <1>2, <1>4 DEF SecretInv, FateInv

\* The steps of ScannersPage lose no secret.
LEMMA ScannersSecret == ASSUME OriginInv, SecretInv, ScannersNext PROVE SecretInv'
<1>1. ASSUME \/ ScannersPage \/ ScannerCreateType \/ ScannerEditType
             \/ \E i \in Ids : OpenRegenerate(i) \/ RevokeOpen(i)
             \/ \E kind : Close(kind)
      PROVE  UNCHANGED <<area, reveal, calls>>
    BY <1>1 DEF ScannersPage, ScannerCreateType, ScannerEditType, OpenRegenerate, RevokeOpen,
       Close, Mount, Open, Type
<1>2. ASSUME ScannerCreateOpen \/ \E i \in Ids : ScannerEditOpen(i) PROVE PlainStep
    BY <1>2, Afresh DEF ScannerCreateOpen, ScannerEditOpen
<1>3. ASSUME ScannerCreate PROVE PlainStep
    BY <1>3, Sends DEF ScannerCreate, Submit, Send, Call, Fits, Hands
<1>4. ASSUME ScannerEdit \/ Regenerate \/ Revoke \/ \E i \in Ids : HandleSetDefault(i) PROVE PlainStep
    BY <1>4, Sends DEF ScannerEdit, Regenerate, Revoke, HandleSetDefault, Delete, Submit, Press,
       Send, Call, Fits, HasSecret, Hands, Issues
<1>5. ASSUME NEW c \in calls, ScannerSchedule(c) PROVE PlainStep
    <2>1. PICK d : d = [c EXCEPT !.op = "cfg", !.rest = <<>>, !.st = "sent"]
        OBVIOUS
    <2>2. calls' = (calls \ {c}) \cup {d} /\ UNCHANGED <<area, reveal>> /\ c.by = "scannerNew"
        BY <1>5, <2>1 DEF ScannerSchedule
    <2>3. d.n = c.n /\ d.by = c.by /\ d.op = "cfg"
        <3>1. DOMAIN c = CallFields
            BY DEF OriginInv
        <3>2. QED
            BY <2>1, <3>1 DEF CallFields
    <2>4. Fits(d) /\ Carries(d)
        BY <2>2, <2>3 DEF Fits, Hands, Carries
    <2>5. QED
        BY <2>2, <2>3, <2>4, Moves
<1>6. ASSUME NEW c \in calls, HandleCreated(c) \/ HandleRegenerated(c) PROVE SecretInv'
    <2>1. reveal' = Display(c) /\ area' = area /\ calls' = calls \ {c}
        BY <1>6 DEF HandleCreated, HandleRegenerated, Finish
    <2>2. QED
        BY <2>1, Displays DEF SecretInv
<1>7. ASSUME NEW c \in calls, ScannerCreateFails(c) PROVE SecretInv'
    <2>1. area' = area /\ calls' = calls \ {c} /\ area = "scanners"
        BY <1>7 DEF ScannerCreateFails, OriginInv, AtHome
    <2>2. DOMAIN reveal = {"on", "fate"}
        BY DEF SecretInv, FateInv
    <2>3. CASE reveal.fate[c.n] = "issued"
        <3>1. reveal' = [reveal EXCEPT !.fate = [reveal.fate EXCEPT ![c.n] = "followup"]]
            BY <1>7, <2>3 DEF ScannerCreateFails, Fate
        <3>2. reveal' = [on |-> reveal.on, fate |-> [reveal.fate EXCEPT ![c.n] = "followup"]]
            BY <2>2, <3>1
        <3>3. QED
            BY <2>1, <3>2, FateMoves DEF SecretInv
    <2>4. CASE reveal.fate[c.n] # "issued"
        <3>1. reveal' = reveal
            BY <1>7, <2>4 DEF ScannerCreateFails
        <3>2. \A n \in 1..MaxSent : reveal.fate[n] = "issued" => \E d \in calls' : d.n = n /\ Carries(d)
            BY <2>1, <2>4 DEF SecretInv, FateInv
        <3>3. \A d : (Fits(d)' <=> Fits(d)) /\ (Carries(d)' <=> Carries(d))
            BY <2>1 DEF Fits, HasSecret, Hands, Carries
        <3>4. QED
            BY <2>1, <3>1, <3>2, <3>3 DEF SecretInv, FateInv
    <2>5. QED
        BY <2>3, <2>4
<1>8. ASSUME NEW c \in calls, ScannerSettles(c) PROVE PlainStep
    <2>1. calls' = calls \ {c} /\ ~Carries(c) /\ UNCHANGED <<area, reveal>>
        BY <1>8 DEF ScannerSettles, FinishAndRefetch, RefetchAfter, Finish, Fail, Carries
    <2>2. QED
        BY <2>1, Settles
<1>9. QED
    BY <1>1, <1>2, <1>3, <1>4, <1>5, <1>6, <1>7, <1>8, Sends, PlainKeeps DEF ScannersNext

\* The steps of Account2FAPage lose no secret.
LEMMA TwoFactorSecret == ASSUME OriginInv, SecretInv, TwoFactorNext PROVE SecretInv'
<1>1. ASSUME CancelSetup \/ DisableOpen \/ RecoveryOpen \/ Close("disable") \/ Close("recovery")
      PROVE  UNCHANGED <<area, reveal, calls>>
    BY <1>1 DEF CancelSetup, DisableOpen, RecoveryOpen, OpenReset, Close
<1>2. ASSUME Account2FAPage PROVE PlainStep
    BY <1>2, Sends DEF Account2FAPage, Read, Call, Fits, HasSecret, Issues, pane
<1>3. ASSUME StartSetup \/ ConfirmSetup \/ Disable \/ RecoveryCodes PROVE PlainStep
    BY <1>3, Sends DEF StartSetup, ConfirmSetup, Disable, RecoveryCodes, Press, Submit, Send,
       Call, Fits, HasSecret, Hands, Issues
<1>4. ASSUME NEW c \in calls, StatusLoaded(c) \/ SetupStarted(c) \/ TwoFactorSettles(c)
      PROVE  calls' = calls \ {c} /\ ~Carries(c) /\ UNCHANGED <<area, reveal>>
    BY <1>4 DEF StatusLoaded, SetupStarted, TwoFactorSettles, Carries
<1>5. ASSUME NEW c \in calls, TwoFactorChanged(c) PROVE SecretInv'
    <2>1. PICK d : d = [c EXCEPT !.op = "read", !.rest = <<>>, !.st = "sent"]
        OBVIOUS
    <2>2. calls' = (calls \ {c}) \cup {d} /\ area' = area /\ c.by \in {"setup", "disable", "recovery"}
        BY <1>5, <2>1 DEF TwoFactorChanged
    <2>3. d.n = c.n /\ d.by = c.by /\ d.op = "read"
        <3>1. DOMAIN c = CallFields
            BY DEF OriginInv
        <3>2. QED
            BY <2>1, <3>1 DEF CallFields
    <2>4. Fits(d)
        BY <2>2, <2>3 DEF Fits, HasSecret, Issues
    <2>5. CASE HasSecret(c)
        BY <1>5, <2>2, <2>4, <2>5, Displays DEF TwoFactorChanged, SecretInv
    <2>6. CASE ~HasSecret(c)
        <3>1. reveal' = reveal /\ ~Carries(c)
            BY <1>5, <2>2, <2>6 DEF TwoFactorChanged, HasSecret, Carries
        <3>2. QED
            BY <2>2, <2>3, <2>4, <3>1, Moves, PlainKeeps
    <2>7. QED
        BY <2>5, <2>6
<1>6. QED
    BY <1>1, <1>2, <1>3, <1>4, <1>5, Sends, Settles, PlainKeeps DEF TwoFactorNext

\* The steps of the two API key pages lose no secret.
LEMMA KeysSecret == ASSUME OriginInv, SecretInv, KeysNext PROVE SecretInv'
<1>1. ASSUME \/ APIKeysPage \/ AccountAPIKeysPage \/ CreateKeyOpen \/ CreateKeyType
             \/ \E i \in Ids : RevokeKeyOpen(i) \/ AdminRevokeOpen(i)
             \/ \E kind : Close(kind)
      PROVE  UNCHANGED <<area, reveal, calls>>
    BY <1>1 DEF APIKeysPage, AccountAPIKeysPage, CreateKeyOpen, CreateKeyType, RevokeKeyOpen,
                AdminRevokeOpen, Close, Mount, OpenReset, Open, Type
<1>2. ASSUME HandleRevoke \/ CreateKey \/ RevokeKey PROVE PlainStep
    BY <1>2, Sends DEF HandleRevoke, CreateKey, RevokeKey, Delete, Submit, Send, Call, Fits,
       HasSecret, Hands, Issues
<1>3. ASSUME NEW c \in calls, KeyCreated(c) PROVE SecretInv'
    <2>1. reveal' = Display(c) /\ area' = area /\ calls' = calls \ {c}
        BY <1>3 DEF KeyCreated, Finish
    <2>2. QED
        BY <2>1, Displays DEF SecretInv
<1>4. ASSUME NEW c \in calls, KeyRevoked(c) \/ KeyFails(c) \/ AdminRevokeSettles(c)
      PROVE  calls' = calls \ {c} /\ ~Carries(c) /\ UNCHANGED <<area, reveal>>
    BY <1>4 DEF KeyRevoked, KeyFails, AdminRevokeSettles, FinishAndRefetch, RefetchAfter,
       Finish, Fail, Carries
<1>5. QED
    BY <1>1, <1>2, <1>3, <1>4, Sends, Settles, PlainKeeps DEF KeysNext

\* A page unmounts, and a document is replaced.
LEMMA UnmountSecret ==
    ASSUME OriginInv, SecretInv, Unmount, area' = area PROVE SecretInv'
<1>1. PICK S : S = calls
    OBVIOUS
<1>2. /\ calls' = Orphaned(S) /\ S \in SUBSET calls
      /\ \A d \in calls' : Fits(d)
      /\ \A c \in calls : c.n # 0 /\ Carries(c) => \E d \in calls' : d.n = c.n /\ Carries(d)
    BY <1>1, OrphansCarry DEF Unmount
<1>3. CASE reveal.on = 0
    BY <1>2, <1>3, PlainKeeps DEF Unmount, PlainStep
<1>4. CASE reveal.on # 0
    <2>1. reveal' = [on |-> 0, fate |-> [reveal.fate EXCEPT ![reveal.on] = "left"]]
        BY <1>4 DEF Unmount
    <2>2. PICK m : m = reveal.on
        OBVIOUS
    <2>3. QED
        BY <1>2, <2>1, <2>2, FateMoves
<1>5. QED
    BY <1>3, <1>4

\* A new document forgets the requests of the old one.
LEMMA NewDocumentSecret ==
    ASSUME SecretInv, NewDocument PROVE SecretInv'
<1>1. DOMAIN reveal.fate = 1..MaxSent
    BY DEF SecretInv, FateInv
<1>2. /\ calls' = {} /\ area' = area
      /\ reveal' = [on |-> 0, fate |-> [n \in 1..MaxSent |->
                      IF reveal.fate[n] \in {"issued", "shown"} THEN "left" ELSE reveal.fate[n]]]
    BY <1>1 DEF NewDocument
<1>3. /\ DOMAIN reveal' = {"on", "fate"} /\ DOMAIN reveal'.fate = 1..MaxSent
      /\ \A n \in 1..MaxSent : reveal'.fate[n] =
            IF reveal.fate[n] \in {"issued", "shown"} THEN "left" ELSE reveal.fate[n]
    BY <1>2
<1>4. QED
    BY <1>2, <1>3 DEF SecretInv, FateInv

\* The server applies a request: the secret it issues is carried by the answer.
LEMMA ApplySecret ==
    ASSUME OriginInv, SecretInv, NEW c \in calls, Apply(c) PROVE SecretInv'
<1>1. SUFFICES ASSUME NEW lost \in {FALSE, TRUE}, NEW v,
                      calls' = (calls \ {c}) \cup
                               {[c EXCEPT !.st = IF lost THEN "cut" ELSE "done",
                                          !.id = Target(c), !.val = v]},
                      reveal' = IF HasSecret(c)
                                THEN [reveal EXCEPT !.fate[c.n] = IF lost THEN "cut" ELSE "issued"]
                                ELSE reveal
               PROVE  SecretInv'
    BY DEF Apply
<1>2. area' = area /\ c.st = "sent"
    BY DEF Apply
<1>3. PICK d : d = [c EXCEPT !.st = IF lost THEN "cut" ELSE "done", !.id = Target(c), !.val = v]
    OBVIOUS
<1>4. /\ d.n = c.n /\ d.by = c.by /\ d.op = c.op /\ d.rest = c.rest
      /\ d.st = IF lost THEN "cut" ELSE "done"
    <2>1. DOMAIN c = CallFields
        BY DEF OriginInv
    <2>2. QED
        BY <1>3, <2>1 DEF CallFields
<1>5. calls' = (calls \ {c}) \cup {d}
    BY <1>1, <1>3
<1>6. Fits(d)
    BY <1>4 DEF SecretInv, Fits, HasSecret, Hands
<1>7. CASE ~HasSecret(c)
    <2>1. reveal' = reveal /\ (Carries(c) => Carries(d))
        BY <1>1, <1>2, <1>4, <1>7 DEF Carries
    <2>2. QED
        BY <1>2, <1>4, <1>5, <1>6, <2>1, Moves, PlainKeeps
<1>8. CASE HasSecret(c)
    <2>1. PICK f : f = IF lost THEN "cut" ELSE "issued"
        OBVIOUS
    <2>2. DOMAIN reveal = {"on", "fate"}
        BY DEF SecretInv, FateInv
    <2>3. reveal' = [reveal EXCEPT !.fate[c.n] = f]
        BY <1>1, <1>8, <2>1
    <2>4. reveal' = [on |-> reveal.on, fate |-> [reveal.fate EXCEPT ![c.n] = f]]
        BY <2>2, <2>3
    <2>5. c.by \in {"setup", "recovery"} => c.op \in Issues
        BY <1>8 DEF HasSecret, OriginInv, AtHome
    <2>6. f = "issued" => Carries(d)
        BY <1>4, <1>8, <2>1, <2>5 DEF SecretInv, Fits, Hands, Carries
    <2>7. f \in {"issued", "cut"} /\ \A e \in calls' : Fits(e)
        BY <1>5, <1>6, <2>1 DEF SecretInv
    <2>8. QED
        BY <1>2, <1>4, <1>5, <2>4, <2>6, <2>7, FateMoves
<1>9. QED
    BY <1>7, <1>8

\* The steps of the session, the server and other tabs lose no secret.
LEMMA TabSecret ==
    ASSUME OriginInv, SecretInv, Session \/ Respond \/ Focus \/ OtherChanges \/ DismissSecret \/ Leave
    PROVE  SecretInv'
<1>1. ASSUME Expire \/ ProtectedRoute \/ Credentials \/ SecondFactor \/ Focus \/ OtherChanges
      PROVE  UNCHANGED <<area, reveal, calls>>
    BY <1>1 DEF Expire, ProtectedRoute, Credentials, SecondFactor, Focus, OtherChanges
<1>2. CASE Unload \/ AuthCallback
    BY <1>2, NewDocumentSecret DEF Unload, AuthCallback
<1>3. CASE Logout \/ Leave
    BY <1>3, UnmountSecret DEF Logout, Leave
<1>4. ASSUME NEW k \in Keys, Serve(k) PROVE UNCHANGED <<area, reveal, calls>>
    BY <1>4 DEF Serve
<1>5. ASSUME NEW c \in calls, Refuse(c) PROVE PlainStep
    <2>1. PICK d : d = [c EXCEPT !.st = "refused"]
        OBVIOUS
    <2>2. calls' = (calls \ {c}) \cup {d} /\ UNCHANGED <<area, reveal>> /\ c.st = "sent"
        BY <1>5, <2>1 DEF Refuse, Answer
    <2>3. DOMAIN c = CallFields
        BY DEF OriginInv
    <2>4. d.n = c.n /\ d.by = c.by /\ d.op = c.op /\ d.rest = c.rest
        BY <2>1, <2>3 DEF CallFields
    <2>5. Fits(d) /\ (Carries(c) => Carries(d))
        BY <2>2, <2>4 DEF SecretInv, Fits, HasSecret, Hands, Carries
    <2>6. QED
        BY <2>2, <2>4, <2>5, Moves
<1>6. CASE DismissSecret
    <2>1. PICK m : m = reveal.on
        OBVIOUS
    <2>2. /\ reveal' = [on |-> 0, fate |-> [reveal.fate EXCEPT ![m] = "dismissed"]]
          /\ UNCHANGED <<area, calls>>
        BY <1>6, <2>1 DEF DismissSecret, Fate
    <2>3. QED
        BY <2>1, <2>2, FateMoves DEF SecretInv
<1>7. CASE Denied
    <2>1. UNCHANGED <<area, reveal>>
        BY <1>7, DeniedShape
    <2>2. CASE calls' = calls
        BY <2>1, <2>2, PlainKeeps, Sends
    <2>3. CASE calls' # calls
        <3>1. PICK c \in calls : \E d : /\ calls' = (calls \ {c}) \cup {d}
                                        /\ c.st = "sent" /\ d.st \in {"done", "refused"}
                                        /\ \A f \in CallFields \ {"st"} : d[f] = c[f]
                                        /\ UsesAnswer(c) => d.st = "refused"
            BY <1>7, <2>3, DeniedShape
        <3>2. PICK d : /\ calls' = (calls \ {c}) \cup {d}
                       /\ c.st = "sent" /\ d.st \in {"done", "refused"}
                       /\ d.n = c.n /\ d.by = c.by /\ d.op = c.op /\ d.rest = c.rest
                       /\ UsesAnswer(c) => d.st = "refused"
            BY <3>1 DEF CallFields
        <3>3. Fits(d) /\ (Carries(c) => Carries(d))
            BY <3>2 DEF SecretInv, Fits, HasSecret, Hands, Carries, UsesAnswer
        <3>4. QED
            BY <2>1, <3>2, <3>3, Moves, PlainKeeps
    <2>4. QED
        BY <2>2, <2>3
<1>8. QED
    BY <1>1, <1>2, <1>3, <1>4, <1>5, <1>6, <1>7, ApplySecret, Sends, PlainKeeps DEF Session, Respond

\* Every step keeps the secrets.
LEMMA SecretStep == OriginInv /\ SecretInv /\ [Next]_vars => SecretInv'
<1> SUFFICES ASSUME OriginInv, SecretInv, [Next]_vars PROVE SecretInv'
    OBVIOUS
<1>1. ASSUME UNCHANGED vars \/ \E k \in Keys : Deliver(k) \/ FetchFails(k)
      PROVE  UNCHANGED <<area, reveal, calls>>
    BY <1>1 DEF vars, Deliver, Answered, FetchFails
<1>2. CASE Pages
    BY <1>2, PlainKeeps, EndpointsSecret, CertsSecret, InboxSecret, EndpointSecret, FormSecret,
       SettingsSecret, NotifySecret, TemplatesSecret, NetworksSecret, UsersSecret, ScannersSecret,
       TwoFactorSecret, KeysSecret, TagsSecret, JobsSecret, TabSecret DEF Pages
<1>3. QED
    BY <1>1, <1>2, TabSecret, Sends, PlainKeeps DEF Next

\* A tab starts with no secret issued.
LEMMA SecretInit == Init => SecretInv
BY DEF Init, SecretInv, FateInv

\* A secret the server has issued (a scanner token, an API key, the TOTP secret
\* and recovery codes) is on its way to the component that displays it or on
\* display, until the user puts it away: it is lost only with the answer or the
\* page that carried it, to a second one answered in its place, or when the
\* request after it failed, which happens to ScannersPage alone.
THEOREM SecretsAreNotLost == Spec => []IssuedSecretsAreShown
<1>1. SecretInv => IssuedSecretsAreShown
    BY DEF SecretInv, FateInv, IssuedSecretsAreShown
<1>2. QED
    BY <1>1, OriginInit, OriginStep, SecretInit, SecretStep, PTL DEF Spec

(***************************************************************************)
(* The saves of EndpointFormPage                                           *)
(***************************************************************************)
\* The pages that open the form, its modes, and the requests that make a record.
FormAreas == {"endpoint", "newEndpoint", "clone", "inbox"}
FormKinds == {"edit", "new", "promote"}
MadeBy    == {"create", "make"}

\* A request of the form's save chain, while the form is there.
FormCall(c) == c.by \in FormKinds /\ c.op # "read" /\ c.here

\* The form is on screen, or its document is being replaced by the login page
\* and no request of it is accepted any more.
AtForm == page = "form" \/ (page = "leaving" /\ ~auth)

\* The tally counts records made and errors shown.
TallyType == DOMAIN tally = {"made", "errs"} /\ tally.made \in Nat /\ tally.errs \in Nat

\* No record too many: as many as there were errors.
Even == tally.made <= tally.errs

\* Whoever waits for a save keeps the button disabled, and the record it may
\* still make is the one record the user has no error for.
SaveInv ==
    /\ dlg.kind \in FormKinds => AtForm
    /\ \A c \in calls : c.by \in Modes /\ c.here => AtForm
    /\ \A c \in calls : FormCall(c) =>
          /\ Flag(c.by) \in busy
          /\ \A d \in calls : FormCall(d) => d = c
          /\ c.op \in MadeBy /\ (c.st = "done" \/ page = "form") => Even
    /\ page = "form" /\ (\A c \in calls : ~FormCall(c)) => Even

\* The inductive invariant of the form: where no form is, no record is unaccounted
\* for, and where one is, the save chain is in order.
FormInv ==
    /\ TallyType /\ tally.made <= 1 + tally.errs
    /\ area \notin FormAreas => Even
    /\ area \in FormAreas => SaveInv

\* What every step but the form's own may do to the tally: nothing, start over, or
\* count an error.
TallyKept ==
    \/ tally' \in {tally, NoTally}
    \/ \E b : tally' = [tally EXCEPT !.errs = IF b THEN @ + 1 ELSE @]

\* Such a step leaves no record unaccounted for.
LEMMA KeepsTally ==
    ASSUME TallyType, TallyKept
    PROVE  /\ TallyType'
           /\ tally.made <= 1 + tally.errs => tally'.made <= 1 + tally'.errs
           /\ Even => Even'
<1>1. CASE tally' = tally
    BY <1>1 DEF TallyType, Even
<1>2. CASE tally' = NoTally
    BY <1>2 DEF TallyType, Even, NoTally
<1>3. ASSUME NEW b, tally' = [tally EXCEPT !.errs = IF b THEN @ + 1 ELSE @]
      PROVE  /\ TallyType'
             /\ tally.made <= 1 + tally.errs => tally'.made <= 1 + tally'.errs
             /\ Even => Even'
    <2>1. DOMAIN tally' = {"made", "errs"} /\ tally'.made = tally.made
          /\ tally'.errs \in {tally.errs, tally.errs + 1}
        BY <1>3 DEF TallyType
    <2>2. QED
        BY <2>1 DEF TallyType, Even
<1>4. QED
    BY <1>1, <1>2, <1>3 DEF TallyKept

\* A request that fails makes no record.
LEMMA FailTally == ASSUME NEW c, Fail(c) PROVE TallyKept
<1>1. PICK b : b = (c.here /\ page = "form")
    OBVIOUS
<1>2. QED
    BY <1>1 DEF Fail, TallyKept

\* The steps that leave the forms alone.
FormKept ==
    /\ area' = area /\ TallyKept
    /\ AtForm => AtForm'
    /\ page' = "form" => page = "form"
    /\ dlg'.kind \in FormKinds => dlg.kind \in FormKinds
    /\ \A d \in calls' : d.by \in Modes /\ d.here => d \in calls
    /\ \A c \in calls : FormCall(c) => c \in calls'
    /\ \A k \in FormKinds : Flag(k) \in busy => Flag(k) \in busy'

\* Such a step keeps the save chain in order.
LEMMA KeepsForm == ASSUME FormInv, FormKept PROVE FormInv'
<1>1. /\ TallyType' /\ (Even => Even')
      /\ tally.made <= 1 + tally.errs => tally'.made <= 1 + tally'.errs
    BY KeepsTally DEF FormInv, FormKept
<1>2. \A d : FormCall(d)' <=> FormCall(d)
    BY DEF FormCall
<1>3. \A d \in calls' : FormCall(d) => d \in calls
    BY DEF FormKept, FormCall, FormKinds, Modes
<1>4. ASSUME area \in FormAreas PROVE SaveInv'
    <2>1. (dlg.kind \in FormKinds => AtForm)'
        BY <1>4 DEF FormInv, SaveInv, FormKept
    <2>2. (\A c \in calls : c.by \in Modes /\ c.here => AtForm)'
        BY <1>4 DEF FormInv, SaveInv, FormKept
    <2>3. ASSUME NEW c \in calls', FormCall(c)
          PROVE  /\ Flag(c.by) \in busy'
                 /\ \A d \in calls' : FormCall(d) => d = c
                 /\ c.op \in MadeBy /\ (c.st = "done" \/ page' = "form") => Even'
        <3>1. c \in calls /\ c.by \in FormKinds
            BY <1>3, <2>3 DEF FormCall
        <3>2. QED
            BY <1>1, <1>3, <1>4, <2>3, <3>1 DEF FormInv, SaveInv, FormKept
    <2>4. page' = "form" /\ (\A c \in calls' : ~FormCall(c)) => Even'
        BY <1>1, <1>4 DEF FormInv, SaveInv, FormKept
    <2>5. QED
        BY <1>2, <2>1, <2>2, <2>3, <2>4 DEF SaveInv
<1>5. QED
    BY <1>1, <1>4 DEF FormInv, FormKept

\* A page goes, and another one, a form perhaps, starts with a tally of its own.
FormLeft ==
    /\ area' = area
    /\ \A d \in calls' : ~FormCall(d) /\ (d.by \in Modes /\ d.here => page' = "form")
    /\ dlg'.kind \in FormKinds => page' = "form"
    /\ tally' = NoTally \/ (tally' = tally /\ page' # "form")

\* A form that goes takes its chain with it.
LEMMA LeavesForm == ASSUME FormInv, FormLeft PROVE FormInv'
<1>1. /\ TallyType' /\ (Even => Even') /\ (page' = "form" => Even')
      /\ tally.made <= 1 + tally.errs => tally'.made <= 1 + tally'.errs
    <2>1. tally' = NoTally => Even'
        BY DEF NoTally, Even
    <2>2. QED
        BY <2>1, KeepsTally DEF FormInv, FormLeft, TallyKept
<1>2. \A d : FormCall(d)' <=> FormCall(d)
    BY DEF FormCall
<1>3. SaveInv'
    BY <1>1, <1>2 DEF SaveInv, FormLeft, AtForm
<1>4. QED
    BY <1>1, <1>3 DEF FormInv, FormLeft

\* The requests a page leaves behind are nobody's.
LEMMA OrphansAreGone ==
    ASSUME OriginInv, NEW S \in SUBSET calls PROVE \A d \in Orphaned(S) : ~d.here
<1> SUFFICES ASSUME NEW d \in Orphaned(S) PROVE ~d.here
    OBVIOUS
<1>1. PICK c \in calls : d = [c EXCEPT !.here = FALSE]
    BY DEF Orphaned
<1>2. DOMAIN c = CallFields
    BY DEF OriginInv
<1>3. QED
    BY <1>1, <1>2 DEF CallFields

-----------------------------------------------------------------------------
\* handleSave.  The button is enabled, so no save is under way; a tab that is on
\* its way to the login page sends nothing the server accepts.
LEMMA SavesForm == ASSUME OriginInv, FormInv, FormSave PROVE FormInv'
<1>1. PICK kind \in DOMAIN FirstStep, link \in BOOLEAN :
          Submit(kind, {Call(kind, FirstStep[kind], dlg.id, dlg.val, Steps(kind, link))})
    BY DEF FormSave
<1>2. PICK d : d = Call(kind, FirstStep[kind], dlg.id, dlg.val, Steps(kind, link))
    OBVIOUS
<1>3. d.by = kind /\ d.st = "sent" /\ d.here /\ d.op = FirstStep[kind]
    BY <1>2 DEF Call
<1>4. kind \in FormKinds
    BY DEF FirstStep, FormKinds
<1>5. /\ calls' = calls \cup {d} /\ busy' = busy \cup {Flag(kind)}
      /\ dlg.kind = kind /\ Flag(kind) \notin busy
      /\ UNCHANGED <<area, page, auth, dlg, tally>>
    BY <1>1, <1>2 DEF Submit, Send, Busy, nav, server, ledger
<1>6. area \in FormAreas
    BY <1>4, <1>5 DEF OriginInv, AtHome, FormKinds, FormAreas
<1>7. SaveInv /\ AtForm
    BY <1>4, <1>5, <1>6 DEF FormInv, SaveInv
<1>8. ASSUME NEW c \in calls, FormCall(c) PROVE c.by = kind
    <2>1. AtHome(c.by) /\ AtHome(kind) /\ c.by \in FormKinds
        BY <1>5, <1>8 DEF OriginInv, FormCall
    <2>2. QED
        BY <1>4, <2>1 DEF AtHome, FormKinds
<1>9. \A c \in calls : ~FormCall(c)
    BY <1>5, <1>7, <1>8 DEF SaveInv
<1>10. page = "form" => Even
    BY <1>7, <1>9 DEF SaveInv
<1>11. \A c : FormCall(c)' <=> FormCall(c)
    BY DEF FormCall
<1>12. SaveInv'
    <2>1. AtForm'
        BY <1>5, <1>7 DEF AtForm
    <2>2. ASSUME NEW c \in calls', FormCall(c) PROVE c = d
        BY <1>5, <1>9, <2>2
    <2>3. Flag(d.by) \in busy'
        BY <1>3, <1>5
    <2>4. page' = "form" => Even'
        BY <1>5, <1>10 DEF Even
    <2>5. QED
        BY <1>3, <1>11, <2>1, <2>2, <2>3, <2>4 DEF SaveInv
<1>13. QED
    BY <1>5, <1>6, <1>12 DEF FormInv, TallyType, Even

\* The next request of the chain.  Only the first makes a record, and it is counted
\* when its answer is there.
LEMMA StepsForm == ASSUME OriginInv, SecretInv, FormInv, NEW c \in calls, FormStep(c) PROVE FormInv'
<1>1. PICK d : d = [c EXCEPT !.op = Head(c.rest), !.rest = Tail(c.rest), !.st = "sent"]
    OBVIOUS
<1>2. /\ calls' = (calls \ {c}) \cup {d} /\ IsForm(c) /\ StepDone(c) /\ c.rest # <<>>
      /\ tally' = [tally EXCEPT !.made = IF c.here /\ c.op \in {"create", "make"} THEN @ + 1 ELSE @]
      /\ UNCHANGED <<area, page, auth, dlg, busy>>
    BY <1>1 DEF FormStep, nav, server, pane
<1>3. DOMAIN c = CallFields /\ c.by \in FormKinds /\ c.op # "read"
    BY <1>2 DEF OriginInv, IsForm, FirstStep, FormKinds
<1>4. d.by = c.by /\ d.here = c.here /\ d.st = "sent" /\ d.op = Head(c.rest)
    BY <1>1, <1>3 DEF CallFields
<1>5. d.op \notin MadeBy /\ d.op # "read"
    <2>1. c.rest \in Seq(FormOps)
        BY <1>3 DEF SecretInv, Fits, FormKinds
    <2>2. d.op \in FormOps
        BY <1>2, <1>4, <2>1
    <2>3. QED
        BY <2>2 DEF FormOps, MadeBy
<1>6. area \in FormAreas
    BY <1>3 DEF OriginInv, AtHome, FormKinds, FormAreas
<1>7. SaveInv /\ TallyType /\ tally.made <= 1 + tally.errs
    BY <1>6 DEF FormInv
<1>8. DOMAIN tally' = {"made", "errs"} /\ tally'.errs = tally.errs
      /\ tally'.made = (IF c.here /\ c.op \in MadeBy THEN tally.made + 1 ELSE tally.made)
    BY <1>2, <1>7 DEF TallyType, MadeBy
<1>9. c.here /\ c.op \in MadeBy => Even
    <2>1. c.op \in MadeBy => c.st = "done"
        BY <1>2 DEF StepDone, MadeBy
    <2>2. QED
        BY <1>3, <1>7, <2>1 DEF SaveInv, FormCall
<1>10. TallyType' /\ tally'.made <= 1 + tally'.errs
    BY <1>7, <1>8, <1>9 DEF TallyType, Even
<1>11. ~c.here => (Even => Even')
    BY <1>7, <1>8 DEF Even
<1>12. /\ \A e : FormCall(e)' <=> FormCall(e)
       /\ FormCall(d) <=> c.here
       /\ FormCall(c) <=> c.here
    BY <1>3, <1>4, <1>5 DEF FormCall
<1>13. SaveInv'
    <2>1. AtForm' <=> AtForm
        BY <1>2 DEF AtForm
    <2>2. (dlg.kind \in FormKinds => AtForm)'
        BY <1>2, <1>7, <2>1 DEF SaveInv
    <2>3. (\A e \in calls : e.by \in Modes /\ e.here => AtForm)'
        BY <1>2, <1>4, <1>7, <2>1 DEF SaveInv
    <2>4. ASSUME NEW e \in calls', FormCall(e)
          PROVE  /\ Flag(e.by) \in busy'
                 /\ \A f \in calls' : FormCall(f) => f = e
                 /\ e.op \in MadeBy /\ (e.st = "done" \/ page' = "form") => Even'
        <3>1. CASE c.here
            <4>1. \A f \in calls : FormCall(f) => f = c
                BY <1>7, <1>12, <3>1 DEF SaveInv
            <4>2. \A f \in calls' : FormCall(f) => f = d
                BY <1>2, <4>1
            <4>3. Flag(c.by) \in busy
                BY <1>7, <1>12, <3>1 DEF SaveInv
            <4>4. QED
                BY <1>2, <1>4, <1>5, <2>4, <4>2, <4>3
        <3>2. CASE ~c.here
            <4>1. e \in calls /\ \A f \in calls' : FormCall(f) => f \in calls
                BY <1>2, <1>12, <2>4, <3>2
            <4>2. QED
                BY <1>2, <1>7, <1>11, <2>4, <3>2, <4>1 DEF SaveInv
        <3>3. QED
            BY <3>1, <3>2
    <2>5. page' = "form" /\ (\A e \in calls' : ~FormCall(e)) => Even'
        <3>1. CASE c.here
            BY <1>2, <1>12, <3>1
        <3>2. CASE ~c.here
            BY <1>2, <1>7, <1>11, <1>12, <3>2 DEF SaveInv
        <3>3. QED
            BY <3>1, <3>2
    <2>6. QED
        BY <1>12, <2>2, <2>3, <2>4, <2>5 DEF SaveInv
<1>14. QED
    BY <1>2, <1>6, <1>10, <1>13 DEF FormInv

\* An error is reported, and counted while the form is there.
LEMMA FailsForm == ASSUME OriginInv, FormInv, NEW c \in calls, FormFails(c) PROVE FormInv'
<1>1. /\ IsForm(c) /\ calls' = calls \ {c} /\ UNCHANGED <<area, page, auth, dlg>>
      /\ busy' = (IF c.here /\ c.own THEN busy \ {Flag(c.by)} ELSE busy)
      /\ tally' = [tally EXCEPT !.errs = IF c.here /\ page = "form" THEN @ + 1 ELSE @]
    BY DEF FormFails, Fail, nav, server
<1>2. c.by \in FormKinds /\ c.op # "read"
    BY <1>1 DEF IsForm, FirstStep, FormKinds
<1>3. area \in FormAreas
    BY <1>2 DEF OriginInv, AtHome, FormKinds, FormAreas
<1>4. SaveInv /\ TallyType /\ tally.made <= 1 + tally.errs
    BY <1>3 DEF FormInv
<1>5. TallyKept
    BY FailTally DEF FormFails
<1>6. TallyType' /\ tally'.made <= 1 + tally'.errs /\ (Even => Even')
    BY <1>4, <1>5, KeepsTally
<1>7. c.here /\ page = "form" => Even'
    <2>1. c.here /\ page = "form" => tally'.errs = tally.errs + 1 /\ tally'.made = tally.made
        BY <1>1, <1>4 DEF TallyType
    <2>2. QED
        BY <1>4, <2>1 DEF TallyType, Even
<1>8. \A e : FormCall(e)' <=> FormCall(e)
    BY DEF FormCall
<1>9. SaveInv'
    <2>1. AtForm' <=> AtForm
        BY <1>1 DEF AtForm
    <2>2. ASSUME NEW e \in calls', FormCall(e)
          PROVE  /\ Flag(e.by) \in busy'
                 /\ \A f \in calls' : FormCall(f) => f = e
                 /\ e.op \in MadeBy /\ (e.st = "done" \/ page' = "form") => Even'
        <3>1. e \in calls /\ e # c /\ ~c.here
            BY <1>1, <1>2, <1>4, <2>2 DEF SaveInv, FormCall
        <3>2. QED
            BY <1>1, <1>4, <1>6, <2>2, <3>1 DEF SaveInv
    <2>3. page' = "form" /\ (\A e \in calls' : ~FormCall(e)) => Even'
        <3>1. CASE c.here
            BY <1>1, <1>7, <3>1
        <3>2. CASE ~c.here
            BY <1>1, <1>4, <1>6, <3>2 DEF SaveInv, FormCall
        <3>3. QED
            BY <3>1, <3>2
    <2>4. QED
        BY <1>1, <1>4, <1>8, <2>1, <2>2, <2>3 DEF SaveInv
<1>10. QED
    BY <1>1, <1>3, <1>6, <1>9 DEF FormInv

\* The steps of EndpointFormPage keep its save chain in order.
LEMMA FormForm == ASSUME OriginInv, SecretInv, FormInv, FormNext PROVE FormInv'
<1>0. area \in FormAreas /\ area' = area
    BY FormArea DEF FormAreas
<1>1. ASSUME FormEdit \/ FormTags PROVE FormKept
    BY <1>1, TypeShape DEF FormEdit, FormTags, Edit, OriginInv, FormKept, TallyKept, AtForm
<1>2. ASSUME NEW c \in calls, FormLoaded(c) PROVE FormInv'
    <2>1. /\ c.by \in Modes /\ c.op = "read" /\ calls' = calls \ {c}
          /\ UNCHANGED <<area, page, auth, busy, tally>>
        BY <1>2 DEF FormLoaded, nav, server, ledger
    <2>2. dlg' = dlg \/ c.here
        BY <1>2 DEF FormLoaded
    <2>3. dlg'.kind \in FormKinds => AtForm
        BY <1>0, <2>1, <2>2 DEF FormInv, SaveInv
    <2>4. AtForm' <=> AtForm
        BY <2>1 DEF AtForm
    <2>5. ~FormCall(c) /\ \A e : FormCall(e)' <=> FormCall(e)
        BY <2>1 DEF FormCall
    <2>6. SaveInv'
        BY <1>0, <2>1, <2>3, <2>4, <2>5 DEF FormInv, SaveInv, Even
    <2>7. QED
        BY <1>0, <2>1, <2>6 DEF FormInv, TallyType, Even
<1>3. ASSUME NEW c \in calls, FormSaved(c) PROVE FormInv'
    <2>1. CASE SignedOut
        <3>1. calls' = calls \ {c} /\ UNCHANGED <<area, page, auth, dlg, busy, tally>>
            BY <1>3, <2>1 DEF FormSaved, nav, pane, server
        <3>2. page # "form"
            BY <2>1 DEF SignedOut
        <3>3. AtForm' <=> AtForm
            BY <3>1 DEF AtForm
        <3>4. \A e : FormCall(e)' <=> FormCall(e)
            BY DEF FormCall
        <3>5. SaveInv'
            BY <1>0, <3>1, <3>2, <3>3, <3>4 DEF FormInv, SaveInv, Even
        <3>6. QED
            BY <1>0, <3>1, <3>5 DEF FormInv, TallyType, Even
    <2>2. CASE ~SignedOut
        <3>1. PICK S : S = calls \ {c}
            OBVIOUS
        <3>2. S \in SUBSET calls /\ calls' = Orphaned(S) /\ dlg' = NoDlg /\ tally' = NoTally
            BY <1>3, <2>2, <3>1 DEF FormSaved
        <3>3. \A d \in calls' : ~d.here
            BY <3>2, OrphansAreGone
        <3>4. FormLeft
            BY <1>0, <3>2, <3>3 DEF FormLeft, FormCall, NoDlg, Form, FormKinds
        <3>5. QED
            BY <3>4, LeavesForm
    <2>3. QED
        BY <2>1, <2>2
<1>4. QED
    BY <1>1, <1>2, <1>3, SavesForm, StepsForm, FailsForm, KeepsForm DEF FormNext

-----------------------------------------------------------------------------
\* A step of another component: it sends and settles requests of its own, and the
\* page, the session and the tally stay.
LEMMA OthersForm ==
    ASSUME UNCHANGED <<area, page, auth>>, TallyKept,
           dlg'.kind \in FormKinds => dlg.kind \in FormKinds,
           \A d \in calls' : d \in calls \/ d.by \notin Modes,
           \A c \in calls : c.by \in FormKinds => c \in calls',
           \A k \in FormKinds : Flag(k) \in busy => Flag(k) \in busy'
    PROVE  FormKept
BY DEF FormKept, FormCall, AtForm

\* The steps of an endpoint's detail page, and of opening its form keep the save chain of the form
\* in order.
LEMMA EndpointForm == ASSUME OriginInv, FormInv, EndpointNext PROVE FormInv'
<1> USE DEF FormKinds, Modes
<1>0. area \in FormAreas /\ area' = area
    BY EndpointArea DEF FormAreas
<1>1. CASE EndpointDetailPage
    <2>1. page = "away" /\ page' = "detail" /\ UNCHANGED <<auth, calls, dlg, busy, tally>>
        BY <1>1 DEF EndpointDetailPage, Mount, server, pane, ledger
    <2>2. ~AtForm
        BY <2>1 DEF AtForm
    <2>3. FormKept
        BY <1>0, <2>1, <2>2 DEF FormKept, TallyKept
    <2>4. QED
        BY <2>3, KeepsForm
<1>2. ASSUME ToggleEnabled \/ NotesOpen \/ NotesSave \/ NotesClose \/ DetailDeleteOpen \/ DetailDelete
             \/ Close("deleteDetail")
      PROVE  FormKept
    <2>1. UNCHANGED <<area, page, auth, tally>>
        BY <1>2 DEF ToggleEnabled, NotesOpen, NotesSave, NotesClose, DetailDeleteOpen,
           DetailDelete, Close, Press, Submit, Open, nav, server, ledger
    <2>2. dlg'.kind \in FormKinds => dlg.kind \in FormKinds
        BY <1>2 DEF ToggleEnabled, NotesOpen, NotesSave, NotesClose, DetailDeleteOpen,
           DetailDelete, Close, Press, Submit, Open, Form, NoDlg
    <2>3. /\ \A d \in calls' : d \in calls \/ d.by \notin Modes
          /\ calls \subseteq calls' /\ busy \subseteq busy'
        BY <1>2 DEF ToggleEnabled, NotesOpen, NotesSave, NotesClose, DetailDeleteOpen,
           DetailDelete, Close, Press, Submit, Open, Send, Call
    <2>4. QED
        BY <2>1, <2>2, <2>3, OthersForm DEF TallyKept
<1>3. ASSUME NotesType PROVE FormKept
    BY <1>3, TypeShape DEF NotesType, OriginInv, FormKept, TallyKept, AtForm
<1>4. ASSUME NEW mode \in {"edit", "new", "clone"}, FormMount(mode) PROVE FormInv'
    <2>1. page' = "form" /\ tally' = NoTally
        BY <1>4 DEF FormMount
    <2>2. ASSUME NEW d \in calls' PROVE ~FormCall(d)
        <3>1. PICK S : S = calls
            OBVIOUS
        <3>2. S \in SUBSET calls /\ calls' \subseteq Orphaned(S) \cup {Read(mode, 1), Read("loadTags", 1)}
            BY <1>4, <3>1 DEF FormMount
        <3>3. \A e \in Orphaned(S) : ~e.here
            BY <3>2, OrphansAreGone
        <3>4. Read(mode, 1).op = "read" /\ Read("loadTags", 1).op = "read"
            BY DEF Read, Call
        <3>5. QED
            BY <2>2, <3>2, <3>3, <3>4 DEF FormCall
    <2>3. FormLeft
        BY <1>0, <2>1, <2>2 DEF FormLeft
    <2>4. QED
        BY <2>3, LeavesForm
<1>5. ASSUME NEW c \in calls, ToggleSettles(c) \/ NotesSettles(c) PROVE FormKept
    <2>1. UNCHANGED <<area, page, auth>> /\ calls' = calls \ {c} /\ c.by \in {"toggle", "notes"}
        BY <1>5 DEF ToggleSettles, NotesSettles, Fail, Finish, nav, server
    <2>2. TallyKept
        BY <1>5, FailTally DEF ToggleSettles, NotesSettles, TallyKept, ledger
    <2>3. \A k \in FormKinds : Flag(k) \in busy => Flag(k) \in busy'
        BY <1>5, <2>1 DEF ToggleSettles, NotesSettles, Fail, Finish, Flag
    <2>4. dlg'.kind \in FormKinds => dlg.kind \in FormKinds
        BY <1>5 DEF ToggleSettles, NotesSettles, Fail, Finish, NotesEffect, Form, NoDlg
    <2>5. QED
        BY <2>1, <2>2, <2>3, <2>4, OthersForm
<1>6. ASSUME NEW c \in calls, DetailDeleted(c) PROVE FormInv'
    <2>1. CASE Fail(c) \/ SignedOut
        <3>1. UNCHANGED <<area, page, auth, dlg>> /\ calls' = calls \ {c} /\ c.by = "deleteDetail"
            BY <1>6, <2>1 DEF DetailDeleted, Fail, nav, server
        <3>2. TallyKept
            BY <1>6, <2>1, FailTally DEF DetailDeleted, TallyKept
        <3>3. \A k \in FormKinds : Flag(k) \in busy => Flag(k) \in busy'
            BY <1>6, <2>1, <3>1 DEF DetailDeleted, Fail, Flag
        <3>4. QED
            BY <3>1, <3>2, <3>3, OthersForm, KeepsForm
    <2>2. CASE ~Fail(c) /\ ~SignedOut
        <3>1. PICK S : S = calls \ {c}
            OBVIOUS
        <3>2. S \in SUBSET calls /\ calls' = Orphaned(S) /\ dlg' = NoDlg /\ tally' = NoTally
            BY <1>6, <2>2, <3>1 DEF DetailDeleted
        <3>3. \A d \in calls' : ~d.here
            BY <3>2, OrphansAreGone
        <3>4. FormLeft
            BY <1>0, <3>2, <3>3 DEF FormLeft, FormCall, NoDlg, Form
        <3>5. QED
            BY <3>4, LeavesForm
    <2>3. QED
        BY <2>1, <2>2
<1>7. ASSUME NEW c \in calls, FormTagsLoaded(c) PROVE FormKept
    <2>1. dlg' = dlg \/ \E v : dlg' = [dlg EXCEPT !.val.tags = v]
        BY <1>7 DEF FormTagsLoaded
    <2>2. dlg'.kind = dlg.kind
        BY <2>1 DEF OriginInv, DlgFields
    <2>3. UNCHANGED <<area, page, auth, busy, tally>> /\ calls' = calls \ {c} /\ c.by = "loadTags"
        BY <1>7 DEF FormTagsLoaded, nav, server, ledger
    <2>4. QED
        BY <2>2, <2>3, OthersForm DEF TallyKept
<1>8. QED
    BY <1>1, <1>2, <1>3, <1>4, <1>5, <1>6, <1>7, KeepsForm DEF EndpointNext

\* The steps of the discovery inbox keep the save chain of the form in order.
LEMMA InboxForm == ASSUME OriginInv, FormInv, InboxNext PROVE FormInv'
<1> USE DEF FormKinds, Modes
<1>0. area \in FormAreas /\ area' = area
    BY InboxArea DEF FormAreas
<1>1. CASE DiscoveryInboxPage
    <2>1. page = "away" /\ page' = "list" /\ UNCHANGED <<auth, calls, dlg, busy, tally>>
        BY <1>1 DEF DiscoveryInboxPage, Mount, server, pane, ledger
    <2>2. ~AtForm
        BY <2>1 DEF AtForm
    <2>3. FormKept
        BY <1>0, <2>1, <2>2 DEF FormKept, TallyKept
    <2>4. QED
        BY <2>3, KeepsForm
<1>2. ASSUME ShowDismissed \/ (\E i \in Ids : InboxDeleteOpen(i)) \/ InboxDelete \/ Close("deleteFinding")
      PROVE  FormKept
    <2>1. UNCHANGED <<area, page, auth, tally>>
        BY <1>2 DEF ShowDismissed, InboxDeleteOpen, InboxDelete, Close, Turn, Submit, Open, nav,
           server, ledger
    <2>2. dlg'.kind \in FormKinds => dlg.kind \in FormKinds
        BY <1>2 DEF ShowDismissed, InboxDeleteOpen, InboxDelete, Close, Turn, Submit, Open,
           Form, NoDlg
    <2>3. /\ \A d \in calls' : d \in calls \/ d.by \notin Modes
          /\ calls \subseteq calls' /\ busy \subseteq busy'
        BY <1>2 DEF ShowDismissed, InboxDeleteOpen, InboxDelete, Close, Turn, Submit, Open,
           Send, Call
    <2>4. QED
        BY <2>1, <2>2, <2>3, OthersForm DEF TallyKept
<1>3. ASSUME NEW i \in Ids, Dismiss(i) PROVE FormKept
    <2>1. /\ UNCHANGED <<area, page, auth, dlg, tally>> /\ busy \ Dismissing \subseteq busy'
          /\ calls \subseteq calls' /\ \A d \in calls' : d \in calls \/ d.by \notin Modes
        BY <1>3 DEF Dismiss, Send, Call, nav, server, ledger
    <2>2. \A k \in FormKinds : Flag(k) \notin Dismissing
        BY DEF Flag, Dismissing
    <2>3. QED
        BY <2>1, <2>2, OthersForm DEF TallyKept
<1>4. ASSUME NEW i \in Ids, Promote(i) PROVE FormInv'
    <2>1. page' = "form" /\ tally' = NoTally
        BY <1>4 DEF Promote
    <2>2. ASSUME NEW d \in calls' PROVE ~FormCall(d)
        <3>1. PICK S : S = calls
            OBVIOUS
        <3>2. S \in SUBSET calls /\ calls' = Orphaned(S) \cup {Read("promote", i)}
            BY <1>4, <3>1 DEF Promote
        <3>3. \A e \in Orphaned(S) : ~e.here
            BY <3>2, OrphansAreGone
        <3>4. Read("promote", i).op = "read"
            BY DEF Read, Call
        <3>5. QED
            BY <2>2, <3>2, <3>3, <3>4 DEF FormCall
    <2>3. FormLeft
        BY <1>0, <2>1, <2>2 DEF FormLeft
    <2>4. QED
        BY <2>3, LeavesForm
<1>5. ASSUME NEW c \in calls, DismissSettles(c) \/ InboxDeleteSettles(c) PROVE FormKept
    <2>1. UNCHANGED <<area, page, auth>> /\ calls' = calls \ {c} /\ c.by \in {"dismiss", "deleteFinding"}
        BY <1>5 DEF DismissSettles, InboxDeleteSettles, FinishAndInvalidate, Fail, Finish, nav,
           server
    <2>2. TallyKept
        BY <1>5, FailTally DEF DismissSettles, InboxDeleteSettles, FinishAndInvalidate, TallyKept
    <2>3. \A k \in FormKinds : Flag(k) \in busy => Flag(k) \in busy'
        BY <1>5, <2>1 DEF DismissSettles, InboxDeleteSettles, FinishAndInvalidate, Fail, Finish,
           Flag, Dismissing
    <2>4. dlg'.kind \in FormKinds => dlg.kind \in FormKinds
        BY <1>5 DEF DismissSettles, InboxDeleteSettles, FinishAndInvalidate, Fail, Finish, Form,
           NoDlg
    <2>5. QED
        BY <2>1, <2>2, <2>3, <2>4, OthersForm
<1>6. QED
    BY <1>1, <1>2, <1>3, <1>4, <1>5, KeepsForm DEF InboxNext

-----------------------------------------------------------------------------
\* The pages of the other areas make no records and count only errors.
LEMMA EndpointsTally == ASSUME EndpointsNext PROVE TallyKept
<1>1. ASSUME EndpointPage \/ EndpointPager \/ EndpointFilter \/ TypeSwitch \/ ToggleAll \/ ClearSelection
      PROVE  TallyKept
    BY <1>1 DEF EndpointPage, EndpointPager, EndpointFilter, TypeSwitch, ToggleAll,
                ClearSelection, Mount, Turn, Select, TallyKept, ledger
<1>2. ASSUME NEW i \in Ids, ToggleOne(i) \/ DeleteEndpointOpen(i)
      PROVE  TallyKept
    BY <1>2 DEF ToggleOne, Select, DeleteEndpointOpen, Open, TallyKept, ledger
<1>3. ASSUME \/ DeleteEndpoint \/ Close("deleteEndpoint") \/ BulkDeleteOpen \/ BulkDeleteConfirm
             \/ BulkTagOpen \/ BulkTagPick \/ BulkTagConfirm \/ EndpointBulkDone
      PROVE  TallyKept
    BY <1>3 DEF DeleteEndpoint, Close, Submit, BulkDeleteOpen, BulkDeleteConfirm, BulkTagOpen,
                BulkTagPick, BulkTagConfirm, EndpointBulkDone, BulkOpen, BulkRun, BulkClose,
                TallyKept, ledger
<1>4. ASSUME ImportOpen \/ ImportPreview \/ ImportConfirm \/ ImportBack \/ ImportClose
      PROVE  TallyKept
    BY <1>4 DEF ImportOpen, ImportPreview, ImportConfirm, ImportBack, ImportClose, Open,
                TallyKept, ledger
<1>5. ASSUME NEW c \in calls, DeleteEndpointSettles(c) \/ BulkDeleteSettles(c) \/ BulkTagSettles(c)
                              \/ ImportSettles(c)
      PROVE  TallyKept
    BY <1>5, FailTally DEF DeleteEndpointSettles, BulkDeleteSettles, BulkTagSettles,
                ImportSettles, BulkSettle, FinishAndRefetch, RefetchAfter, TallyKept, ledger
<1>6. QED
    BY <1>1, <1>2, <1>3, <1>4, <1>5 DEF EndpointsNext

\* The steps of the certificate list make no record of a form.
LEMMA CertsTally == ASSUME CertsNext PROVE TallyKept
<1>1. ASSUME CertificatesPage \/ CertPager \/ CertFilter \/ ToggleAllCerts
             \/ \E i \in Ids : ToggleOneCert(i) \/ DeleteCertOpen(i)
      PROVE  TallyKept
    BY <1>1 DEF CertificatesPage, CertPager, CertFilter, ToggleAllCerts, ToggleOneCert,
                DeleteCertOpen, Mount, Turn, Select, TallyKept, ledger
<1>2. ASSUME \/ PurgeTick \/ DeleteCertificate \/ Close("deleteCert") \/ BulkDeleteCertsOpen
             \/ BulkPurgeTick \/ BulkDeleteCertsConfirm \/ CertBulkDone
      PROVE  TallyKept
    BY <1>2 DEF PurgeTick, DeleteCertificate, Close, Submit, BulkDeleteCertsOpen, BulkPurgeTick,
                BulkDeleteCertsConfirm, CertBulkDone, BulkOpen, BulkRun, BulkClose, TallyKept,
                ledger
<1>3. ASSUME IngestOpen \/ IngestType \/ IngestSubmit \/ Close("ingest")
      PROVE  TallyKept
    BY <1>3 DEF IngestOpen, IngestType, IngestSubmit, Close, Submit, Open, Type, TallyKept, ledger
<1>4. ASSUME NEW c \in calls, CertReferences(c) \/ DeleteCertSettles(c) \/ BulkDeleteCertsSettles(c)
                              \/ IngestSettles(c)
      PROVE  TallyKept
    BY <1>4, FailTally DEF CertReferences, DeleteCertSettles, BulkDeleteCertsSettles,
                IngestSettles, BulkSettle, FinishAndRefetch, RefetchAfter, TallyKept, ledger
<1>5. QED
    BY <1>1, <1>2, <1>3, <1>4 DEF CertsNext

\* The steps of the mail, general and group settings make no record of a form.
LEMMA SettingsTally == ASSUME SettingsNext PROVE TallyKept
<1>1. ASSUME MailConfigPage \/ MailDefaults \/ MailEdit \/ MailSave \/ MailTest
      PROVE  TallyKept
    BY <1>1 DEF MailConfigPage, MailDefaults, MailEdit, MailSave, MailTest, MountForm, Edit, Type,
                Submit, TallyKept, ledger
<1>2. ASSUME \/ GeneralSettingsPage \/ ThresholdsEdit \/ ThresholdsSave
             \/ GroupFormPage \/ GroupEdit \/ GroupHosts \/ GroupSave
      PROVE  TallyKept
    BY <1>2 DEF GeneralSettingsPage, ThresholdsEdit, ThresholdsSave, GroupFormPage, GroupEdit,
                GroupHosts, GroupSave, Edit, Type, Submit, TallyKept, ledger
<1>3. ASSUME NEW c \in calls, MailSettles(c) \/ MailTestSettles(c) \/ ThresholdsLoaded(c)
                              \/ ThresholdsSettle(c) \/ GroupSaved(c)
      PROVE  TallyKept
    BY <1>3, FailTally DEF MailSettles, MailTestSettles, ThresholdsLoaded, ThresholdsSettle,
                GroupSaved, FinishOnly, TallyKept, ledger
<1>4. QED
    BY <1>1, <1>2, <1>3 DEF SettingsNext

\* The steps of the account's notification page make no record of a form.
LEMMA NotifyTally == ASSUME NotifyNext \/ TemplatesNext PROVE TallyKept
<1>1. ASSUME \/ AccountNotificationsPage \/ SaveNotify \/ SubscriptionEdit \/ SaveTags
             \/ \E c \in calls : SaveNotifySettles(c) \/ SaveTagsSettles(c)
      PROVE  TallyKept
    BY <1>1, FailTally DEF AccountNotificationsPage, SaveNotify, SubscriptionEdit, SaveTags,
                SaveNotifySettles, SaveTagsSettles, Edit, Type, TallyKept, ledger
<1>2. ASSUME \/ NotificationTemplatesPage \/ TemplateEdit \/ TemplateSave \/ TemplateReset
             \/ \E i \in Ids : ChooseTemplate(i)
             \/ \E c \in calls : TemplateResetStep(c) \/ TemplateSettles(c) \/ TemplateFails(c)
      PROVE  TallyKept
    BY <1>2, FailTally DEF NotificationTemplatesPage, TemplateEdit, TemplateSave, TemplateReset,
                ChooseTemplate, TemplateResetStep, TemplateSettles, TemplateFails, Edit, Type,
                Submit, TallyKept, ledger
<1>3. QED
    BY <1>1, <1>2 DEF NotifyNext, TemplatesNext

\* The steps of the networks, users and tags pages make no record of a form.
LEMMA AdminTally == ASSUME NetworksNext \/ UsersNext \/ TagsNext PROVE TallyKept
<1>1. ASSUME NetworksNext PROVE TallyKept
    BY <1>1, FailTally DEF NetworksNext, DiscoveryNetworksPage, NetworkCreateOpen, NetworkType,
       NetworkSave, NetworkDelete, NetworkEditOpen, NetworkDeleteOpen, NetworkToggle, Close,
       NetworkSettles, Mount, Open, Edit, Type, Delete, Submit, Press, FinishAndInvalidate,
       TallyKept, ledger
<1>2. ASSUME \/ UsersPage \/ UserPager \/ UserAddOpen \/ UserType \/ UserSubmit
             \/ CredentialSubmit \/ UserDelete
             \/ \E i \in Ids : \/ UserDialogOpen(i) \/ PasswordOpen(i) \/ Reset2FAOpen(i)
                               \/ UserDeleteOpen(i) \/ HandleToggleEnabled(i)
      PROVE  TallyKept
    BY <1>2 DEF UsersPage, UserPager, UserAddOpen, UserType, UserSubmit, CredentialSubmit,
                UserDelete, UserDialogOpen, PasswordOpen, Reset2FAOpen, UserDeleteOpen,
                HandleToggleEnabled, Mount, Turn, OpenAfresh, Open, Edit, Type, Delete, Submit,
                Press, TallyKept, ledger
<1>3. ASSUME \/ \E kind \in {"user", "password", "reset2fa", "deleteUser"} : Close(kind)
             \/ \E c \in calls : UserSettles(c)
      PROVE  TallyKept
    BY <1>3, FailTally DEF Close, UserSettles, FinishAndRefetch, RefetchAfter, FinishOnly,
                TallyKept, ledger
<1>4. ASSUME TagsNext PROVE TallyKept
    BY <1>4, FailTally DEF TagsNext, TagsPage, TagType, TagDelete, TagNew, TagSubmit, TagEdit,
       TagDeleteOpen, Close, TagSettles, Mount, Open, Edit, Type, Delete, Submit,
       FinishAndRefetch, RefetchAfter, TallyKept, ledger
<1>5. QED
    BY <1>1, <1>2, <1>3, <1>4 DEF UsersNext

\* The steps of the scanner, two-factor and API key pages make no record of a form.
LEMMA SecretTally == ASSUME ScannersNext \/ TwoFactorNext \/ KeysNext PROVE TallyKept
<1>1. ASSUME \/ ScannersPage \/ ScannerCreateOpen \/ ScannerCreateType \/ ScannerCreate
             \/ ScannerEditType \/ ScannerEdit \/ Regenerate \/ Revoke
             \/ \E i \in Ids : \/ ScannerEditOpen(i) \/ OpenRegenerate(i)
                               \/ RevokeOpen(i) \/ HandleSetDefault(i)
      PROVE  TallyKept
    BY <1>1 DEF ScannersPage, ScannerCreateOpen, ScannerCreateType, ScannerCreate,
                ScannerEditType, ScannerEdit, Regenerate, Revoke, ScannerEditOpen, OpenRegenerate,
                RevokeOpen, HandleSetDefault, Mount, OpenAfresh, Open, Type, Delete, Submit,
                Press, TallyKept, ledger
<1>2. ASSUME \/ \E kind \in {"scannerNew", "scannerEdit", "rotate", "revoke"} : Close(kind)
             \/ \E c \in calls : \/ ScannerSchedule(c) \/ HandleCreated(c) \/ ScannerCreateFails(c)
                                 \/ HandleRegenerated(c) \/ ScannerSettles(c)
      PROVE  TallyKept
    BY <1>2, FailTally DEF Close, ScannerSchedule, HandleCreated, ScannerCreateFails,
                HandleRegenerated, ScannerSettles, FinishAndRefetch, RefetchAfter, TallyKept,
                ledger
<1>3. ASSUME TwoFactorNext PROVE TallyKept
    BY <1>3, FailTally DEF TwoFactorNext, Account2FAPage, StartSetup, ConfirmSetup, CancelSetup,
       DisableOpen, Disable, RecoveryOpen, RecoveryCodes, Close, StatusLoaded, SetupStarted,
       TwoFactorChanged, TwoFactorSettles, OpenReset, Submit, Press, TallyKept, ledger
<1>4. ASSUME KeysNext PROVE TallyKept
    BY <1>4, FailTally DEF KeysNext, APIKeysPage, HandleRevoke, AccountAPIKeysPage, CreateKeyOpen,
                CreateKeyType, CreateKey, RevokeKey, RevokeKeyOpen, AdminRevokeOpen, Close,
                KeyCreated, KeyRevoked, KeyFails, AdminRevokeSettles, Mount, OpenReset, Open,
                Type, Delete, Submit, FinishAndRefetch, RefetchAfter, TallyKept, ledger
<1>5. QED
    BY <1>1, <1>2, <1>3, <1>4 DEF ScannersNext

\* The steps of MaintenancePage make no record of a form.
LEMMA JobsTally == ASSUME JobsNext PROVE TallyKept
<1>1. ASSUME \/ MaintenancePage \/ JobType \/ JobClose \/ JobSave \/ JobSaveNothing \/ JobRunInDialog
             \/ \E i \in Ids : JobEditOpen(i) \/ JobRun(i) \/ JobToggle(i)
      PROVE  TallyKept
    BY <1>1 DEF MaintenancePage, JobType, JobClose, JobSave, JobSaveNothing, JobRunInDialog,
                JobEditOpen, JobRun, JobToggle, Mount, Close, Edit, Type, Submit, Press,
                TallyKept, ledger
<1>2. ASSUME NEW c \in calls, \/ RetentionLoaded(c) \/ JobSaved(c) \/ JobSaveFails(c)
                              \/ Dropped(c) \/ JobSettles(c)
      PROVE  TallyKept
    BY <1>2, FailTally DEF RetentionLoaded, JobSaved, JobSaveFails, Dropped, JobSettles,
                FinishAndInvalidate, TallyKept, ledger
<1>3. QED
    BY <1>1, <1>2 DEF JobsNext

\* The pages without EndpointFormPage.
LEMMA TallyElsewhere ==
    ASSUME OriginInv, FormInv,
           \/ EndpointsNext \/ CertsNext \/ SettingsNext \/ NotifyNext \/ TemplatesNext \/ NetworksNext
           \/ UsersNext \/ TagsNext \/ ScannersNext \/ TwoFactorNext \/ KeysNext \/ JobsNext
    PROVE  FormInv'
<1>1. area \notin FormAreas /\ area' = area
    BY EndpointsArea, CertsArea, SettingsArea, NotifyArea, AdminArea, SecretArea, JobsArea DEF
       FormAreas
<1>2. TallyKept
    BY EndpointsTally, CertsTally, SettingsTally, NotifyTally, AdminTally, SecretTally, JobsTally
<1>3. QED
    BY <1>1, <1>2, KeepsTally DEF FormInv

-----------------------------------------------------------------------------
\* A 401: the document goes, and a request that makes a record is taken for failed.
LEMMA DeniedForm == ASSUME OriginInv, FormInv, Denied PROVE FormInv'
<1>1. UNCHANGED <<area, dlg, busy, tally>> /\ ~auth /\ ~auth' /\ page' \in {page, "leaving"}
    BY DEF Denied, pane, server, ledger
<1>2. CASE calls' = calls
    <2>1. FormKept
        BY <1>1, <1>2 DEF FormKept, TallyKept, AtForm
    <2>2. QED
        BY <2>1, KeepsForm
<1>3. CASE calls' # calls
    <2>1. PICK c \in calls : \E d : /\ calls' = (calls \ {c}) \cup {d}
                                    /\ \A f \in CallFields \ {"st"} : d[f] = c[f]
                                    /\ UsesAnswer(c) => d.st = "refused"
                                    /\ Bare(c) \/ page' = "leaving"
        BY <1>3, DeniedShape
    <2>2. PICK d : /\ calls' = (calls \ {c}) \cup {d}
                   /\ d.by = c.by /\ d.op = c.op /\ d.here = c.here
                   /\ UsesAnswer(c) => d.st = "refused"
                   /\ Bare(c) \/ page' = "leaving"
        BY <2>1 DEF CallFields
    <2>3. /\ FormCall(d) <=> FormCall(c)
          /\ \A e : FormCall(e)' <=> FormCall(e)
          /\ d.op \in MadeBy /\ FormCall(d) => d.st = "refused"
          /\ FormCall(c) => page' = "leaving"
        BY <2>2 DEF FormCall, FormKinds, MadeBy, UsesAnswer, Bare
    <2>4. AtForm => AtForm'
        BY <1>1 DEF AtForm
    <2>5. ASSUME area \in FormAreas PROVE SaveInv'
        <3>1. SaveInv /\ (Even' <=> Even)
            BY <1>1, <2>5 DEF FormInv, Even
        <3>2. ASSUME NEW e \in calls', FormCall(e)
              PROVE  /\ Flag(e.by) \in busy'
                     /\ \A f \in calls' : FormCall(f) => f = e
                     /\ e.op \in MadeBy /\ (e.st = "done" \/ page' = "form") => Even'
            <4>1. CASE e = d
                BY <1>1, <2>2, <2>3, <3>1, <3>2, <4>1 DEF SaveInv
            <4>2. CASE e # d
                <5>1. e \in calls \ {c} /\ ~FormCall(c)
                    BY <2>2, <3>1, <3>2, <4>2 DEF SaveInv
                <5>2. QED
                    BY <1>1, <2>2, <2>3, <3>1, <3>2, <5>1 DEF SaveInv
            <4>3. QED
                BY <4>1, <4>2
        <3>3. page' = "form" /\ (\A e \in calls' : ~FormCall(e)) => Even'
            BY <1>1, <2>2, <2>3, <3>1 DEF SaveInv
        <3>4. (\A e \in calls : e.by \in Modes /\ e.here => AtForm)'
            BY <2>2, <2>4, <3>1 DEF SaveInv
        <3>5. (dlg.kind \in FormKinds => AtForm)'
            BY <1>1, <2>4, <3>1 DEF SaveInv
        <3>6. QED
            BY <2>3, <3>2, <3>3, <3>4, <3>5 DEF SaveInv
    <2>6. QED
        BY <1>1, <2>5 DEF FormInv, TallyType, Even
<1>4. QED
    BY <1>2, <1>3

\* The session: whatever takes the form away takes its requests with it.
LEMMA SessionForm ==
    ASSUME OriginInv, FormInv, Session \/ Leave \/ Focus \/ DismissSecret \/ OtherChanges
    PROVE  FormInv'
<1> USE DEF FormKinds
<1>1. NoDlg.kind = "none" /\ [NoDlg EXCEPT !.kind = "credentials"].kind = "credentials"
    BY DEF NoDlg, Form
<1>2. CASE Expire \/ Focus \/ DismissSecret \/ OtherChanges
    <2>1. UNCHANGED <<area, calls, dlg, busy, tally>>
        BY <1>2 DEF Expire, Focus, DismissSecret, OtherChanges, pane, ledger
    <2>2. \/ UNCHANGED <<page, auth>>
          \/ page' = page /\ ~auth'
          \/ page' = "leaving" /\ ~auth'
        BY <1>2 DEF Expire, Focus, DismissSecret, OtherChanges, nav, server
    <2>3. FormKept
        BY <2>1, <2>2 DEF FormKept, TallyKept, AtForm
    <2>4. QED
        BY <2>3, KeepsForm
<1>3. CASE ProtectedRoute \/ Credentials \/ SecondFactor
    <2>1. UNCHANGED <<area, calls, busy, tally>> /\ page \in {"away", "login"} /\ page' \in {"away", "login"}
        BY <1>3 DEF ProtectedRoute, Credentials, SecondFactor, ledger
    <2>2. dlg'.kind \in {"none", "credentials", "totp"}
        BY <1>1, <1>3 DEF ProtectedRoute, Credentials, SecondFactor, OriginInv, DlgFields
    <2>3. FormKept
        BY <2>1, <2>2 DEF FormKept, TallyKept, AtForm
    <2>4. QED
        BY <2>3, KeepsForm
<1>4. CASE Logout \/ Leave
    <2>1. PICK S : S = calls
        OBVIOUS
    <2>2. S \in SUBSET calls /\ calls' = Orphaned(S) /\ area' = area /\ tally' = NoTally
        BY <1>4, <2>1 DEF Logout, Leave, Unmount
    <2>3. dlg'.kind \in {"none", "credentials"}
        BY <1>1, <1>4 DEF Logout, Leave
    <2>4. \A d \in calls' : ~d.here
        BY <2>2, OrphansAreGone
    <2>5. FormLeft
        BY <2>2, <2>3, <2>4 DEF FormLeft, FormCall
    <2>6. QED
        BY <2>5, LeavesForm
<1>5. CASE Unload \/ AuthCallback
    <2>1. calls' = {} /\ area' = area /\ tally' = tally /\ page' \in {"login", "away"}
        BY <1>5 DEF Unload, AuthCallback, NewDocument
    <2>2. dlg'.kind \in {"none", "credentials"}
        BY <1>1, <1>5 DEF Unload, AuthCallback
    <2>3. FormLeft
        BY <2>1, <2>2 DEF FormLeft
    <2>4. QED
        BY <2>3, LeavesForm
<1>6. QED
    BY <1>2, <1>3, <1>4, <1>5, DeniedForm DEF Session

\* The server's answers.  It accepts a request only while the token is good, and
\* then the form that sent it is on screen.
LEMMA AnswersForm ==
    ASSUME OriginInv, FormInv, NEW c \in calls, Apply(c) \/ Refuse(c) PROVE FormInv'
<1>1. auth /\ UNCHANGED <<area, page, auth, dlg, busy, tally>>
    BY DEF Apply, Refuse, nav, server, pane, ledger
<1>2. PICK d, i, st, got : /\ d = [c EXCEPT !.st = st, !.id = i, !.val = got]
                           /\ calls' = (calls \ {c}) \cup {d}
    <2>1. CASE Apply(c)
        BY <2>1 DEF Apply
    <2>2. CASE Refuse(c)
        <3>1. DOMAIN c = CallFields
            BY DEF OriginInv
        <3>2. [c EXCEPT !.st = "refused"] = [c EXCEPT !.st = "refused", !.id = c.id, !.val = c.val]
            BY <3>1 DEF CallFields
        <3>3. QED
            BY <2>2, <3>2 DEF Refuse, Answer
    <2>3. QED
        BY <2>1, <2>2
<1>3. DOMAIN c = CallFields
    BY DEF OriginInv
<1>4. d.by = c.by /\ d.op = c.op /\ d.here = c.here
    BY <1>2, <1>3 DEF CallFields
<1>5. (FormCall(d) <=> FormCall(c)) /\ \A e : FormCall(e)' <=> FormCall(e)
    BY <1>4 DEF FormCall
<1>6. ASSUME area \in FormAreas PROVE SaveInv'
    <2>1. SaveInv /\ (AtForm' <=> AtForm)
        BY <1>1, <1>6 DEF FormInv, AtForm
    <2>2. FormCall(c) => page = "form"
        BY <1>1, <2>1 DEF SaveInv, AtForm, FormCall, FormKinds, Modes
    <2>3. ASSUME NEW e \in calls', FormCall(e)
          PROVE  /\ Flag(e.by) \in busy'
                 /\ \A f \in calls' : FormCall(f) => f = e
                 /\ e.op \in MadeBy /\ (e.st = "done" \/ page' = "form") => Even'
        <3>1. CASE e = d
            <4>1. /\ Flag(c.by) \in busy /\ \A f \in calls : FormCall(f) => f = c
                  /\ c.op \in MadeBy => Even
                BY <1>5, <2>1, <2>2, <2>3, <3>1 DEF SaveInv
            <4>2. QED
                BY <1>1, <1>2, <1>4, <3>1, <4>1 DEF Even
        <3>2. CASE e # d
            <4>1. e \in calls \ {c}
                BY <1>2, <2>3, <3>2
            <4>2. ~FormCall(c)
                BY <2>1, <2>3, <4>1 DEF SaveInv
            <4>3. QED
                BY <1>1, <1>2, <1>5, <2>1, <2>3, <4>1, <4>2 DEF SaveInv, Even
        <3>3. QED
            BY <3>1, <3>2
    <2>4. page' = "form" /\ (\A e \in calls' : ~FormCall(e)) => Even'
        BY <1>1, <1>2, <1>5, <2>1 DEF SaveInv, Even
    <2>5. (\A e \in calls : e.by \in Modes /\ e.here => AtForm)'
        BY <1>2, <1>4, <2>1 DEF SaveInv
    <2>6. QED
        BY <1>1, <1>5, <2>1, <2>3, <2>4, <2>5 DEF SaveInv
<1>7. QED
    BY <1>1, <1>6 DEF FormInv, TallyType, Even

\* An answer that is rendered sends no request of the form.
LEMMA DeliverForm ==
    ASSUME FormInv, NEW k \in Keys, Serve(k) \/ Deliver(k) \/ FetchFails(k) PROVE FormInv'
<1>1. UNCHANGED <<area, page, auth, calls, busy, tally>>
    BY DEF Serve, Deliver, Answered, FetchFails, nav, server, pane, ledger
<1>2. area \in FormAreas => dlg' = dlg \/ dlg'.kind = "notes"
    <2>1. CASE Serve(k) \/ FetchFails(k)
        BY <2>1 DEF Serve, FetchFails, pane
    <2>2. CASE Deliver(k)
        <3>1. dlg' \in DialogsAfter(k)
            BY <2>2 DEF Deliver, Answered
        <3>2. area = "endpoint" => DialogsAfter(k) \subseteq {dlg, NotesEffect(dlg, fetch[k].rows)}
            BY DEF DialogsAfter
        <3>3. area \in {"newEndpoint", "clone", "inbox"} => DialogsAfter(k) = {dlg}
            BY DEF DialogsAfter
        <3>4. NotesEffect(dlg, fetch[k].rows) = dlg \/ NotesEffect(dlg, fetch[k].rows).kind = "notes"
            BY DEF NotesEffect, Form
        <3>5. QED
            BY <3>1, <3>2, <3>3, <3>4 DEF FormAreas
    <2>3. QED
        BY <2>1, <2>2
<1>3. CASE area \in FormAreas
    BY <1>1, <1>2, <1>3, KeepsForm DEF FormKept, TallyKept, AtForm, FormKinds
<1>4. CASE area \notin FormAreas
    BY <1>1, <1>4, KeepsTally DEF FormInv, TallyKept
<1>5. QED
    BY <1>3, <1>4

\* Every step keeps the save chain in order.
LEMMA FormStepInv == OriginInv /\ SecretInv /\ FormInv /\ [Next]_vars => FormInv'
<1> SUFFICES ASSUME OriginInv, SecretInv, FormInv, [Next]_vars PROVE FormInv'
    OBVIOUS
<1>1. CASE UNCHANGED vars
    BY <1>1, KeepsForm DEF vars, FormKept, TallyKept, AtForm, nav, server, pane, ledger
<1>2. CASE Pages
    BY <1>2, TallyElsewhere, InboxForm, EndpointForm, FormForm, SessionForm DEF Pages
<1>3. QED
    BY <1>1, <1>2, SessionForm, AnswersForm, DeliverForm DEF Next, Respond

\* A tab starts with no form.
LEMMA FormInit == Init => FormInv
<1> SUFFICES ASSUME Init PROVE FormInv
    OBVIOUS
<1>1. tally = NoTally /\ calls = {} /\ page = "away" /\ dlg = NoDlg
    BY DEF Init
<1>2. TallyType /\ Even /\ tally.made <= 1 + tally.errs
    BY <1>1 DEF TallyType, Even, NoTally
<1>3. QED
    BY <1>1, <1>2 DEF FormInv, SaveInv, NoDlg, Form, FormKinds

\* EndpointFormPage makes a second record only after it reported a failure: the
\* loading flag, set before the first request and cleared only with an error,
\* covers the whole chain of requests, whatever loads, turns or expires meanwhile.
THEOREM CleanSavesMakeOneRecord == Spec => []OneRecordPerCleanSave
<1>1. FormInv => OneRecordPerCleanSave
    BY DEF FormInv, OneRecordPerCleanSave
<1>2. QED
    BY <1>1, OriginInit, OriginStep, SecretInit, SecretStep, FormInit, FormStepInv, PTL DEF Spec

(***************************************************************************)
(* Values stay with their row                                              *)
(***************************************************************************)
\* What a form about row i may hold in an area: a configuration that names a row
\* names that one.  Only a clone starts from another row's configuration, and
\* the clone form writes to no existing row.
ValFor(a, i) == {v \in Val : a # "clone" /\ v.cfg \in Ids => v.cfg = i}
RowFor(a, i) == {r \in Row : a # "clone" /\ r.cfg \in Ids => r.cfg = i}

\* Rows of the table, each with its own configuration.
RowsFor(a, f) == DOMAIN f \subseteq Ids /\ \A i \in DOMAIN f : f[i] \in RowFor(a, i)

\* The dialogs about a listed row, those about the one record of their page and
\* those for a new row; with the ones for either, the dialogs that hold values.
RowKinds   == {"deleteEndpoint", "deleteCert", "deleteFinding", "edit", "promote", "group",
               "template", "netEdit", "deleteNet", "password", "reset2fa", "deleteUser",
               "scannerEdit", "rotate", "revoke", "revokeKey", "adminRevoke", "deleteTag", "job"}
FirstKinds == {"notes", "mail", "general", "notify"}
NewKinds   == {"new", "newGroup", "netNew", "scannerNew", "key", "import", "ingest"}
OwnKinds   == RowKinds \cup FirstKinds \cup NewKinds \cup {"user", "tag", "category"}

\* A dialog holds values of the row it is about.
DlgFits(a, d) ==
    /\ d.id \in Ids \cup {0} /\ d.val \in Val /\ d.base \in Val /\ d.typed \subseteq Fields
    /\ d.kind \in OwnKinds => d.val \in ValFor(a, d.id) /\ d.base \in ValFor(a, d.id)
    /\ d.kind \in RowKinds => d.id \in Ids
    /\ d.kind \in FirstKinds => d.id = 1
    /\ d.kind \in NewKinds => d.id = 0 \/ a = "clone"

\* A component may ask for an operation on a row with a value of that row; the
\* one that creates a row carries the configuration of no other.
Asks(a, by, op, i, v) ==
    /\ op \in Ops /\ i \in Ids \cup {0} /\ v \in ValFor(a, i)
    /\ op # "create" => i \in Ids
    /\ op = "create" /\ a # "clone" => v.cfg \notin Ids
    /\ op \in {"put", "all", "cfg"} => a # "clone"
    /\ op = "read" => by # "new"
    /\ by \in {"toggle", "notes", "general", "thresholds"} => i = 1 /\ op # "create"

\* Requests whose handler does not ask which row they created.
Unnamed == {"netNew", "user", "tag", "category", "newGroup"}

\* So does every request, and the one that has created a row names it, unless no
\* answer came and its handler does not ask for one.
CallFits(a, c) ==
    /\ c.n \in 0..MaxSent /\ c.st \in {"sent", "done", "refused", "cut"}
    /\ Asks(a, c.by, c.op, c.id, c.val)
    /\ c.st = "done" => c.id \in Ids \/ c.by \in Unnamed

\* The rows of the server and of the tab.
TableInv ==
    /\ srv \in [Ids -> Row] /\ RowsFor(area, srv)
    /\ RowsFor(area, held) /\ RowsFor(area, sel)
    /\ \A k \in Keys : RowsFor(area, cache[k].rows) /\ RowsFor(area, fetch[k].rows)

\* What has become of the secrets.
RevealInv == reveal.on \in 0..MaxSent /\ \A n \in 1..MaxSent : reveal.fate[n] \in Fates

\* The counters.
CountInv ==
    /\ area \in Areas /\ auth \in BOOLEAN
    /\ DOMAIN used = {"sent", "events"}
    /\ used.sent \in 0..MaxSent /\ used.events \in 0..MaxEvents[area]

\* The bulk dialog knows the rows its requests are about.
ResultsInv ==
    /\ bulk.ids \subseteq Ids /\ bulk.failed \subseteq bulk.ids
    /\ \A c \in calls : c.by \in BulkKinds /\ c.here => c.id \in bulk.ids /\ c.op # "create"

\* The inductive invariant of the values.
ValuesInv ==
    /\ TableInv /\ CountInv /\ RevealInv /\ ResultsInv
    /\ \A c \in calls : CallFits(area, c)
    /\ DlgFits(area, dlg)

-----------------------------------------------------------------------------
\* Values.  What no row owns fits every row.
LEMMA NoneOwned ==
    ASSUME NEW a, NEW i, NEW v \in Val, v.cfg \notin Ids PROVE v \in ValFor(a, i)
BY DEF ValFor

\* The ids of the rows are none of the other values.
LEMMA IdsApart == Empty \notin Ids /\ Mine \notin Ids /\ Theirs \notin Ids /\ 1 \in Ids
BY WebBounds DEF Empty, Mine, Theirs

\* An empty form fits every row.
LEMMA BlankFits == ASSUME NEW a, NEW i PROVE Blank \in ValFor(a, i)
<1>1. Blank \in Val
    BY DEF Blank, Val, Vals
<1>2. Blank.cfg = Empty
    BY DEF Blank
<1>3. QED
    BY <1>1, <1>2, NoneOwned, IdsApart

\* What a form takes from a row fits that row.
LEMMA RowFits ==
    ASSUME NEW a, NEW i, NEW r \in RowFor(a, i) PROVE ValOf(r) \in ValFor(a, i)
BY DEF RowFor, ValFor, ValOf, Row, Val

\* Flipping a switch keeps a value with its row.
LEMMA FlipFits ==
    ASSUME NEW a, NEW i, NEW v \in ValFor(a, i), NEW b \in BOOLEAN
    PROVE  [v EXCEPT !.on = b] \in ValFor(a, i)
BY DEF ValFor, Val

\* Choosing other tags keeps a value with its row.
LEMMA TagsFit ==
    ASSUME NEW a, NEW i, NEW v \in ValFor(a, i), NEW t \in SUBSET Tags
    PROVE  [v EXCEPT !.tags = t] \in ValFor(a, i)
BY DEF ValFor, Val

\* Typing a configuration that is no other row's keeps a value with its row.
LEMMA CfgFits ==
    ASSUME NEW a, NEW i, NEW v \in ValFor(a, i), NEW x \in Vals, x \in Ids => x = i
    PROVE  [v EXCEPT !.cfg = x] \in ValFor(a, i)
BY DEF ValFor, Val

\* A form that starts from a value of its row fits.
LEMMA FormFits ==
    ASSUME NEW a, NEW kind, NEW i \in Ids \cup {0}, NEW v \in ValFor(a, i),
           kind \in RowKinds => i \in Ids, kind \in FirstKinds => i = 1,
           kind \in NewKinds => i = 0 \/ a = "clone"
    PROVE  DlgFits(a, Form(kind, i, v))
BY DEF DlgFits, Form, ValFor

\* No form, and the forms of the login page, fit.
LEMMA NoFormFits ==
    ASSUME NEW a PROVE DlgFits(a, NoDlg) /\ DlgFits(a, [NoDlg EXCEPT !.kind = "credentials"])
<1>1. Blank \in Val
    BY BlankFits DEF ValFor
<1>2. QED
    BY <1>1 DEF NoDlg, Form, DlgFits, OwnKinds, RowKinds, FirstKinds, NewKinds

-----------------------------------------------------------------------------
\* Requests.  A request that is sent with a value of its row fits.
LEMMA NewCallFits ==
    ASSUME CountInv, used.sent < MaxSent, NEW by, NEW op, NEW i, NEW v, NEW rest,
           Asks(area, by, op, i, v)
    PROVE  CallFits(area, Call(by, op, i, v, rest))
<1>1. used.sent + 1 \in 0..MaxSent
    BY WebBounds DEF CountInv
<1>2. QED
    BY <1>1 DEF CallFits, Call

\* A read of a row fits.
LEMMA ReadFits ==
    ASSUME NEW by, NEW i \in Ids, by # "new", by \in {"toggle", "notes", "general", "thresholds"} => i = 1
    PROVE  CallFits(area, Read(by, i))
<1>1. Asks(area, by, "read", i, Blank)
    BY BlankFits DEF Asks, Ops
<1>2. 0 \in 0..MaxSent
    BY WebBounds
<1>3. QED
    BY <1>1, <1>2 DEF CallFits, Read, Call

\* A request that is marked, or handed on, stays about its row.
LEMMA MarkFits ==
    ASSUME NEW a, NEW c, CallFits(a, c), NEW d, d.n = c.n, d.op = c.op, d.id = c.id, d.val = c.val,
           d.st = c.st, d.by = c.by \/ (c.by \notin Unnamed /\ d.by \in {"left", "dropped"})
    PROVE  CallFits(a, d)
BY DEF CallFits, Asks, Unnamed

\* Requests of a page that is gone stay about their rows.
LEMMA OrphansFit ==
    ASSUME OriginInv, ValuesInv, NEW S \in SUBSET calls, NEW d \in Orphaned(S)
    PROVE  CallFits(area, d)
<1>1. PICK c \in calls : d = [c EXCEPT !.here = FALSE]
    BY DEF Orphaned
<1>2. DOMAIN c = CallFields /\ CallFits(area, c)
    BY DEF OriginInv, ValuesInv
<1>3. d.n = c.n /\ d.op = c.op /\ d.id = c.id /\ d.val = c.val /\ d.st = c.st /\ d.by = c.by
    BY <1>1, <1>2 DEF CallFields
<1>4. QED
    BY <1>2, <1>3, MarkFits

-----------------------------------------------------------------------------
\* Steps of the pages.  The operations and events are counted.
Counts ==
    \/ UNCHANGED used
    \/ Event
    \/ /\ used.sent < MaxSent /\ used.events < MaxEvents[area]
       /\ used' = [sent |-> used.sent + 1, events |-> used.events + 1]

\* What a step of a page may do to the values: new requests and the dialog are
\* about their rows, and rows come from what the tab has.
ValuesStep ==
    /\ UNCHANGED <<area, srv>> /\ auth' \in {auth, TRUE, FALSE} /\ Counts
    /\ \A d \in calls' : d \in calls \/ CallFits(area, d)
    /\ DlgFits(area, dlg')
    /\ held' \in {held, NoRows, Shown}
    /\ sel' \in {sel, NoRows} \/ RowsFor(area, sel')

\* No rows are rows, and so are the ones on display.
LEMMA ShownFits ==
    ASSUME QueryInv, ValuesInv PROVE RowsFor(area, NoRows) /\ RowsFor(area, Shown)
<1>1. view \in Keys
    BY DEF QueryInv, QueryType
<1>2. QED
    BY <1>1 DEF RowsFor, NoRows, Shown, ValuesInv, TableInv

\* Sending one request.
LEMMA SendValues ==
    ASSUME ValuesInv, NEW by, NEW op, NEW i, NEW v, NEW rest, Asks(area, by, op, i, v),
           Send({Call(by, op, i, v, rest)})
    PROVE  Counts /\ \A d \in calls' : d \in calls \/ CallFits(area, d)
<1>1. CallFits(area, Call(by, op, i, v, rest))
    BY NewCallFits DEF ValuesInv, Send
<1>2. QED
    BY <1>1 DEF Send, Counts

\* A dialog, or a row's menu, sends one request.
LEMMA SubmitValues ==
    ASSUME ValuesInv, NEW kind, NEW by, NEW op, NEW i, NEW v, NEW rest, Asks(area, by, op, i, v),
           Submit(kind, {Call(by, op, i, v, rest)}) \/ Press(kind, {Call(by, op, i, v, rest)})
    PROVE  ValuesStep
<1>1. Send({Call(by, op, i, v, rest)})
    BY DEF Submit, Press
<1>2. Counts /\ \A d \in calls' : d \in calls \/ CallFits(area, d)
    BY <1>1, SendValues
<1>3. UNCHANGED <<area, auth, srv, dlg, held, sel>>
    BY DEF Submit, Press, nav, server
<1>4. QED
    BY <1>2, <1>3 DEF ValuesStep, ValuesInv

\* A dialog opens.
LEMMA OpenValues ==
    ASSUME OriginInv, ValuesInv, NEW kind, NEW i, NEW v, DlgFits(area, Form(kind, i, v)),
           Open(kind, i, v) \/ OpenReset(kind, i, v) \/ OpenAfresh(kind, i, v)
    PROVE  ValuesStep
<1>1. UNCHANGED <<area, auth, srv, held, sel, used>> /\ dlg' = Form(kind, i, v)
    BY DEF Open, OpenReset, OpenAfresh, nav, server
<1>2. CASE Open(kind, i, v) \/ OpenReset(kind, i, v)
    BY <1>1, <1>2 DEF ValuesStep, Counts, Open, OpenReset
<1>3. CASE OpenAfresh(kind, i, v)
    <2>1. ASSUME NEW d \in calls' PROVE d \in calls \/ CallFits(area, d)
        <3>1. PICK c \in calls : d = IF c.by = kind THEN [c EXCEPT !.own = FALSE] ELSE c
            BY <1>3, <2>1 DEF OpenAfresh
        <3>2. CASE d = [c EXCEPT !.own = FALSE]
            <4>1. DOMAIN c = CallFields /\ CallFits(area, c)
                BY DEF OriginInv, ValuesInv
            <4>2. d.n = c.n /\ d.op = c.op /\ d.id = c.id /\ d.val = c.val /\ d.st = c.st /\ d.by = c.by
                BY <3>2, <4>1 DEF CallFields
            <4>3. QED
                BY <4>1, <4>2, MarkFits
        <3>3. QED
            BY <3>1, <3>2
    <2>2. QED
        BY <1>1, <2>1 DEF ValuesStep, Counts
<1>4. QED
    BY <1>2, <1>3

\* A dialog closes.
LEMMA CloseValues == ASSUME ValuesInv, NEW kind, Close(kind) PROVE ValuesStep
BY NoFormFits DEF Close, ValuesStep, Counts, nav, server

\* The user types in a dialog.
LEMMA TypeValues ==
    ASSUME OriginInv, ValuesInv, NEW kind, NEW f \in Fields, Type(kind, f)
    PROVE  ValuesStep
<1>1. DOMAIN dlg = DlgFields /\ DlgFits(area, dlg)
    BY DEF OriginInv, ValuesInv
<1>2. PICK v : /\ v \in {[dlg.val EXCEPT !.on = ~@], [dlg.val EXCEPT !.cfg = Mine],
                         [dlg.val EXCEPT !.tags = @ \cup {"mine"}], [dlg.val EXCEPT !.tags = @ \ {"own"}]}
               /\ dlg' = [dlg EXCEPT !.val = v, !.typed = @ \cup {f}]
    BY DEF Type
<1>3. ASSUME NEW a, dlg.val \in ValFor(a, dlg.id) PROVE v \in ValFor(a, dlg.id)
    <2>1. dlg.val \in Val
        BY <1>3 DEF ValFor
    <2>2. PICK b, t, u : b = (~dlg.val.on) /\ t = dlg.val.tags \cup {"mine"} /\ u = dlg.val.tags \ {"own"}
        OBVIOUS
    <2>3. b \in BOOLEAN
        BY <2>2, Zenon
    <2>4. t \in SUBSET Tags /\ u \in SUBSET Tags
        BY <2>1, <2>2 DEF Val, Tags
    <2>5. v \in {[dlg.val EXCEPT !.on = b], [dlg.val EXCEPT !.cfg = Mine],
                 [dlg.val EXCEPT !.tags = t], [dlg.val EXCEPT !.tags = u]}
        BY <1>2, <2>2
    <2>6. Mine \in Vals
        BY DEF Vals
    <2>7. QED
        BY <1>3, <2>3, <2>4, <2>5, <2>6, FlipFits, TagsFit, CfgFits, IdsApart
<1>4. v \in Val
    BY <1>1, <1>3 DEF DlgFits, ValFor
<1>5. /\ dlg'.val = v /\ dlg'.typed = dlg.typed \cup {f}
      /\ dlg'.id = dlg.id /\ dlg'.base = dlg.base /\ dlg'.kind = dlg.kind
    BY <1>1, <1>2 DEF DlgFields
<1>6. DlgFits(area, dlg')
    BY <1>1, <1>3, <1>4, <1>5 DEF DlgFits
<1>7. QED
    BY <1>1, <1>6, TypeShape DEF ValuesStep, Counts

\* An answer is taken: an error is shown, or the dialog closes and the list is
\* fetched again.
LEMMA SettleValues ==
    ASSUME ValuesInv, NEW c,
           \/ Fail(c) \/ RefetchAfter(c) \/ FinishAndRefetch(c)
           \/ FinishAndInvalidate(c) \/ FinishOnly(c)
    PROVE  ValuesStep
<1>1. calls' = calls \ {c} /\ dlg' \in {dlg, NoDlg}
    BY DEF Fail, RefetchAfter, FinishAndRefetch, FinishAndInvalidate, FinishOnly, Finish
<1>2. UNCHANGED <<area, auth, srv, held, sel, used>>
    BY DEF Fail, RefetchAfter, FinishAndRefetch, FinishAndInvalidate, FinishOnly, nav, server
<1>3. QED
    BY <1>1, <1>2, NoFormFits DEF ValuesStep, Counts, ValuesInv

\* A page mounts.
LEMMA MountValues == ASSUME ValuesInv, NEW p, NEW k, Mount(p, k) PROVE ValuesStep
BY DEF Mount, ValuesStep, ValuesInv, Counts, server, pane

\* Another page of a list comes into view.
LEMMA TurnValues ==
    ASSUME ValuesInv, NEW k, NEW s, s = sel \/ RowsFor(area, s), Turn(k, s) PROVE ValuesStep
BY DEF Turn, ValuesStep, ValuesInv, Counts, server

-----------------------------------------------------------------------------
\* The lists one selects in.  Ticking rows selects rows that are shown.
LEMMA PickedFits ==
    ASSUME QueryInv, ValuesInv, NEW S, S \subseteq DOMAIN Shown PROVE RowsFor(area, Picked(S))
BY ShownFits DEF Picked, Merged, Restricted, RowsFor, ValuesInv, TableInv

\* Refreshing the selection keeps rows rows.
LEMMA RefreshedFits ==
    ASSUME NEW s, NEW rows, RowsFor(area, s), RowsFor(area, rows)
    PROVE  RowsFor(area, Refreshed(s, rows))
BY DEF Refreshed, RowsFor

\* Turning a page of a list one selects in.
LEMMA ListTurnValues ==
    ASSUME ValuesInv, NEW k \in Keys, Turn(k, Refreshed(sel, cache[k].rows)) PROVE ValuesStep
<1>1. PICK s : s = Refreshed(sel, cache[k].rows)
    OBVIOUS
<1>2. RowsFor(area, s)
    BY <1>1, RefreshedFits DEF ValuesInv, TableInv
<1>3. Turn(k, s)
    BY <1>1
<1>4. QED
    BY <1>2, <1>3, TurnValues

\* Ticking rows of the list.
LEMMA SelectValues ==
    ASSUME QueryInv, ValuesInv, NEW S, S \subseteq DOMAIN Shown, Select(S) PROVE ValuesStep
BY PickedFits DEF Select, ValuesStep, ValuesInv, Counts, nav, server

\* The bulk dialogs open and close without touching a row.
LEMMA BulkFormValues ==
    ASSUME ValuesInv, NEW kind \in BulkKinds, BulkOpen(kind) \/ BulkClose(kind) PROVE ValuesStep
<1>1. dlg' = NoDlg \/ dlg' = [NoDlg EXCEPT !.kind = kind]
    BY DEF BulkOpen, BulkClose
<1>2. DlgFits(area, [NoDlg EXCEPT !.kind = kind])
    <2>1. [NoDlg EXCEPT !.kind = kind] = Form(kind, 0, Blank)
        BY DEF NoDlg, Form
    <2>2. kind \notin RowKinds \cup FirstKinds \cup NewKinds
        BY DEF BulkKinds, DeleteKinds, RowKinds, FirstKinds, NewKinds
    <2>3. QED
        BY <2>1, <2>2, FormFits, BlankFits
<1>3. UNCHANGED <<area, auth, srv, held, calls, used>> /\ sel' \in {sel, NoRows}
    BY DEF BulkOpen, BulkClose, nav, server
<1>4. QED
    BY <1>1, <1>2, <1>3, NoFormFits DEF ValuesStep, Counts

\* They send one request per selected row.
LEMMA BulkRunValues ==
    ASSUME ValuesInv, NEW kind \in BulkKinds, NEW op \in {"delete", "purge", "tags"}, NEW val,
           \A i \in DOMAIN sel : val[i] \in ValFor(area, i), BulkRun(kind, op, val)
    PROVE  ValuesStep
<1>1. PICK cs : cs = {Call(kind, op, i, val[i], <<>>) : i \in DOMAIN sel} /\ Send(cs)
    BY DEF BulkRun
<1>2. ASSUME NEW d \in cs PROVE CallFits(area, d)
    <2>1. PICK i \in DOMAIN sel : d = Call(kind, op, i, val[i], <<>>)
        BY <1>1, <1>2
    <2>2. i \in Ids
        BY DEF ValuesInv, TableInv, RowsFor
    <2>3. PICK v : v = val[i]
        OBVIOUS
    <2>4. Asks(area, kind, op, i, v)
        BY <2>2, <2>3 DEF Asks, Ops, BulkKinds, DeleteKinds
    <2>5. CallFits(area, Call(kind, op, i, v, <<>>))
        BY <1>1, <2>4, NewCallFits DEF ValuesInv, Send
    <2>6. QED
        BY <2>1, <2>3, <2>5
<1>3. Counts /\ calls' = calls \cup cs
    BY <1>1 DEF Send, Counts
<1>4. UNCHANGED <<area, auth, srv, held, sel, dlg>>
    BY DEF BulkRun, nav, server
<1>5. QED
    BY <1>2, <1>3, <1>4 DEF ValuesStep, ValuesInv

\* A request is settled without its values being used.
LEMMA DropValues ==
    ASSUME ValuesInv, calls' \subseteq calls, UNCHANGED <<area, auth, srv, held, sel, used>>,
           dlg' \in {dlg, NoDlg}
    PROVE  ValuesStep
BY NoFormFits DEF ValuesStep, ValuesInv, Counts

\* A listed row's dialog.
LEMMA RowFormFits ==
    ASSUME NEW kind, NEW i \in Ids, kind \notin FirstKinds \cup NewKinds
    PROVE  DlgFits(area, Form(kind, i, Blank))
BY FormFits, BlankFits

\* The steps of the endpoint list keep values with their rows.
LEMMA EndpointsValues ==
    ASSUME OriginInv, QueryInv, ValuesInv, EndpointsNext PROVE ValuesStep
<1>1. CASE EndpointPage
    BY <1>1, MountValues DEF EndpointPage
<1>2. CASE EndpointPager \/ EndpointFilter
    BY <1>2, ListTurnValues DEF EndpointPager, EndpointFilter, RefreshSelected, Keys
<1>3. CASE TypeSwitch \/ ClearSelection
    BY <1>3 DEF TypeSwitch, ClearSelection, ValuesStep, ValuesInv, Counts, nav, server
<1>4. ASSUME ToggleAll \/ \E i \in Ids : ToggleOne(i) PROVE ValuesStep
    <2>1. PICK S : S \subseteq DOMAIN EndpointRows /\ EndpointRows = Shown /\ Select(S)
        BY <1>4 DEF ToggleAll, ToggleOne, EndpointRow, EndpointRows, Clear
    <2>2. QED
        BY <2>1, SelectValues
<1>5. ASSUME NEW i \in Ids, DeleteEndpointOpen(i) PROVE ValuesStep
    BY <1>5, OpenValues, RowFormFits DEF DeleteEndpointOpen, FirstKinds, NewKinds
<1>6. CASE DeleteEndpoint
    <2>1. dlg.kind = "deleteEndpoint"
        BY <1>6 DEF DeleteEndpoint, Submit
    <2>2. dlg.id \in Ids
        BY <2>1 DEF ValuesInv, DlgFits, RowKinds
    <2>3. Asks(area, "deleteEndpoint", "delete", dlg.id, Blank)
        BY <2>2, BlankFits DEF Asks, Ops
    <2>4. QED
        BY <1>6, <2>3, SubmitValues DEF DeleteEndpoint
<1>7. CASE Close("deleteEndpoint")
    BY <1>7, CloseValues
<1>8. CASE BulkDeleteOpen \/ BulkTagOpen \/ EndpointBulkDone
    BY <1>8, BulkFormValues DEF BulkDeleteOpen, BulkTagOpen, EndpointBulkDone, BulkKinds, DeleteKinds
<1>9. CASE BulkDeleteConfirm
    <2>1. \A i \in DOMAIN sel : AllBlank[i] \in ValFor(area, i)
        BY BlankFits DEF AllBlank
    <2>2. QED
        BY <1>9, <2>1, BulkRunValues DEF BulkDeleteConfirm, BulkKinds, DeleteKinds
<1>10. CASE BulkTagPick
    <2>1. PICK tag \in {"mine", "theirs"} : dlg' = [dlg EXCEPT !.val.tags = {tag}, !.typed = {"tags"}]
        BY <1>10 DEF BulkTagPick
    <2>2. PICK v : v = [dlg.val EXCEPT !.tags = {tag}]
        OBVIOUS
    <2>3. DOMAIN dlg = DlgFields /\ DlgFits(area, dlg) /\ dlg.kind = "bulkTag"
        BY <1>10 DEF OriginInv, ValuesInv, BulkTagPick
    <2>4. v \in Val
        BY <2>2, <2>3 DEF DlgFits, Val, Tags
    <2>5. dlg' = [dlg EXCEPT !.val = v, !.typed = {"tags"}]
        BY <2>1, <2>2, <2>3 DEF DlgFields
    <2>6. /\ dlg'.val = v /\ dlg'.typed = {"tags"} /\ dlg'.id = dlg.id
          /\ dlg'.base = dlg.base /\ dlg'.kind = dlg.kind
        BY <2>3, <2>5 DEF DlgFields
    <2>7. DlgFits(area, dlg')
        BY <2>3, <2>4, <2>6
           DEF DlgFits, Fields, OwnKinds, RowKinds, FirstKinds, NewKinds
    <2>8. QED
        BY <1>10, <2>7 DEF BulkTagPick, ValuesStep, Counts, nav, server
<1>11. CASE BulkTagConfirm
    <2>1. ASSUME NEW i \in DOMAIN sel PROVE UnionOfTags[i] \in ValFor(area, i)
        <3>1. PICK t : t = sel[i].tags \cup dlg.val.tags
            OBVIOUS
        <3>2. t \in SUBSET Tags
            BY <3>1 DEF ValuesInv, TableInv, RowsFor, RowFor, Row, DlgFits, Val
        <3>3. UnionOfTags[i] = [Blank EXCEPT !.tags = t]
            BY <3>1 DEF UnionOfTags
        <3>4. QED
            BY <3>2, <3>3, BlankFits, TagsFit
    <2>2. QED
        BY <1>11, <2>1, BulkRunValues DEF BulkTagConfirm, BulkKinds, DeleteKinds
<1>12. CASE ImportOpen
    <2>1. DlgFits(area, Form("import", 0, Blank))
        BY FormFits, BlankFits DEF RowKinds, FirstKinds
    <2>2. QED
        BY <1>12, <2>1, OpenValues DEF ImportOpen
<1>13. CASE ImportPreview \/ ImportBack \/ ImportClose
    BY <1>13, DropValues DEF ImportPreview, ImportBack, ImportClose, nav, server
<1>14. CASE ImportConfirm
    <2>1. PICK v : v = [Blank EXCEPT !.cfg = Mine]
        OBVIOUS
    <2>2. v \in ValFor(area, 0) /\ v.cfg = Mine
        BY <2>1, BlankFits, CfgFits, IdsApart DEF Vals, Blank
    <2>3. Asks(area, "import", "create", 0, v)
        BY <2>2, IdsApart DEF Asks, Ops
    <2>4. Send({Call("import", "create", 0, v, <<>>)}) /\ UNCHANGED <<area, auth, srv, held, sel, dlg>>
        BY <1>14, <2>1 DEF ImportConfirm, nav, server
    <2>5. QED
        BY <2>3, <2>4, SendValues DEF ValuesStep, ValuesInv
<1>15. ASSUME NEW c \in calls, DeleteEndpointSettles(c) PROVE ValuesStep
    BY <1>15, SettleValues DEF DeleteEndpointSettles
<1>16. ASSUME NEW c \in calls, BulkDeleteSettles(c) \/ BulkTagSettles(c) \/ ImportSettles(c)
       PROVE  ValuesStep
    BY <1>16, DropValues DEF BulkDeleteSettles, BulkTagSettles, ImportSettles, BulkSettle, nav, server
<1>17. QED
    BY <1>1, <1>2, <1>3, <1>4, <1>5, <1>6, <1>7, <1>8, <1>9, <1>10, <1>11, <1>12, <1>13, <1>14,
       <1>15, <1>16 DEF EndpointsNext

\* A dialog about a row asks for an operation that needs nothing but the row.
LEMMA RowAsks ==
    ASSUME ValuesInv, dlg.kind \in RowKinds, NEW by, by \notin {"toggle", "notes", "general", "thresholds"},
           NEW op \in {"delete", "purge", "touch", "rotate", "revert"}
    PROVE  dlg.id \in Ids /\ Asks(area, by, op, dlg.id, Blank)
<1>1. dlg.id \in Ids
    BY DEF ValuesInv, DlgFits
<1>2. QED
    BY <1>1, BlankFits DEF Asks, Ops

\* Another value in the open dialog.
LEMMA DlgValues ==
    ASSUME OriginInv, ValuesInv, NEW v, NEW t, v \in Val,
           dlg.kind \in OwnKinds => v \in ValFor(area, dlg.id), t \subseteq Fields,
           dlg' = [dlg EXCEPT !.val = v, !.typed = t]
    PROVE  DlgFits(area, dlg')
<1>1. DOMAIN dlg = DlgFields /\ DlgFits(area, dlg)
    BY DEF OriginInv, ValuesInv
<1>2. /\ dlg'.val = v /\ dlg'.typed = t /\ dlg'.id = dlg.id
      /\ dlg'.base = dlg.base /\ dlg'.kind = dlg.kind
    BY <1>1 DEF DlgFields
<1>3. QED
    BY <1>1, <1>2 DEF DlgFits

\* The steps of the certificate list keep values with their rows.
LEMMA CertsValues ==
    ASSUME OriginInv, QueryInv, ValuesInv, CertsNext PROVE ValuesStep
<1>1. CASE CertificatesPage
    BY <1>1, MountValues DEF CertificatesPage
<1>2. CASE CertPager \/ CertFilter
    BY <1>2, ListTurnValues DEF CertPager, CertFilter, RefreshSelectedCerts, Keys
<1>3. ASSUME ToggleAllCerts \/ \E i \in Ids : ToggleOneCert(i) PROVE ValuesStep
    <2>1. PICK S : S \subseteq DOMAIN CertRows /\ CertRows = Shown /\ Select(S)
        BY <1>3 DEF ToggleAllCerts, ToggleOneCert, CertRow, CertRows, Clear
    <2>2. QED
        BY <2>1, SelectValues
<1>4. ASSUME NEW i \in Ids, DeleteCertOpen(i) PROVE ValuesStep
    <2>1. PICK v : v = [Blank EXCEPT !.on = FALSE]
        OBVIOUS
    <2>2. v \in ValFor(area, i)
        BY <2>1, BlankFits, FlipFits
    <2>3. DlgFits(area, Form("deleteCert", i, v))
        BY <2>2, FormFits DEF FirstKinds, NewKinds
    <2>4. CallFits(area, Read("refs", i))
        BY ReadFits
    <2>5. QED
        BY <1>4, <2>1, <2>3, <2>4 DEF DeleteCertOpen, ValuesStep, Counts, nav, server
<1>5. ASSUME PurgeTick \/ BulkPurgeTick PROVE ValuesStep
    <2>1. PICK t : t \subseteq Fields /\ dlg' = [dlg EXCEPT !.typed = t]
        BY <1>5 DEF PurgeTick, BulkPurgeTick, Fields
    <2>2. DOMAIN dlg = DlgFields /\ DlgFits(area, dlg)
        BY DEF OriginInv, ValuesInv
    <2>3. dlg' = [dlg EXCEPT !.val = dlg.val, !.typed = t]
        BY <2>1, <2>2 DEF DlgFields
    <2>4. DlgFits(area, dlg')
        BY <2>1, <2>2, <2>3, DlgValues DEF DlgFits
    <2>5. UNCHANGED <<area, auth, srv, held, sel, used, calls>>
        BY <1>5 DEF PurgeTick, BulkPurgeTick, nav, server
    <2>6. QED
        BY <2>4, <2>5 DEF ValuesStep, Counts
<1>6. CASE DeleteCertificate
    <2>1. PICK op \in {"purge", "delete"} :
              Submit("deleteCert", {Call("deleteCert", op, dlg.id, Blank, <<>>)})
        BY <1>6 DEF DeleteCertificate
    <2>2. dlg.kind = "deleteCert"
        BY <2>1 DEF Submit
    <2>3. Asks(area, "deleteCert", op, dlg.id, Blank)
        BY <2>2, RowAsks DEF RowKinds
    <2>4. QED
        BY <2>1, <2>3, SubmitValues
<1>7. CASE Close("deleteCert") \/ Close("ingest")
    BY <1>7, CloseValues
<1>8. CASE BulkDeleteCertsOpen \/ CertBulkDone
    BY <1>8, BulkFormValues DEF BulkDeleteCertsOpen, CertBulkDone, BulkKinds, DeleteKinds
<1>9. CASE BulkDeleteCertsConfirm
    <2>1. \A i \in DOMAIN sel : AllBlank[i] \in ValFor(area, i)
        BY BlankFits DEF AllBlank
    <2>2. QED
        BY <1>9, <2>1, BulkRunValues DEF BulkDeleteCertsConfirm, BulkKinds, DeleteKinds
<1>10. CASE IngestOpen
    <2>1. DlgFits(area, Form("ingest", 0, Blank))
        BY FormFits, BlankFits DEF RowKinds, FirstKinds
    <2>2. QED
        BY <1>10, <2>1, OpenValues DEF IngestOpen
<1>11. CASE IngestType
    BY <1>11, TypeValues DEF IngestType, Fields
<1>12. CASE IngestSubmit
    <2>1. dlg.kind = "ingest" /\ area = "certs"
        BY <1>12 DEF IngestSubmit, Submit, OriginInv, AtHome
    <2>2. dlg.val \in ValFor(area, 0)
        BY <2>1 DEF ValuesInv, DlgFits, OwnKinds, NewKinds
    <2>3. PICK v : v = [dlg.val EXCEPT !.on = FALSE]
        OBVIOUS
    <2>4. v \in ValFor(area, 0)
        BY <2>2, <2>3, FlipFits
    <2>5. Asks(area, "ingest", "create", 0, v)
        BY <2>1, <2>4, IdsApart DEF Asks, Ops, ValFor, Empty
    <2>6. QED
        BY <1>12, <2>3, <2>5, SubmitValues DEF IngestSubmit
<1>13. ASSUME NEW c \in calls, CertReferences(c) PROVE ValuesStep
    <2>1. CASE dlg' = dlg
        BY <1>13, <2>1, DropValues DEF CertReferences, nav, server
    <2>2. CASE dlg' # dlg
        <3>1. dlg' = [dlg EXCEPT !.val.on = c.val.on] /\ dlg.kind = "deleteCert"
            BY <1>13, <2>2 DEF CertReferences
        <3>2. DOMAIN dlg = DlgFields /\ DlgFits(area, dlg) /\ c.val.on \in BOOLEAN
            BY DEF OriginInv, ValuesInv, CallFits, Asks, ValFor, Val
        <3>3. PICK v : v = [dlg.val EXCEPT !.on = c.val.on]
            OBVIOUS
        <3>4. v \in ValFor(area, dlg.id) /\ v \in Val
            BY <3>1, <3>2, <3>3, FlipFits DEF DlgFits, OwnKinds, RowKinds, ValFor
        <3>5. dlg' = [dlg EXCEPT !.val = v, !.typed = dlg.typed]
            BY <3>1, <3>2, <3>3 DEF DlgFields
        <3>6. DlgFits(area, dlg')
            BY <3>2, <3>4, <3>5, DlgValues DEF DlgFits
        <3>7. QED
            BY <1>13, <3>6 DEF CertReferences, ValuesStep, Counts, nav, server
    <2>3. QED
        BY <2>1, <2>2
<1>14. ASSUME NEW c \in calls, DeleteCertSettles(c) PROVE ValuesStep
    BY <1>14, SettleValues DEF DeleteCertSettles
<1>15. ASSUME NEW c \in calls, BulkDeleteCertsSettles(c) PROVE ValuesStep
    BY <1>15, DropValues DEF BulkDeleteCertsSettles, BulkSettle, nav, server
<1>16. ASSUME NEW c \in calls, IngestSettles(c) PROVE ValuesStep
    <2>1. CASE Fail(c)
        BY <2>1, SettleValues
    <2>2. CASE ~Fail(c) /\ SignedOut
        BY <1>16, <2>2 DEF IngestSettles, ValuesStep, ValuesInv, Counts, nav, server, pane
    <2>3. CASE ~Fail(c) /\ ~SignedOut
        <3>1. PICK S : S = calls \ {c}
            OBVIOUS
        <3>2. /\ calls' = Orphaned(S) /\ dlg' = NoDlg /\ held' = NoRows /\ sel' = NoRows
              /\ UNCHANGED <<area, auth, srv, used>>
            BY <1>16, <2>3, <3>1 DEF IngestSettles, server
        <3>3. \A d \in Orphaned(S) : CallFits(area, d)
            BY <3>1, OrphansFit
        <3>4. QED
            BY <3>2, <3>3, NoFormFits DEF ValuesStep, Counts
    <2>4. QED
        BY <2>1, <2>2, <2>3
<1>17. QED
    BY <1>1, <1>2, <1>3, <1>4, <1>5, <1>6, <1>7, <1>8, <1>9, <1>10, <1>11, <1>12, <1>13, <1>14,
       <1>15, <1>16 DEF CertsNext

\* The steps of the discovery inbox keep values with their rows.
LEMMA InboxValues ==
    ASSUME OriginInv, QueryInv, ValuesInv, InboxNext PROVE ValuesStep
<1>1. CASE DiscoveryInboxPage
    BY <1>1, MountValues DEF DiscoveryInboxPage
<1>2. CASE ShowDismissed
    BY <1>2, TurnValues DEF ShowDismissed
<1>3. ASSUME NEW i \in Ids, Dismiss(i) PROVE ValuesStep
    <2>1. PICK v : v = [Blank EXCEPT !.on = FALSE]
        OBVIOUS
    <2>2. v \in ValFor(area, i)
        BY <2>1, BlankFits, FlipFits
    <2>3. Asks(area, "dismiss", "on", i, v)
        BY <2>2 DEF Asks, Ops
    <2>4. Send({Call("dismiss", "on", i, v, <<>>)}) /\ UNCHANGED <<area, auth, srv, held, sel, dlg>>
        BY <1>3, <2>1 DEF Dismiss, nav, server
    <2>5. QED
        BY <2>3, <2>4, SendValues DEF ValuesStep, ValuesInv
<1>4. ASSUME NEW i \in Ids, InboxDeleteOpen(i) PROVE ValuesStep
    BY <1>4, OpenValues, RowFormFits DEF InboxDeleteOpen, FirstKinds, NewKinds
<1>5. ASSUME NEW i \in Ids, Promote(i) PROVE ValuesStep
    <2>1. DlgFits(area, Form("loading", i, Blank))
        BY RowFormFits DEF FirstKinds, NewKinds
    <2>2. CallFits(area, Read("promote", i))
        BY ReadFits
    <2>3. PICK S : S = calls /\ calls' = Orphaned(S) \cup {Read("promote", i)}
        BY <1>5 DEF Promote
    <2>4. \A d \in Orphaned(S) : CallFits(area, d)
        BY <2>3, OrphansFit
    <2>5. dlg' = Form("loading", i, Blank) /\ held' = NoRows /\ UNCHANGED <<area, auth, srv, used, sel>>
        BY <1>5 DEF Promote, server
    <2>6. QED
        BY <2>1, <2>2, <2>3, <2>4, <2>5 DEF ValuesStep, Counts
<1>6. CASE InboxDelete
    <2>1. dlg.kind = "deleteFinding"
        BY <1>6 DEF InboxDelete, Submit
    <2>2. Asks(area, "deleteFinding", "delete", dlg.id, Blank)
        BY <2>1, RowAsks DEF RowKinds
    <2>3. QED
        BY <1>6, <2>2, SubmitValues DEF InboxDelete
<1>7. CASE Close("deleteFinding")
    BY <1>7, CloseValues
<1>8. ASSUME NEW c \in calls, DismissSettles(c) PROVE ValuesStep
    BY <1>8, DropValues DEF DismissSettles, nav, server
<1>9. ASSUME NEW c \in calls, InboxDeleteSettles(c) PROVE ValuesStep
    BY <1>9, SettleValues DEF InboxDeleteSettles
<1>10. QED
    BY <1>1, <1>2, <1>3, <1>4, <1>5, <1>6, <1>7, <1>8, <1>9 DEF InboxNext

-----------------------------------------------------------------------------
\* The record pages.  Record 1 of some rows, or an empty form.
LEMMA ValInFits == ASSUME NEW a, NEW rows, RowsFor(a, rows) PROVE ValIn(rows) \in ValFor(a, 1)
<1>1. CASE 1 \in DOMAIN rows
    <2>1. PICK r : r = rows[1]
        OBVIOUS
    <2>2. r \in RowFor(a, 1)
        BY <1>1, <2>1 DEF RowsFor
    <2>3. QED
        BY <1>1, <2>1, <2>2, RowFits DEF ValIn
<1>2. CASE 1 \notin DOMAIN rows
    BY <1>2, BlankFits DEF ValIn
<1>3. QED
    BY <1>1, <1>2

\* The detail page shows a row.
LEMMA DetailFits ==
    ASSUME ValuesInv, HasDetail
    PROVE  area = "endpoint" /\ Detail \in RowFor(area, 1) /\ ValOf(Detail) \in ValFor(area, 1)
<1>1. area = "endpoint" /\ DetailRows = cache["detail"].rows
    BY DEF HasDetail, DetailRows, On, NoRows
<1>2. Detail \in RowFor(area, 1)
    BY <1>1 DEF HasDetail, Detail, ValuesInv, TableInv, RowsFor, Keys
<1>3. QED
    BY <1>1, <1>2, RowFits

\* The answer to a change of the record becomes the record.
LEMMA UpdatedFits ==
    ASSUME ValuesInv, NEW c \in calls, c.by \in {"toggle", "notes", "general", "thresholds"}
    PROVE  RowsFor(area, Updated(c))
<1>1. c.val \in ValFor(area, 1)
    BY DEF ValuesInv, CallFits, Asks
<1>2. PICK r : r = [live |-> TRUE, on |-> c.val.on, cfg |-> c.val.cfg, tags |-> c.val.tags]
    OBVIOUS
<1>3. r \in RowFor(area, 1)
    BY <1>1, <1>2 DEF ValFor, Val, RowFor, Row
<1>4. DOMAIN Updated(c) = {1} /\ Updated(c)[1] = r
    BY <1>2 DEF Updated
<1>5. QED
    BY <1>3, <1>4, IdsApart DEF RowsFor

\* The notes dialog starts over from rows of the record.
LEMMA NotesFit ==
    ASSUME ValuesInv, NEW rows, RowsFor(area, rows) PROVE DlgFits(area, NotesEffect(dlg, rows))
<1>1. CASE NotesEffect(dlg, rows) = dlg
    BY <1>1 DEF ValuesInv
<1>2. CASE NotesEffect(dlg, rows) # dlg
    <2>1. 1 \in DOMAIN rows /\ NotesEffect(dlg, rows) = Form("notes", 1, ValOf(rows[1]))
        BY <1>2 DEF NotesEffect
    <2>2. PICK v : v = ValOf(rows[1])
        OBVIOUS
    <2>3. v \in ValFor(area, 1)
        BY <2>1, <2>2, RowFits DEF RowsFor
    <2>4. QED
        BY <2>1, <2>2, <2>3, FormFits, IdsApart DEF NewKinds
<1>3. QED
    BY <1>1, <1>2

\* The steps of an endpoint's detail page, and of opening its form keep values with their rows.
LEMMA EndpointValues ==
    ASSUME OriginInv, QueryInv, ValuesInv, EndpointNext PROVE ValuesStep
<1>1. CASE EndpointDetailPage
    BY <1>1, MountValues DEF EndpointDetailPage
<1>2. CASE ToggleEnabled
    <2>1. PICK b : b = (~Detail.on)
        OBVIOUS
    <2>2. b \in BOOLEAN
        BY <2>1, Zenon
    <2>3. PICK v : v = [Blank EXCEPT !.on = b]
        OBVIOUS
    <2>4. v \in ValFor(area, 1)
        BY <2>2, <2>3, BlankFits, FlipFits
    <2>5. Asks(area, "toggle", "on", 1, v)
        BY <2>4, IdsApart DEF Asks, Ops
    <2>6. Press("toggle", {Call("toggle", "on", 1, v, <<>>)})
        BY <1>2, <2>1, <2>3 DEF ToggleEnabled
    <2>7. QED
        BY <2>5, <2>6, SubmitValues
<1>3. CASE NotesOpen
    <2>1. PICK v : v = ValOf(Detail)
        OBVIOUS
    <2>2. v \in ValFor(area, 1) /\ Open("notes", 1, v)
        BY <1>3, <2>1, DetailFits DEF NotesOpen
    <2>3. DlgFits(area, Form("notes", 1, v))
        BY <2>2, FormFits, IdsApart DEF NewKinds
    <2>4. QED
        BY <2>2, <2>3, OpenValues
<1>4. CASE NotesType
    BY <1>4, TypeValues DEF NotesType, Fields
<1>5. CASE NotesSave
    <2>1. dlg.kind = "notes" /\ area = "endpoint"
        BY <1>5 DEF NotesSave, Submit, OriginInv, AtHome
    <2>2. dlg.val \in ValFor(area, 1)
        BY <2>1 DEF ValuesInv, DlgFits, FirstKinds, OwnKinds
    <2>3. Asks(area, "notes", "cfg", 1, dlg.val)
        BY <2>1, <2>2, IdsApart DEF Asks, Ops
    <2>4. QED
        BY <1>5, <2>3, SubmitValues DEF NotesSave
<1>6. CASE NotesClose \/ Close("deleteDetail")
    BY <1>6, CloseValues DEF NotesClose
<1>7. CASE DetailDeleteOpen
    <2>1. DlgFits(area, Form("deleteDetail", 1, Blank))
        BY RowFormFits, IdsApart DEF FirstKinds, NewKinds
    <2>2. QED
        BY <1>7, <2>1, OpenValues DEF DetailDeleteOpen
<1>8. CASE DetailDelete
    <2>1. Asks(area, "deleteDetail", "delete", 1, Blank)
        BY BlankFits, IdsApart DEF Asks, Ops
    <2>2. QED
        BY <1>8, <2>1, SubmitValues DEF DetailDelete
<1>9. ASSUME NEW mode \in {"edit", "new", "clone"}, FormMount(mode) PROVE ValuesStep
    <2>1. DlgFits(area, dlg')
        <3>1. dlg' = IF mode = "new" THEN Form("new", 0, Blank) ELSE Form("loading", 1, Blank)
            BY <1>9 DEF FormMount
        <3>2. DlgFits(area, Form("new", 0, Blank))
            BY FormFits, BlankFits DEF RowKinds, FirstKinds
        <3>3. DlgFits(area, Form("loading", 1, Blank))
            BY RowFormFits, IdsApart DEF FirstKinds, NewKinds
        <3>4. QED
            BY <3>1, <3>2, <3>3
    <2>2. PICK S, T : /\ S = calls /\ calls' = Orphaned(S) \cup T
                      /\ T = IF mode = "new" THEN {} ELSE {Read(mode, 1), Read("loadTags", 1)}
        BY <1>9 DEF FormMount
    <2>3. \A d \in Orphaned(S) : CallFits(area, d)
        BY <2>2, OrphansFit
    <2>4. \A d \in T : CallFits(area, d)
        BY <1>9, <2>2, ReadFits, IdsApart
    <2>5. held' = NoRows /\ UNCHANGED <<area, auth, srv, used, sel>>
        BY <1>9 DEF FormMount, server
    <2>6. QED
        BY <2>1, <2>2, <2>3, <2>4, <2>5 DEF ValuesStep, Counts
<1>10. ASSUME NEW c \in calls, ToggleSettles(c) PROVE ValuesStep
    <2>1. PICK rows : rows = Updated(c)
        OBVIOUS
    <2>2. RowsFor(area, rows)
        BY <1>10, <2>1, UpdatedFits DEF ToggleSettles
    <2>3. dlg' = dlg \/ dlg' = NotesEffect(dlg, rows)
        BY <1>10, <2>1 DEF ToggleSettles
    <2>4. DlgFits(area, dlg')
        BY <2>2, <2>3, NotesFit DEF ValuesInv
    <2>5. QED
        BY <1>10, <2>4 DEF ToggleSettles, ValuesStep, Counts, nav, server
<1>11. ASSUME NEW c \in calls, NotesSettles(c) PROVE ValuesStep
    <2>1. CASE Fail(c)
        BY <2>1, SettleValues
    <2>2. CASE ~Fail(c)
        BY <1>11, <2>2, DropValues DEF NotesSettles, Finish, nav, server
    <2>3. QED
        BY <2>1, <2>2
<1>12. ASSUME NEW c \in calls, DetailDeleted(c) PROVE ValuesStep
    <2>1. CASE Fail(c)
        BY <2>1, SettleValues
    <2>2. CASE ~Fail(c)
        <3>1. PICK S : S = calls \ {c}
            OBVIOUS
        <3>2. /\ calls' = S \/ calls' = Orphaned(S)
              /\ dlg' \in {dlg, NoDlg} /\ held' \in {held, NoRows}
              /\ UNCHANGED <<area, auth, srv, used, sel>>
            BY <1>12, <2>2, <3>1 DEF DetailDeleted, server, nav
        <3>3. \A d \in Orphaned(S) : CallFits(area, d)
            BY <3>1, OrphansFit
        <3>4. QED
            BY <3>1, <3>2, <3>3, NoFormFits DEF ValuesStep, Counts, ValuesInv
    <2>3. QED
        BY <2>1, <2>2
<1>13. ASSUME NEW c \in calls, FormTagsLoaded(c) PROVE ValuesStep
    <2>1. CASE dlg' = dlg
        BY <1>13, <2>1, DropValues DEF FormTagsLoaded, nav, server
    <2>2. CASE dlg' # dlg
        <3>1. dlg' = [dlg EXCEPT !.val.tags = c.val.tags]
            BY <1>13, <2>2 DEF FormTagsLoaded
        <3>2. DOMAIN dlg = DlgFields /\ DlgFits(area, dlg) /\ c.val.tags \in SUBSET Tags
            BY DEF OriginInv, ValuesInv, CallFits, Asks, ValFor, Val
        <3>3. PICK v : v = [dlg.val EXCEPT !.tags = c.val.tags]
            OBVIOUS
        <3>4. v \in Val /\ (dlg.kind \in OwnKinds => v \in ValFor(area, dlg.id))
            BY <3>2, <3>3, TagsFit DEF DlgFits, Val
        <3>5. dlg' = [dlg EXCEPT !.val = v, !.typed = dlg.typed]
            BY <3>1, <3>2, <3>3 DEF DlgFields
        <3>6. DlgFits(area, dlg')
            BY <3>2, <3>4, <3>5, DlgValues DEF DlgFits
        <3>7. QED
            BY <1>13, <3>6 DEF FormTagsLoaded, ValuesStep, Counts, nav, server
    <2>3. QED
        BY <2>1, <2>2
<1>14. QED
    BY <1>1, <1>2, <1>3, <1>4, <1>5, <1>6, <1>7, <1>8, <1>9, <1>10, <1>11, <1>12, <1>13
       DEF EndpointNext

\* The steps of EndpointFormPage keep values with their rows.
LEMMA FormValues ==
    ASSUME OriginInv, QueryInv, SecretInv, ValuesInv, FormNext PROVE ValuesStep
<1>1. CASE FormEdit \/ FormTags
    BY <1>1, TypeValues DEF FormEdit, FormTags, Edit, Fields
<1>2. CASE FormSave
    <2>1. PICK kind \in DOMAIN FirstStep, link \in BOOLEAN :
              Submit(kind, {Call(kind, FirstStep[kind], dlg.id, dlg.val, Steps(kind, link))})
        BY <1>2 DEF FormSave
    <2>2. dlg.kind = kind /\ kind \in {"edit", "new", "promote"}
        BY <2>1 DEF Submit, FirstStep
    <2>3. DlgFits(area, dlg) /\ dlg.val \in ValFor(area, dlg.id)
        BY <2>2 DEF ValuesInv, DlgFits, OwnKinds, RowKinds, NewKinds
    <2>4. PICK op : op = FirstStep[kind]
        OBVIOUS
    <2>5. Asks(area, kind, op, dlg.id, dlg.val)
        <3>1. CASE kind = "edit"
            BY <2>2, <2>3, <2>4, <3>1 DEF Asks, Ops, FirstStep, DlgFits, RowKinds, OriginInv, AtHome
        <3>2. CASE kind = "new"
            <4>1. op = "create" /\ (dlg.id = 0 \/ area = "clone") /\ dlg.id \in Ids \cup {0}
                BY <2>2, <2>3, <2>4, <3>2 DEF FirstStep, DlgFits, NewKinds
            <4>2. area # "clone" => dlg.val.cfg \notin Ids
                BY <2>3, <4>1, IdsApart DEF ValFor, Empty
            <4>3. QED
                BY <2>3, <3>2, <4>1, <4>2 DEF Asks, Ops
        <3>3. CASE kind = "promote"
            BY <2>2, <2>3, <2>4, <3>3 DEF Asks, Ops, FirstStep, DlgFits, RowKinds
        <3>4. QED
            BY <2>2, <3>1, <3>2, <3>3
    <2>6. QED
        BY <2>1, <2>4, <2>5, SubmitValues
<1>3. ASSUME NEW c \in calls, FormLoaded(c) PROVE ValuesStep
    <2>1. CASE dlg' = dlg
        BY <1>3, <2>1, DropValues DEF FormLoaded, nav, server
    <2>2. CASE dlg' # dlg
        <3>1. PICK v, k : /\ v = [on |-> IF c.by = "edit" THEN c.val.on ELSE TRUE,
                                  cfg |-> c.val.cfg, tags |-> dlg.val.tags]
                          /\ k = (IF c.by = "clone" THEN "new" ELSE c.by) /\ dlg' = Form(k, c.id, v)
            BY <1>3, <2>2 DEF FormLoaded
        <3>2. c.val \in ValFor(area, c.id) /\ c.op = "read" /\ c.by \in Modes /\ CallFits(area, c)
            BY <1>3 DEF ValuesInv, CallFits, Asks, FormLoaded
        <3>3. (IF c.by = "edit" THEN c.val.on ELSE TRUE) \in BOOLEAN
            BY <3>2 DEF ValFor, Val
        <3>4. v \in ValFor(area, c.id)
            BY <3>1, <3>2, <3>3 DEF ValFor, Val, ValuesInv, DlgFits
        <3>5. c.id \in Ids /\ (k = "new" => area = "clone") /\ k \in {"edit", "new", "promote"}
            BY <3>1, <3>2 DEF CallFits, Asks, Modes, OriginInv, AtHome
        <3>6. DlgFits(area, Form(k, c.id, v))
            BY <3>4, <3>5, FormFits DEF FirstKinds, NewKinds
        <3>7. QED
            BY <1>3, <3>1, <3>6 DEF FormLoaded, ValuesStep, Counts, nav, server
    <2>3. QED
        BY <2>1, <2>2
<1>4. ASSUME NEW c \in calls, FormStep(c) PROVE ValuesStep
    <2>1. PICK d : d = [c EXCEPT !.op = Head(c.rest), !.rest = Tail(c.rest), !.st = "sent"]
        OBVIOUS
    <2>2. DOMAIN c = CallFields /\ CallFits(area, c) /\ c.rest \in Seq(FormOps) /\ c.rest # <<>>
        BY <1>4 DEF OriginInv, ValuesInv, SecretInv, Fits, FormStep, IsForm, FirstStep
    <2>3. Head(c.rest) \in FormOps
        BY <2>2
    <2>4. /\ d.n = c.n /\ d.by = c.by /\ d.id = c.id /\ d.val = c.val
          /\ d.op = Head(c.rest) /\ d.st = "sent"
        BY <2>1, <2>2 DEF CallFields
    <2>5. c.id \in Ids
        BY <1>4, <2>2 DEF FormStep, StepDone, IsForm, FirstStep, CallFits, Asks, Unnamed
    <2>6. CallFits(area, d)
        BY <2>2, <2>3, <2>4, <2>5 DEF CallFits, Asks, FormOps, Ops
    <2>7. calls' = (calls \ {c}) \cup {d} /\ UNCHANGED <<area, auth, srv, used, held, sel, dlg>>
        BY <1>4, <2>1 DEF FormStep, nav, server, pane
    <2>8. QED
        BY <2>6, <2>7 DEF ValuesStep, ValuesInv, Counts
<1>5. ASSUME NEW c \in calls, FormSaved(c) PROVE ValuesStep
    <2>1. PICK S : S = calls \ {c}
        OBVIOUS
    <2>2. /\ calls' = S \/ calls' = Orphaned(S)
          /\ dlg' \in {dlg, NoDlg} /\ held' \in {held, NoRows}
          /\ UNCHANGED <<area, auth, srv, used, sel>>
        BY <1>5, <2>1 DEF FormSaved, server, nav, pane
    <2>3. \A d \in Orphaned(S) : CallFits(area, d)
        BY <2>1, OrphansFit
    <2>4. QED
        BY <2>1, <2>2, <2>3, NoFormFits DEF ValuesStep, Counts, ValuesInv
<1>6. ASSUME NEW c \in calls, FormFails(c) PROVE ValuesStep
    BY <1>6, SettleValues DEF FormFails
<1>7. QED
    BY <1>1, <1>2, <1>3, <1>4, <1>5, <1>6 DEF FormNext

\* A settings form starts from the cached record, or empty.
LEMMA RecordFormFits ==
    ASSUME NEW kind \in {"mail", "group", "loading", "general", "setup", "disable", "recovery"},
           NEW v \in ValFor(area, 1)
    PROVE  DlgFits(area, Form(kind, 1, v))
BY FormFits, IdsApart DEF NewKinds

\* New content of the record starts the form over.
LEMMA ReloadedFits ==
    ASSUME ValuesInv, NEW kind \in {"mail", "group"}, NEW rows, RowsFor(area, rows)
    PROVE  DlgFits(area, Reloaded(kind, rows))
<1>1. PICK v : v = ValIn(rows) /\ v \in ValFor(area, 1)
    BY ValInFits
<1>2. DlgFits(area, Form(kind, 1, v))
    BY <1>1, RecordFormFits
<1>3. Reloaded(kind, rows) = dlg \/ Reloaded(kind, rows) = Form(kind, 1, v)
    BY <1>1 DEF Reloaded
<1>4. QED
    BY <1>2, <1>3 DEF ValuesInv

\* The group form leaves out the hosts it does not know.
LEMMA GroupValFits ==
    ASSUME NEW a, NEW i, NEW v \in ValFor(a, i) PROVE GroupVal(v) \in ValFor(a, i)
<1>1. PICK t : t = v.tags \cap FirstHosts
    OBVIOUS
<1>2. t \in SUBSET Tags
    BY <1>1 DEF ValFor, Val
<1>3. GroupVal(v) = [v EXCEPT !.tags = t]
    BY <1>1 DEF GroupVal
<1>4. QED
    BY <1>2, <1>3, TagsFit

\* The steps of the mail, general and group settings keep values with their rows.
LEMMA SettingsValues ==
    ASSUME OriginInv, QueryInv, ValuesInv, SettingsNext PROVE ValuesStep
<1>0. /\ \A v : v \in ValFor(area, 1) => DlgFits(area, Form("mail", 1, v))
      /\ DlgFits(area, Form("loading", 1, Blank)) /\ DlgFits(area, Form("mail", 1, Blank))
      /\ RowsFor(area, cache["detail"].rows)
    BY RecordFormFits, BlankFits DEF ValuesInv, TableInv, Keys
<1>1. CASE MailConfigPage
    <2>1. PICK v : v = ValIn(cache["detail"].rows) /\ v \in ValFor(area, 1)
        BY <1>0, ValInFits
    <2>2. dlg' = Form("mail", 1, v) \/ dlg' = Form("loading", 1, Blank)
        BY <1>1, <2>1 DEF MailConfigPage, MountForm
    <2>3. QED
        BY <1>0, <1>1, <2>1, <2>2 DEF MailConfigPage, MountForm, ValuesStep, ValuesInv, Counts, server
<1>2. CASE MailDefaults
    BY <1>0, <1>2 DEF MailDefaults, ValuesStep, Counts, nav, server
<1>3. CASE MailEdit \/ ThresholdsEdit \/ GroupEdit \/ GroupHosts
    BY <1>3, TypeValues DEF MailEdit, ThresholdsEdit, GroupEdit, GroupHosts, Edit, Fields
<1>4. CASE MailSave
    <2>1. dlg.kind = "mail" /\ area = "mail"
        BY <1>4 DEF MailSave, Submit, OriginInv, AtHome
    <2>2. dlg.val \in ValFor(area, 1)
        BY <2>1 DEF ValuesInv, DlgFits, FirstKinds, OwnKinds
    <2>3. Asks(area, "mail", "put", 1, dlg.val)
        BY <2>1, <2>2, IdsApart DEF Asks, Ops
    <2>4. QED
        BY <1>4, <2>3, SubmitValues DEF MailSave
<1>5. CASE MailTest
    <2>1. Asks(area, "mailTest", "touch", 1, Blank)
        BY BlankFits, IdsApart DEF Asks, Ops
    <2>2. Send({Call("mailTest", "touch", 1, Blank, <<>>)})
          /\ UNCHANGED <<area, auth, srv, held, sel, dlg>>
        BY <1>5 DEF MailTest, nav, server
    <2>3. QED
        BY <2>1, <2>2, SendValues DEF ValuesStep, ValuesInv
<1>6. CASE GeneralSettingsPage
    <2>1. CallFits(area, Read("thresholds", 1))
        BY ReadFits, IdsApart
    <2>2. QED
        BY <1>0, <1>6, <2>1 DEF GeneralSettingsPage, ValuesStep, Counts, server
<1>7. CASE ThresholdsSave
    <2>1. PICK v \in {dlg.val, [dlg.val EXCEPT !.cfg = Empty]} :
              /\ dlg.kind = "general" /\ Send({Call("general", "cfg", 1, v, <<>>)})
              /\ dlg' = [dlg EXCEPT !.val = v, !.typed = IF v = dlg.val THEN @ ELSE {"cfg"}]
              /\ UNCHANGED <<area, nav, server, query, sel, bulk, reveal, ledger>>
        BY <1>7 DEF ThresholdsSave
    <2>2. area = "general" /\ DOMAIN dlg = DlgFields /\ DlgFits(area, dlg)
        BY <2>1 DEF OriginInv, AtHome, ValuesInv
    <2>3. dlg.id = 1 /\ dlg.val \in ValFor(area, 1)
        BY <2>1, <2>2 DEF DlgFits, FirstKinds, OwnKinds
    <2>4. v \in ValFor(area, 1) /\ v \in Val
        <3>1. [dlg.val EXCEPT !.cfg = Empty] \in ValFor(area, 1)
            BY <2>3, CfgFits, IdsApart DEF Vals
        <3>2. QED
            BY <2>1, <2>3, <3>1 DEF ValFor
    <2>5. PICK t : t = (IF v = dlg.val THEN dlg.typed ELSE {"cfg"})
        OBVIOUS
    <2>6. t \subseteq Fields
        BY <2>2, <2>5 DEF DlgFits, Fields
    <2>7. dlg' = [dlg EXCEPT !.val = v, !.typed = t]
        BY <2>1, <2>2, <2>5 DEF DlgFields
    <2>8. DlgFits(area, dlg')
        BY <2>3, <2>4, <2>6, <2>7, DlgValues
    <2>9. Asks(area, "general", "cfg", 1, v)
        BY <2>2, <2>4, IdsApart DEF Asks, Ops
    <2>10. UNCHANGED <<area, auth, srv, held, sel>>
        BY <2>1 DEF nav, server
    <2>11. QED
        BY <2>1, <2>8, <2>9, <2>10, SendValues DEF ValuesStep
<1>8. CASE GroupFormPage
    <2>1. PICK v : v = GroupVal(ValIn(cache["detail"].rows)) /\ v \in ValFor(area, 1)
        BY <1>0, ValInFits, GroupValFits
    <2>2. DlgFits(area, Form("group", 1, v))
        BY <2>1, RecordFormFits
    <2>3. DlgFits(area, Form("newGroup", 0, Blank))
        BY FormFits, BlankFits DEF RowKinds, FirstKinds
    <2>4. dlg' \in {Form("group", 1, v), Form("loading", 1, Blank), Form("newGroup", 0, Blank)}
        BY <1>8, <2>1 DEF GroupFormPage
    <2>5. QED
        BY <1>0, <1>8, <2>2, <2>3, <2>4 DEF GroupFormPage, ValuesStep, Counts, server
<1>9. CASE GroupSave
    <2>1. PICK kind \in {"group", "newGroup"}, op \in {"all", "create"} :
              /\ op = (IF kind = "group" THEN "all" ELSE "create")
              /\ Submit(kind, {Call(kind, op, dlg.id, dlg.val, <<>>)})
        BY <1>9 DEF GroupSave
    <2>2. dlg.kind = kind /\ area = "group"
        BY <2>1 DEF Submit, OriginInv, AtHome
    <2>3. dlg.val \in ValFor(area, dlg.id) /\ dlg.id \in Ids \cup {0}
          /\ (kind = "group" => dlg.id \in Ids) /\ (kind = "newGroup" => dlg.id = 0)
        BY <2>1, <2>2 DEF ValuesInv, DlgFits, OwnKinds, RowKinds, NewKinds
    <2>4. kind = "newGroup" => dlg.val.cfg \notin Ids
        BY <2>2, <2>3, IdsApart DEF ValFor, Empty
    <2>5. Asks(area, kind, op, dlg.id, dlg.val)
        BY <2>1, <2>2, <2>3, <2>4 DEF Asks, Ops
    <2>6. QED
        BY <2>1, <2>5, SubmitValues
<1>10. ASSUME NEW c \in calls, MailSettles(c) \/ MailTestSettles(c) PROVE ValuesStep
    <2>1. CASE Fail(c) \/ FinishOnly(c)
        BY <2>1, SettleValues
    <2>2. CASE ~Fail(c) /\ ~FinishOnly(c)
        BY <1>10, <2>2, DropValues DEF MailSettles, MailTestSettles, nav, server
    <2>3. QED
        BY <2>1, <2>2
<1>11. ASSUME NEW c \in calls, ThresholdsLoaded(c) PROVE ValuesStep
    <2>1. PICK v : v = (IF c.st = "done" THEN c.val ELSE Blank) /\ (dlg' = dlg \/ dlg' = Form("general", 1, v))
        BY <1>11 DEF ThresholdsLoaded
    <2>2. area = "general" /\ CallFits(area, c) /\ c.by = "thresholds"
        BY <1>11 DEF OriginInv, AtHome, ThresholdsLoaded, ValuesInv
    <2>3. v \in ValFor(area, 1)
        BY <2>1, <2>2, BlankFits DEF CallFits, Asks
    <2>4. DlgFits(area, dlg')
        BY <2>1, <2>3, RecordFormFits DEF ValuesInv
    <2>5. QED
        BY <1>11, <2>4 DEF ThresholdsLoaded, ValuesStep, Counts, nav, server
<1>12. ASSUME NEW c \in calls, ThresholdsSettle(c) PROVE ValuesStep
    <2>1. CASE Fail(c)
        BY <2>1, SettleValues
    <2>2. CASE ~Fail(c) /\ dlg' = dlg
        BY <1>12, <2>2, DropValues DEF ThresholdsSettle, nav, server
    <2>3. CASE ~Fail(c) /\ dlg' # dlg
        <3>1. dlg' = [dlg EXCEPT !.val.cfg = c.val.cfg] /\ c.by = "general"
            BY <1>12, <2>3 DEF ThresholdsSettle
        <3>2. DOMAIN dlg = DlgFields /\ DlgFits(area, dlg) /\ area = "general" /\ c.val \in ValFor(area, 1)
            BY <3>1 DEF OriginInv, AtHome, ValuesInv, CallFits, Asks
        <3>3. PICK v : v = [dlg.val EXCEPT !.cfg = c.val.cfg]
            OBVIOUS
        <3>4. v \in Val
            BY <3>2, <3>3 DEF DlgFits, Val, ValFor
        <3>5. dlg.kind \in OwnKinds => v \in ValFor(area, dlg.id)
            <4>1. dlg.kind \in OwnKinds => dlg.id = 1
                BY <3>2 DEF DlgFits, FirstKinds, OriginInv, AtHome, OwnKinds, RowKinds, NewKinds
            <4>2. QED
                BY <3>2, <3>3, <3>4, <4>1 DEF DlgFits, ValFor, Val
        <3>6. dlg' = [dlg EXCEPT !.val = v, !.typed = dlg.typed]
            BY <3>1, <3>2, <3>3 DEF DlgFields
        <3>7. DlgFits(area, dlg')
            BY <3>2, <3>4, <3>5, <3>6, DlgValues DEF DlgFits
        <3>8. QED
            BY <1>12, <2>3, <3>7 DEF ThresholdsSettle, ValuesStep, Counts, nav, server
    <2>4. QED
        BY <2>1, <2>2, <2>3
<1>13. ASSUME NEW c \in calls, GroupSaved(c) PROVE ValuesStep
    <2>1. CASE Fail(c)
        BY <2>1, SettleValues
    <2>2. CASE ~Fail(c)
        <3>1. PICK S : S = calls \ {c}
            OBVIOUS
        <3>2. /\ calls' = S \/ calls' = Orphaned(S)
              /\ dlg' \in {dlg, NoDlg} /\ held' \in {held, NoRows}
              /\ UNCHANGED <<area, auth, srv, used, sel>>
            BY <1>13, <2>2, <3>1 DEF GroupSaved, server, nav
        <3>3. \A d \in Orphaned(S) : CallFits(area, d)
            BY <3>1, OrphansFit
        <3>4. QED
            BY <3>1, <3>2, <3>3, NoFormFits DEF ValuesStep, Counts, ValuesInv
    <2>3. QED
        BY <2>1, <2>2
<1>14. QED
    BY <1>1, <1>2, <1>3, <1>4, <1>5, <1>6, <1>7, <1>8, <1>9, <1>10, <1>11, <1>12, <1>13
       DEF SettingsNext

\* The switch of the open dialog is set.
LEMMA DlgOnValues ==
    ASSUME OriginInv, ValuesInv, NEW b \in BOOLEAN, NEW t, t \subseteq Fields,
           dlg' = [dlg EXCEPT !.val = [dlg.val EXCEPT !.on = b], !.typed = t]
    PROVE  DlgFits(area, dlg')
<1>1. PICK v : v = [dlg.val EXCEPT !.on = b]
    OBVIOUS
<1>2. v \in Val /\ (dlg.kind \in OwnKinds => v \in ValFor(area, dlg.id))
    BY <1>1, FlipFits DEF ValuesInv, DlgFits, Val
<1>3. QED
    BY <1>1, <1>2, DlgValues

\* A dialog whose tags are set holds values of its row.
LEMMA DlgTagsValues ==
    ASSUME OriginInv, ValuesInv, NEW s \in SUBSET Tags, NEW t, t \subseteq Fields,
           dlg' = [dlg EXCEPT !.val = [dlg.val EXCEPT !.tags = s], !.typed = t]
    PROVE  DlgFits(area, dlg')
<1>1. PICK v : v = [dlg.val EXCEPT !.tags = s]
    OBVIOUS
<1>2. v \in Val /\ (dlg.kind \in OwnKinds => v \in ValFor(area, dlg.id))
    BY <1>1, TagsFit DEF ValuesInv, DlgFits, Val
<1>3. QED
    BY <1>1, <1>2, DlgValues

\* The steps of the notification settings of the account keep values with their rows.
LEMMA NotifyValues ==
    ASSUME OriginInv, QueryInv, ValuesInv, NotifyNext PROVE ValuesStep
<1>0. DOMAIN dlg = DlgFields /\ DlgFits(area, dlg) /\ dlg.typed \subseteq Fields
    BY DEF OriginInv, ValuesInv, DlgFits
<1>1. CASE AccountNotificationsPage
    <2>1. PICK p, q : /\ p = ValIn(cache["detail"].rows) /\ q = ValIn(cache["all"].rows)
                      /\ p \in ValFor(area, 1) /\ q \in ValFor(area, 1)
        BY ValInFits DEF ValuesInv, TableInv, Keys
    <2>2. PICK o, x, t : /\ o = (cache["detail"].have /\ p.on)
                         /\ x = (IF cache["detail"].have THEN p.cfg ELSE Empty)
                         /\ t = (IF cache["all"].have THEN q.tags ELSE {})
        OBVIOUS
    <2>3. o \in BOOLEAN
        BY <2>2, Zenon
    <2>4. x \in Vals /\ (area # "clone" /\ x \in Ids => x = 1) /\ t \in SUBSET Tags
        BY <2>1, <2>2, IdsApart DEF ValFor, Val, Vals
    <2>5. PICK v : v = [on |-> o, cfg |-> x, tags |-> t]
        OBVIOUS
    <2>6. v \in ValFor(area, 1)
        BY <2>3, <2>4, <2>5 DEF ValFor, Val
    <2>7. DlgFits(area, Form("notify", 1, v))
        BY <2>6, FormFits, IdsApart DEF NewKinds
    <2>8. dlg' = Form("notify", 1, v)
        BY <1>1, <2>1, <2>2, <2>5 DEF AccountNotificationsPage
    <2>9. QED
        BY <1>1, <2>7, <2>8 DEF AccountNotificationsPage, ValuesStep, Counts, server
<1>2. CASE SaveNotify
    <2>1. PICK v : /\ v = [dlg.val EXCEPT !.on = ~@] /\ dlg.kind = "notify"
                   /\ Send({Call("notifyOn", "put", 1, v, <<>>)})
                   /\ dlg' = [dlg EXCEPT !.val = v, !.typed = @ \cup {"on"}]
        BY <1>2 DEF SaveNotify
    <2>2. area = "notify" /\ dlg.val \in ValFor(area, 1) /\ dlg.id = 1
        BY <2>1, <1>0 DEF OriginInv, AtHome, DlgFits, FirstKinds, OwnKinds
    <2>3. PICK b : b = (~dlg.val.on)
        OBVIOUS
    <2>4. b \in BOOLEAN
        BY <2>3, Zenon
    <2>5. v = [dlg.val EXCEPT !.on = b]
        BY <2>1, <2>3
    <2>6. v \in ValFor(area, 1) /\ v \in Val
        BY <2>2, <2>4, <2>5, FlipFits DEF ValFor
    <2>7. dlg' = [dlg EXCEPT !.val = v, !.typed = dlg.typed \cup {"on"}]
        BY <2>1, <1>0 DEF DlgFields
    <2>8. DlgFits(area, dlg')
        BY <1>0, <2>2, <2>6, <2>7, DlgValues DEF Fields
    <2>9. Asks(area, "notifyOn", "put", 1, v)
        BY <2>2, <2>6, IdsApart DEF Asks, Ops
    <2>10. UNCHANGED <<area, auth, srv, held, sel>>
        BY <1>2 DEF SaveNotify, nav, server
    <2>11. QED
        BY <2>1, <2>8, <2>9, <2>10, SendValues DEF ValuesStep
<1>3. CASE SubscriptionEdit
    BY <1>3, TypeValues DEF SubscriptionEdit, Edit, Fields
<1>4. CASE SaveTags
    <2>1. PICK t : t \in {dlg.val.tags, {}}
                   /\ Send({Call("notifyTags", "tags", 1, [dlg.val EXCEPT !.tags = t], <<>>)})
        BY <1>4 DEF SaveTags
    <2>2. dlg.val \in ValFor(area, 1)
        BY <1>4, <1>0 DEF SaveTags, DlgFits, FirstKinds, OwnKinds
    <2>3. PICK v : v = [dlg.val EXCEPT !.tags = t]
        OBVIOUS
    <2>4. v \in ValFor(area, 1)
        BY <1>0, <2>1, <2>2, <2>3, TagsFit DEF DlgFits, Val
    <2>5. Asks(area, "notifyTags", "tags", 1, v)
        BY <2>4, IdsApart DEF Asks, Ops
    <2>6. UNCHANGED <<area, auth, srv, held, sel, dlg>>
        BY <1>4 DEF SaveTags, nav, server
    <2>7. QED
        BY <2>1, <2>3, <2>5, <2>6, <1>0, SendValues DEF ValuesStep
<1>5. ASSUME NEW c \in calls, SaveNotifySettles(c) PROVE ValuesStep
    <2>1. CASE dlg' = dlg
        BY <1>5, <2>1, DropValues DEF SaveNotifySettles, nav, server
    <2>2. CASE dlg' # dlg
        <3>1. PICK b : /\ b = (IF c.st = "done" THEN c.val.on ELSE ~c.val.on)
                       /\ dlg' = [dlg EXCEPT !.val.on = b]
            BY <1>5, <2>2 DEF SaveNotifySettles
        <3>2. c.val.on \in BOOLEAN
            BY DEF ValuesInv, CallFits, Asks, ValFor, Val
        <3>3. b \in BOOLEAN
            BY <3>1, <3>2, Zenon
        <3>4. dlg' = [dlg EXCEPT !.val = [dlg.val EXCEPT !.on = b], !.typed = dlg.typed]
            BY <3>1, <1>0 DEF DlgFields
        <3>5. DlgFits(area, dlg')
            BY <1>0, <3>3, <3>4, DlgOnValues
        <3>6. QED
            BY <1>5, <3>5 DEF SaveNotifySettles, ValuesStep, Counts, nav, server
    <2>3. QED
        BY <2>1, <2>2
<1>6. ASSUME NEW c \in calls, SaveTagsSettles(c) PROVE ValuesStep
    <2>1. CASE dlg' = dlg
        BY <1>6, <2>1, DropValues DEF SaveTagsSettles, nav, server
    <2>2. CASE dlg' # dlg
        <3>1. dlg' = [dlg EXCEPT !.val.tags = c.val.tags]
            BY <1>6, <2>2 DEF SaveTagsSettles
        <3>2. c.val.tags \in SUBSET Tags
            BY DEF ValuesInv, CallFits, Asks, ValFor, Val
        <3>3. dlg' = [dlg EXCEPT !.val = [dlg.val EXCEPT !.tags = c.val.tags], !.typed = dlg.typed]
            BY <3>1, <1>0 DEF DlgFields
        <3>4. DlgFits(area, dlg')
            BY <1>0, <3>2, <3>3, DlgTagsValues
        <3>5. QED
            BY <1>6, <3>4 DEF SaveTagsSettles, ValuesStep, Counts, nav, server
    <2>3. QED
        BY <2>1, <2>2
<1>7. QED
    BY <1>1, <1>2, <1>3, <1>4, <1>5, <1>6 DEF NotifyNext

\* The requests of an editor that was left are about the same rows.
LEMMA LeftFit ==
    ASSUME OriginInv, ValuesInv, NEW S \in SUBSET calls, NEW d \in Left(S)
    PROVE  d \in calls \/ CallFits(area, d)
<1>1. PICK c \in calls : d = IF c.by \in {"template", "reset"} THEN [c EXCEPT !.by = "left"] ELSE c
    BY DEF Left
<1>2. DOMAIN c = CallFields /\ CallFits(area, c)
    BY DEF OriginInv, ValuesInv
<1>3. CASE d = [c EXCEPT !.by = "left"]
    <2>1. d.n = c.n /\ d.op = c.op /\ d.id = c.id /\ d.val = c.val /\ d.st = c.st /\ d.by = "left"
        BY <1>2, <1>3 DEF CallFields
    <2>2. QED
        BY <1>1, <1>2, <2>1, MarkFits DEF Unnamed
<1>4. QED
    BY <1>1, <1>3

\* An answer that names its row enters the page's own copy of the rows.
LEMMA EnterFits ==
    ASSUME ValuesInv, NEW i \in Ids, NEW r \in RowFor(area, i), NEW s,
           s = [j \in DOMAIN sel \cup {i} |-> IF j = i THEN r ELSE sel[j]]
    PROVE  RowsFor(area, s)
BY DEF RowsFor, ValuesInv, TableInv

\* The steps of the notification templates keep values with their rows.
LEMMA TemplatesValues ==
    ASSUME OriginInv, QueryInv, ValuesInv, TemplatesNext PROVE ValuesStep
<1>0. /\ DOMAIN dlg = DlgFields /\ DlgFits(area, dlg)
      /\ RowsFor(area, cache["all"].rows) /\ RowsFor(area, sel)
    BY DEF OriginInv, ValuesInv, TableInv, Keys
<1>1. CASE NotificationTemplatesPage
    <2>1. DlgFits(area, dlg')
        <3>1. CASE dlg' = NoDlg
            BY <3>1, NoFormFits
        <3>2. CASE dlg' # NoDlg
            <4>1. PICK v : v = ValOf(cache["all"].rows[1])
                OBVIOUS
            <4>2. 1 \in DOMAIN cache["all"].rows /\ dlg' = Form("template", 1, v)
                BY <1>1, <3>2, <4>1 DEF NotificationTemplatesPage
            <4>3. v \in ValFor(area, 1)
                BY <1>0, <4>1, <4>2, RowFits DEF RowsFor
            <4>4. QED
                BY <4>2, <4>3, FormFits, IdsApart DEF FirstKinds, NewKinds
        <3>3. QED
            BY <3>1, <3>2
    <2>2. QED
        BY <1>0, <1>1, <2>1 DEF NotificationTemplatesPage, ValuesStep, Counts, server
<1>2. CASE TemplateEdit
    BY <1>2, TypeValues DEF TemplateEdit, Edit, Fields
<1>3. CASE TemplateSave
    <2>1. dlg.kind = "template" /\ area = "templates"
        BY <1>3 DEF TemplateSave, Submit, OriginInv, AtHome
    <2>2. dlg.val \in ValFor(area, dlg.id) /\ dlg.id \in Ids
        BY <1>0, <2>1 DEF DlgFits, OwnKinds, RowKinds
    <2>3. PICK v : v = [dlg.val EXCEPT !.on = TRUE]
        OBVIOUS
    <2>4. v \in ValFor(area, dlg.id)
        BY <2>2, <2>3, FlipFits
    <2>5. Asks(area, "template", "put", dlg.id, v)
        BY <2>1, <2>2, <2>4 DEF Asks, Ops
    <2>6. QED
        BY <1>3, <2>3, <2>5, SubmitValues DEF TemplateSave
<1>4. CASE TemplateReset
    <2>1. Asks(area, "reset", "revert", dlg.id, Blank)
        BY <1>4, RowAsks DEF TemplateReset, RowKinds
    <2>2. Send({Call("reset", "revert", dlg.id, Blank, <<"read">>)})
          /\ UNCHANGED <<area, auth, srv, held, sel, dlg>>
        BY <1>4 DEF TemplateReset, nav, server
    <2>3. QED
        BY <1>0, <2>1, <2>2, SendValues DEF ValuesStep
<1>5. ASSUME NEW i \in Ids, ChooseTemplate(i) PROVE ValuesStep
    <2>1. PICK v : v = ValOf(sel[i])
        OBVIOUS
    <2>2. v \in ValFor(area, i)
        BY <1>0, <1>5, <2>1, RowFits DEF ChooseTemplate, RowsFor
    <2>3. DlgFits(area, Form("template", i, v))
        BY <2>2, FormFits DEF FirstKinds, NewKinds
    <2>4. PICK S : S = calls /\ calls' = Left(S)
        BY <1>5 DEF ChooseTemplate
    <2>5. \A d \in Left(S) : d \in calls \/ CallFits(area, d)
        BY <2>4, LeftFit
    <2>6. QED
        BY <1>5, <2>1, <2>3, <2>4, <2>5 DEF ChooseTemplate, ValuesStep, Counts, nav, server
<1>6. ASSUME NEW c \in calls, TemplateResetStep(c) PROVE ValuesStep
    <2>1. PICK d : d = [c EXCEPT !.op = "read", !.rest = <<>>, !.st = "sent"]
        OBVIOUS
    <2>2. DOMAIN c = CallFields /\ CallFits(area, c) /\ c.by \in {"reset", "left"} /\ c.id \in Ids
        BY <1>6 DEF OriginInv, ValuesInv, TemplateResetStep, CallFits, Unnamed
    <2>3. /\ d.n = c.n /\ d.by = c.by /\ d.id = c.id /\ d.val = c.val
          /\ d.op = "read" /\ d.st = "sent"
        BY <2>1, <2>2 DEF CallFields
    <2>4. CallFits(area, d)
        BY <2>2, <2>3 DEF CallFits, Asks, Ops
    <2>5. calls' = (calls \ {c}) \cup {d} /\ UNCHANGED <<area, auth, srv, used, held, sel, dlg>>
        BY <1>6, <2>1 DEF TemplateResetStep, nav, server, pane
    <2>6. QED
        BY <1>0, <2>4, <2>5 DEF ValuesStep, Counts
<1>7. ASSUME NEW c \in calls, TemplateSettles(c) PROVE ValuesStep
    <2>1. c.id \in Ids /\ c.val \in ValFor(area, c.id)
        BY <1>7 DEF TemplateSettles, ValuesInv, CallFits, Asks, Unnamed
    <2>2. DlgFits(area, Form("template", c.id, c.val))
        BY <2>1, FormFits DEF FirstKinds, NewKinds
    <2>3. sel' = sel \/ RowsFor(area, sel')
        <3>1. PICK r : r = [live |-> TRUE, on |-> c.val.on, cfg |-> c.val.cfg, tags |-> c.val.tags]
            OBVIOUS
        <3>2. r \in RowFor(area, c.id)
            BY <2>1, <3>1 DEF ValFor, Val, RowFor, Row
        <3>3. sel' = sel \/ sel' = [i \in DOMAIN sel \cup {c.id} |-> IF i = c.id THEN r ELSE sel[i]]
            BY <1>7, <3>1 DEF TemplateSettles
        <3>4. QED
            BY <2>1, <3>2, <3>3, EnterFits
    <2>4. DlgFits(area, dlg')
        <3>1. CASE dlg' = dlg \/ dlg' = Form("template", c.id, c.val)
            BY <1>0, <2>2, <3>1
        <3>2. CASE dlg' # dlg /\ dlg' # Form("template", c.id, c.val)
            <4>1. dlg' = [dlg EXCEPT !.typed = {}]
                BY <1>7, <3>2 DEF TemplateSettles
            <4>2. dlg' = [dlg EXCEPT !.val = dlg.val, !.typed = {}]
                BY <1>0, <4>1 DEF DlgFields
            <4>3. QED
                BY <1>0, <4>2, DlgValues DEF DlgFits
        <3>3. QED
            BY <3>1, <3>2
    <2>5. PICK S : S = calls \ {c} /\ (calls' = S \/ calls' = Left(S))
        BY <1>7 DEF TemplateSettles
    <2>6. \A d \in Left(S) : d \in calls \/ CallFits(area, d)
        BY <2>5, LeftFit
    <2>7. QED
        BY <1>7, <2>3, <2>4, <2>5, <2>6 DEF TemplateSettles, ValuesStep, Counts, nav, server
<1>8. ASSUME NEW c \in calls, TemplateFails(c) PROVE ValuesStep
    BY <1>8, SettleValues DEF TemplateFails
<1>9. QED
    BY <1>1, <1>2, <1>3, <1>4, <1>5, <1>6, <1>7, <1>8 DEF TemplatesNext

-----------------------------------------------------------------------------
\* The administration pages.  A listed row's form starts from that row.
LEMMA ListedFits ==
    ASSUME QueryInv, ValuesInv, NEW i \in DOMAIN Shown
    PROVE  i \in Ids /\ ValOf(Shown[i]) \in ValFor(area, i)
<1>1. PICK r : r = Shown[i]
    OBVIOUS
<1>2. i \in Ids /\ r \in RowFor(area, i)
    BY <1>1, ShownFits DEF RowsFor
<1>3. QED
    BY <1>1, <1>2, RowFits

\* A listed row's switch sends that row with the switch flipped.
LEMMA SwitchedFits ==
    ASSUME QueryInv, ValuesInv, NEW i \in DOMAIN Shown PROVE Switched(Shown[i]) \in ValFor(area, i)
<1>1. PICK v, b : v = ValOf(Shown[i]) /\ b = (~v.on)
    OBVIOUS
<1>2. v \in ValFor(area, i)
    BY <1>1, ListedFits
<1>3. b \in BOOLEAN
    BY <1>1, Zenon
<1>4. Switched(Shown[i]) = [v EXCEPT !.on = b]
    BY <1>1 DEF Switched
<1>5. QED
    BY <1>2, <1>3, <1>4, FlipFits

\* A dialog about a row opens from the list.
LEMMA ListedForm ==
    ASSUME QueryInv, ValuesInv, NEW i \in DOMAIN Shown, NEW kind, kind \notin FirstKinds \cup NewKinds
    PROVE  DlgFits(area, Form(kind, i, ValOf(Shown[i]))) /\ DlgFits(area, Form(kind, i, Blank))
<1>1. PICK v : v = ValOf(Shown[i]) /\ i \in Ids /\ v \in ValFor(area, i)
    BY ListedFits
<1>2. QED
    BY <1>1, FormFits, RowFormFits

\* A form with the fields of a new row, none of them typed yet.
LEMMA NewFormFits ==
    ASSUME NEW kind, kind \notin RowKinds \cup FirstKinds
    PROVE  DlgFits(area, Form(kind, 0, Blank)) /\ DlgFits(area, Form(kind, 0, JustName))
<1>1. PICK v : v = JustName /\ v \in ValFor(area, 0)
    BY BlankFits, FlipFits DEF JustName
<1>2. QED
    BY <1>1, FormFits, BlankFits

\* A form asks for a new row, or to change the row it is about.
LEMMA FormAsks ==
    ASSUME ValuesInv, dlg.kind \in OwnKinds, area # "clone",
           NEW by, by \notin {"toggle", "notes", "general", "thresholds"}
    PROVE  /\ dlg.id = 0 => Asks(area, by, "create", 0, dlg.val)
           /\ dlg.id # 0 => \A op \in {"put", "cfg", "tags"} : Asks(area, by, op, dlg.id, dlg.val)
<1>1. dlg.id \in Ids \cup {0} /\ dlg.val \in ValFor(area, dlg.id)
    BY DEF ValuesInv, DlgFits
<1>2. dlg.id = 0 => dlg.val.cfg \notin Ids
    BY <1>1, IdsApart DEF ValFor, Empty
<1>3. QED
    BY <1>1, <1>2 DEF Asks, Ops

\* Deleting what a dialog is about.
LEMMA DeleteValues ==
    ASSUME ValuesInv, NEW kind \in RowKinds, kind \notin {"toggle", "notes", "general", "thresholds"},
           Delete(kind)
    PROVE  ValuesStep
<1>1. dlg.kind = kind
    BY DEF Delete, Submit
<1>2. Asks(area, kind, "delete", dlg.id, Blank)
    BY <1>1, RowAsks
<1>3. QED
    BY <1>2, SubmitValues DEF Delete

\* The steps of the discovery networks keep values with their rows.
LEMMA NetworksValues ==
    ASSUME OriginInv, QueryInv, ValuesInv, NetworksNext PROVE ValuesStep
<1>1. CASE DiscoveryNetworksPage
    BY <1>1, MountValues DEF DiscoveryNetworksPage
<1>2. CASE NetworkCreateOpen
    BY <1>2, NewFormFits, OpenValues DEF NetworkCreateOpen, RowKinds, FirstKinds
<1>3. CASE NetworkType
    BY <1>3, TypeValues DEF NetworkType, Edit, Fields
<1>4. CASE NetworkSave
    <2>1. PICK kind \in {"netNew", "netEdit"}, op \in {"create", "put"} :
              /\ op = (IF kind = "netNew" THEN "create" ELSE "put")
              /\ Submit(kind, {Call(kind, op, dlg.id, dlg.val, <<>>)})
        BY <1>4 DEF NetworkSave
    <2>2. dlg.kind = kind /\ area = "networks" /\ dlg.kind \in OwnKinds
        BY <2>1 DEF Submit, OriginInv, AtHome, OwnKinds, RowKinds, NewKinds
    <2>3. (kind = "netNew" => dlg.id = 0) /\ (kind = "netEdit" => dlg.id # 0)
        BY <2>2, IdsApart DEF ValuesInv, DlgFits, RowKinds, NewKinds, Empty
    <2>4. Asks(area, kind, op, dlg.id, dlg.val)
        BY <2>1, <2>2, <2>3, FormAsks
    <2>5. QED
        BY <2>1, <2>4, SubmitValues
<1>5. CASE NetworkDelete
    BY <1>5, DeleteValues DEF NetworkDelete, RowKinds
<1>6. ASSUME NEW i \in Ids, NetworkEditOpen(i) \/ NetworkDeleteOpen(i) PROVE ValuesStep
    <2>1. PICK v : /\ v \in {ValOf(Shown[i]), Blank} /\ i \in DOMAIN Shown
                   /\ Open("netEdit", i, v) \/ Open("deleteNet", i, v)
        BY <1>6 DEF NetworkEditOpen, NetworkDeleteOpen, NetworkRow, Listed
    <2>2. DlgFits(area, Form("netEdit", i, v)) /\ DlgFits(area, Form("deleteNet", i, v))
        BY <2>1, ListedForm DEF FirstKinds, NewKinds
    <2>3. QED
        BY <2>1, <2>2, OpenValues
<1>7. ASSUME NEW i \in Ids, NetworkToggle(i) PROVE ValuesStep
    <2>1. PICK v : v = Switched(Shown[i]) /\ i \in DOMAIN Shown /\ area = "networks"
        BY <1>7 DEF NetworkToggle, NetworkRow, Listed, Clear, On
    <2>2. v \in ValFor(area, i)
        BY <2>1, SwitchedFits
    <2>3. Asks(area, "toggleNet", "put", i, v)
        BY <2>1, <2>2 DEF Asks, Ops
    <2>4. QED
        BY <1>7, <2>1, <2>3, SubmitValues DEF NetworkToggle
<1>8. ASSUME NEW kind, Close(kind) PROVE ValuesStep
    BY <1>8, CloseValues
<1>9. ASSUME NEW c \in calls, NetworkSettles(c) PROVE ValuesStep
    BY <1>9, SettleValues DEF NetworkSettles
<1>10. QED
    BY <1>1, <1>2, <1>3, <1>4, <1>5, <1>6, <1>7, <1>8, <1>9 DEF NetworksNext

\* The steps of the users keep values with their rows.
LEMMA UsersValues ==
    ASSUME OriginInv, QueryInv, ValuesInv, UsersNext PROVE ValuesStep
<1>1. CASE UsersPage
    BY <1>1, MountValues DEF UsersPage
<1>2. CASE UserPager
    BY <1>2, TurnValues DEF UserPager
<1>3. CASE UserAddOpen
    BY <1>3, NewFormFits, OpenValues DEF UserAddOpen, RowKinds, FirstKinds
<1>4. CASE UserType
    BY <1>4, TypeValues DEF UserType, Edit, Fields
<1>5. CASE UserSubmit
    <2>1. PICK op \in {"create", "cfg"} :
              /\ op = (IF dlg.id = 0 THEN "create" ELSE "cfg")
              /\ Submit("user", {Call("user", op, dlg.id, dlg.val, <<>>)})
        BY <1>5 DEF UserSubmit
    <2>2. dlg.kind = "user" /\ area = "users" /\ dlg.kind \in OwnKinds
        BY <2>1 DEF Submit, OriginInv, AtHome, OwnKinds
    <2>3. Asks(area, "user", op, dlg.id, dlg.val)
        BY <2>1, <2>2, FormAsks
    <2>4. QED
        BY <2>1, <2>3, SubmitValues
<1>6. CASE CredentialSubmit
    <2>1. PICK kind \in {"password", "reset2fa"} :
              Submit(kind, {Call(kind, "touch", dlg.id, Blank, <<>>)})
        BY <1>6 DEF CredentialSubmit
    <2>2. dlg.kind = kind
        BY <2>1 DEF Submit
    <2>3. Asks(area, kind, "touch", dlg.id, Blank)
        BY <2>2, RowAsks DEF RowKinds
    <2>4. QED
        BY <2>1, <2>3, SubmitValues
<1>7. CASE UserDelete
    BY <1>7, DeleteValues DEF UserDelete, RowKinds
<1>8. ASSUME NEW i \in Ids, UserDialogOpen(i) \/ PasswordOpen(i) \/ Reset2FAOpen(i) \/ UserDeleteOpen(i)
      PROVE  ValuesStep
    <2>1. PICK v : /\ v \in {ValOf(Shown[i]), Blank} /\ i \in DOMAIN Shown
                   /\ \/ OpenAfresh("user", i, v) \/ OpenAfresh("password", i, v)
                      \/ Open("reset2fa", i, v) \/ Open("deleteUser", i, v)
        BY <1>8 DEF UserDialogOpen, PasswordOpen, Reset2FAOpen, UserDeleteOpen, UserRow, Listed
    <2>2. \A kind \in {"user", "password", "reset2fa", "deleteUser"} : DlgFits(area, Form(kind, i, v))
        BY <2>1, ListedForm DEF FirstKinds, NewKinds
    <2>3. QED
        BY <2>1, <2>2, OpenValues
<1>9. ASSUME NEW i \in Ids, HandleToggleEnabled(i) PROVE ValuesStep
    <2>1. PICK v : v = Switched(Shown[i]) /\ i \in DOMAIN Shown
        BY <1>9 DEF HandleToggleEnabled, UserRow, Listed
    <2>2. v \in ValFor(area, i)
        BY <2>1, SwitchedFits
    <2>3. Asks(area, "toggleUser", "on", i, v)
        BY <2>1, <2>2 DEF Asks, Ops
    <2>4. QED
        BY <1>9, <2>1, <2>3, SubmitValues DEF HandleToggleEnabled
<1>10. ASSUME NEW kind, Close(kind) PROVE ValuesStep
    BY <1>10, CloseValues
<1>11. ASSUME NEW c \in calls, UserSettles(c) PROVE ValuesStep
    BY <1>11, SettleValues DEF UserSettles
<1>12. QED
    BY <1>1, <1>2, <1>3, <1>4, <1>5, <1>6, <1>7, <1>8, <1>9, <1>10, <1>11 DEF UsersNext

\* A request goes on with its next step, about the row it is answered for.
LEMMA NextStepFits ==
    ASSUME OriginInv, ValuesInv, NEW c \in calls, c.st = "done", c.by \notin Unnamed \cup {"new"},
           NEW op \in {"read", "cfg"}, op = "cfg" => area # "clone", NEW d,
           d = [c EXCEPT !.op = op, !.rest = <<>>, !.st = "sent"]
    PROVE  CallFits(area, d)
<1>1. DOMAIN c = CallFields /\ CallFits(area, c)
    BY DEF OriginInv, ValuesInv
<1>2. /\ d.n = c.n /\ d.by = c.by /\ d.id = c.id /\ d.val = c.val
      /\ d.op = op /\ d.st = "sent"
    BY <1>1 DEF CallFields
<1>3. QED
    BY <1>1, <1>2 DEF CallFits, Asks, Ops

\* The steps of the scanners keep values with their rows.
LEMMA ScannersValues ==
    ASSUME OriginInv, QueryInv, ValuesInv, ScannersNext PROVE ValuesStep
<1>1. CASE ScannersPage
    BY <1>1, MountValues DEF ScannersPage
<1>2. CASE ScannerCreateOpen
    BY <1>2, NewFormFits, OpenValues DEF ScannerCreateOpen, RowKinds, FirstKinds
<1>3. CASE ScannerCreateType \/ ScannerEditType
    BY <1>3, TypeValues DEF ScannerCreateType, ScannerEditType, Fields
<1>4. CASE ScannerCreate
    <2>1. PICK rest \in {<<>>, <<"cfg">>} :
              Submit("scannerNew", {Call("scannerNew", "create", 0, dlg.val, rest)})
        BY <1>4 DEF ScannerCreate
    <2>2. dlg.kind = "scannerNew" /\ area = "scanners" /\ dlg.kind \in OwnKinds
        BY <2>1 DEF Submit, OriginInv, AtHome, OwnKinds, NewKinds
    <2>3. dlg.id = 0
        BY <2>2 DEF ValuesInv, DlgFits, NewKinds
    <2>4. Asks(area, "scannerNew", "create", 0, dlg.val)
        BY <2>2, <2>3, FormAsks
    <2>5. QED
        BY <2>1, <2>4, SubmitValues
<1>5. CASE ScannerEdit
    <2>1. dlg.kind = "scannerEdit" /\ area = "scanners" /\ dlg.kind \in OwnKinds
        BY <1>5 DEF ScannerEdit, Submit, OriginInv, AtHome, OwnKinds, RowKinds
    <2>2. dlg.id # 0
        BY <2>1, IdsApart DEF ValuesInv, DlgFits, RowKinds, Empty
    <2>3. Asks(area, "scannerEdit", "cfg", dlg.id, dlg.val)
        BY <2>1, <2>2, FormAsks
    <2>4. QED
        BY <1>5, <2>3, SubmitValues DEF ScannerEdit
<1>6. CASE Regenerate
    <2>1. dlg.kind = "rotate"
        BY <1>6 DEF Regenerate, Submit
    <2>2. Asks(area, "rotate", "rotate", dlg.id, Blank)
        BY <2>1, RowAsks DEF RowKinds
    <2>3. QED
        BY <1>6, <2>2, SubmitValues DEF Regenerate
<1>7. CASE Revoke
    BY <1>7, DeleteValues DEF Revoke, RowKinds
<1>8. ASSUME NEW i \in Ids, ScannerEditOpen(i) \/ RevokeOpen(i) PROVE ValuesStep
    <2>1. PICK v : /\ v \in {ValOf(Shown[i]), Blank} /\ i \in DOMAIN Shown
                   /\ OpenAfresh("scannerEdit", i, v) \/ Open("revoke", i, v)
        BY <1>8 DEF ScannerEditOpen, RevokeOpen, ScannerRow, Listed
    <2>2. DlgFits(area, Form("scannerEdit", i, v)) /\ DlgFits(area, Form("revoke", i, v))
        BY <2>1, ListedForm DEF FirstKinds, NewKinds
    <2>3. QED
        BY <2>1, <2>2, OpenValues
<1>9. ASSUME NEW i \in Ids, OpenRegenerate(i) PROVE ValuesStep
    <2>1. DlgFits(area, Form("rotate", i, Blank))
        BY RowFormFits DEF FirstKinds, NewKinds
    <2>2. UNCHANGED <<area, auth, srv, held, sel, used, calls>> /\ dlg' = Form("rotate", i, Blank)
        BY <1>9 DEF OpenRegenerate, Open, nav, server
    <2>3. QED
        BY <2>1, <2>2 DEF ValuesStep, Counts
<1>10. ASSUME NEW i \in Ids, HandleSetDefault(i) PROVE ValuesStep
    <2>1. Asks(area, "default", "default", i, Blank)
        BY BlankFits DEF Asks, Ops
    <2>2. QED
        BY <1>10, <2>1, SubmitValues DEF HandleSetDefault
<1>11. ASSUME NEW kind, Close(kind) PROVE ValuesStep
    BY <1>11, CloseValues
<1>12. ASSUME NEW c \in calls, ScannerSchedule(c) PROVE ValuesStep
    <2>1. PICK d : d = [c EXCEPT !.op = "cfg", !.rest = <<>>, !.st = "sent"]
        OBVIOUS
    <2>2. area = "scanners" /\ c.by = "scannerNew" /\ c.st = "done"
        BY <1>12 DEF ScannerSchedule, OriginInv, AtHome
    <2>3. CallFits(area, d)
        BY <2>1, <2>2, NextStepFits DEF Unnamed
    <2>4. calls' = (calls \ {c}) \cup {d} /\ UNCHANGED <<area, auth, srv, used, held, sel, dlg>>
        BY <1>12, <2>1 DEF ScannerSchedule, nav, server, pane
    <2>5. QED
        BY <2>3, <2>4 DEF ValuesStep, ValuesInv, Counts
<1>13. ASSUME NEW c \in calls, HandleCreated(c) \/ HandleRegenerated(c) \/ ScannerCreateFails(c)
       PROVE  ValuesStep
    BY <1>13, DropValues DEF HandleCreated, HandleRegenerated, ScannerCreateFails, Finish, nav, server
<1>14. ASSUME NEW c \in calls, ScannerSettles(c) PROVE ValuesStep
    BY <1>14, SettleValues DEF ScannerSettles
<1>15. QED
    BY <1>1, <1>2, <1>3, <1>4, <1>5, <1>6, <1>7, <1>8, <1>9, <1>10, <1>11, <1>12, <1>13, <1>14
       DEF ScannersNext

\* The page's own copy of the second factor's status.
LEMMA StatusFits ==
    ASSUME ValuesInv, NEW c \in calls PROVE Status(c) = sel \/ RowsFor(area, Status(c))
<1>1. PICK r : r = [live |-> TRUE, on |-> c.val.on, cfg |-> 1, tags |-> {}]
    OBVIOUS
<1>2. r \in RowFor(area, 1)
    BY <1>1, IdsApart DEF ValuesInv, CallFits, Asks, ValFor, Val, RowFor, Row, Vals
<1>3. Status(c) = sel \/ (DOMAIN Status(c) = {1} /\ Status(c)[1] = r)
    BY <1>1 DEF Status
<1>4. QED
    BY <1>2, <1>3, IdsApart DEF RowsFor

\* The steps of the second factor keep values with their rows.
LEMMA TwoFactorValues ==
    ASSUME OriginInv, QueryInv, ValuesInv, TwoFactorNext PROVE ValuesStep
<1>0. \A kind \in {"setup", "disable", "recovery"} : DlgFits(area, Form(kind, 1, Blank))
    BY RecordFormFits, BlankFits
<1>1. CASE Account2FAPage
    <2>1. CallFits(area, Read("status", 1))
        BY ReadFits, IdsApart
    <2>2. QED
        BY <1>1, <2>1 DEF Account2FAPage, ValuesStep, ValuesInv, Counts, server, pane
<1>2. CASE StartSetup
    <2>1. Asks(area, "start", "touch", 1, Blank)
        BY BlankFits, IdsApart DEF Asks, Ops
    <2>2. QED
        BY <1>2, <2>1, SubmitValues DEF StartSetup
<1>3. CASE ConfirmSetup \/ Disable \/ RecoveryCodes
    <2>1. /\ Asks(area, "setup", "enrol", 1, Blank) /\ Asks(area, "disable", "unenrol", 1, Blank)
          /\ Asks(area, "recovery", "rotate", 1, Blank)
        BY BlankFits, IdsApart DEF Asks, Ops
    <2>2. QED
        BY <1>3, <2>1, SubmitValues DEF ConfirmSetup, Disable, RecoveryCodes
<1>4. CASE DisableOpen \/ RecoveryOpen
    BY <1>0, <1>4, OpenValues DEF DisableOpen, RecoveryOpen
<1>5. CASE CancelSetup \/ Close("disable") \/ Close("recovery")
    BY <1>5, CloseValues DEF CancelSetup
<1>6. ASSUME NEW c \in calls, StatusLoaded(c) \/ TwoFactorSettles(c) PROVE ValuesStep
    <2>1. sel' = sel \/ RowsFor(area, sel')
        BY <1>6, StatusFits DEF StatusLoaded, TwoFactorSettles
    <2>2. QED
        BY <1>6, <2>1 DEF StatusLoaded, TwoFactorSettles, ValuesStep, ValuesInv, Counts, nav, server
<1>7. ASSUME NEW c \in calls, SetupStarted(c) PROVE ValuesStep
    BY <1>0, <1>7 DEF SetupStarted, ValuesStep, ValuesInv, Counts, nav, server
<1>8. ASSUME NEW c \in calls, TwoFactorChanged(c) PROVE ValuesStep
    <2>1. PICK d : d = [c EXCEPT !.op = "read", !.rest = <<>>, !.st = "sent"]
        OBVIOUS
    <2>2. CallFits(area, d)
        BY <1>8, <2>1, NextStepFits DEF TwoFactorChanged, Unnamed
    <2>3. /\ calls' = (calls \ {c}) \cup {d} /\ dlg' \in {dlg, NoDlg}
          /\ UNCHANGED <<area, auth, srv, used, held, sel>>
        BY <1>8, <2>1 DEF TwoFactorChanged, nav, server
    <2>4. QED
        BY <2>2, <2>3, NoFormFits DEF ValuesStep, ValuesInv, Counts
<1>9. QED
    BY <1>1, <1>2, <1>3, <1>4, <1>5, <1>6, <1>7, <1>8 DEF TwoFactorNext

\* The steps of the API keys keep values with their rows.
LEMMA KeysValues ==
    ASSUME OriginInv, QueryInv, ValuesInv, KeysNext PROVE ValuesStep
<1>1. CASE APIKeysPage
    BY <1>1, MountValues DEF APIKeysPage
<1>2. CASE AccountAPIKeysPage
    <2>1. RowsFor(area, cache["all"].rows)
        BY DEF ValuesInv, TableInv, Keys
    <2>2. QED
        BY <1>2, <2>1 DEF AccountAPIKeysPage, ValuesStep, ValuesInv, Counts, server
<1>3. CASE HandleRevoke \/ RevokeKey
    BY <1>3, DeleteValues DEF HandleRevoke, RevokeKey, RowKinds
<1>4. CASE CreateKeyOpen
    BY <1>4, NewFormFits, OpenValues DEF CreateKeyOpen, RowKinds, FirstKinds
<1>5. CASE CreateKeyType
    BY <1>5, TypeValues DEF CreateKeyType, Fields
<1>6. CASE CreateKey
    <2>1. dlg.kind = "key" /\ area = "apikeys" /\ dlg.kind \in OwnKinds
        BY <1>6 DEF CreateKey, Submit, OriginInv, AtHome, OwnKinds, NewKinds
    <2>2. dlg.id = 0
        BY <2>1 DEF ValuesInv, DlgFits, NewKinds
    <2>3. Asks(area, "key", "create", 0, dlg.val)
        BY <2>1, <2>2, FormAsks
    <2>4. QED
        BY <1>6, <2>3, SubmitValues DEF CreateKey
<1>7. ASSUME NEW i \in Ids, RevokeKeyOpen(i) \/ AdminRevokeOpen(i) PROVE ValuesStep
    BY <1>7, OpenValues, RowFormFits DEF RevokeKeyOpen, AdminRevokeOpen, FirstKinds, NewKinds
<1>8. ASSUME NEW kind, Close(kind) PROVE ValuesStep
    BY <1>8, CloseValues
<1>9. ASSUME NEW c \in calls, KeyCreated(c) PROVE ValuesStep
    <2>1. c.id \in Ids /\ c.val \in ValFor(area, c.id)
        BY <1>9 DEF KeyCreated, ValuesInv, CallFits, Asks, Unnamed
    <2>2. PICK r : r = [live |-> TRUE, on |-> FALSE, cfg |-> c.val.cfg, tags |-> {}]
        OBVIOUS
    <2>3. r \in RowFor(area, c.id)
        BY <2>1, <2>2 DEF ValFor, Val, RowFor, Row
    <2>4. sel' = sel \/ sel' = [i \in DOMAIN sel \cup {c.id} |-> IF i = c.id THEN r ELSE sel[i]]
        BY <1>9, <2>2 DEF KeyCreated
    <2>5. sel' = sel \/ RowsFor(area, sel')
        BY <2>1, <2>3, <2>4, EnterFits
    <2>6. QED
        BY <1>9, <2>5, NoFormFits
           DEF KeyCreated, Finish, ValuesStep, ValuesInv, Counts, nav, server
<1>10. ASSUME NEW c \in calls, KeyRevoked(c) PROVE ValuesStep
    <2>1. sel' = sel \/ sel' = [i \in DOMAIN sel \ {c.id} |-> sel[i]]
        BY <1>10 DEF KeyRevoked
    <2>2. sel' = sel \/ RowsFor(area, sel')
        BY <2>1 DEF ValuesInv, TableInv, RowsFor
    <2>3. QED
        BY <1>10, <2>2, NoFormFits
           DEF KeyRevoked, Finish, ValuesStep, ValuesInv, Counts, nav, server
<1>11. ASSUME NEW c \in calls, KeyFails(c) \/ AdminRevokeSettles(c) PROVE ValuesStep
    BY <1>11, SettleValues DEF KeyFails, AdminRevokeSettles
<1>12. QED
    BY <1>1, <1>2, <1>3, <1>4, <1>5, <1>6, <1>7, <1>8, <1>9, <1>10, <1>11 DEF KeysNext

\* The steps of the tags keep values with their rows.
LEMMA TagsValues ==
    ASSUME OriginInv, QueryInv, ValuesInv, TagsNext PROVE ValuesStep
<1>1. CASE TagsPage
    BY <1>1, MountValues DEF TagsPage
<1>2. CASE TagType
    BY <1>2, TypeValues DEF TagType, Edit, Fields
<1>3. CASE TagDelete
    BY <1>3, DeleteValues DEF TagDelete, RowKinds
<1>4. ASSUME NEW kind \in {"tag", "category"}, TagNew(kind) PROVE ValuesStep
    <2>1. DlgFits(area, Form(kind, 0, JustName))
        BY NewFormFits DEF RowKinds, FirstKinds
    <2>2. QED
        BY <1>4, <2>1, OpenValues DEF TagNew
<1>5. ASSUME NEW kind \in {"tag", "category"}, TagSubmit(kind) PROVE ValuesStep
    <2>1. PICK op \in {"create", "cfg"} :
              /\ op = (IF dlg.id = 0 THEN "create" ELSE "cfg")
              /\ Submit(kind, {Call(kind, op, dlg.id, dlg.val, <<>>)})
        BY <1>5 DEF TagSubmit
    <2>2. dlg.kind = kind /\ area = "tags" /\ dlg.kind \in OwnKinds
        BY <2>1 DEF Submit, OriginInv, AtHome, OwnKinds
    <2>3. Asks(area, kind, op, dlg.id, dlg.val)
        BY <2>1, <2>2, FormAsks
    <2>4. QED
        BY <2>1, <2>3, SubmitValues
<1>6. ASSUME NEW kind \in {"tag", "category"}, NEW i \in Ids, TagEdit(kind, i) PROVE ValuesStep
    <2>1. PICK v : v = ValOf(Shown[i]) /\ i \in DOMAIN Shown /\ Open(kind, i, v)
        BY <1>6 DEF TagEdit, TagRow, Listed
    <2>2. DlgFits(area, Form(kind, i, v))
        BY <2>1, ListedForm DEF FirstKinds, NewKinds
    <2>3. QED
        BY <2>1, <2>2, OpenValues
<1>7. ASSUME NEW i \in Ids, TagDeleteOpen(i) PROVE ValuesStep
    BY <1>7, OpenValues, RowFormFits DEF TagDeleteOpen, FirstKinds, NewKinds
<1>8. ASSUME NEW kind, Close(kind) PROVE ValuesStep
    BY <1>8, CloseValues
<1>9. ASSUME NEW c \in calls, TagSettles(c) PROVE ValuesStep
    BY <1>9, SettleValues DEF TagSettles
<1>10. QED
    BY <1>1, <1>2, <1>3, <1>4, <1>5, <1>6, <1>7, <1>8, <1>9 DEF TagsNext

\* The steps of the scheduled jobs keep values with their rows.
LEMMA JobsValues ==
    ASSUME OriginInv, QueryInv, ValuesInv, JobsNext PROVE ValuesStep
<1>0. DOMAIN dlg = DlgFields /\ DlgFits(area, dlg)
    BY DEF OriginInv, ValuesInv
<1>1. CASE MaintenancePage
    BY <1>1, MountValues DEF MaintenancePage
<1>2. CASE JobType
    BY <1>2, TypeValues DEF JobType, Edit, Fields
<1>3. CASE JobClose
    BY <1>3, CloseValues DEF JobClose
<1>4. CASE JobSave
    <2>1. PICK cs : cs = JobChanges /\ Send(cs) /\ dlg.kind = "job"
        BY <1>4 DEF JobSave, Submit
    <2>2. area = "jobs" /\ dlg.kind \in OwnKinds /\ dlg.id \in Ids /\ dlg.id # 0
        BY <1>0, <2>1, IdsApart DEF OriginInv, AtHome, OwnKinds, RowKinds, DlgFits, Empty
    <2>3. Asks(area, "job", "put", dlg.id, dlg.val) /\ Asks(area, "job", "tags", dlg.id, dlg.val)
        BY <2>2, FormAsks
    <2>4. CountInv /\ used.sent < MaxSent
        BY <2>1 DEF ValuesInv, Send
    <2>5. /\ CallFits(area, Call("job", "put", dlg.id, dlg.val, <<>>))
          /\ CallFits(area, Call("job", "tags", dlg.id, dlg.val, <<>>))
        BY <2>3, <2>4, NewCallFits
    <2>6. \A d \in cs : CallFits(area, d)
        BY <2>1, <2>5 DEF JobChanges
    <2>7. Counts /\ calls' = calls \cup cs
        BY <2>1 DEF Send, Counts
    <2>8. UNCHANGED <<area, auth, srv, held, sel, dlg>>
        BY <1>4 DEF JobSave, Submit, nav, server
    <2>9. QED
        BY <1>0, <2>6, <2>7, <2>8 DEF ValuesStep
<1>5. CASE JobSaveNothing
    BY <1>5, NoFormFits DEF JobSaveNothing, ValuesStep, Counts, nav, server
<1>6. CASE JobRunInDialog
    <2>1. Asks(area, "run", "touch", dlg.id, Blank)
        BY <1>6, RowAsks DEF JobRunInDialog, RowKinds
    <2>2. Send({Call("run", "touch", dlg.id, Blank, <<>>)})
          /\ UNCHANGED <<area, auth, srv, held, sel, dlg>>
        BY <1>6 DEF JobRunInDialog, nav, server
    <2>3. QED
        BY <1>0, <2>1, <2>2, SendValues DEF ValuesStep
<1>7. ASSUME NEW i \in Ids, JobEditOpen(i) PROVE ValuesStep
    <2>1. PICK v : v = ValOf(Shown[i]) /\ v \in ValFor(area, i)
        BY <1>7, ListedFits DEF JobEditOpen, JobRow, Listed
    <2>2. PICK u : u = [v EXCEPT !.tags = {}] /\ u \in ValFor(area, i)
        BY <2>1, TagsFit
    <2>3. DlgFits(area, Form("job", i, u))
        BY <2>2, FormFits DEF FirstKinds, NewKinds
    <2>4. CallFits(area, Read("retention", i))
        BY ReadFits
    <2>5. QED
        BY <1>7, <2>1, <2>2, <2>3, <2>4 DEF JobEditOpen, ValuesStep, Counts, nav, server
<1>8. ASSUME NEW i \in Ids, JobRun(i) PROVE ValuesStep
    <2>1. Asks(area, "runMenu", "touch", i, Blank)
        BY BlankFits DEF Asks, Ops
    <2>2. QED
        BY <1>8, <2>1, SubmitValues DEF JobRun
<1>9. ASSUME NEW i \in Ids, JobToggle(i) PROVE ValuesStep
    <2>1. PICK v : v = Switched(Shown[i]) /\ i \in DOMAIN Shown /\ area = "jobs"
        BY <1>9 DEF JobToggle, JobRow, Listed, Clear, On
    <2>2. v \in ValFor(area, i)
        BY <2>1, SwitchedFits
    <2>3. Asks(area, "toggleJob", "put", i, v)
        BY <2>1, <2>2 DEF Asks, Ops
    <2>4. QED
        BY <1>9, <2>1, <2>3, SubmitValues DEF JobToggle
<1>10. ASSUME NEW c \in calls, RetentionLoaded(c) PROVE ValuesStep
    <2>1. CASE dlg' = dlg
        BY <1>10, <2>1, DropValues DEF RetentionLoaded, nav, server
    <2>2. CASE dlg' # dlg
        <3>1. /\ dlg' = [dlg EXCEPT !.val.tags = c.val.tags, !.base.tags = c.val.tags,
                                    !.typed = @ \ {"tags"}]
              /\ dlg.kind = "job"
            BY <1>10, <2>2 DEF RetentionLoaded
        <3>2. c.val.tags \in SUBSET Tags
            BY DEF ValuesInv, CallFits, Asks, ValFor, Val
        <3>3. PICK v, b : /\ v = [dlg.val EXCEPT !.tags = c.val.tags]
                          /\ b = [dlg.base EXCEPT !.tags = c.val.tags]
            OBVIOUS
        <3>4. v \in ValFor(area, dlg.id) /\ b \in ValFor(area, dlg.id)
            BY <1>0, <3>1, <3>2, <3>3, TagsFit DEF DlgFits, OwnKinds, RowKinds
        <3>5. /\ dlg'.val = v /\ dlg'.base = b /\ dlg'.typed = dlg.typed \ {"tags"}
              /\ dlg'.id = dlg.id /\ dlg'.kind = dlg.kind
            BY <1>0, <3>1, <3>3 DEF DlgFields
        <3>6. DlgFits(area, dlg')
            BY <1>0, <3>4, <3>5 DEF DlgFits, ValFor
        <3>7. QED
            BY <1>10, <3>6 DEF RetentionLoaded, ValuesStep, Counts, nav, server
    <2>3. QED
        BY <2>1, <2>2
<1>11. ASSUME NEW c \in calls, JobSaved(c) PROVE ValuesStep
    <2>1. CASE FinishAndInvalidate(c)
        BY <2>1, SettleValues
    <2>2. CASE ~FinishAndInvalidate(c)
        BY <1>11, <2>2, DropValues DEF JobSaved, nav, server, pane
    <2>3. QED
        BY <2>1, <2>2
<1>12. ASSUME NEW c \in calls, JobSaveFails(c) PROVE ValuesStep
    <2>1. ASSUME NEW d \in calls' PROVE d \in calls \/ CallFits(area, d)
        <3>1. CASE d \in calls
            BY <3>1
        <3>2. CASE d \notin calls
            <4>1. PICK o \in calls : d = [o EXCEPT !.by = "dropped"] /\ o.by = "job"
                BY <1>12, <2>1, <3>2 DEF JobSaveFails, OtherChange
            <4>2. DOMAIN o = CallFields /\ CallFits(area, o)
                BY DEF OriginInv, ValuesInv
            <4>3. d.n = o.n /\ d.op = o.op /\ d.id = o.id /\ d.val = o.val /\ d.st = o.st
                  /\ d.by = "dropped"
                BY <4>1, <4>2 DEF CallFields
            <4>4. QED
                BY <4>1, <4>2, <4>3, MarkFits DEF Unnamed
        <3>3. QED
            BY <3>1, <3>2
    <2>2. QED
        BY <1>0, <1>12, <2>1 DEF JobSaveFails, ValuesStep, Counts, nav, server
<1>13. ASSUME NEW c \in calls, Dropped(c) PROVE ValuesStep
    BY <1>13, DropValues DEF Dropped, nav, server, pane
<1>14. ASSUME NEW c \in calls, JobSettles(c) PROVE ValuesStep
    BY <1>14, SettleValues DEF JobSettles
<1>15. QED
    BY <1>1, <1>2, <1>3, <1>4, <1>5, <1>6, <1>7, <1>8, <1>9, <1>10, <1>11, <1>12, <1>13, <1>14
       DEF JobsNext

-----------------------------------------------------------------------------
\* Putting it together.  The rows of the cache and of the queries stay rows.
RowsFollow == \A k \in Keys : RowsFor(area, cache'[k].rows) /\ RowsFor(area, fetch'[k].rows)

\* Rows that are dropped, or kept, stay rows.
LEMMA KeptRowsFollow ==
    ASSUME ValuesInv, \A k \in Keys : /\ cache'[k].rows \in {cache[k].rows, NoRows}
                                      /\ fetch'[k].rows \in {fetch[k].rows, NoRows}
    PROVE  RowsFollow
<1>1. RowsFor(area, NoRows)
    BY DEF RowsFor, NoRows
<1>2. QED
    BY <1>1 DEF RowsFollow, ValuesInv, TableInv

\* The pages ask, refetch, invalidate, and put an answer in the record's place.
LEMMA QueryRows == ASSUME QueryInv, ValuesInv, QueryStep PROVE RowsFollow
<1>0. view \in Keys /\ DOMAIN cache = Keys
    BY DEF QueryInv, QueryType
<1>1. CASE AsksOnly
    BY <1>1, KeptRowsFollow DEF AsksOnly
<1>2. CASE Refetches
    BY <1>0, <1>2, AskedRows, KeptRowsFollow DEF Refetches
<1>3. CASE Invalidates
    <2>1. \A k \in Keys : cache'[k].rows = cache[k].rows
        BY <1>3 DEF Invalidates, Invalidate, QueryInv, QueryType
    <2>2. fetch' = fetch \/ fetch' = Refetch(view)
        BY <1>3 DEF Invalidates
    <2>3. \A k \in Keys : fetch'[k].rows \in {fetch[k].rows, NoRows}
        BY <1>0, <2>2, AskedRows
    <2>4. QED
        BY <2>1, <2>3, KeptRowsFollow
<1>4. CASE SetsDetail
    <2>1. PICK c \in calls : c.by \in {"toggle", "notes"} /\ cache' = SetQueryData(c)
        BY <1>4 DEF SetsDetail
    <2>2. PICK rows : rows = Updated(c) /\ RowsFor(area, rows)
        BY <2>1, UpdatedFits
    <2>3. fetch' = fetch /\ \A k \in Keys : cache'[k].rows \in {cache[k].rows, rows}
        BY <1>0, <1>4, <2>1, <2>2 DEF SetsDetail, SetQueryData
    <2>4. QED
        BY <2>2, <2>3 DEF RowsFollow, ValuesInv, TableInv
<1>5. QED
    BY <1>1, <1>2, <1>3, <1>4 DEF QueryStep

\* The counters stay below their bounds.
LEMMA CountsKeep ==
    ASSUME ValuesInv, area' = area, auth' \in {auth, TRUE, FALSE}, Counts PROVE CountInv'
<1>1. MaxEvents[area] \in Nat /\ MaxSent \in Nat /\ CountInv
    BY WebBounds DEF ValuesInv, CountInv
<1>2. auth' \in BOOLEAN
    BY <1>1, Zenon DEF CountInv
<1>3. /\ DOMAIN used' = {"sent", "events"}
      /\ used'.sent \in 0..MaxSent /\ used'.events \in 0..MaxEvents[area]
    BY <1>1 DEF Counts, Event, CountInv
<1>4. QED
    BY <1>1, <1>2, <1>3 DEF CountInv

\* A step that handles its values well keeps the invariant.
LEMMA ValuesFollow ==
    ASSUME QueryInv, ValuesInv, ValuesStep, RowsFollow, RevealInv', ResultsInv' PROVE ValuesInv'
<1>1. area' = area /\ srv' = srv
    BY DEF ValuesStep
<1>2. RowsFor(area, held') /\ RowsFor(area, sel')
    BY ShownFits DEF ValuesStep, ValuesInv, TableInv
<1>3. TableInv'
    BY <1>1, <1>2 DEF TableInv, RowsFollow, ValuesInv
<1>4. CountInv'
    BY <1>1, CountsKeep DEF ValuesStep
<1>5. \A d \in calls' : CallFits(area, d)
    BY DEF ValuesStep, ValuesInv
<1>6. DlgFits(area, dlg')
    BY DEF ValuesStep
<1>7. QED
    BY <1>1, <1>3, <1>4, <1>5, <1>6 DEF ValuesInv

-----------------------------------------------------------------------------
\* Secrets.  What becomes of a secret is one of the fates.
LEMMA FateFits ==
    ASSUME SecretInv, ValuesInv, NEW n, NEW f \in Fates, NEW m \in 1..MaxSent
    PROVE  Fate(n, f)[m] \in Fates
BY DEF Fate, SecretInv, FateInv, ValuesInv, RevealInv

\* A secret on display is that of a request.
LEMMA DisplayFits ==
    ASSUME SecretInv, ValuesInv, NEW c \in calls, reveal' = Display(c) PROVE RevealInv'
<1>1. c.n \in 0..MaxSent /\ DOMAIN reveal = {"on", "fate"} /\ DOMAIN reveal.fate = 1..MaxSent
    BY DEF ValuesInv, CallFits, SecretInv, FateInv
<1>2. CASE c.here
    <2>1. reveal'.on = c.n
        BY <1>2 DEF Display
    <2>2. \A m \in 1..MaxSent : reveal'.fate[m] \in {"shown", "replaced", reveal.fate[m]}
        BY <1>1, <1>2 DEF Display
    <2>3. QED
        BY <1>1, <2>1, <2>2 DEF RevealInv, ValuesInv, Fates
<1>3. CASE ~c.here
    <2>1. reveal' = [reveal EXCEPT !.fate = Fate(c.n, "left")]
        BY <1>3 DEF Display
    <2>2. reveal'.on = reveal.on /\ reveal'.fate = Fate(c.n, "left")
        BY <1>1, <2>1
    <2>3. QED
        BY <2>2, FateFits DEF RevealInv, ValuesInv, Fates
<1>4. QED
    BY <1>2, <1>3

\* The pages that hand out secrets leave each with a fate.
LEMMA HandsFit ==
    ASSUME OriginInv, SecretInv, ValuesInv, ScannersNext \/ TwoFactorNext \/ KeysNext PROVE RevealInv'
<1>1. CASE UNCHANGED reveal
    BY <1>1 DEF ValuesInv, RevealInv
<1>2. ASSUME NEW c \in calls, ScannerCreateFails(c) PROVE RevealInv'
    <2>1. CASE UNCHANGED reveal
        BY <1>1, <2>1
    <2>2. CASE reveal' = [reveal EXCEPT !.fate = Fate(c.n, "followup")]
        <3>1. reveal'.on = reveal.on /\ reveal'.fate = Fate(c.n, "followup")
            BY <2>2 DEF SecretInv, FateInv
        <3>2. QED
            BY <3>1, FateFits DEF RevealInv, ValuesInv, Fates
    <2>3. QED
        BY <1>2, <2>1, <2>2 DEF ScannerCreateFails
<1>3. ASSUME NEW c \in calls, HandleCreated(c) \/ HandleRegenerated(c) \/ KeyCreated(c)
      PROVE  RevealInv'
    BY <1>3, DisplayFits DEF HandleCreated, HandleRegenerated, KeyCreated
<1>4. ASSUME NEW c \in calls, TwoFactorChanged(c) PROVE RevealInv'
    BY <1>1, <1>4, DisplayFits DEF TwoFactorChanged
<1>5. ASSUME \/ ScannersPage \/ ScannerCreateOpen \/ ScannerCreateType \/ ScannerCreate
             \/ ScannerEditType \/ ScannerEdit \/ Regenerate \/ Revoke
             \/ \E i \in Ids : \/ ScannerEditOpen(i) \/ OpenRegenerate(i)
                               \/ RevokeOpen(i) \/ HandleSetDefault(i)
      PROVE  UNCHANGED reveal
    BY <1>5 DEF ScannersPage, ScannerCreateOpen, ScannerCreateType, ScannerCreate, ScannerEditType,
       ScannerEdit, Regenerate, Revoke, ScannerEditOpen, OpenRegenerate, RevokeOpen,
       HandleSetDefault, Mount, OpenAfresh, Open, Type, Submit, Press, Delete
<1>6. ASSUME NEW kind, Close(kind) PROVE UNCHANGED reveal
    BY <1>6 DEF Close
<1>7. ASSUME NEW c \in calls, ScannerSchedule(c) \/ ScannerSettles(c) PROVE UNCHANGED reveal
    BY <1>7 DEF ScannerSchedule, ScannerSettles, FinishAndRefetch, RefetchAfter, Fail
<1>8. ASSUME \/ Account2FAPage \/ StartSetup \/ ConfirmSetup \/ CancelSetup
             \/ DisableOpen \/ Disable \/ RecoveryOpen \/ RecoveryCodes
      PROVE  UNCHANGED reveal
    BY <1>8 DEF Account2FAPage, StartSetup, ConfirmSetup, CancelSetup, DisableOpen, Disable,
       RecoveryOpen, RecoveryCodes, Press, Submit, Close, OpenReset
<1>9. ASSUME NEW c \in calls, StatusLoaded(c) \/ SetupStarted(c) \/ TwoFactorSettles(c)
      PROVE  UNCHANGED reveal
    BY <1>9 DEF StatusLoaded, SetupStarted, TwoFactorSettles
<1>10. ASSUME \/ APIKeysPage \/ HandleRevoke \/ AccountAPIKeysPage \/ CreateKeyOpen \/ CreateKeyType
              \/ CreateKey \/ RevokeKey \/ \E i \in Ids : RevokeKeyOpen(i) \/ AdminRevokeOpen(i)
       PROVE  UNCHANGED reveal
    BY <1>10 DEF APIKeysPage, HandleRevoke, AccountAPIKeysPage, CreateKeyOpen, CreateKeyType,
       CreateKey, RevokeKey, RevokeKeyOpen, AdminRevokeOpen, Mount, OpenReset, Open, Type, Submit,
       Delete
<1>11. ASSUME NEW c \in calls, KeyRevoked(c) \/ KeyFails(c) \/ AdminRevokeSettles(c)
       PROVE  UNCHANGED reveal
    BY <1>11 DEF KeyRevoked, KeyFails, AdminRevokeSettles, FinishAndRefetch, RefetchAfter, Fail
<1>12. CASE ScannersNext
    BY <1>1, <1>2, <1>3, <1>5, <1>6, <1>7, <1>12 DEF ScannersNext
<1>13. CASE TwoFactorNext
    BY <1>1, <1>4, <1>6, <1>8, <1>9, <1>13 DEF TwoFactorNext
<1>14. CASE KeysNext
    BY <1>1, <1>3, <1>6, <1>10, <1>11, <1>14 DEF KeysNext
<1>15. QED
    BY <1>12, <1>13, <1>14

-----------------------------------------------------------------------------
\* Results.  Requests of a bulk dialog stay about the rows it was run for.
LEMMA ResultsKeep ==
    ASSUME ValuesInv, UNCHANGED bulk,
           \A d \in calls' : d.by \in BulkKinds /\ d.here =>
               \E c \in calls : c.by = d.by /\ c.here /\ c.id = d.id /\ c.op = d.op
    PROVE  ResultsInv'
BY DEF ValuesInv, ResultsInv

\* With its page a bulk dialog goes, and its requests are nobody's.
LEMMA ResultsGo ==
    ASSUME OriginInv, bulk' = NoBulk, NEW S \in SUBSET calls, calls' = Orphaned(S) \/ calls' = {}
    PROVE  ResultsInv'
<1>1. \A d \in calls' : ~d.here
    BY DEF Orphaned, OriginInv, CallFields
<1>2. QED
    BY <1>1 DEF ResultsInv, NoBulk

\* Whatever happens to a bulk dialog.
LEMMA MovesResults ==
    ASSUME OriginInv, BulkInv, ValuesInv, area \in SelectAreas, BulkMoves PROVE ResultsInv'
<1>0. /\ DOMAIN bulk = {"phase", "ids", "failed"}
      /\ \A c \in calls : c.by \in BulkKinds /\ c.here => dlg.kind = c.by /\ bulk.phase = "running"
    BY DEF BulkInv, CallInv
<1>1. CASE BulkKept
    BY <1>1, ResultsKeep DEF BulkKept
<1>2. ASSUME NEW kind \in BulkKinds, dlg.kind = "none", BulkOpen(kind) PROVE ResultsInv'
    <2>1. bulk' = [NoBulk EXCEPT !.phase = "confirm"] /\ calls' = calls
        BY <1>2 DEF BulkOpen
    <2>2. bulk'.ids = {} /\ bulk'.failed = {}
        BY <2>1 DEF NoBulk
    <2>3. QED
        BY <1>0, <1>2, <2>1, <2>2 DEF ResultsInv, BulkKinds, DeleteKinds
<1>3. ASSUME NEW kind \in BulkKinds, BulkClose(kind) PROVE ResultsInv'
    <2>1. bulk' = NoBulk /\ calls' = calls /\ bulk.phase # "running"
        BY <1>3 DEF BulkClose
    <2>2. QED
        BY <1>0, <2>1 DEF ResultsInv, NoBulk
<1>4. ASSUME NEW kind \in BulkKinds, NEW op \in {"delete", "purge", "tags"}, NEW val,
             BulkRun(kind, op, val)
      PROVE  ResultsInv'
    <2>1. PICK cs : calls' = calls \cup cs /\ cs = {Call(kind, op, i, val[i], <<>>) : i \in DOMAIN sel}
        BY <1>4 DEF BulkRun, Send
    <2>2. bulk' = [phase |-> "running", ids |-> DOMAIN sel, failed |-> {}] /\ bulk.phase = "confirm"
        BY <1>4 DEF BulkRun
    <2>3. \A d \in cs : d.id \in DOMAIN sel /\ d.op # "create"
        BY <2>1 DEF Call
    <2>4. DOMAIN sel \subseteq Ids
        BY DEF ValuesInv, TableInv, RowsFor
    <2>5. QED
        BY <1>0, <2>1, <2>2, <2>3, <2>4 DEF ResultsInv
<1>5. ASSUME NEW c \in calls, c.by \in BulkKinds, BulkSettle(c) PROVE ResultsInv'
    <2>1. CASE ~c.here
        BY <1>5, <2>1, ResultsKeep DEF BulkSettle
    <2>2. CASE c.here
        <3>1. PICK f, p : /\ f = (IF c.st = "done" THEN bulk.failed ELSE bulk.failed \cup {c.id})
                          /\ bulk' = [bulk EXCEPT !.failed = f, !.phase = p]
            BY <1>5, <2>2 DEF BulkSettle
        <3>2. bulk'.ids = bulk.ids /\ bulk'.failed = f /\ calls' = calls \ {c}
            BY <1>0, <1>5, <3>1 DEF BulkSettle
        <3>3. c.id \in bulk.ids /\ f \subseteq bulk.ids
            BY <1>5, <2>2, <3>1 DEF ValuesInv, ResultsInv
        <3>4. QED
            BY <3>2, <3>3 DEF ValuesInv, ResultsInv
    <2>3. QED
        BY <2>1, <2>2
<1>6. ASSUME NEW S \in SUBSET calls, calls' = Orphaned(S), bulk' = NoBulk PROVE ResultsInv'
    BY <1>6, ResultsGo
<1>7. QED
    BY <1>1, <1>2, <1>3, <1>4, <1>5, <1>6 DEF BulkMoves

\* Pages without a bulk dialog have no results.
BulkIdle == bulk' \in {bulk, NoBulk}

\* The record pages.
LEMMA FormsBulkIdle ==
    ASSUME InboxNext \/ EndpointNext \/ FormNext \/ SettingsNext \/ NotifyNext \/ TemplatesNext
    PROVE  BulkIdle
<1>1. CASE InboxNext
    BY <1>1 DEF BulkIdle, InboxNext, DiscoveryInboxPage, ShowDismissed, Dismiss, InboxDeleteOpen,
       Promote, InboxDelete, DismissSettles, InboxDeleteSettles, Mount, Turn, Open, Submit, Close,
       FinishAndRefetch, FinishAndInvalidate, RefetchAfter, Fail, pane
<1>2. CASE EndpointNext
    BY <1>2 DEF BulkIdle, EndpointNext, EndpointDetailPage, ToggleEnabled, NotesOpen, NotesType,
       NotesSave, NotesClose, DetailDeleteOpen, DetailDelete, FormMount, ToggleSettles,
       NotesSettles, DetailDeleted, FormTagsLoaded, Mount, Press, Open, Type, Submit, Close, Fail, pane
<1>3. CASE FormNext
    BY <1>3 DEF BulkIdle, FormNext, FormEdit, FormTags, FormSave, FormLoaded, FormStep, FormSaved,
       FormFails, Edit, Type, Submit, Fail, pane
<1>4. CASE SettingsNext
    BY <1>4 DEF BulkIdle, SettingsNext, MailConfigPage, MountForm, MailDefaults, MailEdit, MailSave,
       MailTest, GeneralSettingsPage, ThresholdsEdit, ThresholdsSave, GroupFormPage, GroupEdit,
       GroupHosts, GroupSave, MailSettles, MailTestSettles, ThresholdsLoaded, ThresholdsSettle,
       GroupSaved, Edit, Type, Submit, FinishOnly, Fail, pane
<1>5. CASE NotifyNext
    BY <1>5 DEF BulkIdle, NotifyNext, AccountNotificationsPage, SaveNotify, SubscriptionEdit,
       SaveTags, SaveNotifySettles, SaveTagsSettles, Edit, Type
<1>6. CASE TemplatesNext
    BY <1>6 DEF BulkIdle, TemplatesNext, NotificationTemplatesPage, TemplateEdit, TemplateSave,
       TemplateReset, ChooseTemplate, TemplateResetStep, TemplateSettles, TemplateFails, Edit,
       Type, Submit, Fail, pane
<1>7. QED
    BY <1>1, <1>2, <1>3, <1>4, <1>5, <1>6

\* The administration and account pages.
LEMMA AdminBulkIdle ==
    ASSUME \/ NetworksNext \/ UsersNext \/ ScannersNext \/ TwoFactorNext \/ KeysNext
           \/ TagsNext \/ JobsNext
    PROVE  BulkIdle
<1>1. CASE NetworksNext
    BY <1>1 DEF BulkIdle, NetworksNext, DiscoveryNetworksPage, NetworkCreateOpen, NetworkType,
       NetworkSave, NetworkDelete, NetworkEditOpen, NetworkDeleteOpen, NetworkToggle,
       NetworkSettles, Mount, Open, Edit, Type, Submit, Delete, Press, Close, FinishAndInvalidate,
       Fail, pane
<1>2. CASE UsersNext
    BY <1>2 DEF BulkIdle, UsersNext, UsersPage, UserPager, UserAddOpen, UserType, UserSubmit,
       CredentialSubmit, UserDelete, UserDialogOpen, PasswordOpen, Reset2FAOpen, UserDeleteOpen,
       HandleToggleEnabled, UserSettles, Mount, Turn, Open, OpenAfresh, Edit, Type, Submit, Delete,
       Press, Close, FinishAndRefetch, RefetchAfter, FinishOnly, Fail, pane
<1>3. CASE ScannersNext
    BY <1>3 DEF BulkIdle, ScannersNext, ScannersPage, ScannerCreateOpen, ScannerCreateType,
       ScannerCreate, ScannerEditType, ScannerEdit, Regenerate, Revoke, ScannerEditOpen,
       OpenRegenerate, RevokeOpen, HandleSetDefault, ScannerSchedule, HandleCreated,
       ScannerCreateFails, HandleRegenerated, ScannerSettles, Mount, Open, OpenAfresh, Type, Submit,
       Delete, Press, Close, FinishAndRefetch, RefetchAfter, Fail, pane
<1>4. CASE TwoFactorNext
    BY <1>4 DEF BulkIdle, TwoFactorNext, Account2FAPage, StartSetup, ConfirmSetup, CancelSetup,
       DisableOpen, Disable, RecoveryOpen, RecoveryCodes, StatusLoaded, SetupStarted,
       TwoFactorChanged, TwoFactorSettles, OpenReset, Submit, Press, Close, pane
<1>5. CASE KeysNext
    BY <1>5 DEF BulkIdle, KeysNext, APIKeysPage, HandleRevoke, AccountAPIKeysPage, CreateKeyOpen,
       CreateKeyType, CreateKey, RevokeKey, RevokeKeyOpen, AdminRevokeOpen, KeyCreated, KeyRevoked,
       KeyFails, AdminRevokeSettles, Mount, Open, OpenReset, Type, Submit, Delete, Close,
       FinishAndRefetch, RefetchAfter, Fail, pane
<1>6. CASE TagsNext
    BY <1>6 DEF BulkIdle, TagsNext, TagsPage, TagType, TagDelete, TagNew, TagSubmit, TagEdit,
       TagDeleteOpen, TagSettles, Mount, Open, Edit, Type, Submit, Delete, Close, FinishAndRefetch,
       RefetchAfter, Fail, pane
<1>7. CASE JobsNext
    BY <1>7 DEF BulkIdle, JobsNext, MaintenancePage, JobType, JobClose, JobSave, JobSaveNothing,
       JobRunInDialog, JobEditOpen, JobRun, JobToggle, RetentionLoaded, JobSaved, JobSaveFails,
       Dropped, JobSettles, Mount, Edit, Type, Submit, Press, Close, FinishAndInvalidate, Fail, pane
<1>8. QED
    BY <1>1, <1>2, <1>3, <1>4, <1>5, <1>6, <1>7

\* Pages without a bulk dialog keep the results.
LEMMA ElsewhereResults ==
    ASSUME OriginInv, OriginInv', ValuesInv, Elsewhere PROVE ResultsInv'
<1>1. area' \notin SelectAreas
    BY ElsewhereArea
<1>2. \A d \in calls' : d.by \notin BulkKinds
    BY <1>1 DEF OriginInv, AtHome, BulkKinds, DeleteKinds, SelectAreas
<1>3. BulkIdle
    BY FormsBulkIdle, AdminBulkIdle DEF Elsewhere
<1>4. QED
    BY <1>2, <1>3 DEF BulkIdle, NoBulk, ValuesInv, ResultsInv

-----------------------------------------------------------------------------
\* The steps of the pages keep the invariant of the values.
LEMMA PagesValues ==
    ASSUME OriginInv, OriginInv', QueryInv, BulkInv, SecretInv, ValuesInv,
           EndpointsNext \/ CertsNext \/ Elsewhere
    PROVE  ValuesInv'
<1>1. ValuesStep
    BY EndpointsValues, CertsValues, InboxValues, EndpointValues, FormValues, SettingsValues,
       NotifyValues, TemplatesValues, NetworksValues, UsersValues, ScannersValues,
       TwoFactorValues, KeysValues, TagsValues, JobsValues DEF Elsewhere
<1>2. QueryStep
    BY EndpointsQuery, CertsQuery, InboxQuery, EndpointQuery, FormQuery, SettingsQuery,
       NotifyQuery, TemplatesQuery, NetworksQuery, UsersQuery, ScannersQuery,
       TwoFactorQuery, KeysQuery, TagsQuery, JobsQuery DEF Elsewhere
<1>3. ResultsInv'
    <2>1. CASE EndpointsNext
        BY <2>1, EndpointsArea, EndpointsBulk, MovesResults DEF SelectAreas
    <2>2. CASE CertsNext
        BY <2>2, CertsArea, CertsBulk, MovesResults DEF SelectAreas
    <2>3. QED
        BY <2>1, <2>2, ElsewhereResults
<1>4. RevealInv'
    <2>1. CASE ScannersNext \/ TwoFactorNext \/ KeysNext
        BY <2>1, HandsFit
    <2>2. CASE ~(ScannersNext \/ TwoFactorNext \/ KeysNext)
        <3>1. PlainStep
            BY <2>2, EndpointsSecret, CertsSecret, InboxSecret, EndpointSecret, FormSecret,
               SettingsSecret, NotifySecret, TemplatesSecret, NetworksSecret, UsersSecret,
               TagsSecret, JobsSecret DEF Elsewhere
        <3>2. QED
            BY <3>1 DEF PlainStep, ValuesInv, RevealInv
    <2>3. QED
        BY <2>1, <2>2
<1>5. QED
    BY <1>1, <1>2, <1>3, <1>4, QueryRows, ValuesFollow

-----------------------------------------------------------------------------
\* The tab.  A step that leaves requests and components alone.
LEMMA QuietValues ==
    ASSUME QueryInv, ValuesInv, UNCHANGED <<area, srv, calls, held, bulk, reveal>>,
           auth' \in {auth, TRUE, FALSE}, Counts, DlgFits(area, dlg'), RowsFor(area, sel'),
           RowsFollow
    PROVE  ValuesInv'
<1>1. ValuesStep
    BY DEF ValuesStep
<1>2. RevealInv' /\ ResultsInv'
    BY ResultsKeep DEF ValuesInv, RevealInv
<1>3. QED
    BY <1>1, <1>2, ValuesFollow

\* The rows the server has for a key are rows.
LEMMA ServedFits == ASSUME ValuesInv, NEW k PROVE RowsFor(area, RowsOf(k))
BY DEF RowsOf, Live, RowsFor, ValuesInv, TableInv

\* The server answers a query, and a query fails or is asked again.
LEMMA QueriesValues ==
    ASSUME QueryInv, ValuesInv, Focus \/ \E k \in Keys : Serve(k) \/ FetchFails(k)
    PROVE  ValuesInv'
<1>0. view \in Keys /\ DOMAIN fetch = Keys /\ RowsFor(area, sel) /\ DlgFits(area, dlg)
    BY DEF QueryInv, QueryType, ValuesInv, TableInv
<1>1. UNCHANGED <<area, srv, auth, cache, calls, held, bulk, reveal, dlg, sel>> /\ Counts
    BY DEF Focus, Serve, FetchFails, Counts, nav, server, pane
<1>2. RowsFollow
    <2>1. ASSUME NEW k \in Keys, fetch' = Ask(k) \/ fetch' = [fetch EXCEPT ![k] = Idle]
          PROVE  RowsFollow
        BY <1>1, <2>1, AskedRows, KeptRowsFollow
    <2>2. ASSUME NEW k \in Keys, Serve(k) PROVE RowsFollow
        <3>1. PICK rows : rows = RowsOf(k) /\ RowsFor(area, rows)
            BY ServedFits
        <3>2. \A l \in Keys : fetch'[l].rows \in {fetch[l].rows, rows}
            BY <1>0, <2>2, <3>1 DEF Serve
        <3>3. QED
            BY <1>1, <3>1, <3>2 DEF RowsFollow, ValuesInv, TableInv
    <2>3. QED
        BY <1>0, <2>1, <2>2 DEF Focus, FetchFails
<1>3. QED
    BY <1>0, <1>1, <1>2, QuietValues

\* The notification page takes what has been answered, and keeps the rest of what
\* it holds.
LEMMA NotifyFits ==
    ASSUME OriginInv, ValuesInv, NEW k, NEW rows, RowsFor(area, rows)
    PROVE  DlgFits(area, NotifyLoaded(k, rows))
<1>0. DOMAIN dlg = DlgFields /\ DlgFits(area, dlg)
    BY DEF OriginInv, ValuesInv
<1>1. PICK v : v = ValIn(rows) /\ v \in ValFor(area, 1)
    BY ValInFits
<1>2. PICK d : d = NotifyLoaded(k, rows)
    OBVIOUS
<1>3. CASE d = dlg
    BY <1>0, <1>2, <1>3
<1>4. CASE d # dlg
    <2>1. /\ dlg.kind = "notify" /\ dlg.id = 1
          /\ dlg.val \in ValFor(area, 1) /\ dlg.base \in ValFor(area, 1)
        BY <1>0, <1>2, <1>4 DEF NotifyLoaded, DlgFits, OwnKinds, FirstKinds
    <2>2. /\ d.kind = dlg.kind /\ d.id = dlg.id /\ d.base = dlg.base /\ d.typed \subseteq dlg.typed
          /\ \/ d.val = [dlg.val EXCEPT !.on = v.on, !.cfg = v.cfg]
             \/ d.val = [dlg.val EXCEPT !.tags = v.tags]
        BY <1>0, <1>1, <1>2, <1>4 DEF NotifyLoaded, DlgFields
    <2>3. d.val \in ValFor(area, 1)
        BY <1>1, <2>1, <2>2 DEF ValFor, Val
    <2>4. QED
        BY <1>0, <1>2, <2>1, <2>2, <2>3, IdsApart DEF DlgFits, ValFor, RowKinds, NewKinds
<1>5. QED
    BY <1>3, <1>4

\* The job dialog takes the listed job's switch and schedule.
LEMMA JobFits ==
    ASSUME OriginInv, ValuesInv, NEW rows, RowsFor(area, rows), NEW d \in JobDialogEffects(rows)
    PROVE  DlgFits(area, d)
<1>0. DOMAIN dlg = DlgFields /\ DlgFits(area, dlg)
    BY DEF OriginInv, ValuesInv
<1>1. CASE d = dlg
    BY <1>0, <1>1
<1>2. CASE d # dlg
    <2>1. dlg.kind = "job" /\ dlg.id \in DOMAIN rows
        BY <1>2 DEF JobDialogEffects
    <2>2. PICK r : r = rows[dlg.id] /\ r \in RowFor(area, dlg.id)
        BY <2>1 DEF RowsFor
    <2>3. d = [dlg EXCEPT !.val.on = r.on, !.val.cfg = r.cfg, !.typed = @ \ {"cfg"}]
        BY <1>2, <2>1, <2>2 DEF JobDialogEffects
    <2>4. /\ d.kind = dlg.kind /\ d.id = dlg.id /\ d.base = dlg.base /\ d.typed \subseteq dlg.typed
          /\ d.val = [dlg.val EXCEPT !.on = r.on, !.cfg = r.cfg]
        BY <1>0, <2>3 DEF DlgFields
    <2>5. dlg.id \in Ids /\ dlg.val \in ValFor(area, dlg.id) /\ dlg.base \in ValFor(area, dlg.id)
        BY <1>0, <2>1 DEF DlgFits, OwnKinds, RowKinds
    <2>6. d.val \in ValFor(area, dlg.id)
        BY <2>2, <2>4, <2>5 DEF RowFor, Row, ValFor, Val
    <2>7. QED
        BY <1>0, <2>1, <2>4, <2>5, <2>6 DEF DlgFits, ValFor, FirstKinds, NewKinds
<1>3. QED
    BY <1>1, <1>2

\* The dialogs of a page that renders an answer hold values of their rows.
LEMMA DialogsFit ==
    ASSUME OriginInv, ValuesInv, NEW k \in Keys, NEW d \in DialogsAfter(k)
    PROVE  DlgFits(area, d)
<1>0. PICK rows : rows = fetch[k].rows /\ RowsFor(area, rows)
    BY DEF ValuesInv, TableInv
<1>1. CASE d = dlg
    BY <1>1 DEF ValuesInv
<1>2. CASE d = NotesEffect(dlg, rows)
    BY <1>0, <1>2, NotesFit
<1>3. CASE d = MailLoaded(rows)
    BY <1>0, <1>3, ReloadedFits DEF MailLoaded
<1>4. CASE d = GroupLoaded(rows)
    <2>1. PICK e : e = Reloaded("group", rows) /\ DlgFits(area, e)
        BY <1>0, ReloadedFits
    <2>2. CASE e.kind # "group"
        BY <1>4, <2>1, <2>2 DEF GroupLoaded
    <2>3. CASE e.kind = "group"
        <3>1. PICK v : v = GroupVal(e.val)
            OBVIOUS
        <3>2. d = [e EXCEPT !.val = v]
            BY <1>4, <2>1, <2>3, <3>1 DEF GroupLoaded
        <3>3. e.val \in ValFor(area, e.id)
            BY <2>1, <2>3 DEF DlgFits, OwnKinds, RowKinds
        <3>4. v \in ValFor(area, e.id)
            BY <3>1, <3>3, GroupValFits
        <3>5. DOMAIN e = DlgFields
            BY <2>1 DEF Reloaded, Form, DlgFields, OriginInv
        <3>6. /\ d.val = v /\ d.id = e.id /\ d.base = e.base /\ d.kind = e.kind
              /\ d.typed = e.typed
            BY <3>2, <3>5 DEF DlgFields
        <3>7. QED
            BY <2>1, <3>4, <3>6 DEF DlgFits, ValFor
    <2>4. QED
        BY <2>2, <2>3
<1>5. CASE d = NotifyLoaded(k, rows)
    BY <1>0, <1>5, NotifyFits
<1>6. CASE d = TemplatesLoaded(rows) /\ d # dlg
    <2>1. PICK v : v = ValOf(rows[1])
        OBVIOUS
    <2>2. d = Form("template", 1, v) /\ 1 \in DOMAIN rows
        BY <1>6, <2>1 DEF TemplatesLoaded
    <2>3. v \in ValFor(area, 1)
        BY <1>0, <2>1, <2>2, RowFits DEF RowsFor
    <2>4. QED
        BY <2>2, <2>3, FormFits, IdsApart DEF NewKinds, FirstKinds
<1>7. CASE d = TagDialogEffect /\ d # dlg
    <2>1. PICK i, v : i = dlg.id /\ v = dlg.base
        OBVIOUS
    <2>2. d = Form("tag", i, v) /\ dlg.kind = "tag"
        BY <1>7, <2>1 DEF TagDialogEffect
    <2>3. i \in Ids \cup {0} /\ v \in ValFor(area, i)
        BY <2>1, <2>2 DEF ValuesInv, DlgFits, OwnKinds
    <2>4. QED
        BY <2>2, <2>3, FormFits DEF RowKinds, NewKinds, FirstKinds
<1>8. CASE d \in JobDialogEffects(rows)
    BY <1>0, <1>8, JobFits
<1>9. QED
    BY <1>0, <1>1, <1>2, <1>3, <1>4, <1>5, <1>6, <1>7, <1>8 DEF DialogsAfter

\* An answer reaches the cache and the page.
LEMMA DeliverValues ==
    ASSUME OriginInv, QueryInv, ValuesInv, NEW k \in Keys, Deliver(k) PROVE ValuesInv'
<1>0. PICK rows : rows = fetch[k].rows /\ RowsFor(area, rows)
    BY DEF ValuesInv, TableInv
<1>1. PICK d \in DialogsAfter(k) : Answered(k, SelectionAfter(k), d)
    BY DEF Deliver
<1>2. UNCHANGED <<area, srv, auth, calls, held, bulk, reveal, used>> /\ dlg' = d
    BY <1>1 DEF Answered, nav, server
<1>3. DlgFits(area, dlg')
    BY <1>2, DialogsFit
<1>4. RowsFor(area, sel')
    <2>1. RowsFor(area, sel) /\ RowsFor(area, Refreshed(sel, rows))
        BY <1>0, RefreshedFits DEF ValuesInv, TableInv
    <2>2. sel' \in {sel, rows, Refreshed(sel, rows)}
        BY <1>0, <1>1 DEF Answered, SelectionAfter, RefreshSelected, RefreshSelectedCerts
    <2>3. QED
        BY <1>0, <2>1, <2>2
<1>5. RowsFollow
    <2>1. \A l \in Keys : cache'[l].rows \in {cache[l].rows, rows}
        BY <1>0, <1>1 DEF Answered, QueryInv, QueryType
    <2>2. \A l \in Keys : fetch'[l].rows \in {fetch[l].rows, NoRows}
        BY <1>1, AskedRows DEF Answered
    <2>3. QED
        BY <1>0, <2>1, <2>2, ShownFits DEF RowsFollow, ValuesInv, TableInv
<1>6. QED
    BY <1>2, <1>3, <1>4, <1>5, QuietValues DEF Counts

-----------------------------------------------------------------------------
\* The session.  A secret that is put away has been seen or left.
LEMMA PutAwayFits ==
    ASSUME SecretInv, ValuesInv, NEW f \in Fates,
           reveal' = reveal \/ reveal' = [on |-> 0, fate |-> Fate(reveal.on, f)]
    PROVE  RevealInv'
<1>1. CASE reveal' = reveal
    BY <1>1 DEF ValuesInv, RevealInv
<1>2. CASE reveal' = [on |-> 0, fate |-> Fate(reveal.on, f)]
    <2>1. reveal'.on = 0 /\ reveal'.fate = Fate(reveal.on, f) /\ 0 \in 0..MaxSent
        BY <1>2, WebBounds
    <2>2. QED
        BY <2>1, FateFits DEF RevealInv
<1>3. QED
    BY <1>1, <1>2

\* The login page's forms hold nothing.
LEMMA LoginValues ==
    ASSUME OriginInv, QueryInv, ValuesInv, Expire \/ ProtectedRoute \/ Credentials \/ SecondFactor
    PROVE  ValuesInv'
<1>0. DOMAIN dlg = DlgFields /\ DlgFits(area, dlg) /\ RowsFor(area, sel)
    BY DEF OriginInv, ValuesInv, TableInv
<1>1. UNCHANGED <<area, srv, calls, held, bulk, reveal, sel, cache, fetch>>
    BY DEF Expire, ProtectedRoute, Credentials, SecondFactor, nav, server, query, pane
<1>2. auth' \in {auth, TRUE, FALSE} /\ Counts
    BY DEF Expire, ProtectedRoute, Credentials, SecondFactor, server, Counts
<1>3. DlgFits(area, dlg')
    <2>1. CASE dlg' = dlg \/ dlg' = NoDlg \/ dlg' = [NoDlg EXCEPT !.kind = "credentials"]
        BY <1>0, <2>1, NoFormFits
    <2>2. ASSUME NEW kind \in {"totp", "credentials"}, dlg' = [dlg EXCEPT !.kind = kind]
          PROVE  DlgFits(area, dlg')
        <3>1. /\ dlg'.kind = kind /\ dlg'.id = dlg.id /\ dlg'.val = dlg.val /\ dlg'.base = dlg.base
              /\ dlg'.typed = dlg.typed
            BY <1>0, <2>2 DEF DlgFields
        <3>2. QED
            BY <1>0, <3>1 DEF DlgFits, OwnKinds, RowKinds, FirstKinds, NewKinds
    <2>3. QED
        BY <2>1, <2>2 DEF Expire, ProtectedRoute, Credentials, SecondFactor, pane
<1>4. RowsFollow
    BY <1>1, KeptRowsFollow
<1>5. QED
    BY <1>0, <1>1, <1>2, <1>3, <1>4, QuietValues

\* A 401: the request is answered with nothing.
LEMMA DeniedValues ==
    ASSUME OriginInv, QueryInv, ValuesInv, Denied PROVE ValuesInv'
<1>1. UNCHANGED <<area, auth, srv, cache, fetch, held, sel, bulk, dlg, reveal>> /\ Counts
    BY DEF Denied, Counts, server, query, pane
<1>2. \A e \in calls' : e \in calls \/ CallFits(area, e)
    <2>1. CASE calls' = calls
        BY <2>1
    <2>2. CASE calls' # calls
        <3>1. PICK c \in calls : \E d : /\ calls' = (calls \ {c}) \cup {d}
                                        /\ c.st = "sent" /\ d.st \in {"done", "refused"}
                                        /\ \A f \in CallFields \ {"st"} : d[f] = c[f]
                                        /\ UsesAnswer(c) => d.st = "refused"
            BY <2>2, DeniedShape
        <3>2. PICK d : /\ calls' = (calls \ {c}) \cup {d}
                       /\ d.st \in {"done", "refused"} /\ (UsesAnswer(c) => d.st = "refused")
                       /\ d.n = c.n /\ d.by = c.by /\ d.op = c.op /\ d.id = c.id /\ d.val = c.val
            BY <3>1 DEF CallFields
        <3>3. CallFits(area, c)
            BY DEF ValuesInv
        <3>4. CallFits(area, d)
            BY <3>2, <3>3 DEF CallFits, Asks, UsesAnswer, Unnamed
        <3>5. QED
            BY <3>2, <3>4
    <2>3. QED
        BY <2>1, <2>2
<1>3. ResultsInv'
    <2>1. CASE calls' = calls
        BY <1>1, <2>1 DEF ValuesInv, ResultsInv
    <2>2. CASE calls' # calls
        <3>1. PICK c \in calls : \E d : /\ calls' = (calls \ {c}) \cup {d}
                                        /\ \A f \in CallFields \ {"st"} : d[f] = c[f]
            BY <2>2, DeniedShape
        <3>2. PICK d : /\ calls' = (calls \ {c}) \cup {d}
                       /\ d.by = c.by /\ d.op = c.op /\ d.id = c.id /\ d.here = c.here
            BY <3>1 DEF CallFields
        <3>3. QED
            BY <1>1, <3>2 DEF ValuesInv, ResultsInv
    <2>3. QED
        BY <2>1, <2>2
<1>4. RevealInv'
    BY <1>1 DEF ValuesInv, RevealInv
<1>5. ValuesStep
    BY <1>1, <1>2 DEF ValuesStep, ValuesInv
<1>6. RowsFollow
    BY <1>1, KeptRowsFollow
<1>7. QED
    BY <1>3, <1>4, <1>5, <1>6, ValuesFollow

\* A page is left, and what it held with it.
LEMMA LeaveValues ==
    ASSUME OriginInv, QueryInv, SecretInv, ValuesInv, Logout \/ Leave PROVE ValuesInv'
<1>1. UNCHANGED <<area, auth, srv, cache, fetch>> /\ Unmount /\ held' = NoRows /\ Counts
    BY DEF Logout, Leave, server, query, Counts
<1>2. DlgFits(area, dlg')
    BY NoFormFits DEF Logout, Leave
<1>3. sel' = NoRows /\ bulk' = NoBulk /\ calls' = Orphaned(calls)
    BY <1>1 DEF Unmount
<1>4. ValuesStep
    BY <1>1, <1>2, <1>3, OrphansFit DEF ValuesStep
<1>5. RowsFollow
    BY <1>1, KeptRowsFollow
<1>6. ResultsInv'
    BY <1>3, ResultsGo
<1>7. RevealInv'
    BY <1>1, PutAwayFits DEF Unmount, Fate, Fates
<1>8. QED
    BY <1>4, <1>5, <1>6, <1>7, ValuesFollow

\* A new document starts with nothing.
LEMMA DocumentValues ==
    ASSUME OriginInv, QueryInv, SecretInv, ValuesInv, Unload \/ AuthCallback PROVE ValuesInv'
<1>1. NewDocument /\ auth' \in {auth, TRUE, FALSE}
    BY DEF Unload, AuthCallback
<1>2. DlgFits(area, dlg')
    BY NoFormFits DEF Unload, AuthCallback
<1>3. UNCHANGED <<area, srv, used>> /\ held' = NoRows /\ calls' = {} /\ sel' = NoRows /\ bulk' = NoBulk
    BY <1>1 DEF NewDocument
<1>4. ValuesStep
    BY <1>1, <1>2, <1>3 DEF ValuesStep, Counts
<1>5. RowsFollow
    BY <1>1, KeptRowsFollow DEF NewDocument, NoAnswer, Idle
<1>6. ResultsInv'
    BY <1>3, ResultsGo
<1>7. RevealInv'
    BY <1>1, WebBounds DEF NewDocument, RevealInv, SecretInv, FateInv, ValuesInv, Fates
<1>8. QED
    BY <1>4, <1>5, <1>6, <1>7, ValuesFollow

\* The user puts a secret away.
LEMMA DismissValues == ASSUME QueryInv, SecretInv, ValuesInv, DismissSecret PROVE ValuesInv'
<1>1. UNCHANGED <<area, auth, srv, cache, fetch, held, sel, calls, bulk, used, dlg>>
    BY DEF DismissSecret, nav, server, query, pane
<1>2. ValuesStep
    BY <1>1 DEF ValuesStep, ValuesInv, Counts
<1>3. RowsFollow
    BY <1>1, KeptRowsFollow
<1>4. ResultsInv'
    BY <1>1, ResultsKeep
<1>5. RevealInv'
    BY PutAwayFits DEF DismissSecret, Fates
<1>6. QED
    BY <1>2, <1>3, <1>4, <1>5, ValuesFollow

\* The server refuses a request.
LEMMA RefuseValues ==
    ASSUME OriginInv, QueryInv, ValuesInv, NEW c \in calls, Refuse(c) PROVE ValuesInv'
<1>1. PICK d : d = [c EXCEPT !.st = "refused"]
    OBVIOUS
<1>2. DOMAIN c = CallFields /\ CallFits(area, c)
    BY DEF OriginInv, ValuesInv
<1>3. /\ d.n = c.n /\ d.by = c.by /\ d.op = c.op /\ d.id = c.id /\ d.val = c.val /\ d.here = c.here
      /\ d.st = "refused"
    BY <1>1, <1>2 DEF CallFields
<1>4. CallFits(area, d)
    BY <1>2, <1>3 DEF CallFits
<1>5. /\ UNCHANGED <<area, auth, srv, cache, fetch, held, sel, bulk, dlg, reveal>> /\ Counts
      /\ calls' = (calls \ {c}) \cup {d}
    BY <1>1 DEF Refuse, Answer, Counts, nav, server, query, pane
<1>6. ValuesStep
    BY <1>4, <1>5 DEF ValuesStep, ValuesInv
<1>7. RowsFollow
    BY <1>5, KeptRowsFollow
<1>8. ResultsInv' /\ RevealInv'
    BY <1>3, <1>5, ResultsKeep DEF ValuesInv, RevealInv
<1>9. QED
    BY <1>6, <1>7, <1>8, ValuesFollow

-----------------------------------------------------------------------------
\* The server.  A table with another row of its own in one place.
LEMMA PutFits ==
    ASSUME ValuesInv, NEW i \in Ids, NEW r \in RowFor(area, i)
    PROVE  [srv EXCEPT ![i] = r] \in [Ids -> Row] /\ RowsFor(area, [srv EXCEPT ![i] = r])
BY DEF ValuesInv, TableInv, RowsFor, RowFor

\* A request the server accepts is about a row.
LEMMA TargetFits ==
    ASSUME ValuesInv, NEW c \in calls, Takes(c)
    PROVE  Target(c) \in Ids /\ (c.op # "create" => Target(c) = c.id)
<1>1. CASE c.op = "create"
    <2>1. Target(c) \in Free
        BY <1>1, TargetIsFree DEF Takes
    <2>2. QED
        BY <1>1, <2>1 DEF Free
<1>2. CASE c.op # "create"
    BY <1>2 DEF Target, ValuesInv, CallFits, Asks
<1>3. QED
    BY <1>1, <1>2

\* What the server does with a request leaves every row with its own values.
LEMMA AppliedFits ==
    ASSUME ValuesInv, NEW c \in calls, Takes(c)
    PROVE  Applied(c) \in [Ids -> Row] /\ RowsFor(area, Applied(c))
<1>0. PICK i \in Ids : i = Target(c) /\ (c.op # "create" => i = c.id)
    BY TargetFits
<1>1. Asks(area, c.by, c.op, c.id, c.val) /\ srv \in [Ids -> Row] /\ RowsFor(area, srv)
    BY DEF ValuesInv, CallFits, TableInv
<1>2. srv[i] \in RowFor(area, i) /\ srv[i] \in Row /\ i \in Vals /\ c.val \in Val
    BY <1>1 DEF RowsFor, Vals, Asks, ValFor
<1>3. c.op # "create" => c.val \in ValFor(area, i)
    BY <1>0, <1>1 DEF Asks
<1>4. ASSUME NEW r \in RowFor(area, i), Applied(c) = [srv EXCEPT ![i] = r]
      PROVE  Applied(c) \in [Ids -> Row] /\ RowsFor(area, Applied(c))
    BY <1>4, PutFits
<1>5. CASE c.op \in {"read", "make", "link", "rotate", "touch"}
    <2>1. Applied(c) = srv
        BY <1>5 DEF Applied
    <2>2. QED
        BY <1>1, <2>1
<1>6. CASE c.op \in {"delete", "purge"}
    <2>1. Gone \in RowFor(area, i)
        BY IdsApart DEF Gone, NotYet, RowFor, Row, Vals
    <2>2. Applied(c) = [srv EXCEPT ![i] = Gone]
        BY <1>0, <1>6 DEF Applied
    <2>3. QED
        BY <1>4, <2>1, <2>2
<1>7. CASE c.op = "create"
    <2>1. PICK r : r = [live |-> TRUE, on |-> c.val.on, cfg |-> c.val.cfg,
                        tags |-> IF area = "group" THEN c.val.tags ELSE {}]
        OBVIOUS
    <2>2. r \in RowFor(area, i)
        BY <1>1, <1>2, <1>7, <2>1 DEF RowFor, Row, Val, Asks
    <2>3. Applied(c) = [srv EXCEPT ![i] = r]
        BY <1>0, <1>7, <2>1 DEF Applied
    <2>4. QED
        BY <1>4, <2>2, <2>3
<1>8. CASE c.op \in {"put", "all", "cfg"}
    <2>1. PICK r : r = CASE c.op = "put" -> [srv[i] EXCEPT !.on = c.val.on, !.cfg = c.val.cfg]
                         [] c.op = "all" -> [srv[i] EXCEPT !.on = c.val.on, !.cfg = c.val.cfg,
                                                           !.tags = c.val.tags]
                         [] c.op = "cfg" -> [srv[i] EXCEPT !.cfg = c.val.cfg]
        OBVIOUS
    <2>2. r \in RowFor(area, i)
        BY <1>2, <1>3, <1>8, <2>1 DEF RowFor, Row, ValFor, Val
    <2>3. Applied(c) = [srv EXCEPT ![i] = r]
        BY <1>0, <1>8, <2>1 DEF Applied
    <2>4. QED
        BY <1>4, <2>2, <2>3
<1>9. CASE c.op = "revert"
    <2>1. PICK r : r = [srv[i] EXCEPT !.on = FALSE, !.cfg = i]
        OBVIOUS
    <2>2. r \in RowFor(area, i)
        BY <1>2, <2>1 DEF RowFor, Row
    <2>3. Applied(c) = [srv EXCEPT ![i] = r]
        BY <1>0, <1>9, <2>1 DEF Applied
    <2>4. QED
        BY <1>4, <2>2, <2>3
<1>10. CASE c.op \in {"on", "tags", "enrol", "unenrol"}
    <2>1. PICK r : r = CASE c.op = "on"      -> [srv[i] EXCEPT !.on = c.val.on]
                         [] c.op = "tags"    -> [srv[i] EXCEPT !.tags = c.val.tags]
                         [] c.op = "enrol"   -> [srv[i] EXCEPT !.on = TRUE]
                         [] c.op = "unenrol" -> [srv[i] EXCEPT !.on = FALSE]
        OBVIOUS
    <2>2. r \in RowFor(area, i)
        BY <1>2, <1>10, <2>1 DEF RowFor, Row, Val
    <2>3. Applied(c) = [srv EXCEPT ![i] = r]
        BY <1>0, <1>10, <2>1 DEF Applied
    <2>4. QED
        BY <1>4, <2>2, <2>3
<1>11. CASE c.op = "default"
    <2>1. Applied(c) = [j \in Ids |-> IF srv[j].live THEN [srv[j] EXCEPT !.on = (j = i)] ELSE srv[j]]
        BY <1>0, <1>11 DEF Applied
    <2>2. ASSUME NEW j \in Ids PROVE Applied(c)[j] \in RowFor(area, j)
        <3>1. srv[j] \in RowFor(area, j) /\ srv[j] \in Row
            BY <1>1 DEF RowsFor
        <3>2. PICK b \in BOOLEAN : b = (j = i)
            BY Zenon
        <3>3. [srv[j] EXCEPT !.on = b] \in RowFor(area, j)
            BY <3>1 DEF RowFor, Row
        <3>4. QED
            BY <2>1, <3>1, <3>2, <3>3
    <2>3. QED
        BY <2>1, <2>2 DEF RowsFor, RowFor
<1>12. QED
    BY <1>1, <1>5, <1>6, <1>7, <1>8, <1>9, <1>10, <1>11 DEF Asks, Ops

\* A step of the server that leaves the tab's rows, dialog and results alone.
LEMMA ServerValues ==
    ASSUME ValuesInv, UNCHANGED <<area, auth, held, sel, cache, fetch, dlg>>, Counts,
           srv' \in [Ids -> Row], RowsFor(area, srv'),
           \A d \in calls' : CallFits(area, d), RevealInv', ResultsInv'
    PROVE  ValuesInv'
<1>1. CountInv'
    BY CountsKeep
<1>2. TableInv'
    BY DEF ValuesInv, TableInv
<1>3. QED
    BY <1>1, <1>2 DEF ValuesInv

\* The server applies a request.
LEMMA ApplyValues ==
    ASSUME OriginInv, SecretInv, ValuesInv, NEW c \in calls, Apply(c) PROVE ValuesInv'
<1>0. Takes(c) /\ srv' = Applied(c) /\ UNCHANGED <<area, auth, held, sel, cache, fetch, dlg, bulk>>
    BY DEF Apply, nav, query, pane
<1>1. PICK i \in Ids : i = Target(c) /\ (c.op # "create" => i = c.id)
    BY <1>0, TargetFits
<1>2. srv' \in [Ids -> Row] /\ RowsFor(area, srv')
    BY <1>0, AppliedFits
<1>3. PICK got : got = IF c.op \in {"read", "on", "cfg"} THEN ValOf(srv'[i]) ELSE c.val
    OBVIOUS
<1>4. PICK lost \in {FALSE, TRUE} :
        /\ IF lost THEN Event ELSE UNCHANGED used
        /\ calls' = (calls \ {c}) \cup
                    {[c EXCEPT !.st = IF lost THEN "cut" ELSE "done", !.id = i, !.val = got]}
        /\ reveal' = IF HasSecret(c)
                     THEN [reveal EXCEPT !.fate[c.n] = IF lost THEN "cut" ELSE "issued"]
                     ELSE reveal
    BY <1>1, <1>3 DEF Apply
<1>5. PICK d : d = [c EXCEPT !.st = IF lost THEN "cut" ELSE "done", !.id = i, !.val = got]
    OBVIOUS
<1>6. DOMAIN c = CallFields /\ CallFits(area, c)
    BY DEF OriginInv, ValuesInv
<1>7. /\ d.n = c.n /\ d.by = c.by /\ d.op = c.op /\ d.id = i /\ d.val = got /\ d.here = c.here
      /\ d.st \in {"cut", "done"}
    BY <1>5, <1>6 DEF CallFields
<1>8. got \in ValFor(area, i) /\ (c.op = "create" => got = c.val)
    <2>1. CASE c.op \in {"read", "on", "cfg"}
        <3>1. PICK r : r = srv'[i] /\ r \in RowFor(area, i)
            BY <1>2 DEF RowsFor
        <3>2. QED
            BY <1>3, <2>1, <3>1, RowFits
    <2>2. CASE c.op \notin {"read", "on", "cfg"}
        BY <1>1, <1>3, <1>6, <2>2 DEF CallFits, Asks, ValFor
    <2>3. QED
        BY <2>1, <2>2
<1>9. CallFits(area, d)
    BY <1>1, <1>6, <1>7, <1>8 DEF CallFits, Asks
<1>10. calls' = (calls \ {c}) \cup {d} /\ Counts
    BY <1>4, <1>5 DEF Counts
<1>11. \A e \in calls' : CallFits(area, e)
    BY <1>9, <1>10 DEF ValuesInv
<1>12. RevealInv'
    <2>1. CASE reveal' = reveal
        BY <2>1 DEF ValuesInv, RevealInv
    <2>2. ASSUME NEW f \in Fates, reveal' = [reveal EXCEPT !.fate[c.n] = f] PROVE RevealInv'
        <3>1. reveal'.on = reveal.on /\ reveal'.fate = Fate(c.n, f)
            BY <2>2 DEF SecretInv, FateInv, Fate
        <3>2. QED
            BY <3>1, FateFits DEF ValuesInv, RevealInv
    <2>3. QED
        BY <1>4, <2>1, <2>2 DEF Fates
<1>13. ResultsInv'
    <2>1. c.by \in BulkKinds /\ c.here => d.id = c.id /\ c.op # "create"
        BY <1>1, <1>7 DEF ValuesInv, ResultsInv
    <2>2. QED
        BY <1>0, <1>7, <1>10, <2>1, ResultsKeep
<1>14. QED
    BY <1>0, <1>2, <1>10, <1>11, <1>12, <1>13, ServerValues

\* Somebody else changes a row.
LEMMA OthersValues == ASSUME ValuesInv, OtherChanges PROVE ValuesInv'
<1>1. /\ UNCHANGED <<area, auth, held, sel, cache, fetch, dlg, bulk, calls, reveal>>
      /\ Counts
    BY DEF OtherChanges, nav, query, pane, Counts
<1>2. PICK i \in Live :
        \/ "on"   \in Columns[area] /\ srv' = [srv EXCEPT ![i].on = ~@]
        \/ "cfg"  \in Columns[area] /\ srv' = [srv EXCEPT ![i].cfg = Theirs]
        \/ "tags" \in Columns[area] /\ srv' = [srv EXCEPT ![i].tags = @ \cup {"theirs"}]
        \/ area \notin Fixed /\ srv' = [srv EXCEPT ![i] = Gone]
    BY DEF OtherChanges
<1>3. i \in Ids /\ srv[i] \in RowFor(area, i) /\ srv[i] \in Row /\ DOMAIN srv = Ids
    BY DEF Live, ValuesInv, TableInv, RowsFor
<1>4. PICK b \in BOOLEAN : b = ~srv[i].on
    BY <1>3, Zenon
<1>5. PICK r : /\ srv' = [srv EXCEPT ![i] = r]
               /\ \/ r = [srv[i] EXCEPT !.on = b]
                  \/ r = [srv[i] EXCEPT !.cfg = Theirs]
                  \/ r = [srv[i] EXCEPT !.tags = @ \cup {"theirs"}]
                  \/ r = Gone
    BY <1>2, <1>4
<1>6. r \in RowFor(area, i)
    BY <1>3, <1>5, IdsApart DEF RowFor, Row, Vals, Tags, Gone, NotYet
<1>7. srv' \in [Ids -> Row] /\ RowsFor(area, srv')
    BY <1>3, <1>5, <1>6, PutFits
<1>8. RevealInv' /\ ResultsInv' /\ \A d \in calls' : CallFits(area, d)
    BY <1>1, ResultsKeep DEF ValuesInv, RevealInv
<1>9. QED
    BY <1>1, <1>7, <1>8, ServerValues

-----------------------------------------------------------------------------
\* Every step keeps the values with their rows.
LEMMA ValuesInvStep ==
    OriginInv /\ QueryInv /\ BulkInv /\ SecretInv /\ ValuesInv /\ [Next]_vars => ValuesInv'
<1> SUFFICES ASSUME OriginInv, QueryInv, BulkInv, SecretInv, ValuesInv, [Next]_vars
             PROVE  ValuesInv'
    OBVIOUS
<1>1. OriginInv'
    BY OriginStep
<1>2. CASE UNCHANGED vars
    BY <1>2 DEF vars, nav, server, query, pane, ValuesInv, TableInv, CountInv, RevealInv, ResultsInv
<1>3. CASE Pages
    BY <1>1, <1>3, PagesValues, DismissValues, LeaveValues DEF Pages, Elsewhere
<1>4. CASE Session
    BY <1>4, DeniedValues, LoginValues, LeaveValues, DocumentValues DEF Session
<1>5. CASE Respond \/ Focus \/ OtherChanges \/ \E k \in Keys : Deliver(k) \/ FetchFails(k)
    BY <1>5, QueriesValues, ApplyValues, RefuseValues, OthersValues, DeliverValues DEF Respond
<1>6. QED
    BY <1>2, <1>3, <1>4, <1>5 DEF Next

\* A tab starts with nothing, over rows that are their own.
LEMMA ValuesInit == Init => ValuesInv
<1> SUFFICES ASSUME Init PROVE ValuesInv
    OBVIOUS
<1>1. srv \in [Ids -> Row] /\ RowsFor(area, srv)
    <2>1. PICK on \in [Stock -> BOOLEAN] :
            srv = [i \in Ids |-> IF i \in Stock
                                 THEN [live |-> TRUE, on |-> on[i], cfg |-> i,
                                       tags |-> IF "tags" \in Columns[area] THEN {"own"} ELSE {}]
                                 ELSE NotYet]
        BY DEF Init
    <2>2. ASSUME NEW i \in Ids PROVE srv[i] \in RowFor(area, i)
        BY <2>1, IdsApart DEF RowFor, Row, Vals, Tags, NotYet
    <2>3. QED
        BY <2>1, <2>2 DEF RowsFor, RowFor
<1>2. TableInv
    BY <1>1 DEF TableInv, RowsFor, Init, NoRows, NoAnswer, Idle
<1>3. CountInv
    <2>1. MaxSent \in Nat /\ area \in Areas /\ MaxEvents[area] \in Nat
        BY WebBounds DEF Init
    <2>2. QED
        BY <2>1 DEF Init, CountInv
<1>4. RevealInv /\ ResultsInv
    BY WebBounds DEF Init, RevealInv, ResultsInv, Fates, NoBulk
<1>5. DlgFits(area, dlg) /\ calls = {}
    BY NoFormFits DEF Init
<1>6. QED
    BY <1>2, <1>3, <1>4, <1>5 DEF ValuesInv

\* Every variable of the tab keeps its shape, whatever the user, the server, other
\* users and the network do; in particular every request carries a value a form can
\* hold and is about a row of the table or a new one.
THEOREM WebTypeCorrect == Spec => []WebTypeOK
<1>1. QueryInv /\ ValuesInv => WebTypeOK
    <2> SUFFICES ASSUME QueryInv, ValuesInv PROVE WebTypeOK
        OBVIOUS
    <2>1. \A f : RowsFor(area, f) => IsRows(f)
        BY DEF RowsFor, RowFor, IsRows
    <2>2. area \in Areas /\ page \in {"away", "list", "detail", "form", "login", "leaving"}
        BY DEF ValuesInv, CountInv, QueryInv, PagesAtHome
    <2>3. view \in Keys /\ IsRows(held) /\ auth \in BOOLEAN /\ srv \in [Ids -> Row] /\ IsRows(sel)
        BY <2>1 DEF ValuesInv, TableInv, CountInv, QueryInv, QueryType
    <2>4. \A k \in Keys : /\ cache[k].have \in BOOLEAN /\ cache[k].inv \in BOOLEAN
                          /\ IsRows(cache[k].rows) /\ cache[k].at \in 0..acks
                          /\ fetch[k].st \in {"idle", "asked", "served"}
                          /\ IsRows(fetch[k].rows) /\ fetch[k].at \in 0..acks
                          /\ owed[k] \in 0..acks
        BY <2>1 DEF ValuesInv, TableInv, QueryInv, QueryType
    <2>5. \A c \in calls : /\ c.op \in Ops /\ c.id \in Ids \cup {0} /\ c.val \in Val
                           /\ c.st \in {"sent", "done", "refused", "cut"}
        BY DEF ValuesInv, CallFits, Asks, ValFor
    <2>6. dlg.id \in Ids \cup {0} /\ dlg.val \in Val /\ dlg.base \in Val /\ dlg.typed \subseteq Fields
        BY DEF ValuesInv, DlgFits
    <2>7. QED
        BY <2>2, <2>3, <2>4, <2>5, <2>6
           DEF WebTypeOK, ValuesInv, CountInv, RevealInv, ResultsInv
<1>2. QED
    BY <1>1, OriginInit, OriginStep, QueryInvInit, QueryInvStep, SelectionInit, SelectionStep,
       BulkInit, BulkStep, SecretInit, SecretStep, ValuesInit, ValuesInvStep, PTL DEF Spec

\* No request that stores a configuration carries the one of another row: the forms
\* and dialogs that are filled, reused, remounted or filled again by a late answer
\* hold values of the row they will be saved to.
THEOREM WritesStayWithTheirRow == Spec => []WritesComeFromTheirRow
<1>1. ValuesInv => WritesComeFromTheirRow
    BY DEF ValuesInv, CallFits, Asks, ValFor, WritesComeFromTheirRow
<1>2. QED
    BY <1>1, OriginInit, OriginStep, QueryInvInit, QueryInvStep, SelectionInit, SelectionStep,
       BulkInit, BulkStep, SecretInit, SecretStep, ValuesInit, ValuesInvStep, PTL DEF Spec
=============================================================================
