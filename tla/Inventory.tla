------------------------------ MODULE Inventory ------------------------------
(***************************************************************************)
(* What is monitored and by whom: endpoint configuration, scanners, and    *)
(* the discovery networks with their inbox.                                *)
(*                                                                         *)
(* A transaction is one step; a handler that reads first and writes later  *)
(* (Patch, PromoteInboxItem, ReportDiscovery, BulkImport, SetDefault) is   *)
(* one step per statement or transaction, and others run in between.       *)
(*                                                                         *)
(* A host is a (dns_name, ip_address, port) triple, a target an (ip, port) *)
(* pair with the reverse name the scanner reports for it.  Names, notes,   *)
(* ranges and switches of networks and certificate details are left out.   *)
(***************************************************************************)
EXTENDS Naturals, Sequences, FiniteSets

CONSTANTS
    Scanners, Networks, Endpoints,  \* ids; an id is never used again
    NoScanner,     \* NULL
    Hosts,
    NoHost,        \* no endpoint_hosts row, or an empty dnsName
    Targets,
    Covers,        \* [Hosts -> SUBSET Targets]: endpointExistsForTarget's match
    PromoteHosts,  \* [Targets -> SUBSET Hosts]: the hosts an operator may make of it
    Records,       \* the endpoint records that requests carry
    Patches,       \* the partial records that PATCH requests carry
    Imports,       \* the row sequences that bulk imports carry
    Reports,       \* the target sequences that scanners report
    Stocked,       \* the endpoints, networks and inbox items that may exist at first
    Workers,       \* requests served at a time
    MaxRequests    \* bound: requests per behaviour

NullScanner == Scanners \cup {NoScanner}
Fields == {"type", "host", "url", "enabled", "exempt", "scanner"}

\* models.EndpointRecord; url: a URL is present.
Config == [type : {"host", "saml", "manual"}, host : Hosts \cup {NoHost}, url : BOOLEAN,
           enabled : BOOLEAN, exempt : BOOLEAN, scanner : NullScanner]

\* What Create, Update and BulkImport refuse with an error for the client.
Valid(rec) == (rec.type = "host" => rec.host # NoHost) /\ (rec.type = "saml" => rec.url)

ASSUME InventoryAssumption ==
    /\ NoScanner \notin Scanners /\ NoHost \notin Hosts
    /\ Covers \in [Hosts -> SUBSET Targets]
    /\ PromoteHosts \in [Targets -> SUBSET Hosts]
    /\ Records \subseteq Config
    /\ \A p \in Patches : /\ DOMAIN p \subseteq Fields \ {"type"}
                          /\ \E c \in Config : c.host # NoHost /\ \A f \in DOMAIN p : p[f] = c[f]
    /\ Imports \subseteq Seq(Records) /\ Reports \subseteq Seq(Targets)
    /\ MaxRequests \in Nat

VARIABLES
    scanner,   \* scanners: [Scanners -> Phase]
    default,   \* those with is_default
    network,   \* discovery_networks
    phase,     \* endpoints: [Endpoints -> Phase]
    row,       \* endpoints, the columns of all types
    hostRow,   \* endpoint_hosts
    samlRow,   \* endpoint_saml: no row, a row, a row with metadata
    inbox,     \* discovery_inbox
    req,       \* requests in flight
    requests,  \* requests so far
    promoted,  \* history: inbox items an endpoint was made of
    held       \* history: per report, the targets monitored ever since it began

vars == <<scanner, default, network, phase, row, hostRow, samlRow, inbox, req,
          requests, promoted, held>>
endpoints == <<phase, row, hostRow, samlRow>>
fleet == <<scanner, default, network>>

Phase == {"new", "live", "gone"}
Row == [type : {"host", "saml", "manual"}, enabled : BOOLEAN, exempt : BOOLEAN,
        scanner : NullScanner]
Network == [phase : Phase, scanner : NullScanner]

\* An id names its (ip, port), which are unique; the number tells rediscoveries apart.
ItemID == Targets \X Nat
Item == [id : ItemID, status : {"new", "dismissed"}, net : Networks, scanner : NullScanner]
TargetOf(i) == i.id[1]

\* Mutant of Found: no conflict is seen on (ip, port).
FoundNothing == {}

Found == {TargetOf(i) : i \in inbox}

Request ==
    [pc : {"idle"}]
        \cup [pc : {"patch"}, ep : Endpoints, base : Config, patch : Patches]
        \cup [pc : {"bulk"}, rows : Seq(Records)]
        \cup [pc : {"promote", "unlist"}, id : ItemID, rec : Config]
        \cup [pc : {"report"}, scanner : Scanners, net : Networks, left : Seq(Targets),
              kept : Seq(Targets)]
        \cup [pc : {"default"}, scanner : Scanners, cleared : SUBSET Scanners]

Idle == [pc |-> "idle"]
NoRow == [type |-> "manual", enabled |-> FALSE, exempt |-> FALSE, scanner |-> NoScanner]

\* A request that one transaction serves.
AtOnce == requests < MaxRequests /\ requests' = requests + 1 /\ UNCHANGED req

\* A request of several steps arrives.
Start(w, r) ==
    /\ req[w].pc = "idle"
    /\ requests < MaxRequests /\ requests' = requests + 1
    /\ req' = [req EXCEPT ![w] = r]

Goto(w, r) == req' = [req EXCEPT ![w] = r] /\ UNCHANGED requests

\* The foreign key to scanners.
Exists(s) == s # NoScanner => scanner[s] = "live"

Range(s) == {s[i] : i \in DOMAIN s}

RowOf(rec) == [type |-> rec.type, enabled |-> rec.enabled, exempt |-> rec.exempt,
               scanner |-> rec.scanner]

(***************************************************************************)
(* Endpoints                                                               *)
(***************************************************************************)
\* Only the URL is upserted: what scanners wrote stays.
SamlRowAfter(old, rec) ==
    IF rec.type # "saml" THEN "none" ELSE IF old = "none" THEN "bare" ELSE old

\* Mutant of HostRowAfter: a change of type leaves the row behind.
HostRowKept(old, rec) == IF rec.type = "host" THEN rec.host ELSE old

HostRowAfter(old, rec) == IF rec.type = "host" THEN rec.host ELSE NoHost

\* InsertEndpoint's and UpdateEndpoint's transaction.  A missing URL is a nil
\* pointer there: the transaction is undone.
Write(e, rec) ==
    /\ Exists(rec.scanner) /\ (rec.type = "saml" => rec.url)
    /\ row' = [row EXCEPT ![e] = RowOf(rec)]
    /\ hostRow' = [hostRow EXCEPT ![e] = HostRowAfter(@, rec)]
    /\ samlRow' = [samlRow EXCEPT ![e] = SamlRowAfter(@, rec)]

InsertEndpoint(e, rec) ==
    /\ phase[e] = "new"
    /\ phase' = [phase EXCEPT ![e] = "live"]
    /\ Write(e, [rec EXCEPT !.exempt = FALSE])

UpdateEndpoint(e, rec) == phase[e] = "live" /\ Write(e, rec) /\ UNCHANGED phase

\* A new endpoint is enabled.
Create(e, rec) ==
    /\ AtOnce
    /\ Valid(rec) /\ InsertEndpoint(e, [rec EXCEPT !.enabled = TRUE])
    /\ UNCHANGED <<fleet, inbox, promoted>>

Update(e, rec) ==
    /\ AtOnce
    /\ Valid(rec) /\ UpdateEndpoint(e, rec)
    /\ UNCHANGED <<fleet, inbox, promoted>>

\* GetEndpoint, as a record.
Current(e) == [type |-> row[e].type, host |-> hostRow[e], url |-> samlRow[e] # "none",
               enabled |-> row[e].enabled, exempt |-> row[e].exempt,
               scanner |-> row[e].scanner]

Merge(base, p) == [f \in Fields |-> IF f \in DOMAIN p THEN p[f] ELSE base[f]]

PatchRead(w, e, p) ==
    /\ phase[e] = "live"
    /\ Start(w, [pc |-> "patch", ep |-> e, base |-> Current(e), patch |-> p])
    /\ UNCHANGED <<endpoints, fleet, inbox, promoted>>

PatchWrite(w) ==
    /\ req[w].pc = "patch"
    /\ UpdateEndpoint(req[w].ep, Merge(req[w].base, req[w].patch))
    /\ Goto(w, Idle)
    /\ UNCHANGED <<fleet, inbox, promoted>>

BulkImport(w, rows) ==
    /\ rows # <<>>
    /\ Start(w, [pc |-> "bulk", rows |-> rows])
    /\ UNCHANGED <<endpoints, fleet, inbox, promoted>>

NextRow(w) == Goto(w, IF Len(req[w].rows) = 1 THEN Idle ELSE [req[w] EXCEPT !.rows = Tail(@)])

ImportRow(w, e) ==
    /\ req[w].pc = "bulk"
    /\ Valid(Head(req[w].rows))
    /\ InsertEndpoint(e, [Head(req[w].rows) EXCEPT !.enabled = TRUE])
    /\ NextRow(w)
    /\ UNCHANGED <<fleet, inbox, promoted>>

\* A row that is refused or cannot be stored is counted as failed; the rest goes on.
SkipRow(w) ==
    /\ req[w].pc = "bulk"
    /\ NextRow(w)
    /\ UNCHANGED <<endpoints, fleet, inbox, promoted>>

DeleteEndpoint(e) ==
    /\ AtOnce
    /\ phase[e] = "live"
    /\ phase' = [phase EXCEPT ![e] = "gone"]
    /\ row' = [row EXCEPT ![e] = NoRow]
    /\ hostRow' = [hostRow EXCEPT ![e] = NoHost]
    /\ samlRow' = [samlRow EXCEPT ![e] = "none"]
    /\ UNCHANGED <<fleet, inbox, promoted>>

\* A scanner's SAML result.
UpsertSAMLMetadata(e) ==
    /\ samlRow[e] = "bare"
    /\ samlRow' = [samlRow EXCEPT ![e] = "metadata"]
    /\ UNCHANGED <<phase, row, hostRow, fleet, inbox, req, requests, promoted>>

(***************************************************************************)
(* Scanners                                                                *)
(***************************************************************************)
InsertScannerToken(s) ==
    /\ AtOnce
    /\ scanner[s] = "new"
    /\ scanner' = [scanner EXCEPT ![s] = "live"]
    /\ UNCHANGED <<default, network, endpoints, inbox, promoted>>

SetDefaultBegin(w, s) ==
    /\ scanner[s] = "live"
    /\ Start(w, [pc |-> "default", scanner |-> s, cleared |-> default])
    /\ UNCHANGED <<endpoints, fleet, inbox, promoted>>

DefaultAfter(r) == (default \ r.cleared) \cup {r.scanner}

\* The clearing UPDATE sees the rows of its own snapshot; when another request
\* has set a default since, the unique index fails this one (see Fails).
SetDefaultCommit(w) ==
    /\ req[w].pc = "default"
    /\ scanner[req[w].scanner] = "live"
    /\ default \subseteq req[w].cleared \cup {req[w].scanner}
    /\ default' = DefaultAfter(req[w])
    /\ Goto(w, Idle)
    /\ UNCHANGED <<scanner, network, endpoints, inbox, promoted>>

SetNull(r, s) == [r EXCEPT !.scanner = IF @ = s THEN NoScanner ELSE @]

\* The foreign keys of endpoints, networks and inbox are set to NULL.
DeleteScannerToken(s) ==
    /\ AtOnce
    /\ scanner[s] = "live"
    /\ scanner' = [scanner EXCEPT ![s] = "gone"]
    /\ default' = default \ {s}
    /\ network' = [n \in Networks |-> SetNull(network[n], s)]
    /\ row' = [e \in Endpoints |-> SetNull(row[e], s)]
    /\ inbox' = {SetNull(i, s) : i \in inbox}
    /\ UNCHANGED <<phase, hostRow, samlRow, promoted>>

\* Mutant of Assigned: unassigned endpoints are listed for every scanner.
AssignedToAll(e, s) == row[e].scanner \in {s, NoScanner}

\* The default scanner also takes the endpoints nobody is assigned to.
Assigned(e, s) == row[e].scanner = s \/ (row[e].scanner = NoScanner /\ s \in default)

\* GetScannerHostEndpoints and GetScannerSAMLEndpoints join the row of the type.
Listed(s) ==
    {e \in Endpoints :
        /\ phase[e] = "live" /\ row[e].enabled /\ ~row[e].exempt
        /\ \/ row[e].type = "host" /\ hostRow[e] # NoHost
           \/ row[e].type = "saml" /\ samlRow[e] # "none"
        /\ Assigned(e, s)}

(***************************************************************************)
(* Discovery                                                               *)
(***************************************************************************)
InsertDiscoveryNetwork(n, s) ==
    /\ AtOnce
    /\ network[n].phase = "new" /\ Exists(s)
    /\ network' = [network EXCEPT ![n] = [phase |-> "live", scanner |-> s]]
    /\ UNCHANGED <<scanner, default, endpoints, inbox, promoted>>

UpdateDiscoveryNetwork(n, s) ==
    /\ AtOnce
    /\ network[n].phase = "live" /\ Exists(s)
    /\ network' = [network EXCEPT ![n].scanner = s]
    /\ UNCHANGED <<scanner, default, endpoints, inbox, promoted>>

\* Cascades to the inbox.
DeleteDiscoveryNetwork(n) ==
    /\ AtOnce
    /\ network[n].phase = "live"
    /\ network' = [network EXCEPT ![n].phase = "gone"]
    /\ inbox' = {i \in inbox : i.net # n}
    /\ UNCHANGED <<scanner, default, endpoints, promoted>>

\* The targets of an endpoint that exists.
Covered == UNION {Covers[hostRow[e]] : e \in {x \in Endpoints : hostRow[x] # NoHost}}

\* The scanner works from the configuration it fetched last: its network may have
\* been disabled, given to another scanner or deleted since.
ReportDiscovery(w, s, n, items) ==
    /\ scanner[s] = "live" /\ network[n].phase # "new" /\ items # <<>>
    /\ Start(w, [pc |-> "report", scanner |-> s, net |-> n, left |-> items, kept |-> <<>>])
    /\ UNCHANGED <<endpoints, fleet, inbox, promoted>>

\* Mutant of ExistsForTarget: nothing counts as monitored.
ExistsForTargetNever(t) == FALSE

ExistsForTarget(t) == t \in Covered

CheckItem(w) ==
    /\ req[w].pc = "report" /\ req[w].left # <<>>
    /\ Goto(w, [req[w] EXCEPT
                   !.left = Tail(@),
                   !.kept = IF ExistsForTarget(Head(req[w].left)) THEN @
                            ELSE Append(@, Head(req[w].left))])
    /\ UNCHANGED <<endpoints, fleet, inbox, promoted>>

\* Mutant of OnConflict: the status of the report is taken over.
OnConflictReset(i, r) == [i EXCEPT !.net = r.net, !.scanner = r.scanner, !.status = "new"]

OnConflict(i, r) == [i EXCEPT !.net = r.net, !.scanner = r.scanner]

\* A target that is twice in the statement, a network or a scanner that is gone
\* fails the statement (see Fails).
UpsertDiscoveryInboxItems(w) ==
    LET r == req[w]
        K == Range(r.kept) IN
    /\ r.pc = "report" /\ r.left = <<>>
    /\ \A i, j \in DOMAIN r.kept : r.kept[i] = r.kept[j] => i = j
    /\ K # {} => network[r.net].phase = "live" /\ scanner[r.scanner] = "live"
    /\ inbox' = {IF TargetOf(i) \in K THEN OnConflict(i, r) ELSE i : i \in inbox}
                    \cup {[id |-> <<t, requests>>, status |-> "new", net |-> r.net,
                           scanner |-> r.scanner] : t \in K \ Found}
    /\ Goto(w, Idle)
    /\ UNCHANGED <<endpoints, fleet, promoted>>

\* The request has the host's name, enabled and the scanner; the port is the item's.
PromoteRead(w, i, h, body) ==
    /\ h \in PromoteHosts[TargetOf(i)]
    /\ Start(w, [pc |-> "promote", id |-> i.id,
                 rec |-> [type |-> "host", host |-> h, url |-> FALSE,
                          enabled |-> body.enabled, exempt |-> FALSE,
                          scanner |-> body.scanner]])
    /\ UNCHANGED <<endpoints, fleet, inbox, promoted>>

PromoteInsert(w, e) ==
    /\ req[w].pc = "promote"
    /\ InsertEndpoint(e, req[w].rec)
    /\ promoted' = promoted \cup {req[w].id}
    /\ Goto(w, [req[w] EXCEPT !.pc = "unlist"])
    /\ UNCHANGED <<fleet, inbox>>

\* Mutant of Unlisted: the row is looked up by ip and port.
UnlistedTarget(id) == {i \in inbox : TargetOf(i) # id[1]}

Unlisted(id) == {i \in inbox : i.id # id}

PromoteDelete(w) ==
    /\ req[w].pc = "unlist"
    /\ inbox' = Unlisted(req[w].id)
    /\ Goto(w, Idle)
    /\ UNCHANGED <<endpoints, fleet, promoted>>

DismissDiscoveryInboxItem(i) ==
    /\ AtOnce
    /\ inbox' = (inbox \ {i}) \cup {[i EXCEPT !.status = "dismissed"]}
    /\ UNCHANGED <<endpoints, fleet, promoted>>

DeleteDiscoveryInboxItem(i) ==
    /\ AtOnce
    /\ inbox' = inbox \ {i}
    /\ UNCHANGED <<endpoints, fleet, promoted>>

\* A statement fails, the row it needs is gone, or the client or the server goes
\* away: the transaction in flight is undone, the steps before it stay.
Fails(w) ==
    /\ req[w].pc # "idle"
    /\ Goto(w, Idle)
    /\ UNCHANGED <<endpoints, fleet, inbox, promoted>>

(***************************************************************************)
(* Specification                                                           *)
(***************************************************************************)
\* An installation in use.
Init ==
    /\ scanner \in [Scanners -> {"new", "live"}]
    /\ default \in {{}} \cup {{s} : s \in Scanners} /\ \A s \in default : scanner[s] = "live"
    /\ network = [n \in Networks |-> [phase |-> IF n \in Stocked THEN "live" ELSE "new",
                                      scanner |-> NoScanner]]
    /\ phase = [e \in Endpoints |-> IF e \in Stocked THEN "live" ELSE "new"]
    /\ \E rec \in {r \in Records : Valid(r) /\ Exists(r.scanner)} :
          /\ row = [e \in Endpoints |-> IF e \in Stocked THEN RowOf(rec) ELSE NoRow]
          /\ hostRow = [e \in Endpoints |-> IF e \in Stocked THEN HostRowAfter(NoHost, rec)
                                            ELSE NoHost]
          /\ samlRow = [e \in Endpoints |-> IF e \in Stocked THEN SamlRowAfter("none", rec)
                                            ELSE "none"]
    /\ inbox \in {{}} \cup {{[id |-> <<t, 0>>, status |-> "new", net |-> n, scanner |-> NoScanner]} :
                             t \in Targets \cap Stocked, n \in Networks \cap Stocked}
    /\ req = [w \in Workers |-> Idle] /\ requests = 0
    /\ promoted = {} /\ held = [w \in Workers |-> {}]

Configure(e) ==
    \/ \E rec \in Records : Create(e, rec) \/ Update(e, rec)
    \/ DeleteEndpoint(e)
    \/ UpsertSAMLMetadata(e)

Fleet(s) ==
    \/ InsertScannerToken(s)
    \/ DeleteScannerToken(s)

Sweep(n) ==
    \/ \E s \in NullScanner : InsertDiscoveryNetwork(n, s) \/ UpdateDiscoveryNetwork(n, s)
    \/ DeleteDiscoveryNetwork(n)

Triage(i) == DismissDiscoveryInboxItem(i) \/ DeleteDiscoveryInboxItem(i)

Arrive(w) ==
    \/ \E e \in Endpoints, p \in Patches : PatchRead(w, e, p)
    \/ \E rows \in Imports : BulkImport(w, rows)
    \/ \E s \in Scanners : SetDefaultBegin(w, s)
    \/ \E s \in Scanners, n \in Networks, items \in Reports : ReportDiscovery(w, s, n, items)
    \/ \E i \in inbox, h \in Hosts, body \in Records : PromoteRead(w, i, h, body)

Serve(w) ==
    \/ PatchWrite(w)
    \/ \E e \in Endpoints : ImportRow(w, e) \/ PromoteInsert(w, e)
    \/ SkipRow(w)
    \/ SetDefaultCommit(w)
    \/ CheckItem(w)
    \/ UpsertDiscoveryInboxItems(w)
    \/ PromoteDelete(w)
    \/ Fails(w)

Operation ==
    \/ \E e \in Endpoints : Configure(e)
    \/ \E s \in Scanners : Fleet(s)
    \/ \E n \in Networks : Sweep(n)
    \/ \E i \in inbox : Triage(i)
    \/ \E w \in Workers : Arrive(w) \/ Serve(w)

\* The targets a report found monitored when it came and that still are.
Track ==
    held' = [w \in Workers |-> IF req'[w].pc # "report" THEN {}
                               ELSE IF req[w].pc # "report" THEN Covered'
                               ELSE held[w] \cap Covered']

Next == Operation /\ Track

Spec == Init /\ [][Next]_vars

(***************************************************************************)
(* Properties                                                              *)
(***************************************************************************)
\* The shape of the state; (ip, port) is unique, and an item's network exists.
TypeOK ==
    /\ scanner \in [Scanners -> Phase] /\ default \subseteq Scanners
    /\ network \in [Networks -> Network]
    /\ phase \in [Endpoints -> Phase] /\ row \in [Endpoints -> Row]
    /\ hostRow \in [Endpoints -> Hosts \cup {NoHost}]
    /\ samlRow \in [Endpoints -> {"none", "bare", "metadata"}]
    /\ inbox \subseteq Item
    /\ \A i, k \in inbox : TargetOf(i) = TargetOf(k) => i = k
    /\ \A i \in inbox : network[i.net].phase = "live"
    /\ req \in [Workers -> Request] /\ requests \in Nat
    /\ promoted \subseteq ItemID /\ held \in [Workers -> SUBSET Targets]

\* UpdateEndpoint's comment: "a type change never leaves orphans".  Each endpoint
\* has the row of its type and of no other, whatever updates, patches that were
\* read earlier, imports and deletions interleave.
TypeRowsMatch ==
    \A e \in Endpoints :
        /\ hostRow[e] # NoHost <=> phase[e] = "live" /\ row[e].type = "host"
        /\ samlRow[e] # "none" <=> phase[e] = "live" /\ row[e].type = "saml"

\* While there is a default scanner, every endpoint that is to be scanned is on
\* the list of exactly one scanner, across changes of the default, removals of
\* scanners and writes that name one.
ScannedByOne ==
    default # {} =>
        \A e \in Endpoints :
            (phase[e] = "live" /\ row[e].enabled /\ ~row[e].exempt /\ row[e].type # "manual")
                => \E s \in Scanners :
                      {x \in Scanners : scanner[x] = "live" /\ e \in Listed(x)} = {s}

\* A dismissed target does not come back as new while its item exists, whatever
\* scanners and networks report it.
DismissedStaysDismissed ==
    [][\A i \in inbox, k \in inbox' :
          (i.status = "dismissed" /\ TargetOf(k) = TargetOf(i)) => k.status = "dismissed"]_vars

\* What was discovered leaves the inbox only after it became an endpoint or when
\* an operator deletes it or its network: a late promotion does not take an item
\* that was discovered again.
DiscoveryIsNotLost ==
    [][\A i \in inbox :
          \/ i.id \in promoted
          \/ \E k \in inbox' : k.id = i.id
          \/ DeleteDiscoveryInboxItem(i)
          \/ DeleteDiscoveryNetwork(i.net)]_vars

\* A target that was monitored all the while a report was served does not enter
\* the inbox by it.
MonitoredStaysOut ==
    [][\A w \in Workers, k \in inbox' :
          (req[w].pc = "report" /\ req'[w].pc = "idle" /\ TargetOf(k) \in held[w])
              => \E i \in inbox : TargetOf(i) = TargetOf(k)]_vars

\* The request w is a patch of e, and ends.
Patched(w, e) == req[w].pc = "patch" /\ req[w].ep = e /\ req'[w].pc = "idle"

\* The API: "Only fields present in the request body are changed; omitted fields
\* retain their current values."
PatchKeepsOmittedFields ==
    [][\A w \in Workers, e \in Endpoints :
          Patched(w, e) =>
              \A f \in Fields \ DOMAIN req[w].patch : Current(e)'[f] = Current(e)[f]]_vars

=============================================================================
