--------------------------- MODULE InventoryProofs ---------------------------
(***************************************************************************)
(* Proofs about Inventory, for any scanners, networks, endpoints, targets  *)
(* and requests, and any number of them at a time.                         *)
(***************************************************************************)
EXTENDS Inventory, TLAPS

(***************************************************************************)
(* The inductive invariant                                                 *)
(***************************************************************************)
\* What a record must satisfy to be written.
Storable(rec) ==
    /\ rec.type \in {"host", "saml", "manual"}
    /\ rec.enabled \in BOOLEAN /\ rec.exempt \in BOOLEAN /\ rec.scanner \in NullScanner
    /\ rec.type = "host" => rec.host \in Hosts

\* Endpoints have the row of their type, and a scanner that exists or none.
EndpointInv ==
    /\ phase \in [Endpoints -> Phase] /\ row \in [Endpoints -> Row]
    /\ hostRow \in [Endpoints -> Hosts \cup {NoHost}]
    /\ samlRow \in [Endpoints -> {"none", "bare", "metadata"}]
    /\ TypeRowsMatch
    /\ \A e \in Endpoints : Exists(row[e].scanner)

\* There is at most one default scanner, and it exists.
FleetInv ==
    /\ scanner \in [Scanners -> Phase] /\ network \in [Networks -> Network]
    /\ default \subseteq {s \in Scanners : scanner[s] = "live"}
    /\ \A s, t \in default : s = t

InboxInv ==
    /\ inbox \subseteq Item
    /\ \A i, k \in inbox : TargetOf(i) = TargetOf(k) => i = k
    /\ \A i \in inbox : network[i.net].phase = "live"
    /\ promoted \subseteq ItemID

\* A request in flight carries a record that can be written, targets that have not
\* been monitored all the while, and, when it removes an item, one it promoted.
RequestInv ==
    /\ req \in [Workers -> Request] /\ requests \in Nat
    /\ held \in [Workers -> SUBSET Targets]
    /\ \A w \in Workers :
          /\ req[w].pc = "patch" => Storable(req[w].base)
          /\ req[w].pc = "bulk" => Len(req[w].rows) # 0
          /\ req[w].pc = "promote" => req[w].rec.type = "host" /\ req[w].rec.host # NoHost
          /\ req[w].pc = "unlist" => req[w].id \in promoted
          /\ req[w].pc = "report" => Range(req[w].kept) \cap held[w] = {}

InventoryInv == EndpointInv /\ FleetInv /\ InboxInv /\ RequestInv

\* The invariant has the types in it.
LEMMA InvTypes == InventoryInv => TypeOK
BY DEF InventoryInv, EndpointInv, FleetInv, InboxInv, RequestInv, TypeOK

(***************************************************************************)
(* Endpoints                                                               *)
(***************************************************************************)
\* A record with its switches replaced, as Create, BulkImport and Promote do.
LEMMA StorableRecord ==
    ASSUME NEW rec \in Config, rec.type = "host" => rec.host # NoHost
    PROVE  /\ Storable([rec EXCEPT !.exempt = FALSE])
           /\ Storable([[rec EXCEPT !.enabled = TRUE] EXCEPT !.exempt = FALSE])
           /\ Storable(rec)
<1> DEFINE a == [rec EXCEPT !.exempt = FALSE]
           b == [rec EXCEPT !.enabled = TRUE]
           c == [b EXCEPT !.exempt = FALSE]
<1>1. a \in Config /\ a.type = rec.type /\ a.host = rec.host
    BY DEF Config
<1>2. b \in Config /\ b.type = rec.type /\ b.host = rec.host
    BY DEF Config
<1>3. c \in Config /\ c.type = b.type /\ c.host = b.host
    BY <1>2 DEF Config
<1>4. ASSUME NEW r \in Config, r.type = rec.type, r.host = rec.host PROVE Storable(r)
    BY <1>4 DEF Config, Storable
<1>5. QED
    <2> HIDE DEF a, b, c
    <2>1. Storable(a)
        BY <1>1, <1>4
    <2>2. Storable(c)
        BY <1>2, <1>3, <1>4
    <2>3. Storable(rec)
        BY <1>4
    <2>4. QED
        BY <2>1, <2>2, <2>3 DEF a, b, c

\* The merge of a storable record and a patch is storable.
LEMMA StorableMerge ==
    ASSUME NEW base \in Config, Storable(base), NEW p \in Patches
    PROVE  Storable(Merge(base, p)) /\ Merge(base, p).type = base.type
<1> DEFINE m == Merge(base, p)
<1>1. /\ DOMAIN p \subseteq Fields \ {"type"}
      /\ \E c \in Config : c.host # NoHost /\ \A f \in DOMAIN p : p[f] = c[f]
    BY InventoryAssumption
<1>2. PICK c \in Config : c.host # NoHost /\ \A f \in DOMAIN p : p[f] = c[f]
    BY <1>1
<1>3. \A f \in Fields : m[f] = base[f] \/ m[f] = c[f]
    BY <1>1, <1>2 DEF Merge
<1>4. m.type = base.type
    BY <1>1 DEF Merge, Fields
<1>5. /\ m.enabled = base.enabled \/ m.enabled = c.enabled
      /\ m.exempt = base.exempt \/ m.exempt = c.exempt
      /\ m.scanner = base.scanner \/ m.scanner = c.scanner
      /\ m.host = base.host \/ m.host = c.host
    BY <1>3 DEF Fields
<1> HIDE DEF m
<1>6. m.enabled \in BOOLEAN /\ m.exempt \in BOOLEAN
    BY <1>5 DEF Config
<1>7. m.scanner \in NullScanner
    BY <1>5 DEF Config
<1>8. base.type = "host" => m.host \in Hosts
    BY <1>2, <1>5 DEF Config, Storable
<1>9. Storable(m)
    BY <1>4, <1>6, <1>7, <1>8 DEF Storable, Config
<1>10. QED
    BY <1>4, <1>9 DEF m

\* Writing a storable record keeps the endpoints in order.
LEMMA WriteKeeps ==
    ASSUME EndpointInv, NEW e \in Endpoints, NEW rec, Storable(rec), Write(e, rec),
           phase' = [phase EXCEPT ![e] = "live"], UNCHANGED scanner
    PROVE  EndpointInv'
<1> DEFINE r == RowOf(rec)
<1>1. r \in Row /\ r.type = rec.type /\ r.scanner = rec.scanner
    BY DEF Row, RowOf, Storable
<1>2. row' = [row EXCEPT ![e] = r]
    BY DEF Write
<1> HIDE DEF r
<1>3. row' \in [Endpoints -> Row]
    BY <1>1, <1>2 DEF EndpointInv
<1>4. phase' \in [Endpoints -> Phase]
    BY DEF EndpointInv, Phase
<1>5. HostRowAfter(hostRow[e], rec) \in Hosts \cup {NoHost}
    BY DEF HostRowAfter, Storable
<1>6. HostRowAfter(hostRow[e], rec) # NoHost <=> rec.type = "host"
    BY InventoryAssumption DEF HostRowAfter, Storable
<1>7. /\ SamlRowAfter(samlRow[e], rec) \in {"none", "bare", "metadata"}
      /\ SamlRowAfter(samlRow[e], rec) # "none" <=> rec.type = "saml"
    BY DEF SamlRowAfter, EndpointInv
<1>8. /\ hostRow' = [hostRow EXCEPT ![e] = HostRowAfter(hostRow[e], rec)]
      /\ samlRow' = [samlRow EXCEPT ![e] = SamlRowAfter(samlRow[e], rec)]
    BY DEF Write
<1>9. /\ hostRow' \in [Endpoints -> Hosts \cup {NoHost}]
      /\ samlRow' \in [Endpoints -> {"none", "bare", "metadata"}]
    BY <1>5, <1>7, <1>8 DEF EndpointInv
<1>10. TypeRowsMatch'
    <2> SUFFICES ASSUME NEW x \in Endpoints
                 PROVE  /\ hostRow'[x] # NoHost <=> phase'[x] = "live" /\ row'[x].type = "host"
                        /\ samlRow'[x] # "none" <=> phase'[x] = "live" /\ row'[x].type = "saml"
        BY DEF TypeRowsMatch
    <2>1. CASE x = e
        BY <2>1, <1>1, <1>2, <1>6, <1>7, <1>8 DEF EndpointInv
    <2>2. CASE x # e
        BY <2>2, <1>2, <1>8 DEF EndpointInv, TypeRowsMatch
    <2>3. QED
        BY <2>1, <2>2
<1>11. (\A x \in Endpoints : Exists(row[x].scanner))'
    BY <1>1, <1>2 DEF Write, Exists, EndpointInv
<1>12. QED
    BY <1>3, <1>4, <1>9, <1>10, <1>11 DEF EndpointInv

\* A new or an existing endpoint is written.
LEMMA InsertKeeps ==
    ASSUME EndpointInv, NEW e \in Endpoints, NEW rec,
           Storable([rec EXCEPT !.exempt = FALSE]), InsertEndpoint(e, rec), UNCHANGED scanner
    PROVE  EndpointInv'
BY WriteKeeps DEF InsertEndpoint

LEMMA UpdateKeeps ==
    ASSUME EndpointInv, NEW e \in Endpoints, NEW rec,
           Storable(rec), UpdateEndpoint(e, rec), UNCHANGED scanner
    PROVE  EndpointInv'
<1>1. phase' = [phase EXCEPT ![e] = "live"]
    BY DEF UpdateEndpoint, EndpointInv
<1>2. QED
    BY <1>1, WriteKeeps DEF UpdateEndpoint

\* The foreign keys follow a scanner's removal.
LEMMA SetNullKeeps ==
    ASSUME NEW s \in Scanners, NEW r \in Row
    PROVE  /\ SetNull(r, s) \in Row /\ SetNull(r, s).type = r.type
           /\ SetNull(r, s).scanner = IF r.scanner = s THEN NoScanner ELSE r.scanner
BY DEF SetNull, Row, NullScanner

LEMMA DeleteScannerKeepsEndpoints ==
    ASSUME EndpointInv, FleetInv, NEW s \in Scanners, DeleteScannerToken(s)
    PROVE  EndpointInv'
<1>1. /\ row' = [e \in Endpoints |-> SetNull(row[e], s)]
      /\ UNCHANGED <<phase, hostRow, samlRow>>
      /\ scanner' = [scanner EXCEPT ![s] = "gone"]
    BY DEF DeleteScannerToken
<1>2. \A e \in Endpoints :
          /\ row'[e] \in Row /\ row'[e].type = row[e].type
          /\ row'[e].scanner = IF row[e].scanner = s THEN NoScanner ELSE row[e].scanner
    BY <1>1, SetNullKeeps DEF EndpointInv
<1>3. row' \in [Endpoints -> Row]
    BY <1>1, <1>2
<1>4. TypeRowsMatch'
    BY <1>1, <1>2 DEF TypeRowsMatch, EndpointInv
<1>5. (\A e \in Endpoints : Exists(row[e].scanner))'
    BY <1>1, <1>2, InventoryAssumption DEF Exists, EndpointInv, FleetInv, Row, NullScanner
<1>6. QED
    BY <1>1, <1>3, <1>4, <1>5 DEF EndpointInv

(***************************************************************************)
(* Requests                                                                *)
(***************************************************************************)
\* What a request carries, by its program counter.
LEMMA RequestShape ==
    ASSUME RequestInv, NEW w \in Workers
    PROVE  /\ req[w].pc = "patch" =>
                  req[w].ep \in Endpoints /\ req[w].base \in Config /\ req[w].patch \in Patches
           /\ req[w].pc = "bulk" => req[w].rows \in Seq(Records)
           /\ req[w].pc \in {"promote", "unlist"} =>
                  req[w].id \in ItemID /\ req[w].rec \in Config
           /\ req[w].pc = "report" =>
                  /\ req[w].scanner \in Scanners /\ req[w].net \in Networks
                  /\ req[w].left \in Seq(Targets) /\ req[w].kept \in Seq(Targets)
           /\ req[w].pc = "default" =>
                  req[w].scanner \in Scanners /\ req[w].cleared \in SUBSET Scanners
<1>1. req[w] \in Request
    BY DEF RequestInv
<1>2. QED
    BY <1>1 DEF Request

\* The endpoints stay in order.
LEMMA EndpointStep == ASSUME InventoryInv, Operation PROVE EndpointInv'
<1>1. EndpointInv /\ FleetInv /\ RequestInv
    BY DEF InventoryInv
<1>2. ASSUME NEW rec \in Records PROVE rec \in Config
    BY InventoryAssumption
<1>3. ASSUME NEW e \in Endpoints, NEW rec \in Records, Create(e, rec) PROVE EndpointInv'
    <2>1. Storable([[rec EXCEPT !.enabled = TRUE] EXCEPT !.exempt = FALSE])
        BY <1>2, <1>3, StorableRecord DEF Create, Valid
    <2>2. InsertEndpoint(e, [rec EXCEPT !.enabled = TRUE]) /\ UNCHANGED scanner
        BY <1>3 DEF Create, fleet
    <2>3. QED
        BY <1>1, <2>1, <2>2, InsertKeeps
<1>4. ASSUME NEW e \in Endpoints, NEW rec \in Records, Update(e, rec) PROVE EndpointInv'
    <2>1. Storable(rec)
        BY <1>2, <1>4, StorableRecord DEF Update, Valid
    <2>2. UpdateEndpoint(e, rec) /\ UNCHANGED scanner
        BY <1>4 DEF Update, fleet
    <2>3. QED
        BY <1>1, <2>1, <2>2, UpdateKeeps
<1>5. ASSUME NEW e \in Endpoints, DeleteEndpoint(e) PROVE EndpointInv'
    <2>1. NoRow \in Row /\ NoRow.scanner = NoScanner
        BY DEF NoRow, Row, NullScanner
    <2> HIDE DEF NoRow
    <2>2. /\ phase' = [phase EXCEPT ![e] = "gone"] /\ row' = [row EXCEPT ![e] = NoRow]
          /\ hostRow' = [hostRow EXCEPT ![e] = NoHost]
          /\ samlRow' = [samlRow EXCEPT ![e] = "none"] /\ UNCHANGED scanner
        BY <1>5 DEF DeleteEndpoint, fleet
    <2>3. TypeRowsMatch'
        BY <1>1, <2>2 DEF EndpointInv, TypeRowsMatch
    <2>4. (\A x \in Endpoints : Exists(row[x].scanner))'
        BY <1>1, <2>1, <2>2 DEF EndpointInv, Exists
    <2>5. QED
        BY <1>1, <2>1, <2>2, <2>3, <2>4 DEF EndpointInv, Phase
<1>6. ASSUME NEW e \in Endpoints, UpsertSAMLMetadata(e) PROVE EndpointInv'
    <2>1. /\ samlRow[e] = "bare" /\ samlRow' = [samlRow EXCEPT ![e] = "metadata"]
          /\ UNCHANGED <<phase, row, hostRow, scanner>>
        BY <1>6 DEF UpsertSAMLMetadata, fleet
    <2>2. TypeRowsMatch'
        BY <1>1, <2>1 DEF EndpointInv, TypeRowsMatch
    <2>3. QED
        BY <1>1, <2>1, <2>2 DEF EndpointInv, Exists
<1>7. ASSUME NEW w \in Workers, PatchWrite(w) PROVE EndpointInv'
    <2>1. /\ req[w].ep \in Endpoints /\ req[w].base \in Config /\ req[w].patch \in Patches
          /\ Storable(req[w].base)
        BY <1>1, <1>7, RequestShape DEF PatchWrite, RequestInv
    <2>2. Storable(Merge(req[w].base, req[w].patch))
        BY <2>1, StorableMerge
    <2>3. /\ UpdateEndpoint(req[w].ep, Merge(req[w].base, req[w].patch))
          /\ UNCHANGED scanner
        BY <1>7 DEF PatchWrite, fleet
    <2>4. QED
        BY <1>1, <2>1, <2>2, <2>3, UpdateKeeps
<1>8. ASSUME NEW w \in Workers, NEW e \in Endpoints, ImportRow(w, e) PROVE EndpointInv'
    <2> DEFINE rec == Head(req[w].rows)
    <2>1. req[w].rows \in Seq(Records) /\ Valid(rec)
        BY <1>1, <1>8, RequestShape DEF ImportRow
    <2>2. rec \in Config
        BY <1>1, <1>2, <1>8, <2>1 DEF RequestInv, ImportRow
    <2>3. Storable([[rec EXCEPT !.enabled = TRUE] EXCEPT !.exempt = FALSE])
        BY <2>1, <2>2, StorableRecord DEF Valid
    <2>4. InsertEndpoint(e, [rec EXCEPT !.enabled = TRUE]) /\ UNCHANGED scanner
        BY <1>8 DEF ImportRow, fleet
    <2>5. QED
        BY <1>1, <2>3, <2>4, InsertKeeps
<1>9. ASSUME NEW w \in Workers, NEW e \in Endpoints, PromoteInsert(w, e) PROVE EndpointInv'
    <2>1. req[w].rec \in Config /\ req[w].rec.type = "host" /\ req[w].rec.host # NoHost
        BY <1>1, <1>9, RequestShape DEF PromoteInsert, RequestInv
    <2>2. Storable([req[w].rec EXCEPT !.exempt = FALSE])
        BY <2>1, StorableRecord
    <2>3. InsertEndpoint(e, req[w].rec) /\ UNCHANGED scanner
        BY <1>9 DEF PromoteInsert, fleet
    <2>4. QED
        BY <1>1, <2>2, <2>3, InsertKeeps
<1>10. ASSUME NEW s \in Scanners, DeleteScannerToken(s) PROVE EndpointInv'
    BY <1>1, <1>10, DeleteScannerKeepsEndpoints
<1>11. ASSUME NEW s \in Scanners, InsertScannerToken(s) PROVE EndpointInv'
    <2>1. scanner' = [scanner EXCEPT ![s] = "live"] /\ UNCHANGED <<phase, row, hostRow, samlRow>>
        BY <1>11 DEF InsertScannerToken, endpoints
    <2>2. (\A e \in Endpoints : Exists(row[e].scanner))'
        BY <1>1, <2>1 DEF EndpointInv, FleetInv, Exists, Row, NullScanner
    <2>3. QED
        BY <1>1, <2>1, <2>2 DEF EndpointInv, TypeRowsMatch
<1>12. CASE UNCHANGED <<phase, row, hostRow, samlRow, scanner>>
    BY <1>1, <1>12 DEF EndpointInv, TypeRowsMatch, Exists
<1>13. CASE \E n \in Networks : Sweep(n)
    BY <1>13, <1>12 DEF Sweep, InsertDiscoveryNetwork, UpdateDiscoveryNetwork,
                       DeleteDiscoveryNetwork, endpoints
<1>14. CASE \E i \in inbox : Triage(i)
    BY <1>14, <1>12 DEF Triage, DismissDiscoveryInboxItem, DeleteDiscoveryInboxItem,
                       endpoints, fleet
<1>15. CASE \E w \in Workers : Arrive(w)
    BY <1>15, <1>12 DEF Arrive, PatchRead, BulkImport, SetDefaultBegin, ReportDiscovery,
                       PromoteRead, endpoints, fleet
<1>16. CASE \E w \in Workers : Serve(w)
    BY <1>16, <1>12, <1>7, <1>8, <1>9
       DEF Serve, SkipRow, SetDefaultCommit, CheckItem, UpsertDiscoveryInboxItems,
           PromoteDelete, Fails, endpoints, fleet
<1>17. QED
    BY <1>3, <1>4, <1>5, <1>6, <1>10, <1>11, <1>13, <1>14, <1>15, <1>16
       DEF Operation, Configure, Fleet

(***************************************************************************)
(* Scanners and networks                                                   *)
(***************************************************************************)
\* At most one default, whatever requests interleave.
LEMMA FleetStep == ASSUME InventoryInv, Operation PROVE FleetInv'
<1>1. FleetInv /\ RequestInv
    BY DEF InventoryInv
<1>2. ASSUME NEW s \in Scanners, InsertScannerToken(s) PROVE FleetInv'
    <2>1. scanner' = [scanner EXCEPT ![s] = "live"] /\ UNCHANGED <<default, network>>
        BY <1>2 DEF InsertScannerToken
    <2>2. QED
        BY <1>1, <2>1 DEF FleetInv, Phase
<1>3. ASSUME NEW s \in Scanners, DeleteScannerToken(s) PROVE FleetInv'
    <2>1. /\ scanner' = [scanner EXCEPT ![s] = "gone"] /\ default' = default \ {s}
          /\ network' = [n \in Networks |-> SetNull(network[n], s)]
        BY <1>3 DEF DeleteScannerToken
    <2>2. \A n \in Networks : SetNull(network[n], s) \in Network
        BY <1>1 DEF FleetInv, SetNull, Network, NullScanner
    <2>3. network' \in [Networks -> Network]
        BY <2>1, <2>2
    <2>4. QED
        BY <1>1, <2>1, <2>3 DEF FleetInv, Phase
<1>4. ASSUME NEW w \in Workers, SetDefaultCommit(w) PROVE FleetInv'
    <2>1. req[w].scanner \in Scanners
        BY <1>1, <1>4, RequestShape DEF SetDefaultCommit
    <2>2. /\ scanner[req[w].scanner] = "live" /\ UNCHANGED <<scanner, network>>
          /\ default \subseteq req[w].cleared \cup {req[w].scanner}
          /\ default' = (default \ req[w].cleared) \cup {req[w].scanner}
        BY <1>4 DEF SetDefaultCommit, DefaultAfter
    <2>3. default' = {req[w].scanner}
        BY <2>2
    <2>4. QED
        BY <1>1, <2>1, <2>2, <2>3 DEF FleetInv
<1>5. ASSUME NEW n \in Networks, NEW s \in NullScanner,
             InsertDiscoveryNetwork(n, s) \/ UpdateDiscoveryNetwork(n, s)
      PROVE  FleetInv'
    <2>1. /\ UNCHANGED <<scanner, default>>
          /\ \/ network' = [network EXCEPT ![n] = [phase |-> "live", scanner |-> s]]
             \/ network' = [network EXCEPT ![n].scanner = s]
        BY <1>5 DEF InsertDiscoveryNetwork, UpdateDiscoveryNetwork
    <2>2. network' \in [Networks -> Network]
        BY <1>1, <2>1 DEF FleetInv, Network, Phase
    <2>3. QED
        BY <1>1, <2>1, <2>2 DEF FleetInv
<1>6. ASSUME NEW n \in Networks, DeleteDiscoveryNetwork(n) PROVE FleetInv'
    <2>1. UNCHANGED <<scanner, default>> /\ network' = [network EXCEPT ![n].phase = "gone"]
        BY <1>6 DEF DeleteDiscoveryNetwork
    <2>2. network' \in [Networks -> Network]
        BY <1>1, <2>1 DEF FleetInv, Network, Phase
    <2>3. QED
        BY <1>1, <2>1, <2>2 DEF FleetInv
<1>7. CASE UNCHANGED <<scanner, default, network>>
    BY <1>1, <1>7 DEF FleetInv
<1>8. CASE \E e \in Endpoints : Configure(e)
    BY <1>7, <1>8 DEF Configure, Create, Update, DeleteEndpoint, UpsertSAMLMetadata, fleet
<1>9. CASE \E i \in inbox : Triage(i)
    BY <1>7, <1>9 DEF Triage, DismissDiscoveryInboxItem, DeleteDiscoveryInboxItem, fleet
<1>10. CASE \E w \in Workers : Arrive(w)
    BY <1>7, <1>10 DEF Arrive, PatchRead, BulkImport, SetDefaultBegin, ReportDiscovery,
                      PromoteRead, fleet
<1>11. CASE \E w \in Workers : Serve(w)
    BY <1>4, <1>7, <1>11 DEF Serve, PatchWrite, ImportRow, PromoteInsert, SkipRow, CheckItem,
                            UpsertDiscoveryInboxItems, PromoteDelete, Fails, fleet
<1>12. QED
    BY <1>2, <1>3, <1>5, <1>6, <1>8, <1>9, <1>10, <1>11 DEF Operation, Fleet, Sweep

(***************************************************************************)
(* The inbox                                                               *)
(***************************************************************************)
\* The shape of an item, part by part.
LEMMA ItemShape ==
    ASSUME NEW i \in Item
    PROVE  /\ i.id \in ItemID /\ TargetOf(i) \in Targets
           /\ i.net \in Networks /\ i.scanner \in NullScanner /\ i.status \in {"new", "dismissed"}
BY DEF Item, ItemID, TargetOf

\* The upsert of an item keeps what identifies it, and its status.
LEMMA OnConflictKeeps ==
    ASSUME NEW i \in Item, NEW r, r.net \in Networks, r.scanner \in Scanners
    PROVE  /\ OnConflict(i, r) \in Item /\ OnConflict(i, r).id = i.id
           /\ OnConflict(i, r).net = r.net /\ OnConflict(i, r).status = i.status
BY DEF OnConflict, Item, NullScanner

\* A report leaves one item per target, on a network that exists.
LEMMA UpsertKeeps ==
    ASSUME InventoryInv, NEW w \in Workers, UpsertDiscoveryInboxItems(w)
    PROVE  InboxInv'
<1> DEFINE r == req[w]
           K == Range(r.kept)
           New(t) == [id |-> <<t, requests>>, status |-> "new", net |-> r.net,
                      scanner |-> r.scanner]
           Old(i) == IF TargetOf(i) \in K THEN OnConflict(i, r) ELSE i
<1>1. InboxInv /\ FleetInv /\ RequestInv
    BY DEF InventoryInv
<1>2. /\ r.scanner \in Scanners /\ r.net \in Networks /\ r.kept \in Seq(Targets)
      /\ requests \in Nat
    BY <1>1, RequestShape DEF UpsertDiscoveryInboxItems, RequestInv
<1>3. K \subseteq Targets
    BY <1>2 DEF Range
<1>4. /\ inbox' = {Old(i) : i \in inbox} \cup {New(t) : t \in K \ Found}
      /\ K # {} => network[r.net].phase = "live"
      /\ UNCHANGED <<network, promoted>>
    BY DEF UpsertDiscoveryInboxItems, fleet
<1>5. ASSUME NEW i \in inbox
      PROVE  Old(i) \in Item /\ Old(i).id = i.id /\ network[Old(i).net].phase = "live"
    <2>1. i \in Item /\ network[i.net].phase = "live"
        BY <1>1 DEF InboxInv
    <2>2. /\ OnConflict(i, r) \in Item /\ OnConflict(i, r).id = i.id
          /\ OnConflict(i, r).net = r.net
        BY <1>2, <2>1, OnConflictKeeps
    <2>3. QED
        BY <1>4, <2>1, <2>2
<1>6. ASSUME NEW t \in K \ Found
      PROVE  New(t) \in Item /\ TargetOf(New(t)) = t /\ network[New(t).net].phase = "live"
    <2>1. <<t, requests>> \in ItemID
        BY <1>2, <1>3 DEF ItemID
    <2>2. New(t) \in Item /\ New(t).id = <<t, requests>> /\ New(t).net = r.net
        BY <1>2, <2>1 DEF Item, NullScanner
    <2>3. QED
        BY <1>4, <2>2 DEF TargetOf
<1> HIDE DEF New, Old, K, r
<1>7. inbox' \subseteq Item
    BY <1>4, <1>5, <1>6
<1>8. \A i \in inbox' : network'[i.net].phase = "live"
    BY <1>4, <1>5, <1>6
<1>9. ASSUME NEW i \in inbox', NEW k \in inbox', TargetOf(i) = TargetOf(k)
      PROVE  i = k
    <2>1. \A x \in inbox : TargetOf(Old(x)) = TargetOf(x) /\ TargetOf(x) \in Found
        BY <1>5 DEF TargetOf, Found
    <2>2. \A x, y \in inbox : TargetOf(x) = TargetOf(y) => x = y
        BY <1>1 DEF InboxInv
    <2>3. CASE (\E x \in inbox : i = Old(x)) /\ (\E y \in inbox : k = Old(y))
        BY <1>9, <2>1, <2>2, <2>3
    <2>4. CASE (\E x \in inbox : i = Old(x)) /\ (\E t \in K \ Found : k = New(t))
        BY <1>6, <1>9, <2>1, <2>4
    <2>5. CASE (\E t \in K \ Found : i = New(t)) /\ (\E x \in inbox : k = Old(x))
        BY <1>6, <1>9, <2>1, <2>5
    <2>6. CASE (\E t \in K \ Found : i = New(t)) /\ (\E u \in K \ Found : k = New(u))
        BY <1>6, <1>9, <2>6
    <2>7. QED
        BY <1>4, <2>3, <2>4, <2>5, <2>6
<1>10. QED
    BY <1>1, <1>4, <1>7, <1>8, <1>9 DEF InboxInv

\* The inbox stays in order.
LEMMA InboxStep == ASSUME InventoryInv, Operation PROVE InboxInv'
<1>1. InboxInv /\ FleetInv /\ RequestInv
    BY DEF InventoryInv
<1>2. ASSUME NEW s \in Scanners, DeleteScannerToken(s) PROVE InboxInv'
    <2>1. /\ inbox' = {SetNull(i, s) : i \in inbox} /\ UNCHANGED promoted
          /\ network' = [n \in Networks |-> SetNull(network[n], s)]
        BY <1>2 DEF DeleteScannerToken
    <2>2. \A n \in Networks : network'[n].phase = network[n].phase
        BY <1>1, <2>1 DEF SetNull, FleetInv, Network
    <2>3. \A i \in inbox : /\ SetNull(i, s) \in Item /\ SetNull(i, s).id = i.id
                           /\ SetNull(i, s).net = i.net /\ i.net \in Networks
        BY <1>1 DEF SetNull, Item, NullScanner, InboxInv
    <2> DEFINE f(i) == SetNull(i, s)
    <2>4. inbox' = {f(i) : i \in inbox}
        BY <2>1
    <2>5. \A i \in inbox : f(i) \in Item /\ TargetOf(f(i)) = TargetOf(i) /\ f(i).net = i.net
        BY <2>3 DEF TargetOf
    <2> HIDE DEF f
    <2>6. inbox' \subseteq Item
        BY <2>4, <2>5
    <2>7. \A i \in inbox' : network'[i.net].phase = "live"
        BY <1>1, <2>2, <2>3, <2>4, <2>5 DEF InboxInv
    <2>8. \A i, k \in inbox' : TargetOf(i) = TargetOf(k) => i = k
        BY <1>1, <2>4, <2>5 DEF InboxInv
    <2>9. QED
        BY <1>1, <2>1, <2>6, <2>7, <2>8 DEF InboxInv
<1>3. ASSUME NEW n \in Networks, NEW s \in NullScanner,
             InsertDiscoveryNetwork(n, s) \/ UpdateDiscoveryNetwork(n, s)
      PROVE  InboxInv'
    <2>1. UNCHANGED <<inbox, promoted>>
        BY <1>3 DEF InsertDiscoveryNetwork, UpdateDiscoveryNetwork
    <2>2. \/ network' = [network EXCEPT ![n] = [phase |-> "live", scanner |-> s]]
          \/ network' = [network EXCEPT ![n].scanner = s]
        BY <1>3 DEF InsertDiscoveryNetwork, UpdateDiscoveryNetwork
    <2>3. \A x \in Networks : network[x].phase = "live" => network'[x].phase = "live"
        BY <1>1, <2>2 DEF FleetInv, Network
    <2>4. \A i \in inbox : i.net \in Networks
        BY <1>1, ItemShape DEF InboxInv
    <2>5. QED
        BY <1>1, <2>1, <2>3, <2>4 DEF InboxInv
<1>4. ASSUME NEW n \in Networks, DeleteDiscoveryNetwork(n) PROVE InboxInv'
    <2>1. /\ inbox' = {i \in inbox : i.net # n} /\ UNCHANGED promoted
          /\ network' = [network EXCEPT ![n].phase = "gone"]
        BY <1>4 DEF DeleteDiscoveryNetwork
    <2>2. \A i \in inbox' : i \in inbox /\ network'[i.net] = network[i.net]
        BY <1>1, <2>1 DEF FleetInv
    <2>3. QED
        BY <1>1, <2>1, <2>2 DEF InboxInv
<1>5. ASSUME NEW i \in inbox, DismissDiscoveryInboxItem(i) PROVE InboxInv'
    <2> DEFINE d == [i EXCEPT !.status = "dismissed"]
    <2>1. i \in Item /\ d \in Item /\ d.id = i.id /\ d.net = i.net
        BY <1>1 DEF InboxInv, Item
    <2>2. inbox' = (inbox \ {i}) \cup {d} /\ UNCHANGED <<network, promoted>>
        BY <1>5 DEF DismissDiscoveryInboxItem, fleet
    <2> HIDE DEF d
    <2>3. QED
        BY <1>1, <2>1, <2>2 DEF InboxInv, TargetOf
<1>6. ASSUME inbox' \subseteq inbox, UNCHANGED <<network, promoted>> PROVE InboxInv'
    BY <1>1, <1>6 DEF InboxInv
<1>7. ASSUME NEW w \in Workers, NEW e \in Endpoints, PromoteInsert(w, e) PROVE InboxInv'
    <2>1. req[w].id \in ItemID
        BY <1>1, <1>7, RequestShape DEF PromoteInsert
    <2>2. promoted' = promoted \cup {req[w].id} /\ UNCHANGED <<network, inbox>>
        BY <1>7 DEF PromoteInsert, fleet
    <2>3. QED
        BY <1>1, <2>1, <2>2 DEF InboxInv
<1>8. CASE \E e \in Endpoints : Configure(e)
    BY <1>6, <1>8 DEF Configure, Create, Update, DeleteEndpoint, UpsertSAMLMetadata, fleet
<1>9. CASE \E i \in inbox : DeleteDiscoveryInboxItem(i)
    BY <1>6, <1>9 DEF DeleteDiscoveryInboxItem, fleet
<1>10. CASE \E w \in Workers : Arrive(w)
    BY <1>6, <1>10 DEF Arrive, PatchRead, BulkImport, SetDefaultBegin, ReportDiscovery,
                      PromoteRead, fleet
<1>11. ASSUME NEW w \in Workers, PromoteDelete(w) PROVE InboxInv'
    BY <1>6, <1>11 DEF PromoteDelete, Unlisted, fleet
<1>12. ASSUME NEW w \in Workers, UpsertDiscoveryInboxItems(w) PROVE InboxInv'
    BY <1>12, UpsertKeeps
<1>13. CASE \E w \in Workers : Serve(w)
    BY <1>6, <1>7, <1>11, <1>12, <1>13
       DEF Serve, PatchWrite, ImportRow, SkipRow, SetDefaultCommit, CheckItem, Fails, fleet
<1>14. CASE \E s \in Scanners : InsertScannerToken(s)
    BY <1>6, <1>14 DEF InsertScannerToken
<1>15. QED
    BY <1>2, <1>3, <1>4, <1>5, <1>8, <1>9, <1>10, <1>13, <1>14
       DEF Operation, Fleet, Sweep, Triage

(***************************************************************************)
(* Requests in flight                                                      *)
(***************************************************************************)
\* What is asked of the next state of one request.
Fit(y, P, H) ==
    /\ y \in Request
    /\ y.pc = "patch" => Storable(y.base)
    /\ y.pc = "bulk" => Len(y.rows) # 0
    /\ y.pc = "promote" => y.rec.type = "host" /\ y.rec.host # NoHost
    /\ y.pc = "unlist" => y.id \in P
    /\ y.pc = "report" => Range(y.kept) \cap H = {}

\* The invariant of requests, one by one.
LEMMA RequestsFit ==
    /\ RequestInv => /\ \A w \in Workers : Fit(req[w], promoted, held[w])
                     /\ requests \in Nat /\ held \in [Workers -> SUBSET Targets]
    /\ (/\ req' \in [Workers -> Request] /\ requests' \in Nat
        /\ held' \in [Workers -> SUBSET Targets]
        /\ \A w \in Workers : Fit(req'[w], promoted', held'[w])) => RequestInv'
BY DEF RequestInv, Fit

\* The history variable of reports: targets, and for a report that goes on, fewer.
LEMMA TrackKeeps ==
    ASSUME EndpointInv', RequestInv, Track
    PROVE  /\ held' \in [Workers -> SUBSET Targets]
           /\ \A w \in Workers : req[w].pc = "report" => held'[w] \subseteq held[w] \cap Covered'
<1>1. \A e \in Endpoints : hostRow'[e] # NoHost => Covers[hostRow'[e]] \subseteq Targets
    BY InventoryAssumption DEF EndpointInv
<1>2. Covered' \subseteq Targets
    BY <1>1 DEF Covered
<1> HIDE DEF Covered
<1>3. QED
    BY <1>2 DEF Track, RequestInv

\* No request moves.
LEMMA RequestsRest ==
    ASSUME EndpointInv', RequestInv, Track, requests' \in Nat, UNCHANGED req,
           promoted \subseteq promoted'
    PROVE  RequestInv'
<1>1. /\ held' \in [Workers -> SUBSET Targets]
      /\ \A w \in Workers : req[w].pc = "report" => held'[w] \subseteq held[w]
    BY TrackKeeps
<1>2. QED
    BY <1>1 DEF RequestInv

\* One request moves.
LEMMA RequestMoves ==
    ASSUME EndpointInv', RequestInv, Track, requests' \in Nat, promoted \subseteq promoted',
           NEW w \in Workers, NEW y, req' = [req EXCEPT ![w] = y], Fit(y, promoted', held'[w])
    PROVE  RequestInv'
<1>1. /\ held' \in [Workers -> SUBSET Targets]
      /\ \A x \in Workers : req[x].pc = "report" => held'[x] \subseteq held[x]
    BY TrackKeeps
<1>2. req' \in [Workers -> Request] /\ \A x \in Workers : req'[x] = IF x = w THEN y ELSE req[x]
    BY DEF RequestInv, Fit
<1>3. ASSUME NEW x \in Workers, x # w PROVE Fit(req'[x], promoted', held'[x])
    <2>1. req'[x] = req[x] /\ Fit(req[x], promoted, held[x])
        BY <1>2, <1>3, RequestsFit
    <2>2. QED
        BY <1>1, <2>1 DEF Fit
<1>4. \A x \in Workers : Fit(req'[x], promoted', held'[x])
    BY <1>2, <1>3
<1>5. QED
    BY <1>1, <1>2, <1>4, RequestsFit

LEMMA IdleFits == ASSUME NEW P, NEW H PROVE Fit(Idle, P, H)
BY DEF Fit, Idle, Request

\* What GetEndpoint returns can be written back.
LEMMA CurrentStorable ==
    ASSUME EndpointInv, NEW e \in Endpoints, phase[e] = "live"
    PROVE  Current(e) \in Config /\ Storable(Current(e))
<1>1. /\ row[e] \in Row /\ hostRow[e] \in Hosts \cup {NoHost}
      /\ row[e].type = "host" => hostRow[e] # NoHost
    BY DEF EndpointInv, TypeRowsMatch
<1> DEFINE c == Current(e)
<1>2. /\ c.type = row[e].type /\ c.host = hostRow[e] /\ c.enabled = row[e].enabled
      /\ c.exempt = row[e].exempt /\ c.scanner = row[e].scanner
    BY DEF Current
<1>3. c \in Config
    BY <1>1 DEF Current, Config, Row
<1> HIDE DEF c
<1>4. Storable(c)
    BY <1>1, <1>2, <1>3 DEF Storable, Config
<1>5. QED
    BY <1>3, <1>4 DEF c

\* A request that arrives is fit.
LEMMA ArriveStep ==
    ASSUME InventoryInv, EndpointInv', Track, NEW w \in Workers, Arrive(w)
    PROVE  RequestInv'
<1>1. EndpointInv /\ RequestInv /\ InboxInv
    BY DEF InventoryInv
<1>2. ASSUME NEW y, Start(w, y), Fit(y, promoted, held'[w]), UNCHANGED promoted
      PROVE  RequestInv'
    <2>1. requests' \in Nat /\ req' = [req EXCEPT ![w] = y]
        BY <1>1, <1>2 DEF Start, RequestInv
    <2>2. QED
        BY <1>1, <1>2, <2>1, RequestMoves
<1>3. ASSUME NEW e \in Endpoints, NEW p \in Patches, PatchRead(w, e, p) PROVE RequestInv'
    <2> DEFINE c == Current(e)
               y == [pc |-> "patch", ep |-> e, base |-> c, patch |-> p]
    <2>1. c \in Config /\ Storable(c)
        BY <1>1, <1>3, CurrentStorable DEF PatchRead
    <2>2. Start(w, y) /\ UNCHANGED promoted
        BY <1>3 DEF PatchRead
    <2> HIDE DEF c
    <2>3. y \in Request /\ y.pc = "patch" /\ y.base = c
        BY <2>1 DEF Request
    <2>4. Fit(y, promoted, held'[w])
        BY <2>1, <2>3 DEF Fit
    <2>5. QED
        BY <1>2, <2>2, <2>4
<1>4. ASSUME NEW rows \in Imports, BulkImport(w, rows) PROVE RequestInv'
    <2> DEFINE y == [pc |-> "bulk", rows |-> rows]
    <2>1. rows \in Seq(Records) /\ Len(rows) # 0
        BY <1>4, InventoryAssumption DEF BulkImport
    <2>2. Start(w, y) /\ UNCHANGED promoted
        BY <1>4 DEF BulkImport
    <2>3. y \in Request /\ y.pc = "bulk" /\ y.rows = rows
        BY <2>1 DEF Request
    <2>4. Fit(y, promoted, held'[w])
        BY <2>1, <2>3 DEF Fit
    <2>5. QED
        BY <1>2, <2>2, <2>4
<1>5. ASSUME NEW s \in Scanners, SetDefaultBegin(w, s) PROVE RequestInv'
    <2> DEFINE y == [pc |-> "default", scanner |-> s, cleared |-> default]
    <2>1. default \in SUBSET Scanners
        BY DEF InventoryInv, FleetInv
    <2>2. Start(w, y) /\ UNCHANGED promoted
        BY <1>5 DEF SetDefaultBegin
    <2>3. y \in Request /\ y.pc = "default"
        BY <2>1 DEF Request
    <2>4. Fit(y, promoted, held'[w])
        BY <2>3 DEF Fit
    <2>5. QED
        BY <1>2, <2>2, <2>4
<1>6. ASSUME NEW s \in Scanners, NEW n \in Networks, NEW items \in Reports,
             ReportDiscovery(w, s, n, items)
      PROVE  RequestInv'
    <2> DEFINE y == [pc |-> "report", scanner |-> s, net |-> n, left |-> items, kept |-> <<>>]
    <2>1. items \in Seq(Targets) /\ <<>> \in Seq(Targets) /\ Range(<<>>) = {}
        BY InventoryAssumption DEF Range
    <2>2. Start(w, y) /\ UNCHANGED promoted
        BY <1>6 DEF ReportDiscovery
    <2>3. y \in Request /\ y.pc = "report" /\ y.kept = <<>>
        BY <2>1 DEF Request
    <2>4. Fit(y, promoted, held'[w])
        BY <2>1, <2>3 DEF Fit
    <2>5. QED
        BY <1>2, <2>2, <2>4
<1>7. ASSUME NEW i \in inbox, NEW h \in Hosts, NEW body \in Records, PromoteRead(w, i, h, body)
      PROVE  RequestInv'
    <2> DEFINE c == [type |-> "host", host |-> h, url |-> FALSE, enabled |-> body.enabled,
                     exempt |-> FALSE, scanner |-> body.scanner]
               y == [pc |-> "promote", id |-> i.id, rec |-> c]
    <2>1. c \in Config /\ c.type = "host" /\ c.host = h
        BY InventoryAssumption DEF Config
    <2>2. i.id \in ItemID
        BY <1>1, ItemShape DEF InboxInv
    <2>3. Start(w, y) /\ UNCHANGED promoted
        BY <1>7 DEF PromoteRead
    <2> HIDE DEF c
    <2>4. y \in Request /\ y.pc = "promote" /\ y.rec = c
        BY <2>1, <2>2 DEF Request
    <2>5. Fit(y, promoted, held'[w])
        BY <2>1, <2>4, InventoryAssumption DEF Fit
    <2>6. QED
        BY <1>2, <2>3, <2>5
<1>8. QED
    BY <1>3, <1>4, <1>5, <1>6, <1>7 DEF Arrive

LEMMA TailOfLonger ==
    ASSUME NEW S, NEW q \in Seq(S), Len(q) # 0, Len(q) # 1
    PROVE  Tail(q) \in Seq(S) /\ Len(Tail(q)) # 0
<1>1. Len(q) \in Nat /\ Len(q) # 0 /\ q # <<>>
    OBVIOUS
<1>2. Tail(q) \in Seq(S) /\ Len(Tail(q)) = Len(q) - 1
    OBVIOUS
<1>3. Len(Tail(q)) # 0
    BY <1>1, <1>2
<1>4. QED
    BY <1>2, <1>3

\* A request that goes on stays fit.
LEMMA ServeStep ==
    ASSUME InventoryInv, EndpointInv', Track, NEW w \in Workers, Serve(w)
    PROVE  RequestInv'
<1> DEFINE r == req[w]
<1>1. RequestInv /\ Fit(r, promoted, held[w]) /\ r \in Request
    BY RequestsFit DEF InventoryInv, Fit
<1>2. ASSUME NEW y, Goto(w, y), Fit(y, promoted', held'[w]), promoted \subseteq promoted'
      PROVE  RequestInv'
    <2>1. requests' \in Nat /\ req' = [req EXCEPT ![w] = y]
        BY <1>1, <1>2 DEF Goto, RequestInv
    <2>2. QED
        BY <1>1, <1>2, <2>1, RequestMoves
<1>3. ASSUME Goto(w, Idle), UNCHANGED promoted PROVE RequestInv'
    BY <1>2, <1>3, IdleFits
<1>4. ASSUME r.pc = "bulk", NextRow(w), UNCHANGED promoted PROVE RequestInv'
    <2> DEFINE y == [r EXCEPT !.rows = Tail(@)]
    <2>1. r.rows \in Seq(Records) /\ Len(r.rows) # 0 /\ r \in [pc : {"bulk"}, rows : Seq(Records)]
        BY <1>1, <1>4 DEF Fit, Request
    <2>2. CASE Len(r.rows) = 1
        BY <1>3, <1>4, <2>2 DEF NextRow
    <2>3. CASE Len(r.rows) # 1
        <3>1. Tail(r.rows) \in Seq(Records) /\ Len(Tail(r.rows)) # 0
            BY <2>1, <2>3, TailOfLonger
        <3>2. y \in [pc : {"bulk"}, rows : Seq(Records)] /\ y.pc = "bulk" /\ y.rows = Tail(r.rows)
            BY <2>1, <3>1
        <3>3. Fit(y, promoted', held'[w])
            BY <3>1, <3>2 DEF Fit, Request
        <3>4. QED
            BY <1>2, <1>4, <2>3, <3>3 DEF NextRow
    <2>4. QED
        BY <2>2, <2>3
<1>5. CASE CheckItem(w)
    <2> DEFINE h == Head(r.left)
               k == IF ExistsForTarget(h) THEN r.kept ELSE Append(r.kept, h)
               R == [pc : {"report"}, scanner : Scanners, net : Networks, left : Seq(Targets),
                     kept : Seq(Targets)]
               y == [r EXCEPT !.left = Tail(@), !.kept = k]
    <2>1. r \in R /\ r.left # <<>> /\ r.pc = "report"
        BY <1>1, <1>5 DEF CheckItem, Request
    <2>2. h \in Targets /\ Tail(r.left) \in Seq(Targets) /\ k \in Seq(Targets)
        BY <2>1
    <2>3. Goto(w, y) /\ UNCHANGED <<promoted, hostRow>>
        BY <1>5 DEF CheckItem, endpoints
    <2>4. Range(k) \subseteq Range(r.kept) \cup ({h} \ Covered)
        BY <2>1, <2>2 DEF Range, ExistsForTarget
    <2>5. Range(r.kept) \cap held[w] = {}
        BY <1>1, <2>1 DEF Fit
    <2>6. held'[w] \subseteq held[w] \cap Covered
        <3>1. Covered' = Covered
            BY <2>3 DEF Covered
        <3>2. QED
            BY <1>1, <2>1, <3>1, TrackKeeps
    <2>7. Range(k) \cap held'[w] = {}
        BY <2>4, <2>5, <2>6
    <2> HIDE DEF k, h
    <2>8. y \in R /\ y.pc = "report" /\ y.kept = k
        BY <2>1, <2>2
    <2>9. Fit(y, promoted', held'[w])
        BY <2>7, <2>8 DEF Fit, Request
    <2>10. QED
        BY <1>2, <2>3, <2>9
<1>6. ASSUME NEW e \in Endpoints, PromoteInsert(w, e) PROVE RequestInv'
    <2> DEFINE R == [pc : {"promote", "unlist"}, id : ItemID, rec : Config]
               y == [r EXCEPT !.pc = "unlist"]
    <2>1. r \in R
        BY <1>1, <1>6 DEF PromoteInsert, Request
    <2>2. promoted' = promoted \cup {r.id} /\ Goto(w, y)
        BY <1>6 DEF PromoteInsert
    <2>3. y \in R /\ y.pc = "unlist" /\ y.id = r.id
        BY <2>1
    <2>4. Fit(y, promoted', held'[w])
        BY <2>2, <2>3 DEF Fit, Request
    <2>5. QED
        BY <1>2, <2>2, <2>4
<1>7. QED
    BY <1>3, <1>4, <1>5, <1>6
       DEF Serve, PatchWrite, ImportRow, SkipRow, SetDefaultCommit, UpsertDiscoveryInboxItems,
           PromoteDelete, Fails

LEMMA RequestStep ==
    ASSUME InventoryInv, Operation, Track, EndpointInv'
    PROVE  RequestInv'
<1>1. RequestInv
    BY DEF InventoryInv
<1>2. ASSUME AtOnce, UNCHANGED promoted PROVE RequestInv'
    <2>1. requests' \in Nat /\ UNCHANGED req
        BY <1>1, <1>2 DEF AtOnce, RequestInv
    <2>2. QED
        BY <1>1, <1>2, <2>1, RequestsRest
<1>3. ASSUME NEW e \in Endpoints, UpsertSAMLMetadata(e) PROVE RequestInv'
    <2>1. requests' \in Nat /\ UNCHANGED <<req, promoted>>
        BY <1>1, <1>3 DEF UpsertSAMLMetadata, RequestInv
    <2>2. QED
        BY <1>1, <2>1, RequestsRest
<1>4. CASE \E e \in Endpoints : Configure(e)
    BY <1>2, <1>3, <1>4 DEF Configure, Create, Update, DeleteEndpoint
<1>5. CASE \E s \in Scanners : Fleet(s)
    BY <1>2, <1>5 DEF Fleet, InsertScannerToken, DeleteScannerToken
<1>6. CASE \E n \in Networks : Sweep(n)
    BY <1>2, <1>6 DEF Sweep, InsertDiscoveryNetwork, UpdateDiscoveryNetwork,
                      DeleteDiscoveryNetwork
<1>7. CASE \E i \in inbox : Triage(i)
    BY <1>2, <1>7 DEF Triage, DismissDiscoveryInboxItem, DeleteDiscoveryInboxItem
<1>8. QED
    BY <1>4, <1>5, <1>6, <1>7, ArriveStep, ServeStep DEF Operation

(***************************************************************************)
(* The theorems                                                            *)
(***************************************************************************)
\* An installation in use is in order.
LEMMA InitInv == Init => InventoryInv
<1> SUFFICES ASSUME Init PROVE InventoryInv
    OBVIOUS
<1>1. FleetInv
    BY DEF Init, FleetInv, Phase, Network, NullScanner
<1>2. EndpointInv
    <2>1. PICK rec \in {r \in Records : Valid(r) /\ Exists(r.scanner)} :
             /\ row = [e \in Endpoints |-> IF e \in Stocked THEN RowOf(rec) ELSE NoRow]
             /\ hostRow = [e \in Endpoints |-> IF e \in Stocked THEN HostRowAfter(NoHost, rec)
                                               ELSE NoHost]
             /\ samlRow = [e \in Endpoints |-> IF e \in Stocked THEN SamlRowAfter("none", rec)
                                               ELSE "none"]
        BY DEF Init
    <2>2. rec \in Config /\ Storable(rec)
        BY <2>1, StorableRecord, InventoryAssumption DEF Valid
    <2>3. RowOf(rec) \in Row /\ RowOf(rec).type = rec.type /\ RowOf(rec).scanner = rec.scanner
        BY <2>2 DEF RowOf, Row, Storable
    <2>4. NoRow \in Row /\ NoRow.scanner = NoScanner
        BY DEF NoRow, Row, NullScanner
    <2>5. /\ HostRowAfter(NoHost, rec) \in Hosts \cup {NoHost}
          /\ HostRowAfter(NoHost, rec) # NoHost <=> rec.type = "host"
        BY <2>2, InventoryAssumption DEF HostRowAfter, Storable
    <2>6. /\ SamlRowAfter("none", rec) \in {"none", "bare", "metadata"}
          /\ SamlRowAfter("none", rec) # "none" <=> rec.type = "saml"
        BY DEF SamlRowAfter
    <2>7. phase = [e \in Endpoints |-> IF e \in Stocked THEN "live" ELSE "new"]
        BY DEF Init
    <2>8. TypeRowsMatch
        BY <2>1, <2>3, <2>5, <2>6, <2>7 DEF TypeRowsMatch
    <2>9. \A e \in Endpoints : Exists(row[e].scanner)
        BY <2>1, <2>3, <2>4 DEF Exists
    <2>10. row \in [Endpoints -> Row]
        BY <2>1, <2>3, <2>4
    <2>11. /\ hostRow \in [Endpoints -> Hosts \cup {NoHost}]
           /\ samlRow \in [Endpoints -> {"none", "bare", "metadata"}]
        BY <2>1, <2>5, <2>6
    <2>12. QED
        BY <2>7, <2>8, <2>9, <2>10, <2>11 DEF EndpointInv, Phase
<1>3. InboxInv
    <2>1. inbox = {} \/ \E t \in Targets, n \in Networks \cap Stocked :
             inbox = {[id |-> <<t, 0>>, status |-> "new", net |-> n, scanner |-> NoScanner]}
        BY DEF Init
    <2>2. \A n \in Networks \cap Stocked : network[n].phase = "live"
        BY DEF Init
    <2>3. \A t \in Targets, n \in Networks :
             [id |-> <<t, 0>>, status |-> "new", net |-> n, scanner |-> NoScanner] \in Item
        BY DEF Item, ItemID, NullScanner
    <2>4. QED
        BY <2>1, <2>2, <2>3 DEF InboxInv, Init
<1>4. RequestInv
    <2>1. req = [w \in Workers |-> Idle] /\ requests = 0 /\ held = [w \in Workers |-> {}]
        BY DEF Init
    <2>2. Idle \in Request /\ Idle.pc = "idle"
        BY DEF Idle, Request
    <2> HIDE DEF Idle
    <2>3. QED
        BY <2>1, <2>2 DEF RequestInv
<1>5. QED
    BY <1>1, <1>2, <1>3, <1>4 DEF InventoryInv

LEMMA StutterKeeps == InventoryInv /\ UNCHANGED vars => InventoryInv'
BY DEF InventoryInv, EndpointInv, TypeRowsMatch, Exists, FleetInv, InboxInv, RequestInv, vars

\* InventoryInv is inductive, so it always holds.
LEMMA AlwaysInv == Spec => []InventoryInv
<1>1. InventoryInv /\ [Next]_vars => InventoryInv'
    BY EndpointStep, FleetStep, InboxStep, RequestStep, StutterKeeps DEF InventoryInv, Next
<1>2. QED
    BY <1>1, InitInv, PTL DEF Spec

\* Inventory keeps its types, (ip, port) stays unique in the inbox and no item
\* outlives its network, for any number of requests.
THEOREM InventoryTypeCorrect == Spec => []TypeOK
BY AlwaysInv, InvTypes, PTL

\* "A type change never leaves orphans", whatever is patched, imported, promoted
\* and deleted at the same time.
THEOREM NoOrphanRows == Spec => []TypeRowsMatch
<1>1. InventoryInv => TypeRowsMatch
    BY DEF InventoryInv, EndpointInv
<1>2. QED
    BY <1>1, AlwaysInv, PTL

\* With a default scanner, every endpoint to be scanned is on exactly one list.
THEOREM EveryEndpointHasOneScanner == Spec => []ScannedByOne
<1>1. ASSUME InventoryInv PROVE ScannedByOne
    <2> SUFFICES ASSUME NEW d \in default, NEW e \in Endpoints,
                        phase[e] = "live", row[e].enabled, ~row[e].exempt, row[e].type # "manual"
                 PROVE  \E s \in Scanners :
                           {x \in Scanners : scanner[x] = "live" /\ e \in Listed(x)} = {s}
        BY DEF ScannedByOne
    <2>1. /\ default = {d} /\ d \in Scanners /\ scanner[d] = "live"
          /\ row[e].type \in {"host", "saml", "manual"} /\ row[e].scanner \in NullScanner
          /\ Exists(row[e].scanner) /\ TypeRowsMatch
        BY <1>1 DEF InventoryInv, FleetInv, EndpointInv, Row
    <2>2. \/ row[e].type = "host" /\ hostRow[e] # NoHost
          \/ row[e].type = "saml" /\ samlRow[e] # "none"
        BY <2>1 DEF TypeRowsMatch
    <2>3. \A x \in Scanners : e \in Listed(x) <=> Assigned(e, x)
        BY <2>2 DEF Listed
    <2>4. CASE row[e].scanner = NoScanner
        <3>1. {x \in Scanners : scanner[x] = "live" /\ e \in Listed(x)} = {d}
            BY <2>1, <2>3, <2>4, InventoryAssumption DEF Assigned
        <3>2. QED
            BY <2>1, <3>1
    <2>5. CASE row[e].scanner # NoScanner
        <3>1. row[e].scanner \in Scanners /\ scanner[row[e].scanner] = "live"
            BY <2>1, <2>5 DEF Exists, NullScanner
        <3>2. {x \in Scanners : scanner[x] = "live" /\ e \in Listed(x)} = {row[e].scanner}
            BY <2>3, <2>5, <3>1 DEF Assigned
        <3>3. QED
            BY <3>1, <3>2
    <2>6. QED
        BY <2>4, <2>5
<1>2. QED
    BY <1>1, AlwaysInv, PTL

(***************************************************************************)
(* What a step may do to the inbox                                         *)
(***************************************************************************)
LEMMA InboxChanges ==
    ASSUME Operation
    PROVE  \/ UNCHANGED inbox
           \/ \E s \in Scanners : inbox' = {SetNull(i, s) : i \in inbox}
           \/ \E i \in inbox : DismissDiscoveryInboxItem(i) \/ DeleteDiscoveryInboxItem(i)
           \/ \E n \in Networks : DeleteDiscoveryNetwork(n)
           \/ \E w \in Workers : UpsertDiscoveryInboxItems(w) \/ PromoteDelete(w)
<1>1. CASE \E e \in Endpoints : Configure(e)
    BY <1>1 DEF Configure, Create, Update, DeleteEndpoint, UpsertSAMLMetadata
<1>2. CASE \E s \in Scanners : Fleet(s)
    BY <1>2 DEF Fleet, InsertScannerToken, DeleteScannerToken
<1>3. CASE \E n \in Networks : Sweep(n)
    BY <1>3 DEF Sweep, InsertDiscoveryNetwork, UpdateDiscoveryNetwork
<1>4. CASE \E w \in Workers : Arrive(w)
    BY <1>4 DEF Arrive, PatchRead, BulkImport, SetDefaultBegin, ReportDiscovery, PromoteRead
<1>5. CASE \E w \in Workers : Serve(w)
    BY <1>5 DEF Serve, PatchWrite, ImportRow, PromoteInsert, SkipRow, SetDefaultCommit,
                CheckItem, Fails
<1>6. QED
    BY <1>1, <1>2, <1>3, <1>4, <1>5 DEF Operation, Triage

\* The items before and after a report.
LEMMA UpsertChanges ==
    ASSUME InventoryInv, NEW w \in Workers, UpsertDiscoveryInboxItems(w)
    PROVE  /\ \A k \in inbox' : \/ \E i \in inbox : k.id = i.id /\ k.status = i.status
                                \/ TargetOf(k) \in Range(req[w].kept) \ Found
           /\ \A i \in inbox : \E k \in inbox' : k.id = i.id
<1> DEFINE r == req[w]
           K == Range(r.kept)
           New(t) == [id |-> <<t, requests>>, status |-> "new", net |-> r.net,
                      scanner |-> r.scanner]
           Old(i) == IF TargetOf(i) \in K THEN OnConflict(i, r) ELSE i
<1>1. inbox' = {Old(i) : i \in inbox} \cup {New(t) : t \in K \ Found}
    BY DEF UpsertDiscoveryInboxItems
<1>2. r.scanner \in Scanners /\ r.net \in Networks
    BY RequestShape DEF UpsertDiscoveryInboxItems, InventoryInv
<1>3. ASSUME NEW i \in inbox PROVE Old(i).id = i.id /\ Old(i).status = i.status
    <2>1. i \in Item
        BY DEF InventoryInv, InboxInv
    <2>2. OnConflict(i, r).id = i.id /\ OnConflict(i, r).status = i.status
        BY <1>2, <2>1, OnConflictKeeps
    <2>3. QED
        BY <2>2
<1>4. \A t : TargetOf(New(t)) = t
    BY DEF TargetOf
<1> HIDE DEF New, Old, K
<1>5. \A k \in inbox' : \/ \E i \in inbox : k.id = i.id /\ k.status = i.status
                        \/ TargetOf(k) \in K \ Found
    BY <1>1, <1>3, <1>4
<1>6. \A i \in inbox : \E k \in inbox' : k.id = i.id
    BY <1>1, <1>3
<1>7. QED
    BY <1>5, <1>6 DEF K

\* Removing a scanner changes neither the identity nor the status of an item.
LEMMA SetNullChanges ==
    ASSUME InventoryInv, NEW s \in Scanners, inbox' = {SetNull(i, s) : i \in inbox}
    PROVE  /\ \A k \in inbox' : \E i \in inbox : k.id = i.id /\ k.status = i.status
           /\ \A i \in inbox : \E k \in inbox' : k.id = i.id
<1> DEFINE f(i) == SetNull(i, s)
<1>1. \A i \in inbox : f(i).id = i.id /\ f(i).status = i.status
    BY DEF InventoryInv, InboxInv, Item, SetNull
<1>2. inbox' = {f(i) : i \in inbox}
    OBVIOUS
<1> HIDE DEF f
<1>3. QED
    BY <1>1, <1>2

\* Nothing brings a dismissed target back as new while its item exists: neither
\* reports of any scanner and network nor anything that runs beside them.
THEOREM DismissalsHold == Spec => DismissedStaysDismissed
<1>1. ASSUME InventoryInv, [Next]_vars, NEW i \in inbox, NEW k \in inbox',
             i.status = "dismissed", TargetOf(k) = TargetOf(i)
      PROVE  k.status = "dismissed"
    <2>1. \A x \in inbox : TargetOf(x) = TargetOf(i) => x = i
        BY <1>1 DEF InventoryInv, InboxInv
    <2>2. ASSUME NEW x \in inbox, k.id = x.id, k.status = x.status PROVE k.status = "dismissed"
        BY <1>1, <2>1, <2>2 DEF TargetOf
    <2>3. CASE inbox' \subseteq inbox
        BY <2>2, <2>3
    <2>4. ASSUME NEW s \in Scanners, inbox' = {SetNull(x, s) : x \in inbox}
          PROVE  k.status = "dismissed"
        BY <1>1, <2>2, <2>4, SetNullChanges
    <2>5. ASSUME NEW x \in inbox, DismissDiscoveryInboxItem(x) PROVE k.status = "dismissed"
        <3>1. x \in Item /\ inbox' = (inbox \ {x}) \cup {[x EXCEPT !.status = "dismissed"]}
            BY <1>1, <2>5 DEF DismissDiscoveryInboxItem, InventoryInv, InboxInv
        <3>2. [x EXCEPT !.status = "dismissed"].status = "dismissed"
            BY <3>1 DEF Item
        <3>3. QED
            BY <2>2, <3>1, <3>2
    <2>6. ASSUME NEW w \in Workers, UpsertDiscoveryInboxItems(w) PROVE k.status = "dismissed"
        <3>1. TargetOf(k) \in Found
            BY <1>1 DEF Found
        <3>2. QED
            BY <1>1, <2>2, <2>6, <3>1, UpsertChanges
    <2>7. CASE UNCHANGED vars
        BY <2>3, <2>7 DEF vars
    <2>8. CASE Operation
        BY <2>3, <2>4, <2>5, <2>6, <2>8, InboxChanges
           DEF DeleteDiscoveryInboxItem, DeleteDiscoveryNetwork, PromoteDelete, Unlisted
    <2>9. QED
        BY <1>1, <2>7, <2>8 DEF Next
<1>2. InventoryInv /\ [Next]_vars =>
          [\A i \in inbox, k \in inbox' :
              (i.status = "dismissed" /\ TargetOf(k) = TargetOf(i)) => k.status = "dismissed"]_vars
    BY <1>1
<1>3. QED
    BY <1>2, AlwaysInv, PTL DEF Spec, DismissedStaysDismissed

\* What was discovered leaves the inbox only as an endpoint or by an operator's
\* deletion, however late promotions run.
THEOREM DiscoveriesStay == Spec => DiscoveryIsNotLost
<1>1. ASSUME InventoryInv, [Next]_vars, NEW i \in inbox
      PROVE  \/ i.id \in promoted
             \/ \E k \in inbox' : k.id = i.id
             \/ DeleteDiscoveryInboxItem(i)
             \/ DeleteDiscoveryNetwork(i.net)
    <2>1. CASE UNCHANGED inbox
        BY <2>1
    <2>2. ASSUME NEW s \in Scanners, inbox' = {SetNull(x, s) : x \in inbox}
          PROVE  \E k \in inbox' : k.id = i.id
        BY <1>1, <2>2, SetNullChanges
    <2>3. ASSUME NEW x \in inbox, DismissDiscoveryInboxItem(x)
          PROVE  \E k \in inbox' : k.id = i.id
        <3>1. x \in Item /\ inbox' = (inbox \ {x}) \cup {[x EXCEPT !.status = "dismissed"]}
            BY <1>1, <2>3 DEF DismissDiscoveryInboxItem, InventoryInv, InboxInv
        <3>2. [x EXCEPT !.status = "dismissed"].id = x.id
            BY <3>1 DEF Item
        <3>3. QED
            BY <3>1, <3>2
    <2>4. ASSUME NEW x \in inbox, DeleteDiscoveryInboxItem(x), x # i
          PROVE  \E k \in inbox' : k.id = i.id
        BY <2>4 DEF DeleteDiscoveryInboxItem
    <2>5. ASSUME NEW w \in Workers, UpsertDiscoveryInboxItems(w)
          PROVE  \E k \in inbox' : k.id = i.id
        BY <1>1, <2>5, UpsertChanges
    <2>6. ASSUME NEW w \in Workers, PromoteDelete(w)
          PROVE  i.id \in promoted \/ \E k \in inbox' : k.id = i.id
        <3>1. req[w].id \in promoted /\ inbox' = {x \in inbox : x.id # req[w].id}
            BY <1>1, <2>6 DEF PromoteDelete, Unlisted, InventoryInv, RequestInv
        <3>2. QED
            BY <3>1
    <2>7. ASSUME NEW n \in Networks, DeleteDiscoveryNetwork(n), i.net # n
          PROVE  \E k \in inbox' : k.id = i.id
        BY <2>7 DEF DeleteDiscoveryNetwork
    <2>8. CASE UNCHANGED vars
        BY <2>1, <2>8 DEF vars
    <2>9. CASE Operation
        BY <2>1, <2>2, <2>3, <2>4, <2>5, <2>6, <2>7, <2>9, InboxChanges
    <2>10. QED
        BY <1>1, <2>8, <2>9 DEF Next
<1>2. InventoryInv /\ [Next]_vars =>
          [\A i \in inbox :
              \/ i.id \in promoted
              \/ \E k \in inbox' : k.id = i.id
              \/ DeleteDiscoveryInboxItem(i)
              \/ DeleteDiscoveryNetwork(i.net)]_vars
    BY <1>1
<1>3. QED
    BY <1>2, AlwaysInv, PTL DEF Spec, DiscoveryIsNotLost

\* A report puts nothing in the inbox that was monitored all the while.
THEOREM MonitoredTargetsStayOut == Spec => MonitoredStaysOut
<1>1. ASSUME InventoryInv, Next, NEW w \in Workers, NEW k \in inbox',
             req[w].pc = "report", req'[w].pc = "idle", TargetOf(k) \in held[w]
      PROVE  \E i \in inbox : TargetOf(i) = TargetOf(k)
    <2>1. Range(req[w].kept) \cap held[w] = {}
        BY <1>1 DEF InventoryInv, RequestInv
    <2>2. CASE UNCHANGED inbox
        BY <2>2
    <2>3. CASE UNCHANGED req
        BY <1>1, <2>3
    <2>4. CASE UpsertDiscoveryInboxItems(w)
        BY <1>1, <2>1, <2>4, UpsertChanges DEF TargetOf
    <2>5. ASSUME NEW x \in Workers, x # w, req' = [req EXCEPT ![x] = Idle] PROVE FALSE
        BY <1>1, <2>5 DEF InventoryInv, RequestInv
    <2>6. ASSUME PromoteDelete(w) PROVE FALSE
        BY <1>1, <2>6 DEF PromoteDelete
    <2>7. ASSUME NEW x \in Workers, UpsertDiscoveryInboxItems(x) \/ PromoteDelete(x)
          PROVE  req' = [req EXCEPT ![x] = Idle]
        BY <2>7 DEF UpsertDiscoveryInboxItems, PromoteDelete, Goto
    <2>8. ASSUME NEW s \in Scanners, inbox' = {SetNull(i, s) : i \in inbox}
          PROVE  \E i \in inbox : TargetOf(i) = TargetOf(k)
        BY <1>1, <2>8, SetNullChanges DEF TargetOf
    <2>9. Operation
        BY <1>1 DEF Next
    <2>10. QED
        BY <2>2, <2>3, <2>4, <2>5, <2>6, <2>7, <2>8, <2>9, InboxChanges
           DEF DismissDiscoveryInboxItem, DeleteDiscoveryInboxItem, DeleteDiscoveryNetwork, AtOnce
<1>2. InventoryInv /\ [Next]_vars =>
          [\A w \in Workers, k \in inbox' :
              (req[w].pc = "report" /\ req'[w].pc = "idle" /\ TargetOf(k) \in held[w])
                  => \E i \in inbox : TargetOf(i) = TargetOf(k)]_vars
    BY <1>1
<1>3. QED
    BY <1>2, AlwaysInv, PTL DEF Spec, MonitoredStaysOut

=============================================================================
