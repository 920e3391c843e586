---------------------------- MODULE PortsProofs ----------------------------
(***************************************************************************)
(* Proofs about Ports for every set of ports, listeners, versions,         *)
(* permissions, policies and configuration identifiers.                    *)
(***************************************************************************)
EXTENDS Ports, TLAPS

-----------------------------------------------------------------------------
(* Rows *)

\* A row that exists has all the columns of a listener.
LEMMA ExistingRow ==
    ASSUME PortsTypeOK, NEW l \in Listener, Exists(l)
    PROVE  listener[l] \in ListenerRow
BY DEF PortsTypeOK, Exists, Absent, Deleted, ListenerStatus, ListenerRow

\* Writing one column of a row leaves the other columns alone.
LEMMA SetRowVersion ==
    ASSUME NEW row \in ListenerRow, NEW n \in 1 .. MaxRowVersion
    PROVE  LET new == [row EXCEPT !.rowVersion = n] IN
           /\ new \in ListenerRow
           /\ new.rowVersion = n
           /\ new.status = row.status
           /\ new.port = row.port
           /\ new.permission = row.permission
BY DEF ListenerRow

LEMMA SetStatus ==
    ASSUME NEW row \in ListenerRow, NEW status \in ListenerStatus
    PROVE  LET new == [row EXCEPT !.status = status] IN
           /\ new \in ListenerRow
           /\ new.status = status
           /\ new.port = row.port
           /\ new.permission = row.permission
BY DEF ListenerRow

LEMMA SetPolicy ==
    ASSUME NEW row \in ListenerRow, NEW q \in Policy
    PROVE  LET new == [row EXCEPT !.policy = q] IN
           /\ new \in ListenerRow
           /\ new.status = row.status
           /\ new.port = row.port
           /\ new.permission = row.permission
BY DEF ListenerRow

\* The three ways in which the Store rewrites a listener row.
LEMMA WithStatusRow ==
    ASSUME NEW row \in ListenerRow, row.rowVersion < MaxRowVersion,
           NEW status \in ListenerStatus
    PROVE  /\ WithStatus(row, status) \in ListenerRow
           /\ WithStatus(row, status).status = status
           /\ WithStatus(row, status).port = row.port
           /\ WithStatus(row, status).permission = row.permission
           /\ WithStatus(row, status).rowVersion = row.rowVersion + 1
<1>. DEFINE new == [row EXCEPT !.status = status]
            n == row.rowVersion + 1
<1>1. n \in 1 .. MaxRowVersion
  BY PortsAssumption DEF ListenerRow
<1>2. /\ new \in ListenerRow
      /\ new.status = status
      /\ new.port = row.port
      /\ new.permission = row.permission
  BY SetStatus
<1>3. WithStatus(row, status) = [new EXCEPT !.rowVersion = n]
  BY DEF WithStatus
<1>. HIDE DEF new, n
<1>4. QED
  BY <1>1, <1>2, <1>3, SetRowVersion DEF n

LEMMA WithPolicyRow ==
    ASSUME NEW row \in ListenerRow, row.rowVersion < MaxRowVersion,
           NEW q \in Policy
    PROVE  /\ WithPolicy(row, q) \in ListenerRow
           /\ WithPolicy(row, q).status = row.status
           /\ WithPolicy(row, q).port = row.port
           /\ WithPolicy(row, q).permission = row.permission
           /\ WithPolicy(row, q).rowVersion = row.rowVersion + 1
<1>. DEFINE new == [row EXCEPT !.policy = q]
            n == row.rowVersion + 1
<1>1. n \in 1 .. MaxRowVersion
  BY PortsAssumption DEF ListenerRow
<1>2. /\ new \in ListenerRow
      /\ new.status = row.status
      /\ new.port = row.port
      /\ new.permission = row.permission
  BY SetPolicy
<1>3. WithPolicy(row, q) = [new EXCEPT !.rowVersion = n]
  BY DEF WithPolicy
<1>. HIDE DEF new, n
<1>4. QED
  BY <1>1, <1>2, <1>3, SetRowVersion DEF n

LEMMA ActivatedRow ==
    ASSUME NEW row \in ListenerRow, NEW c \in ConfigurationID
    PROVE  /\ Activated(row, c) \in ListenerRow
           /\ Activated(row, c).status =
                 IF row.status = "reserved" THEN "active" ELSE row.status
           /\ Activated(row, c).port = row.port
           /\ Activated(row, c).permission = row.permission
BY DEF Activated, ListenerRow, ListenerStatus

\* An activation does not bring back a row that is not there.
LEMMA ActivatedNothing ==
    ASSUME NEW row \in {Absent, Deleted}, NEW c \in ConfigurationID
    PROVE  Activated(row, c) = row
BY DEF Activated, Absent, Deleted, ListenerStatus

-----------------------------------------------------------------------------
(* The catalogue *)

LEMMA CatalogStepType ==
    ASSUME CatalogTypeOK, CatalogNext
    PROVE  CatalogTypeOK'
<1>. USE CatalogAssumption DEF CatalogTypeOK, Enabledness
<1>1. ASSUME NEW s \in Service, CreateService(s) PROVE CatalogTypeOK'
  BY <1>1 DEF CreateService
<1>2. ASSUME NEW s \in Service, NEW e \in Flag, UpdateService(s, e)
      PROVE CatalogTypeOK'
  BY <1>2 DEF UpdateService
<1>3. ASSUME NEW v \in ServiceVersion, CreateServiceVersion(v)
      PROVE CatalogTypeOK'
  BY <1>3 DEF CreateServiceVersion
<1>4. ASSUME NEW v \in ServiceVersion, NEW e \in Flag,
             UpdateServiceVersion(v, e)
      PROVE CatalogTypeOK'
  BY <1>4 DEF UpdateServiceVersion
<1>5. ASSUME NEW u \in Upstream, CreateUpstream(u) PROVE CatalogTypeOK'
  BY <1>5 DEF CreateUpstream
<1>6. ASSUME NEW u \in Upstream, NEW e \in Flag, UpdateUpstream(u, e)
      PROVE CatalogTypeOK'
  BY <1>6 DEF UpdateUpstream
<1>7. ASSUME NEW r \in Permission, CreatePermission(r) PROVE CatalogTypeOK'
  BY <1>7 DEF CreatePermission
<1>8. ASSUME NEW held \in SUBSET Permission, ChangeGrants(held)
      PROVE CatalogTypeOK'
  BY <1>8 DEF ChangeGrants
<1>9. QED
  BY <1>1, <1>2, <1>3, <1>4, <1>5, <1>6, <1>7, <1>8 DEF CatalogNext

-----------------------------------------------------------------------------
(***************************************************************************)
(* The inductive invariant.  Its conjuncts need each other: BlockPort      *)
(* writes a well-typed row only because the port's listener exists         *)
(* (PortOwnership), PublishListeners keeps the two status columns equal    *)
(* only because they were equal, and a leased port has a listener to       *)
(* follow only because of StatusAgreement.  It also survives the three     *)
(* races of operations that overlap (AdminTransactionsProofs), which       *)
(* RequiredPermissionExists does not.                                      *)
(***************************************************************************)
Consistent ==
    /\ PortsTypeOK
    /\ PortOwnership
    /\ StatusAgreement

LEMMA ConsistentInit == PortsInit => Consistent
<1>. SUFFICES ASSUME PortsInit PROVE Consistent
  OBVIOUS
<1>. USE PortsAssumption DEF PortsInit
<1>1. CatalogTypeOK
  BY DEF CatalogInit, CatalogTypeOK, Enabledness
<1>2. port \in [Port -> PortRow]
  BY DEF PortRow, PortStatus, Leased
<1>3. \A l \in Listener : ~Exists(l)
  BY DEF Exists, Absent, ListenerStatus
<1>4. PortsTypeOK
  BY <1>1, <1>2 DEF PortsTypeOK
<1>5. PortOwnership
  BY <1>3 DEF PortOwnership
<1>6. StatusAgreement
  BY DEF StatusAgreement, Leased
<1>7. QED
  BY <1>4, <1>5, <1>6 DEF Consistent

\* A port that names a listener names one whose row exists.
LEMMA OwnedRow ==
    ASSUME Consistent, NEW p \in Port, port[p].listener # NoListener
    PROVE  /\ port[p].listener \in Listener
           /\ listener[port[p].listener] \in ListenerRow
           /\ listener[port[p].listener].port = p
<1>1. port[p].listener \in Listener
  BY DEF Consistent, PortsTypeOK, PortRow
<1>2. Exists(port[p].listener) /\ listener[port[p].listener].port = p
  BY <1>1 DEF Consistent, PortOwnership
<1>3. QED
  BY <1>1, <1>2, ExistingRow DEF Consistent

\* A free port is leased to a new listener.
LEMMA ReserveStep ==
    ASSUME Consistent, NEW l \in Listener, NEW p \in Port,
           NEW row \in ListenerRow, row.status = "reserved", row.port = p,
           listener[l] = Absent, port[p].status = "available",
           listener' = [listener EXCEPT ![l] = row],
           port' = [port EXCEPT ![p] = [status |-> "reserved", listener |-> l]],
           UNCHANGED catalogVars
    PROVE  Consistent'
<1>0. PortsTypeOK /\ PortOwnership /\ StatusAgreement
  BY DEF Consistent
<1>1. port[p].listener = NoListener /\ ~Exists(l)
  BY <1>0 DEF StatusAgreement, Exists, Absent, ListenerStatus
<1>2. PortsTypeOK'
  BY <1>0
  DEF PortsTypeOK, CatalogTypeOK, catalogVars, PortRow, PortStatus, Leased
<1>3. PortOwnership'
  BY <1>0, <1>1, PortsAssumption
  DEF PortOwnership, PortsTypeOK, Exists, ListenerStatus, PortRow
<1>4. StatusAgreement'
  BY <1>0, <1>1, PortsAssumption
  DEF StatusAgreement, PortOwnership, PortsTypeOK, Exists, ListenerStatus,
      PortRow, Leased
<1>5. QED
  BY <1>2, <1>3, <1>4 DEF Consistent

LEMMA AllocateStep ==
    ASSUME Consistent, NEW l \in Listener, NEW v \in ServiceVersion,
           NEW r \in Permission, NEW q \in Policy, NEW p \in Port,
           AllocateListener(l, v, r, q, p)
    PROVE  Consistent'
<1>. DEFINE row ==
       [status |-> "reserved", port |-> p, version |-> v, permission |-> r,
        policy |-> q, rowVersion |-> 1, configuration |-> NoConfiguration]
<1>1. /\ row \in ListenerRow
      /\ row.status = "reserved" /\ row.port = p
  BY PortsAssumption DEF ListenerRow, ListenerStatus
<1>2. /\ listener[l] = Absent
      /\ r \in permissions
      /\ port[p].status = "available"
      /\ listener' = [listener EXCEPT ![l] = row]
      /\ port' = [port EXCEPT ![p] = [status |-> "reserved", listener |-> l]]
      /\ UNCHANGED catalogVars
  BY DEF AllocateListener
<1>. HIDE DEF row
<1>3. Consistent'
  BY <1>1, <1>2, ReserveStep
<1>4. QED
  BY <1>3

LEMMA UpdateListenerStep ==
    ASSUME Consistent, NEW l \in Listener, NEW status \in ListenerStatus,
           NEW e \in 1 .. MaxRowVersion, UpdateListener(l, status, e)
    PROVE  Consistent'
<1>. DEFINE row == WithStatus(listener[l], status)
            s == PortStatusFor(status)
<1>0. PortsTypeOK /\ PortOwnership /\ StatusAgreement
  BY DEF Consistent
<1>1. /\ Exists(l)
      /\ listener[l].rowVersion < MaxRowVersion
      /\ listener' = [listener EXCEPT ![l] = row]
      /\ port' = [p \in Port |->
            IF port[p].listener = l THEN [port[p] EXCEPT !.status = s]
                                    ELSE port[p]]
      /\ UNCHANGED catalogVars
  BY DEF UpdateListener, CanBump
<1>2. /\ row \in ListenerRow
      /\ row.status = status
      /\ row.port = listener[l].port
  BY <1>0, <1>1, ExistingRow, WithStatusRow
<1>3. /\ s \in PortStatus /\ s # "available"
      /\ s \in Leased => s = status
      /\ s \in {"cooldown", "blocked"} => status = "disabled"
  BY DEF PortStatusFor, PortStatus, Leased, ListenerStatus
<1>. HIDE DEF row, s
<1>4. PortsTypeOK'
  BY <1>0, <1>1, <1>2, <1>3
  DEF PortsTypeOK, CatalogTypeOK, catalogVars, PortRow
<1>5. \A k \in Listener :
          /\ Exists(k)' <=> Exists(k)
          /\ Exists(k) => listener'[k].port = listener[k].port
          /\ k # l => listener'[k] = listener[k]
  BY <1>0, <1>1, <1>2 DEF Exists, PortsTypeOK
<1>6. \A p \in Port : port'[p].listener = port[p].listener
  BY <1>0, <1>1 DEF PortsTypeOK, PortRow
<1>7. PortOwnership'
  BY <1>0, <1>5, <1>6 DEF PortOwnership
<1>8. ASSUME NEW p \in Port, port[p].listener = l
      PROVE  port'[p].status = s /\ listener'[l].status = status
  BY <1>0, <1>1, <1>2, <1>8 DEF PortsTypeOK, PortRow
<1>9. ASSUME NEW p \in Port, port[p].listener # l
      PROVE  /\ port'[p] = port[p]
             /\ port[p].listener # NoListener =>
                   listener'[port[p].listener] = listener[port[p].listener]
  BY <1>0, <1>1, <1>5, <1>9 DEF PortsTypeOK, PortRow
<1>10. StatusAgreement'
  BY <1>0, <1>3, <1>6, <1>8, <1>9, PortsAssumption DEF StatusAgreement
<1>11. QED
  BY <1>4, <1>7, <1>10 DEF Consistent

LEMMA UpdatePoliciesStep ==
    ASSUME Consistent, NEW l \in Listener, NEW q \in Policy,
           NEW e \in 1 .. MaxRowVersion, UpdateListenerPolicies(l, q, e)
    PROVE  Consistent'
<1>. DEFINE row == WithPolicy(listener[l], q)
<1>0. PortsTypeOK /\ PortOwnership /\ StatusAgreement
  BY DEF Consistent
<1>1. /\ Exists(l)
      /\ listener[l].rowVersion < MaxRowVersion
      /\ listener' = [listener EXCEPT ![l] = row]
      /\ UNCHANGED <<port, catalogVars>>
  BY DEF UpdateListenerPolicies, CanBump
<1>2. /\ row \in ListenerRow
      /\ row.status = listener[l].status
      /\ row.port = listener[l].port
  BY <1>0, <1>1, ExistingRow, WithPolicyRow
<1>. HIDE DEF row
<1>3. PortsTypeOK'
  BY <1>0, <1>1, <1>2 DEF PortsTypeOK, CatalogTypeOK, catalogVars
<1>4. \A k \in Listener :
          /\ listener'[k].status = listener[k].status
          /\ Exists(k)' <=> Exists(k)
          /\ Exists(k) => listener'[k].port = listener[k].port
  BY <1>0, <1>1, <1>2 DEF Exists, PortsTypeOK
<1>5. PortOwnership'
  BY <1>0, <1>1, <1>4 DEF PortOwnership
<1>6. StatusAgreement'
  BY <1>0, <1>1, <1>4 DEF StatusAgreement, PortsTypeOK, PortRow
<1>7. QED
  BY <1>3, <1>5, <1>6 DEF Consistent

LEMMA BlockStep ==
    ASSUME Consistent, NEW p \in Port, BlockPort(p)
    PROVE  Consistent'
<1>. DEFINE l == port[p].listener
            row == WithStatus(listener[l], "disabled")
<1>0. PortsTypeOK /\ PortOwnership /\ StatusAgreement
  BY DEF Consistent
<1>1. /\ port' = [port EXCEPT ![p].status = "blocked"]
      /\ UNCHANGED catalogVars
  BY DEF BlockPort
<1>2. /\ \A o \in Port : port'[o].listener = port[o].listener
      /\ \A o \in Port : o # p => port'[o] = port[o]
      /\ port'[p].status = "blocked"
      /\ port' \in [Port -> PortRow]
  BY <1>0, <1>1 DEF PortsTypeOK, PortRow, PortStatus
<1>3. CASE MustDisable(l)
  <2>1. /\ l \in Listener
        /\ listener[l] \in ListenerRow
        /\ listener[l].port = p
    BY <1>3, OwnedRow DEF MustDisable
  <2>2. /\ listener[l].rowVersion < MaxRowVersion
        /\ listener' = [listener EXCEPT ![l] = row]
    BY <1>3 DEF BlockPort, CanBump
  <2>3. /\ row \in ListenerRow
        /\ row.status = "disabled"
        /\ row.port = listener[l].port
    BY <2>1, <2>2, WithStatusRow DEF ListenerStatus
  <2>. HIDE DEF row
  <2>4. PortsTypeOK'
    BY <1>0, <1>1, <1>2, <2>1, <2>2, <2>3
    DEF PortsTypeOK, CatalogTypeOK, catalogVars
  <2>5. \A k \in Listener :
            /\ Exists(k)' <=> Exists(k)
            /\ Exists(k) => listener'[k].port = listener[k].port
            /\ k # l => listener'[k] = listener[k]
    BY <1>0, <2>1, <2>2, <2>3 DEF Exists, PortsTypeOK, ListenerRow
  <2>6. PortOwnership'
    BY <1>0, <1>2, <2>5 DEF PortOwnership
  <2>7. ASSUME NEW o \in Port, o # p, port[o].listener # NoListener
        PROVE  listener'[port[o].listener] = listener[port[o].listener]
    BY <2>1, <2>5, <2>7, OwnedRow
  <2>8. listener'[l].status = "disabled"
    BY <1>0, <2>1, <2>2, <2>3 DEF PortsTypeOK
  <2>9. StatusAgreement'
    BY <1>0, <1>2, <2>7, <2>8 DEF StatusAgreement, Leased
  <2>10. QED
    BY <2>4, <2>6, <2>9 DEF Consistent
<1>4. CASE ~MustDisable(l)
  <2>1. listener' = listener
    BY <1>4 DEF BlockPort
  <2>2. PortsTypeOK'
    BY <1>0, <1>1, <1>2, <2>1
    DEF PortsTypeOK, CatalogTypeOK, catalogVars
  <2>3. PortOwnership'
    BY <1>0, <1>2, <2>1 DEF PortOwnership, Exists
  <2>4. StatusAgreement'
    BY <1>0, <1>2, <1>4, <2>1 DEF StatusAgreement, Leased, MustDisable
  <2>5. QED
    BY <2>2, <2>3, <2>4 DEF Consistent
<1>5. QED
  BY <1>3, <1>4

\* A leased port returns to the pool and its listener is deleted.
LEMMA ReturnStep ==
    ASSUME Consistent, NEW p \in Port, NEW l \in Listener,
           l = port[p].listener,
           listener' = [listener EXCEPT ![l] = Deleted],
           port' = [port EXCEPT ![p] =
                      [status |-> "available", listener |-> NoListener]],
           UNCHANGED catalogVars
    PROVE  Consistent'
<1>0. PortsTypeOK /\ PortOwnership /\ StatusAgreement
  BY DEF Consistent
<1>1. /\ \A o \in Port : o # p => port'[o] = port[o]
      /\ port'[p].status = "available" /\ port'[p].listener = NoListener
      /\ port' \in [Port -> PortRow]
  BY <1>0 DEF PortsTypeOK, PortRow, PortStatus
<1>2. /\ l # NoListener
      /\ listener[l] \in ListenerRow
      /\ listener[l].port = p
  BY OwnedRow, PortsAssumption
<1>3. PortsTypeOK'
  BY <1>0, <1>1 DEF PortsTypeOK, CatalogTypeOK, catalogVars
<1>4. /\ listener'[l].status \notin ListenerStatus
      /\ \A k \in Listener : k # l => listener'[k] = listener[k]
  BY <1>0 DEF PortsTypeOK, Exists, Deleted, ListenerStatus
<1>5. \A o \in Port : o # p => port[o].listener # l
  BY <1>0, <1>2 DEF PortOwnership
<1>6. PortOwnership'
  BY <1>0, <1>1, <1>2, <1>4, <1>5, PortsAssumption DEF PortOwnership, Exists
<1>7. StatusAgreement'
  BY <1>0, <1>1, <1>4, <1>5
  DEF StatusAgreement, Leased, PortsTypeOK, PortRow
<1>8. QED
  BY <1>3, <1>6, <1>7 DEF Consistent

LEMMA ReleaseStep ==
    ASSUME Consistent, NEW p \in Port, ReleasePort(p)
    PROVE  Consistent'
<1>0. PortsTypeOK /\ PortOwnership /\ StatusAgreement
  BY DEF Consistent
<1>1. /\ port' = [port EXCEPT ![p] =
                     [status |-> "available", listener |-> NoListener]]
      /\ UNCHANGED catalogVars
  BY DEF ReleasePort
<1>2. CASE port[p].listener = NoListener
  <2>1. /\ \A o \in Port : o # p => port'[o] = port[o]
        /\ port'[p].status = "available" /\ port'[p].listener = NoListener
        /\ port' \in [Port -> PortRow]
    BY <1>0, <1>1 DEF PortsTypeOK, PortRow, PortStatus
  <2>2. listener' = listener
    BY <1>2 DEF ReleasePort
  <2>3. PortsTypeOK'
    BY <1>0, <1>1, <2>1, <2>2
    DEF PortsTypeOK, CatalogTypeOK, catalogVars
  <2>4. PortOwnership'
    BY <1>0, <1>2, <2>1, <2>2, PortsAssumption DEF PortOwnership, Exists
  <2>5. StatusAgreement'
    BY <1>0, <2>1, <2>2 DEF StatusAgreement, Leased
  <2>6. QED
    BY <2>3, <2>4, <2>5 DEF Consistent
<1>3. ASSUME NEW l \in Listener, l = port[p].listener
      PROVE  Consistent'
  <2>1. listener' = [listener EXCEPT ![l] = Deleted]
    BY <1>3, PortsAssumption DEF ReleasePort
  <2>2. QED
    BY <1>1, <1>3, <2>1, ReturnStep
<1>4. QED
  BY <1>0, <1>2, <1>3 DEF PortsTypeOK, PortRow

LEMMA CooldownStep ==
    ASSUME Consistent, NEW p \in Port, CooldownPort(p)
    PROVE  Consistent'
<1>0. PortsTypeOK /\ PortOwnership /\ StatusAgreement
  BY DEF Consistent
<1>1. /\ port[p].status \notin Leased
      /\ port' = [port EXCEPT ![p].status = "cooldown"]
      /\ UNCHANGED <<listener, catalogVars>>
  BY DEF CooldownPort
<1>2. /\ \A o \in Port : port'[o].listener = port[o].listener
      /\ \A o \in Port : o # p => port'[o] = port[o]
      /\ port'[p].status = "cooldown"
      /\ port' \in [Port -> PortRow]
  BY <1>0, <1>1 DEF PortsTypeOK, PortRow, PortStatus
<1>3. PortsTypeOK'
  BY <1>0, <1>1, <1>2 DEF PortsTypeOK, CatalogTypeOK, catalogVars
<1>4. PortOwnership'
  BY <1>0, <1>1, <1>2 DEF PortOwnership, Exists
<1>5. port[p].listener = NoListener
        \/ listener[port[p].listener].status = "disabled"
  BY <1>0, <1>1 DEF StatusAgreement, PortsTypeOK, PortRow, PortStatus
<1>6. StatusAgreement'
  BY <1>0, <1>1, <1>2, <1>5 DEF StatusAgreement, Leased
<1>7. QED
  BY <1>3, <1>4, <1>6 DEF Consistent

LEMMA DeletePermissionStep ==
    ASSUME Consistent, NEW r \in Permission, DeletePermission(r)
    PROVE  Consistent'
<1>0. PortsTypeOK /\ PortOwnership /\ StatusAgreement
  BY DEF Consistent
<1>1. PortsTypeOK'
  BY <1>0 DEF DeletePermission, PortsTypeOK, CatalogTypeOK, portVars
<1>2. PortOwnership' /\ StatusAgreement'
  BY <1>0 DEF DeletePermission, PortOwnership, StatusAgreement, portVars, Exists
<1>3. QED
  BY <1>1, <1>2 DEF Consistent

\* The catalogue's own operations never remove a permission.
LEMMA PermissionsStay ==
    ASSUME CatalogNext PROVE permissions \subseteq permissions'
BY DEF CatalogNext, CreateService, UpdateService, CreateServiceVersion,
       UpdateServiceVersion, CreateUpstream, UpdateUpstream, CreatePermission,
       ChangeGrants

LEMMA CatalogStep ==
    ASSUME Consistent, CatalogNext, UNCHANGED portVars
    PROVE  Consistent'
<1>0. PortsTypeOK /\ PortOwnership /\ StatusAgreement
  BY DEF Consistent
<1>1. PortsTypeOK'
  BY <1>0, CatalogStepType DEF PortsTypeOK, portVars
<1>2. PortOwnership' /\ StatusAgreement'
  BY <1>0 DEF PortOwnership, StatusAgreement, portVars, Exists
<1>3. permissions \subseteq permissions'
  BY PermissionsStay
<1>4. QED
  BY <1>1, <1>2 DEF Consistent

LEMMA PublishStep ==
    ASSUME Consistent, NEW c \in ConfigurationID, PublishListeners(c)
    PROVE  Consistent'
<1>0. PortsTypeOK /\ PortOwnership /\ StatusAgreement
  BY DEF Consistent
<1>1. /\ listener' = [l \in Listener |-> Activated(listener[l], c)]
      /\ port' = [p \in Port |->
            IF port[p].status = "reserved"
            THEN [port[p] EXCEPT !.status = "active"] ELSE port[p]]
      /\ UNCHANGED catalogVars
  BY DEF PublishListeners
<1>2. ASSUME NEW l \in Listener, Exists(l)
      PROVE  /\ listener'[l] \in ListenerRow
             /\ listener'[l].port = listener[l].port
             /\ listener'[l].status =
                   IF listener[l].status = "reserved" THEN "active"
                                                      ELSE listener[l].status
  BY <1>0, <1>1, <1>2, ExistingRow, ActivatedRow
<1>3. ASSUME NEW l \in Listener, ~Exists(l)
      PROVE  listener'[l] = listener[l]
  <2>1. listener[l] \in {Absent, Deleted}
    BY <1>0, <1>3 DEF PortsTypeOK, Exists, ListenerRow
  <2>2. QED
    BY <1>1, <2>1, ActivatedNothing
<1>4. \A l \in Listener : Exists(l)' <=> Exists(l)
  BY <1>2, <1>3 DEF Exists, ListenerRow
<1>5. \A p \in Port :
          /\ port'[p] \in PortRow
          /\ port'[p].listener = port[p].listener
          /\ port'[p].status = IF port[p].status = "reserved" THEN "active"
                                                              ELSE port[p].status
  BY <1>0, <1>1 DEF PortsTypeOK, PortRow, PortStatus, Leased
<1>6. PortsTypeOK'
  <2>1. port' \in [Port -> PortRow]
    BY <1>1, <1>5
  <2>2. listener' \in [Listener -> ListenerRow \cup {Absent, Deleted}]
    BY <1>0, <1>1, <1>2, <1>3 DEF PortsTypeOK
  <2>3. QED
    BY <1>0, <1>1, <2>1, <2>2 DEF PortsTypeOK, CatalogTypeOK, catalogVars
<1>7. PortOwnership'
  BY <1>0, <1>2, <1>4, <1>5 DEF PortOwnership
<1>8. ASSUME NEW p \in Port, port[p].listener # NoListener
      PROVE  /\ port[p].listener \in Listener
             /\ Exists(port[p].listener)
  BY <1>8, OwnedRow DEF Exists, ListenerRow
<1>9. StatusAgreement'
  BY <1>0, <1>2, <1>5, <1>8 DEF StatusAgreement, Leased
<1>10. QED
  BY <1>6, <1>7, <1>9 DEF Consistent

\* No operation needs another one to complete its work.
LEMMA ConsistentStep ==
    ASSUME Consistent, [PortsNext]_portsVars
    PROVE  Consistent'
<1>1. CASE ListenerNext
  BY <1>1, AllocateStep, UpdateListenerStep, UpdatePoliciesStep, BlockStep,
     ReleaseStep, CooldownStep, DeletePermissionStep, CatalogStep
  DEF ListenerNext
<1>2. CASE \E c \in ConfigurationID : PublishListeners(c)
  BY <1>2, PublishStep
<1>3. CASE UNCHANGED portsVars
  BY <1>3
  DEF portsVars, portVars, catalogVars, Consistent,
      PortsTypeOK, CatalogTypeOK, PortOwnership, StatusAgreement,
      Exists
<1>4. QED
  BY <1>1, <1>2, <1>3 DEF PortsNext

LEMMA ConsistentInvariant == PortsSpec => []Consistent
BY ConsistentInit, ConsistentStep, PTL DEF PortsSpec

-----------------------------------------------------------------------------
(***************************************************************************)
(* No operation of the Store writes a row that its schema would refuse.    *)
(***************************************************************************)
THEOREM TypeCorrect == PortsSpec => []PortsTypeOK
<1>1. Consistent => PortsTypeOK
  BY DEF Consistent
<1>2. QED
  BY <1>1, ConsistentInvariant, PTL

(***************************************************************************)
(* For any pool of ports and any number of listeners, the references       *)
(* between port_inventory and listeners stay inverse of each other: no     *)
(* port is shared, leaked, or left pointing at a deleted listener.         *)
(***************************************************************************)
THEOREM OwnershipInvariant == PortsSpec => []PortOwnership
<1>1. Consistent => PortOwnership
  BY DEF Consistent
<1>2. QED
  BY <1>1, ConsistentInvariant, PTL

(***************************************************************************)
(* The status column of a port and of its listener agree after every       *)
(* operation, activations included.                                        *)
(***************************************************************************)
THEOREM AgreementInvariant == PortsSpec => []StatusAgreement
<1>1. Consistent => StatusAgreement
  BY DEF Consistent
<1>2. QED
  BY <1>1, ConsistentInvariant, PTL
=============================================================================
