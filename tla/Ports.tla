------------------------------- MODULE Ports -------------------------------
(***************************************************************************)
(* The port inventory and the listeners of one environment: the tables     *)
(* port_inventory and listeners, which point at each other, and the Store  *)
(* operations that keep them consistent.  A port is leased to a listener,  *)
(* follows the listener's status, and returns to the pool when an          *)
(* administrator releases it, which deletes the listener.                  *)
(*                                                                         *)
(* Module AdminTransactions splits the operations into their statements    *)
(* and says when a commit still is one of the steps below.                 *)
(*                                                                         *)
(* PublishListeners is the part of ActivateConfiguration that touches      *)
(* these two tables; module Configurations adds the rest of that           *)
(* transaction.                                                            *)
(***************************************************************************)
EXTENDS Catalog, Integers

CONSTANTS
    Port,             \* the listen ports of the environment's pool
    Listener,         \* listener identifiers (newID: random, never reused)
    Policy,           \* settings UpdateListenerPolicies can write
    ConfigurationID,  \* configuration_versions.id
    NoListener,       \* SQL NULL in port_inventory.listener_id
    NoConfiguration,  \* SQL NULL in listeners.configuration_version
    MaxRowVersion     \* bound on listeners.row_version

ASSUME PortsAssumption ==
    /\ NoListener \notin Listener
    /\ NoConfiguration \notin ConfigurationID
    /\ MaxRowVersion \in Nat \ {0}

VARIABLES
    port,             \* port_inventory, by listen_port
    listener          \* listeners, by id

portVars == <<port, listener>>
portsVars == <<catalogVars, portVars>>

-----------------------------------------------------------------------------
(* Rows *)

ListenerStatus == {"reserved", "active", "draining", "disabled"}
Leased == {"reserved", "active", "draining"}
PortStatus == Leased \cup {"available", "cooldown", "blocked"}

PortRow == [status : PortStatus, listener : Listener \cup {NoListener}]

ListenerRow ==
    [status : ListenerStatus,
     port : Port,
     version : ServiceVersion,
     permission : Permission,
     policy : Policy,
     rowVersion : 1 .. MaxRowVersion,
     configuration : ConfigurationID \cup {NoConfiguration}]

\* An identifier that has no row: not drawn yet, or its row was deleted.
Absent == [status |-> "absent"]
Deleted == [status |-> "deleted"]

Exists(l) == listener[l].status \in ListenerStatus

\* Mutant of WithPolicy: the UPDATE forgets row_version.
WithPolicyUnversioned(row, q) == [row EXCEPT !.policy = q]

\* The two edits of a row; each advances row_version.
WithStatus(row, status) ==
    [row EXCEPT !.status = status, !.rowVersion = @ + 1]
WithPolicy(row, q) ==
    [row EXCEPT !.policy = q, !.rowVersion = @ + 1]

CanBump(l) == listener[l].rowVersion < MaxRowVersion

\* Mutant of PortStatusFor: the listener's status is copied as it is.
PortStatusCopied(status) == status

\* The port status UpdateListener derives from the listener status.
PortStatusFor(status) == IF status = "disabled" THEN "cooldown" ELSE status

-----------------------------------------------------------------------------
(* Operations *)

PortsInit ==
    /\ CatalogInit
    /\ port = [p \in Port |-> [status |-> "available", listener |-> NoListener]]
    /\ listener = [l \in Listener |-> Absent]

\* Mutant of AllocateListener: the port's status is not checked.
AllocateAnyPort(l, v, r, q, p) ==
    /\ listener[l] = Absent
    /\ Available(v)
    /\ r \in permissions
    /\ listener' = [listener EXCEPT ![l] =
          [status |-> "reserved", port |-> p, version |-> v, permission |-> r,
           policy |-> q, rowVersion |-> 1, configuration |-> NoConfiguration]]
    /\ port' = [port EXCEPT ![p] = [status |-> "reserved", listener |-> l]]
    /\ UNCHANGED catalogVars

(***************************************************************************)
(* A preferred port must be available; without one the Store takes the     *)
(* first available port that no other transaction has locked (SKIP         *)
(* LOCKED), so any available port can be the one leased.  The version and  *)
(* the permission are looked up by statements that lock neither row; what  *)
(* can happen to them before the INSERT commits is in AdminTransactions    *)
(* (CheckCatalog, AllocateOnOldCatalog, RemoveUsedPermission).             *)
(***************************************************************************)
AllocateListener(l, v, r, q, p) ==
    /\ listener[l] = Absent
    /\ Available(v)
    /\ r \in permissions
    /\ port[p].status = "available"
    /\ listener' = [listener EXCEPT ![l] =
          [status |-> "reserved", port |-> p, version |-> v, permission |-> r,
           policy |-> q, rowVersion |-> 1, configuration |-> NoConfiguration]]
    /\ port' = [port EXCEPT ![p] = [status |-> "reserved", listener |-> l]]
    /\ UNCHANGED catalogVars

\* Any status may follow any other; the caller must name the current version.
UpdateListener(l, status, expectedVersion) ==
    /\ Exists(l)
    /\ listener[l].rowVersion = expectedVersion
    /\ CanBump(l)
    /\ listener' = [listener EXCEPT ![l] = WithStatus(@, status)]
    /\ port' = [p \in Port |->
          IF port[p].listener = l
          THEN [port[p] EXCEPT !.status = PortStatusFor(status)]
          ELSE port[p]]
    /\ UNCHANGED catalogVars

UpdateListenerPolicies(l, q, expectedVersion) ==
    /\ Exists(l)
    /\ listener[l].rowVersion = expectedVersion
    /\ CanBump(l)
    /\ listener' = [listener EXCEPT ![l] = WithPolicy(@, q)]
    /\ UNCHANGED <<port, catalogVars>>

(***************************************************************************)
(* UpdatePortStatus, one action per requested status.                      *)
(***************************************************************************)
MustDisable(l) == l # NoListener /\ listener[l].status # "disabled"

BlockPort(p) ==
    LET l == port[p].listener IN
    /\ MustDisable(l) => CanBump(l)
    /\ listener' = IF MustDisable(l)
                   THEN [listener EXCEPT ![l] = WithStatus(@, "disabled")]
                   ELSE listener
    /\ port' = [port EXCEPT ![p].status = "blocked"]
    /\ UNCHANGED catalogVars

\* Releasing a port deletes its listener, which must be disabled.
ReleasePort(p) ==
    LET l == port[p].listener IN
    /\ IF l = NoListener
       THEN /\ port[p].status \notin Leased
            /\ listener' = listener
       ELSE /\ listener[l].status = "disabled"
            /\ listener' = [listener EXCEPT ![l] = Deleted]
    /\ port' = [port EXCEPT ![p] =
                  [status |-> "available", listener |-> NoListener]]
    /\ UNCHANGED catalogVars

CooldownPort(p) ==
    /\ port[p].status \notin Leased
    /\ port' = [port EXCEPT ![p].status = "cooldown"]
    /\ UNCHANGED <<listener, catalogVars>>

\* A permission that a consumer holds or a listener requires stays.  Here as
\* above the check is a statement of its own, whose transaction does not see,
\* nor wait for, a listener that is being allocated: the two interleave in
\* AdminTransactions (LockUnusedPermission, CheckCatalog, Commit).
DeletePermission(r) ==
    /\ r \in permissions
    /\ r \notin granted
    /\ \A l \in Listener : Exists(l) => listener[l].permission # r
    /\ permissions' = permissions \ {r}
    /\ UNCHANGED <<service, version, upstream, granted, portVars>>

(***************************************************************************)
(* The listener and port sweeps of ActivateConfiguration: every listener   *)
(* is stamped with the activated version and every reserved one becomes    *)
(* active.  The sweep does not touch row_version.                          *)
(***************************************************************************)
Activated(row, c) ==
    IF row.status \in ListenerStatus
    THEN [row EXCEPT !.configuration = c,
                     !.status = IF @ = "reserved" THEN "active" ELSE @]
    ELSE row

PublishListeners(c) ==
    /\ listener' = [l \in Listener |-> Activated(listener[l], c)]
    /\ port' = [p \in Port |->
          IF port[p].status = "reserved"
          THEN [port[p] EXCEPT !.status = "active"]
          ELSE port[p]]
    /\ UNCHANGED catalogVars

-----------------------------------------------------------------------------
ListenerNext ==
    \/ \E l \in Listener, v \in ServiceVersion, r \in Permission,
          q \in Policy, p \in Port : AllocateListener(l, v, r, q, p)
    \/ \E l \in Listener, status \in ListenerStatus, e \in 1 .. MaxRowVersion :
          UpdateListener(l, status, e)
    \/ \E l \in Listener, q \in Policy, e \in 1 .. MaxRowVersion :
          UpdateListenerPolicies(l, q, e)
    \/ \E p \in Port : BlockPort(p)
    \/ \E p \in Port : ReleasePort(p)
    \/ \E p \in Port : CooldownPort(p)
    \/ \E r \in Permission : DeletePermission(r)
    \/ CatalogNext /\ UNCHANGED portVars

PortsNext == ListenerNext \/ \E c \in ConfigurationID : PublishListeners(c)

PortsSpec == PortsInit /\ [][PortsNext]_portsVars

-----------------------------------------------------------------------------
(* Properties *)

\* The rows of every table have the columns and values of their schema.
PortsTypeOK ==
    /\ CatalogTypeOK
    /\ port \in [Port -> PortRow]
    /\ listener \in [Listener -> ListenerRow \cup {Absent, Deleted}]

(***************************************************************************)
(* port_inventory.listener_id and listeners.listen_port are inverse of     *)
(* each other: a port names a listener exactly when the listener's row     *)
(* exists and is on that port, so no two listeners share a port and no     *)
(* port keeps the identifier of a deleted row.  The schema's foreign keys  *)
(* alone do not say this; Allocate, Release and Block maintain it.         *)
(***************************************************************************)
PortOwnership ==
    \A p \in Port, l \in Listener :
        port[p].listener = l <=> Exists(l) /\ listener[l].port = p

(***************************************************************************)
(* The two status columns agree after every operation: a leased port has   *)
(* its listener's status, and a port that is available, cooling down or    *)
(* blocked has no listener that could be published.  Five different        *)
(* operations write one column or the other.                               *)
(***************************************************************************)
StatusAgreement ==
    \A p \in Port :
        LET l == port[p].listener IN
        /\ port[p].status \in Leased =>
              l # NoListener /\ listener[l].status = port[p].status
        /\ port[p].status = "available" => l = NoListener
        /\ port[p].status \in {"cooldown", "blocked"} =>
              l = NoListener \/ listener[l].status = "disabled"

(***************************************************************************)
(* Every listener's required permission still exists, so that a key can be *)
(* granted it and ValidateConfiguration finds it: what AllocateListener    *)
(* and DeletePermission check, and the dashboard's help promises.  The two *)
(* checks do not lock each other's rows, and the program does not keep it: *)
(* an allocation and a removal that overlap both commit.                   *)
(***************************************************************************)
RequiredPermissionExists ==
    \A l \in Listener : Exists(l) => listener[l].permission \in permissions
=============================================================================
