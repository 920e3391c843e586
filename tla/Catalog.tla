------------------------------ MODULE Catalog ------------------------------
(***************************************************************************)
(* The service catalogue of one environment: the tables services,          *)
(* service_versions, upstreams, permissions and consumer_permissions that  *)
(* the control plane's Store edits.  Every operation is one database       *)
(* transaction (Store.withTx) and therefore one action.                    *)
(*                                                                         *)
(* Only the enabled flag of a row is kept; names, paths, addresses and     *)
(* limits are data that no property tells apart.  The row_version columns  *)
(* of these three tables are left out: the expected version is an input    *)
(* of the caller, a wrong one leaves the row alone, and nothing else reads *)
(* the column.  (Listener rows do keep theirs, see Ports and               *)
(* AdminTransactions.)                                                     *)
(***************************************************************************)
CONSTANTS
    Service,          \* services that may be created
    ServiceVersion,   \* versions that may be created
    Upstream,         \* upstream targets that may be created
    Permission,       \* access rules that may be created
    ServiceOf,        \* the service a version belongs to
    VersionOf,        \* the version an upstream belongs to
    Flag              \* what edits may set a row to: both, or a run's bound

ASSUME CatalogAssumption ==
    /\ ServiceOf \in [ServiceVersion -> Service]
    /\ VersionOf \in [Upstream -> ServiceVersion]
    /\ Flag \subseteq {"enabled", "disabled"}

VARIABLES
    service,       \* services.enabled, or "absent" before the row exists
    version,       \* service_versions.enabled
    upstream,      \* upstreams.enabled
    permissions,   \* the rows of permissions
    granted        \* the permissions some row of consumer_permissions names

catalogVars == <<service, version, upstream, permissions, granted>>

Enabledness == {"absent", "enabled", "disabled"}

CatalogTypeOK ==
    /\ service \in [Service -> Enabledness]
    /\ version \in [ServiceVersion -> Enabledness]
    /\ upstream \in [Upstream -> Enabledness]
    /\ permissions \subseteq Permission
    /\ granted \subseteq Permission

CatalogInit ==
    /\ service = [s \in Service |-> "absent"]
    /\ version = [v \in ServiceVersion |-> "absent"]
    /\ upstream = [u \in Upstream |-> "absent"]
    /\ permissions = {}
    /\ granted = {}

CreateService(s) ==
    /\ service[s] = "absent"
    /\ service' = [service EXCEPT ![s] = "enabled"]
    /\ UNCHANGED <<version, upstream, permissions, granted>>

UpdateService(s, enabled) ==
    /\ service[s] # "absent"
    /\ service' = [service EXCEPT ![s] = enabled]
    /\ UNCHANGED <<version, upstream, permissions, granted>>

\* The service must exist; it need not be enabled.
CreateServiceVersion(v) ==
    /\ version[v] = "absent"
    /\ service[ServiceOf[v]] # "absent"
    /\ version' = [version EXCEPT ![v] = "enabled"]
    /\ UNCHANGED <<service, upstream, permissions, granted>>

UpdateServiceVersion(v, enabled) ==
    /\ version[v] # "absent"
    /\ version' = [version EXCEPT ![v] = enabled]
    /\ UNCHANGED <<service, upstream, permissions, granted>>

CreateUpstream(u) ==
    /\ upstream[u] = "absent"
    /\ version[VersionOf[u]] # "absent"
    /\ upstream' = [upstream EXCEPT ![u] = "enabled"]
    /\ UNCHANGED <<service, version, permissions, granted>>

UpdateUpstream(u, enabled) ==
    /\ upstream[u] # "absent"
    /\ upstream' = [upstream EXCEPT ![u] = enabled]
    /\ UNCHANGED <<service, version, permissions, granted>>

CreatePermission(r) ==
    /\ r \notin permissions
    /\ permissions' = permissions \cup {r}
    /\ UNCHANGED <<service, version, upstream, granted>>

(***************************************************************************)
(* What creating, editing or deleting a consumer, or issuing a key, does   *)
(* to the set of permissions held by some consumer.  assignPermissions     *)
(* refuses a name that is not in permissions.                              *)
(***************************************************************************)
ChangeGrants(held) ==
    /\ held \subseteq permissions
    /\ granted' = held
    /\ UNCHANGED <<service, version, upstream, permissions>>

CatalogNext ==
    \/ \E s \in Service : CreateService(s)
    \/ \E s \in Service, e \in Flag : UpdateService(s, e)
    \/ \E v \in ServiceVersion : CreateServiceVersion(v)
    \/ \E v \in ServiceVersion, e \in Flag : UpdateServiceVersion(v, e)
    \/ \E u \in Upstream : CreateUpstream(u)
    \/ \E u \in Upstream, e \in Flag : UpdateUpstream(u, e)
    \/ \E r \in Permission : CreatePermission(r)
    \/ \E held \in SUBSET Permission : ChangeGrants(held)

-----------------------------------------------------------------------------
\* A version a listener may be allocated for: it and its service are enabled.
Available(v) == version[v] = "enabled" /\ service[ServiceOf[v]] = "enabled"
=============================================================================
