--------------------------- MODULE Configurations ---------------------------
(***************************************************************************)
(* The configuration lifecycle of one environment: immutable snapshots of  *)
(* the catalogue and the listeners that are created, validated, approved   *)
(* and activated, and restored as a new version by a rollback.  The active *)
(* version's snapshot is what gateways load.                               *)
(*                                                                         *)
(* Activation and rollback lock the environment row, and each operation is *)
(* one transaction, hence one action; an operation whose transaction is    *)
(* rolled back changes nothing and is not a step.                          *)
(***************************************************************************)
EXTENDS Ports, FiniteSets

CONSTANTS
    Actor,              \* administrators
    MaxConfiguration,   \* bound on configuration_versions.id
    RequiredApprovals   \* CONFIGURATION_APPROVALS_REQUIRED

ASSUME ConfigurationsAssumption ==
    /\ MaxConfiguration \in Nat \ {0}
    /\ ConfigurationID = 1 .. MaxConfiguration
    /\ RequiredApprovals \in 0 .. 5
    /\ "system-bootstrap" \notin Actor

VARIABLES
    config,             \* configuration_versions, by id
    approvals           \* configuration_approvals: who approved each version

configVars == <<config, approvals>>
vars == <<portsVars, configVars>>

-----------------------------------------------------------------------------
(* Rows *)

Bootstrap == "system-bootstrap"
ConfigurationStatus == {"draft", "validated", "active", "superseded"}

\* The columns of a listener that a snapshot keeps.
SnapshotListener ==
    [id : Listener, port : Port, version : ServiceVersion,
     permission : Permission, policy : Policy, status : Leased]

Snapshot ==
    [service : [Service -> Enabledness],
     version : [ServiceVersion -> Enabledness],
     upstream : [Upstream -> Enabledness],
     listeners : SUBSET SnapshotListener]

ConfigurationRow ==
    [status : ConfigurationStatus,
     snapshot : Snapshot,
     source : ConfigurationID \cup {NoConfiguration},
     createdBy : Actor \cup {Bootstrap}]

NoRow == [status |-> "absent"]

Recorded(c) == config[c].status \in ConfigurationStatus
Published(c) == config[c].status \in {"active", "superseded"}
ActiveIDs == {c \in ConfigurationID : config[c].status = "active"}

\* BIGSERIAL: the next version number.
NextID(c) ==
    /\ config[c] = NoRow
    /\ \A d \in ConfigurationID : d < c => config[d] # NoRow

\* Mutant of Capture: the status filter on listeners is missing.
CaptureAll ==
    [service |-> service, version |-> version, upstream |-> upstream,
     listeners |->
        {[id |-> l, port |-> listener[l].port, version |-> listener[l].version,
          permission |-> listener[l].permission,
          policy |-> listener[l].policy, status |-> listener[l].status] :
         l \in {k \in Listener : Exists(k)}}]

\* What jsonb_build_object captures: all services, versions and upstreams
\* with their enabled flags, and the listeners that are not disabled.
Capture ==
    [service |-> service, version |-> version, upstream |-> upstream,
     listeners |->
        {[id |-> l, port |-> listener[l].port, version |-> listener[l].version,
          permission |-> listener[l].permission,
          policy |-> listener[l].policy, status |-> listener[l].status] :
         l \in {k \in Listener : Exists(k) /\ listener[k].status # "disabled"}}]

EmptySnapshot ==
    [service |-> [s \in Service |-> "absent"],
     version |-> [v \in ServiceVersion |-> "absent"],
     upstream |-> [u \in Upstream |-> "absent"],
     listeners |-> {}]

-----------------------------------------------------------------------------
(* Operations *)

\* The migrations leave one active, empty version behind.
ConfigInit ==
    /\ config = [c \in ConfigurationID |->
          IF c = 1
          THEN [status |-> "active", snapshot |-> EmptySnapshot,
                source |-> NoConfiguration, createdBy |-> Bootstrap]
          ELSE NoRow]
    /\ approvals = [c \in ConfigurationID |-> {}]

CreateConfiguration(c, actor) ==
    /\ NextID(c)
    /\ config' = [config EXCEPT ![c] =
          [status |-> "draft", snapshot |-> Capture,
           source |-> NoConfiguration, createdBy |-> actor]]
    /\ UNCHANGED <<approvals, portsVars>>

(***************************************************************************)
(* The query looks at the tables as they are now, at every listener of     *)
(* them (the disabled ones too) and at the permission and the enabled      *)
(* upstreams of each; it does not look at the draft's snapshot.            *)
(***************************************************************************)
ListenerValid(l) ==
    /\ listener[l].permission \in permissions
    /\ \E u \in Upstream :
          VersionOf[u] = listener[l].version /\ upstream[u] = "enabled"

ValidateConfiguration(c) ==
    /\ \A l \in Listener : Exists(l) => ListenerValid(l)
    /\ config[c].status = "draft"
    /\ config' = [config EXCEPT ![c].status = "validated"]
    /\ UNCHANGED <<approvals, portsVars>>

\* Independent approval: the author cannot approve, and nobody counts twice.
ApproveConfiguration(c, actor) ==
    /\ config[c].status = "validated"
    /\ config[c].createdBy # actor
    /\ actor \notin approvals[c]
    /\ approvals' = [approvals EXCEPT ![c] = @ \cup {actor}]
    /\ UNCHANGED <<config, portsVars>>

\* UPDATE ... SET status = 'superseded' WHERE status = 'active'
Supersede(row) ==
    IF row.status = "active" THEN [row EXCEPT !.status = "superseded"] ELSE row

\* Mutant of ActivateConfiguration: superseding is kept although the second
\* UPDATE found no validated row.
ActivateUnchecked(c, expectedActive) ==
    /\ expectedActive \in ActiveIDs \cup {NoConfiguration}
    /\ RequiredApprovals > 0 => Cardinality(approvals[c]) >= RequiredApprovals
    /\ config' = [d \in ConfigurationID |->
          IF d = c /\ config[d].status = "validated"
          THEN [config[d] EXCEPT !.status = "active"]
          ELSE Supersede(config[d])]
    /\ PublishListeners(c)
    /\ UNCHANGED approvals

\* expectedActive is optional; the dashboard sends the version it shows.
ActivateConfiguration(c, expectedActive) ==
    /\ expectedActive \in ActiveIDs \cup {NoConfiguration}
    /\ RequiredApprovals > 0 => Cardinality(approvals[c]) >= RequiredApprovals
    /\ config[c].status = "validated"
    /\ config' = [d \in ConfigurationID |->
          IF d = c THEN [config[d] EXCEPT !.status = "active"]
                   ELSE Supersede(config[d])]
    /\ PublishListeners(c)
    /\ UNCHANGED approvals

\* Mutant of RollbackConfiguration: the source may be unpublished.
RollbackAny(c, actor, source) ==
    /\ NextID(c)
    /\ Recorded(source)
    /\ config' = [d \in ConfigurationID |->
          IF d = c
          THEN [status |-> "active", snapshot |-> config[source].snapshot,
                source |-> source, createdBy |-> actor]
          ELSE Supersede(config[d])]
    /\ UNCHANGED <<approvals, portsVars>>

\* Mutant of RollbackConfiguration: the source itself becomes active again.
RollbackInPlace(c, actor, source) ==
    /\ NextID(c)
    /\ Published(source)
    /\ config' = [d \in ConfigurationID |->
          IF d = source THEN [config[d] EXCEPT !.status = "active"]
                        ELSE Supersede(config[d])]
    /\ UNCHANGED <<approvals, portsVars>>

\* The source may be the active version itself: its copy supersedes it.
RollbackConfiguration(c, actor, source) ==
    /\ NextID(c)
    /\ Published(source)
    /\ config' = [d \in ConfigurationID |->
          IF d = c
          THEN [status |-> "active", snapshot |-> config[source].snapshot,
                source |-> source, createdBy |-> actor]
          ELSE Supersede(config[d])]
    /\ UNCHANGED <<approvals, portsVars>>

-----------------------------------------------------------------------------
Init == PortsInit /\ ConfigInit

Next ==
    \/ \E c \in ConfigurationID, a \in Actor : CreateConfiguration(c, a)
    \/ \E c \in ConfigurationID : ValidateConfiguration(c)
    \/ \E c \in ConfigurationID, a \in Actor : ApproveConfiguration(c, a)
    \/ \E c \in ConfigurationID, e \in ConfigurationID \cup {NoConfiguration} :
          ActivateConfiguration(c, e)
    \/ \E c, source \in ConfigurationID, a \in Actor :
          RollbackConfiguration(c, a, source)
    \/ ListenerNext /\ UNCHANGED configVars

Spec == Init /\ [][Next]_vars

-----------------------------------------------------------------------------
(* What a gateway makes of a snapshot *)

\* buildSnapshot's versions map: enabled versions of enabled services.
Usable(snapshot, v) ==
    snapshot.version[v] = "enabled" /\ snapshot.service[ServiceOf[v]] = "enabled"

\* buildSnapshot skips draining listeners and otherwise refuses the snapshot
\* when a listener has no usable version, no enabled upstream or a used port.
Loadable(snapshot) ==
    LET served == {s \in snapshot.listeners : s.status # "draining"} IN
    \A s \in served :
        /\ Usable(snapshot, s.version)
        /\ \E u \in Upstream :
              VersionOf[u] = s.version /\ snapshot.upstream[u] = "enabled"
        /\ \A t \in served : t.port = s.port => t = s

-----------------------------------------------------------------------------
(* Properties *)

\* Every configuration row has the columns and values of its schema.
TypeOK ==
    /\ PortsTypeOK
    /\ config \in [ConfigurationID -> ConfigurationRow \cup {NoRow}]
    /\ approvals \in [ConfigurationID -> SUBSET Actor]

(***************************************************************************)
(* There is always exactly one active version, so that a gateway can start *)
(* and all gateways load the same one.  The unique index gives "at most    *)
(* one"; "at least one" rests on activation and rollback undoing the       *)
(* superseding when the target cannot become active.                       *)
(***************************************************************************)
ExactlyOneActive == \E c \in ConfigurationID : ActiveIDs = {c}

(***************************************************************************)
(* No snapshot, whenever it was captured, maps a port to two listeners:    *)
(* gateways refuse a snapshot that does, and a rollback can make any       *)
(* published one live again.  Migration 002 adds a unique index on the     *)
(* ports of the listeners that are not disabled; it is not modelled, since *)
(* this shows that no operation would ever run into it.                    *)
(***************************************************************************)
SnapshotPortsUnique ==
    \A c \in ConfigurationID : Recorded(c) =>
        \A s, t \in config[c].snapshot.listeners : s.port = t.port => s = t

\* Version o went through approval itself and has the snapshot of c.
ApprovedOriginal(c, o) ==
    /\ Published(o)
    /\ config[o].source = NoConfiguration
    /\ config[o].snapshot = config[c].snapshot
    /\ config[o].createdBy # Bootstrap =>
          Cardinality(approvals[o] \ {config[o].createdBy}) >= RequiredApprovals

(***************************************************************************)
(* What goes live was approved: each published snapshot is that of an      *)
(* original version which gathered the required approvals from others than *)
(* its author, or the bootstrap version's.  Rollbacks ask for no approval, *)
(* so this depends on what they may copy.                                  *)
(***************************************************************************)
PublishedSnapshotsApproved ==
    \A c \in ConfigurationID : Published(c) =>
        \E o \in ConfigurationID : o <= c /\ ApprovedOriginal(c, o)

\* The order of the stages of a version.
Stage(status) ==
    CASE status = "absent" -> 0 [] status = "draft" -> 1
      [] status = "validated" -> 2 [] status = "active" -> 3
      [] status = "superseded" -> 4

(***************************************************************************)
(* "A rollback never edits history": a recorded snapshot, its author and   *)
(* its source never change, a superseded version stays superseded, and no  *)
(* version goes back to an earlier stage.                                  *)
(***************************************************************************)
HistoryKept ==
    [][\A c \in ConfigurationID :
          /\ Stage(config'[c].status) >= Stage(config[c].status)
          /\ Recorded(c) =>
                /\ config'[c].snapshot = config[c].snapshot
                /\ config'[c].createdBy = config[c].createdBy
                /\ config'[c].source = config[c].source]_vars

(***************************************************************************)
(* The dashboard tells the operator that validating a draft checks its     *)
(* references, upstreams and listener readiness and that a validated       *)
(* snapshot is ready to be published to gateway replicas: a gateway can    *)
(* load the active version.  ValidateConfiguration does not establish it.  *)
(***************************************************************************)
ActiveSnapshotLoads ==
    \A c \in ActiveIDs : Loadable(config[c].snapshot)
=============================================================================
