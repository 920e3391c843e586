------------------------- MODULE AdminTransactions -------------------------
(***************************************************************************)
(* The Store's operations on ports and listeners as they really run:       *)
(* transactions of several statements, under PostgreSQL's READ COMMITTED   *)
(* isolation, sent at the same time by several dashboard sessions.  Module *)
(* Ports treats every operation as one atomic step; here an operation      *)
(* locks rows one after the other, reads what others have committed in the *)
(* meantime, waits, and may be rolled back at any point.                   *)
(*                                                                         *)
(* port, listener and permissions are the committed rows.  What a          *)
(* transaction has written is in its own record until it commits.          *)
(*                                                                         *)
(* Every operation ends with audit(), whose INSERT has a foreign key to    *)
(* environments and so needs a KEY SHARE lock on the environment's row.    *)
(* ActivateConfiguration holds that row FOR UPDATE from its first          *)
(* statement on: nobody else commits while it runs.  Statements after      *)
(* which a transaction only touches rows it has locked are merged with     *)
(* that last step.                                                         *)
(***************************************************************************)
EXTENDS Ports

CONSTANTS
    Session           \* requests the admin service handles at a time

\* The bound on row_version leaves room for the block of a new listener.
ASSUME AdminAssumption == MaxRowVersion > 1

VARIABLES
    tx,               \* the request of each session
    overtaken         \* history: the sessions whose allocation or removal of a
                      \* rule had checked it before the opposite was committed

adminVars == <<portsVars, tx, overtaken>>

-----------------------------------------------------------------------------
(* Transactions, row locks *)

PortRowOf(p) == <<"port", p>>
ListenerRowOf(l) == <<"listener", l>>
PermissionRowOf(r) == <<"permission", r>>
EnvironmentRow == <<"environment">>

\* The rows a transaction has written, as functions on their keys.
Write(key, row) == [k \in {key} |-> row]
Nothing == [k \in {} |-> Absent]

\* A table, or what was written before, after what is written now.
Over(written, rows) ==
    [k \in DOMAIN written \cup DOMAIN rows |->
        IF k \in DOMAIN written THEN written[k] ELSE rows[k]]

\* seen: what an earlier statement, or the dashboard, read of a listener.
\* todo: the rows a sweep has found and not reached yet.
NoRequest ==
    [pc |-> "idle", op |-> "none", on |-> NoListener, port |-> 0,
     seen |-> Absent, stamp |-> NoConfiguration, locks |-> {}, todo |-> {},
     ports |-> Nothing, listeners |-> Nothing, dropped |-> {}]

At(s, pc) == tx[s].pc = pc
Idle(s) == At(s, "idle")

\* FOR UPDATE, UPDATE and DELETE wait until no other transaction holds the row.
Free(row, s) == \A t \in Session \ {s} : row \notin tx[t].locks

\* The next statement of s ends; committed rows change only at Commit.
Proceed(s, record) ==
    /\ tx' = [tx EXCEPT ![s] = record]
    /\ overtaken' = IF record.pc = "idle" THEN overtaken \ {s} ELSE overtaken
    /\ UNCHANGED portsVars

\* Mutant of Rollback: nothing is deferred, the transaction stays open.
LeaveOpen(s) == Proceed(s, [NoRequest EXCEPT !.locks = tx[s].locks])

\* withTx's deferred Rollback, after a refusal or an error.
Rollback(s) == Proceed(s, NoRequest)

\* The rule that an allocation has looked up.
Requires(s, r) ==
    /\ tx[s].op = "allocate"
    /\ r = IF At(s, "pick") THEN tx[s].seen.permission
                            ELSE tx[s].listeners[tx[s].on].permission

\* One allocates a listener with a rule that the other removes.
Opposed(s, t) ==
    \E r \in Permission : \/ r \in tx[s].dropped /\ Requires(t, r)
                          \/ r \in tx[t].dropped /\ Requires(s, r)

\* audit and COMMIT.
Commit(s) ==
    /\ At(s, "audit")
    /\ Free(EnvironmentRow, s)
    /\ port' = Over(tx[s].ports, port)
    /\ listener' = Over(tx[s].listeners, listener)
    /\ permissions' = permissions \ tx[s].dropped
    /\ tx' = [tx EXCEPT ![s] = NoRequest]
    /\ overtaken' = (overtaken \ {s}) \cup {t \in Session : Opposed(s, t)}
    /\ UNCHANGED <<service, version, upstream, granted>>

-----------------------------------------------------------------------------
(* Edits of a listener.  The dashboard shows a row it loaded some time ago *)
(* and sends its version back with the edit.                               *)

OpenEdit(s, l) ==
    /\ Idle(s) /\ Exists(l)
    /\ Proceed(s, [NoRequest EXCEPT !.pc = "editing", !.on = l,
                                    !.seen = listener[l]])

\* The row that an UPDATE ... WHERE row_version = expectedVersion finds.
StillSeen(s) ==
    /\ Exists(tx[s].on)
    /\ listener[tx[s].on].rowVersion = tx[s].seen.rowVersion

\* Another edit came first: no row, ErrNotFound.
RefuseEdit(s) ==
    /\ At(s, "editing") /\ ~StillSeen(s)
    /\ Rollback(s)

\* Bound: edits stop early enough for one more block of the port.
CanEdit(l) == listener[l].rowVersion + 1 < MaxRowVersion

\* UpdateListener: first the listener's row, then its port's.
UpdateListenerRow(s, status) ==
    LET l == tx[s].on IN
    /\ At(s, "editing") /\ StillSeen(s)
    /\ CanEdit(l)
    /\ Free(ListenerRowOf(l), s)
    /\ Proceed(s, [tx[s] EXCEPT
          !.pc = "follow", !.op = "update", !.seen = Absent,
          !.locks = {ListenerRowOf(l)},
          !.listeners = Write(l, WithStatus(listener[l], status))])

Named(l) == {p \in Port : port[p].listener = l}

UpdatePortRow(s) ==
    LET l == tx[s].on IN
    /\ At(s, "follow")
    /\ \A p \in Named(l) : Free(PortRowOf(p), s)
    /\ Proceed(s, [tx[s] EXCEPT
          !.pc = "audit",
          !.locks = @ \cup {PortRowOf(p) : p \in Named(l)},
          !.ports = [p \in Named(l) |-> [port[p] EXCEPT !.status =
                        PortStatusFor(tx[s].listeners[l].status)]]])

UpdatePolicies(s, q) ==
    LET l == tx[s].on IN
    /\ At(s, "editing") /\ StillSeen(s)
    /\ CanEdit(l)
    /\ Free(ListenerRowOf(l), s)
    /\ Proceed(s, [tx[s] EXCEPT
          !.pc = "audit", !.op = "policies", !.seen = Absent,
          !.locks = {ListenerRowOf(l)},
          !.listeners = Write(l, WithPolicy(listener[l], q))])

-----------------------------------------------------------------------------
(* UpdatePortStatus: first the port's row, then its listener's.            *)

PortWrite(p, status, l) == Write(p, [status |-> status, listener |-> l])

\* "blocked": SELECT listener_id ... FOR UPDATE OF p.
LockPortToBlock(s, p) ==
    LET l == port[p].listener IN
    /\ Idle(s)
    /\ Free(PortRowOf(p), s)
    /\ Proceed(s, [NoRequest EXCEPT
          !.pc = IF l = NoListener THEN "audit" ELSE "disable",
          !.op = "block", !.on = l, !.port = p, !.locks = {PortRowOf(p)},
          !.ports = PortWrite(p, "blocked", l)])

\* Mutant of DisableListener: the UPDATE forgets row_version.
DisableUnversioned(s) ==
    LET l == tx[s].on IN
    /\ At(s, "disable")
    /\ Free(ListenerRowOf(l), s)
    /\ Proceed(s, [tx[s] EXCEPT
          !.pc = "audit", !.locks = @ \cup {ListenerRowOf(l)},
          !.listeners = Write(l, [listener[l] EXCEPT !.status = "disabled"])])

\* UPDATE listeners ... WHERE status<>'disabled' finds the row or does not.
DisableListener(s) ==
    LET l == tx[s].on IN
    /\ At(s, "disable")
    /\ IF listener[l].status = "disabled"
       THEN Proceed(s, [tx[s] EXCEPT !.pc = "audit"])
       ELSE /\ Free(ListenerRowOf(l), s)
            /\ Proceed(s, [tx[s] EXCEPT
                  !.pc = "audit",
                  !.locks = @ \cup {ListenerRowOf(l)},
                  !.listeners = Write(l, WithStatus(listener[l], "disabled"))])

(***************************************************************************)
(* "available": the SELECT joins the port with its listener and locks the  *)
(* port only.  Its snapshot comes first; if the port's row has changed by  *)
(* the time it is locked, the condition is computed again with the new     *)
(* port and the listener's row as the snapshot had it.                     *)
(***************************************************************************)
ReadPortToRelease(s, p) ==
    LET l == port[p].listener IN
    /\ Idle(s)
    /\ Proceed(s, [NoRequest EXCEPT
          !.pc = "release", !.op = "release", !.port = p, !.on = l,
          !.seen = IF l = NoListener THEN Absent
                   ELSE [status |-> listener[l].status]])

Releasable(s) ==
    LET l == port[tx[s].port].listener IN
    IF l = NoListener
    THEN port[tx[s].port].status \notin Leased
    ELSE l = tx[s].on /\ tx[s].seen.status = "disabled"

LockPortToRelease(s) ==
    LET p == tx[s].port
        l == port[p].listener
    IN
    /\ At(s, "release")
    /\ Free(PortRowOf(p), s)
    /\ Proceed(s, IF ~Releasable(s) THEN NoRequest ELSE
          [tx[s] EXCEPT !.pc = IF l = NoListener THEN "audit" ELSE "delete",
                        !.on = l, !.seen = Absent, !.locks = {PortRowOf(p)},
                        !.ports = PortWrite(p, "available", NoListener)])

\* DELETE FROM listeners WHERE id: the status is not looked at again.
DeleteListener(s) ==
    LET l == tx[s].on IN
    /\ At(s, "delete")
    /\ Free(ListenerRowOf(l), s)
    /\ Proceed(s, [tx[s] EXCEPT !.pc = "audit",
                                !.locks = @ \cup {ListenerRowOf(l)},
                                !.listeners = Write(l, Deleted)])

\* "cooldown": one UPDATE, which rechecks the status it finds.
CoolDown(s, p) ==
    /\ Idle(s)
    /\ port[p].status \notin Leased
    /\ Free(PortRowOf(p), s)
    /\ Proceed(s, [NoRequest EXCEPT
          !.pc = "audit", !.op = "cooldown", !.locks = {PortRowOf(p)},
          !.ports = PortWrite(p, "cooldown", port[p].listener)])

-----------------------------------------------------------------------------
(* AllocateListener                                                        *)

\* newID, then: the version is available and the permission exists; neither
\* row is locked.
CheckCatalog(s, l, v, r) ==
    /\ Idle(s)
    /\ listener[l] = Absent /\ Free(ListenerRowOf(l), s)
    /\ Available(v)
    /\ r \in permissions
    /\ Proceed(s, [NoRequest EXCEPT
          !.pc = "pick", !.op = "allocate", !.on = l,
          !.seen = [version |-> v, permission |-> r],
          !.locks = {ListenerRowOf(l)}])

Reserved(s, p, q) ==
    [status |-> "reserved", port |-> p, version |-> tx[s].seen.version,
     permission |-> tx[s].seen.permission, policy |-> q, rowVersion |-> 1,
     configuration |-> NoConfiguration]

\* Mutant of PickPort: the SELECT does not lock the port.
PickPortUnlocked(s, p, q) ==
    /\ At(s, "pick")
    /\ port[p].status = "available"
    /\ Proceed(s, [tx[s] EXCEPT
          !.pc = "audit",
          !.listeners = Write(tx[s].on, Reserved(s, p, q)), !.seen = Absent,
          !.ports = PortWrite(p, "reserved", tx[s].on)])

\* The preferred port, or any that is available and not locked (SKIP LOCKED);
\* then INSERT of the listener and UPDATE of the port.
PickPort(s, p, q) ==
    /\ At(s, "pick")
    /\ port[p].status = "available"
    /\ Free(PortRowOf(p), s)
    /\ Proceed(s, [tx[s] EXCEPT
          !.pc = "audit", !.locks = @ \cup {PortRowOf(p)},
          !.listeners = Write(tx[s].on, Reserved(s, p, q)), !.seen = Absent,
          !.ports = PortWrite(p, "reserved", tx[s].on)])

\* No such port: the preferred one is taken, or all are taken or locked.
NoPortLeft(s) ==
    /\ At(s, "pick")
    /\ \E p \in Port :
          port[p].status # "available" \/ ~Free(PortRowOf(p), s)
    /\ Rollback(s)

-----------------------------------------------------------------------------
(* DeletePermission, and the changes of the catalogue                      *)

\* Mutant of LockUnusedPermission: only the consumers are asked.
LockUngrantedPermission(s, r) ==
    /\ Idle(s)
    /\ r \in permissions
    /\ Free(PermissionRowOf(r), s)
    /\ r \notin granted
    /\ Proceed(s, [NoRequest EXCEPT !.pc = "audit", !.op = "drop",
                      !.locks = {PermissionRowOf(r)}, !.dropped = {r}])

\* SELECT ... FOR UPDATE, and nobody uses the permission.
LockUnusedPermission(s, r) ==
    /\ Idle(s)
    /\ r \in permissions
    /\ Free(PermissionRowOf(r), s)
    /\ r \notin granted
    /\ \A l \in Listener : Exists(l) => listener[l].permission # r
    /\ Proceed(s, [NoRequest EXCEPT !.pc = "audit", !.op = "drop",
                      !.locks = {PermissionRowOf(r)}, !.dropped = {r}])

\* One row, or rows whose foreign keys wait for a permission being deleted.
ChangeCatalog(s) ==
    /\ Idle(s)
    /\ Free(EnvironmentRow, s)
    /\ CatalogNext
    /\ \A r \in granted' \ granted : Free(PermissionRowOf(r), s)
    /\ UNCHANGED <<portVars, tx, overtaken>>

-----------------------------------------------------------------------------
(* ActivateConfiguration: the environment, then the two sweeps             *)

\* Mutant of LockEnvironment: SELECT without FOR UPDATE.
ReadEnvironment(s, c) ==
    /\ Idle(s)
    /\ Proceed(s, [NoRequest EXCEPT
          !.pc = "sweep_listeners", !.op = "activate", !.stamp = c,
          !.todo = {ListenerRowOf(l) : l \in {l \in Listener : Exists(l)}}])

\* SELECT ... FOR UPDATE, and the snapshot of UPDATE listeners, which is the
\* same because nobody commits in between.
LockEnvironment(s, c) ==
    /\ Idle(s)
    /\ Free(EnvironmentRow, s)
    /\ Proceed(s, [NoRequest EXCEPT
          !.pc = "sweep_listeners", !.op = "activate", !.stamp = c,
          !.locks = {EnvironmentRow},
          !.todo = {ListenerRowOf(l) : l \in {l \in Listener : Exists(l)}}])

SweepListener(s, l) ==
    /\ At(s, "sweep_listeners")
    /\ ListenerRowOf(l) \in tx[s].todo
    /\ Free(ListenerRowOf(l), s)
    /\ Proceed(s, [tx[s] EXCEPT
          !.todo = @ \ {ListenerRowOf(l)},
          !.locks = @ \cup {ListenerRowOf(l)},
          !.listeners = Over(Write(l, Activated(listener[l], tx[s].stamp)), @)])

\* Mutant of FindReserved: every port of the environment is swept.
FindPorts(s) ==
    /\ At(s, "sweep_listeners")
    /\ tx[s].todo = {}
    /\ Proceed(s, [tx[s] EXCEPT !.pc = "sweep_ports",
          !.todo = {PortRowOf(p) : p \in Port}])

\* The snapshot of UPDATE port_inventory ... WHERE status='reserved'.
FindReserved(s) ==
    /\ At(s, "sweep_listeners")
    /\ tx[s].todo = {}
    /\ Proceed(s, [tx[s] EXCEPT !.pc = "sweep_ports",
          !.todo = {PortRowOf(p) :
                      p \in {p \in Port : port[p].status = "reserved"}}])

\* The row is locked and, if it still is reserved, updated.
SweepPort(s, p) ==
    /\ At(s, "sweep_ports")
    /\ PortRowOf(p) \in tx[s].todo
    /\ Free(PortRowOf(p), s)
    /\ Proceed(s, [tx[s] EXCEPT
          !.todo = @ \ {PortRowOf(p)},
          !.locks = @ \cup {PortRowOf(p)},
          !.ports = IF port[p].status = "reserved"
                    THEN Over(PortWrite(p, "active", port[p].listener), @)
                    ELSE @])

SweepsDone(s) ==
    /\ At(s, "sweep_ports")
    /\ tx[s].todo = {}
    /\ Proceed(s, [tx[s] EXCEPT !.pc = "audit"])

-----------------------------------------------------------------------------
(* Waiting for each other                                                  *)

\* The rows the next statement of s has to lock.
Needs(s) ==
    CASE At(s, "follow")  -> {PortRowOf(p) : p \in Named(tx[s].on)}
      [] At(s, "disable") -> IF listener[tx[s].on].status = "disabled"
                             THEN {} ELSE {ListenerRowOf(tx[s].on)}
      [] At(s, "release") -> {PortRowOf(tx[s].port)}
      [] At(s, "delete")  -> {ListenerRowOf(tx[s].on)}
      [] At(s, "audit")   -> {EnvironmentRow}
      [] OTHER            -> tx[s].todo

WaitsFor(s, t) == s # t /\ Needs(s) \cap tx[t].locks # {}

\* Everybody in group waits for, and is awaited by, a member.
Deadlocked(group) ==
    \A s \in group : /\ \E t \in group : WaitsFor(s, t)
                     /\ \E t \in group : WaitsFor(t, s)

\* PostgreSQL ends one transaction of a cycle with an error.
EndDeadlock(s) ==
    /\ \E group \in SUBSET Session : s \in group /\ Deadlocked(group)
    /\ Rollback(s)

\* The client leaves, the connection breaks, a statement fails.
Fail(s) == ~Idle(s) /\ Rollback(s)

-----------------------------------------------------------------------------
AdminInit ==
    /\ PortsInit
    /\ tx = [s \in Session |-> NoRequest]
    /\ overtaken = {}

\* The first statement of a request.
Begin(s) ==
    \/ \E l \in Listener : OpenEdit(s, l)
    \/ \E status \in ListenerStatus : UpdateListenerRow(s, status)
    \/ \E q \in Policy : UpdatePolicies(s, q)
    \/ RefuseEdit(s)
    \/ \E p \in Port : LockPortToBlock(s, p)
    \/ \E p \in Port : ReadPortToRelease(s, p)
    \/ \E p \in Port : CoolDown(s, p)
    \/ \E l \in Listener, v \in ServiceVersion, r \in Permission :
          CheckCatalog(s, l, v, r)
    \/ \E r \in Permission : LockUnusedPermission(s, r)
    \/ \E c \in ConfigurationID : LockEnvironment(s, c)
    \/ ChangeCatalog(s)

\* Its further statements.
Statement(s) ==
    \/ UpdatePortRow(s)
    \/ DisableListener(s)
    \/ LockPortToRelease(s)
    \/ DeleteListener(s)
    \/ \E p \in Port, q \in Policy : PickPort(s, p, q)
    \/ NoPortLeft(s)
    \/ \E l \in Listener : SweepListener(s, l)
    \/ FindReserved(s)
    \/ \E p \in Port : SweepPort(s, p)
    \/ SweepsDone(s)
    \/ Commit(s)

AdminNext ==
    \E s \in Session : Begin(s) \/ Statement(s) \/ EndDeadlock(s) \/ Fail(s)

(***************************************************************************)
(* A statement that can run, runs; one that waits for a row gets it before *)
(* others that ask for it later (PostgreSQL's lock queues), hence strong   *)
(* fairness; and a deadlock is detected after deadlock_timeout.            *)
(***************************************************************************)
AdminFairness ==
    \A s \in Session :
        SF_adminVars(Statement(s)) /\ WF_adminVars(EndDeadlock(s))

AdminSpec == AdminInit /\ [][AdminNext]_adminVars /\ AdminFairness

-----------------------------------------------------------------------------
(* Properties *)

Rows ==
    {PortRowOf(p) : p \in Port} \cup {ListenerRowOf(l) : l \in Listener}
      \cup {PermissionRowOf(r) : r \in Permission} \cup {EnvironmentRow}

\* The committed rows have their types, and no row is locked twice.
AdminTypeOK ==
    /\ PortsTypeOK
    /\ overtaken \subseteq {s \in Session : ~Idle(s)}
    /\ \A s \in Session :
          /\ tx[s].locks \subseteq Rows /\ tx[s].todo \subseteq Rows
          /\ DOMAIN tx[s].ports \subseteq Port
          /\ DOMAIN tx[s].listeners \subseteq Listener
          /\ \A p \in DOMAIN tx[s].ports : tx[s].ports[p] \in PortRow
          /\ \A l \in DOMAIN tx[s].listeners :
                tx[s].listeners[l] \in ListenerRow \cup {Deleted}
          /\ \A t \in Session \ {s} : tx[s].locks \cap tx[t].locks = {}

\* The stored row is the one seen, apart from what an activation writes.
UneditedSince(seen, row) ==
    /\ row.port = seen.port
    /\ row.version = seen.version
    /\ row.permission = seen.permission
    /\ row.policy = seen.policy
    /\ \/ row.status = seen.status
       \/ seen.status = "reserved" /\ row.status = "active"

(***************************************************************************)
(* The row version a session holds is good evidence: while it equals the   *)
(* stored one, the stored row still is the row that the session shows,     *)
(* apart from what an activation wrote (its stamp, and reserved turned     *)
(* into active), which does not count as an edit.  Hence no accepted edit  *)
(* silently overwrites another administrator's status or policy change,    *)
(* nor the disabling of the listener by a blocked port, even when the two  *)
(* requests run at the same time.                                          *)
(***************************************************************************)
NoLostEdit ==
    \A s \in Session :
        (At(s, "editing") /\ Exists(tx[s].on)) =>
            /\ tx[s].seen.rowVersion <= listener[tx[s].on].rowVersion
            /\ StillSeen(s) => UneditedSince(tx[s].seen, listener[tx[s].on])

(***************************************************************************)
(* An allocation never becomes the victim of a deadlock: it holds a port   *)
(* that was available, which no other operation reaches after locking      *)
(* something the allocation waits for.  (An edit, a block, a release and   *)
(* an activation can: they lock ports and listeners in different orders.)  *)
(***************************************************************************)
AllocationsNeverDeadlock ==
    \A group \in SUBSET Session :
        Deadlocked(group) => \A s \in group : tx[s].op # "allocate"

-----------------------------------------------------------------------------
(* The atomic operations that these transactions implement *)

Atomic == INSTANCE Ports WITH port <- port, listener <- listener,
                              permissions <- permissions, granted <- granted

\* A release that read its listener disabled deletes it, although an edit
\* that was accepted in between has enabled it again.
ReleaseOverEdit(p) ==
    LET l == port[p].listener IN
    /\ l # NoListener /\ listener[l].status # "disabled"
    /\ listener' = [listener EXCEPT ![l] = Deleted]
    /\ port' = [port EXCEPT ![p] =
                  [status |-> "available", listener |-> NoListener]]
    /\ UNCHANGED catalogVars

\* An allocation checked the catalogue before the version was disabled or
\* the permission removed.
AllocateOnOldCatalog(l, p) ==
    /\ listener[l] = Absent
    /\ port[p].status = "available"
    /\ listener'[l].status = "reserved" /\ listener'[l].port = p
    /\ listener' = [listener EXCEPT ![l] = listener'[l]]
    /\ ~Available(listener'[l].version) \/ listener'[l].permission \notin permissions
    /\ port' = [port EXCEPT ![p] = [status |-> "reserved", listener |-> l]]
    /\ UNCHANGED catalogVars

\* A permission is removed that a listener requires by now.
RemoveUsedPermission(r) ==
    /\ \E l \in Listener : Exists(l) /\ listener[l].permission = r
    /\ permissions' = permissions \ {r}
    /\ UNCHANGED <<service, version, upstream, granted, portVars>>

(***************************************************************************)
(* Every commit is one of the atomic operations of module Ports, whatever  *)
(* ran at the same time, apart from the three races named above: what is   *)
(* proved of Ports is endangered by nothing else.                          *)
(***************************************************************************)
CommitsAreOperations ==
    [][\/ Atomic!PortsNext
       \/ \E p \in Port : ReleaseOverEdit(p)
       \/ \E l \in Listener, p \in Port : AllocateOnOldCatalog(l, p)
       \/ \E r \in Permission : RemoveUsedPermission(r)]_portsVars

LacksRule(l) == Exists(l) /\ listener[l].permission \notin permissions

(***************************************************************************)
(* Two of those races leave a listener whose rule does not exist.  It      *)
(* takes an allocation and a removal of the same rule that overlap: the    *)
(* request whose commit leaves the listener so made its check before the   *)
(* other one, which was open at the same time, was committed.  Requests    *)
(* that follow one another never do, whatever else runs: the two checks,   *)
(* none of which locks the other's row, are enough for that.               *)
(***************************************************************************)
RulesLostByOverlapOnly ==
    [][\A l \in Listener : ~LacksRule(l) /\ LacksRule(l)' =>
          \E s \in overtaken : Commit(s)]_adminVars

(***************************************************************************)
(* Every request that has begun ends: committed, refused, or ended as the  *)
(* victim of a deadlock; nobody waits for ever.                            *)
(***************************************************************************)
RequestsEnd ==
    \A s \in Session : ~At(s, "editing") /\ ~Idle(s) ~> Idle(s)
=============================================================================
