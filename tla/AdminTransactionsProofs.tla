----------------------- MODULE AdminTransactionsProofs -----------------------
(***************************************************************************)
(* Proofs about AdminTransactions for any number of sessions, ports,       *)
(* listeners, versions, permissions, policies and configurations.          *)
(*                                                                         *)
(* A transaction between two statements is described by what it has        *)
(* written, and that by the committed rows it has read and locked.  The    *)
(* argument is the one of two-phase locking: a row that a transaction has  *)
(* locked is committed by nobody else, so that what was computed from it   *)
(* still is right at COMMIT, and the commit is one atomic operation of     *)
(* module Ports.  What was read without a lock needs an argument of its    *)
(* own, and where there is none the commit is one of the named races.      *)
(***************************************************************************)
EXTENDS AdminTransactions, PortsProofs

-----------------------------------------------------------------------------
(* The record of a session *)

Written(Key, Row) == UNION {[written -> Row] : written \in SUBSET Key}

Seen ==
    {Absent} \cup ListenerRow \cup [status : ListenerStatus]
      \cup [version : ServiceVersion, permission : Permission]

Stages ==
    {"idle", "editing", "follow", "disable", "release", "delete", "pick",
     "sweep_listeners", "sweep_ports", "audit"}

Operations ==
    {"none", "update", "policies", "block", "release", "cooldown", "allocate",
     "drop", "activate"}

Request ==
    [pc : Stages, op : Operations, on : Listener \cup {NoListener},
     port : Port \cup {0}, seen : Seen,
     stamp : ConfigurationID \cup {NoConfiguration},
     locks : SUBSET Rows, todo : SUBSET Rows,
     ports : Written(Port, PortRow),
     listeners : Written(Listener, ListenerRow \cup {Deleted}),
     dropped : SUBSET Permission]

-----------------------------------------------------------------------------
(* What a request r has read, locked and written, stage by stage *)

Unwritten(r) == r.ports = Nothing /\ r.listeners = Nothing

\* What NoLostEdit says of one request.
KnowsRow(r) ==
    Exists(r.on) =>
        /\ r.seen.rowVersion <= listener[r.on].rowVersion
        /\ listener[r.on].rowVersion = r.seen.rowVersion =>
              UneditedSince(r.seen, listener[r.on])

\* A listener may be deleted while it is edited, but never created anew.
Editing(r) ==
    /\ r.pc = "editing" /\ r.op = "none"
    /\ r.on \in Listener /\ r.seen \in ListenerRow
    /\ r.locks = {} /\ r.todo = {} /\ r.dropped = {} /\ Unwritten(r)
    /\ listener[r.on] # Absent
    /\ KnowsRow(r)

RowEdited(r, l, row) ==
    /\ Exists(l) /\ CanEdit(l)
    /\ ListenerRowOf(l) \in r.locks
    /\ r.listeners = Write(l, row)

Following(r) ==
    /\ r.pc = "follow" /\ r.op = "update"
    /\ r.on \in Listener
    /\ \E status \in ListenerStatus :
          RowEdited(r, r.on, WithStatus(listener[r.on], status))
    /\ r.locks = {ListenerRowOf(r.on)} /\ r.todo = {} /\ r.dropped = {}
    /\ r.ports = Nothing

PortsFollowing(l, status) ==
    [p \in Named(l) |-> [port[p] EXCEPT !.status = PortStatusFor(status)]]

Updated(r) ==
    /\ r.pc = "audit" /\ r.op = "update"
    /\ \E l \in Listener, status \in ListenerStatus :
          /\ RowEdited(r, l, WithStatus(listener[l], status))
          /\ \A p \in Named(l) : PortRowOf(p) \in r.locks
          /\ r.ports = PortsFollowing(l, status)
    /\ r.todo = {} /\ r.dropped = {}

PoliciesWritten(r) ==
    /\ r.pc = "audit" /\ r.op = "policies"
    /\ \E l \in Listener, q \in Policy :
          RowEdited(r, l, WithPolicy(listener[l], q))
    /\ r.todo = {} /\ r.dropped = {}
    /\ r.ports = Nothing

\* The port's row is locked and written.
PortHeld(r, p, status, l) ==
    /\ PortRowOf(p) \in r.locks
    /\ r.ports = PortWrite(p, status, l)

Disabling(r) ==
    /\ r.pc = "disable" /\ r.op = "block"
    /\ r.port \in Port
    /\ r.on = port[r.port].listener /\ r.on # NoListener
    /\ PortHeld(r, r.port, "blocked", r.on)
    /\ r.todo = {} /\ r.dropped = {}
    /\ r.listeners = Nothing

(***************************************************************************)
(* The listener's row is locked only if it had to be disabled.  If it was  *)
(* disabled already, it stays disabled without a lock: enabling it again   *)
(* needs the port's row, which the request holds.                          *)
(***************************************************************************)
Blocked(r) ==
    /\ r.pc = "audit" /\ r.op = "block"
    /\ \E p \in Port :
          LET l == port[p].listener IN
          /\ PortHeld(r, p, "blocked", l)
          /\ \/ ~MustDisable(l) /\ r.listeners = Nothing
             \/ /\ MustDisable(l)
                /\ ListenerRowOf(l) \in r.locks
                /\ r.listeners = Write(l, WithStatus(listener[l], "disabled"))
    /\ r.todo = {} /\ r.dropped = {}

\* What it has read is not locked, and says nothing of the committed rows.
Releasing(r) ==
    /\ r.pc = "release" /\ r.op = "release"
    /\ r.port \in Port
    /\ r.locks = {} /\ r.todo = {} /\ r.dropped = {} /\ Unwritten(r)

Deleting(r) ==
    /\ r.pc = "delete" /\ r.op = "release"
    /\ r.port \in Port
    /\ r.on = port[r.port].listener /\ r.on # NoListener
    /\ PortHeld(r, r.port, "available", NoListener)
    /\ r.todo = {} /\ r.dropped = {}
    /\ r.listeners = Nothing

Released(r) ==
    /\ r.pc = "audit" /\ r.op = "release"
    /\ \E p \in Port :
          LET l == port[p].listener IN
          /\ PortHeld(r, p, "available", NoListener)
          /\ \/ /\ l = NoListener /\ port[p].status \notin Leased
                /\ r.listeners = Nothing
             \/ /\ l # NoListener
                /\ ListenerRowOf(l) \in r.locks
                /\ r.listeners = Write(l, Deleted)
    /\ r.todo = {} /\ r.dropped = {}

CooledDown(r) ==
    /\ r.pc = "audit" /\ r.op = "cooldown"
    /\ \E p \in Port :
          /\ port[p].status \notin Leased
          /\ PortHeld(r, p, "cooldown", port[p].listener)
    /\ r.todo = {} /\ r.dropped = {}
    /\ r.listeners = Nothing

\* newID has been drawn: nobody else knows the identifier.
Picking(r) ==
    /\ r.pc = "pick" /\ r.op = "allocate"
    /\ r.on \in Listener /\ listener[r.on] = Absent
    /\ r.seen \in [version : ServiceVersion, permission : Permission]
    /\ r.locks = {ListenerRowOf(r.on)} /\ r.todo = {} /\ r.dropped = {}
    /\ Unwritten(r)

NewRow(p, v, permission, q) ==
    [status |-> "reserved", port |-> p, version |-> v,
     permission |-> permission, policy |-> q, rowVersion |-> 1,
     configuration |-> NoConfiguration]

Allocated(r) ==
    /\ r.pc = "audit" /\ r.op = "allocate"
    /\ r.on \in Listener /\ listener[r.on] = Absent
    /\ \E p \in Port, v \in ServiceVersion, permission \in Permission,
          q \in Policy :
          /\ port[p].status = "available"
          /\ r.locks = {ListenerRowOf(r.on), PortRowOf(p)}
          /\ r.listeners = Write(r.on, NewRow(p, v, permission, q))
          /\ r.ports = PortWrite(p, "reserved", r.on)
    /\ r.todo = {} /\ r.dropped = {}

PermissionDropped(r) ==
    /\ r.pc = "audit" /\ r.op = "drop"
    /\ \E permission \in permissions \ granted :
          /\ PermissionRowOf(permission) \in r.locks
          /\ r.dropped = {permission}
    /\ r.todo = {} /\ Unwritten(r)

\* Nobody commits while the environment is locked: an activation finds the
\* listeners and the reserved ports as its sweeps have found them.
ListenersSwept(r) ==
    LET swept == {l \in Listener : Exists(l) /\ ListenerRowOf(l) \notin r.todo} IN
    /\ \A l \in swept : ListenerRowOf(l) \in r.locks
    /\ r.listeners = [l \in swept |-> Activated(listener[l], r.stamp)]

PortsSwept(r) ==
    LET swept == {p \in Port : /\ port[p].status = "reserved"
                               /\ PortRowOf(p) \notin r.todo}
    IN
    /\ \A p \in swept : PortRowOf(p) \in r.locks
    /\ r.ports = [p \in swept |->
                    [status |-> "active", listener |-> port[p].listener]]

Activating(r) ==
    /\ r.op = "activate" /\ r.stamp \in ConfigurationID
    /\ EnvironmentRow \in r.locks
    /\ ListenersSwept(r)
    /\ r.dropped = {}

SweepingListeners(r) ==
    /\ r.pc = "sweep_listeners"
    /\ Activating(r)
    /\ \A row \in r.todo :
          \E l \in Listener : Exists(l) /\ row = ListenerRowOf(l)
    /\ r.ports = Nothing

SweepingPorts(r) ==
    /\ r.pc = "sweep_ports"
    /\ Activating(r) /\ PortsSwept(r)
    /\ \A row \in r.todo :
          \E p \in Port : port[p].status = "reserved" /\ row = PortRowOf(p)

SweptAll(r) ==
    /\ r.pc = "audit"
    /\ Activating(r) /\ PortsSwept(r)
    /\ r.todo = {}

InStage(r) ==
    \/ r = NoRequest
    \/ Editing(r) \/ Following(r) \/ Disabling(r) \/ Releasing(r)
    \/ Deleting(r) \/ Picking(r)
    \/ SweepingListeners(r) \/ SweepingPorts(r)
    \/ Updated(r) \/ PoliciesWritten(r) \/ Blocked(r) \/ Released(r)
    \/ CooledDown(r) \/ Allocated(r) \/ PermissionDropped(r) \/ SweptAll(r)

\* A block needs no new bound: the row it disables can be versioned.
RoomToDisable ==
    \A l \in Listener : MustDisable(l) => (Exists(l) => CanBump(l))

LocksDisjoint ==
    \A s, t \in Session : s # t => tx[s].locks \cap tx[t].locks = {}

(***************************************************************************)
(* The inductive invariant: the committed tables are consistent, and every *)
(* request has written what its stage says.  RoomToDisable is about the    *)
(* bound on row_version only: no block runs into it.                       *)
(***************************************************************************)
AdminInv ==
    /\ Consistent
    /\ RoomToDisable
    /\ tx \in [Session -> Request]
    /\ LocksDisjoint
    /\ \A s \in Session : InStage(tx[s])

-----------------------------------------------------------------------------
(* Names of rows *)

LEMMA RowNames ==
    /\ \A p, q \in Port : PortRowOf(p) = PortRowOf(q) => p = q
    /\ \A l, m \in Listener : ListenerRowOf(l) = ListenerRowOf(m) => l = m
    /\ \A r, o \in Permission : PermissionRowOf(r) = PermissionRowOf(o) => r = o
    /\ \A p \in Port, l \in Listener : PortRowOf(p) # ListenerRowOf(l)
    /\ \A p \in Port, r \in Permission : PortRowOf(p) # PermissionRowOf(r)
    /\ \A l \in Listener, r \in Permission :
          ListenerRowOf(l) # PermissionRowOf(r)
    /\ \A p \in Port : PortRowOf(p) # EnvironmentRow
    /\ \A l \in Listener : ListenerRowOf(l) # EnvironmentRow
    /\ \A r \in Permission : PermissionRowOf(r) # EnvironmentRow
BY DEF PortRowOf, ListenerRowOf, PermissionRowOf, EnvironmentRow

LEMMA RowsNamed ==
    /\ \A p \in Port : PortRowOf(p) \in Rows
    /\ \A l \in Listener : ListenerRowOf(l) \in Rows
    /\ \A r \in Permission : PermissionRowOf(r) \in Rows
    /\ EnvironmentRow \in Rows
BY DEF Rows

-----------------------------------------------------------------------------
(* What is written *)

LEMMA WriteIs ==
    ASSUME NEW key, NEW row
    PROVE  /\ DOMAIN Write(key, row) = {key}
           /\ Write(key, row)[key] = row
           /\ Write(key, row) = [k \in {key} |-> row]
BY DEF Write

LEMMA OverIs ==
    ASSUME NEW f, NEW g
    PROVE  /\ DOMAIN Over(f, g) = DOMAIN f \cup DOMAIN g
           /\ \A k \in DOMAIN f : Over(f, g)[k] = f[k]
           /\ \A k \in DOMAIN g : k \notin DOMAIN f => Over(f, g)[k] = g[k]
BY DEF Over

LEMMA NothingIs == DOMAIN Nothing = {}
BY DEF Nothing

LEMMA WrittenIs ==
    ASSUME NEW Key, NEW Row, NEW f \in Written(Key, Row)
    PROVE  /\ DOMAIN f \subseteq Key
           /\ f \in [DOMAIN f -> Row]
           /\ \A k \in DOMAIN f : f[k] \in Row
<1>1. PICK written \in SUBSET Key : f \in [written -> Row]
  BY DEF Written
<1>2. DOMAIN f = written
  BY <1>1
<1>3. QED
  BY <1>1, <1>2

LEMMA IsWritten ==
    ASSUME NEW Key, NEW Row, NEW written \in SUBSET Key,
           NEW f \in [written -> Row]
    PROVE  f \in Written(Key, Row)
BY DEF Written

LEMMA NothingWritten ==
    ASSUME NEW Key, NEW Row
    PROVE  Nothing \in Written(Key, Row)
<1>1. Nothing \in [{} -> Row]
  BY DEF Nothing
<1>2. QED
  BY <1>1, IsWritten

LEMMA OneWritten ==
    ASSUME NEW Key, NEW Row, NEW key \in Key, NEW row \in Row
    PROVE  Write(key, row) \in Written(Key, Row)
<1>1. Write(key, row) \in [{key} -> Row]
  BY DEF Write
<1>2. QED
  BY <1>1, IsWritten

\* Committing nothing, or one row.
LEMMA CommitNothing ==
    ASSUME NEW Key, NEW Row, NEW table \in [Key -> Row]
    PROVE  Over(Nothing, table) = table
<1>1. DOMAIN Nothing = {} /\ DOMAIN table = Key
  BY NothingIs
<1>2. Over(Nothing, table) = [k \in Key |-> table[k]]
  BY <1>1 DEF Over
<1>3. QED
  BY <1>2

LEMMA CommitOne ==
    ASSUME NEW Key, NEW Row, NEW table \in [Key -> Row], NEW key \in Key,
           NEW row
    PROVE  Over(Write(key, row), table) = [table EXCEPT ![key] = row]
<1>1. /\ DOMAIN Write(key, row) = {key} /\ DOMAIN table = Key
      /\ \A k \in {key} : Write(key, row)[k] = row
  BY DEF Write
<1>2. Over(Write(key, row), table) =
        [k \in Key |-> IF k = key THEN row ELSE table[k]]
  BY <1>1 DEF Over
<1>3. [table EXCEPT ![key] = row] =
        [k \in Key |-> IF k = key THEN row ELSE table[k]]
  OBVIOUS
<1>4. QED
  BY <1>2, <1>3

-----------------------------------------------------------------------------
(* A statement before the last: the committed rows stay as they are *)

LEMMA StageKept ==
    ASSUME NEW r, UNCHANGED portVars, InStage(r),
           PermissionDropped(r) => PermissionDropped(r)'
    PROVE  InStage(r)'
<1>. USE DEF portVars, Exists, CanEdit, Named,
             MustDisable, RowEdited, PortHeld
<1>1. Editing(r) => Editing(r)'
  BY DEF Editing, KnowsRow
<1>2. Following(r) => Following(r)'
  BY DEF Following
<1>3. Disabling(r) => Disabling(r)'
  BY DEF Disabling
<1>4. Releasing(r) => Releasing(r)'
  BY DEF Releasing
<1>5. Deleting(r) => Deleting(r)'
  BY DEF Deleting
<1>6. Picking(r) => Picking(r)'
  BY DEF Picking
<1>7. Activating(r) => Activating(r)'
  BY DEF Activating, ListenersSwept
<1>8. PortsSwept(r) => PortsSwept(r)'
  BY DEF PortsSwept
<1>9. SweepingListeners(r) => SweepingListeners(r)'
  BY <1>7 DEF SweepingListeners
<1>10. SweepingPorts(r) => SweepingPorts(r)'
  BY <1>7, <1>8 DEF SweepingPorts
<1>11. SweptAll(r) => SweptAll(r)'
  BY <1>7, <1>8 DEF SweptAll
<1>12. Updated(r) => Updated(r)'
  <2>1. \A l, status : PortsFollowing(l, status)' = PortsFollowing(l, status)
    BY DEF PortsFollowing
  <2>2. QED
    BY <2>1 DEF Updated
<1>13. PoliciesWritten(r) => PoliciesWritten(r)'
  BY DEF PoliciesWritten
<1>14. Blocked(r) => Blocked(r)'
  BY DEF Blocked
<1>15. Released(r) => Released(r)'
  BY DEF Released
<1>16. CooledDown(r) => CooledDown(r)'
  BY DEF CooledDown
<1>17. Allocated(r) => Allocated(r)'
  BY DEF Allocated
<1>18. QED
  BY <1>1, <1>2, <1>3, <1>4, <1>5, <1>6, <1>9, <1>10, <1>11, <1>12, <1>13,
     <1>14, <1>15, <1>16, <1>17 DEF InStage

LEMMA ProceedStep ==
    ASSUME AdminInv, NEW s \in Session, NEW new, Proceed(s, new),
           new \in Request, InStage(new),
           \A row \in new.locks : row \in tx[s].locks \/ Free(row, s)
    PROVE  AdminInv'
<1>1. /\ Consistent /\ RoomToDisable /\ LocksDisjoint
      /\ tx \in [Session -> Request]
      /\ \A t \in Session : InStage(tx[t])
  BY DEF AdminInv
<1>2. UNCHANGED portsVars /\ tx' = [tx EXCEPT ![s] = new]
  BY DEF Proceed
<1>3. tx'[s] = new /\ \A t \in Session : t # s => tx'[t] = tx[t]
  BY <1>1, <1>2
<1>4. Consistent'
  BY <1>1, <1>2, ConsistentStep
<1>5. RoomToDisable'
  BY <1>1, <1>2
  DEF RoomToDisable, MustDisable, Exists, CanBump, portsVars, portVars
<1>6. tx' \in [Session -> Request]
  BY <1>1, <1>2
<1>7. LocksDisjoint'
  <2>1. \A t \in Session : t # s => new.locks \cap tx[t].locks = {}
    BY <1>1 DEF LocksDisjoint, Free
  <2>2. QED
    BY <1>1, <1>3, <2>1 DEF LocksDisjoint
<1>8. ASSUME NEW t \in Session
      PROVE  InStage(tx[t])'
  <2>1. PICK r : r = tx'[t] /\ InStage(r)
    BY <1>1, <1>3
  <2>2. PermissionDropped(r) => PermissionDropped(r)'
    BY <1>2 DEF PermissionDropped, portsVars, catalogVars
  <2>3. InStage(r)'
    BY <1>2, <2>1, <2>2, StageKept DEF portsVars
  <2>4. QED
    BY <2>1, <2>3
<1>9. QED
  BY <1>4, <1>5, <1>6, <1>7, <1>8 DEF AdminInv

LEMMA EmptyRequest == NoRequest \in Request /\ InStage(NoRequest)
<1>1. Nothing \in Written(Port, PortRow)
  BY NothingWritten
<1>2. Nothing \in Written(Listener, ListenerRow \cup {Deleted})
  BY NothingWritten
<1>3. QED
  BY <1>1, <1>2
  DEF NoRequest, Request, Stages, Operations, Seen, InStage

LEMMA AdminInvInit == AdminInit => AdminInv
<1>. SUFFICES ASSUME AdminInit PROVE AdminInv
  OBVIOUS
<1>1. Consistent
  BY ConsistentInit DEF AdminInit
<1>2. RoomToDisable
  BY DEF AdminInit, PortsInit, RoomToDisable, Exists, Absent, ListenerStatus
<1>3. \A s \in Session : tx[s] = NoRequest
  BY DEF AdminInit
<1>4. tx \in [Session -> Request]
  BY EmptyRequest DEF AdminInit
<1>5. LocksDisjoint
  BY <1>3 DEF LocksDisjoint, NoRequest
<1>6. \A s \in Session : InStage(tx[s])
  BY <1>3, EmptyRequest
<1>7. QED
  BY <1>1, <1>2, <1>4, <1>5, <1>6 DEF AdminInv

\* The columns of a request have their types.
LEMMA RequestIs ==
    ASSUME NEW r \in Request
    PROVE  /\ r.pc \in Stages /\ r.op \in Operations
           /\ r.on \in Listener \cup {NoListener} /\ r.port \in Port \cup {0}
           /\ r.seen \in Seen /\ r.stamp \in ConfigurationID \cup {NoConfiguration}
           /\ r.locks \in SUBSET Rows /\ r.todo \in SUBSET Rows
           /\ r.ports \in Written(Port, PortRow)
           /\ r.listeners \in Written(Listener, ListenerRow \cup {Deleted})
           /\ r.dropped \in SUBSET Permission
BY DEF Request

\* The stage tells what has been written.
LEMMA StageOf ==
    ASSUME AdminInv, NEW s \in Session
    PROVE  /\ At(s, "idle") => tx[s] = NoRequest
           /\ At(s, "editing") => Editing(tx[s])
           /\ At(s, "follow") => Following(tx[s])
           /\ At(s, "disable") => Disabling(tx[s])
           /\ At(s, "release") => Releasing(tx[s])
           /\ At(s, "delete") => Deleting(tx[s])
           /\ At(s, "pick") => Picking(tx[s])
           /\ At(s, "sweep_listeners") => SweepingListeners(tx[s])
           /\ At(s, "sweep_ports") => SweepingPorts(tx[s])
           /\ At(s, "audit") =>
                 \/ Updated(tx[s]) \/ PoliciesWritten(tx[s]) \/ Blocked(tx[s])
                 \/ Released(tx[s]) \/ CooledDown(tx[s]) \/ Allocated(tx[s])
                 \/ PermissionDropped(tx[s]) \/ SweptAll(tx[s])
<1>. PICK r : r = tx[s] /\ InStage(r)
  BY DEF AdminInv
<1>1. NoRequest.pc = "idle"
  BY DEF NoRequest
<1>. QED
  BY <1>1
  DEF At, InStage, Editing, Following, Disabling, Releasing, Deleting,
      Picking, SweepingListeners, SweepingPorts, SweptAll, Updated,
      PoliciesWritten, Blocked, Released, CooledDown, Allocated,
      PermissionDropped

LEMMA RollbackStep ==
    ASSUME AdminInv, NEW s \in Session, Rollback(s)
    PROVE  AdminInv'
<1>1. Proceed(s, NoRequest) /\ NoRequest.locks = {}
  BY DEF Rollback, NoRequest
<1>2. QED
  BY <1>1, EmptyRequest, ProceedStep

LEMMA OpenEditStep ==
    ASSUME AdminInv, NEW s \in Session, NEW l \in Listener, OpenEdit(s, l)
    PROVE  AdminInv'
<1>. DEFINE new == [NoRequest EXCEPT !.pc = "editing", !.on = l,
                                     !.seen = listener[l]]
<1>1. Proceed(s, new) /\ Exists(l)
  BY DEF OpenEdit
<1>2. listener[l] \in ListenerRow
  BY <1>1, ExistingRow DEF AdminInv, Consistent
<1>3. /\ new.pc = "editing" /\ new.op = "none" /\ new.on = l
      /\ new.seen = listener[l] /\ new.locks = {} /\ new.todo = {}
      /\ new.dropped = {} /\ new.ports = Nothing /\ new.listeners = Nothing
  BY DEF NoRequest
<1>4. new \in Request
  BY <1>2, EmptyRequest DEF Request, Stages, Seen
<1>. HIDE DEF new
<1>5. KnowsRow(new)
  BY <1>2, <1>3 DEF KnowsRow, UneditedSince, ListenerRow
<1>6. listener[l] # Absent
  BY <1>1 DEF Exists, Absent, ListenerStatus
<1>7. InStage(new)
  BY <1>2, <1>3, <1>5, <1>6 DEF InStage, Editing, Unwritten
<1>8. QED
  BY <1>1, <1>3, <1>4, <1>7, ProceedStep

LEMMA UpdateListenerRowStep ==
    ASSUME AdminInv, NEW s \in Session, NEW status \in ListenerStatus,
           UpdateListenerRow(s, status)
    PROVE  AdminInv'
<1>. DEFINE l == tx[s].on
            row == WithStatus(listener[l], status)
            new == [tx[s] EXCEPT
                      !.pc = "follow", !.op = "update", !.seen = Absent,
                      !.locks = {ListenerRowOf(l)},
                      !.listeners = Write(l, row)]
<1>1. /\ Proceed(s, new) /\ CanEdit(l) /\ Exists(l)
      /\ Free(ListenerRowOf(l), s)
      /\ Editing(tx[s])
  BY StageOf DEF UpdateListenerRow, StillSeen
<1>2. tx[s] \in Request /\ l \in Listener
  BY <1>1 DEF AdminInv, Editing
<1>3. row \in ListenerRow
  <2>1. listener[l] \in ListenerRow
    BY <1>1, <1>2, ExistingRow DEF AdminInv, Consistent
  <2>2. listener[l].rowVersion < MaxRowVersion
    BY <1>1, <2>1, PortsAssumption DEF CanEdit, ListenerRow
  <2>3. QED
    BY <2>1, <2>2, WithStatusRow
<1>4. Write(l, row) \in Written(Listener, ListenerRow \cup {Deleted})
  BY <1>2, <1>3, OneWritten
<1>. HIDE DEF row
<1>5. /\ new.pc = "follow" /\ new.op = "update" /\ new.on = l
      /\ new.locks = {ListenerRowOf(l)} /\ new.todo = tx[s].todo
      /\ new.dropped = tx[s].dropped /\ new.ports = tx[s].ports
      /\ new.listeners = Write(l, row)
  BY <1>2 DEF Request
<1>6. new \in Request
  BY <1>2, <1>4, RowsNamed DEF Request, Stages, Operations, Seen
<1>. HIDE DEF new
<1>7. InStage(new)
  <2>1. RowEdited(new, l, row)
    BY <1>1, <1>5 DEF RowEdited
  <2>2. Following(new)
    BY <1>1, <1>2, <1>5, <2>1 DEF Following, Editing, Unwritten, row
  <2>3. QED
    BY <2>2 DEF InStage
<1>8. QED
  BY <1>1, <1>5, <1>6, <1>7, ProceedStep

\* A row that may be edited has a row_version to spare.
LEMMA EditableRow ==
    ASSUME AdminInv, NEW l \in Listener, Exists(l), CanEdit(l)
    PROVE  /\ listener[l] \in ListenerRow
           /\ listener[l].rowVersion < MaxRowVersion
           /\ CanBump(l)
<1>1. listener[l] \in ListenerRow
  BY ExistingRow DEF AdminInv, Consistent
<1>2. QED
  BY <1>1, PortsAssumption DEF CanEdit, CanBump, ListenerRow

LEMMA FollowingRows ==
    ASSUME AdminInv, NEW l \in Listener, NEW status \in ListenerStatus
    PROVE  PortsFollowing(l, status) \in Written(Port, PortRow)
<1>1. PortStatusFor(status) \in PortStatus
  BY DEF PortStatusFor, PortStatus, Leased, ListenerStatus
<1>2. \A p \in Port : [port[p] EXCEPT !.status = PortStatusFor(status)] \in PortRow
  BY <1>1 DEF AdminInv, Consistent, PortsTypeOK, PortRow
<1>3. Named(l) \in SUBSET Port
  BY DEF Named
<1>4. PortsFollowing(l, status) \in [Named(l) -> PortRow]
  BY <1>2, <1>3 DEF PortsFollowing
<1>5. QED
  BY <1>3, <1>4, IsWritten

LEMMA UpdatePortRowStep ==
    ASSUME AdminInv, NEW s \in Session, UpdatePortRow(s)
    PROVE  AdminInv'
<1>1. Following(tx[s]) /\ tx[s] \in Request
  BY StageOf DEF UpdatePortRow, AdminInv
<1>2. PICK l \in Listener : l = tx[s].on
  BY <1>1 DEF Following
<1>3. PICK status \in ListenerStatus :
        RowEdited(tx[s], l, WithStatus(listener[l], status))
  BY <1>1, <1>2 DEF Following
<1>4. tx[s].listeners[l].status = status
  <2>1. WithStatus(listener[l], status).status = status
    BY <1>3, EditableRow, WithStatusRow DEF RowEdited
  <2>2. QED
    BY <1>3, <2>1 DEF RowEdited, Write
<1>. DEFINE held == tx[s].locks \cup {PortRowOf(p) : p \in Named(l)}
            new == [tx[s] EXCEPT !.pc = "audit", !.locks = held,
                                 !.ports = PortsFollowing(l, status)]
<1>5. /\ Proceed(s, new)
      /\ \A p \in Named(l) : Free(PortRowOf(p), s)
  BY <1>2, <1>4 DEF UpdatePortRow, PortsFollowing
<1>6. PortsFollowing(l, status) \in Written(Port, PortRow)
  BY FollowingRows
<1>7. held \in SUBSET Rows
  BY <1>1, RowsNamed, RequestIs DEF Named
<1>8. \A row \in held : row \in tx[s].locks \/ Free(row, s)
  BY <1>5
<1>9. tx[s].locks \subseteq held /\ \A p \in Named(l) : PortRowOf(p) \in held
  OBVIOUS
<1>. HIDE DEF held
<1>10. /\ new.pc = "audit" /\ new.op = tx[s].op /\ new.locks = held
       /\ new.todo = tx[s].todo /\ new.dropped = tx[s].dropped
       /\ new.ports = PortsFollowing(l, status)
       /\ new.listeners = tx[s].listeners
  BY <1>1 DEF Request
<1>11. new \in Request
  BY <1>1, <1>6, <1>7 DEF Request, Stages
<1>. HIDE DEF new
<1>12. InStage(new)
  <2>1. RowEdited(new, l, WithStatus(listener[l], status))
    BY <1>3, <1>9, <1>10 DEF RowEdited
  <2>2. Updated(new)
    BY <1>1, <1>9, <1>10, <2>1 DEF Updated, Following
  <2>3. QED
    BY <2>2 DEF InStage
<1>13. QED
  BY <1>5, <1>8, <1>10, <1>11, <1>12, ProceedStep

LEMMA EditPoliciesStep ==
    ASSUME AdminInv, NEW s \in Session, NEW q \in Policy, UpdatePolicies(s, q)
    PROVE  AdminInv'
<1>. DEFINE l == tx[s].on
            row == WithPolicy(listener[l], q)
            new == [tx[s] EXCEPT
                      !.pc = "audit", !.op = "policies", !.seen = Absent,
                      !.locks = {ListenerRowOf(l)},
                      !.listeners = Write(l, row)]
<1>1. /\ Proceed(s, new) /\ CanEdit(l) /\ Exists(l)
      /\ Free(ListenerRowOf(l), s)
      /\ Editing(tx[s])
  BY StageOf DEF UpdatePolicies, StillSeen
<1>2. tx[s] \in Request /\ l \in Listener
  BY <1>1 DEF AdminInv, Editing
<1>3. row \in ListenerRow
  BY <1>1, <1>2, EditableRow, WithPolicyRow
<1>4. Write(l, row) \in Written(Listener, ListenerRow \cup {Deleted})
  BY <1>2, <1>3, OneWritten
<1>. HIDE DEF row
<1>5. /\ new.pc = "audit" /\ new.op = "policies"
      /\ new.locks = {ListenerRowOf(l)} /\ new.todo = tx[s].todo
      /\ new.dropped = tx[s].dropped /\ new.ports = tx[s].ports
      /\ new.listeners = Write(l, row)
  BY <1>2 DEF Request
<1>6. new \in Request
  BY <1>2, <1>4, RowsNamed DEF Request, Stages, Operations, Seen
<1>. HIDE DEF new
<1>7. InStage(new)
  <2>1. RowEdited(new, l, row)
    BY <1>1, <1>5 DEF RowEdited
  <2>2. PoliciesWritten(new)
    BY <1>1, <1>2, <1>5, <2>1 DEF PoliciesWritten, Editing, Unwritten, row
  <2>3. QED
    BY <2>2 DEF InStage
<1>8. QED
  BY <1>1, <1>5, <1>6, <1>7, ProceedStep

-----------------------------------------------------------------------------
(* UpdatePortStatus *)

\* The row that a port's request writes.
LEMMA PortRowWritten ==
    ASSUME AdminInv, NEW p \in Port, NEW status \in PortStatus,
           NEW l \in Listener \cup {NoListener}
    PROVE  /\ PortWrite(p, status, l) \in Written(Port, PortRow)
           /\ port[p].listener \in Listener \cup {NoListener}
           /\ port[p].status \in PortStatus
<1>1. [status |-> status, listener |-> l] \in PortRow
  BY DEF PortRow
<1>2. PortWrite(p, status, l) \in Written(Port, PortRow)
  BY <1>1, OneWritten DEF PortWrite
<1>3. QED
  BY <1>2 DEF AdminInv, Consistent, PortsTypeOK, PortRow

LEMMA LockPortToBlockStep ==
    ASSUME AdminInv, NEW s \in Session, NEW p \in Port, LockPortToBlock(s, p)
    PROVE  AdminInv'
<1>1. PICK l \in Listener \cup {NoListener} : l = port[p].listener
  BY PortRowWritten DEF PortStatus
<1>. DEFINE stage == IF l = NoListener THEN "audit" ELSE "disable"
            new == [NoRequest EXCEPT
                      !.pc = stage, !.op = "block", !.on = l, !.port = p,
                      !.locks = {PortRowOf(p)},
                      !.ports = PortWrite(p, "blocked", l)]
<1>2. Proceed(s, new) /\ Free(PortRowOf(p), s)
  BY <1>1 DEF LockPortToBlock
<1>3. PortWrite(p, "blocked", l) \in Written(Port, PortRow)
  BY PortRowWritten DEF PortStatus
<1>4. stage \in Stages
  BY DEF Stages
<1>. HIDE DEF stage
<1>5. /\ new.pc = stage /\ new.op = "block" /\ new.on = l /\ new.port = p
      /\ new.locks = {PortRowOf(p)} /\ new.todo = {} /\ new.dropped = {}
      /\ new.ports = PortWrite(p, "blocked", l) /\ new.listeners = Nothing
  BY DEF NoRequest
<1>6. new \in Request
  <2>1. NoRequest \in Request /\ PortRowOf(p) \in Rows
    BY EmptyRequest, RowsNamed
  <2>2. QED
    BY <1>3, <1>4, <2>1 DEF Request, Operations
<1>. HIDE DEF new
<1>7. InStage(new)
  <2>1. PortHeld(new, p, "blocked", l)
    BY <1>5 DEF PortHeld
  <2>2. CASE l = NoListener
    BY <1>1, <1>5, <2>1, <2>2 DEF Blocked, MustDisable, InStage, stage
  <2>3. CASE l # NoListener
    BY <1>1, <1>5, <2>1, <2>3 DEF Disabling, InStage, stage
  <2>4. QED
    BY <2>2, <2>3
<1>8. QED
  BY <1>2, <1>5, <1>6, <1>7, ProceedStep

LEMMA DisableListenerStep ==
    ASSUME AdminInv, NEW s \in Session, DisableListener(s)
    PROVE  AdminInv'
<1>1. Disabling(tx[s]) /\ tx[s] \in Request
  BY StageOf DEF DisableListener, AdminInv
<1>2. PICK p \in Port : p = tx[s].port
  BY <1>1 DEF Disabling
<1>3. PICK l : l = port[p].listener
  OBVIOUS
<1>4. /\ tx[s].on = l /\ l # NoListener
      /\ PortHeld(tx[s], p, "blocked", l)
      /\ tx[s].op = "block" /\ tx[s].todo = {} /\ tx[s].dropped = {}
      /\ tx[s].listeners = Nothing
  BY <1>1, <1>2, <1>3 DEF Disabling
<1>5. l \in Listener /\ listener[l] \in ListenerRow
  BY <1>3, <1>4, OwnedRow DEF AdminInv
<1>6. CASE listener[l].status = "disabled"
  <2>. DEFINE new == [tx[s] EXCEPT !.pc = "audit"]
  <2>1. Proceed(s, new)
    BY <1>4, <1>6 DEF DisableListener
  <2>2. /\ new.pc = "audit" /\ new.op = "block" /\ new.locks = tx[s].locks
        /\ new.todo = {} /\ new.dropped = {} /\ new.ports = tx[s].ports
        /\ new.listeners = Nothing
    BY <1>1, <1>4 DEF Request
  <2>3. new \in Request
    BY <1>1 DEF Request, Stages
  <2>. HIDE DEF new
  <2>4. Blocked(new)
    BY <1>3, <1>4, <1>6, <2>2 DEF Blocked, PortHeld, MustDisable
  <2>5. QED
    BY <2>1, <2>2, <2>3, <2>4, ProceedStep DEF InStage
<1>7. CASE listener[l].status # "disabled"
  <2>. DEFINE row == WithStatus(listener[l], "disabled")
              held == tx[s].locks \cup {ListenerRowOf(l)}
              new == [tx[s] EXCEPT !.pc = "audit", !.locks = held,
                                   !.listeners = Write(l, row)]
  <2>1. Proceed(s, new) /\ Free(ListenerRowOf(l), s)
    BY <1>4, <1>7 DEF DisableListener
  <2>2. MustDisable(l)
    BY <1>4, <1>7 DEF MustDisable
  <2>3. row \in ListenerRow
    <3>1. listener[l].rowVersion < MaxRowVersion
      BY <1>5, <2>2
      DEF AdminInv, RoomToDisable, Exists, CanBump, ListenerRow
    <3>2. QED
      BY <1>5, <3>1, WithStatusRow DEF ListenerStatus
  <2>4. Write(l, row) \in Written(Listener, ListenerRow \cup {Deleted})
    BY <1>5, <2>3, OneWritten
  <2>5. /\ held \in SUBSET Rows
        /\ \A k \in held : k \in tx[s].locks \/ Free(k, s)
        /\ tx[s].locks \subseteq held /\ ListenerRowOf(l) \in held
    BY <1>1, <1>5, <2>1, RowsNamed, RequestIs
  <2>. HIDE DEF row, held
  <2>6. /\ new.pc = "audit" /\ new.op = "block" /\ new.locks = held
        /\ new.todo = {} /\ new.dropped = {} /\ new.ports = tx[s].ports
        /\ new.listeners = Write(l, row)
    BY <1>1, <1>4 DEF Request
  <2>7. new \in Request
    BY <1>1, <2>4, <2>5 DEF Request, Stages
  <2>. HIDE DEF new
  <2>8. Blocked(new)
    BY <1>3, <1>4, <2>2, <2>5, <2>6 DEF Blocked, PortHeld, row
  <2>9. QED
    BY <2>1, <2>5, <2>6, <2>7, <2>8, ProceedStep DEF InStage
<1>8. QED
  BY <1>6, <1>7

LEMMA ReadPortToReleaseStep ==
    ASSUME AdminInv, NEW s \in Session, NEW p \in Port, ReadPortToRelease(s, p)
    PROVE  AdminInv'
<1>1. PICK l \in Listener \cup {NoListener} : l = port[p].listener
  BY PortRowWritten DEF PortStatus
<1>. DEFINE seen == IF l = NoListener THEN Absent
                    ELSE [status |-> listener[l].status]
            new == [NoRequest EXCEPT
                      !.pc = "release", !.op = "release", !.port = p,
                      !.on = l, !.seen = seen]
<1>2. Proceed(s, new)
  BY <1>1 DEF ReadPortToRelease
<1>3. seen \in Seen
  <2>1. CASE l = NoListener
    BY <2>1 DEF Seen
  <2>2. CASE l # NoListener
    <3>1. listener[l].status \in ListenerStatus
      BY <1>1, <2>2, OwnedRow DEF AdminInv, ListenerRow
    <3>2. QED
      BY <2>2, <3>1 DEF Seen
  <2>3. QED
    BY <2>1, <2>2
<1>. HIDE DEF seen
<1>4. /\ new.pc = "release" /\ new.op = "release" /\ new.port = p
      /\ new.locks = {} /\ new.todo = {} /\ new.dropped = {}
      /\ new.ports = Nothing /\ new.listeners = Nothing
  BY DEF NoRequest
<1>5. new \in Request
  <2>1. NoRequest \in Request
    BY EmptyRequest
  <2>2. QED
    BY <1>3, <2>1 DEF Request, Stages, Operations
<1>. HIDE DEF new
<1>6. InStage(new)
  BY <1>4 DEF InStage, Releasing, Unwritten
<1>7. QED
  BY <1>2, <1>4, <1>5, <1>6, ProceedStep

LEMMA LockPortToReleaseStep ==
    ASSUME AdminInv, NEW s \in Session, LockPortToRelease(s)
    PROVE  AdminInv'
<1>1. Releasing(tx[s]) /\ tx[s] \in Request
  BY StageOf DEF LockPortToRelease, AdminInv
<1>2. PICK p \in Port : p = tx[s].port
  BY <1>1 DEF Releasing
<1>3. PICK l \in Listener \cup {NoListener} : l = port[p].listener
  BY PortRowWritten DEF PortStatus
<1>4. CASE ~Releasable(s)
  <2>1. Rollback(s)
    BY <1>4 DEF LockPortToRelease, Rollback
  <2>2. QED
    BY <2>1, RollbackStep
<1>5. CASE Releasable(s)
  <2>. DEFINE stage == IF l = NoListener THEN "audit" ELSE "delete"
              new == [tx[s] EXCEPT
                        !.pc = stage, !.on = l, !.seen = Absent,
                        !.locks = {PortRowOf(p)},
                        !.ports = PortWrite(p, "available", NoListener)]
  <2>1. Proceed(s, new) /\ Free(PortRowOf(p), s)
    BY <1>2, <1>3, <1>5 DEF LockPortToRelease
  <2>2. PortWrite(p, "available", NoListener) \in Written(Port, PortRow)
    BY PortRowWritten DEF PortStatus
  <2>3. stage \in Stages /\ Absent \in Seen /\ PortRowOf(p) \in Rows
    BY RowsNamed DEF Stages, Seen
  <2>. HIDE DEF stage
  <2>4. /\ new.pc = stage /\ new.op = "release" /\ new.on = l /\ new.port = p
        /\ new.locks = {PortRowOf(p)} /\ new.todo = {} /\ new.dropped = {}
        /\ new.ports = PortWrite(p, "available", NoListener)
        /\ new.listeners = Nothing
    BY <1>1, <1>2 DEF Request, Releasing, Unwritten
  <2>5. new \in Request
    BY <1>1, <2>2, <2>3 DEF Request
  <2>. HIDE DEF new
  <2>6. InStage(new)
    <3>1. PortHeld(new, p, "available", NoListener)
      BY <2>4 DEF PortHeld
    <3>2. CASE l = NoListener
      <4>1. port[p].status \notin Leased
        BY <1>2, <1>3, <1>5, <3>2 DEF Releasable
      <4>2. QED
        BY <1>3, <2>4, <3>1, <3>2, <4>1 DEF Released, InStage, stage
    <3>3. CASE l # NoListener
      BY <1>3, <2>4, <3>1, <3>3 DEF Deleting, InStage, stage
    <3>4. QED
      BY <3>2, <3>3
  <2>7. QED
    BY <2>1, <2>4, <2>5, <2>6, ProceedStep
<1>6. QED
  BY <1>4, <1>5

LEMMA DeleteListenerStep ==
    ASSUME AdminInv, NEW s \in Session, DeleteListener(s)
    PROVE  AdminInv'
<1>1. Deleting(tx[s]) /\ tx[s] \in Request
  BY StageOf DEF DeleteListener, AdminInv
<1>2. PICK p \in Port : p = tx[s].port
  BY <1>1 DEF Deleting
<1>3. PICK l : l = port[p].listener
  OBVIOUS
<1>4. /\ tx[s].on = l /\ l # NoListener
      /\ PortHeld(tx[s], p, "available", NoListener)
      /\ tx[s].op = "release" /\ tx[s].todo = {} /\ tx[s].dropped = {}
  BY <1>1, <1>2, <1>3 DEF Deleting
<1>5. l \in Listener
  BY <1>3, <1>4, OwnedRow DEF AdminInv
<1>. DEFINE held == tx[s].locks \cup {ListenerRowOf(l)}
            new == [tx[s] EXCEPT !.pc = "audit", !.locks = held,
                                 !.listeners = Write(l, Deleted)]
<1>6. Proceed(s, new) /\ Free(ListenerRowOf(l), s)
  BY <1>4 DEF DeleteListener
<1>7. Write(l, Deleted) \in Written(Listener, ListenerRow \cup {Deleted})
  BY <1>5, OneWritten
<1>8. /\ held \in SUBSET Rows
      /\ \A k \in held : k \in tx[s].locks \/ Free(k, s)
      /\ tx[s].locks \subseteq held /\ ListenerRowOf(l) \in held
  BY <1>1, <1>5, <1>6, RowsNamed, RequestIs
<1>. HIDE DEF held
<1>9. /\ new.pc = "audit" /\ new.op = "release" /\ new.locks = held
      /\ new.todo = {} /\ new.dropped = {} /\ new.ports = tx[s].ports
      /\ new.listeners = Write(l, Deleted)
  BY <1>1, <1>4 DEF Request
<1>10. new \in Request
  BY <1>1, <1>7, <1>8 DEF Request, Stages
<1>. HIDE DEF new
<1>11. Released(new)
  BY <1>3, <1>4, <1>8, <1>9 DEF Released, PortHeld
<1>12. QED
  BY <1>6, <1>8, <1>9, <1>10, <1>11, ProceedStep DEF InStage

LEMMA CoolDownStep ==
    ASSUME AdminInv, NEW s \in Session, NEW p \in Port, CoolDown(s, p)
    PROVE  AdminInv'
<1>. DEFINE l == port[p].listener
            new == [NoRequest EXCEPT
                      !.pc = "audit", !.op = "cooldown",
                      !.locks = {PortRowOf(p)},
                      !.ports = PortWrite(p, "cooldown", l)]
<1>1. Proceed(s, new) /\ Free(PortRowOf(p), s) /\ port[p].status \notin Leased
  BY DEF CoolDown
<1>2. PortWrite(p, "cooldown", l) \in Written(Port, PortRow)
  BY PortRowWritten DEF PortStatus
<1>. HIDE DEF l
<1>3. /\ new.pc = "audit" /\ new.op = "cooldown"
      /\ new.locks = {PortRowOf(p)} /\ new.todo = {} /\ new.dropped = {}
      /\ new.ports = PortWrite(p, "cooldown", l) /\ new.listeners = Nothing
  BY DEF NoRequest
<1>4. new \in Request
  <2>1. NoRequest \in Request /\ PortRowOf(p) \in Rows
    BY EmptyRequest, RowsNamed
  <2>2. QED
    BY <1>2, <2>1 DEF Request, Stages, Operations
<1>. HIDE DEF new
<1>5. CooledDown(new)
  BY <1>1, <1>3 DEF CooledDown, PortHeld, l
<1>6. QED
  BY <1>1, <1>3, <1>4, <1>5, ProceedStep DEF InStage

-----------------------------------------------------------------------------
(* AllocateListener, DeletePermission *)

LEMMA CheckCatalogStep ==
    ASSUME AdminInv, NEW s \in Session, NEW l \in Listener,
           NEW v \in ServiceVersion, NEW r \in Permission,
           CheckCatalog(s, l, v, r)
    PROVE  AdminInv'
<1>. DEFINE seen == [version |-> v, permission |-> r]
            new == [NoRequest EXCEPT
                      !.pc = "pick", !.op = "allocate", !.on = l,
                      !.seen = seen, !.locks = {ListenerRowOf(l)}]
<1>1. /\ Proceed(s, new) /\ Free(ListenerRowOf(l), s)
      /\ listener[l] = Absent
  BY DEF CheckCatalog
<1>2. seen \in [version : ServiceVersion, permission : Permission]
  OBVIOUS
<1>. HIDE DEF seen
<1>3. /\ new.pc = "pick" /\ new.op = "allocate" /\ new.on = l
      /\ new.seen = seen
      /\ new.locks = {ListenerRowOf(l)} /\ new.todo = {} /\ new.dropped = {}
      /\ new.ports = Nothing /\ new.listeners = Nothing
  BY DEF NoRequest
<1>4. new \in Request
  <2>1. NoRequest \in Request /\ ListenerRowOf(l) \in Rows /\ seen \in Seen
    BY <1>2, EmptyRequest, RowsNamed DEF Seen
  <2>2. QED
    BY <2>1 DEF Request, Stages, Operations
<1>. HIDE DEF new
<1>5. Picking(new)
  BY <1>1, <1>2, <1>3 DEF Picking, Unwritten
<1>6. QED
  BY <1>1, <1>3, <1>4, <1>5, ProceedStep DEF InStage

LEMMA PickPortStep ==
    ASSUME AdminInv, NEW s \in Session, NEW p \in Port, NEW q \in Policy,
           PickPort(s, p, q)
    PROVE  AdminInv'
<1>1. Picking(tx[s]) /\ tx[s] \in Request
  BY StageOf DEF PickPort, AdminInv
<1>2. PICK l \in Listener : l = tx[s].on
  BY <1>1 DEF Picking
<1>3. PICK v \in ServiceVersion, r \in Permission :
        v = tx[s].seen.version /\ r = tx[s].seen.permission
  BY <1>1 DEF Picking
<1>. DEFINE row == NewRow(p, v, r, q)
            held == {ListenerRowOf(l), PortRowOf(p)}
            new == [tx[s] EXCEPT
                      !.pc = "audit", !.locks = held,
                      !.listeners = Write(l, row), !.seen = Absent,
                      !.ports = PortWrite(p, "reserved", l)]
<1>4. /\ Proceed(s, new) /\ Free(PortRowOf(p), s)
      /\ port[p].status = "available"
  <2>1. tx[s].locks \cup {PortRowOf(p)} = held
    BY <1>1, <1>2 DEF Picking
  <2>2. Reserved(s, p, q) = row
    BY <1>3 DEF Reserved, NewRow
  <2>. HIDE DEF held, row
  <2>3. QED
    BY <1>2, <2>1, <2>2 DEF PickPort
<1>5. row \in ListenerRow
  BY PortsAssumption DEF NewRow, ListenerRow, ListenerStatus
<1>6. /\ Write(l, row) \in Written(Listener, ListenerRow \cup {Deleted})
      /\ PortWrite(p, "reserved", l) \in Written(Port, PortRow)
  BY <1>5, OneWritten, PortRowWritten DEF PortStatus, Leased
<1>7. /\ held \in SUBSET Rows /\ Absent \in Seen
      /\ \A k \in held : k \in tx[s].locks \/ Free(k, s)
  BY <1>1, <1>2, <1>4, RowsNamed DEF Seen, Picking
<1>. HIDE DEF row, held
<1>8. /\ new.pc = "audit" /\ new.op = "allocate" /\ new.on = l
      /\ new.locks = held /\ new.todo = {} /\ new.dropped = {}
      /\ new.ports = PortWrite(p, "reserved", l)
      /\ new.listeners = Write(l, row)
  BY <1>1, <1>2 DEF Request, Picking
<1>9. new \in Request
  BY <1>1, <1>6, <1>7 DEF Request, Stages
<1>. HIDE DEF new
<1>10. Allocated(new)
  <2>1. listener[l] = Absent
    BY <1>1, <1>2 DEF Picking
  <2>2. QED
    BY <1>4, <1>8, <2>1 DEF Allocated, row, held
<1>11. QED
  BY <1>4, <1>7, <1>8, <1>9, <1>10, ProceedStep DEF InStage

LEMMA LockUnusedPermissionStep ==
    ASSUME AdminInv, NEW s \in Session, NEW r \in Permission,
           LockUnusedPermission(s, r)
    PROVE  AdminInv'
<1>. DEFINE new == [NoRequest EXCEPT
                      !.pc = "audit", !.op = "drop",
                      !.locks = {PermissionRowOf(r)}, !.dropped = {r}]
<1>1. /\ Proceed(s, new) /\ Free(PermissionRowOf(r), s)
      /\ r \in permissions \ granted
  BY DEF LockUnusedPermission
<1>2. /\ new.pc = "audit" /\ new.op = "drop"
      /\ new.locks = {PermissionRowOf(r)} /\ new.todo = {}
      /\ new.dropped = {r} /\ new.ports = Nothing /\ new.listeners = Nothing
  BY DEF NoRequest
<1>3. new \in Request
  <2>1. NoRequest \in Request /\ PermissionRowOf(r) \in Rows
    BY EmptyRequest, RowsNamed
  <2>2. QED
    BY <2>1 DEF Request, Stages, Operations
<1>. HIDE DEF new
<1>4. PermissionDropped(new)
  BY <1>1, <1>2 DEF PermissionDropped, Unwritten
<1>5. QED
  BY <1>1, <1>2, <1>3, <1>4, ProceedStep DEF InStage

-----------------------------------------------------------------------------
(* ActivateConfiguration *)

LEMMA ListenersTodo ==
    /\ {ListenerRowOf(l) : l \in {l \in Listener : Exists(l)}} \subseteq Rows
    /\ {PortRowOf(p) : p \in {p \in Port : port[p].status = "reserved"}}
          \subseteq Rows
BY RowsNamed

LEMMA LockEnvironmentStep ==
    ASSUME AdminInv, NEW s \in Session, NEW c \in ConfigurationID,
           LockEnvironment(s, c)
    PROVE  AdminInv'
<1>. DEFINE todo == {ListenerRowOf(l) : l \in {l \in Listener : Exists(l)}}
            new == [NoRequest EXCEPT
                      !.pc = "sweep_listeners", !.op = "activate", !.stamp = c,
                      !.locks = {EnvironmentRow}, !.todo = todo]
<1>1. Proceed(s, new) /\ Free(EnvironmentRow, s)
  BY DEF LockEnvironment
<1>2. todo \in SUBSET Rows
  BY ListenersTodo
<1>3. /\ \A l \in Listener : Exists(l) => ListenerRowOf(l) \in todo
      /\ \A row \in todo : \E l \in Listener : Exists(l) /\ row = ListenerRowOf(l)
  OBVIOUS
<1>. HIDE DEF todo
<1>4. /\ new.pc = "sweep_listeners" /\ new.op = "activate" /\ new.stamp = c
      /\ new.locks = {EnvironmentRow} /\ new.todo = todo /\ new.dropped = {}
      /\ new.ports = Nothing /\ new.listeners = Nothing
  BY DEF NoRequest
<1>5. new \in Request
  <2>1. NoRequest \in Request /\ EnvironmentRow \in Rows
    BY EmptyRequest, RowsNamed
  <2>2. QED
    BY <1>2, <2>1 DEF Request, Stages, Operations
<1>. HIDE DEF new
<1>6. ListenersSwept(new)
  BY <1>3, <1>4 DEF ListenersSwept, Nothing
<1>7. SweepingListeners(new)
  BY <1>3, <1>4, <1>6 DEF SweepingListeners, Activating
<1>8. QED
  BY <1>1, <1>4, <1>5, <1>7, ProceedStep DEF InStage

LEMMA MoreWritten ==
    ASSUME NEW Key, NEW Row, NEW f \in Written(Key, Row), NEW key \in Key,
           NEW row \in Row
    PROVE  Over(Write(key, row), f) \in Written(Key, Row)
<1>. DEFINE new == Over(Write(key, row), f)
<1>1. /\ DOMAIN new = DOMAIN f \cup {key}
      /\ new[key] = row
      /\ \A k \in DOMAIN f : k # key => new[k] = f[k]
  BY DEF Over, Write
<1>0. new = [k \in DOMAIN new |-> new[k]]
  BY <1>1 DEF Over
<1>. HIDE DEF new
<1>2. DOMAIN f \in SUBSET Key /\ \A k \in DOMAIN f : f[k] \in Row
  BY WrittenIs
<1>3. DOMAIN new \in SUBSET Key /\ \A k \in DOMAIN new : new[k] \in Row
  BY <1>1, <1>2
<1>4. new \in [DOMAIN new -> Row]
  BY <1>0, <1>3
<1>5. new \in Written(Key, Row)
  BY <1>3, <1>4, IsWritten
<1>6. QED
  BY <1>5 DEF new

LEMMA SweepListenerStep ==
    ASSUME AdminInv, NEW s \in Session, NEW l \in Listener, SweepListener(s, l)
    PROVE  AdminInv'
<1>. DEFINE r == tx[s]
            c == tx[s].stamp
            row == Activated(listener[l], c)
            written == Over(Write(l, row), tx[s].listeners)
            todo == tx[s].todo \ {ListenerRowOf(l)}
            held == tx[s].locks \cup {ListenerRowOf(l)}
            new == [tx[s] EXCEPT !.todo = todo, !.locks = held,
                                 !.listeners = written]
<1>1. /\ SweepingListeners(r) /\ r \in Request
      /\ Proceed(s, new) /\ Free(ListenerRowOf(l), s)
      /\ ListenerRowOf(l) \in r.todo
  BY StageOf DEF SweepListener, AdminInv
<1>2. /\ \A k \in r.todo : \E m \in Listener : Exists(m) /\ k = ListenerRowOf(m)
      /\ c \in ConfigurationID /\ EnvironmentRow \in r.locks
      /\ r.pc = "sweep_listeners" /\ r.op = "activate"
      /\ r.dropped = {} /\ r.ports = Nothing
      /\ ListenersSwept(r)
  BY <1>1 DEF SweepingListeners, Activating
<1>3. Exists(l)
  BY <1>1, <1>2, RowNames
<1>4. row \in ListenerRow
  BY <1>2, <1>3, ExistingRow, ActivatedRow DEF AdminInv, Consistent
<1>5. r.listeners \in Written(Listener, ListenerRow \cup {Deleted})
  BY <1>1, RequestIs
<1>6. written \in Written(Listener, ListenerRow \cup {Deleted})
  BY <1>4, <1>5, MoreWritten
<1>7. /\ DOMAIN written = DOMAIN r.listeners \cup {l}
      /\ written[l] = row
      /\ \A k \in DOMAIN r.listeners : k # l => written[k] = r.listeners[k]
  BY DEF Over, Write
<1>8. /\ todo \in SUBSET Rows /\ held \in SUBSET Rows
      /\ \A k \in held : k \in r.locks \/ Free(k, s)
      /\ r.locks \subseteq held /\ ListenerRowOf(l) \in held
      /\ todo \subseteq r.todo
      /\ \A m \in Listener : ListenerRowOf(m) \notin todo
                               <=> ListenerRowOf(m) \notin r.todo \/ m = l
  BY <1>1, RowNames, RowsNamed, RequestIs
<1>. HIDE DEF written, todo, held, row
<1>9. /\ new.pc = r.pc /\ new.op = r.op /\ new.stamp = c
      /\ new.locks = held /\ new.todo = todo /\ new.dropped = r.dropped
      /\ new.ports = r.ports /\ new.listeners = written
  BY <1>1 DEF Request
<1>10. new \in Request
  BY <1>1, <1>6, <1>8 DEF Request
<1>. HIDE DEF new
<1>11. ListenersSwept(new)
  <2>. DEFINE swept == {m \in Listener : Exists(m) /\ ListenerRowOf(m) \notin r.todo}
              more == {m \in Listener : Exists(m) /\ ListenerRowOf(m) \notin todo}
  <2>1. /\ \A m \in swept : ListenerRowOf(m) \in r.locks
        /\ r.listeners = [m \in swept |-> Activated(listener[m], c)]
    BY <1>2 DEF ListenersSwept
  <2>2. more = swept \cup {l}
    BY <1>3, <1>8
  <2>. HIDE DEF swept, more
  <2>3. DOMAIN written = more
    BY <1>7, <2>1, <2>2
  <2>4. \A m \in more : written[m] = Activated(listener[m], c)
    BY <1>7, <2>1, <2>2 DEF row
  <2>5. written = [m \in more |-> Activated(listener[m], c)]
    <3>1. written \in [DOMAIN written -> ListenerRow \cup {Deleted}]
      BY <1>6, WrittenIs
    <3>2. QED
      BY <2>3, <2>4, <3>1
  <2>6. \A m \in more : ListenerRowOf(m) \in held
    BY <1>8, <2>1, <2>2
  <2>7. QED
    BY <1>9, <2>5, <2>6 DEF ListenersSwept, more
<1>12. SweepingListeners(new)
  BY <1>2, <1>8, <1>9, <1>11 DEF SweepingListeners, Activating
<1>13. QED
  BY <1>1, <1>8, <1>9, <1>10, <1>12, ProceedStep DEF InStage

\* What the first sweep has left to do is done: every listener is swept.
LEMMA ListenersDone ==
    ASSUME NEW r, SweepingListeners(r), r.todo = {}, NEW new,
           new.op = r.op, new.stamp = r.stamp, new.locks = r.locks,
           new.listeners = r.listeners, new.dropped = r.dropped,
           \A row \in new.todo : \E p \in Port : row = PortRowOf(p)
    PROVE  Activating(new)
<1>1. /\ Activating(r)
      /\ \A l \in Listener : ListenerRowOf(l) \notin new.todo
  BY RowNames DEF SweepingListeners
<1>2. ListenersSwept(new)
  BY <1>1 DEF Activating, ListenersSwept
<1>3. QED
  BY <1>1, <1>2 DEF Activating

LEMMA FindReservedStep ==
    ASSUME AdminInv, NEW s \in Session, FindReserved(s)
    PROVE  AdminInv'
<1>. DEFINE r == tx[s]
            todo == {PortRowOf(p) : p \in {p \in Port : port[p].status = "reserved"}}
            new == [tx[s] EXCEPT !.pc = "sweep_ports", !.todo = todo]
<1>1. /\ SweepingListeners(r) /\ r \in Request
      /\ Proceed(s, new) /\ r.todo = {}
  BY StageOf DEF FindReserved, AdminInv
<1>2. todo \in SUBSET Rows
  BY ListenersTodo
<1>3. /\ \A p \in Port : port[p].status = "reserved" => PortRowOf(p) \in todo
      /\ \A row \in todo :
            \E p \in Port : port[p].status = "reserved" /\ row = PortRowOf(p)
  OBVIOUS
<1>. HIDE DEF todo
<1>4. /\ new.pc = "sweep_ports" /\ new.op = r.op /\ new.stamp = r.stamp
      /\ new.locks = r.locks /\ new.todo = todo /\ new.dropped = r.dropped
      /\ new.ports = r.ports /\ new.listeners = r.listeners
  BY <1>1 DEF Request
<1>5. new \in Request
  BY <1>1, <1>2 DEF Request, Stages
<1>. HIDE DEF new
<1>6. Activating(new)
  BY <1>1, <1>3, <1>4, ListenersDone
<1>7. PortsSwept(new)
  <2>1. new.ports = Nothing
    BY <1>1, <1>4 DEF SweepingListeners
  <2>2. QED
    BY <1>3, <1>4, <2>1 DEF PortsSwept, Nothing
<1>8. SweepingPorts(new)
  BY <1>3, <1>4, <1>6, <1>7 DEF SweepingPorts
<1>9. QED
  BY <1>1, <1>4, <1>5, <1>8, ProceedStep DEF InStage

\* A sweep of ports touches no listener.
LEMMA ListenersStaySwept ==
    ASSUME NEW r, SweepingPorts(r), NEW new,
           new.op = r.op, new.stamp = r.stamp, r.locks \subseteq new.locks,
           new.listeners = r.listeners, new.dropped = r.dropped,
           new.todo \subseteq r.todo
    PROVE  Activating(new)
<1>1. /\ Activating(r)
      /\ \A l \in Listener : ListenerRowOf(l) \notin r.todo
  BY RowNames DEF SweepingPorts
<1>2. ListenersSwept(new)
  BY <1>1 DEF Activating, ListenersSwept
<1>3. QED
  BY <1>1, <1>2 DEF Activating

LEMMA SweepPortStep ==
    ASSUME AdminInv, NEW s \in Session, NEW p \in Port, SweepPort(s, p)
    PROVE  AdminInv'
<1>. DEFINE r == tx[s]
            row == [status |-> "active", listener |-> port[p].listener]
            written == Over(PortWrite(p, "active", port[p].listener), tx[s].ports)
            todo == tx[s].todo \ {PortRowOf(p)}
            held == tx[s].locks \cup {PortRowOf(p)}
            new == [tx[s] EXCEPT !.todo = todo, !.locks = held,
                                 !.ports = written]
<1>1. /\ SweepingPorts(r) /\ r \in Request
      /\ Free(PortRowOf(p), s) /\ PortRowOf(p) \in r.todo
  BY StageOf DEF SweepPort, AdminInv
<1>2. /\ \A k \in r.todo :
            \E o \in Port : port[o].status = "reserved" /\ k = PortRowOf(o)
      /\ r.pc = "sweep_ports" /\ PortsSwept(r)
  BY <1>1 DEF SweepingPorts
<1>3. port[p].status = "reserved"
  BY <1>1, <1>2, RowNames
<1>4. Proceed(s, new)
  BY <1>3 DEF SweepPort
<1>5. row \in PortRow
  BY PortRowWritten DEF PortRow, PortStatus, Leased
<1>6. r.ports \in Written(Port, PortRow)
  BY <1>1, RequestIs
<1>. HIDE DEF row
<1>7. written = Over(Write(p, row), r.ports)
  BY DEF PortWrite, row
<1>8. written \in Written(Port, PortRow)
  BY <1>5, <1>6, <1>7, MoreWritten
<1>9. /\ DOMAIN written = DOMAIN r.ports \cup {p}
      /\ written[p] = row
      /\ \A k \in DOMAIN r.ports : k # p => written[k] = r.ports[k]
  <2>. HIDE DEF written, r
  <2>1. QED
    BY <1>7 DEF Over, Write
<1>10. /\ todo \in SUBSET Rows /\ held \in SUBSET Rows
       /\ \A k \in held : k \in r.locks \/ Free(k, s)
       /\ r.locks \subseteq held /\ PortRowOf(p) \in held
       /\ todo \subseteq r.todo
       /\ \A o \in Port : PortRowOf(o) \notin todo
                            <=> PortRowOf(o) \notin r.todo \/ o = p
  BY <1>1, RowNames, RowsNamed, RequestIs
<1>. HIDE DEF written, todo, held
<1>11. /\ new.pc = r.pc /\ new.op = r.op /\ new.stamp = r.stamp
       /\ new.locks = held /\ new.todo = todo /\ new.dropped = r.dropped
       /\ new.ports = written /\ new.listeners = r.listeners
  BY <1>1 DEF Request
<1>12. new \in Request
  BY <1>1, <1>8, <1>10 DEF Request
<1>. HIDE DEF new
<1>13. Activating(new)
  BY <1>1, <1>10, <1>11, ListenersStaySwept
<1>14. PortsSwept(new)
  <2>. DEFINE swept == {o \in Port : /\ port[o].status = "reserved"
                                     /\ PortRowOf(o) \notin r.todo}
              more == {o \in Port : /\ port[o].status = "reserved"
                                    /\ PortRowOf(o) \notin todo}
              row0(o) == [status |-> "active", listener |-> port[o].listener]
  <2>1. /\ \A o \in swept : PortRowOf(o) \in r.locks
        /\ r.ports = [o \in swept |-> row0(o)]
    BY <1>2 DEF PortsSwept
  <2>2. more = swept \cup {p}
    BY <1>3, <1>10
  <2>. HIDE DEF swept, more
  <2>3. DOMAIN written = more
    BY <1>9, <2>1, <2>2
  <2>4. \A o \in more : written[o] = row0(o)
    BY <1>9, <2>1, <2>2 DEF row
  <2>5. written = [o \in more |-> row0(o)]
    <3>1. written \in [DOMAIN written -> PortRow]
      BY <1>8, WrittenIs
    <3>. HIDE DEF row0
    <3>2. QED
      BY <2>3, <2>4, <3>1
  <2>6. \A o \in more : PortRowOf(o) \in held
    BY <1>10, <2>1, <2>2
  <2>7. QED
    BY <1>11, <2>5, <2>6 DEF PortsSwept, more
<1>15. SweepingPorts(new)
  BY <1>2, <1>10, <1>11, <1>13, <1>14 DEF SweepingPorts
<1>16. QED
  BY <1>4, <1>10, <1>11, <1>12, <1>15, ProceedStep DEF InStage

LEMMA SweepsDoneStep ==
    ASSUME AdminInv, NEW s \in Session, SweepsDone(s)
    PROVE  AdminInv'
<1>. DEFINE r == tx[s]
            new == [tx[s] EXCEPT !.pc = "audit"]
<1>1. /\ SweepingPorts(r) /\ r \in Request
      /\ Proceed(s, new) /\ r.todo = {}
  BY StageOf DEF SweepsDone, AdminInv
<1>2. /\ new.pc = "audit" /\ new.op = r.op /\ new.stamp = r.stamp
      /\ new.locks = r.locks /\ new.todo = r.todo /\ new.dropped = r.dropped
      /\ new.ports = r.ports /\ new.listeners = r.listeners
  BY <1>1 DEF Request
<1>3. new \in Request
  BY <1>1 DEF Request, Stages
<1>. HIDE DEF new
<1>4. Activating(new)
  BY <1>1, <1>2, ListenersStaySwept
<1>5. PortsSwept(new)
  BY <1>1, <1>2 DEF SweepingPorts, PortsSwept
<1>6. SweptAll(new)
  BY <1>1, <1>2, <1>4, <1>5 DEF SweptAll
<1>7. QED
  BY <1>1, <1>2, <1>3, <1>6, ProceedStep DEF InStage

-----------------------------------------------------------------------------
(* The catalogue changes *)

LEMMA ChangeCatalogStep ==
    ASSUME AdminInv, NEW s \in Session, ChangeCatalog(s)
    PROVE  AdminInv'
<1>1. /\ Consistent /\ RoomToDisable /\ LocksDisjoint
      /\ tx \in [Session -> Request]
      /\ \A t \in Session : InStage(tx[t])
  BY DEF AdminInv
<1>2. /\ tx[s] = NoRequest /\ CatalogNext /\ UNCHANGED portVars /\ tx' = tx
      /\ \A r \in granted' \ granted : Free(PermissionRowOf(r), s)
  BY StageOf DEF ChangeCatalog, Idle
<1>3. Consistent'
  BY <1>1, <1>2, CatalogStep
<1>4. RoomToDisable'
  BY <1>1, <1>2 DEF RoomToDisable, MustDisable, Exists, CanBump, portVars
<1>5. tx' \in [Session -> Request] /\ LocksDisjoint'
  BY <1>1, <1>2 DEF LocksDisjoint
<1>6. ASSUME NEW t \in Session
      PROVE  InStage(tx[t])'
  <2>1. PICK r : r = tx[t] /\ InStage(r)
    BY <1>1
  <2>2. ASSUME PermissionDropped(r) PROVE PermissionDropped(r)'
    <3>1. PICK permission \in permissions \ granted :
            /\ PermissionRowOf(permission) \in r.locks
            /\ r.dropped = {permission}
      BY <2>2 DEF PermissionDropped
    <3>2. t # s
      BY <1>2, <2>1, <2>2 DEF PermissionDropped, NoRequest
    <3>3. permission \notin granted'
      BY <1>2, <2>1, <3>1, <3>2 DEF Free
    <3>4. permission \in permissions'
      BY <1>2, <3>1, PermissionsStay
    <3>5. QED
      BY <2>2, <3>1, <3>3, <3>4 DEF PermissionDropped, Unwritten
  <2>3. InStage(r)'
    BY <1>2, <2>1, <2>2, StageKept
  <2>4. QED
    BY <1>2, <2>1, <2>3
<1>7. QED
  BY <1>3, <1>4, <1>5, <1>6 DEF AdminInv

-----------------------------------------------------------------------------
(***************************************************************************)
(* COMMIT.  Stage by stage, the rows that a transaction has written make   *)
(* its commit one operation of module Ports or one of the named races.     *)
(***************************************************************************)
LEMMA CommitWrites ==
    ASSUME AdminInv, NEW s \in Session, Commit(s)
    PROVE  /\ tx[s].dropped = {} => UNCHANGED catalogVars
           /\ tx[s].ports = Nothing => port' = port
           /\ tx[s].listeners = Nothing => listener' = listener
           /\ \A p \in Port : \A row : tx[s].ports = Write(p, row) =>
                 port' = [port EXCEPT ![p] = row]
           /\ \A l \in Listener : \A row : tx[s].listeners = Write(l, row) =>
                 listener' = [listener EXCEPT ![l] = row]
           /\ \A l \in Listener : listener'[l] =
                 IF l \in DOMAIN tx[s].listeners THEN tx[s].listeners[l]
                                                 ELSE listener[l]
           /\ \A p \in Port : port'[p] =
                 IF p \in DOMAIN tx[s].ports THEN tx[s].ports[p] ELSE port[p]
           /\ DOMAIN port' = Port /\ DOMAIN listener' = Listener
<1>1. /\ port' = Over(tx[s].ports, port)
      /\ listener' = Over(tx[s].listeners, listener)
      /\ permissions' = permissions \ tx[s].dropped
      /\ UNCHANGED <<service, version, upstream, granted>>
  BY DEF Commit
<1>2. /\ port \in [Port -> PortRow]
      /\ listener \in [Listener -> ListenerRow \cup {Absent, Deleted}]
  BY DEF AdminInv, Consistent, PortsTypeOK
<1>3. tx[s].dropped = {} => UNCHANGED catalogVars
  BY <1>1 DEF catalogVars
<1>4. tx[s].ports = Nothing => port' = port
  BY <1>1, <1>2, CommitNothing
<1>5. tx[s].listeners = Nothing => listener' = listener
  BY <1>1, <1>2, CommitNothing
<1>6. \A p \in Port : \A row : tx[s].ports = Write(p, row) =>
         port' = [port EXCEPT ![p] = row]
  BY <1>1, <1>2, CommitOne
<1>7. \A l \in Listener : \A row : tx[s].listeners = Write(l, row) =>
         listener' = [listener EXCEPT ![l] = row]
  <2>. SUFFICES ASSUME NEW l \in Listener, NEW row,
                       tx[s].listeners = Write(l, row)
                PROVE  listener' = [listener EXCEPT ![l] = row]
    OBVIOUS
  <2>1. PICK Row : listener \in [Listener -> Row]
    BY <1>2
  <2>2. listener' = Over(Write(l, row), listener)
    BY <1>1
  <2>3. Over(Write(l, row), listener) = [listener EXCEPT ![l] = row]
    BY <2>1, CommitOne
  <2>4. QED
    BY <2>2, <2>3
<1>8. /\ DOMAIN tx[s].ports \subseteq Port
      /\ DOMAIN tx[s].listeners \subseteq Listener
  <2>1. tx[s] \in Request
    BY DEF AdminInv
  <2>2. QED
    BY <2>1, RequestIs, WrittenIs
<1>9. /\ \A l \in Listener : listener'[l] =
            IF l \in DOMAIN tx[s].listeners THEN tx[s].listeners[l]
                                            ELSE listener[l]
      /\ DOMAIN listener' = Listener
  BY <1>1, <1>2, <1>8 DEF Over
<1>10. /\ \A p \in Port : port'[p] =
             IF p \in DOMAIN tx[s].ports THEN tx[s].ports[p] ELSE port[p]
       /\ DOMAIN port' = Port
  BY <1>1, <1>2, <1>8 DEF Over
<1>11. QED
  BY <1>3, <1>4, <1>5, <1>6, <1>7, <1>9, <1>10

\* UpdateListener.
LEMMA CommitUpdated ==
    ASSUME AdminInv, NEW s \in Session, Commit(s), Updated(tx[s])
    PROVE  \E l \in Listener, status \in ListenerStatus :
              CanEdit(l) /\ UpdateListener(l, status, listener[l].rowVersion)
<1>1. PICK l \in Listener, status \in ListenerStatus :
        /\ RowEdited(tx[s], l, WithStatus(listener[l], status))
        /\ tx[s].ports = PortsFollowing(l, status)
  BY DEF Updated
<1>2. Exists(l) /\ CanEdit(l) /\ CanBump(l)
  BY <1>1, EditableRow DEF RowEdited
<1>3. /\ listener' = [listener EXCEPT ![l] = WithStatus(listener[l], status)]
      /\ UNCHANGED catalogVars
  BY <1>1, CommitWrites DEF RowEdited, Updated
<1>4. port' = [p \in Port |->
          IF port[p].listener = l
          THEN [port[p] EXCEPT !.status = PortStatusFor(status)]
          ELSE port[p]]
  <2>1. /\ DOMAIN tx[s].ports = {p \in Port : port[p].listener = l}
        /\ \A p \in DOMAIN tx[s].ports : tx[s].ports[p] =
              [port[p] EXCEPT !.status = PortStatusFor(status)]
    BY <1>1 DEF PortsFollowing, Named
  <2>2. port' = Over(tx[s].ports, port) /\ DOMAIN port = Port
    BY DEF Commit, AdminInv, Consistent, PortsTypeOK
  <2>3. QED
    BY <2>1, <2>2 DEF Over
<1>5. QED
  BY <1>2, <1>3, <1>4 DEF UpdateListener

LEMMA CommitPolicies ==
    ASSUME AdminInv, NEW s \in Session, Commit(s), PoliciesWritten(tx[s])
    PROVE  \E l \in Listener, q \in Policy :
              CanEdit(l) /\ UpdateListenerPolicies(l, q, listener[l].rowVersion)
<1>1. PICK l \in Listener, q \in Policy :
        RowEdited(tx[s], l, WithPolicy(listener[l], q))
  BY DEF PoliciesWritten
<1>2. Exists(l) /\ CanEdit(l) /\ CanBump(l)
  BY <1>1, EditableRow DEF RowEdited
<1>3. /\ listener' = [listener EXCEPT ![l] = WithPolicy(listener[l], q)]
      /\ port' = port /\ UNCHANGED catalogVars
  BY <1>1, CommitWrites DEF RowEdited, PoliciesWritten
<1>4. QED
  BY <1>2, <1>3 DEF UpdateListenerPolicies

\* A port's row after its request.
LEMMA CommitPort ==
    ASSUME AdminInv, NEW s \in Session, Commit(s), NEW p \in Port,
           NEW status, NEW l, PortHeld(tx[s], p, status, l)
    PROVE  port' = [port EXCEPT ![p] = [status |-> status, listener |-> l]]
BY CommitWrites DEF PortHeld, PortWrite

LEMMA CommitBlocked ==
    ASSUME AdminInv, NEW s \in Session, Commit(s), Blocked(tx[s])
    PROVE  \E p \in Port : BlockPort(p)
<1>1. PICK p \in Port :
        LET l == port[p].listener IN
        /\ PortHeld(tx[s], p, "blocked", l)
        /\ \/ ~MustDisable(l) /\ tx[s].listeners = Nothing
           \/ /\ MustDisable(l)
              /\ tx[s].listeners = Write(l, WithStatus(listener[l], "disabled"))
  BY DEF Blocked
<1>2. PICK l : l = port[p].listener
  OBVIOUS
<1>3. UNCHANGED catalogVars
  BY CommitWrites DEF Blocked
<1>4. port' = [port EXCEPT ![p].status = "blocked"]
  <2>1. port' = [port EXCEPT ![p] = [status |-> "blocked", listener |-> l]]
    <3>1. PortHeld(tx[s], p, "blocked", port[p].listener)
      BY <1>1
    <3>2. tx[s].ports = Write(p, [status |-> "blocked", listener |-> l])
      BY <1>2, <3>1 DEF PortHeld, PortWrite
    <3>3. QED
      BY <3>2, CommitWrites
  <2>2. [port[p] EXCEPT !.status = "blocked"] =
           [status |-> "blocked", listener |-> l]
    BY <1>2 DEF AdminInv, Consistent, PortsTypeOK, PortRow
  <2>3. QED
    BY <2>1, <2>2
<1>5. CASE MustDisable(l)
  <2>1. l \in Listener /\ listener[l] \in ListenerRow
    BY <1>2, <1>5, OwnedRow DEF AdminInv, MustDisable
  <2>2. CanBump(l)
    BY <1>5, <2>1 DEF AdminInv, RoomToDisable, Exists, ListenerRow
  <2>3. listener' = [listener EXCEPT ![l] = WithStatus(listener[l], "disabled")]
    BY <1>1, <1>2, <1>5, <2>1, CommitWrites
  <2>4. QED
    BY <1>2, <1>3, <1>4, <1>5, <2>2, <2>3 DEF BlockPort
<1>6. CASE ~MustDisable(l)
  <2>1. listener' = listener
    BY <1>1, <1>2, <1>6, CommitWrites
  <2>2. QED
    BY <1>2, <1>3, <1>4, <1>6, <2>1 DEF BlockPort
<1>7. QED
  BY <1>5, <1>6

LEMMA CommitReleased ==
    ASSUME AdminInv, NEW s \in Session, Commit(s), Released(tx[s])
    PROVE  \E p \in Port : ReleasePort(p) \/ ReleaseOverEdit(p)
<1>1. PICK p \in Port :
        LET l == port[p].listener IN
        /\ PortHeld(tx[s], p, "available", NoListener)
        /\ \/ /\ l = NoListener /\ port[p].status \notin Leased
              /\ tx[s].listeners = Nothing
           \/ l # NoListener /\ tx[s].listeners = Write(l, Deleted)
  BY DEF Released
<1>2. PICK l : l = port[p].listener
  OBVIOUS
<1>3. /\ UNCHANGED catalogVars
      /\ port' = [port EXCEPT ![p] =
                    [status |-> "available", listener |-> NoListener]]
  BY <1>1, CommitWrites, CommitPort DEF Released
<1>4. CASE l = NoListener
  BY <1>1, <1>2, <1>3, <1>4, CommitWrites DEF ReleasePort
<1>5. CASE l # NoListener
  <2>1. l \in Listener
    BY <1>2, <1>5, OwnedRow DEF AdminInv
  <2>2. listener' = [listener EXCEPT ![l] = Deleted]
    BY <1>1, <1>2, <1>5, <2>1, CommitWrites
  <2>3. QED
    BY <1>2, <1>3, <1>5, <2>2 DEF ReleasePort, ReleaseOverEdit
<1>6. QED
  BY <1>4, <1>5

LEMMA CommitCooledDown ==
    ASSUME AdminInv, NEW s \in Session, Commit(s), CooledDown(tx[s])
    PROVE  \E p \in Port : CooldownPort(p)
<1>1. PICK p \in Port :
        /\ port[p].status \notin Leased
        /\ PortHeld(tx[s], p, "cooldown", port[p].listener)
  BY DEF CooledDown
<1>2. UNCHANGED catalogVars /\ listener' = listener
  BY CommitWrites DEF CooledDown
<1>3. port' = [port EXCEPT ![p].status = "cooldown"]
  <2>1. port' = [port EXCEPT ![p] =
                   [status |-> "cooldown", listener |-> port[p].listener]]
    BY <1>1, CommitPort, SMTT(30)
  <2>2. [port[p] EXCEPT !.status = "cooldown"] =
           [status |-> "cooldown", listener |-> port[p].listener]
    BY DEF AdminInv, Consistent, PortsTypeOK, PortRow
  <2>3. QED
    BY <2>1, <2>2
<1>4. QED
  BY <1>1, <1>2, <1>3 DEF CooldownPort

LEMMA CommitAllocated ==
    ASSUME AdminInv, NEW s \in Session, Commit(s), Allocated(tx[s])
    PROVE  \E l \in Listener, p \in Port :
              \/ \E v \in ServiceVersion, r \in Permission, q \in Policy :
                    AllocateListener(l, v, r, q, p)
              \/ AllocateOnOldCatalog(l, p) /\ listener'[l] \in ListenerRow
                   /\ listener'[l].rowVersion = 1
<1>1. PICK l \in Listener : l = tx[s].on /\ listener[l] = Absent
  BY DEF Allocated
<1>2. PICK p \in Port, v \in ServiceVersion, r \in Permission, q \in Policy :
        /\ port[p].status = "available"
        /\ tx[s].listeners = Write(l, NewRow(p, v, r, q))
        /\ tx[s].ports = PortWrite(p, "reserved", l)
  BY <1>1 DEF Allocated
<1>. DEFINE row == NewRow(p, v, r, q)
<1>3. /\ UNCHANGED catalogVars
      /\ listener' = [listener EXCEPT ![l] = row]
      /\ port' = [port EXCEPT ![p] = [status |-> "reserved", listener |-> l]]
  BY <1>1, <1>2, CommitWrites DEF Allocated, PortWrite
<1>4. CASE Available(v) /\ r \in permissions
  BY <1>1, <1>2, <1>3, <1>4 DEF AllocateListener, NewRow
<1>5. CASE ~(Available(v) /\ r \in permissions)
  <2>1. /\ row.status = "reserved" /\ row.port = p /\ row.version = v
        /\ row.permission = r /\ row.rowVersion = 1
        /\ row \in ListenerRow
    BY PortsAssumption DEF NewRow, ListenerRow, ListenerStatus
  <2>. HIDE DEF row
  <2>2. listener'[l] = row
    BY <1>3 DEF AdminInv, Consistent, PortsTypeOK
  <2>3. QED
    BY <1>1, <1>2, <1>3, <1>5, <2>1, <2>2 DEF AllocateOnOldCatalog
<1>6. QED
  BY <1>4, <1>5

LEMMA CommitDropped ==
    ASSUME AdminInv, NEW s \in Session, Commit(s), PermissionDropped(tx[s])
    PROVE  \E r \in Permission : DeletePermission(r) \/ RemoveUsedPermission(r)
<1>1. PICK r \in permissions \ granted : tx[s].dropped = {r}
  BY DEF PermissionDropped
<1>2. r \in Permission
  BY <1>1 DEF AdminInv, Consistent, PortsTypeOK, CatalogTypeOK
<1>3. /\ permissions' = permissions \ {r}
      /\ UNCHANGED <<service, version, upstream, granted, portVars>>
  <2>1. port' = port /\ listener' = listener
    BY CommitWrites DEF PermissionDropped, Unwritten
  <2>2. QED
    BY <1>1, <2>1 DEF Commit, portVars
<1>4. QED
  BY <1>1, <1>2, <1>3 DEF DeletePermission, RemoveUsedPermission

LEMMA CommitSwept ==
    ASSUME AdminInv, NEW s \in Session, Commit(s), SweptAll(tx[s])
    PROVE  \E c \in ConfigurationID : PublishListeners(c)
<1>1. PICK c \in ConfigurationID : c = tx[s].stamp
  BY DEF SweptAll, Activating
<1>2. UNCHANGED catalogVars
  BY CommitWrites DEF SweptAll, Activating
<1>3. listener' = [l \in Listener |-> Activated(listener[l], c)]
  <2>1. tx[s].listeners =
          [l \in {l \in Listener : Exists(l)} |-> Activated(listener[l], c)]
    BY <1>1 DEF SweptAll, Activating, ListenersSwept
  <2>2. ASSUME NEW l \in Listener
        PROVE  listener'[l] = Activated(listener[l], c)
    <3>1. CASE Exists(l)
      BY <2>1, <3>1, CommitWrites
    <3>2. CASE ~Exists(l)
      BY <2>1, <3>2, CommitWrites DEF Activated, Exists
    <3>3. QED
      BY <3>1, <3>2
  <2>3. listener' = Over(tx[s].listeners, listener)
    BY DEF Commit
  <2>4. listener' = [l \in DOMAIN listener' |-> listener'[l]]
    BY <2>3 DEF Over
  <2>5. QED
    BY <2>2, <2>4, CommitWrites
<1>4. port' = [p \in Port |->
          IF port[p].status = "reserved"
          THEN [port[p] EXCEPT !.status = "active"]
          ELSE port[p]]
  <2>1. tx[s].ports =
          [p \in {p \in Port : port[p].status = "reserved"} |->
             [status |-> "active", listener |-> port[p].listener]]
    BY DEF SweptAll, PortsSwept
  <2>2. \A p \in Port : port'[p] =
          IF port[p].status = "reserved"
          THEN [status |-> "active", listener |-> port[p].listener]
          ELSE port[p]
    BY <2>1, CommitWrites
  <2>3. \A p \in Port : [port[p] EXCEPT !.status = "active"] =
          [status |-> "active", listener |-> port[p].listener]
    BY DEF AdminInv, Consistent, PortsTypeOK, PortRow
  <2>4. port' = Over(tx[s].ports, port)
    BY DEF Commit
  <2>5. port' = [p \in DOMAIN port' |-> port'[p]]
    BY <2>4 DEF Over
  <2>6. \A p \in Port : port'[p] =
          IF port[p].status = "reserved"
          THEN [port[p] EXCEPT !.status = "active"]
          ELSE port[p]
    BY <2>2, <2>3
  <2>7. DOMAIN port' = Port
    BY CommitWrites
  <2>8. QED
    BY <2>5, <2>6, <2>7
<1>5. QED
  BY <1>2, <1>3, <1>4 DEF PublishListeners

\* What a commit may be, with what the transaction knew of the row.
CommittedOperation ==
    \/ \E l \in Listener, status \in ListenerStatus :
          CanEdit(l) /\ UpdateListener(l, status, listener[l].rowVersion)
    \/ \E l \in Listener, q \in Policy :
          CanEdit(l) /\ UpdateListenerPolicies(l, q, listener[l].rowVersion)
    \/ \E p \in Port : BlockPort(p)
    \/ \E p \in Port : ReleasePort(p) \/ ReleaseOverEdit(p)
    \/ \E p \in Port : CooldownPort(p)
    \/ \E l \in Listener, p \in Port :
          \/ \E v \in ServiceVersion, r \in Permission, q \in Policy :
                AllocateListener(l, v, r, q, p)
          \/ AllocateOnOldCatalog(l, p) /\ listener'[l] \in ListenerRow
               /\ listener'[l].rowVersion = 1
    \/ \E r \in Permission : DeletePermission(r) \/ RemoveUsedPermission(r)
    \/ \E c \in ConfigurationID : PublishListeners(c)

LEMMA CommitIsOperation ==
    ASSUME AdminInv, NEW s \in Session, Commit(s)
    PROVE  CommittedOperation
<1>1. \/ Updated(tx[s]) \/ PoliciesWritten(tx[s]) \/ Blocked(tx[s])
      \/ Released(tx[s]) \/ CooledDown(tx[s]) \/ Allocated(tx[s])
      \/ PermissionDropped(tx[s]) \/ SweptAll(tx[s])
  BY StageOf DEF Commit
<1>2. CASE Updated(tx[s])
  BY <1>2, CommitUpdated DEF CommittedOperation
<1>3. CASE PoliciesWritten(tx[s])
  BY <1>3, CommitPolicies DEF CommittedOperation
<1>4. CASE Blocked(tx[s])
  BY <1>4, CommitBlocked DEF CommittedOperation
<1>5. CASE Released(tx[s])
  BY <1>5, CommitReleased DEF CommittedOperation
<1>6. CASE CooledDown(tx[s])
  BY <1>6, CommitCooledDown DEF CommittedOperation
<1>7. CASE Allocated(tx[s])
  BY <1>7, CommitAllocated DEF CommittedOperation
<1>8. CASE PermissionDropped(tx[s])
  BY <1>8, CommitDropped DEF CommittedOperation
<1>9. CASE SweptAll(tx[s])
  BY <1>9, CommitSwept DEF CommittedOperation
<1>10. QED
  BY <1>1, <1>2, <1>3, <1>4, <1>5, <1>6, <1>7, <1>8, <1>9

\* None of the races touches the consistency of ports and listeners.
LEMMA RacesConsistent ==
    ASSUME Consistent
    PROVE  /\ \A p \in Port : ReleaseOverEdit(p) => Consistent'
           /\ \A l \in Listener, p \in Port :
                 AllocateOnOldCatalog(l, p) /\ listener'[l] \in ListenerRow
                   => Consistent'
           /\ \A r \in Permission : RemoveUsedPermission(r) => Consistent'
<1>1. ASSUME NEW p \in Port, ReleaseOverEdit(p) PROVE Consistent'
  <2>1. PICK l \in Listener : l = port[p].listener
    BY <1>1, OwnedRow DEF ReleaseOverEdit
  <2>2. QED
    BY <1>1, <2>1, ReturnStep DEF ReleaseOverEdit
<1>2. ASSUME NEW l \in Listener, NEW p \in Port, AllocateOnOldCatalog(l, p),
             listener'[l] \in ListenerRow
      PROVE  Consistent'
  <2>1. PICK row \in ListenerRow : row = listener'[l]
    BY <1>2
  <2>2. /\ row.status = "reserved" /\ row.port = p
        /\ listener[l] = Absent /\ port[p].status = "available"
        /\ listener' = [listener EXCEPT ![l] = row]
        /\ port' = [port EXCEPT ![p] = [status |-> "reserved", listener |-> l]]
        /\ UNCHANGED catalogVars
    BY <1>2, <2>1 DEF AllocateOnOldCatalog
  <2>3. QED
    BY <2>2, ReserveStep
<1>3. ASSUME NEW r \in Permission, RemoveUsedPermission(r) PROVE Consistent'
  BY <1>3
  DEF RemoveUsedPermission, Consistent, PortsTypeOK, CatalogTypeOK, portVars,
      PortOwnership, StatusAgreement, Exists
<1>4. QED
  BY <1>1, <1>2, <1>3

LEMMA CommitConsistent ==
    ASSUME AdminInv, CommittedOperation
    PROVE  Consistent'
<1>0. Consistent
  BY DEF AdminInv
<1>1. \A l \in Listener : Exists(l) /\ CanEdit(l) =>
         listener[l].rowVersion \in 1 .. MaxRowVersion
  BY EditableRow DEF ListenerRow
<1>2. ASSUME NEW l \in Listener, NEW status \in ListenerStatus, CanEdit(l),
             UpdateListener(l, status, listener[l].rowVersion)
      PROVE  Consistent'
  BY <1>0, <1>1, <1>2, UpdateListenerStep DEF UpdateListener
<1>3. ASSUME NEW l \in Listener, NEW q \in Policy, CanEdit(l),
             UpdateListenerPolicies(l, q, listener[l].rowVersion)
      PROVE  Consistent'
  BY <1>0, <1>1, <1>3, UpdatePoliciesStep
  DEF UpdateListenerPolicies
<1>4. QED
  BY <1>0, <1>2, <1>3, BlockStep, ReleaseStep, CooldownStep, AllocateStep,
     DeletePermissionStep, PublishStep, RacesConsistent
  DEF CommittedOperation

\* What a commit may do to a listener's row.
RowEvolves(l) ==
    \/ listener'[l] = listener[l]
    \/ listener[l] = Absent
    \/ listener'[l] = Deleted
    \/ /\ Exists(l) /\ listener'[l] \in ListenerRow
       /\ listener'[l].rowVersion = listener[l].rowVersion + 1
    \/ \E c \in ConfigurationID : listener'[l] = Activated(listener[l], c)

RoomFor(l) == MustDisable(l) => (Exists(l) => CanBump(l))

\* One row is written, and nothing happens to the others.
LEMMA OneRowWritten ==
    ASSUME AdminInv, NEW l \in Listener, NEW row,
           listener' = [listener EXCEPT ![l] = row],
           row.status # "disabled" /\ row.status \in ListenerStatus =>
              row.rowVersion < MaxRowVersion,
           \/ listener[l] = Absent \/ row = Deleted
           \/ Exists(l) /\ row \in ListenerRow
                /\ row.rowVersion = listener[l].rowVersion + 1
    PROVE  \A k \in Listener : RowEvolves(k) /\ RoomFor(k)'
<1>1. listener'[l] = row /\ \A k \in Listener : k # l => listener'[k] = listener[k]
  BY DEF AdminInv, Consistent, PortsTypeOK
<1>2. RowEvolves(l) /\ RoomFor(l)'
  BY <1>1 DEF RowEvolves, RoomFor, MustDisable, Exists, CanBump
<1>3. ASSUME NEW k \in Listener, k # l PROVE RowEvolves(k) /\ RoomFor(k)'
  BY <1>1, <1>3
  DEF RowEvolves, RoomFor, AdminInv, RoomToDisable, MustDisable, Exists, CanBump
<1>4. QED
  BY <1>2, <1>3

LEMMA NoRowWritten ==
    ASSUME AdminInv, listener' = listener
    PROVE  \A k \in Listener : RowEvolves(k) /\ RoomFor(k)'
BY DEF RowEvolves, RoomFor, AdminInv, RoomToDisable, MustDisable, Exists, CanBump

LEMMA CommitRows ==
    ASSUME AdminInv, CommittedOperation
    PROVE  \A k \in Listener : RowEvolves(k) /\ RoomFor(k)'
<1>. DEFINE Goal == \A k \in Listener : RowEvolves(k) /\ RoomFor(k)'
<1>1. ASSUME NEW l \in Listener, NEW status \in ListenerStatus, CanEdit(l),
             UpdateListener(l, status, listener[l].rowVersion)
      PROVE  Goal
  <2>1. /\ listener[l] \in ListenerRow
        /\ listener[l].rowVersion + 1 < MaxRowVersion
        /\ listener[l].rowVersion < MaxRowVersion
        /\ listener' = [listener EXCEPT ![l] = WithStatus(listener[l], status)]
        /\ Exists(l)
    BY <1>1, EditableRow DEF UpdateListener, CanEdit
  <2>2. /\ WithStatus(listener[l], status) \in ListenerRow
        /\ WithStatus(listener[l], status).rowVersion = listener[l].rowVersion + 1
    BY <2>1, WithStatusRow
  <2>3. QED
    BY <2>1, <2>2, OneRowWritten
<1>2. ASSUME NEW l \in Listener, NEW q \in Policy, CanEdit(l),
             UpdateListenerPolicies(l, q, listener[l].rowVersion)
      PROVE  Goal
  <2>1. /\ listener[l] \in ListenerRow
        /\ listener[l].rowVersion + 1 < MaxRowVersion
        /\ listener[l].rowVersion < MaxRowVersion
        /\ listener' = [listener EXCEPT ![l] = WithPolicy(listener[l], q)]
        /\ Exists(l)
    BY <1>2, EditableRow DEF UpdateListenerPolicies, CanEdit
  <2>2. /\ WithPolicy(listener[l], q) \in ListenerRow
        /\ WithPolicy(listener[l], q).rowVersion = listener[l].rowVersion + 1
    BY <2>1, WithPolicyRow
  <2>3. QED
    BY <2>1, <2>2, OneRowWritten
<1>3. ASSUME NEW p \in Port, BlockPort(p) PROVE Goal
  <2>1. PICK l : l = port[p].listener
    OBVIOUS
  <2>2. CASE MustDisable(l)
    <3>1. l \in Listener /\ listener[l] \in ListenerRow
      BY <2>1, <2>2, OwnedRow DEF AdminInv, MustDisable
    <3>2. /\ Exists(l) /\ listener[l].rowVersion < MaxRowVersion
          /\ listener' = [listener EXCEPT ![l] =
                            WithStatus(listener[l], "disabled")]
      BY <1>3, <2>1, <2>2, <3>1 DEF BlockPort, CanBump, Exists, ListenerRow
    <3>3. /\ WithStatus(listener[l], "disabled") \in ListenerRow
          /\ WithStatus(listener[l], "disabled").status = "disabled"
          /\ WithStatus(listener[l], "disabled").rowVersion =
                listener[l].rowVersion + 1
      BY <3>1, <3>2, WithStatusRow DEF ListenerStatus
    <3>4. QED
      BY <3>1, <3>2, <3>3, OneRowWritten
  <2>3. CASE ~MustDisable(l)
    <3>1. listener' = listener
      BY <1>3, <2>1, <2>3 DEF BlockPort
    <3>2. QED
      BY <3>1, NoRowWritten
  <2>4. QED
    BY <2>2, <2>3
<1>4. ASSUME NEW p \in Port, ReleasePort(p) \/ ReleaseOverEdit(p) PROVE Goal
  <2>1. CASE port[p].listener = NoListener
    <3>1. listener' = listener
      BY <1>4, <2>1 DEF ReleasePort, ReleaseOverEdit
    <3>2. QED
      BY <3>1, NoRowWritten
  <2>2. CASE port[p].listener # NoListener
    <3>1. PICK l \in Listener : l = port[p].listener
      BY <2>2, OwnedRow DEF AdminInv
    <3>2. listener' = [listener EXCEPT ![l] = Deleted]
      BY <1>4, <2>2, <3>1 DEF ReleasePort, ReleaseOverEdit
    <3>3. Deleted.status \notin ListenerStatus
      BY DEF Deleted, ListenerStatus
    <3>4. QED
      BY <3>2, <3>3, OneRowWritten
  <2>3. QED
    BY <2>1, <2>2
<1>5. ASSUME NEW p \in Port, CooldownPort(p) PROVE Goal
  BY <1>5, NoRowWritten DEF CooldownPort
<1>6. ASSUME NEW l \in Listener, NEW p \in Port, NEW v \in ServiceVersion,
             NEW r \in Permission, NEW q \in Policy,
             AllocateListener(l, v, r, q, p)
      PROVE  Goal
  <2>. DEFINE row == [status |-> "reserved", port |-> p, version |-> v,
                      permission |-> r, policy |-> q, rowVersion |-> 1,
                      configuration |-> NoConfiguration]
  <2>1. /\ listener[l] = Absent /\ listener' = [listener EXCEPT ![l] = row]
        /\ row.rowVersion = 1
    BY <1>6 DEF AllocateListener
  <2>. HIDE DEF row
  <2>2. QED
    BY <2>1, AdminAssumption, OneRowWritten
<1>7. ASSUME NEW l \in Listener, NEW p \in Port, AllocateOnOldCatalog(l, p),
             listener'[l] \in ListenerRow, listener'[l].rowVersion = 1
      PROVE  Goal
  <2>1. PICK row : row = listener'[l]
    OBVIOUS
  <2>2. listener[l] = Absent /\ listener' = [listener EXCEPT ![l] = row]
    BY <1>7, <2>1 DEF AllocateOnOldCatalog
  <2>3. QED
    BY <1>7, <2>1, <2>2, AdminAssumption, OneRowWritten
<1>8. ASSUME NEW r \in Permission, DeletePermission(r) \/ RemoveUsedPermission(r)
      PROVE  Goal
  BY <1>8, NoRowWritten DEF DeletePermission, RemoveUsedPermission, portVars
<1>9. ASSUME NEW c \in ConfigurationID, PublishListeners(c) PROVE Goal
  <2>1. ASSUME NEW k \in Listener PROVE RowEvolves(k) /\ RoomFor(k)'
    <3>1. listener'[k] = Activated(listener[k], c)
      BY <1>9 DEF PublishListeners
    <3>2. CASE Exists(k)
      <4>1. listener[k] \in ListenerRow
        BY <3>2, ExistingRow DEF AdminInv, Consistent
      <4>2. /\ listener'[k].rowVersion = listener[k].rowVersion
            /\ listener'[k].status # "disabled" => listener[k].status # "disabled"
        BY <3>1, <4>1 DEF Activated, ListenerRow
      <4>3. RoomFor(k)
        BY DEF RoomFor, AdminInv, RoomToDisable
      <4>4. QED
        BY <3>1, <3>2, <4>2, <4>3
        DEF RowEvolves, RoomFor, MustDisable, Exists, CanBump
    <3>3. CASE ~Exists(k)
      BY <3>1, <3>3 DEF RowEvolves, RoomFor, MustDisable, Exists, Activated
    <3>4. QED
      BY <3>2, <3>3
  <2>2. QED
    BY <2>1
<1>10. QED
  BY <1>1, <1>2, <1>3, <1>4, <1>5, <1>6, <1>7, <1>8, <1>9 DEF CommittedOperation

\* Whatever a transaction has written, it has locked.
LEMMA WritesLocked ==
    ASSUME AdminInv, NEW s \in Session, At(s, "audit")
    PROVE  /\ \A l \in Listener : l \in DOMAIN tx[s].listeners =>
                 ListenerRowOf(l) \in tx[s].locks
           /\ \A p \in Port : p \in DOMAIN tx[s].ports =>
                 PortRowOf(p) \in tx[s].locks
           /\ \A r \in tx[s].dropped : PermissionRowOf(r) \in tx[s].locks
<1>. PICK r : r = tx[s]
  OBVIOUS
<1>. DEFINE Goal ==
       /\ \A l \in Listener : l \in DOMAIN r.listeners => ListenerRowOf(l) \in r.locks
       /\ \A p \in Port : p \in DOMAIN r.ports => PortRowOf(p) \in r.locks
       /\ \A x \in r.dropped : PermissionRowOf(x) \in r.locks
<1>. USE DEF RowEdited, PortHeld, PortWrite, Write, Nothing
<1>1. Updated(r) => Goal
  BY DEF Updated, PortsFollowing
<1>2. PoliciesWritten(r) => Goal
  BY DEF PoliciesWritten
<1>3. Blocked(r) => Goal
  BY DEF Blocked
<1>4. Released(r) => Goal
  BY DEF Released
<1>5. CooledDown(r) => Goal
  BY DEF CooledDown
<1>6. Allocated(r) => Goal
  BY DEF Allocated
<1>7. PermissionDropped(r) => Goal
  BY DEF PermissionDropped, Unwritten
<1>8. SweptAll(r) => Goal
  BY DEF SweptAll, Activating, ListenersSwept, PortsSwept
<1>9. QED
  BY <1>1, <1>2, <1>3, <1>4, <1>5, <1>6, <1>7, <1>8, StageOf

(***************************************************************************)
(* What the other transactions have computed stays right: they hold the    *)
(* rows they computed it from, apart from the row an edit shows, the       *)
(* listener that a block found disabled, and the sweeps, during which      *)
(* nobody commits.                                                         *)
(***************************************************************************)
LEMMA OthersKeep ==
    ASSUME AdminInv, NEW s \in Session, Commit(s), Consistent',
           \A k \in Listener : RowEvolves(k),
           NEW t \in Session, t # s, NEW r, r = tx[t]
    PROVE  InStage(r)'
<1>1. /\ InStage(r) /\ Consistent
      /\ \A row \in r.locks : row \notin tx[s].locks
      /\ EnvironmentRow \notin r.locks
  BY DEF AdminInv, LocksDisjoint, Commit, Free
<1>2. At(s, "audit")
  BY DEF Commit
<1>3. \A l \in Listener : ListenerRowOf(l) \in r.locks => listener'[l] = listener[l]
  BY <1>1, <1>2, WritesLocked, CommitWrites
<1>4. \A p \in Port : PortRowOf(p) \in r.locks => port'[p] = port[p]
  BY <1>1, <1>2, WritesLocked, CommitWrites
<1>5. /\ granted' = granted
      /\ \A x \in permissions : PermissionRowOf(x) \in r.locks => x \in permissions'
  BY <1>1, <1>2, WritesLocked DEF Commit
<1>6. Editing(r) => Editing(r)'
  <2>. SUFFICES ASSUME Editing(r) PROVE Editing(r)'
    OBVIOUS
  <2>1. PICK l \in Listener : l = r.on
    BY DEF Editing
  <2>2. /\ listener[l] # Absent /\ KnowsRow(r) /\ r.seen \in ListenerRow
        /\ Exists(l) => listener[l] \in ListenerRow
    BY <1>1, <2>1, ExistingRow DEF Editing, Consistent
  <2>3. CASE listener'[l] = listener[l]
    BY <2>1, <2>2, <2>3 DEF Editing, KnowsRow, Exists
  <2>4. CASE listener'[l] = Deleted
    <3>1. listener'[l] # Absent /\ ~Exists(l)'
      BY <2>4 DEF Deleted, Absent, Exists, ListenerStatus
    <3>2. QED
      BY <2>1, <3>1 DEF Editing, KnowsRow
  <2>5. CASE /\ Exists(l) /\ listener'[l] \in ListenerRow
             /\ listener'[l].rowVersion = listener[l].rowVersion + 1
    <3>1. /\ r.seen.rowVersion \in Int /\ listener[l].rowVersion \in Int
          /\ r.seen.rowVersion <= listener[l].rowVersion
      BY <2>1, <2>2, <2>5 DEF KnowsRow, ListenerRow
    <3>2. /\ r.seen.rowVersion <= listener'[l].rowVersion
          /\ listener'[l].rowVersion # r.seen.rowVersion
      BY <2>5, <3>1
    <3>3. listener'[l] # Absent
      BY <2>5 DEF ListenerRow, ListenerStatus, Absent
    <3>4. QED
      BY <2>1, <3>2, <3>3 DEF Editing, KnowsRow
  <2>6. ASSUME NEW c \in ConfigurationID, listener'[l] = Activated(listener[l], c)
        PROVE  Editing(r)'
    <3>1. CASE ~Exists(l)
      BY <2>3, <2>6, <3>1 DEF Activated, Exists
    <3>2. CASE Exists(l)
      <4>1. /\ listener'[l] \in ListenerRow
            /\ listener'[l].rowVersion = listener[l].rowVersion
            /\ listener'[l].port = listener[l].port
            /\ listener'[l].version = listener[l].version
            /\ listener'[l].permission = listener[l].permission
            /\ listener'[l].policy = listener[l].policy
            /\ listener'[l].status =
                 IF listener[l].status = "reserved" THEN "active"
                                                    ELSE listener[l].status
        BY <2>2, <2>6, <3>2, ZenonT(30) DEF Activated, ListenerRow, ListenerStatus
      <4>2. listener'[l] # Absent
        BY <4>1 DEF ListenerRow, ListenerStatus, Absent
      <4>3. KnowsRow(r)'
        BY <2>1, <2>2, <3>2, <4>1 DEF KnowsRow, UneditedSince
      <4>4. QED
        BY <2>1, <4>2, <4>3 DEF Editing
    <3>3. QED
      BY <3>1, <3>2
  <2>7. QED
    BY <2>2, <2>3, <2>4, <2>5, <2>6 DEF RowEvolves
<1>7. ASSUME NEW l \in Listener, NEW row, RowEdited(r, l, row)
      PROVE  RowEdited(r, l, row)' /\ listener'[l] = listener[l]
  BY <1>3, <1>7 DEF RowEdited, Exists, CanEdit
<1>8. ASSUME NEW p, NEW status, NEW l, PortHeld(r, p, status, l)
      PROVE  PortHeld(r, p, status, l)' /\ (p \in Port => port'[p] = port[p])
  BY <1>4, <1>8 DEF PortHeld
<1>9. Following(r) => Following(r)'
  BY <1>7 DEF Following
<1>10. Updated(r) => Updated(r)'
  <2>. SUFFICES ASSUME Updated(r) PROVE Updated(r)'
    OBVIOUS
  <2>1. PICK l \in Listener, status \in ListenerStatus :
          /\ RowEdited(r, l, WithStatus(listener[l], status))
          /\ \A p \in Named(l) : PortRowOf(p) \in r.locks
          /\ r.ports = PortsFollowing(l, status)
    BY DEF Updated
  <2>2. /\ RowEdited(r, l, WithStatus(listener[l], status))'
        /\ listener'[l] = listener[l] /\ Exists(l)
    <3>1. PICK row : row = WithStatus(listener[l], status)
      OBVIOUS
    <3>2. RowEdited(r, l, row)' /\ listener'[l] = listener[l]
      BY <1>7, <2>1, <3>1
    <3>3. row = WithStatus(listener[l], status)'
      BY <3>1, <3>2
    <3>4. QED
      BY <2>1, <3>2, <3>3 DEF RowEdited
  <2>3. \A p \in Port : port'[p].listener = l <=> port[p].listener = l
    BY <1>1, <2>2 DEF Consistent, PortOwnership, Exists
  <2>4. Named(l)' = Named(l) /\ \A p \in Named(l) : port'[p] = port[p]
    BY <1>4, <2>1, <2>3 DEF Named
  <2>5. PortsFollowing(l, status)' = PortsFollowing(l, status)
    BY <2>4 DEF PortsFollowing
  <2>6. QED
    BY <2>1, <2>2, <2>4, <2>5 DEF Updated
<1>11. PoliciesWritten(r) => PoliciesWritten(r)'
  BY <1>7 DEF PoliciesWritten
<1>12. Disabling(r) => Disabling(r)'
  BY <1>8 DEF Disabling
<1>13. Blocked(r) => Blocked(r)'
  <2>. SUFFICES ASSUME Blocked(r) PROVE Blocked(r)'
    OBVIOUS
  <2>1. PICK p \in Port :
          LET l == port[p].listener IN
          /\ PortHeld(r, p, "blocked", l)
          /\ \/ ~MustDisable(l) /\ r.listeners = Nothing
             \/ /\ MustDisable(l)
                /\ ListenerRowOf(l) \in r.locks
                /\ r.listeners = Write(l, WithStatus(listener[l], "disabled"))
    BY DEF Blocked
  <2>2. PICK l \in Listener \cup {NoListener} : l = port[p].listener
    BY PortRowWritten DEF PortStatus
  <2>3. PortHeld(r, p, "blocked", l)' /\ port'[p] = port[p]
    BY <1>8, <2>1, <2>2
  <2>4. CASE ~MustDisable(l)
    <3>1. ~MustDisable(l)'
      <4>1. CASE l = NoListener
        BY <4>1 DEF MustDisable
      <4>2. CASE l # NoListener
        <5>1. listener[l].status = "disabled"
          BY <2>4, <4>2 DEF MustDisable
        <5>2. port[p].status \in {"cooldown", "blocked"}
          BY <1>1, <2>2, <4>2, <5>1
          DEF Consistent, StatusAgreement, PortsTypeOK, PortRow, PortStatus,
              Leased
        <5>3. listener'[l].status = "disabled"
          BY <2>2, <2>3, <4>2, <5>2 DEF Consistent, StatusAgreement
        <5>4. QED
          BY <5>3 DEF MustDisable
      <4>3. QED
        BY <4>1, <4>2
    <3>2. r.listeners = Nothing
      BY <2>1, <2>2, <2>4
    <3>3. QED
      BY <2>2, <2>3, <3>1, <3>2 DEF Blocked
  <2>5. CASE MustDisable(l)
    <3>1. /\ ListenerRowOf(l) \in r.locks /\ l \in Listener
          /\ r.listeners = Write(l, WithStatus(listener[l], "disabled"))
      BY <2>1, <2>2, <2>5 DEF MustDisable
    <3>2. listener'[l] = listener[l]
      BY <1>3, <3>1
    <3>3. MustDisable(l)'
      BY <2>5, <3>2 DEF MustDisable
    <3>4. QED
      BY <2>2, <2>3, <3>1, <3>2, <3>3 DEF Blocked
  <2>6. QED
    BY <2>4, <2>5
<1>14. Releasing(r) => Releasing(r)'
  BY DEF Releasing
<1>15. Deleting(r) => Deleting(r)'
  BY <1>8 DEF Deleting
<1>16. Released(r) => Released(r)'
  BY <1>8 DEF Released
<1>17. CooledDown(r) => CooledDown(r)'
  BY <1>8 DEF CooledDown
<1>18. Picking(r) => Picking(r)'
  BY <1>3 DEF Picking
<1>19. Allocated(r) => Allocated(r)'
  BY <1>3, <1>4 DEF Allocated
<1>20. PermissionDropped(r) => PermissionDropped(r)'
  BY <1>5 DEF PermissionDropped
<1>21. ~SweepingListeners(r) /\ ~SweepingPorts(r) /\ ~SweptAll(r)
  BY <1>1 DEF SweepingListeners, SweepingPorts, SweptAll, Activating
<1>22. QED
  BY <1>1, <1>6, <1>9, <1>10, <1>11, <1>12, <1>13, <1>14, <1>15, <1>16, <1>17,
     <1>18, <1>19, <1>20, <1>21
  DEF InStage

LEMMA CommitStep ==
    ASSUME AdminInv, NEW s \in Session, Commit(s)
    PROVE  AdminInv'
<1>1. /\ tx' = [tx EXCEPT ![s] = NoRequest]
      /\ tx \in [Session -> Request] /\ LocksDisjoint
  BY DEF Commit, AdminInv
<1>2. CommittedOperation
  BY CommitIsOperation
<1>3. Consistent'
  BY <1>2, CommitConsistent
<1>4. \A k \in Listener : RowEvolves(k) /\ RoomFor(k)'
  BY <1>2, CommitRows
<1>5. RoomToDisable'
  BY <1>4 DEF RoomToDisable, RoomFor
<1>6. tx' \in [Session -> Request]
  BY <1>1, EmptyRequest
<1>7. LocksDisjoint'
  BY <1>1 DEF LocksDisjoint, NoRequest
<1>8. ASSUME NEW t \in Session
      PROVE  InStage(tx[t])'
  <2>1. CASE t = s
    <3>1. tx'[t] = NoRequest
      BY <1>1, <2>1
    <3>2. InStage(NoRequest)'
      BY DEF InStage
    <3>3. QED
      BY <3>1, <3>2 DEF InStage
  <2>2. CASE t # s
    <3>1. PICK r : r = tx[t]
      OBVIOUS
    <3>2. InStage(r)'
      BY <1>3, <1>4, <2>2, <3>1, OthersKeep
    <3>3. tx'[t] = r
      BY <1>1, <2>2, <3>1
    <3>4. QED
      BY <3>2, <3>3
  <2>3. QED
    BY <2>1, <2>2
<1>9. QED
  BY <1>3, <1>5, <1>6, <1>7, <1>8 DEF AdminInv

LEMMA AdminStep == AdminInv /\ [AdminNext]_adminVars => AdminInv'
<1>. SUFFICES ASSUME AdminInv, [AdminNext]_adminVars PROVE AdminInv'
  OBVIOUS
<1>1. ASSUME NEW s \in Session, Begin(s) PROVE AdminInv'
  <2>1. RefuseEdit(s) => AdminInv'
    BY RollbackStep DEF RefuseEdit
  <2>2. QED
    BY <1>1, <2>1, OpenEditStep, UpdateListenerRowStep, EditPoliciesStep,
       LockPortToBlockStep, ReadPortToReleaseStep, CoolDownStep,
       CheckCatalogStep, LockUnusedPermissionStep, LockEnvironmentStep,
       ChangeCatalogStep
    DEF Begin
<1>2. ASSUME NEW s \in Session, Statement(s) PROVE AdminInv'
  <2>1. NoPortLeft(s) => AdminInv'
    BY RollbackStep DEF NoPortLeft
  <2>2. QED
    BY <1>2, <2>1, UpdatePortRowStep, DisableListenerStep,
       LockPortToReleaseStep, DeleteListenerStep, PickPortStep,
       SweepListenerStep, FindReservedStep, SweepPortStep, SweepsDoneStep,
       CommitStep
    DEF Statement
<1>3. ASSUME NEW s \in Session, EndDeadlock(s) \/ Fail(s) PROVE AdminInv'
  BY <1>3, RollbackStep DEF EndDeadlock, Fail
<1>4. CASE UNCHANGED adminVars
  <2>1. UNCHANGED portsVars /\ tx' = tx
    BY <1>4 DEF adminVars
  <2>2. Consistent'
    BY <2>1, ConsistentStep DEF AdminInv
  <2>3. RoomToDisable' /\ LocksDisjoint' /\ tx' \in [Session -> Request]
    BY <2>1
    DEF AdminInv, RoomToDisable, LocksDisjoint, MustDisable, Exists, CanBump,
        portsVars, portVars
  <2>4. ASSUME NEW t \in Session PROVE InStage(tx[t])'
    <3>1. PICK r : r = tx[t] /\ InStage(r)
      BY DEF AdminInv
    <3>2. PermissionDropped(r) => PermissionDropped(r)'
      BY <2>1 DEF PermissionDropped, portsVars, catalogVars
    <3>3. InStage(r)'
      BY <2>1, <3>1, <3>2, StageKept DEF portsVars
    <3>4. QED
      BY <2>1, <3>1, <3>3
  <2>5. QED
    BY <2>2, <2>3, <2>4 DEF AdminInv
<1>5. QED
  BY <1>1, <1>2, <1>3, <1>4 DEF AdminNext

LEMMA AdminInvariant == AdminSpec => []AdminInv
BY AdminInvInit, AdminStep, PTL DEF AdminSpec

-----------------------------------------------------------------------------
(***************************************************************************)
(* What the checks of allocations and removals are worth when they commit. *)
(***************************************************************************)

\* What the check of a request has found still is so.
StillChecked(s) ==
    /\ \A r \in tx[s].dropped, l \in Listener :
          Exists(l) => listener[l].permission # r
    /\ \A r \in Permission : Requires(s, r) => r \in permissions

\* A request that was not overtaken can rely on its check.
OverlapInv ==
    /\ overtaken \subseteq {s \in Session : ~Idle(s)}
    /\ \A s \in Session \ overtaken : StillChecked(s)

\* A request that neither requires nor removes a rule.
Neutral(r) == r.op # "allocate" /\ r.dropped = {}

LEMMA ProceedOverlap ==
    ASSUME AdminInv, OverlapInv, NEW s \in Session, NEW new, Proceed(s, new),
           s \notin overtaken' => StillChecked(s)'
    PROVE  OverlapInv'
<1>1. /\ UNCHANGED <<listener, permissions>>
      /\ tx'[s] = new /\ \A t \in Session : t # s => tx'[t] = tx[t]
      /\ overtaken' = IF new.pc = "idle" THEN overtaken \ {s} ELSE overtaken
  BY DEF Proceed, AdminInv, portsVars, portVars, catalogVars
<1>2. ASSUME NEW t \in Session \ overtaken' PROVE StillChecked(t)'
  <2>1. CASE t = s
    BY <1>2, <2>1
  <2>2. CASE t # s
    <3>1. StillChecked(t) /\ tx'[t] = tx[t]
      BY <1>1, <1>2, <2>2 DEF OverlapInv
    <3>2. QED
      BY <1>1, <3>1 DEF StillChecked, Requires, Exists, At
  <2>3. QED
    BY <2>1, <2>2
<1>3. ASSUME NEW t \in overtaken' PROVE t \in Session /\ ~Idle(t)'
  BY <1>1, <1>3 DEF OverlapInv, Idle, At
<1>4. QED
  BY <1>2, <1>3 DEF OverlapInv

LEMMA NeutralOverlap ==
    ASSUME AdminInv, OverlapInv, NEW s \in Session, NEW new, Proceed(s, new),
           Neutral(new)
    PROVE  OverlapInv'
<1>1. tx'[s] = new
  BY DEF Proceed, AdminInv
<1>2. StillChecked(s)'
  BY <1>1 DEF StillChecked, Requires, Neutral
<1>3. QED
  BY <1>2, ProceedOverlap

LEMMA NoRequestNeutral == Neutral(NoRequest)
BY DEF Neutral, NoRequest

\* The statements of the other operations.
LEMMA BeginNeutral ==
    ASSUME NEW s \in Session,
           \/ \E l \in Listener : OpenEdit(s, l)
           \/ RefuseEdit(s)
           \/ \E p \in Port : LockPortToBlock(s, p)
           \/ \E p \in Port : ReadPortToRelease(s, p)
           \/ \E p \in Port : CoolDown(s, p)
           \/ \E c \in ConfigurationID : LockEnvironment(s, c)
    PROVE  \E new : Proceed(s, new) /\ Neutral(new)
<1>. DEFINE Goal == \E new : Proceed(s, new) /\ Neutral(new)
<1>1. ASSUME NEW l \in Listener, OpenEdit(s, l) PROVE Goal
  <2>. DEFINE new == [NoRequest EXCEPT !.pc = "editing", !.on = l,
                                       !.seen = listener[l]]
  <2>1. Proceed(s, new)
    BY <1>1 DEF OpenEdit
  <2>2. Neutral(new)
    BY DEF Neutral, NoRequest
  <2>3. QED
    BY <2>1, <2>2
<1>2. RefuseEdit(s) => Goal
  BY NoRequestNeutral DEF RefuseEdit, Rollback
<1>3. ASSUME NEW p \in Port, LockPortToBlock(s, p) PROVE Goal
  <2>. DEFINE l == port[p].listener
              new == [NoRequest EXCEPT
                        !.pc = IF l = NoListener THEN "audit" ELSE "disable",
                        !.op = "block", !.on = l, !.port = p,
                        !.locks = {PortRowOf(p)},
                        !.ports = PortWrite(p, "blocked", l)]
  <2>1. Proceed(s, new)
    BY <1>3 DEF LockPortToBlock
  <2>2. Neutral(new)
    BY DEF Neutral, NoRequest
  <2>3. QED
    BY <2>1, <2>2
<1>4. ASSUME NEW p \in Port, ReadPortToRelease(s, p) PROVE Goal
  <2>. DEFINE l == port[p].listener
              new == [NoRequest EXCEPT
                        !.pc = "release", !.op = "release", !.port = p, !.on = l,
                        !.seen = IF l = NoListener THEN Absent
                                 ELSE [status |-> listener[l].status]]
  <2>1. Proceed(s, new)
    BY <1>4 DEF ReadPortToRelease
  <2>2. Neutral(new)
    BY DEF Neutral, NoRequest
  <2>3. QED
    BY <2>1, <2>2
<1>5. ASSUME NEW p \in Port, CoolDown(s, p) PROVE Goal
  <2>. DEFINE new == [NoRequest EXCEPT
                        !.pc = "audit", !.op = "cooldown",
                        !.locks = {PortRowOf(p)},
                        !.ports = PortWrite(p, "cooldown", port[p].listener)]
  <2>1. Proceed(s, new)
    BY <1>5 DEF CoolDown
  <2>2. Neutral(new)
    BY DEF Neutral, NoRequest
  <2>3. QED
    BY <2>1, <2>2
<1>6. ASSUME NEW c \in ConfigurationID, LockEnvironment(s, c) PROVE Goal
  <2>. DEFINE todo == {ListenerRowOf(l) : l \in {l \in Listener : Exists(l)}}
              new == [NoRequest EXCEPT
                        !.pc = "sweep_listeners", !.op = "activate",
                        !.stamp = c, !.locks = {EnvironmentRow}, !.todo = todo]
  <2>1. Proceed(s, new)
    BY <1>6 DEF LockEnvironment
  <2>2. Neutral(new)
    BY DEF Neutral, NoRequest
  <2>3. QED
    BY <2>1, <2>2
<1>7. QED
  BY <1>1, <1>2, <1>3, <1>4, <1>5, <1>6

\* A further statement of a neutral request.
LEMMA StatementNeutral ==
    ASSUME AdminInv, NEW s \in Session,
           \/ \E status \in ListenerStatus : UpdateListenerRow(s, status)
           \/ \E q \in Policy : UpdatePolicies(s, q)
           \/ UpdatePortRow(s) \/ DisableListener(s)
           \/ LockPortToRelease(s) \/ DeleteListener(s)
           \/ NoPortLeft(s)
           \/ \E l \in Listener : SweepListener(s, l)
           \/ FindReserved(s)
           \/ \E p \in Port : SweepPort(s, p)
           \/ SweepsDone(s)
    PROVE  \E new : Proceed(s, new) /\ Neutral(new)
<1>. DEFINE Goal == \E new : Proceed(s, new) /\ Neutral(new)
<1>0. tx[s] \in Request
  BY DEF AdminInv
<1>1. ASSUME NEW status \in ListenerStatus, UpdateListenerRow(s, status)
      PROVE  Goal
  <2>. DEFINE l == tx[s].on
              new == [tx[s] EXCEPT
                !.pc = "follow", !.op = "update", !.seen = Absent,
                !.locks = {ListenerRowOf(l)},
                !.listeners = Write(l, WithStatus(listener[l], status))]
  <2>1. tx[s].dropped = {}
    BY <1>1, StageOf DEF UpdateListenerRow, Editing
  <2>2. Proceed(s, new)
    BY <1>1 DEF UpdateListenerRow
  <2>3. Neutral(new)
    BY <1>0, <2>1 DEF Neutral, Request
  <2>4. QED
    BY <2>2, <2>3
<1>2. ASSUME NEW q \in Policy, UpdatePolicies(s, q) PROVE Goal
  <2>. DEFINE l == tx[s].on
              new == [tx[s] EXCEPT
                !.pc = "audit", !.op = "policies", !.seen = Absent,
                !.locks = {ListenerRowOf(l)},
                !.listeners = Write(l, WithPolicy(listener[l], q))]
  <2>1. tx[s].dropped = {}
    BY <1>2, StageOf DEF UpdatePolicies, Editing
  <2>2. Proceed(s, new)
    BY <1>2 DEF UpdatePolicies
  <2>3. Neutral(new)
    BY <1>0, <2>1 DEF Neutral, Request
  <2>4. QED
    BY <2>2, <2>3
<1>3. ASSUME UpdatePortRow(s) PROVE Goal
  <2>. DEFINE l == tx[s].on
              new == [tx[s] EXCEPT
                !.pc = "audit",
                !.locks = @ \cup {PortRowOf(p) : p \in Named(l)},
                !.ports = [p \in Named(l) |-> [port[p] EXCEPT !.status =
                              PortStatusFor(tx[s].listeners[l].status)]]]
  <2>1. Neutral(tx[s])
    BY <1>3, StageOf DEF UpdatePortRow, Following, Neutral
  <2>2. Proceed(s, new)
    BY <1>3 DEF UpdatePortRow
  <2>3. Neutral(new)
    BY <1>0, <2>1 DEF Neutral, Request
  <2>4. QED
    BY <2>2, <2>3
<1>4. ASSUME DisableListener(s) PROVE Goal
  <2>. DEFINE l == tx[s].on
              kept == [tx[s] EXCEPT !.pc = "audit"]
              written == [tx[s] EXCEPT
                !.pc = "audit", !.locks = @ \cup {ListenerRowOf(l)},
                !.listeners = Write(l, WithStatus(listener[l], "disabled"))]
  <2>1. Neutral(tx[s])
    BY <1>4, StageOf DEF DisableListener, Disabling, Neutral
  <2>2. Proceed(s, kept) \/ Proceed(s, written)
    BY <1>4 DEF DisableListener
  <2>3. Neutral(kept) /\ Neutral(written)
    BY <1>0, <2>1 DEF Neutral, Request
  <2>4. QED
    BY <2>2, <2>3
<1>5. ASSUME LockPortToRelease(s) PROVE Goal
  <2>. DEFINE p == tx[s].port
              l == port[p].listener
              new == [tx[s] EXCEPT
                !.pc = IF l = NoListener THEN "audit" ELSE "delete",
                !.on = l, !.seen = Absent, !.locks = {PortRowOf(p)},
                !.ports = PortWrite(p, "available", NoListener)]
  <2>1. Neutral(tx[s])
    BY <1>5, StageOf DEF LockPortToRelease, Releasing, Neutral
  <2>2. Proceed(s, NoRequest) \/ Proceed(s, new)
    BY <1>5 DEF LockPortToRelease
  <2>3. Neutral(NoRequest) /\ Neutral(new)
    BY <1>0, <2>1, NoRequestNeutral DEF Neutral, Request
  <2>4. QED
    BY <2>2, <2>3
<1>6. ASSUME DeleteListener(s) PROVE Goal
  <2>. DEFINE l == tx[s].on
              new == [tx[s] EXCEPT
                !.pc = "audit", !.locks = @ \cup {ListenerRowOf(l)},
                !.listeners = Write(l, Deleted)]
  <2>1. Neutral(tx[s])
    BY <1>6, StageOf DEF DeleteListener, Deleting, Neutral
  <2>2. Proceed(s, new)
    BY <1>6 DEF DeleteListener
  <2>3. Neutral(new)
    BY <1>0, <2>1 DEF Neutral, Request
  <2>4. QED
    BY <2>2, <2>3
<1>7. NoPortLeft(s) => Goal
  BY NoRequestNeutral DEF NoPortLeft, Rollback
<1>8. ASSUME NEW l \in Listener, SweepListener(s, l) PROVE Goal
  <2>. DEFINE new == [tx[s] EXCEPT
                !.todo = @ \ {ListenerRowOf(l)},
                !.locks = @ \cup {ListenerRowOf(l)},
                !.listeners =
                    Over(Write(l, Activated(listener[l], tx[s].stamp)), @)]
  <2>1. Neutral(tx[s])
    BY <1>8, StageOf DEF SweepListener, SweepingListeners, Activating, Neutral
  <2>2. Proceed(s, new)
    BY <1>8 DEF SweepListener
  <2>3. Neutral(new)
    BY <1>0, <2>1 DEF Neutral, Request
  <2>4. QED
    BY <2>2, <2>3
<1>9. ASSUME FindReserved(s) PROVE Goal
  <2>. DEFINE todo == {PortRowOf(p) : p \in {p \in Port : port[p].status = "reserved"}}
              new == [tx[s] EXCEPT !.pc = "sweep_ports", !.todo = todo]
  <2>1. Neutral(tx[s])
    BY <1>9, StageOf DEF FindReserved, SweepingListeners, Activating, Neutral
  <2>2. Proceed(s, new)
    BY <1>9 DEF FindReserved
  <2>3. Neutral(new)
    BY <1>0, <2>1 DEF Neutral, Request
  <2>4. QED
    BY <2>2, <2>3
<1>10. ASSUME NEW p \in Port, SweepPort(s, p) PROVE Goal
  <2>. DEFINE new == [tx[s] EXCEPT
                !.todo = @ \ {PortRowOf(p)},
                !.locks = @ \cup {PortRowOf(p)},
                !.ports = IF port[p].status = "reserved"
                          THEN Over(PortWrite(p, "active", port[p].listener), @)
                          ELSE @]
  <2>1. Neutral(tx[s])
    BY <1>10, StageOf DEF SweepPort, SweepingPorts, Activating, Neutral
  <2>2. Proceed(s, new)
    BY <1>10 DEF SweepPort
  <2>3. Neutral(new)
    BY <1>0, <2>1 DEF Neutral, Request
  <2>4. QED
    BY <2>2, <2>3
<1>11. ASSUME SweepsDone(s) PROVE Goal
  <2>. DEFINE new == [tx[s] EXCEPT !.pc = "audit"]
  <2>1. Neutral(tx[s])
    BY <1>11, StageOf DEF SweepsDone, SweepingPorts, Activating, Neutral
  <2>2. Proceed(s, new)
    BY <1>11 DEF SweepsDone
  <2>3. Neutral(new)
    BY <1>0, <2>1 DEF Neutral, Request
  <2>4. QED
    BY <2>2, <2>3
<1>12. QED
  BY <1>1, <1>2, <1>3, <1>4, <1>5, <1>6, <1>7, <1>8, <1>9, <1>10, <1>11

\* The two checks, and the INSERT of the listener that was checked.
LEMMA CheckCatalogOverlap ==
    ASSUME AdminInv, OverlapInv, NEW s \in Session, NEW l \in Listener,
           NEW v \in ServiceVersion, NEW r \in Permission,
           CheckCatalog(s, l, v, r)
    PROVE  OverlapInv'
<1>. DEFINE new == [NoRequest EXCEPT
                      !.pc = "pick", !.op = "allocate", !.on = l,
                      !.seen = [version |-> v, permission |-> r],
                      !.locks = {ListenerRowOf(l)}]
<1>1. Proceed(s, new) /\ r \in permissions
  BY DEF CheckCatalog
<1>2. new.pc = "pick" /\ new.seen.permission = r /\ new.dropped = {}
  BY DEF NoRequest
<1>. HIDE DEF new
<1>3. tx'[s] = new /\ permissions' = permissions
  BY <1>1 DEF Proceed, AdminInv, portsVars, catalogVars
<1>4. StillChecked(s)'
  BY <1>1, <1>2, <1>3 DEF StillChecked, Requires, At
<1>5. QED
  BY <1>1, <1>4, ProceedOverlap

LEMMA LockUnusedOverlap ==
    ASSUME AdminInv, OverlapInv, NEW s \in Session, NEW r \in Permission,
           LockUnusedPermission(s, r)
    PROVE  OverlapInv'
<1>. DEFINE new == [NoRequest EXCEPT
                      !.pc = "audit", !.op = "drop",
                      !.locks = {PermissionRowOf(r)}, !.dropped = {r}]
<1>1. /\ Proceed(s, new)
      /\ \A l \in Listener : Exists(l) => listener[l].permission # r
  BY DEF LockUnusedPermission
<1>2. new.op = "drop" /\ new.dropped = {r}
  BY DEF NoRequest
<1>. HIDE DEF new
<1>3. tx'[s] = new /\ listener' = listener
  BY <1>1 DEF Proceed, AdminInv, portsVars, portVars
<1>4. StillChecked(s)'
  BY <1>1, <1>2, <1>3 DEF StillChecked, Requires, Exists
<1>5. QED
  BY <1>1, <1>4, ProceedOverlap

LEMMA PickPortOverlap ==
    ASSUME AdminInv, OverlapInv, NEW s \in Session, NEW p \in Port,
           NEW q \in Policy, PickPort(s, p, q)
    PROVE  OverlapInv'
<1>1. Picking(tx[s]) /\ tx[s] \in Request
  BY StageOf DEF PickPort, AdminInv
<1>2. PICK new : new = [tx[s] EXCEPT
          !.pc = "audit", !.locks = @ \cup {PortRowOf(p)},
          !.listeners = Write(tx[s].on, Reserved(s, p, q)), !.seen = Absent,
          !.ports = PortWrite(p, "reserved", tx[s].on)]
  OBVIOUS
<1>3. Proceed(s, new)
  BY <1>2 DEF PickPort
<1>4. /\ new.pc = "audit" /\ new.op = "allocate" /\ new.on = tx[s].on
      /\ new.dropped = {}
      /\ new.listeners = Write(tx[s].on, Reserved(s, p, q))
  BY <1>1, <1>2 DEF Request, Picking
<1>5. new.listeners[new.on].permission = tx[s].seen.permission
  <2>1. PICK row : row = Reserved(s, p, q)
    OBVIOUS
  <2>2. new.listeners[new.on] = row
    BY <1>4, <2>1 DEF Write
  <2>3. QED
    BY <2>1, <2>2 DEF Reserved
<1>6. tx'[s] = new /\ permissions' = permissions /\ overtaken' = overtaken
  BY <1>3, <1>4 DEF Proceed, AdminInv, portsVars, catalogVars
<1>7. ASSUME s \notin overtaken' PROVE StillChecked(s)'
  <2>1. StillChecked(s)
    BY <1>6, <1>7 DEF OverlapInv
  <2>2. \A r \in Permission : Requires(s, r)' => Requires(s, r)
    BY <1>1, <1>4, <1>5, <1>6 DEF Requires, At, Picking
  <2>3. QED
    BY <1>4, <1>6, <2>1, <2>2 DEF StillChecked
<1>8. QED
  BY <1>3, <1>7, ProceedOverlap

\* A transaction that has written one row of listeners commits that one.
LEMMA OneRowCommitted ==
    ASSUME NEW key, NEW row, NEW written, written = Write(key, row),
           NEW l \in DOMAIN written
    PROVE  l = key /\ written[l] = row
BY DEF Write

\* Where the rule of a listener comes from that a commit leaves behind.
LEMMA CommittedRules ==
    ASSUME AdminInv, NEW s \in Session, Commit(s), NEW l \in Listener,
           Exists(l)'
    PROVE  \/ Exists(l) /\ listener'[l].permission = listener[l].permission
           \/ /\ Requires(s, listener'[l].permission)
              /\ listener'[l].permission \in Permission
              /\ tx[s].dropped = {}
<1>. DEFINE Kept == Exists(l) /\ listener'[l].permission = listener[l].permission
            New == /\ Requires(s, listener'[l].permission)
                   /\ listener'[l].permission \in Permission
                   /\ tx[s].dropped = {}
<1>1. CASE l \notin DOMAIN tx[s].listeners
  <2>1. listener'[l] = listener[l]
    BY <1>1, CommitWrites
  <2>2. QED
    BY <2>1 DEF Exists
<1>2. ASSUME l \in DOMAIN tx[s].listeners PROVE Kept \/ New
  <2>0. listener'[l] = tx[s].listeners[l]
    BY <1>2, CommitWrites
  <2>1. ASSUME Updated(tx[s]) PROVE Kept
    <3>1. PICK k \in Listener, status \in ListenerStatus :
            RowEdited(tx[s], k, WithStatus(listener[k], status))
      BY <2>1 DEF Updated
    <3>2. l = k /\ listener'[l] = WithStatus(listener[l], status)
      BY <1>2, <2>0, <3>1, OneRowCommitted DEF RowEdited
    <3>3. Exists(l) /\ CanEdit(l)
      BY <3>1, <3>2 DEF RowEdited
    <3>4. QED
      BY <3>2, <3>3, EditableRow, WithStatusRow
  <2>2. ASSUME PoliciesWritten(tx[s]) PROVE Kept
    <3>1. PICK k \in Listener, q \in Policy :
            RowEdited(tx[s], k, WithPolicy(listener[k], q))
      BY <2>2 DEF PoliciesWritten
    <3>2. l = k /\ listener'[l] = WithPolicy(listener[l], q)
      BY <1>2, <2>0, <3>1, OneRowCommitted DEF RowEdited
    <3>3. Exists(l) /\ CanEdit(l)
      BY <3>1, <3>2 DEF RowEdited
    <3>4. QED
      BY <3>2, <3>3, EditableRow, WithPolicyRow
  <2>3. ASSUME Blocked(tx[s]) PROVE Kept
    <3>1. PICK p \in Port :
            LET k == port[p].listener IN
            \/ tx[s].listeners = Nothing
            \/ MustDisable(k) /\ tx[s].listeners =
                  Write(k, WithStatus(listener[k], "disabled"))
      BY <2>3 DEF Blocked
    <3>2. PICK k : k = port[p].listener
      OBVIOUS
    <3>3. MustDisable(k) /\ l = k
            /\ listener'[l] = WithStatus(listener[l], "disabled")
      <4>1. /\ MustDisable(k)
            /\ tx[s].listeners = Write(k, WithStatus(listener[k], "disabled"))
        BY <1>2, <3>1, <3>2, NothingIs
      <4>2. QED
        BY <1>2, <2>0, <4>1, OneRowCommitted
    <3>4. listener[l] \in ListenerRow
      BY <3>2, <3>3, OwnedRow DEF AdminInv, MustDisable
    <3>5. Exists(l) /\ listener[l].rowVersion < MaxRowVersion
      BY <3>3, <3>4 DEF AdminInv, RoomToDisable, CanBump, Exists, ListenerRow
    <3>6. QED
      BY <3>3, <3>4, <3>5, WithStatusRow DEF ListenerStatus
  <2>4. ASSUME Released(tx[s]) PROVE FALSE
    <3>1. PICK k : tx[s].listeners = Nothing \/ tx[s].listeners = Write(k, Deleted)
      BY <2>4 DEF Released
    <3>2. tx[s].listeners = Write(k, Deleted)
      BY <1>2, <3>1, NothingIs
    <3>3. listener'[l] = Deleted
      BY <1>2, <2>0, <3>2, OneRowCommitted
    <3>4. QED
      BY <3>3 DEF Exists, Deleted, ListenerStatus
  <2>5. ASSUME Allocated(tx[s]) PROVE New
    <3>1. PICK p \in Port, v \in ServiceVersion, r \in Permission,
               q \in Policy :
            tx[s].listeners = Write(tx[s].on, NewRow(p, v, r, q))
      BY <2>5 DEF Allocated
    <3>2. l = tx[s].on /\ listener'[l] = NewRow(p, v, r, q)
      BY <1>2, <2>0, <3>1, OneRowCommitted
    <3>3. QED
      BY <2>0, <2>5, <3>2 DEF Requires, At, Allocated, NewRow
  <2>6. ASSUME SweptAll(tx[s]) PROVE Kept
    <3>1. /\ Exists(l) /\ tx[s].stamp \in ConfigurationID
          /\ listener'[l] = Activated(listener[l], tx[s].stamp)
      BY <1>2, <2>0, <2>6 DEF SweptAll, Activating, ListenersSwept
    <3>2. listener[l] \in ListenerRow
      BY <3>1, ExistingRow DEF AdminInv, Consistent
    <3>3. QED
      BY <3>1, <3>2, ActivatedRow
  <2>7. CASE CooledDown(tx[s]) \/ PermissionDropped(tx[s])
    BY <1>2, <2>7, NothingIs DEF CooledDown, PermissionDropped, Unwritten
  <2>8. QED
    BY <2>1, <2>2, <2>3, <2>4, <2>5, <2>6, <2>7, StageOf DEF Commit
<1>3. QED
  BY <1>1, <1>2

\* Whoever is not overtaken by a commit keeps what it has checked.
LEMMA CommitOverlap ==
    ASSUME AdminInv, OverlapInv, NEW s \in Session, Commit(s)
    PROVE  OverlapInv'
<1>1. /\ permissions' = permissions \ tx[s].dropped
      /\ tx'[s] = NoRequest /\ \A t \in Session : t # s => tx'[t] = tx[t]
      /\ overtaken' = (overtaken \ {s}) \cup {t \in Session : Opposed(s, t)}
  BY DEF Commit, AdminInv
<1>3. ASSUME NEW t \in Session \ overtaken' PROVE StillChecked(t)'
  <2>1. CASE t = s
    BY <1>1, <2>1 DEF StillChecked, Requires, NoRequest
  <2>2. CASE t # s
    <3>1. /\ tx'[t] = tx[t] /\ StillChecked(t) /\ ~Opposed(s, t)
      BY <1>1, <1>3, <2>2 DEF OverlapInv
    <3>2. ASSUME NEW r \in tx[t].dropped, NEW l \in Listener, Exists(l)'
          PROVE  listener'[l].permission # r
      <4>1. r \in Permission
        BY <3>2, RequestIs DEF AdminInv
      <4>2. Exists(l) => listener[l].permission # r
        BY <3>1, <3>2 DEF StillChecked
      <4>3. ~Requires(s, r)
        BY <3>1, <3>2, <4>1 DEF Opposed
      <4>4. QED
        BY <3>2, <4>2, <4>3, CommittedRules
    <3>3. ASSUME NEW r \in Permission, Requires(t, r) PROVE r \in permissions'
      <4>1. r \in permissions
        BY <3>1, <3>3 DEF StillChecked
      <4>2. r \notin tx[s].dropped
        BY <3>1, <3>3 DEF Opposed
      <4>3. QED
        BY <1>1, <4>1, <4>2
    <3>4. \A r \in Permission : Requires(t, r)' => Requires(t, r)
      BY <3>1 DEF Requires, At
    <3>5. QED
      BY <3>1, <3>2, <3>3, <3>4 DEF StillChecked
  <2>3. QED
    BY <2>1, <2>2
<1>4. ASSUME NEW t \in overtaken' PROVE t \in Session /\ ~Idle(t)'
  <2>1. ASSUME NEW k \in Session, Idle(k)
        PROVE  ~Opposed(s, k)
    <3>1. tx[k] = NoRequest
      BY <2>1, StageOf DEF Idle
    <3>2. QED
      BY <3>1 DEF Opposed, Requires, NoRequest
  <2>2. ~Opposed(s, s)
    <3>1. Allocated(tx[s]) \/ tx[s].op # "allocate"
      BY StageOf
      DEF Commit, Updated, PoliciesWritten, Blocked, Released, CooledDown,
          PermissionDropped, SweptAll, Activating
    <3>2. Allocated(tx[s]) => tx[s].dropped = {}
      BY DEF Allocated
    <3>3. QED
      BY <3>1, <3>2 DEF Opposed, Requires
  <2>3. t \in Session /\ t # s /\ ~Idle(t)
    BY <1>1, <1>4, <2>1, <2>2 DEF OverlapInv
  <2>4. QED
    BY <1>1, <2>3 DEF Idle, At
<1>5. QED
  BY <1>3, <1>4 DEF OverlapInv

LEMMA ChangeCatalogOverlap ==
    ASSUME OverlapInv, NEW s \in Session, ChangeCatalog(s)
    PROVE  OverlapInv'
<1>1. permissions \subseteq permissions' /\ UNCHANGED <<listener, tx, overtaken>>
  BY PermissionsStay DEF ChangeCatalog, portVars
<1>2. QED
  BY <1>1 DEF OverlapInv, StillChecked, Requires, Exists, Idle, At

LEMMA OverlapStep ==
    AdminInv /\ OverlapInv /\ [AdminNext]_adminVars => OverlapInv'
<1>. SUFFICES ASSUME AdminInv, OverlapInv, [AdminNext]_adminVars
              PROVE  OverlapInv'
  OBVIOUS
<1>1. ASSUME NEW s \in Session, Begin(s) PROVE OverlapInv'
  <2>1. ASSUME NEW new, Proceed(s, new), Neutral(new) PROVE OverlapInv'
    BY <2>1, NeutralOverlap
  <2>2. QED
    BY <1>1, <2>1, BeginNeutral, StatementNeutral, CheckCatalogOverlap,
       LockUnusedOverlap, ChangeCatalogOverlap
    DEF Begin
<1>2. ASSUME NEW s \in Session, Statement(s) PROVE OverlapInv'
  <2>1. ASSUME NEW new, Proceed(s, new), Neutral(new) PROVE OverlapInv'
    BY <2>1, NeutralOverlap
  <2>2. QED
    BY <1>2, <2>1, StatementNeutral, PickPortOverlap, CommitOverlap
    DEF Statement
<1>3. ASSUME NEW s \in Session, EndDeadlock(s) \/ Fail(s) PROVE OverlapInv'
  BY <1>3, NoRequestNeutral, NeutralOverlap DEF EndDeadlock, Fail, Rollback
<1>4. CASE UNCHANGED adminVars
  BY <1>4
  DEF adminVars, portsVars, portVars, catalogVars, OverlapInv, StillChecked,
      Requires, Exists, Idle, At
<1>5. QED
  BY <1>1, <1>2, <1>3, <1>4 DEF AdminNext

LEMMA OverlapInvariant == AdminSpec => [](AdminInv /\ OverlapInv)
<1>1. AdminInit => OverlapInv
  BY DEF AdminInit, OverlapInv, StillChecked, Requires, NoRequest
<1>2. QED
  BY <1>1, AdminInvInit, AdminStep, OverlapStep, PTL DEF AdminSpec

-----------------------------------------------------------------------------
(***************************************************************************)
(* No statement of any session writes a row that its schema would refuse,  *)
(* and no two transactions hold one row.                                   *)
(***************************************************************************)
THEOREM AdminTypeCorrect == AdminSpec => []AdminTypeOK
<1>1. AdminInv /\ OverlapInv => AdminTypeOK
  <2>. SUFFICES ASSUME AdminInv, OverlapInv PROVE AdminTypeOK
    OBVIOUS
  <2>1. PortsTypeOK
    BY DEF AdminInv, Consistent
  <2>2. ASSUME NEW s \in Session
        PROVE  /\ tx[s].locks \subseteq Rows /\ tx[s].todo \subseteq Rows
               /\ DOMAIN tx[s].ports \subseteq Port
               /\ DOMAIN tx[s].listeners \subseteq Listener
               /\ \A p \in DOMAIN tx[s].ports : tx[s].ports[p] \in PortRow
               /\ \A l \in DOMAIN tx[s].listeners :
                     tx[s].listeners[l] \in ListenerRow \cup {Deleted}
               /\ \A t \in Session \ {s} : tx[s].locks \cap tx[t].locks = {}
    <3>1. tx[s] \in Request
      BY DEF AdminInv
    <3>2. /\ tx[s].locks \subseteq Rows /\ tx[s].todo \subseteq Rows
          /\ tx[s].ports \in Written(Port, PortRow)
          /\ tx[s].listeners \in Written(Listener, ListenerRow \cup {Deleted})
      BY <3>1, RequestIs
    <3>3. /\ DOMAIN tx[s].ports \subseteq Port
          /\ \A p \in DOMAIN tx[s].ports : tx[s].ports[p] \in PortRow
      BY <3>2, WrittenIs
    <3>4. /\ DOMAIN tx[s].listeners \subseteq Listener
          /\ \A l \in DOMAIN tx[s].listeners :
                tx[s].listeners[l] \in ListenerRow \cup {Deleted}
      BY <3>2, WrittenIs
    <3>5. \A t \in Session \ {s} : tx[s].locks \cap tx[t].locks = {}
      BY DEF AdminInv, LocksDisjoint
    <3>6. QED
      BY <3>2, <3>3, <3>4, <3>5
  <2>3. QED
    BY <2>1, <2>2 DEF AdminTypeOK, OverlapInv
<1>2. QED
  BY <1>1, OverlapInvariant, PTL

(***************************************************************************)
(* The inverse references of ports and listeners hold at every commit of   *)
(* operations that overlap, the three races included.                      *)
(***************************************************************************)
THEOREM OwnershipUnderOverlap == AdminSpec => []PortOwnership
<1>1. AdminInv => PortOwnership
  BY DEF AdminInv, Consistent
<1>2. QED
  BY <1>1, AdminInvariant, PTL

(***************************************************************************)
(* The statuses of ports and listeners agree whatever overlaps: the block  *)
(* that finds its listener disabled needs no lock on it, and no activation *)
(* publishes a listener whose port it did not reach.                       *)
(***************************************************************************)
THEOREM AgreementUnderOverlap == AdminSpec => []StatusAgreement
<1>1. AdminInv => StatusAgreement
  BY DEF AdminInv, Consistent
<1>2. QED
  BY <1>1, AdminInvariant, PTL

(***************************************************************************)
(* An accepted edit never overwrites a change its administrator did not    *)
(* see.                                                                    *)
(***************************************************************************)
THEOREM EditsNotLost == AdminSpec => []NoLostEdit
<1>1. AdminInv => NoLostEdit
  BY StageOf DEF NoLostEdit, Editing, KnowsRow, StillSeen
<1>2. QED
  BY <1>1, AdminInvariant, PTL

\* What an allocation holds, only a release that holds nothing waits for.
LEMMA AwaitedAllocation ==
    ASSUME AdminInv, NEW s \in Session, tx[s].op = "allocate",
           NEW t \in Session, WaitsFor(t, s)
    PROVE  tx[t].locks = {}
<1>1. PICK row : row \in Needs(t) /\ row \in tx[s].locks
  BY DEF WaitsFor
<1>2. /\ At(s, "pick") => Picking(tx[s])
      /\ At(s, "audit") => Allocated(tx[s])
      /\ At(s, "pick") \/ At(s, "audit")
  <2>1. NoRequest.op = "none"
    BY DEF NoRequest
  <2>2. InStage(tx[s])
    BY DEF AdminInv
  <2>3. QED
    BY <2>1, <2>2
    DEF At, InStage, Editing, Following, Disabling, Releasing, Deleting,
        Picking, SweepingListeners, SweepingPorts, SweptAll, Activating,
        Updated, PoliciesWritten, Blocked, Released, CooledDown, Allocated,
        PermissionDropped
<1>3. \/ \E l \in Listener : row = ListenerRowOf(l) /\ listener[l] = Absent
      \/ \E p \in Port : row = PortRowOf(p) /\ port[p].status = "available"
  BY <1>1, <1>2 DEF Picking, Allocated
<1>4. /\ \A l \in Listener : row = ListenerRowOf(l) => ~Exists(l)
      /\ \A p \in Port : row = PortRowOf(p) =>
            port[p].status = "available" /\ port[p].listener = NoListener
      /\ row # EnvironmentRow
  BY <1>3, RowNames
  DEF Exists, Absent, ListenerStatus, AdminInv, Consistent, StatusAgreement
<1>5. tx[t].pc \in Stages
  BY RequestIs DEF AdminInv
<1>6. ~At(t, "follow")
  <2>. SUFFICES ASSUME At(t, "follow") PROVE FALSE
    OBVIOUS
  <2>1. tx[t].on \in Listener
    BY StageOf DEF Following
  <2>2. \E p \in Port : row = PortRowOf(p) /\ port[p].listener = tx[t].on
    BY <1>1 DEF Needs, At, Named
  <2>3. QED
    BY <1>4, <2>1, <2>2, PortsAssumption
<1>7. ~At(t, "disable") /\ ~At(t, "delete")
  <2>. SUFFICES ASSUME At(t, "disable") \/ At(t, "delete") PROVE FALSE
    OBVIOUS
  <2>1. /\ tx[t].port \in Port
        /\ tx[t].on = port[tx[t].port].listener /\ tx[t].on # NoListener
    BY StageOf DEF Disabling, Deleting
  <2>2. tx[t].on \in Listener /\ Exists(tx[t].on)
    BY <2>1, OwnedRow DEF AdminInv, Exists, ListenerRow
  <2>3. row = ListenerRowOf(tx[t].on)
    BY <1>1 DEF Needs, At
  <2>4. QED
    BY <1>4, <2>2, <2>3
<1>8. ~At(t, "audit")
  BY <1>1, <1>4 DEF Needs, At
<1>9. ~At(t, "sweep_listeners") /\ ~At(t, "sweep_ports")
  <2>. SUFFICES ASSUME At(t, "sweep_listeners") \/ At(t, "sweep_ports")
                PROVE  FALSE
    OBVIOUS
  <2>1. row \in tx[t].todo
    BY <1>1 DEF Needs, At
  <2>2. \/ \E l \in Listener : Exists(l) /\ row = ListenerRowOf(l)
        \/ \E p \in Port : port[p].status = "reserved" /\ row = PortRowOf(p)
    BY <2>1, StageOf DEF SweepingListeners, SweepingPorts
  <2>3. QED
    BY <1>4, <2>2
<1>10. ~At(t, "idle") /\ ~At(t, "editing") /\ ~At(t, "pick")
  <2>. SUFFICES ASSUME At(t, "idle") \/ At(t, "editing") \/ At(t, "pick")
                PROVE  FALSE
    OBVIOUS
  <2>1. row \in tx[t].todo
    BY <1>1 DEF Needs, At
  <2>2. tx[t].todo = {}
    BY StageOf DEF Editing, Picking, NoRequest
  <2>3. QED
    BY <2>1, <2>2
<1>11. At(t, "release")
  BY <1>5, <1>6, <1>7, <1>8, <1>9, <1>10 DEF At, Stages
<1>12. QED
  BY <1>11, StageOf DEF Releasing

(***************************************************************************)
(* An allocation is never in a cycle of waiting transactions: the only     *)
(* statement that waits for the free port it holds is a release's first    *)
(* lock, and nobody waits for that release.                                *)
(***************************************************************************)
THEOREM AllocationsAvoidDeadlock == AdminSpec => []AllocationsNeverDeadlock
<1>1. AdminInv => AllocationsNeverDeadlock
  <2>. SUFFICES ASSUME AdminInv, NEW group \in SUBSET Session,
                       Deadlocked(group), NEW s \in group,
                       tx[s].op = "allocate"
                PROVE  FALSE
    BY DEF AllocationsNeverDeadlock
  <2>1. PICK t \in group : WaitsFor(t, s)
    BY DEF Deadlocked
  <2>2. tx[t].locks = {}
    BY <2>1, AwaitedAllocation
  <2>3. PICK u \in group : WaitsFor(u, t)
    BY <2>1 DEF Deadlocked
  <2>4. QED
    BY <2>2, <2>3 DEF WaitsFor
<1>2. QED
  BY <1>1, AdminInvariant, PTL

-----------------------------------------------------------------------------
(* The refinement of module Ports *)

\* The instance leaves every name as it is.
LEMMA AtomicOperations == PortsNext => Atomic!PortsNext
<1>1. ListenerNext => Atomic!ListenerNext
  <2>1. CatalogNext => Atomic!CatalogNext
    BY DEF CatalogNext, Atomic!CatalogNext, CreateService,
           Atomic!CreateService, UpdateService, Atomic!UpdateService,
           CreateServiceVersion, Atomic!CreateServiceVersion,
           UpdateServiceVersion, Atomic!UpdateServiceVersion,
           CreateUpstream, Atomic!CreateUpstream, UpdateUpstream,
           Atomic!UpdateUpstream, CreatePermission, Atomic!CreatePermission,
           ChangeGrants, Atomic!ChangeGrants
  <2>. USE DEF portVars, Atomic!portVars, catalogVars, Atomic!catalogVars,
               Exists, Atomic!Exists, ListenerStatus, Atomic!ListenerStatus,
               Leased, Atomic!Leased
  <2>2. \A l, v, r, q, p :
           AllocateListener(l, v, r, q, p) => Atomic!AllocateListener(l, v, r, q, p)
    BY DEF AllocateListener, Atomic!AllocateListener, Available,
           Atomic!Available, Absent, Atomic!Absent
  <2>3. \A l, status, e :
           UpdateListener(l, status, e) => Atomic!UpdateListener(l, status, e)
    BY DEF UpdateListener, Atomic!UpdateListener, CanBump, Atomic!CanBump,
           WithStatus, Atomic!WithStatus, PortStatusFor, Atomic!PortStatusFor
  <2>4. \A l, q, e : UpdateListenerPolicies(l, q, e) =>
                        Atomic!UpdateListenerPolicies(l, q, e)
    BY DEF UpdateListenerPolicies, Atomic!UpdateListenerPolicies, CanBump,
           Atomic!CanBump, WithPolicy, Atomic!WithPolicy
  <2>5. \A p : BlockPort(p) => Atomic!BlockPort(p)
    BY DEF BlockPort, Atomic!BlockPort, MustDisable, Atomic!MustDisable,
           CanBump, Atomic!CanBump, WithStatus, Atomic!WithStatus
  <2>6. \A p : ReleasePort(p) => Atomic!ReleasePort(p)
    BY DEF ReleasePort, Atomic!ReleasePort, Deleted, Atomic!Deleted
  <2>7. \A p : CooldownPort(p) => Atomic!CooldownPort(p)
    BY DEF CooldownPort, Atomic!CooldownPort
  <2>8. \A r : DeletePermission(r) => Atomic!DeletePermission(r)
    BY DEF DeletePermission, Atomic!DeletePermission
  <2>9. QED
    BY <2>1, <2>2, <2>3, <2>4, <2>5, <2>6, <2>7, <2>8
    DEF ListenerNext, Atomic!ListenerNext
<1>2. \A c : PublishListeners(c) => Atomic!PublishListeners(c)
  BY DEF PublishListeners, Atomic!PublishListeners, Activated,
         Atomic!Activated, ListenerStatus, Atomic!ListenerStatus,
         catalogVars, Atomic!catalogVars
<1>3. QED
  BY <1>1, <1>2 DEF PortsNext, Atomic!PortsNext

\* The commit of an edit names the stored row_version.
LEMMA OperationOrRace ==
    ASSUME AdminInv, CommittedOperation
    PROVE  \/ PortsNext
           \/ \E p \in Port : ReleaseOverEdit(p)
           \/ \E l \in Listener, p \in Port : AllocateOnOldCatalog(l, p)
           \/ \E r \in Permission : RemoveUsedPermission(r)
<1>1. \A l \in Listener : Exists(l) /\ CanEdit(l) =>
         listener[l].rowVersion \in 1 .. MaxRowVersion
  BY EditableRow DEF ListenerRow
<1>2. ASSUME NEW l \in Listener, NEW status \in ListenerStatus, CanEdit(l),
             UpdateListener(l, status, listener[l].rowVersion)
      PROVE  PortsNext
  <2>1. listener[l].rowVersion \in 1 .. MaxRowVersion
    BY <1>1, <1>2 DEF UpdateListener
  <2>2. QED
    BY <1>2, <2>1 DEF PortsNext, ListenerNext
<1>3. ASSUME NEW l \in Listener, NEW q \in Policy, CanEdit(l),
             UpdateListenerPolicies(l, q, listener[l].rowVersion)
      PROVE  PortsNext
  <2>1. listener[l].rowVersion \in 1 .. MaxRowVersion
    BY <1>1, <1>3 DEF UpdateListenerPolicies
  <2>2. QED
    BY <1>3, <2>1 DEF PortsNext, ListenerNext
<1>4. QED
  BY <1>2, <1>3 DEF CommittedOperation, PortsNext, ListenerNext

\* Only a commit and a change of the catalogue write committed rows.
LEMMA OthersWriteNothing ==
    ASSUME NEW s \in Session,
           Begin(s) \/ Statement(s) \/ EndDeadlock(s) \/ Fail(s)
    PROVE  ChangeCatalog(s) \/ Commit(s) \/ UNCHANGED portsVars
BY DEF Begin, Statement, EndDeadlock, Fail, OpenEdit, UpdateListenerRow,
       UpdatePolicies, RefuseEdit, LockPortToBlock, ReadPortToRelease,
       CoolDown, CheckCatalog, LockUnusedPermission, LockEnvironment,
       UpdatePortRow, DisableListener, LockPortToRelease, DeleteListener,
       PickPort, NoPortLeft, SweepListener, FindReserved, SweepPort,
       SweepsDone, Rollback, Proceed

(***************************************************************************)
(* Every commit of overlapping transactions is one operation of module     *)
(* Ports, or one of the three races named in AdminTransactions: PortsNext  *)
(* is all that has to be understood of the Store's operations on these     *)
(* tables, and the races all that overlapping adds to it.                  *)
(***************************************************************************)
THEOREM CommitsRefinePorts == AdminSpec => CommitsAreOperations
<1>. DEFINE Operation ==
       \/ Atomic!PortsNext
       \/ \E p \in Port : ReleaseOverEdit(p)
       \/ \E l \in Listener, p \in Port : AllocateOnOldCatalog(l, p)
       \/ \E r \in Permission : RemoveUsedPermission(r)
<1>1. AdminInv /\ [AdminNext]_adminVars => [Operation]_portsVars
  <2>. SUFFICES ASSUME AdminInv, [AdminNext]_adminVars
                PROVE  Operation \/ UNCHANGED portsVars
    OBVIOUS
  <2>1. CASE UNCHANGED adminVars
    BY <2>1 DEF adminVars
  <2>2. ASSUME NEW s \in Session, ChangeCatalog(s) PROVE Operation
    <3>1. PortsNext
      BY <2>2 DEF ChangeCatalog, PortsNext, ListenerNext
    <3>2. QED
      BY <3>1, AtomicOperations
  <2>3. ASSUME NEW s \in Session, Commit(s) PROVE Operation
    BY <2>3, CommitIsOperation, OperationOrRace, AtomicOperations
  <2>4. QED
    BY <2>1, <2>2, <2>3, OthersWriteNothing DEF AdminNext
<1>2. QED
  BY <1>1, AdminInvariant, PTL DEF CommitsAreOperations, AdminSpec

(***************************************************************************)
(* A listener loses its rule, or comes without it, only by the commit of a *)
(* request that the opposite one, an allocation or a removal of that rule, *)
(* had overtaken since its check.                                          *)
(***************************************************************************)
THEOREM RulesSurviveInOrder == AdminSpec => RulesLostByOverlapOnly
<1>. DEFINE Guarded ==
       \A l \in Listener : ~LacksRule(l) /\ LacksRule(l)' =>
          \E s \in overtaken : Commit(s)
<1>1. ASSUME AdminInv, OverlapInv, NEW s \in Session, Commit(s),
             NEW l \in Listener, ~LacksRule(l), LacksRule(l)'
      PROVE  s \in overtaken
  <2>. SUFFICES ASSUME StillChecked(s) PROVE FALSE
    BY <1>1 DEF OverlapInv
  <2>1. /\ Exists(l)' /\ listener'[l].permission \notin permissions'
        /\ permissions' = permissions \ tx[s].dropped
    BY <1>1 DEF LacksRule, Commit
  <2>2. CASE Exists(l) /\ listener'[l].permission = listener[l].permission
    <3>1. listener[l].permission \in tx[s].dropped
      BY <1>1, <2>1, <2>2 DEF LacksRule
    <3>2. QED
      BY <2>2, <3>1 DEF StillChecked
  <2>3. CASE /\ Requires(s, listener'[l].permission)
             /\ listener'[l].permission \in Permission
             /\ tx[s].dropped = {}
    BY <2>1, <2>3 DEF StillChecked
  <2>4. QED
    BY <1>1, <2>1, <2>2, <2>3, CommittedRules
<1>2. AdminInv /\ OverlapInv /\ [AdminNext]_adminVars => [Guarded]_adminVars
  <2>. SUFFICES ASSUME AdminInv, OverlapInv, [AdminNext]_adminVars,
                       NEW l \in Listener, ~LacksRule(l), LacksRule(l)'
                PROVE  \E s \in overtaken : Commit(s)
    BY DEF Guarded
  <2>1. CASE UNCHANGED portsVars
    BY <2>1 DEF LacksRule, Exists, portsVars, portVars, catalogVars
  <2>2. ASSUME NEW s \in Session, ChangeCatalog(s) PROVE FALSE
    <3>1. permissions \subseteq permissions' /\ listener' = listener
      BY <2>2, PermissionsStay DEF ChangeCatalog, portVars
    <3>2. QED
      BY <3>1 DEF LacksRule, Exists
  <2>3. ASSUME NEW s \in Session, Commit(s)
        PROVE  \E t \in overtaken : Commit(t)
    BY <1>1, <2>3
  <2>4. UNCHANGED adminVars => UNCHANGED portsVars
    BY DEF adminVars
  <2>5. QED
    BY <2>1, <2>2, <2>3, <2>4, OthersWriteNothing DEF AdminNext
<1>3. QED
  BY <1>2, OverlapInvariant, PTL DEF RulesLostByOverlapOnly, AdminSpec
=============================================================================
