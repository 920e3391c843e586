------------------------ MODULE ConfigurationsProofs ------------------------
(***************************************************************************)
(* Proofs about Configurations for every set of listeners, ports,          *)
(* administrators and version numbers, and every number of required        *)
(* approvals.  Its operations leave the ports and listeners to those of    *)
(* Ports, by definition, and what is proved of these is used from there.   *)
(***************************************************************************)
EXTENDS Configurations, PortsProofs, FiniteSetTheorems

-----------------------------------------------------------------------------
(* Steps on the port inventory *)

\* An operation on configurations publishes listeners or leaves them alone.
LEMMA PortsStep == [Next]_vars => [PortsNext]_portsVars
<1>. SUFFICES ASSUME [Next]_vars PROVE [PortsNext]_portsVars
  OBVIOUS
<1>. USE DEF PortsNext
<1>1. ASSUME NEW c \in ConfigurationID, NEW a \in Actor, CreateConfiguration(c, a)
      PROVE  UNCHANGED portsVars
  BY <1>1 DEF CreateConfiguration
<1>2. ASSUME NEW c \in ConfigurationID, ValidateConfiguration(c)
      PROVE  UNCHANGED portsVars
  BY <1>2 DEF ValidateConfiguration
<1>3. ASSUME NEW c \in ConfigurationID, NEW a \in Actor, ApproveConfiguration(c, a)
      PROVE  UNCHANGED portsVars
  BY <1>3 DEF ApproveConfiguration
<1>4. ASSUME NEW c \in ConfigurationID, NEW e, ActivateConfiguration(c, e)
      PROVE  PublishListeners(c)
  BY <1>4 DEF ActivateConfiguration
<1>5. ASSUME NEW c \in ConfigurationID, NEW s \in ConfigurationID, NEW a \in Actor,
             RollbackConfiguration(c, a, s)
      PROVE  UNCHANGED portsVars
  BY <1>5 DEF RollbackConfiguration
<1>6. CASE UNCHANGED vars
  BY <1>6 DEF vars
<1>7. QED
  BY <1>1, <1>2, <1>3, <1>4, <1>5, <1>6 DEF Next

-----------------------------------------------------------------------------
(* The inductive invariant *)

ConfigTypeOK ==
    /\ config \in [ConfigurationID -> ConfigurationRow \cup {NoRow}]
    /\ approvals \in [ConfigurationID -> SUBSET Actor]

\* Version numbers are used in order.
NumbersInOrder ==
    \A c, d \in ConfigurationID : d < c /\ Recorded(c) => Recorded(d)

\* A version that awaits its activation is no rollback and has a human author,
\* whose own approval is not among those gathered.
UnpublishedAreOriginal ==
    \A c \in ConfigurationID :
        /\ IsFiniteSet(approvals[c])
        /\ ~Recorded(c) => approvals[c] = {}
        /\ config[c].status \in {"draft", "validated"} =>
              /\ config[c].source = NoConfiguration
              /\ config[c].createdBy \notin approvals[c]

ConfigInv ==
    /\ ConfigTypeOK
    /\ NumbersInOrder
    /\ UnpublishedAreOriginal
    /\ ExactlyOneActive
    /\ SnapshotPortsUnique
    /\ PublishedSnapshotsApproved

-----------------------------------------------------------------------------
(* Rows *)

LEMMA AbsentRow ==
    /\ NoRow \notin ConfigurationRow
    /\ NoRow.status = "absent"
    /\ \A row \in ConfigurationRow : row.status \in ConfigurationStatus
BY DEF NoRow, ConfigurationRow, ConfigurationStatus

\* Being recorded and having the columns of a row are the same thing.
LEMMA RecordedRow ==
    ASSUME ConfigTypeOK, NEW c \in ConfigurationID
    PROVE  /\ Recorded(c) <=> config[c] \in ConfigurationRow
           /\ Recorded(c) <=> config[c] # NoRow
           /\ Published(c) => Recorded(c)
           /\ config[c].status \in ConfigurationStatus \cup {"absent"}
BY AbsentRow DEF ConfigTypeOK, Recorded, Published, ConfigurationStatus

LEMMA SetConfigurationStatus ==
    ASSUME NEW row \in ConfigurationRow, NEW status \in ConfigurationStatus
    PROVE  LET new == [row EXCEPT !.status = status] IN
           /\ new \in ConfigurationRow
           /\ new.status = status
           /\ new.snapshot = row.snapshot
           /\ new.source = row.source
           /\ new.createdBy = row.createdBy
BY DEF ConfigurationRow

LEMMA SupersededRow ==
    ASSUME NEW row \in ConfigurationRow \cup {NoRow}
    PROVE  /\ Supersede(row) \in ConfigurationRow \cup {NoRow}
           /\ Supersede(row).status =
                IF row.status = "active" THEN "superseded" ELSE row.status
           /\ row \in ConfigurationRow =>
                /\ Supersede(row) \in ConfigurationRow
                /\ Supersede(row).snapshot = row.snapshot
                /\ Supersede(row).source = row.source
                /\ Supersede(row).createdBy = row.createdBy
<1>1. CASE row.status = "active"
  <2>1. row \in ConfigurationRow
    BY <1>1, AbsentRow
  <2>. DEFINE new == [row EXCEPT !.status = "superseded"]
  <2>2. "superseded" \in ConfigurationStatus
    BY DEF ConfigurationStatus
  <2>3. /\ new \in ConfigurationRow
        /\ new.status = "superseded"
        /\ new.snapshot = row.snapshot
        /\ new.source = row.source
        /\ new.createdBy = row.createdBy
    BY <2>1, <2>2, SetConfigurationStatus
  <2>4. Supersede(row) = new
    BY <1>1 DEF Supersede
  <2>. HIDE DEF new
  <2>. QED
    BY <1>1, <2>3, <2>4
<1>2. CASE row.status # "active"
  BY <1>2 DEF Supersede
<1>. QED
  BY <1>1, <1>2

LEMMA CaptureRow ==
    ASSUME PortsTypeOK
    PROVE  Capture \in Snapshot
<1>1. ASSUME NEW l \in Listener, Exists(l), listener[l].status # "disabled"
      PROVE  [id |-> l, port |-> listener[l].port, version |-> listener[l].version,
              permission |-> listener[l].permission,
              policy |-> listener[l].policy, status |-> listener[l].status]
                \in SnapshotListener
  <2>1. listener[l] \in ListenerRow
    BY <1>1, ExistingRow
  <2>2. listener[l].status \in Leased
    BY <1>1, <2>1 DEF ListenerRow, ListenerStatus, Leased
  <2>. QED
    BY <2>1, <2>2 DEF ListenerRow, SnapshotListener
<1>2. Capture.listeners \in SUBSET SnapshotListener
  BY <1>1 DEF Capture
<1>. QED
  BY <1>2 DEF Capture, Snapshot, PortsTypeOK, CatalogTypeOK

\* One listener per port in the tables, hence in what is captured of them.
LEMMA CapturePorts ==
    ASSUME PortsTypeOK, PortOwnership,
           NEW s \in Capture.listeners, NEW t \in Capture.listeners,
           s.port = t.port
    PROVE  s = t
<1>. DEFINE Kept(l) ==
         [id |-> l, port |-> listener[l].port, version |-> listener[l].version,
          permission |-> listener[l].permission,
          policy |-> listener[l].policy, status |-> listener[l].status]
<1>1. PICK l \in Listener : Exists(l) /\ s = Kept(l)
  BY DEF Capture
<1>2. PICK k \in Listener : Exists(k) /\ t = Kept(k)
  BY DEF Capture
<1>3. /\ listener[l].port = listener[k].port
      /\ listener[l].port \in Port
  BY <1>1, <1>2, ExistingRow DEF ListenerRow
<1>4. l = k
  BY <1>1, <1>2, <1>3 DEF PortOwnership
<1>. QED
  BY <1>1, <1>2, <1>4

-----------------------------------------------------------------------------
(* What each operation does to the rows *)

\* The columns of c that nothing may change.
ContentsKept(c) ==
    /\ config'[c].snapshot = config[c].snapshot
    /\ config'[c].source = config[c].source
    /\ config'[c].createdBy = config[c].createdBy

LEMMA CreateEffect ==
    ASSUME ConfigTypeOK, PortsTypeOK, NEW c \in ConfigurationID, NEW a \in Actor,
           CreateConfiguration(c, a)
    PROVE  /\ ConfigTypeOK'
           /\ ~Recorded(c) /\ Recorded(c)'
           /\ \A d \in ConfigurationID : d < c => Recorded(d)
           /\ config'[c].status = "draft"
           /\ config'[c].snapshot = Capture
           /\ config'[c].source = NoConfiguration
           /\ config'[c].createdBy = a
           /\ \A d \in ConfigurationID \ {c} : config'[d] = config[d]
           /\ approvals' = approvals
<1>. DEFINE new == [status |-> "draft", snapshot |-> Capture,
                    source |-> NoConfiguration, createdBy |-> a]
<1>1. new \in ConfigurationRow
  BY CaptureRow DEF ConfigurationRow, ConfigurationStatus
<1>2. config' = [config EXCEPT ![c] = new] /\ approvals' = approvals
  BY DEF CreateConfiguration
<1>3. config[c] = NoRow /\ \A d \in ConfigurationID : d < c => config[d] # NoRow
  BY DEF CreateConfiguration, NextID
<1>4. config'[c] = new /\ \A d \in ConfigurationID \ {c} : config'[d] = config[d]
  BY <1>2 DEF ConfigTypeOK
<1>5. ConfigTypeOK'
  BY <1>1, <1>2 DEF ConfigTypeOK
<1>6. /\ new.status = "draft"
      /\ new.snapshot = Capture
      /\ new.source = NoConfiguration
      /\ new.createdBy = a
  OBVIOUS
<1>. HIDE DEF new
<1>7. ~Recorded(c) /\ \A d \in ConfigurationID : d < c => Recorded(d)
  BY <1>3, RecordedRow
<1>8. Recorded(c)'
  BY <1>4, <1>6 DEF Recorded, ConfigurationStatus
<1>. QED
  BY <1>2, <1>4, <1>5, <1>6, <1>7, <1>8

LEMMA ValidateEffect ==
    ASSUME ConfigTypeOK, NEW c \in ConfigurationID, ValidateConfiguration(c)
    PROVE  /\ ConfigTypeOK'
           /\ config[c].status = "draft"
           /\ config'[c].status = "validated"
           /\ ContentsKept(c)
           /\ \A d \in ConfigurationID \ {c} : config'[d] = config[d]
           /\ approvals' = approvals
<1>. DEFINE new == [config[c] EXCEPT !.status = "validated"]
<1>1. config[c].status = "draft" /\ config' = [config EXCEPT ![c] = new]
      /\ approvals' = approvals
  BY DEF ValidateConfiguration
<1>2. config[c] \in ConfigurationRow /\ "validated" \in ConfigurationStatus
  BY <1>1, RecordedRow DEF Recorded, ConfigurationStatus
<1>3. /\ new \in ConfigurationRow
      /\ new.status = "validated"
      /\ new.snapshot = config[c].snapshot
      /\ new.source = config[c].source
      /\ new.createdBy = config[c].createdBy
  BY <1>2, SetConfigurationStatus
<1>. HIDE DEF new
<1>4. config'[c] = new /\ \A d \in ConfigurationID \ {c} : config'[d] = config[d]
  BY <1>1 DEF ConfigTypeOK
<1>5. ConfigTypeOK'
  BY <1>1, <1>3 DEF ConfigTypeOK
<1>. QED
  BY <1>1, <1>3, <1>4, <1>5 DEF ContentsKept

LEMMA ApproveEffect ==
    ASSUME ConfigTypeOK, NEW c \in ConfigurationID, NEW a \in Actor,
           ApproveConfiguration(c, a)
    PROVE  /\ ConfigTypeOK'
           /\ config[c].status = "validated"
           /\ a # config[c].createdBy
           /\ config' = config
           /\ approvals'[c] = approvals[c] \cup {a}
           /\ \A d \in ConfigurationID \ {c} : approvals'[d] = approvals[d]
BY DEF ApproveConfiguration, ConfigTypeOK

\* All other rows are superseded if they were active, and kept otherwise.
OthersSuperseded(c) ==
    \A d \in ConfigurationID \ {c} :
        /\ config'[d].status =
              IF config[d].status = "active" THEN "superseded" ELSE config[d].status
        /\ Recorded(d) => ContentsKept(d)

LEMMA ActivateEffect ==
    ASSUME ConfigTypeOK, NEW c \in ConfigurationID, NEW e, ActivateConfiguration(c, e)
    PROVE  /\ ConfigTypeOK'
           /\ config[c].status = "validated"
           /\ RequiredApprovals > 0 => Cardinality(approvals[c]) >= RequiredApprovals
           /\ config'[c].status = "active"
           /\ ContentsKept(c)
           /\ OthersSuperseded(c)
           /\ approvals' = approvals
<1>. DEFINE new == [config[c] EXCEPT !.status = "active"]
<1>1. /\ config[c].status = "validated"
      /\ approvals' = approvals
      /\ RequiredApprovals > 0 => Cardinality(approvals[c]) >= RequiredApprovals
  BY DEF ActivateConfiguration
<1>2. config' = [d \in ConfigurationID |->
                    IF d = c THEN new ELSE Supersede(config[d])]
  BY DEF ActivateConfiguration
<1>3. config[c] \in ConfigurationRow /\ "active" \in ConfigurationStatus
  BY <1>1, RecordedRow DEF Recorded, ConfigurationStatus
<1>4. /\ new \in ConfigurationRow
      /\ new.status = "active"
      /\ new.snapshot = config[c].snapshot
      /\ new.source = config[c].source
      /\ new.createdBy = config[c].createdBy
  BY <1>3, SetConfigurationStatus
<1>. HIDE DEF new
<1>5. \A d \in ConfigurationID : config[d] \in ConfigurationRow \cup {NoRow}
  BY DEF ConfigTypeOK
<1>6. ConfigTypeOK'
  BY <1>1, <1>2, <1>4, <1>5, SupersededRow DEF ConfigTypeOK
<1>7. OthersSuperseded(c)
  BY <1>2, <1>5, SupersededRow, RecordedRow DEF OthersSuperseded, ContentsKept
<1>. QED
  BY <1>1, <1>2, <1>4, <1>6, <1>7 DEF ContentsKept

LEMMA RollbackEffect ==
    ASSUME ConfigTypeOK, NEW c \in ConfigurationID, NEW a \in Actor,
           NEW source \in ConfigurationID, RollbackConfiguration(c, a, source)
    PROVE  /\ ConfigTypeOK'
           /\ ~Recorded(c) /\ Recorded(c)'
           /\ \A d \in ConfigurationID : d < c => Recorded(d)
           /\ Published(source)
           /\ config'[c].status = "active"
           /\ config'[c].snapshot = config[source].snapshot
           /\ OthersSuperseded(c)
           /\ approvals' = approvals
<1>. DEFINE new == [status |-> "active", snapshot |-> config[source].snapshot,
                    source |-> source, createdBy |-> a]
<1>1. Published(source) /\ approvals' = approvals
  BY DEF RollbackConfiguration
<1>2. config' = [d \in ConfigurationID |->
                    IF d = c THEN new ELSE Supersede(config[d])]
  BY DEF RollbackConfiguration
<1>3. config[c] = NoRow /\ \A d \in ConfigurationID : d < c => config[d] # NoRow
  BY DEF RollbackConfiguration, NextID
<1>4. config[source] \in ConfigurationRow
  BY <1>1, RecordedRow
<1>5. new \in ConfigurationRow
  BY <1>4 DEF ConfigurationRow, ConfigurationStatus
<1>6. new.status = "active" /\ new.snapshot = config[source].snapshot
  OBVIOUS
<1>. HIDE DEF new
<1>7. \A d \in ConfigurationID : config[d] \in ConfigurationRow \cup {NoRow}
  BY DEF ConfigTypeOK
<1>8. ConfigTypeOK'
  BY <1>1, <1>2, <1>5, <1>7, SupersededRow DEF ConfigTypeOK
<1>9. OthersSuperseded(c)
  BY <1>2, <1>7, SupersededRow, RecordedRow DEF OthersSuperseded, ContentsKept
<1>10. ~Recorded(c) /\ \A d \in ConfigurationID : d < c => Recorded(d)
  BY <1>3, RecordedRow
<1>11. config'[c] = new
  BY <1>2
<1>12. Recorded(c)'
  BY <1>6, <1>11 DEF Recorded, ConfigurationStatus
<1>. QED
  BY <1>1, <1>6, <1>8, <1>9, <1>10, <1>11, <1>12

-----------------------------------------------------------------------------
(* Steps *)

\* The ways in which a step can change the configuration tables.
LEMMA StepCases ==
    ASSUME [Next]_vars
    PROVE  \/ \E c \in ConfigurationID, a \in Actor : CreateConfiguration(c, a)
           \/ \E c \in ConfigurationID : ValidateConfiguration(c)
           \/ \E c \in ConfigurationID, a \in Actor : ApproveConfiguration(c, a)
           \/ \E c \in ConfigurationID, e \in ConfigurationID \cup {NoConfiguration} :
                 ActivateConfiguration(c, e)
           \/ \E c, source \in ConfigurationID, a \in Actor :
                 RollbackConfiguration(c, a, source)
           \/ config' = config /\ approvals' = approvals
BY DEF Next, vars, configVars

\* What every step keeps of a version.
VersionKept(c) ==
    /\ Recorded(c) => Recorded(c)' /\ ContentsKept(c)
    /\ Published(c) => Published(c)' /\ approvals'[c] = approvals[c]
    /\ Stage(config'[c].status) >= Stage(config[c].status)

\* A row that is not touched is kept, and so is one that is superseded.
LEMMA SameRowKept ==
    ASSUME ConfigTypeOK, NEW c \in ConfigurationID, config'[c] = config[c],
           Published(c) => approvals'[c] = approvals[c]
    PROVE  VersionKept(c)
<1>1. Stage(config[c].status) \in Nat
  BY RecordedRow DEF Stage, ConfigurationStatus
<1>. QED
  BY <1>1 DEF VersionKept, Recorded, Published, ContentsKept

LEMMA OtherRowKept ==
    ASSUME ConfigTypeOK, NEW c \in ConfigurationID, OthersSuperseded(c),
           approvals' = approvals, NEW d \in ConfigurationID \ {c}
    PROVE  VersionKept(d)
<1>1. /\ config'[d].status =
            IF config[d].status = "active" THEN "superseded" ELSE config[d].status
      /\ Recorded(d) => ContentsKept(d)
  BY DEF OthersSuperseded
<1>2. config[d].status \in ConfigurationStatus \cup {"absent"}
  BY RecordedRow
<1>. QED
  BY <1>1, <1>2 DEF VersionKept, Recorded, Published, ConfigurationStatus, Stage

LEMMA VersionsKept ==
    ASSUME ConfigTypeOK, PortsTypeOK, [Next]_vars
    PROVE  ConfigTypeOK' /\ \A c \in ConfigurationID : VersionKept(c)
<1>1. ASSUME NEW c \in ConfigurationID, NEW a \in Actor, CreateConfiguration(c, a)
      PROVE  ConfigTypeOK' /\ \A d \in ConfigurationID : VersionKept(d)
  <2>1. VersionKept(c)
    <3>1. ~Recorded(c) /\ ~Published(c) /\ config[c].status = "absent"
      BY <1>1, CreateEffect, RecordedRow DEF Recorded
    <3>. QED
      BY <1>1, <3>1, CreateEffect DEF VersionKept, Stage
  <2>. QED
    BY <1>1, <2>1, CreateEffect, SameRowKept
<1>2. ASSUME NEW c \in ConfigurationID, ValidateConfiguration(c)
      PROVE  ConfigTypeOK' /\ \A d \in ConfigurationID : VersionKept(d)
  <2>1. VersionKept(c)
    BY <1>2, ValidateEffect
    DEF VersionKept, Stage, Recorded, Published, ConfigurationStatus
  <2>. QED
    BY <1>2, <2>1, ValidateEffect, SameRowKept
<1>3. ASSUME NEW c \in ConfigurationID, NEW a \in Actor, ApproveConfiguration(c, a)
      PROVE  ConfigTypeOK' /\ \A d \in ConfigurationID : VersionKept(d)
  <2>1. ~Published(c)
    BY <1>3, ApproveEffect DEF Published
  <2>. QED
    BY <1>3, <2>1, ApproveEffect, SameRowKept
<1>4. ASSUME NEW c \in ConfigurationID, NEW e, ActivateConfiguration(c, e)
      PROVE  ConfigTypeOK' /\ \A d \in ConfigurationID : VersionKept(d)
  <2>1. VersionKept(c)
    BY <1>4, ActivateEffect
    DEF VersionKept, Stage, Recorded, Published, ConfigurationStatus
  <2>. QED
    BY <1>4, <2>1, ActivateEffect, OtherRowKept
<1>5. ASSUME NEW c \in ConfigurationID, NEW source \in ConfigurationID,
             NEW a \in Actor, RollbackConfiguration(c, a, source)
      PROVE  ConfigTypeOK' /\ \A d \in ConfigurationID : VersionKept(d)
  <2>1. VersionKept(c)
    <3>1. ~Recorded(c) /\ ~Published(c) /\ config[c].status = "absent"
      BY <1>5, RollbackEffect, RecordedRow DEF Recorded
    <3>. QED
      BY <1>5, <3>1, RollbackEffect DEF VersionKept, Stage
  <2>. QED
    BY <1>5, <2>1, RollbackEffect, OtherRowKept
<1>6. ASSUME config' = config, approvals' = approvals
      PROVE  ConfigTypeOK' /\ \A d \in ConfigurationID : VersionKept(d)
  BY <1>6, SameRowKept DEF ConfigTypeOK
<1>. QED
  BY <1>1, <1>2, <1>3, <1>4, <1>5, <1>6, StepCases

-----------------------------------------------------------------------------
(* The invariant is inductive: one lemma for each conjunct *)

LEMMA ConfigInitInv == Init => ConfigInv
<1>. SUFFICES ASSUME Init PROVE ConfigInv
  OBVIOUS
<1>1. 1 \in ConfigurationID
  BY ConfigurationsAssumption
<1>. DEFINE first == [status |-> "active", snapshot |-> EmptySnapshot,
                      source |-> NoConfiguration, createdBy |-> Bootstrap]
<1>2. /\ config = [c \in ConfigurationID |-> IF c = 1 THEN first ELSE NoRow]
      /\ approvals = [c \in ConfigurationID |-> {}]
  BY DEF Init, ConfigInit
<1>3. first \in ConfigurationRow
  BY DEF ConfigurationRow, ConfigurationStatus, EmptySnapshot, Snapshot, Enabledness
<1>4. /\ first.status = "active"
      /\ first.snapshot.listeners = {}
      /\ first.source = NoConfiguration
      /\ first.createdBy = Bootstrap
  BY DEF EmptySnapshot
<1>. HIDE DEF first
<1>5. ConfigTypeOK
  BY <1>2, <1>3 DEF ConfigTypeOK
<1>6. \A c \in ConfigurationID : c # 1 => config[c].status = "absent" /\ ~Recorded(c)
  BY <1>2 DEF NoRow, Recorded, ConfigurationStatus
<1>7. NumbersInOrder
  <2>1. \A d \in ConfigurationID : ~(d < 1)
    BY ConfigurationsAssumption
  <2>. QED
    BY <1>6, <2>1 DEF NumbersInOrder
<1>8. UnpublishedAreOriginal
  BY <1>1, <1>2, <1>4, <1>6, FS_EmptySet DEF UnpublishedAreOriginal
<1>9. ExactlyOneActive
  BY <1>1, <1>2, <1>4, <1>6 DEF ExactlyOneActive, ActiveIDs
<1>10. SnapshotPortsUnique
  BY <1>1, <1>2, <1>4, <1>6 DEF SnapshotPortsUnique
<1>11. PublishedSnapshotsApproved
  <2>1. Published(1) /\ ApprovedOriginal(1, 1)
    BY <1>1, <1>2, <1>4 DEF ApprovedOriginal, Published
  <2>2. \A c \in ConfigurationID : Published(c) => c = 1
    BY <1>6 DEF Published
  <2>. QED
    BY <1>1, <2>1, <2>2 DEF PublishedSnapshotsApproved
<1>. QED
  BY <1>5, <1>7, <1>8, <1>9, <1>10, <1>11 DEF ConfigInv

\* A number is given out when all smaller ones are.
LEMMA NumbersStep ==
    ASSUME ConfigTypeOK, PortsTypeOK, NumbersInOrder, [Next]_vars
    PROVE  NumbersInOrder'
<1>. SUFFICES ASSUME NEW c \in ConfigurationID, NEW d \in ConfigurationID,
                     d < c, Recorded(c)'
              PROVE  Recorded(d)'
  BY DEF NumbersInOrder
<1>. SUFFICES Recorded(d)
  BY VersionsKept DEF VersionKept
<1>1. CASE Recorded(c)
  BY <1>1 DEF NumbersInOrder
<1>2. ASSUME ~Recorded(c), NEW b \in ConfigurationID, NEW a \in Actor,
             CreateConfiguration(b, a)
      PROVE  Recorded(d)
  <2>1. b = c
    BY <1>2, CreateEffect DEF Recorded
  <2>. QED
    BY <1>2, <2>1, CreateEffect
<1>3. ASSUME ~Recorded(c), NEW b \in ConfigurationID, ValidateConfiguration(b)
      PROVE  Recorded(d)
  BY <1>3, ValidateEffect DEF Recorded, ConfigurationStatus
<1>4. ASSUME ~Recorded(c), NEW b \in ConfigurationID, NEW e,
             ActivateConfiguration(b, e)
      PROVE  Recorded(d)
  BY <1>4, ActivateEffect DEF Recorded, ConfigurationStatus, OthersSuperseded
<1>5. ASSUME ~Recorded(c), NEW b \in ConfigurationID, NEW source \in ConfigurationID,
             NEW a \in Actor, RollbackConfiguration(b, a, source)
      PROVE  Recorded(d)
  <2>1. b = c
    BY <1>5, RollbackEffect DEF Recorded, ConfigurationStatus, OthersSuperseded
  <2>. QED
    BY <1>5, <2>1, RollbackEffect
<1>6. ASSUME ~Recorded(c), NEW b \in ConfigurationID, NEW a \in Actor,
             ApproveConfiguration(b, a)
      PROVE  Recorded(d)
  BY <1>6, ApproveEffect DEF Recorded
<1>7. ASSUME ~Recorded(c), config' = config
      PROVE  Recorded(d)
  BY <1>7 DEF Recorded
<1>. QED
  BY <1>1, <1>2, <1>3, <1>4, <1>5, <1>6, <1>7, StepCases

\* Approvals come from others than the author, one at a time.
LEMMA UnpublishedStep ==
    ASSUME ConfigTypeOK, PortsTypeOK, UnpublishedAreOriginal, [Next]_vars
    PROVE  UnpublishedAreOriginal'
<1>. SUFFICES ASSUME NEW c \in ConfigurationID
              PROVE  /\ IsFiniteSet(approvals'[c])
                     /\ ~Recorded(c)' => approvals'[c] = {}
                     /\ config'[c].status \in {"draft", "validated"} =>
                           /\ config'[c].source = NoConfiguration
                           /\ config'[c].createdBy \notin approvals'[c]
  BY DEF UnpublishedAreOriginal
<1>1. /\ IsFiniteSet(approvals[c])
      /\ ~Recorded(c) => approvals[c] = {}
      /\ config[c].status \in {"draft", "validated"} =>
            /\ config[c].source = NoConfiguration
            /\ config[c].createdBy \notin approvals[c]
  BY DEF UnpublishedAreOriginal
<1>2. Recorded(c) => Recorded(c)' /\ ContentsKept(c)
  BY VersionsKept DEF VersionKept
<1>3. ASSUME NEW b \in ConfigurationID, NEW a \in Actor, CreateConfiguration(b, a)
      PROVE  /\ approvals'[c] = approvals[c]
             /\ config'[c].status \in {"draft", "validated"} =>
                   /\ config'[c].source = NoConfiguration
                   /\ config'[c].createdBy \notin approvals'[c]
  BY <1>1, <1>3, CreateEffect
<1>4. ASSUME NEW b \in ConfigurationID, ValidateConfiguration(b)
      PROVE  /\ approvals'[c] = approvals[c]
             /\ config'[c].status \in {"draft", "validated"} =>
                   /\ config'[c].source = NoConfiguration
                   /\ config'[c].createdBy \notin approvals'[c]
  BY <1>1, <1>4, ValidateEffect DEF ContentsKept
<1>5. ASSUME NEW b \in ConfigurationID, NEW e, ActivateConfiguration(b, e)
      PROVE  /\ approvals'[c] = approvals[c]
             /\ config'[c].status \in {"draft", "validated"} =>
                   /\ config'[c].source = NoConfiguration
                   /\ config'[c].createdBy \notin approvals'[c]
  BY <1>1, <1>5, ActivateEffect
  DEF ContentsKept, OthersSuperseded, Recorded, ConfigurationStatus
<1>6. ASSUME NEW b \in ConfigurationID, NEW source \in ConfigurationID,
             NEW a \in Actor, RollbackConfiguration(b, a, source)
      PROVE  /\ approvals'[c] = approvals[c]
             /\ config'[c].status \in {"draft", "validated"} =>
                   /\ config'[c].source = NoConfiguration
                   /\ config'[c].createdBy \notin approvals'[c]
  BY <1>1, <1>6, RollbackEffect
  DEF ContentsKept, OthersSuperseded, Recorded, ConfigurationStatus
<1>7. ASSUME NEW b \in ConfigurationID, NEW a \in Actor, ApproveConfiguration(b, a)
      PROVE  /\ IsFiniteSet(approvals'[c])
             /\ ~Recorded(c)' => approvals'[c] = {}
             /\ config'[c].status \in {"draft", "validated"} =>
                   /\ config'[c].source = NoConfiguration
                   /\ config'[c].createdBy \notin approvals'[c]
  <2>1. CASE c = b
    <3>1. Recorded(c)
      BY <1>7, <2>1, ApproveEffect DEF Recorded, ConfigurationStatus
    <3>2. /\ approvals'[c] = approvals[c] \cup {a}
          /\ a # config[c].createdBy
          /\ config'[c] = config[c]
          /\ config[c].status = "validated"
      BY <1>7, <2>1, ApproveEffect
    <3>3. IsFiniteSet(approvals'[c])
      BY <1>1, <3>2, FS_AddElement
    <3>. QED
      BY <1>1, <1>2, <3>1, <3>2, <3>3
  <2>2. CASE c # b
    BY <1>1, <1>7, <2>2, ApproveEffect DEF Recorded
  <2>. QED
    BY <2>1, <2>2
<1>8. ASSUME config' = config, approvals' = approvals
      PROVE  /\ approvals'[c] = approvals[c]
             /\ config'[c].status \in {"draft", "validated"} =>
                   /\ config'[c].source = NoConfiguration
                   /\ config'[c].createdBy \notin approvals'[c]
  BY <1>1, <1>8
<1>9. approvals'[c] = approvals[c] =>
         /\ IsFiniteSet(approvals'[c])
         /\ ~Recorded(c)' => approvals'[c] = {}
  BY <1>1, <1>2
<1>. QED
  BY <1>3, <1>4, <1>5, <1>6, <1>7, <1>8, <1>9, StepCases

\* Whoever becomes active supersedes the one that was.
LEMMA ActiveStep ==
    ASSUME ConfigTypeOK, PortsTypeOK, ExactlyOneActive, [Next]_vars
    PROVE  ExactlyOneActive'
<1>1. PICK v \in ConfigurationID :
         \A d \in ConfigurationID : config[d].status = "active" <=> d = v
  BY DEF ExactlyOneActive, ActiveIDs
<1>. SUFFICES \E w \in ConfigurationID :
                \A d \in ConfigurationID : config'[d].status = "active" <=> d = w
  BY DEF ExactlyOneActive, ActiveIDs
<1>2. ASSUME NEW b \in ConfigurationID, NEW a \in Actor, CreateConfiguration(b, a)
      PROVE  \A d \in ConfigurationID : config'[d].status = "active" <=> d = v
  <2>1. config[b].status # "active" /\ config'[b].status # "active"
    BY <1>2, CreateEffect DEF Recorded, ConfigurationStatus
  <2>. QED
    BY <1>1, <1>2, <2>1, CreateEffect
<1>3. ASSUME NEW b \in ConfigurationID, ValidateConfiguration(b)
      PROVE  \A d \in ConfigurationID : config'[d].status = "active" <=> d = v
  <2>1. config[b].status # "active" /\ config'[b].status # "active"
    BY <1>3, ValidateEffect
  <2>. QED
    BY <1>1, <1>3, <2>1, ValidateEffect
<1>4. ASSUME NEW b \in ConfigurationID, NEW e, ActivateConfiguration(b, e)
      PROVE  \A d \in ConfigurationID : config'[d].status = "active" <=> d = b
  BY <1>4, ActivateEffect DEF OthersSuperseded
<1>5. ASSUME NEW b \in ConfigurationID, NEW source \in ConfigurationID,
             NEW a \in Actor, RollbackConfiguration(b, a, source)
      PROVE  \A d \in ConfigurationID : config'[d].status = "active" <=> d = b
  BY <1>5, RollbackEffect DEF OthersSuperseded
<1>6. ASSUME NEW b \in ConfigurationID, NEW a \in Actor, ApproveConfiguration(b, a)
      PROVE  \A d \in ConfigurationID : config'[d].status = "active" <=> d = v
  BY <1>1, <1>6, ApproveEffect
<1>7. ASSUME config' = config
      PROVE  \A d \in ConfigurationID : config'[d].status = "active" <=> d = v
  BY <1>1, <1>7
<1>. QED
  BY <1>2, <1>3, <1>4, <1>5, <1>6, <1>7, StepCases

\* Where the snapshot of a new version comes from.
LEMMA NewSnapshot ==
    ASSUME ConfigTypeOK, PortsTypeOK, [Next]_vars,
           NEW c \in ConfigurationID, ~Recorded(c), Recorded(c)'
    PROVE  \/ config'[c].snapshot = Capture
           \/ \E source \in ConfigurationID :
                 Recorded(source) /\ config'[c].snapshot = config[source].snapshot
<1>1. ASSUME NEW b \in ConfigurationID, NEW a \in Actor, CreateConfiguration(b, a)
      PROVE  config'[c].snapshot = Capture
  <2>1. b = c
    BY <1>1, CreateEffect DEF Recorded
  <2>. QED
    BY <1>1, <2>1, CreateEffect
<1>2. ASSUME NEW b \in ConfigurationID, ValidateConfiguration(b)
      PROVE  FALSE
  BY <1>2, ValidateEffect DEF Recorded, ConfigurationStatus
<1>3. ASSUME NEW b \in ConfigurationID, NEW e, ActivateConfiguration(b, e)
      PROVE  FALSE
  BY <1>3, ActivateEffect DEF Recorded, ConfigurationStatus, OthersSuperseded
<1>4. ASSUME NEW b \in ConfigurationID, NEW source \in ConfigurationID,
             NEW a \in Actor, RollbackConfiguration(b, a, source)
      PROVE  Recorded(source) /\ config'[c].snapshot = config[source].snapshot
  <2>1. b = c
    BY <1>4, RollbackEffect DEF Recorded, ConfigurationStatus, OthersSuperseded
  <2>. QED
    BY <1>4, <2>1, RollbackEffect, RecordedRow
<1>5. ASSUME NEW b \in ConfigurationID, NEW a \in Actor, ApproveConfiguration(b, a)
      PROVE  FALSE
  BY <1>5, ApproveEffect DEF Recorded
<1>6. ASSUME config' = config PROVE FALSE
  BY <1>6 DEF Recorded
<1>. QED
  BY <1>1, <1>2, <1>3, <1>4, <1>5, <1>6, StepCases

\* A captured snapshot has one listener per port, and a copy has what it copies.
LEMMA SnapshotPortsStep ==
    ASSUME ConfigTypeOK, PortsTypeOK, PortOwnership, SnapshotPortsUnique, [Next]_vars
    PROVE  SnapshotPortsUnique'
<1>. SUFFICES ASSUME NEW c \in ConfigurationID, Recorded(c)',
                     NEW s \in config'[c].snapshot.listeners,
                     NEW t \in config'[c].snapshot.listeners, s.port = t.port
              PROVE  s = t
  BY DEF SnapshotPortsUnique
<1>1. CASE Recorded(c)
  <2>1. config'[c].snapshot = config[c].snapshot
    BY <1>1, VersionsKept DEF VersionKept, ContentsKept
  <2>. QED
    BY <1>1, <2>1 DEF SnapshotPortsUnique
<1>2. CASE ~Recorded(c) /\ config'[c].snapshot = Capture
  BY <1>2, CapturePorts
<1>3. ASSUME NEW source \in ConfigurationID, Recorded(source),
             config'[c].snapshot = config[source].snapshot
      PROVE  s = t
  BY <1>3 DEF SnapshotPortsUnique
<1>. QED
  BY <1>1, <1>2, <1>3, NewSnapshot

\* An approved original stays one for as long as somebody has its snapshot.
LEMMA OriginalKept ==
    ASSUME ConfigTypeOK, PortsTypeOK, [Next]_vars,
           NEW c \in ConfigurationID, NEW o \in ConfigurationID,
           Recorded(c), ApprovedOriginal(c, o)
    PROVE  ApprovedOriginal(c, o)'
<1>1. Published(o) /\ Recorded(o)
  BY RecordedRow DEF ApprovedOriginal
<1>2. /\ Published(o)' /\ approvals'[o] = approvals[o]
      /\ ContentsKept(o) /\ ContentsKept(c)
  BY <1>1, VersionsKept DEF VersionKept
<1>. QED
  BY <1>2 DEF ApprovedOriginal, ContentsKept

\* A version that gathered its approvals becomes an original itself.
LEMMA ActivatedIsOriginal ==
    ASSUME ConfigTypeOK, UnpublishedAreOriginal,
           NEW c \in ConfigurationID, NEW e, ActivateConfiguration(c, e)
    PROVE  ApprovedOriginal(c, c)'
<1>1. /\ config[c].status = "validated" /\ config'[c].status = "active"
      /\ ContentsKept(c)
      /\ approvals' = approvals
      /\ RequiredApprovals > 0 => Cardinality(approvals[c]) >= RequiredApprovals
  BY ActivateEffect
<1>2. /\ IsFiniteSet(approvals[c])
      /\ config[c].source = NoConfiguration
      /\ config[c].createdBy \notin approvals[c]
  BY <1>1 DEF UnpublishedAreOriginal
<1>3. approvals[c] \ {config[c].createdBy} = approvals[c]
  BY <1>2
<1>4. Cardinality(approvals[c]) >= RequiredApprovals
  <2>1. Cardinality(approvals[c]) \in Nat /\ RequiredApprovals \in Nat
    BY <1>2, FS_CardinalityType, ConfigurationsAssumption
  <2>. QED
    BY <1>1, <2>1
<1>5. Cardinality(approvals'[c] \ {config'[c].createdBy}) >= RequiredApprovals
  BY <1>1, <1>3, <1>4 DEF ContentsKept
<1>. QED
  BY <1>1, <1>2, <1>5 DEF ApprovedOriginal, ContentsKept, Published

\* A rollback copies a published version, so it inherits that one's original,
\* which is older.
LEMMA ApprovedStep ==
    ASSUME ConfigTypeOK, PortsTypeOK, NumbersInOrder, UnpublishedAreOriginal,
           PublishedSnapshotsApproved, [Next]_vars
    PROVE  PublishedSnapshotsApproved'
<1>. SUFFICES ASSUME NEW c \in ConfigurationID, Published(c)'
              PROVE  \E o \in ConfigurationID : o <= c /\ ApprovedOriginal(c, o)'
  BY DEF PublishedSnapshotsApproved
<1>1. CASE Published(c)
  <2>1. PICK o \in ConfigurationID : o <= c /\ ApprovedOriginal(c, o)
    BY <1>1 DEF PublishedSnapshotsApproved
  <2>. QED
    BY <1>1, <2>1, OriginalKept, RecordedRow
<1>2. ASSUME ~Published(c), NEW b \in ConfigurationID, NEW e,
             ActivateConfiguration(b, e)
      PROVE  \E o \in ConfigurationID : o <= c /\ ApprovedOriginal(c, o)'
  <2>1. b = c
    BY <1>2, ActivateEffect DEF Published, OthersSuperseded
  <2>2. c <= c
    BY ConfigurationsAssumption
  <2>. QED
    BY <1>2, <2>1, <2>2, ActivatedIsOriginal
<1>3. ASSUME ~Published(c), NEW b \in ConfigurationID,
             NEW source \in ConfigurationID, NEW a \in Actor,
             RollbackConfiguration(b, a, source)
      PROVE  \E o \in ConfigurationID : o <= c /\ ApprovedOriginal(c, o)'
  <2>1. b = c
    BY <1>3, RollbackEffect DEF Published, OthersSuperseded
  <2>2. /\ ~Recorded(c)
        /\ Published(source) /\ Recorded(source)
        /\ config'[c].snapshot = config[source].snapshot
    BY <1>3, <2>1, RollbackEffect, RecordedRow
  <2>3. source <= c
    <3>1. ~(c < source)
      BY <2>2 DEF NumbersInOrder
    <3>. QED
      BY <3>1, ConfigurationsAssumption
  <2>4. PICK o \in ConfigurationID : o <= source /\ ApprovedOriginal(source, o)
    BY <2>2 DEF PublishedSnapshotsApproved
  <2>5. ApprovedOriginal(source, o)'
    BY <2>2, <2>4, OriginalKept
  <2>6. config'[source].snapshot = config[source].snapshot
    BY <2>2, VersionsKept DEF VersionKept, ContentsKept
  <2>7. ApprovedOriginal(c, o)'
    BY <2>2, <2>5, <2>6 DEF ApprovedOriginal
  <2>8. o <= c
    BY <2>3, <2>4, ConfigurationsAssumption
  <2>. QED
    BY <2>7, <2>8
<1>4. ASSUME ~Published(c), NEW b \in ConfigurationID, NEW a \in Actor,
             CreateConfiguration(b, a)
      PROVE  FALSE
  BY <1>4, CreateEffect DEF Published
<1>5. ASSUME ~Published(c), NEW b \in ConfigurationID, ValidateConfiguration(b)
      PROVE  FALSE
  BY <1>5, ValidateEffect DEF Published
<1>6. ASSUME ~Published(c), NEW b \in ConfigurationID, NEW a \in Actor,
             ApproveConfiguration(b, a)
      PROVE  FALSE
  BY <1>6, ApproveEffect DEF Published
<1>7. ASSUME ~Published(c), config' = config PROVE FALSE
  BY <1>7 DEF Published
<1>. QED
  BY <1>1, <1>2, <1>3, <1>4, <1>5, <1>6, <1>7, StepCases

LEMMA ConfigStep ==
    ASSUME Consistent, ConfigInv, [Next]_vars
    PROVE  ConfigInv'
BY VersionsKept, NumbersStep, UnpublishedStep, ActiveStep, SnapshotPortsStep,
   ApprovedStep
DEF ConfigInv, Consistent

LEMMA ConfigInvariant == Spec => [](Consistent /\ ConfigInv)
<1>1. Init => Consistent /\ ConfigInv
  BY ConsistentInit, ConfigInitInv DEF Init
<1>2. Consistent /\ ConfigInv /\ [Next]_vars => (Consistent /\ ConfigInv)'
  BY PortsStep, ConsistentStep, ConfigStep
<1>. QED
  BY <1>1, <1>2, PTL DEF Spec

-----------------------------------------------------------------------------
(***************************************************************************)
(* The catalogue, the inventory, the versions and the approvals keep their *)
(* types through every operation of the control plane.                     *)
(***************************************************************************)
THEOREM ConfigurationsTypeCorrect == Spec => []TypeOK
<1>1. Consistent /\ ConfigInv => TypeOK
  BY DEF Consistent, ConfigInv, ConfigTypeOK, TypeOK
<1>. QED
  BY <1>1, ConfigInvariant, PTL

(***************************************************************************)
(* Activations and rollbacks leave exactly one active version behind,      *)
(* whichever versions they are asked for and in whatever order.            *)
(***************************************************************************)
THEOREM OneActive == Spec => []ExactlyOneActive
<1>1. ConfigInv => ExactlyOneActive
  BY DEF ConfigInv
<1>. QED
  BY <1>1, ConfigInvariant, PTL

(***************************************************************************)
(* No recorded snapshot uses a port twice, however old it is and through   *)
(* however many rollbacks it was copied.                                   *)
(***************************************************************************)
THEOREM SnapshotPorts == Spec => []SnapshotPortsUnique
<1>1. ConfigInv => SnapshotPortsUnique
  BY DEF ConfigInv
<1>. QED
  BY <1>1, ConfigInvariant, PTL

(***************************************************************************)
(* For any number of required approvals, what is published went through    *)
(* them itself or is a copy of what did.                                   *)
(***************************************************************************)
THEOREM PublishedApproved == Spec => []PublishedSnapshotsApproved
<1>1. ConfigInv => PublishedSnapshotsApproved
  BY DEF ConfigInv
<1>. QED
  BY <1>1, ConfigInvariant, PTL

(***************************************************************************)
(* No step changes what a recorded version contains, or sends it back to   *)
(* an earlier stage.                                                       *)
(***************************************************************************)
THEOREM HistoryIsKept == Spec => HistoryKept
<1>. DEFINE Keeps ==
        \A c \in ConfigurationID :
          /\ Stage(config'[c].status) >= Stage(config[c].status)
          /\ Recorded(c) =>
                /\ config'[c].snapshot = config[c].snapshot
                /\ config'[c].createdBy = config[c].createdBy
                /\ config'[c].source = config[c].source
<1>1. Consistent /\ ConfigInv /\ [Next]_vars => [Keeps]_vars
  BY VersionsKept DEF Consistent, ConfigInv, VersionKept, ContentsKept
<1>. QED
  BY <1>1, ConfigInvariant, PTL DEF Spec, HistoryKept
=============================================================================
