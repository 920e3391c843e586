---------------------------- MODULE RuntimeSync ----------------------------
(***************************************************************************)
(* How gateway replicas follow the control plane: administrators change    *)
(* consumers, keys and the active configuration in PostgreSQL, publish a   *)
(* Redis notification after the commit, and each gateway's Runtime keeps a *)
(* snapshot that it reloads on a notification and on a polling timer.      *)
(*                                                                         *)
(* Polling compares generations: the active configuration's id, and the    *)
(* largest of consumers.updated_at, api_keys.created_at and                *)
(* api_keys.revoked_at.  These columns are written with NOW(), which in    *)
(* PostgreSQL is the time the transaction began, not the time it became    *)
(* visible.  A transaction is therefore two steps here: Begin takes the    *)
(* timestamp, and the operation's own action executes and commits.  Its    *)
(* row locks make the interval between executing and committing            *)
(* unobservable to other transactions, except to IssueKey, which reads     *)
(* the consumer's flag without a lock; a key of a consumer disabled in     *)
(* that interval is not loaded by anyone either way.                       *)
(***************************************************************************)
EXTENDS Integers, FiniteSets, FiniteSetsExt

CONSTANTS
    Key,            \* API keys that may be issued
    Consumer,       \* consumers that may be created
    OwnerOf,        \* the consumer a key is issued to
    Gateway,        \* gateway replicas
    Tx,             \* connections on which administrators' requests run
    EventBuffer,    \* capacity of the Events channel (16 in the code)
    Deployment      \* the settings under which the system is checked

(***************************************************************************)
(* A deployment says what administrators and the network do: the           *)
(* connections in use at once (with one, transactions do not overlap), and *)
(* the bounds on transactions, on faults (lost notifications, failed or    *)
(* killed loads) and on configuration ids.  buildSnapshot refuses the ids  *)
(* in unloadable.                                                          *)
(***************************************************************************)
ASSUME RuntimeAssumption ==
    /\ OwnerOf \in [Key -> Consumer]
    /\ Key \cap Consumer = {}
    /\ IsFiniteSet(Gateway) /\ IsFiniteSet(Tx)
    /\ EventBuffer \in Nat \ {0}
    /\ \A d \in Deployment :
          /\ d.connections \subseteq Tx
          /\ d.maxClock \in Nat /\ d.maxFaults \in Nat
          /\ d.maxConfig \in Nat \ {0}
          /\ d.unloadable \subseteq 2 .. d.maxConfig

VARIABLES
    deployment,     \* the setting of this behaviour, never changed
    clock,          \* PostgreSQL's clock: advances with every Begin
    tx,             \* per connection: phase and start time
    consumer,       \* consumers: status and updated_at
    key,            \* api_keys: created_at and revoked_at, 0 for NULL
    config,         \* id of the active configuration
    gateway,        \* the Run loop of each replica
    loaded,         \* Runtime.current and the two generations it stores
    events,         \* notifications waiting in each replica's channel
    faults          \* faults injected so far

database == <<consumer, key, config>>
replicas == <<gateway, loaded, events>>
vars == <<deployment, clock, tx, database, replicas, faults>>

-----------------------------------------------------------------------------
(* The database *)

Idle == [phase |-> "idle", start |-> 0, known |-> {}]
NoConsumer == [status |-> "absent", updated |-> 0]
DeletedConsumer == [status |-> "deleted", updated |-> 0]
NoKey == [created |-> 0, revoked |-> 0]
Registered(c) == consumer[c].status \in {"enabled", "disabled"}
Issued(k) == key[k].created > 0

\* Mutant of Timestamps: revoked_at is left out of the generation.
TimestampsWithoutRevocations ==
    {consumer[c].updated : c \in Consumer} \cup {key[k].created : k \in Key}

Timestamps ==
    {consumer[c].updated : c \in Consumer}
      \cup {key[k].created : k \in Key} \cup {key[k].revoked : k \in Key}

\* credentialGenerationQuery; COALESCE(..., 0) when there are no rows.
CredentialGeneration == Max(Timestamps \cup {0})

\* The credentials query of Load.
ActiveKeys ==
    {k \in Key : /\ Issued(k)
                 /\ key[k].revoked = 0
                 /\ consumer[OwnerOf[k]].status = "enabled"}

-----------------------------------------------------------------------------
(* Administrative transactions *)

\* withTx: BEGIN fixes NOW() for the whole transaction.  The identifiers a
\* request names were drawn at random and shown to the caller beforehand, so
\* they are identifiers of rows that exist when the transaction begins.
Begin(t) ==
    /\ t \in deployment.connections
    /\ tx[t].phase = "idle"
    /\ clock < deployment.maxClock
    /\ clock' = clock + 1
    /\ tx' = [tx EXCEPT ![t] =
          [phase |-> "open", start |-> clock + 1,
           known |-> {c \in Consumer : Registered(c)} \cup {k \in Key : Issued(k)}]]
    /\ UNCHANGED <<deployment, database, replicas, faults>>

Now(t) == tx[t].start
Known(t, id) == id \in tx[t].known

\* The transaction commits; afterwards the Store calls notify.
CommitAndNotify(t) ==
    /\ tx[t].phase = "open"
    /\ tx' = [tx EXCEPT ![t] = [Idle EXCEPT !.phase = "notify"]]
    /\ UNCHANGED <<deployment, clock, replicas, faults>>

\* The transaction commits and the operation returns without notify.
CommitSilently(t) ==
    /\ tx[t].phase = "open"
    /\ tx' = [tx EXCEPT ![t] = Idle]
    /\ UNCHANGED <<deployment, clock, replicas, faults>>

\* Any error rolls the transaction back.
Rollback(t) ==
    /\ CommitSilently(t)
    /\ UNCHANGED database

CreateConsumer(t, c) ==
    /\ consumer[c] = NoConsumer
    /\ consumer' = [consumer EXCEPT ![c] =
                      [status |-> "enabled", updated |-> Now(t)]]
    /\ CommitSilently(t)
    /\ UNCHANGED <<key, config>>

UpdateConsumer(t, c, status) ==
    /\ Known(t, c) /\ Registered(c)
    /\ consumer' = [consumer EXCEPT ![c] =
                      [status |-> status, updated |-> Now(t)]]
    /\ CommitAndNotify(t)
    /\ UNCHANGED <<key, config>>

\* Refused while the consumer has keys, revoked ones included.
DeleteConsumer(t, c) ==
    /\ Known(t, c) /\ Registered(c)
    /\ \A k \in Key : OwnerOf[k] = c => ~Issued(k)
    /\ consumer' = [consumer EXCEPT ![c] = DeletedConsumer]
    /\ CommitAndNotify(t)
    /\ UNCHANGED <<key, config>>

\* The only credential change that is not announced.
IssueKey(t, k) ==
    /\ ~Issued(k)
    /\ Known(t, OwnerOf[k])
    /\ consumer[OwnerOf[k]].status = "enabled"
    /\ key' = [key EXCEPT ![k].created = Now(t)]
    /\ CommitSilently(t)
    /\ UNCHANGED <<consumer, config>>

\* Mutant of RevokeKey: the revocation is not announced.
RevokeKeySilently(t, k) ==
    /\ Known(t, k) /\ key[k].revoked = 0
    /\ key' = [key EXCEPT ![k].revoked = Now(t)]
    /\ CommitSilently(t)
    /\ UNCHANGED <<consumer, config>>

RevokeKey(t, k) ==
    /\ Known(t, k) /\ key[k].revoked = 0
    /\ key' = [key EXCEPT ![k].revoked = Now(t)]
    /\ CommitAndNotify(t)
    /\ UNCHANGED <<consumer, config>>

\* A new key for the same consumer replaces k, in one transaction.
RotateKey(t, k, new) ==
    /\ Known(t, k) /\ key[k].revoked = 0
    /\ ~Issued(new) /\ OwnerOf[new] = OwnerOf[k]
    /\ key' = [key EXCEPT ![k].revoked = Now(t), ![new].created = Now(t)]
    /\ CommitAndNotify(t)
    /\ UNCHANGED <<consumer, config>>

\* ActivateConfiguration or RollbackConfiguration made another id active.
PublishConfiguration(t) ==
    /\ config < deployment.maxConfig
    /\ config' = config + 1
    /\ CommitAndNotify(t)
    /\ UNCHANGED <<consumer, key>>

-----------------------------------------------------------------------------
(* Notifications *)

Running(g) == gateway[g].pc # "down"
Fault(n) == faults + n <= deployment.maxFaults /\ faults' = faults + n

\* Mutant of Notify: the channel takes any number of events.
NotifyUnbounded(t, lost) ==
    /\ tx[t].phase = "notify"
    /\ tx' = [tx EXCEPT ![t] = Idle]
    /\ Fault(Cardinality(lost))
    /\ events' = [g \in Gateway |->
          IF g \in lost \/ ~Running(g) THEN events[g] ELSE events[g] + 1]
    /\ UNCHANGED <<deployment, clock, database, gateway, loaded>>

(***************************************************************************)
(* Publish, and Events in every subscribed replica: a full channel drops   *)
(* the event.  Replicas in lost miss it: Redis or the connection to it     *)
(* failed, the admin stopped before publishing, or the subscription was    *)
(* not yet established.                                                    *)
(***************************************************************************)
Notify(t, lost) ==
    /\ tx[t].phase = "notify"
    /\ tx' = [tx EXCEPT ![t] = Idle]
    /\ Fault(Cardinality(lost))
    /\ events' = [g \in Gateway |->
          IF g \in lost \/ ~Running(g) \/ events[g] = EventBuffer
          THEN events[g] ELSE events[g] + 1]
    /\ UNCHANGED <<deployment, clock, database, gateway, loaded>>

-----------------------------------------------------------------------------
(* The gateway's Runtime *)

Down == [pc |-> "down", sameConfig |-> FALSE]
At(pc) == [pc |-> pc, sameConfig |-> FALSE]
Loadable == config \notin deployment.unloadable
Nothing == [config |-> 0, generation |-> 0, keys |-> {}]

\* What Load stores: one REPEATABLE READ transaction, so one database state.
Current ==
    [config |-> config, generation |-> CredentialGeneration,
     keys |-> ActiveKeys]

(***************************************************************************)
(* Load.  buildSnapshot may refuse the active configuration, and then      *)
(* neither the configuration nor the credentials of the snapshot change.   *)
(***************************************************************************)
LoadSucceeds(g) ==
    /\ Loadable
    /\ loaded' = [loaded EXCEPT ![g] = Current]

LoadRefused(g) == ~Loadable /\ UNCHANGED loaded

\* bootstrap.Run: a replica serves only after its first Load.
Start(g) ==
    /\ gateway[g].pc = "down"
    /\ LoadSucceeds(g)
    /\ gateway' = [gateway EXCEPT ![g] = At("select")]
    /\ UNCHANGED <<deployment, clock, tx, database, events, faults>>

\* The poll case of Run: refreshIfChanged reads the configuration id, ...
PollConfiguration(g) ==
    /\ gateway[g].pc = "select"
    /\ gateway' = [gateway EXCEPT ![g] =
          [pc |-> "poll", sameConfig |-> config = loaded[g].config]]
    /\ UNCHANGED <<deployment, clock, tx, database, loaded, events, faults>>

\* Mutant of PollCredentials: only the configuration id is compared.
PollConfigurationOnly(g) ==
    /\ gateway[g].pc = "poll"
    /\ gateway' = [gateway EXCEPT ![g] =
          IF gateway[g].sameConfig THEN At("select") ELSE At("load")]
    /\ UNCHANGED <<deployment, clock, tx, database, loaded, events, faults>>

\* ... then the credential generation, and skips when neither has changed.
PollCredentials(g) ==
    /\ gateway[g].pc = "poll"
    /\ gateway' = [gateway EXCEPT ![g] =
          IF /\ gateway[g].sameConfig
             /\ CredentialGeneration = loaded[g].generation
          THEN At("select") ELSE At("load")]
    /\ UNCHANGED <<deployment, clock, tx, database, loaded, events, faults>>

\* The event case of Run: reload without comparing generations.
TakeEvent(g) ==
    /\ gateway[g].pc = "select"
    /\ events[g] > 0
    /\ events' = [events EXCEPT ![g] = @ - 1]
    /\ gateway' = [gateway EXCEPT ![g] = At("load")]
    /\ UNCHANGED <<deployment, clock, tx, database, loaded, faults>>

Load(g) ==
    /\ gateway[g].pc = "load"
    /\ LoadSucceeds(g) \/ LoadRefused(g)
    /\ gateway' = [gateway EXCEPT ![g] = At("select")]
    /\ UNCHANGED <<deployment, clock, tx, database, events, faults>>

\* A database error during Load: the last valid snapshot is retained.
LoadFails(g) ==
    /\ gateway[g].pc = "load"
    /\ Fault(1)
    /\ gateway' = [gateway EXCEPT ![g] = At("select")]
    /\ UNCHANGED <<deployment, clock, tx, database, loaded, events>>

\* The process dies; its snapshot and its channel die with it.
Crash(g) ==
    /\ Running(g)
    /\ Fault(1)
    /\ gateway' = [gateway EXCEPT ![g] = Down]
    /\ loaded' = [loaded EXCEPT ![g] = Nothing]
    /\ events' = [events EXCEPT ![g] = 0]
    /\ UNCHANGED <<deployment, clock, tx, database>>

-----------------------------------------------------------------------------
Init ==
    /\ deployment \in Deployment
    /\ clock = 0
    /\ tx = [t \in Tx |-> Idle]
    /\ consumer = [c \in Consumer |-> NoConsumer]
    /\ key = [k \in Key |-> NoKey]
    /\ config = 1
    /\ gateway = [g \in Gateway |-> Down]
    /\ loaded = [g \in Gateway |-> Nothing]
    /\ events = [g \in Gateway |-> 0]
    /\ faults = 0

Operation(t) ==
    \/ Rollback(t)
    \/ \E c \in Consumer : CreateConsumer(t, c)
    \/ \E c \in Consumer, s \in {"enabled", "disabled"} : UpdateConsumer(t, c, s)
    \/ \E c \in Consumer : DeleteConsumer(t, c)
    \/ \E k \in Key : IssueKey(t, k)
    \/ \E k \in Key : RevokeKey(t, k)
    \/ \E k, new \in Key : RotateKey(t, k, new)
    \/ PublishConfiguration(t)

Next ==
    \/ \E t \in Tx : Begin(t)
    \/ \E t \in Tx : Operation(t)
    \/ \E t \in Tx, lost \in SUBSET Gateway : Notify(t, lost)
    \/ \E g \in Gateway : Start(g)
    \/ \E g \in Gateway : PollConfiguration(g)
    \/ \E g \in Gateway : PollCredentials(g)
    \/ \E g \in Gateway : TakeEvent(g)
    \/ \E g \in Gateway : Load(g)
    \/ \E g \in Gateway : LoadFails(g)
    \/ \E g \in Gateway : Crash(g)

(***************************************************************************)
(* Fairness.  An open transaction ends (the Store's requests have          *)
(* deadlines) and notify follows; the orchestrator restarts a replica; the *)
(* Run loop always gets back to its select, whose timer fires again and    *)
(* again, and select picks among ready cases at random, so that a waiting  *)
(* event is not passed over forever.                                       *)
(***************************************************************************)
Fairness ==
    /\ \A t \in Tx : WF_vars(Operation(t))
    /\ \A t \in Tx : WF_vars(\E lost \in SUBSET Gateway : Notify(t, lost))
    /\ \A g \in Gateway :
          /\ WF_vars(Start(g))
          /\ SF_vars(PollConfiguration(g))
          /\ WF_vars(PollCredentials(g))
          /\ SF_vars(TakeEvent(g))
          /\ WF_vars(Load(g))

Spec == Init /\ [][Next]_vars /\ Fairness

-----------------------------------------------------------------------------
(* Properties *)

\* Every variable has the values the tables and the Runtime can hold.
TypeOK ==
    /\ deployment \in Deployment
    /\ clock \in 0 .. deployment.maxClock
    /\ tx \in [Tx -> [phase : {"idle", "open", "notify"}, start : 0 .. deployment.maxClock,
                      known : SUBSET (Consumer \cup Key)]]
    /\ consumer \in [Consumer ->
          [status : {"absent", "enabled", "disabled", "deleted"},
           updated : 0 .. deployment.maxClock]]
    /\ key \in [Key -> [created : 0 .. deployment.maxClock, revoked : 0 .. deployment.maxClock]]
    /\ config \in 1 .. deployment.maxConfig
    /\ gateway \in [Gateway -> [pc : {"down", "select", "poll", "load"},
                                sameConfig : BOOLEAN]]
    /\ loaded \in [Gateway -> [config : 0 .. deployment.maxConfig,
                               generation : 0 .. deployment.maxClock, keys : SUBSET Key]]
    /\ events \in [Gateway -> 0 .. EventBuffer]
    /\ faults \in 0 .. deployment.maxFaults

\* Requests of administrators that change this data never overlap in time.
Serial == Cardinality(deployment.connections) = 1

\* Nothing is lost and no load fails or is refused.
Reliable == deployment.maxFaults = 0 /\ deployment.unloadable = {}

(***************************************************************************)
(* What polling relies on: a replica that has the current configuration    *)
(* and credential generation has the current credentials, so skipping the  *)
(* reload loses nothing.  True when transactions do not overlap.           *)
(***************************************************************************)
SkippingIsSafe ==
    \A g \in Gateway :
        (Serial /\ Running(g) /\ CredentialGeneration = loaded[g].generation) =>
            loaded[g].keys = ActiveKeys

(***************************************************************************)
(* Every replica ends up with the committed state: once administrators     *)
(* stop (maxClock) and the active configuration can be loaded, each        *)
(* running replica's snapshot is and stays current, whatever was lost,     *)
(* failed, refused or restarted before, as long as transactions did not    *)
(* overlap.  "Redis notification failed; PostgreSQL polling remains        *)
(* active."                                                                *)
(***************************************************************************)
Converges ==
    Serial =>
        <>[](\A g \in Gateway : (Running(g) /\ Loadable) => loaded[g] = Current)

(***************************************************************************)
(* A revoked key is dropped by every replica, overlapping transactions or  *)
(* not, when no notification is lost.  "Revocation is immediate across     *)
(* coordinated gateway replicas".                                          *)
(***************************************************************************)
AnnouncedKeysDropped ==
    \A g \in Gateway, k \in Key :
        (Reliable /\ key[k].revoked > 0) ~> k \notin loaded[g].keys

(***************************************************************************)
(* The same when a notification may be lost, with polling as the fallback. *)
(***************************************************************************)
RevokedKeysDropped ==
    \A g \in Gateway, k \in Key :
        key[k].revoked > 0 ~> k \notin loaded[g].keys
=============================================================================
