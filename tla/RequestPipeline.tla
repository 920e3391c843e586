-------------------------- MODULE RequestPipeline --------------------------
(***************************************************************************)
(* GatewayHandler.ServeHTTP for concurrent requests to one listener: the   *)
(* checks on the request, the distributed request policy, the circuit      *)
(* breaker of every upstream, the selection of an upstream                 *)
(* (UpstreamSelection) and the outcome of the proxied call.                *)
(*                                                                         *)
(* Circuit state lives in Redis and is shared by all gateways: a failure   *)
(* counter and an open marker per upstream, both with a time to live.      *)
(* Each Redis command or script is one step.  The gateways' requests may   *)
(* come through listeners with different thresholds, which share the keys. *)
(* A Redis error can happen at every command; the coordinator itself is    *)
(* always configured (bootstrap.Run).  The Redis client, left at its       *)
(* defaults, sends a command again when the answer does not come: that     *)
(* does nothing to reading a circuit, but an outcome may be recorded more  *)
(* than once, and by a copy of the command that runs late.                 *)
(***************************************************************************)
EXTENDS UpstreamSelection

CONSTANTS
    Threshold,    \* listener.CircuitFailureThreshold, by request; 0 is off
    OpenFor,      \* listener.CircuitOpen, by request, in ticks
    Limited,      \* whether the listener has a rate limit or a quota
    Tries,        \* how often the client sends a command (four by default)
    MaxTime,      \* bound on Redis time
    MaxFlips      \* bound on the changes of health flags

ASSUME PipelineAssumption ==
    /\ Threshold \in [Request -> Nat]
    /\ OpenFor \in [Request -> Nat \ {0}]
    /\ Limited \in BOOLEAN /\ Tries \in Nat \ {0}
    /\ MaxTime \in Nat /\ MaxFlips \in Nat

VARIABLES
    now,          \* Redis time
    failures,     \* ...:circuit:<upstream>:failures
    open,         \* ...:circuit:<upstream>:open, as its expiry
    request,      \* ServeHTTP of each request
    results,      \* per upstream, the outcomes recorded so far (history)
    flips         \* changes of health flags so far

circuitVars == <<now, failures, open>>
pipelineVars == <<circuitVars, request, results>>
vars == <<selectionVars, pipelineVars, flips>>

-----------------------------------------------------------------------------
(* The checks on a request *)

\* What the checks find, each TRUE or FALSE.
Check == {"port", "listener", "public", "key", "permitted", "method",
          "contentType", "length"}

\* Mutant of Refusals: methods and content types are checked before the key.
RefusalsKeyLast(ok) ==
    <<[when |-> ~ok["port"] \/ ~ok["listener"], code |-> "not_found"],
      [when |-> ~ok["method"], code |-> "method_not_allowed"],
      [when |-> ~ok["contentType"], code |-> "unsupported_media_type"],
      [when |-> ~ok["length"], code |-> "too_large"],
      [when |-> ~ok["key"] /\ ~ok["public"], code |-> "unauthorized"],
      [when |-> ok["key"] /\ ~ok["public"] /\ ~ok["permitted"],
       code |-> "forbidden"]>>

\* The refusals, in the order in which ServeHTTP tests for them.
Refusals(ok) ==
    <<[when |-> ~ok["port"] \/ ~ok["listener"], code |-> "not_found"],
      [when |-> ~ok["key"] /\ ~ok["public"], code |-> "unauthorized"],
      [when |-> ok["key"] /\ ~ok["public"] /\ ~ok["permitted"],
       code |-> "forbidden"],
      [when |-> ~ok["method"], code |-> "method_not_allowed"],
      [when |-> ~ok["contentType"], code |-> "unsupported_media_type"],
      [when |-> ~ok["length"], code |-> "too_large"]>>

\* The first refusal that applies, or "pass".  The snapshot pointer is never
\* nil: the gateway loads one before it serves.
Admission(ok) ==
    LET first == SelectInSeq(Refusals(ok), LAMBDA refusal : refusal.when)
    IN  IF first = 0 THEN "pass" ELSE Refusals(ok)[first].code

\* A client the listener is meant to serve.
Authorised(ok) == ok["public"] \/ (ok["key"] /\ ok["permitted"])

\* What the checks can make of a request.
Outcome == {[code |-> Admission(ok), authorised |-> Authorised(ok)] :
               ok \in [Check -> BOOLEAN]}

-----------------------------------------------------------------------------
(* Redis *)

Live(expires) == expires > now

\* EXISTS on the open marker.
CircuitOpen(u) == Live(open[u])

NoFailures == [count |-> 0, expires |-> 0]

\* Mutant of RecordSuccess: the failure counter is not reset.
RecordSuccessOnly(u) ==
    /\ results' = [results EXCEPT ![u] = Append(@, [ok |-> TRUE, at |-> now])]
    /\ UNCHANGED circuitVars

\* Success deletes the failure counter; the open marker is left alone.
RecordSuccess(u) ==
    /\ failures' = [failures EXCEPT ![u] = NoFailures]
    /\ results' = [results EXCEPT ![u] = Append(@, [ok |-> TRUE, at |-> now])]
    /\ UNCHANGED <<now, open>>

\* Mutant of RecordFailure: opening the circuit keeps the counter.
RecordFailureKept(q, u) ==
    LET count == IF Live(failures[u].expires) THEN failures[u].count + 1 ELSE 1
        expires == IF count = 1 THEN now + OpenFor[q] ELSE failures[u].expires
        trip == count >= Threshold[q]
    IN  /\ failures' = [failures EXCEPT ![u] =
              [count |-> count, expires |-> expires]]
        /\ open' = [open EXCEPT ![u] = IF trip THEN now + OpenFor[q] ELSE @]
        /\ results' = [results EXCEPT ![u] =
                          Append(@, [ok |-> FALSE, at |-> now])]
        /\ UNCHANGED now

(***************************************************************************)
(* circuitFailureScript: the first failure starts the counter's time to    *)
(* live, the Threshold-th opens the circuit and deletes the counter.       *)
(***************************************************************************)
RecordFailure(q, u) ==
    LET count == IF Live(failures[u].expires) THEN failures[u].count + 1 ELSE 1
        expires == IF count = 1 THEN now + OpenFor[q] ELSE failures[u].expires
        trip == count >= Threshold[q]
    IN  /\ failures' = [failures EXCEPT ![u] =
              IF trip THEN NoFailures
              ELSE [count |-> count, expires |-> expires]]
        /\ open' = [open EXCEPT ![u] = IF trip THEN now + OpenFor[q] ELSE @]
        /\ results' = [results EXCEPT ![u] =
                          Append(@, [ok |-> FALSE, at |-> now])]
        /\ UNCHANGED now

-----------------------------------------------------------------------------
(* ServeHTTP *)

\* closed only observes: the upstreams whose circuit was closed at some
\* moment since the request arrived.  Once RecordUpstream was sent and not
\* heard, outcome is what it records, tries how often that happened, and
\* late how many of these copies may still run.
New == [pc |-> "new", ok |-> FALSE, counted |-> FALSE, i |-> 1,
        blocked |-> {}, closed |-> {}, code |-> "none",
        outcome |-> "none", tries |-> 0, late |-> 0]

Answer(q, code) ==
    request' = [request EXCEPT ![q].pc = "done", ![q].code = code]

Arrive(q, s, outcome) ==
    LET pass == outcome.code = "pass" IN
    /\ request[q].pc = "new"
    /\ TakeSnapshot(q, s)
    /\ request' = [request EXCEPT ![q] =
          [New EXCEPT !.pc = IF ~pass THEN "done"
                             ELSE IF Limited THEN "policy" ELSE "circuits",
                      !.ok = outcome.authorised,
                      !.closed = {u \in Candidate : ~CircuitOpen(u)},
                      !.code = IF pass THEN "none" ELSE outcome.code]]
    /\ UNCHANGED <<circuitVars, results>>

\* AllowRequest answers; the script itself is module RequestPolicy.
AllowRequest(q, decision) ==
    /\ request[q].pc = "policy"
    /\ request' = [request EXCEPT ![q].counted = TRUE,
          ![q].pc = IF decision = "allow" THEN "circuits" ELSE "done",
          ![q].code = IF decision = "allow" THEN @ ELSE decision]
    /\ UNCHANGED <<selectionVars, circuitVars, results>>

\* One CircuitOpen call per upstream, in the order of the pool.
ReadCircuit(q) ==
    /\ request[q].pc = "circuits"
    /\ Threshold[q] > 0 /\ request[q].i <= Len(PoolOf(q))
    /\ \/ request' = [request EXCEPT ![q].i = @ + 1,
             ![q].blocked = @ \cup {u \in {PoolOf(q)[request[q].i]} : CircuitOpen(u)}]
       \/ Answer(q, "policy_unavailable")
    /\ UNCHANGED <<selectionVars, circuitVars, results>>

\* Mutant of Select: SelectUpstream is called without the predicate.
SelectAny(q) ==
    /\ request[q].pc = "circuits"
    /\ Threshold[q] = 0 \/ request[q].i > Len(PoolOf(q))
    /\ BeginSelect(q, Candidate)
    /\ request' = [request EXCEPT ![q].pc = "select"]
    /\ UNCHANGED <<circuitVars, results>>

Select(q) ==
    /\ request[q].pc = "circuits"
    /\ Threshold[q] = 0 \/ request[q].i > Len(PoolOf(q))
    /\ BeginSelect(q, Candidate \ request[q].blocked)
    /\ request' = [request EXCEPT ![q].pc = "select"]
    /\ UNCHANGED <<circuitVars, results>>

SelectFurther(q) == SelectStep(q) /\ UNCHANGED pipelineVars

\* No upstream was found: which of the two answers depends on anyBlocked.
Refuse(q) ==
    /\ request[q].pc = "select"
    /\ sel[q].pc = "done" /\ sel[q].result = None
    /\ Answer(q, IF request[q].blocked # {} THEN "circuit_open"
                 ELSE "no_healthy_upstream")
    /\ UNCHANGED <<selectionVars, circuitVars, results>>

Forward(q) ==
    /\ request[q].pc = "select"
    /\ sel[q].pc = "done" /\ sel[q].result # None
    /\ request' = [request EXCEPT ![q].pc = "proxy"]
    /\ UNCHANGED <<selectionVars, circuitVars, results>>

\* What a proxied call can end with, as far as circuits go.
Result == {"success", "failure", "timeout", "unavailable"}

\* One run of the command of RecordUpstream.
Record(q, outcome) ==
    IF outcome = "success" THEN RecordSuccess(sel[q].result)
    ELSE RecordFailure(q, sel[q].result)

\* The call of q ended with this outcome, which may already be on its way.
EndsWith(q, outcome) ==
    request[q].pc = "proxy" /\ request[q].outcome \in {"none", outcome}

\* RecordUpstream sends its command and does not hear the answer.
SendUnheard(q, outcome) ==
    /\ EndsWith(q, outcome)
    /\ Threshold[q] > 0 /\ request[q].tries < Tries
    /\ request' = [request EXCEPT ![q].outcome = outcome,
                                  ![q].tries = @ + 1, ![q].late = @ + 1]
    /\ UNCHANGED <<selectionVars, circuitVars, results>>

\* Redis runs such a copy after all, whatever became of the request.
RunLate(q) ==
    /\ request[q].late > 0
    /\ Record(q, request[q].outcome)
    /\ request' = [request EXCEPT ![q].late = @ - 1]
    /\ UNCHANGED selectionVars

(***************************************************************************)
(* The upstream answers: ModifyResponse records whether the status is      *)
(* below 500; when Redis fails the client gets an error instead of the     *)
(* response, and the outcome is recorded as often as copies sent run.      *)
(***************************************************************************)
Respond(q, outcome) ==
    /\ EndsWith(q, outcome)
    /\ UNCHANGED selectionVars
    /\ \/ /\ Threshold[q] > 0 /\ request[q].tries < Tries
          /\ Record(q, outcome)
          /\ Answer(q, "proxied")
       \/ /\ Threshold[q] > 0
          /\ Answer(q, "policy_unavailable")
          /\ UNCHANGED <<circuitVars, results>>
       \/ /\ Threshold[q] = 0
          /\ Answer(q, "proxied")
          /\ UNCHANGED <<circuitVars, results>>

(***************************************************************************)
(* ErrorHandler: a body above the limit is the client's fault and is not   *)
(* recorded; a timeout or a failed connection is, and an error of that     *)
(* command is ignored.  (A client that goes away ends here as well.)       *)
(***************************************************************************)
Fail(q, code) ==
    /\ EndsWith(q, code)
    /\ Answer(q, code)
    /\ UNCHANGED selectionVars
    /\ \/ /\ Threshold[q] > 0 /\ code # "too_large"
          /\ request[q].tries < Tries
          /\ Record(q, code)
       \/ UNCHANGED <<circuitVars, results>>

\* Redis time passes and keys expire.
Tick ==
    /\ now < MaxTime
    /\ now' = now + 1
    /\ request' = [q \in Request |->
          IF request[q].pc = "new" THEN request[q]
          ELSE [request[q] EXCEPT
                  !.closed = @ \cup {u \in Candidate : open[u] <= now + 1}]]
    /\ UNCHANGED <<selectionVars, failures, open, results>>

-----------------------------------------------------------------------------
Init ==
    /\ SelectionInit
    /\ now = 0
    /\ failures = [u \in Candidate |-> NoFailures]
    /\ open = [u \in Candidate |-> 0]
    /\ request = [q \in Request |-> New]
    /\ results = [u \in Candidate |-> <<>>]
    /\ flips = 0

\* The prober stores a verdict that differs from the last.
FlagChanges ==
    /\ flips < MaxFlips
    /\ flips' = flips + 1
    /\ Flip
    /\ UNCHANGED pipelineVars

Step ==
    \/ \E q \in Request, s \in Snapshot, outcome \in Outcome :
          Arrive(q, s, outcome)
    \/ \E q \in Request,
          d \in {"allow", "rate_limited", "quota_exceeded", "policy_unavailable"} :
          AllowRequest(q, d)
    \/ \E q \in Request : ReadCircuit(q)
    \/ \E q \in Request : Select(q)
    \/ \E q \in Request : SelectFurther(q)
    \/ \E q \in Request : Refuse(q)
    \/ \E q \in Request : Forward(q)
    \/ \E q \in Request, outcome \in Result : SendUnheard(q, outcome)
    \/ \E q \in Request : RunLate(q)
    \/ \E q \in Request, outcome \in {"success", "failure"} : Respond(q, outcome)
    \/ \E q \in Request, code \in {"too_large", "timeout", "unavailable"} :
          Fail(q, code)
    \/ Tick

Next == (Step /\ UNCHANGED flips) \/ FlagChanges

Spec == Init /\ [][Next]_vars

-----------------------------------------------------------------------------
(* Properties *)

Code == {"none", "not_found", "unauthorized", "forbidden", "method_not_allowed",
         "unsupported_media_type", "too_large", "rate_limited",
         "quota_exceeded", "policy_unavailable", "circuit_open",
         "no_healthy_upstream", "proxied", "timeout", "unavailable"}

\* The values of the Redis keys and of the local variables of ServeHTTP.  A
\* failure counter never holds a count that has reached every threshold.
TypeOK ==
    /\ SelectionTypeOK
    /\ now \in 0 .. MaxTime
    /\ failures \in [Candidate -> [count : Nat, expires : Nat]]
    /\ \A u \in Candidate : failures[u].count # 0 =>
          \E q \in Request : failures[u].count < Threshold[q]
    /\ open \in [Candidate -> Nat]
    /\ request \in [Request ->
          [pc : {"new", "policy", "circuits", "select", "proxy", "done"},
           ok : BOOLEAN, counted : BOOLEAN, i : Nat \ {0},
           blocked : SUBSET Candidate, closed : SUBSET Candidate, code : Code,
           outcome : Result \cup {"none"}, tries : 0 .. Tries, late : 0 .. Tries]]
    /\ results \in [Candidate -> Seq([ok : BOOLEAN, at : Nat])]
    /\ flips \in 0 .. MaxFlips

(***************************************************************************)
(* A client that is not authorised learns nothing but that, costs nobody   *)
(* any rate or quota budget, and reaches no upstream.  This rests on the   *)
(* order of the checks in ServeHTTP.                                       *)
(***************************************************************************)
UnauthorisedStopped ==
    \A q \in Request : (request[q].pc # "new" /\ ~request[q].ok) =>
        /\ request[q].code \in {"not_found", "unauthorized", "forbidden"}
        /\ ~request[q].counted
        /\ sel[q].pc = "idle"

(***************************************************************************)
(* No request is sent to an upstream whose circuit was open from the       *)
(* request's arrival on.  (It may have opened after the request looked.)   *)
(***************************************************************************)
OpenCircuitsAvoided ==
    \A q \in Request : sel[q].result # None /\ Threshold[q] > 0 =>
        sel[q].result \in request[q].closed

\* A step that opens the circuit of u is one of a request that was sent there,
\* and the last outcomes, as many as its listener's threshold, are failures.
OpensRightly(u) ==
    open'[u] # open[u] =>
        \E q \in Request :
            LET n == Len(results'[u])
                run == n - Threshold[q] + 1 .. n
            IN  /\ request[q].pc \in {"proxy", "done"} /\ request'[q] # request[q]
                /\ sel[q].result = u /\ Threshold[q] <= n
                /\ \A k \in run : ~results'[u][k].ok
                /\ \A k \in run : \E r \in Request :
                      now - results'[u][k].at < OpenFor[r]

(***************************************************************************)
(* A circuit is opened only by a run of failures: the last Threshold       *)
(* outcomes recorded for the upstream are failures, without a success in   *)
(* between, and none of them is older than the longest counting interval.  *)
(* (A command that was sent again records its request's outcome again.)    *)
(***************************************************************************)
OpenedByFailureRun == [][\A u \in Candidate : OpensRightly(u)]_vars
=============================================================================
