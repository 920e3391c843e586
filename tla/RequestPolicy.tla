--------------------------- MODULE RequestPolicy ---------------------------
(***************************************************************************)
(* The distributed rate limit and quota of one consumer on one listener:   *)
(* coordination.Client.AllowRequest and the Lua script it runs in Redis.   *)
(* A gateway reads its own clock, derives from it the names of two         *)
(* counters (the calendar second and the calendar minute), and sends the   *)
(* script; the counters expire a second and a minute after Redis created   *)
(* them.  Reading the clock and running the script are therefore two       *)
(* steps, and a late script can find its counter already expired.          *)
(*                                                                         *)
(* The Redis client is left at its default of sending a command again when *)
(* the answer does not come (redis.go sets timeouts only), and the script  *)
(* counts again on each run.  So a call is a number of copies of the       *)
(* script; each is lost or run once, an abandoned one too, and only the    *)
(* answer to the last one sent is heard.                                   *)
(***************************************************************************)
EXTENDS Integers, FiniteSets

CONSTANTS
    Request,      \* requests of the consumer, through any gateway
    Rate, Burst,  \* listener.RateLimitPerSecond and RateLimitBurst
    Quota,        \* listener.QuotaRequestsPerMinute
    Second,       \* ticks of a second
    Minute,       \* ticks of a minute (sixty seconds in the code)
    Tries,        \* how often the client sends a command (four by default)
    MaxDelay,     \* bound, in ticks, from the clock reading to the last run
    MaxTime       \* bound on time

ASSUME PolicyAssumption ==
    /\ Rate \in Nat /\ Burst \in Nat /\ Quota \in Nat
    /\ Second \in Nat \ {0} /\ Minute \in Nat \ {0} /\ Minute % Second = 0
    /\ Tries \in Nat \ {0} /\ MaxDelay \in Nat /\ MaxTime \in Nat

VARIABLES
    now,          \* time
    counter,      \* rate and quota counters in Redis, by kind and period
    call,         \* AllowRequest of each request
    copy          \* the script as sent for each request and try: on its way
                  \* ("sent"), run with a verdict, or neither ("none")

vars == <<now, counter, call, copy>>

Period == 0 .. MaxTime
Length == [rate |-> Second, quota |-> Minute]
Capacity == [rate |-> Rate + Burst, quota |-> Quota]
\* A limit of 0 is no limit; a burst alone is none either.
Limited(kind) == IF kind = "rate" THEN Rate > 0 ELSE Quota > 0
NoCounter == [count |-> 0, expires |-> 0]
NotCalled == [pc |-> "new", at |-> 0, tries |-> 0, decision |-> "none"]
Try == 1 .. Tries

\* The period of a kind of counter in which a call read the clock.
PeriodOf(q, kind) == call[q].at \div Length[kind]

Init ==
    /\ now = 0
    /\ counter = [kind \in {"rate", "quota"} |-> [p \in Period |-> NoCounter]]
    /\ call = [q \in Request |-> NotCalled]
    /\ copy = [q \in Request |-> [t \in Try |-> "none"]]

\* time.Now(), the two key names, and the script sent for the first time.
ReadClock(q) ==
    /\ call[q].pc = "new"
    /\ call' = [call EXCEPT ![q] = [pc |-> "sent", at |-> now, tries |-> 1,
                                    decision |-> "none"]]
    /\ copy' = [copy EXCEPT ![q][1] = "sent"]
    /\ UNCHANGED <<now, counter>>

\* Mutant of Increment: both counters get the quota's time to live.
IncrementLong(c, length) ==
    IF c.expires > now THEN [c EXCEPT !.count = @ + 1]
    ELSE [count |-> 1, expires |-> now + Minute]

\* Mutant of Increment: the counter lives half of its period.
IncrementHalf(c, length) ==
    IF c.expires > now THEN [c EXCEPT !.count = @ + 1]
    ELSE [count |-> 1, expires |-> now + length \div 2]

\* INCR, and PEXPIRE when this created the counter.
Increment(c, length) ==
    IF c.expires > now THEN [c EXCEPT !.count = @ + 1]
    ELSE [count |-> 1, expires |-> now + length]

\* The counters after, and the decision of, one run of the script.
Bumped(q, kinds) ==
    [kind \in DOMAIN counter |-> [p \in Period |->
        IF kind \in kinds /\ p = PeriodOf(q, kind)
        THEN Increment(counter[kind][p], Length[kind])
        ELSE counter[kind][p]]]

Exceeds(q, kind) ==
    Increment(counter[kind][PeriodOf(q, kind)], Length[kind]).count
        > Capacity[kind]

\* Mutant of Script: the quota is counted before the rate is checked.
ScriptQuotaFirst(q) ==
    LET counted == {k \in {"rate", "quota"} : Limited(k)}
    IN  [counter |-> Bumped(q, counted),
         verdict |-> IF Limited("rate") /\ Exceeds(q, "rate") THEN "rate_limited"
                     ELSE IF Limited("quota") /\ Exceeds(q, "quota")
                     THEN "quota_exceeded" ELSE "allow"]

\* requestPolicyScript: a request that the rate limit refuses is not counted
\* against the quota.
Script(q) ==
    LET counted == {k \in {"rate", "quota"} : Limited(k)}
    IN  IF Limited("rate") /\ Exceeds(q, "rate")
        THEN [counter |-> Bumped(q, {"rate"}), verdict |-> "rate_limited"]
        ELSE [counter |-> Bumped(q, counted),
              verdict |-> IF Limited("quota") /\ Exceeds(q, "quota")
                          THEN "quota_exceeded" ELSE "allow"]

\* Redis runs a copy of the script.  When the gateway hears the answer, it
\* follows the verdict.
RunScript(q, t, heard) ==
    /\ copy[q][t] = "sent"
    /\ heard => call[q].pc = "sent" /\ t = call[q].tries
    /\ counter' = Script(q).counter
    /\ copy' = [copy EXCEPT ![q][t] = Script(q).verdict]
    /\ call' = IF heard
               THEN [call EXCEPT ![q].pc = "done", ![q].decision = Script(q).verdict]
               ELSE call
    /\ UNCHANGED now

\* A copy does not reach Redis.
Lose(q, t) ==
    /\ copy[q][t] = "sent"
    /\ copy' = [copy EXCEPT ![q][t] = "none"]
    /\ UNCHANGED <<now, counter, call>>

\* No answer in time, or a broken connection: the client sends the script
\* again, whether or not Redis ran it.
Resend(q) ==
    /\ call[q].pc = "sent" /\ call[q].tries < Tries
    /\ call' = [call EXCEPT ![q].tries = @ + 1]
    /\ copy' = [copy EXCEPT ![q][call[q].tries + 1] = "sent"]
    /\ UNCHANGED <<now, counter>>

\* The client gives up, after its last try or with the request's context:
\* the gateway refuses the request.
Error(q) ==
    /\ call[q].pc = "sent"
    /\ call' = [call EXCEPT ![q].pc = "done", ![q].decision = "error"]
    /\ UNCHANGED <<now, counter, copy>>

\* A call that may still run the script, or wait for it.
Pending(q) == call[q].pc = "sent" \/ \E t \in Try : copy[q][t] = "sent"

\* Time passes while no call is older than the client's timeouts allow.
Tick ==
    /\ now < MaxTime
    /\ \A q \in Request : Pending(q) => now - call[q].at < MaxDelay
    /\ now' = now + 1
    /\ UNCHANGED <<counter, call, copy>>

Next ==
    \/ \E q \in Request : ReadClock(q)
    \/ \E q \in Request, t \in Try, heard \in BOOLEAN : RunScript(q, t, heard)
    \/ \E q \in Request, t \in Try : Lose(q, t)
    \/ \E q \in Request : Resend(q)
    \/ \E q \in Request : Error(q)
    \/ Tick

Spec == Init /\ [][Next]_vars

-----------------------------------------------------------------------------
(* Properties *)

Verdict == {"allow", "rate_limited", "quota_exceeded"}

\* The values of the counters and the calls; no counter outlives a period.
TypeOK ==
    /\ now \in 0 .. MaxTime
    /\ counter \in [{"rate", "quota"} -> [Period -> [count : Nat, expires : Nat]]]
    /\ \A kind \in {"rate", "quota"}, p \in Period :
          counter[kind][p].expires <= now + Length[kind]
    /\ call \in [Request ->
          [pc : {"new", "sent", "done"}, at : 0 .. MaxTime,
           tries : 0 .. Tries, decision : Verdict \cup {"none", "error"}]]
    /\ copy \in [Request -> [Try -> Verdict \cup {"none", "sent"}]]

\* How many lives a counter can have: calls that name it arrive during its
\* period and MaxDelay ticks after, and each life lasts a period.
Lives(length) == (2 * length + MaxDelay - 1) \div length

Allowed(kind, p) ==
    {q \in Request : call[q].decision = "allow" /\ PeriodOf(q, kind) = p}

(***************************************************************************)
(* No calendar second or minute lets more requests through than its        *)
(* budget, once per life of its counter: exactly the budget when scripts   *)
(* run at once, at most twice as many when they arrive less than a period  *)
(* late.                                                                   *)
(***************************************************************************)
WithinBudget ==
    \A kind \in {"rate", "quota"}, p \in Period : Limited(kind) =>
        Cardinality(Allowed(kind, p)) <= Lives(Length[kind]) * Capacity[kind]

\* The verdicts with which a run of the script uses up a unit of a budget.
Passing(kind) ==
    {"allow"} \cup (IF kind = "rate" THEN {"quota_exceeded"} ELSE {})

\* The units used up of a period's budget: runs of the script, named by their
\* request and try.
Charged(kind, p) ==
    {u \in Request \X Try :
        copy[u[1]][u[2]] \in Passing(kind) /\ PeriodOf(u[1], kind) = p}

\* The verdict of a script that finds the limit of a kind used up.
Refusal(kind) == IF kind = "rate" THEN "rate_limited" ELSE "quota_exceeded"

(***************************************************************************)
(* Nobody is refused without cause.  A call that is rate-limited, or over  *)
(* quota, finds its second's, or minute's, budget used up by runs for      *)
(* other requests, except for one unit at most per time that its own       *)
(* script was sent again: a call sent once is refused for the others' sake *)
(* only.  A run that the rate limit refused uses up no quota.              *)
(***************************************************************************)
RefusedForCause ==
    \A q \in Request, kind \in {"rate", "quota"} :
        call[q].decision = Refusal(kind) =>
            Cardinality({u \in Charged(kind, PeriodOf(q, kind)) : u[1] # q})
                + (call[q].tries - 1) >= Capacity[kind]
=============================================================================
