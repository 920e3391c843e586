---------------------------- MODULE LimitedBody ----------------------------
(***************************************************************************)
(* limitedBody.Read, which forwards a request body of unknown length and   *)
(* must neither let a byte above the limit through nor refuse a body of    *)
(* exactly the limit.  The reader below it may return fewer bytes than     *)
(* asked for, none at all, or the last bytes together with EOF or before   *)
(* it; the proxy calls with buffers of any size until it gets an error.    *)
(***************************************************************************)
EXTENDS Integers

CONSTANTS
    MaxBody,      \* bound on the length of a body
    MaxLimit,     \* bound on MaxRequestBytes
    MaxBuffer     \* bound on the length of a caller's buffer

ASSUME BodyAssumption ==
    MaxBody \in Nat /\ MaxLimit \in Nat \ {0} /\ MaxBuffer \in Nat \ {0}

VARIABLES
    body,         \* bytes the client sends
    limit,        \* listener.MaxRequestBytes
    remaining,    \* limitedBody.remaining
    unread,       \* bytes of the body not read yet
    sent,         \* bytes handed to the proxy
    result        \* the last error: none, EOF, or one of the two failures

vars == <<body, limit, remaining, unread, sent, result>>

Init ==
    /\ body \in 0 .. MaxBody
    /\ limit \in 1 .. MaxLimit
    /\ remaining = limit
    /\ unread = body
    /\ sent = 0
    /\ result = "none"

\* The wrapped body's Read returns count bytes and an error.
Returns(size, count, err) ==
    /\ count \in 0 .. size /\ count <= unread
    /\ err \in {"none", "eof", "broken"}
    /\ err = "eof" => count = unread
    /\ unread' = unread - count

\* Mutant of ReadSome: the buffer is not cut.
ReadUncut(size, count, err) ==
    /\ remaining > 0
    /\ Returns(size, count, err)
    /\ remaining' = remaining - count
    /\ sent' = sent + count
    /\ result' = err

\* Mutant of ReadSome: what was asked for is deducted, not what was read.
ReadDeductingSize(size, count, err) ==
    /\ remaining > 0
    /\ Returns(IF size > remaining THEN remaining ELSE size, count, err)
    /\ remaining' = remaining - size
    /\ sent' = sent + count
    /\ result' = err

\* remaining > 0: the buffer is cut to what may still pass.
ReadSome(size, count, err) ==
    /\ remaining > 0
    /\ Returns(IF size > remaining THEN remaining ELSE size, count, err)
    /\ remaining' = remaining - count
    /\ sent' = sent + count
    /\ result' = err

\* Mutant of Probe: EOF is not asked for, a used-up limit is an overrun.
ProbeRefusing(count, err) ==
    /\ remaining = 0
    /\ Returns(1, count, err)
    /\ remaining' = -1
    /\ result' = "too_large"
    /\ UNCHANGED sent

\* remaining = 0: one more byte decides between the limit and an overrun.
Probe(count, err) ==
    /\ remaining = 0
    /\ Returns(1, count, err)
    /\ remaining' = IF count > 0 THEN -1 ELSE 0
    /\ result' = IF count > 0 THEN "too_large" ELSE err
    /\ UNCHANGED sent

\* remaining < 0: the overrun was already reported.
ReadOverrun ==
    /\ remaining < 0
    /\ result' = "too_large"
    /\ UNCHANGED <<remaining, unread, sent>>

\* The caller stops after an error, so ReadOverrun repeats the last answer.
Read(size, count, err) ==
    /\ \/ result = "none" /\ ReadSome(size, count, err)
       \/ result = "none" /\ Probe(count, err)
       \/ ReadOverrun
    /\ UNCHANGED <<body, limit>>

Next ==
    \E size \in 1 .. MaxBuffer, count \in 0 .. MaxBuffer,
       err \in {"none", "eof", "broken"} : Read(size, count, err)

Spec == Init /\ [][Next]_vars

-----------------------------------------------------------------------------
(* Properties *)

\* Lengths are natural numbers; remaining may drop to -1, and no further.
TypeOK ==
    /\ body \in Nat /\ limit \in Nat \ {0}
    /\ remaining \in Nat \cup {-1}
    /\ unread \in Nat /\ sent \in Nat
    /\ result \in {"none", "eof", "broken", "too_large"}

(***************************************************************************)
(* The limit is exact: the upstream never gets more than the limit, a body *)
(* that was forwarded to its end was forwarded whole, and the error for a  *)
(* body that is too large is reported exactly for one that is, after the   *)
(* whole limit was forwarded.                                              *)
(***************************************************************************)
LimitExact ==
    /\ sent <= limit
    /\ result = "eof" => sent = body
    /\ result = "too_large" => body > limit /\ sent = limit
=============================================================================
