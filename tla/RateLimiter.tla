---------------------------- MODULE RateLimiter ----------------------------
(***************************************************************************)
(* The token bucket of pkg/middleware that every Go service puts before    *)
(* its routes: NewRateLimiter(10, 20, time.Second), with a sweep every     *)
(* five minutes.  Allow and the sweep hold the mutex for their whole       *)
(* length, so each is one step.  Time is counted in ticks.                 *)
(***************************************************************************)
EXTENDS Integers

CONSTANTS
    Ip,
    Rate,       \* tokens per interval: 10 in the code
    Burst,      \* the most tokens there may be: 20
    Interval,   \* ticks per interval: a second
    Every,      \* ticks between sweeps, and the idle time that is swept: 5 minutes
    MaxTime,    \* bound: the last tick
    MaxCalls,   \* bound: calls of Allow for an address
    NoVisitor   \* the map has no entry for the address

Visitor == [tokens : 0..Burst, lastCheck : 0..MaxTime]

\* An address that was idle long enough to be swept has all its tokens again.
ASSUME LimiterAssumption ==
    /\ Rate \in Nat /\ Burst \in Nat \ {0} /\ Interval \in Nat \ {0}
    /\ Every \in Nat \ {0} /\ MaxTime \in Nat /\ MaxCalls \in Nat
    /\ Burst <= Rate * (Every \div Interval)
    /\ NoVisitor \notin Visitor \cup (0..MaxTime)

VARIABLES
    visitors,   \* the map: visitors[ip] is its entry or NoVisitor
    now,
    swept,      \* when the sweep last ran
    first,      \* ghost: when the address was first seen, or NoVisitor
    asked,      \* ghost: how often Allow was called for it
    admitted,   \* ghost: how often it returned true
    busy        \* ghost: no call came an Interval or more after the one before

vars == <<visitors, now, swept, first, asked, admitted, busy>>

Init ==
    /\ visitors = [ip \in Ip |-> NoVisitor]
    /\ now = 0
    /\ swept = 0
    /\ first = [ip \in Ip |-> NoVisitor]
    /\ asked = [ip \in Ip |-> 0]
    /\ admitted = [ip \in Ip |-> 0]
    /\ busy = [ip \in Ip |-> TRUE]

Least(a, b) == IF a < b THEN a ELSE b

\* Slip: a part of an interval counts as a whole one.
Refilled_RoundUp(v) ==
    Least(Burst, v.tokens + ((now - v.lastCheck + Interval - 1) \div Interval) * Rate)

\* The tokens of v now: only whole intervals since lastCheck add any.
Refilled(v) == Least(Burst, v.tokens + ((now - v.lastCheck) \div Interval) * Rate)

\* A call now is the first one, or comes within an Interval of the one before.
Soon(ip) ==
    \/ first[ip] = NoVisitor
    \/ visitors[ip] # NoVisitor /\ now - visitors[ip].lastCheck < Interval

\* lastCheck moves to now whether or not any tokens were added, or any was
\* there to spend.
Allow(ip) ==
    LET v == visitors[ip]
        tokens == IF v = NoVisitor THEN Burst ELSE Refilled(v)
    IN  /\ asked[ip] < MaxCalls
        /\ visitors' = [visitors EXCEPT ![ip] =
              [tokens |-> IF tokens > 0 THEN tokens - 1 ELSE 0, lastCheck |-> now]]
        /\ first' = [first EXCEPT ![ip] = IF @ = NoVisitor THEN now ELSE @]
        /\ asked' = [asked EXCEPT ![ip] = @ + 1]
        /\ admitted' = [admitted EXCEPT ![ip] = IF tokens > 0 THEN @ + 1 ELSE @]
        /\ busy' = [busy EXCEPT ![ip] = @ /\ Soon(ip)]
        /\ UNCHANGED <<now, swept>>

\* Slip: an address is swept once a whole interval has passed.
Stale_Early(ip) == visitors[ip] # NoVisitor /\ now - visitors[ip].lastCheck >= Interval

Stale(ip) == visitors[ip] # NoVisitor /\ now - visitors[ip].lastCheck > Every

Cleanup ==
    /\ now - swept >= Every
    /\ visitors' = [ip \in Ip |-> IF Stale(ip) THEN NoVisitor ELSE visitors[ip]]
    /\ swept' = now
    /\ UNCHANGED <<now, first, asked, admitted, busy>>

Tick ==
    /\ now < MaxTime
    /\ now' = now + 1
    /\ UNCHANGED <<visitors, swept, first, asked, admitted, busy>>

Next == (\E ip \in Ip : Allow(ip)) \/ Cleanup \/ Tick

Spec == Init /\ [][Next]_vars

-----------------------------------------------------------------------------
(* Properties.                                                             *)

TypeOK ==
    /\ visitors \in [Ip -> Visitor \cup {NoVisitor}]
    /\ now \in 0..MaxTime /\ swept \in 0..MaxTime
    /\ first \in [Ip -> (0..MaxTime) \cup {NoVisitor}]
    /\ asked \in [Ip -> 0..MaxCalls] /\ admitted \in [Ip -> 0..MaxCalls]
    /\ busy \in [Ip -> BOOLEAN]

\* However calls and sweeps are timed, an address is admitted no more often than
\* its burst and the rate allow since it was first seen.
AdmittedBounded ==
    \A ip \in Ip : first[ip] # NoVisitor =>
        admitted[ip] <= Burst + Rate * ((now - first[ip]) \div Interval)

\* What the sweep drops would have been full, so that dropping it is not seen.
SweepUnseen == \A ip \in Ip : Stale(ip) => Refilled(visitors[ip]) = Burst

LimiterInv == TypeOK /\ SweepUnseen

\* Whoever never leaves a whole Interval between two calls has its burst and
\* nothing more, however long it goes on and however slow it is otherwise: the
\* parts of an Interval that Allow drops are never made up for.
BusyStarves == \A ip \in Ip : busy[ip] => admitted[ip] = Least(asked[ip], Burst)
=============================================================================
