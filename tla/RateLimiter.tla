------------------------------- MODULE RateLimiter -------------------------------
(***************************************************************************)
(* RateLimiterMiddleware: fixed windows, one counter for a key, and limits *)
(* that depend on the path.  The middleware runs before the guards, so no  *)
(* request has an identity yet: every key is an address.                   *)
(***************************************************************************)
EXTENDS Naturals, FiniteSets, Maps

CONSTANTS
  Key,         \* the addresses requests come from
  AuthLimit,   \* requests a window on the strictest paths; in the code 10
  ApiLimit,    \* and on the others; in the code 30, 60, 100 or 300
  Window,      \* the length of a window in ticks of the clock
  MaxTime      \* the clock stops there (a bound)

ASSUME RateLimiterAssumption ==
  /\ AuthLimit \in Nat \ {0} /\ ApiLimit \in Nat /\ AuthLimit <= ApiLimit
  /\ Window \in Nat \ {0} /\ MaxTime \in Nat

VARIABLES
  limits,   \* key -> its counter and the start of its window
  now,      \* Date.now()
  passed    \* history: the requests let through

rateVars == <<limits, now, passed>>

Path == {"auth", "api"}

RateLimitEntry == [count : Nat, windowStart : Nat]

RateTypeOK ==
  /\ DOMAIN limits \subseteq Key /\ limits \in [DOMAIN limits -> RateLimitEntry]
  /\ now \in 0..MaxTime
  /\ passed \subseteq [key : Key, path : Path, at : 0..MaxTime, windowStart : 0..MaxTime,
                       count : Nat]

RateInit == limits = emptyMap /\ now = 0 /\ passed = {}
-----------------------------------------------------------------------------
resolveLimit(path) == IF path = "auth" THEN AuthLimit ELSE ApiLimit

\* The last instant of a window belongs to it.
isOver(entry) == now > entry.windowStart + Window

\* The entry a request leaves, or the one it finds when it is refused.
counted(k, path) ==
  IF k \notin DOMAIN limits \/ (k \in DOMAIN limits /\ isOver(limits[k]))
    THEN [count |-> 1, windowStart |-> now]
    ELSE IF limits[k].count >= resolveLimit(path)
    THEN limits[k]
    ELSE [limits[k] EXCEPT !.count = @ + 1]

\* A refused request (429) changes nothing, and is not a step.
Use(k, path) ==
  LET entry == counted(k, path) IN
    /\ k \in DOMAIN limits => entry # limits[k]
    /\ limits' = put(limits, k, entry)
    /\ passed' = passed \cup {[key |-> k, path |-> path, at |-> now,
                               windowStart |-> entry.windowStart, count |-> entry.count]}
    /\ UNCHANGED now

\* Mutant of expired: half way through its window an entry is removed.
expired_TooSoon == {k \in DOMAIN limits : 2 * now > 2 * limits[k].windowStart + Window}

\* Entries the timer removes: those whose window ended a window ago.
expired == {k \in DOMAIN limits : now > limits[k].windowStart + 2 * Window}

cleanup ==
  /\ expired # {}
  /\ limits' = restrictTo(limits, DOMAIN limits \ expired)
  /\ UNCHANGED <<now, passed>>

Tick == now < MaxTime /\ now' = now + 1 /\ UNCHANGED <<limits, passed>>

RateNext == (\E k \in Key, p \in Path : Use(k, p)) \/ cleanup \/ Tick

RateSpec == RateInit /\ [][RateNext]_rateVars
-----------------------------------------------------------------------------
passedIn(k, from, to) == {p \in passed : p.key = k /\ p.at \in from..to}

\* What fixed windows promise, the timer's removals included: no stretch as long as
\* a window sees more than two windows' worth of requests from an address; inside a
\* window the counter is the number let through, on whatever paths, so a strict path
\* never gets more than its own limit there.  One counter serves all paths, so that
\* requests to either kind use up the quota of the other: a path may get less than
\* its limit.
WindowsHold ==
  \A k \in Key :
     /\ \A t \in 0..MaxTime : Cardinality(passedIn(k, t, t + Window)) <= 2 * ApiLimit
     /\ k \in DOMAIN limits /\ ~isOver(limits[k]) =>
          LET inside == passedIn(k, limits[k].windowStart, now) IN
            /\ limits[k].count = Cardinality(inside)
            /\ \A path \in Path :
                  Cardinality({p \in inside : p.path = path}) <= resolveLimit(path)
=============================================================================
