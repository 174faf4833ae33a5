---------------------------- MODULE PlatformProofs ----------------------------
(***************************************************************************)
(* What holds of the rate limiter, the web session, tool calls, the rows    *)
(* of messages and rooms, for any values of their constants; and of all the *)
(* services together: each of them, seen in a behaviour of the platform,    *)
(* behaves as its own specification says.                                   *)
(***************************************************************************)
EXTENDS Platform, AccountsProofs, A2AServiceProofs, FiniteSetTheorems

-------------------------------------------------------------------------------
\* The rate limiter.

\* A window and the one before it, seen from a request of each.
sameWindow(p, q) == p.key = q.key /\ p.windowStart = q.windowStart

\* A request let through was counted within its limit, inside its window.
PassedInWindow ==
  \A p \in passed :
    /\ p.count \in 1..resolveLimit(p.path)
    /\ p.windowStart <= p.at /\ p.at <= p.windowStart + Window /\ p.at <= now

\* In a window no two requests have one number, and windows of a key do not overlap.
WindowsApart ==
  \A p, q \in passed :
    /\ sameWindow(p, q) /\ p.count = q.count => p = q
    /\ p.key = q.key /\ p.windowStart < q.windowStart => p.windowStart + Window < q.windowStart

\* The entry of a key is that of its last window, and has counted all of it.
EntryOfLast ==
  \A k \in DOMAIN limits :
    /\ limits[k].windowStart <= now /\ limits[k].count \in Nat
    /\ \A p \in passed : p.key = k =>
         /\ p.windowStart <= limits[k].windowStart
         /\ p.windowStart = limits[k].windowStart => p.count <= limits[k].count
         /\ p.windowStart < limits[k].windowStart
              => p.windowStart + Window < limits[k].windowStart
    /\ \A n \in 1..limits[k].count :
         \E p \in passed :
            p.key = k /\ p.windowStart = limits[k].windowStart /\ p.count = n

\* A key without an entry is out of all its windows.
NoEntryNoWindow ==
  \A p \in passed : p.key \notin DOMAIN limits => p.windowStart + Window < now

RateInv == RateTypeOK /\ PassedInWindow /\ WindowsApart /\ EntryOfLast /\ NoEntryNoWindow

LEMMA LimitsOfPaths ==
  /\ resolveLimit("auth") = AuthLimit /\ resolveLimit("api") = ApiLimit
  /\ \A path \in Path : resolveLimit(path) \in Nat \ {0} /\ resolveLimit(path) <= ApiLimit
BY RateLimiterAssumption DEF resolveLimit, Path

\* A request that is let through opens a window, or takes the next number in its own.
LEMMA UseCounts ==
  ASSUME RateInv, NEW k \in Key, NEW path \in Path, Use(k, path)
  PROVE  \E start \in 0..MaxTime, n \in 1..resolveLimit(path) :
           /\ limits' = put(limits, k, [count |-> n, windowStart |-> start])
           /\ passed' = passed \cup {[key |-> k, path |-> path, at |-> now,
                                      windowStart |-> start, count |-> n]}
           /\ UNCHANGED now
           /\ \/ n = 1 /\ start = now /\ (k \in DOMAIN limits => isOver(limits[k]))
              \/ /\ k \in DOMAIN limits /\ ~isOver(limits[k])
                 /\ start = limits[k].windowStart /\ n = limits[k].count + 1
<1> USE DEF RateInv, RateTypeOK
<1> DEFINE fresh == [count |-> 1, windowStart |-> now]
           next == [limits[k] EXCEPT !.count = @ + 1]
<1>1. PICK entry :
        /\ entry = counted(k, path) /\ (k \in DOMAIN limits => entry # limits[k])
        /\ limits' = put(limits, k, entry)
        /\ passed' = passed \cup {[key |-> k, path |-> path, at |-> now,
                                   windowStart |-> entry.windowStart, count |-> entry.count]}
        /\ UNCHANGED now
  BY DEF Use
<1>2. CASE k \notin DOMAIN limits \/ (k \in DOMAIN limits /\ isOver(limits[k]))
  <2>1. entry = fresh
    BY <1>1, <1>2 DEF counted
  <2>2. 1 \in 1..resolveLimit(path)
    BY LimitsOfPaths
  <2> QED BY <1>1, <1>2, <2>1, <2>2
<1>3. CASE k \in DOMAIN limits /\ ~isOver(limits[k])
  <2>1. limits[k].count < resolveLimit(path) /\ entry = next
    <3>1. limits[k] \in [count : Nat, windowStart : Nat] /\ resolveLimit(path) \in Nat
      BY <1>3, LimitsOfPaths DEF RateLimitEntry
    <3>2. ~(limits[k].count >= resolveLimit(path))
      BY <1>1, <1>3 DEF counted
    <3> QED BY <1>1, <1>3, <3>1, <3>2 DEF counted
  <2>2. limits[k] \in [count : Nat, windowStart : Nat]
    BY <1>3 DEF RateLimitEntry
  <2>3. next = [count |-> limits[k].count + 1, windowStart |-> limits[k].windowStart]
    BY <2>2
  <2>4. /\ limits[k].windowStart \in 0..MaxTime /\ limits[k].count + 1 \in 1..resolveLimit(path)
    BY <1>3, <2>1, <2>2, LimitsOfPaths, RateLimiterAssumption DEF EntryOfLast
  <2> QED BY <1>1, <1>3, <2>1, <2>3, <2>4
<1> QED BY <1>2, <1>3

LEMMA UseKeeps ==
  ASSUME RateInv, NEW k \in Key, NEW path \in Path, Use(k, path)
  PROVE  RateInv'
<1> USE DEF RateInv, RateTypeOK
<1>1. PICK start \in 0..MaxTime, n \in 1..resolveLimit(path) :
        /\ limits' = put(limits, k, [count |-> n, windowStart |-> start])
        /\ passed' = passed \cup {[key |-> k, path |-> path, at |-> now,
                                   windowStart |-> start, count |-> n]}
        /\ UNCHANGED now
        /\ \/ n = 1 /\ start = now /\ (k \in DOMAIN limits => isOver(limits[k]))
           \/ /\ k \in DOMAIN limits /\ ~isOver(limits[k])
              /\ start = limits[k].windowStart /\ n = limits[k].count + 1
  BY UseCounts
<1> DEFINE entry == [count |-> n, windowStart |-> start]
           new == [key |-> k, path |-> path, at |-> now, windowStart |-> start, count |-> n]
<1>2. /\ entry \in RateLimitEntry /\ entry.count = n /\ entry.windowStart = start
      /\ new \in [key : Key, path : Path, at : 0..MaxTime, windowStart : 0..MaxTime, count : Nat]
      /\ new.key = k /\ new.path = path /\ new.at = now /\ new.windowStart = start
      /\ new.count = n
  BY LimitsOfPaths, RateLimiterAssumption DEF RateLimitEntry
<1>3. limits' = put(limits, k, entry) /\ passed' = passed \cup {new} /\ now' = now
  BY <1>1
<1> HIDE DEF entry, new
<1>4. /\ DOMAIN limits' = DOMAIN limits \cup {k} /\ limits'[k] = entry
      /\ \A x \in DOMAIN limits \ {k} : limits'[x] = limits[x]
      /\ limits' \in [DOMAIN limits' -> RateLimitEntry]
  BY <1>2, <1>3 DEF put
<1>5. RateTypeOK'
  BY <1>2, <1>3, <1>4
<1>6. /\ start <= now /\ now <= start + Window
      /\ \A p \in passed : p.key = k =>
           \/ p.windowStart + Window < start
           \/ p.windowStart = start /\ p.count < n
  <2>1. /\ start \in Nat /\ now \in Nat /\ Window \in Nat /\ n \in Nat
        /\ \A p \in passed : p.windowStart \in Nat /\ p.count \in Nat /\ p.key \in Key
    BY LimitsOfPaths, RateLimiterAssumption
  <2>2. CASE n = 1 /\ start = now /\ (k \in DOMAIN limits => isOver(limits[k]))
    <3>1. k \in DOMAIN limits => /\ limits[k].windowStart \in Nat
                                 /\ now > limits[k].windowStart + Window
      BY <2>2 DEF isOver, RateLimitEntry
    <3>2. \A p \in passed : p.key = k => p.windowStart + Window < start
      BY <2>1, <2>2, <3>1 DEF EntryOfLast, NoEntryNoWindow
    <3> QED BY <2>1, <2>2, <3>2
  <2>3. CASE /\ k \in DOMAIN limits /\ ~isOver(limits[k])
             /\ start = limits[k].windowStart /\ n = limits[k].count + 1
    BY <2>1, <2>3 DEF EntryOfLast, isOver
  <2> QED BY <1>1, <2>2, <2>3
<1>7. PassedInWindow'
  BY <1>2, <1>3, <1>6 DEF PassedInWindow
<1>8. WindowsApart'
  BY <1>2, <1>3, <1>6, RateLimiterAssumption DEF WindowsApart, sameWindow
<1>9. EntryOfLast'
  <2> SUFFICES ASSUME NEW x \in DOMAIN limits' PROVE EntryOfLast!(x)'
    BY DEF EntryOfLast
  <2>1. CASE x # k
    BY <1>2, <1>3, <1>4, <2>1 DEF EntryOfLast
  <2>2. CASE x = k
    <3>1. start <= now /\ n \in Nat
      BY <1>6, LimitsOfPaths
    <3>2. \A p \in passed' : p.key = k =>
            /\ p.windowStart <= start
            /\ p.windowStart = start => p.count <= n
            /\ p.windowStart < start => p.windowStart + Window < start
      BY <1>2, <1>3, <1>6, LimitsOfPaths, RateLimiterAssumption
    <3>3. \A j \in 1..n : \E p \in passed' : p.key = k /\ p.windowStart = start /\ p.count = j
      <4>1. n = 1 \/ (k \in DOMAIN limits /\ start = limits[k].windowStart /\ n = limits[k].count + 1)
        BY <1>1
      <4>2. ASSUME NEW j \in 1..n, j # n
            PROVE  \E p \in passed : p.key = k /\ p.windowStart = start /\ p.count = j
        BY <4>1, <4>2, LimitsOfPaths DEF EntryOfLast
      <4> QED BY <1>2, <1>3, <4>2
    <3> QED BY <1>2, <1>3, <1>4, <2>2, <3>1, <3>2, <3>3
  <2> QED BY <2>1, <2>2
<1>10. NoEntryNoWindow'
  BY <1>2, <1>3, <1>4 DEF NoEntryNoWindow
<1> QED BY <1>5, <1>7, <1>8, <1>9, <1>10

\* An entry goes only after its window, and with it no number that is still in use.
LEMMA CleanupKeeps ==
  ASSUME RateInv, cleanup
  PROVE  RateInv'
<1> USE DEF RateInv, RateTypeOK
<1>1. /\ UNCHANGED <<now, passed>> /\ DOMAIN limits' = DOMAIN limits \ expired
      /\ \A k \in DOMAIN limits' : limits'[k] = limits[k]
      /\ limits' \in [DOMAIN limits' -> RateLimitEntry]
  BY DEF cleanup, restrictTo
<1>2. PassedInWindow' /\ WindowsApart' /\ EntryOfLast'
  BY <1>1 DEF PassedInWindow, WindowsApart, sameWindow, EntryOfLast
<1>3. NoEntryNoWindow'
  <2> SUFFICES ASSUME NEW p \in passed, p.key \in expired PROVE p.windowStart + Window < now
    BY <1>1 DEF NoEntryNoWindow
  <2>1. /\ now > limits[p.key].windowStart + 2 * Window /\ p.key \in DOMAIN limits
        /\ limits[p.key].windowStart \in Nat
    BY DEF expired, RateLimitEntry
  <2>2. p.windowStart <= limits[p.key].windowStart
    BY <2>1 DEF EntryOfLast
  <2> QED BY <2>1, <2>2, RateLimiterAssumption
<1> QED BY <1>1, <1>2, <1>3

LEMMA TickKeeps ==
  ASSUME RateInv, Tick \/ UNCHANGED rateVars
  PROVE  RateInv'
<1>1. now' \in now..MaxTime /\ UNCHANGED <<limits, passed>>
  BY RateLimiterAssumption DEF RateInv, RateTypeOK, Tick, rateVars
<1> QED
  BY <1>1, RateLimiterAssumption
  DEF RateInv, RateTypeOK, PassedInWindow, WindowsApart, sameWindow, EntryOfLast,
      NoEntryNoWindow, RateLimitEntry

\* For any keys, limits and window: RateLimiterMiddleware never lets a request through beyond
\* its path's limit, numbers the requests of a window without gaps, and cleanup drops an
\* entry only when its window is over.
THEOREM RateInvariant == RateSpec => []RateInv
<1>1. RateInit => RateInv
  BY RateLimiterAssumption
  DEF RateInit, RateInv, RateTypeOK, PassedInWindow, WindowsApart, EntryOfLast,
      NoEntryNoWindow, emptyMap
<1>2. RateInv /\ [RateNext]_rateVars => RateInv'
  BY UseKeeps, CleanupKeeps, TickKeeps DEF RateNext
<1> QED BY <1>1, <1>2, PTL DEF RateSpec

LEMMA NumbersTo ==
  ASSUME NEW m \in Nat
  PROVE  IsFiniteSet(1..m) /\ Cardinality(1..m) = m
BY FS_Interval

\* Requests of one key with numbers of their own are no more than the numbers.
LEMMA NumberedRequests ==
  ASSUME NEW S, NEW m \in Nat, NEW numberOf \in [S -> 1..m],
         \A p, q \in S : numberOf[p] = numberOf[q] => p = q
  PROVE  IsFiniteSet(S) /\ Cardinality(S) <= m
<1>1. numberOf \in Injection(S, 1..m)
  BY DEF Injection, IsInjective
<1> QED BY <1>1, NumbersTo, FS_Injection

\* A stretch as long as a window meets two windows of a key at the most.
LEMMA TwoWindows ==
  ASSUME RateInv, NEW k \in Key, NEW t \in 0..MaxTime
  PROVE  Cardinality(passedIn(k, t, t + Window)) <= 2 * ApiLimit
<1> USE DEF RateInv, RateTypeOK
<1> DEFINE S == passedIn(k, t, t + Window)
<1>1. \A p \in S :
        /\ p \in passed /\ p.key = k /\ p.count \in 1..ApiLimit /\ p.windowStart \in Nat
        /\ p.windowStart <= t + Window /\ t <= p.windowStart + Window
  BY LimitsOfPaths, RateLimiterAssumption DEF passedIn, PassedInWindow
<1>2. PICK first \in Nat :
        \A p, q \in S : p.windowStart # first /\ q.windowStart # first
                          => p.windowStart = q.windowStart
  <2>1. CASE \E p \in S : \A q \in S : p.windowStart <= q.windowStart
    <3>1. PICK o \in S : \A q \in S : o.windowStart <= q.windowStart
      BY <2>1
    <3>2. ASSUME NEW p \in S, NEW q \in S,
                 p.windowStart # o.windowStart, q.windowStart # o.windowStart,
                 p.windowStart # q.windowStart
          PROVE  FALSE
      <4>1. /\ o.windowStart + Window < p.windowStart /\ o.windowStart + Window < q.windowStart
            /\ \/ p.windowStart + Window < q.windowStart
               \/ q.windowStart + Window < p.windowStart
        BY <1>1, <3>1, <3>2 DEF WindowsApart
      <4> QED BY <1>1, <4>1, RateLimiterAssumption
    <3> QED BY <1>1, <3>1, <3>2
  <2>2. CASE ~\E p \in S : \A q \in S : p.windowStart <= q.windowStart
    <3>1. ASSUME NEW p \in S PROVE FALSE
      <4>1. PICK q \in S : q.windowStart < p.windowStart
        BY <1>1, <2>2
      <4>2. PICK o \in S : o.windowStart < q.windowStart
        BY <1>1, <2>2
      <4>3. o.windowStart + Window < q.windowStart /\ q.windowStart + Window < p.windowStart
        BY <1>1, <4>1, <4>2 DEF WindowsApart
      <4> QED BY <1>1, <4>3, RateLimiterAssumption
    <3> QED BY <3>1
  <2> QED BY <2>1, <2>2
<1> DEFINE numberOf == [p \in S |-> IF p.windowStart = first THEN p.count ELSE ApiLimit + p.count]
<1>3. 2 * ApiLimit \in Nat /\ numberOf \in [S -> 1..(2 * ApiLimit)]
  BY <1>1, RateLimiterAssumption
<1>4. ASSUME NEW p \in S, NEW q \in S, numberOf[p] = numberOf[q] PROVE p = q
  <2>1. p.windowStart = q.windowStart /\ p.count = q.count
    BY <1>1, <1>2, <1>4, RateLimiterAssumption
  <2> QED BY <1>1, <2>1 DEF WindowsApart, sameWindow
<1> HIDE DEF numberOf
<1> QED BY <1>3, <1>4, NumberedRequests

\* Inside a window the requests let through are those that carry its start.
LEMMA OneWindow ==
  ASSUME RateInv, NEW k \in DOMAIN limits, ~isOver(limits[k])
  PROVE  LET inside == passedIn(k, limits[k].windowStart, now) IN
           /\ limits[k].count = Cardinality(inside)
           /\ \A path \in Path :
                Cardinality({p \in inside : p.path = path}) <= resolveLimit(path)
<1> USE DEF RateInv, RateTypeOK
<1> DEFINE inside == passedIn(k, limits[k].windowStart, now)
           n == limits[k].count
<1>1. \A p \in inside :
        /\ p \in passed /\ p.key = k /\ p.windowStart = limits[k].windowStart
        /\ p.count \in 1..n /\ p.count \in 1..resolveLimit(p.path)
  <2> SUFFICES ASSUME NEW p \in inside PROVE <1>1!(p)
    OBVIOUS
  <2>1. /\ p \in passed /\ p.key = k /\ limits[k].windowStart <= p.at
        /\ p.windowStart \in Nat /\ limits[k].windowStart \in Nat /\ p.at \in Nat
        /\ n \in Nat
    BY DEF passedIn, RateLimitEntry
  <2>2. p.at <= p.windowStart + Window /\ p.count \in 1..resolveLimit(p.path)
    BY <2>1 DEF PassedInWindow
  <2>3. p.windowStart = limits[k].windowStart /\ p.count <= n
    BY <2>1, <2>2, RateLimiterAssumption DEF EntryOfLast
  <2> QED BY <2>1, <2>2, <2>3, LimitsOfPaths
<1>2. n \in Nat /\ \A j \in 1..n : \E p \in inside : p.count = j
  <2>1. /\ limits[k].windowStart \in Nat /\ n \in Nat /\ now \in Nat
    BY RateLimiterAssumption DEF RateLimitEntry
  <2>2. ASSUME NEW j \in 1..n PROVE \E p \in inside : p.count = j
    <3>1. PICK p \in passed : p.key = k /\ p.windowStart = limits[k].windowStart /\ p.count = j
      BY DEF EntryOfLast
    <3>2. p.at \in limits[k].windowStart..now
      BY <2>1, <3>1 DEF PassedInWindow
    <3> QED BY <3>1, <3>2 DEF passedIn
  <2> QED BY <2>1, <2>2
<1>3. \A p, q \in inside : p.count = q.count => p = q
  BY <1>1 DEF WindowsApart, sameWindow
<1> HIDE DEF inside, n
<1> DEFINE numberOf == [p \in inside |-> p.count]
<1>4. numberOf \in Bijection(inside, 1..n)
  BY <1>1, <1>2, <1>3 DEF Bijection, Injection, Surjection, IsInjective
<1>5. IsFiniteSet(inside) /\ Cardinality(inside) = n
  <2>1. IsFiniteSet(1..n) /\ Cardinality(1..n) = n
    BY <1>2, NumbersTo
  <2>2. IsFiniteSet(inside)
    BY <1>4, <2>1, FS_Injection DEF Bijection
  <2> QED BY <1>4, <2>1, <2>2, FS_Bijection DEF ExistsBijection
<1>6. ASSUME NEW path \in Path
      PROVE  Cardinality({p \in inside : p.path = path}) <= resolveLimit(path)
  <2> DEFINE S == {p \in inside : p.path = path}
             number == [p \in S |-> p.count]
  <2>1. resolveLimit(path) \in Nat /\ number \in [S -> 1..resolveLimit(path)]
    BY <1>1, LimitsOfPaths
  <2>2. \A p, q \in S : number[p] = number[q] => p = q
    BY <1>3
  <2> HIDE DEF number, S
  <2>3. Cardinality(S) <= resolveLimit(path)
    BY <2>1, <2>2, NumberedRequests
  <2> QED BY <2>3 DEF S
<1> QED BY <1>5, <1>6 DEF inside, n

\* For any keys, limits and window length, requests at any times and cleanups whenever:
\* no stretch as long as a window lets more than twice the limit through for a key, and
\* inside a window the counter is the number let through, strict paths within their own.
THEOREM WindowsAlwaysHold == RateSpec => []WindowsHold
<1>1. RateInv => WindowsHold
  BY TwoWindows, OneWindow DEF WindowsHold
<1> QED BY <1>1, RateInvariant, PTL

-------------------------------------------------------------------------------
\* The web session.

\* A sign-in that runs waits for somebody.
WaitsForSomebody == session.isLoading => session.waiting # Nobody

WebInv == WebTypeOK /\ WaitsForSomebody /\ SocketFollowsSession

\* A socket that connect() makes gets a number within the bound.
LEMMA NextSocketNumbers ==
  ASSUME WebTypeOK
  PROVE  nextSocket \in Nat \ {0}
<1>1. IsFiniteSet(1..MaxSocket)
  BY FS_Interval, WebSessionAssumption
<1>2. Cardinality(DOMAIN sockets) \in Nat
  BY <1>1, FS_Subset, FS_CardinalityType DEF WebTypeOK
<1> QED BY <1>2 DEF nextSocket

\* What connect(u) leaves, whether it makes a socket or keeps its own.
LEMMA ConnectKeeps ==
  ASSUME WebInv, NEW u \in WebUser, connect(u)
  PROVE  /\ DOMAIN sockets' \subseteq 1..MaxSocket /\ current' \in {0} \cup DOMAIN sockets'
         /\ \A i \in DOMAIN sockets' :
               sockets'[i] \in [user : WebUser, at : {"connecting", "connected", "closed"}]
         /\ ~signedOver /\ session.user = Nobody =>
               open' \subseteq {current'} \ {0} /\ \A i \in open' : sockets'[i].user = u
<1> USE DEF WebInv, WebTypeOK
<1>1. CASE current # 0 /\ sockets[current].at = "connected"
  <2>1. UNCHANGED <<sockets, current>>
    BY <1>1 DEF connect
  <2>2. ~signedOver => session.user # Nobody
    <3>1. current \in open /\ sockets[current].user \in WebUser
      BY <1>1 DEF open
    <3> QED BY <3>1, WebSessionAssumption DEF SocketFollowsSession
  <2> QED BY <2>1, <2>2
<1>2. CASE ~(current # 0 /\ sockets[current].at = "connected")
  <2> DEFINE n == nextSocket
             new == [user |-> u, at |-> "connecting"]
  <2>1. /\ n <= MaxSocket /\ sockets' = put(sockets, n, new) /\ current' = n
    BY <1>2 DEF connect
  <2>2. n \in 1..MaxSocket
    BY <2>1, NextSocketNumbers, WebSessionAssumption
  <2>3. new \in [user : WebUser, at : {"connecting", "connected", "closed"}] /\ new.user = u
    OBVIOUS
  <2> HIDE DEF n, new
  <2>4. /\ DOMAIN sockets' = DOMAIN sockets \cup {n} /\ sockets'[n] = new
        /\ \A i \in DOMAIN sockets \ {n} : sockets'[i] = sockets[i]
    BY <2>1 DEF put
  <2>5. ~signedOver /\ session.user = Nobody => open = {}
    BY WebSessionAssumption DEF SocketFollowsSession, open
  <2>6. open' \subseteq open \cup {n}
    BY <2>4 DEF open
  <2> QED BY <2>1, <2>2, <2>3, <2>4, <2>5, <2>6
<1> QED BY <1>1, <1>2

\* disconnect() closes the one socket that may be open.
LEMMA DisconnectKeeps ==
  ASSUME WebInv, disconnect
  PROVE  /\ DOMAIN sockets' = DOMAIN sockets /\ current' = 0
         /\ \A i \in DOMAIN sockets' :
               sockets'[i] \in [user : WebUser, at : {"connecting", "connected", "closed"}]
         /\ ~signedOver => open' = {}
<1> USE DEF WebInv, WebTypeOK
<1>1. CASE current = 0
  BY <1>1 DEF disconnect, SocketFollowsSession, open
<1>2. CASE current # 0
  <2>1. /\ DOMAIN sockets' = DOMAIN sockets /\ current' = 0 /\ current \in DOMAIN sockets
        /\ sockets' = [sockets EXCEPT ![current].at = "closed"]
    BY <1>2 DEF disconnect
  <2>2. /\ \A i \in DOMAIN sockets \ {current} : sockets'[i] = sockets[i]
        /\ sockets'[current] = [sockets[current] EXCEPT !.at = "closed"]
    BY <2>1
  <2>3. sockets'[current].at = "closed"
    BY <2>1, <2>2
  <2>4. sockets'[current] \in [user : WebUser, at : {"connecting", "connected", "closed"}]
    BY <2>1, <2>2
  <2>5. open' \subseteq open \ {current}
    BY <2>1, <2>2, <2>3 DEF open
  <2> QED BY <2>1, <2>2, <2>4, <2>5 DEF SocketFollowsSession
<1> QED BY <1>1, <1>2

LEMMA LoadPageKeeps ==
  ASSUME WebInv, NEW p \in Page, LoadPage(p)
  PROVE  WebInv'
<1> USE DEF WebInv, WebTypeOK
<1>1. /\ session' = [user |-> stored, isLoading |-> FALSE, waiting |-> Nobody]
      /\ apiToken' = stored /\ stored' = stored /\ page' = p /\ signedOver' = FALSE
      /\ unstored' = FALSE
  BY DEF LoadPage, loadStoredAuth, signedOut, setAccessToken
<1>2. session' \in AuthState /\ session'.user = stored /\ ~session'.isLoading
  BY <1>1 DEF AuthState
<1>3. CASE stored = Nobody
  <2>1. DOMAIN sockets' = {} /\ current' = 0
    BY <1>3 DEF LoadPage, emptyMap
  <2> QED BY <1>1, <1>2, <2>1 DEF WaitsForSomebody, SocketFollowsSession, open
<1>4. CASE stored # Nobody
  <2> DEFINE new == [user |-> stored, at |-> "connecting"]
  <2>1. sockets' = put(emptyMap, 1, new) /\ current' = 1
    BY <1>4 DEF LoadPage
  <2>2. new \in [user : WebUser, at : {"connecting", "connected", "closed"}] /\ new.user = stored
    BY <1>4
  <2> HIDE DEF new
  <2>3. DOMAIN sockets' = {1} /\ sockets'[1] = new
    BY <2>1 DEF put, emptyMap
  <2>4. 1 \in 1..MaxSocket
    BY WebSessionAssumption
  <2>5. WebTypeOK'
    BY <1>1, <1>2, <2>1, <2>2, <2>3, <2>4
  <2>6. open' \subseteq {1}
    BY <2>3 DEF open
  <2> QED BY <1>1, <1>2, <2>1, <2>2, <2>3, <2>5, <2>6 DEF WaitsForSomebody, SocketFollowsSession
<1> QED BY <1>3, <1>4

LEMMA FinishSignInKeeps ==
  ASSUME WebInv, FinishSignIn
  PROVE  WebInv'
<1> USE DEF WebInv, WebTypeOK
<1> DEFINE u == session.waiting
<1>1. /\ u \in WebUser /\ connect(u) /\ apiToken' = u /\ stored' = u /\ page' = "app"
      /\ session' = [user |-> u, isLoading |-> FALSE, waiting |-> Nobody]
      /\ signedOver' = (signedOver \/ session.user # Nobody) /\ unstored' = FALSE
  BY DEF FinishSignIn, WaitsForSomebody, AuthState, signedOut, setAccessToken
<1> HIDE DEF u
<1>2. session' \in AuthState /\ session'.user = u /\ ~session'.isLoading
  BY <1>1 DEF AuthState
<1>3. WebTypeOK'
  BY <1>1, <1>2, ConnectKeeps DEF Page
<1> QED BY <1>1, <1>2, <1>3, ConnectKeeps DEF WaitsForSomebody, SocketFollowsSession

LEMMA SignInUnstoredKeeps ==
  ASSUME WebInv, SignInUnstored
  PROVE  WebInv'
<1> USE DEF WebInv, WebTypeOK
<1> DEFINE u == session.waiting
<1>1. /\ u \in WebUser /\ apiToken' = u /\ UNCHANGED <<page, stored, sockets, current>>
      /\ session' = [user |-> u, isLoading |-> FALSE, waiting |-> Nobody]
      /\ signedOver' = (signedOver \/ session.user # Nobody) /\ unstored' = TRUE
  BY DEF SignInUnstored, WaitsForSomebody, AuthState, signedOut, setAccessToken
<1> HIDE DEF u
<1>2. session' \in AuthState /\ session'.user = u /\ ~session'.isLoading
  BY <1>1 DEF AuthState
<1>3. open' = open /\ (~signedOver /\ session.user = Nobody => open = {})
  BY <1>1, WebSessionAssumption DEF SocketFollowsSession, open
<1> QED BY <1>1, <1>2, <1>3 DEF WaitsForSomebody, SocketFollowsSession

LEMMA LogoutKeeps ==
  ASSUME WebInv, logout
  PROVE  WebInv'
<1> USE DEF WebInv, WebTypeOK
<1>1. /\ disconnect /\ apiToken' = Nobody /\ stored' = Nobody
      /\ session' = [user |-> Nobody, isLoading |-> FALSE, waiting |-> Nobody]
      /\ unstored' = FALSE /\ UNCHANGED <<page, signedOver>>
  BY DEF logout, setAccessToken, signedOut
<1>2. session' \in AuthState /\ session'.user = Nobody /\ ~session'.isLoading
  BY <1>1 DEF AuthState
<1> QED BY <1>1, <1>2, DisconnectKeeps DEF WaitsForSomebody, SocketFollowsSession

LEMMA SocketMovesKeeps ==
  ASSUME WebInv, NEW i \in DOMAIN sockets,
         NEW at \in {"connecting", "connected", "closed"}, SocketMoves(i, at)
  PROVE  WebInv'
<1> USE DEF WebInv, WebTypeOK
<1>1. /\ UNCHANGED <<session, page, apiToken, stored, current, signedOver, unstored>>
      /\ DOMAIN sockets' = DOMAIN sockets /\ i \in open
      /\ \A j \in DOMAIN sockets \ {i} : sockets'[j] = sockets[j]
      /\ sockets'[i] = [sockets[i] EXCEPT !.at = at]
  BY DEF SocketMoves, open
<1>2. /\ sockets'[i] \in [user : WebUser, at : {"connecting", "connected", "closed"}]
      /\ sockets'[i].user = sockets[i].user
  BY <1>1
<1>3. WebTypeOK'
  BY <1>1, <1>2
<1>4. open' \subseteq open
  BY <1>1 DEF open
<1> QED BY <1>1, <1>2, <1>3, <1>4 DEF WaitsForSomebody, SocketFollowsSession

\* Navigating, submitting a form and a sign-in that fails leave token and sockets alone.
LEMMA OtherWebStepsKeep ==
  ASSUME WebInv,
         \/ \E p \in Page : Navigate(p)
         \/ \E u \in WebUser \cup {Nobody} : submitLogin(u) \/ submitRegister(u)
         \/ SignInFails \/ UNCHANGED webVars
  PROVE  WebInv'
<1> USE DEF WebInv, WebTypeOK
<1>1. /\ UNCHANGED <<apiToken, stored, sockets, current, signedOver, unstored>>
      /\ page' \in Page /\ session' \in AuthState /\ session'.user = session.user
      /\ session'.isLoading => session'.waiting # Nobody
  <2>1. ASSUME NEW p \in Page, Navigate(p) PROVE <1>1!:
    BY <2>1 DEF Navigate, WaitsForSomebody
  <2>2. ASSUME NEW u \in WebUser \cup {Nobody}, submitLogin(u) \/ submitRegister(u) PROVE <1>1!:
    BY <2>2 DEF submitLogin, submitRegister, login, register, begins, AuthState
  <2>3. CASE SignInFails
    BY <2>3 DEF SignInFails, AuthState
  <2>4. CASE UNCHANGED webVars
    BY <2>4 DEF webVars, WaitsForSomebody
  <2> QED BY <2>1, <2>2, <2>3, <2>4
<1>2. open' = open
  BY <1>1 DEF open
<1> QED BY <1>1, <1>2 DEF WaitsForSomebody, SocketFollowsSession

\* For any users, reloads, sign-ins and sign-outs: a tab's state keeps its types, a
\* sign-in that runs waits for somebody, and no socket outlives its session.
THEOREM WebInvariant == WebSpec => []WebInv
<1>1. WebInit => WebInv
  <2> SUFFICES ASSUME WebInit PROVE WebInv
    OBVIOUS
  <2>1. session \in AuthState /\ session.user = Nobody /\ ~session.isLoading
    BY DEF WebInit, signedOut, AuthState
  <2>2. DOMAIN sockets = {} /\ current = 0
    BY DEF WebInit, emptyMap
  <2> QED
    BY <2>1, <2>2
    DEF WebInit, WebInv, WebTypeOK, WaitsForSomebody, SocketFollowsSession, open, Page
<1>2. WebInv /\ [WebNext]_webVars => WebInv'
  BY LoadPageKeeps, FinishSignInKeeps, SignInUnstoredKeeps, LogoutKeeps, SocketMovesKeeps,
     OtherWebStepsKeep
  DEF WebNext
<1> QED BY <1>1, <1>2, PTL DEF WebSpec

\* Whatever a tab does: the token is the session's, storage too unless the sign-in could
\* not be stored, and unless somebody signed in over a session, so is the open socket.
THEOREM SocketAlwaysFollows == WebSpec => []SocketFollowsSession
  BY WebInvariant, PTL DEF WebInv

-------------------------------------------------------------------------------
\* Tool calls.

LEMMA ToolNames ==
  /\ BuiltinTools = {"send_message", "create_room", "list_rooms", "invite_user",
                     "search_messages", "manage_agent"}
  /\ "unknown" \notin BuiltinTools
BY DEF BuiltinTools, registerBuiltinTools

\* A handler checks what the schema of its tool requires, to be there and not empty; that
\* of create_room checks nothing.
LEMMA HandlersAnswer ==
  ASSUME NEW tool \in BuiltinTools, NEW args \in Arguments(tool)
  PROVE  /\ callTool(tool, args) \in {"ok", "error"}
         /\ callTool(tool, args) = "error" <=>
              /\ tool # "create_room"
              /\ \E n \in registerBuiltinTools[tool] : args[n] \in {"missing", "empty"}
<1> USE DEF callTool, registerBuiltinTools, answerIf, truthy, Arguments, argumentsOf
<1>1. CASE tool = "send_message"
  BY <1>1 DEF handleSendMessage
<1>2. CASE tool = "create_room"
  BY <1>2 DEF handleCreateRoom
<1>3. CASE tool = "list_rooms"
  BY <1>3 DEF handleListRooms
<1>4. CASE tool = "invite_user"
  BY <1>4 DEF handleInviteUser
<1>5. CASE tool = "search_messages"
  BY <1>5 DEF handleSearchMessages
<1>6. CASE tool = "manage_agent"
  BY <1>6 DEF handleManageAgent
<1> QED BY <1>1, <1>2, <1>3, <1>4, <1>5, <1>6, ToolNames, Zenon

\* Whom the route's guard lets through, the gateway's check of the role does too.
LEMMA GuardSuffices ==
  ASSUME NEW role \in {"human_user", "agent_basic", "agent_privileged"},
         checkPermission(role, "mcp:tool_call")
  PROVE  checkPermission(controllerRole(role), requiredPermission(role))
<1>1. role # "human_user"
  BY DEF checkPermission, rolePermissions, humanUser, everybody, roomKeeping
<1>2. "mcp:tool_call" \in rolePermissions["agent_basic"]
  BY DEF rolePermissions, agentBasic
<1> QED BY <1>1, <1>2 DEF checkPermission, controllerRole, requiredPermission

ToolCallsInv == ToolCallsTypeOK /\ CallsAccounted

LEMMA InvokeKeeps ==
  ASSUME ToolCallsInv, NEW i \in ToolCall,
         NEW role \in {"human_user", "agent_basic", "agent_privileged"},
         NEW tool \in BuiltinTools \cup {"unknown"}, NEW args \in Arguments(tool),
         invokeTool(i, role, tool, args)
  PROVE  ToolCallsInv'
<1> USE DEF ToolCallsInv
<1> DEFINE outcome == routeToolCall(role, tool, args)
           new == [role |-> role, tool |-> tool, args |-> args, outcome |-> outcome,
                   at |-> "saving"]
<1>1. /\ i \notin DOMAIN invocations /\ invocations' = put(invocations, i, new)
      /\ callLog' = callLog \cup {i} /\ writing' = writing \cup {i} /\ UNCHANGED callRows
      /\ checkPermission(role, "mcp:tool_call")
  BY DEF invokeTool
<1>2. /\ outcome \in Outcome /\ (outcome = "denied" <=> tool \notin BuiltinTools)
      /\ outcome = "error" <=>
           /\ tool \in BuiltinTools \ {"create_room"}
           /\ \E n \in argumentsOf(tool) : args[n] \in {"missing", "empty"}
  BY <1>1, GuardSuffices, HandlersAnswer DEF routeToolCall, Outcome, argumentsOf
<1>3. /\ new.role = role /\ new.tool = tool /\ new.args = args /\ new.outcome = outcome
      /\ new.at = "saving" /\ DOMAIN new = {"role", "tool", "args", "outcome", "at"}
  OBVIOUS
<1> HIDE DEF new, outcome
<1>4. /\ DOMAIN invocations' = DOMAIN invocations \cup {i} /\ invocations'[i] = new
      /\ \A j \in DOMAIN invocations : invocations'[j] = invocations[j]
  BY <1>1 DEF put
<1>5. McpCall(new)
  BY <1>2, <1>3 DEF McpCall, Role
<1>6. ToolCallsTypeOK'
  BY <1>1, <1>4, <1>5 DEF ToolCallsTypeOK, McpCall
<1>7. CallsAccounted'
  <2> SUFFICES ASSUME NEW j \in DOMAIN invocations' PROVE CallsAccounted!(j)'
    BY DEF CallsAccounted
  <2>1. CASE j = i
    BY <1>1, <1>2, <1>3, <1>4, <2>1 DEF ToolCallsTypeOK
  <2>2. CASE j # i
    BY <1>1, <1>4, <2>2 DEF CallsAccounted
  <2> QED BY <2>1, <2>2
<1> QED BY <1>6, <1>7

\* What answering does to the calls: it says where one of them ended.
LEMMA AnswersOne ==
  ASSUME ToolCallsTypeOK, NEW i \in DOMAIN invocations,
         NEW at \in {"answered", "failed"}, answer(i, at)
  PROVE  /\ DOMAIN invocations' = DOMAIN invocations
         /\ \A j \in DOMAIN invocations \ {i} : invocations'[j] = invocations[j]
         /\ invocations'[i].at = IF invocations[i].at = "saving" THEN at ELSE invocations[i].at
         /\ \A f \in {"role", "tool", "args", "outcome"} : invocations'[i][f] = invocations[i][f]
         /\ McpCall(invocations'[i])
<1> DEFINE end == IF invocations[i].at = "saving" THEN at ELSE invocations[i].at
<1>1. McpCall(invocations[i])
  BY DEF ToolCallsTypeOK
<1>2. /\ DOMAIN invocations' = DOMAIN invocations
      /\ \A j \in DOMAIN invocations \ {i} : invocations'[j] = invocations[j]
      /\ invocations'[i] = [invocations[i] EXCEPT !.at = end]
  BY DEF answer
<1>3. end \in {"saving", "answered", "failed", "lost"}
  BY <1>1 DEF McpCall
<1> HIDE DEF end
<1>4. /\ invocations'[i].at = end
      /\ \A f \in {"role", "tool", "args", "outcome"} : invocations'[i][f] = invocations[i][f]
      /\ DOMAIN invocations'[i] = DOMAIN invocations[i]
  BY <1>1, <1>2 DEF McpCall
<1>5. McpCall(invocations'[i])
  BY <1>1, <1>3, <1>4 DEF McpCall
<1> QED BY <1>2, <1>4, <1>5 DEF end

LEMMA RowLandsKeeps ==
  ASSUME ToolCallsInv, NEW i \in writing, RowLands(i)
  PROVE  ToolCallsInv'
<1> USE DEF ToolCallsInv
<1>1. /\ i \in DOMAIN invocations /\ answer(i, "answered") /\ writing' = writing \ {i}
      /\ callRows' = put(callRows, i, invocations[i].outcome) /\ UNCHANGED callLog
  BY DEF RowLands, ToolCallsTypeOK
<1>2. /\ DOMAIN callRows' = DOMAIN callRows \cup {i} /\ callRows'[i] = invocations[i].outcome
      /\ \A j \in DOMAIN callRows \ {i} : callRows'[j] = callRows[j]
      /\ callRows' \in [DOMAIN callRows' -> Outcome]
  BY <1>1 DEF put, ToolCallsTypeOK, McpCall
<1>3. ToolCallsTypeOK'
  BY <1>1, <1>2, AnswersOne DEF ToolCallsTypeOK
<1>4. CallsAccounted'
  BY <1>1, <1>2, AnswersOne DEF CallsAccounted
<1> QED BY <1>3, <1>4

LEMMA RowFailsKeeps ==
  ASSUME ToolCallsInv, NEW i \in writing, RowFails(i)
  PROVE  ToolCallsInv'
<1> USE DEF ToolCallsInv
<1>1. /\ i \in DOMAIN invocations /\ answer(i, "failed") /\ writing' = writing \ {i}
      /\ UNCHANGED <<callRows, callLog>>
  BY DEF RowFails, ToolCallsTypeOK
<1>2. ToolCallsTypeOK'
  BY <1>1, AnswersOne DEF ToolCallsTypeOK
<1>3. CallsAccounted'
  BY <1>1, AnswersOne DEF CallsAccounted, ToolCallsTypeOK, McpCall
<1> QED BY <1>2, <1>3

LEMMA RestartServerKeeps ==
  ASSUME ToolCallsInv, RestartServer
  PROVE  ToolCallsInv'
<1> USE DEF ToolCallsInv
<1>1. /\ callLog' = {} /\ UNCHANGED <<callRows, writing>>
      /\ DOMAIN invocations' = DOMAIN invocations
      /\ \A i \in DOMAIN invocations :
            invocations'[i] = IF invocations[i].at = "saving"
                              THEN [invocations[i] EXCEPT !.at = "lost"] ELSE invocations[i]
  BY DEF RestartServer
<1>2. ASSUME NEW i \in DOMAIN invocations
      PROVE  /\ McpCall(invocations'[i])
             /\ invocations'[i].at = IF invocations[i].at = "saving" THEN "lost"
                                     ELSE invocations[i].at
             /\ \A f \in {"role", "tool", "args", "outcome"} :
                   invocations'[i][f] = invocations[i][f]
  <2>1. McpCall(invocations[i])
    BY DEF ToolCallsTypeOK
  <2>2. CASE invocations[i].at = "saving"
    <3>1. invocations'[i] = [invocations[i] EXCEPT !.at = "lost"]
      BY <1>1, <2>2
    <3> QED BY <2>1, <2>2, <3>1 DEF McpCall
  <2>3. CASE invocations[i].at # "saving"
    BY <1>1, <2>1, <2>3
  <2> QED BY <2>2, <2>3
<1>3. ToolCallsTypeOK'
  BY <1>1, <1>2 DEF ToolCallsTypeOK
<1>4. CallsAccounted'
  BY <1>1, <1>2 DEF CallsAccounted
<1> QED BY <1>3, <1>4

\* For any set of calls and any order of row writes, failures and restarts: calls, rows
\* and the log keep their types, and what is written of a call goes with how it ended.
THEOREM ToolCallsInvariant == ToolCallsSpec => []ToolCallsInv
<1>1. ToolCallsInit => ToolCallsInv
  BY DEF ToolCallsInit, ToolCallsInv, ToolCallsTypeOK, CallsAccounted, emptyMap
<1>2. ToolCallsInv /\ [ToolCallsNext]_toolCallVars => ToolCallsInv'
  <2>1. ToolCallsInv /\ UNCHANGED toolCallVars => ToolCallsInv'
    BY DEF ToolCallsInv, ToolCallsTypeOK, CallsAccounted, toolCallVars
  <2>2. ASSUME NEW r \in Request
        PROVE  r.tool \in BuiltinTools \cup {"unknown"} /\ r.args \in Arguments(r.tool)
    BY DEF Request
  <2> QED
    BY <2>1, <2>2, InvokeKeeps, RowLandsKeeps, RowFailsKeeps, RestartServerKeeps
    DEF ToolCallsNext
<1> QED BY <1>1, <1>2, PTL DEF ToolCallsSpec

\* Whatever is called, saved, failed and restarted: an answered call has its row, a row
\* the outcome the handler gave, a call with neither row nor insert has failed or was lost
\* in a restart, and a handler's error means an argument its schema requires that is missing
\* or empty.
THEOREM CallsAlwaysAccounted == ToolCallsSpec => []CallsAccounted
  BY ToolCallsInvariant, PTL DEF ToolCallsInv

-------------------------------------------------------------------------------
\* Rows of messages.

\* An operation leaves a row a row, keeps its deletion, and takes nobody's reaction or
\* read mark but the reaction its caller removes.
LEMMA OperationsTakeOwn ==
  ASSUME NEW r \in MessageRow, NEW does \in Operation
  PROVE  /\ after(r, does) \in MessageRow
         /\ after(r, does).deleted = r.deleted
         /\ r.readBy \subseteq after(r, does).readBy
         /\ \A p \in Reader :
               (\E x \in r.reactions \ after(r, does).reactions : x[2] = p)
                 => does.op = "unreact" /\ does.by = p
<1> USE DEF MessageRow, Operation, after
<1>1. CASE does.op = "edit"
  BY <1>1 DEF edit
<1>2. CASE does.op = "read"
  BY <1>2 DEF markAsRead
<1>3. CASE does.op = "react"
  BY <1>3 DEF addReaction
<1>4. CASE does.op = "unreact"
  <2>1. does.emoji \in Emoji /\ does.by \in Reader
    BY <1>4
  <2>2. after(r, does) = [r EXCEPT !.reactions = @ \ {<<does.emoji, does.by>>}]
    BY <1>4 DEF removeReaction
  <2> QED BY <1>4, <2>1, <2>2
<1> QED BY <1>1, <1>2, <1>3, <1>4

LEMMA MessageRowsKeepTypes ==
  MessageRowsTypeOK /\ [MessageRowsNext]_messageRowsVars => MessageRowsTypeOK'
<1> SUFFICES ASSUME MessageRowsTypeOK, [MessageRowsNext]_messageRowsVars
             PROVE  MessageRowsTypeOK'
  OBVIOUS
<1> USE DEF MessageRowsTypeOK
<1>1. ASSUME NEW c \in RowCall, NEW d \in Operation, FindRow(c, d) PROVE MessageRowsTypeOK'
  BY <1>1 DEF FindRow, RunningCall
<1>2. ASSUME NEW c \in RowCall, SaveRow(c) PROVE MessageRowsTypeOK'
  <2>1. rowCalls[c].does \in Operation /\ rowCalls[c].found \in MessageRow
    BY <1>2 DEF SaveRow, RunningCall
  <2> QED BY <1>2, <2>1, OperationsTakeOwn DEF SaveRow
<1>3. CASE SoftDelete
  BY <1>3 DEF SoftDelete, MessageRow
<1>4. CASE UNCHANGED messageRowsVars
  BY <1>4 DEF messageRowsVars
<1> QED BY <1>1, <1>2, <1>3, <1>4 DEF MessageRowsNext

\* Under any number of findOne-and-save calls at once, the row of a message and what the
\* calls have found of it keep their types.
THEOREM MessageRowsTypeCorrect == MessageRowsSpec => []MessageRowsTypeOK
<1>1. MessageRowsInit => MessageRowsTypeOK
  BY MessageRowsAssumption DEF MessageRowsInit, MessageRowsTypeOK, MessageRow
<1> QED BY <1>1, MessageRowsKeepTypes, PTL DEF MessageRowsSpec

LostOnlyToOverlapStep ==
  \A p \in Reader : lost(p) =>
    \E c \in RowCall :
       /\ rowCalls[c] # noCall /\ rowCalls'[c] = noCall
       /\ \/ rowCalls[c].found # row
          \/ rowCalls[c].does.op = "unreact" /\ rowCalls[c].does.by = p

LEMMA StepsLoseToOverlap ==
  ASSUME MessageRowsTypeOK, [MessageRowsNext]_messageRowsVars
  PROVE  [LostOnlyToOverlapStep]_messageRowsVars
<1>1. ASSUME UNCHANGED row PROVE LostOnlyToOverlapStep
  BY <1>1 DEF LostOnlyToOverlapStep, lost
<1>2. CASE SoftDelete
  BY <1>2 DEF SoftDelete, LostOnlyToOverlapStep, lost, MessageRowsTypeOK, MessageRow
<1>3. ASSUME NEW c \in RowCall, SaveRow(c) PROVE LostOnlyToOverlapStep
  <2>1. /\ rowCalls[c] # noCall /\ rowCalls'[c] = noCall
        /\ rowCalls[c].does \in Operation /\ row \in MessageRow
        /\ row' = after(rowCalls[c].found, rowCalls[c].does)
    BY <1>3 DEF SaveRow, RunningCall, MessageRowsTypeOK
  <2>2. CASE rowCalls[c].found # row
    BY <2>1, <2>2 DEF LostOnlyToOverlapStep
  <2>3. CASE rowCalls[c].found = row
    BY <2>1, <2>3, OperationsTakeOwn DEF LostOnlyToOverlapStep, lost
  <2> QED BY <2>2, <2>3
<1>4. \A c \in RowCall, d \in Operation : FindRow(c, d) => UNCHANGED row
  BY DEF FindRow
<1> QED BY <1>1, <1>2, <1>3, <1>4 DEF MessageRowsNext

\* For any number of readers and calls: what anybody loses of a row goes to a call that
\* saved an older row over a newer, or to a removal of one's own.
THEOREM LostAlwaysToOverlap == MessageRowsSpec => LostOnlyToOverlap
<1>1. MessageRowsTypeOK /\ [MessageRowsNext]_messageRowsVars
        => [LostOnlyToOverlapStep]_messageRowsVars
  BY StepsLoseToOverlap
<1> QED
  BY <1>1, MessageRowsTypeCorrect, PTL
  DEF MessageRowsSpec, LostOnlyToOverlap, LostOnlyToOverlapStep

-------------------------------------------------------------------------------
\* Rooms.

ownerOf(r) == [id |-> roomRows[r].createdBy, kind |-> roomRows[r].creatorType, role |-> "owner"]

\* Where a creation is: until it fails, everybody the request names beside the creator
\* has a row or a place in what is left, and after the first insert the owner has one.
CreationOnItsWay(r) ==
  LET c == creations[r] IN
    /\ c.at = "owner" => memberRows[r] = {}
    /\ c.at \in {"members", "created"} => ownerOf(r) \in memberRows[r]
    /\ c.at # "failed" =>
         \A i \in others(c.dto, roomRows[r].createdBy) : i \in c.left \/ isMember(r, c.dto[i][1])
    /\ c.at = "created" => c.left = {}
    /\ c.left \subseteq others(c.dto, roomRows[r].createdBy)

\* Who is in a room: its owner, and members of the request who are not the owner.
RoomOfOwner(r) ==
  /\ memberRows[r] # {} => ownerOf(r) \in memberRows[r]
  /\ \A m \in memberRows[r] \ {ownerOf(r)} :
        /\ m.role = "member"
        /\ \E i \in others(creations[r].dto, roomRows[r].createdBy) :
              m.id = creations[r].dto[i][1]

\* Who has passed the check is a member still, and rooms that are not there are empty.
SendersStay ==
  /\ \A m \in sending \cup messages : m.room \in DOMAIN roomRows /\ isMember(m.room, m.sender)
  /\ \A r \in RoomId \ DOMAIN roomRows : memberRows[r] = {}

RoomsInv ==
  /\ RoomsTypeOK /\ SendersStay
  /\ \A r \in DOMAIN roomRows : CreationOnItsWay(r) /\ RoomOfOwner(r)

LEMMA DtoMembers ==
  ASSUME NEW dto \in CreateRoomDto
  PROVE  \A i \in DOMAIN dto : dto[i] \in Person \X Kind
BY DEF CreateRoomDto

LEMMA CreateRoomKeeps ==
  ASSUME RoomsInv, NEW r \in RoomId, NEW p \in Person, NEW k \in Kind,
         NEW v \in {"public", "private"}, NEW dto \in CreateRoomDto,
         CreateRoom(r, p, k, v, dto)
  PROVE  RoomsInv'
<1> USE DEF RoomsInv
<1> DEFINE rw == [createdBy |-> p, creatorType |-> k, visibility |-> v]
           new == [at |-> "owner", dto |-> dto, left |-> others(dto, p)]
<1>1. /\ r \notin DOMAIN roomRows /\ UNCHANGED <<memberRows, sending, messages>>
      /\ roomRows' = put(roomRows, r, rw) /\ creations' = put(creations, r, new)
  BY DEF CreateRoom, createRoomRow
<1>2. rw \in RoomRow /\ rw.createdBy = p /\ rw.creatorType = k
  BY DEF RoomRow
<1>3. /\ DOMAIN new = {"at", "dto", "left"} /\ new.at = "owner" /\ new.dto = dto
      /\ new.left = others(dto, p)
  OBVIOUS
<1> HIDE DEF rw, new
<1>4. /\ DOMAIN roomRows' = DOMAIN roomRows \cup {r} /\ roomRows'[r] = rw
      /\ \A x \in DOMAIN roomRows : roomRows'[x] = roomRows[x]
      /\ roomRows' \in [DOMAIN roomRows' -> RoomRow]
  BY <1>1, <1>2 DEF put, RoomsTypeOK
<1>5. /\ DOMAIN creations' = DOMAIN creations \cup {r} /\ creations'[r] = new
      /\ \A x \in DOMAIN creations : creations'[x] = creations[x]
  BY <1>1 DEF put, RoomsTypeOK
<1>6. memberRows[r] = {}
  BY <1>1 DEF SendersStay
<1>7. RoomsTypeOK'
  BY <1>1, <1>3, <1>4, <1>5 DEF RoomsTypeOK, others
<1>8. SendersStay'
  BY <1>1, <1>4 DEF SendersStay, isMember
<1>9. CreationOnItsWay(r)' /\ RoomOfOwner(r)'
  BY <1>1, <1>2, <1>3, <1>4, <1>5, <1>6 DEF CreationOnItsWay, RoomOfOwner
<1>10. ASSUME NEW x \in DOMAIN roomRows PROVE CreationOnItsWay(x)' /\ RoomOfOwner(x)'
  BY <1>1, <1>4, <1>5 DEF CreationOnItsWay, RoomOfOwner, RoomsTypeOK, ownerOf, isMember
<1> QED BY <1>4, <1>7, <1>8, <1>9, <1>10

\* An insert into a room disturbs no other, and takes nobody out.
LEMMA InsertsKeep ==
  ASSUME RoomsInv, NEW r \in DOMAIN roomRows, NEW id \in Person, NEW kind \in Kind,
         NEW role \in {"owner", "member"}, addMember(r, id, kind, role),
         UNCHANGED <<roomRows, sending, messages>>
  PROVE  /\ memberRows' \in [RoomId -> SUBSET RoomMember]
         /\ memberRows'[r] = memberRows[r] \cup {[id |-> id, kind |-> kind, role |-> role]}
         /\ \A x \in RoomId \ {r} : memberRows'[x] = memberRows[x]
         /\ SendersStay'
<1> DEFINE new == [id |-> id, kind |-> kind, role |-> role]
<1>1. new \in RoomMember
  BY DEF RoomMember
<1> HIDE DEF new
<1>2. /\ memberRows' \in [RoomId -> SUBSET RoomMember]
      /\ memberRows'[r] = memberRows[r] \cup {new}
      /\ \A x \in RoomId \ {r} : memberRows'[x] = memberRows[x]
  BY <1>1 DEF RoomsInv, RoomsTypeOK, addMember, new
<1>3. SendersStay'
  BY <1>2 DEF RoomsInv, RoomsTypeOK, SendersStay, isMember, Message
<1> QED BY <1>2, <1>3 DEF new

\* The others' creations are as they were.
LEMMA OtherRoomsKeep ==
  ASSUME RoomsInv, NEW r \in DOMAIN roomRows, UNCHANGED roomRows,
         \A x \in DOMAIN creations \ {r} : creations'[x] = creations[x],
         \A x \in RoomId \ {r} : memberRows'[x] = memberRows[x]
  PROVE  \A x \in DOMAIN roomRows \ {r} : CreationOnItsWay(x)' /\ RoomOfOwner(x)'
BY DEF RoomsInv, RoomsTypeOK, CreationOnItsWay, RoomOfOwner, ownerOf, isMember

LEMMA AddOwnerKeeps ==
  ASSUME RoomsInv, NEW r \in DOMAIN creations, AddOwner(r)
  PROVE  RoomsInv'
<1> USE DEF RoomsInv
<1> DEFINE c == creations[r]
<1>1. /\ r \in DOMAIN roomRows /\ c.at = "owner" /\ DOMAIN c = {"at", "dto", "left"}
      /\ roomRows[r].createdBy \in Person /\ roomRows[r].creatorType \in Kind
  BY DEF AddOwner, RoomsTypeOK, RoomRow
<1>2. /\ UNCHANGED <<roomRows, sending, messages>>
      /\ addMember(r, roomRows[r].createdBy, roomRows[r].creatorType, "owner")
      /\ DOMAIN creations' = DOMAIN creations
      /\ \A x \in DOMAIN creations \ {r} : creations'[x] = creations[x]
      /\ creations'[r] = [c EXCEPT !.at = "members"]
  BY DEF AddOwner
<1>3. /\ creations'[r].at = "members" /\ creations'[r].dto = c.dto /\ creations'[r].left = c.left
      /\ DOMAIN creations'[r] = {"at", "dto", "left"}
  BY <1>1, <1>2
<1>4. /\ memberRows' \in [RoomId -> SUBSET RoomMember] /\ SendersStay'
      /\ memberRows'[r] = memberRows[r] \cup {ownerOf(r)}
      /\ \A x \in RoomId \ {r} : memberRows'[x] = memberRows[x]
  BY <1>1, <1>2, InsertsKeep DEF ownerOf
<1>5. memberRows[r] = {}
  BY <1>1 DEF CreationOnItsWay
<1> HIDE DEF c
<1>6. RoomsTypeOK'
  BY <1>2, <1>3, <1>4 DEF RoomsTypeOK, c
<1>7. CreationOnItsWay(r)' /\ RoomOfOwner(r)'
  BY <1>1, <1>2, <1>3, <1>4, <1>5 DEF CreationOnItsWay, RoomOfOwner, ownerOf, isMember, c
<1> QED BY <1>1, <1>2, <1>4, <1>6, <1>7, OtherRoomsKeep

\* A creation that inserts nothing: it ends, or the next member is there already.
LEMMA CreationMovesKeeps ==
  ASSUME RoomsInv, NEW r \in DOMAIN creations, NEW at \in {"created", "failed"},
         at = "created" => creations[r].at = "members" /\ creations[r].left = {},
         creations' = [creations EXCEPT ![r].at = at],
         UNCHANGED <<roomRows, memberRows, sending, messages>>
  PROVE  RoomsInv'
<1> USE DEF RoomsInv
<1> DEFINE c == creations[r]
<1>1. r \in DOMAIN roomRows /\ DOMAIN c = {"at", "dto", "left"}
  BY DEF RoomsTypeOK
<1>2. /\ DOMAIN creations' = DOMAIN creations
      /\ \A x \in DOMAIN creations \ {r} : creations'[x] = creations[x]
      /\ creations'[r] = [c EXCEPT !.at = at]
  OBVIOUS
<1>3. /\ creations'[r].at = at /\ creations'[r].dto = c.dto /\ creations'[r].left = c.left
      /\ DOMAIN creations'[r] = {"at", "dto", "left"}
  BY <1>1, <1>2
<1> HIDE DEF c
<1>4. RoomsTypeOK'
  BY <1>2, <1>3 DEF RoomsTypeOK, c
<1>5. SendersStay'
  BY DEF SendersStay, isMember
<1>6. CreationOnItsWay(r)' /\ RoomOfOwner(r)'
  BY <1>1, <1>3 DEF CreationOnItsWay, RoomOfOwner, ownerOf, isMember, c
<1> QED BY <1>1, <1>2, <1>4, <1>5, <1>6, OtherRoomsKeep

LEMMA AddNextMemberKeeps ==
  ASSUME RoomsInv, NEW r \in DOMAIN creations, AddNextMember(r)
  PROVE  RoomsInv'
<1> USE DEF RoomsInv
<1> DEFINE c == creations[r]
<1>1. PICK i \in c.left :
        /\ c.at = "members" /\ UNCHANGED <<roomRows, sending, messages>>
        /\ \/ /\ addMember(r, c.dto[i][1], c.dto[i][2], "member")
              /\ creations' = [creations EXCEPT ![r].left = @ \ {i}]
           \/ /\ creations' = [creations EXCEPT ![r].at = "failed"]
              /\ UNCHANGED memberRows
  BY DEF AddNextMember
<1>2. CASE creations' = [creations EXCEPT ![r].at = "failed"] /\ UNCHANGED memberRows
  BY <1>1, <1>2, CreationMovesKeeps
<1>3. CASE /\ addMember(r, c.dto[i][1], c.dto[i][2], "member")
           /\ creations' = [creations EXCEPT ![r].left = @ \ {i}]
  <2>1. /\ r \in DOMAIN roomRows /\ DOMAIN c = {"at", "dto", "left"} /\ c.dto \in CreateRoomDto
        /\ c.left \subseteq DOMAIN c.dto
    BY DEF RoomsTypeOK
  <2>2. c.dto[i] \in Person \X Kind
    BY <2>1, DtoMembers
  <2>3. c.dto[i][1] \in Person /\ c.dto[i][2] \in Kind
    BY <2>2
  <2>4. /\ DOMAIN creations' = DOMAIN creations
        /\ \A x \in DOMAIN creations \ {r} : creations'[x] = creations[x]
        /\ creations'[r] = [c EXCEPT !.left = @ \ {i}]
    BY <1>3
  <2>5. /\ creations'[r].at = "members" /\ creations'[r].dto = c.dto
        /\ creations'[r].left = c.left \ {i} /\ DOMAIN creations'[r] = {"at", "dto", "left"}
    BY <1>1, <2>1, <2>4
  <2> DEFINE new == [id |-> c.dto[i][1], kind |-> c.dto[i][2], role |-> "member"]
  <2>6. /\ memberRows' \in [RoomId -> SUBSET RoomMember] /\ SendersStay'
        /\ memberRows'[r] = memberRows[r] \cup {new}
        /\ \A x \in RoomId \ {r} : memberRows'[x] = memberRows[x]
    BY <1>1, <1>3, <2>1, <2>3, InsertsKeep
  <2>7. new.id = c.dto[i][1] /\ new.role = "member"
    OBVIOUS
  <2> HIDE DEF new, c
  <2>8. RoomsTypeOK'
    BY <1>1, <2>4, <2>5, <2>6 DEF RoomsTypeOK, c
  <2>9. CreationOnItsWay(r)' 
    BY <1>1, <2>1, <2>4, <2>5, <2>6, <2>7 DEF CreationOnItsWay, ownerOf, isMember, c
  <2>10. RoomOfOwner(r)'
    <3>1. i \in others(c.dto, roomRows[r].createdBy)
      BY <2>1 DEF CreationOnItsWay, c
    <3>2. ownerOf(r) \in memberRows[r] /\ ownerOf(r)' = ownerOf(r)
      BY <1>1, <2>1 DEF CreationOnItsWay, ownerOf, c
    <3>3. roomRows' = roomRows /\ creations'[r].dto = c.dto
      BY <1>1, <2>5
    <3>4. \A m \in memberRows[r] \ {ownerOf(r)} :
            /\ m.role = "member"
            /\ \E j \in others(c.dto, roomRows[r].createdBy) : m.id = c.dto[j][1]
      BY <2>1 DEF RoomOfOwner, c
    <3> QED BY <2>6, <2>7, <3>1, <3>2, <3>3, <3>4 DEF RoomOfOwner
  <2> QED BY <1>1, <2>1, <2>4, <2>6, <2>8, <2>9, <2>10, OtherRoomsKeep
<1> QED BY <1>1, <1>2, <1>3

LEMMA SendingKeeps ==
  ASSUME RoomsInv,
         \/ \E r \in RoomId, p \in Person : CheckSender(r, p)
         \/ \E m \in sending : StoreMessage(m)
         \/ UNCHANGED roomsVars
  PROVE  RoomsInv'
<1> USE DEF RoomsInv
<1>1. /\ UNCHANGED <<roomRows, memberRows, creations>>
      /\ \A m \in (sending \cup messages)' :
            m \in Message /\ m.room \in DOMAIN roomRows /\ isMember(m.room, m.sender)
  <2>1. ASSUME NEW r \in RoomId, NEW p \in Person, CheckSender(r, p) PROVE <1>1!:
    <3> DEFINE new == [room |-> r, sender |-> p]
    <3>1. new \in Message /\ new.room = r /\ new.sender = p
      BY DEF Message
    <3> HIDE DEF new
    <3>2. /\ UNCHANGED <<roomRows, memberRows, creations, messages>>
          /\ sending' = sending \cup {new} /\ r \in DOMAIN roomRows /\ isMember(r, p)
      BY <2>1 DEF CheckSender, new
    <3> QED BY <3>1, <3>2 DEF SendersStay, RoomsTypeOK
  <2>2. ASSUME NEW m \in sending, StoreMessage(m) PROVE <1>1!:
    BY <2>2 DEF StoreMessage, SendersStay, RoomsTypeOK
  <2>3. CASE UNCHANGED roomsVars
    BY <2>3 DEF roomsVars, SendersStay, RoomsTypeOK
  <2> QED BY <2>1, <2>2, <2>3
<1>2. RoomsTypeOK' /\ SendersStay'
  BY <1>1 DEF RoomsTypeOK, SendersStay, isMember
<1>3. \A r \in DOMAIN roomRows : CreationOnItsWay(r)' /\ RoomOfOwner(r)'
  BY <1>1 DEF CreationOnItsWay, RoomOfOwner, ownerOf, isMember
<1> QED BY <1>1, <1>2, <1>3

\* For any rooms, people and requests, wherever createRoom stops: the owner is inserted
\* first, those the request names are members or still to be inserted, nobody else is, and
\* senders who have passed the check stay members.
THEOREM RoomsInvariant == RoomsSpec => []RoomsInv
<1>1. RoomsInit => RoomsInv
  BY DEF RoomsInit, RoomsInv, RoomsTypeOK, SendersStay, emptyMap
<1>2. RoomsInv /\ [RoomsNext]_roomsVars => RoomsInv'
  <2>1. ASSUME RoomsInv, NEW r \in DOMAIN creations, CreationFails(r) \/ AnswerCreated(r)
        PROVE  RoomsInv'
    BY <2>1, CreationMovesKeeps DEF CreationFails, AnswerCreated
  <2> QED
    BY <2>1, CreateRoomKeeps, AddOwnerKeeps, AddNextMemberKeeps, SendingKeeps DEF RoomsNext
<1> QED BY <1>1, <1>2, PTL DEF RoomsSpec

LEMMA RoomsInvShows == RoomsInv => RoomsHold
<1> SUFFICES ASSUME RoomsInv, NEW r \in DOMAIN roomRows
             PROVE  /\ Filled(r) /\ OwnerFirst(r)
                    /\ {m.id : m \in memberRows[r]} \subseteq named(r)
                    /\ \A p \in Person : listsRoom(r, p) => showsRoom(r, p) /\ showsMessages(r, p)
                    /\ \A m \in findByRoom(r) : showsMessages(r, m.sender)
  BY DEF RoomsHold
<1> DEFINE c == creations[r]
           by == roomRows[r].createdBy
<1>1. ownerOf(r).id = by /\ ownerOf(r).role = "owner"
  BY DEF ownerOf
<1>2. CreationOnItsWay(r) /\ RoomOfOwner(r)
  BY DEF RoomsInv
<1>3. {m.id : m \in memberRows[r]} \subseteq named(r)
  BY <1>1, <1>2 DEF RoomOfOwner, named, others
<1>4. OwnerFirst(r)
  <2>1. \A m \in memberRows[r] \ {ownerOf(r)} : m.role # "owner" /\ m.id # by
    BY <1>2 DEF RoomOfOwner, others
  <2> QED BY <1>1, <1>2, <2>1 DEF RoomOfOwner, OwnerFirst, ownerOf
<1>5. Filled(r)
  <2> SUFFICES ASSUME c.at = "created", NEW x \in named(r) PROVE \E m \in memberRows[r] : m.id = x
    BY <1>3 DEF Filled
  <2>1. CASE x = by
    BY <1>1, <1>2, <2>1 DEF CreationOnItsWay
  <2>2. CASE x # by
    <3>1. PICK i \in DOMAIN c.dto : x = c.dto[i][1]
      BY <2>2 DEF named
    <3>2. i \in others(c.dto, by)
      BY <2>2, <3>1 DEF others
    <3> QED BY <1>2, <3>1, <3>2 DEF CreationOnItsWay, isMember
  <2> QED BY <2>1, <2>2
<1>6. \A p \in Person : listsRoom(r, p) => showsRoom(r, p) /\ showsMessages(r, p)
  BY DEF listsRoom, findByMember, showsRoom, showsMessages
<1>7. \A m \in findByRoom(r) : showsMessages(r, m.sender)
  BY DEF RoomsInv, SendersStay, findByRoom, showsMessages
<1> QED BY <1>3, <1>4, <1>5, <1>6, <1>7

\* For any rooms, people and requests, wherever createRoom stops: a room answered is full,
\* one begun has its owner before anybody else, nobody is in it whom the request does not
\* name, and whoever lists a room, or has a message in it, may read it.
THEOREM RoomsAlwaysHold == RoomsSpec => []RoomsHold
  BY RoomsInvariant, RoomsInvShows, PTL

-------------------------------------------------------------------------------
\* All of them together.

LEMMA PlatformInitStarts ==
  PlatformInit => /\ part \in Part
                  /\ AccountsInit /\ IdentitiesInit /\ RoomsInit /\ MessageRowsInit /\ RateInit
                  /\ A2AServiceInit /\ CardsInit /\ WebInit /\ ToolCallsInit
BY DEF PlatformInit

\* A step of the platform is, for each service, a step of its own or none.
LEMMA PlatformStepsAreTheirs ==
  ASSUME [PlatformNext]_platformVars
  PROVE  /\ part' = part
         /\ [AccountsNext]_accountsVars /\ [IdentitiesNext]_identitiesVars
         /\ [RoomsNext]_roomsVars /\ [MessageRowsNext]_messageRowsVars /\ [RateNext]_rateVars
         /\ [A2AServiceNext]_a2aServiceVars /\ [CardsNext]_cardsVars
         /\ [WebNext]_webVars /\ [ToolCallsNext]_toolCallVars
<1>1. CASE UNCHANGED platformVars
  BY <1>1 DEF platformVars
<1>2. CASE only("accounts") /\ AccountsNext
  BY <1>2 DEF only
<1>3. CASE only("identities") /\ IdentitiesNext
  BY <1>3 DEF only
<1>4. CASE only("rooms") /\ RoomsNext
  BY <1>4 DEF only
<1>5. CASE only("messages") /\ MessageRowsNext
  BY <1>5 DEF only
<1>6. CASE only("rate") /\ RateNext
  BY <1>6 DEF only
<1>7. CASE only("a2a") /\ A2AServiceNext
  BY <1>7 DEF only
<1>8. CASE only("cards") /\ CardsNext
  BY <1>8 DEF only
<1>9. CASE only("web") /\ WebNext
  BY <1>9 DEF only
<1>10. CASE only("tools") /\ ToolCallsNext
  BY <1>10 DEF only
<1> QED
  BY <1>1, <1>2, <1>3, <1>4, <1>5, <1>6, <1>7, <1>8, <1>9, <1>10, Zenon DEF PlatformNext

\* Whatever the services around the router do side by side, each of them behaves as its
\* own specification says: what is proved of one alone holds in the platform.
THEOREM PlatformImplementsParts ==
  PlatformSpec => /\ AccountsSpec /\ IdentitiesSpec /\ RoomsSpec /\ MessageRowsSpec /\ RateSpec
                  /\ A2AServiceSpec /\ CardsSpec /\ WebSpec /\ ToolCallsSpec
<1>1. [PlatformNext]_platformVars =>
         /\ [AccountsNext]_accountsVars /\ [IdentitiesNext]_identitiesVars
         /\ [RoomsNext]_roomsVars /\ [MessageRowsNext]_messageRowsVars /\ [RateNext]_rateVars
         /\ [A2AServiceNext]_a2aServiceVars /\ [CardsNext]_cardsVars
         /\ [WebNext]_webVars /\ [ToolCallsNext]_toolCallVars
  BY PlatformStepsAreTheirs
<1> QED
  BY <1>1, PlatformInitStarts, PTL
  DEF PlatformSpec, AccountsSpec, IdentitiesSpec, RoomsSpec, MessageRowsSpec, RateSpec,
      A2AServiceSpec, CardsSpec, WebSpec, ToolCallsSpec

LEMMA RateTypes == RateSpec => []RateTypeOK
BY RateInvariant, PTL DEF RateInv

LEMMA RoomsTypes == RoomsSpec => []RoomsTypeOK
BY RoomsInvariant, PTL DEF RoomsInv

LEMMA WebTypes == WebSpec => []WebTypeOK
BY WebInvariant, PTL DEF WebInv

LEMMA ToolCallsTypes == ToolCallsSpec => []ToolCallsTypeOK
BY ToolCallsInvariant, PTL DEF ToolCallsInv

\* The state of every service keeps its types in every behaviour of the platform.
THEOREM PlatformTypeCorrect == PlatformSpec => []PlatformTypeOK
<1>1. PlatformSpec => [](part \in Part)
  <2>1. part \in Part /\ [PlatformNext]_platformVars => (part \in Part)'
    BY PlatformStepsAreTheirs
  <2> QED BY <2>1, PlatformInitStarts, PTL DEF PlatformSpec
<1>2. /\ part \in Part
      /\ AccountsTypeOK /\ IdentitiesTypeOK /\ RoomsTypeOK /\ MessageRowsTypeOK /\ RateTypeOK
      /\ A2AServiceTypeOK /\ CardsTypeOK /\ WebTypeOK /\ ToolCallsTypeOK
      => PlatformTypeOK
  BY DEF PlatformTypeOK
<1> QED
  BY <1>1, <1>2, PlatformImplementsParts, AccountsTypeCorrect, IdentitiesTypeCorrect, RoomsTypes,
     MessageRowsTypeCorrect, RateTypes, ServiceTypeCorrect, CardsTypeCorrect, WebTypes,
     ToolCallsTypes, PTL

\* Everything that is promised of a service alone, it keeps among the others: for any
\* users, agents, rooms, messages, keys, tasks, cards, tabs and tool calls at once.
THEOREM PlatformAlwaysHolds ==
  PlatformSpec =>
    /\ [](/\ SpentBeforeWritten /\ IdentitiesHold /\ RoomsHold /\ WindowsHold
          /\ LookupsConfined /\ SocketFollowsSession /\ CallsAccounted)
    /\ CounterFallsStale /\ LostOnlyToOverlap /\ AnswersStand
BY PlatformImplementsParts, AlwaysSpentBeforeWritten, IdentitiesAlwaysHold, RoomsAlwaysHold,
   WindowsAlwaysHold, LookupsAlwaysConfined, SocketAlwaysFollows, CallsAlwaysAccounted,
   CountersFallStale, LostAlwaysToOverlap, AnswersAlwaysStand, PTL
===============================================================================
