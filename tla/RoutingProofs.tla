--------------------------- MODULE RoutingProofs ----------------------------
(***************************************************************************)
(* The bulkhead, for any number of vendors and racing requests, any burst  *)
(* and any window: nobody is moved to the bulk lane for another's burst,   *)
(* the default lane is bounded, and a crossing is reported once.           *)
(*                                                                         *)
(* A counter that was never lost is the number of arrivals routed in its   *)
(* window.  It expires two windows after it was added, when no request can *)
(* read a time in its window any more: expiry can only hurt a request that *)
(* is under way, and that is what makes the window a degraded one.         *)
(***************************************************************************)
EXTENDS Routing, FiniteSetTheorems, TLAPS

(***************************************************************************)
(* Integer division of the clock by the length of a window.                *)
(***************************************************************************)
LEMMA BucketBounds ==
  ASSUME NEW t \in Nat
  PROVE  /\ t \div Window \in Nat
         /\ Window * (t \div Window) <= t
         /\ t < Window * ((t \div Window) + 1)
BY RoutingAssumption

LEMMA ProductMono ==
  ASSUME NEW m \in Nat, NEW n \in Nat, m <= n
  PROVE  Window * m <= Window * n
BY RoutingAssumption

LEMMA BucketMono ==
  ASSUME NEW s \in Nat, NEW t \in Nat, s <= t
  PROVE  s \div Window <= t \div Window
<1> DEFINE m == s \div Window
           n == t \div Window
<1>1. m \in Nat /\ n \in Nat /\ Window * m <= s /\ t < Window * (n + 1)
  BY BucketBounds
<1> SUFFICES ASSUME n + 1 <= m PROVE FALSE
  BY <1>1
<1>2. Window * (n + 1) <= Window * m
  BY <1>1, ProductMono
<1> HIDE DEF m, n
<1> QED
  BY <1>1, <1>2, RoutingAssumption

(***************************************************************************)
(* A window later is another window.                                       *)
(***************************************************************************)
LEMMA BucketLater ==
  ASSUME NEW s \in Nat, NEW t \in Nat, s + Window <= t
  PROVE  s \div Window < t \div Window
<1> DEFINE m == s \div Window
           n == t \div Window
<1>1. m \in Nat /\ n \in Nat /\ Window * m <= s /\ t < Window * (n + 1)
  BY BucketBounds
<1> SUFFICES ASSUME n <= m PROVE FALSE
  BY <1>1
<1>2. Window * (n + 1) <= Window * (m + 1)
  BY <1>1, ProductMono
<1> HIDE DEF m, n
<1>3. Window * (m + 1) = Window * m + Window
  BY <1>1, RoutingAssumption
<1>4. Window * (n + 1) \in Nat /\ Window * m \in Nat
  BY <1>1, RoutingAssumption
<1> QED
  BY <1>1, <1>2, <1>3, <1>4, RoutingAssumption

(***************************************************************************)
(* A stretch of time as long as a window meets two windows at most.        *)
(***************************************************************************)
LEMMA BucketsMet ==
  ASSUME NEW s \in Nat, NEW t \in Nat, s <= t, t < s + Window
  PROVE  t \div Window \in {s \div Window, (s \div Window) + 1}
<1> DEFINE m == s \div Window
           n == t \div Window
<1>1. m \in Nat /\ n \in Nat /\ Window * n <= t /\ s < Window * (m + 1) /\ m <= n
  BY BucketBounds, BucketMono
<1> SUFFICES ASSUME m + 2 <= n PROVE FALSE
  BY <1>1
<1>2. Window * (m + 2) <= Window * n
  BY <1>1, ProductMono
<1> HIDE DEF m, n
<1>3. Window * (m + 2) = Window * (m + 1) + Window
  BY <1>1, RoutingAssumption
<1>4. Window * (m + 1) \in Nat /\ Window * n \in Nat
  BY <1>1, RoutingAssumption
<1> QED
  BY <1>1, <1>2, <1>3, <1>4, RoutingAssumption
----------------------------------------------------------------------------
(* The arrivals routed so far in a window of a vendor.                     *)
RoutedIn(k) == {x \in Arrivals : lane[x] # None /\ WindowKey(x) = k}

DefaultIn(k) == {x \in RoutedIn(k) : lane[x] = "default"}

(* A request has a lane once it is routed, and the time it read is past.   *)
Requests ==
  \A a \in Arrivals :
    /\ lane[a] # None <=> pc[a] = "routed"
    /\ at[a] <= clock

(* A counter never says more than were routed, and by the time it expires  *)
(* no clock is in its window.                                              *)
CountersAreModest ==
  \A k \in Keys :
    /\ IsFiniteSet(RoutedIn(k))
    /\ counter[k] # None =>
         /\ counter[k].count <= Cardinality(RoutedIn(k))
         /\ \A t \in Nat : counter[k].expires <= t => k[2] < t \div Window

(* A counter that was never lost is exact.  While there is none, nobody is *)
(* about to increment it, and if there was one nobody will add it again.   *)
CountersAreExact ==
  \A k \in Keys \ degraded :
    /\ counter[k] # None => counter[k].count = Cardinality(RoutedIn(k))
    /\ counter[k] = None =>
         \A a \in Arrivals : WindowKey(a) = k =>
           /\ pc[a] # "incr"
           /\ RoutedIn(k) # {} => pc[a] # "add" /\ k[2] < clock \div Window

(* The lanes follow the count, and so does the warning.                    *)
LanesFollowCount ==
  \A k \in Keys \ degraded :
    LET crossed == burst > 0 /\ Cardinality(RoutedIn(k)) > burst IN
    /\ burst > 0 => Cardinality(DefaultIn(k)) <= burst
    /\ warned[k] = IF crossed THEN 1 ELSE 0
    /\ crossed <=> \E a \in RoutedIn(k) : lane[a] = "bulk"

(* The arrival that was moved to the bulk lane was beyond the burst.       *)
BulkIsBeyondBurst ==
  \A a \in Routed("bulk") :
    burst > 0 /\ Cardinality(RoutedIn(WindowKey(a))) > burst

IInv ==
  /\ TypeOK
  /\ Requests
  /\ CountersAreModest
  /\ CountersAreExact
  /\ LanesFollowCount
  /\ BulkIsBeyondBurst
----------------------------------------------------------------------------

(***************************************************************************)
(* The key an arrival counts under is one of the keys.                     *)
(***************************************************************************)
LEMMA KeyOfTime ==
  ASSUME NEW a \in Arrivals, NEW t \in 0..MaxClock
  PROVE  <<Vendor[a], t \div Window>> \in Keys
<1>1. t \in Nat /\ MaxClock \in Nat /\ t <= MaxClock
  BY RoutingAssumption
<1>2. t \div Window \in Nat /\ MaxClock \div Window \in Nat
        /\ t \div Window <= MaxClock \div Window
  BY <1>1, BucketBounds, BucketMono
<1> QED
  BY <1>2 DEF Keys, Buckets

LEMMA WindowKeyType ==
  ASSUME TypeOK, NEW a \in Arrivals
  PROVE  WindowKey(a) \in Keys
BY KeyOfTime DEF TypeOK, WindowKey

LEMMA Keys2 ==
  ASSUME NEW k \in Keys
  PROVE  k[2] \in Nat
BY DEF Keys, Buckets

(***************************************************************************)
(* Time passes.                                                            *)
(***************************************************************************)
LEMMA TickStep ==
  ASSUME IInv, Tick
  PROVE  IInv'
<1>1. /\ clock \in Nat /\ clock' \in 0..MaxClock /\ clock' = clock + 1
      /\ UNCHANGED <<burst, pc, at, lane, warned>>
      /\ degraded \subseteq degraded'
  BY RoutingAssumption DEF Tick, IInv, TypeOK
<1>2. /\ \A a \in Arrivals : WindowKey(a)' = WindowKey(a)
      /\ \A k : RoutedIn(k)' = RoutedIn(k)
      /\ \A k : DefaultIn(k)' = DefaultIn(k)
  BY <1>1 DEF RoutedIn, DefaultIn, WindowKey
<1>3. \A k \in Keys : counter'[k] = IF counter[k] # None /\ counter[k].expires <= clock'
                                      THEN None ELSE counter[k]
  BY DEF Tick
<1>4. TypeOK'
  <2>1. counter' \in [Keys -> [count: Nat, expires: Nat] \cup {None}]
    BY DEF Tick, IInv, TypeOK
  <2>2. degraded' \subseteq Keys
    BY WindowKeyType DEF Tick, IInv, TypeOK
  <2> QED
    BY <1>1, <2>1, <2>2 DEF IInv, TypeOK
<1>5. Requests'
  BY <1>1 DEF IInv, TypeOK, Requests
<1>6. CountersAreModest'
  BY <1>2, <1>3 DEF IInv, CountersAreModest
<1>7. CountersAreExact'
  <2> SUFFICES ASSUME NEW k \in Keys, k \notin degraded'
               PROVE  /\ counter'[k] # None =>
                           counter'[k].count = Cardinality(RoutedIn(k))
                      /\ counter'[k] = None =>
                           \A a \in Arrivals : WindowKey(a) = k =>
                             /\ pc[a] # "incr"
                             /\ RoutedIn(k) # {} =>
                                  pc[a] # "add" /\ k[2] < clock' \div Window
    BY <1>1, <1>2 DEF CountersAreExact
  <2>1. k \notin degraded
    BY <1>1
  <2>2. k[2] \in Nat /\ clock' \in Nat /\ clock' \div Window \in Nat
          /\ clock \div Window \in Nat /\ clock \div Window <= clock' \div Window
    BY <1>1, Keys2, BucketBounds, BucketMono
  <2>3. CASE counter'[k] # None
    BY <1>3, <2>1, <2>3 DEF IInv, CountersAreExact
  <2>4. CASE counter'[k] = None /\ counter[k] = None
    BY <2>1, <2>2, <2>4 DEF IInv, CountersAreExact
  <2>5. CASE counter'[k] = None /\ counter[k] # None
    <3>1. counter[k].expires <= clock'
      BY <1>3, <2>5
    <3>2. k[2] < clock' \div Window
      BY <2>2, <2>5, <3>1 DEF IInv, CountersAreModest
    <3>3. \A a \in Arrivals : WindowKey(a) = k => pc[a] \notin {"add", "incr"}
      BY <2>5 DEF Tick
    <3> QED
      BY <2>5, <3>2, <3>3
  <2> QED
    BY <2>3, <2>4, <2>5
<1>8. LanesFollowCount'
  BY <1>1, <1>2 DEF IInv, LanesFollowCount
<1>9. BulkIsBeyondBurst'
  BY <1>1, <1>2 DEF IInv, BulkIsBeyondBurst, Routed
<1> QED
  BY <1>4, <1>5, <1>6, <1>7, <1>8, <1>9 DEF IInv

(***************************************************************************)
(* An arrival reads the clock.  No counter of its window has expired.      *)
(***************************************************************************)
LEMMA ArriveStep ==
  ASSUME IInv, NEW a \in Arrivals, Arrive(a)
  PROVE  IInv'
<1>1. /\ pc[a] = "new" /\ lane[a] = None
      /\ pc' = [pc EXCEPT ![a] = "add"] /\ at' = [at EXCEPT ![a] = clock]
      /\ UNCHANGED <<burst, clock, counter, lane, warned, degraded>>
  BY DEF Arrive, IInv, Requests
<1>2. /\ WindowKey(a)' = <<Vendor[a], clock \div Window>>
      /\ \A x \in Arrivals \ {a} : WindowKey(x)' = WindowKey(x)
  BY <1>1 DEF WindowKey, IInv, TypeOK
<1>3. /\ \A k : RoutedIn(k)' = RoutedIn(k)
      /\ \A k : DefaultIn(k)' = DefaultIn(k)
  BY <1>1, <1>2 DEF RoutedIn, DefaultIn
<1>4. TypeOK'
  BY <1>1 DEF IInv, TypeOK
<1>5. Requests'
  BY <1>1 DEF IInv, TypeOK, Requests
<1>6. CountersAreModest'
  BY <1>1, <1>3 DEF IInv, CountersAreModest
<1>7. CountersAreExact'
  <2> SUFFICES ASSUME NEW k \in Keys \ degraded, counter[k] = None,
                      NEW x \in Arrivals, WindowKey(x)' = k
               PROVE  /\ pc'[x] # "incr"
                      /\ RoutedIn(k) # {} => pc'[x] # "add" /\ k[2] < clock \div Window
    BY <1>1, <1>3 DEF IInv, CountersAreExact
  <2>1. CASE x # a
    BY <1>1, <1>2, <2>1 DEF IInv, TypeOK, CountersAreExact
  <2>2. CASE x = a
    <3>1. k[2] = clock \div Window /\ k[2] \in Nat
      BY <1>2, <2>2, Keys2
    <3>2. \A y \in RoutedIn(k) : y \in Arrivals /\ WindowKey(y) = k
      BY DEF RoutedIn
    <3>3. RoutedIn(k) # {} => k[2] < clock \div Window
      BY <3>2 DEF IInv, CountersAreExact
    <3>4. RoutedIn(k) = {}
      BY <3>1, <3>3
    <3> QED
      BY <1>1, <2>2, <3>4 DEF IInv, TypeOK
  <2> QED
    BY <2>1, <2>2
<1>8. LanesFollowCount'
  BY <1>1, <1>3 DEF IInv, LanesFollowCount
<1>9. BulkIsBeyondBurst'
  BY <1>1, <1>2, <1>3, RoutingAssumption DEF IInv, BulkIsBeyondBurst, Routed
<1> QED
  BY <1>4, <1>5, <1>6, <1>7, <1>8, <1>9 DEF IInv

(***************************************************************************)
(* cache.add: if it adds the counter, nobody was routed under its key, or  *)
(* the counter had been lost.                                              *)
(***************************************************************************)
LEMMA AddStep ==
  ASSUME IInv, NEW a \in Arrivals, Add(a)
  PROVE  IInv'
<1> DEFINE q == WindowKey(a)
<1>1. /\ pc[a] = "add" /\ lane[a] = None
      /\ pc' = [pc EXCEPT ![a] = "incr"]
      /\ UNCHANGED <<burst, clock, at, lane, warned, degraded>>
      /\ counter' = IF counter[q] = None
           THEN [counter EXCEPT ![q] = [count |-> 0, expires |-> clock + 2 * Window]]
           ELSE counter
  BY DEF Add, IInv, Requests
<1>2. /\ \A x \in Arrivals : WindowKey(x)' = WindowKey(x)
      /\ \A k : RoutedIn(k)' = RoutedIn(k)
      /\ \A k : DefaultIn(k)' = DefaultIn(k)
  BY <1>1 DEF RoutedIn, DefaultIn, WindowKey
<1>3. q \in Keys /\ q[2] = at[a] \div Window /\ q[2] \in Nat
  BY WindowKeyType, Keys2 DEF IInv, WindowKey
<1>4. clock \in Nat /\ at[a] \in Nat /\ at[a] <= clock /\ clock + 2 * Window \in Nat
        /\ Window \in Nat
  BY RoutingAssumption DEF IInv, TypeOK, Requests
<1>5. [count |-> 0, expires |-> clock + 2 * Window] \in [count: Nat, expires: Nat]
  BY <1>4
<1> HIDE DEF q
<1>6. TypeOK'
  BY <1>1, <1>3, <1>5 DEF IInv, TypeOK
<1>7. Requests'
  BY <1>1 DEF IInv, TypeOK, Requests
<1>8. ASSUME counter[q] # None PROVE CountersAreModest' /\ CountersAreExact'
  <2>1. counter' = counter
    BY <1>1, <1>8
  <2>2. CountersAreModest'
    BY <1>2, <2>1 DEF IInv, CountersAreModest
  <2>3. CountersAreExact'
    BY <1>1, <1>2, <1>8, <2>1 DEF IInv, TypeOK, CountersAreExact, q
  <2> QED
    BY <2>2, <2>3
<1>9. ASSUME counter[q] = None PROVE CountersAreModest' /\ CountersAreExact'
  <2>1. /\ counter'[q] = [count |-> 0, expires |-> clock + 2 * Window]
        /\ counter'[q].count = 0 /\ counter'[q].expires = clock + 2 * Window
        /\ \A k \in Keys \ {q} : counter'[k] = counter[k]
        /\ counter'[q] # None
    BY <1>1, <1>3, <1>5, <1>9, RoutingAssumption DEF IInv, TypeOK
  <2>2. \A t \in Nat : clock + 2 * Window <= t => q[2] < t \div Window
    <3> SUFFICES ASSUME NEW t \in Nat, clock + 2 * Window <= t
                 PROVE  at[a] \div Window < t \div Window
      BY <1>3
    <3>1. at[a] + Window <= t
      BY <1>4
    <3> QED
      BY <1>4, <3>1, BucketLater
  <2>3. IsFiniteSet(RoutedIn(q)) /\ Cardinality(RoutedIn(q)) \in Nat
    BY <1>3, FS_CardinalityType DEF IInv, CountersAreModest
  <2>4. CountersAreModest'
    <3> SUFFICES ASSUME NEW k \in Keys
                 PROVE  /\ IsFiniteSet(RoutedIn(k))
                        /\ counter'[k] # None =>
                             /\ counter'[k].count <= Cardinality(RoutedIn(k))
                             /\ \A t \in Nat : counter'[k].expires <= t =>
                                                   k[2] < t \div Window
      BY <1>2 DEF CountersAreModest
    <3>1. CASE k = q
      BY <2>1, <2>2, <2>3, <3>1
    <3>2. CASE k # q
      BY <2>1, <3>2 DEF IInv, CountersAreModest
    <3> QED
      BY <3>1, <3>2
  <2>5. q \notin degraded => RoutedIn(q) = {}
    BY <1>1, <1>3, <1>9 DEF IInv, CountersAreExact, q
  <2>6. CountersAreExact'
    <3> SUFFICES ASSUME NEW k \in Keys, k \notin degraded
                 PROVE  /\ counter'[k] # None =>
                             counter'[k].count = Cardinality(RoutedIn(k))
                        /\ counter'[k] = None =>
                             \A x \in Arrivals : WindowKey(x) = k =>
                               /\ pc'[x] # "incr"
                               /\ RoutedIn(k) # {} =>
                                    pc'[x] # "add" /\ k[2] < clock \div Window
      BY <1>1, <1>2 DEF CountersAreExact
    <3>1. CASE k = q
      BY <2>1, <2>5, <3>1, FS_EmptySet
    <3>2. CASE k # q
      BY <1>1, <2>1, <3>2 DEF IInv, TypeOK, CountersAreExact, q
    <3> QED
      BY <3>1, <3>2
  <2> QED
    BY <2>4, <2>6
<1>10. LanesFollowCount'
  BY <1>1, <1>2 DEF IInv, LanesFollowCount
<1>11. BulkIsBeyondBurst'
  BY <1>1, <1>2 DEF IInv, BulkIsBeyondBurst, Routed
<1> QED
  BY <1>6, <1>7, <1>8, <1>9, <1>10, <1>11 DEF IInv

(***************************************************************************)
(* What routing an arrival does to the sets of arrivals.                   *)
(***************************************************************************)
LEMMA RoutesFacts ==
  ASSUME IInv, NEW a \in Arrivals, pc[a] \in {"add", "incr"}, NEW n \in Nat, Routes(a, n)
  PROVE  /\ lane[a] = None /\ a \notin RoutedIn(WindowKey(a))
         /\ lane'[a] = QueueForVendor(n)
         /\ lane'[a] \in {"default", "bulk"} /\ lane'[a] # None
         /\ \A x \in Arrivals \ {a} : lane'[x] = lane[x]
         /\ \A x \in Arrivals : WindowKey(x)' = WindowKey(x)
         /\ RoutedIn(WindowKey(a))' = RoutedIn(WindowKey(a)) \cup {a}
         /\ \A k : k # WindowKey(a) => RoutedIn(k)' = RoutedIn(k) /\ DefaultIn(k)' = DefaultIn(k)
<1>1. /\ lane[a] = None
      /\ lane' = [lane EXCEPT ![a] = QueueForVendor(n)]
      /\ at' = at
  BY DEF Routes, IInv, Requests
<1>2. QueueForVendor(n) \in {"default", "bulk"} /\ QueueForVendor(n) # None
  BY RoutingAssumption DEF QueueForVendor
<1>3. /\ lane'[a] = QueueForVendor(n)
      /\ \A x \in Arrivals \ {a} : lane'[x] = lane[x]
  BY <1>1 DEF IInv, TypeOK
<1>4. \A x \in Arrivals : WindowKey(x)' = WindowKey(x)
  BY <1>1 DEF WindowKey
<1>5. RoutedIn(WindowKey(a))' = RoutedIn(WindowKey(a)) \cup {a}
  <2> DEFINE q == WindowKey(a)
  <2>1. RoutedIn(q)' = {x \in Arrivals : lane'[x] # None /\ WindowKey(x) = WindowKey(a)}
    BY <1>4 DEF RoutedIn
  <2> QED
    BY <1>2, <1>3, <2>1 DEF RoutedIn
<1>6. ASSUME NEW k, k # WindowKey(a)
      PROVE  RoutedIn(k)' = RoutedIn(k) /\ DefaultIn(k)' = DefaultIn(k)
  <2>1. RoutedIn(k)' = RoutedIn(k)
    BY <1>3, <1>4, <1>6 DEF RoutedIn
  <2>2. a \notin RoutedIn(k) /\ RoutedIn(k) \subseteq Arrivals
    BY <1>6 DEF RoutedIn
  <2> QED
    BY <1>3, <2>1, <2>2 DEF DefaultIn
<1> QED
  BY <1>1, <1>2, <1>3, <1>4, <1>5, <1>6 DEF RoutedIn

(***************************************************************************)
(* cache.incr: the arrival is the count-th of its window, if the counter   *)
(* was never lost, and never less than that.                               *)
(***************************************************************************)
LEMMA IncrStep ==
  ASSUME IInv, NEW a \in Arrivals, Incr(a)
  PROVE  IInv'
<1> DEFINE q == WindowKey(a)
           n == counter[q].count + 1
           R == RoutedIn(q)
<1>1. /\ q \in Keys /\ q \in DOMAIN counter
      /\ counter[q] \in [count: Nat, expires: Nat]
      /\ counter[q].count \in Nat /\ n \in Nat
      /\ burst \in Nat
  BY WindowKeyType, RoutingAssumption DEF Incr, IInv, TypeOK
<1>2. /\ pc[a] = "incr" /\ counter[q] # None /\ Routes(a, n)
      /\ counter' = [counter EXCEPT ![q].count = @ + 1]
      /\ UNCHANGED <<burst, clock, at, degraded>>
      /\ pc' = [pc EXCEPT ![a] = "routed"]
  BY DEF Incr, Routes
<1>3. /\ counter'[q] \in [count: Nat, expires: Nat]
      /\ counter'[q].count = n /\ counter'[q].expires = counter[q].expires
      /\ counter'[q] # None
      /\ \A k \in Keys \ {q} : counter'[k] = counter[k]
      /\ counter' \in [Keys -> [count: Nat, expires: Nat] \cup {None}]
  BY <1>1, <1>2, RoutingAssumption DEF IInv, TypeOK
<1>4. /\ lane[a] = None /\ a \notin R
      /\ lane'[a] = QueueForVendor(n)
      /\ lane'[a] \in {"default", "bulk"} /\ lane'[a] # None
      /\ \A x \in Arrivals \ {a} : lane'[x] = lane[x]
      /\ \A x \in Arrivals : WindowKey(x)' = WindowKey(x)
      /\ RoutedIn(q)' = R \cup {a}
      /\ \A k : k # q => RoutedIn(k)' = RoutedIn(k) /\ DefaultIn(k)' = DefaultIn(k)
  BY <1>1, <1>2, RoutesFacts
<1>5. /\ IsFiniteSet(R) /\ Cardinality(R) \in Nat
      /\ IsFiniteSet(R \cup {a}) /\ Cardinality(R \cup {a}) = Cardinality(R) + 1
      /\ counter[q].count <= Cardinality(R)
  BY <1>1, <1>2, <1>4, FS_CardinalityType, FS_AddElement DEF IInv, CountersAreModest
<1>6. q \notin degraded => n = Cardinality(R) + 1
  BY <1>1, <1>2 DEF IInv, CountersAreExact
<1>7. /\ warned' = IF burst > 0 /\ n = burst + 1
                      THEN [warned EXCEPT ![q] = @ + 1] ELSE warned
      /\ lane' \in [Arrivals -> {"default", "bulk", None}]
  BY <1>2, <1>4 DEF Routes, Warns, IInv, TypeOK
<1>8. \A x \in RoutedIn(q) : x \in Arrivals /\ x # a /\ lane'[x] = lane[x]
  BY <1>4 DEF RoutedIn
<1>9. \A k \in Keys : q = k => RoutedIn(k)' = R \cup {a}
  BY <1>4
<1>10. RoutedIn(q) = R
  OBVIOUS
<1> HIDE DEF q, n, R
<1>11. TypeOK'
  <2>1. warned' \in [Keys -> Nat]
    BY <1>1, <1>7 DEF IInv, TypeOK
  <2>2. pc' \in [Arrivals -> {"new", "add", "incr", "routed"}]
    BY <1>2 DEF IInv, TypeOK
  <2> QED
    BY <1>2, <1>3, <1>7, <2>1, <2>2 DEF IInv, TypeOK
<1>12. Requests'
  BY <1>2, <1>4 DEF IInv, TypeOK, Requests
<1>13. CountersAreModest'
  <2> SUFFICES ASSUME NEW k \in Keys
               PROVE  /\ IsFiniteSet(RoutedIn(k)')
                      /\ counter'[k] # None =>
                           /\ counter'[k].count <= Cardinality(RoutedIn(k)')
                           /\ \A t \in Nat : counter'[k].expires <= t =>
                                                 k[2] < t \div Window
    BY DEF CountersAreModest
  <2>1. CASE k = q
    <3>1. n <= Cardinality(R) + 1
      BY <1>1, <1>5 DEF n
    <3>2. \A t \in Nat : counter[q].expires <= t => q[2] < t \div Window
      BY <1>1, <1>2 DEF IInv, CountersAreModest
    <3> QED
      BY <1>3, <1>5, <1>9, <2>1, <3>1, <3>2
  <2>2. CASE k # q
    BY <1>3, <1>4, <2>2 DEF IInv, CountersAreModest
  <2> QED
    BY <2>1, <2>2
<1>14. CountersAreExact'
  <2> SUFFICES ASSUME NEW k \in Keys, k \notin degraded
               PROVE  /\ counter'[k] # None =>
                           counter'[k].count = Cardinality(RoutedIn(k)')
                      /\ counter'[k] = None =>
                           \A x \in Arrivals : WindowKey(x) = k =>
                             /\ pc'[x] # "incr"
                             /\ RoutedIn(k)' # {} =>
                                  pc'[x] # "add" /\ k[2] < clock \div Window
    BY <1>2, <1>4 DEF CountersAreExact
  <2>1. CASE k = q
    BY <1>3, <1>5, <1>6, <1>9, <2>1
  <2>2. CASE k # q
    BY <1>2, <1>3, <1>4, <2>2 DEF IInv, TypeOK, CountersAreExact
  <2> QED
    BY <2>1, <2>2
<1>15. LanesFollowCount'
  <2> SUFFICES ASSUME NEW k \in Keys, k \notin degraded
               PROVE  /\ burst > 0 => Cardinality(DefaultIn(k)') <= burst
                      /\ warned'[k] = IF burst > 0 /\ Cardinality(RoutedIn(k)') > burst
                                        THEN 1 ELSE 0
                      /\ burst > 0 /\ Cardinality(RoutedIn(k)') > burst
                           <=> \E x \in RoutedIn(k)' : lane'[x] = "bulk"
    BY <1>2 DEF LanesFollowCount
  <2>1. CASE k # q
    <3>1. warned'[k] = warned[k]
      BY <1>7, <2>1 DEF IInv, TypeOK
    <3>2. \A x \in RoutedIn(k) : lane'[x] = lane[x]
      BY <1>4, <2>1 DEF RoutedIn, q
    <3> QED
      BY <1>4, <2>1, <3>1, <3>2 DEF IInv, LanesFollowCount
  <2>2. CASE k = q
    <3>1. n = Cardinality(R) + 1 /\ Cardinality(RoutedIn(k)') = n
      BY <1>5, <1>6, <1>9, <2>2
    <3>2. /\ burst > 0 => Cardinality(DefaultIn(q)) <= burst
          /\ warned[q] = IF burst > 0 /\ Cardinality(R) > burst THEN 1 ELSE 0
          /\ burst > 0 /\ Cardinality(R) > burst <=> \E x \in R : lane[x] = "bulk"
      BY <1>10, <2>2 DEF IInv, LanesFollowCount
    <3>3. burst > 0 => Cardinality(DefaultIn(k)') <= burst
      <4>1. CASE n <= burst
        <5>1. DefaultIn(k)' \subseteq R \cup {a}
          BY <1>9, <2>2 DEF DefaultIn
        <5> QED
          BY <1>1, <1>5, <3>1, <4>1, <5>1, FS_Subset, FS_CardinalityType
      <4>2. CASE burst > 0 /\ n > burst
        <5>1. lane'[a] = "bulk"
          BY <1>1, <1>4, <4>2 DEF QueueForVendor
        <5>2. DefaultIn(k)' = DefaultIn(q)
          BY <1>8, <1>9, <1>10, <2>2, <5>1 DEF DefaultIn
        <5> QED
          BY <3>2, <5>2
      <4> QED
        BY <1>1, <4>1, <4>2
    <3>4. warned'[k] = IF burst > 0 /\ n > burst THEN 1 ELSE 0
      BY <1>1, <1>5, <1>7, <2>2, <3>1, <3>2 DEF IInv, TypeOK
    <3>5. burst > 0 /\ n > burst <=> \E x \in R \cup {a} : lane'[x] = "bulk"
      <4>1. (\E x \in R \cup {a} : lane'[x] = "bulk")
              <=> (lane'[a] = "bulk" \/ \E x \in R : lane[x] = "bulk")
        BY <1>8, <1>10
      <4>2. lane'[a] = "bulk" <=> burst > 0 /\ n > burst
        BY <1>1, <1>4 DEF QueueForVendor
      <4>3. burst > 0 /\ Cardinality(R) > burst => n > burst
        BY <1>1, <1>5, <3>1
      <4> QED
        BY <3>2, <4>1, <4>2, <4>3
    <3> QED
      BY <1>9, <2>2, <3>1, <3>3, <3>4, <3>5
  <2> QED
    BY <2>1, <2>2
<1>16. BulkIsBeyondBurst'
  <2> SUFFICES ASSUME NEW x \in Arrivals, lane'[x] = "bulk"
               PROVE  burst > 0 /\ Cardinality(RoutedIn(WindowKey(x))') > burst
    BY <1>2 DEF BulkIsBeyondBurst, Routed
  <2>1. WindowKey(x) \in Keys
    BY WindowKeyType DEF IInv
  <2>2. CASE x = a
    <3>1. burst > 0 /\ n > burst
      BY <1>1, <1>4, <2>2 DEF QueueForVendor
    <3>2. WindowKey(x)' = q /\ q' = q
      BY <1>4, <2>2 DEF q
    <3>3. RoutedIn(WindowKey(x))' = R \cup {a}
      BY <1>4, <3>2, <2>2 DEF q
    <3> QED
      BY <1>1, <1>5, <3>1, <3>3 DEF n
  <2>3. CASE x # a
    <3>1. burst > 0 /\ Cardinality(RoutedIn(WindowKey(x))) > burst
      BY <1>4, <2>3 DEF IInv, BulkIsBeyondBurst, Routed
    <3>2. WindowKey(x)' = WindowKey(x)
      BY <1>4
    <3>3. CASE WindowKey(x) = q
      <4>1. RoutedIn(WindowKey(x))' = R \cup {a}
        BY <1>4, <3>2, <3>3 DEF RoutedIn
      <4> QED
        BY <1>1, <1>5, <1>10, <3>1, <3>3, <4>1
    <3>4. CASE WindowKey(x) # q
      <4>1. RoutedIn(WindowKey(x))' = RoutedIn(WindowKey(x))
        BY <1>4, <3>2, <3>4 DEF RoutedIn
      <4> QED
        BY <3>1, <4>1
    <3> QED
      BY <3>3, <3>4
  <2> QED
    BY <2>2, <2>3
<1> QED
  BY <1>11, <1>12, <1>13, <1>14, <1>15, <1>16 DEF IInv

(***************************************************************************)
(* The cache fails: the arrival gets the default lane and its window is a  *)
(* degraded one, so only what holds of those has to be shown of it.        *)
(***************************************************************************)
LEMMA UnavailableStep ==
  ASSUME IInv, NEW a \in Arrivals, Unavailable(a)
  PROVE  IInv'
<1> DEFINE q == WindowKey(a)
           R == RoutedIn(q)
<1>1. q \in Keys /\ burst \in Nat /\ 0 \in Nat
  BY WindowKeyType, RoutingAssumption DEF IInv, TypeOK
<1>2. /\ pc[a] \in {"add", "incr"} /\ Routes(a, 0)
      /\ UNCHANGED <<burst, clock, at, counter>>
      /\ degraded' = degraded \cup {q}
      /\ pc' = [pc EXCEPT ![a] = "routed"]
  BY DEF Unavailable, Routes
<1>3. /\ lane[a] = None /\ a \notin R
      /\ lane'[a] = "default" /\ lane'[a] # None
      /\ \A x \in Arrivals \ {a} : lane'[x] = lane[x]
      /\ \A x \in Arrivals : WindowKey(x)' = WindowKey(x)
      /\ RoutedIn(q)' = R \cup {a}
      /\ \A k : k # q => RoutedIn(k)' = RoutedIn(k) /\ DefaultIn(k)' = DefaultIn(k)
  <2>1. QueueForVendor(0) = "default"
    BY <1>1 DEF QueueForVendor
  <2> QED
    BY <1>1, <1>2, <2>1, RoutesFacts
<1>4. /\ IsFiniteSet(R) /\ Cardinality(R) \in Nat
      /\ IsFiniteSet(R \cup {a}) /\ Cardinality(R \cup {a}) = Cardinality(R) + 1
  BY <1>1, <1>3, FS_CardinalityType, FS_AddElement DEF IInv, CountersAreModest
<1>5. /\ warned' = warned
      /\ lane' \in [Arrivals -> {"default", "bulk", None}]
  <2>1. ~(0 = burst + 1)
    BY <1>1
  <2>2. lane' = [lane EXCEPT ![a] = QueueForVendor(0)] /\ QueueForVendor(0) \in {"default", "bulk"}
    BY <1>2 DEF Routes, QueueForVendor
  <2> QED
    BY <1>2, <2>1, <2>2 DEF Routes, Warns, IInv, TypeOK
<1>6. \A k \in Keys : q = k => RoutedIn(k)' = R \cup {a}
  BY <1>3
<1>7. RoutedIn(q) = R
  OBVIOUS
<1> HIDE DEF q, R
<1>8. TypeOK'
  <2>1. pc' \in [Arrivals -> {"new", "add", "incr", "routed"}]
    BY <1>2 DEF IInv, TypeOK
  <2> QED
    BY <1>1, <1>2, <1>5, <2>1 DEF IInv, TypeOK
<1>9. Requests'
  BY <1>2, <1>3 DEF IInv, TypeOK, Requests
<1>10. CountersAreModest'
  <2> SUFFICES ASSUME NEW k \in Keys
               PROVE  /\ IsFiniteSet(RoutedIn(k)')
                      /\ counter[k] # None =>
                           /\ counter[k].count <= Cardinality(RoutedIn(k)')
                           /\ \A t \in Nat : counter[k].expires <= t =>
                                                 k[2] < t \div Window
    BY <1>2 DEF CountersAreModest
  <2>1. CASE k = q
    <3>1. counter[q] # None => counter[q].count \in Nat
      BY <1>1 DEF IInv, TypeOK
    <3>2. counter[q] # None => counter[q].count <= Cardinality(R)
            /\ \A t \in Nat : counter[q].expires <= t => q[2] < t \div Window
      BY <1>1, <1>7 DEF IInv, CountersAreModest
    <3>3. RoutedIn(k)' = R \cup {a}
      BY <1>6, <2>1
    <3>4. counter[q] # None => counter[q].count <= Cardinality(R \cup {a})
      BY <1>4, <3>1, <3>2
    <3> QED
      BY <1>4, <2>1, <3>2, <3>3, <3>4
  <2>2. CASE k # q
    BY <1>3, <2>2 DEF IInv, CountersAreModest
  <2> QED
    BY <2>1, <2>2
<1>11. CountersAreExact'
  <2> SUFFICES ASSUME NEW k \in Keys, k \notin degraded, k # q
               PROVE  /\ counter[k] # None =>
                           counter[k].count = Cardinality(RoutedIn(k)')
                      /\ counter[k] = None =>
                           \A x \in Arrivals : WindowKey(x) = k =>
                             /\ pc'[x] # "incr"
                             /\ RoutedIn(k)' # {} =>
                                  pc'[x] # "add" /\ k[2] < clock \div Window
    BY <1>2, <1>3 DEF CountersAreExact
  <2> QED
    BY <1>2, <1>3 DEF IInv, TypeOK, CountersAreExact
<1>12. LanesFollowCount'
  <2> SUFFICES ASSUME NEW k \in Keys, k \notin degraded, k # q
               PROVE  /\ burst > 0 => Cardinality(DefaultIn(k)') <= burst
                      /\ warned[k] = IF burst > 0 /\ Cardinality(RoutedIn(k)') > burst
                                       THEN 1 ELSE 0
                      /\ burst > 0 /\ Cardinality(RoutedIn(k)') > burst
                           <=> \E x \in RoutedIn(k)' : lane'[x] = "bulk"
    BY <1>2, <1>5 DEF LanesFollowCount
  <2>1. \A x \in RoutedIn(k) : lane'[x] = lane[x]
    BY <1>3 DEF RoutedIn, q
  <2> QED
    BY <1>3, <2>1 DEF IInv, LanesFollowCount
<1>13. BulkIsBeyondBurst'
  <2> SUFFICES ASSUME NEW x \in Arrivals, lane'[x] = "bulk"
               PROVE  burst > 0 /\ Cardinality(RoutedIn(WindowKey(x))') > burst
    BY <1>2 DEF BulkIsBeyondBurst, Routed
  <2>1. x # a /\ WindowKey(x)' = WindowKey(x)
    BY <1>3
  <2>2. burst > 0 /\ Cardinality(RoutedIn(WindowKey(x))) > burst
    BY <1>3, <2>1 DEF IInv, BulkIsBeyondBurst, Routed
  <2>3. CASE WindowKey(x) = q
    <3>1. RoutedIn(WindowKey(x))' = R \cup {a}
      BY <1>3, <2>1, <2>3 DEF RoutedIn
    <3> QED
      BY <1>1, <1>4, <1>7, <2>2, <2>3, <3>1
  <2>4. CASE WindowKey(x) # q
    <3>1. RoutedIn(WindowKey(x))' = RoutedIn(WindowKey(x))
      BY <1>3, <2>1, <2>4 DEF RoutedIn
    <3> QED
      BY <2>2, <3>1
  <2> QED
    BY <2>3, <2>4
<1> QED
  BY <1>8, <1>9, <1>10, <1>11, <1>12, <1>13 DEF IInv

(***************************************************************************)
(* The invariant, for any set of arrivals, finite or not.                  *)
(***************************************************************************)
THEOREM RoutingInvariant == Spec => []IInv
<1>1. Init => IInv
  <2> SUFFICES ASSUME Init PROVE IInv
    OBVIOUS
  <2>1. TypeOK
    BY RoutingAssumption DEF Init, TypeOK
  <2>2. Requests
    BY RoutingAssumption DEF Init, Requests
  <2>3. \A k : RoutedIn(k) = {} /\ DefaultIn(k) = {}
    BY DEF Init, RoutedIn, DefaultIn
  <2>4. CountersAreModest /\ CountersAreExact
    BY <2>3, FS_EmptySet DEF Init, CountersAreModest, CountersAreExact
  <2>5. burst \in Nat
    BY RoutingAssumption DEF Init
  <2>6. LanesFollowCount
    BY <2>3, <2>5, FS_EmptySet DEF Init, LanesFollowCount
  <2>7. BulkIsBeyondBurst
    BY RoutingAssumption DEF Init, BulkIsBeyondBurst, Routed
  <2> QED
    BY <2>1, <2>2, <2>4, <2>6, <2>7 DEF IInv
<1>2. IInv /\ UNCHANGED vars => IInv'
  <2> SUFFICES ASSUME IInv, UNCHANGED vars PROVE IInv'
    OBVIOUS
  <2>1. UNCHANGED <<burst, clock, counter, pc, at, lane, warned, degraded>>
    BY DEF vars
  <2>2. /\ \A a \in Arrivals : WindowKey(a)' = WindowKey(a)
        /\ \A k : RoutedIn(k)' = RoutedIn(k)
        /\ \A k : DefaultIn(k)' = DefaultIn(k)
    BY <2>1 DEF RoutedIn, DefaultIn, WindowKey
  <2>3. TypeOK' /\ Requests'
    BY <2>1 DEF IInv, TypeOK, Requests
  <2>4. CountersAreModest'
    BY <2>1, <2>2 DEF IInv, CountersAreModest
  <2>5. CountersAreExact'
    BY <2>1, <2>2 DEF IInv, CountersAreExact
  <2>6. LanesFollowCount'
    BY <2>1, <2>2 DEF IInv, LanesFollowCount
  <2>7. BulkIsBeyondBurst'
    BY <2>1, <2>2 DEF IInv, BulkIsBeyondBurst, Routed
  <2> QED
    BY <2>3, <2>4, <2>5, <2>6, <2>7 DEF IInv
<1>3. IInv /\ [Next]_vars => IInv'
  BY <1>2, TickStep, ArriveStep, AddStep, IncrStep, UnavailableStep DEF Next, RouteFor
<1> QED
  BY <1>1, <1>3, PTL DEF Spec

(***************************************************************************)
(* The model's types are kept.                                             *)
(***************************************************************************)
THEOREM RoutingTypeCorrect == Spec => []TypeOK
<1>1. IInv => TypeOK
  BY DEF IInv
<1> QED
  BY <1>1, RoutingInvariant, PTL

(***************************************************************************)
(* Only a vendor beyond its own burst, in the same window, is moved to the *)
(* bulk lane, whatever the cache does.                                     *)
(***************************************************************************)
THEOREM QuietVendorsAreLeftAlone == Spec => []QuietStaysOnDefault
<1>1. IInv => QuietStaysOnDefault
  BY DEF IInv, BulkIsBeyondBurst, QuietStaysOnDefault, RoutedIn
<1> QED
  BY <1>1, RoutingInvariant, PTL

(***************************************************************************)
(* The crossing of the burst is reported once per window, and only then.   *)
(***************************************************************************)
THEOREM CrossingIsReportedOnce == Spec => []WarnedOncePerWindow
<1>1. IInv => WarnedOncePerWindow
  <2> SUFFICES ASSUME IInv, NEW k \in Keys \ degraded
               PROVE  /\ warned[k] <= 1
                      /\ warned[k] = 1 <=> \E a \in Routed("bulk") : WindowKey(a) = k
    BY DEF WarnedOncePerWindow
  <2>1. (\E a \in Routed("bulk") : WindowKey(a) = k)
          <=> \E a \in RoutedIn(k) : lane[a] = "bulk"
    BY RoutingAssumption DEF Routed, RoutedIn
  <2> QED
    BY <2>1 DEF IInv, LanesFollowCount
<1> QED
  BY <1>1, RoutingInvariant, PTL

(***************************************************************************)
(* Any stretch of time as long as a window lets at most twice the burst of *)
(* a vendor through on the default lane, unless a counter was lost: such a *)
(* stretch meets two windows at most, and each lets the burst through.     *)
(***************************************************************************)
THEOREM BulkheadHolds == Spec => []DefaultLaneIsBounded
<1>1. IInv => DefaultLaneIsBounded
  <2> SUFFICES ASSUME IInv, burst > 0, NEW v \in {Vendor[a] : a \in Arrivals},
                      NEW t \in 0..MaxClock,
                      \A a \in {x \in Routed("default") :
                                /\ Vendor[x] = v
                                /\ at[x] \in t..(t + Window - 1)} :
                        WindowKey(a) \notin degraded
               PROVE  Cardinality({a \in Routed("default") :
                                /\ Vendor[a] = v
                                /\ at[a] \in t..(t + Window - 1)}) <= 2 * burst
    BY DEF DefaultLaneIsBounded
  <2> DEFINE b == t \div Window
             T == {a \in Routed("default") :
                     Vendor[a] = v /\ at[a] \in t..(t + Window - 1)}
             In(c) == {a \in T : at[a] \div Window = c}
  <2>1. t \in Nat /\ b \in Nat /\ burst \in Nat
    BY BucketBounds, RoutingAssumption DEF IInv, TypeOK
  <2>2. \A a \in T : at[a] \div Window \in {b, b + 1}
    <3> SUFFICES ASSUME NEW a \in T PROVE at[a] \div Window \in {b, b + 1}
      OBVIOUS
    <3>1. at[a] \in Nat /\ t <= at[a] /\ at[a] < t + Window
      BY <2>1, RoutingAssumption
    <3> QED
      BY <2>1, <3>1, BucketsMet
  <2>3. ASSUME NEW c PROVE IsFiniteSet(In(c)) /\ Cardinality(In(c)) <= burst
                             /\ Cardinality(In(c)) \in Nat
    <3>1. CASE In(c) = {}
      BY <2>1, <3>1, FS_EmptySet
    <3>2. CASE In(c) # {}
      <4> DEFINE k == <<v, c>>
      <4>1. PICK a \in Arrivals : a \in In(c)
        BY <3>2 DEF Routed
      <4>2. WindowKey(a) = k /\ k \in Keys /\ k \notin degraded
        BY <4>1, WindowKeyType DEF WindowKey, IInv
      <4>3. In(c) \subseteq DefaultIn(k)
        BY RoutingAssumption DEF DefaultIn, RoutedIn, Routed, WindowKey
      <4>4. DefaultIn(k) \subseteq RoutedIn(k)
        BY DEF DefaultIn
      <4>5. IsFiniteSet(RoutedIn(k)) /\ Cardinality(DefaultIn(k)) <= burst
        BY <4>2 DEF IInv, CountersAreModest, LanesFollowCount
      <4> HIDE DEF k, In
      <4>6. IsFiniteSet(DefaultIn(k))
        BY <4>4, <4>5, FS_Subset
      <4>7. IsFiniteSet(In(c)) /\ Cardinality(In(c)) <= Cardinality(DefaultIn(k))
        BY <4>3, <4>6, FS_Subset
      <4>8. Cardinality(In(c)) \in Nat /\ Cardinality(DefaultIn(k)) \in Nat
        BY <4>6, <4>7, FS_CardinalityType
      <4> QED
        BY <2>1, <4>5, <4>7, <4>8
    <3> QED
      BY <3>1, <3>2
  <2>4. T = In(b) \cup In(b + 1)
    BY <2>2
  <2> HIDE DEF T, In, b
  <2>5. IsFiniteSet(In(b) \cap In(b + 1)) /\ Cardinality(In(b) \cap In(b + 1)) \in Nat
    BY <2>3, FS_Intersection, FS_CardinalityType
  <2>6. Cardinality(T) = Cardinality(In(b)) + Cardinality(In(b + 1))
                           - Cardinality(In(b) \cap In(b + 1))
    BY <2>3, <2>4, FS_Union
  <2>7. Cardinality(T) <= 2 * burst
    BY <2>1, <2>3, <2>5, <2>6
  <2> QED
    BY <2>7 DEF T
<1> QED
  BY <1>1, RoutingInvariant, PTL
============================================================================
