------------------------------ MODULE Routing ------------------------------
(***************************************************************************)
(* Which lane a webhook goes on: the arrivals of a vendor are counted in   *)
(* fixed windows, in the cache, by concurrent requests.  Every element of  *)
(* Arrivals is one call of route_for; a request may stall between reading  *)
(* the clock, cache.add and cache.incr, and either cache call may fail.    *)
(*                                                                         *)
(* The cache is external: add does nothing if the key is there, incr is    *)
(* atomic and raises if it is not, an entry is gone once its timeout is    *)
(* over.                                                                   *)
(***************************************************************************)
EXTENDS FiniteSets, Naturals

CONSTANTS
  Arrivals,    \* calls of route_for
  Vendor,      \* arrival -> digest of its vendor's name, case folded
  Window,      \* NOISY_VENDOR_WINDOW_SECONDS, in ticks of the clock
  Bursts,      \* the settings of NOISY_VENDOR_BURST to consider
  MaxClock,    \* bound: ticks of the clock
  None         \* no counter, no lane

ASSUME RoutingAssumption ==
  /\ Window \in Nat \ {0}
  /\ Bursts \subseteq Nat
  /\ MaxClock \in Nat
  /\ None \notin [count: Nat, expires: Nat] \cup {"default", "bulk"}

VARIABLES
  burst,       \* NOISY_VENDOR_BURST of this deployment
  clock,       \* time.time()
  counter,     \* <<vendor, bucket>> -> [count, expires], or None
  pc,          \* the statement each arrival is at
  at,          \* the time each arrival read
  lane,        \* the queue each arrival was routed to
  warned,      \* <<vendor, bucket>> -> vendor_burst_bulkheaded warnings
  \* History: never read by the program.
  degraded     \* keys whose counter was unavailable or expired while in use

vars == <<burst, clock, counter, pc, at, lane, warned, degraded>>

Buckets == 0..(MaxClock \div Window)
Keys == {Vendor[a] : a \in Arrivals} \X Buckets

WindowKey(a) == <<Vendor[a], at[a] \div Window>>

Init ==
  /\ burst \in Bursts
  /\ clock = 0
  /\ counter = [k \in Keys |-> None]
  /\ pc = [a \in Arrivals |-> "new"]
  /\ at = [a \in Arrivals |-> 0]
  /\ lane = [a \in Arrivals |-> None]
  /\ warned = [k \in Keys |-> 0]
  /\ degraded = {}

----------------------------------------------------------------------------
\* Time passes, and with it the counters whose timeout is over.
Tick ==
  /\ clock < MaxClock
  /\ clock' = clock + 1
  /\ counter' = [k \in Keys |->
       IF counter[k] # None /\ counter[k].expires <= clock'
         THEN None ELSE counter[k]]
  /\ degraded' = degraded \cup
       {WindowKey(a) : a \in {x \in Arrivals :
          /\ pc[x] \in {"add", "incr"}
          /\ counter[WindowKey(x)] # None
          /\ counter'[WindowKey(x)] = None}}
  /\ UNCHANGED <<burst, pc, at, lane, warned>>

\* record_arrival reads the clock once and builds the key from it.
Arrive(a) ==
  /\ pc[a] = "new"
  /\ pc' = [pc EXCEPT ![a] = "add"]
  /\ at' = [at EXCEPT ![a] = clock]
  /\ UNCHANGED <<burst, clock, counter, lane, warned, degraded>>

\* Fault variant: the counter is set, not added, so the second caller of a
\* window starts it again.
AddOverwrites(a) ==
  /\ pc[a] = "add"
  /\ pc' = [pc EXCEPT ![a] = "incr"]
  /\ counter' = [counter EXCEPT ![WindowKey(a)] =
       [count |-> 0, expires |-> clock + 2 * Window]]
  /\ UNCHANGED <<burst, clock, at, lane, warned, degraded>>

\* Fault variant: a counter without a timeout.
AddForever(a) ==
  /\ pc[a] = "add"
  /\ pc' = [pc EXCEPT ![a] = "incr"]
  /\ counter' = IF counter[WindowKey(a)] = None
       THEN [counter EXCEPT ![WindowKey(a)] = [count |-> 0, expires |-> None]]
       ELSE counter
  /\ UNCHANGED <<burst, clock, at, lane, warned, degraded>>

Add(a) ==
  /\ pc[a] = "add"
  /\ pc' = [pc EXCEPT ![a] = "incr"]
  /\ counter' = IF counter[WindowKey(a)] = None
       THEN [counter EXCEPT ![WindowKey(a)] =
               [count |-> 0, expires |-> clock + 2 * Window]]
       ELSE counter
  /\ UNCHANGED <<burst, clock, at, lane, warned, degraded>>

----------------------------------------------------------------------------
\* Fault variant: the burst itself is already too much.
BulkFromBurst(n) == IF burst = 0 \/ n < burst THEN "default" ELSE "bulk"

QueueForVendor(n) == IF burst = 0 \/ n <= burst THEN "default" ELSE "bulk"

\* Fault variant: a warning for every webhook beyond the burst.
WarnsEveryTime(a, n) ==
  warned' = IF burst > 0 /\ n > burst
              THEN [warned EXCEPT ![WindowKey(a)] = @ + 1] ELSE warned

\* The warning, once, when the vendor crosses its burst.
Warns(a, n) ==
  warned' = IF burst > 0 /\ n = burst + 1
              THEN [warned EXCEPT ![WindowKey(a)] = @ + 1] ELSE warned

\* Arrival a was the n-th of its window, or n is 0.
Routes(a, n) ==
  /\ pc' = [pc EXCEPT ![a] = "routed"]
  /\ lane' = [lane EXCEPT ![a] = QueueForVendor(n)]
  /\ Warns(a, n)
  /\ UNCHANGED <<burst, clock, at>>

Incr(a) ==
  LET c == counter[WindowKey(a)] IN
  /\ pc[a] = "incr"
  /\ c # None
  /\ counter' = [counter EXCEPT ![WindowKey(a)].count = @ + 1]
  /\ Routes(a, c.count + 1)
  /\ UNCHANGED degraded

\* incr on an expired counter raises, and so may any call: count 0.
Unavailable(a) ==
  /\ pc[a] \in {"add", "incr"}
  /\ Routes(a, 0)
  /\ degraded' = degraded \cup {WindowKey(a)}
  /\ UNCHANGED counter

RouteFor(a) == Arrive(a) \/ Add(a) \/ Incr(a) \/ Unavailable(a)

Next == Tick \/ \E a \in Arrivals : RouteFor(a)

Spec == Init /\ [][Next]_vars

----------------------------------------------------------------------------
TypeOK ==
  /\ burst \in Bursts
  /\ clock \in 0..MaxClock
  /\ counter \in [Keys -> [count: Nat, expires: Nat] \cup {None}]
  /\ pc \in [Arrivals -> {"new", "add", "incr", "routed"}]
  /\ at \in [Arrivals -> 0..MaxClock]
  /\ lane \in [Arrivals -> {"default", "bulk", None}]
  /\ warned \in [Keys -> Nat]
  /\ degraded \subseteq Keys

Routed(l) == {a \in Arrivals : lane[a] = l}

(***************************************************************************)
(* Nobody is bulkheaded for somebody else's burst, or by a failing cache:  *)
(* a webhook goes on the bulk lane only if more arrivals than the burst,   *)
(* of its own vendor and in its own window, have been routed; with a burst *)
(* of zero none does.                                                      *)
(***************************************************************************)
QuietStaysOnDefault ==
  \A a \in Routed("bulk") :
    /\ burst > 0
    /\ Cardinality({x \in Arrivals :
         lane[x] # None /\ WindowKey(x) = WindowKey(a)}) > burst

(***************************************************************************)
(* The bulkhead holds under racing requests: with the counter available,   *)
(* at most `burst' arrivals of a vendor and window get the default lane,   *)
(* so any stretch of time as long as a window, wherever it begins, lets at *)
(* most twice the burst through.                                           *)
(***************************************************************************)
DefaultLaneIsBounded ==
  burst > 0 =>
    \A v \in {Vendor[a] : a \in Arrivals}, t \in 0..MaxClock :
      LET through == {a \in Routed("default") :
                        /\ Vendor[a] = v
                        /\ at[a] \in t..(t + Window - 1)}
      IN (\A a \in through : WindowKey(a) \notin degraded)
           => Cardinality(through) <= 2 * burst

(***************************************************************************)
(* An operator is told once that a vendor has started shouting, not once   *)
(* per message, unless the counter was lost in between.                    *)
(***************************************************************************)
WarnedOncePerWindow ==
  \A k \in Keys \ degraded :
    /\ warned[k] <= 1
    /\ warned[k] = 1 <=> \E a \in Routed("bulk") : WindowKey(a) = k

============================================================================
