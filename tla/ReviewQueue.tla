---------------------------- MODULE ReviewQueue ----------------------------
(***************************************************************************)
(* The listings of normalised events, read page by page by a client that   *)
(* follows next_offset, while workers normalise and replay webhooks and    *)
(* reviewers decide.  A page is two queries, COUNT and the slice, and      *)
(* anything may be committed between any two queries.                      *)
(*                                                                         *)
(* The events are numbered in the order of created_at.  A row appears out  *)
(* of that order if a transaction is slow to commit, and goes back to its  *)
(* old place when its webhook is replayed.  Confidences are in parts of a  *)
(* thousandth, see Calibration.                                            *)
(***************************************************************************)
EXTENDS Calibration, FiniteSets

CONSTANTS
  N,                  \* the number of webhooks
  VendorOf,           \* event -> the vendor, as its webhook spells it
  Folded,             \* vendor -> stripped and in lower case
  Readings,           \* event -> the confidences it may be read with
  Requests,           \* what a client may ask for first
  DEFAULT_PAGE_SIZE, MAX_PAGE_SIZE,
  LOW_CONFIDENCE_THRESHOLD,   \* in thousandths
  MaxChanges,         \* bound on normalisations and decisions
  None,               \* no value; a query parameter that is absent
  Bad                 \* a query parameter that is not a number

Events == 1..N
Decisions == {"APPROVE", "REJECT"}

(* requires_review is "held"; reviewed_at is set with the decision.        *)
Row == [confidence : Nat, held : BOOLEAN, decision : Decisions \cup {None}]

ASSUME ReviewQueueAssumption ==
  /\ {N, MaxChanges, LOW_CONFIDENCE_THRESHOLD} \subseteq Nat
  /\ {DEFAULT_PAGE_SIZE, MAX_PAGE_SIZE} \subseteq Nat \ {0}
  /\ VendorOf \in [Events -> DOMAIN Folded]
  /\ Readings \in [Events -> SUBSET Nat]
  /\ \A request \in Requests :
       /\ request.listing \in {"review", "low"}
       /\ request.vendor \in DOMAIN Folded \cup {None}
       /\ {request.threshold, request.limit, request.offset}
            \subseteq Int \cup {None, Bad}
  /\ None \notin Nat \cup Row

VARIABLES
  rows,       \* event -> its NormalizedEvent, or None
  gates,      \* event -> runs of the gate that are due and will hold it
  opened,     \* the event a reviewer has loaded, or None
  changes,    \* normalisations and decisions so far
  query,      \* the listing the client reads, and how far it is
  seen        \* what happened to the listing since the client began

vars == <<rows, gates, opened, changes, query, seen>>

Below(confidence, threshold) == confidence < Grain * threshold

(* An event at rest: gated, and decided only if it was held.               *)
Settled(e) ==
  {r \in [confidence : Readings[e], held : BOOLEAN,
          decision : Decisions \cup {None}] :
     /\ r.held = Below(r.confidence, LOW_CONFIDENCE_THRESHOLD)
     /\ r.held \/ r.decision = None}

Idle == [pc |-> "idle", listing |-> None, threshold |-> 0, vendor |-> None,
         limit |-> 0, offset |-> 0, total |-> 0]

Nothing == [listed |-> [e \in Events |-> 0], stayed |-> {},
            start |-> 0, left |-> 0, behind |-> 0, uncounted |-> 0]

Init ==
  /\ rows \in [Events -> UNION {Settled(e) : e \in Events} \cup {None}]
  /\ \A e \in Events : rows[e] = None \/ rows[e] \in Settled(e)
  /\ gates = [e \in Events |-> 0]
  /\ opened = None
  /\ changes = 0
  /\ query = Idle
  /\ seen = Nothing

----------------------------------------------------------------------------
(* Fault variant: a listing of the newest events first, for both.          *)
NewestFirst(listing, e, f) == e > f

(* The order of the listing.                                               *)
Before(listing, e, f) == IF listing = "review" THEN e < f ELSE e > f

(* The filter of the listing, on a table.                                  *)
Selects(q, table, e) ==
  /\ table[e] # None
  /\ IF q.listing = "review"
       THEN /\ table[e].held /\ table[e].decision = None
            /\ q.vendor = None \/ Folded[VendorOf[e]] = Folded[q.vendor]
       ELSE Below(table[e].confidence, q.threshold)

Members(q, table) == {e \in Events : Selects(q, table, e)}

Position(q, table, e) ==
  Cardinality({f \in Members(q, table) : Before(q.listing, f, e)})

(* Fault variant: one row is left out between two pages.                   *)
NextSkips(q) == q.offset + q.limit + 1

(* next_offset, where there is one.                                        *)
NextOffset(q) == q.offset + q.limit

----------------------------------------------------------------------------
Reading == query.pc \in {"count", "page"}

(* What a commit does to the listing the client is reading.  An event that *)
(* enters is behind the client if one that is listed after it by           *)
(* created_at has been listed before.                                      *)
Observe ==
  LET was == Members(query, rows)
      is == Members(query, rows')
      behind == {e \in is \ was : \E f \in Events :
                   /\ seen.listed[f] > 0
                   /\ IF query.listing = "review" THEN e <= f ELSE e >= f}
  IN seen' = IF ~Reading THEN seen
             ELSE [seen EXCEPT
               !.stayed = @ \cap is,
               !.left = @ + Cardinality(was \ is),
               !.behind = @ + Cardinality(behind),
               !.uncounted = IF query.pc = "page" THEN @ + Cardinality(is \ was)
                             ELSE @]

(* create_for_webhook inserts or rewrites the row and clears its flags.    *)
(* The gate runs in a transaction of its own, on the reading it was given. *)
CreateForWebhook(e) ==
  /\ changes < MaxChanges
  /\ changes' = changes + 1
  /\ \E c \in Readings[e] :
       /\ rows' = [rows EXCEPT ![e] =
                     [confidence |-> c, held |-> FALSE, decision |-> None]]
       /\ gates' = [gates EXCEPT ![e] =
            IF Below(c, LOW_CONFIDENCE_THRESHOLD) THEN @ + 1 ELSE @]
  /\ Observe
  /\ UNCHANGED <<opened, query>>

(* The gate holds the row, whatever has been written to it since.          *)
Hold(e) ==
  /\ gates[e] > 0
  /\ gates' = [gates EXCEPT ![e] = @ - 1]
  /\ rows' = [rows EXCEPT ![e].held = TRUE]
  /\ Observe
  /\ UNCHANGED <<opened, changes, query>>

(* A reviewer loads an event that is held and undecided ...                *)
OpenReview(e) ==
  /\ opened = None
  /\ changes < MaxChanges
  /\ rows[e] # None
  /\ rows[e].held /\ rows[e].decision = None
  /\ opened' = e
  /\ UNCHANGED <<rows, gates, changes, query, seen>>

(* ... and saves a decision about what may be another reading by then.     *)
Decide(decision) ==
  /\ opened # None
  /\ changes < MaxChanges
  /\ changes' = changes + 1
  /\ rows' = [rows EXCEPT ![opened].decision = decision]
  /\ opened' = None
  /\ Observe
  /\ UNCHANGED <<gates, query>>

----------------------------------------------------------------------------
(* Fault variant: the page size is not capped.                             *)
IntParamUncapped(raw, default, minimum, maximum) ==
  IF raw = None THEN default
  ELSE IF raw = Bad THEN Bad
  ELSE IF raw < minimum THEN Bad
  ELSE raw

(* A PageError is the value Bad.                                           *)
IntParam(raw, default, minimum, maximum) ==
  IF raw = None THEN default
  ELSE IF raw = Bad THEN Bad
  ELSE IF raw < minimum \/ (maximum # None /\ raw > maximum) THEN Bad
  ELSE raw

ThresholdParam(raw) ==
  IF raw = None THEN LOW_CONFIDENCE_THRESHOLD
  ELSE IF raw = Bad THEN Bad
  ELSE IF 0 <= raw /\ raw <= 1000 THEN raw
  ELSE Bad

(* The first request of a client: it is refused, or its queries begin.     *)
Get(request) ==
  LET threshold == IF request.listing = "low" THEN ThresholdParam(request.threshold)
                   ELSE 0
      limit == IntParam(request.limit, DEFAULT_PAGE_SIZE, 1, MAX_PAGE_SIZE)
      offset == IntParam(request.offset, 0, 0, None)
  IN /\ query.pc = "idle"
     /\ IF Bad \in {threshold, limit, offset}
          THEN /\ query' = [query EXCEPT !.pc = "refused"]
               /\ seen' = seen
          ELSE /\ query' = [query EXCEPT
                    !.pc = "count", !.listing = request.listing,
                    !.threshold = threshold, !.vendor = request.vendor,
                    !.limit = limit, !.offset = offset]
               /\ seen' = [seen EXCEPT !.start = offset,
                                       !.stayed = Members(query', rows)]
     /\ UNCHANGED <<rows, gates, opened, changes>>

Count ==
  /\ query.pc = "count"
  /\ query' = [query EXCEPT !.pc = "page",
                            !.total = Cardinality(Members(query, rows))]
  /\ seen' = [seen EXCEPT !.uncounted = 0]
  /\ UNCHANGED <<rows, gates, opened, changes>>

(* The slice.  The client asks for the next page if there is one.          *)
Slice ==
  /\ query.pc = "page"
  /\ seen' = [seen EXCEPT !.listed = [e \in Events |->
       IF /\ e \in Members(query, rows)
          /\ Position(query, rows, e) >= query.offset
          /\ Position(query, rows, e) < query.offset + query.limit
         THEN @[e] + 1 ELSE @[e]]]
  /\ query' = IF NextOffset(query) < query.total
                THEN [query EXCEPT !.pc = "count", !.offset = NextOffset(query)]
                ELSE [query EXCEPT !.pc = "done"]
  /\ UNCHANGED <<rows, gates, opened, changes>>

Next ==
  \/ \E e \in Events : CreateForWebhook(e) \/ Hold(e) \/ OpenReview(e)
  \/ \E d \in Decisions : Decide(d)
  \/ \E request \in Requests : Get(request)
  \/ Count
  \/ Slice

Spec == Init /\ [][Next]_vars

----------------------------------------------------------------------------
(* A query in progress is a valid one: its page size is the default or one *)
(* that is allowed.  Counters count.                                       *)
TypeOK ==
  /\ rows \in [Events -> Row \cup {None}]
  /\ gates \in [Events -> 0..MaxChanges]
  /\ opened \in Events \cup {None}
  /\ changes \in 0..MaxChanges
  /\ query \in [pc : {"idle", "refused", "count", "page", "done"},
                listing : {"review", "low", None}, threshold : Nat,
                vendor : DOMAIN Folded \cup {None},
                limit : Nat, offset : Nat, total : 0..N]
  /\ Reading => query.limit \in (1..MAX_PAGE_SIZE) \cup {DEFAULT_PAGE_SIZE}
  /\ seen \in [listed : [Events -> Nat], stayed : SUBSET Events, start : Nat,
               left : Nat, behind : Nat, uncounted : Nat]

(***************************************************************************)
(* A client that follows next_offset until there is none has been shown    *)
(* every event that was in the listing all the time, but for at most one   *)
(* for each position before the offset it began with, one for each event   *)
(* that left the listing meanwhile, and one for each that entered between  *)
(* the last COUNT and its page.  Whoever works off the queue page by page  *)
(* has to start again from offset 0.                                       *)
(***************************************************************************)
SkipsAreExplained ==
  query.pc = "done" =>
    Cardinality({e \in seen.stayed : seen.listed[e] = 0})
      <= seen.start + seen.left + seen.uncounted

(* The showings of an event after its first.                               *)
Repeats == UNION {{e} \X (2..seen.listed[e]) : e \in Events}

(***************************************************************************)
(* An event is shown once, unless another one entered the listing behind   *)
(* the client: a held event goes to the end of the review queue, so only   *)
(* a replay, which keeps created_at, or a transaction that is slow to      *)
(* commit can make the client see an event again.                          *)
(***************************************************************************)
RepeatsAreExplained == Cardinality(Repeats) <= seen.behind

----------------------------------------------------------------------------
(* The decided events of one vendor: the report groups by the spelling.    *)
DecidedBy(vendor) ==
  LET cs == UNION {Readings[e] : e \in Events}
  IN [d \in Decisions |-> [c \in cs |->
       Cardinality({e \in Events :
         /\ VendorOf[e] = vendor /\ rows[e] # None
         /\ rows[e].decision = d /\ rows[e].confidence = c})]]

Vendors == {VendorOf[e] : e \in {f \in Events : rows[f] # None}}

(* A row of the report, which is one query: it sees one state of the table.*)
CalibrationRow(vendor) ==
  Assess(DecidedBy(vendor), LOW_CONFIDENCE_THRESHOLD, None)

(***************************************************************************)
(* Advice is safe to follow: the suggested threshold would still have held *)
(* every rejected event at the gate, which compares unrounded confidences, *)
(* although the report compares and suggests rounded ones.                 *)
(***************************************************************************)
AdviceHoldsRejections ==
  \A v \in Vendors :
    LET s == CalibrationRow(v).suggested_threshold IN
    s # None => \A c \in Confidences(DecidedBy(v), "REJECT") : Below(c, s)
============================================================================
