------------------------- MODULE ReviewQueueProofs --------------------------
(***************************************************************************)
(* Paging through a listing that changes, for any number of events, any    *)
(* page size and any number of changes; and the advice of the calibration  *)
(* report, for any table of decisions and any grain.                       *)
(*                                                                         *)
(* While a client reads, the events it can no longer reach are the ones    *)
(* that stayed, were not listed and are before its offset.  An event that  *)
(* leaves moves the later ones one place up, and so at most one of them    *)
(* over the offset.  The events it is going to see again are the ones      *)
(* listed before that are at its offset or after it.  An event that enters *)
(* before them moves at most one of them over the offset, unless it is     *)
(* such an event itself and then it moves none.                            *)
(***************************************************************************)
EXTENDS ReviewQueue, FiniteSetTheorems, WellFoundedInduction, TLAPS

(* The listing the client reads, and what it has lost and is to see again. *)
Listing == Members(query, rows)

OutOfReach == {e \in seen.stayed : /\ seen.listed[e] = 0
                                   /\ Position(query, rows, e) < query.offset}

SeenAgain == {e \in Listing : /\ seen.listed[e] > 0
                              /\ Position(query, rows, e) >= query.offset}

(* A row that is waited for or looked at exists.                           *)
RowsExist ==
  /\ opened # None => rows[opened] # None
  /\ \A e \in Events : gates[e] > 0 => rows[e] # None

GatesFollowChanges == \A e \in Events : gates[e] <= changes

NothingBefore == query.pc = "idle" => query = Idle /\ seen = Nothing

ReadersList == Reading => query.listing \in {"review", "low"}

StayedAreListed == Reading => seen.stayed \subseteq Listing

LossIsExplained ==
  Reading => Cardinality(OutOfReach) <= seen.start + seen.left

CountIsExplained ==
  query.pc = "page" => Cardinality(Listing) <= query.total + seen.uncounted

RepetitionIsExplained ==
  /\ IsFiniteSet(Repeats)
  /\ Cardinality(Repeats) <= seen.behind
  /\ Reading => Cardinality(Repeats) + Cardinality(SeenAgain) <= seen.behind

Safe ==
  /\ RowsExist /\ GatesFollowChanges /\ NothingBefore /\ ReadersList
  /\ StayedAreListed /\ LossIsExplained /\ CountIsExplained
  /\ RepetitionIsExplained /\ SkipsAreExplained

IInv == TypeOK /\ Safe

----------------------------------------------------------------------------
(* Positions in a set M of events that is listed in the order of listing.  *)
Ahead(listing, M, e) == {f \in M : Before(listing, f, e)}
Place(listing, M, e) == Cardinality(Ahead(listing, M, e))

LEMMA PositionIsPlace ==
  ASSUME NEW q, NEW table, NEW e
  PROVE  Position(q, table, e) = Place(q.listing, Members(q, table), e)
BY DEF Position, Place, Ahead

LEMMA EventsFinite ==
  /\ IsFiniteSet(Events)
  /\ \A M \in SUBSET Events :
       IsFiniteSet(M) /\ Cardinality(M) \in Nat /\ Cardinality(M) <= N
<1>1. N \in Nat
  BY ReviewQueueAssumption
<1>2. IsFiniteSet(Events) /\ Cardinality(Events) <= N
  BY <1>1, FS_Interval DEF Events
<1> SUFFICES ASSUME NEW M \in SUBSET Events
             PROVE  IsFiniteSet(M) /\ Cardinality(M) \in Nat /\ Cardinality(M) <= N
  BY <1>2
<1>3. IsFiniteSet(M) /\ Cardinality(M) <= Cardinality(Events)
  BY <1>2, FS_Subset
<1>4. Cardinality(M) \in Nat /\ Cardinality(Events) \in Nat
  BY <1>2, <1>3, FS_CardinalityType
<1> QED
  BY <1>1, <1>2, <1>3, <1>4

(***************************************************************************)
(* The order of a listing is a strict total order.                         *)
(***************************************************************************)
LEMMA BeforeIsOrder ==
  ASSUME NEW listing, NEW e \in Events, NEW f \in Events, NEW g \in Events
  PROVE  /\ ~Before(listing, e, e)
         /\ Before(listing, e, f) /\ Before(listing, f, g) => Before(listing, e, g)
         /\ Before(listing, e, f) \/ Before(listing, f, e) \/ e = f
BY ReviewQueueAssumption DEF Before, Events

LEMMA PlaceType ==
  ASSUME NEW listing, NEW M \in SUBSET Events, NEW e
  PROVE  Place(listing, M, e) \in Nat
<1>1. Ahead(listing, M, e) \in SUBSET Events
  BY DEF Ahead
<1> QED
  BY <1>1, EventsFinite DEF Place

(***************************************************************************)
(* Whatever is listed before another event has a smaller place ...         *)
(***************************************************************************)
LEMMA PlaceGrows ==
  ASSUME NEW listing, NEW M \in SUBSET Events, NEW e \in M, NEW g \in Events,
         Before(listing, e, g)
  PROVE  Place(listing, M, e) < Place(listing, M, g)
<1> DEFINE A == Ahead(listing, M, e)
           B == Ahead(listing, M, g)
<1>1. A \in SUBSET B /\ e \in B /\ e \notin A
  BY BeforeIsOrder DEF Ahead
<1>2. B \in SUBSET Events
  BY DEF Ahead
<1>3. IsFiniteSet(B) /\ Cardinality(A) \in Nat /\ Cardinality(B) \in Nat
  BY <1>1, <1>2, EventsFinite
<1>4. Cardinality(A) <= Cardinality(B) /\ (Cardinality(B) = Cardinality(A) => B = A)
  BY <1>1, <1>3, FS_Subset
<1> QED
  BY <1>1, <1>3, <1>4 DEF Place

(***************************************************************************)
(* ... so no two events of the listing have the same place.                *)
(***************************************************************************)
LEMMA PlaceIsInjective ==
  ASSUME NEW listing, NEW M \in SUBSET Events, NEW e \in M, NEW g \in M,
         Place(listing, M, e) = Place(listing, M, g)
  PROVE  e = g
<1>1. Place(listing, M, e) \in Nat /\ Place(listing, M, g) \in Nat
  BY PlaceType
<1>2. ~Before(listing, e, g) /\ ~Before(listing, g, e)
  BY <1>1, PlaceGrows
<1> QED
  BY <1>2, BeforeIsOrder

LEMMA PlaceBelowCount ==
  ASSUME NEW listing, NEW M \in SUBSET Events, NEW e \in M
  PROVE  Place(listing, M, e) < Cardinality(M)
<1> DEFINE A == Ahead(listing, M, e)
<1>1. A \in SUBSET M /\ e \notin A /\ A \in SUBSET Events
  BY BeforeIsOrder DEF Ahead
<1>2. IsFiniteSet(M) /\ Cardinality(A) \in Nat /\ Cardinality(M) \in Nat
  BY <1>1, EventsFinite
<1>3. Cardinality(A) <= Cardinality(M) /\ (Cardinality(M) = Cardinality(A) => M = A)
  BY <1>1, <1>2, FS_Subset
<1> QED
  BY <1>1, <1>2, <1>3 DEF Place

(***************************************************************************)
(* At most b - a + 1 events have places from a to b.                       *)
(***************************************************************************)
LEMMA PlacesCounted ==
  ASSUME NEW listing, NEW M \in SUBSET Events, NEW S \in SUBSET M,
         NEW a \in Int, NEW b \in Int, 
         \A e \in S : Place(listing, M, e) \in a..b
  PROVE  Cardinality(S) <= IF a > b THEN 0 ELSE b - a + 1
<1> DEFINE place == [e \in S |-> Place(listing, M, e)]
<1>1. place \in [S -> a..b]
  OBVIOUS
<1>2. \A e, g \in S : place[e] = place[g] => e = g
  BY PlaceIsInjective
<1>3. place \in Injection(S, a..b)
  BY <1>1, <1>2 DEF Injection, IsInjective
<1>4. IsFiniteSet(a..b) /\ Cardinality(a..b) = IF a > b THEN 0 ELSE b - a + 1
  BY FS_Interval
<1>5. Cardinality(S) <= Cardinality(a..b)
  BY <1>3, <1>4, FS_Injection
<1> QED
  BY <1>4, <1>5

(***************************************************************************)
(* An event that enters moves the ones after it one place down.            *)
(***************************************************************************)
LEMMA PlaceMoves ==
  ASSUME NEW listing, NEW M \in SUBSET Events, NEW x \in Events \ M, NEW e
  PROVE  Place(listing, M \cup {x}, e) =
           IF Before(listing, x, e) THEN Place(listing, M, e) + 1
           ELSE Place(listing, M, e)
<1> DEFINE A == Ahead(listing, M, e)
           B == Ahead(listing, M \cup {x}, e)
<1>1. A \in SUBSET Events /\ x \notin A
  BY DEF Ahead
<1>2. IsFiniteSet(A)
  BY <1>1, EventsFinite
<1>3. CASE Before(listing, x, e)
  <2>1. B = A \cup {x}
    BY <1>3 DEF Ahead
  <2>2. Cardinality(A \cup {x}) = Cardinality(A) + 1
    BY <1>1, <1>2, FS_AddElement
  <2> QED
    BY <1>3, <2>1, <2>2 DEF Place
<1>4. CASE ~Before(listing, x, e)
  <2>1. B = A
    BY <1>4 DEF Ahead
  <2> QED
    BY <1>4, <2>1 DEF Place
<1> QED
  BY <1>3, <1>4

(***************************************************************************)
(* A set of events with one more is one larger.                            *)
(***************************************************************************)
LEMMA OneMore ==
  ASSUME NEW S \in SUBSET Events, NEW T \in SUBSET Events, NEW x,
         T \subseteq S \cup {x}
  PROVE  /\ Cardinality(T) <= Cardinality(S) + 1
         /\ x \notin T \/ x \in S => Cardinality(T) <= Cardinality(S)
<1>1. IsFiniteSet(S) /\ Cardinality(S) \in Nat /\ Cardinality(T) \in Nat
  BY EventsFinite
<1>2. /\ IsFiniteSet(S \cup {x})
      /\ Cardinality(S \cup {x}) = IF x \in S THEN Cardinality(S) ELSE Cardinality(S) + 1
  BY <1>1, FS_AddElement
<1>3. Cardinality(T) <= Cardinality(S \cup {x})
  BY <1>2, FS_Subset
<1>4. ASSUME x \notin T \/ x \in S
      PROVE  Cardinality(T) <= Cardinality(S)
  BY <1>1, <1>4, FS_Subset
<1> QED
  BY <1>1, <1>2, <1>3, <1>4
(***************************************************************************)
(* When x leaves, at most one of the events S that stay gets before the    *)
(* offset: the one that was at it.                                         *)
(***************************************************************************)
LEMMA LeavingMovesOne ==
  ASSUME NEW listing, NEW M \in SUBSET Events, NEW x \in Events \ M,
         NEW S \in SUBSET (M \cup {x}), NEW offset \in Nat, NEW was, NEW is,
         \A e : e \in was <=> e \in S /\ Place(listing, M \cup {x}, e) < offset,
         \A e : e \in is <=> e \in S \cap M /\ Place(listing, M, e) < offset
  PROVE  Cardinality(is) <= Cardinality(was) + 1
<1> DEFINE y == CHOOSE e \in S : Place(listing, M \cup {x}, e) = offset
<1>1. \A e \in S : Place(listing, M, e) \in Nat /\ Place(listing, M \cup {x}, e) \in Nat
  BY PlaceType
<1>2. ASSUME NEW e \in is \ was
      PROVE  e \in S /\ Place(listing, M \cup {x}, e) = offset
  <2>1. e \in S /\ Place(listing, M, e) < offset
    BY <1>2
  <2>2. ~(Place(listing, M \cup {x}, e) < offset)
    BY <1>2, <2>1
  <2>3. Place(listing, M \cup {x}, e) =
          IF Before(listing, x, e) THEN Place(listing, M, e) + 1
          ELSE Place(listing, M, e)
    BY PlaceMoves
  <2> QED
    BY <1>1, <2>1, <2>2, <2>3
<1>3. \A e \in is \ was : e \in S /\ Place(listing, M \cup {x}, e) = offset
  BY <1>2
<1>4. \A e \in is \ was : e = y
  BY <1>3, PlaceIsInjective
<1>5. is \subseteq was \cup {y} /\ was \in SUBSET Events /\ is \in SUBSET Events
  BY <1>4
<1> QED
  BY <1>5, OneMore

(***************************************************************************)
(* When an event enters, no other moves up.                                *)
(***************************************************************************)
LEMMA EnteringMovesNoneUp ==
  ASSUME NEW listing, NEW M \in SUBSET Events, NEW x \in Events \ M, NEW e
  PROVE  Place(listing, M, e) <= Place(listing, M \cup {x}, e)
<1>1. Place(listing, M, e) \in Nat
  BY PlaceType
<1> QED
  BY <1>1, PlaceMoves

(***************************************************************************)
(* When x enters, at most one of the listed events H gets to the offset or *)
(* beyond, x included, and none if they are all listed before x.           *)
(***************************************************************************)
LEMMA EnteringMovesOne ==
  ASSUME NEW listing, NEW M \in SUBSET Events, NEW x \in Events \ M,
         NEW H \in SUBSET Events, NEW offset \in Nat, NEW was, NEW is,
         \A e : e \in was <=> e \in M \cap H /\ Place(listing, M, e) >= offset,
         \A e : e \in is <=> /\ e \in (M \cup {x}) \cap H
                             /\ Place(listing, M \cup {x}, e) >= offset
  PROVE  /\ Cardinality(is) <= Cardinality(was) + 1
         /\ (\A f \in H : x # f /\ ~Before(listing, x, f))
              => Cardinality(is) <= Cardinality(was)
<1> DEFINE y == CHOOSE e \in M : Place(listing, M, e) = offset - 1
<1>1. \A e \in Events :
        Place(listing, M, e) \in Nat /\ Place(listing, M \cup {x}, e) \in Nat
  BY PlaceType
<1>2. ASSUME NEW e \in (is \ was) \ {x}
      PROVE  e \in M /\ Before(listing, x, e) /\ Place(listing, M, e) = offset - 1
  <2>1. e \in M \cap H /\ Place(listing, M \cup {x}, e) >= offset
    BY <1>2
  <2>2. ~(Place(listing, M, e) >= offset)
    BY <1>2, <2>1
  <2>3. Place(listing, M \cup {x}, e) =
          IF Before(listing, x, e) THEN Place(listing, M, e) + 1
          ELSE Place(listing, M, e)
    BY PlaceMoves
  <2> QED
    BY <1>1, <2>1, <2>2, <2>3
<1>3. \A e \in (is \ was) \ {x} : e = y
  BY <1>2, PlaceIsInjective
<1>4. was \in SUBSET Events /\ is \in SUBSET Events
  OBVIOUS
<1>5. Place(listing, M \cup {x}, x) = Place(listing, M, x)
  BY PlaceMoves, BeforeIsOrder
<1>6. ASSUME NEW e \in (is \ was) \ {x} PROVE x \notin is
  <2>1. Before(listing, x, e) /\ Place(listing, M, e) = offset - 1 /\ e \in M
    BY <1>2, <1>6
  <2>2. Place(listing, M \cup {x}, x) < Place(listing, M \cup {x}, e)
    BY <2>1, PlaceGrows
  <2>3. Place(listing, M \cup {x}, e) = offset
    BY <1>1, <2>1, PlaceMoves
  <2> QED
    BY <1>1, <2>2, <2>3
<1>7. CASE x \in is
  <2>1. is \subseteq was \cup {x} /\ x \in H
    BY <1>6, <1>7
  <2> QED
    BY <2>1, <1>4, OneMore
<1>8. CASE x \notin is
  <2>1. is \subseteq was \cup {y}
    BY <1>3, <1>8
  <2>2. Cardinality(is) <= Cardinality(was) + 1
    BY <2>1, <1>4, OneMore
  <2>3. ASSUME \A f \in H : x # f /\ ~Before(listing, x, f)
        PROVE  Cardinality(is) <= Cardinality(was)
    <3>1. is \subseteq was
      BY <1>2, <1>8, <2>3
    <3>2. IsFiniteSet(was)
      BY <1>4, EventsFinite
    <3> QED
      BY <3>1, <3>2, FS_Subset
  <2> QED
    BY <2>2, <2>3
<1> QED
  BY <1>7, <1>8

----------------------------------------------------------------------------
(* A commit, of one row.                                                   *)
Commit(x) ==
  /\ rows' \in [Events -> Row \cup {None}]
  /\ \A e \in Events \ {x} : rows'[e] = rows[e]
  /\ query' = query
  /\ Observe

(* The part of the invariant that is about the reading client.             *)
SafeToRead ==
  /\ seen \in [listed : [Events -> Nat], stayed : SUBSET Events, start : Nat,
               left : Nat, behind : Nat, uncounted : Nat]
  /\ NothingBefore /\ ReadersList
  /\ StayedAreListed /\ LossIsExplained /\ CountIsExplained
  /\ RepetitionIsExplained /\ SkipsAreExplained

(***************************************************************************)
(* The listing gains or loses the committed row, or neither.               *)
(***************************************************************************)
LEMMA CommitMovesOne ==
  ASSUME NEW x \in Events, Commit(x)
  PROVE  \/ Listing' = Listing
         \/ x \notin Listing /\ Listing' = Listing \cup {x}
         \/ x \notin Listing' /\ Listing = Listing' \cup {x}
<1>1. \A e \in Events \ {x} : Selects(query, rows, e) <=> Selects(query, rows', e)
  BY DEF Commit, Selects
<1>2. Listing' = {e \in Events : Selects(query, rows', e)}
  BY DEF Commit, Listing, Members
<1>3. Listing = {e \in Events : Selects(query, rows, e)}
  BY DEF Listing, Members
<1> QED
  BY <1>1, <1>2, <1>3

LEMMA ListingFinite ==
  /\ Listing \in SUBSET Events /\ Listing' \in SUBSET Events
  /\ IsFiniteSet(Listing) /\ IsFiniteSet(Listing')
  /\ Cardinality(Listing) \in Nat /\ Cardinality(Listing') \in Nat
<1>1. Listing \in SUBSET Events /\ Listing' \in SUBSET Events
  BY DEF Listing, Members
<1> QED
  BY <1>1, EventsFinite

(***************************************************************************)
(* What a commit records for a client that is reading.                     *)
(***************************************************************************)
LEMMA CommitRecords ==
  ASSUME TypeOK, NEW x \in Events, Commit(x), Reading
  PROVE  LET behind == {e \in Listing' \ Listing : \E f \in Events :
                          /\ seen.listed[f] > 0
                          /\ IF query.listing = "review" THEN e <= f ELSE e >= f}
         IN  seen' = [seen EXCEPT
               !.stayed = seen.stayed \cap Listing',
               !.left = seen.left + Cardinality(Listing \ Listing'),
               !.behind = seen.behind + Cardinality(behind),
               !.uncounted = IF query.pc = "page"
                               THEN seen.uncounted + Cardinality(Listing' \ Listing)
                               ELSE seen.uncounted]
BY DEF Commit, Observe, Listing, TypeOK

(***************************************************************************)
(* The showings and the unreachable and repeated events, by their places.  *)
(***************************************************************************)
LEMMA ByPlaces ==
  ASSUME TypeOK
  PROVE  /\ OutOfReach = {e \in {f \in seen.stayed : seen.listed[f] = 0} :
                            Place(query.listing, Listing, e) < query.offset}
         /\ SeenAgain = {e \in Listing :
                           /\ e \in {f \in Events : seen.listed[f] > 0}
                           /\ Place(query.listing, Listing, e) >= query.offset}
         /\ OutOfReach \in SUBSET Events /\ SeenAgain \in SUBSET Events
         /\ Cardinality(OutOfReach) \in Nat /\ Cardinality(SeenAgain) \in Nat
<1>1. /\ OutOfReach = {e \in {f \in seen.stayed : seen.listed[f] = 0} :
                         Place(query.listing, Listing, e) < query.offset}
      /\ SeenAgain = {e \in Listing :
                        /\ e \in {f \in Events : seen.listed[f] > 0}
                        /\ Place(query.listing, Listing, e) >= query.offset}
  BY PositionIsPlace, ListingFinite DEF OutOfReach, SeenAgain, Listing
<1>2. OutOfReach \in SUBSET Events /\ SeenAgain \in SUBSET Events
  BY <1>1, ListingFinite DEF TypeOK
<1> QED
  BY <1>1, <1>2, EventsFinite

(***************************************************************************)
(* A commit while nobody reads changes nothing for the client.             *)
(***************************************************************************)
LEMMA CommitUnread ==
  ASSUME IInv, NEW x \in Events, Commit(x), ~Reading
  PROVE  SafeToRead'
<1>1. seen' = seen /\ query' = query
  BY DEF Commit, Observe
<1>2. ~Reading' /\ query'.pc # "page" /\ Repeats' = Repeats
  BY <1>1 DEF Reading, Repeats
<1> QED
  BY <1>1, <1>2
  DEF IInv, Safe, SafeToRead, TypeOK, NothingBefore, ReadersList, StayedAreListed,
      LossIsExplained, CountIsExplained, RepetitionIsExplained, SkipsAreExplained,
      Reading

(***************************************************************************)
(* A commit while the client reads is recorded as what it does to it.      *)
(***************************************************************************)
LEMMA CommitRead ==
  ASSUME IInv, NEW x \in Events, Commit(x), Reading
  PROVE  SafeToRead'
<1> DEFINE L == query.listing
           M == Listing
           W == Listing'
           H == {f \in Events : seen.listed[f] > 0}
           S == {f \in seen.stayed : seen.listed[f] = 0}
           behind == {e \in W \ M : \E f \in Events :
                        /\ seen.listed[f] > 0
                        /\ IF L = "review" THEN e <= f ELSE e >= f}
<1>1. TypeOK
  BY DEF IInv
<1>2. /\ query' = query /\ Reading' /\ (query'.pc = "page" <=> query.pc = "page")
      /\ L \in {"review", "low"} /\ query.offset \in Nat /\ query.total \in Nat
  BY ReviewQueueAssumption, <1>1 DEF Commit, IInv, Safe, ReadersList, TypeOK, Reading
<1>3. /\ M \in SUBSET Events /\ W \in SUBSET Events /\ H \in SUBSET Events
      /\ S \in SUBSET M /\ seen.stayed \subseteq M
  BY ListingFinite DEF IInv, Safe, StayedAreListed
<1>4. /\ IsFiniteSet(M) /\ IsFiniteSet(W)
      /\ \A T \in SUBSET Events : Cardinality(T) \in Nat /\ IsFiniteSet(T)
  BY ListingFinite, EventsFinite
<1>5. behind \in SUBSET Events /\ W \ M \in SUBSET Events /\ M \ W \in SUBSET Events
  BY <1>3
<1>6. seen' = [seen EXCEPT
               !.stayed = seen.stayed \cap W,
               !.left = seen.left + Cardinality(M \ W),
               !.behind = seen.behind + Cardinality(behind),
               !.uncounted = IF query.pc = "page"
                               THEN seen.uncounted + Cardinality(W \ M)
                               ELSE seen.uncounted]
  BY <1>1, CommitRecords
<1> HIDE DEF behind
<1>7. /\ seen' \in [listed : [Events -> Nat], stayed : SUBSET Events, start : Nat,
                    left : Nat, behind : Nat, uncounted : Nat]
      /\ seen'.stayed = seen.stayed \cap W
      /\ seen'.listed = seen.listed /\ seen'.start = seen.start
      /\ seen'.left = seen.left + Cardinality(M \ W)
      /\ seen'.behind = seen.behind + Cardinality(behind)
      /\ query.pc = "page" => seen'.uncounted = seen.uncounted + Cardinality(W \ M)
  <2> DEFINE left == seen.left + Cardinality(M \ W)
             after == seen.behind + Cardinality(behind)
             uncounted == IF query.pc = "page"
                            THEN seen.uncounted + Cardinality(W \ M) ELSE seen.uncounted
             stayed == seen.stayed \cap W
  <2>1. left \in Nat /\ after \in Nat /\ uncounted \in Nat /\ stayed \in SUBSET Events
    BY <1>1, <1>4, <1>5, <1>3 DEF TypeOK
  <2>2. query.pc = "page" => uncounted = seen.uncounted + Cardinality(W \ M)
    OBVIOUS
  <2>3. seen' = [seen EXCEPT !.stayed = stayed, !.left = left, !.behind = after,
                             !.uncounted = uncounted]
    BY <1>6
  <2> HIDE DEF left, after, uncounted, stayed
  <2>4. /\ seen' \in [listed : [Events -> Nat], stayed : SUBSET Events, start : Nat,
                      left : Nat, behind : Nat, uncounted : Nat]
        /\ seen'.stayed = stayed /\ seen'.listed = seen.listed
        /\ seen'.start = seen.start /\ seen'.left = left /\ seen'.behind = after
        /\ seen'.uncounted = uncounted
    BY <1>1, <2>1, <2>3 DEF TypeOK
  <2> QED
    BY <2>2, <2>4 DEF left, after, stayed
<1>8. /\ seen.start \in Nat /\ seen.left \in Nat /\ seen.behind \in Nat
      /\ seen.uncounted \in Nat
  BY <1>1 DEF TypeOK
<1>9. /\ OutOfReach = {e \in S : Place(L, M, e) < query.offset}
      /\ SeenAgain = {e \in M : e \in H /\ Place(L, M, e) >= query.offset}
      /\ Cardinality(OutOfReach) \in Nat /\ Cardinality(SeenAgain) \in Nat
  BY <1>1, ByPlaces
<1>10. /\ OutOfReach' = {e \in S \cap W : Place(L, W, e) < query.offset}
       /\ SeenAgain' = {e \in W : e \in H /\ Place(L, W, e) >= query.offset}
  <2>1. \A e : Position(query, rows', e) = Place(L, W, e)
    BY <1>2, PositionIsPlace DEF Listing
  <2> QED
    BY <1>2, <1>3, <1>7, <2>1 DEF OutOfReach, SeenAgain
<1>11. OutOfReach' \in SUBSET Events /\ SeenAgain' \in SUBSET Events
  BY <1>3, <1>10
<1>12. \/ W = M
       \/ x \notin M /\ W = M \cup {x}
       \/ x \notin W /\ M = W \cup {x}
  BY CommitMovesOne
<1> HIDE DEF M, W
<1>13. Cardinality(OutOfReach') <= seen'.start + seen'.left
  <2>1. Cardinality(OutOfReach) <= seen.start + seen.left
    BY DEF IInv, Safe, LossIsExplained
  <2>2. CASE W = M
    <3>1. OutOfReach' = OutOfReach
      BY <1>3, <1>9, <1>10, <2>2
    <3> QED
      BY <1>4, <1>5, <1>7, <1>8, <1>9, <2>1, <3>1
  <2>3. CASE x \notin M /\ W = M \cup {x}
    <3>1. \A e \in S : Place(L, M, e) <= Place(L, W, e)
      BY <1>3, <2>3, EnteringMovesNoneUp
    <3>2. \A e \in S : Place(L, M, e) \in Nat /\ Place(L, W, e) \in Nat
      BY <1>3, PlaceType
    <3>3. OutOfReach' \subseteq OutOfReach /\ IsFiniteSet(OutOfReach)
      BY <1>1, <1>2, <1>4, <1>9, <1>10, <3>1, <3>2, ByPlaces
    <3>4. Cardinality(OutOfReach') <= Cardinality(OutOfReach)
      BY <3>3, FS_Subset
    <3> QED
      BY <1>4, <1>5, <1>7, <1>8, <1>9, <1>11, <2>1, <3>4
  <2>4. CASE x \notin W /\ M = W \cup {x}
    <3>1. Cardinality(OutOfReach') <= Cardinality(OutOfReach) + 1
      <4>1. /\ W \in SUBSET Events /\ x \in Events \ W
            /\ S \in SUBSET (W \cup {x}) /\ query.offset \in Nat
        BY <1>2, <1>3, <2>4
      <4>2. \A e : e \in OutOfReach <=> e \in S /\ Place(L, W \cup {x}, e) < query.offset
        BY <1>9, <2>4
      <4>3. \A e : e \in OutOfReach' <=> e \in S \cap W /\ Place(L, W, e) < query.offset
        BY <1>10
      <4> HIDE DEF S, L
      <4> QED
        BY <4>1, <4>2, <4>3, LeavingMovesOne
    <3>2. M \ W = {x}
      BY <2>4
    <3>3. Cardinality(M \ W) = 1
      BY <3>2, FS_Singleton
    <3> QED
      BY <1>4, <1>5, <1>7, <1>8, <1>9, <1>11, <2>1, <3>1, <3>3
  <2> QED
    BY <1>12, <2>2, <2>3, <2>4
<1>14. query.pc = "page" => Cardinality(W) <= query.total + seen'.uncounted
  <2> SUFFICES ASSUME query.pc = "page"
               PROVE  Cardinality(W) <= query.total + seen'.uncounted
    OBVIOUS
  <2>1. Cardinality(M) <= query.total + seen.uncounted
    BY DEF IInv, Safe, CountIsExplained, M
  <2>2. W \subseteq M \cup (W \ M)
    OBVIOUS
  <2>3. /\ IsFiniteSet(M \cup (W \ M))
        /\ Cardinality(M \cup (W \ M)) = Cardinality(M) + Cardinality(W \ M)
             - Cardinality(M \cap (W \ M))
    BY <1>4, <1>5, FS_Union
  <2>4. Cardinality(W) <= Cardinality(M \cup (W \ M))
    BY <2>2, <2>3, FS_Subset
  <2>5. Cardinality(M \cap (W \ M)) = 0
    <3>1. M \cap (W \ M) = {}
      OBVIOUS
    <3> QED
      BY <3>1, FS_EmptySet
  <2> QED
    BY <1>2, <1>3, <1>4, <1>5, <1>7, <1>8, <2>1, <2>3, <2>4, <2>5
<1>15. Repeats' = Repeats
  BY <1>7 DEF Repeats
<1>16. Cardinality(Repeats) + Cardinality(SeenAgain') <= seen'.behind
  <2>1. /\ Cardinality(Repeats) + Cardinality(SeenAgain) <= seen.behind
        /\ Cardinality(Repeats) \in Nat
    BY FS_CardinalityType DEF IInv, Safe, RepetitionIsExplained
  <2>2. CASE W = M
    <3>1. SeenAgain' = SeenAgain
      BY <1>9, <1>10, <2>2
    <3> QED
      BY <1>4, <1>5, <1>7, <1>8, <1>9, <2>1, <3>1
  <2>3. CASE x \notin M /\ W = M \cup {x}
    <3>1. /\ Cardinality(SeenAgain') <= Cardinality(SeenAgain) + 1
          /\ (\A f \in H : x # f /\ ~Before(L, x, f))
               => Cardinality(SeenAgain') <= Cardinality(SeenAgain)
      <4>1. /\ M \in SUBSET Events /\ x \in Events \ M
            /\ H \in SUBSET Events /\ query.offset \in Nat
        BY <1>2, <1>3, <2>3
      <4>2. \A e : e \in SeenAgain <=> e \in M \cap H /\ Place(L, M, e) >= query.offset
        BY <1>9
      <4>3. \A e : e \in SeenAgain' <=> /\ e \in (M \cup {x}) \cap H
                                        /\ Place(L, M \cup {x}, e) >= query.offset
        BY <1>10, <2>3
      <4> HIDE DEF H, L
      <4> QED
        BY <4>1, <4>2, <4>3, EnteringMovesOne
    <3>2. CASE \A f \in H : x # f /\ ~Before(L, x, f)
      BY <1>4, <1>5, <1>7, <1>8, <1>9, <1>11, <2>1, <3>1, <3>2
    <3>3. CASE \E f \in H : x = f \/ Before(L, x, f)
      <4>1. behind = {x}
        BY <1>2, <2>3, <3>3, ReviewQueueAssumption DEF behind, Before, Events
      <4>2. Cardinality(behind) = 1
        BY <4>1, FS_Singleton
      <4> QED
        BY <1>4, <1>7, <1>8, <1>9, <1>11, <2>1, <3>1, <4>2
    <3> QED
      BY <3>2, <3>3
  <2>4. CASE x \notin W /\ M = W \cup {x}
    <3>1. \A e \in W : Place(L, W, e) <= Place(L, M, e)
      BY <1>3, <2>4, EnteringMovesNoneUp
    <3>2. \A e \in W : Place(L, M, e) \in Nat /\ Place(L, W, e) \in Nat
      BY <1>3, PlaceType
    <3>3. SeenAgain' \subseteq SeenAgain /\ IsFiniteSet(SeenAgain)
      <4>1. \A e \in W : Place(L, W, e) >= query.offset => Place(L, M, e) >= query.offset
        BY <1>2, <3>1, <3>2
      <4>2. SeenAgain' \subseteq SeenAgain
        BY <1>9, <1>10, <2>4, <4>1
      <4> QED
        BY <1>1, <1>4, <4>2, ByPlaces
    <3>4. Cardinality(SeenAgain') <= Cardinality(SeenAgain)
      BY <3>3, FS_Subset
    <3> QED
      BY <1>4, <1>5, <1>7, <1>8, <1>9, <1>11, <2>1, <3>4
  <2> QED
    BY <1>12, <2>2, <2>3, <2>4
<1>17. IsFiniteSet(Repeats) /\ Cardinality(Repeats) \in Nat
  BY FS_CardinalityType DEF IInv, Safe, RepetitionIsExplained
<1>18. Cardinality(Repeats) <= seen'.behind
  BY <1>4, <1>7, <1>11, <1>16, <1>17
<1>19. NothingBefore' /\ SkipsAreExplained'
  BY <1>2 DEF NothingBefore, SkipsAreExplained, Reading
<1> QED
  BY <1>2, <1>7, <1>13, <1>14, <1>15, <1>16, <1>17, <1>18, <1>19
  DEF SafeToRead, ReadersList, StayedAreListed, LossIsExplained, CountIsExplained,
      RepetitionIsExplained, W

LEMMA CommitSafe ==
  ASSUME IInv, NEW x \in Events, Commit(x)
  PROVE  SafeToRead'
BY CommitUnread, CommitRead

----------------------------------------------------------------------------
(* The events of the page that is being read.                              *)
Window == {e \in Listing : /\ Position(query, rows, e) >= query.offset
                           /\ Position(query, rows, e) < query.offset + query.limit}

(***************************************************************************)
(* A page repeats the events of its window that were listed before.        *)
(***************************************************************************)
LEMMA PageRepeats ==
  ASSUME TypeOK, IsFiniteSet(Repeats),
         seen'.listed = [e \in Events |->
           IF e \in Window THEN seen.listed[e] + 1 ELSE seen.listed[e]]
  PROVE  /\ IsFiniteSet(Repeats')
         /\ Cardinality(Repeats')
              <= Cardinality(Repeats) + Cardinality(SeenAgain \cap Window)
<1> DEFINE A == SeenAgain \cap Window
           added == {<<e, seen.listed[e] + 1>> : e \in A}
           first == [p \in added |-> p[1]]
<1>1. A \in SUBSET Events /\ \A e \in A : seen.listed[e] > 0
  BY ListingFinite DEF SeenAgain
<1>2. \A e \in Events : seen.listed[e] \in Nat
  BY DEF TypeOK
<1>3. \A e \in Window : seen.listed[e] > 0 => e \in A
  BY ListingFinite DEF Window, SeenAgain
<1>4. Repeats' \subseteq Repeats \cup added
  <2> SUFFICES ASSUME NEW e \in Events, NEW i \in 2..(seen'.listed[e])
               PROVE  <<e, i>> \in Repeats \cup added
    BY DEF Repeats
  <2>1. CASE i <= seen.listed[e]
    BY <1>2, <2>1 DEF Repeats
  <2>2. CASE ~(i <= seen.listed[e])
    <3>1. e \in Window /\ i = seen.listed[e] + 1 /\ seen.listed[e] > 0
      BY <1>2, <2>2
    <3> QED
      BY <1>3, <3>1
  <2> QED
    BY <2>1, <2>2
<1>5. IsFiniteSet(A) /\ Cardinality(A) \in Nat
  BY <1>1, EventsFinite
<1>6. first \in Injection(added, A)
  BY DEF Injection, IsInjective
<1>7. IsFiniteSet(added) /\ Cardinality(added) <= Cardinality(A)
  BY <1>5, <1>6, FS_Injection
<1> HIDE DEF added, A
<1>8. /\ IsFiniteSet(Repeats \cup added)
      /\ Cardinality(Repeats \cup added) =
           Cardinality(Repeats) + Cardinality(added) - Cardinality(Repeats \cap added)
  BY <1>7, FS_Union
<1>9. IsFiniteSet(Repeats') /\ Cardinality(Repeats') <= Cardinality(Repeats \cup added)
  BY <1>4, <1>8, FS_Subset
<1>10. IsFiniteSet(Repeats \cap added)
  BY FS_Intersection
<1>11. /\ Cardinality(Repeats) \in Nat /\ Cardinality(Repeats') \in Nat
       /\ Cardinality(added) \in Nat /\ Cardinality(Repeats \cap added) \in Nat
  BY <1>7, <1>9, <1>10, FS_CardinalityType
<1> QED
  BY <1>5, <1>7, <1>8, <1>9, <1>11 DEF A

(***************************************************************************)
(* A page explains what it leaves out and what it shows again.             *)
(***************************************************************************)
LEMMA SliceSafe ==
  ASSUME IInv, Slice
  PROVE  IInv'
<1> DEFINE L == query.listing
           M == Listing
           P(e) == Place(L, M, e)
<1>1. TypeOK /\ query.pc = "page" /\ Reading /\ query.pc # "idle"
  BY DEF IInv, Slice, Reading
<1>2. /\ query.offset \in Nat /\ query.limit \in Nat /\ query.total \in 0..N /\ N \in Nat
      /\ L \in {"review", "low"} /\ query.total \in Nat
      /\ query.limit \in (1..MAX_PAGE_SIZE) \cup {DEFAULT_PAGE_SIZE}
  BY <1>1, ReviewQueueAssumption DEF IInv, Safe, ReadersList, TypeOK
<1>3. \/ /\ query.offset + query.limit < query.total
         /\ query' = [query EXCEPT !.pc = "count", !.offset = query.offset + query.limit]
      \/ /\ ~(query.offset + query.limit < query.total)
         /\ query' = [query EXCEPT !.pc = "done"]
  BY DEF Slice, NextOffset
<1>4. seen' = [seen EXCEPT !.listed = [e \in Events |->
         IF e \in Window THEN seen.listed[e] + 1 ELSE seen.listed[e]]]
  BY DEF Slice, Window, Listing
<1>5. rows' = rows /\ gates' = gates /\ opened' = opened /\ changes' = changes
  BY DEF Slice
<1>6. /\ seen'.listed = [e \in Events |->
           IF e \in Window THEN seen.listed[e] + 1 ELSE seen.listed[e]]
      /\ seen'.stayed = seen.stayed /\ seen'.start = seen.start /\ seen'.left = seen.left
      /\ seen'.behind = seen.behind /\ seen'.uncounted = seen.uncounted
      /\ seen' \in [listed : [Events -> Nat], stayed : SUBSET Events, start : Nat,
                    left : Nat, behind : Nat, uncounted : Nat]
  BY <1>1, <1>4 DEF TypeOK
<1>7. /\ seen.start \in Nat /\ seen.left \in Nat /\ seen.behind \in Nat
      /\ seen.uncounted \in Nat /\ \A e \in Events : seen.listed[e] \in Nat
  BY <1>1 DEF TypeOK
<1>8. TypeOK'
  <2> DEFINE Q == [pc : {"idle", "refused", "count", "page", "done"},
                   listing : {"review", "low", None}, threshold : Nat,
                   vendor : DOMAIN Folded \cup {None},
                   limit : Nat, offset : Nat, total : 0..N]
  <2>1. query.offset + query.limit \in Nat /\ query \in Q
    BY <1>1, <1>2 DEF TypeOK
  <2>2. query' \in Q /\ query'.limit = query.limit
    BY <1>3, <2>1
  <2> HIDE DEF Q
  <2> QED
    BY <1>1, <1>2, <1>5, <1>6, <2>2 DEF TypeOK, Reading, Q
<1>9. /\ query'.listing = L /\ query'.vendor = query.vendor
      /\ query'.threshold = query.threshold
  BY <1>1, <1>3 DEF TypeOK
<1>10. Listing' = M
  BY <1>5, <1>9 DEF Listing, Members, Selects
<1>11. /\ M \in SUBSET Events /\ IsFiniteSet(M) /\ Cardinality(M) \in Nat
       /\ seen.stayed \subseteq M /\ Window \in SUBSET M
       /\ \A e : P(e) \in Nat
  BY <1>1, ListingFinite, PlaceType DEF IInv, Safe, StayedAreListed, Window
<1>12. Window = {e \in M : P(e) >= query.offset /\ P(e) < query.offset + query.limit}
  BY PositionIsPlace DEF Window, Listing
<1>13. /\ \A e : e \in OutOfReach <=> /\ e \in seen.stayed /\ seen.listed[e] = 0
                                      /\ P(e) < query.offset
       /\ \A e : e \in SeenAgain <=> /\ e \in M /\ seen.listed[e] > 0
                                     /\ P(e) >= query.offset
       /\ OutOfReach \in SUBSET Events /\ SeenAgain \in SUBSET Events
  BY <1>1, <1>11, ByPlaces
<1>14. /\ \A e : e \in OutOfReach' <=> /\ e \in seen.stayed /\ seen'.listed[e] = 0
                                       /\ P(e) < query'.offset
       /\ \A e : e \in SeenAgain' <=> /\ e \in M /\ seen'.listed[e] > 0
                                      /\ P(e) >= query'.offset
  <2>1. \A e : Position(query, rows, e)' = P(e)
    BY <1>9, <1>10, PositionIsPlace DEF Position, Place, Ahead, Listing
  <2> QED
    BY <1>6, <1>10, <2>1 DEF OutOfReach, SeenAgain
<1>15. IsFiniteSet(OutOfReach) /\ IsFiniteSet(SeenAgain)
       /\ Cardinality(OutOfReach) \in Nat /\ Cardinality(SeenAgain) \in Nat
  BY <1>13, EventsFinite
<1>16. /\ Cardinality(OutOfReach) <= seen.start + seen.left
       /\ Cardinality(M) <= query.total + seen.uncounted
       /\ IsFiniteSet(Repeats)
       /\ Cardinality(Repeats) + Cardinality(SeenAgain) <= seen.behind
  BY <1>1 DEF IInv, Safe, LossIsExplained, CountIsExplained, RepetitionIsExplained
<1> HIDE DEF P, M
<1>17. /\ IsFiniteSet(Repeats')
       /\ Cardinality(Repeats')
            <= Cardinality(Repeats) + Cardinality(SeenAgain \cap Window)
  BY <1>1, <1>6, <1>16, PageRepeats
<1>18. /\ Cardinality(SeenAgain \ Window) \in Nat /\ Cardinality(SeenAgain \cap Window) \in Nat
       /\ IsFiniteSet(SeenAgain \ Window)
       /\ Cardinality(SeenAgain \ Window)
            = Cardinality(SeenAgain) - Cardinality(SeenAgain \cap Window)
       /\ Cardinality(Repeats) \in Nat /\ Cardinality(Repeats') \in Nat
  BY <1>13, <1>15, <1>16, <1>17, EventsFinite, FS_Difference, FS_CardinalityType
<1>19. Cardinality(Repeats') <= seen'.behind
  BY <1>6, <1>7, <1>15, <1>16, <1>17, <1>18
<1>20. RowsExist' /\ GatesFollowChanges'
  BY <1>5 DEF IInv, Safe, RowsExist, GatesFollowChanges
<1>21. CASE /\ query.offset + query.limit < query.total
            /\ query' = [query EXCEPT !.pc = "count", !.offset = query.offset + query.limit]
  <2>1. query'.pc = "count" /\ query'.offset = query.offset + query.limit
    BY <1>1, <1>21 DEF TypeOK
  <2>2. OutOfReach' \subseteq OutOfReach
    <3> SUFFICES ASSUME NEW e \in OutOfReach' PROVE e \in OutOfReach
      OBVIOUS
    <3>1. e \in seen.stayed /\ e \in M /\ e \in Events /\ seen'.listed[e] = 0
          /\ P(e) < query.offset + query.limit
      BY <1>11, <1>14, <2>1
    <3>2. e \notin Window /\ seen.listed[e] = 0
      BY <1>6, <1>7, <3>1
    <3> QED
      BY <1>2, <1>11, <1>12, <1>13, <3>1, <3>2
  <2>3. Cardinality(OutOfReach') <= seen'.start + seen'.left
    <3>1. /\ Cardinality(OutOfReach') <= Cardinality(OutOfReach)
          /\ IsFiniteSet(OutOfReach')
      BY <1>15, <2>2, FS_Subset
    <3> QED
      BY <1>6, <1>7, <1>15, <1>16, <3>1, FS_CardinalityType
  <2>4. SeenAgain' \subseteq SeenAgain \ Window
    <3> SUFFICES ASSUME NEW e \in SeenAgain' PROVE e \in SeenAgain \ Window
      OBVIOUS
    <3>1. e \in M /\ e \in Events /\ seen'.listed[e] > 0
          /\ P(e) >= query.offset + query.limit
      BY <1>11, <1>14, <2>1
    <3>2. e \notin Window /\ P(e) >= query.offset
      BY <1>2, <1>11, <1>12, <3>1
    <3> QED
      BY <1>6, <1>13, <3>1, <3>2
  <2>5. Cardinality(Repeats') + Cardinality(SeenAgain') <= seen'.behind
    <3>1. Cardinality(SeenAgain') <= Cardinality(SeenAgain \ Window)
          /\ IsFiniteSet(SeenAgain')
      BY <1>18, <2>4, FS_Subset
    <3>2. Cardinality(SeenAgain') \in Nat
      BY <3>1, FS_CardinalityType
    <3> QED
      BY <1>6, <1>7, <1>15, <1>16, <1>17, <1>18, <3>1, <3>2
  <2>6. StayedAreListed' /\ ReadersList'
    BY <1>2, <1>6, <1>9, <1>10, <1>11 DEF StayedAreListed, ReadersList, M
  <2> QED
    BY <1>8, <1>17, <1>19, <1>20, <2>1, <2>3, <2>5, <2>6
    DEF IInv, Safe, NothingBefore, LossIsExplained, CountIsExplained,
        RepetitionIsExplained, SkipsAreExplained
<1>22. CASE /\ ~(query.offset + query.limit < query.total)
            /\ query' = [query EXCEPT !.pc = "done"]
  <2> DEFINE missed == {e \in seen'.stayed : seen'.listed[e] = 0}
             after == {e \in M : P(e) >= query.offset + query.limit}
             end == query.offset + query.limit
  <2>1. query'.pc = "done" /\ ~Reading'
    BY <1>1, <1>22 DEF TypeOK, Reading
  <2>2. missed \subseteq OutOfReach \cup after
    <3> SUFFICES ASSUME NEW e \in missed PROVE e \in OutOfReach \cup after
      OBVIOUS
    <3>1. e \in seen.stayed /\ e \in M /\ e \in Events /\ seen'.listed[e] = 0
      BY <1>6, <1>11
    <3>2. e \notin Window /\ seen.listed[e] = 0
      BY <1>6, <1>7, <3>1
    <3> QED
      BY <1>2, <1>11, <1>12, <1>13, <3>1, <3>2
  <2>3. after \in SUBSET M /\ after \in SUBSET Events /\ end \in Nat /\ query.total <= end
    BY <1>2, <1>11, <1>22
  <2>4. \A e \in after : P(e) \in end..(Cardinality(M) - 1)
    <3>1. \A e \in M : P(e) < Cardinality(M)
      BY <1>11, PlaceBelowCount DEF P
    <3> QED
      BY <1>11, <2>3, <3>1
  <2>5. Cardinality(after) <= IF end > Cardinality(M) - 1 THEN 0
                              ELSE (Cardinality(M) - 1) - end + 1
    <3> DEFINE last == Cardinality(M) - 1
    <3> HIDE DEF after, end
    <3>1. \A e \in after : Place(L, M, e) \in end..last
      BY <2>4 DEF P
    <3>2. last \in Int /\ end \in Int /\ M \in SUBSET Events /\ after \in SUBSET M
      BY <1>11, <2>3
    <3> HIDE DEF last, L
    <3>3. Cardinality(after) <= IF end > last THEN 0 ELSE last - end + 1
      BY <3>1, <3>2, PlacesCounted
    <3> QED
      BY <3>3 DEF last
  <2> HIDE DEF after, missed, end
  <2>6. Cardinality(after) <= seen.uncounted /\ Cardinality(after) \in Nat
    BY <1>2, <1>7, <1>11, <1>16, <2>3, <2>5, EventsFinite
  <2>7. Cardinality(missed) <= Cardinality(OutOfReach) + Cardinality(after)
        /\ Cardinality(missed) \in Nat
    <3>1. IsFiniteSet(OutOfReach) /\ IsFiniteSet(after)
      BY <1>15, <2>3, EventsFinite
    <3>2. /\ IsFiniteSet(OutOfReach \cup after)
          /\ Cardinality(OutOfReach \cup after) = Cardinality(OutOfReach)
               + Cardinality(after) - Cardinality(OutOfReach \cap after)
          /\ IsFiniteSet(OutOfReach \cap after)
      BY <3>1, FS_Union, FS_Intersection
    <3>3. IsFiniteSet(missed) /\ Cardinality(missed) <= Cardinality(OutOfReach \cup after)
      BY <2>2, <3>2, FS_Subset
    <3>4. Cardinality(OutOfReach \cap after) \in Nat /\ Cardinality(missed) \in Nat
      BY <3>2, <3>3, FS_CardinalityType
    <3> QED
      BY <1>15, <2>6, <3>2, <3>3, <3>4
  <2>8. SkipsAreExplained'
    <3>1. Cardinality(missed) <= seen'.start + seen'.left + seen'.uncounted
      BY <1>6, <1>7, <1>15, <1>16, <2>6, <2>7
    <3> QED
      BY <3>1 DEF SkipsAreExplained, missed
  <2> QED
    BY <1>8, <1>17, <1>19, <1>20, <2>1, <2>8
    DEF IInv, Safe, NothingBefore, LossIsExplained, CountIsExplained, ReadersList,
        RepetitionIsExplained, StayedAreListed
<1> QED
  BY <1>3, <1>21, <1>22

----------------------------------------------------------------------------
LEMMA InitSafe ==
  ASSUME Init
  PROVE  IInv
<1>1. rows \in [Events -> Row \cup {None}]
  <2>1. \A e \in Events : Settled(e) \subseteq Row
    BY ReviewQueueAssumption DEF Settled, Row
  <2> QED
    BY <2>1 DEF Init
<1>2. /\ query = Idle /\ query.pc = "idle" /\ ~Reading
      /\ query \in [pc : {"idle", "refused", "count", "page", "done"},
                    listing : {"review", "low", None}, threshold : Nat,
                    vendor : DOMAIN Folded \cup {None},
                    limit : Nat, offset : Nat, total : 0..N]
  BY ReviewQueueAssumption DEF Init, Idle, Reading
<1>3. /\ seen = Nothing /\ \A e \in Events : seen.listed[e] = 0
      /\ seen \in [listed : [Events -> Nat], stayed : SUBSET Events, start : Nat,
                   left : Nat, behind : Nat, uncounted : Nat]
      /\ seen.behind = 0
  BY DEF Init, Nothing
<1>4. TypeOK
  BY <1>1, <1>2, <1>3, ReviewQueueAssumption DEF Init, TypeOK
<1>5. Repeats = {}
  BY <1>3 DEF Repeats
<1>6. RepetitionIsExplained
  BY <1>2, <1>3, <1>5, FS_EmptySet DEF RepetitionIsExplained
<1> QED
  BY <1>2, <1>3, <1>4, <1>6
  DEF Init, IInv, Safe, RowsExist, GatesFollowChanges, NothingBefore, ReadersList,
      StayedAreListed, LossIsExplained, CountIsExplained, SkipsAreExplained

(***************************************************************************)
(* A commit of one row that keeps the workers' state in order.             *)
(***************************************************************************)
LEMMA WorkerSafe ==
  ASSUME IInv, NEW x \in Events, Commit(x),
         gates' \in [Events -> 0..MaxChanges],
         opened' \in Events \cup {None},
         changes' \in 0..MaxChanges,
         RowsExist', GatesFollowChanges'
  PROVE  IInv'
<1>1. SafeToRead'
  BY CommitSafe
<1>2. query' = query /\ rows' \in [Events -> Row \cup {None}]
  BY DEF Commit
<1>3. TypeOK'
  BY <1>1, <1>2 DEF IInv, TypeOK, SafeToRead, Reading
<1> QED
  BY <1>1, <1>3 DEF IInv, Safe, SafeToRead

LEMMA CreateForWebhookSafe ==
  ASSUME IInv, NEW e \in Events, CreateForWebhook(e)
  PROVE  IInv'
<1>1. PICK c \in Readings[e] :
        /\ rows' = [rows EXCEPT ![e] =
                      [confidence |-> c, held |-> FALSE, decision |-> None]]
        /\ gates' = [gates EXCEPT ![e] =
             IF Below(c, LOW_CONFIDENCE_THRESHOLD) THEN @ + 1 ELSE @]
  BY DEF CreateForWebhook
<1>2. /\ rows \in [Events -> Row \cup {None}] /\ gates \in [Events -> 0..MaxChanges]
      /\ opened \in Events \cup {None} /\ changes \in 0..MaxChanges
      /\ MaxChanges \in Nat /\ changes < MaxChanges /\ changes' = changes + 1
      /\ opened' = opened /\ query' = query /\ Observe
  BY ReviewQueueAssumption DEF IInv, TypeOK, CreateForWebhook
<1>3. [confidence |-> c, held |-> FALSE, decision |-> None] \in Row
  BY <1>1, ReviewQueueAssumption DEF Row
<1>4. Commit(e)
  BY <1>1, <1>2, <1>3 DEF Commit
<1>5. rows'[e] # None /\ \A f \in Events \ {e} : rows'[f] = rows[f]
  BY <1>1, <1>2, <1>3, ReviewQueueAssumption
<1>6. \A f \in Events : gates[f] \in Nat /\ gates[f] <= changes
  BY <1>2 DEF IInv, Safe, GatesFollowChanges
<1>7. \A f \in Events : gates'[f] \in {gates[f], gates[f] + 1}
                        /\ (f # e => gates'[f] = gates[f])
  BY <1>1, <1>2
<1>8. gates' \in [Events -> 0..MaxChanges] /\ GatesFollowChanges'
  <2>1. \A f \in Events : gates'[f] \in 0..MaxChanges /\ gates'[f] <= changes'
    BY <1>2, <1>6, <1>7
  <2> QED
    BY <1>1, <1>2, <2>1 DEF GatesFollowChanges
<1>9. RowsExist'
  BY <1>2, <1>5, <1>7 DEF IInv, Safe, RowsExist
<1> QED
  BY <1>2, <1>4, <1>8, <1>9, WorkerSafe

LEMMA HoldSafe ==
  ASSUME IInv, NEW e \in Events, Hold(e)
  PROVE  IInv'
<1>1. /\ rows \in [Events -> Row \cup {None}] /\ gates \in [Events -> 0..MaxChanges]
      /\ opened \in Events \cup {None} /\ changes \in 0..MaxChanges
      /\ gates[e] > 0 /\ gates' = [gates EXCEPT ![e] = @ - 1]
      /\ rows' = [rows EXCEPT ![e] = [rows[e] EXCEPT !.held = TRUE]]
      /\ changes' = changes /\ opened' = opened /\ query' = query /\ Observe
      /\ MaxChanges \in Nat
  BY ReviewQueueAssumption DEF IInv, TypeOK, Hold
<1>2. rows[e] \in Row
  BY <1>1 DEF IInv, Safe, RowsExist
<1>3. [rows[e] EXCEPT !.held = TRUE] \in Row
  BY <1>2 DEF Row
<1>4. Commit(e)
  BY <1>1, <1>3 DEF Commit
<1>5. rows'[e] # None /\ \A f \in Events \ {e} : rows'[f] = rows[f]
  BY <1>1, <1>3, ReviewQueueAssumption
<1>6. \A f \in Events : gates'[f] \in 0..MaxChanges /\ gates'[f] <= gates[f]
  BY <1>1
<1>7. gates' \in [Events -> 0..MaxChanges] /\ GatesFollowChanges'
  BY <1>1, <1>6 DEF IInv, Safe, GatesFollowChanges
<1>8. RowsExist'
  BY <1>1, <1>5, <1>6 DEF IInv, Safe, RowsExist
<1> QED
  BY <1>1, <1>4, <1>7, <1>8, WorkerSafe

LEMMA DecideSafe ==
  ASSUME IInv, NEW d \in Decisions, Decide(d)
  PROVE  IInv'
<1>1. /\ rows \in [Events -> Row \cup {None}] /\ gates \in [Events -> 0..MaxChanges]
      /\ opened \in Events /\ changes \in 0..MaxChanges
      /\ rows' = [rows EXCEPT ![opened] = [rows[opened] EXCEPT !.decision = d]]
      /\ gates' = gates /\ changes < MaxChanges /\ changes' = changes + 1
      /\ opened' = None /\ query' = query /\ Observe
      /\ MaxChanges \in Nat
  BY ReviewQueueAssumption DEF IInv, TypeOK, Decide
<1>2. rows[opened] \in Row
  BY <1>1 DEF IInv, Safe, RowsExist, Decide
<1>3. [rows[opened] EXCEPT !.decision = d] \in Row
  BY <1>2 DEF Row
<1>4. Commit(opened)
  BY <1>1, <1>3 DEF Commit
<1>5. rows'[opened] # None /\ \A f \in Events \ {opened} : rows'[f] = rows[f]
  BY <1>1, <1>3, ReviewQueueAssumption
<1>6. RowsExist' /\ GatesFollowChanges'
  BY <1>1, <1>5 DEF IInv, Safe, RowsExist, GatesFollowChanges
<1>7. changes' \in 0..MaxChanges
  BY <1>1
<1> QED
  BY <1>1, <1>4, <1>6, <1>7, WorkerSafe

(***************************************************************************)
(* Nothing that is shown to the client depends on a reviewer's page.       *)
(***************************************************************************)
LEMMA OpenReviewSafe ==
  ASSUME IInv, NEW e \in Events, OpenReview(e)
  PROVE  IInv'
<1>1. /\ opened' = e /\ rows[e] # None
      /\ rows' = rows /\ gates' = gates /\ changes' = changes /\ query' = query
      /\ seen' = seen
  BY DEF OpenReview
<1>2. /\ Listing' = Listing /\ OutOfReach' = OutOfReach /\ SeenAgain' = SeenAgain
      /\ Repeats' = Repeats
  BY <1>1 DEF Listing, OutOfReach, SeenAgain, Repeats, Members, Selects, Position
<1>3. TypeOK' /\ RowsExist'
  BY <1>1 DEF IInv, Safe, TypeOK, RowsExist, Reading
<1> QED
  BY <1>1, <1>2, <1>3
  DEF IInv, Safe, GatesFollowChanges, NothingBefore, ReadersList, StayedAreListed,
      LossIsExplained, CountIsExplained, RepetitionIsExplained, SkipsAreExplained,
      Reading

LEMMA StutterSafe ==
  ASSUME IInv, UNCHANGED vars
  PROVE  IInv'
<1>1. /\ Listing' = Listing /\ OutOfReach' = OutOfReach /\ SeenAgain' = SeenAgain
      /\ Repeats' = Repeats
  BY DEF vars, Listing, OutOfReach, SeenAgain, Repeats, Members, Selects, Position
<1> QED
  BY <1>1
  DEF vars, IInv, TypeOK, Safe, RowsExist, GatesFollowChanges, NothingBefore,
      ReadersList, StayedAreListed, LossIsExplained, CountIsExplained,
      RepetitionIsExplained, SkipsAreExplained, Reading

(***************************************************************************)
(* A parameter that is not refused is a number in its bounds.              *)
(***************************************************************************)
LEMMA ParamsAreBounded ==
  ASSUME NEW raw \in Int \cup {None, Bad}
  PROVE  /\ LET limit == IntParam(raw, DEFAULT_PAGE_SIZE, 1, MAX_PAGE_SIZE)
            IN  limit # Bad => limit \in (1..MAX_PAGE_SIZE) \cup {DEFAULT_PAGE_SIZE}
         /\ LET offset == IntParam(raw, 0, 0, None)
            IN  offset # Bad => offset \in Nat
         /\ LET threshold == ThresholdParam(raw)
            IN  threshold # Bad => threshold \in Nat
BY ReviewQueueAssumption DEF IntParam, ThresholdParam

(***************************************************************************)
(* At the first request nothing is lost but what is before its offset.     *)
(***************************************************************************)
LEMMA GetSafe ==
  ASSUME IInv, NEW request \in Requests, Get(request)
  PROVE  IInv'
<1> DEFINE threshold == IF request.listing = "low"
                          THEN ThresholdParam(request.threshold) ELSE 0
           limit == IntParam(request.limit, DEFAULT_PAGE_SIZE, 1, MAX_PAGE_SIZE)
           offset == IntParam(request.offset, 0, 0, None)
<1>1. /\ query.pc = "idle" /\ query = Idle /\ seen = Nothing
      /\ rows' = rows /\ gates' = gates /\ opened' = opened /\ changes' = changes
  BY DEF IInv, Safe, NothingBefore, Get
<1>2. RowsExist' /\ GatesFollowChanges'
  BY <1>1 DEF IInv, Safe, RowsExist, GatesFollowChanges
<1>3. CASE Bad \in {threshold, limit, offset}
  <2>1. query' = [query EXCEPT !.pc = "refused"] /\ seen' = seen
    BY <1>3 DEF Get
  <2>2. query'.pc = "refused" /\ TypeOK'
    BY <1>1, <2>1 DEF IInv, TypeOK, Reading
  <2>3. Repeats' = Repeats /\ ~Reading'
    BY <2>1, <2>2 DEF Repeats, Reading
  <2> QED
    BY <1>2, <2>1, <2>2, <2>3
    DEF IInv, Safe, NothingBefore, ReadersList, StayedAreListed, LossIsExplained,
        CountIsExplained, RepetitionIsExplained, SkipsAreExplained
<1>4. CASE Bad \notin {threshold, limit, offset}
  <2>1. /\ query' = [query EXCEPT
             !.pc = "count", !.listing = request.listing,
             !.threshold = threshold, !.vendor = request.vendor,
             !.limit = limit, !.offset = offset]
        /\ seen' = [seen EXCEPT !.start = offset, !.stayed = Listing']
    BY <1>1, <1>4 DEF Get, Listing, Members, Selects
  <2>2. /\ limit \in (1..MAX_PAGE_SIZE) \cup {DEFAULT_PAGE_SIZE}
        /\ offset \in Nat /\ threshold \in Nat
    BY <1>4, ParamsAreBounded, ReviewQueueAssumption
  <2>3. /\ request.listing \in {"review", "low"}
        /\ request.vendor \in DOMAIN Folded \cup {None}
    BY ReviewQueueAssumption
  <2> HIDE DEF threshold, limit, offset
  <2>4. limit \in Nat
    BY <2>2, ReviewQueueAssumption
  <2>5. /\ query' \in [pc : {"idle", "refused", "count", "page", "done"},
                       listing : {"review", "low", None}, threshold : Nat,
                       vendor : DOMAIN Folded \cup {None},
                       limit : Nat, offset : Nat, total : 0..N]
        /\ query'.pc = "count" /\ query'.listing \in {"review", "low"}
        /\ query'.limit = limit /\ query'.offset = offset
    BY <2>1, <2>2, <2>3, <2>4 DEF IInv, TypeOK
  <2>6. /\ seen' \in [listed : [Events -> Nat], stayed : SUBSET Events, start : Nat,
                      left : Nat, behind : Nat, uncounted : Nat]
        /\ seen'.listed = [e \in Events |-> 0] /\ seen'.start = offset
        /\ seen'.stayed = Listing' /\ seen'.left = 0 /\ seen'.behind = 0
    BY <1>1, <2>1, <2>2, ListingFinite DEF Nothing
  <2>7. TypeOK'
    BY <1>1, <2>2, <2>5, <2>6 DEF IInv, TypeOK
  <2>8. Repeats' = {} /\ SeenAgain' = {}
    BY <2>6, ListingFinite DEF Repeats, SeenAgain
  <2>9. RepetitionIsExplained'
    BY <2>6, <2>8, FS_EmptySet DEF RepetitionIsExplained
  <2>10. Cardinality(OutOfReach') <= offset
    <3> DEFINE L == query'.listing
               M == Listing'
               S == OutOfReach'
               last == offset - 1
    <3>1. M \in SUBSET Events /\ last \in Int /\ 0 \in Int
      BY <2>2, ListingFinite
    <3>2. \A e : Position(query, rows, e)' = Place(L, M, e)
      BY PositionIsPlace DEF Position, Place, Ahead, Listing
    <3>3. S = {e \in M : Place(L, M, e) < offset}
      BY <2>5, <2>6, <3>1, <3>2 DEF OutOfReach
    <3>4. S \in SUBSET M /\ \A e \in S : Place(L, M, e) \in 0..last
      BY <2>2, <3>1, <3>3, PlaceType
    <3> HIDE DEF L, M, S, last
    <3>5. Cardinality(S) <= IF 0 > last THEN 0 ELSE last - 0 + 1
      BY <3>1, <3>4, PlacesCounted
    <3>6. Cardinality(S) \in Nat
      BY <3>1, <3>4, EventsFinite
    <3> QED
      BY <2>2, <3>5, <3>6 DEF last, S
  <2> QED
    BY <1>2, <2>2, <2>5, <2>6, <2>7, <2>9, <2>10
    DEF IInv, Safe, NothingBefore, ReadersList, StayedAreListed, LossIsExplained,
        CountIsExplained, SkipsAreExplained
<1> QED
  BY <1>3, <1>4

(***************************************************************************)
(* Between COUNT and the slice, only what enters is not counted.           *)
(***************************************************************************)
LEMMA CountSafe ==
  ASSUME IInv, Count
  PROVE  IInv'
<1>1. /\ query.pc = "count" /\ Reading /\ TypeOK
      /\ query' = [query EXCEPT !.pc = "page", !.total = Cardinality(Listing)]
      /\ seen' = [seen EXCEPT !.uncounted = 0]
      /\ rows' = rows /\ gates' = gates /\ opened' = opened /\ changes' = changes
  BY DEF IInv, Count, Listing, Reading
<1>2. Cardinality(Listing) \in 0..N /\ Cardinality(Listing) \in Nat
  BY ListingFinite, EventsFinite, ReviewQueueAssumption
<1>3. /\ query' \in [pc : {"idle", "refused", "count", "page", "done"},
                     listing : {"review", "low", None}, threshold : Nat,
                     vendor : DOMAIN Folded \cup {None},
                     limit : Nat, offset : Nat, total : 0..N]
      /\ query'.pc = "page" /\ query'.total = Cardinality(Listing)
      /\ query'.listing = query.listing /\ query'.vendor = query.vendor
      /\ query'.threshold = query.threshold /\ query'.limit = query.limit
      /\ query'.offset = query.offset
  BY <1>1, <1>2 DEF TypeOK
<1>4. /\ seen' \in [listed : [Events -> Nat], stayed : SUBSET Events, start : Nat,
                    left : Nat, behind : Nat, uncounted : Nat]
      /\ seen'.listed = seen.listed /\ seen'.stayed = seen.stayed
      /\ seen'.start = seen.start /\ seen'.left = seen.left
      /\ seen'.behind = seen.behind /\ seen'.uncounted = 0
  BY <1>1 DEF TypeOK
<1>5. Listing' = Listing
  BY <1>1, <1>3 DEF Listing, Members, Selects
<1>6. \A e : Position(query, rows, e)' = Position(query, rows, e)
  BY <1>3, <1>5 DEF Position, Listing
<1>7. /\ OutOfReach' = OutOfReach /\ SeenAgain' = SeenAgain /\ Repeats' = Repeats
      /\ Reading'
  BY <1>3, <1>4, <1>5, <1>6 DEF OutOfReach, SeenAgain, Repeats, Reading
<1>8. TypeOK'
  BY <1>1, <1>3, <1>4 DEF TypeOK
<1> QED
  BY <1>1, <1>2, <1>3, <1>4, <1>5, <1>7, <1>8
  DEF IInv, Safe, RowsExist, GatesFollowChanges, NothingBefore, ReadersList,
      StayedAreListed, LossIsExplained, CountIsExplained, RepetitionIsExplained,
      SkipsAreExplained

----------------------------------------------------------------------------
(***************************************************************************)
(* Every step of a worker, a reviewer or the client keeps the accounts of  *)
(* what the client lost and what it is shown again.                        *)
(***************************************************************************)
THEOREM ReviewQueueInvariant == Spec => []IInv
<1>1. Init => IInv
  BY InitSafe
<1>2. IInv /\ [Next]_vars => IInv'
  <2> SUFFICES ASSUME IInv, [Next]_vars PROVE IInv'
    OBVIOUS
  <2>1. ASSUME NEW e \in Events, CreateForWebhook(e) \/ Hold(e) \/ OpenReview(e)
        PROVE  IInv'
    BY <2>1, CreateForWebhookSafe, HoldSafe, OpenReviewSafe
  <2>2. ASSUME NEW d \in Decisions, Decide(d) PROVE IInv'
    BY <2>2, DecideSafe
  <2>3. ASSUME NEW request \in Requests, Get(request) PROVE IInv'
    BY <2>3, GetSafe
  <2>4. CASE Count
    BY <2>4, CountSafe
  <2>5. CASE Slice
    BY <2>5, SliceSafe
  <2>6. CASE UNCHANGED vars
    BY <2>6, StutterSafe
  <2> QED
    BY <2>1, <2>2, <2>3, <2>4, <2>5, <2>6 DEF Next
<1> QED
  BY <1>1, <1>2, PTL DEF Spec

(***************************************************************************)
(* A listing is never read with a page size or an offset that paginate     *)
(* would refuse.                                                           *)
(***************************************************************************)
THEOREM ReviewQueueTypeCorrect == Spec => []TypeOK
<1>1. IInv => TypeOK
  BY DEF IInv
<1> QED
  BY <1>1, ReviewQueueInvariant, PTL

(***************************************************************************)
(* A client that follows next_offset to the end misses no more than what   *)
(* left the listing meanwhile, and what came between COUNT and the slice,  *)
(* explains.                                                               *)
(***************************************************************************)
THEOREM PagingLosesLittle == Spec => []SkipsAreExplained
<1>1. IInv => SkipsAreExplained
  BY DEF IInv, Safe
<1> QED
  BY <1>1, ReviewQueueInvariant, PTL

(***************************************************************************)
(* It is shown an event again no more often than events entered behind it. *)
(***************************************************************************)
THEOREM PagingRepeatsLittle == Spec => []RepeatsAreExplained
<1>1. IInv => RepeatsAreExplained
  BY DEF IInv, Safe, RepetitionIsExplained, RepeatsAreExplained
<1> QED
  BY <1>1, ReviewQueueInvariant, PTL

----------------------------------------------------------------------------
(***************************************************************************)
(* Every set of naturals that is not empty has a least element.            *)
(***************************************************************************)
LEMMA LeastOfNaturals ==
  ASSUME NEW T \in SUBSET Nat, T # {}
  PROVE  \E m \in T : \A n \in T : m <= n
<1>1. IsWellFoundedOn(OpToRel(<, Nat), Nat)
  BY NatLessThanWellFounded
<1>2. PICK m \in T : \A n \in T : ~(<<n, m>> \in OpToRel(<, Nat))
  BY <1>1, WFMin
<1>3. \A n \in T : ~(n < m)
  BY <1>2 DEF OpToRel
<1> QED
  BY <1>3

LEMMA MinOfNaturals ==
  ASSUME NEW T \in SUBSET Nat, T # {}
  PROVE  Min(T) \in T /\ \A n \in T : Min(T) <= n
BY LeastOfNaturals DEF Min

(***************************************************************************)
(* One that is bounded has a greatest element.                             *)
(***************************************************************************)
LEMMA MaxOfNaturals ==
  ASSUME NEW T \in SUBSET Nat, T # {}, NEW b \in Nat, \A n \in T : n <= b
  PROVE  Max(T) \in T /\ \A n \in T : n <= Max(T)
<1> DEFINE bounds == {u \in Nat : \A n \in T : n <= u}
<1>1. PICK u \in bounds : \A v \in bounds : u <= v
  BY LeastOfNaturals
<1>2. u \in T
  <2> SUFFICES ASSUME u \notin T PROVE FALSE
    OBVIOUS
  <2>1. \A n \in T : n <= u - 1
    BY <1>1
  <2>2. PICK t \in T : TRUE
    OBVIOUS
  <2>3. u \in Nat /\ t \in Nat /\ t <= u - 1
    BY <1>1, <2>1
  <2>4. u - 1 \in Nat
    BY <2>3
  <2>5. u - 1 \in bounds
    BY <2>1, <2>4
  <2> QED
    BY <1>1, <2>3, <2>5
<1>3. u \in T /\ \A n \in T : u >= n
  BY <1>1, <1>2
<1>4. Max(T) \in T /\ \A n \in T : Max(T) >= n
  BY <1>3 DEF Max
<1> QED
  BY <1>4

(***************************************************************************)
(* The confidences in the table have an upper bound: were there a first    *)
(* event up to which they have none, there would be one up to the event    *)
(* before it.                                                              *)
(***************************************************************************)
LEMMA ConfidencesBounded ==
  ASSUME TypeOK
  PROVE  \E b \in Nat : \A e \in Events : rows[e] # None => rows[e].confidence <= b
<1> DEFINE Bound(n, b) == \A e \in Events : e <= n /\ rows[e] # None => rows[e].confidence <= b
           without == {n \in Nat : n <= N /\ ~\E b \in Nat : Bound(n, b)}
<1>1. N \in Nat /\ \A e \in Events : rows[e] # None => rows[e].confidence \in Nat
  BY ReviewQueueAssumption DEF TypeOK, Row
<1>2. without = {}
  <2> SUFFICES ASSUME without # {} PROVE FALSE
    OBVIOUS
  <2>1. PICK n \in without : \A m \in without : n <= m
    BY LeastOfNaturals
  <2>2. n # 0
    <3>1. Bound(0, 0)
      BY <1>1 DEF Events
    <3> QED
      BY <3>1, <2>1
  <2>3. n \in Nat /\ n <= N /\ n - 1 \in Nat /\ n - 1 <= N /\ n \in Events
    BY <1>1, <2>1, <2>2 DEF Events
  <2>4. PICK b \in Nat : Bound(n - 1, b)
    <3>1. n - 1 \notin without
      <4> HIDE DEF without
      <4> QED
        BY <2>1, <2>3
    <3> QED
      BY <2>3, <3>1
  <2> HIDE DEF without
  <2>5. \A e \in Events : e <= n => e = n \/ e <= n - 1
    BY <2>3 DEF Events
  <2>6. CASE rows[n] = None \/ rows[n].confidence <= b
    <3>1. Bound(n, b)
      BY <2>4, <2>6, <2>5
    <3> QED
      BY <2>1, <3>1 DEF without
  <2>7. CASE ~(rows[n] = None \/ rows[n].confidence <= b)
    <3>1. rows[n].confidence \in Nat /\ Bound(n, rows[n].confidence)
      <4>1. rows[n].confidence \in Nat /\ b < rows[n].confidence
        BY <1>1, <2>3, <2>7
      <4>2. ASSUME NEW e \in Events, e <= n, rows[e] # None
            PROVE  rows[e].confidence <= rows[n].confidence
        <5>1. rows[e].confidence \in Nat
          BY <1>1, <4>2
        <5>2. e = n \/ rows[e].confidence <= b
          BY <2>4, <2>5, <4>2
        <5> QED
          BY <4>1, <5>1, <5>2
      <4> QED
        BY <4>1, <4>2
    <3> QED
      BY <2>1, <3>1 DEF without
  <2> QED
    BY <2>6, <2>7
<1>3. PICK b \in Nat : Bound(N, b)
  BY <1>1, <1>2
<1> QED
  BY <1>1, <1>3 DEF Events

----------------------------------------------------------------------------
(***************************************************************************)
(* Rounding to thousandths: what it may add or take away.  With an odd     *)
(* grain nothing is halfway between two of them.                           *)
(***************************************************************************)
LEMMA DivisionBounds ==
  ASSUME NEW a \in Nat, NEW d \in Nat \ {0}
  PROVE  a \div d \in Nat /\ d * (a \div d) <= a /\ a < d * ((a \div d) + 1)
OBVIOUS

LEMMA ProductMonotone ==
  ASSUME NEW d \in Nat, NEW m \in Nat, NEW n \in Nat, m <= n
  PROVE  d * m \in Nat /\ d * n \in Nat /\ d * m <= d * n
OBVIOUS

LEMMA RoundBounds ==
  ASSUME NEW c \in Nat
  PROVE  /\ Round(c) \in Nat /\ Grain * Round(c) \in Nat
         /\ 2 * (Grain * Round(c)) <= 2 * c + Grain
         /\ 2 * c < 2 * (Grain * Round(c)) + Grain
<1> DEFINE d == 2 * Grain
           r == Round(c)
<1>1. Grain \in Nat /\ Grain # 0
  BY CalibrationAssumption
<1>2. d \in Nat \ {0} /\ 2 * c + Grain \in Nat
  BY <1>1
<1>3. r \in Nat /\ d * r <= 2 * c + Grain /\ 2 * c + Grain < d * (r + 1)
  BY <1>2, DivisionBounds DEF Round
<1> HIDE DEF r
<1>4. Grain * r \in Nat /\ d * r = 2 * (Grain * r) /\ d * (r + 1) = 2 * (Grain * r) + 2 * Grain
  BY <1>1, <1>3
<1> HIDE DEF d
<1> QED
  BY <1>1, <1>3, <1>4 DEF r

(***************************************************************************)
(* The confidences of the decided events of a vendor are bounded naturals. *)
(***************************************************************************)
LEMMA ConfidencesOfDecided ==
  ASSUME TypeOK, NEW v, NEW d \in Decisions
  PROVE  /\ Confidences(DecidedBy(v), d) \in SUBSET Nat
         /\ \E b \in Nat : \A c \in Confidences(DecidedBy(v), d) : c <= b
<1> DEFINE cs == UNION {Readings[e] : e \in Events}
           Those(c) == {e \in Events : /\ VendorOf[e] = v /\ rows[e] # None
                                       /\ rows[e].decision = d /\ rows[e].confidence = c}
<1>1. Confidences(DecidedBy(v), d) = {c \in cs : Cardinality(Those(c)) > 0}
  BY DEF Confidences, DecidedBy
<1>2. cs \in SUBSET Nat
  BY ReviewQueueAssumption
<1>3. ASSUME NEW c \in cs, Cardinality(Those(c)) > 0
      PROVE  \E e \in Events : rows[e] # None /\ rows[e].confidence = c
  <2>1. Those(c) # {}
    <3> HIDE DEF Those
    <3> QED
      BY <1>3, FS_EmptySet
  <2> QED
    BY <2>1
<1>4. PICK b \in Nat : \A e \in Events : rows[e] # None => rows[e].confidence <= b
  BY ConfidencesBounded
<1>5. \A c \in Confidences(DecidedBy(v), d) : c <= b
  BY <1>1, <1>3, <1>4
<1> QED
  BY <1>1, <1>2, <1>5

(***************************************************************************)
(* When the report suggests a threshold, by the extremes of the decisions. *)
(***************************************************************************)
LEMMA CalibrationCases ==
  ASSUME NEW v
  PROVE  LET approved == Confidences(DecidedBy(v), "APPROVE")
             rejected == Confidences(DecidedBy(v), "REJECT")
             apart == Separated({Round(Min(approved))},
                        IF rejected = {} THEN {} ELSE {Round(Max(rejected))})
         IN  CalibrationRow(v).suggested_threshold # None =>
               /\ approved # {} /\ apart
               /\ CalibrationRow(v).suggested_threshold = Round(Min(approved))
<1> DEFINE decided == DecidedBy(v)
           approved == Confidences(decided, "APPROVE")
           rejected == Confidences(decided, "REJECT")
           few == SumFunction(decided["APPROVE"]) + SumFunction(decided["REJECT"])
                    < MIN_DECISIONS_FOR_ADVICE
           low == IF approved = {} THEN {} ELSE {Round(Min(approved))}
           high == IF rejected = {} THEN {} ELSE {Round(Max(rejected))}
           advice == CHOOSE a \in low : TRUE
           answer == IF advice < LOW_CONFIDENCE_THRESHOLD THEN advice ELSE None
<1>1. CalibrationRow(v) =
        IF few THEN [verdict |-> "insufficient_decisions", suggested_threshold |-> None]
        ELSE IF approved = {}
          THEN [verdict |-> "all_rejected", suggested_threshold |-> None]
        ELSE IF ~Separated(low, high)
          THEN [verdict |-> "overlapping", suggested_threshold |-> None]
        ELSE [verdict |-> "separated", suggested_threshold |-> answer]
  BY DEF CalibrationRow, Assess
<1>2. approved # {} => low = {Round(Min(approved))} /\ advice = Round(Min(approved))
  OBVIOUS
<1> HIDE DEF decided, approved, rejected, few, low, high, advice
<1>3. CalibrationRow(v).suggested_threshold # None =>
        /\ approved # {} /\ Separated(low, high)
        /\ CalibrationRow(v).suggested_threshold = advice
  BY <1>1
<1>4. CalibrationRow(v).suggested_threshold # None =>
        /\ approved # {} /\ Separated({Round(Min(approved))}, high)
        /\ CalibrationRow(v).suggested_threshold = Round(Min(approved))
  BY <1>2, <1>3
<1> QED
  BY <1>4 DEF decided, approved, rejected, high

(***************************************************************************)
(* The advice of the calibration report is safe to follow, whatever has    *)
(* been decided: it still holds what was rejected.  The rounded confidence *)
(* of the highest rejection is below the suggestion, so the confidence     *)
(* itself is less than half a thousandth above the thousandth before it.   *)
(***************************************************************************)
THEOREM AdviceCanBeFollowed == Spec => []AdviceHoldsRejections
<1>1. ASSUME TypeOK PROVE AdviceHoldsRejections
  <2> SUFFICES ASSUME NEW v \in Vendors,
                      CalibrationRow(v).suggested_threshold # None,
                      NEW c \in Confidences(DecidedBy(v), "REJECT")
               PROVE  c < Grain * CalibrationRow(v).suggested_threshold
    BY DEF AdviceHoldsRejections, Below
  <2> DEFINE approved == Confidences(DecidedBy(v), "APPROVE")
             rejected == Confidences(DecidedBy(v), "REJECT")
             s == Round(Min(approved))
             m == Max(rejected)
             r == Round(m)
  <2>1. /\ approved # {} /\ CalibrationRow(v).suggested_threshold = s
        /\ Separated({s}, IF rejected = {} THEN {} ELSE {Round(Max(rejected))})
    BY CalibrationCases
  <2>2. /\ approved \in SUBSET Nat /\ rejected \in SUBSET Nat /\ c \in rejected
        /\ \E b \in Nat : \A x \in rejected : x <= b
    BY <1>1, ConfidencesOfDecided DEF Decisions
  <2>3. Grain \in Nat /\ Grain # 0
    BY CalibrationAssumption
  <2> HIDE DEF approved, rejected
  <2>4. Min(approved) \in Nat
    BY <2>1, <2>2, MinOfNaturals
  <2>5. s \in Nat /\ Grain * s \in Nat
    BY <2>4, RoundBounds
  <2>6. Max(rejected) \in rejected /\ c <= Max(rejected)
    BY <2>2, MaxOfNaturals
  <2>7. Max(rejected) \in Nat /\ c \in Nat /\ rejected # {}
    BY <2>2, <2>6
  <2>8. s > r
    BY <2>1, <2>7 DEF Separated
  <2>9. r \in Nat /\ Grain * r \in Nat /\ 2 * m < 2 * (Grain * r) + Grain
    BY <2>7, RoundBounds
  <2>10. m \in Nat /\ c <= m
    BY <2>6, <2>7
  <2> HIDE DEF s, r, m
  <2>11. Grain * (r + 1) <= Grain * s /\ Grain * (r + 1) \in Nat
    BY <2>3, <2>5, <2>8, <2>9, ProductMonotone
  <2>12. Grain * (r + 1) = Grain * r + Grain
    BY <2>3, <2>9
  <2>13. c < Grain * s
    BY <2>3, <2>5, <2>7, <2>9, <2>10, <2>11, <2>12
  <2> QED
    BY <2>1, <2>13
<1> QED
  BY <1>1, ReviewQueueTypeCorrect, PTL
=============================================================================
