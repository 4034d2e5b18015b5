-------------------------- MODULE OnboardingProofs --------------------------
(***************************************************************************)
(* What onboarding promises, for every vendor: any samples, any proposal   *)
(* of a model, any hand-written profile and any lesson, any vocabulary and *)
(* any threshold.  The argument has four parts: what the rules make of a   *)
(* payload field by field; what discovery proposes, alone and with a       *)
(* model; an inductive invariant that says where the stored profile is     *)
(* from; and the properties, which put the three together.                 *)
(***************************************************************************)
EXTENDS Onboarding, FiniteSetTheorems, SequenceTheorems, WellFoundedInduction, TLAPS

----------------------------------------------------------------------------
(* Least indices and places in an order.                                   *)

(***************************************************************************)
(* A set of natural numbers that is not empty has a least member.          *)
(***************************************************************************)
LEMMA MinFacts ==
  ASSUME NEW S \in SUBSET Nat, S # {}
  PROVE  Min(S) \in S /\ \A n \in S : Min(S) <= n
<1>1. IsWellFoundedOn(OpToRel(<, Nat), Nat)
  BY NatLessThanWellFounded
<1>2. PICK m \in S : \A n \in S : ~(<<n, m>> \in OpToRel(<, Nat))
  BY <1>1, WFMin
<1>3. \A n \in S : ~(n < m)
  BY <1>2 DEF OpToRel
<1>4. \A n \in S : m <= n
  BY <1>3
<1> QED
  BY <1>4 DEF Min

Thousandths == 0..1000

(***************************************************************************)
(* Confidences are numbers.                                                *)
(***************************************************************************)
LEMMA ThousandthsAreNumbers == \A c \in Thousandths : c \in Int
  BY DEF Thousandths

(***************************************************************************)
(* The least of three confidences is a confidence, no greater than any of  *)
(* them and at least what all of them are.                                 *)
(***************************************************************************)
LEMMA MinOfThree ==
  ASSUME NEW a \in Thousandths, NEW b \in Thousandths, NEW c \in Thousandths
  PROVE  /\ Min({a, b, c}) \in Thousandths
         /\ Min({a, b, c}) <= a /\ Min({a, b, c}) <= b /\ Min({a, b, c}) <= c
         /\ Min({a, b, c}) \in {a, b, c}
<1> DEFINE S == {a, b, c}
<1>1. S \in SUBSET Nat /\ S # {}
  BY DEF Thousandths
<1>2. Min(S) \in S /\ \A n \in S : Min(S) <= n
  <2> HIDE DEF S
  <2> QED
    BY <1>1, MinFacts
<1>3. \A n \in S : n \in Thousandths
  OBVIOUS
<1>4. a \in S /\ b \in S /\ c \in S
  OBVIOUS
<1>5. Min(S) \in Thousandths /\ Min(S) <= a /\ Min(S) <= b /\ Min(S) <= c
  <2> HIDE DEF S
  <2> QED
    BY <1>2, <1>3, <1>4
<1> QED
  BY <1>2, <1>5

(***************************************************************************)
(* A finite set in a strict total order is a sequence of its members, each *)
(* of which has a place in it.                                             *)
(***************************************************************************)
LEMMA InOrderFacts ==
  ASSUME NEW S, IsFiniteSet(S), NEW order,
         \A x \in S : <<x, x>> \notin order,
         \A x, y, z \in S : <<x, y>> \in order /\ <<y, z>> \in order => <<x, z>> \in order,
         \A x, y \in S : x = y \/ <<x, y>> \in order \/ <<y, x>> \in order
  PROVE  /\ InOrder(S, order) \in Seq(S)
         /\ Len(InOrder(S, order)) = Cardinality(S)
<1> DEFINE N == Cardinality(S)
           before(x) == {y \in S : <<y, x>> \in order}
           pick(n) == CHOOSE x \in S : Cardinality(before(x)) = n - 1
           place == [x \in S |-> Cardinality(before(x))]
<1>1. N \in Nat
  BY FS_CardinalityType
<1>2. ASSUME NEW x \in S
      PROVE  /\ IsFiniteSet(before(x)) /\ Cardinality(before(x)) \in Nat
             /\ Cardinality(before(x)) < N
  <2>1. IsFiniteSet(before(x)) /\ Cardinality(before(x)) <= N
          /\ (N = Cardinality(before(x)) => before(x) = S)
    BY FS_Subset
  <2>2. x \notin before(x)
    OBVIOUS
  <2> HIDE DEF before
  <2> QED
    BY <1>1, <2>1, <2>2, FS_CardinalityType
<1>3. ASSUME NEW x \in S, NEW y \in S, <<x, y>> \in order
      PROVE  Cardinality(before(x)) < Cardinality(before(y))
  <2>1. before(x) \in SUBSET before(y) /\ x \in before(y) /\ x \notin before(x)
    BY <1>3
  <2>2. Cardinality(before(x)) <= Cardinality(before(y))
          /\ (Cardinality(before(y)) = Cardinality(before(x)) => before(y) = before(x))
    BY <1>2, <2>1, FS_Subset
  <2> HIDE DEF before
  <2> QED
    BY <1>2, <2>1, <2>2
<1>4. place \in [S -> 0..(N - 1)]
  <2> HIDE DEF before
  <2> QED
    BY <1>1, <1>2
<1>5. ASSUME NEW x \in S, NEW y \in S, place[x] = place[y]
      PROVE  x = y
  <2>1. Cardinality(before(x)) = Cardinality(before(y))
    BY <1>5
  <2>2. <<x, y>> \notin order /\ <<y, x>> \notin order
    <3> HIDE DEF before, place
    <3> QED
      BY <1>2, <1>3, <2>1
  <2> QED
    BY <2>2
<1>6. place \in Injection(S, 0..(N - 1))
  BY <1>4, <1>5 DEF Injection, IsInjective
<1>7. IsFiniteSet(0..(N - 1)) /\ Cardinality(0..(N - 1)) = N
  <2> HIDE DEF N
  <2> QED
    BY <1>1, FS_Interval
<1>8. place \in Surjection(S, 0..(N - 1))
  BY <1>6, <1>7, FS_Injection
<1>9. ASSUME NEW n \in 1..N
      PROVE  pick(n) \in S
  <2>1. n - 1 \in 0..(N - 1)
    BY <1>1
  <2>2. PICK x \in S : place[x] = n - 1
    BY <1>8, <2>1 DEF Surjection
  <2> QED
    BY <2>2
<1>10. InOrder(S, order) = [n \in 1..N |-> pick(n)]
  BY DEF InOrder
<1>11. InOrder(S, order) \in Seq(S) /\ Len(InOrder(S, order)) = N
  <2> HIDE DEF N, pick
  <2> QED
    BY <1>1, <1>9, <1>10
<1> QED
  BY <1>11

(***************************************************************************)
(* What a sequence keeps of a set is in the set and in the sequence.       *)
(***************************************************************************)
LEMMA KeptFacts ==
  ASSUME NEW T, NEW s \in Seq(T), NEW S
  PROVE  Kept(s, S) \in Seq(S \cap T)
<1> DEFINE at == {i \in DOMAIN s : s[i] \in S}
           order == {e \in at \X at : e[1] < e[2]}
           places == InOrder(at, order)
<1>1. at \in SUBSET (1..Len(s)) /\ Len(s) \in Nat
  OBVIOUS
<1>2. IsFiniteSet(at)
  BY <1>1, FS_Interval, FS_Subset
<1>3. places \in Seq(at)
  <2>1. \A i, j \in at : <<i, j>> \in order <=> i < j
    OBVIOUS
  <2>2. at \in SUBSET Nat
    BY <1>1
  <2> HIDE DEF order, at
  <2>3. /\ \A i \in at : <<i, i>> \notin order
        /\ \A i, j, k \in at : <<i, j>> \in order /\ <<j, k>> \in order => <<i, k>> \in order
        /\ \A i, j \in at : i = j \/ <<i, j>> \in order \/ <<j, i>> \in order
    BY <2>1, <2>2
  <2> QED
    BY <1>2, <2>3, InOrderFacts
<1>4. Kept(s, S) = [n \in DOMAIN places |-> s[places[n]]]
  BY DEF Kept
<1>5. \A n \in DOMAIN places : places[n] \in at
  BY <1>3
<1>6. \A i \in at : s[i] \in S \cap T
  OBVIOUS
<1> HIDE DEF places, at
<1> QED
  BY <1>3, <1>4, <1>5, <1>6

(***************************************************************************)
(* The first four members of a sequence.                                   *)
(***************************************************************************)
LEMMA First4Facts ==
  ASSUME NEW T, NEW s \in Seq(T)
  PROVE  /\ First4(s) \in Seq(T)
         /\ First4(s) # <<>> => s # <<>> /\ First4(s)[1] = s[1]
         /\ Range(First4(s)) \subseteq T
<1> DEFINE n == AtMost(Len(s), 4)
<1>1. Len(s) \in Nat /\ n \in 0..Len(s) /\ (n = 0 <=> Len(s) = 0)
  BY DEF AtMost
<1>2. First4(s) = SubSeq(s, 1, n)
  BY DEF First4
<1> HIDE DEF n
<1>3. First4(s) \in Seq(T) /\ Len(First4(s)) = n
        /\ \A i \in 1..n : First4(s)[i] = s[i]
  BY <1>1, <1>2
<1> QED
  BY <1>1, <1>3 DEF Range

----------------------------------------------------------------------------
(* The rules, field by field.                                              *)

Flats == Seq(Seq(STRING) \X Values)
KeyLists == Seq(Seq(STRING))

WellFormed(p) ==
  p.entity_type \in Types \cup {Untyped} /\ PathLists(p) \subseteq KeyLists

(***************************************************************************)
(* What a path of the flattened payload holds is one of its values.        *)
(***************************************************************************)
LEMMA ValueAtFacts ==
  ASSUME NEW flat \in Flats
  PROVE  /\ Contents(flat) \subseteq Values
         /\ Paths(flat) \subseteq Seq(STRING)
         /\ \A path \in Paths(flat) : ValueAt(flat, path) \in Contents(flat)
<1>1. \A i \in DOMAIN flat : flat[i] \in Seq(STRING) \X Values
  BY DEF Flats
<1>2. ASSUME NEW path \in Paths(flat)
      PROVE  ValueAt(flat, path) \in Contents(flat)
  <2>1. PICK i \in DOMAIN flat : flat[i][1] = path
    BY DEF Paths
  <2> QED
    BY <2>1 DEF ValueAt, Contents
<1> QED
  BY <1>1, <1>2 DEF Contents, Paths

(***************************************************************************)
(* first_entry finds a value of the payload that is not empty, or nothing. *)
(***************************************************************************)
LEMMA FirstEntryFacts ==
  ASSUME NEW flat \in Flats, NEW keys \in KeyLists
  PROVE  FirstEntry(flat, keys)[2] \in (Contents(flat) \ {Empty}) \cup {None}
<1> DEFINE whole == {i \in DOMAIN keys :
                       keys[i] \in Paths(flat) /\ ValueAt(flat, keys[i]) # Empty}
           ends(k) == {j \in DOMAIN flat :
                         <<Last(flat[j][1])>> = k /\ flat[j][2] # Empty}
           suffix == {i \in DOMAIN keys : ends(keys[i]) # {}}
<1>1. whole \in SUBSET Nat /\ suffix \in SUBSET Nat /\ \A k : ends(k) \in SUBSET Nat
  BY DEF KeyLists, Flats
<1>2. CASE whole # {}
  <2>1. Min(whole) \in whole
    BY <1>1, <1>2, MinFacts
  <2>2. FirstEntry(flat, keys) = <<keys[Min(whole)], ValueAt(flat, keys[Min(whole)])>>
    BY <1>2 DEF FirstEntry
  <2> QED
    BY <2>1, <2>2, ValueAtFacts
<1>3. CASE whole = {} /\ suffix # {}
  <2> DEFINE k == keys[Min(suffix)]
  <2>1. Min(suffix) \in suffix
    BY <1>1, <1>3, MinFacts
  <2>2. ends(k) # {}
    BY <2>1
  <2>3. Min(ends(k)) \in ends(k)
    <3> HIDE DEF ends, k
    <3> QED
      BY <1>1, <2>2, MinFacts
  <2>4. FirstEntry(flat, keys) = <<k, flat[Min(ends(k))][2]>>
    BY <1>3 DEF FirstEntry
  <2>5. Min(ends(k)) \in DOMAIN flat /\ flat[Min(ends(k))][2] # Empty
    BY <2>3
  <2> HIDE DEF k, ends
  <2> QED
    BY <2>4, <2>5 DEF Contents
<1>4. CASE whole = {} /\ suffix = {}
  BY <1>4 DEF FirstEntry
<1> QED
  BY <1>2, <1>3, <1>4

(***************************************************************************)
(* The keys that are tried: the paths of the profile, then the key list.   *)
(***************************************************************************)
LEMMA KeysTried ==
  ASSUME NEW p, WellFormed(p)
  PROVE  /\ p.id_paths \o Bare(ID_KEYS) \in KeyLists
         /\ p.status_paths \o Bare(STATUS_KEYS) \in KeyLists
         /\ p.time_paths \o Bare(TIME_KEYS) \in KeyLists
         /\ p.time_paths \in KeyLists
<1>1. p.id_paths \in KeyLists /\ p.status_paths \in KeyLists /\ p.time_paths \in KeyLists
  BY DEF WellFormed, PathLists
<1>2. ASSUME NEW keys \in Seq(STRING)
      PROVE  Bare(keys) \in KeyLists
  <2>1. DOMAIN keys = 1..Len(keys) /\ Len(keys) \in Nat
    OBVIOUS
  <2>2. \A i \in 1..Len(keys) : <<keys[i]>> \in Seq(STRING)
    OBVIOUS
  <2>3. Bare(keys) \in [1..Len(keys) -> Seq(STRING)]
    BY <2>1, <2>2 DEF Bare
  <2> QED
    BY <2>1, <2>3, SeqDef DEF KeyLists
<1>3. ID_KEYS \in Seq(STRING) /\ STATUS_KEYS \in Seq(STRING) /\ TIME_KEYS \in Seq(STRING)
  BY RulesAssumption
<1> QED
  BY <1>1, <1>2, <1>3 DEF KeyLists

(***************************************************************************)
(* Classification: the profile's type if it has one, and one of the types  *)
(* in any case.                                                            *)
(***************************************************************************)
LEMMA ClassifyFacts ==
  ASSUME NEW flat, NEW key, NEW p, p.entity_type \in Types \cup {Untyped}
  PROVE  /\ Classify(flat, key, p)[1] \in Types
         /\ Classify(flat, key, p)[2] \in Thousandths
         /\ p.entity_type # Untyped => Classify(flat, key, p) = <<p.entity_type, 970>>
         /\ p.entity_type = Untyped => Classify(flat, key, p)[2] <= 950
<1> DEFINE shipment == Cardinality(HintsIn(flat, SHIPMENT_HINTS))
           invoice == Cardinality(HintsIn(flat, INVOICE_HINTS))
<1>1. ASSUME NEW hints, IsFiniteSet(hints)
      PROVE  Cardinality(HintsIn(flat, hints)) \in Nat
  <2>1. HintsIn(flat, hints) \in SUBSET hints
    BY DEF HintsIn
  <2> QED
    BY <1>1, <2>1, FS_Subset, FS_CardinalityType
<1>2. shipment \in Nat /\ invoice \in Nat
  BY <1>1, RulesAssumption
<1>3. ASSUME NEW n \in Nat
      PROVE  AtMost(600 + 100 * n, 950) \in 0..950
  <2>1. 600 + 100 * n \in Nat
    OBVIOUS
  <2> QED
    BY <2>1 DEF AtMost
<1>4. AtMost(600 + 100 * shipment, 950) \in 0..950 /\ AtMost(600 + 100 * invoice, 950) \in 0..950
  BY <1>2, <1>3
<1>5. CASE p.entity_type # Untyped
  BY <1>5 DEF Classify, Untyped, Thousandths, PROFILE_CONFIDENCE
<1>6. CASE p.entity_type = Untyped
  <2> DEFINE a == AtMost(600 + 100 * shipment, 950)
             b == AtMost(600 + 100 * invoice, 950)
  <2>1. \/ Classify(flat, key, p) = <<"SHIPMENT", 900>>
        \/ Classify(flat, key, p) = <<"INVOICE", 900>>
        \/ Classify(flat, key, p) = <<"SHIPMENT", a>>
        \/ Classify(flat, key, p) = <<"INVOICE", b>>
        \/ Classify(flat, key, p) = <<"UNCLASSIFIED", 200>>
    BY <1>6 DEF Classify, Untyped, ID_KEY_CONFIDENCE
  <2>2. a \in 0..950 /\ b \in 0..950
    BY <1>4
  <2> HIDE DEF a, b
  <2>3. PICK type \in Types, c \in 0..950 : Classify(flat, key, p) = <<type, c>>
    <3>1. /\ "SHIPMENT" \in Types /\ "INVOICE" \in Types /\ "UNCLASSIFIED" \in Types
          /\ 900 \in 0..950 /\ 200 \in 0..950
      BY DEF Types
    <3> QED
      BY <2>1, <2>2, <3>1
  <2>4. Classify(flat, key, p)[1] = type /\ Classify(flat, key, p)[2] = c
    BY <2>3
  <2>5. c \in Thousandths /\ c <= 950
    BY DEF Thousandths
  <2> QED
    BY <1>6, <2>4, <2>5
<1> QED
  BY <1>5, <1>6

(***************************************************************************)
(* The event time: one that a value of the payload parses as, or the time  *)
(* of the reading, which nobody trusts.                                    *)
(***************************************************************************)
LEMMA EventTimeFacts ==
  ASSUME NEW flat \in Flats, NEW p, WellFormed(p)
  PROVE  LET time == EventTime(flat, p) IN
         /\ time[1] \in Instants \cup {Now}
         /\ time[1] # None /\ time[1] # Absent
         /\ time[1] # Now =>
              time[1] \in {TimeOf[v] : v \in Contents(flat) \ {Empty}}
         /\ time[2] = IF time[1] = Now THEN 400
                      ELSE IF Parsed(FirstEntry(flat, p.time_paths)[2]) # None
                        THEN 970 ELSE 950
<1>1. ASSUME NEW keys \in KeyLists
      PROVE  LET t == Parsed(FirstEntry(flat, keys)[2]) IN
             \/ t = None
             \/ /\ t \in Instants
                /\ t \in {TimeOf[v] : v \in Contents(flat) \ {Empty}}
  BY FirstEntryFacts, ValueAtFacts DEF Parsed, Instants, Values
<1>2. Now \notin Instants /\ Absent \notin Instants /\ None \notin Instants
        /\ None # Now /\ Absent # Now
  BY NullAssumption DEF Instants
<1>3. EventTime(flat, p) =
        LET pinned == Parsed(FirstEntry(flat, p.time_paths)[2])
            any == Parsed(FirstEntry(flat, p.time_paths \o Bare(TIME_KEYS))[2])
        IN IF pinned # None THEN <<pinned, 970>>
           ELSE IF any # None THEN <<any, 950>> ELSE <<Now, 400>>
  BY DEF EventTime, PROFILE_CONFIDENCE
<1> QED
  BY <1>1, <1>2, <1>3, KeysTried

----------------------------------------------------------------------------
(* Words and their suffixes.                                               *)

(***************************************************************************)
(* The suffixes that _status tries are the proper suffixes of the token.   *)
(***************************************************************************)
LEMMA SuffixFacts ==
  ASSUME NEW token \in Seq(STRING)
  PROVE  /\ SuffixesTried(token) \in Seq(Seq(STRING))
         /\ DOMAIN SuffixesTried(token) = 1..(Len(token) - 1)
         /\ \A i \in 1..(Len(token) - 1) :
              SuffixesTried(token)[i] = SubSeq(token, i + 1, Len(token))
         /\ \A i \in 1..Len(token) :
              /\ SubSeq(token, i, Len(token)) \in Seq(STRING)
              /\ Len(SubSeq(token, i, Len(token))) = Len(token) - i + 1
         /\ Len(token) > 0 => SubSeq(token, 1, Len(token)) = token
<1> DEFINE n == Len(token)
<1>1. n \in Nat
  OBVIOUS
<1>2. \A i \in 1..n : /\ SubSeq(token, i, n) \in Seq(STRING)
                      /\ Len(SubSeq(token, i, n)) = n - i + 1
  OBVIOUS
<1>3. SubSeq(token, 1, n) = token
  OBVIOUS
<1>4. SuffixesTried(token) = [i \in 1..(n - 1) |-> SubSeq(token, i + 1, n)]
  BY DEF SuffixesTried
<1>5. SuffixesTried(token) \in Seq(Seq(STRING))
  <2>1. CASE n = 0
    <3>1. 1..(n - 1) = 1..0
      BY <2>1
    <3>2. SuffixesTried(token) \in [1..0 -> Seq(STRING)]
      BY <1>4, <3>1
    <3> QED
      BY <3>2, SeqDef
  <2>2. CASE n > 0
    <3>1. \A i \in 1..(n - 1) : i + 1 \in 1..n
      BY <1>1
    <3>2. SuffixesTried(token) \in [1..(n - 1) -> Seq(STRING)]
      BY <1>2, <1>4, <3>1
    <3>3. n - 1 \in Nat
      BY <1>1, <2>2
    <3> QED
      BY <3>2, <3>3, SeqDef
  <2> QED
    BY <1>1, <2>1, <2>2
<1> QED
  BY <1>1, <1>2, <1>3, <1>4, <1>5

(***************************************************************************)
(* The longest interpreted suffix is the token itself, or else the first   *)
(* hit of the suffixes tried; without a hit there is none.                 *)
(***************************************************************************)
LEMMA LongestFacts ==
  ASSUME NEW token \in Seq(STRING), NEW words
  PROVE  LET tried == SuffixesTried(token)
             hits == {i \in DOMAIN tried : tried[i] \in words}
         IN /\ token \in words =>
                 Interpreted(token, words) # {} /\ Longest(token, words) = token
            /\ token \notin words /\ hits # {} =>
                 /\ Interpreted(token, words) # {}
                 /\ Longest(token, words) = tried[Min(hits)]
                 /\ tried[Min(hits)] \in words
            /\ token \notin words /\ hits = {} => Interpreted(token, words) = {}
<1> DEFINE n == Len(token)
           tried == SuffixesTried(token)
           hits == {i \in DOMAIN tried : tried[i] \in words}
           suffix(i) == SubSeq(token, i, n)
<1>1. /\ n \in Nat
      /\ DOMAIN tried = 1..(n - 1)
      /\ \A i \in 1..(n - 1) : tried[i] = suffix(i + 1)
      /\ \A i \in 1..n : Len(suffix(i)) = n - i + 1
      /\ n > 0 => suffix(1) = token
  BY SuffixFacts
<1>2. \A s : s \in Interpreted(token, words) <=>
               s \in words /\ (s = token \/ \E i \in 1..n : s = suffix(i))
  <2>1. DOMAIN token = 1..n
    OBVIOUS
  <2> HIDE DEF n
  <2> QED
    BY <2>1 DEF Interpreted, n
<1>3. hits \in SUBSET Nat /\ \A i : i \in hits <=> i \in 1..(n - 1) /\ suffix(i + 1) \in words
  <2>1. \A i : i \in hits <=> i \in 1..(n - 1) /\ tried[i] \in words
    BY <1>1
  <2> HIDE DEF n, tried, hits, suffix
  <2>2. \A i \in 1..(n - 1) : i \in Nat
    BY <1>1
  <2>3. hits \in SUBSET Nat
    BY <2>1, <2>2, Zenon
  <2>4. \A i \in 1..(n - 1) : tried[i] \in words <=> suffix(i + 1) \in words
    BY <1>1, Zenon
  <2> QED
    BY <2>1, <2>3, <2>4, Zenon
<1> HIDE DEF tried, hits, suffix
<1>4. ASSUME token \in words
      PROVE  Interpreted(token, words) # {} /\ Longest(token, words) = token
  <2>1. token \in Interpreted(token, words)
    BY <1>2, <1>4
  <2>2. ASSUME NEW s \in Interpreted(token, words)
        PROVE  Len(s) <= n /\ (Len(s) >= n => s = token)
    BY <1>1, <1>2, <2>2
  <2>3. \A s \in Interpreted(token, words) : Len(s) <= Len(token)
    BY <2>2 DEF n
  <2>4. \A s \in Interpreted(token, words) :
          (\A t \in Interpreted(token, words) : Len(t) <= Len(s)) => s = token
    BY <2>1, <2>2 DEF n
  <2> QED
    BY <2>1, <2>3, <2>4 DEF Longest
<1>5. ASSUME token \notin words, hits # {}
      PROVE  /\ Interpreted(token, words) # {}
             /\ Longest(token, words) = tried[Min(hits)]
             /\ tried[Min(hits)] \in words
  <2> DEFINE j == Min(hits)
             w == suffix(j + 1)
  <2>1. j \in hits /\ \A i \in hits : j <= i
    BY <1>3, <1>5, MinFacts
  <2>2. j \in 1..(n - 1) /\ j + 1 \in 1..n /\ w \in words /\ tried[j] = w /\ Len(w) = n - j
    BY <1>1, <1>3, <2>1
  <2>3. w \in Interpreted(token, words)
    BY <1>2, <2>2
  <2> HIDE DEF j, w
  <2>4. ASSUME NEW s \in Interpreted(token, words)
        PROVE  Len(s) <= n - j /\ (Len(s) >= n - j => s = w)
    <3>1. PICK i \in 1..n : s = suffix(i) /\ s \in words
      BY <1>2, <1>5, <2>4
    <3>2. i # 1
      BY <1>1, <1>5, <3>1
    <3>3. i - 1 \in 1..(n - 1) /\ (i - 1) + 1 = i
      BY <1>1, <3>2
    <3>4. i - 1 \in hits
      BY <1>3, <3>1, <3>3
    <3>5. j <= i - 1 /\ j \in Nat
      BY <1>3, <2>1, <3>4
    <3>6. Len(s) = n - i + 1
      BY <1>1, <3>1
    <3>7. Len(s) >= n - j => i = j + 1
      BY <1>1, <3>5, <3>6
    <3> QED
      BY <1>1, <3>1, <3>5, <3>6, <3>7 DEF w
  <2>5. \A s \in Interpreted(token, words) : Len(s) <= Len(w)
    BY <2>2, <2>4
  <2>6. \A s \in Interpreted(token, words) :
          (\A t \in Interpreted(token, words) : Len(t) <= Len(s)) => s = w
    BY <2>2, <2>3, <2>4
  <2>7. Longest(token, words) = w
    BY <2>3, <2>5, <2>6 DEF Longest
  <2> QED
    BY <2>2, <2>3, <2>7 DEF j
<1>6. ASSUME token \notin words, hits = {}
      PROVE  Interpreted(token, words) = {}
  <2> SUFFICES ASSUME NEW s \in Interpreted(token, words)
               PROVE  FALSE
    OBVIOUS
  <2>1. PICK i \in 1..n : s = suffix(i) /\ s \in words
    BY <1>2, <1>6
  <2>2. i # 1
    BY <1>1, <1>6, <2>1
  <2>3. i - 1 \in 1..(n - 1) /\ (i - 1) + 1 = i
    BY <1>1, <2>2
  <2> QED
    BY <1>3, <1>6, <2>1, <2>3
<1> QED
  BY <1>4, <1>5, <1>6 DEF tried, hits

SuffixesOf(token) == {token} \cup {SubSeq(token, i, Len(token)) : i \in DOMAIN token}

(***************************************************************************)
(* A suffix of a suffix of a token is a suffix of the token.               *)
(***************************************************************************)
LEMMA SuffixOfSuffix ==
  ASSUME NEW token \in Seq(STRING), NEW i \in 1..Len(token), NEW j \in 1..(Len(token) - i + 1)
  PROVE  SubSeq(SubSeq(token, i, Len(token)), j, Len(token) - i + 1) =
           SubSeq(token, i + j - 1, Len(token))
<1> DEFINE n == Len(token)
           m == n - i + 1
           u == SubSeq(token, i, n)
           v == SubSeq(u, j, m)
           w == SubSeq(token, i + j - 1, n)
<1>1. n \in Nat /\ m \in 1..n /\ i + j - 1 \in 1..n
  OBVIOUS
<1>2. u \in Seq(STRING) /\ Len(u) = m /\ \A k \in 1..m : u[k] = token[i + k - 1]
  OBVIOUS
<1> HIDE DEF u
<1>3. v \in Seq(STRING) /\ Len(v) = m - j + 1 /\ \A k \in 1..(m - j + 1) : v[k] = u[j + k - 1]
  BY <1>1, <1>2
<1>4. w \in Seq(STRING) /\ Len(w) = m - j + 1
        /\ \A k \in 1..(m - j + 1) : w[k] = token[(i + j - 1) + k - 1]
  BY <1>1
<1>5. ASSUME NEW k \in 1..(m - j + 1)
      PROVE  v[k] = w[k]
  <2>1. j + k - 1 \in 1..m /\ i + (j + k - 1) - 1 = (i + j - 1) + k - 1
    BY <1>1
  <2> QED
    BY <1>2, <1>3, <1>4, <2>1
<1> HIDE DEF v, w
<1>6. v = w
  BY <1>3, <1>4, <1>5, SeqEqual
<1> QED
  BY <1>6 DEF v, w, u

(***************************************************************************)
(* The suffixes of a token are ordered by their length: those of a suffix  *)
(* are the ones that are no longer, and no two are equally long.           *)
(***************************************************************************)
LEMMA SuffixOrder ==
  ASSUME NEW token \in Seq(STRING), NEW s \in SuffixesOf(token)
  PROVE  /\ s \in Seq(STRING) /\ Len(s) <= Len(token)
         /\ \A t : t \in SuffixesOf(s) <=> t \in SuffixesOf(token) /\ Len(t) <= Len(s)
         /\ \A t \in SuffixesOf(token) : Len(t) = Len(s) => t = s
<1> DEFINE n == Len(token)
           suffix(i) == SubSeq(token, i, n)
<1>1. n \in Nat /\ DOMAIN token = 1..n
  OBVIOUS
<1>2. /\ \A i \in 1..n : suffix(i) \in Seq(STRING) /\ Len(suffix(i)) = n - i + 1
      /\ n > 0 => suffix(1) = token
  BY SuffixFacts
<1>3. \A t : t \in SuffixesOf(token) <=> t = token \/ \E i \in 1..n : t = suffix(i)
  BY <1>1 DEF SuffixesOf
<1>4. CASE n = 0
  <2>1. s = token
    BY <1>3, <1>4
  <2>2. \A t \in SuffixesOf(token) : t = token
    BY <1>3, <1>4
  <2> QED
    BY <1>1, <2>1, <2>2
<1>5. CASE n > 0
  <2>1. PICK i \in 1..n : s = suffix(i)
    BY <1>1, <1>2, <1>3, <1>5
  <2> DEFINE m == n - i + 1
  <2>2. m \in 1..n /\ Len(s) = m /\ s \in Seq(STRING)
    BY <1>1, <1>2, <2>1
  <2>3. \A j \in 1..m : SubSeq(s, j, m) = suffix(i + j - 1)
    BY <2>1, SuffixOfSuffix
  <2>4. \A t : t \in SuffixesOf(s) <=> t = s \/ \E j \in 1..m : t = SubSeq(s, j, m)
    <3>1. DOMAIN s = 1..m /\ Len(s) = m
      BY <2>2
    <3> HIDE DEF m
    <3> QED
      BY <3>1 DEF SuffixesOf
  <2>5. \A t \in SuffixesOf(token) : \E k \in 1..n : t = suffix(k) /\ Len(t) = n - k + 1
    BY <1>1, <1>2, <1>3, <1>5
  <2> HIDE DEF suffix
  <2>6. ASSUME NEW t, t \in SuffixesOf(s)
        PROVE  t \in SuffixesOf(token) /\ Len(t) <= Len(s)
    <3>1. CASE t = s
      BY <2>2, <3>1
    <3>2. ASSUME NEW j \in 1..m, t = SubSeq(s, j, m)
          PROVE  t \in SuffixesOf(token) /\ Len(t) <= Len(s)
      <4>1. i + j - 1 \in 1..n /\ t = suffix(i + j - 1)
        BY <1>1, <2>2, <2>3, <3>2
      <4>2. Len(t) = n - (i + j - 1) + 1
        BY <1>2, <4>1
      <4> QED
        BY <1>1, <1>3, <2>2, <4>1, <4>2
    <3> QED
      BY <2>4, <2>6, <3>1, <3>2
  <2>7. ASSUME NEW t \in SuffixesOf(token), Len(t) <= Len(s)
        PROVE  t \in SuffixesOf(s)
    <3>1. PICK k \in 1..n : t = suffix(k) /\ Len(t) = n - k + 1
      BY <2>5
    <3>2. k - i + 1 \in 1..m /\ i + (k - i + 1) - 1 = k
      BY <1>1, <2>2, <2>7, <3>1
    <3>3. t = SubSeq(s, k - i + 1, m)
      BY <2>3, <3>1, <3>2
    <3> QED
      BY <2>4, <3>2, <3>3
  <2>8. ASSUME NEW t \in SuffixesOf(token), Len(t) = Len(s)
        PROVE  t = s
    <3>1. PICK k \in 1..n : t = suffix(k) /\ Len(t) = n - k + 1
      BY <2>5
    <3>2. k = i
      BY <1>1, <2>2, <2>8, <3>1
    <3> QED
      BY <2>1, <3>1, <3>2
  <2> QED
    BY <1>1, <2>2, <2>6, <2>7, <2>8
<1> QED
  BY <1>1, <1>4, <1>5

(***************************************************************************)
(* A token with an interpreted suffix has a longest one, which Longest     *)
(* names.                                                                  *)
(***************************************************************************)
LEMMA LongestIsLongest ==
  ASSUME NEW token \in Seq(STRING), NEW words, Interpreted(token, words) # {}
  PROVE  /\ Longest(token, words) \in Interpreted(token, words)
         /\ Longest(token, words) \in words
         /\ \A t \in Interpreted(token, words) : Len(t) <= Len(Longest(token, words))
<1> DEFINE n == Len(token)
           S == Interpreted(token, words)
           D == {n - Len(t) : t \in S}
<1>1. n \in Nat /\ S \subseteq SuffixesOf(token)
  BY DEF Interpreted, SuffixesOf
<1>2. \A t \in S : Len(t) \in Nat /\ Len(t) <= n
  BY <1>1, SuffixOrder
<1>3. D \in SUBSET Nat /\ D # {}
  <2> HIDE DEF S, n
  <2>1. S # {}
    BY DEF S
  <2> QED
    BY <1>1, <1>2, <2>1
<1>4. PICK d \in D : \A e \in D : d <= e
  <2> HIDE DEF D
  <2> QED
    BY <1>3, MinFacts
<1>5. PICK u \in S : d = n - Len(u)
  BY <1>4
<1>6. \A t \in S : Len(t) <= Len(u)
  <2>1. \A t \in S : n - Len(u) <= n - Len(t)
    BY <1>4, <1>5
  <2> HIDE DEF S, n, D
  <2> QED
    BY <1>1, <1>2, <1>5, <2>1
<1> HIDE DEF S
<1>7. \E x \in S : \A t \in S : Len(t) <= Len(x)
  BY <1>5, <1>6
<1>8. S \subseteq words
  BY DEF S, Interpreted
<1> QED
  BY <1>7, <1>8 DEF Longest, S

Words(type, p) == DOMAIN p.status_map \cup DOMAIN Table[type]

Interprets(type, raw, p) ==
  raw # None /\ Interpreted(Token[raw], Words(type, p)) # {}

Default(type) == IF type = "SHIPMENT" THEN "IN_TRANSIT" ELSE "ISSUED"

Fits(p, type) == \A t \in DOMAIN p.status_map : p.status_map[t] \in Statuses[type]

(***************************************************************************)
(* The longest interpreted suffix is a word, and what it means is one of   *)
(* the statuses of the type if the profile fits the type.                  *)
(***************************************************************************)
LEMMA MeaningFacts ==
  ASSUME NEW type \in {"SHIPMENT", "INVOICE"}, NEW token \in Seq(STRING), NEW p,
         Interpreted(token, Words(type, p)) # {}
  PROVE  /\ Longest(token, Words(type, p)) \in Words(type, p)
         /\ Fits(p, type) => Meaning(type, token, p.status_map) \in Statuses[type]
<1> DEFINE words == Words(type, p)
<1>1. Longest(token, words) \in words
  BY LongestIsLongest
<1>2. \A w \in DOMAIN Table[type] : Table[type][w] \in Statuses[type]
  BY RulesAssumption
<1> QED
  BY <1>1, <1>2 DEF Words, Meaning, Fits

GuessConfidence(raw) == IF raw = None THEN 250 ELSE 300

WordConfidence(type, token, p) ==
  LET longest == Longest(token, Words(type, p)) IN
  IF longest \in DOMAIN p.status_map THEN 970 ELSE IF longest = token THEN 900 ELSE 750

Abstention == <<"UNKNOWN", 200>>

(***************************************************************************)
(* _status says what the word means, the more surely the less it had to    *)
(* leave out; a word that means nothing is a guess.                        *)
(***************************************************************************)
LEMMA StatusFacts ==
  ASSUME NEW p, NEW type \in Types, NEW raw \in (Values \ {Empty}) \cup {None}
  PROVE  /\ StatusOf(type, raw, p)[2] \in Thousandths
         /\ type = "UNCLASSIFIED" => StatusOf(type, raw, p) = Abstention
         /\ type # "UNCLASSIFIED" /\ ~Interprets(type, raw, p) =>
              /\ StatusOf(type, raw, p)[1] = Default(type)
              /\ StatusOf(type, raw, p)[1] \in Statuses[type]
              /\ StatusOf(type, raw, p)[2] = GuessConfidence(raw)
         /\ type # "UNCLASSIFIED" /\ Interprets(type, raw, p) =>
              /\ StatusOf(type, raw, p)[1] = Meaning(type, Token[raw], p.status_map)
              /\ StatusOf(type, raw, p)[2] = WordConfidence(type, Token[raw], p)
<1> DEFINE token == Token[raw]
           known == p.status_map
           words == Words(type, p)
           tried == SuffixesTried(token)
           hits == {i \in DOMAIN tried :
                      tried[i] \in DOMAIN known \/ tried[i] \in DOMAIN Table[type]}
           default == Default(type)
<1>1. StatusOf(type, raw, p) =
        IF type = "UNCLASSIFIED" THEN <<"UNKNOWN", 200>>
        ELSE IF raw = None THEN <<default, 250>>
        ELSE IF token \in DOMAIN known THEN <<known[token], 970>>
        ELSE IF token \in DOMAIN Table[type] THEN <<Table[type][token], 900>>
        ELSE IF hits = {} THEN <<default, 300>>
        ELSE IF tried[Min(hits)] \in DOMAIN known
          THEN <<known[tried[Min(hits)]], 970>>
          ELSE <<Table[type][tried[Min(hits)]], 750>>
  BY DEF StatusOf, PROFILE_CONFIDENCE, Default
<1>2. CASE type = "UNCLASSIFIED"
  BY <1>1, <1>2 DEF Thousandths, Abstention
<1>3. CASE type # "UNCLASSIFIED" /\ raw = None
  BY <1>1, <1>3, RulesAssumption DEF Interprets, Types, Thousandths, Default, GuessConfidence
<1>4. CASE type # "UNCLASSIFIED" /\ raw # None
  <2>1. type \in {"SHIPMENT", "INVOICE"} /\ default \in Statuses[type]
    BY <1>4, RulesAssumption DEF Types, Default
  <2>2. token \in Seq(STRING)
    BY <1>4, RulesAssumption DEF Values
  <2>3. token \in words <=> token \in DOMAIN known \/ token \in DOMAIN Table[type]
    BY DEF Words
  <2>4. Interprets(type, raw, p) <=> Interpreted(token, words) # {}
    BY <1>4 DEF Interprets
  <2>5. Meaning(type, token, known) =
          IF Interpreted(token, words) = {} THEN None
          ELSE IF Longest(token, words) \in DOMAIN known THEN known[Longest(token, words)]
          ELSE Table[type][Longest(token, words)]
    BY DEF Meaning, Words
  <2>6. /\ token \in words =>
             Interpreted(token, words) # {} /\ Longest(token, words) = token
        /\ token \notin words /\ hits # {} =>
             /\ Interpreted(token, words) # {}
             /\ Longest(token, words) = tried[Min(hits)]
             /\ tried[Min(hits)] \in words
        /\ token \notin words /\ hits = {} => Interpreted(token, words) = {}
    <3>1. hits = {i \in DOMAIN tried : tried[i] \in words}
      BY DEF Words
    <3> HIDE DEF token, words, hits
    <3> QED
      BY <2>2, <3>1, LongestFacts
  <2> HIDE DEF token, known, words, tried, hits, default
  <2> QED
    BY <1>1, <1>4, <2>1, <2>3, <2>4, <2>5, <2>6
       DEF token, known, words, default, Thousandths, GuessConfidence, WordConfidence
<1> QED
  BY <1>2, <1>3, <1>4

----------------------------------------------------------------------------
(* The whole reading.                                                      *)

IdOf(doc, p) == FirstEntry(Flatten(doc), p.id_paths \o Bare(ID_KEYS))
TypeOf(doc, p) == Classify(Flatten(doc), IdOf(doc, p)[1], p)
RawOf(doc, p) == FirstEntry(Flatten(doc), p.status_paths \o Bare(STATUS_KEYS))[2]
StatusIn(doc, p) == StatusOf(TypeOf(doc, p)[1], RawOf(doc, p), p)
TimeIn(doc, p) == EventTime(Flatten(doc), p)

ReadingOf(doc, p) ==
  [entity_type |-> TypeOf(doc, p)[1], entity_id |-> IdOf(doc, p)[2],
   canonical_status |-> StatusIn(doc, p)[1], event_time |-> TimeIn(doc, p)[1],
   confidence |-> Min({TypeOf(doc, p)[2], StatusIn(doc, p)[2], TimeIn(doc, p)[2]}),
   source_status |-> RawOf(doc, p)]

HasId(doc, p) == IdOf(doc, p)[2] # None /\ IdOf(doc, p)[2] \notin Blank

(***************************************************************************)
(* A failure is no reading, and ValueError is none of the other failures.  *)
(***************************************************************************)
LEMMA Errors ==
  /\ \A e \in {NormalizationError, ValueError, OverflowError, LookupError} :
       ~Succeeded(e) /\ None # e
  /\ \A e \in {NormalizationError, OverflowError, LookupError} : e # ValueError
<1>1. ASSUME NEW name \in {"NormalizationError", "ValueError", "OverflowError",
                           "ConnectionError"}
      PROVE  ~Succeeded([error |-> name]) /\ None # [error |-> name]
  <2>1. [error |-> name] \in [error : {"NormalizationError", "ValueError", "OverflowError",
                                       "ConnectionError"}]
    OBVIOUS
  <2> QED
    BY <2>1, NullAssumption DEF Succeeded
<1>2. /\ NormalizationError.error # ValueError.error
      /\ OverflowError.error # ValueError.error
      /\ LookupError.error # ValueError.error
  BY DEF NormalizationError, ValueError, OverflowError, LookupError
<1>3. \A e \in {NormalizationError, OverflowError, LookupError} : e # ValueError
  BY <1>2
<1> QED
  BY <1>1, <1>3 DEF NormalizationError, ValueError, OverflowError, LookupError

(***************************************************************************)
(* The parts of a reading are of their types, and only the status can make *)
(* the schema refuse one that has an identifier.                           *)
(***************************************************************************)
LEMMA ReadingFacts ==
  ASSUME NEW doc \in Documents, NEW p, WellFormed(p)
  PROVE  /\ Flatten(doc) \in Flats
         /\ IdOf(doc, p)[2] \in (Contents(Flatten(doc)) \ {Empty}) \cup {None}
         /\ RawOf(doc, p) \in (Contents(Flatten(doc)) \ {Empty}) \cup {None}
         /\ RawOf(doc, p) \in (Values \ {Empty}) \cup {None}
         /\ TypeOf(doc, p)[1] \in Types
         /\ {TypeOf(doc, p)[2], StatusIn(doc, p)[2], TimeIn(doc, p)[2]} \subseteq Thousandths
         /\ Normalize(doc, p) # None
         /\ Succeeded(Normalize(doc, p)) <=>
              /\ ~TimeOverflows(Flatten(doc), p)
              /\ HasId(doc, p) /\ StatusIn(doc, p)[1] \in Statuses[TypeOf(doc, p)[1]]
         /\ Succeeded(Normalize(doc, p)) => Normalize(doc, p) = ReadingOf(doc, p)
         /\ Normalize(doc, p) = ValueError =>
              StatusIn(doc, p)[1] \notin Statuses[TypeOf(doc, p)[1]]
<1> DEFINE flat == Flatten(doc)
           data == ReadingOf(doc, p)
           confidences == {TypeOf(doc, p)[2], StatusIn(doc, p)[2], TimeIn(doc, p)[2]}
<1>1. flat \in Flats
  BY OnboardingAssumption DEF Flats
<1> HIDE DEF flat
<1>2. /\ IdOf(doc, p)[2] \in (Contents(flat) \ {Empty}) \cup {None}
      /\ RawOf(doc, p) \in (Contents(flat) \ {Empty}) \cup {None}
  BY <1>1, KeysTried, FirstEntryFacts DEF IdOf, RawOf, flat
<1>3. Contents(flat) \subseteq Values
  BY <1>1, ValueAtFacts
<1>4. TypeOf(doc, p)[1] \in Types /\ TypeOf(doc, p)[2] \in Thousandths
  BY ClassifyFacts DEF TypeOf, WellFormed
<1>5. RawOf(doc, p) \in (Values \ {Empty}) \cup {None} /\ StatusIn(doc, p)[2] \in Thousandths
  <2>1. RawOf(doc, p) \in (Values \ {Empty}) \cup {None}
    BY <1>2, <1>3
  <2> QED
    BY <1>4, <2>1, StatusFacts, Zenon DEF StatusIn
<1>6. /\ TimeIn(doc, p)[1] \in Instants \cup {Now}
      /\ TimeIn(doc, p)[1] \notin {None, Absent} /\ TimeIn(doc, p)[2] \in Thousandths
  BY <1>1, EventTimeFacts DEF TimeIn, flat, Thousandths
<1>7. Min(confidences) \in Thousandths
  BY <1>4, <1>5, <1>6, MinOfThree, Zenon
<1>8. Normalize(doc, p) =
        IF TimeOverflows(flat, p) THEN OverflowError
        ELSE IF HasId(doc, p) THEN FromDict(data) ELSE NormalizationError
  <2>1. Assemble(doc, p) = IF HasId(doc, p) THEN FromDict(data) ELSE NormalizationError
    BY DEF Assemble, HasId, ReadingOf, IdOf, TypeOf, RawOf, StatusIn, TimeIn
  <2> QED
    BY <2>1 DEF Normalize, flat
<1>9. ASSUME HasId(doc, p)
      PROVE  /\ Valid(data) <=> StatusIn(doc, p)[1] \in Statuses[TypeOf(doc, p)[1]]
             /\ [data EXCEPT !.entity_id = Str(@)] = data
  <2>1. Str(data.entity_id) = data.entity_id /\ data.entity_id # Absent
          /\ Str(data.entity_id) \notin Blank
    BY <1>2, <1>3, <1>9, NullAssumption DEF HasId, ReadingOf, Str
  <2>2. data.confidence \in 0..1000 /\ data.confidence \notin {None, Absent}
    <3>1. data.confidence = Min(confidences)
      BY DEF ReadingOf
    <3>2. \A c \in Thousandths : c \in 0..1000 /\ c \notin {None, Absent}
      BY NullAssumption DEF Thousandths
    <3> HIDE DEF data, confidences
    <3> QED
      BY <1>7, <3>1, <3>2
  <2>3. data.entity_type = TypeOf(doc, p)[1] /\ data.event_time = TimeIn(doc, p)[1]
          /\ data.canonical_status = StatusIn(doc, p)[1]
    BY DEF ReadingOf
  <2>4. Valid(data) <=> StatusIn(doc, p)[1] \in Statuses[TypeOf(doc, p)[1]]
    <3>1. IsObject(data)
      BY DEF IsObject, ReadingOf
    <3> HIDE DEF data
    <3> QED
      BY <1>4, <1>6, <2>1, <2>2, <2>3, <3>1 DEF Valid, InRange
  <2> QED
    BY <2>1, <2>4 DEF ReadingOf
<1>10. Valid(data) /\ HasId(doc, p) => data \in RuleReading
  <2> SUFFICES ASSUME Valid(data), HasId(doc, p)
               PROVE  data \in RuleReading
    OBVIOUS
  <2>1. IdOf(doc, p)[2] \in Values /\ RawOf(doc, p) \in Values \cup {None}
    BY <1>2, <1>3 DEF HasId
  <2>2. StatusIn(doc, p)[1] \in UNION {Statuses[t] : t \in Types}
    BY <1>4, <1>9
  <2>3. Min(confidences) \in 0..1000
    BY <1>7 DEF Thousandths
  <2> DEFINE least == Min(confidences)
  <2>4. data = [entity_type |-> TypeOf(doc, p)[1], entity_id |-> IdOf(doc, p)[2],
                canonical_status |-> StatusIn(doc, p)[1], event_time |-> TimeIn(doc, p)[1],
                confidence |-> least, source_status |-> RawOf(doc, p)]
    BY DEF ReadingOf
  <2> HIDE DEF data, least
  <2>5. least \in 0..1000
    BY <2>3 DEF least
  <2> QED
    BY <1>4, <1>6, <2>1, <2>2, <2>4, <2>5 DEF RuleReading
<1>11. "error" \notin DOMAIN data
  BY DEF ReadingOf
<1>12. /\ NormalizationError # ValueError /\ OverflowError # ValueError
       /\ ~Succeeded(NormalizationError) /\ ~Succeeded(ValueError)
       /\ ~Succeeded(OverflowError)
       /\ None # NormalizationError /\ None # ValueError /\ None # OverflowError
  BY Errors
<1>13. ValueError # data
  BY <1>11 DEF ValueError
<1> HIDE DEF data
<1>14. None # data \/ ~Valid(data) \/ ~HasId(doc, p)
  BY <1>10, NullAssumption
<1> QED
  BY <1>1, <1>2, <1>3, <1>4, <1>5, <1>6, <1>8, <1>9, <1>11, <1>12, <1>13, <1>14
     DEF FromDict, Succeeded, flat, data

----------------------------------------------------------------------------
(* Discovery.                                                              *)

(***************************************************************************)
(* A function of 1..n takes finitely many values.                          *)
(***************************************************************************)
LEMMA FiniteImage ==
  ASSUME NEW n \in Nat, NEW f
  PROVE  IsFiniteSet({f[i] : i \in 1..n})
<1> DEFINE T == {f[i] : i \in 1..n}
           g == [i \in 1..n |-> f[i]]
<1>1. g \in Surjection(1..n, T)
  BY DEF Surjection
<1>2. IsFiniteSet(1..n)
  BY FS_Interval
<1> QED
  BY <1>1, <1>2, FS_Surjection

(***************************************************************************)
(* The samples have finitely many paths, each a sequence of segments.      *)
(***************************************************************************)
LEMMA KnownPathsFinite ==
  ASSUME NEW flats \in Seq(Flats)
  PROVE  IsFiniteSet(KnownPaths(flats)) /\ KnownPaths(flats) \subseteq Seq(STRING)
<1>1. ASSUME NEW flat \in Flats
      PROVE  IsFiniteSet(Paths(flat))
  <2> DEFINE f == [i \in 1..Len(flat) |-> flat[i][1]]
  <2>1. Len(flat) \in Nat /\ DOMAIN flat = 1..Len(flat)
    BY DEF Flats
  <2>2. IsFiniteSet({f[i] : i \in 1..Len(flat)})
    <3> HIDE DEF f
    <3> QED
      BY <2>1, FiniteImage
  <2>3. Paths(flat) = {f[i] : i \in 1..Len(flat)}
    BY <2>1 DEF Paths
  <2> QED
    BY <2>2, <2>3
<1> DEFINE g == [i \in 1..Len(flats) |-> Paths(flats[i])]
           family == {g[i] : i \in 1..Len(flats)}
<1>2. KnownPaths(flats) = UNION family
  BY DEF KnownPaths
<1>3. IsFiniteSet(family)
  <2>1. Len(flats) \in Nat
    OBVIOUS
  <2> HIDE DEF g
  <2> QED
    BY <2>1, FiniteImage
<1>4. \A T \in family : IsFiniteSet(T) /\ T \subseteq Seq(STRING)
  BY <1>1, ValueAtFacts
<1> HIDE DEF family
<1>5. IsFiniteSet(UNION family)
  BY <1>3, <1>4, FS_UNION
<1> QED
  BY <1>2, <1>4, <1>5

(***************************************************************************)
(* The samples of a vendor, flattened.                                     *)
(***************************************************************************)
LEMMA SampleFacts ==
  ASSUME NEW s \in SampleSets
  PROVE  /\ s \in Seq(Documents) /\ Range(s) \subseteq Documents
         /\ SamplesFlat(s) \in Seq(Flats)
         /\ DOMAIN SamplesFlat(s) = DOMAIN s
         /\ \A i \in DOMAIN s : SamplesFlat(s)[i] = Flatten(s[i])
         /\ \A p, q \in KnownPaths(SamplesFlat(s)) :
              PathRank[p] \in Nat /\ (p # q => PathRank[p] # PathRank[q])
<1>1. s \in Seq(Documents)
  BY SamplesAssumption
<1>2. \A i \in DOMAIN s : Flatten(s[i]) \in Flats
  BY <1>1, OnboardingAssumption DEF Flats
<1>3. SamplesFlat(s) \in [1..Len(s) -> Flats]
  BY <1>1, <1>2 DEF SamplesFlat
<1>4. SamplesFlat(s) \in Seq(Flats)
  BY <1>1, <1>3, SeqDef
<1>5. \A p, q \in KnownPaths(SamplesFlat(s)) :
        PathRank[p] \in Nat /\ (p # q => PathRank[p] # PathRank[q])
  BY SamplesAssumption
<1> QED
  BY <1>1, <1>4, <1>5 DEF SamplesFlat, Range

(***************************************************************************)
(* What a path holds across the samples: values that are not empty.        *)
(***************************************************************************)
LEMMA PathValuesFacts ==
  ASSUME NEW flats \in Seq(Flats), NEW path
  PROVE  /\ DOMAIN PathValues(flats, path) = Holding(flats, path)
         /\ Cardinality(Holding(flats, path)) \in Nat
         /\ Range(PathValues(flats, path)) \subseteq DOMAIN Token
         /\ \A i \in Holding(flats, path) :
              ValueAt(flats[i], path) \in Range(PathValues(flats, path))
<1>1. Holding(flats, path) \in SUBSET (1..Len(flats)) /\ Len(flats) \in Nat
  BY DEF Holding
<1>2. Cardinality(Holding(flats, path)) \in Nat
  <2>1. IsFiniteSet(1..Len(flats))
    BY <1>1, FS_Interval
  <2> QED
    BY <1>1, <2>1, FS_Subset, FS_CardinalityType
<1>3. \A i \in Holding(flats, path) : ValueAt(flats[i], path) \in Values \ {Empty}
  BY <1>1, ValueAtFacts DEF Holding
<1> QED
  BY <1>2, <1>3 DEF PathValues, Range, Values

(***************************************************************************)
(* The ranking of the paths for a field is a sequence of known paths.      *)
(***************************************************************************)
LEMMA RankFacts ==
  ASSUME NEW s \in SampleSets, NEW field \in {"id", "status", "time"}
  PROVE  Rank(SamplesFlat(s), field) \in Seq(KnownPaths(SamplesFlat(s)))
<1> DEFINE flats == SamplesFlat(s)
           known == KnownPaths(flats)
           name(p) == NameScore(p, KeysFor(field))
           seen(p) == PathValues(flats, p)
           coverage(p) == Cardinality(DOMAIN seen(p))
           fit == {p \in known : /\ coverage(p) > 0
                                 /\ LooksLike(field, p, seen(p))
                                 /\ name(p) > 0 \/ coverage(p) = Len(flats)}
           better(p, q) ==
             \/ name(p) > name(q)
             \/ name(p) = name(q) /\ coverage(p) > coverage(q)
             \/ /\ name(p) = name(q) /\ coverage(p) = coverage(q)
                /\ PathRank[p] < PathRank[q]
           order == {e \in fit \X fit : better(e[1], e[2])}
<1>1. flats \in Seq(Flats)
  BY SampleFacts
<1>2. fit \in SUBSET known
  OBVIOUS
<1>3. Rank(flats, field) = InOrder(fit, order)
  BY DEF Rank
<1>4. \A p, q \in fit : <<p, q>> \in order <=> better(p, q)
  OBVIOUS
<1>5. \A p : name(p) \in Int
  <2> TAKE p
  <2> DEFINE keys == KeysFor(field)
             named == {i \in DOMAIN keys : keys[i] = Last(p)}
  <2>1. keys \in Seq(STRING)
    BY RulesAssumption DEF KeysFor
  <2>2. named \in SUBSET Nat /\ Len(keys) \in Nat
    BY <2>1
  <2>3. named # {} => Min(named) \in Nat
    BY <2>2, MinFacts
  <2>4. name(p) = IF named # {} THEN Len(keys) + 1 - Min(named)
                  ELSE IF \E i \in DOMAIN keys : <<Last(p), keys[i]>> \in Within THEN 1 ELSE 0
    BY DEF NameScore
  <2> HIDE DEF named, keys, name
  <2> QED
    BY <2>2, <2>3, <2>4
<1>6. \A p : coverage(p) \in Nat
  BY <1>1, PathValuesFacts
<1>7. \A p, q \in fit : PathRank[p] \in Nat /\ (p # q => PathRank[p] # PathRank[q])
  BY <1>2, SampleFacts
<1>8. IsFiniteSet(fit)
  BY <1>1, <1>2, KnownPathsFinite, FS_Subset
<1> HIDE DEF flats, known, name, coverage, fit, order
<1>9. \A p \in fit : <<p, p>> \notin order
  BY <1>4, <1>5, <1>6, <1>7
<1>10. ASSUME NEW p \in fit, NEW q \in fit, NEW r \in fit,
              <<p, q>> \in order, <<q, r>> \in order
       PROVE  <<p, r>> \in order
  <2>1. better(p, q) /\ better(q, r)
    BY <1>4, <1>10
  <2>2. better(p, r)
    BY <1>5, <1>6, <1>7, <2>1
  <2> QED
    BY <1>4, <2>2
<1>11. ASSUME NEW p \in fit, NEW q \in fit, p # q
       PROVE  <<p, q>> \in order \/ <<q, p>> \in order
  BY <1>4, <1>5, <1>6, <1>7, <1>11
<1>12. InOrder(fit, order) \in Seq(fit)
  BY <1>8, <1>9, <1>10, <1>11, InOrderFacts
<1> QED
  BY <1>2, <1>3, <1>12, SeqMonotonic DEF flats, known

(***************************************************************************)
(* Discovery gives a word the meaning that the rules give it without a     *)
(* profile, or none.                                                       *)
(***************************************************************************)
LEMMA MapStatusFacts ==
  ASSUME NEW token \in Seq(STRING), NEW type \in {"SHIPMENT", "INVOICE"}
  PROVE  LET words == DOMAIN Table[type] IN
         MapStatus(type, token) =
           IF Interpreted(token, words) = {} THEN None
           ELSE Table[type][Longest(token, words)]
<1> DEFINE words == DOMAIN Table[type]
           tried == SuffixesTried(token)
           hits == {i \in DOMAIN tried : tried[i] \in words}
           all == <<token>> \o tried
           found == {i \in DOMAIN all : all[i] \in words}
<1>1. tried \in Seq(Seq(STRING)) /\ hits \in SUBSET Nat
  <2>1. tried \in Seq(Seq(STRING))
    BY SuffixFacts
  <2> HIDE DEF tried, words
  <2>2. DOMAIN tried \subseteq Nat
    BY <2>1
  <2> QED
    BY <2>1, <2>2
<1>2. /\ DOMAIN all = 1..(Len(tried) + 1) /\ Len(tried) \in Nat
      /\ all[1] = token
      /\ \A i \in 1..Len(tried) : all[i + 1] = tried[i]
  BY <1>1
<1>3. MapStatus(type, token) =
        IF found = {} THEN None ELSE Table[type][all[Min(found)]]
  <2>1. type # Untyped
    BY DEF Untyped
  <2> QED
    BY <2>1 DEF MapStatus
<1>4. /\ token \in words =>
           Interpreted(token, words) # {} /\ Longest(token, words) = token
      /\ token \notin words /\ hits # {} =>
           /\ Interpreted(token, words) # {}
           /\ Longest(token, words) = tried[Min(hits)]
           /\ tried[Min(hits)] \in words
      /\ token \notin words /\ hits = {} => Interpreted(token, words) = {}
  <2> HIDE DEF words
  <2> QED
    BY LongestFacts, Zenon
<1>5. \A i : i \in found <=> i \in 1..(Len(tried) + 1) /\ all[i] \in words
  BY <1>2
<1>6. \A i : i \in hits <=> i \in 1..Len(tried) /\ tried[i] \in words
  BY <1>1
<1>7. found \in SUBSET Nat
  BY <1>2
<1> HIDE DEF words, tried, hits, all, found
<1>8. CASE token \in words
  <2>1. 1 \in found
    BY <1>2, <1>5, <1>8
  <2>2. Min(found) = 1
    BY <1>5, <1>7, <2>1, MinFacts
  <2> QED
    BY <1>2, <1>3, <1>4, <1>8, <2>1, <2>2 DEF words
<1>9. CASE token \notin words /\ hits # {}
  <2> DEFINE j == Min(hits)
  <2>1. j \in hits /\ \A i \in hits : j <= i
    BY <1>1, <1>9, MinFacts
  <2> HIDE DEF j
  <2>2. j + 1 \in found
    BY <1>2, <1>5, <1>6, <2>1
  <2>3. Min(found) \in found /\ Min(found) <= j + 1
    BY <1>7, <2>2, MinFacts
  <2>4. ASSUME NEW i \in found
        PROVE  i >= j + 1
    <3>1. i # 1 /\ i \in 1..(Len(tried) + 1)
      BY <1>2, <1>5, <1>9
    <3>2. i - 1 \in 1..Len(tried) /\ (i - 1) + 1 = i
      BY <1>2, <3>1
    <3>3. all[i] = tried[i - 1]
      BY <1>2, <3>2
    <3>4. i - 1 \in hits
      BY <1>5, <1>6, <3>2, <3>3
    <3> QED
      BY <1>1, <2>1, <3>2, <3>4
  <2>5. j \in 1..Len(tried) /\ j \in Nat /\ Min(found) \in Nat
    BY <1>1, <1>2, <1>6, <1>7, <2>1, <2>3
  <2>6. Min(found) >= j + 1
    BY <2>3, <2>4
  <2>7. Min(found) = j + 1
    BY <2>3, <2>5, <2>6
  <2>8. all[Min(found)] = tried[Min(hits)]
    BY <1>2, <2>5, <2>7 DEF j
  <2> QED
    BY <1>3, <1>4, <1>9, <2>2, <2>8 DEF words
<1>10. CASE token \notin words /\ hits = {}
  <2>1. ASSUME NEW i \in found
        PROVE  FALSE
    <3>1. i # 1 /\ i \in 1..(Len(tried) + 1)
      BY <1>2, <1>5, <1>10
    <3>2. i - 1 \in 1..Len(tried) /\ (i - 1) + 1 = i
      BY <1>2, <3>1
    <3> QED
      BY <1>2, <1>5, <1>6, <1>10, <3>2
  <2> QED
    BY <1>3, <1>4, <1>10, <2>1 DEF words
<1> QED
  BY <1>8, <1>9, <1>10

(***************************************************************************)
(* Every list of the profile names paths of the samples only.              *)
(***************************************************************************)
PathsKnown(p, s) ==
  LET known == KnownPaths(SamplesFlat(s)) IN
  p.id_paths \in Seq(known) /\ p.status_paths \in Seq(known) /\ p.time_paths \in Seq(known)

(***************************************************************************)
(* The statistical reading: its paths are in the samples, it maps a word   *)
(* by the table of its own type, and it sorts every word at the best       *)
(* status path into mapped and unmapped.                                   *)
(***************************************************************************)
LEMMA DiscoverFacts ==
  ASSUME NEW s \in SampleSets
  PROVE  LET found == DiscoverStatistically(s)
             p == found.profile
             best == p.status_paths[1]
             flats == SamplesFlat(s)
         IN /\ PathsKnown(p, s)
            /\ p.entity_type \in {"SHIPMENT", "INVOICE", Untyped}
            /\ \A t \in DOMAIN p.status_map :
                 /\ t \in Seq(STRING)
                 /\ p.status_map[t] = MapStatus(p.entity_type, t)
                 /\ p.status_map[t] # None
            /\ p.entity_type = Untyped => DOMAIN p.status_map = {}
            /\ p.status_paths # <<>> =>
                 \A i \in Holding(flats, best) :
                   Token[ValueAt(flats[i], best)] \in DOMAIN p.status_map \cup found.unmapped
<1> DEFINE flats == SamplesFlat(s)
           known == KnownPaths(flats)
           ids == Rank(flats, "id")
           statuses == Rank(flats, "status")
           times == Rank(flats, "time")
           type == ClassifyEntityType(flats, IF ids = <<>> THEN None ELSE ids[1])
           tokens == IF statuses = <<>> THEN {}
                     ELSE {Token[v] : v \in Range(PathValues(flats, statuses[1]))}
           mapped == {t \in tokens : MapStatus(type, t) # None}
           p == [entity_type |-> type, id_paths |-> First4(ids),
                 status_paths |-> First4(statuses), time_paths |-> First4(times),
                 status_map |-> [t \in mapped |-> MapStatus(type, t)]]
<1>1. DiscoverStatistically(s) = [profile |-> p, unmapped |-> tokens \ mapped]
  BY DEF DiscoverStatistically
<1>2. ids \in Seq(known) /\ statuses \in Seq(known) /\ times \in Seq(known)
  BY RankFacts
<1>3. flats \in Seq(Flats)
  BY SampleFacts
<1>4. type \in {"SHIPMENT", "INVOICE", Untyped}
  <2>1. \A f, k : Classify(f, k, NoProfile)[1] \in Types
    <3>1. NoProfile.entity_type \in Types \cup {Untyped}
      BY DEF NoProfile
    <3> QED
      BY <3>1, ClassifyFacts
  <2> QED
    BY <2>1 DEF ClassifyEntityType, Types
<1>5. tokens \subseteq Seq(STRING)
  <2>1. \A v \in Range(PathValues(flats, statuses[1])) : Token[v] \in Seq(STRING)
    BY <1>3, PathValuesFacts, RulesAssumption
  <2> HIDE DEF statuses
  <2> QED
    BY <2>1
<1> HIDE DEF ids, statuses, times, type, flats, known
<1>6. /\ First4(ids) \in Seq(known) /\ First4(statuses) \in Seq(known) /\ First4(times) \in Seq(known)
      /\ First4(statuses) # <<>> => statuses # <<>> /\ First4(statuses)[1] = statuses[1]
  BY <1>2, First4Facts
<1>7. type = Untyped => mapped = {}
  BY DEF MapStatus
<1>8. ASSUME First4(statuses) # <<>>, NEW i \in Holding(flats, First4(statuses)[1])
      PROVE  Token[ValueAt(flats[i], First4(statuses)[1])] \in tokens
  <2>1. ValueAt(flats[i], statuses[1]) \in Range(PathValues(flats, statuses[1]))
    BY <1>3, <1>6, <1>8, PathValuesFacts
  <2> QED
    BY <1>6, <1>8, <2>1
<1>9. PathsKnown(p, s)
  BY <1>6 DEF PathsKnown, known, flats
<1>10. /\ p.entity_type = type /\ p.status_paths = First4(statuses)
       /\ DOMAIN p.status_map = mapped
       /\ \A t \in mapped : p.status_map[t] = MapStatus(type, t)
  OBVIOUS
<1>11. /\ DiscoverStatistically(s).profile = p
       /\ DiscoverStatistically(s).unmapped = tokens \ mapped
  BY <1>1
<1>12. mapped \subseteq tokens /\ \A t \in mapped : MapStatus(type, t) # None
  OBVIOUS
<1> HIDE DEF tokens, mapped, p
<1> QED
  BY <1>4, <1>5, <1>7, <1>8, <1>9, <1>10, <1>11, <1>12 DEF flats

(***************************************************************************)
(* What the proposal of a vendor may be: the statistical reading, or that  *)
(* with the answer of a model merged into it.                              *)
(***************************************************************************)
Proposable(s) ==
  LET found == DiscoverStatistically(s) IN
  {found} \cup {MergeModelProposal(found, answer, s) : answer \in Proposals}

(* The profile maps words to statuses of its own type, if it names one,    *)
(* and maps none otherwise.                                                *)
OwnStatuses(p) ==
  \A t \in DOMAIN p.status_map :
    p.entity_type \in Types /\ p.status_map[t] \in Statuses[p.entity_type]

(***************************************************************************)
(* A list of paths of the samples is a list of keys.                       *)
(***************************************************************************)
LEMMA KnownIsWellFormed ==
  ASSUME NEW s \in SampleSets, NEW p, PathsKnown(p, s),
         p.entity_type \in Types \cup {Untyped}
  PROVE  WellFormed(p)
<1> DEFINE known == KnownPaths(SamplesFlat(s))
<1>1. known \subseteq Seq(STRING)
  BY SampleFacts, KnownPathsFinite
<1>2. p.id_paths \in Seq(known) /\ p.status_paths \in Seq(known) /\ p.time_paths \in Seq(known)
  BY DEF PathsKnown
<1> HIDE DEF known
<1>3. Seq(known) \subseteq KeyLists
  BY <1>1, SeqMonotonic DEF KeyLists
<1> QED
  BY <1>2, <1>3 DEF WellFormed, PathLists

(***************************************************************************)
(* Of the paths a model proposes those are kept that the samples have, and *)
(* of the statistical ones those it missed.                                *)
(***************************************************************************)
LEMMA KeepPathsFacts ==
  ASSUME NEW known, NEW proposed \in KeyLists, NEW existing \in Seq(known)
  PROVE  First4(KeepPaths(proposed, existing, known)) \in Seq(known)
<1> DEFINE valid == Kept(proposed, known)
           missed == Kept(existing, Range(existing) \ Range(valid))
<1>1. valid \in Seq(known \cap Seq(STRING))
  BY KeptFacts DEF KeyLists
<1>2. valid \in Seq(known)
  <2>1. Seq(known \cap Seq(STRING)) \subseteq Seq(known)
    BY SeqMonotonic
  <2> QED
    BY <1>1, <2>1
<1>3. missed \in Seq(known)
  <2> DEFINE S == Range(existing) \ Range(valid)
  <2> HIDE DEF S
  <2>1. Kept(existing, S) \in Seq(S \cap known)
    BY KeptFacts
  <2>2. Seq(S \cap known) \subseteq Seq(known)
    BY SeqMonotonic
  <2> QED
    BY <2>1, <2>2 DEF S
<1>4. KeepPaths(proposed, existing, known) = valid \o missed
  BY DEF KeepPaths
<1> HIDE DEF valid, missed
<1>5. KeepPaths(proposed, existing, known) \in Seq(known)
  BY <1>2, <1>3, <1>4
<1> QED
  BY <1>5, First4Facts

(***************************************************************************)
(* What a model may add: paths of the samples, and statuses of the type.   *)
(* Every word that discovery has seen stays mapped or unmapped.  Only when *)
(* the type is overruled can the profile have a status of another type.    *)
(***************************************************************************)
LEMMA ProposableFacts ==
  ASSUME NEW s \in SampleSets, NEW r \in Proposable(s)
  PROVE  LET found == DiscoverStatistically(s)
             old == found.profile
             p == r.profile
         IN /\ PathsKnown(p, s) /\ WellFormed(p)
            /\ p.entity_type = old.entity_type => OwnStatuses(p)
            /\ \A t \in DOMAIN p.status_map : p.status_map[t] # None
            /\ DOMAIN old.status_map \cup found.unmapped
                 \subseteq DOMAIN p.status_map \cup r.unmapped
<1> DEFINE found == DiscoverStatistically(s)
           old == found.profile
           known == KnownPaths(SamplesFlat(s))
<1>1. /\ PathsKnown(old, s)
      /\ old.entity_type \in {"SHIPMENT", "INVOICE", Untyped}
      /\ \A t \in DOMAIN old.status_map :
           /\ t \in Seq(STRING)
           /\ old.status_map[t] = MapStatus(old.entity_type, t)
           /\ old.status_map[t] # None
      /\ old.entity_type = Untyped => DOMAIN old.status_map = {}
  BY DiscoverFacts
<1>2. /\ old.id_paths \in Seq(known) /\ old.status_paths \in Seq(known)
      /\ old.time_paths \in Seq(known)
  BY <1>1 DEF PathsKnown
<1>3. ASSUME NEW t \in DOMAIN old.status_map
      PROVE  old.entity_type \in Types /\ old.status_map[t] \in Statuses[old.entity_type]
  <2> DEFINE type == old.entity_type
             words == DOMAIN Table[type]
  <2>1. type \in {"SHIPMENT", "INVOICE"} /\ t \in Seq(STRING)
          /\ old.status_map[t] = MapStatus(type, t) /\ MapStatus(type, t) # None
    BY <1>1, <1>3
  <2> HIDE DEF found, old, type
  <2>2. /\ Interpreted(t, words) # {}
        /\ MapStatus(type, t) = Table[type][Longest(t, words)]
    BY <2>1, MapStatusFacts
  <2>3. Longest(t, words) \in words
    BY <2>1, <2>2, LongestIsLongest
  <2>4. \A w \in words : Table[type][w] \in Statuses[type]
    BY <2>1, RulesAssumption
  <2> QED
    BY <2>1, <2>2, <2>3, <2>4 DEF Types, type
<1>4. CASE r = found
  <2>1. OwnStatuses(old)
    BY <1>3 DEF OwnStatuses
  <2>2. WellFormed(old)
    <3> HIDE DEF old
    <3> QED
      BY <1>1, KnownIsWellFormed DEF Types
  <2> QED
    BY <1>1, <1>4, <2>1, <2>2
<1>5. ASSUME NEW answer \in Proposals, r = MergeModelProposal(found, answer, s)
      PROVE  LET p == r.profile IN
             /\ PathsKnown(p, s) /\ WellFormed(p)
             /\ p.entity_type = old.entity_type => OwnStatuses(p)
             /\ \A t \in DOMAIN p.status_map : p.status_map[t] # None
             /\ DOMAIN old.status_map \cup found.unmapped
                  \subseteq DOMAIN p.status_map \cup r.unmapped
  <2> HIDE DEF found, old
  <2> DEFINE asked == IF answer.entity_type = Untyped THEN old.entity_type
                      ELSE answer.entity_type
             type == IF asked \in Types \cup {Untyped} THEN asked ELSE old.entity_type
             taken == AcceptedMappings(type, answer.status_map)
             keep(new, existing) == First4(KeepPaths(new, existing, known))
             map == [t \in DOMAIN old.status_map \cup taken |->
                       IF t \in taken THEN answer.status_map[t] ELSE old.status_map[t]]
             p == [entity_type |-> type,
                   id_paths |-> keep(answer.id_paths, old.id_paths),
                   status_paths |-> keep(answer.status_paths, old.status_paths),
                   time_paths |-> keep(answer.time_paths, old.time_paths),
                   status_map |-> map]
  <2>1. r = [profile |-> p, unmapped |-> found.unmapped \ taken]
    BY <1>5 DEF MergeModelProposal, old
  <2>2. /\ answer.id_paths \in KeyLists /\ answer.status_paths \in KeyLists
        /\ answer.time_paths \in KeyLists
    BY OnboardingAssumption DEF PathLists, KeyLists
  <2>3. type \in Types \cup {Untyped}
    BY <1>1 DEF Types
  <2>4. ASSUME NEW t \in taken
        PROVE  type \in Types /\ answer.status_map[t] \in Statuses[type]
                 /\ answer.status_map[t] # None
    <3>1. answer.status_map[t] \in CanonicalValues(type)
      BY <2>4 DEF AcceptedMappings
    <3> HIDE DEF type, taken
    <3>2. type \in {"SHIPMENT", "INVOICE"} /\ answer.status_map[t] \in Range(Table[type])
      BY <3>1 DEF CanonicalValues
    <3>3. answer.status_map[t] \in Statuses[type]
      BY <3>2, RulesAssumption DEF Range
    <3> QED
      BY <3>2, <3>3, NullAssumption DEF Types
  <2> HIDE DEF asked, type, taken, keep, map
  <2>5. /\ p.entity_type = type /\ p.status_map = map
        /\ p.id_paths = keep(answer.id_paths, old.id_paths)
        /\ p.status_paths = keep(answer.status_paths, old.status_paths)
        /\ p.time_paths = keep(answer.time_paths, old.time_paths)
    OBVIOUS
  <2>6. /\ DOMAIN map = DOMAIN old.status_map \cup taken
        /\ \A t \in taken : map[t] = answer.status_map[t]
        /\ \A t \in DOMAIN old.status_map \ taken : map[t] = old.status_map[t]
    BY DEF map
  <2>7. r.profile = p /\ r.unmapped = found.unmapped \ taken
    BY <2>1
  <2> HIDE DEF p
  <2>8. PathsKnown(p, s)
    <3> HIDE DEF known
    <3>1. /\ keep(answer.id_paths, old.id_paths) \in Seq(known)
          /\ keep(answer.status_paths, old.status_paths) \in Seq(known)
          /\ keep(answer.time_paths, old.time_paths) \in Seq(known)
      BY <1>2, <2>2, KeepPathsFacts DEF keep
    <3> QED
      BY <2>5, <3>1 DEF PathsKnown, known
  <2>9. WellFormed(p)
    BY <2>3, <2>5, <2>8, KnownIsWellFormed
  <2>10. type = old.entity_type => OwnStatuses(p)
    BY <1>3, <2>4, <2>5, <2>6 DEF OwnStatuses
  <2>11. \A t \in DOMAIN map : map[t] # None
    BY <1>1, <2>4, <2>6
  <2> QED
    BY <2>5, <2>6, <2>7, <2>8, <2>9, <2>10, <2>11
<1> QED
  BY <1>4, <1>5 DEF Proposable

----------------------------------------------------------------------------
(* Where the profile and the reading are from.                             *)

ProposalOrigin ==
  /\ samples \in SampleSets
  /\ base # None => base = DiscoverStatistically(samples)
  /\ proposal # None => base # None /\ proposal \in Proposable(samples)

ProfileOrigin ==
  /\ source \in {"none", "DISCOVERED", "MANUAL"}
  /\ source = "none" => profile = NoProfile
  /\ source = "DISCOVERED" => proposal # None /\ profile = proposal.profile
  /\ source = "MANUAL" => WellFormed(profile) /\ Accepts(profile)

LessonOrigin ==
  taught # None =>
    /\ source = "MANUAL" /\ proposal # None
    /\ profile = WithWord(proposal.profile, taught[1], taught[2])

ReadingOrigin ==
  /\ payload # None =>
       payload \in Documents /\ reading \in {Normalize(payload, profile), LookupError}
  /\ payload = None => reading # ValueError
  /\ reading = None => payload = None
  /\ reading # None => base = None \/ proposal # None

IInv == ProposalOrigin /\ ProfileOrigin /\ LessonOrigin /\ ReadingOrigin

(***************************************************************************)
(* No profile, and none stored in any other way, makes the rules stumble.  *)
(***************************************************************************)
LEMMA StoredIsWellFormed ==
  IInv => WellFormed(profile)
<1>1. WellFormed(NoProfile)
  BY DEF WellFormed, NoProfile, PathLists, KeyLists
<1> QED
  BY <1>1, ProposableFacts DEF IInv, ProposalOrigin, ProfileOrigin

(***************************************************************************)
(* ValueError is none of the other failures, and the OpenAI normaliser     *)
(* lets none out.                                                          *)
(***************************************************************************)
LEMMA ErrorsDiffer ==
  /\ None # ValueError /\ None # LookupError /\ LookupError # ValueError
  /\ \A key, found, answer : OpenAINormalize(key, found, answer) # ValueError
<1>1. Retryable.error # ValueError.error
  BY DEF ValueError, Retryable
<1>2. NormalizationError # ValueError /\ Retryable # ValueError /\ LookupError # ValueError
  BY <1>1, Errors
<1>3. ASSUME NEW key, NEW found, NEW answer
      PROVE  OpenAINormalize(key, found, answer) # ValueError
  <2> HIDE DEF NormalizationError, Retryable, ValueError, LookupError
  <2> QED
    BY <1>2 DEF OpenAINormalize
<1> QED
  BY <1>2, <1>3, Errors

(***************************************************************************)
(* What was read at all was read with the stored profile.                  *)
(***************************************************************************)
LEMMA ReadWithProfile ==
  ASSUME IInv, payload # None, Succeeded(reading)
  PROVE  payload \in Documents /\ reading = Normalize(payload, profile)
  BY Errors DEF IInv, ReadingOrigin

(***************************************************************************)
(* In the beginning nothing is proposed, stored or read.                   *)
(***************************************************************************)
LEMMA Initially == Init => IInv
  BY ErrorsDiffer
     DEF Init, IInv, ProposalOrigin, ProfileOrigin, LessonOrigin, ReadingOrigin

(***************************************************************************)
(* Proposing: what is stored, if it is, is the proposal itself, and nobody *)
(* has taught a word yet.                                                  *)
(***************************************************************************)
LEMMA ProposePreserves ==
  ASSUME IInv, NEW result \in Proposable(samples), NEW persist \in BOOLEAN,
         Propose(result, persist)
  PROVE  IInv'
<1>1. result # None
  BY SamplesAssumption DEF IInv, ProposalOrigin, Proposable
<1>2. ProposalOrigin'
  BY DEF IInv, ProposalOrigin, Propose
<1>3. ProfileOrigin'
  BY <1>1 DEF IInv, ProfileOrigin, Propose, Accepts, WellFormed, PathLists
<1>4. LessonOrigin' /\ ReadingOrigin'
  BY DEF IInv, LessonOrigin, ReadingOrigin, Propose
<1> QED
  BY <1>2, <1>3, <1>4 DEF IInv

(***************************************************************************)
(* A PUT stores what the serializer accepted, and remembers the lesson.    *)
(***************************************************************************)
LEMMA PutPreserves ==
  ASSUME IInv, NEW spec, NEW lesson, WellFormed(spec), Put(spec, lesson),
         lesson # None =>
           proposal # None /\ spec = WithWord(proposal.profile, lesson[1], lesson[2])
  PROVE  IInv'
<1>1. ProposalOrigin'
  BY DEF IInv, ProposalOrigin, Put
<1>2. ProfileOrigin'
  BY DEF IInv, ProfileOrigin, Put, WellFormed, PathLists, Accepts
<1>3. LessonOrigin' /\ ReadingOrigin'
  BY DEF IInv, LessonOrigin, ReadingOrigin, Put
<1> QED
  BY <1>1, <1>2, <1>3 DEF IInv

(***************************************************************************)
(* A lesson changes the words of a profile and nothing else.               *)
(***************************************************************************)
LEMMA WithWordFacts ==
  ASSUME NEW s \in SampleSets, NEW r \in Proposable(s), NEW token, NEW status
  PROVE  LET p == WithWord(r.profile, token, status) IN
         /\ p.entity_type = r.profile.entity_type
         /\ p.id_paths = r.profile.id_paths
         /\ p.status_paths = r.profile.status_paths
         /\ p.time_paths = r.profile.time_paths
         /\ token \in DOMAIN p.status_map /\ p.status_map[token] = status
<1> DEFINE q == r.profile
           map == [t \in DOMAIN q.status_map \cup {token} |->
                     IF t = token THEN status ELSE q.status_map[t]]
<1>1. PICK e, a, b, c, d : q = [entity_type |-> e, id_paths |-> a, status_paths |-> b,
                                time_paths |-> c, status_map |-> d]
  <2>1. CASE r = DiscoverStatistically(s)
    BY <2>1 DEF DiscoverStatistically
  <2>2. ASSUME NEW answer \in Proposals,
               r = MergeModelProposal(DiscoverStatistically(s), answer, s)
        PROVE  \E e, a, b, c, d : q = [entity_type |-> e, id_paths |-> a, status_paths |-> b,
                                       time_paths |-> c, status_map |-> d]
    BY <2>2 DEF MergeModelProposal
  <2> QED
    BY <2>1, <2>2 DEF Proposable
<1>2. WithWord(q, token, status) = [q EXCEPT !.status_map = map]
  BY DEF WithWord
<1>3. token \in DOMAIN map /\ map[token] = status
  OBVIOUS
<1> HIDE DEF map, q
<1> QED
  BY <1>1, <1>2, <1>3 DEF q

(***************************************************************************)
(* Receiving: the rules always make something of a webhook, with whatever  *)
(* profile is stored.                                                      *)
(***************************************************************************)
LEMMA ReceivePreserves ==
  ASSUME IInv, NEW doc \in Payloads \cup Range(samples), Receive(doc)
  PROVE  IInv'
<1>1. doc \in Documents
  BY DEF Documents, IInv, ProposalOrigin
<1>2. Normalize(doc, profile) # None /\ LookupError # None
  BY <1>1, StoredIsWellFormed, ReadingFacts, ErrorsDiffer
<1>3. ProposalOrigin' /\ ProfileOrigin' /\ LessonOrigin'
  BY DEF IInv, ProposalOrigin, ProfileOrigin, LessonOrigin, Receive, Accepts, WellFormed, PathLists
<1>4. ReadingOrigin'
  BY <1>1, <1>2, OnboardingAssumption
     DEF ReadingOrigin, Receive, ReadyToReceive, RulesNormalize
<1> QED
  BY <1>3, <1>4 DEF IInv

(***************************************************************************)
(* Every step keeps what is known of where things are from.                *)
(***************************************************************************)
LEMMA Inductive == IInv /\ [Next]_vars => IInv'
<1> SUFFICES ASSUME IInv, [Next]_vars
             PROVE  IInv'
  OBVIOUS
<1>1. CASE Discover
  BY <1>1 DEF Discover, IInv, ProposalOrigin, ProfileOrigin, LessonOrigin, ReadingOrigin,
              Accepts, WellFormed, PathLists
<1>2. ASSUME NEW persist \in BOOLEAN, ProposeStatistical(persist)
      PROVE  IInv'
  <2>1. base \in Proposable(samples) /\ Propose(base, persist)
    BY <1>2 DEF ProposeStatistical, Propose, IInv, ProposalOrigin, Proposable
  <2> QED
    BY <2>1, ProposePreserves
<1>3. ASSUME NEW answer \in Proposals, NEW persist \in BOOLEAN,
             ProposeWithModel(answer, persist)
      PROVE  IInv'
  <2> DEFINE result == MergeModelProposal(base, answer, samples)
  <2>1. result \in Proposable(samples) /\ Propose(result, persist)
    BY <1>3 DEF ProposeWithModel, Propose, IInv, ProposalOrigin, Proposable
  <2> HIDE DEF result
  <2> QED
    BY <2>1, ProposePreserves
<1>4. CASE ProposalIsNonsense
  BY <1>4 DEF ProposalIsNonsense, IInv, ProposalOrigin, ProfileOrigin, LessonOrigin,
              ReadingOrigin, Accepts, WellFormed, PathLists
<1>5. ASSUME NEW spec \in HandWritten, PutHandWritten(spec)
      PROVE  IInv'
  <2>1. WellFormed(spec)
    BY OnboardingAssumption DEF WellFormed, KeyLists
  <2>2. Put(spec, None)
    BY <1>5 DEF PutHandWritten
  <2> QED
    BY <2>1, <2>2, PutPreserves
<1>6. ASSUME NEW status \in Lessons, Teach(status)
      PROVE  IInv'
  <2>1. PICK token \in proposal.unmapped :
          Put(WithWord(proposal.profile, token, status), <<token, status>>)
    BY <1>6 DEF Teach
  <2> DEFINE spec == WithWord(proposal.profile, token, status)
             lesson == <<token, status>>
  <2>2. proposal # None /\ samples \in SampleSets /\ proposal \in Proposable(samples)
    BY <1>6 DEF Teach, IInv, ProposalOrigin
  <2>3. WellFormed(spec)
    <3>1. WellFormed(proposal.profile)
      BY <2>2, ProposableFacts
    <3>2. /\ spec.entity_type = proposal.profile.entity_type
          /\ spec.id_paths = proposal.profile.id_paths
          /\ spec.status_paths = proposal.profile.status_paths
          /\ spec.time_paths = proposal.profile.time_paths
      BY <2>2, WithWordFacts
    <3> HIDE DEF spec
    <3> QED
      BY <3>1, <3>2 DEF WellFormed, PathLists
  <2>4. spec = WithWord(proposal.profile, lesson[1], lesson[2])
    OBVIOUS
  <2>5. Put(spec, lesson)
    BY <2>1
  <2> HIDE DEF spec, lesson
  <2> QED
    BY <2>2, <2>3, <2>4, <2>5, PutPreserves
<1>7. ASSUME NEW doc \in Payloads \cup Range(samples), Receive(doc)
      PROVE  IInv'
  BY <1>7, ReceivePreserves
<1>8. ASSUME NEW answer \in Answers, ReceiveByModel(answer)
      PROVE  IInv'
  <2>1. reading' # ValueError
    BY <1>8, ErrorsDiffer DEF ReceiveByModel
  <2> QED
    BY <1>8, <2>1 DEF ReceiveByModel, ReadyToReceive, IInv, ProposalOrigin, ProfileOrigin,
                      LessonOrigin, ReadingOrigin, Accepts, WellFormed, PathLists
<1>9. CASE UNCHANGED vars
  BY <1>9 DEF vars, IInv, ProposalOrigin, ProfileOrigin, LessonOrigin, ReadingOrigin,
              Accepts, WellFormed, PathLists
<1> QED
  BY <1>1, <1>2, <1>3, <1>4, <1>5, <1>6, <1>7, <1>8, <1>9 DEF Next

(***************************************************************************)
(* The stored profile is none, the proposal, or one that the serializer    *)
(* accepted, and the reading is what the rules make of the webhook with it.*)
(***************************************************************************)
THEOREM Provenance == Spec => []IInv
  BY Initially, Inductive, PTL DEF Spec

----------------------------------------------------------------------------
(* The properties.                                                         *)

(***************************************************************************)
(* A profile that maps words to statuses of its own type never makes the   *)
(* schema refuse the status.                                               *)
(***************************************************************************)
LEMMA OwnStatusesFit ==
  ASSUME NEW doc \in Documents, NEW p, WellFormed(p), OwnStatuses(p)
  PROVE  StatusIn(doc, p)[1] \in Statuses[TypeOf(doc, p)[1]]
<1> DEFINE type == TypeOf(doc, p)[1]
           raw == RawOf(doc, p)
<1>1. type \in Types /\ raw \in (Values \ {Empty}) \cup {None}
  BY ReadingFacts
<1>2. Fits(p, type)
  <2>1. p.entity_type \in Types => type = p.entity_type
    BY ClassifyFacts DEF TypeOf, Types, Untyped
  <2> QED
    BY <2>1 DEF OwnStatuses, Fits
<1>3. StatusIn(doc, p) = StatusOf(type, raw, p)
  BY DEF StatusIn
<1> HIDE DEF type, raw
<1>4. CASE type = "UNCLASSIFIED"
  <2>1. StatusOf(type, raw, p) = Abstention
    BY <1>1, <1>4, StatusFacts, Zenon
  <2> QED
    BY <1>3, <1>4, <2>1, RulesAssumption DEF type, Abstention
<1>5. CASE type # "UNCLASSIFIED" /\ ~Interprets(type, raw, p)
  <2>1. StatusOf(type, raw, p)[1] \in Statuses[type]
    BY <1>1, <1>5, StatusFacts, Zenon
  <2> QED
    BY <1>3, <2>1 DEF type
<1>6. CASE type # "UNCLASSIFIED" /\ Interprets(type, raw, p)
  <2>1. StatusOf(type, raw, p)[1] = Meaning(type, Token[raw], p.status_map)
    BY <1>1, <1>6, StatusFacts, Zenon
  <2>2. type \in {"SHIPMENT", "INVOICE"} /\ Token[raw] \in Seq(STRING)
          /\ Interpreted(Token[raw], Words(type, p)) # {}
    BY <1>1, <1>6, RulesAssumption DEF Types, Interprets, Values
  <2> QED
    BY <1>2, <1>3, <2>1, <2>2, MeaningFacts DEF type
<1> QED
  BY <1>4, <1>5, <1>6

(***************************************************************************)
(* The other case: the schema refuses what the rules made of a webhook     *)
(* only if discovery stored the profile, with an entity type that a model  *)
(* had overruled after the samples' words were mapped under another.       *)
(***************************************************************************)
MisfitsAreOverruled ==
  reading = ValueError =>
    /\ payload # None
    /\ source = "DISCOVERED" /\ profile.entity_type # base.profile.entity_type

(***************************************************************************)
(* MisfitsAreOverruled holds for every vocabulary, vendor and model: the   *)
(* schema refuses a reading of the rules only under a discovered profile   *)
(* whose type the model has overruled.                                     *)
(***************************************************************************)
THEOREM MisfitsOverruled == Spec => []MisfitsAreOverruled
<1>1. IInv => MisfitsAreOverruled
  <2> SUFFICES ASSUME IInv, reading = ValueError,
                      ~(source = "DISCOVERED" /\ profile.entity_type # base.profile.entity_type)
               PROVE  FALSE
    <3>1. IInv /\ reading = ValueError => payload # None
      BY OnboardingAssumption, ErrorsDiffer DEF IInv, ReadingOrigin
    <3> QED
      BY <3>1 DEF MisfitsAreOverruled
  <2>1. payload \in Documents /\ Normalize(payload, profile) = ValueError
    BY ErrorsDiffer DEF IInv, ReadingOrigin
  <2>2. WellFormed(profile)
    BY StoredIsWellFormed
  <2>3. OwnStatuses(profile)
    <3>1. CASE source = "none"
      BY <3>1 DEF IInv, ProfileOrigin, NoProfile, OwnStatuses
    <3>2. CASE source = "MANUAL"
      <4>1. Accepts(profile)
        BY <3>2 DEF IInv, ProfileOrigin
      <4> QED
        BY <4>1 DEF Accepts, AllowedStatuses, OwnStatuses, Range
    <3>3. CASE source = "DISCOVERED"
      <4>1. /\ proposal # None /\ proposal \in Proposable(samples) /\ samples \in SampleSets
            /\ base = DiscoverStatistically(samples) /\ profile = proposal.profile
        BY <3>3 DEF IInv, ProfileOrigin, ProposalOrigin
      <4>2. proposal.profile.entity_type = DiscoverStatistically(samples).profile.entity_type
        BY <3>3, <4>1
      <4> QED
        BY <4>1, <4>2, ProposableFacts
    <3> QED
      BY <3>1, <3>2, <3>3 DEF IInv, ProfileOrigin
  <2> QED
    BY <2>1, <2>2, <2>3, OwnStatusesFit, ReadingFacts
<1> QED
  BY <1>1, Provenance, PTL

(***************************************************************************)
(* AcceptedProfilesFit holds for every vocabulary, vendor and model.       *)
(***************************************************************************)
THEOREM AcceptedFit == Spec => []AcceptedProfilesFit
<1>1. MisfitsAreOverruled => AcceptedProfilesFit
  BY DEF MisfitsAreOverruled, AcceptedProfilesFit
<1> QED
  BY <1>1, MisfitsOverruled, PTL

(***************************************************************************)
(* PathsExistInSamples holds for every answer of a model.                  *)
(***************************************************************************)
THEOREM PathsExist == Spec => []PathsExistInSamples
<1>1. IInv => PathsExistInSamples
  <2> SUFFICES ASSUME IInv, proposal # None
               PROVE  LET p == proposal.profile IN
                      Range(p.id_paths \o p.status_paths \o p.time_paths)
                        \subseteq KnownPaths(SamplesFlat(samples))
    BY DEF PathsExistInSamples
  <2> DEFINE p == proposal.profile
             known == KnownPaths(SamplesFlat(samples))
  <2>1. PathsKnown(p, samples)
    BY ProposableFacts DEF IInv, ProposalOrigin
  <2>2. p.id_paths \in Seq(known) /\ p.status_paths \in Seq(known) /\ p.time_paths \in Seq(known)
    BY <2>1 DEF PathsKnown
  <2> HIDE DEF p, known
  <2> DEFINE all == p.id_paths \o p.status_paths \o p.time_paths
  <2>3. all \in Seq(known)
    BY <2>2
  <2> HIDE DEF all
  <2>4. Range(all) \subseteq known
    BY <2>3 DEF Range
  <2> QED
    BY <2>4 DEF all, p, known
<1> QED
  BY <1>1, Provenance, PTL

(***************************************************************************)
(* TrustedIsRecognised holds for every threshold above the confidence of a *)
(* guess.                                                                  *)
(***************************************************************************)
THEOREM TrustedRecognised == Spec => []TrustedIsRecognised
<1>1. IInv => TrustedIsRecognised
  <2> SUFFICES ASSUME IInv, Threshold > 400, payload # None, Succeeded(reading),
                      Trusted(reading)
               PROVE  LET values == Contents(Flatten(payload)) \ {Empty} IN
                      /\ reading.entity_type # "UNCLASSIFIED"
                      /\ reading.source_status \in values
                      /\ reading.canonical_status =
                           Meaning(reading.entity_type, Token[reading.source_status],
                                   profile.status_map)
                      /\ reading.event_time \in {TimeOf[v] : v \in values}
                      /\ reading.entity_id \in values
    BY DEF TrustedIsRecognised
  <2> DEFINE values == Contents(Flatten(payload)) \ {Empty}
             type == TypeOf(payload, profile)
             raw == RawOf(payload, profile)
             status == StatusIn(payload, profile)
             time == TimeIn(payload, profile)
  <2>1. payload \in Documents /\ reading = Normalize(payload, profile) /\ WellFormed(profile)
    BY StoredIsWellFormed, ReadWithProfile
  <2>2. /\ reading = ReadingOf(payload, profile)
        /\ Flatten(payload) \in Flats
        /\ HasId(payload, profile)
        /\ IdOf(payload, profile)[2] \in values \cup {None}
        /\ raw \in values \cup {None}
        /\ raw \in (Values \ {Empty}) \cup {None}
        /\ type[1] \in Types
        /\ {type[2], status[2], time[2]} \subseteq Thousandths
    BY <2>1, ReadingFacts
  <2>3. /\ reading.entity_type = type[1] /\ reading.source_status = raw
        /\ reading.canonical_status = status[1] /\ reading.event_time = time[1]
        /\ reading.entity_id = IdOf(payload, profile)[2]
        /\ reading.confidence = Min({type[2], status[2], time[2]})
    BY <2>2 DEF ReadingOf
  <2>4. IdOf(payload, profile)[2] \in values
    BY <2>2 DEF HasId
  <2>5. status = StatusOf(type[1], raw, profile) /\ time = EventTime(Flatten(payload), profile)
    BY DEF StatusIn, TimeIn
  <2> HIDE DEF values, type, raw, status, time
  <2>6. status[2] > 400 /\ time[2] > 400
    <3> DEFINE least == Min({type[2], status[2], time[2]})
    <3>1. least \in Thousandths /\ least <= status[2] /\ least <= time[2]
      BY <2>2, MinOfThree
    <3>2. reading.confidence = least
      BY <2>3
    <3> HIDE DEF least
    <3>3. Threshold \in Int /\ NaN \notin 0..1000
      BY NullAssumption, OnboardingAssumption
    <3>4. least >= Threshold
      BY <3>1, <3>2, <3>3 DEF Trusted, IsLowConfidence, Thousandths
    <3>5. status[2] \in Int /\ time[2] \in Int /\ least \in Int
      BY <2>2, <3>1, ThousandthsAreNumbers, Zenon
    <3> QED
      BY <3>1, <3>3, <3>4, <3>5
  <2>7. type[1] # "UNCLASSIFIED" /\ Interprets(type[1], raw, profile)
    <3>1. type[1] = "UNCLASSIFIED" => status = Abstention
      BY <2>2, <2>5, StatusFacts, Zenon
    <3>2. type[1] # "UNCLASSIFIED" /\ ~Interprets(type[1], raw, profile) =>
            status[2] = GuessConfidence(raw)
      BY <2>2, <2>5, StatusFacts, Zenon
    <3>3. status[2] \in Int
      BY <2>2, ThousandthsAreNumbers, Zenon
    <3> QED
      BY <2>6, <3>1, <3>2, <3>3 DEF Abstention, GuessConfidence
  <2>8. status[1] = Meaning(type[1], Token[raw], profile.status_map)
    BY <2>2, <2>5, <2>7, StatusFacts, Zenon
  <2>9. raw \in values
    BY <2>2, <2>7 DEF Interprets
  <2>10. time[1] \in {TimeOf[v] : v \in values}
    <3>1. time[1] = Now => time[2] = 400
      BY <2>1, <2>2, <2>5, EventTimeFacts
    <3>2. time[1] # Now
      BY <2>6, <3>1
    <3> QED
      BY <2>1, <2>2, <2>5, <3>2, EventTimeFacts DEF values
  <2> QED
    BY <2>3, <2>4, <2>7, <2>8, <2>9, <2>10 DEF values
<1> QED
  BY <1>1, Provenance, PTL

(***************************************************************************)
(* A word of the profile is its own longest interpreted suffix, so it      *)
(* means what the profile says.                                            *)
(***************************************************************************)
LEMMA KnownWordFacts ==
  ASSUME NEW type, NEW token \in Seq(STRING), NEW p, token \in DOMAIN p.status_map
  PROVE  /\ Interpreted(token, Words(type, p)) # {}
         /\ Longest(token, Words(type, p)) = token
         /\ Meaning(type, token, p.status_map) = p.status_map[token]
<1> DEFINE words == Words(type, p)
<1>1. token \in words
  BY DEF Words
<1>2. Interpreted(token, words) # {} /\ Longest(token, words) = token
  <2> HIDE DEF words
  <2> QED
    BY <1>1, LongestFacts, Zenon
<1> QED
  BY <1>2 DEF Meaning, Words

(***************************************************************************)
(* So the rules read it with that meaning, as sure as they ever are.       *)
(***************************************************************************)
LEMMA KnownWordStatus ==
  ASSUME NEW p, NEW type \in Types, NEW raw \in Values \ {Empty},
         raw # None, type # "UNCLASSIFIED", Token[raw] \in DOMAIN p.status_map
  PROVE  /\ StatusOf(type, raw, p)[1] = p.status_map[Token[raw]]
         /\ StatusOf(type, raw, p)[2] = 970
<1> DEFINE token == Token[raw]
<1>1. token \in Seq(STRING)
  BY RulesAssumption DEF Values
<1> HIDE DEF token
<1>2. token \in DOMAIN p.status_map
  BY DEF token
<1>3. /\ Interpreted(token, Words(type, p)) # {}
      /\ Longest(token, Words(type, p)) = token
      /\ Meaning(type, token, p.status_map) = p.status_map[token]
  BY <1>1, <1>2, KnownWordFacts, Zenon
<1>4. Interprets(type, raw, p)
  BY <1>3 DEF Interprets, token
<1>5. /\ StatusOf(type, raw, p)[1] = Meaning(type, Token[raw], p.status_map)
      /\ StatusOf(type, raw, p)[2] = WordConfidence(type, Token[raw], p)
  <2>1. raw \in (Values \ {Empty}) \cup {None}
    OBVIOUS
  <2> QED
    BY <1>4, <2>1, StatusFacts, Zenon
<1>6. WordConfidence(type, token, p) = 970
  BY <1>2, <1>3 DEF WordConfidence
<1> QED
  BY <1>3, <1>5, <1>6 DEF token

(***************************************************************************)
(* HeldWordIsReported holds for every set of samples and every answer of a *)
(* model.                                                                  *)
(***************************************************************************)
THEOREM HeldWordReported == Spec => []HeldWordIsReported
<1>1. IInv => HeldWordIsReported
  <2> DEFINE best == base.profile.status_paths[1]
             flat == Flatten(payload)
             token == Token[reading.source_status]
  <2> SUFFICES ASSUME IInv, source = "DISCOVERED", payload \in Range(samples),
                      Succeeded(reading), reading.entity_type # "UNCLASSIFIED",
                      base.profile.status_paths # <<>>, best \in Paths(flat),
                      ValueAt(flat, best) = reading.source_status,
                      Meaning(reading.entity_type, token, profile.status_map) = None
               PROVE  token \in proposal.unmapped
    BY DEF HeldWordIsReported
  <2>1. /\ proposal # None /\ proposal \in Proposable(samples) /\ samples \in SampleSets
        /\ base = DiscoverStatistically(samples) /\ profile = proposal.profile
    BY DEF IInv, ProfileOrigin, ProposalOrigin
  <2>2. payload \in Documents
    BY <2>1, SampleFacts
  <2>3. reading = Normalize(payload, profile) /\ WellFormed(profile)
    BY <2>2, StoredIsWellFormed, ReadWithProfile, OnboardingAssumption
  <2>4. /\ flat \in Flats /\ reading = ReadingOf(payload, profile)
        /\ RawOf(payload, profile) \in (Values \ {Empty}) \cup {None}
    BY <2>2, <2>3, ReadingFacts
  <2>5. reading.source_status = RawOf(payload, profile)
    BY <2>4 DEF ReadingOf
  <2>6. reading.source_status \in Values \ {Empty}
    <3>1. ValueAt(flat, best) \in Values
      <4> HIDE DEF flat, best
      <4> QED
        BY <2>4, ValueAtFacts, Zenon
    <3>2. None \notin Values
      BY NullAssumption
    <3> HIDE DEF flat, best
    <3> QED
      BY <2>4, <2>5, <3>1, <3>2, Zenon
  <2>7. PICK i \in DOMAIN samples : samples[i] = payload
    BY DEF Range
  <2>8. i \in Holding(SamplesFlat(samples), best) /\ SamplesFlat(samples)[i] = flat
    BY <2>1, <2>6, <2>7, SampleFacts DEF Holding
  <2>9. token \in DOMAIN base.profile.status_map \cup base.unmapped
    BY <2>1, <2>8, DiscoverFacts
  <2>10. token \in DOMAIN profile.status_map \cup proposal.unmapped
    BY <2>1, <2>9, ProposableFacts
  <2>11. token \notin DOMAIN profile.status_map
    <3>1. token \in Seq(STRING)
      BY <2>6, RulesAssumption DEF Values
    <3>2. \A t \in DOMAIN profile.status_map : profile.status_map[t] # None
      BY <2>1, ProposableFacts
    <3> HIDE DEF token
    <3>3. ASSUME token \in DOMAIN profile.status_map
          PROVE  FALSE
      <4>1. Meaning(reading.entity_type, token, profile.status_map) = profile.status_map[token]
        BY <3>1, <3>3, KnownWordFacts, Zenon
      <4> QED
        BY <3>2, <3>3, <4>1
    <3> QED
      BY <3>3
  <2> QED
    BY <2>10, <2>11
<1> QED
  BY <1>1, Provenance, PTL

(***************************************************************************)
(* The profile of a person who taught a word: the proposal and the word.   *)
(***************************************************************************)
LEMMA TaughtFacts ==
  ASSUME IInv, taught # None
  PROVE  LET old == proposal.profile IN
         /\ profile.entity_type = old.entity_type /\ profile.id_paths = old.id_paths
         /\ profile.status_paths = old.status_paths /\ profile.time_paths = old.time_paths
         /\ taught[1] \in DOMAIN profile.status_map /\ profile.status_map[taught[1]] = taught[2]
<1> DEFINE token == taught[1]
           meant == taught[2]
           spec == WithWord(proposal.profile, token, meant)
<1>1. /\ proposal \in Proposable(samples) /\ samples \in SampleSets /\ profile = spec
  BY DEF IInv, ProposalOrigin, LessonOrigin
<1> HIDE DEF token, meant
<1>2. /\ spec.entity_type = proposal.profile.entity_type
      /\ spec.id_paths = proposal.profile.id_paths
      /\ spec.status_paths = proposal.profile.status_paths
      /\ spec.time_paths = proposal.profile.time_paths
      /\ token \in DOMAIN spec.status_map /\ spec.status_map[token] = meant
  BY <1>1, WithWordFacts
<1> QED
  BY <1>1, <1>2 DEF token, meant

(***************************************************************************)
(* TeachingTheWordSuffices holds for every word and every lesson that the  *)
(* serializer accepts.                                                     *)
(***************************************************************************)
THEOREM TeachingSuffices == Spec => []TeachingTheWordSuffices
<1>1. IInv => TeachingTheWordSuffices
  <2> DEFINE before == Normalize(payload, proposal.profile)
             old == proposal.profile
             token == taught[1]
             meant == taught[2]
  <2> SUFFICES ASSUME IInv, taught # None, payload \in Range(samples),
                      reading # LookupError, Succeeded(before), before.source_status # None, Token[before.source_status] = token
               PROVE  /\ Succeeded(reading)
                      /\ reading.canonical_status = meant
                      /\ reading.event_time # Now /\ reading.entity_type # "UNCLASSIFIED"
                           /\ Threshold <= 950 => Trusted(reading)
    BY DEF TeachingTheWordSuffices
  <2>1. /\ proposal \in Proposable(samples) /\ samples \in SampleSets
        /\ profile = WithWord(old, token, meant)
        /\ WellFormed(profile) /\ Accepts(profile)
    BY DEF IInv, ProposalOrigin, ProfileOrigin, LessonOrigin
  <2>2. payload \in Documents
    BY <2>1, SampleFacts
  <2>3. reading = Normalize(payload, profile)
    BY <2>2, OnboardingAssumption DEF IInv, ReadingOrigin
  <2>4. /\ profile.entity_type = old.entity_type /\ profile.id_paths = old.id_paths
        /\ profile.status_paths = old.status_paths /\ profile.time_paths = old.time_paths
        /\ token \in DOMAIN profile.status_map /\ profile.status_map[token] = meant
    BY TaughtFacts
  <2>5. WellFormed(old)
    BY <2>1, ProposableFacts
  <2> HIDE DEF old, token, meant
  <2>6. /\ HasId(payload, profile) <=> HasId(payload, old)
        /\ RawOf(payload, profile) = RawOf(payload, old)
        /\ TimeOverflows(Flatten(payload), profile) <=> TimeOverflows(Flatten(payload), old)
    BY <2>4 DEF HasId, IdOf, RawOf, TimeOverflows
  <2> DEFINE raw == RawOf(payload, profile)
             type == TypeOf(payload, profile)
             status == StatusIn(payload, profile)
             time == TimeIn(payload, profile)
  <2>7. /\ before = ReadingOf(payload, old) /\ HasId(payload, old)
        /\ ~TimeOverflows(Flatten(payload), old)
    BY <2>2, <2>5, ReadingFacts DEF old
  <2>8. raw # None /\ Token[raw] = token
    <3>1. before.source_status = raw
      BY <2>6, <2>7 DEF ReadingOf
    <3> QED
      BY <3>1
  <2>9. profile.entity_type \in Types /\ meant \in Statuses[profile.entity_type]
    BY <2>1, <2>4 DEF Accepts, AllowedStatuses, Range
  <2>10. type = <<profile.entity_type, 970>>
    BY <2>9, ClassifyFacts DEF TypeOf, Types, Untyped
  <2>11. /\ raw \in (Values \ {Empty}) \cup {None}
         /\ type[2] \in Thousandths /\ status[2] \in Thousandths /\ time[2] \in Thousandths
    BY <2>1, <2>2, ReadingFacts
  <2>12. token \in Seq(STRING)
    BY <2>8, <2>11, RulesAssumption DEF Values
  <2>13. status = StatusOf(profile.entity_type, raw, profile)
    BY <2>10 DEF StatusIn
  <2>14. /\ status[1] = meant
         /\ profile.entity_type # "UNCLASSIFIED" => status[2] = 970
    <3> HIDE DEF raw, type, status
    <3>1. CASE profile.entity_type = "UNCLASSIFIED"
      <4>1. status = Abstention
        BY <2>9, <2>11, <2>13, <3>1, StatusFacts, Zenon
      <4> QED
        BY <2>9, <3>1, <4>1, RulesAssumption DEF Abstention
    <3>2. CASE profile.entity_type # "UNCLASSIFIED"
      <4>1. raw \in Values \ {Empty} /\ raw # None /\ Token[raw] \in DOMAIN profile.status_map
        BY <2>4, <2>8, <2>11
      <4>2. /\ status[1] = profile.status_map[Token[raw]]
            /\ status[2] = 970
        BY <2>9, <2>13, <3>2, <4>1, KnownWordStatus
      <4> QED
        BY <2>4, <2>8, <4>2
    <3> QED
      BY <3>1, <3>2
  <2>15. Succeeded(reading) /\ reading = ReadingOf(payload, profile)
    <3>1. status[1] \in Statuses[type[1]]
      BY <2>9, <2>10, <2>14
    <3> QED
      BY <2>1, <2>2, <2>3, <2>6, <2>7, <3>1, ReadingFacts
  <2>16. /\ reading.canonical_status = status[1] /\ reading.event_time = time[1]
         /\ reading.entity_type = type[1]
         /\ reading.confidence = Min({type[2], status[2], time[2]})
    BY <2>15 DEF ReadingOf
  <2>17. time[1] # Now => time[2] \in {950, 970}
    BY <2>1, <2>2, EventTimeFacts, ReadingFacts DEF TimeIn
  <2> HIDE DEF raw, type, status, time, before
  <2>18. ASSUME time[1] # Now, profile.entity_type # "UNCLASSIFIED", Threshold <= 950
         PROVE  Trusted(reading)
    <3>1. reading.confidence \in {type[2], status[2], time[2]}
      BY <2>11, <2>16, MinOfThree, Zenon
    <3>2. type[2] = 970 /\ status[2] = 970 /\ time[2] \in {950, 970}
      BY <2>10, <2>14, <2>17, <2>18
    <3>3. reading.confidence \in {950, 970}
      BY <3>1, <3>2
    <3> QED
      BY <2>18, <3>3, OnboardingAssumption DEF Trusted, IsLowConfidence
  <2> QED
    BY <2>10, <2>14, <2>15, <2>16, <2>18
<1> QED
  BY <1>1, Provenance, PTL

(***************************************************************************)
(* A profile whose words mean what the table says they mean interprets the *)
(* tokens that the table interprets, and in the same way.                  *)
(***************************************************************************)
LEMMA SameMeaning ==
  ASSUME NEW type \in {"SHIPMENT", "INVOICE"}, NEW token \in Seq(STRING), NEW p,
         \A t \in DOMAIN p.status_map :
           /\ t \in Seq(STRING)
           /\ p.status_map[t] = MapStatus(type, t)
           /\ p.status_map[t] # None
  PROVE  LET table == DOMAIN Table[type]
             words == Words(type, p)
         IN /\ Interpreted(token, words) = {} <=> Interpreted(token, table) = {}
            /\ Interpreted(token, words) # {} =>
                 /\ Meaning(type, token, p.status_map) = Table[type][Longest(token, table)]
                 /\ Longest(token, words) \notin DOMAIN p.status_map =>
                      Longest(token, words) = Longest(token, table)
<1> DEFINE table == DOMAIN Table[type]
           words == Words(type, p)
           map == p.status_map
<1>1. \A t, W : Interpreted(t, W) = {u \in SuffixesOf(t) : u \in W}
  BY DEF Interpreted, SuffixesOf
<1>2. ASSUME NEW t \in DOMAIN map
      PROVE  Interpreted(t, table) # {} /\ map[t] = Table[type][Longest(t, table)]
  BY <1>2, MapStatusFacts
<1>3. \A u : u \in words <=> u \in DOMAIN map \/ u \in table
  BY DEF Words
<1>4. Meaning(type, token, map) =
        IF Interpreted(token, words) = {} THEN None
        ELSE IF Longest(token, words) \in DOMAIN map THEN map[Longest(token, words)]
        ELSE Table[type][Longest(token, words)]
  BY DEF Meaning, Words
<1> HIDE DEF table, words, map
<1>5. Interpreted(token, table) \subseteq Interpreted(token, words)
  BY <1>1, <1>3
<1>6. ASSUME Interpreted(token, words) # {}
      PROVE  /\ Interpreted(token, table) # {}
             /\ Meaning(type, token, map) = Table[type][Longest(token, table)]
             /\ Longest(token, words) \notin DOMAIN map =>
                  Longest(token, words) = Longest(token, table)
  <2> DEFINE L == Longest(token, words)
  <2>1. L \in Interpreted(token, words) /\ \A t \in Interpreted(token, words) : Len(t) <= Len(L)
    BY <1>6, LongestIsLongest
  <2> HIDE DEF L
  <2>2. L \in SuffixesOf(token) /\ L \in words
    BY <1>1, <2>1
  <2>3. /\ L \in Seq(STRING)
        /\ \A t : t \in SuffixesOf(L) <=> t \in SuffixesOf(token) /\ Len(t) <= Len(L)
        /\ \A t \in SuffixesOf(token) : Len(t) = Len(L) => t = L
    BY <2>2, SuffixOrder
  <2>4. CASE L \in DOMAIN map
    <3>1. Interpreted(L, table) = Interpreted(token, table)
      <4>1. \A u \in Interpreted(token, table) : Len(u) <= Len(L)
        BY <1>5, <2>1
      <4> QED
        BY <1>1, <2>3, <4>1
    <3>2. Longest(L, table) = Longest(token, table)
      BY <3>1 DEF Longest
    <3> QED
      BY <1>2, <1>4, <1>6, <2>4, <3>1, <3>2 DEF L
  <2>5. CASE L \notin DOMAIN map
    <3> DEFINE M == Longest(token, table)
    <3>1. L \in Interpreted(token, table)
      BY <1>1, <1>3, <2>2, <2>5
    <3>2. M \in Interpreted(token, table) /\ \A t \in Interpreted(token, table) : Len(t) <= Len(M)
      BY <3>1, LongestIsLongest
    <3> HIDE DEF M
    <3>3. Len(L) <= Len(M) /\ Len(M) <= Len(L)
      BY <1>5, <2>1, <3>1, <3>2
    <3>4. M \in SuffixesOf(token)
      BY <1>1, <3>2
    <3>5. M \in Seq(STRING)
      BY <3>4, SuffixOrder
    <3>6. Len(L) = Len(M)
      BY <2>3, <3>3, <3>5
    <3>7. M = L
      BY <2>3, <3>4, <3>6
    <3> QED
      BY <1>4, <1>6, <2>5, <3>1, <3>7 DEF L, M
  <2> QED
    BY <2>4, <2>5
<1> QED
  BY <1>5, <1>6 DEF table, words, map

(***************************************************************************)
(* ProfileKeepsMeaning holds for every set of samples: what discovery maps *)
(* is mapped as the table would, so the longest suffix that profile and    *)
(* table interpret means what the longest one of the table does.           *)
(***************************************************************************)
THEOREM KeepsMeaning == Spec => []ProfileKeepsMeaning
<1>1. IInv => ProfileKeepsMeaning
  <2> DEFINE plain == Normalize(payload, NoProfile)
  <2> SUFFICES ASSUME IInv, source = "DISCOVERED", proposal = base, payload # None,
                      Succeeded(reading), Succeeded(plain),
                      plain.entity_type = profile.entity_type,
                      plain.source_status = reading.source_status,
                      plain.event_time = reading.event_time
               PROVE  /\ reading.canonical_status = plain.canonical_status
                      /\ reading.confidence >= plain.confidence
    BY DEF ProfileKeepsMeaning
  <2> DEFINE raw == RawOf(payload, profile)
             type == profile.entity_type
             kind(p) == TypeOf(payload, p)
             status(p) == StatusIn(payload, p)
             time(p) == TimeIn(payload, p)
  <2>1. /\ payload \in Documents /\ reading = Normalize(payload, profile)
        /\ WellFormed(profile)
    BY StoredIsWellFormed, ReadWithProfile
  <2>2. /\ samples \in SampleSets /\ profile = DiscoverStatistically(samples).profile
    BY DEF IInv, ProfileOrigin, ProposalOrigin
  <2>3. WellFormed(NoProfile) /\ NoProfile.status_map = <<>> /\ NoProfile.time_paths = <<>>
          /\ NoProfile.entity_type = Untyped
    BY DEF WellFormed, NoProfile, PathLists, KeyLists
  <2>4. reading = ReadingOf(payload, profile) /\ plain = ReadingOf(payload, NoProfile)
    BY <2>1, <2>3, ReadingFacts
  <2>5. /\ kind(NoProfile)[1] = type
        /\ RawOf(payload, NoProfile) = raw
        /\ time(NoProfile)[1] = time(profile)[1]
        /\ reading.canonical_status = status(profile)[1]
        /\ plain.canonical_status = status(NoProfile)[1]
        /\ reading.confidence =
             Min({kind(profile)[2], status(profile)[2], time(profile)[2]})
        /\ plain.confidence =
             Min({kind(NoProfile)[2], status(NoProfile)[2], time(NoProfile)[2]})
    BY <2>4 DEF ReadingOf
  <2>6. /\ Flatten(payload) \in Flats
        /\ raw \in (Values \ {Empty}) \cup {None}
        /\ kind(NoProfile)[1] \in Types
        /\ kind(profile)[2] \in Thousandths /\ kind(NoProfile)[2] \in Thousandths
        /\ status(profile)[2] \in Thousandths /\ status(NoProfile)[2] \in Thousandths
        /\ time(profile)[2] \in Thousandths /\ time(NoProfile)[2] \in Thousandths
    BY <2>1, <2>3, ReadingFacts
  <2>7. /\ type \in {"SHIPMENT", "INVOICE"} /\ type \in Types
        /\ \A t \in DOMAIN profile.status_map :
             /\ t \in Seq(STRING)
             /\ profile.status_map[t] = MapStatus(type, t)
             /\ profile.status_map[t] # None
    <3>1. type \in {"SHIPMENT", "INVOICE", Untyped} /\ type \in Types
      BY <2>2, <2>5, <2>6, DiscoverFacts
    <3> QED
      BY <2>2, <3>1, DiscoverFacts DEF Types, Untyped
  <2>8. kind(profile) = <<type, 970>> /\ kind(NoProfile)[2] <= 950
    BY <2>1, <2>3, <2>7, ClassifyFacts DEF TypeOf, Types, Untyped
  <2>9. /\ status(profile) = StatusOf(type, raw, profile)
        /\ status(NoProfile) = StatusOf(type, raw, NoProfile)
    BY <2>5, <2>8 DEF StatusIn
  <2>10. time(NoProfile)[2] <= time(profile)[2]
    <3>1. FirstEntry(Flatten(payload), <<>>)[2] = None
      BY DEF FirstEntry
    <3>2. time(NoProfile)[2] = IF time(NoProfile)[1] = Now THEN 400 ELSE 950
      BY <2>3, <2>6, <3>1, EventTimeFacts DEF TimeIn, Parsed
    <3>3. time(profile)[2] = IF time(profile)[1] = Now THEN 400
                             ELSE IF Parsed(FirstEntry(Flatten(payload), profile.time_paths)[2]) # None
                               THEN 970 ELSE 950
      BY <2>1, <2>6, EventTimeFacts DEF TimeIn
    <3> QED
      BY <2>5, <3>2, <3>3
  <2> HIDE DEF raw, type, kind, status, time, plain
  <2>11. status(profile)[1] = status(NoProfile)[1] /\ status(NoProfile)[2] <= status(profile)[2]
    <3> DEFINE token == Token[raw]
               table == DOMAIN Table[type]
    <3>1. Words(type, NoProfile) = table
      BY <2>3 DEF Words
    <3>2. CASE raw = None
      <4>1. ~Interprets(type, raw, profile) /\ ~Interprets(type, raw, NoProfile)
        BY <3>2 DEF Interprets
      <4>2. \A p \in {profile, NoProfile} :
              /\ StatusOf(type, raw, p)[1] = Default(type)
              /\ StatusOf(type, raw, p)[2] = GuessConfidence(raw)
        BY <2>6, <2>7, <4>1, StatusFacts
      <4> QED
        BY <2>9, <4>2 DEF GuessConfidence
    <3>3. CASE raw # None
      <4>1. token \in Seq(STRING) /\ type # "UNCLASSIFIED"
        BY <2>6, <2>7, <3>3, RulesAssumption DEF Values
      <4> HIDE DEF token
      <4>2. /\ Interpreted(token, Words(type, profile)) = {} <=> Interpreted(token, table) = {}
            /\ Interpreted(token, Words(type, profile)) # {} =>
                 /\ Meaning(type, token, profile.status_map) = Table[type][Longest(token, table)]
                 /\ Longest(token, Words(type, profile)) \notin DOMAIN profile.status_map =>
                      Longest(token, Words(type, profile)) = Longest(token, table)
        BY <2>7, <4>1, SameMeaning
      <4>3. /\ Interprets(type, raw, profile) <=> Interpreted(token, Words(type, profile)) # {}
            /\ Interprets(type, raw, NoProfile) <=> Interpreted(token, table) # {}
        BY <3>1, <3>3 DEF Interprets, token
      <4>4. CASE Interpreted(token, table) = {}
        <5>1. ~Interprets(type, raw, profile) /\ ~Interprets(type, raw, NoProfile)
          BY <4>2, <4>3, <4>4
        <5>2. \A p \in {profile, NoProfile} :
                /\ StatusOf(type, raw, p)[1] = Default(type)
                /\ StatusOf(type, raw, p)[2] = GuessConfidence(raw)
          BY <2>6, <2>7, <4>1, <5>1, StatusFacts
        <5> QED
          BY <2>9, <5>2 DEF GuessConfidence
      <4>5. CASE Interpreted(token, table) # {}
        <5>1. Interprets(type, raw, profile) /\ Interprets(type, raw, NoProfile)
          BY <4>2, <4>3, <4>5
        <5>2. /\ status(profile)[1] = Meaning(type, token, profile.status_map)
              /\ status(profile)[2] = WordConfidence(type, token, profile)
          BY <2>6, <2>7, <2>9, <4>1, <5>1, StatusFacts, Zenon DEF token
        <5>3. /\ status(NoProfile)[1] = Meaning(type, token, NoProfile.status_map)
              /\ status(NoProfile)[2] = WordConfidence(type, token, NoProfile)
          BY <2>6, <2>7, <2>9, <4>1, <5>1, StatusFacts, Zenon DEF token
        <5>4. Meaning(type, token, NoProfile.status_map) = Table[type][Longest(token, table)]
          <6>1. DOMAIN NoProfile.status_map = {} /\ DOMAIN NoProfile.status_map \cup table = table
            BY <2>3
          <6> QED
            BY <4>5, <6>1 DEF Meaning
        <5>5. WordConfidence(type, token, NoProfile)
                = IF Longest(token, table) = token THEN 900 ELSE 750
          BY <2>3, <3>1 DEF WordConfidence
        <5>6. WordConfidence(type, token, NoProfile) <= WordConfidence(type, token, profile)
          <6> DEFINE L == Longest(token, Words(type, profile))
          <6>1. WordConfidence(type, token, profile) =
                  IF L \in DOMAIN profile.status_map THEN 970
                  ELSE IF L = token THEN 900 ELSE 750
            BY DEF WordConfidence
          <6>2. L \notin DOMAIN profile.status_map => L = Longest(token, table)
            BY <4>2, <4>5
          <6> HIDE DEF L
          <6> QED
            BY <5>5, <6>1, <6>2
        <5> QED
          BY <4>2, <4>5, <5>2, <5>3, <5>4, <5>6
      <4> QED
        BY <4>4, <4>5
    <3> QED
      BY <3>2, <3>3
  <2>12. reading.confidence >= plain.confidence
    <3>1. /\ reading.confidence \in {kind(profile)[2], status(profile)[2], time(profile)[2]}
          /\ reading.confidence \in Thousandths
      <4> DEFINE least == Min({kind(profile)[2], status(profile)[2], time(profile)[2]})
      <4>1. /\ least \in {kind(profile)[2], status(profile)[2], time(profile)[2]}
            /\ least \in Thousandths
        BY <2>6, MinOfThree, Zenon
      <4>2. reading.confidence = least
        BY <2>5
      <4> HIDE DEF least
      <4> QED
        BY <4>1, <4>2
    <3>2. /\ plain.confidence <= kind(NoProfile)[2] /\ plain.confidence <= status(NoProfile)[2]
          /\ plain.confidence <= time(NoProfile)[2] /\ plain.confidence \in Thousandths
      <4> DEFINE least == Min({kind(NoProfile)[2], status(NoProfile)[2], time(NoProfile)[2]})
      <4>1. /\ least <= kind(NoProfile)[2] /\ least <= status(NoProfile)[2]
            /\ least <= time(NoProfile)[2] /\ least \in Thousandths
        BY <2>6, MinOfThree
      <4>2. plain.confidence = least
        BY <2>5
      <4> HIDE DEF least
      <4> QED
        BY <4>1, <4>2
    <3>3. kind(profile)[2] = 970
      BY <2>8
    <3>4. /\ kind(profile)[2] \in Int /\ status(profile)[2] \in Int /\ time(profile)[2] \in Int
          /\ kind(NoProfile)[2] \in Int /\ status(NoProfile)[2] \in Int
          /\ time(NoProfile)[2] \in Int /\ plain.confidence \in Int /\ reading.confidence \in Int
      BY <2>6, <3>1, <3>2, ThousandthsAreNumbers, Zenon
    <3>5. kind(NoProfile)[2] <= kind(profile)[2]
      BY <2>8, <3>3, <3>4
    <3> QED
      BY <2>10, <2>11, <3>1, <3>2, <3>4, <3>5
  <2> QED
    BY <2>5, <2>11, <2>12
<1> QED
  BY <1>1, Provenance, PTL

============================================================================
