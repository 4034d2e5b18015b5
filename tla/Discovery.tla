----------------------------- MODULE Discovery -----------------------------
(***************************************************************************)
(* Discovery of a vendor's profile from sample payloads: a statistical     *)
(* reading of the flattened samples, and the merge of a model's proposal   *)
(* on top of it.                                                           *)
(***************************************************************************)
EXTENDS RulesNormalizer, Functions

CONSTANTS
  Fractional,   \* values that are neither strings nor integers
  Wordlike,     \* values that are strings of at most 64 characters, no digit
  Folded,       \* value -> the value stripped and in lower case
  PathRank      \* path -> its place in the order of the dotted strings

SamplesFlat(samples) == [i \in DOMAIN samples |-> Flatten(samples[i])]

KnownPaths(flats) == UNION {Paths(flats[i]) : i \in DOMAIN flats}

(* The members of a finite set in an order, which is a set of pairs.       *)
InOrder(S, order) ==
  [n \in 1..Cardinality(S) |->
     CHOOSE x \in S : Cardinality({y \in S : <<y, x>> \in order}) = n - 1]

(* What a sequence has of a set, in the order of the sequence.             *)
Kept(s, S) ==
  LET at == {i \in DOMAIN s : s[i] \in S}
      places == InOrder(at, {e \in at \X at : e[1] < e[2]})
  IN [n \in DOMAIN places |-> s[places[n]]]

(* Samples that have a value at the path that is not empty.                *)
Holding(flats, path) ==
  {i \in DOMAIN flats :
     path \in Paths(flats[i]) /\ ValueAt(flats[i], path) # Empty}

(* Fault variant: only the first value is kept.                            *)
FirstPathValue(flats, path) ==
  [i \in {i \in Holding(flats, path) : \A j \in Holding(flats, path) : i <= j} |->
     ValueAt(flats[i], path)]

(* The values a path held across the samples, by sample, the empty ones    *)
(* left out.                                                               *)
PathValues(flats, path) ==
  [i \in Holding(flats, path) |-> ValueAt(flats[i], path)]

(* How strongly the name of a path says what it holds: the earlier keys of *)
(* the list are the more specific ones.                                    *)
NameScore(path, keys) ==
  LET leaf == Last(path)
      named == {i \in DOMAIN keys : keys[i] = leaf}
  IN IF named # {} THEN Len(keys) + 1 - Min(named)
     ELSE IF \E i \in DOMAIN keys : <<leaf, keys[i]>> \in Within THEN 1 ELSE 0

----------------------------------------------------------------------------
KeysFor(field) ==
  CASE field = "id" -> ID_KEYS
    [] field = "status" -> STATUS_KEYS
    [] field = "time" -> TIME_KEYS

LooksLikeIdentifier(seen) ==
  /\ Range(seen) \cap Fractional = {}
  /\ \E v \in Range(seen) : TimeOf[v] = None
  /\ Cardinality(Range(seen)) = Cardinality(DOMAIN seen)

(* A word; a constant only if the name of its path vouches for it.         *)
LooksLikeStatus(path, seen) ==
  /\ Range(seen) \subseteq Wordlike
  /\ \/ Cardinality({Folded[v] : v \in Range(seen)}) > 1
     \/ NameScore(path, STATUS_KEYS) > 0

LooksLikeTime(seen) == \A v \in Range(seen) : TimeOf[v] # None

LooksLike(field, path, seen) ==
  \/ field = "id" /\ LooksLikeIdentifier(seen)
  \/ field = "status" /\ LooksLikeStatus(path, seen)
  \/ field = "time" /\ LooksLikeTime(seen)

(* The values at a path are parsed in the order of the samples until one   *)
(* is no time; float() raises on one that is too large.                    *)
Raises(flats) ==
  \E path \in KnownPaths(flats) :
    LET seen == PathValues(flats, path) IN
    \E i \in DOMAIN seen :
      /\ seen[i] \in Overflows
      /\ \A j \in DOMAIN seen : j < i => TimeOf[seen[j]] # None

(* The paths that look like the field, best first: by name, by coverage,   *)
(* by spelling.  One whose name says nothing must be in every sample.      *)
Rank(flats, field) ==
  LET name(p) == NameScore(p, KeysFor(field))
      seen(p) == PathValues(flats, p)
      coverage(p) == Cardinality(DOMAIN seen(p))
      fit == {p \in KnownPaths(flats) :
                /\ coverage(p) > 0
                /\ LooksLike(field, p, seen(p))
                /\ name(p) > 0 \/ coverage(p) = Len(flats)}
      better(p, q) ==
        \/ name(p) > name(q)
        \/ name(p) = name(q) /\ coverage(p) > coverage(q)
        \/ /\ name(p) = name(q) /\ coverage(p) = coverage(q)
           /\ PathRank[p] < PathRank[q]
  IN InOrder(fit, {e \in fit \X fit : better(e[1], e[2])})

(* Of all the samples, what Classify does of one payload.                  *)
ClassifyEntityType(flats, idPath) ==
  LET type == Classify(FlattenSeq(flats), idPath, NoProfile)[1]
  IN IF type = "UNCLASSIFIED" THEN Untyped ELSE type

(* Fault variant: the last word of the token decides.                      *)
MapLastWord(type, token) ==
  IF type # Untyped /\ <<Last(token)>> \in DOMAIN Table[type]
    THEN Table[type][<<Last(token)>>] ELSE None

(* The canonical status of a token, or None for a person to decide.        *)
MapStatus(type, token) ==
  LET tried == <<token>> \o SuffixesTried(token)
      hits == {i \in DOMAIN tried : tried[i] \in DOMAIN Table[type]}
  IN IF type = Untyped THEN None
     ELSE IF hits = {} THEN None ELSE Table[type][tried[Min(hits)]]

First4(s) == SubSeq(s, 1, AtMost(Len(s), 4))

(* A proposed profile and the tokens nobody has interpreted yet.           *)
DiscoverStatistically(samples) ==
  LET flats == SamplesFlat(samples)
      ids == Rank(flats, "id")
      statuses == Rank(flats, "status")
      times == Rank(flats, "time")
      type == ClassifyEntityType(flats, IF ids = <<>> THEN None ELSE ids[1])
      tokens == IF statuses = <<>> THEN {}
                ELSE {Token[v] : v \in Range(PathValues(flats, statuses[1]))}
      mapped == {t \in tokens : MapStatus(type, t) # None}
  IN [profile |-> [entity_type |-> type, id_paths |-> First4(ids),
                   status_paths |-> First4(statuses),
                   time_paths |-> First4(times),
                   status_map |-> [t \in mapped |-> MapStatus(type, t)]],
      unmapped |-> tokens \ mapped]

----------------------------------------------------------------------------
(* Fault variant: the model's paths are taken as they are.                 *)
KeepAllPaths(proposed, existing, known) ==
  proposed \o Kept(existing, Range(existing) \ Range(proposed))

(* The model's paths that exist, then those it missed.                     *)
KeepPaths(proposed, existing, known) ==
  LET valid == Kept(proposed, known)
  IN valid \o Kept(existing, Range(existing) \ Range(valid))

CanonicalValues(type) ==
  IF type \in {"SHIPMENT", "INVOICE"} THEN Range(Table[type]) ELSE {}

AcceptedMappings(type, map) ==
  {t \in DOMAIN map : map[t] \in CanonicalValues(type)}

MergeModelProposal(base, proposal, samples) ==
  LET known == KnownPaths(SamplesFlat(samples))
      old == base.profile
      asked == IF proposal.entity_type = Untyped THEN old.entity_type
               ELSE proposal.entity_type
      type == IF asked \in Types \cup {Untyped} THEN asked ELSE old.entity_type
      taken == AcceptedMappings(type, proposal.status_map)
      keep(new, existing) == First4(KeepPaths(new, existing, known))
  IN [profile |->
        [entity_type |-> type,
         id_paths |-> keep(proposal.id_paths, old.id_paths),
         status_paths |-> keep(proposal.status_paths, old.status_paths),
         time_paths |-> keep(proposal.time_paths, old.time_paths),
         status_map |-> [t \in DOMAIN old.status_map \cup taken |->
           IF t \in taken THEN proposal.status_map[t] ELSE old.status_map[t]]],
      unmapped |-> base.unmapped \ taken]
============================================================================
