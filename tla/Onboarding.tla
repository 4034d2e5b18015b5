----------------------------- MODULE Onboarding -----------------------------
(***************************************************************************)
(* A vendor is onboarded: discovery reads its samples, a model may add to  *)
(* the reading, the proposal is stored as it is or a person corrects it    *)
(* and stores that, and webhooks are normalised, by whichever backend is   *)
(* configured, with whatever profile there is when they come.              *)
(***************************************************************************)
EXTENDS Backends, Discovery

CONSTANTS
  SampleSets,   \* the sample payloads somebody may send: sequences
  Proposals,    \* what the model may propose
  HandWritten,  \* profiles somebody may write without a proposal
  Lessons,      \* what somebody may take an unmapped word to mean
  Payloads,     \* webhooks of the vendor
  Configured,   \* values of NORMALIZATION_BACKEND
  Answers,      \* what the model may make of a webhook
  Threshold     \* LOW_CONFIDENCE_THRESHOLD, in thousandths

Documents == Payloads \cup UNION {Range(s) : s \in SampleSets}

PathLists(spec) == {spec.id_paths, spec.status_paths, spec.time_paths}

ASSUME OnboardingAssumption ==
  /\ Threshold \in Int
  /\ None \notin Documents
  /\ \A doc \in Documents : Flatten(doc) \in Seq(Seq(STRING) \X Values)
  /\ \A spec \in Proposals \cup HandWritten : PathLists(spec) \subseteq Seq(Seq(STRING))
  /\ \A spec \in HandWritten : spec.entity_type \in Types \cup {Untyped}

(* The strings of two paths differ, and null is no proposal.               *)
ASSUME SamplesAssumption ==
  \A s \in SampleSets :
    LET found == DiscoverStatistically(s) IN
    /\ s \in Seq(Documents)
    /\ \A p, q \in KnownPaths(SamplesFlat(s)) :
         PathRank[p] \in Nat /\ (p # q => PathRank[p] # PathRank[q])
    /\ found # None
    /\ \A answer \in Proposals : MergeModelProposal(found, answer, s) # None

VARIABLES
  samples,      \* the samples of this vendor
  base,         \* the statistical reading of a discovery that runs, or None
  proposal,     \* what discovery proposed, or None
  profile,      \* the stored profile
  source,       \* where it is from: "none" if there is none
  taught,       \* the word a person added to the proposal, or None
  payload,      \* the webhook normalised, or None
  reading       \* what the backend made of it, or None

vars == <<samples, base, proposal, profile, source, taught, payload, reading>>

Init ==
  /\ samples \in SampleSets
  /\ base = None
  /\ proposal = None
  /\ profile = NoProfile
  /\ source = "none"
  /\ taught = None
  /\ payload = None
  /\ reading = None

(* discover_profile, from the API or the command: the statistical reading. *)
(* Samples on which it raises change nothing.                              *)
Discover ==
  /\ base = None /\ reading = None
  /\ ~Raises(SamplesFlat(samples))
  /\ base' = DiscoverStatistically(samples)
  /\ UNCHANGED <<samples, proposal, profile, source, taught, payload, reading>>

(* The result is returned, and stored if that was asked for.               *)
Propose(result, persist) ==
  /\ base # None /\ proposal = None /\ reading = None
  /\ proposal' = result
  /\ profile' = IF persist THEN result.profile ELSE profile
  /\ source' = IF persist THEN "DISCOVERED" ELSE source
  /\ UNCHANGED <<samples, base, taught, payload, reading>>

(* No model is asked, or the call fails: the statistical reading stands.   *)
ProposeStatistical(persist) == Propose(base, persist)

ProposeWithModel(answer, persist) ==
  Propose(MergeModelProposal(base, answer, samples), persist)

(* The model's answer is JSON but not of the shape asked for: the merge    *)
(* raises, and nothing is proposed.                                        *)
ProposalIsNonsense ==
  /\ base # None /\ proposal = None /\ reading = None
  /\ base' = None
  /\ UNCHANGED <<samples, proposal, profile, source, taught, payload, reading>>

----------------------------------------------------------------------------
(* Fault variant: a status that some entity type has is enough.            *)
AcceptsAnyStatus(spec) ==
  Range(spec.status_map) \subseteq UNION {Statuses[t] : t \in Types}

(* VendorProfileWriteSerializer.validate, of a profile in canonical case.  *)
Accepts(spec) == Range(spec.status_map) \subseteq AllowedStatuses(spec.entity_type)

(* A profile that is refused changes nothing.                              *)
Put(spec, lesson) ==
  /\ source # "MANUAL" /\ reading = None
  /\ Accepts(spec)
  /\ profile' = spec
  /\ source' = "MANUAL"
  /\ taught' = lesson
  /\ UNCHANGED <<samples, base, proposal, payload, reading>>

PutHandWritten(spec) == base = None /\ Put(spec, None)

WithWord(spec, token, status) ==
  [spec EXCEPT !.status_map =
     [t \in DOMAIN spec.status_map \cup {token} |->
        IF t = token THEN status ELSE spec.status_map[t]]]

(* The proposal with one more word, one that discovery could not map.      *)
Teach(status) ==
  /\ proposal # None
  /\ \E token \in proposal.unmapped :
       Put(WithWord(proposal.profile, token, status), <<token, status>>)

----------------------------------------------------------------------------
ReadyToReceive ==
  /\ reading = None
  /\ base = None \/ proposal # None

(* A webhook is normalised by the rules, whether its vendor's profile can  *)
(* be looked up or not ...                                                 *)
Receive(doc) ==
  /\ ReadyToReceive
  /\ "rules" \in {ResolveBackendName(c, key) : c \in Configured, key \in BOOLEAN}
  /\ payload' = doc
  /\ \E found \in BOOLEAN : reading' = RulesNormalize(found, doc, profile)
  /\ UNCHANGED <<samples, base, proposal, profile, source, taught>>

(* ... or by the model, which is told what the profile says and is taken   *)
(* at its word: the payload plays no part in what its answer may be.       *)
ReceiveByModel(answer) ==
  /\ ReadyToReceive
  /\ \E configured \in Configured, key, found \in BOOLEAN :
       /\ ResolveBackendName(configured, key) = "openai"
       /\ reading' = OpenAINormalize(key, found, answer)
  /\ UNCHANGED <<samples, base, proposal, profile, source, taught, payload>>

Next ==
  \/ Discover
  \/ \E persist \in BOOLEAN : ProposeStatistical(persist)
  \/ \E answer \in Proposals, persist \in BOOLEAN : ProposeWithModel(answer, persist)
  \/ ProposalIsNonsense
  \/ \E spec \in HandWritten : PutHandWritten(spec)
  \/ \E status \in Lessons : Teach(status)
  \/ \E doc \in Payloads \cup Range(samples) : Receive(doc)
  \/ \E answer \in Answers : ReceiveByModel(answer)

Spec == Init /\ [][Next]_vars

----------------------------------------------------------------------------
Succeeded(r) == r # None /\ "error" \notin DOMAIN r

Trusted(r) == ~IsLowConfidence(r.confidence, Threshold)

(* The suffixes of a token that are words of a vocabulary; the longest.    *)
Interpreted(token, words) ==
  {s \in {token} \cup {SubSeq(token, i, Len(token)) : i \in DOMAIN token} : s \in words}

Longest(token, words) ==
  CHOOSE s \in Interpreted(token, words) :
    \A t \in Interpreted(token, words) : Len(t) <= Len(s)

(* What the longest interpreted suffix of a token means, a word of the     *)
(* profile before one of the table; None if there is none.                 *)
Meaning(type, token, known) ==
  LET words == DOMAIN known \cup DOMAIN Table[type]
      longest == Longest(token, words)
  IN IF Interpreted(token, words) = {} THEN None
     ELSE IF longest \in DOMAIN known THEN known[longest]
     ELSE Table[type][longest]

(***************************************************************************)
(* The rules abstain where they would have to guess.  A reading that       *)
(* passes the gate, with a threshold above the confidence of a guess,      *)
(* states what the longest interpreted suffix of the vendor's word means,  *)
(* carries a time and an identifier that are in the payload, and has a     *)
(* type that the profile, the identifier's key or a majority of the hints  *)
(* gave it.                                                                *)
(***************************************************************************)
TrustedIsRecognised ==
  Threshold > 400 /\ payload # None /\ Succeeded(reading) /\ Trusted(reading) =>
    LET values == Contents(Flatten(payload)) \ {Empty} IN
    /\ reading.entity_type # "UNCLASSIFIED"
    /\ reading.source_status \in values
    /\ reading.canonical_status =
         Meaning(reading.entity_type, Token[reading.source_status], profile.status_map)
    /\ reading.event_time \in {TimeOf[v] : v \in values}
    /\ reading.entity_id \in values

(***************************************************************************)
(* The model never gets the last word: whatever it answers, every path of  *)
(* the proposal exists in the samples.                                     *)
(***************************************************************************)
PathsExistInSamples ==
  proposal # None =>
    LET p == proposal.profile IN
    Range(p.id_paths \o p.status_paths \o p.time_paths)
      \subseteq KnownPaths(SamplesFlat(samples))

(***************************************************************************)
(* What the serializer accepts, the normaliser can use.  The schema's      *)
(* ValueError, which the task takes for a bug of its own and re-raises,    *)
(* comes neither of a profile that went through the API, written or        *)
(* corrected by hand, nor of having no profile, nor of what a model has    *)
(* read.                                                                   *)
(***************************************************************************)
AcceptedProfilesFit ==
  source # "DISCOVERED" \/ payload = None => reading # ValueError

(***************************************************************************)
(* Discovery states facts and makes no new ones: a webhook that is read    *)
(* with a discovered profile of the type, the word and the time it is read *)
(* with without one is read with the same status, and with at least as     *)
(* much confidence.                                                        *)
(***************************************************************************)
ProfileKeepsMeaning ==
  LET plain == Normalize(payload, NoProfile) IN
  source = "DISCOVERED" /\ proposal = base /\ payload # None
    /\ Succeeded(reading) /\ Succeeded(plain)
    /\ plain.entity_type = profile.entity_type
    /\ plain.source_status = reading.source_status
    /\ plain.event_time = reading.event_time
  => /\ reading.canonical_status = plain.canonical_status
     /\ reading.confidence >= plain.confidence

(***************************************************************************)
(* "A person adds the missing word and replays the held webhook; it leaves *)
(* the queue without anyone ruling on it": a sample whose status is the    *)
(* word that was added is read with the meaning it was given, once the     *)
(* profile can be looked up, and trusted if the payload has a time and the *)
(* model has not said that the vendor's events are about nothing known, up *)
(* to a threshold of 0.95.                                                 *)
(***************************************************************************)
TeachingTheWordSuffices ==
  LET before == Normalize(payload, proposal.profile) IN
  taught # None /\ payload \in Range(samples) /\ reading # LookupError
    /\ Succeeded(before) /\ before.source_status # None
    /\ Token[before.source_status] = taught[1]
  => /\ Succeeded(reading)
     /\ reading.canonical_status = taught[2]
     /\ reading.event_time # Now /\ reading.entity_type # "UNCLASSIFIED"
          /\ Threshold <= 950 => Trusted(reading)

(***************************************************************************)
(* The words a person has to decide are all named: if a sample is held     *)
(* under the profile discovered in it because the word at the best status  *)
(* path means nothing, that word is one of the unmapped statuses.  (What a *)
(* sample has at another path, for want of a value there, is not named.)   *)
(***************************************************************************)
HeldWordIsReported ==
  LET best == base.profile.status_paths[1]
      flat == Flatten(payload)
  IN source = "DISCOVERED" /\ payload \in Range(samples)
       /\ Succeeded(reading) /\ reading.entity_type # "UNCLASSIFIED"
       /\ base.profile.status_paths # <<>> /\ best \in Paths(flat)
       /\ ValueAt(flat, best) = reading.source_status
       /\ Meaning(reading.entity_type, Token[reading.source_status],
                  profile.status_map) = None
     => Token[reading.source_status] \in proposal.unmapped
============================================================================
