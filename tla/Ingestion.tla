----------------------------- MODULE Ingestion -----------------------------
(***************************************************************************)
(* Concurrent webhook deliveries to the ingestion endpoint, from the       *)
(* reading of the request to the publication of the normalisation task:    *)
(* read_request, verify_signature, build_idempotency_key,                  *)
(* RawWebhookRepository.create_or_get and IngestionService.ingest.  Every  *)
(* element of Deliveries is one HTTP request; a redelivery is another      *)
(* element with the same content.                                          *)
(*                                                                         *)
(* A stored row is named by the delivery that inserted it, whose content   *)
(* the row has.  Rows are never deleted or re-keyed.                       *)
(***************************************************************************)
EXTENDS Naturals, Sequences, Functions

CONSTANTS
  Deliveries,   \* HTTP requests to POST /api/webhooks/
  Request,      \* delivery -> what the request says
  Vendors,      \* vendor names
  HeaderKeys,   \* values of the Idempotency-Key header
  EventIds,     \* vendor event ids found in a payload
  Payloads,     \* digests of payloads that are objects and not empty
  Fold,         \* vendor name -> the name in lower case
  Secret,       \* folded name -> WEBHOOK_SIGNING_SECRETS, or None
  Wildcard,     \* the secret of "*", or None
  RequireSignature,  \* WEBHOOK_REQUIRE_SIGNATURE
  None          \* a header, a key or a secret that is not there

UNKNOWN_VENDOR == "unknown"

(* Headers, and what the payload has under the keys that may name the      *)
(* sender and the event, in the order in which they are tried.  `signed'   *)
(* is the secret its signature was made with.                              *)
RequestType ==
  [header: Vendors \cup {None}, names: Seq(Vendors \cup {None}),
   supplied: HeaderKeys \cup {None}, ids: Seq(EventIds \cup {None}),
   payload: Payloads \cup {None}, signed: Range(Secret) \cup {Wildcard, None}]

ASSUME RequestAssumption == Request \in [Deliveries -> RequestType]
ASSUME NoneIsNoDelivery == None \notin Deliveries

VARIABLES
  rows,      \* deliveries that inserted a RawWebhook row
  pc,        \* the statement each delivery is at
  answer,    \* the webhook a delivery was answered with, or None
  sent       \* row -> tasks published for it

vars == <<rows, pc, answer, sent>>

PCs == {"new", "refused", "insert", "again", "by_key", "by_external", "dispatch",
        "accepted", "error", "unsent"}

Init ==
  /\ rows = {}
  /\ pc = [d \in Deliveries |-> "new"]
  /\ answer = [d \in Deliveries |-> None]
  /\ sent = [d \in Deliveries |-> 0]

----------------------------------------------------------------------------
\* The first of the keys that the payload has.
FirstOf(found) ==
  LET there == {i \in DOMAIN found : found[i] # None}
  IN IF there = {} THEN None
     ELSE found[CHOOSE i \in there : \A j \in there : i <= j]

\* The header wins over the payload.
ResolveVendor(r) ==
  IF r.header # None THEN r.header
  ELSE IF FirstOf(r.names) # None THEN FirstOf(r.names)
  ELSE UNKNOWN_VENDOR

\* What is stored of a delivery.
Content == [d \in Deliveries |->
  [vendor |-> ResolveVendor(Request[d]), supplied |-> Request[d].supplied,
   external |-> FirstOf(Request[d].ids), payload |-> Request[d].payload]]

SecretForVendor(v) ==
  IF Secret[Fold[v]] # None THEN Secret[Fold[v]] ELSE Wildcard

\* Fault variant: only a vendor that names itself in the header is verified.
VerifiesHeader(d) ==
  Request[d].header = None \/ SecretForVendor(Content[d].vendor) = None
    \/ Request[d].signed = SecretForVendor(Content[d].vendor)

\* The signature of d is good, or its vendor is not asked for one.
VerifySignature(d) ==
  LET secret == SecretForVendor(Content[d].vendor)
  IN IF secret = None THEN ~RequireSignature ELSE Request[d].signed = secret

----------------------------------------------------------------------------
\* The vendor's own key, else its event id, else the payload: each source
\* has a prefix of its own, so keys of different sources never collide.
BuildIdempotencyKey(c) ==
  IF c.supplied # None THEN <<"header", c.vendor, c.supplied>>
  ELSE IF c.external # None THEN <<"external", c.vendor, c.external>>
  ELSE <<"payload", c.vendor, c.payload>>

KeyOf(d) == BuildIdempotencyKey(Content[d])

\* uq_vendor_idempotency_key: the key determines the vendor too.
SameKey(d, x) == KeyOf(d) = KeyOf(x)

\* uq_vendor_external_event, a partial constraint.
SameEventId(d, x) ==
  /\ Content[d].vendor = Content[x].vendor
  /\ Content[d].external # None
  /\ Content[d].external = Content[x].external

----------------------------------------------------------------------------
\* Delivery d is answered 202 with the webhook x.
Accepted(d, x) ==
  /\ pc' = [pc EXCEPT ![d] = "accepted"]
  /\ answer' = [answer EXCEPT ![d] = x]

Goto(d, p) == pc' = [pc EXCEPT ![d] = p] /\ UNCHANGED answer

WithKey(d) == {x \in rows : SameKey(d, x)}
WithEventId(d) == {x \in rows : SameEventId(d, x)}

\* A lookup of d: a row that was found is the answer, otherwise d goes on to p.
Lookup(d, found, p) ==
  /\ \/ \E x \in found : Accepted(d, x)
     \/ found = {} /\ Goto(d, p)
  /\ UNCHANGED <<rows, sent>>

Admitted(d) == Content[d].payload # None /\ VerifySignature(d)

\* 400 or 401, before anything is stored.
Refuse(d) ==
  /\ pc[d] = "new"
  /\ ~Admitted(d)
  /\ Goto(d, "refused")
  /\ UNCHANGED <<rows, sent>>

\* The first SELECT of get_or_create.
Get(d) ==
  /\ pc[d] = "new"
  /\ Admitted(d)
  /\ Lookup(d, WithKey(d), "insert")

(***************************************************************************)
(* Its INSERT, committed at once.  A concurrent insert of a conflicting    *)
(* row is waited for, so one of the two is first.                          *)
(***************************************************************************)
\* Fault variant: uq_vendor_external_event is missing.
ConflictOnKeyAlone(d) == WithKey(d) # {}

Conflict(d) == WithKey(d) \cup WithEventId(d) # {}

\* Fault variant: neither constraint is there.
InsertUnchecked(d) ==
  /\ pc[d] = "insert"
  /\ rows' = rows \cup {d}
  /\ answer' = [answer EXCEPT ![d] = d]
  /\ pc' = [pc EXCEPT ![d] = "dispatch"]
  /\ UNCHANGED sent

\* Fault variant: the answer names a row that was never saved.
InsertForgets(d) ==
  /\ pc[d] = "insert"
  /\ ~Conflict(d)
  /\ answer' = [answer EXCEPT ![d] = d]
  /\ pc' = [pc EXCEPT ![d] = "dispatch"]
  /\ UNCHANGED <<rows, sent>>

Insert(d) ==
  /\ pc[d] = "insert"
  /\ ~Conflict(d)
  /\ rows' = rows \cup {d}
  /\ answer' = [answer EXCEPT ![d] = d]
  /\ pc' = [pc EXCEPT ![d] = "dispatch"]
  /\ UNCHANGED sent

\* Fault variant: the INSERT is tried until it succeeds.
InsertRetried(d) ==
  /\ pc[d] = "insert"
  /\ Conflict(d)
  /\ Goto(d, "insert")
  /\ UNCHANGED <<rows, sent>>

InsertConflict(d) ==
  /\ pc[d] = "insert"
  /\ Conflict(d)
  /\ Goto(d, "again")
  /\ UNCHANGED <<rows, sent>>

\* get_or_create selects once more before it raises the IntegrityError.
GetAgain(d) == pc[d] = "again" /\ Lookup(d, WithKey(d), "by_key")

(***************************************************************************)
(* create_or_get's own handler: by key, then by the vendor's event id.     *)
(***************************************************************************)
\* Fault variant: the handler looks the row up by key alone.
ByKeyAlone(d) == pc[d] = "by_key" /\ Lookup(d, WithKey(d), "error")

ByKey(d) == pc[d] = "by_key" /\ Lookup(d, WithKey(d), "by_external")

ByExternal(d) == pc[d] = "by_external" /\ Lookup(d, WithEventId(d), "error")

(***************************************************************************)
(* The task is published on commit, once the row is visible, and only by   *)
(* the delivery that created the row.  Without ATOMIC_REQUESTS that is at  *)
(* once, and a failing broker is a 500 to the vendor.                      *)
(***************************************************************************)
\* Fault variant: the answer does not wait for the publication.
DispatchForgotten(d) ==
  /\ pc[d] = "dispatch"
  /\ Accepted(d, d)
  /\ UNCHANGED <<rows, sent>>

Dispatch(d) ==
  /\ pc[d] = "dispatch"
  /\ sent' = [sent EXCEPT ![d] = @ + 1]
  /\ Accepted(d, d)
  /\ UNCHANGED rows

DispatchFails(d) ==
  /\ pc[d] = "dispatch"
  /\ Goto(d, "unsent")
  /\ UNCHANGED <<rows, sent>>

----------------------------------------------------------------------------
\* The statements of a request that has begun.
Handle(d) ==
  \/ Insert(d)
  \/ InsertConflict(d)
  \/ GetAgain(d)
  \/ ByKey(d)
  \/ ByExternal(d)
  \/ Dispatch(d)
  \/ DispatchFails(d)

Answered == {"refused", "accepted", "error", "unsent"}

Next == \/ \E d \in Deliveries : Refuse(d) \/ Get(d) \/ Handle(d)
        \/ (\A d \in Deliveries : pc[d] \in Answered) /\ UNCHANGED vars

Spec == Init /\ [][Next]_vars

\* A request that has begun runs to its end; vendors need not send anything.
FairSpec == Spec /\ \A d \in Deliveries : WF_vars(Handle(d))

----------------------------------------------------------------------------
TypeOK ==
  /\ rows \subseteq Deliveries
  /\ pc \in [Deliveries -> PCs]
  /\ answer \in [Deliveries -> rows \cup {None}]
  /\ sent \in [Deliveries -> Nat]

\* The deliveries of vendors that do not repeat a key with another event id.
KeyKeepers ==
  {d \in Deliveries :
     \A x, y \in Deliveries :
       Content[x].vendor = Content[d].vendor /\ SameKey(x, y)
         => Content[x].external = Content[y].external}

(***************************************************************************)
(* Nobody can write under the name of a vendor that signs, nor learn the   *)
(* id of its webhook or use up its idempotency key, with a request that is *)
(* not signed, whether the name is in the header or in the payload and     *)
(* whatever its case: the requests that are answered with a webhook, and   *)
(* the ones whose webhook they are answered with, carry the signature of   *)
(* the vendor under whose name the row is kept.                            *)
(***************************************************************************)
OnlySignedIsKept ==
  \A d \in Deliveries :
    answer[d] # None =>
      \A x \in {d, answer[d]} :
        LET v == Content[answer[d]].vendor IN
        \/ Request[x].signed = SecretForVendor(v)
        \/ SecretForVendor(v) = None /\ ~RequireSignature

SameEvent(d, x) == SameKey(d, x) \/ SameEventId(d, x)

(***************************************************************************)
(* A redelivery is answered with the original webhook, however the two     *)
(* race through get_or_create: deliveries with the same idempotency key,   *)
(* or the same vendor event id under another key, name one row.  (A key    *)
(* reused for another event id is answered through either: KeyKeepers.)    *)
(***************************************************************************)
RedeliveryNamesOriginal ==
  \A d, x \in KeyKeepers :
    /\ pc[d] = "accepted" /\ pc[x] = "accepted"
    /\ SameEvent(d, x)
    => answer[d] = answer[x]

(***************************************************************************)
(* A duplicate enqueues nothing: all deliveries of one event together      *)
(* publish at most one normalisation task, those of a vendor that reuses   *)
(* its keys too.                                                           *)
(***************************************************************************)
EventIsSentOnce ==
  \A d, x \in Deliveries :
    /\ sent[d] <= 1
    /\ SameEvent(d, x) /\ sent[d] > 0 /\ sent[x] > 0 => d = x

(***************************************************************************)
(* A duplicate delivery is never turned into a 500: whichever of the two   *)
(* constraints fired, create_or_get finds the row that fired it.           *)
(***************************************************************************)
DuplicateIsNoError == \A d \in Deliveries : pc[d] # "error"

\* The publication of row x has been made or is about to be.
SentOrAboutTo(x) == sent[x] > 0 \/ pc[x] = "dispatch"

(***************************************************************************)
(* A webhook answered with 202 is enqueued, or its creator is about to     *)
(* enqueue it, or its creator failed to and told its own caller so.        *)
(***************************************************************************)
AcceptedIsSentOrReported ==
  \A d \in Deliveries :
    pc[d] = "accepted" =>
      SentOrAboutTo(answer[d]) \/ pc[answer[d]] = "unsent"

(***************************************************************************)
(* Every request that has begun is answered: from some moment on each of   *)
(* the deliveries has its answer or was never sent.                        *)
(***************************************************************************)
EveryRequestAnswered ==
  <>[](\A d \in Deliveries : pc[d] \in Answered \cup {"new"})

----------------------------------------------------------------------------
(* What the documentation says, and the code does not guarantee.           *)

(***************************************************************************)
(* 202 means that the webhook is persisted and its normalisation enqueued. *)
(***************************************************************************)
AcceptedIsSent ==
  \A d \in Deliveries : pc[d] = "accepted" => SentOrAboutTo(answer[d])

============================================================================
