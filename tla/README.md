# A TLA+ model of the inbound event gateway

The gateway accepts webhooks from vendors, stores each delivery once, normalises
the stored payload on Celery workers, and keeps the latest known status of every
shipment and invoice. A reading the normaliser is not sure of is held until a
person approves it. This directory models the parts of that where several
actors work on the same rows without holding a lock between their steps, checks
the models with TLC on small instances, and proves the main safety properties
with TLAPS for every number of webhooks, workers, reviewers and operators.

## 1. The system

| Component | State it keeps | Operations | Source |
|---|---|---|---|
| Ingestion and idempotency | `RawWebhook` rows, two unique constraints | `build_idempotency_key`, `create_or_get`, `ingest` | `apps/ingestion` |
| Broker and worker pool | messages, what each worker executes | publish, deliver, acknowledge, redeliver | Celery, set up in `config/settings.py` |
| Normalization task | `processing_status`, `NormalizedEvent` | `process_raw_webhook`, `create_for_webhook` | `apps/normalization/tasks.py`, `repositories.py` |
| Confidence gate and review | `requires_review`, `reviewed_at`, `review_decision` | `apply_confidence_gate`, `apply_review_decision`, review API, admin actions | `apps/normalization/review.py` |
| Replay | `processing_status` | replay API, `replay_selected`, `replay_failed_webhooks` | `apps/ingestion/services.py`, `tasks.py`, `admin.py` |
| Entity state | `EntityState`, one row per entity | `upsert_if_newer` | `apps/entities/repositories.py` |
| Lane routing | a counter per vendor and window, in the cache | `record_arrival`, `queue_for_vendor` | `apps/ingestion/routing.py` |
| Vendor profiles | `VendorProfile` rows and a 60 s cache | `profile_for`, `save`, `delete`, `invalidate` | `apps/normalization/vendors.py` |
| Normalisers | none | rule scores, the OpenAI call, backend selection, the schema | `apps/normalization/backends`, `schemas.py` |
| Discovery and hand-written profiles | none beyond the profile | profile from samples, merge of a model's proposal, PUT of a corrected one | `apps/normalization/discovery.py`, `serializers.py`, `views.py` |
| Calibration | none | verdict and advised threshold from decided events | `apps/normalization/calibration.py` |
| Listings | none | the review queue and the low-confidence list, page by page | `apps/normalization/views.py`, `paging.py` |
| Request reading, signatures | none | vendor and key resolution, HMAC check | `apps/ingestion/inbound.py`, `security.py` |

The components meet in the database and at the broker. Ingestion inserts a row
and publishes its id. A worker claims the row, writes the event, runs the gate,
and the gate writes entity state or the review flag. Reviewers promote held
events into entity state. Operators set rows back to RECEIVED and publish them
again. None of them keeps a lock from one of these steps to the next.

What is hard about it:

* *Stale instances.* Workers, reviewers and operators act on Django model
  instances loaded in an earlier transaction, and save single columns by primary
  key, over whatever the row says by then.
* *Messages more than once.* Late acknowledgement redelivers after a worker
  loss. A retry is published before the present message is acknowledged. A
  forced replay adds a message while another is in flight.
* *Two commits where a crash fits in between.* The claim and the normalisation;
  `create_for_webhook` and the gate; a row and its publication.
* *A cache beside the database.* Arrival counters and vendor profiles are read,
  used and written back in separate calls, with edits, expiry and failures in
  between.
* *Races decided by PostgreSQL.* `get_or_create` under concurrent inserts, on
  `EntityState` (with `SELECT ... FOR UPDATE`) and on `RawWebhook` (with two
  constraints).

What makes the components correct: a delivery is stored and enqueued once; a
webhook does not get stuck where neither the sweep nor an unforced replay looks;
entity state holds only trusted readings and never moves back in event time; a
normalised event is held or applied; an approval takes effect; only a vendor over
its own burst is moved to the bulk lane; an edited profile takes effect; what the
rules are confident about was recognised and not guessed; a profile that
was accepted can be normalised with; the word a person is asked for is the
one that was missing; whoever pages through the queue misses only what changes
explain.

## 2. The modules

| Module | Models | Theorems in |
|---|---|---|
| `GatewayData` | readings, beliefs, the threshold, `upsert_if_newer` as one step | `GatewayDataProofs` |
| `EntityBelief` | abstract: what entity state promises its readers | in those of its two refinements |
| `EntityStateRepository` | `upsert_if_newer` statement by statement; implements `EntityBelief` | `EntityStateRepositoryProofs` |
| `Pipeline` | broker, workers, gate, review, replay; implements `EntityBelief` | `PipelineProofs` |
| `Ingestion` | concurrent requests: vendor, key and event id, signature, `create_or_get`, publication | `IngestionProofs` |
| `Routing` | `record_arrival` and `queue_for_vendor` under racing requests | `RoutingProofs` |
| `ProfileCache` | `profile_for` against every way of editing a profile | `ProfileCacheProofs` |
| `Schemas` | `NormalizationResult`: what a reading has to satisfy, and the gate's test | |
| `RulesNormalizer` | the rule-based normaliser, as operators | `OnboardingProofs` |
| `Backends` | backend selection and the OpenAI normaliser's error mapping, as operators | `OnboardingProofs` |
| `Discovery` | statistical discovery and the model's merge, as operators | `OnboardingProofs` |
| `Calibration` | the verdict and advice of the calibration report, as operators | `ReviewQueueProofs` |
| `Onboarding` | discovery, model, correction by hand and normalisation for one vendor; composes the four | `OnboardingProofs` |
| `Flattening` | `flatten_payload`, the recursion over documents, and what a path finds in its result | |
| `ReviewQueue` | the listings and the calibration report over rows that change meanwhile; uses `Calibration` | `ReviewQueueProofs` |
| `MC*` | the instances for TLC | |

`Pipeline` composes the task, the gate, review, replay and entity state, because
they share the three tables. It uses `upsert_if_newer` as one step;
`EntityStateRepository` is the reason it may. `Ingestion` is separate: once the
row is stored, `Pipeline` only needs that a row appears and is, or is not,
published (its `Ingest`, `Dispatch`, `DispatchFails`).

### GatewayData and EntityBelief

A *reading* is the part of `NormalizationResult` that properties tell apart:
entity, status, event time (a tick), confidence (in thousandths, so that the
strict `<` of `is_low_confidence` has a boundary). A *belief* is an
`EntityState` row: the webhook whose event it points at, and the reading its
columns came from. The row does not store the confidence. The model keeps it so
that `OnlyTrustedBelieved` can say where a belief came from.

### EntityStateRepository

Each element of `Txns` is one call. `pc` is the SQL statement the call is at:
`GetRow`/`GetNothing` are the locking SELECT, `Insert`/`InsertConflict` the
INSERT in get_or_create's savepoint (it waits for another uncommitted INSERT and
is refused by `uq_entity_type_id` once a row is committed), `Compare` the
comparison and save, `Commit`/`Rollback` the end of the transaction. An
uncommitted INSERT is invisible to a SELECT, and a waiting SELECT sees what the
holder committed: PostgreSQL at READ COMMITTED, modelled from the statements the
code issues.

### Pipeline

| Action | Code |
|---|---|
| `Ingest`, `Dispatch`, `DispatchFails` | the INSERT and the `on_commit` publication |
| `Fetch` | delivery, the unlocked read, the `NORMALIZED` return |
| `Claim`, `ClaimRefused` | the locked transaction of `process_raw_webhook` |
| `CreateForWebhook` | the normaliser's answer and `create_for_webhook` |
| `Gate` | `apply_confidence_gate` |
| `FailRetryable`, `Retry`, `RetryPublishFails`, `DeadLetter` | the `RetryableNormalizationError` handler |
| `Fail` | the `NormalizationError` and `Exception` handlers, which also catch what is raised after the gate, while the task logs |
| `Ack`, `WorkerLost`, `TimeLimit` | late acknowledgement, worker loss, the hard time limit |
| `OpenReview`, `Decide`, `DecideFails` | the review API and the admin actions |
| `ReplayOne`, `ReplaySelected`, `ReplayFailed` | the three callers that read rows to replay |
| `ReplayReset`, `ReplayPublish`, `ReplayPublishFails` | `ReplayService.replay` |

One action is one transaction or one publication. A task carries the reading its
worker has in memory, a review the snapshots its reviewer loaded, a replay the
rows its operator selected. `queue[h][k]` counts the messages for webhook `h`
with Celery retry count `k`, in no order.

Three history variables record what the program does not: `ruled` (what each
person saw and decided), `lost` (a crash, a time limit or a failed publication
took the only thing that would move the webhook on; a replay's reset takes it
out again) and `ungated` (the worker was killed between writing the event and
gating it). No guard reads them.

The normaliser is an input: any member of `Readings` each time, or either kind of
failure. A model may answer differently, and a profile may have been edited
between two runs, so a replay need not read the same thing again.

### Ingestion

Each element of `Deliveries` is one HTTP request. `Admitted` is `read_request` and
`verify_signature` in the order the view calls them: header before payload for
vendor, key and event id, then the vendor's secret or the wildcard's. A
signature is represented by the secret it was made with. `Refuse` is the 400 or
401 answer. A row is named by the delivery that inserted it. `Get`,
`Insert`, `InsertConflict` and `GetAgain` are Django's `get_or_create`; `ByKey`
and `ByExternal` the IntegrityError handler of `create_or_get`; `Dispatch` and
`DispatchFails` the publication on commit (immediate, as ATOMIC_REQUESTS is off).

### Routing

Each element of `Arrivals` is one call of `route_for`: `Arrive` reads the clock and
fixes the window, `Add` and `Incr` are the two cache calls, `Unavailable` is the
handler that answers 0 when either raises. `Tick` advances the clock and drops
counters whose timeout is over. The history variable `degraded` names windows
whose counter was lost, where the routing is allowed to be too generous.

### ProfileCache

A reader is `Lookup`, `Query`, `Fill` (or `Hit`): the get, query and set of
`profile_for`. An edit is begun by the API or discovery (`Save`, `Delete`), which
commit and then invalidate, or by the admin (`AdminSave`, `AdminAdd`,
`AdminDelete`), whose forms run in Django's transaction and so invalidate before
they commit; `AdminDeleteSelected` commits first. `Write`, `Commit`,
`Invalidate`, `EditFails` carry the edit out, `Expire` is the timeout. A row is
looked up by its name in any case and written by its exact name, so two spellings
are two rows of which `Current` picks the first in collation order. Two history
variables record what the program does not: `overtaken`, the readers whose vendor was
edited between their query and their fill, and `excused`, the entries to which one of
the events has happened that can leave them wrong.

### Schemas, RulesNormalizer, Backends, Discovery, Onboarding, Flattening

A payload is a sequence of keys and nodes in document order, because
`flatten_payload` depends on the order; a node is a value, an object or a list, and a
key a sequence of segments, as it may have dots in it. Keys, values, key lists, vocabularies, what
`status_token` and `parse_timestamp` make of a value are constants: the model is
about which value is picked, how it is interpreted and with which confidence (in
thousandths), not about regular expressions. `flatten_payload` itself is a constant
operator, `Flatten`, of which the rules and discovery only need that it lists paths
with values; `Flattening` defines it (`Flattened`), recursively, and the runs use that.
The two are apart so that what follows from any flattening can be proved. The entity
type of a profile that names none, the empty string, is `Untyped`. Both backends end in `FromDict`.
`OpenAINormalize` sorts every way the model's service may behave (three
exceptions of the client that are retried, any other, no JSON, JSON of the wrong
shape, a valid reading) into a reading or one of the two errors. Both look the vendor's
profile up first, which may fail (`LookupError`); the rules also raise on a number that
no float can hold (`OverflowError`), and so does discovery, which then changes nothing
(`Raises`).

| Action of `Onboarding` | Code |
|---|---|
| `Discover` | the statistical half of `discover_profile`, from the API or the command |
| `ProposeStatistical`, `ProposeWithModel` | the merge, and `persist` |
| `ProposalIsNonsense` | an answer the merge raises on |
| `PutHandWritten`, `Teach` | PUT of a profile: one of its own, or the proposal with one unmapped word added |
| `Receive`, `ReceiveByModel` | `get_normalizer` and the backend it answers with |

A webhook may come before discovery, after it, or after a person has corrected the
proposal. The model's reading of a webhook is any of `Answers`: nothing in the code
ties it to the payload.

### Calibration, ReviewQueue

Events are numbered in the order of `created_at`. `CreateForWebhook` inserts a row
or, on a replay, rewrites it in its old place; `Hold` is the gate in its own
transaction, on the reading it was given; `OpenReview` and `Decide` are a reviewer
acting on a loaded instance. `Get` reads the query parameters, `Count` and `Slice`
are the two queries of a page, and a client that is told a `next_offset` asks for it
(`Slice` starts the next page). `query` is the client's place, `seen` a history
variable: what it was shown, the offset it began with, what was listed all the time,
and how many events left the listing, entered it behind the client, or entered between
a COUNT and its page. Only the low-confidence listing reads a threshold, and only the
review queue a vendor. The calibration report is one query over the same rows (`CalibrationRow`), with
confidences in thirds of a thousandth: the report rounds to thousandths, the gate does
not.

### Fault variants

Definitions commented *Fault variant* stand next to the action they distort and
are used by no specification. Each is a plausible bug of that code: no
`FOR UPDATE`, early acknowledgement, a handler that looks a row up by key alone.
Substituted for the original, each makes TLC report the property it belongs to.

## 3. What the runs check

Passing:

| Run | Instance | Distinct states | Shows |
|---|---|---|---|
| `upsert_races` | 4 calls, 2 entities, 3 calls on one row, 2 tied in time | 695 | `LockDiscipline`, `NewestCommittedWins`, refinement of `EntityBelief` |
| `pipeline_replay` | 1 webhook, 2 readings, 2 workers, 1 retry, 1 crash, 2 replays, 1 reviewer | 485 000 | `NoStranded`, `OnlyTrustedBelieved`, `NormalizedIsAccountedFor`, `ApprovedIsReflected`, refinement of `EntityBelief`, `Settles`, `Drains` |
| `ingestion_races` | 8 requests of 2 vendors, one of which signs and one of which reuses a key for another event | 211 000 | `RedeliveryNamesOriginal`, `EventIsSentOnce`, `OnlySignedIsKept`, `DuplicateIsNoError`, `AcceptedIsSentOrReported`, `EveryRequestAnswered` |
| `routing` | 3 requests of a loud vendor and 1 of a quiet one, windows of 2 ticks, 4 ticks, bursts 0 and 1 | 1 800 000 | `QuietStaysOnDefault`, `DefaultLaneIsBounded`, `WarnedOncePerWindow` |
| `profile_cache` | 3 names of 2 keys, any initial table, 1 reader, 2 writers, 2 edits | 1 330 000 | `StaleOnlyInAWindow`, `EditsTakeEffect` |
| `onboarding` | 94 sets of samples, 150 webhooks, each with the model's proposals, hand-written profiles, lessons and answers of `MCOnboarding` | 591 000 | `TrustedIsRecognised`, `EntriesAreTheirOwn`, `PathsExistInSamples`, `AcceptedProfilesFit`, `ProfileKeepsMeaning`, `TeachingTheWordSuffices`, `HeldWordIsReported` |
| `review_queue` | 4 webhooks of 2 vendors, any initial table, 6 requests, 2 changes | 2 200 000 | `SkipsAreExplained`, `RepeatsAreExplained`, `AdviceHoldsRejections` |

*Bounds.* One webhook and two workers are enough for every duplicate-message
race: redelivery, retry and replay each add a message to the same row. Events of
several webhooks that compete for one entity, and batches and sweeps over several
webhooks, are left to the proofs, which state the run's four invariants and its
refinement for every number of webhooks. One retry has both ends of the ladder;
one crash can fall between any two steps; two replays let a second one meet the
leftovers of the first. The two readings are a confident one exactly at the
threshold and a doubtful one just below it that is newer, so that letting it
through shows. In `routing` the clock crosses
window boundaries and the counter's timeout of two windows, so a stalled request
meets the counter of the next window and an expired one. In `profile_cache` two
edits are enough for one edit's commit to fall between another's two steps, and
one reader for a stale fill; a second reader would only repeat the first.
`onboarding` has keys that are exact, nested, dotted, in a list, similar and
meaningless, and values that are words, times, identifiers, fractions, too large for a
float, and empty; every webhook is also received while profiles cannot be looked up. In `review_queue` pages have one or two
events, so that four events make up to four pages; two changes are a replay and the
decision that it overtakes, or two events that leave between two pages. Each
event has a confidence of its own below the threshold: two on either side of the
same thousandth, one just under those, and one that rounds to the threshold. Advice
there needs two decisions instead of five (`MIN_DECISIONS_FOR_ADVICE`), so tables
short of it, at it and beyond it all occur. `created_at` is taken to be
distinct: the code orders by nothing else, and PostgreSQL may order ties as it likes.

*Symmetry* is used in `routing` (the loud vendor's requests), where no liveness is
checked.

*Deadlock* is not checked in `Pipeline`, `Routing`, `Onboarding` and `ReviewQueue`: the
gateway may come to rest with nothing sent, reviewed or replayed, and the bounds run out. The
other modules check it; finished instances stutter.

*Fairness.* `Pipeline` assumes weak fairness of each worker's next step (workers
poll, and the time limits end every task), of each request that has stored a row
and is about to publish, and of each replay under way. Nobody is obliged to send,
review, ask for a replay or crash. `Ingestion` assumes that a request that
has begun runs on, `ProfileCache` only that the cache times entries out. Failure
steps satisfy these assumptions too, so no run assumes that anything succeeds.

Violated, each against a sentence of the repository:

| Run | The repository says | What happens |
|---|---|---|
| `review_final` | "A decision is final (`409` on a second one)" (`README.md:130`) | two reviewers load one held event; `AlreadyDecided` is tested on the loaded instance, and the second decision overwrites the first |
| `normalized_again` | `test_an_already_normalized_webhook_is_not_normalised_again` | only `PROCESSING` is tested under the lock; a worker lost after publishing its retry leaves two messages, and the second claims a webhook that is already `NORMALIZED` |
| `gate_lost` | "The gate runs again immediately after this" (`normalization/repositories.py:36`) | the hard time limit ends the task between the two transactions; its message is acknowledged, nothing comes after it, and the event is neither held nor applied (after a lost worker the redelivery returns early, to the same end) |
| `accepted_unsent` | the endpoint "persists ... and enqueues asynchronous normalization" (`ingestion/views.py:36`) | the first request fails to publish; the vendor's retry gets 202 and enqueues nothing |
| `admin_edit` | the lookup "cannot keep serving the old profile" (`normalization/admin.py:122`) | the form invalidates inside its transaction; a lookup caches the old row after that, and the form commits over it |

Despite these, the passing runs and the proofs show that none of the races lets
an untrusted reading into entity state or moves it back in time.

Some properties are stated with a limit that the same races impose:

* `OnlyTrustedBelieved` speaks of the reading a person *saw*, not of the decision
  the event row records. A replay between a reviewer's load and the decision
  makes `apply_review_decision` mark the newly written reading as reviewed,
  while the one promoted is the one that was seen.
* `NormalizedIsAccountedFor` lets an event be held *and* reflected: a slow
  worker's gate saves `requires_review` by primary key, also onto a row that
  another worker has since rewritten with a confident reading.
* `ApprovedIsReflected` says "at least as new". `apply_review_decision` returns
  `True` for every approval, also when `upsert_if_newer` left the row alone.
* `RedeliveryNamesOriginal` is about vendors that do not repeat an
  `Idempotency-Key` with another event id (`KeyKeepers`). A key that was
  answered through the event id is recorded nowhere, so a later delivery with
  that key and another id inserts a second row. `EventIsSentOnce` needs no such
  limit: it counts the tasks of one event, and the second row is of another one.
* `StaleOnlyInAWindow` says what has to happen before an entry is wrong: an edit is
  between commit and invalidation, a lookup queried before a commit and filled after it,
  a form committed over an entry, or an invalidation failed. `excused` is set by these
  events, whether or not the entry is then wrong, and by nothing else; so an edit of
  another name, a delete, or a lookup that came later cannot leave a wrong entry.
  `admin_edit` shows one of these events; what the others do is told below. A PUT under
  a second spelling writes a row that no lookup reads while the first spelling sorts
  before it.
* `DefaultLaneIsBounded` allows twice the burst, because windows are fixed and not
  sliding, and nothing in a window whose counter was lost.
* `EntriesAreTheirOwn` does not say that a path reads the value at that path; see
  below for when it does not.
* `AcceptedProfilesFit` is about profiles that came through the serializer. One that
  discovery stores did not, and can make the schema refuse a reading if a model has
  overruled its entity type, and only then (`MisfitsOverruled`); see below.
* `TeachingTheWordSuffices` adds words in the form the proposal names them. The
  serializer lower-cases a key but does not make it a status token, so a word
  copied from a payload with a space or a hyphen in it is stored and never found.
* `HeldWordIsReported` is about the best status path. A sample that has nothing there
  and whose word stands at another status path is held without its word being named.
* `SkipsAreExplained` is what offsets can promise: a reviewer who decides everything
  on a page and follows `next_offset` steps over as many events as were decided,
  and has to begin again from offset 0. A client that began further on has also lost
  what stood before its first offset. `RepeatsAreExplained` bounds the opposite
  error by the events that come back at their old place.
* `ProfileKeepsMeaning` compares readings of the same type, word and time. A profile may
  well change these: the majority's type is pinned for the minority, and see below.
* `TrustedIsRecognised` needs a threshold above 0.40, the confidence of a missing time.
  The default is 0.70.
* `TeachingTheWordSuffices` promises trust up to a threshold of 0.95, the confidence
  of a time that no path of the profile names, and not for events that a model has
  classified as `UNCLASSIFIED`, which are always held.
* `AdviceHoldsRejections` is the half of the advice that survives rounding: a threshold
  that is suggested never lets a rejected event through.
* Integers parse as timestamps, so discovery never proposes a path with integer
  ids as the identifier.

Modelling also showed, without a property against it:

* A lookup that queried before an edit fills the cache after the edit's invalidation,
  also where the edit invalidates after its commit, although the lookup "is always
  invalidated with the row" (`normalization/repositories.py:54`). A rename in the admin's
  form invalidates the new name only. The entry is served until it times out
  (`EditsTakeEffect`).
* "A path is matched whole (`'data.shipment.id'`) or by its last segment"
  (`normalization/models.py:117`), but the leaf names of a nested object overwrite the
  entry of a top-level key that came before it: of {`id`: "S-1", `customer`: {`id`:
  "C-9"}} the path `id` reads C-9 (`Update`).
* "Every status must be canonical" (`README.md:141`), and "a confident invention is
  dropped rather than written into a profile" (`discovery.py:357`). The merge checks the
  model's mappings against the type that the model proposes, but keeps those of the
  statistical pass, which were made under another type (`MergeModelProposal`). Stored
  with `persist`, such a profile makes the schema refuse every webhook with one of these
  words; a PUT of it is refused.
* "Every failure sorted into 'retry this' or 'do not retry this' before it leaves the
  module" (`openai_backend.py:4`), and the lookup tolerates "a cold or unavailable cache"
  (`settings.py:163`). The lookup of the profile for the prompt is outside of the try
  blocks, and `profile_for` catches nothing: its exception leaves the module and the task
  does not retry (`LookupError`).
* `parse_timestamp` answers "None if it is not one" (`rules_backend.py:183`), except that
  `float(raw)` raises on an integer of, say, 400 digits: the webhook fails where it would
  otherwise be read with the time of its arrival (`:391`) and held, and discovery fails
  on a sample with such a number (`OverflowError`, `Raises`).
* The calibration report compares and advises rounded confidences. With an approval at
  0.49967 and another at 0.50033 it advises 0.5, which "would have auto-applied every
  approved event" (`calibration.py:145`) and does not release the first. A rejection at
  0.49967 and an approval at 0.50033 "overlap in confidence, so no threshold separates
  them" (`:158`), and 0.5 does (`Assess`, `Round`).
* `from_dict` makes the identifier `"None"` of a null `entity_id`, and a confidence of
  NaN, which Python's `json` accepts, is neither below 0, nor above 1, nor below the
  threshold: such a reading of a model passes the schema and the gate (`Str`,
  `InRange`, `IsLowConfidence`).
* Discovery can make a vendor harder to read. A path is dropped as a status if one
  sample has a number there, so with {`status`: 42, `type`: "erledigt"} among the samples
  the profile lists `type` alone, and a sample that is trusted without a profile, by its
  word at `status`, is held with it, for its word at `type`.
* `APIError` is the base class of the client's permanent errors too, a rejected key
  or an unknown model, which are therefore retried to the end of the ladder.
* `discover_profile` catches what the call of the model raises, but not what merging
  its answer raises: an answer of another shape fails the request
  (`ProposalIsNonsense`), and nothing is stored.
* `MAX_PAGE_SIZE` caps the `limit` of a request and not `DEFAULT_PAGE_SIZE`, which is a
  setting of its own: `TypeOK` of `ReviewQueue` allows a page of either size.

## 4. What is proved

Every invariant of the passing runs but one, the type invariants included, and both refinements
are theorems; the liveness properties are not. The assumptions on the
constants, which TLC evaluates in the runs, are types: `Readings`,
`Requests` and the like are well-typed, thresholds and bounds are numbers, a window and a
page size are not 0, the grain of a confidence is odd, the collation of vendor names is
injective, and `None` is none of the values it is told from. Deliveries, arrivals,
webhooks, workers, readers and writers may be infinitely many; only a table that
is paged through has a finite number of rows. Of `Onboarding` it is assumed besides that
the tables map words to statuses of their type, that `Flatten` lists paths with values,
that tokens are sequences of words, that a number no float can hold is no time, that the strings of two paths differ, and that
nothing is read as the time of the reading; which keys, words, samples, proposals,
profiles and lessons there are is left open.

* **`EntityStateRepositoryProofs`**: `LocksAreKept`, `NewestWins`,
  `UpsertIsAtomic`. The inductive invariant `IInv` is `TypeOK`, `LockDiscipline`
  and `NewestCommittedWins`. `NewestCommittedWins` alone is not inductive: that a
  commit keeps it needs the comparison to be still true (`ComparisonStands`),
  which needs the lock to be held since (`LocksHeld`, `TxnsOwnTheirRow`).
  `UpsertIsAtomic` maps every statement but COMMIT to a stutter and COMMIT to
  `Apply`, so what the abstract specification promises holds of the rows: each is about
  its own entity (`RowsAreOwn`), is never withdrawn and is overwritten only by a strictly
  newer event (`RowsNeverRegress`). This rests on one lemma about `UpsertIfNewer`
  (`UpsertFacts`).
* **`PipelineProofs`**: `RowsOutliveWork` (`TypeOK` with `WorksOnRows`: a
  message, task, review or replay under way is about rows that exist, which the
  type of `event` and `raw` after a step depends on; `PipelineTypeCorrect` is the
  part the run checks), and on top of it, action by action,
  `GateIsNotBypassed`, `ApprovalsAreKept`, `PipelineImplementsBelief`,
  `BeliefsNeverRegress`, `BeliefsAreOwn`,
  `NothingIsStranded` and `NothingSlipsPastTheGate`. `NoStranded` and
  `NormalizedIsAccountedFor` are inductive given `TypeInv`; the interesting cases
  are the ones where a step takes away what another webhook's or worker's
  disjunct relied on.
* **`IngestionProofs`**: `DuplicatesAreAnswered`, `OneTaskPerEvent`,
  `RedeliveriesAgree`, `AnswersAreSigned`, `AcceptedOrReported`. `IInv` says what
  each statement of a request has established: the rows are of distinct events
  (`RowsAreDistinct`, what the two unique constraints keep), a creator knows its row, an
  answer is a row of the same event, and a conflict that was met still stands when
  the handler looks for it (`ConflictsStand`), because nothing deletes rows. Being of
  the same event is not transitive in general; for `KeyKeepers` it is,
  which is where `RedeliveriesAgree` needs them.
* **`RoutingProofs`**: `QuietVendorsAreLeftAlone`, `CrossingIsReportedOnce`,
  `BulkheadHolds`, for any window, by lemmas on integer division. The invariant is that a
  counter never says more than the number of requests routed in its window, and says
  exactly that unless the window is degraded. It is inductive only with the fact that a
  counter expires when no clock is in its window any more (two windows after it was
  added), and that nobody is then about to add or increment it: otherwise the
  window is degraded by that very step. `BulkheadHolds` adds that a stretch as long as
  a window meets two windows at most.
* **`ProfileCacheProofs`**: `StaleIsExplained`. `StaleOnlyInAWindow` is inductive with
  three additions: a reader past its lookup has a key, one that no commit has overtaken
  is about to fill in what the table says (`FillsAreFresh`), and an edit that invalidates
  after its commit is going to invalidate the key of every row it touches. There is
  one lemma for each step of a reader and of a writer; each has to
  show which of the named events the step is, or why the entry still agrees.
* **`ReviewQueueProofs`**: `PagingLosesLittle` and `PagingRepeatsLittle`, for any
  number of events and changes. Neither property is inductive, as it speaks of what a
  client has seen when it is through; the invariant bounds, at every moment, the
  events it can no longer reach (they stayed, were not listed, and are before its
  offset) by the departures, and those it is going to see again (listed, and
  at its offset or beyond) together with the repetitions so far by the entries behind it.
  The work is in a few lemmas on places in a listing: places are distinct, an event that
  enters or leaves moves the ones after it by one, so at most one of them crosses the
  offset (`LeavingMovesOne`, `EnteringMovesOne`). `AdviceCanBeFollowed` (a
  rejected event is below the advised threshold at the unrounded gate) follows from type
  correctness and from what rounding can add or take away (`RoundBounds`: with an odd
  grain nothing is halfway). Whether there are decisions enough for advice does not
  matter, so the fold that counts them is never unfolded.
* **`OnboardingProofs`**: `AcceptedFit`, `MisfitsOverruled`, `PathsExist`, `TrustedRecognised`,
  `HeldWordReported`, `TeachingSuffices`, `KeepsMeaning`, for any vendor. The
  invariant (`Provenance`) says where things are from: the proposal is the statistical
  reading of the samples or that with a model's answer merged into it; the stored
  profile is none, the proposal, or one the serializer accepted, and after a lesson the
  proposal with one word; the reading is what the rules make of the webhook with it, or the failure to look it
  up. All of the properties need it, because each speaks of a reading and of what was known
  when its profile was made. What follows from it is a matter of the operators:
  `ReadingFacts` (what the rules read, field by field, unless the time overflows; the schema can
  only object to the status), `DiscoverFacts` and `ProposableFacts` (paths are paths of the samples, a word
  has a status of the type unless the type is overruled, no word gets lost between mapped
  and unmapped), `StatusFacts` (the suffix that `_status` finds by trying is the longest
  one that is a word) and `SameMeaning`: suffixes of a token are ordered by
  length, so if the longest word is one that discovery mapped, the longest word of
  the table in it is also the longest in the token.

Induction over data is out of the prover's reach, but these proofs need no more than a
least element (`LeastNatural`, `LeastOfNaturals`, `MinFacts`, from the well-foundedness of
the naturals): the first row in collation order, the least and the greatest confidence,
the first key that is found, the longest suffix. That sorting gives a sequence of the
members (`InOrderFacts`) follows by counting: the number of smaller members is an
injection into as many places.

TLC confirms each inductive invariant on the instance of its component's run (an MC
module that extends the proof module instead, with `IInv` or `TypeInv` as the invariant).

Only model-checked:

* the liveness properties (`Settles`, `Drains`,
  `EveryRequestAnswered`, `EditsTakeEffect`), which are out of the prover's reach;
* `EntriesAreTheirOwn`, on what `flatten_payload` makes of a document, because
  that is a recursion over nested documents. The theorems of `OnboardingProofs` hold
  whatever it makes of one.

## 5. What is not modelled

* Within the modelled parts: `retry_count`, `error_message` and the text of
  `review_reason` (no decision reads them); the two lanes and countdown delays
  (delivery order is arbitrary anyway); deleted rows and hand edits in the
  Django admin forms; the 255-character limits (`_fit` is taken to be injective);
  redelivery by the broker's visibility timeout, an hour against a 120 s task
  limit; vendors pinned in code, which never reach the profile table or its cache;
  the wording of warnings, notes and prompts; `previous_offset`, and a client that
  goes back; profiles edited in the admin form, whose status map nobody validates;
  a cache per process, which is what the settings give without `CACHE_URL`.
* The reads of entity state, which are one query each and decide nothing.
* Logging, middleware, demo data, start-up scripts and the loading of sample files.

## 6. Plan

1. *Done:* `GatewayData`, `EntityBelief`, `EntityStateRepository`, `Pipeline`,
   `Ingestion`, with the runs and proofs above.
2. *Done:* `Routing`, `ProfileCache`, `RulesNormalizer`, `Discovery`, `Calibration`,
   and request reading and signatures in `Ingestion`.
3. *Done:* `Schemas`, `Backends`, hand-written profiles and the model's readings in
   `Onboarding`, and `ReviewQueue`.
4. *Done:* `IngestionProofs`, `RoutingProofs`, `ProfileCacheProofs`.
5. *Done:* `ReviewQueueProofs`, with the calibration report.
6. *Done:* `OnboardingProofs`, with the recursion over documents moved to `Flattening`.
