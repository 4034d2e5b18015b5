------------------------------ MODULE Pipeline ------------------------------
(***************************************************************************)
(* The life of a stored webhook: dispatch, the Celery task                 *)
(* process_raw_webhook on concurrent workers with late acknowledgement,    *)
(* the confidence gate, the review of held events, and replay by operators.*)
(*                                                                         *)
(* A database transaction is one step; between transactions, and between a *)
(* transaction and a publication to the broker, everything interleaves.    *)
(* Workers, reviewers and operators act on what they read earlier, as the  *)
(* code acts on model instances it loaded before.                          *)
(*                                                                         *)
(* The broker is external: a message is delivered to one worker, in no     *)
(* particular order, and put back when that worker dies before its         *)
(* acknowledgement (acks_late, reject_on_worker_lost).                     *)
(***************************************************************************)
EXTENDS GatewayData, FiniteSets

CONSTANTS
  Workers,      \* Celery worker processes
  Reviewers,    \* review API requests and admin review actions
  Operators,    \* replay API requests, admin replay actions, bulk sweeps
  MaxRetries,   \* max_retries of process_raw_webhook
  SweepLimit,   \* limit of replay_failed_webhooks
  MaxCrashes,   \* bound: worker processes that die
  MaxReplays    \* bound: replay requests

ASSUME PipelineAssumption ==
  /\ MaxRetries \in Nat
  /\ SweepLimit \in Nat
  /\ MaxCrashes \in Nat
  /\ MaxReplays \in Nat

VARIABLES
  raw,          \* webhook -> processing_status; None before it is stored
  event,        \* webhook -> its NormalizedEvent row, or None
  state,        \* entity -> its EntityState row, or None
  queue,        \* webhook -> retries -> number of such messages at the broker
  dispatching,  \* webhooks stored but not yet published by the ingest request
  worker,       \* worker -> the task it executes
  review,       \* reviewer -> the snapshots still to be decided
  operator,     \* operator -> the webhooks still to be replayed
  crashes,      \* worker processes that died
  replays,      \* replay requests made
  \* History: what happened, never read by the program.
  ruled,        \* [webhook, reading, decision]: what a person saw and decided
  lost,         \* webhooks whose driving message or claim holder is gone
  ungated       \* webhooks whose latest event lost its gate

broker == <<queue, dispatching>>
people == <<review, operator>>
bounds == <<crashes, replays>>
history == <<ruled, lost, ungated>>
vars == <<raw, event, state, broker, worker, people, bounds, history>>

ProcessingStatus ==
  {"RECEIVED", "PROCESSING", "NORMALIZED", "FAILED", "DEAD_LETTER"}

Decisions == {"approve", "reject"}

Event == [reading: Readings, requires_review: BOOLEAN,
          decision: Decisions \cup {None}]

ASSUME NoneIsNoValue == /\ None \notin Event
                        /\ None \notin ProcessingStatus
                        /\ None \notin Decisions

Snapshot == [webhook: Webhooks, reading: Readings]

WorkerPC == {"idle", "claim", "normalize", "gate", "log", "retry", "ack"}

Idle == [pc |-> "idle", webhook |-> None, retries |-> 0, reading |-> None]
NoReview == [decision |-> None, todo |-> {}]
NoReplay == [todo |-> {}, publishing |-> None]

Init ==
  /\ raw = [h \in Webhooks |-> None]
  /\ event = [h \in Webhooks |-> None]
  /\ state = [e \in Entities |-> None]
  /\ queue = [h \in Webhooks |-> [k \in 0..MaxRetries |-> 0]]
  /\ dispatching = {}
  /\ worker = [w \in Workers |-> Idle]
  /\ review = [v \in Reviewers |-> NoReview]
  /\ operator = [o \in Operators |-> NoReplay]
  /\ crashes = 0
  /\ replays = 0
  /\ ruled = {}
  /\ lost = {}
  /\ ungated = {}

----------------------------------------------------------------------------
(* Ingestion, from the row on: Ingestion models how a request gets there.  *)

Publish(h, k) == queue' = [queue EXCEPT ![h][k] = @ + 1]
Take(h, k) == queue' = [queue EXCEPT ![h][k] = @ - 1]

Ingest(h) ==
  /\ raw[h] = None
  /\ raw' = [raw EXCEPT ![h] = "RECEIVED"]
  /\ dispatching' = dispatching \cup {h}
  /\ UNCHANGED <<event, state, queue, worker, people, bounds, history>>

Dispatch(h) ==
  /\ h \in dispatching
  /\ dispatching' = dispatching \ {h}
  /\ Publish(h, 0)
  /\ UNCHANGED <<raw, event, state, worker, people, bounds, history>>

\* The request dies, or apply_async raises: the row is stored, nothing is sent.
DispatchFails(h) ==
  /\ h \in dispatching
  /\ dispatching' = dispatching \ {h}
  /\ lost' = lost \cup {h}
  /\ UNCHANGED <<raw, event, state, queue, worker, people, bounds, ruled, ungated>>

----------------------------------------------------------------------------
(* process_raw_webhook.                                                    *)

\* Worker w goes on to statement p of its task, with the reading r in hand.
Goto(w, p, r) ==
  worker' = [worker EXCEPT ![w] =
    [pc |-> p, webhook |-> worker[w].webhook, retries |-> worker[w].retries,
     reading |-> r]]

Ends(w) == worker' = [worker EXCEPT ![w] = Idle]

Sets(h, s) == raw' = [raw EXCEPT ![h] = s]

(***************************************************************************)
(* A delivery and the unlocked read: an already normalised webhook ends    *)
(* the task.                                                               *)
(***************************************************************************)
Fetch(w, h, k) ==
  /\ worker[w].pc = "idle"
  /\ queue[h][k] > 0
  /\ Take(h, k)
  /\ worker' = [worker EXCEPT ![w] =
       [pc |-> IF raw[h] = "NORMALIZED" THEN "ack" ELSE "claim",
        webhook |-> h, retries |-> k, reading |-> None]]
  /\ UNCHANGED <<raw, event, state, dispatching, people, bounds, history>>

(***************************************************************************)
(* The claim, under the row lock.  Only PROCESSING is looked at again: a   *)
(* webhook normalised since the unlocked read is claimed once more.        *)
(***************************************************************************)
Claim(w) ==
  /\ worker[w].pc = "claim"
  /\ raw[worker[w].webhook] # "PROCESSING"
  /\ Sets(worker[w].webhook, "PROCESSING")
  /\ Goto(w, "normalize", None)
  /\ UNCHANGED <<event, state, broker, people, bounds, history>>

ClaimRefused(w) ==
  /\ worker[w].pc = "claim"
  /\ raw[worker[w].webhook] = "PROCESSING"
  /\ Goto(w, "ack", None)
  /\ UNCHANGED <<raw, event, state, broker, people, bounds, history>>

(***************************************************************************)
(* The normaliser returns reading r (a model may answer differently each   *)
(* time, and a profile may have changed), and create_for_webhook stores it *)
(* over whatever the row held, clearing the previous run's review.         *)
(***************************************************************************)
CreateForWebhook(w, r) ==
  LET h == worker[w].webhook IN
  /\ worker[w].pc = "normalize"
  /\ event' = [event EXCEPT ![h] =
       [reading |-> r, requires_review |-> FALSE, decision |-> None]]
  /\ Sets(h, "NORMALIZED")
  /\ Goto(w, "gate", r)
  /\ ungated' = ungated \ {h}
  /\ UNCHANGED <<state, broker, people, bounds, ruled, lost>>

(***************************************************************************)
(* apply_confidence_gate, a transaction of its own, on the instance that   *)
(* create_for_webhook returned.  Holding writes only the review flag of    *)
(* the event row, whatever reading that row has by now.                    *)
(***************************************************************************)
Holds(w) ==
  /\ event' = [event EXCEPT ![worker[w].webhook].requires_review = TRUE]
  /\ UNCHANGED state

\* Fault variant: the last writer wins, however old its event.
TrustsLatest(w) ==
  LET r == worker[w].reading IN
  /\ state' = [state EXCEPT ![r.entity] = BeliefOf(worker[w].webhook, r)]
  /\ UNCHANGED event

Trusts(w) ==
  /\ state' = UpsertIfNewer(state, worker[w].webhook, worker[w].reading)
  /\ UNCHANGED event

\* Fault variant: LOW_CONFIDENCE_THRESHOLD is declared and never read.
TrustEverything(w) == Trusts(w)

\* Fault variant: a doubtful event is flagged, the others are forgotten.
HoldOnly(w) ==
  IF IsLowConfidence(worker[w].reading)
    THEN Holds(w) ELSE UNCHANGED <<event, state>>

ApplyConfidenceGate(w) ==
  IF IsLowConfidence(worker[w].reading) THEN Holds(w) ELSE Trusts(w)

Gate(w) ==
  /\ worker[w].pc = "gate"
  /\ ApplyConfidenceGate(w)
  /\ Goto(w, "log", None)
  /\ UNCHANGED <<raw, broker, people, bounds, history>>

(***************************************************************************)
(* RetryableNormalizationError: FAILED is saved first, then the task       *)
(* publishes its own successor, or dead-letters at the end of the ladder.  *)
(***************************************************************************)
FailRetryable(w) ==
  /\ worker[w].pc = "normalize"
  /\ Sets(worker[w].webhook, "FAILED")
  /\ Goto(w, "retry", None)
  /\ UNCHANGED <<event, state, broker, people, bounds, history>>

\* Fault variant: the successor is published with the same retry count.
RetryForever(w) ==
  /\ worker[w].pc = "retry"
  /\ worker[w].retries < MaxRetries
  /\ Publish(worker[w].webhook, worker[w].retries)
  /\ Goto(w, "ack", None)
  /\ UNCHANGED <<raw, event, state, dispatching, people, bounds, history>>

Retry(w) ==
  /\ worker[w].pc = "retry"
  /\ worker[w].retries < MaxRetries
  /\ Publish(worker[w].webhook, worker[w].retries + 1)
  /\ Goto(w, "ack", None)
  /\ UNCHANGED <<raw, event, state, dispatching, people, bounds, history>>

\* The publication fails: Celery turns it into Reject(requeue=False).
RetryPublishFails(w) ==
  /\ worker[w].pc = "retry"
  /\ worker[w].retries < MaxRetries
  /\ Ends(w)
  /\ UNCHANGED <<raw, event, state, broker, people, bounds, history>>

DeadLetter(w) ==
  /\ worker[w].pc = "retry"
  /\ worker[w].retries = MaxRetries
  /\ Sets(worker[w].webhook, "DEAD_LETTER")
  /\ Goto(w, "ack", None)
  /\ UNCHANGED <<event, state, broker, people, bounds, history>>

(***************************************************************************)
(* NormalizationError, or any other exception inside the try block (a      *)
(* database error, the soft time limit): FAILED, whatever the row says.    *)
(* The block ends with a log line after the gate, so an event that was     *)
(* held or applied may still end up under a FAILED webhook.                *)
(***************************************************************************)
\* Fault variant: the exception is swallowed without marking the row.
FailSilently(w) ==
  /\ worker[w].pc \in {"claim", "normalize", "gate", "log"}
  /\ Goto(w, "ack", None)
  /\ UNCHANGED <<raw, event, state, broker, people, bounds, history>>

Fail(w) ==
  /\ worker[w].pc \in {"claim", "normalize", "gate", "log"}
  /\ Sets(worker[w].webhook, "FAILED")
  /\ Goto(w, "ack", None)
  /\ UNCHANGED <<event, state, broker, people, bounds, history>>

Ack(w) ==
  /\ worker[w].pc \in {"log", "ack"}
  /\ Ends(w)
  /\ UNCHANGED <<raw, event, state, broker, people, bounds, history>>

(***************************************************************************)
(* The worker process dies.  Its message goes back to the broker, but a    *)
(* redelivery returns early from PROCESSING and from NORMALIZED: a claim   *)
(* without a holder, and an event without its gate, stay behind.           *)
(***************************************************************************)
\* What is left behind when w stops at its present statement.
LeavesBehind(w, stranding) ==
  LET h == worker[w].webhook IN
  /\ lost' = IF worker[w].pc \in stranding THEN lost \cup {h} ELSE lost
  /\ ungated' = IF worker[w].pc = "gate" THEN ungated \cup {h} ELSE ungated
  /\ UNCHANGED ruled

\* Fault variant: acks_early, the dead worker's message is gone.
WorkerLostEarlyAck(w) ==
  /\ worker[w].pc # "idle"
  /\ crashes < MaxCrashes
  /\ crashes' = crashes + 1
  /\ LeavesBehind(w, {"normalize"})
  /\ Ends(w)
  /\ UNCHANGED <<raw, event, state, broker, people, replays>>

WorkerLost(w) ==
  /\ worker[w].pc # "idle"
  /\ crashes < MaxCrashes
  /\ crashes' = crashes + 1
  /\ Publish(worker[w].webhook, worker[w].retries)
  /\ LeavesBehind(w, {"normalize"})
  /\ Ends(w)
  /\ UNCHANGED <<raw, event, state, dispatching, people, replays>>

(***************************************************************************)
(* The hard time limit, or an exception while a handler saves: the task    *)
(* ends without marking the row, and its message is acknowledged.          *)
(***************************************************************************)
TimeLimit(w) ==
  /\ worker[w].pc \in {"claim", "normalize", "gate", "log", "retry"}
  /\ LeavesBehind(w, {"claim", "normalize"})
  /\ Ends(w)
  /\ UNCHANGED <<raw, event, state, broker, people, bounds>>

----------------------------------------------------------------------------
(* Review of held events.                                                  *)

AwaitsReview(h) ==
  /\ event[h] # None
  /\ event[h].requires_review
  /\ event[h].decision = None

(***************************************************************************)
(* The review API loads one held event, the admin action a selection.      *)
(* Both decide on what they loaded: the AlreadyDecided test looks at the   *)
(* snapshot.                                                               *)
(***************************************************************************)
OpenReview(v, d, H) ==
  /\ review[v] = NoReview
  /\ H # {}
  /\ \A h \in H : AwaitsReview(h)
  /\ review' = [review EXCEPT ![v] =
       [decision |-> d, todo |-> {BeliefOf(h, event[h].reading) : h \in H}]]
  /\ UNCHANGED <<raw, event, state, broker, worker, operator, bounds, history>>

\* The review of v without snapshot s.
Reviewed(v, s) ==
  review' = [review EXCEPT ![v] =
    IF review[v].todo = {s} THEN NoReview
    ELSE [review[v] EXCEPT !.todo = @ \ {s}]]

(***************************************************************************)
(* apply_review_decision, one transaction: promote the snapshot if it is   *)
(* approved, mark the event row decided.                                   *)
(***************************************************************************)
\* Fault variant: an approval only ever creates the entity's row.
PromoteIfAbsent(v, s) ==
  IF review[v].decision = "approve" /\ state[s.reading.entity] = None
    THEN UpsertIfNewer(state, s.webhook, s.reading) ELSE state

\* Entity state after v's decision on the snapshot s.
Promote(v, s) ==
  IF review[v].decision = "approve"
    THEN UpsertIfNewer(state, s.webhook, s.reading) ELSE state

\* Fault variant: the decision's label is stored where its value belongs.
DecideStoresLabel(v, s) ==
  /\ s \in review[v].todo
  /\ state' = Promote(v, s)
  /\ event' = [event EXCEPT ![s.webhook].decision =
       IF review[v].decision = "approve" THEN "Approved" ELSE "Rejected"]
  /\ ruled' = ruled \cup
       {[webhook |-> s.webhook, reading |-> s.reading,
         decision |-> review[v].decision]}
  /\ Reviewed(v, s)
  /\ UNCHANGED <<raw, broker, worker, operator, bounds, lost, ungated>>

Decide(v, s) ==
  /\ s \in review[v].todo
  /\ state' = Promote(v, s)
  /\ event' = [event EXCEPT ![s.webhook].decision = review[v].decision]
  /\ ruled' = ruled \cup
       {[webhook |-> s.webhook, reading |-> s.reading,
         decision |-> review[v].decision]}
  /\ Reviewed(v, s)
  /\ UNCHANGED <<raw, broker, worker, operator, bounds, lost, ungated>>

\* The transaction is rolled back; the rest of a selection is not decided.
DecideFails(v) ==
  /\ review[v].todo # {}
  /\ review' = [review EXCEPT ![v] = NoReview]
  /\ UNCHANGED <<raw, event, state, broker, worker, operator, bounds, history>>

----------------------------------------------------------------------------
(* Replay: ReplayService.replay and its three callers.                     *)

InFlight == {"RECEIVED", "PROCESSING"}

Stored == {h \in Webhooks : raw[h] # None}

\* Operator o has read the rows H and goes on to replay them.
Selects(o, H) ==
  /\ operator[o] = NoReplay
  /\ H # {}
  /\ replays < MaxReplays
  /\ replays' = replays + 1
  /\ operator' = [operator EXCEPT ![o].todo = H]
  /\ UNCHANGED <<raw, event, state, broker, worker, review, crashes, history>>

\* The replay API, on the status it read; 409 otherwise.
ReplayOne(o, h, force) ==
  /\ h \in Stored
  /\ force \/ raw[h] \notin InFlight
  /\ Selects(o, {h})

\* The admin action replay_selected, always forced.
ReplaySelected(o, H) ==
  /\ H \subseteq Stored
  /\ Selects(o, H)

\* The bulk sweep.  received_at only decides which rows exceed the limit.
ReplayFailed(o, H) ==
  LET failed == {h \in Stored : raw[h] \in {"FAILED", "DEAD_LETTER"}} IN
  /\ H \subseteq failed
  /\ Cardinality(H) <= SweepLimit
  /\ H = failed \/ Cardinality(H) = SweepLimit
  /\ Selects(o, H)

(***************************************************************************)
(* replay saves RECEIVED over whatever the row says by now, and publishes. *)
(***************************************************************************)
ReplayReset(o, h) ==
  /\ operator[o].publishing = None
  /\ h \in operator[o].todo
  /\ Sets(h, "RECEIVED")
  /\ operator' = [operator EXCEPT ![o] =
       [todo |-> operator[o].todo \ {h}, publishing |-> h]]
  /\ lost' = lost \ {h}
  /\ UNCHANGED <<event, state, broker, worker, review, bounds, ruled, ungated>>

ReplayPublish(o) ==
  /\ operator[o].publishing # None
  /\ Publish(operator[o].publishing, 0)
  /\ operator' = [operator EXCEPT ![o].publishing = None]
  /\ UNCHANGED <<raw, event, state, dispatching, worker, review, bounds, history>>

\* apply_async raises, or the process dies: the row stays RECEIVED and the
\* rest of the batch is not replayed.
ReplayPublishFails(o) ==
  /\ operator[o].publishing # None
  /\ operator' = [operator EXCEPT ![o] = NoReplay]
  /\ lost' = lost \cup {operator[o].publishing}
  /\ UNCHANGED <<raw, event, state, broker, worker, review, bounds, ruled, ungated>>

----------------------------------------------------------------------------
IngestStep(h) == Dispatch(h) \/ DispatchFails(h)

WorkerStep(w) ==
  \/ \E h \in Webhooks, k \in 0..MaxRetries : Fetch(w, h, k)
  \/ Claim(w)
  \/ ClaimRefused(w)
  \/ \E r \in Readings : CreateForWebhook(w, r)
  \/ Gate(w)
  \/ FailRetryable(w)
  \/ Retry(w)
  \/ RetryPublishFails(w)
  \/ DeadLetter(w)
  \/ Fail(w)
  \/ TimeLimit(w)
  \/ Ack(w)

ReviewStep(v) ==
  \/ \E d \in Decisions, H \in SUBSET Webhooks : OpenReview(v, d, H)
  \/ \E s \in review[v].todo : Decide(v, s)
  \/ DecideFails(v)

ReplayRequest(o) ==
  \/ \E h \in Webhooks, force \in BOOLEAN : ReplayOne(o, h, force)
  \/ \E H \in SUBSET Webhooks : ReplaySelected(o, H) \/ ReplayFailed(o, H)

ReplayStep(o) ==
  \/ \E h \in operator[o].todo : ReplayReset(o, h)
  \/ ReplayPublish(o)
  \/ ReplayPublishFails(o)

Next ==
  \/ \E h \in Webhooks : Ingest(h) \/ IngestStep(h)
  \/ \E w \in Workers : WorkerStep(w) \/ WorkerLost(w)
  \/ \E v \in Reviewers : ReviewStep(v)
  \/ \E o \in Operators : ReplayRequest(o) \/ ReplayStep(o)

Spec == Init /\ [][Next]_vars

(***************************************************************************)
(* A live worker takes messages and ends every task (the time limits see   *)
(* to that), and a request that has begun to publish goes on or dies.      *)
(* Nobody is obliged to send, review, replay or crash.                     *)
(***************************************************************************)
Fairness ==
  /\ \A h \in Webhooks : WF_vars(IngestStep(h))
  /\ \A w \in Workers : WF_vars(WorkerStep(w))
  /\ \A o \in Operators : WF_vars(ReplayStep(o))

FairSpec == Spec /\ Fairness

----------------------------------------------------------------------------
TaskType ==
  [pc: WorkerPC, webhook: Webhooks \cup {None}, retries: 0..MaxRetries,
   reading: Readings \cup {None}]

TypeOK ==
  /\ raw \in [Webhooks -> ProcessingStatus \cup {None}]
  /\ event \in [Webhooks -> Event \cup {None}]
  /\ state \in [Entities -> Belief \cup {None}]
  /\ queue \in [Webhooks -> [0..MaxRetries -> Nat]]
  /\ dispatching \subseteq Webhooks
  /\ worker \in [Workers -> TaskType]
  /\ review \in [Reviewers ->
       [decision: Decisions \cup {None}, todo: SUBSET Snapshot]]
  /\ operator \in [Operators ->
       [todo: SUBSET Webhooks, publishing: Webhooks \cup {None}]]
  /\ crashes \in 0..MaxCrashes
  /\ replays \in 0..MaxReplays
  /\ ruled \subseteq [webhook: Webhooks, reading: Readings, decision: Decisions]
  /\ lost \subseteq Webhooks
  /\ ungated \subseteq Webhooks

\* Worker w is at one of the statements P of a task for h.
At(w, h, P) == worker[w].webhook = h /\ worker[w].pc \in P

\* Messages are about stored webhooks, and a normalised one has its event.
MessagesHaveRows ==
  \A h \in Webhooks :
    /\ h \in dispatching => raw[h] # None
    /\ \A k \in 0..MaxRetries : queue[h][k] > 0 => raw[h] # None
    /\ raw[h] = "NORMALIZED" => event[h] # None

\* So are tasks; at the gate a task has the reading and the row it wrote.
TasksHaveRows ==
  \A w \in Workers :
    worker[w].pc # "idle" =>
      /\ worker[w].webhook # None
      /\ raw[worker[w].webhook] # None
      /\ worker[w].pc = "gate" =>
           worker[w].reading # None /\ event[worker[w].webhook] # None

\* Reviewers decide on events, operators replay webhooks, that are there.
ReviewsHaveRows ==
  \A v \in Reviewers : \A s \in review[v].todo :
    review[v].decision # None /\ event[s.webhook] # None

ReplaysHaveRows ==
  \A o \in Operators :
    /\ \A h \in operator[o].todo : raw[h] # None
    /\ operator[o].publishing # None => raw[operator[o].publishing] # None

(***************************************************************************)
(* Whatever is under way is about rows that exist, although none of it     *)
(* holds a lock on them.                                                   *)
(***************************************************************************)
WorksOnRows ==
  MessagesHaveRows /\ TasksHaveRows /\ ReviewsHaveRows /\ ReplaysHaveRows

(***************************************************************************)
(* No webhook is forgotten: unless a crash, a hard time limit or a failed  *)
(* publication lost it, a webhook in PROCESSING has a worker normalising   *)
(* it, and one in RECEIVED has a message or somebody about to publish one. *)
(* Retries, failures, competing claims, forced replays and redeliveries    *)
(* never strand it where the bulk sweep and an unforced replay cannot      *)
(* reach it.                                                               *)
(***************************************************************************)
NoStranded ==
  \A h \in Webhooks \ lost :
    /\ raw[h] = "PROCESSING" => \E w \in Workers : At(w, h, {"normalize"})
    /\ raw[h] = "RECEIVED" =>
         \/ h \in dispatching
         \/ \E k \in 0..MaxRetries : queue[h][k] > 0
         \/ \E w \in Workers : At(w, h, {"claim"})
         \/ \E o \in Operators : operator[o].publishing = h

(***************************************************************************)
(* The gate's promise: whatever races, an entity's belief is a reading at  *)
(* or above the threshold, or one that a person saw and approved.          *)
(***************************************************************************)
OnlyTrustedBelieved ==
  \A e \in Entities :
    state[e] # None =>
      \/ ~IsLowConfidence(state[e].reading)
      \/ [webhook |-> state[e].webhook, reading |-> state[e].reading,
          decision |-> "approve"] \in ruled

\* The belief about r's entity is at least as new as r.
Reflected(r) ==
  /\ state[r.entity] # None
  /\ state[r.entity].reading.time >= r.time

(***************************************************************************)
(* Nothing normalised falls between the gate's two outcomes: an event of a *)
(* NORMALIZED webhook is held for review, or its entity's belief is at     *)
(* least as new, or the worker that wrote it is still about to gate it, or *)
(* that worker was killed before it did.                                   *)
(***************************************************************************)
NormalizedIsAccountedFor ==
  \A h \in Webhooks \ ungated :
    raw[h] = "NORMALIZED" =>
      \/ event[h].requires_review
      \/ Reflected(event[h].reading)
      \/ \E w \in Workers :
           At(w, h, {"gate"}) /\ worker[w].reading = event[h].reading

(***************************************************************************)
(* An approval is never lost: however the promotion races workers, other   *)
(* reviewers and replays, the belief is from then on at least as new as    *)
(* the reading that was approved.                                          *)
(***************************************************************************)
ApprovedIsReflected ==
  \A x \in ruled : x.decision = "approve" => Reflected(x.reading)

(***************************************************************************)
(* The pipeline uses entity state as EntityBelief allows: beliefs change   *)
(* only by upsert_if_newer, from the gate and from approvals alike.        *)
(***************************************************************************)
Abstract == INSTANCE EntityBelief WITH belief <- state
ImplementsEntityBelief == Abstract!Spec

(***************************************************************************)
(* A webhook in flight reaches a status an operator can act on, or was     *)
(* lost to a crash, a time limit or a failed publication.                  *)
(***************************************************************************)
Settles ==
  \A h \in Webhooks :
    raw[h] \in InFlight ~> (raw[h] \notin InFlight \/ h \in lost)

(***************************************************************************)
(* The retry ladder ends: once crashes and replays stop, every message is  *)
(* consumed and every worker becomes idle for good.                        *)
(***************************************************************************)
Drains ==
  <>[](/\ \A h \in Webhooks, k \in 0..MaxRetries : queue[h][k] = 0
       /\ \A w \in Workers : worker[w] = Idle)

----------------------------------------------------------------------------
(* What the repository's comments, tests and documentation say, and the    *)
(* interleavings above refute.                                             *)

(***************************************************************************)
(* A decision is final: a decided event row keeps its decision until a     *)
(* replay writes a new reading.                                            *)
(***************************************************************************)
Decided(h) == event[h] # None /\ event[h].decision # None

DecisionIsFinal ==
  [][\A h \in Webhooks :
       Decided(h) /\ Decided(h)' => event'[h].decision = event[h].decision]_vars

(***************************************************************************)
(* An already normalised webhook is not normalised again, unless somebody  *)
(* asked for a replay, which goes through RECEIVED.                        *)
(***************************************************************************)
NotNormalizedAgain ==
  [][\A h \in Webhooks : raw[h] = "NORMALIZED" => raw'[h] # "PROCESSING"]_vars

(***************************************************************************)
(* The gate runs after every normalisation: once nothing about the webhook *)
(* is under way, its event is held or reflected.                           *)
(***************************************************************************)
GateAlwaysRuns ==
  \A h \in Webhooks :
    /\ raw[h] = "NORMALIZED"
    /\ \A k \in 0..MaxRetries : queue[h][k] = 0
    /\ \A w \in Workers : ~At(w, h, WorkerPC)
    => event[h].requires_review \/ Reflected(event[h].reading)

=============================================================================
