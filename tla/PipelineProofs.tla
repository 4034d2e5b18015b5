--------------------------- MODULE PipelineProofs ---------------------------
(***************************************************************************)
(* The safety invariants of the pipeline, for every number of webhooks,    *)
(* workers, reviewers, operators, retries, crashes and replays.            *)
(***************************************************************************)
EXTENDS Pipeline, GatewayDataProofs

TypeInv == TypeOK /\ WorksOnRows

(***************************************************************************)
(* Changing the number of one kind of message leaves the others alone.     *)
(***************************************************************************)
LEMMA QueueFacts ==
  ASSUME NEW q \in [Webhooks -> [0..MaxRetries -> Nat]],
         NEW h \in Webhooks, NEW k \in 0..MaxRetries, NEW n \in Nat,
         NEW f, f = [q[h] EXCEPT ![k] = n],
         NEW p, p = [q EXCEPT ![h] = f]
  PROVE  /\ p \in [Webhooks -> [0..MaxRetries -> Nat]]
         /\ p[h][k] = n
         /\ \A g \in Webhooks, j \in 0..MaxRetries :
              (g # h \/ j # k) => p[g][j] = q[g][j]
<1>1. q[h] \in [0..MaxRetries -> Nat]
  OBVIOUS
<1>2. /\ f \in [0..MaxRetries -> Nat] /\ f[k] = n
      /\ \A j \in 0..MaxRetries : j # k => f[j] = q[h][j]
  BY <1>1
<1> QED
  BY <1>2

(***************************************************************************)
(* Publishing adds one message.                                            *)
(***************************************************************************)
LEMMA PublishFacts ==
  ASSUME TypeOK, NEW h \in Webhooks, NEW k \in 0..MaxRetries, Publish(h, k)
  PROVE  /\ queue' \in [Webhooks -> [0..MaxRetries -> Nat]]
         /\ queue'[h][k] > 0
         /\ \A g \in Webhooks, j \in 0..MaxRetries :
              queue[g][j] > 0 => queue'[g][j] > 0
         /\ \A g \in Webhooks, j \in 0..MaxRetries :
              queue'[g][j] > 0 => g = h \/ queue[g][j] > 0
<1>0. queue \in [Webhooks -> [0..MaxRetries -> Nat]]
  BY DEF TypeOK
<1>1. queue[h][k] \in Nat
  BY <1>0
<1> DEFINE n == queue[h][k] + 1
<1>2. n \in Nat /\ n > 0
  BY <1>1
<1> DEFINE f == [queue[h] EXCEPT ![k] = n]
<1>3. queue' = [queue EXCEPT ![h] = f] /\ f = [queue[h] EXCEPT ![k] = n]
  BY DEF Publish
<1> HIDE DEF n, f
<1>4. /\ queue' \in [Webhooks -> [0..MaxRetries -> Nat]]
      /\ queue'[h][k] = n
      /\ \A g \in Webhooks, j \in 0..MaxRetries :
           (g # h \/ j # k) => queue'[g][j] = queue[g][j]
  BY <1>0, <1>2, <1>3, QueueFacts
<1> QED
  BY <1>2, <1>4

(***************************************************************************)
(* Taking a message leaves every other kind of message.                    *)
(***************************************************************************)
LEMMA TakeFacts ==
  ASSUME TypeOK, NEW h \in Webhooks, NEW k \in 0..MaxRetries, queue[h][k] > 0,
         Take(h, k)
  PROVE  /\ queue' \in [Webhooks -> [0..MaxRetries -> Nat]]
         /\ \A g \in Webhooks, j \in 0..MaxRetries :
              (g # h \/ j # k) => queue'[g][j] = queue[g][j]
<1>0. queue \in [Webhooks -> [0..MaxRetries -> Nat]]
  BY DEF TypeOK
<1>1. queue[h][k] \in Nat
  BY <1>0
<1> DEFINE n == queue[h][k] - 1
<1>2. n \in Nat
  BY <1>1
<1> DEFINE f == [queue[h] EXCEPT ![k] = n]
<1>3. queue' = [queue EXCEPT ![h] = f] /\ f = [queue[h] EXCEPT ![k] = n]
  BY DEF Take
<1> HIDE DEF n, f
<1> QED
  BY <1>0, <1>2, <1>3, QueueFacts

(***************************************************************************)
(* A busy worker has a webhook of its own and a retry count in range; at   *)
(* the gate it also has the reading it stored.                             *)
(***************************************************************************)
LEMMA BusyWorker ==
  ASSUME TypeInv, NEW w \in Workers, worker[w].pc # "idle"
  PROVE  /\ worker[w].webhook \in Webhooks
         /\ worker[w].retries \in 0..MaxRetries
         /\ raw[worker[w].webhook] # None
         /\ worker[w].pc = "gate" =>
              worker[w].reading \in Readings /\ event[worker[w].webhook] \in Event
BY DEF TypeInv, TypeOK, WorksOnRows, TasksHaveRows, TaskType

(***************************************************************************)
(* Going to another statement changes nothing else about the workers.      *)
(***************************************************************************)
LEMMA GotoFacts ==
  ASSUME TypeOK, NEW w \in Workers, NEW p \in WorkerPC,
         NEW r \in Readings \cup {None}, Goto(w, p, r)
  PROVE  /\ worker' \in [Workers -> TaskType]
         /\ worker'[w].pc = p
         /\ worker'[w].webhook = worker[w].webhook
         /\ worker'[w].reading = r
         /\ \A u \in Workers : u # w => worker'[u] = worker[u]
BY DEF Goto, TypeOK, TaskType

(***************************************************************************)
(* Ending a task makes the worker idle and leaves the others alone.        *)
(***************************************************************************)
LEMMA EndsFacts ==
  ASSUME TypeOK, NEW w \in Workers, Ends(w)
  PROVE  /\ worker' \in [Workers -> TaskType]
         /\ worker'[w].pc = "idle"
         /\ \A u \in Workers : u # w => worker'[u] = worker[u]
BY PipelineAssumption DEF Ends, Idle, TypeOK, TaskType, WorkerPC

(***************************************************************************)
(* Every step keeps the variables well typed.                              *)
(***************************************************************************)
LEMMA TypeStep ==
  ASSUME TypeInv, [Next]_vars
  PROVE  TypeOK'
<1> USE DEF TypeInv, broker, people, bounds, history
<1>1. ASSUME NEW h \in Webhooks, Ingest(h) PROVE TypeOK'
  BY <1>1 DEF Ingest, TypeOK, ProcessingStatus
<1>2. ASSUME NEW h \in Webhooks, Dispatch(h) PROVE TypeOK'
  <2>1. queue' \in [Webhooks -> [0..MaxRetries -> Nat]]
    BY <1>2, PublishFacts, PipelineAssumption DEF Dispatch
  <2> QED
    BY <1>2, <2>1 DEF Dispatch, TypeOK
<1>3. ASSUME NEW h \in Webhooks, DispatchFails(h) PROVE TypeOK'
  BY <1>3 DEF DispatchFails, TypeOK
<1>4. ASSUME NEW w \in Workers, NEW h \in Webhooks, NEW k \in 0..MaxRetries, Fetch(w, h, k)
      PROVE  TypeOK'
  <2>1. queue' \in [Webhooks -> [0..MaxRetries -> Nat]]
    BY <1>4, TakeFacts DEF Fetch
  <2>2. worker' \in [Workers -> TaskType]
    BY <1>4 DEF Fetch, TypeOK, TaskType, WorkerPC
  <2> QED
    BY <1>4, <2>1, <2>2 DEF Fetch, TypeOK
<1>5. ASSUME NEW w \in Workers, Claim(w) PROVE TypeOK'
  <2>1. worker' \in [Workers -> TaskType]
    BY <1>5, GotoFacts DEF Claim, WorkerPC
  <2> QED
    BY <1>5, <2>1 DEF Claim, Sets, TypeOK, ProcessingStatus
<1>6. ASSUME NEW w \in Workers, ClaimRefused(w) PROVE TypeOK'
  <2>1. worker' \in [Workers -> TaskType]
    BY <1>6, GotoFacts DEF ClaimRefused, WorkerPC
  <2> QED
    BY <1>6, <2>1 DEF ClaimRefused, TypeOK
<1>7. ASSUME NEW w \in Workers, NEW r \in Readings, CreateForWebhook(w, r)
      PROVE  TypeOK'
  <2>1. worker' \in [Workers -> TaskType]
    BY <1>7, GotoFacts DEF CreateForWebhook, WorkerPC
  <2>2. event' \in [Webhooks -> Event \cup {None}]
    BY <1>7 DEF CreateForWebhook, TypeOK, Event
  <2> QED
    BY <1>7, <2>1, <2>2 DEF CreateForWebhook, Sets, TypeOK, ProcessingStatus
<1>8. ASSUME NEW w \in Workers, Gate(w) PROVE TypeOK'
  <2>1. worker' \in [Workers -> TaskType]
    BY <1>8, GotoFacts DEF Gate, WorkerPC
  <2>2. CASE IsLowConfidence(worker[w].reading)
    <3>1. Holds(w)
      BY <1>8, <2>2 DEF Gate, ApplyConfidenceGate
    <3>2. event' \in [Webhooks -> Event \cup {None}]
      BY <1>8, <3>1, BusyWorker DEF Gate, Holds, TypeOK, Event
    <3> QED
      BY <1>8, <2>1, <3>1, <3>2 DEF Gate, Holds, TypeOK
  <2>3. CASE ~IsLowConfidence(worker[w].reading)
    <3>1. Trusts(w)
      BY <1>8, <2>3 DEF Gate, ApplyConfidenceGate
    <3>2. state' \in [Entities -> Belief \cup {None}]
      BY <1>8, <3>1, BusyWorker, UpsertFacts DEF Gate, Trusts, TypeOK
    <3> QED
      BY <1>8, <2>1, <3>1, <3>2 DEF Gate, Trusts, TypeOK
  <2> QED
    BY <2>2, <2>3
<1>9. ASSUME NEW w \in Workers, FailRetryable(w) PROVE TypeOK'
  <2>1. worker' \in [Workers -> TaskType]
    BY <1>9, GotoFacts DEF FailRetryable, WorkerPC
  <2> QED
    BY <1>9, <2>1 DEF FailRetryable, Sets, TypeOK, ProcessingStatus
<1>10. ASSUME NEW w \in Workers, Retry(w) PROVE TypeOK'
  <2>1. worker' \in [Workers -> TaskType]
    BY <1>10, GotoFacts DEF Retry, WorkerPC
  <2>2. worker[w].webhook \in Webhooks /\ worker[w].retries + 1 \in 0..MaxRetries
    BY <1>10, BusyWorker, PipelineAssumption DEF Retry
  <2>3. queue' \in [Webhooks -> [0..MaxRetries -> Nat]]
    BY <1>10, <2>2, PublishFacts DEF Retry
  <2> QED
    BY <1>10, <2>1, <2>3 DEF Retry, TypeOK
<1>11. ASSUME NEW w \in Workers, RetryPublishFails(w) PROVE TypeOK'
  BY <1>11, EndsFacts DEF RetryPublishFails, TypeOK
<1>12. ASSUME NEW w \in Workers, DeadLetter(w) PROVE TypeOK'
  <2>1. worker' \in [Workers -> TaskType]
    BY <1>12, GotoFacts DEF DeadLetter, WorkerPC
  <2> QED
    BY <1>12, <2>1 DEF DeadLetter, Sets, TypeOK, ProcessingStatus
<1>13. ASSUME NEW w \in Workers, Fail(w) PROVE TypeOK'
  <2>1. worker' \in [Workers -> TaskType]
    BY <1>13, GotoFacts DEF Fail, WorkerPC
  <2> QED
    BY <1>13, <2>1 DEF Fail, Sets, TypeOK, ProcessingStatus
<1>14. ASSUME NEW w \in Workers, TimeLimit(w) PROVE TypeOK'
  <2>1. worker[w].webhook \in Webhooks
    BY <1>14, BusyWorker DEF TimeLimit
  <2> QED
    BY <1>14, <2>1, EndsFacts DEF TimeLimit, LeavesBehind, TypeOK
<1>15. ASSUME NEW w \in Workers, Ack(w) PROVE TypeOK'
  BY <1>15, EndsFacts DEF Ack, TypeOK
<1>16. ASSUME NEW w \in Workers, WorkerLost(w) PROVE TypeOK'
  <2>1. worker[w].webhook \in Webhooks /\ worker[w].retries \in 0..MaxRetries
    BY <1>16, BusyWorker DEF WorkerLost
  <2>2. queue' \in [Webhooks -> [0..MaxRetries -> Nat]]
    BY <1>16, <2>1, PublishFacts DEF WorkerLost
  <2>3. crashes' \in 0..MaxCrashes
    BY <1>16, PipelineAssumption DEF WorkerLost, TypeOK
  <2> QED
    BY <1>16, <2>1, <2>2, <2>3, EndsFacts DEF WorkerLost, LeavesBehind, TypeOK
<1>17. ASSUME NEW v \in Reviewers, NEW d \in Decisions, NEW H \in SUBSET Webhooks,
              OpenReview(v, d, H)
       PROVE  TypeOK'
  <2>1. \A h \in H : BeliefOf(h, event[h].reading) \in Snapshot
    BY <1>17 DEF OpenReview, AwaitsReview, TypeOK, Event, Snapshot, BeliefOf
  <2>2. review' \in [Reviewers -> [decision: Decisions \cup {None}, todo: SUBSET Snapshot]]
    BY <1>17, <2>1 DEF OpenReview, TypeOK
  <2> QED
    BY <1>17, <2>2 DEF OpenReview, TypeOK
<1>18. ASSUME NEW v \in Reviewers, NEW s \in review[v].todo, Decide(v, s)
       PROVE  TypeOK'
  <2>1. s \in Snapshot /\ review[v].decision \in Decisions /\ event[s.webhook] \in Event
    BY <1>18 DEF TypeOK, WorksOnRows, ReviewsHaveRows, Snapshot
  <2>2. s.webhook \in Webhooks /\ s.reading \in Readings
    BY <2>1 DEF Snapshot
  <2>3. review' \in [Reviewers -> [decision: Decisions \cup {None}, todo: SUBSET Snapshot]]
    BY <1>18 DEF Decide, Reviewed, NoReview, TypeOK
  <2>4. event' \in [Webhooks -> Event \cup {None}]
    BY <1>18, <2>1, <2>2 DEF Decide, TypeOK, Event
  <2>5. state' \in [Entities -> Belief \cup {None}]
    BY <1>18, <2>2, UpsertFacts DEF Decide, Promote, TypeOK
  <2>6. ruled' \subseteq [webhook: Webhooks, reading: Readings, decision: Decisions]
    BY <1>18, <2>1, <2>2 DEF Decide, TypeOK
  <2> QED
    BY <1>18, <2>3, <2>4, <2>5, <2>6 DEF Decide, TypeOK
<1>19. ASSUME NEW v \in Reviewers, DecideFails(v) PROVE TypeOK'
  BY <1>19 DEF DecideFails, NoReview, TypeOK
<1>20. ASSUME NEW o \in Operators, NEW H \in SUBSET Webhooks, Selects(o, H)
       PROVE  TypeOK'
  <2>1. replays' \in 0..MaxReplays
    BY <1>20, PipelineAssumption DEF Selects, TypeOK
  <2>2. operator' \in [Operators -> [todo: SUBSET Webhooks, publishing: Webhooks \cup {None}]]
    BY <1>20 DEF Selects, TypeOK
  <2> QED
    BY <1>20, <2>1, <2>2 DEF Selects, TypeOK
<1>21. ASSUME NEW o \in Operators, NEW h \in operator[o].todo, ReplayReset(o, h)
       PROVE  TypeOK'
  BY <1>21 DEF ReplayReset, Sets, TypeOK, ProcessingStatus
<1>22. ASSUME NEW o \in Operators, ReplayPublish(o) PROVE TypeOK'
  <2>1. operator[o].publishing \in Webhooks
    BY <1>22 DEF ReplayPublish, TypeOK
  <2>2. queue' \in [Webhooks -> [0..MaxRetries -> Nat]]
    BY <1>22, <2>1, PublishFacts, PipelineAssumption DEF ReplayPublish
  <2> QED
    BY <1>22, <2>2 DEF ReplayPublish, TypeOK
<1>23. ASSUME NEW o \in Operators, ReplayPublishFails(o) PROVE TypeOK'
  BY <1>23 DEF ReplayPublishFails, NoReplay, TypeOK
<1>24. CASE UNCHANGED vars
  BY <1>24 DEF vars, TypeOK
<1> QED
  BY <1>1, <1>2, <1>3, <1>4, <1>5, <1>6, <1>7, <1>8, <1>9, <1>10, <1>11, <1>12,
     <1>13, <1>14, <1>15, <1>16, <1>17, <1>18, <1>19, <1>20, <1>21, <1>22, <1>23, <1>24
     DEF Next, IngestStep, WorkerStep, ReviewStep, ReplayRequest, ReplayStep,
         ReplayOne, ReplaySelected, ReplayFailed

(***************************************************************************)
(* Rows are never deleted, and only create_for_webhook normalises.         *)
(***************************************************************************)
LEMMA RowsStay ==
  ASSUME TypeInv, [Next]_vars
  PROVE  \A h \in Webhooks :
           /\ raw[h] # None => raw'[h] # None
           /\ event[h] # None => event'[h] # None
           /\ raw'[h] = "NORMALIZED" => raw[h] = "NORMALIZED" \/ event'[h] # None
<1> USE DEF broker, people, bounds, history
<1>1. TypeOK'
  BY TypeStep
<1>2. CASE UNCHANGED <<raw, event>>
  BY <1>2
<1>3. ASSUME NEW h \in Webhooks, NEW s \in ProcessingStatus \ {"NORMALIZED"},
             Sets(h, s), UNCHANGED event
      PROVE  \A g \in Webhooks :
               /\ raw[g] # None => raw'[g] # None
               /\ event[g] # None => event'[g] # None
               /\ raw'[g] = "NORMALIZED" => raw[g] = "NORMALIZED" \/ event'[g] # None
  BY <1>3, NoneIsNoValue DEF Sets, TypeInv, TypeOK
<1>4. ASSUME NEW w \in Workers, worker[w].pc # "idle",
             NEW s \in ProcessingStatus \ {"NORMALIZED"},
             Sets(worker[w].webhook, s), UNCHANGED event
      PROVE  \A g \in Webhooks :
               /\ raw[g] # None => raw'[g] # None
               /\ event[g] # None => event'[g] # None
               /\ raw'[g] = "NORMALIZED" => raw[g] = "NORMALIZED" \/ event'[g] # None
  BY <1>3, <1>4, BusyWorker
<1>5. ASSUME NEW h \in Webhooks, Ingest(h) PROVE Sets(h, "RECEIVED") /\ UNCHANGED event
  BY <1>5 DEF Ingest, Sets
<1>6. ASSUME NEW w \in Workers, NEW r \in Readings, CreateForWebhook(w, r)
      PROVE  \A g \in Webhooks :
               /\ raw[g] # None => raw'[g] # None
               /\ event[g] # None => event'[g] # None
               /\ raw'[g] = "NORMALIZED" => raw[g] = "NORMALIZED" \/ event'[g] # None
  <2>1. worker[w].webhook \in Webhooks
    BY <1>6, BusyWorker DEF CreateForWebhook
  <2>2. [reading |-> r, requires_review |-> FALSE, decision |-> None] # None
    <3>1. [reading |-> r, requires_review |-> FALSE, decision |-> None] \in Event
      BY DEF Event
    <3> QED
      BY <3>1, NoneIsNoValue
  <2> DEFINE h == worker[w].webhook
             row == [reading |-> r, requires_review |-> FALSE, decision |-> None]
  <2>3. raw' = [raw EXCEPT ![h] = "NORMALIZED"] /\ event' = [event EXCEPT ![h] = row]
    BY <1>6 DEF CreateForWebhook, Sets
  <2>4. "NORMALIZED" # None
    BY NoneIsNoValue DEF ProcessingStatus
  <2>5. DOMAIN raw = Webhooks /\ DOMAIN event = Webhooks
    BY DEF TypeInv, TypeOK
  <2>6. h \in Webhooks /\ row # None
    BY <2>1, <2>2
  <2> HIDE DEF h, row
  <2> QED
    BY <2>3, <2>4, <2>5, <2>6
<1>7. ASSUME NEW w \in Workers, Gate(w)
      PROVE  UNCHANGED raw /\ \A g \in Webhooks : event[g] # None => event'[g] # None
  <2>1. worker[w].webhook \in Webhooks /\ event[worker[w].webhook] \in Event
    BY <1>7, BusyWorker DEF Gate
  <2>2. [event[worker[w].webhook] EXCEPT !.requires_review = TRUE] # None
    BY <2>1, NoneIsNoValue DEF Event
  <2> QED
    BY <1>7, <2>1, <2>2
       DEF Gate, ApplyConfidenceGate, Holds, Trusts, TypeInv, TypeOK
<1>8. ASSUME NEW v \in Reviewers, NEW s \in review[v].todo, Decide(v, s)
      PROVE  UNCHANGED raw /\ \A g \in Webhooks : event[g] # None => event'[g] # None
  <2>1. /\ s.webhook \in Webhooks /\ event[s.webhook] \in Event
        /\ review[v].decision \in Decisions
    BY <1>8 DEF TypeInv, TypeOK, WorksOnRows, ReviewsHaveRows, Snapshot
  <2>2. [event[s.webhook] EXCEPT !.decision = review[v].decision] # None
    BY <2>1, NoneIsNoValue DEF Event
  <2> QED
    BY <1>8, <2>1, <2>2 DEF Decide, TypeInv, TypeOK
<1>9. ASSUME NEW o \in Operators, NEW h \in operator[o].todo, ReplayReset(o, h)
      PROVE  h \in Webhooks /\ Sets(h, "RECEIVED") /\ UNCHANGED event
  BY <1>9 DEF ReplayReset, TypeInv, TypeOK
<1> QED
  BY <1>2, <1>3, <1>4, <1>5, <1>6, <1>7, <1>8, <1>9
     DEF Next, IngestStep, WorkerStep, ReviewStep, ReplayRequest, ReplayStep,
         ReplayOne, ReplaySelected, ReplayFailed, Selects, Dispatch, DispatchFails,
         Fetch, Claim, ClaimRefused, FailRetryable, Retry, RetryPublishFails,
         DeadLetter, Fail, TimeLimit, Ack, WorkerLost, OpenReview, DecideFails,
         ReplayPublish, ReplayPublishFails, vars, ProcessingStatus

(***************************************************************************)
(* A message is published only for a webhook that is stored.               *)
(***************************************************************************)
LEMMA MessagesStep ==
  ASSUME TypeInv, [Next]_vars
  PROVE  MessagesHaveRows'
<1> USE DEF broker, people, bounds, history
<1>1. \A h \in Webhooks : h \in dispatching' => h \in dispatching \/ raw'[h] # None
  <2>1. ASSUME NEW g \in Webhooks, Ingest(g)
        PROVE  dispatching' = dispatching \cup {g} /\ raw'[g] # None
    <3>1. raw \in [Webhooks -> ProcessingStatus \cup {None}]
      BY DEF TypeInv, TypeOK
    <3>2. raw'[g] = "RECEIVED"
      BY <2>1, <3>1 DEF Ingest
    <3> QED
      BY <2>1, <3>2, NoneIsNoValue DEF Ingest, ProcessingStatus
  <2>2. ASSUME NEW g \in Webhooks, IngestStep(g)
        PROVE  dispatching' \subseteq dispatching
    BY <2>2 DEF IngestStep, Dispatch, DispatchFails
  <2>3. ASSUME NEW w \in Workers, WorkerStep(w) \/ WorkerLost(w)
        PROVE  UNCHANGED dispatching
    BY <2>3 DEF WorkerStep, Fetch, Claim, ClaimRefused, CreateForWebhook, Gate,
                FailRetryable, Retry, RetryPublishFails, DeadLetter, Fail, TimeLimit,
                Ack, WorkerLost
  <2>4. ASSUME NEW v \in Reviewers, ReviewStep(v)
        PROVE  UNCHANGED dispatching
    BY <2>4 DEF ReviewStep, OpenReview, Decide, DecideFails
  <2>5. ASSUME NEW o \in Operators, ReplayRequest(o) \/ ReplayStep(o)
        PROVE  UNCHANGED dispatching
    BY <2>5 DEF ReplayRequest, ReplayStep, ReplayOne, ReplaySelected, ReplayFailed,
                Selects, ReplayReset, ReplayPublish, ReplayPublishFails
  <2>6. CASE UNCHANGED vars
    BY <2>6 DEF vars
  <2> QED
    BY <2>1, <2>2, <2>3, <2>4, <2>5, <2>6 DEF Next
<1> DEFINE Backed == \A g \in Webhooks, j \in 0..MaxRetries :
                       queue'[g][j] > 0 => queue[g][j] > 0 \/ raw[g] # None
<1>2. Backed
  <2>1. ASSUME NEW h \in Webhooks, NEW k \in 0..MaxRetries, raw[h] # None, Publish(h, k)
        PROVE  Backed
    BY <2>1, PublishFacts DEF TypeInv
  <2>2. ASSUME NEW h \in Webhooks, Dispatch(h) PROVE Backed
    BY <2>1, <2>2, PipelineAssumption
       DEF Dispatch, TypeInv, WorksOnRows, MessagesHaveRows
  <2>3. ASSUME NEW w \in Workers, NEW h \in Webhooks, NEW k \in 0..MaxRetries, Fetch(w, h, k)
        PROVE  Backed
    BY <2>3, TakeFacts DEF Fetch, TypeInv
  <2>4. ASSUME NEW w \in Workers, Retry(w) PROVE Backed
    <3>1. /\ worker[w].webhook \in Webhooks /\ raw[worker[w].webhook] # None
          /\ worker[w].retries + 1 \in 0..MaxRetries
      BY <2>4, BusyWorker, PipelineAssumption DEF Retry
    <3> QED
      BY <2>1, <2>4, <3>1 DEF Retry
  <2>5. ASSUME NEW w \in Workers, WorkerLost(w) PROVE Backed
    BY <2>1, <2>5, BusyWorker DEF WorkerLost
  <2>6. ASSUME NEW o \in Operators, ReplayPublish(o) PROVE Backed
    <3>1. operator[o].publishing \in Webhooks /\ raw[operator[o].publishing] # None
      BY <2>6 DEF ReplayPublish, TypeInv, TypeOK, WorksOnRows, ReplaysHaveRows
    <3> QED
      BY <2>1, <2>6, <3>1, PipelineAssumption DEF ReplayPublish
  <2>7. CASE UNCHANGED queue
    BY <2>7
  <2> QED
    BY <2>2, <2>3, <2>4, <2>5, <2>6, <2>7
       DEF Next, IngestStep, WorkerStep, ReviewStep, ReplayRequest, ReplayStep,
         ReplayOne, ReplaySelected, ReplayFailed, Selects, Ingest,
         DispatchFails, Claim, ClaimRefused, CreateForWebhook, Gate,
         FailRetryable, RetryPublishFails, DeadLetter, Fail, TimeLimit, Ack,
         OpenReview, Decide, DecideFails, ReplayReset, ReplayPublishFails, vars
<1> QED
  BY <1>1, <1>2, RowsStay DEF TypeInv, WorksOnRows, MessagesHaveRows

(***************************************************************************)
(* A task keeps a stored webhook, and at the gate the event row it wrote.  *)
(***************************************************************************)
LEMMA TasksStep ==
  ASSUME TypeInv, [Next]_vars
  PROVE  TasksHaveRows'
<1> USE DEF broker, people, bounds, history
<1>1. ASSUME NEW w \in Workers, worker'[w] = worker[w]
      PROVE  worker'[w].pc # "idle" =>
               /\ worker'[w].webhook # None
               /\ raw'[worker'[w].webhook] # None
               /\ worker'[w].pc = "gate" =>
                    worker'[w].reading # None /\ event'[worker'[w].webhook] # None
  BY <1>1, BusyWorker, RowsStay DEF TypeInv, WorksOnRows, TasksHaveRows
<1>2. CASE UNCHANGED worker
  BY <1>1, <1>2 DEF TasksHaveRows
<1>3. ASSUME NEW w \in Workers, Ends(w) PROVE TasksHaveRows'
  BY <1>1, <1>3, EndsFacts DEF TasksHaveRows, TypeInv
<1>4. ASSUME NEW w \in Workers, worker[w].pc # "idle",
             NEW p \in WorkerPC \ {"gate"}, Goto(w, p, None)
      PROVE  TasksHaveRows'
  <2>1. worker[w].webhook \in Webhooks /\ raw'[worker[w].webhook] # None
    BY <1>4, BusyWorker, RowsStay
  <2> QED
    BY <1>1, <1>4, <2>1, GotoFacts, NoneAssumption DEF TasksHaveRows, TypeInv
<1>5. ASSUME NEW w \in Workers, NEW h \in Webhooks, NEW k \in 0..MaxRetries, Fetch(w, h, k)
      PROVE  TasksHaveRows'
  <2>1. raw'[h] # None /\ h # None
    BY <1>5, NoneAssumption DEF Fetch, TypeInv, WorksOnRows, MessagesHaveRows
  <2>2. /\ worker'[w].webhook = h /\ worker'[w].pc # "gate"
        /\ \A u \in Workers : u # w => worker'[u] = worker[u]
    BY <1>5 DEF Fetch, TypeInv, TypeOK
  <2> QED
    BY <1>1, <2>1, <2>2 DEF TasksHaveRows
<1>6. ASSUME NEW w \in Workers, NEW r \in Readings, CreateForWebhook(w, r)
      PROVE  TasksHaveRows'
  <2>1. worker[w].webhook \in Webhooks /\ raw'[worker[w].webhook] # None
    BY <1>6, BusyWorker, RowsStay DEF CreateForWebhook
  <2>2. event'[worker[w].webhook] # None
    BY <1>6, <2>1, RowsStay, NoneIsNoValue
       DEF CreateForWebhook, Sets, TypeInv, TypeOK, WorksOnRows, MessagesHaveRows
  <2>3. /\ worker'[w].webhook = worker[w].webhook /\ worker'[w].reading = r
        /\ \A u \in Workers : u # w => worker'[u] = worker[u]
    BY <1>6, GotoFacts DEF CreateForWebhook, WorkerPC, TypeInv
  <2> QED
    BY <1>1, <2>1, <2>2, <2>3, NoneAssumption DEF TasksHaveRows
<1> QED
  BY <1>2, <1>3, <1>4, <1>5, <1>6
     DEF Next, IngestStep, WorkerStep, ReviewStep, ReplayRequest, ReplayStep,
         ReplayOne, ReplaySelected, ReplayFailed, Selects, Ingest, Dispatch,
         DispatchFails, Claim, ClaimRefused, Gate, FailRetryable, Retry,
         RetryPublishFails, DeadLetter, Fail, TimeLimit, Ack, WorkerLost, OpenReview,
         Decide, DecideFails, ReplayReset, ReplayPublish, ReplayPublishFails, vars,
         WorkerPC

(***************************************************************************)
(* A reviewer keeps snapshots of events that are still there.              *)
(***************************************************************************)
LEMMA ReviewsStep ==
  ASSUME TypeInv, [Next]_vars
  PROVE  ReviewsHaveRows'
<1> USE DEF broker, people, bounds, history
<1>1. ASSUME NEW v \in Reviewers, review'[v].todo \subseteq review[v].todo,
             review'[v].todo # {} => review'[v].decision = review[v].decision
      PROVE  \A s \in review'[v].todo : review'[v].decision # None /\ event'[s.webhook] # None
  <2> SUFFICES ASSUME NEW s \in review'[v].todo
               PROVE  review'[v].decision # None /\ event'[s.webhook] # None
    OBVIOUS
  <2>1. s \in review[v].todo /\ review'[v].decision = review[v].decision
    BY <1>1
  <2>2. s.webhook \in Webhooks
    BY <2>1 DEF TypeInv, TypeOK, Snapshot
  <2> QED
    BY <2>1, <2>2, RowsStay DEF TypeInv, WorksOnRows, ReviewsHaveRows
<1>2. CASE UNCHANGED review
  BY <1>1, <1>2 DEF ReviewsHaveRows
<1>3. ASSUME NEW v \in Reviewers, NEW d \in Decisions, NEW H \in SUBSET Webhooks,
             OpenReview(v, d, H)
      PROVE  ReviewsHaveRows'
  <2>1. \A u \in Reviewers : u # v => review'[u] = review[u]
    BY <1>3 DEF OpenReview, TypeInv, TypeOK
  <2>2. /\ review'[v].decision = d
        /\ review'[v].todo = {BeliefOf(h, event[h].reading) : h \in H}
    BY <1>3 DEF OpenReview, TypeInv, TypeOK
  <2>3. \A h \in H : event'[h] # None
    BY <1>3 DEF OpenReview, AwaitsReview
  <2>4. \A s \in review'[v].todo : event'[s.webhook] # None
    BY <2>2, <2>3 DEF BeliefOf
  <2> QED
    BY <1>1, <2>1, <2>2, <2>4, NoneIsNoValue DEF ReviewsHaveRows
<1>4. ASSUME NEW v \in Reviewers, NEW s \in review[v].todo, Decide(v, s)
      PROVE  ReviewsHaveRows'
  <2>1. \A u \in Reviewers : u # v => review'[u] = review[u]
    BY <1>4 DEF Decide, Reviewed, TypeInv, TypeOK
  <2>2. /\ review'[v].todo \subseteq review[v].todo
        /\ review'[v].todo # {} => review'[v].decision = review[v].decision
    BY <1>4 DEF Decide, Reviewed, NoReview, TypeInv, TypeOK
  <2> QED
    BY <1>1, <2>1, <2>2 DEF ReviewsHaveRows
<1>5. ASSUME NEW v \in Reviewers, DecideFails(v) PROVE ReviewsHaveRows'
  <2>1. review'[v].todo = {} /\ \A u \in Reviewers : u # v => review'[u] = review[u]
    BY <1>5 DEF DecideFails, NoReview, TypeInv, TypeOK
  <2> QED
    BY <1>1, <2>1 DEF ReviewsHaveRows
<1> QED
  BY <1>2, <1>3, <1>4, <1>5
     DEF Next, IngestStep, WorkerStep, ReviewStep, ReplayRequest, ReplayStep,
         ReplayOne, ReplaySelected, ReplayFailed, Selects, Ingest, Dispatch,
         DispatchFails, Fetch, Claim, ClaimRefused, CreateForWebhook, Gate,
         FailRetryable, Retry, RetryPublishFails, DeadLetter, Fail, TimeLimit, Ack,
         WorkerLost, ReplayReset, ReplayPublish, ReplayPublishFails, vars

(***************************************************************************)
(* An operator keeps webhooks that are still there.                        *)
(***************************************************************************)
LEMMA ReplaysStep ==
  ASSUME TypeInv, [Next]_vars
  PROVE  ReplaysHaveRows'
<1> USE DEF broker, people, bounds, history
<1>1. ASSUME NEW o \in Operators,
             \A h \in operator'[o].todo : h \in Webhooks /\ raw[h] # None,
             operator'[o].publishing # None =>
               operator'[o].publishing \in Webhooks /\ raw[operator'[o].publishing] # None
      PROVE  /\ \A h \in operator'[o].todo : raw'[h] # None
             /\ operator'[o].publishing # None => raw'[operator'[o].publishing] # None
  BY <1>1, RowsStay
<1>2. ASSUME NEW o \in Operators
      PROVE  /\ \A h \in operator[o].todo : h \in Webhooks /\ raw[h] # None
             /\ operator[o].publishing # None =>
                  operator[o].publishing \in Webhooks /\ raw[operator[o].publishing] # None
  BY DEF TypeInv, TypeOK, WorksOnRows, ReplaysHaveRows
<1>3. CASE UNCHANGED operator
  BY <1>1, <1>2, <1>3 DEF ReplaysHaveRows
<1>4. ASSUME NEW o \in Operators,
             \A u \in Operators : u # o => operator'[u] = operator[u],
             \A h \in operator'[o].todo : h \in Webhooks /\ raw[h] # None,
             operator'[o].publishing # None =>
               operator'[o].publishing \in Webhooks /\ raw[operator'[o].publishing] # None
      PROVE  ReplaysHaveRows'
  BY <1>1, <1>2, <1>4 DEF ReplaysHaveRows
<1>5. ASSUME NEW o \in Operators, NEW H \in SUBSET Stored, Selects(o, H)
      PROVE  ReplaysHaveRows'
  <2>1. operator'[o].todo = H /\ operator'[o].publishing = operator[o].publishing
          /\ \A u \in Operators : u # o => operator'[u] = operator[u]
    BY <1>5 DEF Selects, TypeInv, TypeOK
  <2> QED
    BY <1>2, <1>4, <2>1 DEF Stored
<1>6. ASSUME NEW o \in Operators, ReplayRequest(o) PROVE ReplaysHaveRows'
  <2>1. PICK H \in SUBSET Stored : Selects(o, H)
    BY <1>6 DEF ReplayRequest, ReplayOne, ReplaySelected, ReplayFailed
  <2> QED
    BY <1>5, <2>1
<1>7. ASSUME NEW o \in Operators, NEW h \in operator[o].todo, ReplayReset(o, h)
      PROVE  ReplaysHaveRows'
  <2>1. operator'[o].todo \subseteq operator[o].todo /\ operator'[o].publishing = h
          /\ \A u \in Operators : u # o => operator'[u] = operator[u]
    BY <1>7 DEF ReplayReset, TypeInv, TypeOK
  <2> QED
    BY <1>2, <1>4, <2>1
<1>8. ASSUME NEW o \in Operators, ReplayPublish(o) PROVE ReplaysHaveRows'
  <2>1. operator'[o].todo = operator[o].todo /\ operator'[o].publishing = None
          /\ \A u \in Operators : u # o => operator'[u] = operator[u]
    BY <1>8 DEF ReplayPublish, TypeInv, TypeOK
  <2> QED
    BY <1>2, <1>4, <2>1
<1>9. ASSUME NEW o \in Operators, ReplayPublishFails(o) PROVE ReplaysHaveRows'
  <2>1. operator'[o].todo = {} /\ operator'[o].publishing = None
          /\ \A u \in Operators : u # o => operator'[u] = operator[u]
    BY <1>9 DEF ReplayPublishFails, NoReplay, TypeInv, TypeOK
  <2> QED
    BY <1>4, <2>1
<1> QED
  BY <1>3, <1>6, <1>7, <1>8, <1>9
     DEF Next, IngestStep, WorkerStep, ReviewStep, ReplayStep, Ingest, Dispatch,
         DispatchFails, Fetch, Claim, ClaimRefused, CreateForWebhook, Gate,
         FailRetryable, Retry, RetryPublishFails, DeadLetter, Fail, TimeLimit, Ack,
         WorkerLost, OpenReview, Decide, DecideFails, vars

(***************************************************************************)
(* Type correctness, with the fact it needs: nothing under way outlives    *)
(* its row.                                                                *)
(***************************************************************************)
THEOREM RowsOutliveWork == Spec => []TypeInv
<1>1. Init => TypeInv
  <2>1. Init => TypeOK
    BY PipelineAssumption
       DEF Init, TypeOK, Idle, TaskType, WorkerPC, NoReview, NoReplay
  <2>2. Init => WorksOnRows
    BY PipelineAssumption, NoneIsNoValue
       DEF Init, WorksOnRows, MessagesHaveRows, TasksHaveRows, ReviewsHaveRows,
           ReplaysHaveRows, Idle, NoReview, NoReplay, ProcessingStatus
  <2> QED
    BY <2>1, <2>2 DEF TypeInv
<1>2. TypeInv /\ [Next]_vars => TypeInv'
  BY TypeStep, MessagesStep, TasksStep, ReviewsStep, ReplaysStep
     DEF TypeInv, WorksOnRows
<1> QED
  BY <1>1, <1>2, PTL DEF Spec

(***************************************************************************)
(* Tasks, reviews and replays always have state the code knows how to      *)
(* continue from.                                                          *)
(***************************************************************************)
THEOREM PipelineTypeCorrect == Spec => []TypeOK
BY RowsOutliveWork, PTL DEF TypeInv

(***************************************************************************)
(* Entity state changes only at the gate and by a decision, and only a     *)
(* decision is ruled.                                                      *)
(***************************************************************************)
LEMMA BeliefFrame ==
  ASSUME [Next]_vars
  PROVE  \/ \E w \in Workers : Gate(w)
         \/ \E v \in Reviewers : \E s \in review[v].todo : Decide(v, s)
         \/ UNCHANGED <<state, ruled>>
<1> USE DEF history
<1>1. ASSUME NEW h \in Webhooks, Ingest(h) \/ IngestStep(h)
      PROVE  UNCHANGED <<state, ruled>>
  BY <1>1 DEF Ingest, IngestStep, Dispatch, DispatchFails
<1>2. ASSUME NEW w \in Workers, WorkerStep(w) \/ WorkerLost(w)
      PROVE  Gate(w) \/ UNCHANGED <<state, ruled>>
  BY <1>2 DEF WorkerStep, Fetch, Claim, ClaimRefused, CreateForWebhook, LeavesBehind,
              FailRetryable, Retry, RetryPublishFails, DeadLetter, Fail, TimeLimit,
              Ack, WorkerLost
<1>3. ASSUME NEW v \in Reviewers, ReviewStep(v)
      PROVE  (\E s \in review[v].todo : Decide(v, s)) \/ UNCHANGED <<state, ruled>>
  BY <1>3 DEF ReviewStep, OpenReview, DecideFails
<1>4. ASSUME NEW o \in Operators, ReplayRequest(o) \/ ReplayStep(o)
      PROVE  UNCHANGED <<state, ruled>>
  BY <1>4 DEF ReplayRequest, ReplayStep, ReplayOne, ReplaySelected, ReplayFailed,
              Selects, ReplayReset, ReplayPublish, ReplayPublishFails
<1>5. CASE UNCHANGED vars
  BY <1>5 DEF vars
<1> QED
  BY <1>1, <1>2, <1>3, <1>4, <1>5 DEF Next

(***************************************************************************)
(* What a step can do to the beliefs: nothing, or one upsert_if_newer of a *)
(* reading that is trusted or that this step approves.                     *)
(***************************************************************************)
LEMMA BeliefStep ==
  ASSUME TypeInv, [Next]_vars
  PROVE  /\ ruled \subseteq ruled'
         /\ \/ UNCHANGED state
            \/ \E h \in Webhooks, r \in Readings :
                 /\ state' = UpsertIfNewer(state, h, r)
                 /\ \/ ~IsLowConfidence(r)
                    \/ [webhook |-> h, reading |-> r, decision |-> "approve"] \in ruled'
<1>1. ASSUME NEW w \in Workers, Gate(w)
      PROVE  /\ UNCHANGED ruled
             /\ \/ UNCHANGED state
                \/ /\ worker[w].webhook \in Webhooks /\ worker[w].reading \in Readings
                   /\ state' = UpsertIfNewer(state, worker[w].webhook, worker[w].reading)
                   /\ ~IsLowConfidence(worker[w].reading)
  BY <1>1, BusyWorker DEF Gate, ApplyConfidenceGate, Holds, Trusts, history
<1>2. ASSUME NEW v \in Reviewers, NEW s \in review[v].todo, Decide(v, s)
      PROVE  /\ ruled \subseteq ruled'
             /\ \/ UNCHANGED state
                \/ /\ s.webhook \in Webhooks /\ s.reading \in Readings
                   /\ state' = UpsertIfNewer(state, s.webhook, s.reading)
                   /\ [webhook |-> s.webhook, reading |-> s.reading,
                       decision |-> "approve"] \in ruled'
  BY <1>2 DEF Decide, Promote, TypeInv, TypeOK, Snapshot
<1>3. CASE UNCHANGED <<state, ruled>>
  BY <1>3
<1> QED
  BY <1>1, <1>2, <1>3, BeliefFrame

(***************************************************************************)
(* The confidence gate cannot be bypassed: every belief is a trusted       *)
(* reading or one a person saw and approved.                               *)
(***************************************************************************)
THEOREM GateIsNotBypassed == Spec => []OnlyTrustedBelieved
<1>1. Init => OnlyTrustedBelieved
  BY DEF Init, OnlyTrustedBelieved
<1>2. TypeInv /\ OnlyTrustedBelieved /\ [Next]_vars => OnlyTrustedBelieved'
  <2> SUFFICES ASSUME TypeInv, OnlyTrustedBelieved, [Next]_vars
               PROVE  OnlyTrustedBelieved'
    OBVIOUS
  <2>1. ruled \subseteq ruled'
    BY BeliefStep
  <2>2. CASE UNCHANGED state
    BY <2>1, <2>2 DEF OnlyTrustedBelieved
  <2>3. ASSUME NEW h \in Webhooks, NEW r \in Readings,
               state' = UpsertIfNewer(state, h, r),
               \/ ~IsLowConfidence(r)
               \/ [webhook |-> h, reading |-> r, decision |-> "approve"] \in ruled'
        PROVE  OnlyTrustedBelieved'
    <3>1. \A e \in Entities : state'[e] \in {state[e], BeliefOf(h, r)}
      <4>1. state \in [Entities -> Belief \cup {None}]
        BY DEF TypeInv, TypeOK
      <4> QED
        BY <2>3, <4>1, UpsertFacts
    <3>2. BeliefOf(h, r).webhook = h /\ BeliefOf(h, r).reading = r
      BY DEF BeliefOf
    <3> QED
      BY <2>1, <2>3, <3>1, <3>2 DEF OnlyTrustedBelieved, IsLowConfidence
  <2> QED
    BY <2>2, <2>3, BeliefStep
<1> QED
  BY <1>1, <1>2, RowsOutliveWork, PTL DEF Spec

(***************************************************************************)
(* A belief that reflects a reading goes on reflecting it.                 *)
(***************************************************************************)
LEMMA ReflectedStays ==
  ASSUME TypeInv, [Next]_vars, NEW q \in Readings, Reflected(q)
  PROVE  Reflected(q)'
<1>1. q.entity \in Entities /\ q.time \in Nat
  BY ReadingsAssumption DEF ReadingType
<1>2. state[q.entity].reading.time \in Nat
  BY <1>1, ReadingsAssumption DEF Reflected, TypeInv, TypeOK, Belief, ReadingType
<1>3. CASE UNCHANGED state
  BY <1>3 DEF Reflected
<1>4. ASSUME NEW h \in Webhooks, NEW r \in Readings, state' = UpsertIfNewer(state, h, r)
      PROVE  Reflected(q)'
  <2>1. state'[q.entity] # None
          /\ state'[q.entity].reading.time >= state[q.entity].reading.time
          /\ state' \in [Entities -> Belief \cup {None}]
    BY <1>1, <1>4, UpsertFacts DEF Reflected, TypeInv, TypeOK
  <2>2. state'[q.entity].reading.time \in Nat
    BY <1>1, <2>1, ReadingsAssumption DEF Belief, ReadingType
  <2> QED
    BY <1>1, <1>2, <2>1, <2>2 DEF Reflected
<1> QED
  BY <1>3, <1>4, BeliefStep

(***************************************************************************)
(* Applying a reading makes its entity's belief reflect it.                *)
(***************************************************************************)
LEMMA UpsertReflects ==
  ASSUME TypeInv, NEW h \in Webhooks, NEW r \in Readings,
         state' = UpsertIfNewer(state, h, r)
  PROVE  Reflected(r)'
BY UpsertFacts DEF Reflected, TypeInv, TypeOK

(***************************************************************************)
(* An approval is never lost.                                              *)
(***************************************************************************)
THEOREM ApprovalsAreKept == Spec => []ApprovedIsReflected
<1>1. Init => ApprovedIsReflected
  BY DEF Init, ApprovedIsReflected
<1>2. TypeInv /\ ApprovedIsReflected /\ [Next]_vars => ApprovedIsReflected'
  <2> SUFFICES ASSUME TypeInv, ApprovedIsReflected, [Next]_vars,
                      NEW x \in ruled', x.decision = "approve"
               PROVE  Reflected(x.reading)'
    BY DEF ApprovedIsReflected
  <2>1. CASE x \in ruled
    BY <2>1, ReflectedStays DEF ApprovedIsReflected, TypeInv, TypeOK
  <2>2. CASE x \notin ruled
    <3>0. PICK v \in Reviewers : \E s \in review[v].todo : Decide(v, s)
      BY <2>2, BeliefFrame DEF Gate, history
    <3>1. PICK s \in review[v].todo : Decide(v, s)
      BY <3>0
    <3>2. x = [webhook |-> s.webhook, reading |-> s.reading, decision |-> review[v].decision]
      BY <2>2, <3>1 DEF Decide
    <3>3. s.webhook \in Webhooks /\ s.reading \in Readings
      BY <3>1 DEF TypeInv, TypeOK, Snapshot
    <3>4. state' = UpsertIfNewer(state, s.webhook, s.reading)
      BY <3>1, <3>2 DEF Decide, Promote
    <3> QED
      BY <3>2, <3>3, <3>4, UpsertReflects
  <2> QED
    BY <2>1, <2>2
<1> QED
  BY <1>1, <1>2, RowsOutliveWork, PTL DEF Spec

(***************************************************************************)
(* The pipeline implements EntityBelief: entity state changes by one       *)
(* upsert of one reading, or not at all.                                   *)
(***************************************************************************)
THEOREM PipelineImplementsBelief == Spec => ImplementsEntityBelief
<1>1. Init => Abstract!Init
  BY DEF Init, Abstract!Init
<1>2. TypeInv /\ [Next]_vars => [Abstract!Next]_state
  <2> SUFFICES ASSUME TypeInv, [Next]_vars, state' # state
               PROVE  Abstract!Next
    OBVIOUS
  <2>1. PICK h \in Webhooks, r \in Readings : state' = UpsertIfNewer(state, h, r)
    BY BeliefStep
  <2> QED
    BY <2>1 DEF Abstract!Next, Abstract!Apply, UpsertIfNewer, BeliefOf,
       Abstract!UpsertIfNewer, Abstract!BeliefOf
<1> QED
  BY <1>1, <1>2, RowsOutliveWork, PTL DEF Spec, ImplementsEntityBelief, Abstract!Spec

(***************************************************************************)
(* Out-of-order protection, of the whole pipeline: no webhook, review or   *)
(* replay withdraws a belief or moves it back in event time.               *)
(***************************************************************************)
THEOREM BeliefsNeverRegress == Spec => Abstract!NeverRegresses
<1> DEFINE Forward == \A e \in Entities :
       state[e] # None =>
         /\ state'[e] # None
         /\ \/ state'[e] = state[e]
            \/ state'[e].reading.time > state[e].reading.time
<1>1. TypeInv /\ [Abstract!Next]_state => [Forward]_state
  <2> SUFFICES ASSUME TypeInv, NEW h \in Webhooks, NEW r \in Readings,
                      state' = UpsertIfNewer(state, h, r)
               PROVE  Forward
    BY DEF Abstract!Next, Abstract!Apply, UpsertIfNewer, BeliefOf,
       Abstract!UpsertIfNewer, Abstract!BeliefOf
  <2> QED
    BY UpsertFacts DEF TypeInv, TypeOK
<1> QED
  BY <1>1, PipelineImplementsBelief, RowsOutliveWork, PTL
     DEF ImplementsEntityBelief, Abstract!Spec, Abstract!NeverRegresses

(***************************************************************************)
(* A belief is always about its own entity.                                *)
(***************************************************************************)
THEOREM BeliefsAreOwn == Spec => []Abstract!OwnEntity
<1>1. Abstract!Init => Abstract!OwnEntity
  BY DEF Abstract!Init, Abstract!OwnEntity
<1>2. TypeInv /\ Abstract!OwnEntity /\ [Abstract!Next]_state => Abstract!OwnEntity'
  <2> SUFFICES ASSUME TypeInv, Abstract!OwnEntity, NEW h \in Webhooks, NEW r \in Readings,
                      state' = UpsertIfNewer(state, h, r)
               PROVE  Abstract!OwnEntity'
    BY DEF Abstract!Next, Abstract!Apply, Abstract!OwnEntity, UpsertIfNewer, BeliefOf,
       Abstract!UpsertIfNewer, Abstract!BeliefOf
  <2>1. BeliefOf(h, r).reading = r
    BY DEF BeliefOf
  <2>2. state \in [Entities -> Belief \cup {None}]
    BY DEF TypeInv, TypeOK
  <2> QED
    BY UpsertFacts, <2>1, <2>2 DEF Abstract!OwnEntity
<1> QED
  BY <1>1, <1>2, PipelineImplementsBelief, RowsOutliveWork, PTL DEF ImplementsEntityBelief, Abstract!Spec

(***************************************************************************)
(* NoStranded, one webhook at a time.                                      *)
(***************************************************************************)
Driven(h) ==
  /\ raw[h] = "PROCESSING" => \E w \in Workers : At(w, h, {"normalize"})
  /\ raw[h] = "RECEIVED" =>
       \/ h \in dispatching
       \/ \E k \in 0..MaxRetries : queue[h][k] > 0
       \/ \E w \in Workers : At(w, h, {"claim"})
       \/ \E o \in Operators : operator[o].publishing = h

(***************************************************************************)
(* A webhook stays driven when its status, its messages and its publishers *)
(* stay and no worker leaves a claim or a normalisation of it.             *)
(***************************************************************************)
LEMMA DrivenStays ==
  ASSUME NEW h \in Webhooks, Driven(h), raw'[h] = raw[h],
         h \in dispatching => h \in dispatching',
         \A k \in 0..MaxRetries : queue[h][k] > 0 => queue'[h][k] > 0,
         \A w \in Workers : At(w, h, {"claim"}) => At(w, h, {"claim"})',
         \A w \in Workers : At(w, h, {"normalize"}) => At(w, h, {"normalize"})',
         \A o \in Operators : operator[o].publishing = h => operator'[o].publishing = h
  PROVE  Driven(h)'
BY DEF Driven

(***************************************************************************)
(* No step strands a webhook it does not lose.                             *)
(***************************************************************************)
LEMMA DrivenStep ==
  ASSUME TypeInv, NoStranded, [Next]_vars, NEW h \in Webhooks, h \notin lost'
  PROVE  Driven(h)'
<1> USE DEF broker, people, bounds, history
<1>1. h \notin lost => Driven(h)
  BY DEF NoStranded, Driven
\* A status that is not in flight, or one written together with its driver.
<1>2. ASSUME raw'[h] \notin InFlight PROVE Driven(h)'
  BY <1>2 DEF Driven, InFlight
\* A worker that leaves a statement other than claim and normalize.
<1>3. ASSUME NEW w \in Workers, worker[w].pc \notin {"claim", "normalize"},
             \A u \in Workers : u # w => worker'[u] = worker[u],
             UNCHANGED <<raw, dispatching, operator, lost>>,
             \A k \in 0..MaxRetries : queue[h][k] > 0 => queue'[h][k] > 0
      PROVE  Driven(h)'
  BY <1>1, <1>3, DrivenStays DEF At
\* A worker whose task is about another webhook, or that settles this one.
<1>4. ASSUME NEW w \in Workers, NEW s \in ProcessingStatus \ InFlight,
             worker[w].webhook \in Webhooks,
             Sets(worker[w].webhook, s),
             \A u \in Workers : u # w => worker'[u] = worker[u],
             UNCHANGED <<queue, dispatching, operator, lost>>
      PROVE  Driven(h)'
  <2>1. CASE worker[w].webhook = h
    <3>1. raw'[h] = s
      BY <1>4, <2>1 DEF Sets, TypeInv, TypeOK
    <3> QED
      BY <1>2, <1>4, <3>1
  <2>2. CASE worker[w].webhook # h
    <3>1. raw'[h] = raw[h]
      BY <1>4, <2>2 DEF Sets, TypeInv, TypeOK
    <3>2. \A u \in Workers, P \in {{"claim"}, {"normalize"}} : At(u, h, P) => At(u, h, P)'
      BY <1>4, <2>2 DEF At
    <3> QED
      BY <1>1, <1>4, <3>1, <3>2, DrivenStays
  <2> QED
    BY <2>1, <2>2
<1>5. ASSUME NEW g \in Webhooks, Ingest(g) PROVE Driven(h)'
  <2>1. CASE g = h
    <3>1. raw'[h] = "RECEIVED" /\ h \in dispatching'
      BY <1>5, <2>1 DEF Ingest, TypeInv, TypeOK
    <3> QED
      BY <3>1 DEF Driven
  <2>2. CASE g # h
    <3>1. raw'[h] = raw[h]
      BY <1>5, <2>2 DEF Ingest, TypeInv, TypeOK
    <3> QED
      BY <1>1, <1>5, <3>1, DrivenStays DEF Ingest, At
  <2> QED
    BY <2>1, <2>2
<1>6. ASSUME NEW g \in Webhooks, Dispatch(g) PROVE Driven(h)'
  <2>1. /\ queue'[g][0] > 0
        /\ \A k \in 0..MaxRetries : queue[h][k] > 0 => queue'[h][k] > 0
    BY <1>6, PublishFacts, PipelineAssumption DEF Dispatch, TypeInv
  <2>2. CASE g = h
    BY <1>1, <1>6, <2>1, <2>2, PipelineAssumption DEF Dispatch, Driven, At
  <2>3. CASE g # h
    BY <1>1, <1>6, <2>1, <2>3, DrivenStays DEF Dispatch, At
  <2> QED
    BY <2>2, <2>3
<1>7. ASSUME NEW g \in Webhooks, DispatchFails(g) PROVE Driven(h)'
  BY <1>1, <1>7, DrivenStays DEF DispatchFails, At
<1>8. ASSUME NEW w \in Workers, NEW g \in Webhooks, NEW k \in 0..MaxRetries, Fetch(w, g, k)
      PROVE  Driven(h)'
  <2>1. \A u \in Workers : u # w => worker'[u] = worker[u]
    BY <1>8 DEF Fetch, TypeInv, TypeOK
  <2>2. CASE g = h /\ raw[h] # "NORMALIZED"
    <3>1. At(w, h, {"claim"})'
      BY <1>8, <2>2 DEF Fetch, At, TypeInv, TypeOK
    <3>2. \A u \in Workers : At(u, h, {"normalize"}) => At(u, h, {"normalize"})'
      BY <1>8, <2>1 DEF Fetch, At
    <3> QED
      BY <1>1, <1>8, <3>1, <3>2 DEF Driven, Fetch
  <2>3. CASE g = h /\ raw[h] = "NORMALIZED"
    BY <1>2, <1>8, <2>3 DEF Fetch, InFlight
  <2>4. CASE g # h
    <3>1. \A j \in 0..MaxRetries : queue'[h][j] = queue[h][j]
      BY <1>8, <2>4, TakeFacts DEF Fetch, TypeInv
    <3> QED
      BY <1>3, <1>8, <2>1, <3>1 DEF Fetch
  <2> QED
    BY <2>2, <2>3, <2>4
<1>9. ASSUME NEW w \in Workers, Claim(w) PROVE Driven(h)'
  <2>1. worker[w].webhook \in Webhooks
    BY <1>9, BusyWorker DEF Claim
  <2>2. /\ worker'[w].pc = "normalize" /\ worker'[w].webhook = worker[w].webhook
        /\ \A u \in Workers : u # w => worker'[u] = worker[u]
    BY <1>9, GotoFacts DEF Claim, WorkerPC, TypeInv
  <2>3. CASE worker[w].webhook = h
    <3>1. raw'[h] = "PROCESSING" /\ At(w, h, {"normalize"})'
      BY <1>9, <2>1, <2>2, <2>3 DEF Claim, Sets, At, TypeInv, TypeOK
    <3> QED
      BY <3>1 DEF Driven
  <2>4. CASE worker[w].webhook # h
    <3>1. raw'[h] = raw[h]
      BY <1>9, <2>4 DEF Claim, Sets, TypeInv, TypeOK
    <3>2. \A u \in Workers, P \in {{"claim"}, {"normalize"}} : At(u, h, P) => At(u, h, P)'
      BY <2>2, <2>4 DEF At
    <3> QED
      BY <1>1, <1>9, <3>1, <3>2, DrivenStays DEF Claim
  <2> QED
    BY <2>3, <2>4
<1>10. ASSUME NEW w \in Workers, ClaimRefused(w) PROVE Driven(h)'
  <2>1. \A u \in Workers : u # w => worker'[u] = worker[u]
    BY <1>10, GotoFacts DEF ClaimRefused, WorkerPC, TypeInv
  <2>2. \A u \in Workers : At(u, h, {"normalize"}) => At(u, h, {"normalize"})'
    BY <1>10, <2>1 DEF ClaimRefused, At
  <2>3. CASE worker[w].webhook = h
    BY <1>1, <1>10, <2>2, <2>3 DEF ClaimRefused, Driven
  <2>4. CASE worker[w].webhook # h
    <3>1. \A u \in Workers : At(u, h, {"claim"}) => At(u, h, {"claim"})'
      BY <2>1, <2>4 DEF At
    <3> QED
      BY <1>1, <1>10, <2>2, <3>1, DrivenStays DEF ClaimRefused
  <2> QED
    BY <2>3, <2>4
<1>11. ASSUME NEW w \in Workers, NEW r \in Readings, CreateForWebhook(w, r)
       PROVE  Driven(h)'
  <2>1. worker[w].webhook \in Webhooks
    BY <1>11, BusyWorker DEF CreateForWebhook
  <2>2. \A u \in Workers : u # w => worker'[u] = worker[u]
    BY <1>11, GotoFacts DEF CreateForWebhook, WorkerPC, TypeInv
  <2> QED
    BY <1>4, <1>11, <2>1, <2>2 DEF CreateForWebhook, ProcessingStatus, InFlight
<1>12. ASSUME NEW w \in Workers, Gate(w) PROVE Driven(h)'
  <2>1. \A u \in Workers : u # w => worker'[u] = worker[u]
    BY <1>12, GotoFacts DEF Gate, WorkerPC, TypeInv
  <2> QED
    BY <1>3, <1>12, <2>1 DEF Gate
<1>13. ASSUME NEW w \in Workers, FailRetryable(w) \/ DeadLetter(w) \/ Fail(w)
       PROVE  Driven(h)'
  <2>1. worker[w].webhook \in Webhooks
    BY <1>13, BusyWorker DEF FailRetryable, DeadLetter, Fail
  <2>2. \A u \in Workers : u # w => worker'[u] = worker[u]
    BY <1>13, GotoFacts DEF FailRetryable, DeadLetter, Fail, WorkerPC, TypeInv
  <2> QED
    BY <1>4, <1>13, <2>1, <2>2
       DEF FailRetryable, DeadLetter, Fail, ProcessingStatus, InFlight
<1>14. ASSUME NEW w \in Workers, Retry(w) PROVE Driven(h)'
  <2>1. worker[w].webhook \in Webhooks /\ worker[w].retries + 1 \in 0..MaxRetries
    BY <1>14, BusyWorker, PipelineAssumption DEF Retry
  <2>2. \A k \in 0..MaxRetries : queue[h][k] > 0 => queue'[h][k] > 0
    BY <1>14, <2>1, PublishFacts DEF Retry, TypeInv
  <2>3. \A u \in Workers : u # w => worker'[u] = worker[u]
    BY <1>14, GotoFacts DEF Retry, WorkerPC, TypeInv
  <2> QED
    BY <1>3, <1>14, <2>2, <2>3 DEF Retry
<1>15. ASSUME NEW w \in Workers, RetryPublishFails(w) \/ Ack(w) PROVE Driven(h)'
  <2>1. \A u \in Workers : u # w => worker'[u] = worker[u]
    BY <1>15, EndsFacts DEF RetryPublishFails, Ack, TypeInv
  <2> QED
    BY <1>3, <1>15, <2>1 DEF RetryPublishFails, Ack
<1>16. ASSUME NEW w \in Workers, TimeLimit(w) PROVE Driven(h)'
  <2>1. \A u \in Workers : u # w => worker'[u] = worker[u]
    BY <1>16, EndsFacts DEF TimeLimit, TypeInv
  <2>2. h \notin lost
    BY <1>16 DEF TimeLimit, LeavesBehind
  <2>3. ~At(w, h, {"claim"}) /\ ~At(w, h, {"normalize"})
    BY <1>16 DEF TimeLimit, LeavesBehind, At
  <2>4. \A u \in Workers, P \in {{"claim"}, {"normalize"}} : At(u, h, P) => At(u, h, P)'
    BY <2>1, <2>3 DEF At
  <2> QED
    BY <1>1, <1>16, <2>2, <2>4, DrivenStays DEF TimeLimit
<1>17. ASSUME NEW w \in Workers, WorkerLost(w) PROVE Driven(h)'
  <2>1. worker[w].webhook \in Webhooks /\ worker[w].retries \in 0..MaxRetries
    BY <1>17, BusyWorker DEF WorkerLost
  <2>2. /\ queue'[worker[w].webhook][worker[w].retries] > 0
        /\ \A k \in 0..MaxRetries : queue[h][k] > 0 => queue'[h][k] > 0
    BY <1>17, <2>1, PublishFacts DEF WorkerLost, TypeInv
  <2>3. \A u \in Workers : u # w => worker'[u] = worker[u]
    BY <1>17, EndsFacts DEF WorkerLost, TypeInv
  <2>4. h \notin lost /\ ~At(w, h, {"normalize"})
    BY <1>17 DEF WorkerLost, LeavesBehind, At
  <2>5. \A u \in Workers : At(u, h, {"normalize"}) => At(u, h, {"normalize"})'
    BY <2>3, <2>4 DEF At
  <2>6. CASE worker[w].webhook = h
    BY <1>1, <1>17, <2>1, <2>2, <2>4, <2>5, <2>6 DEF WorkerLost, Driven
  <2>7. CASE worker[w].webhook # h
    <3>1. \A u \in Workers : At(u, h, {"claim"}) => At(u, h, {"claim"})'
      BY <2>3, <2>7 DEF At
    <3> QED
      BY <1>1, <1>17, <2>2, <2>4, <2>5, <3>1, DrivenStays DEF WorkerLost
  <2> QED
    BY <2>6, <2>7
<1>18. CASE UNCHANGED <<raw, queue, dispatching, worker, operator, lost>>
  BY <1>1, <1>18, DrivenStays DEF At
<1>19. ASSUME NEW o \in Operators, NEW H, Selects(o, H) PROVE Driven(h)'
  <2>1. \A u \in Operators : operator'[u].publishing = operator[u].publishing
    BY <1>19 DEF Selects, TypeInv, TypeOK
  <2> QED
    BY <1>1, <1>19, <2>1, DrivenStays DEF Selects, At
<1>20. ASSUME NEW o \in Operators, NEW g \in operator[o].todo, ReplayReset(o, g)
       PROVE  Driven(h)'
  <2>1. g \in Webhooks /\ operator'[o].publishing = g
          /\ \A u \in Operators : u # o => operator'[u] = operator[u]
    BY <1>20 DEF ReplayReset, TypeInv, TypeOK
  <2>2. CASE g = h
    <3>1. raw'[h] = "RECEIVED"
      BY <1>20, <2>2 DEF ReplayReset, Sets, TypeInv, TypeOK
    <3> QED
      BY <2>1, <2>2, <3>1 DEF Driven
  <2>3. CASE g # h
    <3>1. raw'[h] = raw[h] /\ h \notin lost
      BY <1>20, <2>3 DEF ReplayReset, Sets, TypeInv, TypeOK
    <3>2. \A u \in Operators : operator[u].publishing = h => operator'[u].publishing = h
      BY <1>20, <2>1, NoneAssumption DEF ReplayReset
    <3> QED
      BY <1>1, <1>20, <3>1, <3>2, DrivenStays DEF ReplayReset, At
  <2> QED
    BY <2>2, <2>3
<1>21. ASSUME NEW o \in Operators, ReplayPublish(o) PROVE Driven(h)'
  <2>1. operator[o].publishing \in Webhooks
    BY <1>21 DEF ReplayPublish, TypeInv, TypeOK
  <2>2. /\ queue'[operator[o].publishing][0] > 0
        /\ \A k \in 0..MaxRetries : queue[h][k] > 0 => queue'[h][k] > 0
    BY <1>21, <2>1, PublishFacts, PipelineAssumption DEF ReplayPublish, TypeInv
  <2>3. \A u \in Operators : u # o => operator'[u] = operator[u]
    BY <1>21 DEF ReplayPublish, TypeInv, TypeOK
  <2>4. CASE operator[o].publishing = h
    BY <1>1, <1>21, <2>2, <2>4, PipelineAssumption DEF ReplayPublish, Driven, At
  <2>5. CASE operator[o].publishing # h
    BY <1>1, <1>21, <2>2, <2>3, <2>5, DrivenStays DEF ReplayPublish, At
  <2> QED
    BY <2>4, <2>5
<1>22. ASSUME NEW o \in Operators, ReplayPublishFails(o) PROVE Driven(h)'
  <2>1. \A u \in Operators : u # o => operator'[u] = operator[u]
    BY <1>22 DEF ReplayPublishFails, TypeInv, TypeOK
  <2>2. h \notin lost /\ operator[o].publishing # h
    BY <1>22 DEF ReplayPublishFails
  <2> QED
    BY <1>1, <1>22, <2>1, <2>2, DrivenStays DEF ReplayPublishFails, At
<1> QED
  BY <1>5, <1>6, <1>7, <1>8, <1>9, <1>10, <1>11, <1>12, <1>13, <1>14, <1>15,
     <1>16, <1>17, <1>18, <1>19, <1>20, <1>21, <1>22
     DEF Next, IngestStep, WorkerStep, ReviewStep, ReplayRequest, ReplayStep,
         ReplayOne, ReplaySelected, ReplayFailed, OpenReview, Decide, DecideFails, vars

(***************************************************************************)
(* No webhook is stranded in RECEIVED or PROCESSING unless a crash, a time *)
(* limit or a failed publication lost it.                                  *)
(***************************************************************************)
THEOREM NothingIsStranded == Spec => []NoStranded
<1>1. Init => NoStranded
  BY NoneIsNoValue DEF Init, NoStranded, ProcessingStatus
<1>2. TypeInv /\ NoStranded /\ [Next]_vars => NoStranded'
  <2> SUFFICES ASSUME TypeInv, NoStranded, [Next]_vars,
                      NEW h \in Webhooks, h \notin lost'
               PROVE  Driven(h)'
    BY DEF NoStranded, Driven
  <2> QED
    BY DrivenStep
<1> QED
  BY <1>1, <1>2, RowsOutliveWork, PTL DEF Spec

(***************************************************************************)
(* NormalizedIsAccountedFor, one webhook at a time.                        *)
(***************************************************************************)
Gating(w, h) == At(w, h, {"gate"}) /\ worker[w].reading = event[h].reading

Accounted(h) ==
  \/ event[h].requires_review
  \/ Reflected(event[h].reading)
  \/ \E w \in Workers : Gating(w, h)

(***************************************************************************)
(* An event that is accounted for stays so while its reading stays, it is  *)
(* not released from review and nobody leaves its gate.                    *)
(***************************************************************************)
LEMMA AccountedStays ==
  ASSUME TypeInv, [Next]_vars, NEW h \in Webhooks, Accounted(h),
         event[h] \in Event,
         event'[h].reading = event[h].reading,
         event[h].requires_review => event'[h].requires_review,
         \A w \in Workers : At(w, h, {"gate"}) => worker'[w] = worker[w]
  PROVE  Accounted(h)'
<1>1. CASE event[h].requires_review
  BY <1>1 DEF Accounted
<1>2. CASE Reflected(event[h].reading)
  <2>1. event[h].reading \in Readings
    BY DEF Event
  <2>2. Reflected(event[h].reading)'
    BY <1>2, <2>1, ReflectedStays DEF Reflected
  <2> QED
    BY <2>2 DEF Accounted
<1>3. CASE \E w \in Workers : Gating(w, h)
  BY <1>3 DEF Accounted, Gating, At
<1> QED
  BY <1>1, <1>2, <1>3 DEF Accounted

(***************************************************************************)
(* No step takes an event out of account without losing its gate.          *)
(***************************************************************************)
LEMMA AccountedStep ==
  ASSUME TypeInv, NormalizedIsAccountedFor, [Next]_vars,
         NEW h \in Webhooks, h \notin ungated', raw'[h] = "NORMALIZED"
  PROVE  Accounted(h)'
<1> USE DEF broker, people, bounds, history
<1>1. ASSUME raw[h] = "NORMALIZED", h \notin ungated
      PROVE  Accounted(h) /\ event[h] \in Event
  BY <1>1 DEF NormalizedIsAccountedFor, Accounted, Gating, TypeInv, TypeOK,
     WorksOnRows, MessagesHaveRows
\* Steps of others, and of workers that are not at a gate.
<1>2. ASSUME UNCHANGED <<event, ungated>>, raw[h] = "NORMALIZED",
             \A w \in Workers : At(w, h, {"gate"}) => worker'[w] = worker[w]
      PROVE  Accounted(h)'
  BY <1>1, <1>2, AccountedStays
<1>3. ASSUME NEW w \in Workers, worker[w].pc # "gate",
             \A u \in Workers : u # w => worker'[u] = worker[u]
      PROVE  \A u \in Workers : At(u, h, {"gate"}) => worker'[u] = worker[u]
  BY <1>3 DEF At
<1>4. ASSUME NEW g \in Webhooks, NEW s \in ProcessingStatus \ {"NORMALIZED"}, Sets(g, s)
      PROVE  raw[h] = "NORMALIZED" /\ g # h
  BY <1>4 DEF Sets, TypeInv, TypeOK
<1>5. CASE UNCHANGED <<raw, event, worker, ungated>>
  BY <1>2, <1>5
<1>6. ASSUME NEW g \in Webhooks, Ingest(g) PROVE Accounted(h)'
  BY <1>2, <1>4, <1>6 DEF Ingest, Sets, ProcessingStatus
<1>7. ASSUME NEW w \in Workers, NEW g \in Webhooks, NEW k \in 0..MaxRetries, Fetch(w, g, k)
      PROVE  Accounted(h)'
  <2>1. \A u \in Workers : u # w => worker'[u] = worker[u]
    BY <1>7 DEF Fetch, TypeInv, TypeOK
  <2> QED
    BY <1>2, <1>3, <1>7, <2>1 DEF Fetch
<1>8. ASSUME NEW w \in Workers, Claim(w) \/ FailRetryable(w) \/ DeadLetter(w)
      PROVE  Accounted(h)'
  <2>1. \A u \in Workers : u # w => worker'[u] = worker[u]
    BY <1>8, GotoFacts DEF Claim, FailRetryable, DeadLetter, WorkerPC, TypeInv
  <2>2. worker[w].webhook \in Webhooks /\ worker[w].pc # "gate"
    BY <1>8, BusyWorker DEF Claim, FailRetryable, DeadLetter
  <2>3. raw[h] = "NORMALIZED"
    BY <1>4, <1>8, <2>2 DEF Claim, FailRetryable, DeadLetter, ProcessingStatus
  <2> QED
    BY <1>2, <1>3, <1>8, <2>1, <2>2, <2>3 DEF Claim, FailRetryable, DeadLetter
<1>9. ASSUME NEW w \in Workers, ClaimRefused(w) \/ Retry(w) PROVE Accounted(h)'
  <2>1. \A u \in Workers : u # w => worker'[u] = worker[u]
    BY <1>9, GotoFacts DEF ClaimRefused, Retry, WorkerPC, TypeInv
  <2> QED
    BY <1>2, <1>3, <1>9, <2>1 DEF ClaimRefused, Retry
<1>10. ASSUME NEW w \in Workers, RetryPublishFails(w) \/ Ack(w) PROVE Accounted(h)'
  <2>1. \A u \in Workers : u # w => worker'[u] = worker[u]
    BY <1>10, EndsFacts DEF RetryPublishFails, Ack, TypeInv
  <2> QED
    BY <1>2, <1>3, <1>10, <2>1 DEF RetryPublishFails, Ack
<1>11. ASSUME NEW w \in Workers, NEW r \in Readings, CreateForWebhook(w, r)
       PROVE  Accounted(h)'
  <2>1. /\ worker'[w].pc = "gate" /\ worker'[w].webhook = worker[w].webhook
        /\ worker'[w].reading = r
        /\ \A u \in Workers : u # w => worker'[u] = worker[u]
    BY <1>11, GotoFacts DEF CreateForWebhook, WorkerPC, TypeInv
  <2>2. CASE worker[w].webhook = h
    <3>1. event'[h].reading = r
      BY <1>11, <2>2 DEF CreateForWebhook, TypeInv, TypeOK
    <3> QED
      BY <2>1, <2>2, <3>1 DEF Accounted, Gating, At
  <2>3. CASE worker[w].webhook # h
    <3>1. event'[h] = event[h] /\ raw'[h] = raw[h] /\ h \notin ungated
      BY <1>11, <2>3 DEF CreateForWebhook, Sets, TypeInv, TypeOK
    <3>2. \A u \in Workers : At(u, h, {"gate"}) => worker'[u] = worker[u]
      BY <2>1, <2>3 DEF At
    <3> QED
      BY <1>1, <3>1, <3>2, AccountedStays
  <2> QED
    BY <2>2, <2>3
<1>12. ASSUME NEW w \in Workers, Gate(w) PROVE Accounted(h)'
  <2>1. \A u \in Workers : u # w => worker'[u] = worker[u]
    BY <1>12, GotoFacts DEF Gate, WorkerPC, TypeInv
  <2>2. /\ worker[w].webhook \in Webhooks /\ worker[w].reading \in Readings
        /\ event[worker[w].webhook] \in Event
    BY <1>12, BusyWorker DEF Gate
  <2>3. Accounted(h) /\ event[h] \in Event
    BY <1>1, <1>12 DEF Gate
  <2>4. /\ event'[h].reading = event[h].reading
        /\ event[h].requires_review => event'[h].requires_review
    BY <1>12, <2>2, <2>3
       DEF Gate, ApplyConfidenceGate, Holds, Trusts, TypeInv, TypeOK, Event
  <2>5. CASE ~Gating(w, h)
    <3>1. CASE event[h].requires_review
      BY <2>4, <3>1 DEF Accounted
    <3>2. CASE Reflected(event[h].reading)
      <4>1. event[h].reading \in Readings
        BY <2>3 DEF Event
      <4>2. Reflected(event[h].reading)'
        BY <2>4, <3>2, <4>1, ReflectedStays DEF Reflected
      <4> QED
        BY <4>2 DEF Accounted
    <3>3. CASE \E u \in Workers : Gating(u, h)
      BY <2>1, <2>4, <2>5, <3>3 DEF Accounted, Gating, At
    <3> QED
      BY <2>3, <3>1, <3>2, <3>3 DEF Accounted
  <2>6. CASE Gating(w, h)
    <3>1. CASE IsLowConfidence(worker[w].reading)
      <4>1. Holds(w) /\ worker[w].webhook = h
        BY <1>12, <2>6, <3>1 DEF Gate, ApplyConfidenceGate, Gating, At
      <4>2. event'[h].requires_review
        BY <2>3, <4>1 DEF Holds, TypeInv, TypeOK, Event
      <4> QED
        BY <4>2 DEF Accounted
    <3>2. CASE ~IsLowConfidence(worker[w].reading)
      <4>1. Trusts(w)
        BY <1>12, <3>2 DEF Gate, ApplyConfidenceGate
      <4>2. event'[h].reading = worker[w].reading
        BY <2>4, <2>6 DEF Gating
      <4> QED
        BY <2>2, <4>1, <4>2, UpsertReflects DEF Trusts, Accounted, Reflected
    <3> QED
      BY <3>1, <3>2
  <2> QED
    BY <2>5, <2>6
<1>13. ASSUME NEW w \in Workers, Fail(w) PROVE Accounted(h)'
  <2>1. \A u \in Workers : u # w => worker'[u] = worker[u]
    BY <1>13, GotoFacts DEF Fail, WorkerPC, TypeInv
  <2>2. worker[w].webhook \in Webhooks
    BY <1>13, BusyWorker DEF Fail
  <2>3. raw[h] = "NORMALIZED" /\ worker[w].webhook # h
    BY <1>4, <1>13, <2>2 DEF Fail, ProcessingStatus
  <2> QED
    BY <1>2, <1>13, <2>1, <2>3 DEF Fail, At
<1>14. ASSUME NEW w \in Workers, TimeLimit(w) \/ WorkerLost(w) PROVE Accounted(h)'
  <2>1. \A u \in Workers : u # w => worker'[u] = worker[u]
    BY <1>14, EndsFacts DEF TimeLimit, WorkerLost, TypeInv
  <2>2. h \notin ungated /\ ~At(w, h, {"gate"})
    BY <1>14 DEF TimeLimit, WorkerLost, LeavesBehind, At
  <2>3. Accounted(h) /\ event[h] \in Event /\ event' = event
    BY <1>1, <1>14, <2>2 DEF TimeLimit, WorkerLost
  <2>4. \A u \in Workers : At(u, h, {"gate"}) => worker'[u] = worker[u]
    BY <2>1, <2>2
  <2> QED
    BY <2>3, <2>4, AccountedStays
<1>15. ASSUME NEW v \in Reviewers, NEW s \in review[v].todo, Decide(v, s)
       PROVE  Accounted(h)'
  <2>1. Accounted(h) /\ event[h] \in Event
    BY <1>1, <1>15 DEF Decide
  <2>2. /\ event'[h].reading = event[h].reading
        /\ event[h].requires_review => event'[h].requires_review
    BY <1>15, <2>1 DEF Decide, TypeInv, TypeOK, Event
  <2> QED
    BY <1>15, <2>1, <2>2, AccountedStays DEF Decide
<1>16. ASSUME NEW o \in Operators, NEW g \in operator[o].todo, ReplayReset(o, g)
       PROVE  Accounted(h)'
  <2>1. g \in Webhooks
    BY <1>16 DEF TypeInv, TypeOK
  <2> QED
    BY <1>2, <1>4, <1>16, <2>1 DEF ReplayReset, ProcessingStatus
<1> QED
  BY <1>5, <1>6, <1>7, <1>8, <1>9, <1>10, <1>11, <1>12, <1>13, <1>14, <1>15, <1>16
     DEF Next, IngestStep, WorkerStep, ReviewStep, ReplayRequest, ReplayStep,
         ReplayOne, ReplaySelected, ReplayFailed, Selects, Dispatch, DispatchFails,
         OpenReview, DecideFails, ReplayPublish, ReplayPublishFails, vars

(***************************************************************************)
(* Every normalised event is held, reflected or about to be gated, unless  *)
(* its worker was killed between storing it and gating it.                 *)
(***************************************************************************)
THEOREM NothingSlipsPastTheGate == Spec => []NormalizedIsAccountedFor
<1>1. Init => NormalizedIsAccountedFor
  BY NoneIsNoValue DEF Init, NormalizedIsAccountedFor, ProcessingStatus
<1>2. TypeInv /\ NormalizedIsAccountedFor /\ [Next]_vars => NormalizedIsAccountedFor'
  <2> SUFFICES ASSUME TypeInv, NormalizedIsAccountedFor, [Next]_vars,
                      NEW h \in Webhooks, h \notin ungated', raw'[h] = "NORMALIZED"
               PROVE  Accounted(h)'
    BY DEF NormalizedIsAccountedFor, Accounted, Gating
  <2> QED
    BY AccountedStep
<1> QED
  BY <1>1, <1>2, RowsOutliveWork, PTL DEF Spec

=============================================================================
