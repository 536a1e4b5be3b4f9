------------------------------- MODULE Fanout -------------------------------
(***************************************************************************)
(* The worker's fan-out of worker/worker_app: RabbitMQ user queues are      *)
(* consumed for the users in Redis' online set, which is the one Presence   *)
(* maintains, and every delivery is published on the user's Redis channel   *)
(* before it is acknowledged.                                               *)
(*                                                                          *)
(* Events are numbered per user in the order they were routed.  A queue is  *)
(* the set of its ready messages: RabbitMQ keeps them in that order and     *)
(* puts a requeued message back to its place.                               *)
(***************************************************************************)
EXTENDS Presence

CONSTANTS
    NEvents,      \* bound: events routed to each user
    MaxLength,    \* rabbit_user_queue_max_length
    MaxTries,     \* redis_fanout_max_attempts
    MaxOutages    \* bound: outages of Redis and failures of the worker

ASSUME FanoutConstants ==
    /\ NEvents \in Nat
    /\ MaxLength \in Nat \ {0}
    /\ MaxTries \in Nat \ {0}
    /\ MaxOutages \in Nat

VARIABLES
    routed,     \* how many events the exchange has routed to each user
    ready,      \* the ready messages of each user queue
    dropped,    \* history: events a queue's own bounds discarded
    legacy,     \* users whose queue predates the bounded arguments
    task,       \* self.tasks: the consumer of each user
    cancelled,  \* deliveries held by cancelled tasks that have not ended yet
    fanned,     \* events published on each user's Redis channel
    worker,     \* the worker process: "booting" or "up"
    redisUp,    \* the worker and the backend reach Redis
    outages     \* outages and failures so far

fanoutVars == <<routed, ready, dropped, legacy, task, cancelled, fanned, worker, redisUp, outages>>

\* held are the deliveries of the iterator, cur the one being processed (0 for
\* none) and tries the failed attempts of publish_redis_with_backoff.
NoTask == [st |-> "none", held |-> {}, cur |-> 0, tries |-> 0]
DeadTask == [NoTask EXCEPT !.st = "dead"]

Lowest(S) == CHOOSE n \in S : \A m \in S : n <= m

\* user_queue_arguments: x-max-length with x-overflow = drop-head.
Overflow(u, S) == {e \in S : u \notin legacy /\ Cardinality({f \in S : f >= e}) > MaxLength}

\* Put the messages of S at their place in the queue, which may overflow.
Enqueue(u, S) ==
    LET over == Overflow(u, ready[u] \cup S) IN
    /\ ready' = [ready EXCEPT ![u] = (@ \cup S) \ over]
    /\ dropped' = [dropped EXCEPT ![u] = @ \cup over]

FanoutInit ==
    /\ routed = [u \in Users |-> 0]
    /\ ready = [u \in Users |-> {}]
    /\ dropped = [u \in Users |-> {}]
    /\ legacy \in SUBSET Users
    /\ task = [u \in Users |-> NoTask]
    /\ cancelled = [u \in Users |-> {}]
    /\ fanned = [u \in Users |-> {}]
    /\ worker = "booting"
    /\ redisUp = TRUE
    /\ outages = 0

-----------------------------------------------------------------------------
(* RabbitMQ *)

Route(u) ==
    /\ routed[u] < NEvents
    /\ routed' = [routed EXCEPT ![u] = @ + 1]
    /\ Enqueue(u, {routed[u] + 1})
    /\ UNCHANGED <<legacy, task, cancelled, fanned, worker, redisUp, outages>>

\* x-message-ttl takes messages from the head.
TTLExpires(u) ==
    /\ u \notin legacy
    /\ ready[u] # {}
    /\ ready' = [ready EXCEPT ![u] = @ \ {Lowest(@)}]
    /\ dropped' = [dropped EXCEPT ![u] = @ \cup {Lowest(ready[u])}]
    /\ UNCHANGED <<routed, legacy, task, cancelled, fanned, worker, redisUp, outages>>

\* basic.deliver: the ready messages go to the attached consumer.
Push(u) ==
    /\ task[u].st \in {"consuming", "acking"}
    /\ ready[u] # {}
    /\ task' = [task EXCEPT ![u].held = @ \cup ready[u]]
    /\ ready' = [ready EXCEPT ![u] = {}]
    /\ UNCHANGED <<routed, dropped, legacy, cancelled, fanned, worker, redisUp, outages>>

-----------------------------------------------------------------------------
(* The worker *)

\* main: topology and migrate_legacy_user_queue, which deletes a queue without
\* the bounded arguments together with its messages.  A failure is retried,
\* and a process that gives up is started again.
Bootstrap ==
    /\ worker = "booting"
    /\ worker' = "up"
    /\ ready' = [u \in Users |-> IF u \in legacy THEN {} ELSE ready[u]]
    /\ dropped' = [u \in Users |-> IF u \in legacy THEN dropped[u] \cup ready[u] ELSE dropped[u]]
    /\ legacy' = {}
    /\ UNCHANGED <<routed, task, cancelled, fanned, redisUp, outages>>

\* Mutant of Scan: a cancelled task is not popped from self.tasks.
ScanKeepsTask ==
    /\ worker = "up"
    /\ redisUp
    /\ task' = [u \in Users |->
                  IF u \notin online THEN [NoTask EXCEPT !.st = IF task[u].st = "none" THEN "none" ELSE "ended"]
                  ELSE IF task[u].st = "none" THEN [NoTask EXCEPT !.st = "starting"]
                  ELSE task[u]]
    /\ cancelled' = [u \in Users |-> IF u \notin online THEN cancelled[u] \cup task[u].held ELSE cancelled[u]]
    /\ UNCHANGED <<routed, ready, dropped, legacy, fanned, worker, redisUp, outages>>

\* OnlineUserConsumerManager.run: one scan.  It is skipped when smembers fails.
Scan ==
    /\ worker = "up"
    /\ redisUp
    /\ task' = [u \in Users |->
                  IF u \notin online THEN NoTask
                  ELSE IF task[u].st = "none" THEN [NoTask EXCEPT !.st = "starting"]
                  ELSE task[u]]
    /\ cancelled' = [u \in Users |-> IF u \notin online THEN cancelled[u] \cup task[u].held ELSE cancelled[u]]
    /\ UNCHANGED <<routed, ready, dropped, legacy, fanned, worker, redisUp, outages>>

\* A cancelled task leaves its contexts: message.process and the iterator give
\* everything back.
Closed(u) ==
    /\ cancelled[u] # {}
    /\ cancelled' = [cancelled EXCEPT ![u] = {}]
    /\ Enqueue(u, cancelled[u])
    /\ UNCHANGED <<routed, legacy, task, fanned, worker, redisUp, outages>>

\* _consume_user declares the queue and starts the iterator.
Consume(u) ==
    /\ task[u].st = "starting"
    /\ task' = [task EXCEPT ![u].st = "consuming"]
    /\ UNCHANGED <<routed, ready, dropped, legacy, cancelled, fanned, worker, redisUp, outages>>

\* The channel or the declaration fails, and the task with it.
ConsumeFails(u) ==
    /\ task[u].st = "starting"
    /\ outages < MaxOutages
    /\ outages' = outages + 1
    /\ task' = [task EXCEPT ![u] = DeadTask]
    /\ UNCHANGED <<routed, ready, dropped, legacy, cancelled, fanned, worker, redisUp>>

\* The next message of the iterator.
Take(u) ==
    /\ task[u].st = "consuming" /\ task[u].cur = 0
    /\ \E e \in task[u].held : task' = [task EXCEPT ![u].cur = e, ![u].tries = 0]
    /\ UNCHANGED <<routed, ready, dropped, legacy, cancelled, fanned, worker, redisUp, outages>>

\* publish_redis_with_backoff succeeds.
PublishRedis(u) ==
    /\ task[u].st = "consuming" /\ task[u].cur # 0
    /\ redisUp
    /\ fanned' = [fanned EXCEPT ![u] = @ \cup {task[u].cur}]
    /\ task' = [task EXCEPT ![u].st = "acking"]
    /\ UNCHANGED <<routed, ready, dropped, legacy, cancelled, worker, redisUp, outages>>

\* An attempt fails and another one is left.
PublishRetries(u) ==
    /\ task[u].st = "consuming" /\ task[u].cur # 0
    /\ ~redisUp
    /\ task[u].tries + 1 < MaxTries
    /\ task' = [task EXCEPT ![u].tries = @ + 1]
    /\ UNCHANGED <<routed, ready, dropped, legacy, cancelled, fanned, worker, redisUp, outages>>

\* Mutant of GiveUp: process() without requeue discards the message.
GiveUpDiscards(u) ==
    /\ task[u].st = "consuming" /\ task[u].cur # 0
    /\ ~redisUp
    /\ task[u].tries + 1 = MaxTries
    /\ Enqueue(u, task[u].held \ {task[u].cur})
    /\ task' = [task EXCEPT ![u] = DeadTask]
    /\ UNCHANGED <<routed, legacy, cancelled, fanned, worker, redisUp, outages>>

\* The last attempt fails: the exception leaves message.process, the iterator
\* and the task, which stays in self.tasks; its deliveries are requeued.
GiveUp(u) ==
    /\ task[u].st = "consuming" /\ task[u].cur # 0
    /\ ~redisUp
    /\ task[u].tries + 1 = MaxTries
    /\ Enqueue(u, task[u].held)
    /\ task' = [task EXCEPT ![u] = DeadTask]
    /\ UNCHANGED <<routed, legacy, cancelled, fanned, worker, redisUp, outages>>

\* message.process acknowledges on leaving its context.
Ack(u) ==
    /\ task[u].st = "acking"
    /\ task' = [task EXCEPT ![u] = [st |-> "consuming", held |-> @.held \ {@.cur}, cur |-> 0, tries |-> 0]]
    /\ UNCHANGED <<routed, ready, dropped, legacy, cancelled, fanned, worker, redisUp, outages>>

-----------------------------------------------------------------------------
(* Failures *)

\* The worker dies; RabbitMQ requeues what was not acknowledged.
WorkerDies ==
    /\ worker = "up"
    /\ outages < MaxOutages
    /\ outages' = outages + 1
    /\ worker' = "booting"
    /\ LET back(u) == cancelled[u] \cup task[u].held
           over(u) == Overflow(u, ready[u] \cup back(u))
       IN /\ ready' = [u \in Users |-> (ready[u] \cup back(u)) \ over(u)]
          /\ dropped' = [u \in Users |-> dropped[u] \cup over(u)]
    /\ task' = [u \in Users |-> NoTask]
    /\ cancelled' = [u \in Users |-> {}]
    /\ UNCHANGED <<routed, legacy, fanned, redisUp>>

RedisLost ==
    /\ redisUp
    /\ outages < MaxOutages
    /\ outages' = outages + 1
    /\ redisUp' = FALSE
    /\ UNCHANGED <<routed, ready, dropped, legacy, task, cancelled, fanned, worker>>

RedisBack ==
    /\ ~redisUp
    /\ redisUp' = TRUE
    /\ UNCHANGED <<routed, ready, dropped, legacy, task, cancelled, fanned, worker, outages>>

\* A step of the consumer of u that the event loop will not put off for ever.
ConsumerStep(u) == Consume(u) \/ Take(u) \/ PublishRedis(u) \/ PublishRetries(u) \/ GiveUp(u) \/ Ack(u)

FanoutNext ==
    \/ \E u \in Users :
        \/ Route(u) \/ TTLExpires(u) \/ Push(u)
        \/ Closed(u) \/ ConsumeFails(u) \/ ConsumerStep(u)
    \/ Bootstrap \/ Scan \/ WorkerDies \/ RedisLost \/ RedisBack

\* Presence while Redis is unreachable: its scripts do not run.
PresenceCutOff ==
    \/ \E c \in Conns :
        \/ Beat(c) \/ BeatLost(c) \/ Vanish(c)
        \/ Connect(c) /\ UNCHANGED redisVars
    \/ \E u \in Users : KeyExpires(u)
    \/ Tick

\* Presence beside the fan-out, on the same Redis.
PresenceNext == (IF redisUp THEN Next ELSE PresenceCutOff) /\ UNCHANGED fanoutVars

FanoutSpec == Init /\ FanoutInit /\ [][(FanoutNext /\ UNCHANGED vars) \/ PresenceNext]_<<vars, fanoutVars>>

-----------------------------------------------------------------------------
(* Properties. *)

\* amqp_consumer_runner.py: an event leaves RabbitMQ only when it has been
\* published on the user's Redis channel or the queue's own bounds discarded
\* it; outages, cancelled consumers and crashes of the worker lose nothing.
FanoutLossless ==
    \A u \in Users :
        1..routed[u] = UNION {ready[u], task[u].held, cancelled[u], fanned[u], dropped[u]}

\* The events of u that still have to reach Redis.
Waiting(u) == 1..routed[u] \ (fanned[u] \cup dropped[u])

Connected(u) == \E c \in Of(u) : conn[c] = "live"

\* amqp_consumer_runner.py and presence.py together: the events queued for a
\* user who stays connected reach Redis after the last outage, however often
\* the user's lease lapses and the consumer is cancelled and started again,
\* unless the consumer's task has ended.
FanoutServes ==
    \A u \in Users :
        (Connected(u) /\ Waiting(u) # {}) ~> (Waiting(u) = {} \/ ~Connected(u) \/ task[u].st = "dead")

\* amqp_consumer_runner.py, "Keep reconciling online-user consumers for the
\* lifetime of the worker": a user who stays online has a running consumer
\* again after the last outage.
ConsumersReconciled ==
    \A u \in Users :
        <>[](u \in online /\ redisUp /\ worker = "up") => []<>(task[u].st \in {"consuming", "acking"})
=============================================================================
