------------------------------ MODULE TaskQueue ------------------------------
(***************************************************************************)
(* The background queue (app/services/queue.py) and the worker loop that   *)
(* consumes it (app/services/queue_worker.py): a Redis list of envelopes   *)
(* that are ready, a sorted set of envelopes that wait for their time, and *)
(* workers that move the second into the first, pop, run a handler and     *)
(* requeue what failed.                                                    *)
(*                                                                         *)
(* Each Redis command is atomic; the commands of one Python function are   *)
(* not.  Any of them may raise, and a worker may die between two of them.  *)
(* What a handler does is left out: it returns or raises.                  *)
(***************************************************************************)
EXTENDS Integers, Sequences, FiniteSets, SequencesExt

CONSTANTS QueueTasks,    \* what the API ever enqueues, one envelope each
          QueueWorkers,  \* worker processes
          MaxRetries,    \* rq_dispatch_max_retries
          MaxFaults      \* bound: Redis errors and worker deaths in a behaviour

ASSUME MaxRetriesAssumption == MaxRetries \in Nat
ASSUME MaxFaultsAssumption == MaxFaults \in Nat

\* QueuedTask.to_json(): the envelope of a task on its n-th retry is one string,
\* so the sorted set holds it at most once.
Envelopes == [task : QueueTasks, attempts : 0..MaxRetries]

VARIABLES
  ready,      \* the list rq_queue_name, the next to pop first
  scheduled,  \* the sorted set rq_queue_name:scheduled
  due,        \* those of scheduled whose score has passed
  queuePc,    \* where a worker is in flush_queue
  batch,      \* ready_items a worker has read from the sorted set
  hand,       \* the envelope a worker has popped, as a set of at most one
  faults,     \* Redis errors and deaths so far
  granted,    \* history: one start of each attempt, doubled by each fault
  accepted,   \* history: tasks whose enqueue returned True
  settled,    \* history: tasks with a handler that returned, or dropped by policy
  lost,       \* history: tasks that a death or a Redis error took from a worker's hand
  runs        \* history: how often a handler was started for an envelope

redis == <<ready, scheduled, due>>
local == <<queuePc, batch, hand>>
history == <<accepted, settled, lost, runs>>
tally == <<faults, granted>>
queueVars == <<redis, local, history, tally>>

QueuePhases == {"drain", "push", "remove", "pop", "run", "failed"}

-----------------------------------------------------------------------------
(***************************************************************************)
(* enqueue_task and enqueue_task_with_delay, called by the API and by the  *)
(* handlers: LPUSH or ZADD; an exception makes them return False.          *)
(***************************************************************************)
Fresh(t) == [task |-> t, attempts |-> 0]

Submit(t, delayed) ==
  /\ t \notin accepted
  /\ IF delayed THEN scheduled' = scheduled \cup {Fresh(t)} /\ UNCHANGED ready
                ELSE ready' = Append(ready, Fresh(t)) /\ UNCHANGED scheduled
  /\ accepted' = accepted \cup {t}
  /\ UNCHANGED <<due, local, settled, lost, runs, tally>>

\* The score of a scheduled envelope passes.
ComesDue(e) ==
  /\ e \in scheduled \ due
  /\ due' = due \cup {e}
  /\ UNCHANGED <<ready, scheduled, local, history, tally>>

-----------------------------------------------------------------------------
(***************************************************************************)
(* dequeue_task(block=True): _drain_ready_scheduled_tasks reads what is    *)
(* due, pushes it onto the list, removes it from the sorted set; BRPOP     *)
(* then takes the oldest entry or times out, which drains once more and    *)
(* starts the next round.                                                  *)
(***************************************************************************)
Goto(w, phase) == queuePc' = [queuePc EXCEPT ![w] = phase]

\* Mutant: the drain removes what it reads before it pushes it.
ReadDueRemoving(w) ==
  /\ queuePc[w] = "drain"
  /\ batch' = [batch EXCEPT ![w] = due]
  /\ scheduled' = scheduled \ due
  /\ due' = {}
  /\ Goto(w, IF due = {} THEN "pop" ELSE "push")
  /\ UNCHANGED <<ready, hand, history, tally>>

ReadDue(w) ==
  /\ queuePc[w] = "drain"
  /\ batch' = [batch EXCEPT ![w] = due]
  /\ Goto(w, IF due = {} THEN "pop" ELSE "push")
  /\ UNCHANGED <<redis, hand, history, tally>>

PushBatch(w) ==
  /\ queuePc[w] = "push"
  /\ ready' = ready \o SetToSeq(batch[w])
  /\ Goto(w, "remove")
  /\ UNCHANGED <<scheduled, due, batch, hand, history, tally>>

\* Mutant: without the ZREM.
RemoveBatchNever(w) ==
  /\ queuePc[w] = "remove"
  /\ batch' = [batch EXCEPT ![w] = {}]
  /\ Goto(w, "pop")
  /\ UNCHANGED <<redis, hand, history, tally>>

RemoveBatch(w) ==
  /\ queuePc[w] = "remove"
  /\ scheduled' = scheduled \ batch[w]
  /\ due' = due \ batch[w]
  /\ batch' = [batch EXCEPT ![w] = {}]
  /\ Goto(w, "pop")
  /\ UNCHANGED <<ready, hand, history, tally>>

Pop(w) ==
  /\ queuePc[w] = "pop"
  /\ ready # <<>>
  /\ hand' = [hand EXCEPT ![w] = {Head(ready)}]
  /\ ready' = Tail(ready)
  /\ runs' = [runs EXCEPT ![Head(ready)] = @ + 1]
  /\ Goto(w, "run")
  /\ UNCHANGED <<scheduled, due, batch, accepted, settled, lost, tally>>

\* Mutant: BRPOP without a timeout.
PopBlocks(w) ==
  /\ queuePc[w] = "pop"
  /\ ready = <<>>
  /\ UNCHANGED queueVars

PopTimesOut(w) ==
  /\ queuePc[w] = "pop"
  /\ ready = <<>>
  /\ Goto(w, "drain")
  /\ UNCHANGED <<redis, batch, hand, history, tally>>

-----------------------------------------------------------------------------
(***************************************************************************)
(* flush_queue after the pop: the handler returns or raises; a failed task *)
(* is requeued with one attempt more, after a backoff, or dropped when its *)
(* attempts are used up (requeue_if_failed).                               *)
(***************************************************************************)
InHand(w) == {e.task : e \in hand[w]}

HandlerReturns(w) ==
  /\ queuePc[w] = "run"
  /\ settled' = settled \cup InHand(w)
  /\ hand' = [hand EXCEPT ![w] = {}]
  /\ Goto(w, "drain")
  /\ UNCHANGED <<redis, batch, accepted, lost, runs, tally>>

HandlerRaises(w) ==
  /\ queuePc[w] = "run"
  /\ Goto(w, "failed")
  /\ UNCHANGED <<redis, batch, hand, history, tally>>

\* Mutant: one retry too many.
ExhaustedLate(e) == e.attempts > MaxRetries

\* Mutant: one retry too few.
ExhaustedEarly(e) == e.attempts + 1 >= MaxRetries

Exhausted(e) == e.attempts + 1 > MaxRetries

\* Mutant: the attempt is not counted.
RequeueUncounted(w) ==
  /\ queuePc[w] = "failed"
  /\ scheduled' = scheduled \cup hand[w]
  /\ due' = due \ hand[w]
  /\ hand' = [hand EXCEPT ![w] = {}]
  /\ Goto(w, "drain")
  /\ UNCHANGED <<ready, batch, accepted, settled, lost, runs, tally>>

\* ZADD of the next attempt: a new score when that envelope is already there.
Requeue(w) ==
  /\ queuePc[w] = "failed"
  /\ \E e \in hand[w] :
       IF Exhausted(e)
       THEN settled' = settled \cup {e.task} /\ UNCHANGED redis
       ELSE LET next == [e EXCEPT !.attempts = @ + 1] IN
            /\ scheduled' = scheduled \cup {next}
            /\ due' = due \ {next}
            /\ UNCHANGED <<ready, settled>>
  /\ hand' = [hand EXCEPT ![w] = {}]
  /\ Goto(w, "drain")
  /\ UNCHANGED <<batch, accepted, lost, runs, tally>>

-----------------------------------------------------------------------------
(***************************************************************************)
(* A Redis command raises, or the process dies and is restarted: what the  *)
(* worker had in its memory is gone.  An error while draining or popping   *)
(* is caught by flush_queue, one while requeueing by _run_worker_loop;     *)
(* both start over, as a restarted worker does.  In "run" only a death     *)
(* can happen: an exception of the handler is HandlerRaises.               *)
(***************************************************************************)
Fault(w) ==
  /\ faults < MaxFaults
  /\ faults' = faults + 1
  /\ granted' = 2 * granted
  /\ lost' = lost \cup InHand(w)
  /\ hand' = [hand EXCEPT ![w] = {}]
  /\ batch' = [batch EXCEPT ![w] = {}]
  /\ Goto(w, "drain")
  /\ UNCHANGED <<redis, accepted, settled, runs>>

-----------------------------------------------------------------------------
QueueInit ==
  /\ ready = <<>> /\ scheduled = {} /\ due = {}
  /\ queuePc = [w \in QueueWorkers |-> "drain"]
  /\ batch = [w \in QueueWorkers |-> {}]
  /\ hand = [w \in QueueWorkers |-> {}]
  /\ faults = 0 /\ granted = 1
  /\ accepted = {} /\ settled = {} /\ lost = {}
  /\ runs = [e \in Envelopes |-> 0]

Work(w) ==
  \/ ReadDue(w) \/ PushBatch(w) \/ RemoveBatch(w)
  \/ Pop(w) \/ PopTimesOut(w)
  \/ HandlerReturns(w) \/ HandlerRaises(w) \/ Requeue(w)

QueueNext ==
  \/ \E t \in QueueTasks, delayed \in BOOLEAN : Submit(t, delayed)
  \/ \E e \in Envelopes : ComesDue(e)
  \/ \E w \in QueueWorkers : Work(w) \/ Fault(w)

QueueSpec == QueueInit /\ [][QueueNext]_queueVars

\* _run_worker_loop runs for ever and time passes.
QueueFairness ==
  /\ \A w \in QueueWorkers : WF_queueVars(Work(w))
  /\ \A e \in Envelopes : WF_queueVars(ComesDue(e))

QueueFairSpec == QueueSpec /\ QueueFairness

-----------------------------------------------------------------------------
\* Envelopes stay within the attempts the worker grants, whatever is duplicated.
QueueTypeOK ==
  /\ ready \in Seq(Envelopes)
  /\ due \subseteq scheduled /\ scheduled \subseteq Envelopes
  /\ queuePc \in [QueueWorkers -> QueuePhases]
  /\ batch \in [QueueWorkers -> SUBSET Envelopes]
  /\ hand \in [QueueWorkers -> SUBSET Envelopes]
  /\ \A w \in QueueWorkers : hand[w] # {} <=> queuePc[w] \in {"run", "failed"}
  /\ faults \in 0..MaxFaults /\ granted \in Nat \ {0}
  /\ accepted \subseteq QueueTasks /\ settled \subseteq QueueTasks /\ lost \subseteq QueueTasks
  /\ runs \in [Envelopes -> Nat]

\* An accepted task is in Redis or in a worker's hand until a handler has
\* returned for it, its retries are used up, or a fault took it from a hand:
\* neither a death while draining nor the race of two drains loses it.
Queued == {e.task : e \in ToSet(ready) \cup scheduled}
NothingVanishes ==
  accepted \subseteq Queued \cup settled \cup lost \cup UNION {InHand(w) : w \in QueueWorkers}

\* What a fault costs is bounded: with one worker, a fault at most doubles how
\* often an attempt is started (it leaves what was pushed in the sorted set, and
\* each copy may bring the next attempt about); and no attempt of a task is left
\* once one has returned, unless there was a fault.  The drain's push-then-remove,
\* the pop and the requeue do not duplicate work by themselves.
DuplicatesAreFaults ==
  /\ \A e \in Envelopes : runs[e] <= granted
  /\ faults = 0 =>
       \A e \in Envelopes : e.task \in settled =>
         \A w \in QueueWorkers : e \notin hand[w] /\ e \notin ToSet(ready) \cup scheduled

\* The queue delivers: attempts are started in their order, no task is over before
\* one of them has returned or the last has raised, and none is lost but with the
\* worker that runs it, whatever drains, requeues and faults come between.
Delivery == INSTANCE TaskDelivery
            WITH raised <- {w \in QueueWorkers : queuePc[w] = "failed"}
ImplementsDelivery == Delivery!Spec

\* Every accepted task settles, or was lost to a fault while in a worker's hand.
EveryTaskSettles == \A t \in QueueTasks : t \in accepted ~> t \in settled \cup lost

=============================================================================
