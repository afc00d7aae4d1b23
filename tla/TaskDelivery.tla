---------------------------- MODULE TaskDelivery ----------------------------
(***************************************************************************)
(* What the queue promises of a task that it accepts: its attempts are     *)
(* started in their order, each as often as need be; an attempt ends when  *)
(* its handler returns, when it raised and another is granted or none is   *)
(* left, or with the worker that runs it.  The lists of Redis, the drain   *)
(* and the errors that cost no attempt are hidden.  TaskQueue implements   *)
(* it.                                                                     *)
(***************************************************************************)
EXTENDS Integers

CONSTANTS QueueTasks, QueueWorkers, MaxRetries

VARIABLES accepted,   \* the tasks that were accepted
          settled,    \* those that are over: returned or given up
          lost,       \* those an attempt of which ended with its worker
          runs,       \* attempt -> how often it was started
          hand,       \* worker -> the attempt it runs, as a set of at most one
          raised      \* the workers whose handler has raised

vars == <<accepted, settled, lost, runs, hand, raised>>

Attempts == [task : QueueTasks, attempts : 0..MaxRetries]

Earlier(e) == {f \in Attempts : f.task = e.task /\ f.attempts < e.attempts}

TasksOf(w) == {e.task : e \in hand[w]}

Init ==
  /\ accepted = {} /\ settled = {} /\ lost = {}
  /\ runs = [e \in Attempts |-> 0]
  /\ hand = [w \in QueueWorkers |-> {}]
  /\ raised = {}

Accept(t) ==
  /\ t \notin accepted
  /\ accepted' = accepted \cup {t}
  /\ UNCHANGED <<settled, lost, runs, hand, raised>>

\* An idle worker starts an attempt, once each one before it was started.
Start(w, e) ==
  /\ hand[w] = {}
  /\ e.task \in accepted
  /\ \A f \in Earlier(e) : runs[f] > 0
  /\ hand' = [hand EXCEPT ![w] = {e}]
  /\ runs' = [runs EXCEPT ![e] = @ + 1]
  /\ UNCHANGED <<accepted, settled, lost, raised>>

\* The attempt is over, and the worker idle.
Ends(w) ==
  /\ hand[w] # {}
  /\ hand' = [hand EXCEPT ![w] = {}]
  /\ raised' = raised \ {w}
  /\ UNCHANGED <<accepted, runs>>

Return(w) ==
  /\ w \notin raised
  /\ Ends(w)
  /\ settled' = settled \cup TasksOf(w)
  /\ UNCHANGED lost

Raise(w) ==
  /\ hand[w] # {} /\ w \notin raised
  /\ raised' = raised \cup {w}
  /\ UNCHANGED <<accepted, settled, lost, runs, hand>>

\* Another attempt is granted; it is started later, here or elsewhere.
Retry(w) ==
  /\ w \in raised
  /\ \A e \in hand[w] : e.attempts < MaxRetries
  /\ Ends(w)
  /\ UNCHANGED <<settled, lost>>

\* No task is given up before its last attempt.
GiveUp(w) ==
  /\ w \in raised
  /\ \A e \in hand[w] : e.attempts = MaxRetries
  /\ Ends(w)
  /\ settled' = settled \cup TasksOf(w)
  /\ UNCHANGED lost

Lose(w) ==
  /\ Ends(w)
  /\ lost' = lost \cup TasksOf(w)
  /\ UNCHANGED settled

Next ==
  \/ \E t \in QueueTasks : Accept(t)
  \/ \E w \in QueueWorkers : \/ \E e \in Attempts : Start(w, e)
                             \/ Return(w) \/ Raise(w) \/ Retry(w) \/ GiveUp(w) \/ Lose(w)

Spec == Init /\ [][Next]_vars

=============================================================================
