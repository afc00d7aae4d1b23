--------------------------- MODULE TaskQueueProofs ---------------------------
(***************************************************************************)
(* Proofs about the background queue for any tasks, any number of workers, *)
(* any number of retries and any number of faults: no accepted task        *)
(* vanishes between two Redis commands, and the queue implements           *)
(* TaskDelivery.                                                           *)
(***************************************************************************)
EXTENDS TaskQueue, FiniteSetTheorems, TLAPS

-----------------------------------------------------------------------------
(***************************************************************************)
(* The inductive invariant.  The hard moment is the ZREM of a drain: what  *)
(* it removes from the sorted set was pushed onto the list long before,    *)
(* and another worker may have popped it, run it and put its next attempt  *)
(* into the sorted set since, where a third drain may have read it.        *)
(***************************************************************************)
InList(e) == e \in ToSet(ready)
Held(e) == \E w \in QueueWorkers : e \in hand[w]

\* A drain that has pushed e is about to remove it.
BeingRemoved(e) == \E w \in QueueWorkers : queuePc[w] = "remove" /\ e \in batch[w]

\* The task is done with.
Over(t) == t \in settled \cup lost

Accounted(t) ==
  \/ Over(t)
  \/ \E f \in Envelopes : f.task = t /\ (InList(f) \/ Held(f) \/ f \in scheduled)

\* The task of e is done with, or e or a later attempt is on the list or in a
\* hand, or a later attempt waits in the sorted set where no drain removes it.
MovedOn(e) ==
  \/ Over(e.task)
  \/ \E f \in Envelopes :
       /\ f.task = e.task
       /\ \/ f.attempts >= e.attempts /\ (InList(f) \/ Held(f))
          \/ f.attempts > e.attempts /\ f \in scheduled /\ ~ BeingRemoved(f)

OneInHand == \A w \in QueueWorkers : \A e, f \in hand[w] : e = f
BatchesFinite == IsFiniteSet(due) /\ \A w \in QueueWorkers : IsFiniteSet(batch[w])
AllAccounted == \A t \in accepted : Accounted(t)
PushedMovesOn == \A e \in Envelopes : BeingRemoved(e) => MovedOn(e)

QueueTyped == QueueTypeOK /\ OneInHand /\ BatchesFinite
QueueIInv == QueueTyped /\ AllAccounted /\ PushedMovesOn

-----------------------------------------------------------------------------
(***************************************************************************)
(* The inductive invariant of a queue with one worker, which counts        *)
(* envelopes: every one in Redis or in the hand may start its own attempt  *)
(* and, by failing, each later one of its task.  A drain between its push  *)
(* and its ZREM has its batch twice in Redis, but only a fault lets it     *)
(* count twice.                                                            *)
(***************************************************************************)
CountIn(s, F) == Cardinality({i \in 1..Len(s) : s[i] \in F})
CountOf(S, F) == Cardinality(S \cap F)

OfTask(t) == {f \in Envelopes : f.task = t}
UpTo(e) == {f \in Envelopes : f.task = e.task /\ f.attempts <= e.attempts}
Before(e) == {f \in Envelopes : f.task = e.task /\ f.attempts < e.attempts}

Waiting(w) == IF queuePc[w] = "remove" THEN scheduled \ batch[w] ELSE scheduled
InRedis(w, F) == CountIn(ready, F) + CountOf(Waiting(w), F)

\* The starts of e there were, and those that what is under way can still cause.
Starts(w, e) == runs[e] + InRedis(w, UpTo(e)) + CountOf(hand[w], Before(e))
Copies(w, t) == InRedis(w, OfTask(t)) + CountOf(hand[w], OfTask(t))

DrainInOrder(w) ==
  /\ queuePc[w] = "push" => batch[w] \subseteq scheduled
  /\ queuePc[w] = "remove" =>
       \A F \in SUBSET Envelopes : CountOf(batch[w], F) <= CountIn(ready, F)

Untouched ==
  /\ settled \subseteq accepted
  /\ \A e \in Envelopes : e.task \notin accepted =>
       runs[e] = 0 /\ ~ InList(e) /\ ~ Held(e) /\ e \notin scheduled

StartsGranted(w) == \A e \in Envelopes : Starts(w, e) <= granted
NoFaultNoCopy(w) ==
  faults = 0 => \A t \in QueueTasks : /\ Copies(w, t) <= 1
                                      /\ t \in settled => Copies(w, t) = 0

LoneIInv(w) ==
  /\ QueueTyped /\ IsFiniteSet(scheduled)
  /\ DrainInOrder(w) /\ Untouched /\ StartsGranted(w) /\ NoFaultNoCopy(w)

-----------------------------------------------------------------------------
(***************************************************************************)
(* The sequences of the model.                                             *)
(***************************************************************************)
\* SetToSeq lists a finite set, all of it and nothing else.
LEMMA SetToSeqLists ==
  ASSUME NEW S, IsFiniteSet(S)
  PROVE  /\ SetToSeq(S) \in Seq(S) /\ ToSet(SetToSeq(S)) = S
         /\ \A i, j \in 1..Len(SetToSeq(S)) : SetToSeq(S)[i] = SetToSeq(S)[j] => i = j
  <1> DEFINE n == Cardinality(S)
  <1>1. n \in Nat /\ ExistsBijection(1..n, S)
    BY FS_CardinalityType
  <1>2. PICK g : g \in Bijection(1..n, S)
    BY <1>1 DEF ExistsBijection
  <1>3. g \in [1..n -> S] /\ IsInjective(g)
    BY <1>2 DEF Bijection, Injection
  <1>4. SetToSeq(S) \in [1..n -> S] /\ IsInjective(SetToSeq(S))
    BY <1>3 DEF SetToSeq
  <1>5. SetToSeq(S) \in Injection(1..n, S)
    BY <1>4 DEF Injection
  <1>6. IsFiniteSet(1..n) /\ Cardinality(1..n) = n
    BY <1>1, FS_Interval
  <1>7. SetToSeq(S) \in Surjection(1..n, S)
    BY <1>5, <1>6, FS_Injection
  <1>8. \A x \in S : \E i \in 1..n : SetToSeq(S)[i] = x
    BY <1>7 DEF Surjection
  <1>9. SetToSeq(S) \in Seq(S) /\ Len(SetToSeq(S)) = n
    BY <1>1, <1>4
  <1> QED BY <1>4, <1>8, <1>9 DEF ToSet, IsInjective

\* What is on a list after its operations.
LEMMA ListFacts ==
  ASSUME NEW S, NEW s \in Seq(S), NEW r \in Seq(S)
  PROVE  /\ \A x \in S : Append(s, x) \in Seq(S) /\ ToSet(Append(s, x)) = ToSet(s) \cup {x}
         /\ s \o r \in Seq(S) /\ ToSet(s \o r) = ToSet(s) \cup ToSet(r)
         /\ s # <<>> => /\ Head(s) \in S /\ Tail(s) \in Seq(S)
                        /\ ToSet(s) = {Head(s)} \cup ToSet(Tail(s))
         /\ ToSet(s) \subseteq S
  <1>1. ASSUME NEW x \in S
        PROVE  Append(s, x) \in Seq(S) /\ ToSet(Append(s, x)) = ToSet(s) \cup {x}
    <2>1. /\ Append(s, x) \in Seq(S) /\ Len(Append(s, x)) = Len(s) + 1
          /\ \A i \in 1..Len(s) : Append(s, x)[i] = s[i]
          /\ Append(s, x)[Len(s) + 1] = x
      OBVIOUS
    <2> QED BY <2>1 DEF ToSet
  <1>2. s \o r \in Seq(S) /\ ToSet(s \o r) = ToSet(s) \cup ToSet(r)
    <2>1. /\ s \o r \in Seq(S) /\ Len(s \o r) = Len(s) + Len(r)
          /\ \A i \in 1..Len(s) : (s \o r)[i] = s[i]
          /\ \A i \in 1..Len(r) : (s \o r)[Len(s) + i] = r[i]
          /\ \A i \in 1..Len(s \o r) : i \in 1..Len(s) \/ i - Len(s) \in 1..Len(r)
      OBVIOUS
    <2>2. ToSet(s \o r) \subseteq ToSet(s) \cup ToSet(r)
      <3> SUFFICES ASSUME NEW i \in 1..Len(s \o r)
                    PROVE  (s \o r)[i] \in ToSet(s) \cup ToSet(r)
        BY DEF ToSet
      <3>1. CASE i \in 1..Len(s)
        BY <2>1, <3>1 DEF ToSet
      <3>2. CASE i - Len(s) \in 1..Len(r)
        <4>1. (s \o r)[i] = r[i - Len(s)]
          BY <3>2
        <4> QED BY <3>2, <4>1 DEF ToSet
      <3> QED BY <2>1, <3>1, <3>2
    <2>3. ToSet(s) \subseteq ToSet(s \o r)
      BY <2>1 DEF ToSet
    <2>4. ToSet(r) \subseteq ToSet(s \o r)
      <3> SUFFICES ASSUME NEW i \in 1..Len(r)
                    PROVE  r[i] \in ToSet(s \o r)
        BY DEF ToSet
      <3>1. Len(s) + i \in 1..Len(s \o r) /\ (s \o r)[Len(s) + i] = r[i]
        BY <2>1
      <3> QED BY <3>1 DEF ToSet
    <2> QED BY <2>1, <2>2, <2>3, <2>4
  <1>3. s # <<>> => /\ Head(s) \in S /\ Tail(s) \in Seq(S)
                     /\ ToSet(s) = {Head(s)} \cup ToSet(Tail(s))
    <2> SUFFICES ASSUME s # <<>>
                  PROVE  /\ Head(s) \in S /\ Tail(s) \in Seq(S)
                         /\ ToSet(s) = {Head(s)} \cup ToSet(Tail(s))
      OBVIOUS
    <2>1. /\ Len(s) \in Nat /\ Len(s) >= 1 /\ Head(s) = s[1] /\ s[1] \in S
          /\ Tail(s) \in Seq(S) /\ Len(Tail(s)) = Len(s) - 1
          /\ \A i \in 1..Len(s) - 1 : Tail(s)[i] = s[i + 1]
      OBVIOUS
    <2>2. ToSet(s) \subseteq {Head(s)} \cup ToSet(Tail(s))
      <3> SUFFICES ASSUME NEW i \in 1..Len(s), i # 1
                    PROVE  s[i] \in ToSet(Tail(s))
        BY <2>1 DEF ToSet
      <3>1. i - 1 \in 1..Len(Tail(s)) /\ Tail(s)[i - 1] = s[i]
        BY <2>1
      <3>2. \A k \in 1..Len(Tail(s)) : Tail(s)[k] \in ToSet(Tail(s))
        <4> DEFINE r0 == Tail(s)
        <4>1. r0 \in Seq(S)
          BY <2>1
        <4> HIDE DEF r0
        <4>2. \A k \in 1..Len(r0) : r0[k] \in ToSet(r0)
          BY <4>1 DEF ToSet
        <4> QED BY <4>2 DEF r0
      <3> QED BY <3>1, <3>2
    <2>3. ToSet(Tail(s)) \subseteq ToSet(s) /\ Head(s) \in ToSet(s)
      <3>1. \A i \in 1..Len(Tail(s)) : i + 1 \in 1..Len(s) /\ Tail(s)[i] = s[i + 1]
        BY <2>1
      <3>2. 1 \in 1..Len(s)
        BY <2>1
      <3> QED BY <2>1, <3>1, <3>2 DEF ToSet
    <2> QED BY <2>1, <2>2, <2>3
  <1>4. ToSet(s) \subseteq S
    BY DEF ToSet
  <1> QED BY <1>1, <1>2, <1>3, <1>4

-----------------------------------------------------------------------------
(***************************************************************************)
(* Types.                                                                  *)
(***************************************************************************)
LEMMA EnvelopeFacts ==
  ASSUME NEW e \in Envelopes
  PROVE  e.task \in QueueTasks /\ e.attempts \in 0..MaxRetries
  BY DEF Envelopes

\* A first attempt is an envelope of its task.
LEMMA FreshFacts ==
  ASSUME NEW t \in QueueTasks
  PROVE  Fresh(t) \in Envelopes /\ Fresh(t).task = t
  BY MaxRetriesAssumption DEF Fresh, Envelopes

\* The envelope of the next attempt.
NextOf(e) == [e EXCEPT !.attempts = @ + 1]

\* So is the next attempt, which counts one more.
LEMMA NextFacts ==
  ASSUME NEW e \in Envelopes, ~ Exhausted(e)
  PROVE  /\ NextOf(e) \in Envelopes /\ NextOf(e).task = e.task
         /\ NextOf(e).attempts = e.attempts + 1
  BY MaxRetriesAssumption DEF Envelopes, Exhausted, NextOf

\* What Requeue does with the envelope in the hand.
Requeued(e) ==
  IF Exhausted(e)
  THEN settled' = settled \cup {e.task} /\ UNCHANGED redis
  ELSE /\ scheduled' = scheduled \cup {NextOf(e)}
       /\ due' = due \ {NextOf(e)}
       /\ UNCHANGED <<ready, settled>>

\* What a worker holds.
LEMMA HandFacts ==
  ASSUME QueueTypeOK, NEW w \in QueueWorkers
  PROVE  /\ hand[w] \subseteq Envelopes
         /\ InHand(w) \subseteq QueueTasks
         /\ \A e \in hand[w] : e.task \in InHand(w)
  <1>1. hand[w] \subseteq Envelopes
    BY DEF QueueTypeOK
  <1> QED BY <1>1, EnvelopeFacts DEF InHand

\* Requeue does that to the envelope in the hand.
LEMMA RequeueFacts ==
  ASSUME QueueTypeOK, NEW w \in QueueWorkers, Requeue(w)
  PROVE  \E e \in hand[w] : e \in Envelopes /\ Requeued(e)
  BY HandFacts DEF Requeue, Requeued, NextOf

\* The types hold at first.
LEMMA QueueTypedInit == QueueInit => QueueTyped
  BY FS_EmptySet, MaxFaultsAssumption
  DEF QueueInit, QueueTyped, QueueTypeOK, OneInHand, BatchesFinite, QueuePhases

\* Every step keeps the types.
LEMMA QueueTypedStep ==
  ASSUME QueueTyped, [QueueNext]_queueVars
  PROVE  QueueTyped'
  <1> USE DEF QueueTyped, tally
  <1>1. ASSUME NEW t \in QueueTasks, NEW delayed \in BOOLEAN, Submit(t, delayed)
        PROVE  QueueTyped'
    <2>1. Fresh(t) \in Envelopes /\ Append(ready, Fresh(t)) \in Seq(Envelopes)
      BY FreshFacts DEF QueueTypeOK
    <2>2. QueueTypeOK'
      BY <1>1, <2>1 DEF Submit, QueueTypeOK, local
    <2> QED BY <1>1, <2>2 DEF Submit, OneInHand, BatchesFinite, local
  <1>2. ASSUME NEW e \in Envelopes, ComesDue(e)
        PROVE  QueueTyped'
    <2>1. QueueTypeOK'
      BY <1>2 DEF ComesDue, QueueTypeOK, local, history
    <2>2. IsFiniteSet(due')
      BY <1>2, FS_AddElement DEF ComesDue, BatchesFinite
    <2> QED BY <1>2, <2>1, <2>2 DEF ComesDue, OneInHand, BatchesFinite, local
  <1>3. ASSUME NEW w \in QueueWorkers, ReadDue(w)
        PROVE  QueueTyped'
    <2>1. QueueTypeOK'
      BY <1>3 DEF ReadDue, Goto, QueueTypeOK, redis, history, QueuePhases
    <2> QED BY <1>3, <2>1 DEF ReadDue, OneInHand, BatchesFinite, redis, QueueTypeOK
  <1>4. ASSUME NEW w \in QueueWorkers, PushBatch(w)
        PROVE  QueueTyped'
    <2>1. SetToSeq(batch[w]) \in Seq(batch[w]) /\ batch[w] \subseteq Envelopes
      BY SetToSeqLists DEF BatchesFinite, QueueTypeOK
    <2>2. SetToSeq(batch[w]) \in Seq(Envelopes)
      BY <2>1
    <2>3. ready' \in Seq(Envelopes)
      BY <1>4, <2>2 DEF PushBatch, QueueTypeOK
    <2>4. QueueTypeOK'
      BY <1>4, <2>3 DEF PushBatch, Goto, QueueTypeOK, history, QueuePhases
    <2> QED BY <1>4, <2>4 DEF PushBatch, OneInHand, BatchesFinite
  <1>5. ASSUME NEW w \in QueueWorkers, RemoveBatch(w)
        PROVE  QueueTyped'
    <2>1. QueueTypeOK'
      BY <1>5 DEF RemoveBatch, Goto, QueueTypeOK, history, QueuePhases
    <2>2. IsFiniteSet(due') /\ IsFiniteSet({})
      BY <1>5, FS_Subset, FS_EmptySet DEF RemoveBatch, BatchesFinite
    <2> QED BY <1>5, <2>1, <2>2 DEF RemoveBatch, OneInHand, BatchesFinite, QueueTypeOK
  <1>6. ASSUME NEW w \in QueueWorkers, Pop(w)
        PROVE  QueueTyped'
    <2>1. Head(ready) \in Envelopes /\ Tail(ready) \in Seq(Envelopes)
      BY <1>6, ListFacts DEF Pop, QueueTypeOK
    <2>2. QueueTypeOK'
      BY <1>6, <2>1 DEF Pop, Goto, QueueTypeOK, QueuePhases
    <2> QED BY <1>6, <2>2 DEF Pop, OneInHand, BatchesFinite, QueueTypeOK
  <1>7. ASSUME NEW w \in QueueWorkers, PopTimesOut(w)
        PROVE  QueueTyped'
    BY <1>7 DEF PopTimesOut, Goto, QueueTypeOK, OneInHand, BatchesFinite, redis, history, QueuePhases
  <1>8. ASSUME NEW w \in QueueWorkers, HandlerReturns(w)
        PROVE  QueueTyped'
    <2>1. InHand(w) \subseteq QueueTasks
      BY HandFacts
    <2>2. QueueTypeOK'
      BY <1>8, <2>1 DEF HandlerReturns, Goto, QueueTypeOK, redis, QueuePhases
    <2> QED BY <1>8, <2>2 DEF HandlerReturns, OneInHand, BatchesFinite, QueueTypeOK, redis
  <1>9. ASSUME NEW w \in QueueWorkers, HandlerRaises(w)
        PROVE  QueueTyped'
    BY <1>9 DEF HandlerRaises, Goto, QueueTypeOK, OneInHand, BatchesFinite, redis, history, QueuePhases
  <1>10. ASSUME NEW w \in QueueWorkers, Requeue(w)
         PROVE  QueueTyped'
    <2>1. PICK e \in hand[w] : e \in Envelopes /\ Requeued(e)
      BY <1>10, RequeueFacts
    <2>2. e.task \in QueueTasks
      BY <2>1, EnvelopeFacts
    <2>3. /\ ready' \in Seq(Envelopes) /\ due' \subseteq scheduled' /\ scheduled' \subseteq Envelopes
          /\ settled' \subseteq QueueTasks /\ due' \subseteq due
      BY <2>1, <2>2, NextFacts DEF QueueTypeOK, redis, Requeued
    <2>4. IsFiniteSet(due')
      BY <2>3, FS_Subset DEF BatchesFinite
    <2>5. QueueTypeOK'
      BY <1>10, <2>3 DEF Requeue, Goto, QueueTypeOK, QueuePhases
    <2> QED BY <1>10, <2>4, <2>5 DEF Requeue, OneInHand, BatchesFinite, QueueTypeOK
  <1>11. ASSUME NEW w \in QueueWorkers, Fault(w)
         PROVE  QueueTyped'
    <2>1. InHand(w) \subseteq QueueTasks
      BY HandFacts
    <2>2. QueueTypeOK'
      BY <1>11, <2>1, MaxFaultsAssumption DEF Fault, Goto, QueueTypeOK, redis, QueuePhases
    <2> QED BY <1>11, <2>2, FS_EmptySet DEF Fault, OneInHand, BatchesFinite, QueueTypeOK, redis
  <1>12. CASE UNCHANGED queueVars
    BY <1>12 DEF queueVars, redis, local, history, QueueTypeOK, OneInHand, BatchesFinite
  <1> QED BY <1>1, <1>2, <1>3, <1>4, <1>5, <1>6, <1>7, <1>8, <1>9, <1>10, <1>11, <1>12
          DEF QueueNext, Work

-----------------------------------------------------------------------------
(***************************************************************************)
(* Where a task is.                                                        *)
(***************************************************************************)
LEMMA MovedOnIsAccounted ==
  ASSUME NEW e \in Envelopes, MovedOn(e)
  PROVE  Accounted(e.task)
  BY DEF MovedOn, Accounted

\* After a step, a later attempt that moved on carries the earlier ones with it.
LEMMA LaterMovesOn ==
  ASSUME NEW e \in Envelopes, NEW f \in Envelopes, f.task = e.task, f.attempts >= e.attempts,
         MovedOn(f)'
  PROVE  MovedOn(e)'
  <1>1. CASE Over(f.task)'
    BY <1>1 DEF MovedOn
  <1>2. ASSUME NEW g \in Envelopes, g.task = f.task,
               \/ g.attempts >= f.attempts /\ (InList(g)' \/ Held(g)')
               \/ g.attempts > f.attempts /\ g \in scheduled' /\ ~ BeingRemoved(g)'
        PROVE  MovedOn(e)'
    <2>1. e.attempts \in Int /\ f.attempts \in Int /\ g.attempts \in Int
      BY EnvelopeFacts
    <2> QED BY <1>2, <2>1 DEF MovedOn
  <1> QED BY <1>1, <1>2 DEF MovedOn

\* What is on the list or in a hand after a step, or over, has moved on.
LEMMA ListedMovedOn ==
  ASSUME NEW e \in Envelopes, InList(e)' \/ Held(e)' \/ Over(e.task)'
  PROVE  MovedOn(e)'
  <1>1. e.attempts \in Int
    BY EnvelopeFacts
  <1> QED BY <1>1 DEF MovedOn

\* A step that keeps what is over, moves on what was on the list or in a hand,
\* and what no drain was removing.
Carries ==
  /\ \A t \in QueueTasks : Over(t) => Over(t)'
  /\ \A e \in Envelopes : InList(e) \/ Held(e) => MovedOn(e)'
  /\ \A e \in Envelopes : e \in scheduled /\ ~ BeingRemoved(e)
                            => MovedOn(e)' \/ (e \in scheduled /\ ~ BeingRemoved(e))'

\* What has moved on stays so through a step that carries every envelope on.
LEMMA Carried ==
  ASSUME Carries, NEW e \in Envelopes, MovedOn(e)
  PROVE  MovedOn(e)'
  <1>1. CASE Over(e.task)
    BY <1>1, EnvelopeFacts DEF Carries, MovedOn
  <1>2. ASSUME NEW f \in Envelopes, f.task = e.task,
               \/ f.attempts >= e.attempts /\ (InList(f) \/ Held(f))
               \/ f.attempts > e.attempts /\ f \in scheduled /\ ~ BeingRemoved(f)
        PROVE  MovedOn(e)'
    <2>1. e.attempts \in Int /\ f.attempts \in Int /\ f.attempts >= e.attempts
      BY <1>2, EnvelopeFacts
    <2>2. CASE MovedOn(f)'
      BY <1>2, <2>1, <2>2, LaterMovesOn
    <2>3. CASE f.attempts > e.attempts /\ (f \in scheduled /\ ~ BeingRemoved(f))'
      BY <1>2, <2>3 DEF MovedOn
    <2> QED BY <1>2, <2>2, <2>3 DEF Carries
  <1> QED BY <1>1, <1>2 DEF MovedOn

\* Such a step keeps the accounts, if what leaves the sorted set has moved on and
\* so has what a drain is now about to remove.
LEMMA AccountsKept ==
  ASSUME QueueTyped, AllAccounted, PushedMovesOn, Carries,
         \A e \in scheduled : e \in scheduled' \/ MovedOn(e)',
         \A e \in Envelopes : BeingRemoved(e)' => BeingRemoved(e) \/ MovedOn(e)',
         \A t \in accepted' : t \in accepted \/ Accounted(t)'
  PROVE  AllAccounted' /\ PushedMovesOn'
  <1>1. ASSUME NEW t \in accepted'
        PROVE  Accounted(t)'
    <2>1. CASE t \in accepted
      <3>1. Accounted(t) /\ t \in QueueTasks
        BY <2>1 DEF AllAccounted, QueueTyped, QueueTypeOK
      <3>2. CASE Over(t)
        BY <3>1, <3>2 DEF Carries, Accounted
      <3>3. ASSUME NEW f \in Envelopes, f.task = t, InList(f) \/ Held(f) \/ f \in scheduled
            PROVE  Accounted(t)'
        <4>1. MovedOn(f)' \/ f \in scheduled'
          BY <3>3 DEF Carries
        <4>2. CASE MovedOn(f)'
          BY <3>3, <4>2 DEF MovedOn, Accounted
        <4>3. CASE f \in scheduled'
          BY <3>3, <4>3 DEF Accounted
        <4> QED BY <4>1, <4>2, <4>3
      <3> QED BY <3>1, <3>2, <3>3 DEF Accounted
    <2> QED BY <2>1
  <1>2. ASSUME NEW e \in Envelopes, BeingRemoved(e)'
        PROVE  MovedOn(e)'
    BY <1>2, Carried DEF PushedMovesOn
  <1> QED BY <1>1, <1>2 DEF AllAccounted, PushedMovesOn

\* The actions that remove nothing from the sorted set.
LEMMA NothingRemoved ==
  ASSUME QueueIInv, scheduled \subseteq scheduled',
         \A t \in QueueTasks : Over(t) => Over(t)',
         \A e \in Envelopes : InList(e) \/ Held(e) => InList(e)' \/ Held(e)' \/ Over(e.task)',
         \A e \in Envelopes : BeingRemoved(e)' => BeingRemoved(e) \/ InList(e)',
         \A t \in accepted' : t \in accepted \/ Accounted(t)'
  PROVE  AllAccounted' /\ PushedMovesOn'
  <1>1. \A e \in Envelopes : InList(e)' \/ Held(e)' \/ Over(e.task)' => MovedOn(e)'
    BY ListedMovedOn
  <1>2. Carries
    BY <1>1 DEF Carries
  <1> QED BY <1>1, <1>2, AccountsKept DEF QueueIInv

\* Every step keeps the account of every accepted task.
LEMMA AccountsStep ==
  ASSUME QueueIInv, QueueNext
  PROVE  AllAccounted' /\ PushedMovesOn'
  <1> QueueTyped /\ QueueTypeOK
    BY DEF QueueIInv, QueueTyped
  <1>1. ASSUME NEW t \in QueueTasks, NEW delayed \in BOOLEAN, Submit(t, delayed)
        PROVE  AllAccounted' /\ PushedMovesOn'
    <2>1. Fresh(t) \in Envelopes /\ Fresh(t).task = t
      BY FreshFacts
    <2>2. ToSet(Append(ready, Fresh(t))) = ToSet(ready) \cup {Fresh(t)}
      BY <2>1, ListFacts DEF QueueTypeOK
    <2>3. Accounted(t)'
      BY <1>1, <2>1, <2>2 DEF Submit, Accounted, InList
    <2>4. \A e \in Envelopes : InList(e) => InList(e)'
      BY <1>1, <2>2 DEF Submit, InList
    <2> QED BY <1>1, <2>3, <2>4, NothingRemoved DEF Submit, local, Over, Held, BeingRemoved
  <1>2. ASSUME NEW d \in Envelopes, ComesDue(d)
        PROVE  AllAccounted' /\ PushedMovesOn'
    BY <1>2, NothingRemoved DEF ComesDue, local, history, Over, Held, BeingRemoved, InList
  <1>3. ASSUME NEW w \in QueueWorkers, ReadDue(w)
        PROVE  AllAccounted' /\ PushedMovesOn'
    <2>1. \A e \in Envelopes : BeingRemoved(e)' => BeingRemoved(e)
      BY <1>3 DEF ReadDue, Goto, BeingRemoved, QueueTypeOK
    <2> QED BY <1>3, <2>1, NothingRemoved DEF ReadDue, redis, history, Over, Held, InList
  <1>4. ASSUME NEW w \in QueueWorkers, PushBatch(w)
        PROVE  AllAccounted' /\ PushedMovesOn'
    <2>1. /\ SetToSeq(batch[w]) \in Seq(batch[w]) /\ ToSet(SetToSeq(batch[w])) = batch[w]
          /\ batch[w] \subseteq Envelopes
      BY SetToSeqLists DEF QueueTyped, BatchesFinite, QueueTypeOK
    <2>2. SetToSeq(batch[w]) \in Seq(Envelopes)
      BY <2>1
    <2>3. ToSet(ready') = ToSet(ready) \cup batch[w]
      <3>1. PICK r \in Seq(Envelopes) : r = SetToSeq(batch[w])
        BY <2>2
      <3>2. ready \in Seq(Envelopes)
        BY DEF QueueTypeOK
      <3>3. ToSet(ready \o r) = ToSet(ready) \cup ToSet(r)
        BY <3>1, <3>2, ListFacts
      <3>4. ready' = ready \o r
        BY <1>4, <3>1 DEF PushBatch
      <3> QED BY <2>1, <3>1, <3>3, <3>4
    <2>4. \A e \in Envelopes : BeingRemoved(e)' => BeingRemoved(e) \/ InList(e)'
      BY <1>4, <2>3 DEF PushBatch, Goto, BeingRemoved, QueueTypeOK, InList
    <2> QED BY <1>4, <2>3, <2>4, NothingRemoved DEF PushBatch, history, Over, Held, InList
  <1>5. ASSUME NEW w \in QueueWorkers, RemoveBatch(w)
        PROVE  AllAccounted' /\ PushedMovesOn'
    <2>1. \A e \in Envelopes : BeingRemoved(e)' => BeingRemoved(e)
      BY <1>5 DEF RemoveBatch, Goto, BeingRemoved, QueueTypeOK
    <2>2. \A e \in Envelopes : e \in scheduled /\ ~ BeingRemoved(e) => e \in scheduled'
      BY <1>5 DEF RemoveBatch, BeingRemoved
    <2>3. \A e \in Envelopes : InList(e)' \/ Held(e)' \/ Over(e.task)' => MovedOn(e)'
      BY ListedMovedOn
    <2>4. Carries
      BY <1>5, <2>1, <2>2, <2>3 DEF RemoveBatch, history, Carries, Over, Held, InList
    <2>5. ASSUME NEW e \in scheduled, e \notin scheduled'
          PROVE  MovedOn(e)'
      <3>1. e \in Envelopes
        BY DEF QueueTypeOK
      <3>2. BeingRemoved(e)
        BY <2>2, <2>5, <3>1
      <3>3. MovedOn(e)
        BY <3>1, <3>2 DEF QueueIInv, PushedMovesOn
      <3> QED BY <2>4, <3>1, <3>3, Carried
    <2>6. accepted' = accepted
      BY <1>5 DEF RemoveBatch, history
    <2> QED BY <2>1, <2>4, <2>5, <2>6, AccountsKept DEF QueueIInv
  <1>6. ASSUME NEW w \in QueueWorkers, Pop(w)
        PROVE  AllAccounted' /\ PushedMovesOn'
    <2>1. ToSet(ready) = {Head(ready)} \cup ToSet(ready') /\ Head(ready) \in hand'[w]
      BY <1>6, ListFacts DEF Pop, QueueTypeOK
    <2>2. hand[w] = {}
      BY <1>6 DEF Pop, QueueTypeOK
    <2>3. \A e \in Envelopes : InList(e) \/ Held(e) => InList(e)' \/ Held(e)'
      BY <1>6, <2>1, <2>2 DEF Pop, InList, Held, QueueTypeOK
    <2>4. \A e \in Envelopes : BeingRemoved(e)' => BeingRemoved(e)
      BY <1>6 DEF Pop, Goto, BeingRemoved, QueueTypeOK
    <2> QED BY <1>6, <2>3, <2>4, NothingRemoved DEF Pop, Over
  <1>7. ASSUME NEW w \in QueueWorkers, PopTimesOut(w)
        PROVE  AllAccounted' /\ PushedMovesOn'
    <2>1. \A e \in Envelopes : BeingRemoved(e)' => BeingRemoved(e)
      BY <1>7 DEF PopTimesOut, Goto, BeingRemoved, QueueTypeOK
    <2> QED BY <1>7, <2>1, NothingRemoved DEF PopTimesOut, redis, history, Over, Held, InList
  <1>8. ASSUME NEW w \in QueueWorkers, HandlerReturns(w)
        PROVE  AllAccounted' /\ PushedMovesOn'
    <2>1. \A e \in Envelopes : BeingRemoved(e)' => BeingRemoved(e)
      BY <1>8 DEF HandlerReturns, Goto, BeingRemoved, QueueTypeOK
    <2>2. \A e \in Envelopes : Held(e) => Held(e)' \/ Over(e.task)'
      BY <1>8, HandFacts DEF HandlerReturns, Held, Over, QueueTypeOK
    <2> QED BY <1>8, <2>1, <2>2, NothingRemoved DEF HandlerReturns, redis, Over, InList
  <1>9. ASSUME NEW w \in QueueWorkers, HandlerRaises(w)
        PROVE  AllAccounted' /\ PushedMovesOn'
    <2>1. \A e \in Envelopes : BeingRemoved(e)' => BeingRemoved(e)
      BY <1>9 DEF HandlerRaises, Goto, BeingRemoved, QueueTypeOK
    <2> QED BY <1>9, <2>1, NothingRemoved DEF HandlerRaises, redis, history, Over, Held, InList
  <1>10. ASSUME NEW w \in QueueWorkers, Requeue(w)
         PROVE  AllAccounted' /\ PushedMovesOn'
    <2>1. PICK e \in hand[w] : e \in Envelopes /\ Requeued(e)
      BY <1>10, RequeueFacts
    <2>2. \A d \in Envelopes : BeingRemoved(d)' <=> BeingRemoved(d)
      BY <1>10 DEF Requeue, Goto, BeingRemoved, QueueTypeOK
    <2>3. \A d \in Envelopes : Held(d) => Held(d)' \/ d = e
      BY <1>10, <2>1 DEF Requeue, Held, QueueTypeOK, QueueTyped, OneInHand
    <2>4. scheduled \subseteq scheduled' /\ ready' = ready /\ settled \subseteq settled'
      BY <2>1 DEF Requeued, redis
    <2>5. lost' = lost /\ accepted' = accepted
      BY <1>10 DEF Requeue
    <2>6. CASE Exhausted(e)
      <3>1. Over(e.task)'
        BY <2>1, <2>6 DEF Requeued, Over
      <3> QED BY <2>2, <2>3, <2>4, <2>5, <3>1, NothingRemoved DEF Over, InList
    <2>7. CASE ~ Exhausted(e)
      <3>1. PICK n \in Envelopes : n = NextOf(e) /\ n.task = e.task /\ n.attempts = e.attempts + 1
        BY <2>1, <2>7, NextFacts
      <3>2. n \in scheduled'
        BY <2>1, <2>7, <3>1 DEF Requeued
      <3>3. e.attempts \in Int /\ n.attempts \in Int /\ n.attempts > e.attempts
        BY <2>1, <3>1, EnvelopeFacts
      <3>4. MovedOn(e)'
        <4>1. CASE ~ BeingRemoved(n)
          BY <2>2, <3>1, <3>2, <3>3, <4>1 DEF MovedOn
        <4>2. CASE BeingRemoved(n)
          <5>1. MovedOn(n)
            BY <4>2 DEF QueueIInv, PushedMovesOn
          <5>2. CASE Over(n.task)
            BY <2>4, <2>5, <3>1, <5>2 DEF Over, MovedOn
          <5>3. ASSUME NEW g \in Envelopes, g.task = n.task,
                       \/ g.attempts >= n.attempts /\ (InList(g) \/ Held(g))
                       \/ g.attempts > n.attempts /\ g \in scheduled /\ ~ BeingRemoved(g)
                PROVE  MovedOn(e)'
            <6>1. g.attempts \in Int /\ g.attempts > e.attempts /\ g # e
              BY <3>3, <5>3, EnvelopeFacts
            <6>2. InList(g)' \/ Held(g)' \/ (g \in scheduled' /\ ~ BeingRemoved(g)')
              BY <2>2, <2>3, <2>4, <5>3, <6>1 DEF InList
            <6> QED BY <3>1, <3>3, <5>3, <6>1, <6>2 DEF MovedOn
          <5> QED BY <5>1, <5>2, <5>3 DEF MovedOn
        <4> QED BY <4>1, <4>2
      <3>5. \A d \in Envelopes : InList(d)' \/ Held(d)' \/ Over(d.task)' => MovedOn(d)'
        BY ListedMovedOn
      <3>6. Carries
        BY <2>2, <2>3, <2>4, <2>5, <3>4, <3>5 DEF Carries, Over, InList
      <3> QED BY <2>2, <2>4, <2>5, <3>6, AccountsKept DEF QueueIInv
    <2> QED BY <2>6, <2>7
  <1>11. ASSUME NEW w \in QueueWorkers, Fault(w)
         PROVE  AllAccounted' /\ PushedMovesOn'
    <2>1. \A e \in Envelopes : BeingRemoved(e)' => BeingRemoved(e)
      BY <1>11 DEF Fault, Goto, BeingRemoved, QueueTypeOK
    <2>2. \A e \in Envelopes : Held(e) => Held(e)' \/ Over(e.task)'
      BY <1>11, HandFacts DEF Fault, Held, Over, QueueTypeOK
    <2> QED BY <1>11, <2>1, <2>2, NothingRemoved DEF Fault, redis, Over, InList
  <1> QED BY <1>1, <1>2, <1>3, <1>4, <1>5, <1>6, <1>7, <1>8, <1>9, <1>10, <1>11
          DEF QueueNext, Work

-----------------------------------------------------------------------------
(***************************************************************************)
(* The theorems.                                                           *)
(***************************************************************************)
LEMMA QueueInvariant == QueueSpec => []QueueIInv
  <1>1. QueueInit => QueueIInv
    <2> SUFFICES ASSUME QueueInit PROVE QueueIInv
      OBVIOUS
    <2> QED BY QueueTypedInit DEF QueueInit, QueueIInv, AllAccounted, PushedMovesOn, BeingRemoved
  <1>2. QueueIInv /\ [QueueNext]_queueVars => QueueIInv'
    <2> SUFFICES ASSUME QueueIInv, [QueueNext]_queueVars
                  PROVE  QueueIInv'
      OBVIOUS
    <2>1. QueueTyped'
      BY QueueTypedStep DEF QueueIInv
    <2>2. CASE QueueNext
      BY <2>1, <2>2, AccountsStep DEF QueueIInv
    <2>3. CASE UNCHANGED queueVars
      BY <2>1, <2>3 DEF queueVars, redis, local, history, QueueIInv, AllAccounted, PushedMovesOn,
                        Accounted, MovedOn, BeingRemoved, InList, Held, Over
    <2> QED BY <2>2, <2>3
  <1> QED BY <1>1, <1>2, PTL DEF QueueSpec

\* The queue, the workers and the histories keep their types: in particular no
\* envelope carries more attempts than the worker grants, however often a fault or
\* the race of two drains duplicates it.
THEOREM QueueKeepsTypes == QueueSpec => []QueueTypeOK
  <1>1. QueueIInv => QueueTypeOK
    BY DEF QueueIInv, QueueTyped
  <1> QED BY <1>1, QueueInvariant, PTL

\* However many workers drain, pop and requeue at once, wherever Redis raises or a
\* worker dies, an accepted task is in Redis or in a hand until it is settled or
\* a fault took it from a hand.
THEOREM TasksNeverVanish == QueueSpec => []NothingVanishes
  <1>1. QueueIInv => NothingVanishes
    <2> SUFFICES ASSUME QueueIInv, NEW t \in accepted,
                        t \notin settled, t \notin lost
                  PROVE  t \in Queued \cup UNION {InHand(w) : w \in QueueWorkers}
      BY DEF NothingVanishes
    <2>1. Accounted(t) /\ ~ Over(t)
      BY DEF QueueIInv, AllAccounted, Over
    <2>2. PICK f \in Envelopes : f.task = t /\ (InList(f) \/ Held(f) \/ f \in scheduled)
      BY <2>1 DEF Accounted
    <2>3. CASE Held(f)
      BY <2>2, <2>3, HandFacts DEF Held, QueueIInv, QueueTyped
    <2>4. CASE InList(f) \/ f \in scheduled
      BY <2>2, <2>4 DEF InList, Queued
    <2> QED BY <2>2, <2>3, <2>4
  <1> QED BY <1>1, QueueInvariant, PTL

-----------------------------------------------------------------------------
(***************************************************************************)
(* Counting.                                                               *)
(***************************************************************************)
LEMMA CountOfFacts ==
  ASSUME NEW S, IsFiniteSet(S), NEW F
  PROVE  /\ IsFiniteSet(S \cap F) /\ CountOf(S, F) \in Nat
         /\ CountOf(S, F) = 0 <=> S \cap F = {}
  BY FS_Subset, FS_CardinalityType, FS_EmptySet DEF CountOf

\* One element more.
LEMMA CountOfAdded ==
  ASSUME NEW S, IsFiniteSet(S), NEW x, NEW F
  PROVE  /\ CountOf(S \cup {x}, F) >= CountOf(S, F)
         /\ CountOf(S \cup {x}, F) <= CountOf(S, F) + 1
         /\ x \notin F => CountOf(S \cup {x}, F) = CountOf(S, F)
  <1>1. IsFiniteSet(S \cap F) /\ CountOf(S, F) \in Nat
    BY CountOfFacts
  <1>2. CASE x \in F
    <2>1. (S \cup {x}) \cap F = (S \cap F) \cup {x}
      BY <1>2
    <2>2. CountOf(S \cup {x}, F) = IF x \in S \cap F THEN CountOf(S, F) ELSE CountOf(S, F) + 1
      BY <1>1, <2>1, FS_AddElement DEF CountOf
    <2> QED BY <1>1, <1>2, <2>2
  <1>3. CASE x \notin F
    <2>1. (S \cup {x}) \cap F = S \cap F
      BY <1>3
    <2>2. CountOf(S \cup {x}, F) = CountOf(S, F)
      BY <2>1 DEF CountOf
    <2> QED BY <1>1, <2>2
  <1> QED BY <1>2, <1>3

\* Counting nothing.
LEMMA CountOfNone == \A F : CountOf({}, F) = 0
  BY FS_EmptySet DEF CountOf

\* Counting one element.
LEMMA CountOfSingle ==
  ASSUME NEW x, NEW F
  PROVE  CountOf({x}, F) = IF x \in F THEN 1 ELSE 0
  <1>1. CASE x \in F
    <2>1. {x} \cap F = {x}
      BY <1>1
    <2> QED BY <1>1, <2>1, FS_Singleton DEF CountOf
  <1>2. CASE x \notin F
    <2>1. {x} \cap F = {}
      BY <1>2
    <2> QED BY <1>2, <2>1, FS_EmptySet DEF CountOf
  <1> QED BY <1>1, <1>2

\* A part and the rest.
LEMMA CountOfSplit ==
  ASSUME NEW S, NEW L, NEW R, IsFiniteSet(S), S = L \cup R, L \cap R = {}, NEW F
  PROVE  /\ CountOf(S, F) = CountOf(L, F) + CountOf(R, F)
         /\ CountOf(L, F) \in Nat /\ CountOf(R, F) \in Nat
  <1>1. IsFiniteSet(L) /\ IsFiniteSet(R)
    BY FS_Subset
  <1> DEFINE A == L \cap F
             B == R \cap F
  <1>2. IsFiniteSet(A) /\ IsFiniteSet(B) /\ Cardinality(A) \in Nat /\ Cardinality(B) \in Nat
    BY <1>1, CountOfFacts DEF CountOf
  <1>3. A \cup B = S \cap F /\ A \cap B = {}
    OBVIOUS
  <1>4. Cardinality(A \cup B) = Cardinality(A) + Cardinality(B) - Cardinality(A \cap B)
    BY <1>2, FS_Union
  <1>5. Cardinality(A \cap B) = 0
    BY <1>3, FS_EmptySet
  <1>6. CountOf(S, F) = Cardinality(A \cup B)
    BY <1>3 DEF CountOf
  <1>7. CountOf(L, F) = Cardinality(A) /\ CountOf(R, F) = Cardinality(B)
    BY DEF CountOf
  <1> HIDE DEF A, B
  <1> QED BY <1>2, <1>4, <1>5, <1>6, <1>7

\* Fewer elements count for less.
LEMMA CountOfSubset ==
  ASSUME NEW S, NEW T, IsFiniteSet(T), S \subseteq T, NEW F
  PROVE  IsFiniteSet(S) /\ CountOf(S, F) <= CountOf(T, F)
  <1>1. IsFiniteSet(T \cap F) /\ (S \cap F) \subseteq (T \cap F)
    BY CountOfFacts
  <1>2. Cardinality(S \cap F) <= Cardinality(T \cap F)
    BY <1>1, FS_Subset
  <1> QED BY <1>2, FS_Subset DEF CountOf

\* Two sets that cover a third count at least as much.
LEMMA CountOfCover ==
  ASSUME NEW S, NEW L, NEW R, IsFiniteSet(L), IsFiniteSet(R), S \subseteq L \cup R, NEW F
  PROVE  CountOf(S, F) <= CountOf(L, F) + CountOf(R, F)
  <1> DEFINE A == L \cap F
             B == R \cap F
             C == S \cap F
  <1>1. /\ IsFiniteSet(A) /\ IsFiniteSet(B) /\ Cardinality(A) \in Nat /\ Cardinality(B) \in Nat
    BY CountOfFacts DEF CountOf
  <1>2. C \subseteq A \cup B
    OBVIOUS
  <1>3. /\ CountOf(S, F) = Cardinality(C) /\ CountOf(L, F) = Cardinality(A)
        /\ CountOf(R, F) = Cardinality(B)
    BY DEF CountOf
  <1> HIDE DEF A, B, C
  <1>4. /\ IsFiniteSet(A \cup B)
        /\ Cardinality(A \cup B) = Cardinality(A) + Cardinality(B) - Cardinality(A \cap B)
    BY <1>1, FS_Union
  <1>5. IsFiniteSet(A \cap B) /\ Cardinality(A \cap B) \in Nat
    BY <1>1, FS_Subset, FS_CardinalityType
  <1>6. /\ IsFiniteSet(C) /\ Cardinality(C) <= Cardinality(A \cup B)
    BY <1>2, <1>4, FS_Subset
  <1>7. Cardinality(C) \in Nat /\ Cardinality(A \cup B) \in Nat
    BY <1>4, <1>6, FS_CardinalityType
  <1> QED BY <1>1, <1>3, <1>4, <1>5, <1>6, <1>7

\* The places of a sequence that hold a member of F.
PlacesIn(s, F) == {i \in 1..Len(s) : s[i] \in F}

\* A count on a list is the number of its places.
LEMMA PlacesFinite ==
  ASSUME NEW s \in Seq(Envelopes), NEW F
  PROVE  IsFiniteSet(PlacesIn(s, F)) /\ CountIn(s, F) = Cardinality(PlacesIn(s, F))
  <1>1. IsFiniteSet(1..Len(s)) /\ PlacesIn(s, F) \in SUBSET (1..Len(s))
    BY FS_Interval DEF PlacesIn
  <1>2. IsFiniteSet(PlacesIn(s, F))
    BY <1>1, FS_Subset
  <1> QED BY <1>2 DEF PlacesIn, CountIn

\* A count on a list is a natural number, zero when nothing counted is there.
LEMMA CountInFacts ==
  ASSUME NEW s \in Seq(Envelopes), NEW F
  PROVE  CountIn(s, F) \in Nat /\ (CountIn(s, F) = 0 <=> ToSet(s) \cap F = {})
  <1>1. IsFiniteSet(PlacesIn(s, F)) /\ CountIn(s, F) = Cardinality(PlacesIn(s, F))
    BY PlacesFinite
  <1>2. CountIn(s, F) \in Nat /\ (CountIn(s, F) = 0 <=> PlacesIn(s, F) = {})
    BY <1>1, FS_CardinalityType, FS_EmptySet
  <1>3. PlacesIn(s, F) = {} <=> ToSet(s) \cap F = {}
    BY DEF PlacesIn, ToSet
  <1> QED BY <1>2, <1>3

\* Moving places along the sequence keeps how many they are.
LEMMA ShiftedPlaces ==
  ASSUME NEW A, IsFiniteSet(A), A \subseteq Nat, NEW k \in Nat
  PROVE  /\ IsFiniteSet({i + k : i \in A})
         /\ Cardinality({i + k : i \in A}) = Cardinality(A)
  <1> DEFINE B == {i + k : i \in A}
             g == [i \in A |-> i + k]
  <1>1. g \in [A -> B] /\ (\A i, j \in A : g[i] = g[j] => i = j)
    OBVIOUS
  <1>2. \A x \in B : \E i \in A : g[i] = x
    OBVIOUS
  <1>3. g \in Bijection(A, B)
    BY <1>1, <1>2 DEF Bijection, Injection, Surjection, IsInjective
  <1>4. ExistsBijection(A, B)
    BY <1>3 DEF ExistsBijection
  <1> QED BY <1>4, FS_Bijection

\* Counts on lists add up.
LEMMA CountInConcat ==
  ASSUME NEW s \in Seq(Envelopes), NEW r \in Seq(Envelopes), NEW F
  PROVE  CountIn(s \o r, F) = CountIn(s, F) + CountIn(r, F)
  <1> DEFINE A == PlacesIn(s, F)
             B == {i + Len(s) : i \in PlacesIn(r, F)}
  <1>1. /\ s \o r \in Seq(Envelopes) /\ Len(s \o r) = Len(s) + Len(r)
        /\ \A i \in 1..Len(s) : (s \o r)[i] = s[i]
        /\ \A i \in 1..Len(r) : (s \o r)[i + Len(s)] = r[i]
        /\ \A i \in 1..Len(s \o r) : i \in 1..Len(s) \/ i - Len(s) \in 1..Len(r)
        /\ Len(s) \in Nat /\ Len(r) \in Nat
    OBVIOUS
  <1>2. PlacesIn(s \o r, F) \subseteq A \cup B
    <2> SUFFICES ASSUME NEW i \in 1..Len(s \o r), (s \o r)[i] \in F
                  PROVE  i \in A \cup B
      BY DEF PlacesIn
    <2>1. CASE i \in 1..Len(s)
      BY <1>1, <2>1 DEF PlacesIn
    <2>2. CASE i - Len(s) \in 1..Len(r)
      <3>1. PICK j \in 1..Len(r) : j = i - Len(s) /\ i = j + Len(s)
        BY <1>1, <2>2
      <3>2. j \in PlacesIn(r, F)
        BY <1>1, <3>1 DEF PlacesIn
      <3> QED BY <3>1, <3>2
    <2> QED BY <1>1, <2>1, <2>2
  <1>3. A \subseteq PlacesIn(s \o r, F)
    BY <1>1 DEF PlacesIn
  <1>4. B \subseteq PlacesIn(s \o r, F)
    <2> SUFFICES ASSUME NEW j \in 1..Len(r), r[j] \in F
                  PROVE  j + Len(s) \in PlacesIn(s \o r, F)
      BY DEF PlacesIn
    <2>1. j + Len(s) \in 1..Len(s \o r) /\ (s \o r)[j + Len(s)] = r[j]
      BY <1>1
    <2> QED BY <2>1 DEF PlacesIn
  <1>5. A \cap B = {}
    BY <1>1 DEF PlacesIn
  <1>6. /\ IsFiniteSet(A) /\ Cardinality(A) = CountIn(s, F) /\ Cardinality(A) \in Nat
        /\ IsFiniteSet(PlacesIn(r, F)) /\ Cardinality(PlacesIn(r, F)) = CountIn(r, F)
        /\ Cardinality(PlacesIn(r, F)) \in Nat
    BY PlacesFinite, FS_CardinalityType
  <1>7. IsFiniteSet(B) /\ Cardinality(B) = CountIn(r, F)
    <2>1. PlacesIn(r, F) \subseteq Nat
      BY DEF PlacesIn
    <2> QED BY <1>1, <1>6, <2>1, ShiftedPlaces
  <1>8. CountIn(s \o r, F) = Cardinality(A \cup B)
    <2>1. PlacesIn(s \o r, F) = A \cup B
      BY <1>2, <1>3, <1>4
    <2> QED BY <1>1, <2>1, PlacesFinite
  <1> HIDE DEF A, B
  <1>9. Cardinality(A \cup B) = Cardinality(A) + Cardinality(B) - Cardinality(A \cap B)
    BY <1>6, <1>7, FS_Union
  <1>10. Cardinality(A \cap B) = 0
    BY <1>5, FS_EmptySet
  <1> QED BY <1>6, <1>7, <1>8, <1>9, <1>10

\* The count on a list of one.
LEMMA CountInSingle ==
  ASSUME NEW x \in Envelopes, NEW F
  PROVE  <<x>> \in Seq(Envelopes) /\ CountIn(<<x>>, F) = IF x \in F THEN 1 ELSE 0
  <1>1. <<x>> \in Seq(Envelopes) /\ Len(<<x>>) = 1 /\ <<x>>[1] = x
    OBVIOUS
  <1>2. CASE x \in F
    <2>1. PlacesIn(<<x>>, F) = {1}
      BY <1>1, <1>2 DEF PlacesIn
    <2> QED BY <1>1, <1>2, <2>1, FS_Singleton, PlacesFinite
  <1>3. CASE x \notin F
    <2>1. PlacesIn(<<x>>, F) = {}
      BY <1>1, <1>3 DEF PlacesIn
    <2> QED BY <1>1, <1>3, <2>1, FS_EmptySet, PlacesFinite
  <1> QED BY <1>2, <1>3, <1>1

\* The count after an LPUSH.
LEMMA CountInAppend ==
  ASSUME NEW s \in Seq(Envelopes), NEW x \in Envelopes, NEW F
  PROVE  CountIn(Append(s, x), F) = CountIn(s, F) + (IF x \in F THEN 1 ELSE 0)
  <1>1. Append(s, x) = s \o <<x>>
    OBVIOUS
  <1>2. PICK r \in Seq(Envelopes) : r = <<x>>
    BY CountInSingle
  <1>3. CountIn(s \o r, F) = CountIn(s, F) + CountIn(r, F)
    BY CountInConcat
  <1>4. CountIn(r, F) = IF x \in F THEN 1 ELSE 0
    BY <1>2, CountInSingle
  <1> QED BY <1>1, <1>2, <1>3, <1>4

\* The count after a BRPOP.
LEMMA CountInTail ==
  ASSUME NEW s \in Seq(Envelopes), s # <<>>, NEW F
  PROVE  CountIn(s, F) = CountIn(Tail(s), F) + (IF Head(s) \in F THEN 1 ELSE 0)
  <1>1. PICK h \in Envelopes, r \in Seq(Envelopes) : h = Head(s) /\ r = Tail(s)
    BY ListFacts
  <1>2. PICK q \in Seq(Envelopes) : q = <<h>>
    BY CountInSingle
  <1>3. s = q \o r
    BY <1>1, <1>2
  <1>4. CountIn(s, F) = CountIn(q, F) + CountIn(r, F)
    BY <1>3, CountInConcat
  <1>5. CountIn(q, F) = (IF h \in F THEN 1 ELSE 0) /\ CountIn(r, F) \in Nat
    BY <1>2, CountInSingle, CountInFacts
  <1> QED BY <1>1, <1>4, <1>5

\* SetToSeq lists each member once.
LEMMA CountInListed ==
  ASSUME NEW B \in SUBSET Envelopes, IsFiniteSet(B), NEW F
  PROVE  CountIn(SetToSeq(B), F) = CountOf(B, F)
  <1>1. PICK s \in Seq(B) : s = SetToSeq(B)
    BY SetToSeqLists
  <1>2. ToSet(s) = B /\ \A i, j \in 1..Len(s) : s[i] = s[j] => i = j
    BY <1>1, SetToSeqLists
  <1>3. s \in Seq(Envelopes) /\ \A i \in 1..Len(s) : s[i] \in B
    OBVIOUS
  <1> DEFINE P == PlacesIn(s, F)
             g == [i \in P |-> s[i]]
  <1>4. \A i \in P : i \in 1..Len(s) /\ s[i] \in B \cap F
    BY <1>3 DEF PlacesIn
  <1>5. \A x \in B \cap F : \E i \in P : s[i] = x
    BY <1>2 DEF ToSet, PlacesIn
  <1>6. g \in Bijection(P, B \cap F)
    BY <1>2, <1>4, <1>5 DEF Bijection, Injection, Surjection, IsInjective
  <1>7. ExistsBijection(P, B \cap F)
    BY <1>6 DEF ExistsBijection
  <1>8. IsFiniteSet(P) /\ CountIn(s, F) = Cardinality(P)
    BY <1>3, PlacesFinite
  <1> QED BY <1>1, <1>7, <1>8, FS_Bijection DEF CountOf

-----------------------------------------------------------------------------
(***************************************************************************)
(* The steps of a queue with one worker.                                   *)
(***************************************************************************)
LEMMA FewInHand ==
  ASSUME NEW H, \A e, f \in H : e = f
  PROVE  IsFiniteSet(H)
  <1>1. CASE H = {}
    BY <1>1, FS_EmptySet
  <1>2. CASE H # {}
    <2>1. PICK e \in H : H = {e}
      BY <1>2
    <2> QED BY <2>1, FS_Singleton
  <1> QED BY <1>1, <1>2

\* All counts are natural numbers.
LEMMA CountsAreNat ==
  ASSUME QueueTyped, IsFiniteSet(scheduled), NEW w \in QueueWorkers, NEW F
  PROVE  /\ InRedis(w, F) \in Nat /\ CountIn(ready, F) \in Nat
         /\ IsFiniteSet(Waiting(w)) /\ CountOf(Waiting(w), F) \in Nat
         /\ IsFiniteSet(hand[w]) /\ CountOf(hand[w], F) \in Nat
  <1>1. CountIn(ready, F) \in Nat
    BY CountInFacts DEF QueueTyped, QueueTypeOK
  <1>2. IsFiniteSet(Waiting(w))
    BY FS_Subset DEF Waiting
  <1>3. IsFiniteSet(hand[w])
    BY FewInHand DEF QueueTyped, OneInHand
  <1>4. CountOf(Waiting(w), F) \in Nat /\ CountOf(hand[w], F) \in Nat
    BY <1>2, <1>3, CountOfFacts
  <1> QED BY <1>1, <1>2, <1>3, <1>4 DEF InRedis

\* They are so after the step.
LEMMA CountsAreNatNext ==
  ASSUME QueueTyped', IsFiniteSet(scheduled'), NEW w \in QueueWorkers, NEW F
  PROVE  /\ InRedis(w, F)' \in Nat /\ CountIn(ready', F) \in Nat
         /\ IsFiniteSet(Waiting(w)') /\ CountOf(Waiting(w)', F) \in Nat
         /\ IsFiniteSet(hand'[w]) /\ CountOf(hand'[w], F) \in Nat
  <1>1. CountIn(ready', F) \in Nat
    BY CountInFacts DEF QueueTyped, QueueTypeOK
  <1>2. IsFiniteSet(Waiting(w)')
    BY FS_Subset DEF Waiting
  <1>3. IsFiniteSet(hand'[w])
    BY FewInHand DEF QueueTyped, OneInHand
  <1>4. CountOf(Waiting(w)', F) \in Nat /\ CountOf(hand'[w], F) \in Nat
    BY <1>2, <1>3, CountOfFacts
  <1> QED BY <1>1, <1>2, <1>3, <1>4 DEF InRedis

\* What is counted are envelopes.
LEMMA KindsOfEnvelopes ==
  /\ \A t : OfTask(t) \subseteq Envelopes
  /\ \A e : UpTo(e) \subseteq Envelopes /\ Before(e) \subseteq Envelopes
  BY DEF OfTask, UpTo, Before

\* The sorted set stays finite.
LEMMA ScheduledFiniteStep ==
  ASSUME QueueTyped, IsFiniteSet(scheduled), QueueNext
  PROVE  IsFiniteSet(scheduled')
  <1>1. ASSUME NEW t \in QueueTasks, NEW delayed \in BOOLEAN, Submit(t, delayed)
        PROVE  IsFiniteSet(scheduled')
    BY <1>1, FS_AddElement DEF Submit
  <1>2. ASSUME NEW w \in QueueWorkers, RemoveBatch(w)
        PROVE  IsFiniteSet(scheduled')
    BY <1>2, FS_Subset DEF RemoveBatch
  <1>3. ASSUME NEW w \in QueueWorkers, Requeue(w)
        PROVE  IsFiniteSet(scheduled')
    <2>1. PICK e : Requeued(e)
      BY <1>3, RequeueFacts DEF QueueTyped
    <2> QED BY <2>1, FS_AddElement DEF Requeued, redis
  <1>4. ASSUME NEW w \in QueueWorkers,
               \/ ReadDue(w) \/ PushBatch(w) \/ Pop(w) \/ PopTimesOut(w)
               \/ HandlerReturns(w) \/ HandlerRaises(w) \/ Fault(w)
        PROVE  IsFiniteSet(scheduled')
    BY <1>4 DEF ReadDue, PushBatch, Pop, PopTimesOut, HandlerReturns, HandlerRaises, Fault, redis
  <1>5. ASSUME NEW e \in Envelopes, ComesDue(e)
        PROVE  IsFiniteSet(scheduled')
    BY <1>5 DEF ComesDue
  <1> QED BY <1>1, <1>2, <1>3, <1>4, <1>5 DEF QueueNext, Work

\* A drain reads what is in the sorted set and nobody but itself removes it; what
\* it has pushed is on the list until it pops.
LEMMA DrainStep ==
  ASSUME NEW w, QueueWorkers = {w}, LoneIInv(w), QueueNext
  PROVE  DrainInOrder(w)'
  <1> QueueTypeOK /\ w \in QueueWorkers
    BY DEF LoneIInv, QueueTyped
  <1>1. ASSUME NEW t \in QueueTasks, NEW delayed \in BOOLEAN, Submit(t, delayed)
        PROVE  DrainInOrder(w)'
    <2>1. queuePc' = queuePc /\ batch' = batch /\ scheduled \subseteq scheduled'
      BY <1>1 DEF Submit, local
    <2>2. ASSUME NEW F PROVE CountIn(ready', F) >= CountIn(ready, F)
      <3>1. CountIn(ready, F) \in Nat
        BY CountInFacts DEF QueueTypeOK
      <3>2. CASE ready' = ready
        BY <3>1, <3>2
      <3>3. CASE ready' = Append(ready, Fresh(t))
        <4>1. CountIn(ready', F) = CountIn(ready, F) + (IF Fresh(t) \in F THEN 1 ELSE 0)
          BY <3>3, FreshFacts, CountInAppend DEF QueueTypeOK
        <4> QED BY <3>1, <4>1
      <3> QED BY <1>1, <3>2, <3>3 DEF Submit
    <2>3. ASSUME queuePc[w] = "remove", NEW F \in SUBSET Envelopes
          PROVE  CountOf(batch[w], F) <= CountIn(ready', F)
      <3>1. CountOf(batch[w], F) <= CountIn(ready, F)
        BY <2>3 DEF LoneIInv, DrainInOrder
      <3>2. CountOf(batch[w], F) \in Nat /\ CountIn(ready, F) \in Nat
        BY CountOfFacts, CountInFacts DEF LoneIInv, QueueTyped, BatchesFinite, QueueTypeOK
      <3>3. CountIn(ready', F) \in Int /\ CountIn(ready', F) >= CountIn(ready, F)
        <4>1. ready' \in Seq(Envelopes)
          <5>1. Fresh(t) \in Envelopes /\ ready \in Seq(Envelopes)
            BY FreshFacts DEF QueueTypeOK
          <5> QED BY <1>1, <5>1 DEF Submit
        <4> QED BY <2>2, <4>1, CountInFacts
      <3> QED BY <3>1, <3>2, <3>3
    <2> QED BY <2>1, <2>3 DEF DrainInOrder, LoneIInv
  <1>2. ASSUME NEW e \in Envelopes, ComesDue(e)
        PROVE  DrainInOrder(w)'
    BY <1>2 DEF ComesDue, local, DrainInOrder, LoneIInv
  <1>3. ASSUME PushBatch(w)
        PROVE  DrainInOrder(w)'
    <2>1. queuePc'[w] = "remove" /\ batch' = batch
      BY <1>3 DEF PushBatch, Goto, QueueTypeOK
    <2>2. batch[w] \in SUBSET Envelopes /\ IsFiniteSet(batch[w])
      BY DEF LoneIInv, QueueTyped, QueueTypeOK, BatchesFinite
    <2>3. PICK r \in Seq(Envelopes) : r = SetToSeq(batch[w])
      BY <2>2, SetToSeqLists
    <2>4. ASSUME NEW F \in SUBSET Envelopes
          PROVE  CountOf(batch[w], F) <= CountIn(ready', F)
      <3>1. ready' = ready \o r /\ ready \in Seq(Envelopes)
        BY <1>3, <2>3 DEF PushBatch, QueueTypeOK
      <3>2. CountIn(ready', F) = CountIn(ready, F) + CountIn(r, F)
        BY <3>1, CountInConcat
      <3>3. CountIn(r, F) = CountOf(batch[w], F)
        BY <2>2, <2>3, CountInListed
      <3>4. CountIn(ready, F) \in Nat /\ CountIn(r, F) \in Nat
        BY <3>1, CountInFacts
      <3> QED BY <3>2, <3>3, <3>4
    <2> QED BY <2>1, <2>4 DEF DrainInOrder
  <1>4. ASSUME ReadDue(w)
        PROVE  DrainInOrder(w)'
    BY <1>4 DEF ReadDue, Goto, redis, DrainInOrder, QueueTypeOK
  <1>5. ASSUME \/ RemoveBatch(w) \/ Pop(w) \/ PopTimesOut(w) \/ HandlerReturns(w)
               \/ HandlerRaises(w) \/ Requeue(w) \/ Fault(w)
        PROVE  DrainInOrder(w)'
    <2>1. queuePc'[w] \in {"drain", "pop", "run", "failed"}
      BY <1>5 DEF RemoveBatch, Pop, PopTimesOut, HandlerReturns, HandlerRaises, Requeue, Fault,
                  Goto, QueueTypeOK
    <2> QED BY <2>1 DEF DrainInOrder
  <1> QED BY <1>1, <1>2, <1>3, <1>4, <1>5 DEF QueueNext, Work

\* A task that was not accepted has no envelope.
LEMMA UntouchedStep ==
  ASSUME NEW w, QueueWorkers = {w}, LoneIInv(w), QueueNext
  PROVE  Untouched'
  <1> QueueTypeOK /\ w \in QueueWorkers /\ Untouched /\ DrainInOrder(w)
    BY DEF LoneIInv, QueueTyped
  <1>1. ASSUME NEW t \in QueueTasks, NEW delayed \in BOOLEAN, Submit(t, delayed)
        PROVE  Untouched'
    <2>1. Fresh(t) \in Envelopes /\ Fresh(t).task = t
      BY FreshFacts
    <2>2. ToSet(ready') \subseteq ToSet(ready) \cup {Fresh(t)}
      <3>1. ready \in Seq(Envelopes)
        BY DEF QueueTypeOK
      <3>2. ToSet(Append(ready, Fresh(t))) = ToSet(ready) \cup {Fresh(t)}
        BY <2>1, <3>1, ListFacts
      <3>3. ready' = ready \/ ready' = Append(ready, Fresh(t))
        BY <1>1 DEF Submit
      <3> QED BY <3>2, <3>3
    <2>3. scheduled' \subseteq scheduled \cup {Fresh(t)}
      BY <1>1 DEF Submit
    <2> QED BY <1>1, <2>1, <2>2, <2>3 DEF Submit, local, Untouched, InList, Held
  <1>2. ASSUME PushBatch(w)
        PROVE  Untouched'
    <2>1. batch[w] \subseteq scheduled /\ batch[w] \subseteq Envelopes /\ IsFiniteSet(batch[w])
      BY <1>2 DEF DrainInOrder, PushBatch, LoneIInv, QueueTyped, BatchesFinite, QueueTypeOK
    <2>2. PICK r \in Seq(Envelopes) : r = SetToSeq(batch[w]) /\ ToSet(r) = batch[w]
      <3>1. PICK r \in Seq(batch[w]) : r = SetToSeq(batch[w]) /\ ToSet(r) = batch[w]
        BY <2>1, SetToSeqLists
      <3>2. r \in Seq(Envelopes)
        BY <2>1
      <3> QED BY <3>1, <3>2
    <2>3. ready' = ready \o r
      BY <1>2, <2>2 DEF PushBatch
    <2>4. ToSet(ready') = ToSet(ready) \cup batch[w]
      BY <2>2, <2>3, ListFacts DEF QueueTypeOK
    <2> QED BY <1>2, <2>1, <2>4 DEF PushBatch, history, Untouched, InList, Held
  <1>3. ASSUME Pop(w)
        PROVE  Untouched'
    <2>1. PICK h \in Envelopes : h = Head(ready) /\ ToSet(ready) = {h} \cup ToSet(ready')
      BY <1>3, ListFacts DEF Pop, QueueTypeOK
    <2>2. h.task \in accepted
      BY <2>1 DEF Untouched, InList
    <2>3. \A e \in Envelopes : e # h => runs'[e] = runs[e]
      BY <1>3, <2>1 DEF Pop, QueueTypeOK
    <2>4. \A e \in Envelopes : Held(e)' => e = h
      BY <1>3, <2>1 DEF Pop, QueueTypeOK, Held
    <2> QED BY <1>3, <2>1, <2>2, <2>3, <2>4 DEF Pop, Untouched, InList
  <1>4. ASSUME HandlerReturns(w)
        PROVE  Untouched'
    <2>1. settled' \subseteq accepted
      <3>1. hand[w] \subseteq Envelopes
        BY HandFacts
      <3>2. \A e \in hand[w] : e.task \in accepted
        BY <3>1 DEF Untouched, Held
      <3>3. InHand(w) \subseteq accepted
        BY <3>2 DEF InHand
      <3> QED BY <1>4, <3>3 DEF HandlerReturns, Untouched
    <2>2. \A e \in Envelopes : Held(e)' => Held(e)
      BY <1>4 DEF HandlerReturns, QueueTypeOK, Held
    <2> QED BY <1>4, <2>1, <2>2 DEF HandlerReturns, redis, Untouched, InList
  <1>5. ASSUME Requeue(w)
        PROVE  Untouched'
    <2>1. PICK e \in hand[w] : e \in Envelopes /\ Requeued(e)
      BY <1>5, RequeueFacts
    <2>2. e.task \in accepted
      BY <2>1 DEF Untouched, Held
    <2>3. \A d \in Envelopes : Held(d)' => Held(d)
      BY <1>5 DEF Requeue, QueueTypeOK, Held
    <2>4. CASE Exhausted(e)
      BY <1>5, <2>1, <2>2, <2>3, <2>4 DEF Requeue, Requeued, redis, Untouched, InList
    <2>5. CASE ~ Exhausted(e)
      <3>1. NextOf(e).task = e.task
        BY <2>1, <2>5, NextFacts
      <3> QED BY <1>5, <2>1, <2>2, <2>3, <2>5, <3>1 DEF Requeue, Requeued, Untouched, InList
    <2> QED BY <2>4, <2>5
  <1>6. ASSUME NEW e \in Envelopes, ComesDue(e)
        PROVE  Untouched'
    BY <1>6 DEF ComesDue, local, history, Untouched, InList, Held
  <1>7. ASSUME ReadDue(w) \/ RemoveBatch(w) \/ PopTimesOut(w) \/ HandlerRaises(w) \/ Fault(w)
        PROVE  Untouched'
    <2>1. /\ accepted' = accepted /\ settled' = settled /\ runs' = runs /\ ready' = ready
          /\ scheduled' \subseteq scheduled
      BY <1>7 DEF ReadDue, RemoveBatch, PopTimesOut, HandlerRaises, Fault, redis, history
    <2>2. \A e \in Envelopes : Held(e)' => Held(e)
      BY <1>7 DEF ReadDue, RemoveBatch, PopTimesOut, HandlerRaises, Fault, QueueTypeOK, Held
    <2> QED BY <2>1, <2>2 DEF Untouched, InList
  <1> QED BY <1>1, <1>2, <1>3, <1>4, <1>5, <1>6, <1>7 DEF QueueNext, Work

\* A step that adds no copy to Redis or to the hand, starts nothing, and settles
\* only what it takes from the hand.
LEMMA NoCopyMore ==
  ASSUME NEW w, QueueWorkers = {w}, LoneIInv(w), QueueTyped', IsFiniteSet(scheduled'),
         \A F \in SUBSET Envelopes : InRedis(w, F)' <= InRedis(w, F),
         hand'[w] \subseteq hand[w], runs' = runs, UNCHANGED tally,
         \A t \in settled' : \/ t \in settled
                             \/ hand'[w] = {} /\ OfTask(t) \cap hand[w] # {}
  PROVE  StartsGranted(w)' /\ NoFaultNoCopy(w)'
  <1> w \in QueueWorkers /\ QueueTyped /\ IsFiniteSet(scheduled)
    BY DEF LoneIInv
  <1>1. ASSUME NEW F \in SUBSET Envelopes
        PROVE  /\ InRedis(w, F)' <= InRedis(w, F) /\ CountOf(hand'[w], F) <= CountOf(hand[w], F)
               /\ InRedis(w, F)' \in Nat /\ InRedis(w, F) \in Nat
               /\ CountOf(hand'[w], F) \in Nat /\ CountOf(hand[w], F) \in Nat
    BY CountsAreNat, CountsAreNatNext, CountOfSubset
  <1>2. StartsGranted(w)'
    <2> SUFFICES ASSUME NEW e \in Envelopes
                  PROVE  Starts(w, e)' <= granted'
      BY DEF StartsGranted
    <2>1. Starts(w, e) <= granted /\ runs[e] \in Nat /\ granted \in Nat
      BY DEF LoneIInv, StartsGranted, QueueTyped, QueueTypeOK
    <2>2. UpTo(e) \in SUBSET Envelopes /\ Before(e) \in SUBSET Envelopes
      BY KindsOfEnvelopes
    <2>3. runs'[e] = runs[e] /\ granted' = granted
      BY DEF tally
    <2>4. Starts(w, e)' = runs'[e] + InRedis(w, UpTo(e))' + CountOf(hand'[w], Before(e))
      BY DEF Starts
    <2>5. Starts(w, e) = runs[e] + InRedis(w, UpTo(e)) + CountOf(hand[w], Before(e))
      BY DEF Starts
    <2> QED BY <1>1, <2>1, <2>2, <2>3, <2>4, <2>5
  <1>3. ASSUME faults' = 0, NEW t \in QueueTasks
        PROVE  Copies(w, t)' <= 1 /\ (t \in settled' => Copies(w, t)' = 0)
    <2>1. Copies(w, t) <= 1 /\ (t \in settled => Copies(w, t) = 0)
      BY <1>3 DEF LoneIInv, NoFaultNoCopy, tally
    <2>2. OfTask(t) \in SUBSET Envelopes
      BY KindsOfEnvelopes
    <2>3. Copies(w, t)' = InRedis(w, OfTask(t))' + CountOf(hand'[w], OfTask(t))
      BY DEF Copies
    <2>4. Copies(w, t) = InRedis(w, OfTask(t)) + CountOf(hand[w], OfTask(t))
      BY DEF Copies
    <2>5. Copies(w, t)' <= Copies(w, t) /\ Copies(w, t)' \in Nat /\ Copies(w, t) \in Nat
      BY <1>1, <2>2, <2>3, <2>4
    <2>6. CASE t \notin settled' \/ t \in settled
      BY <2>1, <2>5, <2>6
    <2>7. CASE hand'[w] = {} /\ OfTask(t) \cap hand[w] # {}
      <3>1. CountOf(hand[w], OfTask(t)) # 0
        BY <2>7, CountsAreNat, CountOfFacts
      <3>2. CountOf(hand'[w], OfTask(t)) = 0
        BY <2>7, CountOfNone
      <3> QED BY <1>1, <2>1, <2>2, <2>3, <2>4, <3>1, <3>2
    <2> QED BY <2>6, <2>7
  <1> QED BY <1>2, <1>3 DEF NoFaultNoCopy

\* The account of a new task.
LEMMA SubmitCounts ==
  ASSUME NEW w, QueueWorkers = {w}, LoneIInv(w), QueueTyped', IsFiniteSet(scheduled'),
         NEW t \in QueueTasks, NEW delayed \in BOOLEAN, Submit(t, delayed)
  PROVE  StartsGranted(w)' /\ NoFaultNoCopy(w)'
  <1> DEFINE n == Fresh(t)
  <1> w \in QueueWorkers /\ QueueTyped /\ QueueTypeOK /\ IsFiniteSet(scheduled)
    BY DEF LoneIInv, QueueTyped
  <1>1. n \in Envelopes /\ n.task = t
    BY FreshFacts
  <1> HIDE DEF n
  <1>2. /\ hand' = hand /\ runs' = runs /\ settled' = settled /\ UNCHANGED tally
        /\ queuePc' = queuePc /\ batch' = batch
    BY <1>1 DEF Submit, local
  <1>3. ASSUME NEW F \in SUBSET Envelopes
        PROVE  /\ InRedis(w, F)' <= InRedis(w, F) + 1
               /\ n \notin F => InRedis(w, F)' = InRedis(w, F)
    <2>1. CASE ready' = Append(ready, n) /\ scheduled' = scheduled
      <3>1. Waiting(w)' = Waiting(w)
        BY <1>2, <2>1 DEF Waiting
      <3>2. CountIn(ready', F) = CountIn(ready, F) + (IF n \in F THEN 1 ELSE 0)
        BY <1>1, <2>1, CountInAppend DEF QueueTypeOK
      <3>3. CountIn(ready, F) \in Nat /\ CountOf(Waiting(w), F) \in Nat
        BY CountsAreNat
      <3> QED BY <3>1, <3>2, <3>3 DEF InRedis
    <2>2. CASE ready' = ready /\ scheduled' = scheduled \cup {n}
      <3>1. Waiting(w)' \subseteq Waiting(w) \cup {n} /\ Waiting(w) \subseteq Waiting(w)'
        BY <1>2, <2>2 DEF Waiting
      <3>2. PICK W, V : W = Waiting(w) /\ V = Waiting(w)'
        OBVIOUS
      <3>3. IsFiniteSet(W) /\ IsFiniteSet(V) /\ IsFiniteSet(W \cup {n})
        BY <3>2, CountsAreNat, CountsAreNatNext, FS_AddElement
      <3>4. CountOf(V, F) <= CountOf(W \cup {n}, F) /\ CountOf(W, F) <= CountOf(V, F)
        BY <3>1, <3>2, <3>3, CountOfSubset
      <3>5. /\ CountOf(W \cup {n}, F) <= CountOf(W, F) + 1
            /\ n \notin F => CountOf(W \cup {n}, F) = CountOf(W, F)
        BY <3>3, CountOfAdded
      <3>6. /\ CountIn(ready, F) \in Nat /\ CountOf(W, F) \in Nat /\ CountOf(V, F) \in Nat
            /\ CountOf(W \cup {n}, F) \in Nat
        BY <3>2, <3>3, CountsAreNat, CountOfFacts
      <3>7. InRedis(w, F) = CountIn(ready, F) + CountOf(W, F)
        BY <3>2 DEF InRedis
      <3>8. InRedis(w, F)' = CountIn(ready, F) + CountOf(V, F)
        BY <2>2, <3>2 DEF InRedis
      <3> QED BY <3>4, <3>5, <3>6, <3>7, <3>8
    <2> QED BY <2>1, <2>2 DEF Submit, n
  <1>4. ASSUME NEW F \in SUBSET OfTask(t)
        PROVE  InRedis(w, F) = 0 /\ CountOf(hand[w], F) = 0
    <2>1. \A e \in F : e \in Envelopes /\ e.task \notin accepted
      BY DEF OfTask, Submit
    <2>2. ToSet(ready) \cap F = {} /\ Waiting(w) \cap F = {} /\ hand[w] \cap F = {}
      BY <2>1 DEF LoneIInv, Untouched, InList, Held, Waiting
    <2>3. CountIn(ready, F) = 0
      BY <2>2, CountInFacts DEF QueueTypeOK
    <2>4. CountOf(Waiting(w), F) = 0 /\ CountOf(hand[w], F) = 0
      BY <2>2, CountsAreNat, CountOfFacts
    <2> QED BY <2>3, <2>4 DEF InRedis
  <1>5. ASSUME NEW e \in Envelopes
        PROVE  Starts(w, e)' <= granted'
    <2>1. /\ UpTo(e) \in SUBSET Envelopes /\ Before(e) \in SUBSET Envelopes
          /\ granted \in Nat \ {0} /\ granted' = granted
      BY <1>2, KindsOfEnvelopes DEF QueueTypeOK, tally
    <2>2. Starts(w, e)' = runs[e] + InRedis(w, UpTo(e))' + CountOf(hand[w], Before(e))
      BY <1>2 DEF Starts
    <2>3. CASE e.task = t
      <3>1. UpTo(e) \in SUBSET OfTask(t) /\ Before(e) \in SUBSET OfTask(t)
        BY <2>3 DEF UpTo, Before, OfTask
      <3>2. runs[e] = 0
        BY <2>3 DEF LoneIInv, Untouched, Submit
      <3>3. InRedis(w, UpTo(e)) = 0 /\ CountOf(hand[w], Before(e)) = 0
        BY <1>4, <3>1
      <3>4. InRedis(w, UpTo(e))' <= 1 /\ InRedis(w, UpTo(e))' \in Nat
        BY <1>3, <2>1, <3>3, CountsAreNatNext
      <3> QED BY <2>1, <2>2, <3>2, <3>3, <3>4
    <2>4. CASE e.task # t
      <3>1. InRedis(w, UpTo(e))' = InRedis(w, UpTo(e))
        <4>1. n \notin UpTo(e)
          BY <1>1, <2>4 DEF UpTo
        <4> QED BY <1>3, <2>1, <4>1
      <3>2. Starts(w, e)' = Starts(w, e)
        BY <2>2, <3>1 DEF Starts
      <3> QED BY <2>1, <3>2 DEF LoneIInv, StartsGranted
    <2> QED BY <2>3, <2>4
  <1>6. ASSUME faults' = 0, NEW u \in QueueTasks
        PROVE  Copies(w, u)' <= 1 /\ (u \in settled' => Copies(w, u)' = 0)
    <2>1. OfTask(u) \in SUBSET Envelopes
      BY KindsOfEnvelopes
    <2>2. Copies(w, u)' = InRedis(w, OfTask(u))' + CountOf(hand[w], OfTask(u))
      BY <1>2 DEF Copies
    <2>3. CASE u = t
      <3>1. InRedis(w, OfTask(u)) = 0 /\ CountOf(hand[w], OfTask(u)) = 0
        BY <1>4, <2>3
      <3>2. InRedis(w, OfTask(u))' <= 1 /\ InRedis(w, OfTask(u))' \in Nat
        BY <1>3, <2>1, <3>1, CountsAreNatNext
      <3>3. u \notin settled'
        BY <1>2, <2>3 DEF Submit, LoneIInv, Untouched
      <3> QED BY <2>2, <3>1, <3>2, <3>3
    <2>4. CASE u # t
      <3>1. InRedis(w, OfTask(u))' = InRedis(w, OfTask(u))
        <4>1. n \notin OfTask(u)
          BY <1>1, <2>4 DEF OfTask
        <4> QED BY <1>3, <2>1, <4>1
      <3>2. Copies(w, u)' = Copies(w, u)
        BY <2>2, <3>1 DEF Copies
      <3> QED BY <1>2, <1>6, <3>2 DEF LoneIInv, NoFaultNoCopy, tally
    <2> QED BY <2>3, <2>4
  <1> QED BY <1>5, <1>6 DEF StartsGranted, NoFaultNoCopy

\* The pop moves one envelope from the list to the hand, and starts it.
LEMMA PopCounts ==
  ASSUME NEW w, QueueWorkers = {w}, LoneIInv(w), QueueTyped', IsFiniteSet(scheduled'), Pop(w)
  PROVE  StartsGranted(w)' /\ NoFaultNoCopy(w)'
  <1> w \in QueueWorkers /\ QueueTyped /\ QueueTypeOK /\ IsFiniteSet(scheduled)
    BY DEF LoneIInv, QueueTyped
  <1>1. PICK h \in Envelopes : h = Head(ready)
    BY ListFacts DEF Pop, QueueTypeOK
  <1>2. /\ hand[w] = {} /\ hand'[w] = {h} /\ settled' = settled /\ UNCHANGED tally
        /\ runs' = [runs EXCEPT ![h] = @ + 1] /\ Waiting(w)' = Waiting(w)
    BY <1>1 DEF Pop, Goto, QueueTypeOK, Waiting
  <1>3. ASSUME NEW F \in SUBSET Envelopes
        PROVE  /\ InRedis(w, F) = InRedis(w, F)' + (IF h \in F THEN 1 ELSE 0)
               /\ CountOf(hand[w], F) = 0
               /\ CountOf(hand'[w], F) = IF h \in F THEN 1 ELSE 0
               /\ InRedis(w, F)' \in Nat /\ InRedis(w, F) \in Nat
    <2>1. CountIn(ready, F) = CountIn(ready', F) + (IF h \in F THEN 1 ELSE 0)
      BY <1>1, CountInTail DEF Pop, QueueTypeOK
    <2>2. CountOf(hand[w], F) = 0
      BY <1>2, CountOfNone
    <2>3. CountOf(hand'[w], F) = IF h \in F THEN 1 ELSE 0
      BY <1>2, CountOfSingle
    <2>4. CountOf(Waiting(w)', F) = CountOf(Waiting(w), F)
      BY <1>2
    <2>5. InRedis(w, F) = CountIn(ready, F) + CountOf(Waiting(w), F)
      BY DEF InRedis
    <2>6. InRedis(w, F)' = CountIn(ready', F) + CountOf(Waiting(w)', F)
      BY DEF InRedis
    <2>7. /\ CountIn(ready', F) \in Nat /\ CountOf(Waiting(w), F) \in Nat
          /\ InRedis(w, F)' \in Nat /\ InRedis(w, F) \in Nat
      BY CountsAreNat, CountsAreNatNext
    <2> QED BY <2>1, <2>2, <2>3, <2>4, <2>5, <2>6, <2>7
  <1>4. ASSUME NEW e \in Envelopes
        PROVE  Starts(w, e)' <= granted'
    <2>1. UpTo(e) \in SUBSET Envelopes /\ Before(e) \in SUBSET Envelopes
      BY KindsOfEnvelopes
    <2>2. /\ h \in UpTo(e) <=> h \in Before(e) \/ h = e
          /\ ~ (h \in Before(e) /\ h = e)
      <3>1. h.attempts \in Int /\ e.attempts \in Int
        BY EnvelopeFacts
      <3>2. h = e <=> h.task = e.task /\ h.attempts = e.attempts
        BY DEF Envelopes
      <3> QED BY <3>1, <3>2 DEF UpTo, Before
    <2>3. runs'[e] = runs[e] + (IF h = e THEN 1 ELSE 0) /\ runs[e] \in Nat
      BY <1>2 DEF QueueTypeOK
    <2>4. Starts(w, e) = runs[e] + InRedis(w, UpTo(e)) + CountOf(hand[w], Before(e))
      BY DEF Starts
    <2>5. Starts(w, e)' = runs'[e] + InRedis(w, UpTo(e))' + CountOf(hand'[w], Before(e))
      BY DEF Starts
    <2>6. Starts(w, e)' = Starts(w, e)
      BY <1>3, <2>1, <2>2, <2>3, <2>4, <2>5
    <2> QED BY <1>2, <2>6 DEF LoneIInv, StartsGranted, tally
  <1>5. ASSUME faults' = 0, NEW t \in QueueTasks
        PROVE  Copies(w, t)' <= 1 /\ (t \in settled' => Copies(w, t)' = 0)
    <2>1. OfTask(t) \in SUBSET Envelopes
      BY KindsOfEnvelopes
    <2>2. Copies(w, t) = InRedis(w, OfTask(t)) + CountOf(hand[w], OfTask(t))
      BY DEF Copies
    <2>3. Copies(w, t)' = InRedis(w, OfTask(t))' + CountOf(hand'[w], OfTask(t))
      BY DEF Copies
    <2>4. Copies(w, t)' = Copies(w, t)
      BY <1>3, <2>1, <2>2, <2>3
    <2> QED BY <1>2, <1>5, <2>4 DEF LoneIInv, NoFaultNoCopy, tally
  <1> QED BY <1>4, <1>5 DEF StartsGranted, NoFaultNoCopy

\* The next attempt takes the place of the one in the hand.
LEMMA RequeueCounts ==
  ASSUME NEW w, QueueWorkers = {w}, LoneIInv(w), QueueTyped', IsFiniteSet(scheduled'), Requeue(w)
  PROVE  StartsGranted(w)' /\ NoFaultNoCopy(w)'
  <1> w \in QueueWorkers /\ QueueTyped /\ QueueTypeOK /\ IsFiniteSet(scheduled)
    BY DEF LoneIInv, QueueTyped
  <1>1. PICK e \in hand[w] : e \in Envelopes /\ Requeued(e)
    BY RequeueFacts
  <1>2. /\ hand[w] = {e} /\ hand'[w] = {} /\ runs' = runs /\ UNCHANGED tally
        /\ Waiting(w) = scheduled /\ Waiting(w)' = scheduled'
    BY <1>1 DEF Requeue, Goto, Waiting, QueueTyped, OneInHand, QueueTypeOK
  <1>3. CASE Exhausted(e)
    <2>1. UNCHANGED redis /\ settled' = settled \cup {e.task}
      BY <1>1, <1>3 DEF Requeued
    <2>2. \A F \in SUBSET Envelopes : InRedis(w, F)' <= InRedis(w, F)
      <3> SUFFICES ASSUME NEW F \in SUBSET Envelopes PROVE InRedis(w, F)' <= InRedis(w, F)
        OBVIOUS
      <3>1. InRedis(w, F)' = InRedis(w, F)
        BY <1>2, <2>1 DEF InRedis, redis
      <3> QED BY <3>1, CountsAreNat
    <2>3. e \in OfTask(e.task) \cap hand[w]
      BY <1>1 DEF OfTask
    <2> QED BY <1>2, <2>1, <2>2, <2>3, NoCopyMore
  <1>4. CASE ~ Exhausted(e)
    <2>1. PICK n \in Envelopes : n = NextOf(e) /\ n.task = e.task /\ n.attempts = e.attempts + 1
      BY <1>1, <1>4, NextFacts
    <2>2. scheduled' = scheduled \cup {n} /\ ready' = ready /\ settled' = settled
      BY <1>1, <1>4, <2>1 DEF Requeued
    <2>3. ASSUME NEW F \in SUBSET Envelopes
          PROVE  /\ InRedis(w, F)' <= InRedis(w, F) + (IF n \in F THEN 1 ELSE 0)
                 /\ CountOf(hand[w], F) = IF e \in F THEN 1 ELSE 0
                 /\ CountOf(hand'[w], F) = 0
                 /\ InRedis(w, F)' \in Nat /\ InRedis(w, F) \in Nat
      <3>1. /\ CountOf(scheduled', F) <= CountOf(scheduled, F) + 1
            /\ n \notin F => CountOf(scheduled', F) = CountOf(scheduled, F)
        BY <2>2, CountOfAdded
      <3>2. CountOf(hand[w], F) = IF e \in F THEN 1 ELSE 0
        BY <1>2, CountOfSingle
      <3>3. CountOf(hand'[w], F) = 0
        BY <1>2, CountOfNone
      <3>4. /\ InRedis(w, F) = CountIn(ready, F) + CountOf(scheduled, F)
            /\ InRedis(w, F)' = CountIn(ready, F) + CountOf(scheduled', F)
        BY <1>2, <2>2 DEF InRedis
      <3>5. /\ CountIn(ready, F) \in Nat /\ CountOf(scheduled, F) \in Nat
            /\ CountOf(scheduled', F) \in Nat
            /\ InRedis(w, F)' \in Nat /\ InRedis(w, F) \in Nat
        BY <1>2, CountsAreNat, CountsAreNatNext
      <3> QED BY <3>1, <3>2, <3>3, <3>4, <3>5
    <2>4. ASSUME NEW d \in Envelopes
          PROVE  Starts(w, d)' <= granted'
      <3>1. UpTo(d) \in SUBSET Envelopes /\ Before(d) \in SUBSET Envelopes
        BY KindsOfEnvelopes
      <3>2. n \in UpTo(d) <=> e \in Before(d)
        <4>1. n.attempts \in Int /\ e.attempts \in Int /\ d.attempts \in Int
          BY <1>1, EnvelopeFacts
        <4> QED BY <1>1, <2>1, <4>1 DEF UpTo, Before
      <3>3. Starts(w, d) = runs[d] + InRedis(w, UpTo(d)) + CountOf(hand[w], Before(d))
        BY DEF Starts
      <3>4. Starts(w, d)' = runs[d] + InRedis(w, UpTo(d))' + CountOf(hand'[w], Before(d))
        BY <1>2 DEF Starts
      <3>5. runs[d] \in Nat /\ granted \in Nat /\ granted' = granted /\ Starts(w, d) <= granted
        BY <1>2 DEF QueueTypeOK, tally, LoneIInv, StartsGranted
      <3>6. /\ InRedis(w, UpTo(d))' <= InRedis(w, UpTo(d)) + (IF n \in UpTo(d) THEN 1 ELSE 0)
            /\ InRedis(w, UpTo(d))' \in Nat /\ InRedis(w, UpTo(d)) \in Nat
            /\ CountOf(hand[w], Before(d)) = (IF e \in Before(d) THEN 1 ELSE 0)
            /\ CountOf(hand'[w], Before(d)) = 0
        BY <2>3, <3>1
      <3> QED BY <3>2, <3>3, <3>4, <3>5, <3>6
    <2>5. ASSUME faults' = 0, NEW t \in QueueTasks
          PROVE  Copies(w, t)' <= 1 /\ (t \in settled' => Copies(w, t)' = 0)
      <3>1. OfTask(t) \in SUBSET Envelopes
        BY KindsOfEnvelopes
      <3>2. n \in OfTask(t) <=> e \in OfTask(t)
        BY <1>1, <2>1 DEF OfTask
      <3>3. Copies(w, t) = InRedis(w, OfTask(t)) + CountOf(hand[w], OfTask(t))
        BY DEF Copies
      <3>4. Copies(w, t)' = InRedis(w, OfTask(t))' + CountOf(hand'[w], OfTask(t))
        BY DEF Copies
      <3>5. /\ InRedis(w, OfTask(t))' <= InRedis(w, OfTask(t)) + (IF n \in OfTask(t) THEN 1 ELSE 0)
            /\ InRedis(w, OfTask(t))' \in Nat /\ InRedis(w, OfTask(t)) \in Nat
            /\ CountOf(hand[w], OfTask(t)) = (IF e \in OfTask(t) THEN 1 ELSE 0)
            /\ CountOf(hand'[w], OfTask(t)) = 0
        BY <2>3, <3>1
      <3>6. Copies(w, t)' <= Copies(w, t) /\ Copies(w, t)' \in Nat /\ Copies(w, t) \in Nat
        BY <3>2, <3>3, <3>4, <3>5
      <3>7. Copies(w, t) <= 1 /\ (t \in settled => Copies(w, t) = 0)
        BY <1>2, <2>5 DEF LoneIInv, NoFaultNoCopy, tally
      <3> QED BY <2>2, <3>6, <3>7
    <2> QED BY <2>4, <2>5 DEF StartsGranted, NoFaultNoCopy
  <1> QED BY <1>3, <1>4

\* A fault between push and ZREM makes the batch count twice, once for the list
\* and once for the sorted set.
LEMMA FaultCounts ==
  ASSUME NEW w, QueueWorkers = {w}, LoneIInv(w), QueueTyped', IsFiniteSet(scheduled'), Fault(w)
  PROVE  StartsGranted(w)' /\ NoFaultNoCopy(w)'
  <1> w \in QueueWorkers /\ QueueTyped /\ QueueTypeOK /\ IsFiniteSet(scheduled)
    BY DEF LoneIInv, QueueTyped
  <1>1. /\ hand'[w] = {} /\ runs' = runs /\ granted' = 2 * granted /\ faults' # 0
        /\ ready' = ready /\ Waiting(w)' = scheduled
    BY DEF Fault, Goto, Waiting, QueueTypeOK, redis
  <1>2. ASSUME NEW F \in SUBSET Envelopes
        PROVE  InRedis(w, F)' <= 2 * InRedis(w, F)
    <2>1. CountIn(ready, F) \in Nat /\ CountOf(Waiting(w), F) \in Nat /\ CountOf(scheduled, F) \in Nat
      BY CountsAreNat, CountOfFacts
    <2>2. /\ InRedis(w, F) = CountIn(ready, F) + CountOf(Waiting(w), F)
          /\ InRedis(w, F)' = CountIn(ready, F) + CountOf(scheduled, F)
      BY <1>1 DEF InRedis
    <2>3. CASE queuePc[w] = "remove"
      <3>1. IsFiniteSet(Waiting(w)) /\ IsFiniteSet(batch[w])
        BY CountsAreNat DEF QueueTyped, BatchesFinite
      <3>2. scheduled \subseteq Waiting(w) \cup batch[w]
        BY <2>3 DEF Waiting
      <3>3. CountOf(scheduled, F) <= CountOf(Waiting(w), F) + CountOf(batch[w], F)
        BY <3>1, <3>2, CountOfCover
      <3>4. CountOf(batch[w], F) \in Nat
        BY <3>1, CountOfFacts
      <3>5. CountOf(batch[w], F) <= CountIn(ready, F)
        BY <2>3 DEF LoneIInv, DrainInOrder
      <3> QED BY <2>1, <2>2, <3>3, <3>4, <3>5
    <2>4. CASE queuePc[w] # "remove"
      BY <2>1, <2>2, <2>4 DEF Waiting
    <2> QED BY <2>3, <2>4
  <1>3. ASSUME NEW e \in Envelopes
        PROVE  Starts(w, e)' <= granted'
    <2>1. UpTo(e) \in SUBSET Envelopes /\ Before(e) \in SUBSET Envelopes
      BY KindsOfEnvelopes
    <2>2. InRedis(w, UpTo(e))' <= 2 * InRedis(w, UpTo(e)) /\ CountOf(hand'[w], Before(e)) = 0
      BY <1>1, <1>2, <2>1, CountOfNone
    <2>3. /\ InRedis(w, UpTo(e))' \in Nat /\ InRedis(w, UpTo(e)) \in Nat
          /\ CountOf(hand[w], Before(e)) \in Nat
      BY CountsAreNat, CountsAreNatNext
    <2>4. runs[e] \in Nat /\ granted \in Nat /\ Starts(w, e) <= granted
      BY DEF QueueTypeOK, LoneIInv, StartsGranted
    <2>5. Starts(w, e) = runs[e] + InRedis(w, UpTo(e)) + CountOf(hand[w], Before(e))
      BY DEF Starts
    <2>6. Starts(w, e)' = runs[e] + InRedis(w, UpTo(e))' + CountOf(hand'[w], Before(e))
      BY <1>1 DEF Starts
    <2> QED BY <1>1, <2>2, <2>3, <2>4, <2>5, <2>6
  <1> QED BY <1>1, <1>3 DEF StartsGranted, NoFaultNoCopy

\* The drain moves its batch from the sorted set to the list; nothing else that is
\* left adds a copy.
LEMMA OtherCounts ==
  ASSUME NEW w, QueueWorkers = {w}, LoneIInv(w), QueueTyped', IsFiniteSet(scheduled'),
         \/ \E e \in Envelopes : ComesDue(e)
         \/ ReadDue(w) \/ PushBatch(w) \/ RemoveBatch(w) \/ PopTimesOut(w)
         \/ HandlerReturns(w) \/ HandlerRaises(w)
  PROVE  StartsGranted(w)' /\ NoFaultNoCopy(w)'
  <1> w \in QueueWorkers /\ QueueTyped /\ QueueTypeOK /\ IsFiniteSet(scheduled)
    BY DEF LoneIInv, QueueTyped
  <1>1. CASE PushBatch(w)
    <2>1. /\ queuePc[w] = "push" /\ queuePc'[w] = "remove" /\ batch' = batch /\ scheduled' = scheduled
          /\ hand' = hand /\ settled' = settled /\ runs' = runs /\ UNCHANGED tally
      BY <1>1 DEF PushBatch, Goto, QueueTypeOK, history
    <2>2. batch[w] \subseteq scheduled /\ batch[w] \in SUBSET Envelopes /\ IsFiniteSet(batch[w])
      BY <2>1 DEF LoneIInv, DrainInOrder, QueueTypeOK, QueueTyped, BatchesFinite
    <2>3. PICK r \in Seq(Envelopes) : r = SetToSeq(batch[w])
      <3>1. SetToSeq(batch[w]) \in Seq(batch[w])
        BY <2>2, SetToSeqLists
      <3>2. SetToSeq(batch[w]) \in Seq(Envelopes)
        BY <2>2, <3>1
      <3> QED BY <3>2
    <2>4. ASSUME NEW F \in SUBSET Envelopes
          PROVE  InRedis(w, F)' <= InRedis(w, F)
      <3>1. CountIn(ready', F) = CountIn(ready, F) + CountIn(r, F)
        BY <1>1, <2>3, CountInConcat DEF PushBatch, QueueTypeOK
      <3>2. CountIn(r, F) = CountOf(batch[w], F)
        BY <2>2, <2>3, CountInListed
      <3>3. PICK L, R : L = scheduled \ batch[w] /\ R = batch[w]
        OBVIOUS
      <3>4. scheduled = L \cup R /\ L \cap R = {}
        BY <2>2, <3>3
      <3>5. /\ CountOf(scheduled, F) = CountOf(L, F) + CountOf(R, F)
            /\ CountOf(L, F) \in Nat /\ CountOf(R, F) \in Nat
        BY <3>4, CountOfSplit
      <3>6. /\ InRedis(w, F) = CountIn(ready, F) + CountOf(scheduled, F)
            /\ InRedis(w, F)' = CountIn(ready', F) + CountOf(L, F)
        BY <2>1, <3>3 DEF InRedis, Waiting
      <3>7. CountIn(ready, F) \in Nat /\ CountIn(r, F) \in Nat
        BY <2>3, CountInFacts, CountsAreNat
      <3> QED BY <3>1, <3>2, <3>3, <3>5, <3>6, <3>7
    <2> QED BY <2>1, <2>4, NoCopyMore
  <1>2. CASE \/ \E e \in Envelopes : ComesDue(e)
             \/ ReadDue(w) \/ RemoveBatch(w) \/ PopTimesOut(w) \/ HandlerReturns(w) \/ HandlerRaises(w)
    <2>1. /\ ready' = ready /\ Waiting(w)' = Waiting(w) /\ runs' = runs /\ UNCHANGED tally
          /\ hand'[w] \subseteq hand[w]
      BY <1>2 DEF ComesDue, ReadDue, RemoveBatch, PopTimesOut, HandlerReturns, HandlerRaises, Goto,
                  Waiting, QueueTypeOK, redis, local, history
    <2>2. \A F \in SUBSET Envelopes : InRedis(w, F)' <= InRedis(w, F)
      <3> SUFFICES ASSUME NEW F \in SUBSET Envelopes PROVE InRedis(w, F)' <= InRedis(w, F)
        OBVIOUS
      <3>1. InRedis(w, F)' = InRedis(w, F)
        BY <2>1 DEF InRedis
      <3> QED BY <3>1, CountsAreNat
    <2>3. \A t \in settled' : t \in settled \/ (hand'[w] = {} /\ OfTask(t) \cap hand[w] # {})
      <3>1. CASE HandlerReturns(w)
        <4>1. hand'[w] = {} /\ hand[w] \subseteq Envelopes
          BY <3>1, HandFacts DEF HandlerReturns, QueueTypeOK
        <4> QED BY <3>1, <4>1 DEF HandlerReturns, InHand, OfTask
      <3>2. CASE settled' = settled
        BY <3>2
      <3> QED BY <1>2, <3>1, <3>2 DEF ComesDue, ReadDue, RemoveBatch, PopTimesOut, HandlerRaises, history
    <2> QED BY <2>1, <2>2, <2>3, NoCopyMore
  <1> QED BY <1>1, <1>2

-----------------------------------------------------------------------------
\* The inductive invariant of a single worker.
LEMMA LoneInvariant ==
  ASSUME NEW w, QueueWorkers = {w}
  PROVE  QueueSpec => []LoneIInv(w)
  <1>1. QueueInit => LoneIInv(w)
    <2> SUFFICES ASSUME QueueInit PROVE LoneIInv(w)
      OBVIOUS
    <2>1. QueueTyped /\ IsFiniteSet(scheduled) /\ w \in QueueWorkers
      BY QueueTypedInit, FS_EmptySet DEF QueueInit
    <2>2. /\ ready = <<>> /\ scheduled = {} /\ hand[w] = {} /\ queuePc[w] = "drain" /\ settled = {}
          /\ granted = 1 /\ \A e \in Envelopes : runs[e] = 0
      BY <2>1 DEF QueueInit
    <2>3. ASSUME NEW F PROVE InRedis(w, F) = 0 /\ CountOf(hand[w], F) = 0
      <3>1. ToSet(ready) = {} /\ ready \in Seq(Envelopes)
        BY <2>2 DEF ToSet
      <3>2. CountIn(ready, F) = 0
        BY <3>1, CountInFacts
      <3>3. Waiting(w) = {}
        BY <2>2 DEF Waiting
      <3> QED BY <2>2, <3>2, <3>3, CountOfNone DEF InRedis
    <2>4. DrainInOrder(w) /\ StartsGranted(w) /\ NoFaultNoCopy(w)
      BY <2>2, <2>3 DEF DrainInOrder, StartsGranted, Starts, NoFaultNoCopy, Copies
    <2>5. Untouched
      BY <2>2 DEF Untouched, InList, Held, ToSet, QueueInit
    <2> QED BY <2>1, <2>4, <2>5 DEF LoneIInv
  <1>2. LoneIInv(w) /\ [QueueNext]_queueVars => LoneIInv(w)'
    <2> SUFFICES ASSUME LoneIInv(w), [QueueNext]_queueVars
                  PROVE  LoneIInv(w)'
      OBVIOUS
    <2>1. QueueTyped'
      BY QueueTypedStep DEF LoneIInv
    <2>2. CASE QueueNext
      <3>1. IsFiniteSet(scheduled')
        BY <2>2, ScheduledFiniteStep DEF LoneIInv
      <3>2. DrainInOrder(w)' /\ Untouched'
        BY <2>2, DrainStep, UntouchedStep
      <3>3. StartsGranted(w)' /\ NoFaultNoCopy(w)'
        <4>1. \/ \E t \in QueueTasks, delayed \in BOOLEAN : Submit(t, delayed)
              \/ Pop(w) \/ Requeue(w) \/ Fault(w)
              \/ \E e \in Envelopes : ComesDue(e)
              \/ ReadDue(w) \/ PushBatch(w) \/ RemoveBatch(w) \/ PopTimesOut(w)
              \/ HandlerReturns(w) \/ HandlerRaises(w)
          BY <2>2 DEF QueueNext, Work
        <4> QED BY <2>1, <3>1, <4>1, SubmitCounts, PopCounts, RequeueCounts, FaultCounts, OtherCounts
      <3> QED BY <2>1, <3>1, <3>2, <3>3 DEF LoneIInv
    <2>3. CASE UNCHANGED queueVars
      <3>1. /\ ready' = ready /\ scheduled' = scheduled /\ batch' = batch /\ queuePc' = queuePc
            /\ hand' = hand /\ accepted' = accepted /\ settled' = settled /\ runs' = runs
            /\ granted' = granted /\ faults' = faults
        BY <2>3 DEF queueVars, redis, local, history, tally
      <3>2. DrainInOrder(w)' /\ Untouched' /\ IsFiniteSet(scheduled')
        BY <3>1 DEF LoneIInv, DrainInOrder, Untouched, InList, Held
      <3>3. StartsGranted(w)' /\ NoFaultNoCopy(w)'
        BY <3>1 DEF LoneIInv, StartsGranted, Starts, NoFaultNoCopy, Copies, InRedis, Waiting
      <3> QED BY <2>1, <3>2, <3>3 DEF LoneIInv
    <2> QED BY <2>2, <2>3
  <1> QED BY <1>1, <1>2, PTL DEF QueueSpec

\* With one worker, as the compose files deploy it, a fault at most doubles how
\* often an attempt is started, for any number of tasks, retries and faults; and
\* without a fault nothing of a settled task is left to be started again.
THEOREM FaultsBoundDuplicates ==
  ASSUME NEW w, QueueWorkers = {w}
  PROVE  QueueSpec => []DuplicatesAreFaults
  <1>1. LoneIInv(w) => DuplicatesAreFaults
    <2> SUFFICES ASSUME LoneIInv(w) PROVE DuplicatesAreFaults
      OBVIOUS
    <2> w \in QueueWorkers /\ QueueTyped /\ QueueTypeOK /\ IsFiniteSet(scheduled)
      BY DEF LoneIInv, QueueTyped
    <2>1. ASSUME NEW e \in Envelopes PROVE runs[e] <= granted
      <3>1. Starts(w, e) <= granted /\ runs[e] \in Nat /\ granted \in Nat
        BY DEF LoneIInv, StartsGranted, QueueTypeOK
      <3>2. InRedis(w, UpTo(e)) \in Nat /\ CountOf(hand[w], Before(e)) \in Nat
        BY CountsAreNat
      <3> QED BY <3>1, <3>2 DEF Starts
    <2>2. ASSUME faults = 0, NEW e \in Envelopes, e.task \in settled
          PROVE  e \notin hand[w] /\ e \notin ToSet(ready) \cup scheduled
      <3> DEFINE F == OfTask(e.task)
      <3>1. e \in F /\ e.task \in QueueTasks /\ F \in SUBSET Envelopes
        BY EnvelopeFacts DEF OfTask
      <3>2. Copies(w, e.task) = 0
        BY <2>2, <3>1 DEF LoneIInv, NoFaultNoCopy
      <3>3. Copies(w, e.task) = CountIn(ready, F) + CountOf(Waiting(w), F) + CountOf(hand[w], F)
        BY DEF Copies, InRedis
      <3> HIDE DEF F
      <3>4. CountIn(ready, F) = 0 /\ CountOf(Waiting(w), F) = 0 /\ CountOf(hand[w], F) = 0
        BY <3>2, <3>3, CountsAreNat
      <3>5. ToSet(ready) \cap F = {}
        BY <3>4, CountInFacts DEF QueueTypeOK
      <3>6. Waiting(w) \cap F = {} /\ hand[w] \cap F = {}
        BY <3>4, CountsAreNat, CountOfFacts
      <3>7. CASE queuePc[w] = "remove"
        <4>1. CountOf(batch[w], F) <= 0 /\ IsFiniteSet(batch[w])
          BY <3>1, <3>4, <3>7 DEF LoneIInv, DrainInOrder, QueueTyped, BatchesFinite
        <4>2. CountOf(batch[w], F) \in Nat
          BY <4>1, CountOfFacts
        <4>3. CountOf(batch[w], F) = 0
          BY <4>1, <4>2
        <4>4. batch[w] \cap F = {}
          BY <4>1, <4>3, CountOfFacts
        <4> QED BY <3>1, <3>5, <3>6, <3>7, <4>4 DEF Waiting
      <3>8. CASE queuePc[w] # "remove"
        BY <3>1, <3>5, <3>6, <3>8 DEF Waiting
      <3> QED BY <3>7, <3>8
    <2> QED BY <2>1, <2>2 DEF DuplicatesAreFaults
  <1> QED BY <1>1, LoneInvariant, PTL

-----------------------------------------------------------------------------
(***************************************************************************)
(* The queue delivers.  What lies in Redis or in the memory of a drain is  *)
(* an attempt of an accepted task each earlier one of which was started;   *)
(* what a worker has in its hand was started itself.  The rest of          *)
(* TaskQueue is hidden from TaskDelivery.                                  *)
(***************************************************************************)
Startable(e) == e.task \in accepted /\ \A f \in Before(e) : runs[f] > 0

Kept(e) == InList(e) \/ e \in scheduled \/ \E w \in QueueWorkers : e \in batch[w]

DeliveryInv ==
  /\ \A e \in Envelopes : Kept(e) => Startable(e)
  /\ \A w \in QueueWorkers : \A e \in hand[w] : Startable(e) /\ runs[e] > 0

\* What can be started can be started ever after.
LEMMA StartableStays ==
  ASSUME accepted \subseteq accepted', \A e \in Envelopes : runs[e] > 0 => runs'[e] > 0
  PROVE  \A e : Startable(e) => Startable(e)'
  BY DEF Startable, Before, Envelopes

\* A step that brings no envelope into Redis, a drain or a hand.
LEMMA NothingBrought ==
  ASSUME DeliveryInv, \A e : Startable(e) => Startable(e)', runs' = runs,
         \A e \in Envelopes : Kept(e)' => Kept(e),
         \A w \in QueueWorkers : hand'[w] \subseteq hand[w]
  PROVE  DeliveryInv'
  BY DEF DeliveryInv

\* The next attempt can be started once the one in the hand was.
LEMMA NextStartable ==
  ASSUME NEW e \in Envelopes, Startable(e), runs[e] > 0, ~ Exhausted(e)
  PROVE  Startable(NextOf(e))
  <1>1. NextOf(e).task = e.task /\ NextOf(e).attempts = e.attempts + 1
    BY NextFacts
  <1>2. ASSUME NEW f \in Before(NextOf(e)) PROVE runs[f] > 0
    <2>1. f \in Envelopes /\ f.task = e.task /\ f.attempts < e.attempts + 1
      BY <1>1, <1>2 DEF Before
    <2>2. CASE f.attempts = e.attempts
      <3>1. f = e
        BY <2>1, <2>2 DEF Envelopes
      <3> QED BY <3>1
    <2>3. CASE f.attempts # e.attempts
      <3>1. f.attempts < e.attempts
        BY <2>1, <2>3, MaxRetriesAssumption DEF Envelopes
      <3> QED BY <2>1, <3>1 DEF Startable, Before
    <2> QED BY <2>2, <2>3
  <1> QED BY <1>1, <1>2 DEF Startable

\* Every step keeps it.
LEMMA DeliveryStep ==
  ASSUME QueueTyped, DeliveryInv, [QueueNext]_queueVars
  PROVE  DeliveryInv'
  <1>0. QueueTypeOK /\ BatchesFinite /\ ready \in Seq(Envelopes)
    BY DEF QueueTyped, QueueTypeOK
  <1>1. ASSUME NEW t \in QueueTasks, NEW delayed \in BOOLEAN, Submit(t, delayed)
        PROVE  DeliveryInv'
    <2>1. \A e : Startable(e) => Startable(e)'
      BY <1>1, StartableStays DEF Submit
    <2>2. Fresh(t) \in Envelopes /\ Startable(Fresh(t))'
      <3>1. Fresh(t).task = t /\ Fresh(t).attempts = 0 /\ Fresh(t) \in Envelopes
        BY FreshFacts DEF Fresh
      <3>2. Before(Fresh(t)) = {}
        BY <3>1, MaxRetriesAssumption DEF Before, Envelopes
      <3> QED BY <1>1, <3>1, <3>2 DEF Submit, Startable, Before, Envelopes
    <2>3. \A e \in Envelopes : Kept(e)' => Kept(e) \/ e = Fresh(t)
      <3>1. CASE delayed
        BY <1>1, <3>1 DEF Submit, local, Kept, InList
      <3>2. CASE ~ delayed
        <4>1. PICK f : f = Fresh(t)
          OBVIOUS
        <4>2. ToSet(Append(ready, f)) = ToSet(ready) \cup {f}
          BY <1>0, <2>2, <4>1, ListFacts
        <4>3. ready' = Append(ready, f)
          BY <1>1, <3>2, <4>1 DEF Submit
        <4>4. ToSet(ready') = ToSet(Append(ready, f))
          BY <4>3
        <4>5. scheduled' = scheduled /\ batch' = batch
          BY <1>1, <3>2 DEF Submit, local
        <4> QED BY <4>1, <4>2, <4>4, <4>5 DEF Kept, InList
      <3> QED BY <3>1, <3>2
    <2>4. UNCHANGED <<hand, runs>>
      BY <1>1 DEF Submit, local
    <2> QED BY <2>1, <2>2, <2>3, <2>4 DEF DeliveryInv
  <1>2. ASSUME NEW e \in Envelopes, ComesDue(e)
        PROVE  DeliveryInv'
    BY <1>2, StartableStays, NothingBrought DEF ComesDue, local, history, Kept, InList
  <1>3. ASSUME NEW w \in QueueWorkers, ReadDue(w)
        PROVE  DeliveryInv'
    <2>1. \A u \in QueueWorkers : batch'[u] = IF u = w THEN due ELSE batch[u]
      BY <1>0, <1>3 DEF ReadDue, QueueTypeOK
    <2>2. due \subseteq scheduled /\ UNCHANGED <<ready, scheduled, hand, accepted, runs>>
      BY <1>0, <1>3 DEF ReadDue, QueueTypeOK, redis, history
    <2>3. \A e \in Envelopes : Kept(e)' => Kept(e)
      BY <2>1, <2>2 DEF Kept, InList
    <2> QED BY <2>2, <2>3, StartableStays, NothingBrought
  <1>4. ASSUME NEW w \in QueueWorkers, PushBatch(w)
        PROVE  DeliveryInv'
    <2>1. SetToSeq(batch[w]) \in Seq(batch[w]) /\ batch[w] \subseteq Envelopes
      BY <1>0, SetToSeqLists DEF BatchesFinite, QueueTypeOK
    <2>2. SetToSeq(batch[w]) \in Seq(Envelopes) /\ ToSet(SetToSeq(batch[w])) \subseteq batch[w]
      BY <2>1, ListFacts
    <2>3. ToSet(ready') = ToSet(ready) \cup ToSet(SetToSeq(batch[w]))
      BY <1>0, <1>4, <2>2, ListFacts DEF PushBatch
    <2>4. UNCHANGED <<scheduled, batch, hand, accepted, runs>>
      BY <1>4 DEF PushBatch, history
    <2>5. \A e \in Envelopes : Kept(e)' => Kept(e)
      BY <2>2, <2>3, <2>4 DEF Kept, InList
    <2> QED BY <2>4, <2>5, StartableStays, NothingBrought
  <1>5. ASSUME NEW w \in QueueWorkers, RemoveBatch(w)
        PROVE  DeliveryInv'
    <2>1. \A u \in QueueWorkers : batch'[u] \subseteq batch[u]
      BY <1>0, <1>5 DEF RemoveBatch, QueueTypeOK
    <2>2. scheduled' \subseteq scheduled /\ UNCHANGED <<ready, hand, accepted, runs>>
      BY <1>5 DEF RemoveBatch, history
    <2>3. \A e \in Envelopes : Kept(e)' => Kept(e)
      BY <2>1, <2>2 DEF Kept, InList
    <2> QED BY <2>2, <2>3, StartableStays, NothingBrought
  <1>6. ASSUME NEW w \in QueueWorkers, Pop(w)
        PROVE  DeliveryInv'
    <2>1. PICK h : h = Head(ready)
      OBVIOUS
    <2>2. h \in Envelopes /\ ToSet(ready) = {h} \cup ToSet(Tail(ready))
      BY <1>0, <1>6, <2>1, ListFacts DEF Pop
    <2>3. /\ ready' = Tail(ready) /\ UNCHANGED <<scheduled, batch, accepted>>
          /\ \A u \in QueueWorkers : hand'[u] = IF u = w THEN {h} ELSE hand[u]
          /\ \A f \in Envelopes : runs'[f] = IF f = h THEN runs[f] + 1 ELSE runs[f]
          /\ \A f \in Envelopes : runs[f] \in Nat
      BY <1>0, <1>6, <2>1 DEF Pop, QueueTypeOK
    <2>4. \A f \in Envelopes : runs[f] > 0 => runs'[f] > 0
      BY <2>3
    <2>5. \A e : Startable(e) => Startable(e)'
      BY <2>3, <2>4, StartableStays
    <2>6. \A e \in Envelopes : Kept(e)' => Kept(e)
      BY <2>2, <2>3 DEF Kept, InList
    <2>7. Startable(h)' /\ runs'[h] > 0
      <3>1. Kept(h)
        BY <2>2 DEF Kept, InList
      <3> QED BY <2>2, <2>3, <2>5, <3>1 DEF DeliveryInv
    <2>8. \A u \in QueueWorkers : \A e \in hand'[u] : Startable(e)' /\ runs'[e] > 0
      <3>1. ASSUME NEW u \in QueueWorkers, NEW e \in hand[u]
            PROVE  Startable(e)' /\ runs'[e] > 0
        BY <1>0, <2>4, <2>5, HandFacts DEF DeliveryInv
      <3> QED BY <2>3, <2>7, <3>1
    <2> QED BY <2>5, <2>6, <2>8 DEF DeliveryInv
  <1>7. ASSUME NEW w \in QueueWorkers, PopTimesOut(w) \/ HandlerRaises(w)
        PROVE  DeliveryInv'
    BY <1>7, StartableStays, NothingBrought
       DEF PopTimesOut, HandlerRaises, redis, history, Kept, InList
  <1>8. ASSUME NEW w \in QueueWorkers, HandlerReturns(w) \/ Fault(w)
        PROVE  DeliveryInv'
    <2>1. /\ \A u \in QueueWorkers : hand'[u] \subseteq hand[u] /\ batch'[u] \subseteq batch[u]
          /\ UNCHANGED <<ready, scheduled, accepted, runs>>
      BY <1>0, <1>8 DEF HandlerReturns, Fault, redis, QueueTypeOK
    <2>2. \A e \in Envelopes : Kept(e)' => Kept(e)
      BY <2>1 DEF Kept, InList
    <2> QED BY <2>1, <2>2, StartableStays, NothingBrought
  <1>9. ASSUME NEW w \in QueueWorkers, Requeue(w)
        PROVE  DeliveryInv'
    <2>1. PICK e \in hand[w] : e \in Envelopes /\ Requeued(e)
      BY <1>0, <1>9, RequeueFacts
    <2>2. /\ \A u \in QueueWorkers : hand'[u] \subseteq hand[u]
          /\ UNCHANGED <<batch, accepted, runs>>
      BY <1>0, <1>9 DEF Requeue, QueueTypeOK
    <2>3. \A f : Startable(f) => Startable(f)'
      BY <2>2, StartableStays
    <2>4. CASE Exhausted(e)
      <3>1. \A f \in Envelopes : Kept(f)' => Kept(f)
        BY <2>1, <2>2, <2>4 DEF Requeued, redis, Kept, InList
      <3> QED BY <2>2, <2>3, <3>1, NothingBrought
    <2>5. CASE ~ Exhausted(e)
      <3>1. PICK n : n = NextOf(e)
        OBVIOUS
      <3>2. Startable(n)
        BY <2>1, <2>5, <3>1, NextStartable DEF DeliveryInv
      <3>3. \A f \in Envelopes : Kept(f)' => Kept(f) \/ f = n
        BY <2>1, <2>2, <2>5, <3>1 DEF Requeued, Kept, InList
      <3> QED BY <2>2, <2>3, <3>2, <3>3 DEF DeliveryInv
    <2> QED BY <2>4, <2>5
  <1>10. CASE UNCHANGED queueVars
    BY <1>10, StartableStays, NothingBrought DEF queueVars, redis, local, history, Kept, InList
  <1> QED BY <1>1, <1>2, <1>3, <1>4, <1>5, <1>6, <1>7, <1>8, <1>9, <1>10 DEF QueueNext, Work

\* It holds throughout.
LEMMA DeliveryInvariant == QueueSpec => [](QueueTyped /\ DeliveryInv)
  <1>1. QueueInit => QueueTyped /\ DeliveryInv
    <2> SUFFICES ASSUME QueueInit PROVE QueueTyped /\ DeliveryInv
      OBVIOUS
    <2>1. ToSet(ready) = {}
      BY DEF QueueInit, ToSet
    <2> QED BY <2>1, QueueTypedInit DEF QueueInit, DeliveryInv, Kept, InList
  <1>2. QueueTyped /\ DeliveryInv /\ [QueueNext]_queueVars => (QueueTyped /\ DeliveryInv)'
    BY QueueTypedStep, DeliveryStep
  <1> QED BY <1>1, <1>2, PTL DEF QueueSpec
\* The workers whose handler has raised, as TaskDelivery sees them.
Failed == {w \in QueueWorkers : queuePc[w] = "failed"}

\* What a step from one place to another does to them.
LEMMA FailedAfter ==
  ASSUME QueueTypeOK, NEW w \in QueueWorkers, NEW p \in QueuePhases, Goto(w, p)
  PROVE  Failed' = IF p = "failed" THEN Failed \cup {w} ELSE Failed \ {w}
  BY DEF QueueTypeOK, Goto, Failed

\* The empty queue maps to the initial state of TaskDelivery.
LEMMA DeliveryInit == QueueInit => Delivery!Init
  BY DEF QueueInit, Delivery!Init, Delivery!Attempts, Envelopes

\* A step of TaskDelivery of which nothing is seen.
LEMMA DeliveryStutters ==
  ASSUME UNCHANGED <<accepted, settled, lost, runs, hand>>, Failed' = Failed
  PROVE  [Delivery!Next]_(Delivery!vars)
  BY DEF Delivery!vars, Failed

\* Every step of the queue is a step of TaskDelivery or none.
LEMMA DeliveryMaps ==
  ASSUME QueueTyped, DeliveryInv, [QueueNext]_queueVars
  PROVE  [Delivery!Next]_(Delivery!vars)
  <1>0. /\ QueueTypeOK /\ OneInHand /\ ready \in Seq(Envelopes)
        /\ Delivery!Attempts = Envelopes
        /\ \A w \in QueueWorkers : hand[w] # {} <=> queuePc[w] \in {"run", "failed"}
    BY DEF QueueTyped, QueueTypeOK, Delivery!Attempts, Envelopes
  <1>1. ASSUME NEW t \in QueueTasks, NEW delayed \in BOOLEAN, Submit(t, delayed)
        PROVE  Delivery!Next
    <2>1. Delivery!Accept(t)
      BY <1>1 DEF Submit, local, Delivery!Accept
    <2> QED BY <2>1 DEF Delivery!Next
  <1>2. ASSUME NEW e \in Envelopes, ComesDue(e)
        PROVE  [Delivery!Next]_(Delivery!vars)
    BY <1>2, DeliveryStutters DEF ComesDue, local, history, Failed
  <1>3. ASSUME NEW w \in QueueWorkers,
               ReadDue(w) \/ PushBatch(w) \/ RemoveBatch(w) \/ PopTimesOut(w)
        PROVE  [Delivery!Next]_(Delivery!vars)
    <2>1. PICK p \in QueuePhases : p # "failed" /\ Goto(w, p)
      BY <1>3 DEF ReadDue, PushBatch, RemoveBatch, PopTimesOut, QueuePhases
    <2>2. w \notin Failed /\ UNCHANGED <<accepted, settled, lost, runs, hand>>
      BY <1>3 DEF ReadDue, PushBatch, RemoveBatch, PopTimesOut, history, Failed
    <2>3. Failed' = Failed
      BY <1>0, <2>1, <2>2, FailedAfter
    <2> QED BY <2>2, <2>3, DeliveryStutters
  <1>4. ASSUME NEW w \in QueueWorkers, Pop(w)
        PROVE  Delivery!Next
    <2>1. PICK h : h = Head(ready)
      OBVIOUS
    <2>2. h \in Envelopes /\ ToSet(ready) = {h} \cup ToSet(Tail(ready))
      BY <1>0, <1>4, <2>1, ListFacts DEF Pop
    <2>3. Startable(h)
      BY <2>2 DEF DeliveryInv, Kept, InList
    <2>4. Failed' = Failed
      <3>1. w \notin Failed /\ Goto(w, "run")
        BY <1>4 DEF Pop, Failed
      <3> QED BY <1>0, <3>1, FailedAfter DEF QueuePhases
    <2>5. hand[w] = {}
      BY <1>0, <1>4 DEF Pop
    <2>6. /\ hand' = [hand EXCEPT ![w] = {h}] /\ runs' = [runs EXCEPT ![h] = @ + 1]
          /\ UNCHANGED <<accepted, settled, lost>>
      BY <1>4, <2>1 DEF Pop
    <2>7. Delivery!Earlier(h) = Before(h)
      BY <1>0 DEF Delivery!Earlier, Before
    <2>8. Delivery!Start(w, h)
      BY <2>3, <2>4, <2>5, <2>6, <2>7 DEF Delivery!Start, Startable, Failed
    <2> QED BY <1>0, <2>2, <2>8 DEF Delivery!Next
  <1>5. ASSUME NEW w \in QueueWorkers, HandlerReturns(w)
        PROVE  Delivery!Next
    <2>1. w \notin Failed /\ hand[w] # {} /\ Goto(w, "drain")
      BY <1>0, <1>5 DEF HandlerReturns, Failed
    <2>2. Failed' = Failed \ {w}
      BY <1>0, <2>1, FailedAfter DEF QueuePhases
    <2>3. Delivery!Return(w)
      BY <1>5, <2>1, <2>2
         DEF HandlerReturns, InHand, Delivery!Return, Delivery!Ends, Delivery!TasksOf, Failed
    <2> QED BY <2>3 DEF Delivery!Next
  <1>6. ASSUME NEW w \in QueueWorkers, HandlerRaises(w)
        PROVE  Delivery!Next
    <2>1. w \notin Failed /\ hand[w] # {} /\ Goto(w, "failed")
      BY <1>0, <1>6 DEF HandlerRaises, Failed
    <2>2. Failed' = Failed \cup {w}
      BY <1>0, <2>1, FailedAfter DEF QueuePhases
    <2>3. Delivery!Raise(w)
      BY <1>6, <2>1, <2>2 DEF HandlerRaises, history, Delivery!Raise, Failed
    <2> QED BY <2>3 DEF Delivery!Next
  <1>7. ASSUME NEW w \in QueueWorkers, Requeue(w)
        PROVE  Delivery!Next
    <2>1. w \in Failed /\ hand[w] # {} /\ Goto(w, "drain")
      BY <1>0, <1>7 DEF Requeue, Failed
    <2>2. Failed' = Failed \ {w}
      BY <1>0, <2>1, FailedAfter DEF QueuePhases
    <2>3. PICK e \in hand[w] : e \in Envelopes /\ Requeued(e)
      BY <1>0, <1>7, RequeueFacts
    <2>4. \A f \in hand[w] : f = e
      BY <1>0, <2>3 DEF OneInHand
    <2>5. /\ hand' = [hand EXCEPT ![w] = {}]
          /\ UNCHANGED <<accepted, lost, runs>>
      BY <1>7 DEF Requeue
    <2>6. Delivery!Ends(w)
      BY <2>1, <2>2, <2>5 DEF Delivery!Ends, Failed
    <2>7. CASE Exhausted(e)
      <3>1. e.attempts = MaxRetries
        BY <2>3, <2>7, EnvelopeFacts, MaxRetriesAssumption DEF Exhausted
      <3>2. settled' = settled \cup Delivery!TasksOf(w)
        <4>1. settled' = settled \cup {e.task}
          BY <2>3, <2>7 DEF Requeued
        <4>2. Delivery!TasksOf(w) = {e.task}
          BY <2>3, <2>4 DEF Delivery!TasksOf
        <4> QED BY <4>1, <4>2
      <3>3. Delivery!GiveUp(w)
        BY <2>1, <2>4, <2>5, <2>6, <3>1, <3>2 DEF Delivery!GiveUp, Failed
      <3> QED BY <3>3 DEF Delivery!Next
    <2>8. CASE ~ Exhausted(e)
      <3>1. e.attempts < MaxRetries
        BY <2>3, <2>8, EnvelopeFacts, MaxRetriesAssumption DEF Exhausted
      <3>2. settled' = settled
        BY <2>3, <2>8 DEF Requeued
      <3>3. Delivery!Retry(w)
        BY <2>1, <2>4, <2>5, <2>6, <3>1, <3>2 DEF Delivery!Retry, Failed
      <3> QED BY <3>3 DEF Delivery!Next
    <2> QED BY <2>7, <2>8
  <1>8. ASSUME NEW w \in QueueWorkers, Fault(w)
        PROVE  [Delivery!Next]_(Delivery!vars)
    <2>1. Failed' = Failed \ {w}
      <3>1. Goto(w, "drain")
        BY <1>8 DEF Fault
      <3> QED BY <1>0, <3>1, FailedAfter DEF QueuePhases
    <2>2. CASE hand[w] # {}
      <3>1. Delivery!Lose(w)
        BY <1>8, <2>1, <2>2
           DEF Fault, InHand, Delivery!Lose, Delivery!Ends, Delivery!TasksOf, Failed
      <3> QED BY <3>1 DEF Delivery!Next
    <2>3. CASE hand[w] = {}
      <3>1. w \notin Failed
        BY <1>0, <2>3 DEF Failed
      <3>2. Failed' = Failed
        BY <2>1, <3>1
      <3>3. hand' = hand
        BY <1>0, <1>8, <2>3 DEF Fault, QueueTypeOK
      <3>4. UNCHANGED <<accepted, settled, lost, runs>>
        BY <1>8, <2>3 DEF Fault, InHand
      <3> QED BY <3>2, <3>3, <3>4, DeliveryStutters
    <2> QED BY <2>2, <2>3
  <1>9. CASE UNCHANGED queueVars
    BY <1>9, DeliveryStutters DEF queueVars, local, history, Failed
  <1> QED BY <1>1, <1>2, <1>3, <1>4, <1>5, <1>6, <1>7, <1>8, <1>9 DEF QueueNext, Work

\* Each task is started, retried, given up, settled or lost as TaskDelivery allows,
\* for any number of tasks, workers, retries and faults: the lists of Redis, the
\* drains that race and the copies that faults leave start nothing out of order and
\* give nothing up early.
THEOREM QueueDelivers == QueueSpec => ImplementsDelivery
  <1>1. QueueTyped /\ DeliveryInv /\ [QueueNext]_queueVars => [Delivery!Next]_(Delivery!vars)
    BY DeliveryMaps
  <1> QED BY <1>1, DeliveryInit, DeliveryInvariant, PTL
          DEF QueueSpec, ImplementsDelivery, Delivery!Spec

=============================================================================
