-------------------------- MODULE BillingWebhooks --------------------------
(***************************************************************************)
(* The plan of one organization and the webhooks of Polar that change it.  *)
(* The receiver (api/billing_webhooks.py) stores an event and queues it;   *)
(* a worker (services/billing_webhook_worker.py) loads the stored event,   *)
(* its handler (services/billing_webhook_service.py) changes the plan and  *)
(* commits, and then the worker commits the event as processed.            *)
(*                                                                         *)
(* The unique key of a stored event is the id of the event's data: for an  *)
(* event of a subscription, the subscription's id.                         *)
(*                                                                         *)
(* The handlers lock the plan's row, but with an object their session has  *)
(* loaded just before (get_or_create_organization_plan): the locking query *)
(* does not refresh it, and the UPDATE writes the columns that differ from *)
(* what was loaded.                                                        *)
(***************************************************************************)
EXTENDS Integers, Sequences, FiniteSets

CONSTANTS
    Subs,            \* subscriptions the organization may take out
    NoSub,
    BillingWorkers,  \* queue workers
    MaxEvents,       \* bound: events Polar emits
    MaxRequeues,     \* rq_dispatch_max_retries
    MaxLosses        \* bound: failures of Redis, of a handler or of a worker

ASSUME BillingAssumption ==
    /\ NoSub \notin Subs
    /\ MaxEvents \in Nat /\ MaxRequeues \in Nat /\ MaxLosses \in Nat

VARIABLES
    polar,     \* status of each subscription at Polar
    emitted,   \* what Polar has emitted, oldest first; its place is its modified_at
    wire,      \* events Polar has still to deliver
    records,   \* polar_webhook_events: status of each event that is stored
    jobs,      \* queue of events to process, with their attempts
    plan,      \* the row of organization_plans
    receipts,  \* rows of billing_checkout_attempts for each subscription
    desk,      \* what a worker is doing
    losses,
    dropped,   \* history: stored events that lost their place in the queue
    once,      \* history: the plan, had every event been handled once
    handled,   \* history: events whose handler has committed
    unsure     \* history: a handler worked on an old row, or past_due or revoked turned the
               \* plan's time back

billingVars == <<polar, emitted, wire, records, jobs, plan, receipts, desk, losses,
                 dropped, once, handled, unsure>>

Trial == [tier |-> "trial", until |-> "trialEnd",
          meta |-> [sub |-> NoSub, status |-> "none", stamp |-> 0]]
Idle == [phase |-> "idle", event |-> 0, attempts |-> 0, loaded |-> Trial]

-----------------------------------------------------------------------------
(***************************************************************************)
(* Polar.                                                                  *)
(***************************************************************************)
Change(type, from, to) == [type |-> type, from |-> from, to |-> to]
Changes == {
    Change("active", "none", "active"),
    Change("canceled", "active", "canceled"),
    Change("uncanceled", "canceled", "active"),
    Change("past_due", "active", "past_due"),
    Change("revoked", "active", "revoked"),
    Change("revoked", "past_due", "revoked"),
    Change("revoked", "canceled", "revoked"),
    Change("updated", "active", "active"),
    Change("updated", "canceled", "canceled")}

PolarEmits(s, c) ==
    /\ Len(emitted) < MaxEvents
    /\ polar[s] = c.from
    /\ polar' = [polar EXCEPT ![s] = c.to]
    /\ emitted' = Append(emitted, [type |-> c.type, sub |-> s, status |-> c.to])
    /\ wire' = wire \cup {Len(emitted')}
    /\ UNCHANGED <<records, jobs, plan, receipts, desk, losses, dropped, once, handled, unsure>>

-----------------------------------------------------------------------------
(***************************************************************************)
(* handle_polar_webhook.  A receiver that fails between its COMMIT and the *)
(* queue is asked again, and then answers "duplicate": the event stays as  *)
(* it does when Redis refuses it, stored and not queued.                   *)
(***************************************************************************)
Stored == DOMAIN records
Duplicate(e) == \E f \in Stored : emitted[f].sub = emitted[e].sub

ReceiveDuplicate(e) ==
    /\ e \in wire
    /\ Duplicate(e)
    /\ wire' = wire \ {e}
    /\ UNCHANGED <<polar, emitted, records, jobs, plan, receipts, desk, losses, dropped, once,
                   handled, unsure>>

StoreEvent(e, queued) ==
    /\ e \in wire
    /\ ~ Duplicate(e)
    /\ wire' = wire \ {e}
    /\ records' = [f \in Stored \cup {e} |-> IF f = e THEN "pending" ELSE records[f]]
    /\ IF queued
         THEN /\ jobs' = jobs \cup {[event |-> e, attempts |-> 0]}
              /\ UNCHANGED <<losses, dropped>>
         ELSE /\ losses < MaxLosses
              /\ losses' = losses + 1
              /\ dropped' = dropped \cup {e}
              /\ UNCHANGED jobs
    /\ UNCHANGED <<polar, emitted, plan, receipts, desk, once, handled, unsure>>

-----------------------------------------------------------------------------
(***************************************************************************)
(* The handlers: the guards of each, and what it makes of the plan.        *)
(***************************************************************************)
TakesPro(e) == \/ emitted[e].type \in {"active", "uncanceled"}
               \/ emitted[e].type = "updated" /\ emitted[e].status = "active"
Schedules(e) == \/ emitted[e].type = "canceled"
                \/ emitted[e].type = "updated" /\ emitted[e].status = "canceled"
Revokes(e) == emitted[e].type = "revoked"

\* Mutant: nothing compares the event with the last one.
AnyOrder(p, e) == TRUE

\* _should_process_event, asked by all but revoked and past_due, and
\* _is_current_subscription, asked by revoked and canceled.
InOrder(p, e) == emitted[e].type \in {"revoked", "past_due"} \/ e >= p.meta.stamp
IsCurrent(p, e) ==
    emitted[e].type \in {"revoked", "canceled"} => p.meta.sub \in {NoSub, emitted[e].sub}

\* The end of the paid period stands also for the present when it has passed.
Handled(p, e) ==
    IF ~ (InOrder(p, e) /\ IsCurrent(p, e)) THEN p
    ELSE [tier |-> IF TakesPro(e) THEN "pro" ELSE IF Revokes(e) THEN "trial" ELSE p.tier,
          until |-> IF TakesPro(e) THEN "open" ELSE IF Revokes(e) THEN "ended"
                    ELSE IF Schedules(e) THEN "periodEnd" ELSE p.until,
          meta |-> [sub |-> IF emitted[e].type = "active" THEN emitted[e].sub ELSE p.meta.sub,
                    status |-> emitted[e].status,
                    stamp |-> e]]

\* Columns that a handler sets to a value with the current time in it differ from
\* what was loaded even if the model shows no difference.
Timed(p, e) ==
    IF ~ (InOrder(p, e) /\ IsCurrent(p, e)) THEN {}
    ELSE CASE emitted[e].type = "active" -> {"meta"}
           [] Revokes(e) -> {"until"}
           [] OTHER -> {}

\* The UPDATE of a session that loaded the plan as p.
Updated(p, e) ==
    [c \in DOMAIN plan |->
        IF c \in Timed(p, e) \/ Handled(p, e)[c] # p[c] THEN Handled(p, e)[c] ELSE plan[c]]

-----------------------------------------------------------------------------
(***************************************************************************)
(* process_billing_webhook_task.                                           *)
(***************************************************************************)
At(w, phase) == desk[w].phase = phase
Leave(w) == desk' = [desk EXCEPT ![w] = Idle]

\* The session loads the event and, in the handler, the plan; nothing is locked.
TakeJob(w, j) ==
    /\ At(w, "idle")
    /\ j \in jobs
    /\ jobs' = jobs \ {j}
    /\ IF records[j.event] = "processed"
         THEN UNCHANGED desk
         ELSE desk' = [desk EXCEPT ![w] = [phase |-> "loaded", event |-> j.event,
                                           attempts |-> j.attempts, loaded |-> plan]]
    /\ UNCHANGED <<polar, emitted, wire, records, plan, receipts, losses, dropped, once,
                   handled, unsure>>

\* The row of a subscription is looked up before one is added.
Receipt(s) == IF receipts[s] = 0 THEN [receipts EXCEPT ![s] = 1] ELSE receipts

\* The lock, the handler and its COMMIT.
Handle(w) ==
    LET e == desk[w].event
        p == desk[w].loaded
        active == emitted[e].type = "active" /\ InOrder(p, e)
    IN /\ At(w, "loaded")
       /\ plan' = Updated(p, e)
       /\ receipts' = IF active THEN Receipt(emitted[e].sub) ELSE receipts
       /\ desk' = [desk EXCEPT ![w].phase = "handled"]
       /\ once' = IF e \in handled THEN once ELSE Handled(once, e)
       /\ handled' = handled \cup {e}
       /\ unsure' = \/ unsure
                    \/ p # plan
                    \/ emitted[e].type \in {"revoked", "past_due"} /\ plan'.meta.stamp < plan.meta.stamp
       /\ UNCHANGED <<polar, emitted, wire, records, jobs, losses, dropped>>

\* The COMMIT of the event as processed.
FinishJob(w) ==
    /\ At(w, "handled")
    /\ records' = [records EXCEPT ![desk[w].event] = "processed"]
    /\ Leave(w)
    /\ UNCHANGED <<polar, emitted, wire, jobs, plan, receipts, losses, dropped, once,
                   handled, unsure>>

\* Mutant: an exception ends in the worker.
JobSwallowed(w) ==
    /\ ~ At(w, "idle")
    /\ losses < MaxLosses
    /\ losses' = losses + 1
    /\ records' = [records EXCEPT ![desk[w].event] = "failed"]
    /\ Leave(w)
    /\ UNCHANGED <<polar, emitted, wire, jobs, plan, receipts, dropped, once, handled, unsure>>

\* A handler raises before its COMMIT, or the worker's own COMMIT fails: the
\* exception reaches the queue, which runs the event again.
JobRaises(w) ==
    LET e == desk[w].event IN
    /\ ~ At(w, "idle")
    /\ losses < MaxLosses
    /\ losses' = losses + 1
    /\ records' = IF At(w, "loaded") THEN [records EXCEPT ![e] = "failed"] ELSE records
    /\ IF desk[w].attempts < MaxRequeues
         THEN /\ jobs' = jobs \cup {[event |-> e, attempts |-> desk[w].attempts + 1]}
              /\ UNCHANGED dropped
         ELSE /\ dropped' = dropped \cup {e}
              /\ UNCHANGED jobs
    /\ Leave(w)
    /\ UNCHANGED <<polar, emitted, wire, plan, receipts, once, handled, unsure>>

\* A worker dies with the event it has popped; another takes its place.
WorkerDies(w) ==
    /\ ~ At(w, "idle")
    /\ losses < MaxLosses
    /\ losses' = losses + 1
    /\ dropped' = dropped \cup {desk[w].event}
    /\ Leave(w)
    /\ UNCHANGED <<polar, emitted, wire, records, jobs, plan, receipts, once, handled, unsure>>

-----------------------------------------------------------------------------
BillingInit ==
    /\ polar = [s \in Subs |-> "none"]
    /\ emitted = <<>> /\ wire = {} /\ records = <<>> /\ jobs = {}
    /\ plan = Trial /\ once = Trial
    /\ receipts = [s \in Subs |-> 0]
    /\ desk = [w \in BillingWorkers |-> Idle]
    /\ losses = 0 /\ dropped = {} /\ handled = {} /\ unsure = FALSE

Receive(e) == ReceiveDuplicate(e) \/ \E queued \in BOOLEAN : StoreEvent(e, queued)

BillingWork(w) == (\E j \in jobs : TakeJob(w, j)) \/ Handle(w) \/ FinishJob(w)

BillingNext ==
    \/ \E s \in Subs, c \in Changes : PolarEmits(s, c)
    \/ \E e \in wire : Receive(e)
    \/ \E w \in BillingWorkers : BillingWork(w) \/ JobRaises(w) \/ WorkerDies(w)

BillingSpec == BillingInit /\ [][BillingNext]_billingVars

-----------------------------------------------------------------------------
Plans == [tier : {"trial", "pro"}, until : {"trialEnd", "open", "ended", "periodEnd"},
          meta : [sub : Subs \cup {NoSub}, stamp : 0..MaxEvents,
                  status : {"none", "active", "canceled", "past_due", "revoked"}]]

BillingTypeOK ==
    /\ plan \in Plans /\ once \in Plans
    /\ wire \subseteq DOMAIN emitted \ Stored
    /\ records \in [Stored -> {"pending", "failed", "processed"}]
    /\ receipts \in [Subs -> 0..1]
    /\ plan.meta.sub # NoSub => receipts[plan.meta.sub] = 1
    /\ losses \in 0..MaxLosses

\* A stored event waits in the queue once, is in one worker's hands, or has been
\* processed, unless it lost its place: to Redis when it was stored, to the death
\* of a worker, to the retry limit.  Nothing else comes back for a stored event.
StoredIsUnderWay ==
    \A e \in Stored :
        Cardinality({j \in jobs : j.event = e})
            + Cardinality({w \in BillingWorkers : desk[w].event = e})
            + (IF records[e] = "processed" THEN 1 ELSE 0)
        = IF e \in dropped THEN 0 ELSE 1

\* "Worker can safely re-process same event_id without duplicates"
\* (docs/architecture/billing-polar-integration.md:43): an event handled again,
\* after a worker failed between the COMMIT of the plan and the one of the event,
\* leaves the plan as if each had been handled once, whatever was handled in
\* between.  Excepted are handlers that worked on a row another had changed since
\* they loaded it, and the two that turn the plan's time back (past_due, revoked).
ReplaysChangeNothing == unsure \/ plan = once

-----------------------------------------------------------------------------
\* "`subscription.revoked` ... tier=trial_7d (immediate block)"
\* (docs/architecture/billing-polar-integration.md:63): once all is delivered and
\* processed, nothing was lost and every subscription is revoked, the organization
\* is not on pro.  The revocation has the key of the first event of its
\* subscription and is dropped as a duplicate.
RevokedIsBlocked ==
    /\ wire = {} /\ jobs = {} /\ losses = 0
    /\ \A w \in BillingWorkers : At(w, "idle")
    /\ \A s \in Subs : polar[s] \in {"none", "revoked"}
    => plan.tier = "trial"

=============================================================================
