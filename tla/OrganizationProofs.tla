-------------------------- MODULE OrganizationProofs --------------------------
(***************************************************************************)
(* Proofs about an organization, for any subscriptions, workers, agents,   *)
(* users, invites, limits and bounds: what pays for its plan (the webhooks *)
(* of Polar, BillingWebhooks), what the plan limits (the usage ledger,     *)
(* TokenLedger), who may come in, and when an owner is left (Membership).  *)
(***************************************************************************)
EXTENDS BillingWebhooks, TokenLedger, Membership, FiniteSetTheorems, TLAPS

-----------------------------------------------------------------------------
(***************************************************************************)
(* The webhooks.  The inductive invariant.                                 *)
(***************************************************************************)
Statuses == {"none", "active", "canceled", "past_due", "revoked"}
Events == [type : {"active", "canceled", "uncanceled", "past_due", "revoked", "updated"},
           sub : Subs, status : Statuses]
Jobs == [event : Stored, attempts : 0..MaxRequeues]
Desks == [phase : {"idle", "loaded", "handled"}, event : 0..MaxEvents,
          attempts : 0..MaxRequeues, loaded : Plans]

EventsTyped ==
  /\ emitted \in Seq(Events) /\ Len(emitted) <= MaxEvents
  /\ Stored \subseteq 1..Len(emitted)
  /\ jobs \subseteq Jobs
  /\ desk \in [BillingWorkers -> Desks]
  /\ \A w \in BillingWorkers : IF At(w, "idle") THEN desk[w].event = 0 ELSE desk[w].event \in Stored
  /\ handled \subseteq Stored /\ unsure \in BOOLEAN

\* The subscription of a plan has its row of billing_checkout_attempts.
Receipted(p) == p.meta.sub # NoSub => receipts[p.meta.sub] = 1

BillingTyped ==
  BillingTypeOK /\ EventsTyped /\ \A w \in BillingWorkers : Receipted(desk[w].loaded)

\* The unique key of a stored event is its subscription's.
OneEventEach == \A e, f \in Stored : emitted[e].sub = emitted[f].sub => e = f

\* The only place of a stored event.
JobsOf(e) == {j \in jobs : j.event = e}
WorkersOf(e) == {w \in BillingWorkers : desk[w].event = e}
HasPlace(e) ==
  \/ e \in dropped /\ JobsOf(e) = {} /\ WorkersOf(e) = {} /\ records[e] # "processed"
  \/ /\ e \notin dropped
     /\ \/ (\E j \in jobs : JobsOf(e) = {j}) /\ WorkersOf(e) = {} /\ records[e] # "processed"
        \/ JobsOf(e) = {} /\ (\E w \in BillingWorkers : WorkersOf(e) = {w}) /\ records[e] # "processed"
        \/ JobsOf(e) = {} /\ WorkersOf(e) = {} /\ records[e] = "processed"

Places == dropped \subseteq Stored /\ \A e \in Stored : HasPlace(e)

\* Handling the event again changes nothing, or turns the plan's time back.
Replays(p, e) ==
  \/ Handled(p, e) = p
  \/ emitted[e].type \in {"revoked", "past_due"} /\ Handled(p, e).meta.stamp < p.meta.stamp

ReplaysKnown == ~ unsure => plan = once /\ \A e \in handled : Replays(plan, e)

BillingIInv == BillingTyped /\ OneEventEach /\ Places /\ ReplaysKnown

-----------------------------------------------------------------------------
(***************************************************************************)
(* The handlers.                                                           *)
(***************************************************************************)
LEMMA TrialIsPlan == Trial \in Plans /\ Idle \in Desks
  BY BillingAssumption DEF Trial, Idle, Plans, Desks

\* An event that passes the guards of its handler.
Passes(p, e) == InOrder(p, e) /\ IsCurrent(p, e)

\* What a handler makes of a plan, column by column.
LEMMA HandledFacts ==
  ASSUME NEW p \in Plans, NEW e \in 0..MaxEvents, emitted[e] \in Events
  PROVE  /\ Handled(p, e) \in Plans
         /\ ~ Passes(p, e) => Handled(p, e) = p
         /\ Passes(p, e) =>
              /\ Handled(p, e).tier = IF TakesPro(e) THEN "pro" ELSE IF Revokes(e) THEN "trial" ELSE p.tier
              /\ Handled(p, e).until = IF TakesPro(e) THEN "open" ELSE IF Revokes(e) THEN "ended"
                                       ELSE IF Schedules(e) THEN "periodEnd" ELSE p.until
              /\ Handled(p, e).meta.sub = IF emitted[e].type = "active" THEN emitted[e].sub ELSE p.meta.sub
              /\ Handled(p, e).meta.status = emitted[e].status
              /\ Handled(p, e).meta.stamp = e
  <1>1. CASE Passes(p, e)
    <2> DEFINE paid == IF TakesPro(e) THEN "pro" ELSE IF Revokes(e) THEN "trial" ELSE p.tier
               until == IF TakesPro(e) THEN "open" ELSE IF Revokes(e) THEN "ended"
                        ELSE IF Schedules(e) THEN "periodEnd" ELSE p.until
               meta == [sub |-> IF emitted[e].type = "active" THEN emitted[e].sub ELSE p.meta.sub,
                        status |-> emitted[e].status, stamp |-> e]
    <2>1. Handled(p, e) = [tier |-> paid, until |-> until, meta |-> meta]
      BY <1>1 DEF Handled, Passes
    <2>2. paid \in {"trial", "pro"} /\ until \in {"trialEnd", "open", "ended", "periodEnd"}
      BY DEF Plans
    <2>3. meta \in [sub : Subs \cup {NoSub}, stamp : 0..MaxEvents,
                    status : {"none", "active", "canceled", "past_due", "revoked"}]
      BY DEF Plans, Events, Statuses
    <2> HIDE DEF paid, until
    <2>4. Handled(p, e) \in Plans
      BY <2>1, <2>2, <2>3 DEF Plans
    <2> QED BY <1>1, <2>1, <2>4 DEF paid, until
  <1>2. CASE ~ Passes(p, e)
    BY <1>2 DEF Handled, Passes
  <1> QED BY <1>1, <1>2

\* Two plans are the same if their columns are.
LEMMA PlansEqual ==
  ASSUME NEW p \in Plans, NEW r \in Plans,
         p.tier = r.tier, p.until = r.until, p.meta.sub = r.meta.sub,
         p.meta.status = r.meta.status, p.meta.stamp = r.meta.stamp
  PROVE  p = r
  <1>1. p.meta = r.meta
    BY DEF Plans
  <1> QED BY <1>1 DEF Plans

\* The UPDATE writes columns of the handler's plan and leaves others as they are;
\* of a session that loaded the present row it is the handler's plan.
LEMMA UpdatedFacts ==
  ASSUME plan \in Plans, NEW p \in Plans, NEW e \in 0..MaxEvents, emitted[e] \in Events
  PROVE  /\ Updated(p, e) \in Plans
         /\ Updated(p, e).meta \in {Handled(p, e).meta, plan.meta}
         /\ Passes(p, e) /\ emitted[e].type = "active" => Updated(p, e).meta = Handled(p, e).meta
         /\ p = plan => Updated(p, e) = Handled(p, e)
  <1> DEFINE h == Handled(p, e)
             u == Updated(p, e)
  <1>1. h \in Plans
    BY HandledFacts
  <1> HIDE DEF h
  <1>2. DOMAIN plan = {"tier", "until", "meta"}
    BY DEF Plans
  <1>3. u = [c \in {"tier", "until", "meta"} |->
               IF c \in Timed(p, e) \/ h[c] # p[c] THEN h[c] ELSE plan[c]]
    BY <1>2 DEF Updated, h
  <1>4. u = [tier |-> IF "tier" \in Timed(p, e) \/ h.tier # p.tier THEN h.tier ELSE plan.tier,
             until |-> IF "until" \in Timed(p, e) \/ h.until # p.until THEN h.until ELSE plan.until,
             meta |-> IF "meta" \in Timed(p, e) \/ h.meta # p.meta THEN h.meta ELSE plan.meta]
    BY <1>3
  <1> HIDE DEF u
  <1>5. u.tier \in {h.tier, plan.tier} /\ u.until \in {h.until, plan.until}
        /\ u.meta \in {h.meta, plan.meta} /\ u = [tier |-> u.tier, until |-> u.until, meta |-> u.meta]
    BY <1>4
  <1>6. u \in Plans
    BY <1>1, <1>5 DEF Plans
  <1>7. ASSUME Passes(p, e), emitted[e].type = "active" PROVE u.meta = h.meta
    <2>1. "meta" \in Timed(p, e)
      BY <1>7 DEF Timed, Passes, Revokes
    <2> QED BY <1>4, <2>1
  <1>8. ASSUME p = plan PROVE u = h
    <2>1. u.tier = h.tier /\ u.until = h.until /\ u.meta = h.meta
      BY <1>4, <1>8
    <2> QED BY <1>1, <1>6, <2>1 DEF Plans
  <1> QED BY <1>5, <1>6, <1>7, <1>8 DEF h, u

-----------------------------------------------------------------------------
(***************************************************************************)
(* Events handled again.                                                   *)
(***************************************************************************)
\* An event that has just been handled is handled again to no effect.
LEMMA HandledTwice ==
  ASSUME NEW p \in Plans, NEW e \in 0..MaxEvents, emitted[e] \in Events
  PROVE  Handled(Handled(p, e), e) = Handled(p, e)
  <1> DEFINE q == Handled(p, e)
  <1>1. q \in Plans
    BY HandledFacts
  <1>2. CASE ~ Passes(p, e)
    BY <1>2, HandledFacts
  <1>3. CASE Passes(p, e)
    <2>1. /\ q.tier = IF TakesPro(e) THEN "pro" ELSE IF Revokes(e) THEN "trial" ELSE p.tier
          /\ q.until = IF TakesPro(e) THEN "open" ELSE IF Revokes(e) THEN "ended"
                       ELSE IF Schedules(e) THEN "periodEnd" ELSE p.until
          /\ q.meta.sub = IF emitted[e].type = "active" THEN emitted[e].sub ELSE p.meta.sub
          /\ q.meta.status = emitted[e].status
          /\ q.meta.stamp = e
      BY <1>3, HandledFacts
    <2> HIDE DEF q
    <2>2. CASE Passes(q, e)
      <3> DEFINE h == Handled(q, e)
      <3>1. /\ h.tier = IF TakesPro(e) THEN "pro" ELSE IF Revokes(e) THEN "trial" ELSE q.tier
            /\ h.until = IF TakesPro(e) THEN "open" ELSE IF Revokes(e) THEN "ended"
                         ELSE IF Schedules(e) THEN "periodEnd" ELSE q.until
            /\ h.meta.sub = IF emitted[e].type = "active" THEN emitted[e].sub ELSE q.meta.sub
            /\ h.meta.status = emitted[e].status
            /\ h.meta.stamp = e
            /\ h \in Plans
        BY <1>1, <2>2, HandledFacts
      <3> HIDE DEF h
      <3>2. h = q
        BY <1>1, <2>1, <3>1, PlansEqual
      <3> QED BY <3>2 DEF h, q
    <2>3. CASE ~ Passes(q, e)
      BY <1>1, <2>3, HandledFacts DEF q
    <2> QED BY <2>2, <2>3
  <1> QED BY <1>2, <1>3

\* What handling e again would do survives another event that is handled, because
\* stored events are of different subscriptions and time does not go back.
LEMMA ReplayKept ==
  ASSUME NEW p \in Plans, NEW e \in 0..MaxEvents, NEW f \in 0..MaxEvents,
         emitted[e] \in Events, emitted[f] \in Events, emitted[e].sub # emitted[f].sub,
         Replays(p, e),
         emitted[f].type \in {"revoked", "past_due"} => ~ (Handled(p, f).meta.stamp < p.meta.stamp)
  PROVE  Replays(Handled(p, f), e)
  <1> DEFINE q == Handled(p, f)
  <1>1. q \in Plans
    BY HandledFacts
  <1>2. CASE ~ Passes(p, f)
    BY <1>2, HandledFacts
  <1>3. CASE Passes(p, f)
    <2>1. /\ q.meta.stamp = f
          /\ q.meta.sub = IF emitted[f].type = "active" THEN emitted[f].sub ELSE p.meta.sub
      BY <1>3, HandledFacts
    <2>2. p.meta.stamp \in Nat /\ e \in Nat /\ f \in Nat /\ p.meta.stamp <= f
      BY <1>3, <2>1, BillingAssumption DEF Plans, Passes, InOrder
    <2> HIDE DEF q
    <2>3. CASE ~ Passes(q, e)
      BY <1>1, <2>3, HandledFacts DEF Replays, q
    <2>4. CASE Passes(q, e) /\ e < f
      <3>1. emitted[e].type \in {"revoked", "past_due"}
        BY <2>1, <2>2, <2>4 DEF Passes, InOrder
      <3>2. Handled(q, e).meta.stamp = e
        BY <1>1, <2>4, HandledFacts
      <3> QED BY <2>1, <2>4, <3>1, <3>2 DEF Replays, q
    <2>5. CASE Passes(q, e) /\ e > f
      <3>1. ~ Passes(p, e)
        <4>1. SUFFICES ASSUME Passes(p, e) PROVE FALSE
          OBVIOUS
        <4>2. Handled(p, e).meta.stamp = e
          BY <4>1, HandledFacts
        <4> QED BY <2>2, <2>5, <4>2 DEF Replays
      <3>2. ~ IsCurrent(p, e)
        BY <2>2, <2>5, <3>1 DEF Passes, InOrder
      <3>3. emitted[f].sub # NoSub
        BY BillingAssumption DEF Events
      <3>4. ~ IsCurrent(q, e)
        BY <2>1, <3>2, <3>3 DEF IsCurrent
      <3> QED BY <2>5, <3>4 DEF Passes
    <2>6. e # f
      OBVIOUS
    <2> QED BY <2>2, <2>3, <2>4, <2>5, <2>6
  <1> QED BY <1>2, <1>3

\* An event that Polar has emitted does not change.
LEMMA SameEvent ==
  ASSUME NEW e, emitted'[e] = emitted[e], NEW p
  PROVE  /\ Handled(p, e)' = Handled(p, e)
         /\ Replays(p, e)' <=> Replays(p, e)
  <1>1. Handled(p, e)' = Handled(p, e)
    BY DEF Handled, InOrder, IsCurrent, TakesPro, Revokes, Schedules
  <1> QED BY <1>1 DEF Replays

-----------------------------------------------------------------------------
(***************************************************************************)
(* Typing.                                                                 *)
(***************************************************************************)
LEMMA BillingTypedInit == BillingInit => BillingTyped
  <1> SUFFICES ASSUME BillingInit PROVE BillingTyped
    OBVIOUS
  <1>1. Stored = {} /\ DOMAIN emitted = {} /\ Len(emitted) = 0 /\ emitted \in Seq(Events)
    BY DEF BillingInit, Stored
  <1>2. BillingTypeOK
    <2>1. records \in [Stored -> {"pending", "failed", "processed"}]
      BY <1>1 DEF BillingInit, Stored
    <2>2. plan.meta.sub = NoSub
      BY DEF BillingInit, Trial
    <2> QED BY <1>1, <2>1, <2>2, TrialIsPlan, BillingAssumption DEF BillingInit, BillingTypeOK
  <1>3. \A w \in BillingWorkers : desk[w] = Idle /\ desk[w] \in Desks
    BY TrialIsPlan DEF BillingInit
  <1>4. EventsTyped
    <2>1. \A w \in BillingWorkers : At(w, "idle") /\ desk[w].event = 0
      BY <1>3 DEF At, Idle
    <2>2. desk \in [BillingWorkers -> Desks]
      BY TrialIsPlan DEF BillingInit
    <2>3. jobs = {} /\ handled = {} /\ unsure = FALSE /\ Len(emitted) <= MaxEvents
      BY <1>1, BillingAssumption DEF BillingInit
    <2> QED BY <1>1, <2>1, <2>2, <2>3 DEF EventsTyped
  <1>5. ASSUME NEW w \in BillingWorkers PROVE Receipted(desk[w].loaded)
    BY <1>3 DEF Receipted, Idle, Trial
  <1> QED BY <1>2, <1>4, <1>5 DEF BillingTyped

\* What is known of an event that is stored.
LEMMA StoredEvent ==
  ASSUME EventsTyped, NEW e \in Stored
  PROVE  e \in 1..Len(emitted) /\ e \in 0..MaxEvents /\ e # 0 /\ emitted[e] \in Events
  <1>1. e \in 1..Len(emitted) /\ Len(emitted) \in Nat /\ Len(emitted) <= MaxEvents
        /\ emitted[e] \in Events
    BY DEF EventsTyped
  <1> QED BY <1>1, BillingAssumption

\* What is known of a worker at work.
LEMMA AtWork ==
  ASSUME BillingTyped, NEW w \in BillingWorkers, ~ At(w, "idle")
  PROVE  /\ desk[w].event \in Stored /\ desk[w].event \in 0..MaxEvents /\ desk[w].event # 0
         /\ emitted[desk[w].event] \in Events
         /\ desk[w].loaded \in Plans /\ desk[w].attempts \in 0..MaxRequeues
         /\ Receipted(desk[w].loaded)
  <1>1. desk[w] \in Desks /\ desk[w].event \in Stored /\ EventsTyped
    BY DEF BillingTyped, EventsTyped
  <1> QED BY <1>1, StoredEvent DEF BillingTyped, Desks

\* A step of one worker leaves the desks of the others.
LEMMA DeskFacts ==
  ASSUME BillingTyped, NEW w \in BillingWorkers, NEW d, desk' = [desk EXCEPT ![w] = d]
  PROVE  desk'[w] = d /\ \A v \in BillingWorkers : v # w => desk'[v] = desk[v]
  BY DEF BillingTyped, EventsTyped

\* A step of one worker that leaves the events, the plan and the rows of the
\* subscriptions alone.
LEMMA DeskTyped ==
  ASSUME BillingTyped, NEW w \in BillingWorkers, NEW d \in Desks,
         desk' = [desk EXCEPT ![w] = d],
         UNCHANGED <<emitted, wire, plan, receipts, once, handled, unsure>>,
         records' \in [Stored -> {"pending", "failed", "processed"}],
         jobs' \subseteq Jobs, losses' \in 0..MaxLosses,
         IF d.phase = "idle" THEN d.event = 0 ELSE d.event \in Stored,
         Receipted(d.loaded)
  PROVE  BillingTyped'
  <1>1. desk'[w] = d /\ \A v \in BillingWorkers : v # w => desk'[v] = desk[v]
    BY DeskFacts
  <1>2. Stored' = Stored /\ DOMAIN emitted' = DOMAIN emitted
    BY DEF Stored
  <1>3. BillingTypeOK'
    BY <1>2 DEF BillingTyped, BillingTypeOK
  <1>4. desk' \in [BillingWorkers -> Desks]
    BY DEF BillingTyped, EventsTyped
  <1>5. ASSUME NEW v \in BillingWorkers
        PROVE  /\ IF desk'[v].phase = "idle" THEN desk'[v].event = 0 ELSE desk'[v].event \in Stored
               /\ desk'[v].loaded.meta.sub # NoSub => receipts'[desk'[v].loaded.meta.sub] = 1
    BY <1>1 DEF BillingTyped, EventsTyped, At, Receipted
  <1>6. EventsTyped'
    BY <1>2, <1>4, <1>5 DEF BillingTyped, EventsTyped, At, Jobs, Desks, Plans, Events, Statuses
  <1> QED BY <1>3, <1>5, <1>6 DEF BillingTyped, Receipted

\* A new event keeps the types, and those stored are what they were.
LEMMA EmitTyped ==
  ASSUME BillingTyped, NEW s \in Subs, NEW c \in Changes, PolarEmits(s, c)
  PROVE  BillingTyped' /\ \A e \in Stored : emitted'[e] = emitted[e]
  <1> DEFINE event == [type |-> c.type, sub |-> s, status |-> c.to]
  <1>1. event \in Events /\ emitted \in Seq(Events) /\ Len(emitted) < MaxEvents
    BY DEF Changes, Change, Events, Statuses, PolarEmits, BillingTyped, EventsTyped
  <1>2. emitted' = Append(emitted, event)
    BY DEF PolarEmits
  <1> HIDE DEF event
  <1>3. /\ emitted' \in Seq(Events) /\ Len(emitted') = Len(emitted) + 1 /\ Len(emitted) \in Nat
        /\ DOMAIN emitted = 1..Len(emitted) /\ DOMAIN emitted' = 1..Len(emitted) + 1
        /\ \A e \in 1..Len(emitted) : emitted'[e] = emitted[e]
    BY <1>1, <1>2
  <1>4. UNCHANGED <<records, jobs, plan, receipts, desk, losses, dropped, once, handled, unsure>>
        /\ wire' = wire \cup {Len(emitted')}
    BY DEF PolarEmits
  <1>5. wire' \subseteq DOMAIN emitted' \ Stored
    BY <1>3, <1>4 DEF BillingTyped, BillingTypeOK, EventsTyped
  <1>6. BillingTypeOK'
    BY <1>4, <1>5 DEF BillingTyped, BillingTypeOK, Stored
  <1>7. Stored \subseteq 1..Len(emitted') /\ Len(emitted') <= MaxEvents
    BY <1>1, <1>3, BillingAssumption DEF BillingTyped, EventsTyped
  <1>8. EventsTyped'
    <2>1. Stored' = Stored /\ Jobs' = Jobs
      BY <1>4 DEF Stored, Jobs
    <2> QED BY <1>3, <1>4, <1>7, <2>1 DEF BillingTyped, EventsTyped, At
  <1>9. \A w \in BillingWorkers : Receipted(desk[w].loaded)'
    BY <1>4 DEF BillingTyped, Receipted
  <1> QED BY <1>3, <1>6, <1>8, <1>9 DEF BillingTyped, EventsTyped

\* A delivery keeps the types.
LEMMA ReceiveTyped ==
  ASSUME BillingTyped, NEW e \in wire, Receive(e)
  PROVE  BillingTyped'
  <1>1. CASE ReceiveDuplicate(e)
    <2>1. /\ wire' = wire \ {e}
          /\ UNCHANGED <<emitted, records, jobs, plan, receipts, desk, losses, once, handled, unsure>>
      BY <1>1 DEF ReceiveDuplicate
    <2>2. Stored' = Stored /\ Jobs' = Jobs
      BY <2>1 DEF Stored, Jobs
    <2>3. BillingTypeOK'
      BY <2>1, <2>2 DEF BillingTyped, BillingTypeOK
    <2>4. EventsTyped'
      BY <2>1, <2>2 DEF BillingTyped, EventsTyped, At
    <2> QED BY <2>1, <2>3, <2>4 DEF BillingTyped, Receipted
  <1>2. ASSUME NEW queued \in BOOLEAN, StoreEvent(e, queued) PROVE BillingTyped'
    <2>1. /\ wire' = wire \ {e}
          /\ records' = [f \in Stored \cup {e} |-> IF f = e THEN "pending" ELSE records[f]]
          /\ UNCHANGED <<emitted, plan, receipts, desk, once, handled, unsure>>
      BY <1>2 DEF StoreEvent
    <2>2. losses' \in 0..MaxLosses
      BY <1>2, BillingAssumption DEF StoreEvent, BillingTyped, BillingTypeOK
    <2>3. Stored' = Stored \cup {e} /\ e \in 1..Len(emitted)
      BY <2>1 DEF Stored, BillingTyped, BillingTypeOK, EventsTyped
    <2>4. jobs' \subseteq [event : Stored \cup {e}, attempts : 0..MaxRequeues]
      <3>1. [event |-> e, attempts |-> 0] \in [event : Stored \cup {e}, attempts : 0..MaxRequeues]
        BY BillingAssumption
      <3>2. jobs \subseteq [event : Stored \cup {e}, attempts : 0..MaxRequeues]
        BY DEF BillingTyped, EventsTyped, Jobs
      <3> QED BY <1>2, <3>1, <3>2 DEF StoreEvent
    <2>5. records' \in [Stored' -> {"pending", "failed", "processed"}]
      <3>1. records \in [Stored -> {"pending", "failed", "processed"}]
        BY DEF BillingTyped, BillingTypeOK
      <3> QED BY <2>1, <2>3, <3>1
    <2>6. BillingTypeOK'
      BY <2>1, <2>2, <2>3, <2>5 DEF BillingTyped, BillingTypeOK
    <2>7. EventsTyped'
      BY <2>1, <2>3, <2>4 DEF BillingTyped, EventsTyped, Jobs, At
    <2> QED BY <2>1, <2>6, <2>7 DEF BillingTyped, Receipted
  <1> QED BY <1>1, <1>2 DEF Receive

\* Taking a job keeps the types.
LEMMA TakeTyped ==
  ASSUME BillingTyped, NEW w \in BillingWorkers, NEW j \in jobs, TakeJob(w, j)
  PROVE  BillingTyped'
  <1>1. /\ UNCHANGED <<emitted, wire, records, plan, receipts, losses, once, handled, unsure>>
        /\ jobs' \subseteq Jobs /\ j \in Jobs
        /\ records' \in [Stored -> {"pending", "failed", "processed"}] /\ losses' \in 0..MaxLosses
    BY DEF TakeJob, BillingTyped, EventsTyped, BillingTypeOK
  <1>2. PICK d \in Desks :
          /\ desk' = [desk EXCEPT ![w] = d] /\ Receipted(d.loaded)
          /\ IF d.phase = "idle" THEN d.event = 0 ELSE d.event \in Stored
    <2>1. CASE records[j.event] = "processed"
      <3>1. desk' = desk /\ desk \in [BillingWorkers -> Desks] /\ Receipted(desk[w].loaded)
            /\ IF desk[w].phase = "idle" THEN desk[w].event = 0 ELSE desk[w].event \in Stored
        BY <2>1 DEF TakeJob, BillingTyped, EventsTyped, At
      <3>2. desk' = [desk EXCEPT ![w] = desk[w]] /\ desk[w] \in Desks
        BY <3>1
      <3> QED BY <3>1, <3>2
    <2>2. CASE records[j.event] # "processed"
      <3> DEFINE d == [phase |-> "loaded", event |-> j.event, attempts |-> j.attempts, loaded |-> plan]
      <3>1. desk' = [desk EXCEPT ![w] = d]
        BY <2>2 DEF TakeJob
      <3>2. j.event \in Stored /\ j.attempts \in 0..MaxRequeues /\ plan \in Plans
        BY <1>1 DEF Jobs, BillingTyped, BillingTypeOK
      <3>3. j.event \in 0..MaxEvents
        BY <3>2, StoredEvent DEF BillingTyped
      <3>4. d \in Desks /\ Receipted(d.loaded)
        BY <3>2, <3>3 DEF Desks, Receipted, BillingTyped, BillingTypeOK
      <3> QED BY <3>1, <3>2, <3>4
    <2> QED BY <2>1, <2>2
  <1> QED BY <1>1, <1>2, DeskTyped

\* What a handler commits.
LEMMA HandleFacts ==
  ASSUME BillingTyped, NEW w \in BillingWorkers, Handle(w),
         NEW e, e = desk[w].event, NEW p, p = desk[w].loaded
  PROVE  /\ e \in Stored /\ e \in 0..MaxEvents /\ emitted[e] \in Events /\ p \in Plans
         /\ plan' = Updated(p, e) /\ plan' \in Plans
         /\ desk' = [desk EXCEPT ![w].phase = "handled"]
         /\ desk'[w].event = e /\ desk'[w].loaded = p /\ desk'[w].phase = "handled"
         /\ desk'[w] \in Desks
         /\ \A v \in BillingWorkers : v # w => desk'[v] = desk[v]
         /\ UNCHANGED <<emitted, wire, records, jobs, losses, dropped>>
  <1>1. /\ e \in Stored /\ e \in 0..MaxEvents /\ emitted[e] \in Events /\ p \in Plans
    BY AtWork DEF Handle, At
  <1>2. plan' = Updated(p, e) /\ desk' = [desk EXCEPT ![w].phase = "handled"]
        /\ UNCHANGED <<emitted, wire, records, jobs, losses, dropped>>
    BY DEF Handle
  <1>3. plan' \in Plans
    BY <1>1, <1>2, UpdatedFacts DEF BillingTyped, BillingTypeOK
  <1>4. desk[w] \in Desks
    BY DEF BillingTyped, EventsTyped
  <1> DEFINE d == [desk[w] EXCEPT !.phase = "handled"]
  <1>5. d \in Desks /\ d.event = e /\ d.loaded = p /\ d.phase = "handled"
    BY <1>4 DEF Desks
  <1>6. desk' = [desk EXCEPT ![w] = d]
    BY <1>2
  <1>7. desk'[w] = d /\ \A v \in BillingWorkers : v # w => desk'[v] = desk[v]
    BY <1>6, DeskFacts
  <1> QED BY <1>1, <1>2, <1>3, <1>5, <1>7

\* A row of a subscription stays, and a plan that takes on a subscription has one.
LEMMA HandleTyped ==
  ASSUME BillingTyped, NEW w \in BillingWorkers, Handle(w)
  PROVE  BillingTyped'
  <1> SUFFICES ASSUME NEW e, e = desk[w].event, NEW p, p = desk[w].loaded
                PROVE  BillingTyped'
    OBVIOUS
  <1>1. /\ e \in Stored /\ e \in 0..MaxEvents /\ emitted[e] \in Events /\ p \in Plans
        /\ plan' = Updated(p, e) /\ plan' \in Plans
        /\ desk'[w].event = e /\ desk'[w].loaded = p /\ desk'[w].phase = "handled"
        /\ desk'[w] \in Desks
        /\ \A v \in BillingWorkers : v # w => desk'[v] = desk[v]
        /\ UNCHANGED <<emitted, wire, records, jobs, losses, dropped>>
    BY HandleFacts
  <1>2. /\ receipts \in [Subs -> 0..1] /\ plan \in Plans /\ once \in Plans
        /\ Receipted(p) /\ Receipted(plan)
    BY DEF BillingTyped, BillingTypeOK, Receipted
  <1> DEFINE active == emitted[e].type = "active" /\ InOrder(p, e)
  <1>3. /\ receipts' = IF active THEN Receipt(emitted[e].sub) ELSE receipts
        /\ once' = IF e \in handled THEN once ELSE Handled(once, e)
        /\ handled' = handled \cup {e} /\ unsure' \in BOOLEAN
    BY DEF Handle
  <1>4. /\ receipts' \in [Subs -> 0..1]
        /\ \A s \in Subs : receipts[s] = 1 => receipts'[s] = 1
        /\ active => receipts'[emitted[e].sub] = 1
    <2>1. emitted[e].sub \in Subs
      BY <1>1 DEF Events
    <2>2. CASE active
      BY <1>2, <1>3, <2>1, <2>2 DEF Receipt
    <2>3. CASE ~ active
      BY <1>2, <1>3, <2>3
    <2> QED BY <2>2, <2>3
  <1> HIDE DEF active
  <1>5. ASSUME NEW r \in Plans, Receipted(r)
        PROVE  r.meta.sub # NoSub => receipts'[r.meta.sub] = 1
    <2>1. r.meta.sub \in Subs \cup {NoSub}
      BY DEF Plans
    <2> QED BY <1>4, <1>5, <2>1 DEF Receipted
  <1>6. plan'.meta.sub # NoSub => receipts'[plan'.meta.sub] = 1
    <2>1. CASE plan'.meta = plan.meta
      BY <1>2, <1>5, <2>1
    <2>2. CASE plan'.meta = Handled(p, e).meta
      <3>1. CASE ~ Passes(p, e)
        BY <1>1, <1>2, <1>5, <2>2, <3>1, HandledFacts
      <3>2. CASE Passes(p, e)
        <4>1. plan'.meta.sub = IF emitted[e].type = "active" THEN emitted[e].sub ELSE p.meta.sub
          BY <1>1, <2>2, <3>2, HandledFacts
        <4>2. emitted[e].type = "active" => active
          BY <3>2 DEF active, Passes
        <4> QED BY <1>1, <1>2, <1>4, <1>5, <4>1, <4>2
      <3> QED BY <3>1, <3>2
    <2>3. plan'.meta \in {Handled(p, e).meta, plan.meta}
      BY <1>1, <1>2, UpdatedFacts
    <2> QED BY <2>1, <2>2, <2>3
  <1>7. once' \in Plans
    BY <1>1, <1>2, <1>3, HandledFacts
  <1>8. Stored' = Stored /\ Jobs' = Jobs
    BY <1>1 DEF Stored, Jobs
  <1>9. BillingTypeOK'
    BY <1>1, <1>4, <1>6, <1>7, <1>8 DEF BillingTyped, BillingTypeOK
  <1>10. EventsTyped'
    <2>1. desk' \in [BillingWorkers -> Desks]
      BY <1>1 DEF Handle, BillingTyped, EventsTyped
    <2>2. \A v \in BillingWorkers :
            IF desk'[v].phase = "idle" THEN desk'[v].event = 0 ELSE desk'[v].event \in Stored
      BY <1>1 DEF BillingTyped, EventsTyped, At
    <2> QED BY <1>1, <1>3, <1>8, <2>1, <2>2 DEF BillingTyped, EventsTyped, At
  <1>11. ASSUME NEW v \in BillingWorkers PROVE Receipted(desk[v].loaded)'
    <2>1. PICK r \in Plans : desk'[v].loaded = r /\ Receipted(r)
      <3>1. CASE v = w
        BY <1>1, <1>2, <3>1
      <3>2. CASE v # w
        BY <1>1, <3>2 DEF BillingTyped, EventsTyped, Desks
      <3> QED BY <3>1, <3>2
    <2> QED BY <1>5, <2>1 DEF Receipted
  <1> QED BY <1>9, <1>10, <1>11 DEF BillingTyped

\* A worker that leaves its event is idle, and holds no plan.
LEMMA LeaveTyped ==
  ASSUME BillingTyped, NEW w \in BillingWorkers, FinishJob(w) \/ JobRaises(w) \/ WorkerDies(w)
  PROVE  BillingTyped'
  <1>1. ~ At(w, "idle") /\ desk' = [desk EXCEPT ![w] = Idle]
        /\ UNCHANGED <<emitted, wire, plan, receipts, once, handled, unsure>>
    BY DEF FinishJob, JobRaises, WorkerDies, Leave, At
  <1>2. desk[w].event \in Stored /\ desk[w].attempts \in 0..MaxRequeues
    BY <1>1, AtWork
  <1>3. records \in [Stored -> {"pending", "failed", "processed"}] /\ losses \in 0..MaxLosses
        /\ jobs \subseteq Jobs
    BY DEF BillingTyped, BillingTypeOK, EventsTyped
  <1>4. records' \in [Stored -> {"pending", "failed", "processed"}]
    BY <1>3 DEF FinishJob, JobRaises, WorkerDies
  <1>5. losses' \in 0..MaxLosses
    BY <1>3, BillingAssumption DEF FinishJob, JobRaises, WorkerDies
  <1>6. jobs' \subseteq Jobs
    <2>1. ASSUME desk[w].attempts < MaxRequeues
          PROVE  [event |-> desk[w].event, attempts |-> desk[w].attempts + 1] \in Jobs
      BY <1>2, <2>1, BillingAssumption DEF Jobs
    <2> QED BY <1>3, <2>1 DEF FinishJob, JobRaises, WorkerDies
  <1>7. /\ Idle \in Desks /\ Idle.phase = "idle" /\ Idle.event = 0 /\ Receipted(Idle.loaded)
    BY TrialIsPlan DEF Idle, Trial, Receipted
  <1> QED BY <1>1, <1>4, <1>5, <1>6, <1>7, DeskTyped

-----------------------------------------------------------------------------
(***************************************************************************)
(* Places of stored events.                                                *)
(***************************************************************************)
\* An event that no step has moved.
LEMMA PlaceKept ==
  ASSUME NEW e, HasPlace(e), JobsOf(e)' = JobsOf(e), WorkersOf(e)' = WorkersOf(e),
         records'[e] = records[e], e \in dropped' <=> e \in dropped
  PROVE  HasPlace(e)'
  <1>1. CASE e \in dropped
    BY <1>1 DEF HasPlace
  <1>2. CASE e \notin dropped /\ (\E j \in jobs : JobsOf(e) = {j})
    <2>1. PICK j \in jobs : JobsOf(e) = {j}
      BY <1>2
    <2>2. JobsOf(e)' = {j} /\ j \in jobs' /\ WorkersOf(e)' = {} /\ records'[e] # "processed"
          /\ e \notin dropped'
      <3>1. JobsOf(e)' = {j}
        BY <2>1
      <3>2. j \in jobs'
        BY <3>1 DEF JobsOf
      <3>3. JobsOf(e) # {} /\ e \notin dropped
        BY <1>2, <2>1
      <3>4. WorkersOf(e) = {} /\ records[e] # "processed"
        BY <3>3 DEF HasPlace
      <3> QED BY <3>1, <3>2, <3>3, <3>4
    <2> QED BY <2>2 DEF HasPlace
  <1>3. CASE e \notin dropped /\ JobsOf(e) = {}
    BY <1>3 DEF HasPlace
  <1> QED BY <1>1, <1>2, <1>3 DEF HasPlace

\* An event that is nowhere but where the step puts it.
LEMMA PlaceTaken ==
  ASSUME NEW e,
         \/ e \in dropped' /\ JobsOf(e)' = {} /\ WorkersOf(e)' = {} /\ records'[e] # "processed"
         \/ /\ e \notin dropped' /\ records'[e] # "processed" /\ WorkersOf(e)' = {}
            /\ \E j \in jobs' : JobsOf(e)' = {j}
         \/ /\ e \notin dropped' /\ records'[e] # "processed" /\ JobsOf(e)' = {}
            /\ \E w \in BillingWorkers : WorkersOf(e)' = {w}
         \/ /\ e \notin dropped' /\ records'[e] = "processed" /\ JobsOf(e)' = {}
            /\ WorkersOf(e)' = {}
  PROVE  HasPlace(e)'
  BY DEF HasPlace

\* An event that waits in the queue is nowhere else, nor is one in a worker's hands.
LEMMA InQueue ==
  ASSUME NEW e, HasPlace(e), NEW j \in jobs, j.event = e
  PROVE  JobsOf(e) = {j} /\ WorkersOf(e) = {} /\ records[e] # "processed" /\ e \notin dropped
  BY DEF HasPlace, JobsOf

\* An event in the hands of a worker is nowhere else.
LEMMA InHands ==
  ASSUME NEW e, HasPlace(e), NEW w \in BillingWorkers, desk[w].event = e
  PROVE  JobsOf(e) = {} /\ WorkersOf(e) = {w} /\ records[e] # "processed" /\ e \notin dropped
  BY DEF HasPlace, WorkersOf

\* What leaves table, queue and desks alone leaves every place.
LEMMA EmitPlaces ==
  ASSUME Places, UNCHANGED <<records, jobs, desk, dropped>>
  PROVE  Places'
  <1>1. Stored' = Stored
    BY DEF Stored
  <1>2. ASSUME NEW e \in Stored PROVE HasPlace(e)'
    <2>1. JobsOf(e)' = JobsOf(e) /\ WorkersOf(e)' = WorkersOf(e)
      BY DEF JobsOf, WorkersOf
    <2> QED BY <2>1, PlaceKept DEF Places
  <1> QED BY <1>1, <1>2 DEF Places

\* A new event has one place: the queue, or none if the enqueue failed.
LEMMA StorePlaces ==
  ASSUME BillingTyped, Places, NEW e \in wire, NEW queued \in BOOLEAN, StoreEvent(e, queued)
  PROVE  Places'
  <1>1. /\ records' = [f \in Stored \cup {e} |-> IF f = e THEN "pending" ELSE records[f]]
        /\ desk' = desk
    BY DEF StoreEvent
  <1>2. e \notin Stored /\ e # 0 /\ Stored' = Stored \cup {e}
    BY <1>1 DEF BillingTyped, BillingTypeOK, EventsTyped, Stored
  <1>3. IF queued THEN jobs' = jobs \cup {[event |-> e, attempts |-> 0]} /\ dropped' = dropped
                  ELSE jobs' = jobs /\ dropped' = dropped \cup {e}
    BY DEF StoreEvent
  <1>4. JobsOf(e) = {} /\ WorkersOf(e) = {} /\ e \notin dropped
    BY <1>2 DEF JobsOf, WorkersOf, Places, BillingTyped, EventsTyped, Jobs
  <1>5. HasPlace(e)'
    <2>1. WorkersOf(e)' = {} /\ records'[e] # "processed"
      BY <1>1, <1>4 DEF WorkersOf
    <2>2. CASE queued
      <3> DEFINE j == [event |-> e, attempts |-> 0]
      <3>1. j \in jobs' /\ JobsOf(e)' = {j} /\ e \notin dropped'
        BY <1>3, <1>4, <2>2 DEF JobsOf
      <3> QED BY <2>1, <3>1, PlaceTaken
    <2>3. CASE ~ queued
      <3>1. JobsOf(e)' = {} /\ e \in dropped'
        BY <1>3, <1>4, <2>3 DEF JobsOf
      <3> QED BY <2>1, <3>1, PlaceTaken
    <2> QED BY <2>2, <2>3
  <1>6. ASSUME NEW f \in Stored PROVE HasPlace(f)'
    <2>1. f # e
      BY <1>2
    <2>2. JobsOf(f)' = JobsOf(f) /\ WorkersOf(f)' = WorkersOf(f)
      BY <1>1, <1>3, <2>1 DEF JobsOf, WorkersOf
    <2>3. records'[f] = records[f] /\ (f \in dropped' <=> f \in dropped)
      BY <1>1, <1>3, <2>1
    <2> QED BY <2>2, <2>3, PlaceKept DEF Places
  <1> QED BY <1>2, <1>3, <1>5, <1>6 DEF Places

\* A job passes from the queue into the worker's hands.
LEMMA TakePlaces ==
  ASSUME BillingTyped, Places, NEW w \in BillingWorkers, NEW j \in jobs, TakeJob(w, j)
  PROVE  Places'
  <1> SUFFICES ASSUME NEW e, e = j.event PROVE Places'
    OBVIOUS
  <1>1. e \in Stored /\ desk[w].event = 0 /\ e # 0 /\ 0 \notin Stored
    BY DEF TakeJob, At, BillingTyped, EventsTyped, Jobs
  <1>2. JobsOf(e) = {j} /\ WorkersOf(e) = {} /\ records[e] # "processed" /\ e \notin dropped
    BY <1>1, InQueue DEF Places
  <1> DEFINE d == [phase |-> "loaded", event |-> j.event, attempts |-> j.attempts, loaded |-> plan]
  <1>3. jobs' = jobs \ {j} /\ UNCHANGED <<records, dropped>> /\ desk' = [desk EXCEPT ![w] = d]
    BY <1>2 DEF TakeJob
  <1>4. desk'[w].event = e /\ \A v \in BillingWorkers : v # w => desk'[v] = desk[v]
    <2>1. d.event = e
      OBVIOUS
    <2> HIDE DEF d
    <2>2. desk'[w] = d /\ \A v \in BillingWorkers : v # w => desk'[v] = desk[v]
      BY <1>3, DeskFacts
    <2> QED BY <2>1, <2>2
  <1>5. HasPlace(e)'
    <2>1. JobsOf(e)' = {}
      BY <1>2, <1>3 DEF JobsOf
    <2>2. WorkersOf(e)' = {w}
      BY <1>2, <1>4 DEF WorkersOf
    <2> QED BY <1>2, <1>3, <2>1, <2>2, PlaceTaken
  <1>6. ASSUME NEW f \in Stored, f # e PROVE HasPlace(f)'
    <2>1. JobsOf(f)' = JobsOf(f) /\ WorkersOf(f)' = WorkersOf(f)
      BY <1>1, <1>3, <1>4, <1>6 DEF JobsOf, WorkersOf
    <2> QED BY <1>3, <2>1, PlaceKept DEF Places
  <1>7. Stored' = Stored
    BY <1>3 DEF Stored
  <1> QED BY <1>3, <1>5, <1>6, <1>7 DEF Places

\* The handler leaves the event where it is.
LEMMA HandlePlaces ==
  ASSUME BillingTyped, Places, NEW w \in BillingWorkers, Handle(w)
  PROVE  Places'
  <1>1. /\ \A v \in BillingWorkers : desk'[v].event = desk[v].event
        /\ UNCHANGED <<records, jobs, dropped>>
    <2>1. PICK e, p : e = desk[w].event /\ p = desk[w].loaded
      OBVIOUS
    <2> QED BY <2>1, HandleFacts
  <1>2. ASSUME NEW e \in Stored PROVE HasPlace(e)'
    <2>1. JobsOf(e)' = JobsOf(e) /\ WorkersOf(e)' = WorkersOf(e)
      BY <1>1 DEF JobsOf, WorkersOf
    <2> QED BY <1>1, <2>1, PlaceKept DEF Places
  <1>3. Stored' = Stored
    BY <1>1 DEF Stored
  <1> QED BY <1>1, <1>2, <1>3 DEF Places

\* The event that a worker leaves is processed, goes back to the queue or is dropped.
LEMMA LeavePlaces ==
  ASSUME BillingTyped, Places, NEW w \in BillingWorkers,
         FinishJob(w) \/ JobRaises(w) \/ WorkerDies(w)
  PROVE  Places'
  <1> SUFFICES ASSUME NEW e, e = desk[w].event PROVE Places'
    OBVIOUS
  <1>1. ~ At(w, "idle") /\ desk' = [desk EXCEPT ![w] = Idle]
    BY DEF FinishJob, JobRaises, WorkerDies, Leave, At
  <1>2. e \in Stored /\ e # 0 /\ 0 \notin Stored
    BY <1>1, AtWork DEF BillingTyped, EventsTyped
  <1>3. JobsOf(e) = {} /\ WorkersOf(e) = {w} /\ records[e] # "processed" /\ e \notin dropped
    BY <1>2, InHands DEF Places
  <1>4. desk'[w].event = 0 /\ \A v \in BillingWorkers : v # w => desk'[v] = desk[v]
    <2>1. desk'[w] = Idle /\ \A v \in BillingWorkers : v # w => desk'[v] = desk[v]
      BY <1>1, DeskFacts
    <2> QED BY <2>1 DEF Idle
  <1>5. WorkersOf(e)' = {}
    BY <1>2, <1>3, <1>4 DEF WorkersOf
  <1>6. /\ Stored' = Stored
        /\ \A f \in Stored : f # e => records'[f] = records[f]
        /\ dropped' \subseteq dropped \cup {e} /\ dropped \subseteq dropped'
        /\ \A j \in jobs : j \in jobs'
        /\ \A j \in jobs' : j \in jobs \/ j.event = e
    BY DEF FinishJob, JobRaises, WorkerDies, Stored, BillingTyped, BillingTypeOK
  <1>7. HasPlace(e)'
    <2>1. CASE FinishJob(w)
      <3>1. records' = [records EXCEPT ![e] = "processed"] /\ jobs' = jobs /\ dropped' = dropped
        BY <2>1 DEF FinishJob
      <3>2. records'[e] = "processed"
        BY <1>2, <3>1 DEF BillingTyped, BillingTypeOK
      <3>3. JobsOf(e)' = {}
        BY <1>3, <3>1 DEF JobsOf
      <3> QED BY <1>3, <1>5, <3>1, <3>2, <3>3, PlaceTaken
    <2>2. CASE JobRaises(w)
      <3>1. records'[e] # "processed"
        BY <1>2, <1>3, <2>2 DEF JobRaises, BillingTyped, BillingTypeOK
      <3>2. CASE desk[w].attempts < MaxRequeues
        <4> DEFINE j == [event |-> e, attempts |-> desk[w].attempts + 1]
        <4>1. jobs' = jobs \cup {j} /\ dropped' = dropped
          BY <2>2, <3>2 DEF JobRaises
        <4>2. JobsOf(e)' = {j} /\ j \in jobs'
          BY <1>3, <4>1 DEF JobsOf
        <4> QED BY <1>3, <1>5, <3>1, <4>1, <4>2, PlaceTaken
      <3>3. CASE ~ desk[w].attempts < MaxRequeues
        <4>1. jobs' = jobs /\ dropped' = dropped \cup {e}
          BY <2>2, <3>3 DEF JobRaises
        <4>2. JobsOf(e)' = {}
          BY <1>3, <4>1 DEF JobsOf
        <4> QED BY <1>5, <3>1, <4>1, <4>2, PlaceTaken
      <3> QED BY <3>2, <3>3
    <2>3. CASE WorkerDies(w)
      <3>1. jobs' = jobs /\ dropped' = dropped \cup {e} /\ records' = records
        BY <2>3 DEF WorkerDies
      <3>2. JobsOf(e)' = {}
        BY <1>3, <3>1 DEF JobsOf
      <3> QED BY <1>3, <1>5, <3>1, <3>2, PlaceTaken
    <2> QED BY <2>1, <2>2, <2>3
  <1>8. ASSUME NEW f \in Stored, f # e PROVE HasPlace(f)'
    <2>1. JobsOf(f)' = JobsOf(f)
      BY <1>6, <1>8 DEF JobsOf
    <2>2. WorkersOf(f)' = WorkersOf(f)
      BY <1>2, <1>4, <1>8 DEF WorkersOf
    <2> QED BY <1>6, <1>8, <2>1, <2>2, PlaceKept DEF Places
  <1> QED BY <1>2, <1>6, <1>7, <1>8 DEF Places

-----------------------------------------------------------------------------
(***************************************************************************)
(* The invariant.                                                          *)
(***************************************************************************)
LEMMA BillingInvInit == BillingInit => BillingIInv
  <1> SUFFICES ASSUME BillingInit PROVE BillingIInv
    OBVIOUS
  <1>1. Stored = {} /\ dropped = {} /\ handled = {} /\ plan = once
    BY DEF BillingInit, Stored
  <1> QED BY <1>1, BillingTypedInit DEF BillingIInv, OneEventEach, Places, ReplaysKnown

\* A new event keeps the invariant.
LEMMA EmitInv ==
  ASSUME BillingIInv, NEW s \in Subs, NEW c \in Changes, PolarEmits(s, c)
  PROVE  BillingIInv'
  <1>1. BillingTyped' /\ \A e \in Stored : emitted'[e] = emitted[e]
    BY EmitTyped DEF BillingIInv
  <1>2. UNCHANGED <<records, jobs, plan, receipts, desk, losses, dropped, once, handled, unsure>>
    BY DEF PolarEmits
  <1>3. Places'
    BY <1>2, EmitPlaces DEF BillingIInv
  <1>4. OneEventEach'
    BY <1>1, <1>2 DEF BillingIInv, OneEventEach, Stored
  <1>5. ReplaysKnown'
    <2>1. ASSUME ~ unsure, NEW e \in handled PROVE Replays(plan, e)'
      <3>1. Replays(plan, e) /\ emitted'[e] = emitted[e]
        BY <1>1, <2>1 DEF BillingIInv, ReplaysKnown, BillingTyped, EventsTyped
      <3>2. PICK p : p = plan /\ p = plan'
        BY <1>2
      <3>3. Replays(p, e)'
        BY <3>1, <3>2, SameEvent
      <3> QED BY <3>2, <3>3 DEF Replays
    <2> QED BY <1>2, <2>1 DEF BillingIInv, ReplaysKnown
  <1> QED BY <1>1, <1>3, <1>4, <1>5 DEF BillingIInv

\* A step that handles no event.
LEMMA SamePlan ==
  ASSUME ReplaysKnown, UNCHANGED <<emitted, plan, once, handled, unsure>>
  PROVE  ReplaysKnown'
  <1>1. ASSUME ~ unsure, NEW e \in handled PROVE Replays(plan, e)'
    <2>1. Replays(plan, e)
      BY <1>1 DEF ReplaysKnown
    <2>2. PICK p : p = plan /\ p = plan'
      OBVIOUS
    <2>3. Replays(p, e)'
      BY <2>1, <2>2, SameEvent
    <2> QED BY <2>2, <2>3 DEF Replays
  <1> QED BY <1>1 DEF ReplaysKnown

\* A delivery keeps the invariant.
LEMMA ReceiveInv ==
  ASSUME BillingIInv, NEW e \in wire, Receive(e)
  PROVE  BillingIInv'
  <1>1. BillingTyped'
    BY ReceiveTyped DEF BillingIInv
  <1>2. CASE ReceiveDuplicate(e)
    <2>1. UNCHANGED <<emitted, records, jobs, plan, desk, dropped, once, handled, unsure>>
      BY <1>2 DEF ReceiveDuplicate
    <2>2. Places' /\ ReplaysKnown'
      BY <2>1, EmitPlaces, SamePlan DEF BillingIInv
    <2>3. OneEventEach'
      BY <2>1 DEF BillingIInv, OneEventEach, Stored
    <2> QED BY <1>1, <2>2, <2>3 DEF BillingIInv
  <1>3. ASSUME NEW queued \in BOOLEAN, StoreEvent(e, queued) PROVE BillingIInv'
    <2>1. /\ records' = [f \in Stored \cup {e} |-> IF f = e THEN "pending" ELSE records[f]]
          /\ UNCHANGED <<emitted, plan, once, handled, unsure>> /\ ~ Duplicate(e)
      BY <1>3 DEF StoreEvent
    <2>2. Places' /\ ReplaysKnown'
      BY <1>3, <2>1, StorePlaces, SamePlan DEF BillingIInv
    <2>3. OneEventEach'
      <3>1. Stored' = Stored \cup {e}
        BY <2>1 DEF Stored
      <3>2. \A f \in Stored : emitted[f].sub # emitted[e].sub
        BY <2>1 DEF Duplicate
      <3> QED BY <2>1, <3>1, <3>2 DEF BillingIInv, OneEventEach
    <2> QED BY <1>1, <2>2, <2>3 DEF BillingIInv
  <1> QED BY <1>2, <1>3 DEF Receive

\* The handler keeps the invariant: a replay finds the plan as it left it.
LEMMA HandleInv ==
  ASSUME BillingIInv, NEW w \in BillingWorkers, Handle(w)
  PROVE  BillingIInv'
  <1> SUFFICES ASSUME NEW f, f = desk[w].event, NEW p, p = desk[w].loaded
                PROVE  BillingIInv'
    OBVIOUS
  <1>1. BillingTyped /\ BillingTyped' /\ Places' /\ ReplaysKnown
    BY HandleTyped, HandlePlaces DEF BillingIInv
  <1>2. /\ f \in Stored /\ f \in 0..MaxEvents /\ emitted[f] \in Events /\ p \in Plans
        /\ plan' = Updated(p, f) /\ UNCHANGED <<emitted, records>>
    BY <1>1, HandleFacts
  <1>3. OneEventEach'
    BY <1>2 DEF BillingIInv, OneEventEach, Stored
  <1>4. /\ once' = IF f \in handled THEN once ELSE Handled(once, f)
        /\ handled' = handled \cup {f}
        /\ unsure' = \/ unsure
                     \/ p # plan
                     \/ emitted[f].type \in {"revoked", "past_due"} /\ plan'.meta.stamp < plan.meta.stamp
    BY DEF Handle
  <1>5. ASSUME ~ unsure'
        PROVE  plan' = once' /\ \A e \in handled' : Replays(plan, e)'
    <2>1. /\ ~ unsure /\ p = plan
          /\ ~ (emitted[f].type \in {"revoked", "past_due"} /\ plan'.meta.stamp < plan.meta.stamp)
      BY <1>4, <1>5
    <2>2. /\ plan \in Plans /\ plan = once /\ \A e \in handled : Replays(plan, e)
          /\ handled \subseteq Stored /\ EventsTyped
      BY <1>1, <2>1 DEF BillingTyped, BillingTypeOK, EventsTyped, ReplaysKnown
    <2>3. plan' = Handled(p, f)
      BY <1>2, <2>1, <2>2, UpdatedFacts
    <2>4. plan' = once'
      <3>1. CASE f \in handled
        <4>1. Replays(p, f)
          BY <2>1, <2>2, <3>1
        <4>2. Handled(p, f) = p
          BY <2>1, <2>3, <4>1 DEF Replays
        <4> QED BY <1>4, <2>1, <2>2, <2>3, <3>1, <4>2
      <3>2. CASE f \notin handled
        BY <1>4, <2>1, <2>2, <2>3, <3>2
      <3> QED BY <3>1, <3>2
    <2>5. ASSUME NEW e \in handled' PROVE Replays(plan, e)'
      <3>1. Replays(Handled(p, f), e)
        <4>1. CASE e = f
          <5>1. Handled(Handled(p, f), f) = Handled(p, f)
            BY <1>2, HandledTwice
          <5> QED BY <4>1, <5>1 DEF Replays
        <4>2. CASE e # f
          <5>1. e \in Stored /\ Replays(p, e)
            BY <1>4, <2>1, <2>2, <2>5, <4>2
          <5>2. e \in 0..MaxEvents /\ emitted[e] \in Events
            BY <2>2, <5>1, StoredEvent
          <5>3. emitted[e].sub # emitted[f].sub
            BY <1>2, <4>2, <5>1 DEF BillingIInv, OneEventEach
          <5>4. emitted[f].type \in {"revoked", "past_due"} => ~ (Handled(p, f).meta.stamp < p.meta.stamp)
            BY <2>1, <2>3
          <5> QED BY <1>2, <5>1, <5>2, <5>3, <5>4, ReplayKept
        <4> QED BY <4>1, <4>2
      <3>2. PICK q : q = Handled(p, f)
        OBVIOUS
      <3>3. Replays(q, e)'
        BY <1>2, <3>1, <3>2, SameEvent
      <3> QED BY <2>3, <3>2, <3>3 DEF Replays
    <2> QED BY <2>4, <2>5
  <1> QED BY <1>1, <1>3, <1>5 DEF BillingIInv, ReplaysKnown

\* Every step keeps the inductive invariant.
LEMMA BillingInvNext == BillingIInv /\ [BillingNext]_billingVars => BillingIInv'
  <1> SUFFICES ASSUME BillingIInv, [BillingNext]_billingVars PROVE BillingIInv'
    OBVIOUS
  <1>1. ASSUME NEW w \in BillingWorkers, NEW j \in jobs, TakeJob(w, j) PROVE BillingIInv'
    <2>1. BillingTyped' /\ Places'
      BY <1>1, TakeTyped, TakePlaces DEF BillingIInv
    <2>2. UNCHANGED <<emitted, records, plan, once, handled, unsure>>
      BY <1>1 DEF TakeJob
    <2>3. OneEventEach' /\ ReplaysKnown'
      BY <2>2, SamePlan DEF BillingIInv, OneEventEach, Stored
    <2> QED BY <2>1, <2>3 DEF BillingIInv
  <1>2. ASSUME NEW w \in BillingWorkers, FinishJob(w) \/ JobRaises(w) \/ WorkerDies(w)
        PROVE  BillingIInv'
    <2>1. BillingTyped' /\ Places'
      BY <1>2, LeaveTyped, LeavePlaces DEF BillingIInv
    <2>2. UNCHANGED <<emitted, plan, once, handled, unsure>> /\ Stored' = Stored
      BY <1>2 DEF FinishJob, JobRaises, WorkerDies, Stored
    <2>3. OneEventEach' /\ ReplaysKnown'
      BY <2>2, SamePlan DEF BillingIInv, OneEventEach
    <2> QED BY <2>1, <2>3 DEF BillingIInv
  <1>3. CASE UNCHANGED billingVars
    <2>1. UNCHANGED <<polar, emitted, wire, records, jobs, plan, receipts, desk, losses, dropped,
                      once, handled, unsure>>
      BY <1>3 DEF billingVars
    <2>2. Places' /\ ReplaysKnown' /\ OneEventEach'
      BY <2>1, EmitPlaces, SamePlan DEF BillingIInv, OneEventEach, Stored
    <2>3. BillingTypeOK'
      BY <2>1 DEF BillingIInv, BillingTyped, BillingTypeOK, Stored
    <2>4. EventsTyped'
      <3>1. Stored' = Stored /\ Jobs' = Jobs
        BY <2>1 DEF Stored, Jobs
      <3> QED BY <2>1, <3>1 DEF BillingIInv, BillingTyped, EventsTyped, At
    <2>5. \A w \in BillingWorkers : Receipted(desk[w].loaded)'
      BY <2>1 DEF BillingIInv, BillingTyped, Receipted
    <2> QED BY <2>2, <2>3, <2>4, <2>5 DEF BillingIInv, BillingTyped
  <1> QED BY <1>1, <1>2, <1>3, EmitInv, ReceiveInv, HandleInv DEF BillingNext, BillingWork

\* The inductive invariant of billing.
LEMMA BillingInvariant == BillingSpec => []BillingIInv
  BY BillingInvInit, BillingInvNext, PTL DEF BillingSpec

-----------------------------------------------------------------------------
(***************************************************************************)
(* What the webhooks promise.                                              *)
(***************************************************************************)
\* The rows of the plan, the events and the receipts keep their types, and a plan
\* on a subscription has that subscription's row of billing_checkout_attempts.
THEOREM BillingKeepsTypes == BillingSpec => []BillingTypeOK
  <1>1. BillingIInv => BillingTypeOK
    BY DEF BillingIInv, BillingTyped
  <1> QED BY <1>1, BillingInvariant, PTL

\* A stored event is at exactly one place, in the queue, with a worker or among
\* the processed, unless it was dropped: by Redis, by a death, by the retry limit.
THEOREM StoredEventIsUnderWay == BillingSpec => []StoredIsUnderWay
  <1>1. BillingIInv => StoredIsUnderWay
    <2> SUFFICES ASSUME BillingIInv, NEW e \in Stored
                  PROVE  Cardinality(JobsOf(e)) + Cardinality(WorkersOf(e))
                           + (IF records[e] = "processed" THEN 1 ELSE 0)
                         = IF e \in dropped THEN 0 ELSE 1
      BY DEF StoredIsUnderWay, JobsOf, WorkersOf
    <2>1. HasPlace(e)
      BY DEF BillingIInv, Places
    <2>2. \A x : Cardinality({x}) = 1
      BY FS_Singleton
    <2>3. Cardinality({}) = 0
      BY FS_EmptySet
    <2>4. CASE JobsOf(e) = {} /\ WorkersOf(e) = {}
      BY <2>1, <2>3, <2>4 DEF HasPlace
    <2>5. CASE (\E j \in jobs : JobsOf(e) = {j}) /\ WorkersOf(e) = {}
      <3>1. Cardinality(JobsOf(e)) = 1 /\ Cardinality(WorkersOf(e)) = 0 /\ JobsOf(e) # {}
        BY <2>2, <2>3, <2>5
      <3>2. e \notin dropped /\ records[e] # "processed"
        BY <2>1, <3>1 DEF HasPlace
      <3> QED BY <3>1, <3>2
    <2>6. CASE JobsOf(e) = {} /\ (\E w \in BillingWorkers : WorkersOf(e) = {w})
      <3>1. Cardinality(JobsOf(e)) = 0 /\ Cardinality(WorkersOf(e)) = 1 /\ WorkersOf(e) # {}
        BY <2>2, <2>3, <2>6
      <3>2. e \notin dropped /\ records[e] # "processed"
        BY <2>1, <3>1 DEF HasPlace
      <3> QED BY <3>1, <3>2
    <2> QED BY <2>1, <2>4, <2>5, <2>6 DEF HasPlace
  <1> QED BY <1>1, BillingInvariant, PTL

\* A worker may process an event again, after it failed between the COMMIT of the
\* plan and the one of the event, and whatever was handled in between the plan is
\* as if every event had been handled once; unless handlers overlapped, or a
\* handler that does not compare times turned the plan's time back.
THEOREM ReplaysAreHarmless == BillingSpec => []ReplaysChangeNothing
  <1>1. BillingIInv => ReplaysChangeNothing
    BY DEF BillingIInv, ReplaysKnown, ReplaysChangeNothing
  <1> QED BY <1>1, BillingInvariant, PTL

-----------------------------------------------------------------------------
(***************************************************************************)
(* The usage ledger.  Typing.                                              *)
(***************************************************************************)
LEMMA NoCheckType ==
  NoCheck \in [asked : BOOLEAN, agent : Agents, answer : Totals,
               priced : BOOLEAN, admitted : BOOLEAN]
  <1>1. (CHOOSE a \in Agents : TRUE) \in Agents
    BY LedgerAssumption
  <1>2. Zero \in Totals
    BY DEF Zero, Totals
  <1> QED BY <1>1, <1>2 DEF NoCheck

\* A sync raises each total to the answer, and never lowers what is billed.
LEMMA SyncedType ==
  ASSUME NEW row \in [total : Totals, used : Totals, blocked : SUBSET Resources],
         NEW answer \in Totals
  PROVE  /\ Synced(row, answer) \in [total : Totals, used : Totals, blocked : SUBSET Resources]
         /\ Synced(row, answer).blocked = row.blocked
         /\ \A r \in Resources :
              /\ Synced(row, answer).total[r] = Larger(row.total[r], answer[r])
              /\ Synced(row, answer).used[r] = row.used[r] + Delta(row, answer, r)
              /\ Delta(row, answer, r) \in Nat
  <1>1. ASSUME NEW r \in Resources
        PROVE  /\ Larger(row.total[r], answer[r]) \in Nat
               /\ Delta(row, answer, r) \in Nat
               /\ row.used[r] + Delta(row, answer, r) \in Nat
    <2>1. row.total[r] \in Nat /\ answer[r] \in Nat /\ row.used[r] \in Nat
      BY DEF Totals
    <2>2. Delta(row, answer, r) \in Nat
      <3>1. CASE CatchesUp(row, r)
        BY <3>1 DEF Delta
      <3>2. CASE ~ CatchesUp(row, r)
        BY <2>1, <3>2 DEF Delta, Larger
      <3> QED BY <3>1, <3>2
    <2> QED BY <2>1, <2>2 DEF Larger
  <1>2. [r \in Resources |-> Larger(row.total[r], answer[r])] \in Totals
    BY <1>1 DEF Totals
  <1>3. [r \in Resources |-> row.used[r] + Delta(row, answer, r)] \in Totals
    BY <1>1 DEF Totals
  <1> QED BY <1>1, <1>2, <1>3 DEF Synced

\* The types hold at first.
LEMMA LedgerTypeInit == LedgerInit => LedgerTypeOK
  <1> SUFFICES ASSUME LedgerInit PROVE LedgerTypeOK
    OBVIOUS
  <1>1. Zero \in Totals /\ One \in Totals
    BY DEF Zero, One, Totals, Resources
  <1>2. PICK start \in {Zero, One}, tracked \in BOOLEAN :
          /\ usage = [a \in Agents |-> start]
          /\ base = [a \in Agents |-> IF tracked THEN start ELSE Zero]
          /\ ledger = [a \in Agents |-> [NewRow EXCEPT !.total = base[a]]]
          /\ first = [a \in Agents |-> IF tracked THEN {start} ELSE {}]
    BY DEF LedgerInit
  <1>3. /\ usage \in [Agents -> Totals] /\ base \in [Agents -> Totals]
        /\ first \in [Agents -> SUBSET Totals]
    BY <1>1, <1>2
  <1>4. ledger \in [Agents -> [total : Totals, used : Totals, blocked : SUBSET Resources]]
    BY <1>1, <1>2, <1>3 DEF NewRow
  <1>5. tier \in {"trial", "pro", "expired"}
    BY LedgerAssumption DEF LedgerInit
  <1>6. checks \in [Checks -> [asked : BOOLEAN, agent : Agents, answer : Totals,
                               priced : BOOLEAN, admitted : BOOLEAN]]
    BY NoCheckType DEF LedgerInit
  <1>7. arrivals \in [turns : 0..MaxTurns, asks : 0..MaxAsks, plans : 0..MaxPlans] /\ refused = {}
    BY LedgerAssumption DEF LedgerInit
  <1> QED BY <1>3, <1>4, <1>5, <1>6, <1>7 DEF LedgerTypeOK

\* An agent's turn raises its own totals and nobody else's.
LEMMA SpendFacts ==
  ASSUME LedgerTypeOK, NEW a \in Agents, NEW price \in {0, 1}, Spend(a, price)
  PROVE  /\ usage' \in [Agents -> Totals]
         /\ \A b \in Agents, r \in Resources : usage[b][r] <= usage'[b][r]
         /\ \A b \in Agents : b # a => usage'[b] = usage[b]
         /\ usage'[a]["tokens"] = usage[a]["tokens"] + 1
  <1>1. usage[a] \in Totals /\ usage[a]["tokens"] \in Nat /\ usage[a]["cost"] \in Nat
    BY DEF LedgerTypeOK, Totals, Resources
  <1> DEFINE u == [r \in Resources |->
                     usage[a][r] + (IF r = "tokens" THEN 1 ELSE price)]
  <1>2. usage' = [usage EXCEPT ![a] = u]
    <2>1. usage[a] = [r \in Resources |-> usage[a][r]]
      BY <1>1 DEF Totals
    <2>2. [usage[a] EXCEPT !["tokens"] = @ + 1, !["cost"] = @ + price] = u
      BY <2>1 DEF Resources
    <2> QED BY <2>2 DEF Spend
  <1>3. u \in Totals /\ \A r \in Resources : usage[a][r] <= u[r]
    BY <1>1 DEF Totals, Resources
  <1>4. ASSUME NEW b \in Agents, NEW r \in Resources PROVE usage[b][r] \in Nat
    BY DEF LedgerTypeOK, Totals
  <1> QED BY <1>2, <1>3, <1>4 DEF LedgerTypeOK, Resources

\* Every step keeps the types.
LEMMA LedgerTypeNext == LedgerTypeOK /\ [LedgerNext]_ledgerVars => LedgerTypeOK'
  <1> SUFFICES ASSUME LedgerTypeOK, [LedgerNext]_ledgerVars PROVE LedgerTypeOK'
    OBVIOUS
  <1>1. ASSUME NEW a \in Agents, NEW price \in {0, 1}, Spend(a, price)
        PROVE  LedgerTypeOK'
    <2>1. arrivals' \in [turns : 0..MaxTurns, asks : 0..MaxAsks, plans : 0..MaxPlans]
      <3>1. arrivals.turns < MaxTurns /\ arrivals' = [arrivals EXCEPT !.turns = @ + 1]
        BY <1>1 DEF Spend
      <3> QED BY <3>1, LedgerAssumption DEF LedgerTypeOK
    <2>2. usage' \in [Agents -> Totals]
      BY <1>1, SpendFacts
    <2>3. UNCHANGED <<ledger, tier, checks, first, base, refused>>
      BY <1>1 DEF Spend
    <2> QED BY <2>1, <2>2, <2>3 DEF LedgerTypeOK
  <1>2. ASSUME ChangePlan PROVE LedgerTypeOK'
    <2>1. arrivals' \in [turns : 0..MaxTurns, asks : 0..MaxAsks, plans : 0..MaxPlans]
      BY <1>2, LedgerAssumption DEF ChangePlan, LedgerTypeOK
    <2>2. tier' \in {"trial", "pro", "expired"}
      BY <1>2, LedgerAssumption DEF ChangePlan
    <2> QED BY <1>2, <2>1, <2>2 DEF ChangePlan, LedgerTypeOK
  <1>3. ASSUME NEW c \in Checks, NEW a \in Agents, NEW priced \in BOOLEAN, FetchUsage(c, a, priced)
        PROVE  LedgerTypeOK'
    <2>1. arrivals' \in [turns : 0..MaxTurns, asks : 0..MaxAsks, plans : 0..MaxPlans]
      BY <1>3, LedgerAssumption DEF FetchUsage, LedgerTypeOK
    <2>2. first' \in [Agents -> SUBSET Totals]
      BY <1>3 DEF FetchUsage, LedgerTypeOK
    <2>3. checks' \in [Checks -> [asked : BOOLEAN, agent : Agents, answer : Totals,
                                  priced : BOOLEAN, admitted : BOOLEAN]]
      BY <1>3 DEF FetchUsage, LedgerTypeOK
    <2> QED BY <1>3, <2>1, <2>2, <2>3 DEF FetchUsage, LedgerTypeOK
  <1>4. ASSUME NEW c \in Checks, SyncAndEnforce(c) PROVE LedgerTypeOK'
    <2> DEFINE a == checks[c].agent
               synced == Synced(ledger[a], checks[c].answer)
    <2>1. a \in Agents /\ checks[c].answer \in Totals /\ base[a] \in Totals
          /\ ledger[a] \in [total : Totals, used : Totals, blocked : SUBSET Resources]
      BY DEF LedgerTypeOK
    <2>2. synced \in [total : Totals, used : Totals, blocked : SUBSET Resources]
      BY <2>1, SyncedType
    <2>3. BlockedBy(synced, checks[c].priced) \in Resources
      BY DEF BlockedBy, Resources
    <2>4. [synced EXCEPT !.blocked = @ \cup {BlockedBy(synced, checks[c].priced)}]
            \in [total : Totals, used : Totals, blocked : SUBSET Resources]
      BY <2>2, <2>3
    <2>5. ledger' \in [Agents -> [total : Totals, used : Totals, blocked : SUBSET Resources]]
      BY <1>4, <2>2, <2>4 DEF SyncAndEnforce, LedgerTypeOK
    <2>6. [r \in Resources |-> IF CatchesUp(ledger[a], r) THEN synced.total[r] ELSE base[a][r]]
            \in Totals
      BY <2>1, <2>2 DEF Totals
    <2>7. base' \in [Agents -> Totals]
      BY <1>4, <2>6 DEF SyncAndEnforce, LedgerTypeOK
    <2>8. checks' \in [Checks -> [asked : BOOLEAN, agent : Agents, answer : Totals,
                                  priced : BOOLEAN, admitted : BOOLEAN]]
      <3>1. \A b \in BOOLEAN : [NoCheck EXCEPT !.admitted = b]
                 \in [asked : BOOLEAN, agent : Agents, answer : Totals,
                      priced : BOOLEAN, admitted : BOOLEAN]
        BY NoCheckType
      <3> QED BY <1>4, <3>1 DEF SyncAndEnforce, LedgerTypeOK
    <2>9. refused' \subseteq Agents
      BY <1>4, <2>1 DEF SyncAndEnforce, LedgerTypeOK
    <2> QED BY <1>4, <2>5, <2>7, <2>8, <2>9 DEF SyncAndEnforce, LedgerTypeOK
  <1>5. CASE UNCHANGED ledgerVars
    BY <1>5 DEF ledgerVars, LedgerTypeOK
  <1> QED BY <1>1, <1>2, <1>3, <1>4, <1>5 DEF LedgerNext

\* Every variable of the ledger keeps its type.
THEOREM LedgerTyped == LedgerSpec => []LedgerTypeOK
  BY LedgerTypeInit, LedgerTypeNext, PTL DEF LedgerSpec

-----------------------------------------------------------------------------
(***************************************************************************)
(* The inductive invariant.                                                *)
(***************************************************************************)
\* No sync has found any usage.
NotSynced(a) == \A r \in Resources : ledger[a].total[r] = 0 /\ ledger[a].used[r] = 0

\* Once usage is found, the baseline covers what the first check was told.
AgentInv(a) ==
  /\ \A r \in Resources :
       /\ ledger[a].total[r] <= usage[a][r]
       /\ ledger[a].used[r] = ledger[a].total[r] - base[a][r]
       /\ \A u \in first[a] : u[r] <= usage[a][r]
  /\ \/ NotSynced(a)
     \/ first[a] # {} /\ \A u \in first[a], r \in Resources : u[r] <= base[a][r]

\* An answer lies between the first one and the usage of now.
CheckInv(c) ==
  checks[c].asked =>
    /\ ~ checks[c].admitted
    /\ first[checks[c].agent] # {}
    /\ \A r \in Resources :
         /\ checks[c].answer[r] <= usage[checks[c].agent][r]
         /\ \A u \in first[checks[c].agent] : u[r] <= checks[c].answer[r]

\* A refused agent is still over a limit, and a lead's board still marked.
RefusedInv(a) ==
  a \in refused =>
    /\ Enforcing /\ tier \in {"trial", "pro"}
    /\ \E r \in Resources : ledger[a].used[r] >= Limits[tier][r]
    /\ a \in Leads => BoardBlocked

LedgerIInv ==
  /\ LedgerTypeOK
  /\ \A a \in Agents : AgentInv(a) /\ RefusedInv(a)
  /\ \A c \in Checks : CheckInv(c)

\* The inductive invariant holds at first.
LEMMA LedgerInvInit == LedgerInit => LedgerIInv
  <1> SUFFICES ASSUME LedgerInit PROVE LedgerIInv
    OBVIOUS
  <1>0. LedgerTypeOK
    BY LedgerTypeInit
  <1>1. PICK start \in {Zero, One}, tracked \in BOOLEAN :
          /\ usage = [a \in Agents |-> start]
          /\ base = [a \in Agents |-> IF tracked THEN start ELSE Zero]
          /\ ledger = [a \in Agents |-> [NewRow EXCEPT !.total = base[a]]]
          /\ first = [a \in Agents |-> IF tracked THEN {start} ELSE {}]
    BY DEF LedgerInit
  <1>2. \A r \in Resources : Zero[r] = 0 /\ start[r] \in Nat
    BY DEF Zero, One, Resources
  <1>3. ASSUME NEW a \in Agents PROVE AgentInv(a) /\ RefusedInv(a)
    <2>1. ledger[a].total = base[a] /\ ledger[a].used = Zero
      BY <1>1 DEF NewRow
    <2>2. CASE tracked
      BY <1>1, <1>2, <2>1, <2>2 DEF AgentInv, RefusedInv, LedgerInit
    <2>3. CASE ~ tracked
      BY <1>1, <1>2, <2>1, <2>3 DEF AgentInv, RefusedInv, NotSynced, LedgerInit
    <2> QED BY <2>2, <2>3
  <1>4. ASSUME NEW c \in Checks PROVE CheckInv(c)
    BY DEF CheckInv, LedgerInit, NoCheck
  <1> QED BY <1>0, <1>3, <1>4 DEF LedgerIInv

\* A turn of an agent raises nothing but its usage.
LEMMA SpendInv ==
  ASSUME LedgerIInv, NEW a \in Agents, NEW price \in {0, 1}, Spend(a, price)
  PROVE  \A b \in Agents : AgentInv(b)' /\ RefusedInv(b)'
         /\ \A c \in Checks : CheckInv(c)'
  <1>0. LedgerTypeOK
    BY DEF LedgerIInv
  <1>1. /\ usage' \in [Agents -> Totals]
        /\ \A b \in Agents, r \in Resources : usage[b][r] <= usage'[b][r]
    BY <1>0, SpendFacts
  <1>2. UNCHANGED <<ledger, tier, checks, first, base, refused>>
    BY DEF Spend
  <1>3. ASSUME NEW b \in Agents PROVE AgentInv(b)'
    <2>1. ASSUME NEW r \in Resources
          PROVE  /\ usage[b][r] \in Nat /\ usage'[b][r] \in Nat /\ usage[b][r] <= usage'[b][r]
                 /\ ledger[b].total[r] \in Nat /\ \A u \in first[b] : u[r] \in Nat
      BY <1>0, <1>1 DEF LedgerTypeOK, Totals
    <2>2. AgentInv(b)
      BY DEF LedgerIInv
    <2>3. ASSUME NEW r \in Resources
          PROVE  /\ ledger[b].total[r] <= usage'[b][r]
                 /\ \A u \in first[b] : u[r] <= usage'[b][r]
      BY <2>1, <2>2 DEF AgentInv
    <2> QED BY <1>2, <2>2, <2>3 DEF AgentInv, NotSynced
  <1>4. ASSUME NEW b \in Agents PROVE RefusedInv(b)'
    BY <1>2 DEF LedgerIInv, RefusedInv, BoardBlocked
  <1>5. ASSUME NEW c \in Checks PROVE CheckInv(c)'
    <2>1. ASSUME NEW r \in Resources
          PROVE  /\ usage[checks[c].agent][r] \in Nat /\ usage'[checks[c].agent][r] \in Nat
                 /\ usage[checks[c].agent][r] <= usage'[checks[c].agent][r]
                 /\ checks[c].answer[r] \in Nat
      BY <1>0, <1>1 DEF LedgerTypeOK, Totals
    <2>2. CheckInv(c)
      BY DEF LedgerIInv
    <2> QED BY <1>2, <2>1, <2>2 DEF CheckInv
  <1> QED BY <1>3, <1>4, <1>5

\* An answer is the usage of now, which no first answer exceeds.
LEMMA FetchInv ==
  ASSUME LedgerIInv, NEW c \in Checks, NEW a \in Agents, NEW priced \in BOOLEAN,
         FetchUsage(c, a, priced)
  PROVE  /\ \A b \in Agents : AgentInv(b)' /\ RefusedInv(b)'
         /\ \A d \in Checks : CheckInv(d)'
  <1>0. LedgerTypeOK /\ UNCHANGED <<usage, ledger, tier, base, refused>>
    BY DEF LedgerIInv, FetchUsage
  <1>1. ASSUME NEW b \in Agents, NEW r \in Resources PROVE usage[b][r] \in Nat
    BY <1>0 DEF LedgerTypeOK, Totals
  <1>2. /\ \A b \in Agents : first[b] # {} => first'[b] = first[b]
        /\ \A b \in Agents : \/ first'[b] = first[b]
                            \/ (b = a /\ first[a] = {} /\ first'[a] = {usage[a]})
        /\ first'[a] # {}
    BY <1>0 DEF FetchUsage, LedgerTypeOK
  <1>3. ASSUME NEW b \in Agents PROVE AgentInv(b)'
    <2>1. AgentInv(b)
      BY DEF LedgerIInv
    <2>2. CASE first'[b] = first[b]
      BY <1>0, <2>1, <2>2 DEF AgentInv, NotSynced
    <2>3. CASE first'[b] # first[b]
      <3>1. first'[b] = {usage[b]} /\ first[b] = {}
        BY <1>2, <2>3
      <3>2. NotSynced(b)
        BY <2>1, <3>1 DEF AgentInv
      <3> QED BY <1>0, <1>1, <2>1, <3>1, <3>2 DEF AgentInv, NotSynced
    <2> QED BY <2>2, <2>3
  <1>4. ASSUME NEW b \in Agents PROVE RefusedInv(b)'
    BY <1>0 DEF LedgerIInv, RefusedInv, BoardBlocked
  <1>5. ASSUME NEW d \in Checks PROVE CheckInv(d)'
    <2>1. CASE d = c
      <3>1. checks'[c] = [asked |-> TRUE, agent |-> a, answer |-> usage[a],
                          priced |-> priced, admitted |-> FALSE]
        BY <1>0 DEF FetchUsage, LedgerTypeOK
      <3>2. ASSUME NEW r \in Resources, NEW u \in first'[a] PROVE u[r] <= usage[a][r]
        <4>1. AgentInv(a)
          BY DEF LedgerIInv
        <4> QED BY <1>1, <1>2, <4>1 DEF AgentInv
      <3> QED BY <1>0, <1>1, <1>2, <2>1, <3>1, <3>2 DEF CheckInv
    <2>2. CASE d # c
      <3>1. checks'[d] = checks[d] /\ CheckInv(d) /\ checks[d].agent \in Agents
        BY <1>0, <2>2 DEF FetchUsage, LedgerTypeOK, LedgerIInv
      <3> QED BY <1>0, <1>2, <3>1 DEF CheckInv
    <2> QED BY <2>1, <2>2
  <1> QED BY <1>3, <1>4, <1>5

\* A change of the plan forgets the refusals.
LEMMA PlanInv ==
  ASSUME LedgerIInv, ChangePlan
  PROVE  /\ \A a \in Agents : AgentInv(a)' /\ RefusedInv(a)'
         /\ \A c \in Checks : CheckInv(c)'
  <1>1. UNCHANGED <<usage, ledger, checks, first, base>> /\ refused' = {}
    BY DEF ChangePlan
  <1> QED BY <1>1 DEF LedgerIInv, AgentInv, NotSynced, RefusedInv, CheckInv

\* What a sync does to the row of the agent it is about, and that it leaves every
\* other row alone.
LEMMA SyncFacts ==
  ASSUME LedgerTypeOK, NEW c \in Checks, SyncAndEnforce(c), NEW a, a = checks[c].agent
  PROVE  /\ a \in Agents /\ ledger'[a] \in [total : Totals, used : Totals, blocked : SUBSET Resources]
         /\ base'[a] \in Totals
         /\ \A r \in Resources :
              /\ ledger'[a].total[r] = Larger(ledger[a].total[r], checks[c].answer[r])
              /\ ledger'[a].used[r] = ledger[a].used[r] + Delta(ledger[a], checks[c].answer, r)
              /\ Delta(ledger[a], checks[c].answer, r) \in Nat
              /\ base'[a][r] = IF CatchesUp(ledger[a], r) THEN ledger'[a].total[r] ELSE base[a][r]
         /\ ledger[a].blocked \subseteq ledger'[a].blocked
         /\ \A b \in Agents \ {a} : ledger'[b] = ledger[b] /\ base'[b] = base[b]
         /\ checks'[c] = NoCheck \/ checks'[c] = [NoCheck EXCEPT !.admitted = TRUE]
         /\ ~ checks'[c].asked
         /\ \A d \in Checks \ {c} : checks'[d] = checks[d]
  <1> DEFINE row == ledger[a]
             answer == checks[c].answer
             synced == Synced(row, answer)
  <1>1. a \in Agents /\ answer \in Totals /\ base[a] \in Totals
        /\ row \in [total : Totals, used : Totals, blocked : SUBSET Resources]
    BY DEF LedgerTypeOK
  <1>2. /\ synced \in [total : Totals, used : Totals, blocked : SUBSET Resources]
        /\ synced.blocked = row.blocked
        /\ \A r \in Resources :
             /\ synced.total[r] = Larger(row.total[r], answer[r])
             /\ synced.used[r] = row.used[r] + Delta(row, answer, r)
             /\ Delta(row, answer, r) \in Nat
    BY <1>1, SyncedType
  <1>3. PICK more \in SUBSET Resources :
          ledger' = [ledger EXCEPT ![a] = [synced EXCEPT !.blocked = @ \cup more]]
    <2>1. BlockedBy(synced, checks[c].priced) \in Resources
      BY DEF BlockedBy, Resources
    <2>2. synced = [synced EXCEPT !.blocked = @ \cup {}]
      BY <1>2
    <2> QED BY <2>1, <2>2 DEF SyncAndEnforce
  <1>4. /\ ledger'[a] = [synced EXCEPT !.blocked = @ \cup more]
        /\ \A b \in Agents \ {a} : ledger'[b] = ledger[b]
    BY <1>1, <1>3 DEF LedgerTypeOK
  <1>5. /\ ledger'[a].total = synced.total /\ ledger'[a].used = synced.used
        /\ ledger'[a].blocked = row.blocked \cup more
        /\ ledger'[a] \in [total : Totals, used : Totals, blocked : SUBSET Resources]
    BY <1>2, <1>4
  <1>6. base' = [base EXCEPT ![a] = [r \in Resources |->
                   IF CatchesUp(row, r) THEN synced.total[r] ELSE base[a][r]]]
    BY DEF SyncAndEnforce
  <1>7. base'[a] \in Totals /\ \A b \in Agents \ {a} : base'[b] = base[b]
    <2>1. [r \in Resources |-> IF CatchesUp(row, r) THEN synced.total[r] ELSE base[a][r]] \in Totals
      BY <1>1, <1>2 DEF Totals
    <2> QED BY <1>1, <1>6, <2>1 DEF LedgerTypeOK
  <1>8. \A r \in Resources :
          base'[a][r] = IF CatchesUp(row, r) THEN ledger'[a].total[r] ELSE base[a][r]
    BY <1>1, <1>5, <1>6 DEF LedgerTypeOK
  <1>9. PICK b \in BOOLEAN : checks' = [checks EXCEPT ![c] = [NoCheck EXCEPT !.admitted = b]]
    BY DEF SyncAndEnforce
  <1>10. /\ checks'[c] = [NoCheck EXCEPT !.admitted = b]
         /\ \A d \in Checks \ {c} : checks'[d] = checks[d]
    BY <1>9 DEF LedgerTypeOK
  <1>11. checks'[c] = NoCheck \/ checks'[c] = [NoCheck EXCEPT !.admitted = TRUE]
    <2>1. ~ NoCheck.admitted
      BY DEF NoCheck
    <2>2. NoCheck = [NoCheck EXCEPT !.admitted = FALSE]
      BY <2>1, NoCheckType
    <2> QED BY <1>9, <1>10, <2>2
  <1>12. ~ checks'[c].asked
    BY <1>10 DEF NoCheck
  <1>13. \A r \in Resources :
           /\ ledger'[a].total[r] = Larger(row.total[r], answer[r])
           /\ ledger'[a].used[r] = row.used[r] + Delta(row, answer, r)
           /\ Delta(row, answer, r) \in Nat
    BY <1>2, <1>5
  <1>14. ledger[a].blocked \subseteq ledger'[a].blocked
    BY <1>5
  <1> HIDE DEF synced
  <1> QED BY <1>1, <1>4, <1>5, <1>7, <1>8, <1>10, <1>11, <1>12, <1>13, <1>14

\* A sync bills what it adds to the total, unless it takes the total as a baseline.
LEMMA SyncAgent ==
  ASSUME LedgerIInv, NEW c \in Checks, SyncAndEnforce(c)
  PROVE  \A b \in Agents : AgentInv(b)'
  <1> SUFFICES ASSUME NEW a, a = checks[c].agent
                PROVE  \A b \in Agents : AgentInv(b)'
    OBVIOUS
  <1> DEFINE answer == checks[c].answer
  <1>0. LedgerTypeOK /\ UNCHANGED <<usage, tier, first>> /\ checks[c].asked /\ CheckInv(c)
    BY DEF LedgerIInv, SyncAndEnforce
  <1>1. /\ a \in Agents
        /\ \A r \in Resources :
              /\ ledger'[a].total[r] = Larger(ledger[a].total[r], answer[r])
              /\ ledger'[a].used[r] = ledger[a].used[r] + Delta(ledger[a], answer, r)
              /\ base'[a][r] = IF CatchesUp(ledger[a], r) THEN ledger'[a].total[r] ELSE base[a][r]
        /\ \A b \in Agents \ {a} : ledger'[b] = ledger[b] /\ base'[b] = base[b]
    BY <1>0, SyncFacts
  <1>2. ASSUME NEW b \in Agents, b # a PROVE AgentInv(b)'
    <2>1. AgentInv(b) /\ ledger'[b] = ledger[b] /\ base'[b] = base[b]
      BY <1>1, <1>2 DEF LedgerIInv
    <2> QED BY <1>0, <2>1 DEF AgentInv, NotSynced
  <1>3. AgentInv(a)'
    <2>1. AgentInv(a) /\ first[a] # {}
      BY <1>0, <1>1 DEF LedgerIInv, CheckInv
    <2>2. ASSUME NEW r \in Resources
          PROVE  /\ usage[a][r] \in Nat /\ ledger[a].total[r] \in Nat /\ ledger[a].used[r] \in Nat
                 /\ base[a][r] \in Nat /\ answer[r] \in Nat
                 /\ answer[r] <= usage[a][r] /\ ledger[a].total[r] <= usage[a][r]
                 /\ ledger[a].used[r] = ledger[a].total[r] - base[a][r]
                 /\ \A u \in first[a] : u[r] \in Nat /\ u[r] <= answer[r]
      BY <1>0, <1>1, <2>1 DEF LedgerTypeOK, Totals, CheckInv, AgentInv
    <2>3. ASSUME NEW r \in Resources
          PROVE  /\ ledger'[a].total[r] <= usage'[a][r]
                 /\ ledger'[a].used[r] = ledger'[a].total[r] - base'[a][r]
                 /\ \A u \in first'[a] : u[r] <= usage'[a][r]
                 /\ \A u \in first'[a] : u[r] <= base'[a][r]
      <3>1. ledger'[a].total[r] <= usage'[a][r] /\ ledger'[a].total[r] \in Nat
            /\ answer[r] <= ledger'[a].total[r]
        BY <1>0, <1>1, <2>2 DEF Larger
      <3>2. CASE CatchesUp(ledger[a], r)
        <4>1. ledger[a].used[r] = 0 /\ Delta(ledger[a], answer, r) = 0
          BY <3>2 DEF CatchesUp, Delta, Resources
        <4> QED BY <1>0, <1>1, <2>1, <2>2, <3>1, <3>2, <4>1 DEF AgentInv
      <3>3. CASE ~ CatchesUp(ledger[a], r)
        <4>1. ledger'[a].used[r] = ledger[a].used[r] + Larger(answer[r] - ledger[a].total[r], 0)
              /\ base'[a][r] = base[a][r]
          BY <1>1, <3>3 DEF Delta
        <4>2. ledger'[a].used[r] = ledger'[a].total[r] - base'[a][r]
          BY <1>1, <2>2, <4>1 DEF Larger
        <4>3. ~ NotSynced(a)
          BY <3>3 DEF CatchesUp, NotSynced, Resources
        <4> QED BY <1>0, <2>1, <3>1, <4>1, <4>2, <4>3 DEF AgentInv
      <3> QED BY <3>2, <3>3
    <2>4. first'[a] # {}
      BY <1>0, <2>1
    <2> QED BY <2>3, <2>4 DEF AgentInv
  <1> QED BY <1>2, <1>3

\* A sync that refuses has found a limit reached; what is billed and the marks of
\* the board only grow, so that the refusals before it stand.
LEMMA SyncRefused ==
  ASSUME LedgerIInv, NEW c \in Checks, SyncAndEnforce(c)
  PROVE  \A b \in Agents : RefusedInv(b)'
  <1> SUFFICES ASSUME NEW a, a = checks[c].agent, NEW b \in Agents, b \in refused'
                PROVE  RefusedInv(b)'
    BY DEF RefusedInv
  <1> DEFINE answer == checks[c].answer
             synced == Synced(ledger[a], answer)
  <1>0. LedgerTypeOK /\ tier' = tier
    BY DEF LedgerIInv, SyncAndEnforce
  <1>1. /\ a \in Agents
        /\ \A m \in Agents : ledger[m].blocked \subseteq ledger'[m].blocked
        /\ \A m \in Agents \ {a} : ledger'[m] = ledger[m]
    BY <1>0, SyncFacts
  <1>2. \A r \in Resources :
          /\ ledger'[a].used[r] = synced.used[r]
          /\ ledger[a].used[r] \in Nat /\ synced.used[r] \in Nat
          /\ ledger[a].used[r] <= synced.used[r]
    <2>1. ledger[a] \in [total : Totals, used : Totals, blocked : SUBSET Resources] /\ answer \in Totals
      BY <1>0, <1>1 DEF LedgerTypeOK
    <2>2. \A r \in Resources :
            /\ synced.used[r] = ledger[a].used[r] + Delta(ledger[a], answer, r)
            /\ Delta(ledger[a], answer, r) \in Nat
      BY <2>1, SyncedType
    <2>3. \A r \in Resources :
            ledger'[a].used[r] = ledger[a].used[r] + Delta(ledger[a], answer, r)
      BY <1>0, SyncFacts
    <2>4. \A r \in Resources : ledger[a].used[r] \in Nat
      BY <2>1 DEF Totals
    <2> QED BY <2>2, <2>3, <2>4
  <1>3. BoardBlocked => BoardBlocked'
    BY <1>1 DEF BoardBlocked
  <1>4. CASE b \in refused
    <2>1. /\ Enforcing /\ tier \in {"trial", "pro"} /\ b \in Leads => BoardBlocked'
          /\ RefusedInv(b)
      BY <1>3, <1>4 DEF LedgerIInv, RefusedInv
    <2>2. PICK r \in Resources : ledger[b].used[r] >= Limits[tier][r]
      BY <1>4 DEF LedgerIInv, RefusedInv
    <2>3. Limits[tier][r] \in Nat
      BY <1>4, LedgerAssumption DEF LedgerIInv, RefusedInv
    <2>4. ledger'[b].used[r] >= Limits[tier][r]
      BY <1>1, <1>2, <2>2, <2>3
    <2> QED BY <1>0, <1>3, <1>4, <2>1, <2>4 DEF RefusedInv
  <1>5. CASE b \notin refused
    <2>1. b = a /\ tier # "expired" /\ Refuses(a, synced, checks[c].priced)
      BY <1>5 DEF SyncAndEnforce
    <2>2. PICK r \in Resources : synced.used[r] >= Limits[tier][r]
      BY <2>1 DEF Refuses, Exceeded
    <2>3. Enforcing /\ tier \in {"trial", "pro"} /\ (a \in Leads => BoardBlocked)
      BY <1>0, <2>1 DEF Refuses, LedgerTypeOK
    <2> HIDE DEF synced
    <2> QED BY <1>0, <1>2, <1>3, <2>1, <2>2, <2>3 DEF RefusedInv
  <1> QED BY <1>4, <1>5

\* A sync ends its own check and leaves the totals the others hold.
LEMMA SyncChecks ==
  ASSUME LedgerIInv, NEW c \in Checks, SyncAndEnforce(c)
  PROVE  \A d \in Checks : CheckInv(d)'
  <1>1. LedgerTypeOK /\ UNCHANGED <<usage, first>>
    BY DEF LedgerIInv, SyncAndEnforce
  <1>2. ~ checks'[c].asked /\ \A d \in Checks \ {c} : checks'[d] = checks[d]
    BY <1>1, SyncFacts
  <1> QED BY <1>1, <1>2 DEF LedgerIInv, CheckInv

\* Every step keeps the inductive invariant.
LEMMA LedgerInvNext == LedgerIInv /\ [LedgerNext]_ledgerVars => LedgerIInv'
  <1> SUFFICES ASSUME LedgerIInv, [LedgerNext]_ledgerVars PROVE LedgerIInv'
    OBVIOUS
  <1>0. LedgerTypeOK'
    BY LedgerTypeNext DEF LedgerIInv
  <1>1. ASSUME NEW a \in Agents, NEW price \in {0, 1}, Spend(a, price)
        PROVE  LedgerIInv'
    BY <1>0, <1>1, SpendInv DEF LedgerIInv
  <1>2. ASSUME ChangePlan PROVE LedgerIInv'
    BY <1>0, <1>2, PlanInv DEF LedgerIInv
  <1>3. ASSUME NEW c \in Checks, NEW a \in Agents, NEW priced \in BOOLEAN, FetchUsage(c, a, priced)
        PROVE  LedgerIInv'
    BY <1>0, <1>3, FetchInv DEF LedgerIInv
  <1>4. ASSUME NEW c \in Checks, SyncAndEnforce(c) PROVE LedgerIInv'
    BY <1>0, <1>4, SyncAgent, SyncRefused, SyncChecks DEF LedgerIInv
  <1>5. CASE UNCHANGED ledgerVars
    <2>1. UNCHANGED <<usage, ledger, tier, checks, first, base, refused>>
      BY <1>5 DEF ledgerVars
    <2>2. ASSUME NEW a \in Agents PROVE AgentInv(a)' /\ RefusedInv(a)'
      BY <2>1 DEF LedgerIInv, AgentInv, NotSynced, RefusedInv, BoardBlocked
    <2>3. ASSUME NEW c \in Checks PROVE CheckInv(c)'
      BY <2>1 DEF LedgerIInv, CheckInv
    <2> QED BY <1>0, <2>2, <2>3 DEF LedgerIInv
  <1> QED BY <1>1, <1>2, <1>3, <1>4, <1>5 DEF LedgerNext

\* The inductive invariant of the ledger.
LEMMA LedgerInvariant == LedgerSpec => []LedgerIInv
  BY LedgerInvInit, LedgerInvNext, PTL DEF LedgerSpec

-----------------------------------------------------------------------------
(***************************************************************************)
(* What the ledger promises.                                               *)
(***************************************************************************)
\* However checks overlap, and however late their answers arrive, what the ledger
\* has billed an agent is its last total less the baseline: sync_session_usage
\* bills each token once.
THEOREM TokensBilledOnce == LedgerSpec => []BilledOnce
  <1>1. LedgerIInv => BilledOnce
    BY DEF LedgerIInv, AgentInv, BilledOnce
  <1> QED BY <1>1, LedgerInvariant, PTL

\* An agent is billed no more than it has used since a check first asked the
\* gateway about it: the first total found is a baseline.
THEOREM NothingBackcharged == LedgerSpec => []NoBackcharge
  <1>1. LedgerIInv => NoBackcharge
    <2> SUFFICES ASSUME LedgerIInv, NEW a \in Agents, NEW r \in Resources, NEW u \in first[a]
                  PROVE  ledger[a].used[r] <= usage[a][r] - u[r]
      BY DEF NoBackcharge
    <2>1. /\ usage[a][r] \in Nat /\ ledger[a].total[r] \in Nat /\ ledger[a].used[r] \in Nat
          /\ base[a][r] \in Nat /\ u[r] \in Nat
      BY DEF LedgerIInv, LedgerTypeOK, Totals
    <2>2. /\ ledger[a].total[r] <= usage[a][r] /\ u[r] <= usage[a][r]
          /\ ledger[a].used[r] = ledger[a].total[r] - base[a][r]
          /\ ledger[a].used[r] = 0 \/ u[r] <= base[a][r]
      BY DEF LedgerIInv, AgentInv, NotSynced
    <2> QED BY <2>1, <2>2
  <1> QED BY <1>1, LedgerInvariant, PTL

\* A check that knows the cost admits no agent that another check has refused for
\* a limit under the same plan, whatever the order of their answers.
THEOREM RefusalsStand == LedgerSpec => RefusalStands
  <1> DEFINE Stands ==
        \A c \in Checks : checks[c].asked /\ checks'[c].admitted
           => checks[c].agent \notin refused \/ ~ checks[c].priced
  <1>1. LedgerIInv /\ [LedgerNext]_ledgerVars => [Stands]_ledgerVars
    <2> SUFFICES ASSUME LedgerIInv, LedgerNext, NEW c \in Checks, NEW a,
                        checks[c].asked, checks'[c].admitted,
                        a = checks[c].agent, a \in refused, checks[c].priced
                  PROVE  FALSE
      OBVIOUS
    <2>0. LedgerTypeOK /\ ~ checks[c].admitted /\ a \in Agents
      BY DEF LedgerIInv, CheckInv, LedgerTypeOK
    <2>1. PICK d \in Checks : SyncAndEnforce(d)
      <3>1. checks' # checks
        BY <2>0
      <3>2. ASSUME NEW d \in Checks, NEW b \in Agents, NEW priced \in BOOLEAN,
                   FetchUsage(d, b, priced)
            PROVE  FALSE
        BY <2>0, <3>2 DEF FetchUsage, LedgerTypeOK
      <3> QED BY <3>1, <3>2 DEF LedgerNext, Spend, ChangePlan
    <2>2. d = c
      BY <2>0, <2>1, SyncFacts
    <2> DEFINE synced == Synced(ledger[a], checks[c].answer)
    <2>3. tier # "expired" /\ ~ Refuses(a, synced, TRUE)
      <3>1. checks'[c] = [NoCheck EXCEPT !.admitted =
                 ~ (tier # "expired" /\ Refuses(a, synced, checks[c].priced)) /\ tier # "expired"]
        BY <2>0, <2>1, <2>2 DEF SyncAndEnforce, LedgerTypeOK
      <3>2. checks[c].priced = TRUE
        BY <2>0 DEF LedgerTypeOK
      <3> QED BY <3>1, <3>2 DEF NoCheck
    <2>4. PICK r \in Resources : ledger[a].used[r] >= Limits[tier][r]
      BY <2>0 DEF LedgerIInv, RefusedInv
    <2>5. synced.used[r] >= Limits[tier][r]
      <3>1. ledger[a] \in [total : Totals, used : Totals, blocked : SUBSET Resources]
            /\ checks[c].answer \in Totals
        BY <2>0 DEF LedgerTypeOK
      <3>2. /\ synced.used[r] = ledger[a].used[r] + Delta(ledger[a], checks[c].answer, r)
            /\ Delta(ledger[a], checks[c].answer, r) \in Nat
        BY <3>1, SyncedType
      <3>3. ledger[a].used[r] \in Nat /\ Limits[tier][r] \in Nat
        BY <2>0, <3>1, LedgerAssumption DEF LedgerIInv, RefusedInv, Totals
      <3> QED BY <2>4, <3>2, <3>3
    <2>6. Exceeded(synced, TRUE) # {}
      BY <2>5 DEF Exceeded
    <2> HIDE DEF synced
    <2>7. Enforcing /\ (a \in Leads => BoardBlocked)
      BY <2>0 DEF LedgerIInv, RefusedInv
    <2> QED BY <2>3, <2>6, <2>7 DEF Refuses
  <1> QED BY <1>1, LedgerInvariant, PTL DEF LedgerSpec, RefusalStands

-----------------------------------------------------------------------------
(***************************************************************************)
(* The members.  The inductive invariant.                                  *)
(***************************************************************************)
Role == {"member", "admin", "owner"}
MemberRows == [role : Role, row : Nat]
InviteRows == [status : {"unused", "pending", "accepted", "revoked"}, user : Users, role : Role]

\* What a request holds, by the request it is and how far it has come.
CallTyped(c) ==
  /\ c.op \in {"remove", "role", "accept", "enter"} => c.user \in Users
  /\ c.op \in {"invite", "revoke", "accept", "enter"} => c.invite \in Invites
  /\ c.op \in {"remove", "role"} => c.seen \in MemberRows
  /\ c.op = "accept" /\ c.phase = "loaded" => c.seen \in MemberRows
  /\ c.op = "role" => c.role \in Role
  /\ c.op = "invite" => c.row \in [status : {"pending"}, user : Users, role : Role]
  /\ c.phase \in {"joining", "inserted"} => c.op \in {"accept", "enter"}

TablesTyped ==
  /\ members \in [Users -> [role : Role \cup {"none"}, row : Nat]]
  /\ invites \in [Invites -> InviteRows]
  /\ calls = [q \in Calls |-> calls[q]]
  /\ demoted \in BOOLEAN /\ overtaken \in BOOLEAN

\* Whoever was invited was not a member then: he has joined since if he is one.
CameBack(u) == IsMember(u) => members[u].row > 0

InviteInv(i) ==
  /\ invites[i].status # "unused" => CameBack(invites[i].user)
  /\ invites[i].status = "accepted" => members[invites[i].user].row > 0

\* What a request has read and still relies on.
CallInv(c) ==
  /\ c.op \in {"revoke", "accept", "enter"} => invites[c.invite].status # "unused"
  /\ c.op \in {"accept", "enter"} => invites[c.invite].user = c.user
  /\ c.op = "accept" /\ c.phase = "loaded" => members[c.user].row > 0
  /\ c.op = "invite" => CameBack(c.row.user)
  /\ c.op = "remove" /\ c.phase = "loaded" /\ c.seen.role = "owner" => Cardinality(c.owners) > 1
  /\ c.phase = "inserted" => ~ IsMember(c.user)

\* Of two requests that add the same user one waits for the other.
OneAdds ==
  \A q, p \in Calls :
    calls[q].phase = "inserted" /\ p # q /\ calls[p].phase = "inserted"
      => calls[p].user # calls[q].user

MembershipIInv ==
  /\ TablesTyped
  /\ \A q \in Calls : CallTyped(calls[q]) /\ CallInv(calls[q])
  /\ \A i \in Invites : InviteInv(i)
  /\ OneAdds
  /\ SomeoneOwns

\* The order of the roles.
LEMMA RankedIsRole ==
  /\ Ranked = Role
  /\ Ranks["member"] = 0 /\ Ranks["admin"] = 1 /\ Ranks["owner"] = 2
  BY DEF Ranked, Ranks, Role

\* The inductive invariant holds at first.
LEMMA MembershipInvInit == MembershipInit => MembershipIInv
  <1> SUFFICES ASSUME MembershipInit PROVE MembershipIInv
    OBVIOUS
  <1>1. TablesTyped
    BY MembershipAssumption DEF MembershipInit, TablesTyped, InviteRows, Role
  <1>2. ASSUME NEW q \in Calls PROVE CallTyped(calls[q]) /\ CallInv(calls[q]) /\ calls[q].phase = "none"
    BY DEF MembershipInit, NoCall, CallTyped, CallInv
  <1>3. ASSUME NEW i \in Invites PROVE InviteInv(i)
    BY DEF MembershipInit, InviteInv
  <1>4. OneAdds
    BY <1>2 DEF OneAdds
  <1>5. Founder \in Owners
    BY MembershipAssumption DEF MembershipInit, Owners
  <1> QED BY <1>1, <1>2, <1>3, <1>4, <1>5 DEF MembershipIInv, SomeoneOwns

-----------------------------------------------------------------------------
(***************************************************************************)
(* Requests that read.                                                     *)
(***************************************************************************)
\* A step that writes no table keeps the invariant if what the request has read
\* is so.
LEMMA QuietCall ==
  ASSUME MembershipIInv, NEW q \in Calls, NEW c,
         UNCHANGED <<members, invites, demoted, overtaken>>,
         Becomes(q, c), CallTyped(c), CallInv(c),
         c.phase = "inserted" => \A p \in Calls :
           p # q /\ calls[p].phase = "inserted" => calls[p].user # c.user
  PROVE  MembershipIInv'
  <1>1. /\ calls' = [p \in Calls |-> calls'[p]] /\ calls'[q] = c
        /\ \A p \in Calls : p # q => calls'[p] = calls[p]
    BY DEF Becomes, MembershipIInv, TablesTyped
  <1>2. TablesTyped'
    BY <1>1 DEF MembershipIInv, TablesTyped, InviteRows
  <1>3. \A u : CameBack(u)' <=> CameBack(u)
    BY DEF CameBack, IsMember
  <1>4. ASSUME NEW d, CallInv(d) PROVE CallInv(d)'
    BY <1>4 DEF CallInv, CameBack, IsMember
  <1>5. ASSUME NEW p \in Calls PROVE CallTyped(calls[p])' /\ CallInv(calls[p])'
    <2>1. CASE p = q
      <3>1. calls'[p] = c /\ CallInv(c)'
        BY <1>1, <1>4, <2>1
      <3> QED BY <3>1 DEF CallTyped, CallInv, CameBack, IsMember
    <2>2. CASE p # q
      <3>1. calls'[p] = calls[p] /\ CallTyped(calls[p]) /\ CallInv(calls[p])
        BY <1>1, <2>2 DEF MembershipIInv
      <3> QED BY <3>1 DEF CallTyped, CallInv, CameBack, IsMember
    <2> QED BY <2>1, <2>2
  <1>6. ASSUME NEW i \in Invites PROVE InviteInv(i)'
    BY <1>3 DEF MembershipIInv, InviteInv
  <1>7. OneAdds'
    BY <1>1 DEF MembershipIInv, OneAdds
  <1>8. SomeoneOwns'
    BY DEF MembershipIInv, SomeoneOwns, Owners
  <1> QED BY <1>2, <1>5, <1>6, <1>7, <1>8 DEF MembershipIInv

\* A request that is not there claims nothing.
LEMMA NoCallIsFine == CallTyped(NoCall) /\ CallInv(NoCall) /\ NoCall.phase # "inserted"
  BY DEF CallTyped, CallInv, NoCall

\* An answer without a COMMIT.
LEMMA QuietAnswer ==
  ASSUME MembershipIInv, NEW q \in Calls, Answer(q),
         UNCHANGED <<members, invites, demoted, overtaken>>
  PROVE  MembershipIInv'
  <1>1. Becomes(q, NoCall)
    BY DEF Answer
  <1> QED BY <1>1, NoCallIsFine, QuietCall

\* What is read of a member is his row.
LEMMA SeenMember ==
  ASSUME TablesTyped, NEW u \in Users, IsMember(u)
  PROVE  members[u] \in MemberRows
  <1>1. members[u] \in [role : Role \cup {"none"}, row : Nat]
    BY DEF TablesTyped
  <1>2. members[u].role \in Role
    BY <1>1 DEF IsMember
  <1> QED BY <1>1, <1>2 DEF MemberRows

\* Arriving requests keep the invariant.
LEMMA AskStep ==
  ASSUME MembershipIInv, NEW q \in Calls, AskAny(q)
  PROVE  MembershipIInv'
  <1>0. TablesTyped
    BY DEF MembershipIInv
  <1>1. ASSUME NEW by \in Users, NEW u \in Users, AskRemove(q, by, u)
        PROVE  MembershipIInv'
    <2> DEFINE c == [op |-> "remove", phase |-> "admitted",
                     user |-> u, seen |-> members[u], as |-> members[by].role]
    <2>1. Becomes(q, c) /\ UNCHANGED <<members, invites, demoted, overtaken>> /\ IsMember(u)
      BY <1>1 DEF AskRemove
    <2>2. CallTyped(c) /\ CallInv(c)
      BY <1>0, <2>1, SeenMember DEF CallTyped, CallInv
    <2> QED BY <2>1, <2>2, QuietCall
  <1>2. ASSUME NEW by \in Users, NEW u \in Users, NEW role \in Ranked, AskRole(q, by, u, role)
        PROVE  MembershipIInv'
    <2> DEFINE c == [op |-> "role", phase |-> "admitted",
                     user |-> u, seen |-> members[u], role |-> role, own |-> by = u]
    <2>1. Becomes(q, c) /\ UNCHANGED <<members, invites, demoted, overtaken>> /\ IsMember(u)
      BY <1>2 DEF AskRole
    <2>2. CallTyped(c) /\ CallInv(c)
      BY <1>0, <2>1, SeenMember, RankedIsRole DEF CallTyped, CallInv
    <2> QED BY <2>1, <2>2, QuietCall
  <1>3. ASSUME NEW by \in Users, NEW u \in Users, NEW i \in Invites, NEW role \in Ranked,
               AskInvite(q, by, i, u, role)
        PROVE  MembershipIInv'
    <2> DEFINE c == [op |-> "invite", phase |-> "loaded", invite |-> i,
                     row |-> [status |-> "pending", user |-> u, role |-> role]]
    <2>1. Becomes(q, c) /\ UNCHANGED <<members, invites, demoted, overtaken>> /\ ~ IsMember(u)
      BY <1>3 DEF AskInvite
    <2>2. CallTyped(c) /\ CallInv(c)
      BY <1>0, <2>1, RankedIsRole DEF CallTyped, CallInv, CameBack
    <2> QED BY <2>1, <2>2, QuietCall
  <1>4. ASSUME NEW by \in Users, NEW i \in Invites, AskRevoke(q, by, i)
        PROVE  MembershipIInv'
    <2> DEFINE c == [op |-> "revoke", phase |-> "loaded", invite |-> i]
    <2>1. /\ Becomes(q, c) /\ UNCHANGED <<members, invites, demoted, overtaken>>
          /\ invites[i].status # "unused"
      BY <1>4 DEF AskRevoke
    <2>2. CallTyped(c) /\ CallInv(c)
      BY <1>0, <2>1 DEF CallTyped, CallInv
    <2> QED BY <2>1, <2>2, QuietCall
  <1>5. ASSUME NEW u \in Users, NEW i \in Invites, AskAccept(q, u, i)
        PROVE  MembershipIInv'
    <2> DEFINE c == [op |-> "accept", phase |-> "admitted", user |-> u, invite |-> i]
    <2>1. /\ Becomes(q, c) /\ UNCHANGED <<members, invites, demoted, overtaken>>
          /\ invites[i].status = "pending" /\ invites[i].user = u
      BY <1>5 DEF AskAccept, Addressed
    <2>2. CallTyped(c) /\ CallInv(c)
      BY <1>0, <2>1 DEF CallTyped, CallInv
    <2> QED BY <2>1, <2>2, QuietCall
  <1>6. ASSUME NEW u \in Users, NEW i \in Invites, AskEnter(q, u, i)
        PROVE  MembershipIInv'
    <2> DEFINE c == [op |-> "enter", phase |-> "joining", user |-> u, invite |-> i]
    <2>1. /\ Becomes(q, c) /\ UNCHANGED <<members, invites, demoted, overtaken>>
          /\ invites[i].status = "pending" /\ invites[i].user = u
      BY <1>6 DEF AskEnter, Addressed
    <2>2. CallTyped(c) /\ CallInv(c)
      BY <1>0, <2>1 DEF CallTyped, CallInv
    <2> QED BY <2>1, <2>2, QuietCall
  <1> QED BY <1>1, <1>2, <1>3, <1>4, <1>5, <1>6 DEF AskAny

\* Requests that load again keep the invariant.
LEMMA LoadStep ==
  ASSUME MembershipIInv, NEW q \in Calls, LoadRemove(q) \/ LoadRole(q) \/ LoadAccept(q)
  PROVE  MembershipIInv'
  <1> SUFFICES ASSUME NEW b, b = calls[q], ~ Answer(q)
                PROVE  MembershipIInv'
    BY QuietAnswer DEF LoadRemove, LoadRole, LoadAccept
  <1>0. /\ UNCHANGED <<members, invites, demoted, overtaken>>
        /\ TablesTyped /\ CallTyped(b) /\ CallInv(b)
    BY DEF LoadRemove, LoadRole, LoadAccept, MembershipIInv
  <1>1. CASE LoadRemove(q)
    <2> DEFINE c == [op |-> "remove", phase |-> "loaded",
                     user |-> b.user, seen |-> members[b.user], owners |-> Owners]
    <2>1. Becomes(q, c) /\ b.op = "remove" /\ IsMember(b.user) /\ MayRemove(b.as, b.user)
      BY <1>1 DEF LoadRemove, InCall, SameRow
    <2>2. CallTyped(c)
      BY <1>0, <2>1, SeenMember DEF CallTyped
    <2>3. CallInv(c)
      BY <2>1 DEF CallInv, MayRemove
    <2> QED BY <1>0, <2>1, <2>2, <2>3, QuietCall
  <1>2. CASE LoadRole(q)
    <2> DEFINE c == [op |-> "role", phase |-> "loaded", user |-> b.user, role |-> b.role,
                     seen |-> IF b.own THEN b.seen ELSE members[b.user]]
    <2>1. Becomes(q, c) /\ b.op = "role" /\ IsMember(b.user)
      BY <1>2 DEF LoadRole, InCall, SameRow
    <2>2. b.user \in Users /\ b.role \in Role /\ b.seen \in MemberRows
      BY <1>0, <2>1 DEF CallTyped
    <2>3. CallTyped(c)
      BY <1>0, <2>1, <2>2, SeenMember DEF CallTyped
    <2>4. CallInv(c)
      BY DEF CallInv
    <2> QED BY <1>0, <2>1, <2>3, <2>4, QuietCall
  <1>3. CASE LoadAccept(q)
    <2>0. /\ b.op = "accept" /\ b.user \in Users /\ b.invite \in Invites
          /\ invites[b.invite].status # "unused" /\ invites[b.invite].user = b.user
      BY <1>0, <1>3 DEF LoadAccept, InCall, CallTyped, CallInv
    <2>1. CASE IsMember(b.user)
      <3> DEFINE c == [op |-> "accept", phase |-> "loaded",
                       user |-> b.user, invite |-> b.invite, seen |-> members[b.user]]
      <3>1. Becomes(q, c)
        BY <1>3, <2>1 DEF LoadAccept
      <3>2. CallTyped(c)
        BY <1>0, <2>0, <2>1, SeenMember DEF CallTyped
      <3>3. members[b.user].row > 0
        BY <2>0, <2>1 DEF MembershipIInv, InviteInv, CameBack
      <3>4. CallInv(c)
        BY <2>0, <3>3 DEF CallInv
      <3> QED BY <1>0, <3>1, <3>2, <3>4, QuietCall
    <2>2. CASE ~ IsMember(b.user)
      <3> DEFINE c == [op |-> "accept", phase |-> "joining", user |-> b.user, invite |-> b.invite]
      <3>1. Becomes(q, c)
        BY <1>3, <2>0, <2>2 DEF LoadAccept, Joins
      <3>2. CallTyped(c) /\ CallInv(c)
        BY <2>0 DEF CallTyped, CallInv
      <3> QED BY <1>0, <3>1, <3>2, QuietCall
    <2> QED BY <2>1, <2>2
  <1> QED BY <1>1, <1>2, <1>3

\* Only one request adds a user at a time, and only a user who is no member.
LEMMA InsertStep ==
  ASSUME MembershipIInv, NEW q \in Calls, InsertMember(q)
  PROVE  MembershipIInv'
  <1> SUFFICES ASSUME NEW b, b = calls[q], ~ Answer(q)
                PROVE  MembershipIInv'
    BY QuietAnswer DEF InsertMember
  <1> DEFINE c == [op |-> b.op, phase |-> "inserted", user |-> b.user, invite |-> b.invite]
  <1>1. /\ UNCHANGED <<members, invites, demoted, overtaken>> /\ Becomes(q, c)
        /\ ~ IsMember(b.user) /\ ~ Adding(b.user) /\ b.phase = "joining"
    BY DEF InsertMember, Joins
  <1>2. CallTyped(b) /\ CallInv(b)
    BY DEF MembershipIInv
  <1>3. CallTyped(c) /\ CallInv(c)
    BY <1>1, <1>2 DEF CallTyped, CallInv
  <1>4. \A p \in Calls : calls[p].phase = "inserted" => calls[p].user # c.user
    BY <1>1 DEF Adding
  <1> QED BY <1>1, <1>3, <1>4, QuietCall

-----------------------------------------------------------------------------
(***************************************************************************)
(* Requests that commit.                                                   *)
(***************************************************************************)
\* What every COMMIT leaves to the requests that have read before it.
TablesKept ==
  /\ \A u \in Users :
       /\ members'[u].row >= members[u].row
       /\ IsMember(u)' => IsMember(u) \/ members'[u].row > 0
  /\ \A i \in Invites : invites[i].status # "unused" =>
       /\ invites'[i].status # "unused"
       /\ invites'[i].user = invites[i].user

\* Whoever has come back, or has ever had a row, still has.
LEMMA BackIsBack ==
  ASSUME TablesTyped, TablesTyped', TablesKept, NEW u \in Users
  PROVE  /\ CameBack(u) => CameBack(u)'
         /\ members[u].row > 0 => members'[u].row > 0
  <1>1. members[u].row \in Nat /\ members'[u].row \in Nat /\ members'[u].row >= members[u].row
    BY DEF TablesTyped, TablesKept
  <1> QED BY <1>1 DEF CameBack, TablesKept

\* A COMMIT keeps the invariant if it keeps these parts of it.
LEMMA CommitStep ==
  ASSUME MembershipIInv, NEW q \in Calls, Answer(q),
         TablesTyped', TablesKept, SomeoneOwns',
         \A i \in Invites : InviteInv(i)',
         \A p \in Calls : p # q /\ calls[p].phase = "inserted" => members'[calls[p].user].role = "none"
  PROVE  MembershipIInv'
  <1>0. TablesTyped
    BY DEF MembershipIInv
  <1>1. calls'[q] = NoCall /\ \A p \in Calls : p # q => calls'[p] = calls[p]
    BY <1>0 DEF Answer, Becomes, TablesTyped
  <1>2. ASSUME NEW p \in Calls PROVE CallTyped(calls[p])' /\ CallInv(calls[p])'
    <2>1. CASE p = q
      BY <1>1, <2>1 DEF NoCall, CallTyped, CallInv
    <2>2. CASE p # q
      <3> SUFFICES ASSUME NEW c, c = calls[p], calls'[p] = c, CallTyped(c), CallInv(c),
                          c.phase = "inserted" => members'[c.user].role = "none"
                    PROVE  CallTyped(calls'[p]) /\ CallInv(calls[p])'
        BY <1>1, <2>2 DEF MembershipIInv, CallTyped, CallInv
      <3>1. c.op \in {"revoke", "accept", "enter"} => invites'[c.invite].status # "unused"
        BY DEF CallTyped, CallInv, TablesKept
      <3>2. c.op \in {"accept", "enter"} => invites'[c.invite].user = c.user
        BY DEF CallTyped, CallInv, TablesKept
      <3>3. c.op = "accept" /\ c.phase = "loaded" => members'[c.user].row > 0
        BY <1>0, BackIsBack DEF CallTyped, CallInv
      <3>4. c.op = "invite" => CameBack(c.row.user)'
        BY <1>0, BackIsBack DEF CallTyped, CallInv
      <3>5. c.op = "remove" /\ c.phase = "loaded" /\ c.seen.role = "owner" => Cardinality(c.owners) > 1
        BY DEF CallInv
      <3>6. CallInv(calls[p])'
        BY <3>1, <3>2, <3>3, <3>4, <3>5 DEF CallInv, CameBack, IsMember
      <3> QED BY <3>6
    <2> QED BY <2>1, <2>2 DEF CallTyped
  <1>3. OneAdds'
    BY <1>1, NoCallIsFine DEF MembershipIInv, OneAdds
  <1> QED BY <1>2, <1>3 DEF MembershipIInv

\* A COMMIT that writes no invite.
LEMMA MembersOnly ==
  ASSUME MembershipIInv, TablesTyped', TablesKept, invites' = invites
  PROVE  \A i \in Invites : InviteInv(i)'
  <1>1. ASSUME NEW i \in Invites PROVE InviteInv(i)'
    <2>1. TablesTyped /\ InviteInv(i) /\ invites[i].user \in Users
      BY DEF MembershipIInv, TablesTyped, InviteRows
    <2>2. /\ CameBack(invites[i].user) => CameBack(invites[i].user)'
          /\ members[invites[i].user].row > 0 => members'[invites[i].user].row > 0
      BY <2>1, BackIsBack
    <2> QED BY <2>1, <2>2 DEF InviteInv, CameBack, IsMember
  <1> QED BY <1>1

\* What UPDATEs of the role of a user who is a member, and his removal, have in common.
LEMMA GivenFacts ==
  ASSUME TablesTyped, NEW u \in Users, NEW role \in Role \cup {"none"},
         members' = Given(u, role), IsMember(u)
  PROVE  /\ members' \in [Users -> [role : Role \cup {"none"}, row : Nat]]
         /\ members'[u].role = role
         /\ \A v \in Users : v # u => members'[v] = members[v]
         /\ \A v \in Users : members'[v].row = members[v].row /\ (IsMember(v)' => IsMember(v))
  <1>1. members' = [members EXCEPT ![u].role = role]
        /\ members \in [Users -> [role : Role \cup {"none"}, row : Nat]]
    BY DEF Given, TablesTyped
  <1>2. \A v \in Users : v # u => members'[v] = members[v]
    BY <1>1
  <1>3. members'[u] = [members[u] EXCEPT !.role = role] /\ members[u] \in [role : Role \cup {"none"}, row : Nat]
    BY <1>1
  <1>4. members'[u].role = role /\ members'[u].row = members[u].row
        /\ members'[u] \in [role : Role \cup {"none"}, row : Nat]
    BY <1>3
  <1> QED BY <1>1, <1>2, <1>4 DEF IsMember

\* Whoever is being added is no member yet.
LEMMA AddedLater ==
  ASSUME MembershipIInv, NEW p \in Calls, calls[p].phase = "inserted"
  PROVE  calls[p].user \in Users /\ ~ IsMember(calls[p].user)
  <1>1. CallTyped(calls[p]) /\ CallInv(calls[p])
    BY DEF MembershipIInv
  <1> QED BY <1>1 DEF CallTyped, CallInv

\* A removal counts the owners, and removes the last one only on an old count.
LEMMA RemoveStep ==
  ASSUME MembershipIInv, NEW q \in Calls, CommitRemove(q)
  PROVE  MembershipIInv'
  <1> SUFFICES ASSUME NEW c, c = calls[q] PROVE MembershipIInv'
    OBVIOUS
  <1>0. /\ TablesTyped /\ CallTyped(c) /\ CallInv(c) /\ c.op = "remove" /\ c.phase = "loaded"
        /\ Answer(q) /\ invites' = invites /\ demoted' = demoted
        /\ overtaken' = (overtaken \/ Overtakes(c) \/ (c.user \in Owners /\ Owners # c.owners))
    BY DEF CommitRemove, InCall, MembershipIInv
  <1>1. CASE ~ SameRow(c)
    <2>1. members' = members /\ TablesTyped'
      BY <1>0, <1>1 DEF CommitRemove, TablesTyped, Answer, Becomes
    <2>2. TablesKept
      BY <1>0, <2>1 DEF TablesKept, TablesTyped, IsMember
    <2>3. SomeoneOwns'
      BY <1>0, <2>1 DEF MembershipIInv, SomeoneOwns, Owners
    <2>4. \A p \in Calls : p # q /\ calls[p].phase = "inserted" => members'[calls[p].user].role = "none"
      BY <2>1, AddedLater DEF IsMember
    <2> QED BY <1>0, <2>1, <2>2, <2>3, <2>4, CommitStep, MembersOnly
  <1>2. CASE SameRow(c)
    <2>0. c.user \in Users /\ IsMember(c.user) /\ members' = Given(c.user, "none")
      BY <1>0, <1>2 DEF CallTyped, SameRow, CommitRemove
    <2>1. /\ members' \in [Users -> [role : Role \cup {"none"}, row : Nat]]
          /\ \A v \in Users : v # c.user => members'[v] = members[v]
          /\ \A v \in Users : members'[v].row = members[v].row /\ (IsMember(v)' => IsMember(v))
      BY <1>0, <2>0, GivenFacts
    <2>2. TablesTyped'
      BY <1>0, <2>1 DEF TablesTyped, Answer, Becomes
    <2>3. TablesKept
      BY <1>0, <2>1 DEF TablesKept, TablesTyped
    <2>4. SomeoneOwns'
      <3> SUFFICES ASSUME ~ demoted, ~ overtaken' PROVE Owners' # {}
        BY <1>0 DEF SomeoneOwns
      <3>1. ~ overtaken /\ members[c.user] = c.seen /\ (c.user \in Owners => Owners = c.owners)
        BY <1>0 DEF Overtakes
      <3>2. Owners # {}
        BY <3>1 DEF MembershipIInv, SomeoneOwns
      <3>3. PICK v \in Owners : v # c.user
        <4>1. CASE c.user \notin Owners
          BY <3>2, <4>1
        <4>2. CASE c.user \in Owners
          <5>1. Cardinality(Owners) > 1
            BY <1>0, <3>1, <4>2 DEF CallInv, Owners
          <5>2. Cardinality({c.user}) = 1
            BY FS_Singleton
          <5>3. Owners # {c.user}
            BY <5>1, <5>2
          <5> QED BY <4>2, <5>3
        <4> QED BY <4>1, <4>2
      <3> QED BY <2>1, <3>3 DEF Owners
    <2>5. \A p \in Calls : p # q /\ calls[p].phase = "inserted" => members'[calls[p].user].role = "none"
      BY <2>1, AddedLater DEF IsMember
    <2> QED BY <1>0, <2>2, <2>3, <2>4, <2>5, CommitStep, MembersOnly
  <1> QED BY <1>1, <1>2

\* What a change of a role has to show: it writes an owner only knowingly or on an
\* old read.
LEMMA RoleGiven ==
  ASSUME MembershipIInv, NEW q \in Calls, Answer(q),
         NEW u \in Users, NEW role \in Role, IsMember(u), members' = Given(u, role),
         demoted' \in BOOLEAN, overtaken' \in BOOLEAN,
         demoted => demoted', overtaken => overtaken',
         members[u].role = "owner" => role = "owner" \/ demoted' \/ overtaken'
  PROVE  /\ TablesKept \/ invites' # invites
         /\ members' \in [Users -> [role : Role \cup {"none"}, row : Nat]]
         /\ \A v \in Users : members'[v].row = members[v].row /\ (IsMember(v)' => IsMember(v))
         /\ SomeoneOwns'
         /\ \A p \in Calls : p # q /\ calls[p].phase = "inserted" => members'[calls[p].user].role = "none"
  <1>0. TablesTyped
    BY DEF MembershipIInv
  <1>1. /\ members' \in [Users -> [role : Role \cup {"none"}, row : Nat]]
        /\ members'[u].role = role
        /\ \A v \in Users : v # u => members'[v] = members[v]
        /\ \A v \in Users : members'[v].row = members[v].row /\ (IsMember(v)' => IsMember(v))
    BY <1>0, GivenFacts
  <1>2. TablesKept \/ invites' # invites
    BY <1>0, <1>1 DEF TablesKept, TablesTyped
  <1>3. SomeoneOwns'
    <2> SUFFICES ASSUME ~ demoted', ~ overtaken' PROVE Owners' # {}
      BY DEF SomeoneOwns
    <2>1. PICK v \in Users : members[v].role = "owner"
      BY DEF MembershipIInv, SomeoneOwns, Owners
    <2>2. members'[v].role = "owner"
      BY <1>1, <2>1
    <2> QED BY <2>2 DEF Owners
  <1>4. \A p \in Calls : p # q /\ calls[p].phase = "inserted" => members'[calls[p].user].role = "none"
    BY <1>1, AddedLater DEF IsMember
  <1> QED BY <1>1, <1>2, <1>3, <1>4

\* A change of role keeps the invariant.
LEMMA RoleStep ==
  ASSUME MembershipIInv, NEW q \in Calls, CommitRole(q)
  PROVE  MembershipIInv'
  <1> SUFFICES ASSUME NEW c, c = calls[q] PROVE MembershipIInv'
    OBVIOUS
  <1>0. /\ TablesTyped /\ CallTyped(c) /\ c.op = "role" /\ Answer(q) /\ SameRow(c)
        /\ invites' = invites
    BY DEF CommitRole, InCall, MembershipIInv
  <1>1. CASE c.role = c.seen.role
    BY <1>0, <1>1, QuietAnswer DEF CommitRole
  <1>2. CASE c.role # c.seen.role
    <2>1. /\ c.user \in Users /\ IsMember(c.user) /\ c.role \in Role
          /\ members' = Given(c.user, c.role)
          /\ demoted' = (demoted \/ c.seen.role = "owner")
          /\ overtaken' = (overtaken \/ Overtakes(c))
      BY <1>0, <1>2 DEF CallTyped, SameRow, CommitRole
    <2>2. /\ demoted' \in BOOLEAN /\ overtaken' \in BOOLEAN
          /\ (demoted => demoted') /\ (overtaken => overtaken')
      BY <1>0, <2>1 DEF TablesTyped
    <2>3. members[c.user].role = "owner" => demoted' \/ overtaken'
      BY <2>1 DEF Overtakes
    <2>4. /\ TablesKept /\ SomeoneOwns'
          /\ members' \in [Users -> [role : Role \cup {"none"}, row : Nat]]
          /\ \A p \in Calls : p # q /\ calls[p].phase = "inserted" => members'[calls[p].user].role = "none"
      BY <1>0, <2>1, <2>2, <2>3, RoleGiven
    <2>5. TablesTyped'
      BY <1>0, <2>2, <2>4 DEF TablesTyped, Answer, Becomes
    <2> QED BY <1>0, <2>4, <2>5, CommitStep, MembersOnly
  <1> QED BY <1>1, <1>2

\* An invite that is written keeps its user, and is no longer unused.
LEMMA InviteStep ==
  ASSUME MembershipIInv, NEW q \in Calls, CommitInvite(q) \/ CommitRevoke(q)
  PROVE  MembershipIInv'
  <1> SUFFICES ASSUME NEW c, c = calls[q] PROVE MembershipIInv'
    OBVIOUS
  <1>0. /\ TablesTyped /\ CallTyped(c) /\ CallInv(c) /\ Answer(q)
        /\ UNCHANGED <<members, demoted, overtaken>> /\ c.invite \in Invites
    BY DEF CommitInvite, CommitRevoke, InCall, MembershipIInv, CallTyped
  <1>1. PICK row \in InviteRows :
          /\ invites' = [invites EXCEPT ![c.invite] = row]
          /\ row.status # "unused"
          /\ \/ invites[c.invite].status = "unused" /\ row.status = "pending" /\ CameBack(row.user)
             \/ (invites[c.invite].status # "unused" /\ row.status = "revoked"
                   /\ row.user = invites[c.invite].user)
    <2>1. CASE CommitInvite(q)
      <3>1. /\ c.op = "invite" /\ invites' = [invites EXCEPT ![c.invite] = c.row]
            /\ invites[c.invite].status = "unused"
        BY <2>1 DEF CommitInvite, InCall
      <3>2. c.row \in InviteRows /\ c.row.status = "pending" /\ CameBack(c.row.user)
        BY <1>0, <3>1 DEF CallTyped, CallInv, InviteRows
      <3> QED BY <3>1, <3>2
    <2>2. CASE CommitRevoke(q)
      <3> DEFINE row == [invites[c.invite] EXCEPT !.status = "revoked"]
      <3>1. c.op = "revoke" /\ invites' = [invites EXCEPT ![c.invite] = row]
        BY <2>2 DEF CommitRevoke, InCall
      <3>2. invites[c.invite] \in InviteRows /\ invites[c.invite].status # "unused"
        BY <1>0, <3>1 DEF TablesTyped, CallInv
      <3>3. row \in InviteRows /\ row.status = "revoked" /\ row.user = invites[c.invite].user
        BY <3>2 DEF InviteRows
      <3> QED BY <3>1, <3>2, <3>3
    <2> QED BY <2>1, <2>2
  <1>2. /\ invites' \in [Invites -> InviteRows] /\ invites'[c.invite] = row
        /\ \A i \in Invites : i # c.invite => invites'[i] = invites[i]
    BY <1>0, <1>1 DEF TablesTyped
  <1>3. TablesTyped'
    BY <1>0, <1>2 DEF TablesTyped, Answer, Becomes, InviteRows
  <1>4. TablesKept
    <2>1. \A i \in Invites : invites[i].status # "unused" =>
            invites'[i].status # "unused" /\ invites'[i].user = invites[i].user
      BY <1>1, <1>2
    <2> QED BY <1>0, <2>1 DEF TablesKept, TablesTyped, IsMember
  <1>5. ASSUME NEW i \in Invites PROVE InviteInv(i)'
    <2>1. CASE i # c.invite
      BY <1>0, <1>2, <2>1 DEF MembershipIInv, InviteInv, CameBack, IsMember
    <2>2. CASE i = c.invite
      <3>1. CameBack(row.user)
        BY <1>0, <1>1 DEF MembershipIInv, InviteInv
      <3> QED BY <1>0, <1>1, <1>2, <2>2, <3>1 DEF InviteInv, CameBack, IsMember
    <2> QED BY <2>1, <2>2
  <1>6. SomeoneOwns'
    BY <1>0 DEF MembershipIInv, SomeoneOwns, Owners
  <1>7. \A p \in Calls : p # q /\ calls[p].phase = "inserted" => members'[calls[p].user].role = "none"
    BY <1>0, AddedLater DEF IsMember
  <1> QED BY <1>0, <1>3, <1>4, <1>5, <1>6, <1>7, CommitStep

\* A request that accepts or joins marks the invite, unless it was revoked.
LEMMA AcceptedFacts ==
  ASSUME TablesTyped, NEW i \in Invites, invites' = Accepted(i), invites[i].status # "unused"
  PROVE  /\ invites' \in [Invites -> InviteRows]
         /\ \A j \in Invites : j # i => invites'[j] = invites[j]
         /\ invites'[i].user = invites[i].user /\ invites'[i].status # "unused"
         /\ \A j \in Invites : invites[j].status # "unused" =>
              invites'[j].status # "unused" /\ invites'[j].user = invites[j].user
  <1> DEFINE row == [invites[i] EXCEPT !.status = IF @ = "revoked" THEN @ ELSE "accepted"]
  <1>1. invites' = [invites EXCEPT ![i] = row] /\ invites[i] \in InviteRows
    BY DEF Accepted, TablesTyped
  <1>2. row \in InviteRows /\ row.user = invites[i].user /\ row.status # "unused"
    BY <1>1 DEF InviteRows
  <1>3. /\ invites' \in [Invites -> InviteRows] /\ invites'[i] = row
        /\ \A j \in Invites : j # i => invites'[j] = invites[j]
    BY <1>1, <1>2 DEF TablesTyped
  <1> QED BY <1>2, <1>3

\* What a join writes.
LEMMA JoinFacts ==
  ASSUME MembershipIInv, NEW q \in Calls, CommitJoin(q), NEW c, c = calls[q], StillThere(c.invite)
  PROVE  /\ c.user \in Users /\ c.invite \in Invites
         /\ invites[c.invite].user = c.user /\ invites[c.invite].status # "unused"
         /\ ~ IsMember(c.user)
         /\ members' \in [Users -> [role : Role \cup {"none"}, row : Nat]]
         /\ members'[c.user].row = members[c.user].row + 1
         /\ \A v \in Users : v # c.user => members'[v] = members[v]
         /\ invites' = Accepted(c.invite)
  <1>1. TablesTyped /\ CallTyped(c) /\ CallInv(c) /\ c.phase = "inserted"
    BY DEF MembershipIInv, CommitJoin
  <1>2. /\ c.user \in Users /\ c.invite \in Invites /\ ~ IsMember(c.user)
        /\ invites[c.invite].user = c.user /\ invites[c.invite].status # "unused"
    BY <1>1 DEF CallTyped, CallInv
  <1> DEFINE row == [role |-> invites[c.invite].role, row |-> members[c.user].row + 1]
  <1>3. members' = [members EXCEPT ![c.user] = row] /\ invites' = Accepted(c.invite)
    BY DEF CommitJoin
  <1>4. row \in [role : Role \cup {"none"}, row : Nat]
    BY <1>1, <1>2 DEF TablesTyped, InviteRows
  <1>5. /\ members' \in [Users -> [role : Role \cup {"none"}, row : Nat]]
        /\ members'[c.user] = row
        /\ \A v \in Users : v # c.user => members'[v] = members[v]
    BY <1>1, <1>2, <1>3, <1>4 DEF TablesTyped
  <1> QED BY <1>2, <1>3, <1>5

\* The COMMIT of a join keeps the invariant.
LEMMA JoinStep ==
  ASSUME MembershipIInv, NEW q \in Calls, CommitJoin(q)
  PROVE  MembershipIInv'
  <1> SUFFICES ASSUME NEW c, c = calls[q] PROVE MembershipIInv'
    OBVIOUS
  <1>0. TablesTyped /\ c.phase = "inserted" /\ Answer(q) /\ UNCHANGED <<demoted, overtaken>>
    BY DEF CommitJoin, MembershipIInv
  <1>1. CASE ~ StillThere(c.invite)
    BY <1>0, <1>1, QuietAnswer DEF CommitJoin
  <1>2. CASE StillThere(c.invite)
    <2>1. /\ c.user \in Users /\ c.invite \in Invites
          /\ invites[c.invite].user = c.user /\ invites[c.invite].status # "unused"
          /\ ~ IsMember(c.user)
          /\ members' \in [Users -> [role : Role \cup {"none"}, row : Nat]]
          /\ members'[c.user].row = members[c.user].row + 1
          /\ \A v \in Users : v # c.user => members'[v] = members[v]
          /\ invites' = Accepted(c.invite)
      BY <1>2, JoinFacts
    <2>2. /\ invites' \in [Invites -> InviteRows]
          /\ \A i \in Invites : i # c.invite => invites'[i] = invites[i]
          /\ invites'[c.invite].user = c.user
          /\ \A i \in Invites : invites[i].status # "unused" =>
               invites'[i].status # "unused" /\ invites'[i].user = invites[i].user
      BY <1>0, <2>1, AcceptedFacts
    <2>3. TablesTyped'
      BY <1>0, <2>1, <2>2 DEF TablesTyped, Answer, Becomes, InviteRows
    <2>4. members'[c.user].row > 0 /\ \A v \in Users : members'[v].row >= members[v].row
      <3>1. \A v \in Users : members[v].row \in Nat
        BY <1>0 DEF TablesTyped
      <3> QED BY <2>1, <3>1
    <2>5. TablesKept
      BY <2>1, <2>2, <2>4 DEF TablesKept, IsMember
    <2>6. ASSUME NEW i \in Invites PROVE InviteInv(i)'
      <3>1. CASE i = c.invite
        BY <2>1, <2>2, <2>4, <3>1 DEF InviteInv, CameBack
      <3>2. CASE i # c.invite
        <4>1. PICK v \in Users : invites[i].user = v
          BY <1>0 DEF TablesTyped, InviteRows
        <4>2. invites'[i] = invites[i] /\ InviteInv(i)
          BY <2>2, <3>2 DEF MembershipIInv
        <4>3. /\ CameBack(v) => CameBack(v)'
              /\ members[v].row > 0 => members'[v].row > 0
          BY <1>0, <2>3, <2>5, BackIsBack
        <4> QED BY <4>1, <4>2, <4>3 DEF InviteInv
      <3> QED BY <3>1, <3>2
    <2>7. SomeoneOwns'
      <3>1. Owners \subseteq Owners'
        BY <2>1 DEF Owners, IsMember
      <3> QED BY <1>0, <3>1 DEF MembershipIInv, SomeoneOwns
    <2>8. ASSUME NEW p \in Calls, p # q, calls[p].phase = "inserted"
          PROVE  members'[calls[p].user].role = "none"
      <3>1. calls[p].user \in Users /\ ~ IsMember(calls[p].user)
        BY <2>8, AddedLater
      <3>2. calls[p].user # c.user
        BY <1>0, <2>8 DEF MembershipIInv, OneAdds
      <3> QED BY <2>1, <3>1, <3>2 DEF IsMember
    <2> QED BY <1>0, <2>3, <2>5, <2>6, <2>7, <2>8, CommitStep
  <1> QED BY <1>1, <1>2

\* An invite only raises the role that was read.
LEMMA AcceptStep ==
  ASSUME MembershipIInv, NEW q \in Calls, CommitAccept(q)
  PROVE  MembershipIInv'
  <1> SUFFICES ASSUME NEW c, c = calls[q] PROVE MembershipIInv'
    OBVIOUS
  <1> DEFINE role == invites[c.invite].role
             raises == Ranks[role] > Ranks[c.seen.role]
  <1>0. /\ TablesTyped /\ CallTyped(c) /\ CallInv(c)
        /\ c.op = "accept" /\ c.phase = "loaded" /\ Answer(q) /\ demoted' = demoted
    BY DEF CommitAccept, InCall, MembershipIInv
  <1>1. CASE ~ (StillThere(c.invite) /\ (raises => SameRow(c)))
    BY <1>0, <1>1, QuietAnswer DEF CommitAccept
  <1>2. CASE StillThere(c.invite) /\ (raises => SameRow(c))
    <2>1. /\ c.user \in Users /\ c.invite \in Invites /\ role \in Role /\ c.seen.role \in Role
          /\ invites[c.invite].status # "unused" /\ invites[c.invite].user = c.user
          /\ members[c.user].row > 0 /\ members[c.user].row \in Nat
      BY <1>0 DEF CallTyped, CallInv, TablesTyped, InviteRows, MemberRows
    <2>2. /\ members' = IF raises THEN Given(c.user, role) ELSE members
          /\ invites' = Accepted(c.invite)
          /\ overtaken' = (overtaken \/ (raises /\ Overtakes(c)))
      BY <1>2 DEF CommitAccept
    <2>3. /\ invites' \in [Invites -> InviteRows]
          /\ \A i \in Invites : i # c.invite => invites'[i] = invites[i]
          /\ invites'[c.invite].user = c.user
          /\ \A i \in Invites : invites[i].status # "unused" =>
               invites'[i].status # "unused" /\ invites'[i].user = invites[i].user
      BY <1>0, <2>1, <2>2, AcceptedFacts
    <2>4. /\ members' \in [Users -> [role : Role \cup {"none"}, row : Nat]]
          /\ \A v \in Users : members'[v].row = members[v].row /\ (IsMember(v)' => IsMember(v))
          /\ SomeoneOwns'
          /\ \A p \in Calls : p # q /\ calls[p].phase = "inserted" => members'[calls[p].user].role = "none"
          /\ overtaken' \in BOOLEAN
      <3>1. CASE raises
        <4>1. /\ IsMember(c.user) /\ members' = Given(c.user, role)
              /\ overtaken' = (overtaken \/ Overtakes(c))
          BY <1>2, <2>2, <3>1 DEF SameRow
        <4>2. /\ demoted' \in BOOLEAN /\ overtaken' \in BOOLEAN
              /\ (demoted => demoted') /\ (overtaken => overtaken')
          BY <1>0, <4>1 DEF TablesTyped
        <4>3. members[c.user].role = "owner" => overtaken'
          <5>1. c.seen.role # "owner"
            BY <2>1, <3>1, RankedIsRole DEF Role
          <5> QED BY <4>1, <5>1 DEF Overtakes
        <4> HIDE DEF role, raises
        <4> QED BY <1>0, <2>1, <4>1, <4>2, <4>3, RoleGiven
      <3>2. CASE ~ raises
        <4>1. members' = members /\ overtaken' = overtaken
          BY <1>0, <2>2, <3>2 DEF TablesTyped
        <4>2. SomeoneOwns'
          BY <1>0, <4>1 DEF MembershipIInv, SomeoneOwns, Owners
        <4>3. \A p \in Calls : p # q /\ calls[p].phase = "inserted" => members'[calls[p].user].role = "none"
          BY <4>1, AddedLater DEF IsMember
        <4> QED BY <1>0, <4>1, <4>2, <4>3 DEF TablesTyped, IsMember
      <3> QED BY <3>1, <3>2
    <2>5. TablesTyped'
      BY <1>0, <2>3, <2>4 DEF TablesTyped, Answer, Becomes, InviteRows
    <2>6. TablesKept
      BY <1>0, <2>3, <2>4 DEF TablesKept, TablesTyped
    <2>7. ASSUME NEW i \in Invites PROVE InviteInv(i)'
      <3>1. CASE i = c.invite
        BY <2>1, <2>3, <2>4, <3>1 DEF InviteInv, CameBack
      <3>2. CASE i # c.invite
        <4>1. invites'[i] = invites[i] /\ InviteInv(i) /\ invites[i].user \in Users
          BY <1>0, <2>3, <3>2 DEF MembershipIInv, TablesTyped, InviteRows
        <4> QED BY <2>4, <4>1 DEF InviteInv, CameBack, IsMember
      <3> QED BY <3>1, <3>2
    <2> QED BY <1>0, <2>4, <2>5, <2>6, <2>7, CommitStep
  <1> QED BY <1>1, <1>2

\* Every step keeps the inductive invariant.
LEMMA MembershipInvNext == MembershipIInv /\ [MembershipNext]_membershipVars => MembershipIInv'
  <1> SUFFICES ASSUME MembershipIInv, [MembershipNext]_membershipVars PROVE MembershipIInv'
    OBVIOUS
  <1>1. ASSUME NEW q \in Calls, CallFails(q) PROVE MembershipIInv'
    BY <1>1, QuietAnswer DEF CallFails
  <1>2. CASE UNCHANGED membershipVars
    <2>1. UNCHANGED <<members, invites, calls, demoted, overtaken>>
      BY <1>2 DEF membershipVars
    <2>2. ASSUME NEW q \in Calls PROVE CallTyped(calls[q])' /\ CallInv(calls[q])'
      BY <2>1 DEF MembershipIInv, CallTyped, CallInv, CameBack, IsMember
    <2>3. ASSUME NEW i \in Invites PROVE InviteInv(i)'
      BY <2>1 DEF MembershipIInv, InviteInv, CameBack, IsMember
    <2>4. TablesTyped' /\ OneAdds' /\ SomeoneOwns'
      BY <2>1 DEF MembershipIInv, TablesTyped, InviteRows, OneAdds, SomeoneOwns, Owners
    <2> QED BY <2>2, <2>3, <2>4 DEF MembershipIInv
  <1> QED BY <1>1, <1>2, AskStep, LoadStep, InsertStep, RemoveStep, RoleStep, InviteStep,
             JoinStep, AcceptStep DEF MembershipNext

\* The inductive invariant of the members.
LEMMA MembershipInvariant == MembershipSpec => []MembershipIInv
  BY MembershipInvInit, MembershipInvNext, PTL DEF MembershipSpec

-----------------------------------------------------------------------------
(***************************************************************************)
(* What the organization promises.                                         *)
(***************************************************************************)
\* Rows of the two tables keep their types, and of two requests that add the same
\* user only one has inserted him.
THEOREM MembershipTyped == MembershipSpec => []MembershipTypeOK
  <1>1. MembershipIInv => MembershipTypeOK
    <2> SUFFICES ASSUME MembershipIInv PROVE MembershipTypeOK
      OBVIOUS
    <2>1. /\ members \in [Users -> [role : Ranked \cup {"none"}, row : Nat]]
          /\ invites \in [Invites -> [status : {"unused", "pending", "accepted", "revoked"},
                                      user : Users, role : Ranked]]
      BY RankedIsRole DEF MembershipIInv, TablesTyped, InviteRows
    <2>2. ASSUME NEW q \in Calls, NEW p \in Calls, calls[q].phase = "inserted"
          PROVE  /\ ~ IsMember(calls[q].user)
                 /\ p # q /\ calls[p].phase = "inserted" => calls[p].user # calls[q].user
      BY <2>2, AddedLater DEF MembershipIInv, OneAdds
    <2> QED BY <2>1, <2>2 DEF MembershipTypeOK
  <1> QED BY <1>1, MembershipInvariant, PTL

\* The organization keeps an owner, whatever requests overlap, as long as no owner
\* was demoted and no COMMIT wrote on old reads: the count in remove_org_member and
\* the rule that only owners remove owners are enough for that.
THEOREM AnOwnerStays == MembershipSpec => []SomeoneOwns
  <1>1. MembershipIInv => SomeoneOwns
    BY DEF MembershipIInv
  <1> QED BY <1>1, MembershipInvariant, PTL

\* Nobody becomes a member but by an invite addressed to him that stands, or one
\* by which he had come in before.
THEOREM OnlyInvitedJoin == MembershipSpec => JoinsByInvite
  <1> DEFINE Joined(u) ==
        ~ IsMember(u) /\ IsMember(u)' =>
         \E i \in Invites :
           /\ invites[i].user = u
           /\ \/ invites[i].status = "pending"
              \/ invites[i].status = "accepted" /\ members[u].row > 0
  <1>1. MembershipIInv /\ [MembershipNext]_membershipVars
          => [\A u \in Users : Joined(u)]_membershipVars
    <2> SUFFICES ASSUME MembershipIInv, MembershipNext, NEW u \in Users,
                        ~ IsMember(u), IsMember(u)'
                  PROVE  \E i \in Invites :
                           /\ invites[i].user = u
                           /\ \/ invites[i].status = "pending"
                              \/ invites[i].status = "accepted" /\ members[u].row > 0
      OBVIOUS
    <2>0. TablesTyped /\ members' # members
      BY DEF MembershipIInv, IsMember
    <2>1. PICK q \in Calls : CommitRemove(q) \/ CommitRole(q) \/ CommitJoin(q) \/ CommitAccept(q)
      <3>1. ASSUME NEW q \in Calls, AskAny(q) PROVE FALSE
        BY <2>0, <3>1 DEF AskAny, AskRemove, AskRole, AskInvite, AskRevoke, AskAccept, AskEnter
      <3>2. ASSUME NEW q \in Calls, LoadRemove(q) \/ LoadRole(q) \/ LoadAccept(q) PROVE FALSE
        BY <2>0, <3>2 DEF LoadRemove, LoadRole, LoadAccept
      <3>3. ASSUME NEW q \in Calls,
                   CommitInvite(q) \/ CommitRevoke(q) \/ InsertMember(q) \/ CallFails(q)
            PROVE  FALSE
        BY <2>0, <3>3 DEF CommitInvite, CommitRevoke, InsertMember, CallFails
      <3> QED BY <3>1, <3>2, <3>3 DEF MembershipNext
    <2>2. PICK c : c = calls[q]
      OBVIOUS
    <2>3. CallTyped(c)
      BY <2>2 DEF MembershipIInv
    <2>4. ASSUME NEW v \in Users, NEW role \in Role \cup {"none"}, IsMember(v), members' = Given(v, role)
          PROVE  FALSE
      BY <2>0, <2>4, GivenFacts
    <2>5. CommitJoin(q) /\ StillThere(c.invite)
      <3>1. CASE CommitRemove(q)
        BY <2>0, <2>2, <2>3, <2>4, <3>1 DEF CommitRemove, InCall, CallTyped, SameRow
      <3>2. CASE CommitRole(q)
        BY <2>0, <2>2, <2>3, <2>4, <3>2 DEF CommitRole, InCall, CallTyped, SameRow
      <3>3. CASE CommitAccept(q)
        <4>1. /\ c.user \in Users /\ c.invite \in Invites /\ SameRow(c)
              /\ members' = Given(c.user, invites[c.invite].role)
          BY <2>0, <2>2, <2>3, <3>3 DEF CommitAccept, InCall, CallTyped
        <4>2. invites[c.invite].role \in Role
          BY <2>0, <4>1 DEF TablesTyped, InviteRows
        <4> QED BY <2>4, <4>1, <4>2 DEF SameRow
      <3> QED BY <2>0, <2>1, <2>2, <3>1, <3>2, <3>3 DEF CommitJoin
    <2>6. /\ c.invite \in Invites /\ invites[c.invite].user = c.user
          /\ invites[c.invite].status # "unused" /\ u = c.user
      <3>1. \A v \in Users : v # c.user => members'[v] = members[v]
        BY <2>2, <2>5, JoinFacts
      <3>2. u = c.user
        BY <3>1 DEF IsMember
      <3> QED BY <2>2, <2>5, <3>2, JoinFacts
    <2>7. invites[c.invite].status \in {"pending", "accepted"}
      BY <2>0, <2>5, <2>6 DEF StillThere, TablesTyped, InviteRows
    <2>8. invites[c.invite].status = "accepted" => members[u].row > 0
      BY <2>6 DEF MembershipIInv, InviteInv
    <2> QED BY <2>6, <2>7, <2>8
  <1> QED BY <1>1, MembershipInvariant, PTL DEF MembershipSpec, JoinsByInvite
===============================================================================
