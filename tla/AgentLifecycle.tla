--------------------------- MODULE AgentLifecycle ---------------------------
(***************************************************************************)
(* One agent: the lifecycle runs that (re)provision it on its gateway      *)
(* (app/services/openclaw/lifecycle_orchestrator.py), the reconcile tasks  *)
(* that wake it again when it does not check in (lifecycle_reconcile.py,   *)
(* lifecycle_queue.py), and the requests that work on its row              *)
(* (provisioning_db.py, admin_service.py, core/agent_auth.py).             *)
(*                                                                         *)
(* A session keeps the row as it first loaded it: SELECT ... FOR UPDATE    *)
(* waits for the row lock but does not refresh the object, and a flush     *)
(* writes the columns that were changed since the load, no others.         *)
(* A run holds the row lock during its gateway calls.  The queue is the    *)
(* one of TaskQueue, here without faults.                                  *)
(***************************************************************************)
EXTENDS Integers, FiniteSets

CONSTANTS Callers,     \* request slots of the API server
          Workers,     \* queue workers
          Calls,       \* kinds of request that arrive
          MaxCalls,    \* bound: requests in a behaviour
          MaxWakes,    \* MAX_WAKE_ATTEMPTS_WITHOUT_CHECKIN
          MaxRetries,  \* rq_dispatch_max_retries
          Grace,       \* CHECKIN_DEADLINE_AFTER_WAKE, also the touch interval
          Horizon      \* bound: the clock passes it only towards a deadline

ASSUME ProcessAssumption ==
  Callers \cap Workers = {} /\ IsFiniteSet(Callers) /\ IsFiniteSet(Workers)
ASSUME NumberAssumption ==
  /\ MaxCalls \in Nat /\ MaxWakes \in Nat \ {0} /\ MaxRetries \in Nat
  /\ Grace \in Nat \ {0} /\ Horizon \in Nat

VARIABLES
  row,      \* the committed row of table agents
  lock,     \* processes that hold the row FOR UPDATE: none or one
  gateway,  \* AUTH_TOKEN in the agent's TOOLS.md on the gateway
  queue,    \* reconcile messages
  clock,
  pc, job,  \* where a process is, and what its session holds
  calls,    \* requests that have arrived
  answered, \* history: the last wake has, at some time, counted as checked in
  lapsed,   \* history: generations whose message a timeout or the retry limit ended
  streak,   \* history: wakes reconcile has delivered since a request last woke the agent or it checked in
  undone,   \* history: those of them whose run was then cancelled and rolled back
  quiet     \* history: a run that does not wake has been asked for

agent == <<row, answered>>
control == <<pc, job>>
arrivals == <<calls, quiet>>
tally == <<streak, undone>>
vars == <<agent, lock, gateway, queue, clock, control, arrivals, lapsed, tally>>

Procs == Callers \cup Workers
Phases == {"idle", "mint", "resolve", "lock", "gateway", "enqueue", "save", "beat"}
Never == 0     \* a timestamp that is NULL
NoToken == 0   \* a token hash that is NULL, a workspace that does not exist

NoMessage == [gen |-> 0, deadline |-> Never, attempts |-> 0, at |-> Never]

\* A row that create_agent has just committed, and one of an agent at work.
NewAgent == [status |-> "provisioning", gen |-> 0, wakes |-> 0, woken |-> Never,
             seen |-> Never, deadline |-> Never, token |-> 1, deleted |-> FALSE]
KnownAgent == [NewAgent EXCEPT !.status = "online", !.gen = 1, !.woken = 1, !.seen = 1]

NoJob == [loaded |-> NewAgent, edited |-> NewAgent, wake |-> FALSE, token |-> NoToken,
          now |-> {}, sent |-> FALSE, failed |-> FALSE, msg |-> NoMessage]

\* A token no one holds.
InUse == {gateway, row.token}
           \cup UNION {{job[p].token, job[p].loaded.token, job[p].edited.token} : p \in Procs}
Fresh == CHOOSE t \in 1..(Cardinality(InUse) + 1) : t \notin InUse

-----------------------------------------------------------------------------
(***************************************************************************)
(* What the UPDATE of a session makes of the row: it sets the columns that *)
(* differ from what was loaded.  Those in now were set to the current time *)
(* and always differ, which the coarse clock of the model may not show.    *)
(***************************************************************************)
Flushed(loaded, edited, now) ==
  [f \in DOMAIN row |-> IF f \in now \/ edited[f] # loaded[f] THEN edited[f] ELSE row[f]]

\* _has_checked_in_since_wake.
CheckedIn(r) == r.seen # Never /\ r.seen >= r.woken

Write(r) ==
  /\ row' = r
  /\ answered' = (CheckedIn(r) \/ (answered /\ r.woken = row.woken))

Goto(p, phase) == pc' = [pc EXCEPT ![p] = phase]
Done(p) == Goto(p, "idle") /\ job' = [job EXCEPT ![p] = NoJob]

\* A request arrives; its session loads the row.
Arrive(p, kind, phase, j) ==
  /\ pc[p] = "idle"
  /\ kind \in Calls
  /\ calls < MaxCalls
  /\ calls' = calls + 1
  /\ quiet' = (quiet \/ kind \in {"sync", "ensure"})
  /\ Goto(p, phase)
  /\ job' = [job EXCEPT ![p] = j]

Loaded(wake, token) ==
  [NoJob EXCEPT !.loaded = row, !.edited = row, !.wake = wake, !.token = token]

-----------------------------------------------------------------------------
(***************************************************************************)
(* Requests that end in run_lifecycle.  update_agent commits a new token   *)
(* hash and then runs with that token, as create_agent does once its row   *)
(* is committed; a gateway's main agent gets its token inside the run, and *)
(* is not woken when only its workspace was missing; a template sync runs  *)
(* with the token it finds on the gateway, rotates a missing or wrong one  *)
(* if asked to, does not wake, and may have loaded the row long before.    *)
(***************************************************************************)
Update(p) ==
  /\ ~ row.deleted
  /\ Arrive(p, "update", "mint", Loaded(TRUE, NoToken))
  /\ UNCHANGED <<agent, lock, gateway, queue, clock, lapsed, tally>>

Provision(p) ==
  /\ ~ row.deleted
  /\ Arrive(p, "provision", "lock", Loaded(TRUE, NoToken))
  /\ UNCHANGED <<agent, lock, gateway, queue, clock, lapsed, tally>>

Ensure(p) ==
  /\ ~ row.deleted
  /\ gateway = NoToken
  /\ Arrive(p, "ensure", "lock", Loaded(FALSE, NoToken))
  /\ UNCHANGED <<agent, lock, gateway, queue, clock, lapsed, tally>>

Sync(p) ==
  /\ Arrive(p, "sync", "resolve", Loaded(FALSE, NoToken))
  /\ UNCHANGED <<agent, lock, gateway, queue, clock, lapsed, tally>>

\* _resolve_agent_auth_token.
ResolveToken(p, rotate) ==
  LET wrong == job[p].loaded.token # NoToken /\ gateway # job[p].loaded.token IN
  /\ pc[p] = "resolve"
  /\ IF gateway = NoToken /\ ~ rotate
       THEN Done(p)
       ELSE /\ Goto(p, IF rotate /\ (gateway = NoToken \/ wrong) THEN "mint" ELSE "lock")
            /\ job' = [job EXCEPT ![p].token = gateway]
  /\ UNCHANGED <<agent, lock, gateway, queue, clock, arrivals, lapsed, tally>>

\* mint_agent_token, COMMIT and refresh, before the run.
MintToken(p) ==
  /\ pc[p] = "mint"
  /\ lock = {}
  /\ Write([row EXCEPT !.token = Fresh])
  /\ Goto(p, "lock")
  /\ job' = [job EXCEPT ![p].loaded = row', ![p].edited = row', ![p].token = Fresh]
  /\ UNCHANGED <<lock, gateway, queue, clock, arrivals, lapsed, tally>>

-----------------------------------------------------------------------------
(***************************************************************************)
(* run_lifecycle.                                                          *)
(***************************************************************************)
\* Mutant: the row is read without FOR UPDATE.
LockAgentUnlocked(p) ==
  /\ pc[p] = "lock"
  /\ lock' = lock \cup {p}
  /\ Goto(p, "gateway")
  /\ job' = [job EXCEPT ![p].edited = [row EXCEPT !.gen = @ + 1], ![p].token = Fresh]
  /\ UNCHANGED <<agent, gateway, queue, clock, arrivals, lapsed, tally>>

\* _lock_agent and the flush: a new generation and, on a wake, one more attempt
\* and a deadline.  From here the session holds the row as it has written it.
LockAgent(p) ==
  LET token == IF job[p].token = NoToken THEN Fresh ELSE job[p].token
      old == job[p].loaded
      next == [old EXCEPT !.gen = @ + 1,
                          !.token = IF job[p].token = NoToken THEN token ELSE @,
                          !.deadline = Never]
      woken == [next EXCEPT !.wakes = @ + 1, !.woken = clock, !.deadline = clock + Grace]
  IN /\ pc[p] = "lock"
     /\ lock = {}
     /\ lock' = {p}
     /\ Goto(p, "gateway")
     /\ job' = [job EXCEPT ![p].token = token,
                           ![p].edited = IF job[p].wake THEN Flushed(old, woken, {"woken", "deadline"})
                                                        ELSE Flushed(old, next, {})]
     /\ UNCHANGED <<agent, gateway, queue, clock, arrivals, lapsed, tally>>

\* The wake message reaches the agent: the last gateway call of a run that wakes,
\* after the workspace was written.
SendWake(p) ==
  /\ pc[p] = "gateway" /\ job[p].wake /\ ~ job[p].sent
  /\ gateway' = job[p].token
  /\ job' = [job EXCEPT ![p].sent = TRUE]
  /\ streak' = IF p \in Workers THEN streak + 1 ELSE streak
  /\ UNCHANGED <<agent, lock, queue, clock, pc, arrivals, lapsed, undone>>

\* COMMIT of a run.  One that a request asked for begins the count anew.
CommitRun(p, final) ==
  /\ Write(final)
  /\ lock' = {}
  /\ IF job[p].wake /\ p \in Callers THEN streak' = 0 /\ undone' = 0 ELSE UNCHANGED tally

\* mark_provision_complete seeds last_seen_at of an agent that it loaded as never
\* seen; the deadline of a wake starts anew.
GatewaySucceeds(p) ==
  /\ pc[p] = "gateway"
  /\ job[p].wake => job[p].sent
  /\ gateway' = IF job[p].wake THEN gateway ELSE job[p].token
  /\ CommitRun(p, [job[p].edited EXCEPT
                     !.status = "online",
                     !.seen = IF job[p].loaded.seen = Never THEN clock ELSE @,
                     !.deadline = IF job[p].wake THEN clock + Grace ELSE @])
  /\ IF job[p].wake THEN Goto(p, "enqueue") /\ UNCHANGED job ELSE Done(p)
  /\ UNCHANGED <<queue, clock, arrivals, lapsed>>

\* The gateway calls fail or time out, before or after the workspace was written;
\* the answer to the wake message may be what is lost.
GatewayFails(p, wrote) ==
  /\ pc[p] = "gateway"
  /\ wrote => ~ job[p].sent
  /\ gateway' = IF wrote THEN job[p].token ELSE gateway
  /\ CommitRun(p, [job[p].edited EXCEPT !.status = "offline"])
  /\ IF job[p].wake
       THEN Goto(p, "enqueue") /\ job' = [job EXCEPT ![p].failed = TRUE]
       ELSE Done(p)
  /\ UNCHANGED <<queue, clock, arrivals, lapsed>>

\* requeue_lifecycle_queue_task, after the handler of w has raised; cut are the
\* generations whose own message was not written.
Requeue(w, messages, cut) ==
  LET m == job[w].msg IN
  IF m.attempts + 1 > MaxRetries
    THEN queue' = messages /\ lapsed' = lapsed \cup cut \cup {m.gen}
    ELSE /\ queue' = messages \cup {[m EXCEPT !.attempts = @ + 1, !.at = clock]}
         /\ lapsed' = lapsed \cup cut

\* Mutant: only a run that succeeded is followed up.
EnqueueSuccesses(p) ==
  LET check == [NoMessage EXCEPT !.gen = row.gen, !.deadline = row.deadline, !.at = row.deadline]
  IN /\ pc[p] = "enqueue"
     /\ queue' = IF job[p].failed THEN queue ELSE queue \cup {check}
     /\ Done(p)
     /\ UNCHANGED <<agent, lock, gateway, clock, arrivals, lapsed, tally>>

\* refresh and enqueue_lifecycle_reconcile: the message is about the row as it is
\* after the COMMIT.  A worker whose run failed raises then.
Enqueue(p) ==
  LET check == [NoMessage EXCEPT !.gen = row.gen, !.deadline = row.deadline, !.at = row.deadline]
      messages == IF row.deadline = Never THEN queue ELSE queue \cup {check}
  IN /\ pc[p] = "enqueue"
     /\ IF p \in Workers /\ job[p].failed
          THEN Requeue(p, messages, {})
          ELSE queue' = messages /\ UNCHANGED lapsed
     /\ Done(p)
     /\ UNCHANGED <<agent, lock, gateway, clock, arrivals, tally>>

-----------------------------------------------------------------------------
(***************************************************************************)
(* Presence: a heartbeat (commit_heartbeat), and any other authenticated   *)
(* request of the agent (_touch_agent_presence, which a heartbeat passes   *)
(* through too).  Both need the token of the agent's workspace to match.   *)
(***************************************************************************)
Authenticated == ~ row.deleted /\ row.token # NoToken /\ gateway = row.token

SeenLately == row.seen # Never /\ clock - row.seen < Grace
Touched == IF SeenLately THEN row ELSE [row EXCEPT !.seen = clock, !.status = "online"]

Touch(p) ==
  /\ Authenticated
  /\ Arrive(p, "touch", "save",
            [Loaded(FALSE, NoToken) EXCEPT !.edited = Touched,
                                           !.now = IF SeenLately THEN {} ELSE {"seen"}])
  /\ UNCHANGED <<agent, lock, gateway, queue, clock, lapsed, tally>>

Heartbeat(p) ==
  LET beat == [Touched EXCEPT !.status = IF @ = "provisioning" THEN "online" ELSE @,
                              !.seen = clock, !.wakes = 0, !.deadline = Never]
  IN /\ Authenticated
     /\ Arrive(p, "beat", "beat",
               [Loaded(FALSE, NoToken) EXCEPT !.edited = beat, !.now = {"seen"}])
     /\ UNCHANGED <<agent, lock, gateway, queue, clock, lapsed, tally>>

\* delete_agent: the gateway removes the workspace, then the row is marked.
Delete(p) ==
  /\ ~ row.deleted
  /\ Arrive(p, "delete", "save",
            [Loaded(FALSE, NoToken) EXCEPT !.edited = [row EXCEPT !.deleted = TRUE, !.token = NoToken]])
  /\ gateway' = NoToken
  /\ UNCHANGED <<agent, lock, queue, clock, lapsed, tally>>

\* UPDATE and COMMIT of such a session, and of a worker that gives up: it waits
\* for the row lock and merges what it changed into the row it finds.
Save(p) ==
  /\ pc[p] \in {"save", "beat"}
  /\ lock = {}
  /\ Write(Flushed(job[p].loaded, job[p].edited, job[p].now))
  /\ IF pc[p] = "beat" THEN streak' = 0 /\ undone' = 0 ELSE UNCHANGED tally
  /\ Done(p)
  /\ UNCHANGED <<lock, gateway, queue, clock, arrivals, lapsed>>

-----------------------------------------------------------------------------
(***************************************************************************)
(* process_lifecycle_queue_task.                                           *)
(***************************************************************************)
Stale(m) == row.gen # m.gen
DeadlineOf(m) == IF row.deadline # Never THEN row.deadline ELSE m.deadline

\* A worker pops a message and loads the row, without a lock.
Take(w, m) ==
  /\ pc[w] = "idle"
  /\ m \in queue
  /\ m.at <= clock
  /\ UNCHANGED <<agent, lock, gateway, clock, arrivals, lapsed, tally>>

SkipMessage(w, m) ==
  /\ Take(w, m)
  /\ Stale(m) \/ CheckedIn(row)
  /\ queue' = queue \ {m}
  /\ UNCHANGED control

Defer(w, m) ==
  /\ Take(w, m)
  /\ ~ Stale(m) /\ ~ CheckedIn(row)
  /\ clock < DeadlineOf(m)
  /\ queue' = (queue \ {m}) \cup {[m EXCEPT !.at = DeadlineOf(m)]}
  /\ UNCHANGED control

Overdue(w, m) ==
  /\ Take(w, m)
  /\ ~ Stale(m) /\ ~ CheckedIn(row)
  /\ clock >= DeadlineOf(m)
  /\ queue' = queue \ {m}

\* Mutant: giving up is not committed.
GiveUpUncommitted(w, m) ==
  /\ Overdue(w, m)
  /\ row.wakes >= MaxWakes
  /\ UNCHANGED control

GiveUp(w, m) ==
  LET offline == [row EXCEPT !.status = "offline", !.deadline = Never] IN
  /\ Overdue(w, m)
  /\ row.wakes >= MaxWakes
  /\ Goto(w, "save")
  /\ job' = [job EXCEPT ![w] = [Loaded(FALSE, NoToken) EXCEPT !.edited = offline, !.msg = m]]

\* Mutant: the limit is not looked at.
WakeAgainAlways(w, m) ==
  /\ Overdue(w, m)
  /\ Goto(w, "lock")
  /\ job' = [job EXCEPT ![w] = [Loaded(TRUE, NoToken) EXCEPT !.msg = m]]

WakeAgain(w, m) ==
  /\ Overdue(w, m)
  /\ row.wakes < MaxWakes
  /\ Goto(w, "lock")
  /\ job' = [job EXCEPT ![w] = [Loaded(TRUE, NoToken) EXCEPT !.msg = m]]

\* asyncio.wait_for gives the run 60 s, the gateway calls alone may take 90: the
\* run is cancelled where it waits, and its transaction is rolled back unless it
\* was already committed and only the message is missing.  A wake that has reached
\* the agent is not taken back, its count in the row is.
TimesOut(w, wrote) ==
  /\ w \in Workers
  /\ pc[w] \in {"lock", "gateway", "enqueue"}
  /\ wrote => pc[w] = "gateway" /\ ~ job[w].sent
  /\ gateway' = IF wrote THEN job[w].token ELSE gateway
  /\ lock' = lock \ {w}
  /\ undone' = IF pc[w] = "gateway" /\ job[w].sent THEN undone + 1 ELSE undone
  /\ Requeue(w, queue, IF pc[w] = "enqueue" THEN {row.gen} ELSE {})
  /\ Done(w)
  /\ UNCHANGED <<agent, clock, arrivals, streak>>

-----------------------------------------------------------------------------
Tick ==
  /\ \/ clock < Horizon
     \/ \E m \in queue : clock < m.at
  /\ clock' = clock + 1
  /\ UNCHANGED <<agent, lock, gateway, queue, control, arrivals, lapsed, tally>>

Init ==
  /\ \/ row = NewAgent /\ gateway = NoToken
     \/ row = KnownAgent /\ gateway = KnownAgent.token
  /\ answered = CheckedIn(row)
  /\ lock = {}
  /\ queue = {}
  /\ clock = 1
  /\ pc = [p \in Procs |-> "idle"]
  /\ job = [p \in Procs |-> NoJob]
  /\ calls = 0 /\ quiet = FALSE
  /\ lapsed = {}
  /\ streak = 0 /\ undone = 0

Request(p) ==
  \/ Update(p) \/ Provision(p) \/ Ensure(p) \/ Sync(p)
  \/ Heartbeat(p) \/ Touch(p) \/ Delete(p)

Continue(p) ==
  \/ \E rotate \in BOOLEAN : ResolveToken(p, rotate)
  \/ MintToken(p) \/ LockAgent(p) \/ SendWake(p)
  \/ GatewaySucceeds(p) \/ \E wrote \in BOOLEAN : GatewayFails(p, wrote)
  \/ Enqueue(p) \/ Save(p)

Reconcile(w) ==
  \E m \in queue : SkipMessage(w, m) \/ Defer(w, m) \/ GiveUp(w, m) \/ WakeAgain(w, m)

Next ==
  \/ \E p \in Callers : Request(p)
  \/ \E p \in Procs : Continue(p)
  \/ \E w \in Workers : Reconcile(w) \/ \E wrote \in BOOLEAN : TimesOut(w, wrote)
  \/ Tick

Spec == Init /\ [][Next]_vars

\* A request that has begun and a worker go on; PostgreSQL serves the waiters of
\* a row in turn; time passes.  No request has to arrive.
Fairness ==
  /\ \A p \in Procs : SF_vars(Continue(p))
  /\ \A w \in Workers : WF_vars(Reconcile(w))
  /\ WF_vars(Tick)

FairSpec == Spec /\ Fairness

-----------------------------------------------------------------------------
Row == [status : {"provisioning", "online", "offline"}, gen : Nat, wakes : Nat, woken : Nat,
        seen : Nat, deadline : Nat, token : Nat, deleted : BOOLEAN]
Message == [gen : Nat, deadline : Nat, attempts : 0..MaxRetries, at : Nat]

\* A process holds the row lock exactly during its gateway calls, no deadline is
\* further off than the grace, and no message has more attempts than it may.
TypeOK ==
  /\ row \in Row
  /\ lock = {p \in Procs : pc[p] = "gateway"} /\ Cardinality(lock) <= 1
  /\ gateway \in Nat
  /\ queue \subseteq Message /\ answered \in BOOLEAN
  /\ row.deadline <= clock + Grace /\ row.seen <= clock /\ row.woken <= clock
  /\ pc \in [Procs -> Phases]
  /\ \A p \in Procs : job[p].loaded \in Row /\ job[p].edited \in Row /\ job[p].token \in Nat
  /\ calls \in 0..MaxCalls /\ quiet \in BOOLEAN /\ lapsed \subseteq Nat
  /\ streak \in Nat /\ undone \in Nat

\* An agent that was woken and has not checked in is watched until it checks in
\* or is given up: a message with its generation is queued or about to be, or a
\* worker is acting on one; only a timeout of the worker or its retry limit can
\* end that.  Runs, heartbeats and workers interleave with rows they read before;
\* runs that do not wake are left to WatchedDespiteSync.
AwaitsCheckIn == ~ row.deleted /\ row.deadline # Never /\ ~ answered
InHand ==
  \/ \E m \in queue : m.gen = row.gen
  \/ \E p \in Procs : pc[p] = "enqueue"
  \/ \E w \in Workers : pc[w] # "idle"
  \/ row.gen \in lapsed
Watched == AwaitsCheckIn /\ ~ quiet => InHand

\* "allow up to 3 wake attempts before giving up" (constants.py): between two
\* check-ins or requests that wake it, an agent receives no more wakes from reconcile
\* than that and those of runs that the worker's timeout rolled back after the
\* message was out (these do pass the limit), whatever stale counter a run or a
\* heartbeat started from: failed, retried and repeated runs count.  This is so for
\* the one worker of the compose files: two of them may take a message each for the
\* same generation, count the same wake, and wake once too often.
EscalationStops == streak <= MaxWakes + undone

\* An agent that awaits its check-in does not wait for ever: it checks in, is
\* given up, deleted, or its watch lapses.
NoEndlessWait == AwaitsCheckIn ~> (~ AwaitsCheckIn \/ row.gen \in lapsed)

-----------------------------------------------------------------------------
(***************************************************************************)
(* What the documentation says and the code does not do.                   *)
(***************************************************************************)
\* "Ignore stale queue messages after a newer lifecycle generation", "If heartbeat
\* does not arrive by deadline: reconcile re-runs lifecycle": the message of the
\* last wake is never ignored.  A template sync that loaded the row before two
\* other runs writes a generation back that is not newer.
WatchedDespiteSync == AwaitsCheckIn => InHand

\* Reconcile and the other runs skip an agent that is being deleted: once the row
\* is marked, no run writes the agent's workspace again.  The check is for a
\* status no code sets.
DeletedStaysGone == [][row.deleted => gateway' \in {gateway, NoToken}]_vars

=============================================================================
