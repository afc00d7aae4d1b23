----------------------------- MODULE TaskBoard -----------------------------
(***************************************************************************)
(* The tasks of one board: PATCH requests of administrators, the board     *)
(* lead and worker agents (api/tasks.py), the dependency graph they check  *)
(* (services/task_dependencies.py), the gates before "done", and the       *)
(* review SLA worker (services/task_review_sla_worker.py).                 *)
(*                                                                         *)
(* A request reads the task without a lock, decides, and writes at its     *)
(* COMMIT only the columns that differ from what it read: two requests on  *)
(* one task merge column by column.  The row is locked from the first      *)
(* flush, which the queries of the gates trigger, to the COMMIT.           *)
(*                                                                         *)
(* Abstractions: a board has one worker agent; a deadline is ahead or past *)
(* of now; approvals, whose own rules are in ApprovalGate, change at any   *)
(* time; the owner of a task, which decides who gets it back, is a choice. *)
(* The queries of one check (dependencies and their statuses, the gates)   *)
(* see one state.  A body that is rejected whatever the board holds, like  *)
(* a comment that is missing, is a Refuse.                                 *)
(***************************************************************************)
EXTENDS Naturals, FiniteSets

CONSTANTS
    Tasks,        \* tasks of the board
    Requests,     \* PATCH requests in flight at a time
    Workers,      \* queue workers that run review-SLA checks
    Actors,       \* who sends requests: a subset of {"admin", "lead", "agent"}
    RuleSets,     \* settings the board may have: sets of rule names
    Starts,       \* boards to begin with: the status of each task and its dependencies
    Assigns,      \* assignees a request may name: subset of {"none", "worker"}
    Edits,        \* dependency lists a request may send: a set of sets of tasks
    MissLimit,    \* task_review_sla_auto_reassign_after
    MaxRequests,  \* bound: requests ever sent
    MaxAnswers,   \* bound: changes of approvals
    MaxFaults     \* bound: failed enqueues and deaths of processes

Status == {"inbox", "in_progress", "review", "done"}

(* No tasks that each depend on one of them: what the depth-first search   *)
(* of _has_cycle decides on a finite board.                                *)
Acyclic(g) == \A S \in SUBSET Tasks : S # {} => \E t \in S : g[t] \cap S = {}

ASSUME BoardAssumption ==
    /\ Actors \subseteq {"admin", "lead", "agent"}
    /\ RuleSets \subseteq SUBSET {"approval", "review", "pending"}
    /\ \A start \in Starts :
         /\ start.status \in [Tasks -> Status]
         /\ start.deps \in [Tasks -> SUBSET Tasks] /\ Acyclic(start.deps)
         /\ \A t \in Tasks : \A d \in start.deps[t] :
              start.status[t] \in {"in_progress", "review"} => start.status[d] = "done"
    /\ Assigns \subseteq {"none", "worker"} /\ Edits \subseteq SUBSET Tasks
    /\ MissLimit \in Nat \ {0}
    /\ MaxRequests \in Nat /\ MaxAnswers \in Nat /\ MaxFaults \in Nat

VARIABLES
    rules,      \* rules of the board in force
    row,        \* tasks table
    deps,       \* task_dependencies table: what each task depends on
    approvals,  \* what statuses the approvals linked to a task have
    queue,      \* review-SLA checks of each task waiting in the queue
    req,        \* what each request knows and has to do
    worker,     \* what each queue worker has in hand
    sent, answers, faults,  \* spent bounds
    witness     \* history: an approved approval existed since the request read

vars == <<rules, row, deps, approvals, queue, req, worker,
          sent, answers, faults, witness>>

bounds == <<sent, answers, faults>>

Holders == {"none", "worker", "lead"}
Fields == {"status", "assigned", "due", "misses"}
Rows == [status : Status, assigned : Holders,
         due : {"none", "ahead", "past"}, misses : Nat]
Idle == [stage |-> "idle"]
Unclaimed == [status |-> "inbox", assigned |-> "none", due |-> "none", misses |-> 0]

(* An UPDATE sets the columns in its domain, whatever the row is by now. *)
Merged(current, update) ==
    [f \in Fields |-> IF f \in DOMAIN update THEN update[f] ELSE current[f]]

-----------------------------------------------------------------------------
(* The dependency graph. *)

Blocked(ds) == \E d \in ds : row[d].status # "done"

EdgesAllowed(t, old, ds) ==
    /\ old.status # "done"
    /\ ds = {} \/ Acyclic([deps EXCEPT ![t] = ds])

-----------------------------------------------------------------------------
(* What a request may ask for.  An empty edges keeps the dependencies.     *)

Patches == [status : Status \cup {"keep"}, assign : {"keep"} \cup Assigns,
            edges : {<<>>} \cup {<<ds>> : ds \in Edits}]

Effective(t, p) == IF p.edges = <<>> THEN deps[t] ELSE p.edges[1]

LeadTargets(status) ==
    IF status = "review" THEN {"done", "inbox"} ELSE {"inbox", "in_progress", "review"}

(* The rows each actor's rules turn a task into; none is a refusal. *)
LeadRows(t, old, p) ==
    LET held == IF p.assign = "keep" THEN old.assigned ELSE p.assign
        moves == p.status \notin {"keep", old.status}
        holders == CASE ~moves -> {held}
                     [] moves /\ p.status = "inbox" /\ old.status = "review" -> {"none", "worker"}
                     [] moves /\ p.status \in {"inbox", "review"} /\ old.status # "review" -> {"none"}
                     [] OTHER -> {held}
    IN {[old EXCEPT !.status = IF moves THEN p.status ELSE @, !.assigned = h] :
            h \in {h \in holders :
                     /\ Blocked(Effective(t, p)) => p.status = "keep" /\ p.assign = "keep"
                     /\ moves => p.status \in LeadTargets(old.status)}}

AgentRows(t, old, p) ==
    LET holder == CASE p.status = "keep" -> old.assigned
                    [] p.status \in {"inbox", "review"} -> "none"
                    [] OTHER -> "worker"
    IN {n \in {[old EXCEPT !.status = IF p.status = "keep" THEN @ ELSE p.status,
                           !.assigned = holder]} :
            /\ p.edges = <<>> /\ p.assign = "keep"
            /\ p.status # "keep" => old.assigned # "lead"
            /\ p.status \in {"keep", "inbox"} \/ ~Blocked(deps[t])}

AdminRows(t, old, p) ==
    LET target == IF p.status = "keep" THEN old.status ELSE p.status
        reset == Blocked(Effective(t, p)) /\ ~(old.status = "done" /\ target = "done")
        holder == CASE p.assign # "keep" -> p.assign
                    [] p.assign = "keep" /\ p.status \in {"inbox", "review"} -> "none"
                    [] OTHER -> old.assigned
    IN {IF reset THEN [old EXCEPT !.status = "inbox", !.assigned = "none"]
                 ELSE [old EXCEPT !.status = target, !.assigned = holder]}

RowsFor(actor, t, old, p) ==
    CASE actor = "lead"  -> LeadRows(t, old, p)
      [] actor = "agent" -> AgentRows(t, old, p)
      [] actor = "admin" -> AdminRows(t, old, p)

-----------------------------------------------------------------------------
(* Review tracking: entering review hands the task to the lead and sets    *)
(* the deadline; leaving it clears the deadline.                           *)

\* Mutant: only work in progress is handed over for review.
EntersFromWork(old, new) == old.status = "in_progress" /\ new.status = "review"

Enters(old, new) == old.status # "review" /\ new.status = "review"
Leaves(old, new) == old.status = "review" /\ new.status # "review"
Reopens(old, new) == old.status = "done" /\ new.status # "done"

Tracked(old, new) ==
    CASE Enters(old, new) ->
           [new EXCEPT !.assigned = IF "lead" \in Actors THEN "lead" ELSE @,
                       !.due = "ahead", !.misses = 0]
      [] Leaves(old, new) -> [new EXCEPT !.due = "none", !.misses = 0]
      [] OTHER -> new

\* Mutant: the whole row is written back.
UpdateWhole(old, new) == [f \in Fields |-> new[f]]

(* The columns that differ from what was read.  A new deadline is another  *)
(* instant than the one it replaces.                                       *)
UpdateTo(old, new) ==
    [f \in {f \in Fields : new[f] # old[f] \/ (f = "due" /\ Enters(old, new))} |-> new[f]]

-----------------------------------------------------------------------------
(* A PATCH request. *)

Locks(r, t) == req[r].stage \in {"gated", "cascading"} /\ req[r].task = t
                 /\ req[r].update # <<>>
\* Mutant: the gates are queried before the row is flushed.
FreeUnflushed(r, t) == TRUE

FreeFor(r, t) == \A o \in Requests \ {r} : ~Locks(o, t)
Free(t) == \A o \in Requests : ~Locks(o, t)

Open == {"loaded", "decided", "gated", "cascading"}
Becomes(r, state) ==
    /\ req' = [req EXCEPT ![r] = state]
    /\ witness' = [witness EXCEPT ![r] = @ /\ state.stage \in Open]
Ends(r) == Becomes(r, Idle)

(* get_task_or_404: the task as it is now. *)
Load(r, t, actor) ==
    /\ req[r] = Idle /\ sent < MaxRequests
    /\ req' = [req EXCEPT ![r] = [stage |-> "loaded", actor |-> actor, task |-> t,
                                  old |-> row[t]]]
    /\ witness' = [witness EXCEPT ![r] = "approved" \in approvals[t]]
    /\ sent' = sent + 1
    /\ UNCHANGED <<rules, row, deps, approvals, queue, worker, answers, faults>>

(* The rules of the actor against the dependencies and their statuses now. *)
Decide(r, p) ==
    LET q == req[r]
    IN /\ q.stage = "loaded"
       /\ p.edges # <<>> => EdgesAllowed(q.task, q.old, p.edges[1])
       /\ \E new \in RowsFor(q.actor, q.task, q.old, p) :
            Becomes(r, [stage |-> "decided", actor |-> q.actor, task |-> q.task,
                        old |-> q.old, new |-> new,
                        moves |-> p.status \notin {"keep", q.old.status} /\ new.status # q.old.status,
                        cut |-> IF p.edges = <<>> THEN {} ELSE deps[q.task],
                        added |-> IF p.edges = <<>> THEN {} ELSE p.edges[1]])
       /\ UNCHANGED <<rules, row, deps, approvals, queue, worker, bounds>>

(* A request its actor's rules, or the validation of its body, reject. *)
Refuse(r) ==
    /\ req[r].stage = "loaded"
    /\ Ends(r)
    /\ UNCHANGED <<rules, row, deps, approvals, queue, worker, bounds>>

GatesOpen(q) ==
    LET finishes == q.old.status # "done" /\ q.new.status = "done"
    IN /\ ~(/\ "pending" \in rules /\ q.moves /\ "pending" \in approvals[q.task])
       /\ finishes /\ "review" \in rules => q.old.status = "review"
       /\ finishes /\ "approval" \in rules => "approved" \in approvals[q.task]

(* The first query of the gates flushes the row, which waits for its lock. *)
Gate(r) ==
    LET q == req[r]
        new == Tracked(q.old, q.new)
    IN /\ q.stage = "decided" /\ FreeFor(r, q.task)
       /\ IF GatesOpen(q)
          THEN Becomes(r, [stage |-> "gated", actor |-> q.actor, task |-> q.task,
                           wasDone |-> q.old.status = "done",
                           reopens |-> Reopens(q.old, new), enters |-> Enters(q.old, new),
                           update |-> UpdateTo(q.old, new),
                           cut |-> q.cut, added |-> q.added, resets |-> <<>>])
          ELSE Ends(r)
       /\ UNCHANGED <<rules, row, deps, approvals, queue, worker, bounds>>

(* What must be reset in the dependents of a reopened task. *)
ResetsFor(t) ==
    LET ds == {d \in Tasks : t \in deps[d] /\ row[d].status # "done"}
        stale == [d \in ds |-> {f \in {"status", "assigned"} : row[d][f] # Unclaimed[f]}]
    IN [d \in {d \in ds : stale[d] # {}} |-> [f \in stale[d] |-> Unclaimed[f]]]

Reset(rows, resets) ==
    [t \in Tasks |-> IF t \in DOMAIN resets THEN Merged(rows[t], resets[t]) ELSE rows[t]]

(* The lead's request resets the dependents in its own transaction. *)
ReadDependents(r) ==
    LET q == req[r]
    IN /\ q.stage = "gated" /\ q.actor = "lead" /\ q.reopens
       /\ Becomes(r, [q EXCEPT !.stage = "cascading", !.resets = ResetsFor(q.task)])
       /\ UNCHANGED <<rules, row, deps, approvals, queue, worker, bounds>>

(* COMMIT; an edge another request has inserted meanwhile breaks its       *)
(* unique constraint and the request fails.                                *)
Commit(r) ==
    LET q == req[r]
        kept == deps[q.task] \ q.cut
    IN /\ \/ q.stage = "gated" /\ ~(q.actor = "lead" /\ q.reopens)
          \/ q.stage = "cascading"
       /\ \A d \in DOMAIN q.resets : FreeFor(r, d)
       /\ IF kept \cap q.added # {}
          THEN Ends(r) /\ UNCHANGED <<row, deps>>
          ELSE /\ row' = Reset([row EXCEPT ![q.task] = Merged(@, q.update)], q.resets)
               /\ deps' = [deps EXCEPT ![q.task] = kept \cup q.added]
               /\ Becomes(r, [stage |-> "saved", actor |-> q.actor, task |-> q.task,
                              wasDone |-> q.wasDone, enters |-> q.enters])
       /\ UNCHANGED <<rules, approvals, queue, worker, bounds>>

(* A check is queued, or the queue is down and nobody hears of it again. *)
Enqueue(t) ==
    \/ queue' = [queue EXCEPT ![t] = @ + 1] /\ UNCHANGED faults
    \/ faults < MaxFaults /\ faults' = faults + 1 /\ UNCHANGED queue

(* session.refresh, and the check of the deadline the row has by now. *)
Schedule(r) ==
    LET q == req[r]
        now == row[q.task]
    IN /\ q.stage = "saved"
       /\ IF q.enters /\ now.due # "none" THEN Enqueue(q.task)
                                           ELSE UNCHANGED <<queue, faults>>
       /\ IF q.actor # "lead" /\ q.wasDone /\ now.status # "done"
          THEN Becomes(r, [stage |-> "reopened", task |-> q.task])
          ELSE Ends(r)
       /\ UNCHANGED <<rules, row, deps, approvals, worker, sent, answers>>

(* Other requests reset the dependents in a second transaction. *)
ReadDependentsLater(r) ==
    /\ req[r].stage = "reopened"
    /\ Becomes(r, [stage |-> "resetting", resets |-> ResetsFor(req[r].task)])
    /\ UNCHANGED <<rules, row, deps, approvals, queue, worker, bounds>>

CommitResets(r) ==
    /\ req[r].stage = "resetting"
    /\ \A d \in DOMAIN req[r].resets : Free(d)
    /\ row' = Reset(row, req[r].resets)
    /\ Ends(r)
    /\ UNCHANGED <<rules, deps, approvals, queue, worker, bounds>>

(* The process dies: what it has not committed or queued is lost. *)
RequestDies(r) ==
    /\ req[r] # Idle /\ faults < MaxFaults
    /\ Ends(r) /\ faults' = faults + 1
    /\ UNCHANGED <<rules, row, deps, approvals, queue, worker, sent, answers>>

-----------------------------------------------------------------------------
(* The review-SLA worker. *)

InReview(t) == row[t].status = "review" /\ row[t].due # "none"

Dequeued(t) == [queue EXCEPT ![t] = @ - 1]

(* A check of a task that is no longer in review is dropped. *)
Discard(w, t) ==
    /\ worker[w] = Idle /\ queue[t] > 0 /\ ~InReview(t)
    /\ queue' = Dequeued(t)
    /\ UNCHANGED <<rules, row, deps, approvals, req, worker, bounds, witness>>

\* Mutant: a check before the deadline is dropped.
PostponeNever(w, t) ==
    /\ worker[w] = Idle /\ queue[t] > 0 /\ InReview(t) /\ row[t].due = "ahead"
    /\ queue' = Dequeued(t)
    /\ UNCHANGED <<rules, row, deps, approvals, req, worker, bounds, witness>>

(* A check before the deadline is queued again, for the deadline. *)
Postpone(w, t) ==
    /\ worker[w] = Idle /\ queue[t] > 0 /\ InReview(t) /\ row[t].due = "ahead"
    /\ UNCHANGED vars

PostponeFails(w, t) ==
    /\ worker[w] = Idle /\ queue[t] > 0 /\ InReview(t) /\ row[t].due = "ahead"
    /\ faults < MaxFaults /\ faults' = faults + 1
    /\ queue' = Dequeued(t)
    /\ UNCHANGED <<rules, row, deps, approvals, req, worker, sent, answers, witness>>

FindOverdue(w, t) ==
    /\ worker[w] = Idle /\ queue[t] > 0 /\ InReview(t) /\ row[t].due = "past"
    /\ queue' = Dequeued(t)
    /\ worker' = [worker EXCEPT ![w] = [stage |-> "overdue", task |-> t, old |-> row[t]]]
    /\ UNCHANGED <<rules, row, deps, approvals, req, bounds, witness>>

\* Mutant: the miss is not saved.
MissForgotten(old) == [misses |-> old.misses, due |-> "ahead"]

(* The next deadline, and one miss more than was read. *)
NextMiss(old) == [misses |-> old.misses + 1, due |-> "ahead"]

Nudge(w) ==
    LET j == worker[w]
    IN /\ j.stage = "overdue" /\ j.old.misses + 1 < MissLimit /\ Free(j.task)
       /\ row' = [row EXCEPT ![j.task] = Merged(@, NextMiss(j.old))]
       /\ worker' = [worker EXCEPT ![w] = [stage |-> "nudged", task |-> j.task]]
       /\ UNCHANGED <<rules, deps, approvals, queue, req, bounds, witness>>

(* After too many misses the task goes back to its owner's inbox. *)
Reassign(w) ==
    LET j == worker[w]
    IN /\ j.stage = "overdue" /\ j.old.misses + 1 >= MissLimit /\ Free(j.task)
       /\ \E owner \in {"none", "worker"} :
            LET new == [status |-> "inbox", assigned |-> owner, due |-> "none",
                        misses |-> j.old.misses + 1]
            IN row' = [row EXCEPT ![j.task] = Merged(@, UpdateTo(j.old, new))]
       /\ worker' = [worker EXCEPT ![w] = Idle]
       /\ UNCHANGED <<rules, deps, approvals, queue, req, bounds, witness>>

CheckAgain(w) ==
    /\ worker[w].stage = "nudged"
    /\ Enqueue(worker[w].task)
    /\ worker' = [worker EXCEPT ![w] = Idle]
    /\ UNCHANGED <<rules, row, deps, approvals, req, sent, answers, witness>>

WorkerDies(w) ==
    /\ worker[w] # Idle /\ faults < MaxFaults
    /\ worker' = [worker EXCEPT ![w] = Idle] /\ faults' = faults + 1
    /\ UNCHANGED <<rules, row, deps, approvals, queue, req, sent, answers, witness>>

-----------------------------------------------------------------------------
(* The environment. *)

(* Nobody looks at the deadline of a task that is not in review. *)
DeadlinePasses(t) ==
    /\ row[t].status = "review" /\ row[t].due = "ahead"
    /\ row' = [row EXCEPT ![t].due = "past"]
    /\ UNCHANGED <<rules, deps, approvals, queue, req, worker, bounds, witness>>

(* Approvals linked to the task are requested, decided, reopened, removed. *)
ApprovalsChange(t) ==
    /\ answers < MaxAnswers /\ answers' = answers + 1
    /\ \E s \in SUBSET {"pending", "approved"} \ {approvals[t]} :
         /\ approvals' = [approvals EXCEPT ![t] = s]
         /\ witness' = [r \in Requests |->
              \/ witness[r]
              \/ req[r].stage \in Open /\ req[r].task = t /\ "approved" \in s]
    /\ UNCHANGED <<rules, row, deps, queue, req, worker, sent, faults>>

(* A board at rest: no request in flight, every review with its check,     *)
(* no approval; its tasks are as requests one at a time have left them.    *)
AtRest(status) ==
    [status |-> status,
     assigned |-> CASE status = "inbox" -> "none"
                    [] status = "review" /\ "lead" \in Actors -> "lead"
                    [] OTHER -> "worker",
     due |-> IF status = "review" THEN "ahead" ELSE "none",
     misses |-> 0]

Init ==
    /\ rules \in RuleSets
    /\ \E start \in Starts :
         /\ row = [t \in Tasks |-> AtRest(start.status[t])]
         /\ deps = start.deps
    /\ approvals = [t \in Tasks |-> {}]
    /\ queue = [t \in Tasks |-> IF row[t].status = "review" THEN 1 ELSE 0]
    /\ req = [r \in Requests |-> Idle]
    /\ worker = [w \in Workers |-> Idle]
    /\ sent = 0 /\ answers = 0 /\ faults = 0
    /\ witness = [r \in Requests |-> FALSE]

Continue(r) ==
    \/ \E p \in Patches : Decide(r, p)
    \/ Refuse(r) \/ Gate(r) \/ ReadDependents(r) \/ Commit(r) \/ Schedule(r)
    \/ ReadDependentsLater(r) \/ CommitResets(r)

Receive(w, t) == Discard(w, t) \/ Postpone(w, t) \/ FindOverdue(w, t)
Handle(w) == Nudge(w) \/ Reassign(w) \/ CheckAgain(w)

Next ==
    \/ \E r \in Requests :
         (\E t \in Tasks, a \in Actors : Load(r, t, a)) \/ Continue(r) \/ RequestDies(r)
    \/ \E w \in Workers : (\E t \in Tasks : Receive(w, t) \/ PostponeFails(w, t))
                          \/ Handle(w) \/ WorkerDies(w)
    \/ \E t \in Tasks : DeadlinePasses(t) \/ ApprovalsChange(t)

(* The server runs its requests and workers, deadlines pass. *)
Fairness ==
    /\ \A r \in Requests : WF_vars(Continue(r))
    /\ \A w \in Workers : WF_vars(Handle(w)) /\ \A t \in Tasks : WF_vars(Receive(w, t))
    /\ \A t \in Tasks : WF_vars(DeadlinePasses(t))

Spec == Init /\ [][Next]_vars
FairSpec == Spec /\ Fairness

-----------------------------------------------------------------------------
(* Properties. *)

(* Every table and every request keeps its type, and of the requests on a  *)
(* task only one is between its first flush and its COMMIT.                *)
TypeOK ==
    /\ rules \in RuleSets
    /\ row \in [Tasks -> Rows]
    /\ deps \in [Tasks -> SUBSET Tasks]
    /\ approvals \in [Tasks -> SUBSET {"pending", "approved"}]
    /\ queue \in [Tasks -> Nat]
    /\ \A r \in Requests :
         req[r].stage \in Open \cup {"idle", "saved", "reopened", "resetting"}
    /\ \A w \in Workers : worker[w].stage \in {"idle", "overdue", "nudged"}
    /\ \A t \in Tasks, r, o \in Requests : Locks(r, t) /\ Locks(o, t) => r = o

(* A task in review has a deadline, whichever requests and checks wrote    *)
(* the columns of its row: the SLA worker ignores a review without one.    *)
ReviewHasDeadline ==
    \A t \in Tasks : row[t].status = "review" => row[t].due # "none"

(* Unless an enqueue failed or a process died, somebody is bound to look   *)
(* at every task in review: a check is queued, a worker has it in hand, or *)
(* the request that moved the task is about to queue one.  Old checks are  *)
(* dropped, postponed and multiplied, but the last is never lost.          *)
ReviewIsWatched ==
    faults = 0 =>
        \A t \in Tasks : row[t].status = "review" =>
            \/ queue[t] > 0
            \/ \E w \in Workers : worker[w] # Idle /\ worker[w].task = t
            \/ \E r \in Requests : req[r].stage = "saved" /\ req[r].task = t /\ req[r].enters

(* On a board that requires approval a task becomes done only by a request *)
(* during which an approved approval of the task existed; no merge of      *)
(* columns, cascade or SLA check makes it done again after a reopening.    *)
DoneIsVouched ==
    [][\A t \in Tasks :
         row[t].status # "done" /\ row'[t].status = "done" /\ "approval" \in rules =>
            \E r \in Requests :
                req[r].stage \in {"gated", "cascading"} /\ req[r].task = t /\ witness[r]]_vars

(* A task nobody reviews leaves review: its checks count the misses until  *)
(* it is reassigned.  A fault may end the watch.                           *)
ReviewEnds ==
    \A t \in Tasks :
        row[t].status = "review" ~> (row[t].status # "review" \/ faults > 0)

(* The dependencies of a board stay acyclic: task_dependencies.py:167 says  *)
(* that the validation of an update "catches indirect cycles", so that two *)
(* updates at once do not create one either.                               *)
NoCycle == Acyclic(deps)

=============================================================================
