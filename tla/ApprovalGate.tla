---------------------------- MODULE ApprovalGate ----------------------------
(***************************************************************************)
(* Human approvals that gate tasks, and the requests that create, decide,  *)
(* reopen and orphan them (app/api/approvals.py,                           *)
(* app/services/approval_task_links.py, and the task deletion of           *)
(* app/api/tasks.py).                                                      *)
(*                                                                         *)
(* Every request runs in one PostgreSQL transaction at READ COMMITTED: a   *)
(* statement sees what was committed before it began, a write becomes      *)
(* visible at COMMIT, and row locks are held until COMMIT or ROLLBACK.     *)
(* The model has one action per statement whose order against other        *)
(* transactions matters.  Task ids are naturals: only their order (the     *)
(* order of the UUIDs in ORDER BY) is used.                                *)
(***************************************************************************)
EXTENDS Integers, FiniteSets

CONSTANTS Tasks,        \* task ids of one board, ordered like their UUIDs
          Approvals,    \* ids that approvals may ever get
          Requests,     \* slots of the API server: one transaction each
          NoTask, NoApproval, NoRequest

ASSUME TasksAssumption == Tasks \subseteq Nat /\ NoTask \notin Tasks
ASSUME NoApprovalAssumption == NoApproval \notin Approvals
ASSUME NoRequestAssumption == NoRequest \notin Requests

VARIABLES
  tasks,          \* rows of table tasks
  status,         \* approvals.status; "unused" before INSERT, "deleted" after DELETE
  primary,        \* approvals.task_id
  links,          \* approval_task_links, as the set of tasks of an approval
  owner,          \* task row -> transaction that holds it FOR UPDATE
  sharers,        \* task row -> transactions holding it FOR KEY SHARE (foreign keys)
  rowOwner,       \* approval row -> transaction with an uncommitted write of it
  pc,             \* what the request is about to execute
  job             \* what the request has read, and what is left of the statement

db == <<tasks, status, primary, links>>
locks == <<owner, sharers, rowOwner>>
vars == <<db, locks, pc, job>>

Decisions == {"pending", "approved", "rejected"}

NoJob == [scope    |-> {},          \* normalized task ids of the request
          todo     |-> {},          \* of them, those the statement has not reached
          primary  |-> NoTask,      \* task_ids[0] of a create
          subject  |-> NoApproval,  \* approval an update works on
          prior    |-> "pending",   \* its status when it was loaded
          target   |-> "pending",   \* the status the payload asks for
          claims   |-> {},          \* approvals a deletion still has to write
          cut      |-> {},          \* approvals whose link it has deleted
          left     |-> [a \in Approvals |-> {}],      \* remaining_task_ids it read
          home     |-> [a \in Approvals |-> NoTask]]  \* the task_id it has written

Job == [scope : SUBSET Tasks, todo : SUBSET Tasks, primary : Tasks \cup {NoTask},
        subject : Approvals \cup {NoApproval}, prior : Decisions, target : Decisions,
        claims : SUBSET Approvals, cut : SUBSET Approvals,
        left : [Approvals -> SUBSET Tasks], home : [Approvals -> Tasks \cup {NoTask}]]

Phases == {"idle", "lock", "share", "write", "scan", "cut", "claim"}

(***************************************************************************)
(* What an approval is about: its links, or for a row older than the link  *)
(* table its own task_id.                                                  *)
(***************************************************************************)
Live(a) == status[a] \in Decisions
Covers(a) == IF links[a] # {} THEN links[a] ELSE {primary[a]} \ {NoTask}
OpenOn(t) == {a \in Approvals : status[a] = "pending" /\ t \in Covers(a)}

(***************************************************************************)
(* pending_approval_conflicts_by_task: a pending approval other than self  *)
(* that covers a task of the request.                                      *)
(***************************************************************************)
Conflicts(scope, self) == {a \in Approvals \ {self} : \E t \in scope : a \in OpenOn(t)}

-----------------------------------------------------------------------------
(***************************************************************************)
(* COMMIT, and the rollback of get_session() when a handler raises: both   *)
(* end the transaction, release its locks and answer the request.          *)
(***************************************************************************)
Finish(r) ==
  /\ pc' = [pc EXCEPT ![r] = "idle"]
  /\ job' = [job EXCEPT ![r] = NoJob]
  /\ owner' = [t \in Tasks |-> IF owner[t] = r THEN NoRequest ELSE owner[t]]
  /\ sharers' = [t \in Tasks |-> sharers[t] \ {r}]
  /\ rowOwner' = [a \in Approvals |-> IF rowOwner[a] = r THEN NoRequest ELSE rowOwner[a]]

\* Mutant: a rejected request leaves its transaction open.
RollbackLeaks(r) ==
  /\ pc' = [pc EXCEPT ![r] = "idle"]
  /\ job' = [job EXCEPT ![r] = NoJob]
  /\ UNCHANGED <<db, locks>>

Rollback(r) == Finish(r) /\ UNCHANGED db

(***************************************************************************)
(* Bound: Approvals is finite, so a create begins only while there is an   *)
(* id for it and for every create in progress.                             *)
(***************************************************************************)
Creating(r) == pc[r] \in {"lock", "share"} /\ job[r].subject = NoApproval
RoomForCreate ==
  Cardinality({r \in Requests : Creating(r)}) < Cardinality({a \in Approvals : status[a] = "unused"})

(***************************************************************************)
(* create_approval up to the first lock: the payload names tasks of the    *)
(* board (require_tasks_in_board), the first one becomes task_id.  Only a  *)
(* pending approval with tasks takes the row locks and is checked.         *)
(***************************************************************************)
BeginCreate(r, scope, first, target) ==
  /\ pc[r] = "idle"
  /\ RoomForCreate
  /\ scope \subseteq tasks
  /\ IF scope = {} THEN first = NoTask ELSE first \in scope
  /\ pc' = [pc EXCEPT ![r] = IF target = "pending" /\ scope # {} THEN "lock" ELSE "share"]
  /\ job' = [job EXCEPT ![r] = [NoJob EXCEPT !.scope = scope, !.todo = scope,
                                             !.primary = first, !.target = target]]
  /\ UNCHANGED <<db, locks>>

(***************************************************************************)
(* update_approval up to the first lock: the row is loaded without a lock, *)
(* so prior is what was committed then.  Only a reopening of an approval   *)
(* that has tasks is checked for conflicts.                                *)
(***************************************************************************)
BeginUpdate(r, a, target) ==
  LET scope == IF target = "pending" /\ status[a] # "pending" THEN Covers(a) ELSE {} IN
  /\ pc[r] = "idle"
  /\ Live(a)
  /\ pc' = [pc EXCEPT ![r] = IF scope # {} THEN "lock" ELSE "write"]
  /\ job' = [job EXCEPT ![r] = [NoJob EXCEPT !.scope = scope, !.todo = scope,
                                             !.subject = a, !.prior = status[a],
                                             !.target = target]]
  /\ UNCHANGED <<db, locks>>

(***************************************************************************)
(* lock_tasks_for_approval: SELECT ... ORDER BY id FOR UPDATE locks the    *)
(* rows one by one in id order and waits at the first one that is locked.  *)
(* A row whose deletion commits meanwhile is skipped.                      *)
(***************************************************************************)
Unlocked(r) == job[r].todo \cap tasks
\* Mutant: the lock query without ORDER BY.
NextInAnyOrder(r, t) == t \in Unlocked(r)
NextInOrder(r, t) == t \in Unlocked(r) /\ \A u \in Unlocked(r) : t <= u

LockTask(r, t) ==
  /\ pc[r] = "lock"
  /\ NextInOrder(r, t)
  /\ owner[t] = NoRequest
  /\ sharers[t] = {}
  /\ owner' = [owner EXCEPT ![t] = r]
  /\ job' = [job EXCEPT ![r].todo = @ \ {t}]
  /\ UNCHANGED <<db, sharers, rowOwner, pc>>

(***************************************************************************)
(* pending_approval_conflicts_by_task, a statement of its own after the    *)
(* locks: 409 when another pending approval covers one of the tasks.       *)
(***************************************************************************)
\* Mutant: the check does not wait for the row locks.
CheckConflictsUnlocked(r) ==
  /\ pc[r] = "lock"
  /\ IF Conflicts(job[r].scope, job[r].subject) # {}
       THEN Rollback(r)
       ELSE /\ pc' = [pc EXCEPT ![r] = IF job[r].subject = NoApproval THEN "share" ELSE "write"]
            /\ job' = [job EXCEPT ![r].todo = job[r].scope]
            /\ UNCHANGED <<db, locks>>

CheckConflicts(r) ==
  /\ pc[r] = "lock"
  /\ Unlocked(r) = {}
  /\ IF Conflicts(job[r].scope, job[r].subject) # {}
       THEN Rollback(r)
       ELSE /\ pc' = [pc EXCEPT ![r] = IF job[r].subject = NoApproval THEN "share" ELSE "write"]
            /\ job' = [job EXCEPT ![r].todo = job[r].scope]
            /\ UNCHANGED <<db, locks>>

(***************************************************************************)
(* INSERT of the approval row and its links: the foreign keys take each    *)
(* task row FOR KEY SHARE, first that of task_id, then those of the links  *)
(* in the order of the payload.  A task that is gone fails the request.    *)
(***************************************************************************)
NextReference(r, t) ==
  /\ t \in job[r].todo
  /\ job[r].primary \in job[r].todo => t = job[r].primary

ShareTask(r, t) ==
  /\ pc[r] = "share"
  /\ NextReference(r, t)
  /\ t \in tasks
  /\ owner[t] \in {NoRequest, r}
  /\ sharers' = [sharers EXCEPT ![t] = @ \cup {r}]
  /\ job' = [job EXCEPT ![r].todo = @ \ {t}]
  /\ UNCHANGED <<db, owner, rowOwner, pc>>

CreateFails(r) ==
  /\ pc[r] = "share"
  /\ \E t \in Tasks : NextReference(r, t) /\ t \notin tasks
  /\ Rollback(r)

\* Mutant: link rows only for the tasks after the first.
CommitCreatePartialLinks(r, a) ==
  /\ pc[r] = "share"
  /\ job[r].todo = {}
  /\ status[a] = "unused"
  /\ status' = [status EXCEPT ![a] = job[r].target]
  /\ primary' = [primary EXCEPT ![a] = job[r].primary]
  /\ links' = [links EXCEPT ![a] = job[r].scope \ {job[r].primary}]
  /\ UNCHANGED tasks
  /\ Finish(r)

CommitCreate(r, a) ==
  /\ pc[r] = "share"
  /\ job[r].todo = {}
  /\ status[a] = "unused"
  /\ status' = [status EXCEPT ![a] = job[r].target]
  /\ primary' = [primary EXCEPT ![a] = job[r].primary]
  /\ links' = [links EXCEPT ![a] = job[r].scope]
  /\ UNCHANGED tasks
  /\ Finish(r)

(***************************************************************************)
(* The end of update_approval.  The session emits UPDATE approvals only    *)
(* when the new status differs from the loaded one; the UPDATE waits for   *)
(* an uncommitted write of the row and fails when the row is gone.         *)
(***************************************************************************)
CommitUpdate(r) ==
  LET a == job[r].subject IN
  /\ pc[r] = "write"
  /\ \/ job[r].target = job[r].prior /\ UNCHANGED db
     \/ /\ job[r].target # job[r].prior
        /\ rowOwner[a] = NoRequest
        /\ status' = [status EXCEPT ![a] = IF Live(a) THEN job[r].target ELSE @]
        /\ UNCHANGED <<tasks, primary, links>>
  /\ Finish(r)

-----------------------------------------------------------------------------
(***************************************************************************)
(* delete_task_and_related_records: it reads the approvals whose task_id   *)
(* is the task, deletes the links to the task, reads which tasks those     *)
(* approvals still have, moves them to the first of these or deletes them, *)
(* and deletes the task.                                                   *)
(***************************************************************************)
BeginDelete(r, t) ==
  /\ pc[r] = "idle"
  /\ t \in tasks
  /\ pc' = [pc EXCEPT ![r] = "scan"]
  /\ job' = [job EXCEPT ![r] = [NoJob EXCEPT !.scope = {t}]]
  /\ UNCHANGED <<db, locks>>

ReadPrimaries(r) ==
  /\ pc[r] = "scan"
  /\ pc' = [pc EXCEPT ![r] = "cut"]
  /\ job' = [job EXCEPT ![r].claims =
               {a \in Approvals : Live(a) /\ primary[a] \in job[r].scope}]
  /\ UNCHANGED <<db, locks>>

\* Mutant: the deletion does not look for tasks the approvals still have.
CutLinksOnly(r) ==
  /\ pc[r] = "cut"
  /\ pc' = [pc EXCEPT ![r] = "claim"]
  /\ job' = [job EXCEPT ![r].cut = {a \in Approvals : job[r].scope \cap links[a] # {}}]
  /\ UNCHANGED <<db, locks>>

\* Waits while another deletion of the same task holds the link rows.
CutLinks(r) ==
  LET linked == {a \in Approvals : job[r].scope \cap links[a] # {}} IN
  /\ pc[r] = "cut"
  /\ \A q \in Requests \ {r} : job[q].scope = job[r].scope => job[q].cut \cap linked = {}
  /\ pc' = [pc EXCEPT ![r] = "claim"]
  /\ job' = [job EXCEPT ![r].cut = linked,
                        ![r].left = [a \in Approvals |-> IF a \in job[r].claims
                                                         THEN links[a] \ job[r].scope ELSE {}]]
  /\ UNCHANGED <<db, locks>>

\* DELETE FROM approvals, for an approval with no task left.
ClaimOrphan(r, a) ==
  /\ pc[r] = "claim"
  /\ a \in job[r].claims
  /\ job[r].left[a] = {}
  /\ rowOwner[a] = NoRequest
  /\ rowOwner' = [rowOwner EXCEPT ![a] = r]
  /\ job' = [job EXCEPT ![r].claims = @ \ {a}]
  /\ UNCHANGED <<db, owner, sharers, pc>>

\* UPDATE approvals SET task_id = remaining_task_ids[0], with its foreign key.
ClaimMoved(r, a, t) ==
  /\ pc[r] = "claim"
  /\ a \in job[r].claims
  /\ t \in job[r].left[a]
  /\ rowOwner[a] = NoRequest /\ Live(a)
  /\ owner[t] = NoRequest /\ t \in tasks
  /\ rowOwner' = [rowOwner EXCEPT ![a] = r]
  /\ sharers' = [sharers EXCEPT ![t] = @ \cup {r}]
  /\ job' = [job EXCEPT ![r] = [job[r] EXCEPT !.claims = job[r].claims \ {a},
                                              !.home = [job[r].home EXCEPT ![a] = t]]]
  /\ UNCHANGED <<db, owner, pc>>

\* The same UPDATE when the approval or the task it would move to is gone.
ClaimFails(r, a, t) ==
  /\ pc[r] = "claim"
  /\ a \in job[r].claims
  /\ t \in job[r].left[a]
  /\ rowOwner[a] = NoRequest
  /\ ~ Live(a) \/ t \notin tasks
  /\ Rollback(r)

\* DELETE FROM tasks and COMMIT; a row that still refers to the task fails it.
Orphaned(r, a) == rowOwner[a] = r /\ job[r].home[a] = NoTask
Refiled(r, a) == IF rowOwner[a] = r THEN job[r].home[a] ELSE primary[a]
StillReferenced(r, t) ==
  \E a \in Approvals : Refiled(r, a) = t \/ (t \in links[a] /\ a \notin job[r].cut)

RemoveTask(r, t) ==
  /\ pc[r] = "claim"
  /\ job[r].claims = {}
  /\ t \in job[r].scope
  /\ owner[t] = NoRequest
  /\ sharers[t] \subseteq {r}
  /\ IF StillReferenced(r, t)
       THEN UNCHANGED db
       ELSE /\ tasks' = tasks \ {t}
            /\ status' = [a \in Approvals |->
                            IF Orphaned(r, a) THEN "deleted" ELSE status[a]]
            /\ primary' = [a \in Approvals |-> Refiled(r, a)]
            /\ links' = [a \in Approvals |->
                           IF a \in job[r].cut THEN links[a] \ {t} ELSE links[a]]
  /\ Finish(r)

-----------------------------------------------------------------------------
(***************************************************************************)
(* PostgreSQL aborts a transaction that waits in a cycle.                  *)
(***************************************************************************)
HeldBy(q, t) == owner[t] = q \/ q \in sharers[t]

WaitsFor(r, q) ==
  /\ q # r
  /\ \/ pc[r] = "lock" /\ \E t \in Tasks : NextInOrder(r, t) /\ HeldBy(q, t)
     \/ pc[r] = "share" /\ \E t \in Tasks : NextReference(r, t) /\ owner[t] = q
     \/ pc[r] = "write" /\ rowOwner[job[r].subject] = q
     \/ pc[r] = "claim" /\ \E a \in job[r].claims :
                             \/ rowOwner[a] = q
                             \/ \E t \in job[r].left[a] : owner[t] = q
     \/ pc[r] = "claim" /\ job[r].claims = {} /\ \E t \in job[r].scope : HeldBy(q, t)

InWaitCycle(r) ==
  \E S \in SUBSET Requests :
    /\ r \in S
    /\ \A p \in S : (\E q \in S : WaitsFor(p, q)) /\ (\E q \in S : WaitsFor(q, p))

DeadlockAbort(r) == InWaitCycle(r) /\ Rollback(r)

-----------------------------------------------------------------------------
\* A database that may hold approvals from before the link table existed.
Init ==
  /\ tasks = Tasks
  /\ status \in [Approvals -> {"unused"} \cup Decisions]
  /\ primary \in [Approvals -> Tasks \cup {NoTask}]
  /\ \A a \in Approvals : status[a] = "unused" => primary[a] = NoTask
  /\ \A a, b \in Approvals :
       a # b /\ status[a] = "pending" /\ status[b] = "pending"
         => primary[a] # primary[b] \/ primary[a] = NoTask
  /\ links = [a \in Approvals |-> {}]
  /\ owner = [t \in Tasks |-> NoRequest]
  /\ sharers = [t \in Tasks |-> {}]
  /\ rowOwner = [a \in Approvals |-> NoRequest]
  /\ pc = [r \in Requests |-> "idle"]
  /\ job = [r \in Requests |-> NoJob]

\* A request arrives and executes its first reads.
Begin(r) ==
  \/ \E scope \in SUBSET Tasks, first \in Tasks \cup {NoTask}, target \in Decisions :
       BeginCreate(r, scope, first, target)
  \/ \E a \in Approvals, target \in Decisions : BeginUpdate(r, a, target)
  \/ \E t \in Tasks : BeginDelete(r, t)

\* The next statement of a request that has begun.
Proceed(r) ==
  \/ \E t \in Tasks : LockTask(r, t)
  \/ CheckConflicts(r)
  \/ \E t \in Tasks : ShareTask(r, t)
  \/ CreateFails(r)
  \/ \E a \in Approvals : CommitCreate(r, a)
  \/ CommitUpdate(r)
  \/ ReadPrimaries(r)
  \/ CutLinks(r)
  \/ \E a \in Approvals : ClaimOrphan(r, a)
  \/ \E a \in Approvals, t \in Tasks : ClaimMoved(r, a, t) \/ ClaimFails(r, a, t)
  \/ \E t \in Tasks : RemoveTask(r, t)
  \/ DeadlockAbort(r)

Next == \E r \in Requests : Begin(r) \/ Proceed(r)

\* The event loop and the database run every request that has begun, and
\* PostgreSQL queues the waiters of a row, so one that is woken again and again
\* gets it: strong fairness, per request.  Arrivals are not fair.
Fairness == \A r \in Requests : SF_vars(Proceed(r))

Spec == Init /\ [][Next]_vars
FairSpec == Spec /\ Fairness

-----------------------------------------------------------------------------
\* The state is always a database the schema admits.
TypeOK ==
  /\ tasks \subseteq Tasks
  /\ status \in [Approvals -> {"unused", "deleted"} \cup Decisions]
  /\ primary \in [Approvals -> Tasks \cup {NoTask}]
  /\ links \in [Approvals -> SUBSET Tasks]
  /\ owner \in [Tasks -> Requests \cup {NoRequest}]
  /\ sharers \in [Tasks -> SUBSET Requests]
  /\ rowOwner \in [Approvals -> Requests \cup {NoRequest}]
  /\ pc \in [Requests -> Phases]
  /\ job \in [Requests -> Job]

\* "Each task can have only one pending approval" (approvals.py:159), however
\* creates, reopenings, decisions and task deletions interleave.
OnePendingPerTask ==
  \A t \in tasks : \A a, b \in OpenOn(t) : a = b

\* The task an approval is filed under exists and is one of those it is linked
\* to, however deletions of its tasks interleave: the conflict check and the
\* done gate, which look at links first, never judge another task than the one
\* the approval shows.
PrimaryIsLinked ==
  \A a \in Approvals : Live(a) =>
    /\ Covers(a) \subseteq tasks
    /\ links[a] # {} => primary[a] \in links[a]

\* "Acquire row locks for task ids in deterministic order": requests that only
\* take the conflict check's locks never wait for each other in a cycle.
ChecksNeverDeadlock ==
  \A S \in (SUBSET Requests) \ {{}} :
    \E p \in S : \/ pc[p] # "lock"
                \/ \A t \in Tasks : NextInOrder(p, t) => owner[t] \notin S

\* Every request is answered: no lock outlives its request, and no wait cycle
\* (create against delete, decision against delete) lasts.
EveryRequestEnds == \A r \in Requests : pc[r] # "idle" ~> pc[r] = "idle"

\* With its statements interleaved, the service still behaves as if each create,
\* decision, reopening and deletion happened at once, at its commit.
Ledger == INSTANCE ApprovalLedger WITH covers <- [a \in Approvals |-> Covers(a)]
ImplementsLedger == Ledger!Spec

=============================================================================
