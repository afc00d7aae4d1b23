------------------------- MODULE ApprovalGateProofs -------------------------
(***************************************************************************)
(* Proofs about ApprovalGate, for every set of tasks, approval ids and     *)
(* request slots: its types, one pending approval per task, and the task   *)
(* an approval is filed under.  IInv is the inductive invariant: what each *)
(* request still relies on between two of its statements, and which row    *)
(* locks keep it true.  DInv is what a deletion relies on; with it every   *)
(* statement of ApprovalGate is a step of ApprovalLedger or a stutter: an  *)
(* operation takes effect at its COMMIT, as if it had happened at once.    *)
(***************************************************************************)
EXTENDS ApprovalGate, FiniteSetTheorems, TLAPS

-----------------------------------------------------------------------------
(***************************************************************************)
(* Types.                                                                  *)
(***************************************************************************)
\* An idle slot holds a well-typed job.
LEMMA NoJobType == NoJob \in Job
  BY DEF NoJob, Job, Decisions

\* The fields of a job, one by one.
LEMMA JobFields ==
  ASSUME NEW j \in Job
  PROVE  /\ j.scope \in SUBSET Tasks /\ j.todo \in SUBSET Tasks
         /\ j.primary \in Tasks \cup {NoTask}
         /\ j.subject \in Approvals \cup {NoApproval}
         /\ j.prior \in Decisions /\ j.target \in Decisions
         /\ j.claims \in SUBSET Approvals /\ j.cut \in SUBSET Approvals
         /\ j.left \in [Approvals -> SUBSET Tasks]
         /\ j.home \in [Approvals -> Tasks \cup {NoTask}]
  BY DEF Job

\* What a task deletion notes when it moves an approval is well typed.
LEMMA ClaimType ==
  ASSUME NEW j \in Job, NEW c \in SUBSET Approvals,
         NEW h \in [Approvals -> Tasks \cup {NoTask}]
  PROVE  [j EXCEPT !.claims = c, !.home = h] \in Job
  BY DEF Job

\* COMMIT and ROLLBACK leave locks, phases and jobs well typed.
LEMMA FinishType ==
  ASSUME TypeOK, NEW r \in Requests, Finish(r)
  PROVE  /\ owner' \in [Tasks -> Requests \cup {NoRequest}]
         /\ sharers' \in [Tasks -> SUBSET Requests]
         /\ rowOwner' \in [Approvals -> Requests \cup {NoRequest}]
         /\ pc' \in [Requests -> Phases]
         /\ job' \in [Requests -> Job]
  BY NoJobType DEF TypeOK, Finish, Phases

\* A rolled back request leaves a well-typed state.
LEMMA RollbackType ==
  ASSUME TypeOK, NEW r \in Requests, Rollback(r)
  PROVE  TypeOK'
  <1>1. Finish(r) /\ UNCHANGED db
    BY DEF Rollback
  <1> QED BY <1>1, FinishType DEF TypeOK, db

\* Every statement of every request preserves the types.
LEMMA TypeStep ==
  ASSUME TypeOK, NEW r \in Requests, Begin(r) \/ Proceed(r)
  PROVE  TypeOK'
  <1> USE DEF TypeOK
  <1>1. ASSUME NEW scope \in SUBSET Tasks, NEW first \in Tasks \cup {NoTask},
               NEW target \in Decisions, BeginCreate(r, scope, first, target)
        PROVE  TypeOK'
    <2>1. [NoJob EXCEPT !.scope = scope, !.todo = scope, !.primary = first, !.target = target]
            \in Job
      BY DEF NoJob, Job, Decisions
    <2> QED BY <1>1, <2>1 DEF BeginCreate, db, locks, Phases
  <1>2. ASSUME NEW a \in Approvals, NEW target \in Decisions, BeginUpdate(r, a, target)
        PROVE  TypeOK'
    <2> DEFINE scope == IF target = "pending" /\ status[a] # "pending" THEN Covers(a) ELSE {}
    <2>0. scope \in SUBSET Tasks /\ status[a] \in Decisions
      BY <1>2 DEF Covers, BeginUpdate, Live
    <2>1. [NoJob EXCEPT !.scope = scope, !.todo = scope, !.subject = a,
                        !.prior = status[a], !.target = target] \in Job
      BY <2>0 DEF NoJob, Job
    <2>2. /\ pc' = [pc EXCEPT ![r] = IF scope # {} THEN "lock" ELSE "write"]
          /\ job' = [job EXCEPT ![r] = [NoJob EXCEPT !.scope = scope, !.todo = scope,
                        !.subject = a, !.prior = status[a], !.target = target]]
          /\ UNCHANGED <<db, locks>>
      BY <1>2 DEF BeginUpdate
    <2> HIDE DEF scope
    <2> QED BY <2>1, <2>2 DEF db, locks, Phases
  <1>3. ASSUME NEW t \in Tasks, BeginDelete(r, t)
        PROVE  TypeOK'
    <2>1. [NoJob EXCEPT !.scope = {t}] \in Job
      BY DEF NoJob, Job, Decisions
    <2> QED BY <1>3, <2>1 DEF BeginDelete, db, locks, Phases
  <1>4. ASSUME NEW t \in Tasks, LockTask(r, t)
        PROVE  TypeOK'
    <2>1. [job[r] EXCEPT !.todo = @ \ {t}] \in Job
      BY DEF Job
    <2> QED BY <1>4, <2>1 DEF LockTask, db
  <1>5. ASSUME CheckConflicts(r)
        PROVE  TypeOK'
    <2>1. CASE Conflicts(job[r].scope, job[r].subject) # {}
      BY <1>5, <2>1, RollbackType DEF CheckConflicts
    <2>2. CASE Conflicts(job[r].scope, job[r].subject) = {}
      <3>1. [job[r] EXCEPT !.todo = job[r].scope] \in Job
        BY DEF Job
      <3> QED BY <1>5, <2>2, <3>1 DEF CheckConflicts, db, locks, Phases
    <2> QED BY <2>1, <2>2
  <1>6. ASSUME NEW t \in Tasks, ShareTask(r, t)
        PROVE  TypeOK'
    <2>1. [job[r] EXCEPT !.todo = @ \ {t}] \in Job
      BY DEF Job
    <2> QED BY <1>6, <2>1 DEF ShareTask, db
  <1>7. CASE CreateFails(r)
    BY <1>7, RollbackType DEF CreateFails
  <1>8. ASSUME NEW a \in Approvals, CommitCreate(r, a)
        PROVE  TypeOK'
    <2>1. job[r].target \in Decisions /\ job[r].primary \in Tasks \cup {NoTask}
          /\ job[r].scope \in SUBSET Tasks
      BY DEF Job
    <2> QED BY <1>8, <2>1, FinishType DEF CommitCreate
  <1>9. CASE CommitUpdate(r)
    <2>1. job[r].target \in Decisions
      BY DEF Job
    <2> QED BY <1>9, <2>1, FinishType DEF CommitUpdate, db
  <1>10. CASE ReadPrimaries(r)
    <2> DEFINE found == {a \in Approvals : Live(a) /\ primary[a] \in job[r].scope}
    <2>1. [job[r] EXCEPT !.claims = found] \in Job
      BY DEF Job
    <2> QED BY <1>10, <2>1 DEF ReadPrimaries, db, locks, Phases
  <1>11. CASE CutLinks(r)
    <2> DEFINE linked == {a \in Approvals : job[r].scope \cap links[a] # {}}
               rest == [a \in Approvals |-> IF a \in job[r].claims
                                            THEN links[a] \ job[r].scope ELSE {}]
    <2>1. [job[r] EXCEPT !.cut = linked, !.left = rest] \in Job
      BY DEF Job
    <2>2. /\ pc' = [pc EXCEPT ![r] = "claim"]
          /\ job' = [job EXCEPT ![r] = [job[r] EXCEPT !.cut = linked, !.left = rest]]
          /\ UNCHANGED <<db, locks>>
      BY <1>11 DEF CutLinks
    <2> HIDE DEF linked, rest
    <2> QED BY <2>1, <2>2 DEF db, locks, Phases
  <1>12. ASSUME NEW a \in Approvals, ClaimOrphan(r, a)
         PROVE  TypeOK'
    <2>1. [job[r] EXCEPT !.claims = @ \ {a}] \in Job
      BY DEF Job
    <2> QED BY <1>12, <2>1 DEF ClaimOrphan, db
  <1>13. ASSUME NEW a \in Approvals, NEW t \in Tasks, ClaimMoved(r, a, t)
         PROVE  TypeOK'
    <2> DEFINE moved == [job[r].home EXCEPT ![a] = t]
               rest == job[r].claims \ {a}
               next == [job[r] EXCEPT !.claims = rest, !.home = moved]
    <2>1. job' = [job EXCEPT ![r] = next]
      BY <1>13 DEF ClaimMoved
    <2>2. job[r] \in Job
      OBVIOUS
    <2>3. moved \in [Approvals -> Tasks \cup {NoTask}] /\ rest \in SUBSET Approvals
      BY <2>2, JobFields
    <2>4. next \in Job
      BY <2>2, <2>3, ClaimType
    <2> HIDE DEF next
    <2> QED BY <1>13, <2>1, <2>4 DEF ClaimMoved, db
  <1>14. ASSUME NEW t \in Tasks, RemoveTask(r, t)
         PROVE  TypeOK'
    <2>1. \A a \in Approvals : Refiled(r, a) \in Tasks \cup {NoTask}
      BY DEF Refiled, Job
    <2> QED BY <1>14, <2>1, FinishType DEF RemoveTask, db
  <1>16. ASSUME NEW a \in Approvals, NEW t \in Tasks, ClaimFails(r, a, t)
         PROVE  TypeOK'
    BY <1>16, RollbackType DEF ClaimFails
  <1>15. CASE DeadlockAbort(r)
    BY <1>15, RollbackType DEF DeadlockAbort
  <1> QED
    BY <1>1, <1>2, <1>3, <1>4, <1>5, <1>6, <1>7, <1>8, <1>9, <1>10, <1>11, <1>12, <1>13,
       <1>14, <1>15, <1>16 DEF Begin, Proceed

-----------------------------------------------------------------------------
(***************************************************************************)
(* The inductive invariant.                                                *)
(***************************************************************************)

\* The request has passed the conflict check and will commit a pending status.
Checked(r) ==
  /\ job[r].target = "pending"
  /\ pc[r] = "share" \/ (pc[r] = "write" /\ job[r].prior # "pending")

JobShape(r) ==
  /\ pc[r] = "lock" => job[r].target = "pending"
  /\ pc[r] = "lock" /\ job[r].subject # NoApproval => job[r].prior # "pending"
  /\ pc[r] = "share" => job[r].subject = NoApproval
  /\ pc[r] = "write" => job[r].subject \in Approvals
  /\ pc[r] \in {"lock", "share"} /\ job[r].subject = NoApproval =>
       \/ job[r].scope = {} /\ job[r].primary = NoTask
       \/ job[r].primary \in job[r].scope

LocksHeld(r) ==
  /\ pc[r] = "lock" => \A t \in job[r].scope \ job[r].todo : t \in tasks => owner[t] = r
  /\ Checked(r) => \A t \in job[r].scope : t \in tasks => owner[t] = r
  /\ pc[r] = "share" => \A t \in job[r].scope \ job[r].todo : t \in tasks /\ r \in sharers[t]

NoOtherPending(r) ==
  Checked(r) => \A t \in job[r].scope : t \in tasks => OpenOn(t) \subseteq {job[r].subject}

SubjectInScope(r) ==
  job[r].subject \in Approvals =>
    /\ status[job[r].subject] # "unused"
    /\ pc[r] = "lock" \/ Checked(r) => Covers(job[r].subject) \subseteq job[r].scope

LeftIsLinked(r) ==
  \A a \in Approvals :
    /\ a \in job[r].claims \/ job[r].left[a] # {} => status[a] # "unused"
    /\ \A t \in job[r].left[a] :
         t \notin job[r].scope /\ (Live(a) /\ t \in tasks => t \in links[a])

HomeIsHeld(r) ==
  \A a \in Approvals : job[r].home[a] # NoTask =>
    /\ rowOwner[a] = r /\ Live(a)
    /\ job[r].home[a] \in tasks /\ r \in sharers[job[r].home[a]]
    /\ job[r].home[a] \in links[a] /\ job[r].home[a] \notin job[r].scope

RequestInv(r) ==
  /\ JobShape(r) /\ LocksHeld(r) /\ NoOtherPending(r)
  /\ SubjectInScope(r) /\ LeftIsLinked(r) /\ HomeIsHeld(r)

DeadIsUnfiled == \A a \in Approvals : ~ Live(a) => primary[a] = NoTask

IInv ==
  /\ TypeOK
  /\ PrimaryIsLinked
  /\ DeadIsUnfiled
  /\ OnePendingPerTask
  /\ \A r \in Requests : RequestInv(r)

\* A database from before the link table satisfies the invariant, no request begun.
LEMMA InitIInv == Init => IInv
  <1> SUFFICES ASSUME Init PROVE IInv
    OBVIOUS
  <1>1. TypeOK
    BY NoJobType DEF Init, TypeOK, Phases, Decisions
  <1>2. DeadIsUnfiled
    BY DEF Init, DeadIsUnfiled, Live, Decisions
  <1>3. PrimaryIsLinked
    BY DEF Init, PrimaryIsLinked, Covers
  <1>4. OnePendingPerTask
    BY DEF Init, OnePendingPerTask, OpenOn, Covers
  <1>5. ASSUME NEW r \in Requests PROVE RequestInv(r)
    <2>1. pc[r] = "idle" /\ job[r] = NoJob
      BY DEF Init
    <2> QED
      BY <2>1, NoApprovalAssumption
      DEF NoJob, RequestInv, JobShape, LocksHeld, NoOtherPending, SubjectInScope, LeftIsLinked,
          HomeIsHeld, Checked
  <1> QED BY <1>1, <1>2, <1>3, <1>4, <1>5 DEF IInv

\* A request that has just ended satisfies its part of the invariant.
LEMMA EndedRequest ==
  ASSUME TypeOK, NEW r \in Requests, Finish(r)
  PROVE  RequestInv(r)'
  <1>1. pc'[r] = "idle" /\ job'[r] = NoJob
    BY DEF Finish, TypeOK
  <1> QED
    BY <1>1, NoApprovalAssumption
    DEF NoJob, RequestInv, JobShape, LocksHeld, NoOtherPending, SubjectInScope, LeftIsLinked,
        HomeIsHeld, Checked

\* What a step of one request may do to the database without disturbing another
\* request q: it keeps the locks and the reads of q valid.
Respects(q) ==
  /\ pc'[q] = pc[q] /\ job'[q] = job[q]
  /\ \A t \in Tasks : owner[t] = q => owner'[t] = q
  /\ \A t \in Tasks : q \in sharers[t] => q \in sharers'[t] /\ (t \in tasks => t \in tasks')
  /\ \A a \in Approvals : rowOwner[a] = q => rowOwner'[a] = q /\ (Live(a) => Live(a)')
  /\ tasks' \subseteq tasks
  /\ \A a \in Approvals : status[a] # "unused" =>
       /\ status'[a] # "unused"
       /\ Live(a)' => Live(a)
       /\ Covers(a)' \subseteq Covers(a)
       /\ \A t \in links[a] : t \in tasks' => t \in links'[a]
  /\ Checked(q) => \A t \in job[q].scope : t \in tasks' => OpenOn(t)' \subseteq {job[q].subject}

\* A step that respects what a request relies on keeps that request's part of
\* the invariant.
LEMMA OtherRequest ==
  ASSUME TypeOK, NEW q \in Requests, RequestInv(q), Respects(q)
  PROVE  RequestInv(q)'
  <1>0. job[q] \in Job
    BY DEF TypeOK
  <1>1. JobShape(q)'
    BY DEF RequestInv, JobShape, Respects
  <1>2. LocksHeld(q)'
    BY <1>0, JobFields DEF RequestInv, LocksHeld, Respects, Checked
  <1>3. NoOtherPending(q)'
    BY DEF NoOtherPending, Respects, Checked
  <1>4. SubjectInScope(q)'
    BY DEF RequestInv, SubjectInScope, Respects, Checked
  <1>5. LeftIsLinked(q)'
    BY DEF RequestInv, LeftIsLinked, Respects
  <1>6. HomeIsHeld(q)'
    <2> SUFFICES ASSUME NEW a \in Approvals, job[q].home[a] # NoTask
                 PROVE  /\ rowOwner'[a] = q /\ Live(a)'
                        /\ job[q].home[a] \in tasks' /\ q \in sharers'[job[q].home[a]]
                        /\ job[q].home[a] \in links'[a] /\ job[q].home[a] \notin job[q].scope
      BY DEF HomeIsHeld, Respects
    <2>1. /\ rowOwner[a] = q /\ Live(a)
          /\ job[q].home[a] \in tasks /\ q \in sharers[job[q].home[a]]
          /\ job[q].home[a] \in links[a] /\ job[q].home[a] \notin job[q].scope
      BY DEF RequestInv, HomeIsHeld
    <2>2. status[a] # "unused"
      BY <2>1 DEF Live, Decisions
    <2>3. job[q].home[a] \in Tasks
      BY <2>1 DEF TypeOK
    <2> QED BY <2>1, <2>2, <2>3 DEF Respects
  <1> QED BY <1>1, <1>2, <1>3, <1>4, <1>5, <1>6 DEF RequestInv

\* A step that leaves the tables alone.
LEMMA QuietStep ==
  ASSUME IInv, NEW r \in Requests, TypeOK', UNCHANGED db,
         \A q \in Requests \ {r} : pc'[q] = pc[q] /\ job'[q] = job[q],
         \A q \in Requests \ {r}, t \in Tasks :
           (owner[t] = q => owner'[t] = q) /\ (q \in sharers[t] => q \in sharers'[t]),
         \A q \in Requests \ {r}, a \in Approvals : rowOwner[a] = q => rowOwner'[a] = q,
         RequestInv(r)'
  PROVE  IInv'
  <1>1. PrimaryIsLinked' /\ DeadIsUnfiled' /\ OnePendingPerTask'
    BY DEF IInv, PrimaryIsLinked, DeadIsUnfiled, OnePendingPerTask, OpenOn, Covers, Live, db
  <1>2. ASSUME NEW q \in Requests, q # r PROVE RequestInv(q)'
    <2>1. RequestInv(q) /\ TypeOK
      BY DEF IInv
    <2>2. \A t : OpenOn(t)' = OpenOn(t)
      BY DEF OpenOn, Covers, db
    <2>3. Checked(q) => \A t \in job[q].scope : t \in tasks' => OpenOn(t)' \subseteq {job[q].subject}
      BY <2>1, <2>2 DEF RequestInv, NoOtherPending, db
    <2>4. Respects(q)
      BY <1>2, <2>3 DEF Respects, db, Live, Covers
    <2> QED BY <2>1, <2>4, OtherRequest
  <1> QED BY <1>1, <1>2 DEF IInv

\* A rejected request only gives up its locks.
LEMMA RollbackStep ==
  ASSUME IInv, NEW r \in Requests, Rollback(r)
  PROVE  IInv'
  <1>1. TypeOK' /\ RequestInv(r)'
    BY RollbackType, EndedRequest DEF IInv, Rollback
  <1>2. /\ \A q \in Requests \ {r} : pc'[q] = pc[q] /\ job'[q] = job[q]
        /\ \A q \in Requests \ {r}, t \in Tasks :
             (owner[t] = q => owner'[t] = q) /\ (q \in sharers[t] => q \in sharers'[t])
        /\ \A q \in Requests \ {r}, a \in Approvals : rowOwner[a] = q => rowOwner'[a] = q
    BY DEF IInv, TypeOK, Rollback, Finish
  <1>3. UNCHANGED db
    BY DEF Rollback
  <1> QED BY <1>1, <1>2, <1>3, QuietStep

-----------------------------------------------------------------------------
(***************************************************************************)
(* The invariant is inductive: the steps that leave the tables alone.      *)
(***************************************************************************)
\* A request that arrives has promised nothing yet.
LEMMA BeginStep ==
  ASSUME IInv, NEW r \in Requests, Begin(r)
  PROVE  IInv'
  <1>0. TypeOK' /\ TypeOK
    BY TypeStep DEF IInv
  <1>1. ASSUME NEW scope \in SUBSET Tasks, NEW first \in Tasks \cup {NoTask},
               NEW target \in Decisions, BeginCreate(r, scope, first, target)
        PROVE  RequestInv(r)'
    <2>1. /\ job'[r] = [NoJob EXCEPT !.scope = scope, !.todo = scope, !.primary = first,
                                     !.target = target]
          /\ pc'[r] = IF target = "pending" /\ scope # {} THEN "lock" ELSE "share"
          /\ IF scope = {} THEN first = NoTask ELSE first \in scope
      BY <1>0, <1>1 DEF BeginCreate, TypeOK
    <2> QED
      BY <2>1, NoApprovalAssumption
      DEF NoJob, RequestInv, JobShape, LocksHeld, NoOtherPending, SubjectInScope, LeftIsLinked,
          HomeIsHeld, Checked
  <1>2. ASSUME NEW a \in Approvals, NEW target \in Decisions, BeginUpdate(r, a, target)
        PROVE  RequestInv(r)'
    <2> DEFINE scope == IF target = "pending" /\ status[a] # "pending" THEN Covers(a) ELSE {}
    <2>1. /\ job'[r] = [NoJob EXCEPT !.scope = scope, !.todo = scope, !.subject = a,
                                     !.prior = status[a], !.target = target]
          /\ pc'[r] = IF scope # {} THEN "lock" ELSE "write"
          /\ UNCHANGED db /\ Live(a)
      BY <1>0, <1>2 DEF BeginUpdate, TypeOK
    <2>2. Covers(a)' = Covers(a) /\ status' = status /\ status[a] # "unused" /\ a # NoApproval
      BY <2>1, NoApprovalAssumption DEF db, Covers, Live, Decisions
    <2> QED
      BY <2>1, <2>2
      DEF NoJob, RequestInv, JobShape, LocksHeld, NoOtherPending, SubjectInScope, LeftIsLinked,
          HomeIsHeld, Checked
  <1>3. ASSUME NEW t \in Tasks, BeginDelete(r, t)
        PROVE  RequestInv(r)'
    <2>1. job'[r] = [NoJob EXCEPT !.scope = {t}] /\ pc'[r] = "scan"
      BY <1>0, <1>3 DEF BeginDelete, TypeOK
    <2> QED
      BY <2>1, NoApprovalAssumption
      DEF NoJob, RequestInv, JobShape, LocksHeld, NoOtherPending, SubjectInScope, LeftIsLinked,
          HomeIsHeld, Checked
  <1>4. RequestInv(r)'
    BY <1>1, <1>2, <1>3 DEF Begin
  <1>5. /\ UNCHANGED <<db, locks>>
        /\ \A q \in Requests \ {r} : pc'[q] = pc[q] /\ job'[q] = job[q]
    BY <1>0 DEF Begin, BeginCreate, BeginUpdate, BeginDelete, TypeOK
  <1> QED BY <1>0, <1>4, <1>5, QuietStep DEF locks

\* lock_tasks_for_approval: one more row of the scope is held.
LEMMA LockStep ==
  ASSUME IInv, NEW r \in Requests, NEW t \in Tasks, LockTask(r, t)
  PROVE  IInv'
  <1>0. TypeOK' /\ TypeOK /\ RequestInv(r)
    BY TypeStep DEF IInv, Proceed
  <1>1. /\ job'[r] = [job[r] EXCEPT !.todo = job[r].todo \ {t}]
        /\ pc'[r] = "lock" /\ pc[r] = "lock" /\ UNCHANGED <<db, sharers, rowOwner, pc>>
        /\ owner[t] = NoRequest /\ owner'[t] = r /\ owner' = [owner EXCEPT ![t] = r]
        /\ \A q \in Requests \ {r} : job'[q] = job[q]
    BY <1>0 DEF LockTask, TypeOK
  <1>2. /\ job'[r].scope = job[r].scope /\ job'[r].todo = job[r].todo \ {t}
        /\ job'[r].primary = job[r].primary /\ job'[r].subject = job[r].subject
        /\ job'[r].prior = job[r].prior /\ job'[r].target = job[r].target
        /\ job'[r].claims = job[r].claims /\ job'[r].left = job[r].left
        /\ job'[r].home = job[r].home
    <2>1. job[r] \in Job
      BY <1>0 DEF TypeOK
    <2> QED BY <1>1, <2>1 DEF Job
  <1>3. JobShape(r)'
    BY <1>0, <1>1, <1>2 DEF RequestInv, JobShape
  <1>4. LocksHeld(r)'
    <2>1. \A u \in job[r].scope \ job[r].todo : u \in tasks => owner'[u] = r
      <3>1. \A u \in job[r].scope \ job[r].todo : u \in tasks => owner[u] = r /\ u \in Tasks
        BY <1>0, <1>1 DEF RequestInv, LocksHeld, TypeOK
      <3> QED BY <1>0, <1>1, <3>1 DEF TypeOK
    <2> QED BY <1>1, <1>2, <2>1 DEF LocksHeld, Checked, db
  <1>5. NoOtherPending(r)' /\ SubjectInScope(r)' /\ LeftIsLinked(r)' /\ HomeIsHeld(r)'
    BY <1>0, <1>1, <1>2
    DEF RequestInv, NoOtherPending, SubjectInScope, LeftIsLinked, HomeIsHeld, Checked, Covers,
        Live, db
  <1>6. \A q \in Requests \ {r}, u \in Tasks : owner[u] = q => owner'[u] = q
    BY <1>0, <1>1, NoRequestAssumption DEF TypeOK
  <1>7. RequestInv(r)'
    BY <1>3, <1>4, <1>5 DEF RequestInv
  <1> QED BY <1>0, <1>1, <1>6, <1>7, QuietStep

\* After the last lock, every task of the scope is held, so the answer of the
\* conflict check stays true until the request commits.
LEMMA CheckStep ==
  ASSUME IInv, NEW r \in Requests, CheckConflicts(r)
  PROVE  IInv'
  <1>0. TypeOK' /\ TypeOK /\ RequestInv(r)
    BY TypeStep DEF IInv, Proceed
  <1>1. CASE Conflicts(job[r].scope, job[r].subject) # {}
    BY <1>1, RollbackStep DEF CheckConflicts
  <1>2. CASE Conflicts(job[r].scope, job[r].subject) = {}
    <2>1. /\ job'[r] = [job[r] EXCEPT !.todo = job[r].scope]
          /\ pc'[r] = IF job[r].subject = NoApproval THEN "share" ELSE "write"
          /\ pc[r] = "lock" /\ UNCHANGED <<db, locks>>
          /\ \A q \in Requests \ {r} : pc'[q] = pc[q] /\ job'[q] = job[q]
          /\ job[r].todo \cap tasks = {}
      BY <1>0, <1>2 DEF CheckConflicts, TypeOK, Unlocked
    <2>2. /\ job'[r].scope = job[r].scope /\ job'[r].todo = job[r].scope
          /\ job'[r].primary = job[r].primary /\ job'[r].subject = job[r].subject
          /\ job'[r].prior = job[r].prior /\ job'[r].target = job[r].target
          /\ job'[r].claims = job[r].claims /\ job'[r].left = job[r].left
          /\ job'[r].home = job[r].home
          /\ job[r].subject \in Approvals \cup {NoApproval}
      <3>1. job[r] \in Job
        BY <1>0 DEF TypeOK
      <3> QED BY <2>1, <3>1 DEF Job
    <2>3. JobShape(r)'
      BY <1>0, <2>1, <2>2 DEF RequestInv, JobShape
    <2>4. LocksHeld(r)'
      BY <1>0, <2>1, <2>2 DEF RequestInv, LocksHeld, db, locks
    <2>5. NoOtherPending(r)'
      <3>1. \A t \in job[r].scope : OpenOn(t) \subseteq {job[r].subject}
        BY <1>2 DEF Conflicts, OpenOn
      <3>2. \A t \in job[r].scope : OpenOn(t)' \subseteq {job[r].subject}
        BY <2>1, <3>1 DEF OpenOn, Covers, db
      <3> QED BY <2>2, <3>2 DEF NoOtherPending
    <2>6. SubjectInScope(r)' /\ LeftIsLinked(r)' /\ HomeIsHeld(r)'
      BY <1>0, <2>1, <2>2
      DEF RequestInv, SubjectInScope, LeftIsLinked, HomeIsHeld, Covers, Live, db, locks
    <2>7. RequestInv(r)'
      BY <2>3, <2>4, <2>5, <2>6 DEF RequestInv
    <2> QED BY <1>0, <2>1, <2>7, QuietStep DEF locks
  <1> QED BY <1>1, <1>2

\* The foreign keys of an INSERT keep the tasks they refer to from being deleted.
LEMMA ShareStep ==
  ASSUME IInv, NEW r \in Requests, NEW t \in Tasks, ShareTask(r, t)
  PROVE  IInv'
  <1>0. TypeOK' /\ TypeOK /\ RequestInv(r)
    BY TypeStep DEF IInv, Proceed
  <1>1. /\ job'[r] = [job[r] EXCEPT !.todo = job[r].todo \ {t}]
        /\ pc'[r] = "share" /\ pc[r] = "share" /\ UNCHANGED <<db, owner, rowOwner, pc>>
        /\ t \in tasks /\ sharers'[t] = sharers[t] \cup {r}
        /\ \A u \in Tasks \ {t} : sharers'[u] = sharers[u]
        /\ \A q \in Requests \ {r} : job'[q] = job[q]
    BY <1>0 DEF ShareTask, TypeOK
  <1>2. /\ job'[r].scope = job[r].scope /\ job'[r].todo = job[r].todo \ {t}
        /\ job'[r].primary = job[r].primary /\ job'[r].subject = job[r].subject
        /\ job'[r].prior = job[r].prior /\ job'[r].target = job[r].target
        /\ job'[r].claims = job[r].claims /\ job'[r].left = job[r].left
        /\ job'[r].home = job[r].home /\ job[r].scope \in SUBSET Tasks
        /\ job[r].home \in [Approvals -> Tasks \cup {NoTask}]
    <2>1. job[r] \in Job
      BY <1>0 DEF TypeOK
    <2> QED BY <1>1, <2>1 DEF Job
  <1>3. \A q \in Requests, u \in Tasks : q \in sharers[u] => q \in sharers'[u]
    BY <1>1
  <1>4. JobShape(r)'
    BY <1>0, <1>1, <1>2 DEF RequestInv, JobShape
  <1>5. LocksHeld(r)'
    BY <1>0, <1>1, <1>2, <1>3 DEF RequestInv, LocksHeld, Checked, db
  <1>6. NoOtherPending(r)' /\ SubjectInScope(r)' /\ LeftIsLinked(r)'
    BY <1>0, <1>1, <1>2
    DEF RequestInv, NoOtherPending, OpenOn, SubjectInScope, LeftIsLinked, Checked, Covers, Live, db
  <1>7. HomeIsHeld(r)'
    BY <1>0, <1>1, <1>2, <1>3 DEF RequestInv, HomeIsHeld, Live, db, TypeOK
  <1>8. RequestInv(r)'
    BY <1>4, <1>5, <1>6, <1>7 DEF RequestInv
  <1> QED BY <1>0, <1>1, <1>3, <1>8, QuietStep

\* What a task deletion reads is what it has left to do.
LEMMA DeletionReadsStep ==
  ASSUME IInv, NEW r \in Requests, ReadPrimaries(r) \/ CutLinks(r)
  PROVE  IInv'
  <1>0. TypeOK' /\ TypeOK /\ RequestInv(r)
    BY TypeStep DEF IInv, Proceed
  <1>1. CASE ReadPrimaries(r)
    <2> DEFINE found == {a \in Approvals : Live(a) /\ primary[a] \in job[r].scope}
    <2>1. /\ job'[r] = [job[r] EXCEPT !.claims = found]
          /\ pc'[r] = "cut" /\ pc[r] = "scan" /\ UNCHANGED <<db, locks>>
          /\ \A q \in Requests \ {r} : pc'[q] = pc[q] /\ job'[q] = job[q]
      BY <1>0, <1>1 DEF ReadPrimaries, TypeOK
    <2>2. \A a \in found : status[a] # "unused"
      BY DEF Live, Decisions
    <2> HIDE DEF found
    <2>3. /\ job'[r].scope = job[r].scope /\ job'[r].claims = found
          /\ job'[r].subject = job[r].subject /\ job'[r].left = job[r].left
          /\ job'[r].home = job[r].home
      <3>1. job[r] \in Job
        BY <1>0 DEF TypeOK
      <3> QED BY <2>1, <3>1 DEF Job
    <2>4. RequestInv(r)'
      BY <1>0, <2>1, <2>2, <2>3
      DEF RequestInv, JobShape, LocksHeld, NoOtherPending, SubjectInScope, LeftIsLinked,
          HomeIsHeld, Checked, Live, db, locks
    <2> QED BY <1>0, <2>1, <2>4, QuietStep DEF locks
  <1>2. CASE CutLinks(r)
    <2> DEFINE linked == {a \in Approvals : job[r].scope \cap links[a] # {}}
               rest == [a \in Approvals |-> IF a \in job[r].claims
                                            THEN links[a] \ job[r].scope ELSE {}]
    <2>1. /\ job'[r] = [job[r] EXCEPT !.cut = linked, !.left = rest]
          /\ pc'[r] = "claim" /\ pc[r] = "cut" /\ UNCHANGED <<db, locks>>
          /\ \A q \in Requests \ {r} : pc'[q] = pc[q] /\ job'[q] = job[q]
      BY <1>0, <1>2 DEF CutLinks, TypeOK
    <2>2. \A a \in Approvals : /\ rest[a] \subseteq links[a] \ job[r].scope
                               /\ rest[a] # {} => a \in job[r].claims
      OBVIOUS
    <2> HIDE DEF linked, rest
    <2>3. /\ job'[r].scope = job[r].scope /\ job'[r].claims = job[r].claims
          /\ job'[r].subject = job[r].subject /\ job'[r].left = rest
          /\ job'[r].home = job[r].home
      <3>1. job[r] \in Job
        BY <1>0 DEF TypeOK
      <3> QED BY <2>1, <3>1 DEF Job
    <2>4. RequestInv(r)'
      BY <1>0, <2>1, <2>2, <2>3
      DEF RequestInv, JobShape, LocksHeld, NoOtherPending, SubjectInScope, LeftIsLinked,
          HomeIsHeld, Checked, Live, db, locks
    <2> QED BY <1>0, <2>1, <2>4, QuietStep DEF locks
  <1> QED BY <1>1, <1>2

\* The writes of a task deletion to approvals: each is held until the COMMIT.
LEMMA ClaimStep ==
  ASSUME IInv, NEW r \in Requests, NEW a \in Approvals,
         ClaimOrphan(r, a) \/ \E t \in Tasks : ClaimMoved(r, a, t)
  PROVE  IInv'
  <1>0. TypeOK' /\ TypeOK /\ RequestInv(r) /\ job[r] \in Job
    BY TypeStep DEF IInv, Proceed, TypeOK
  <1>1. /\ rowOwner[a] = NoRequest /\ rowOwner' = [rowOwner EXCEPT ![a] = r]
        /\ pc[r] = "claim" /\ UNCHANGED <<db, owner, pc>>
        /\ \A q \in Requests \ {r} : job'[q] = job[q]
        /\ \A q \in Requests, t \in Tasks : q \in sharers[t] => q \in sharers'[t]
    <2>1. job \in [Requests -> Job] /\ sharers \in [Tasks -> SUBSET Requests]
      BY <1>0 DEF TypeOK
    <2>2. CASE ClaimOrphan(r, a)
      BY <2>1, <2>2 DEF ClaimOrphan
    <2>3. ASSUME NEW t \in Tasks, ClaimMoved(r, a, t)
          PROVE  <1>1!:
      <3> DEFINE next == [job[r] EXCEPT !.claims = job[r].claims \ {a},
                                        !.home = [job[r].home EXCEPT ![a] = t]]
      <3>1. /\ rowOwner[a] = NoRequest /\ rowOwner' = [rowOwner EXCEPT ![a] = r]
            /\ pc[r] = "claim" /\ UNCHANGED <<db, owner, pc>>
            /\ job' = [job EXCEPT ![r] = next]
            /\ sharers' = [sharers EXCEPT ![t] = sharers[t] \cup {r}]
        BY <2>3 DEF ClaimMoved
      <3> HIDE DEF next
      <3> QED BY <2>1, <3>1
    <2> QED BY <2>2, <2>3
  <1>2. /\ \A q \in Requests, b \in Approvals : rowOwner[b] = q => rowOwner'[b] = q
        /\ rowOwner'[a] = r
    <2>1. rowOwner \in [Approvals -> Requests \cup {NoRequest}]
      BY <1>0 DEF TypeOK
    <2>2. rowOwner'[a] = r /\ \A b \in Approvals \ {a} : rowOwner'[b] = rowOwner[b]
      BY <1>1, <2>1
    <2> QED BY <1>1, <2>2, NoRequestAssumption
  <1>3. /\ job'[r].scope = job[r].scope /\ job'[r].claims = job[r].claims \ {a}
        /\ job'[r].subject = job[r].subject /\ job'[r].left = job[r].left
        /\ \A b \in Approvals \ {a} : job'[r].home[b] = job[r].home[b]
        /\ job'[r].home[a] # NoTask =>
             \/ job'[r].home[a] = job[r].home[a]
             \/ /\ job'[r].home[a] \in job[r].left[a] \cap tasks /\ Live(a)
                /\ r \in sharers'[job'[r].home[a]]
    <2>1. CASE ClaimOrphan(r, a)
      <3>1. job'[r] = [job[r] EXCEPT !.claims = job[r].claims \ {a}]
        BY <1>0, <2>1 DEF ClaimOrphan, TypeOK
      <3> QED BY <1>0, <3>1 DEF Job
    <2>2. ASSUME NEW t \in Tasks, ClaimMoved(r, a, t)
          PROVE  <1>3!:
      <3> DEFINE moved == [job[r].home EXCEPT ![a] = t]
      <3>1. /\ job'[r] = [job[r] EXCEPT !.claims = job[r].claims \ {a}, !.home = moved]
            /\ t \in job[r].left[a] /\ t \in tasks /\ Live(a) /\ r \in sharers'[t]
        <4>1. job' = [job EXCEPT ![r] = [job[r] EXCEPT !.claims = job[r].claims \ {a},
                                                     !.home = moved]]
          BY <2>2 DEF ClaimMoved
        <4>2. job \in [Requests -> Job] /\ sharers \in [Tasks -> SUBSET Requests]
          BY <1>0 DEF TypeOK
        <4> HIDE DEF moved
        <4>3. job'[r] = [job[r] EXCEPT !.claims = job[r].claims \ {a}, !.home = moved]
          BY <4>1, <4>2
        <4>4. t \in job[r].left[a] /\ t \in tasks /\ Live(a) /\ r \in sharers'[t]
          BY <2>2, <4>2 DEF ClaimMoved
        <4> QED BY <4>3, <4>4
      <3>2. moved[a] = t /\ \A b \in Approvals \ {a} : moved[b] = job[r].home[b]
        BY <1>0 DEF Job
      <3> HIDE DEF moved
      <3>3. /\ job'[r].scope = job[r].scope /\ job'[r].claims = job[r].claims \ {a}
            /\ job'[r].subject = job[r].subject /\ job'[r].left = job[r].left
            /\ job'[r].home = moved
        BY <1>0, <3>1 DEF Job
      <3> QED BY <3>1, <3>2, <3>3
    <2> QED BY <2>1, <2>2
  <1>4. JobShape(r)' /\ LocksHeld(r)' /\ NoOtherPending(r)'
    BY <1>1 DEF JobShape, LocksHeld, NoOtherPending, Checked
  <1>5. SubjectInScope(r)' /\ LeftIsLinked(r)'
    BY <1>0, <1>1, <1>3 DEF RequestInv, SubjectInScope, LeftIsLinked, Checked, Live, db
  <1>6. HomeIsHeld(r)'
    <2> SUFFICES ASSUME NEW b \in Approvals, job'[r].home[b] # NoTask
                 PROVE  /\ rowOwner'[b] = r /\ Live(b)'
                        /\ job'[r].home[b] \in tasks' /\ r \in sharers'[job'[r].home[b]]
                        /\ job'[r].home[b] \in links'[b] /\ job'[r].home[b] \notin job'[r].scope
      BY DEF HomeIsHeld
    <2>1. CASE job'[r].home[b] = job[r].home[b]
      <3>1. /\ rowOwner[b] = r /\ Live(b)
            /\ job[r].home[b] \in tasks /\ r \in sharers[job[r].home[b]]
            /\ job[r].home[b] \in links[b] /\ job[r].home[b] \notin job[r].scope
        BY <1>0, <2>1 DEF RequestInv, HomeIsHeld
      <3>2. job[r].home[b] \in Tasks
        BY <1>0, <3>1 DEF TypeOK
      <3> QED BY <1>1, <1>2, <1>3, <2>1, <3>1, <3>2 DEF db, Live
    <2>2. CASE job'[r].home[b] # job[r].home[b]
      BY <1>0, <1>1, <1>2, <1>3, <2>2 DEF RequestInv, LeftIsLinked, db, Live
    <2> QED BY <2>1, <2>2
  <1>7. RequestInv(r)'
    BY <1>4, <1>5, <1>6 DEF RequestInv
  <1> QED BY <1>0, <1>1, <1>2, <1>7, QuietStep

-----------------------------------------------------------------------------
(***************************************************************************)
(* The steps that commit.                                                  *)
(***************************************************************************)
\* The end of a transaction takes no lock away from another one.
LEMMA FinishKeepsOthers ==
  ASSUME TypeOK, NEW r \in Requests, NEW q \in Requests, q # r, Finish(r)
  PROVE  /\ pc'[q] = pc[q] /\ job'[q] = job[q]
         /\ \A t \in Tasks : owner[t] = q => owner'[t] = q
         /\ \A t \in Tasks : q \in sharers[t] => q \in sharers'[t]
         /\ \A a \in Approvals : rowOwner[a] = q => rowOwner'[a] = q
  BY DEF TypeOK, Finish

\* Two requests that both passed the conflict check share no task.
LEMMA CheckedScopesAreDisjoint ==
  ASSUME NEW r \in Requests, NEW q \in Requests, q # r,
         RequestInv(r), RequestInv(q), Checked(r), Checked(q),
         NEW t \in tasks, t \in job[r].scope, t \in job[q].scope
  PROVE  FALSE
  BY DEF RequestInv, LocksHeld

\* A committed creation keeps one pending approval per task: the tasks were locked
\* and checked, and no other checked request covers them.
LEMMA CommitCreateStep ==
  ASSUME IInv, NEW r \in Requests, NEW a \in Approvals, CommitCreate(r, a)
  PROVE  IInv'
  <1>0. /\ TypeOK' /\ TypeOK /\ RequestInv(r) /\ RequestInv(r)' /\ job[r] \in Job
        /\ PrimaryIsLinked /\ DeadIsUnfiled /\ OnePendingPerTask
    BY TypeStep, EndedRequest DEF IInv, Proceed, TypeOK, CommitCreate
  <1>1. /\ pc[r] = "share" /\ job[r].todo = {} /\ status[a] = "unused" /\ tasks' = tasks
        /\ status'[a] = job[r].target /\ primary'[a] = job[r].primary /\ links'[a] = job[r].scope
        /\ \A b \in Approvals \ {a} :
             status'[b] = status[b] /\ primary'[b] = primary[b] /\ links'[b] = links[b]
        /\ Finish(r)
    BY <1>0 DEF CommitCreate, TypeOK
  <1>2. \A b \in Approvals \ {a} : (Live(b)' <=> Live(b)) /\ Covers(b)' = Covers(b)
    BY <1>1 DEF Live, Covers
  <1>3. /\ job[r].scope \subseteq tasks /\ job[r].subject = NoApproval
        /\ \/ job[r].scope = {} /\ job[r].primary = NoTask
           \/ job[r].primary \in job[r].scope
    BY <1>0, <1>1 DEF RequestInv, LocksHeld, JobShape
  <1>4. Covers(a)' = job[r].scope /\ Live(a)'
    BY <1>0, <1>1, <1>3, JobFields DEF Covers, Live
  <1>5. PrimaryIsLinked' /\ DeadIsUnfiled'
    BY <1>0, <1>1, <1>2, <1>3, <1>4 DEF PrimaryIsLinked, DeadIsUnfiled
  <1>6. \A b \in Approvals \ {a}, t \in tasks : b \in OpenOn(t)' => b \in OpenOn(t)
    BY <1>1, <1>2 DEF OpenOn
  <1>7. \A t \in tasks : a \in OpenOn(t)' =>
          Checked(r) /\ t \in job[r].scope /\ OpenOn(t) = {}
    <2> SUFFICES ASSUME NEW t \in tasks, a \in OpenOn(t)'
                 PROVE  Checked(r) /\ t \in job[r].scope /\ OpenOn(t) = {}
      OBVIOUS
    <2>1. Checked(r) /\ t \in job[r].scope
      BY <1>1, <1>4 DEF OpenOn, Checked
    <2>2. NoApproval \notin OpenOn(t)
      BY NoApprovalAssumption DEF OpenOn
    <2> QED BY <1>0, <1>3, <2>1, <2>2 DEF RequestInv, NoOtherPending
  <1>8. OnePendingPerTask'
    <2> SUFFICES ASSUME NEW t \in tasks, NEW b \in OpenOn(t)', NEW c \in OpenOn(t)'
                 PROVE  b = c
      BY <1>1 DEF OnePendingPerTask
    <2>1. b \in Approvals /\ c \in Approvals
      BY DEF OpenOn
    <2> QED BY <1>0, <1>6, <1>7, <2>1 DEF OnePendingPerTask
  <1>9. ASSUME NEW q \in Requests, q # r PROVE RequestInv(q)'
    <2>1. RequestInv(q)
      BY DEF IInv
    <2>2. ASSUME Checked(q), NEW t \in job[q].scope, t \in tasks
          PROVE  OpenOn(t)' \subseteq {job[q].subject}
      <3>1. OpenOn(t) \subseteq {job[q].subject}
        BY <2>1, <2>2 DEF RequestInv, NoOtherPending
      <3>2. a \notin OpenOn(t)'
        BY <1>0, <1>7, <1>9, <2>1, <2>2, CheckedScopesAreDisjoint
      <3>3. OpenOn(t)' \subseteq Approvals
        BY DEF OpenOn
      <3> QED BY <1>6, <2>2, <3>1, <3>2, <3>3
    <2>3. \A b \in Approvals : status[b] # "unused" =>
            /\ status'[b] # "unused"
            /\ Live(b)' => Live(b)
            /\ Covers(b)' \subseteq Covers(b)
            /\ \A t \in links[b] : t \in tasks' => t \in links'[b]
      BY <1>1, <1>2
    <2>4. \A b \in Approvals : Live(b) => Live(b)'
      BY <1>2, <1>4
    <2>5. Respects(q)
      BY <1>0, <1>1, <1>9, <2>2, <2>3, <2>4, FinishKeepsOthers DEF Respects
    <2> QED BY <1>0, <2>1, <2>5, OtherRequest
  <1> QED BY <1>0, <1>5, <1>8, <1>9 DEF IInv

\* A committed decision or reopening keeps the invariant.
LEMMA CommitUpdateStep ==
  ASSUME IInv, NEW r \in Requests, CommitUpdate(r)
  PROVE  IInv'
  <1> DEFINE a == job[r].subject
  <1>0. /\ TypeOK' /\ TypeOK /\ RequestInv(r) /\ RequestInv(r)' /\ job[r] \in Job
        /\ PrimaryIsLinked /\ DeadIsUnfiled /\ OnePendingPerTask
    BY TypeStep, EndedRequest DEF IInv, Proceed, TypeOK, CommitUpdate
  <1>1. CASE UNCHANGED db
    <2>1. Rollback(r)
      BY <1>1 DEF CommitUpdate, Rollback
    <2> QED BY <2>1, RollbackStep
  <1>2. CASE ~ UNCHANGED db
    <2>1. /\ pc[r] = "write" /\ job[r].target # job[r].prior /\ Finish(r)
          /\ UNCHANGED <<tasks, primary, links>> /\ a \in Approvals
          /\ \A b \in Approvals \ {a} : status'[b] = status[b]
          /\ Live(a) /\ status'[a] = job[r].target
      <3>1. a \in Approvals
        BY <1>0 DEF RequestInv, JobShape, CommitUpdate
      <3> QED BY <1>0, <1>2, <3>1 DEF CommitUpdate, TypeOK, db
    <2>2. \A b \in Approvals : (Live(b)' <=> Live(b)) /\ Covers(b)' = Covers(b)
      BY <1>0, <2>1, JobFields DEF Live, Covers
    <2>3. PrimaryIsLinked' /\ DeadIsUnfiled'
      BY <1>0, <2>1, <2>2 DEF PrimaryIsLinked, DeadIsUnfiled
    <2>4. \A b \in Approvals \ {a}, t \in tasks : b \in OpenOn(t)' => b \in OpenOn(t)
      BY <2>1, <2>2 DEF OpenOn
    <2>5. \A t \in tasks : a \in OpenOn(t)' =>
            Checked(r) /\ t \in job[r].scope /\ OpenOn(t) \subseteq {a}
      <3> SUFFICES ASSUME NEW t \in tasks, a \in OpenOn(t)'
                   PROVE  Checked(r) /\ t \in job[r].scope /\ OpenOn(t) \subseteq {a}
        OBVIOUS
      <3>1. Checked(r) /\ t \in Covers(a)
        BY <2>1, <2>2 DEF OpenOn, Checked
      <3>2. t \in job[r].scope
        BY <1>0, <2>1, <3>1 DEF RequestInv, SubjectInScope
      <3> QED BY <1>0, <3>1, <3>2 DEF RequestInv, NoOtherPending
    <2>6. OnePendingPerTask'
      <3> SUFFICES ASSUME NEW t \in tasks, NEW b \in OpenOn(t)', NEW c \in OpenOn(t)'
                   PROVE  b = c
        BY <2>1 DEF OnePendingPerTask
      <3>1. b \in Approvals /\ c \in Approvals
        BY DEF OpenOn
      <3> QED BY <1>0, <2>4, <2>5, <3>1 DEF OnePendingPerTask
    <2>7. ASSUME NEW q \in Requests, q # r PROVE RequestInv(q)'
      <3>1. RequestInv(q)
        BY DEF IInv
      <3>2. ASSUME Checked(q), NEW t \in job[q].scope, t \in tasks
            PROVE  OpenOn(t)' \subseteq {job[q].subject}
        <4>1. OpenOn(t) \subseteq {job[q].subject}
          BY <3>1, <3>2 DEF RequestInv, NoOtherPending
        <4>2. a \notin OpenOn(t)'
          BY <1>0, <2>5, <2>7, <3>1, <3>2, CheckedScopesAreDisjoint
        <4>3. OpenOn(t)' \subseteq Approvals
          BY DEF OpenOn
        <4> QED BY <2>4, <3>2, <4>1, <4>2, <4>3
      <3>3. \A b \in Approvals : status[b] # "unused" =>
              /\ status'[b] # "unused"
              /\ Live(b)' => Live(b)
              /\ Covers(b)' \subseteq Covers(b)
              /\ \A t \in links[b] : t \in tasks' => t \in links'[b]
        <4>1. job[r].target # "unused"
          BY <1>0, JobFields DEF Decisions
        <4> QED BY <2>1, <2>2, <4>1
      <3>4. tasks' = tasks /\ \A b \in Approvals : Live(b) => Live(b)'
        BY <2>1, <2>2
      <3>5. Respects(q)
        BY <1>0, <2>1, <2>7, <3>2, <3>3, <3>4, FinishKeepsOthers DEF Respects
      <3> QED BY <1>0, <3>1, <3>5, OtherRequest
    <2> QED BY <1>0, <2>3, <2>6, <2>7 DEF IInv
  <1> QED BY <1>1, <1>2

\* What a committed task deletion does to the approvals: links to the task go, and
\* an approval is filed elsewhere only if it keeps a link.
LEMMA RemovedTask ==
  ASSUME IInv, NEW r \in Requests, NEW t \in Tasks, RemoveTask(r, t), ~ StillReferenced(r, t)
  PROVE  /\ t \in job[r].scope /\ owner[t] = NoRequest /\ sharers[t] \subseteq {r}
         /\ tasks' = tasks \ {t} /\ Finish(r)
         /\ \A a \in Approvals :
              /\ status'[a] = IF Orphaned(r, a) THEN "deleted" ELSE status[a]
              /\ primary'[a] = Refiled(r, a)
              /\ primary'[a] # t /\ links'[a] = links[a] \ {t}
              /\ \/ primary'[a] = NoTask /\ (Live(a) => status'[a] = "deleted" \/ primary[a] = NoTask)
                 \/ primary'[a] = primary[a] /\ status'[a] = status[a]
                 \/ primary'[a] \in links'[a] /\ Live(a) /\ status'[a] = status[a]
  <1>1. /\ t \in job[r].scope /\ owner[t] = NoRequest /\ sharers[t] \subseteq {r}
        /\ tasks' = tasks \ {t} /\ Finish(r)
        /\ \A a \in Approvals :
             /\ status'[a] = IF Orphaned(r, a) THEN "deleted" ELSE status[a]
             /\ primary'[a] = Refiled(r, a)
             /\ links'[a] = IF a \in job[r].cut THEN links[a] \ {t} ELSE links[a]
    BY DEF RemoveTask
  <1>2. \A a \in Approvals : primary'[a] # t /\ links'[a] = links[a] \ {t}
    BY <1>1 DEF StillReferenced
  <1>3. ASSUME NEW a \in Approvals
        PROVE  \/ primary'[a] = NoTask /\ (Live(a) => status'[a] = "deleted" \/ primary[a] = NoTask)
               \/ primary'[a] = primary[a] /\ status'[a] = status[a]
               \/ primary'[a] \in links'[a] /\ Live(a) /\ status'[a] = status[a]
    <2>1. CASE rowOwner[a] # r
      BY <1>1, <2>1 DEF Refiled, Orphaned
    <2>2. CASE rowOwner[a] = r /\ job[r].home[a] = NoTask
      BY <1>1, <2>2 DEF Refiled, Orphaned
    <2>3. CASE rowOwner[a] = r /\ job[r].home[a] # NoTask
      <3>1. job[r].home[a] \in links[a] /\ Live(a) /\ job[r].home[a] \notin job[r].scope
        BY <2>3 DEF IInv, RequestInv, HomeIsHeld
      <3> QED BY <1>1, <1>2, <2>3, <3>1 DEF Refiled, Orphaned
    <2> QED BY <2>1, <2>2, <2>3
  <1> QED BY <1>1, <1>2, <1>3

\* A committed task deletion leaves no approval filed under the task, and orphans
\* none that another request relies on.
LEMMA RemoveTaskStep ==
  ASSUME IInv, NEW r \in Requests, NEW t \in Tasks, RemoveTask(r, t)
  PROVE  IInv'
  <1>0. /\ TypeOK' /\ TypeOK /\ RequestInv(r) /\ RequestInv(r)' /\ job[r] \in Job
        /\ PrimaryIsLinked /\ DeadIsUnfiled /\ OnePendingPerTask
    BY TypeStep, EndedRequest DEF IInv, Proceed, TypeOK, RemoveTask
  <1>1. CASE StillReferenced(r, t)
    <2>1. Rollback(r)
      BY <1>1 DEF RemoveTask, Rollback
    <2> QED BY <2>1, RollbackStep
  <1>2. CASE ~ StillReferenced(r, t)
    <2>1. /\ t \in job[r].scope /\ owner[t] = NoRequest /\ sharers[t] \subseteq {r}
          /\ tasks' = tasks \ {t} /\ Finish(r)
          /\ \A a \in Approvals :
               /\ status'[a] = IF Orphaned(r, a) THEN "deleted" ELSE status[a]
               /\ primary'[a] = Refiled(r, a)
      BY <1>2, RemovedTask
    <2>2. \A a \in Approvals : primary'[a] # t /\ links'[a] = links[a] \ {t}
      BY <1>2, RemovedTask
    <2>3. \A a \in Approvals :
            \/ primary'[a] = NoTask /\ (Live(a) => status'[a] = "deleted" \/ primary[a] = NoTask)
            \/ primary'[a] = primary[a] /\ status'[a] = status[a]
            \/ primary'[a] \in links'[a] /\ Live(a) /\ status'[a] = status[a]
      BY <1>2, RemovedTask
    <2>4. \A a \in Approvals : Live(a)' => Live(a)
      BY <2>1 DEF Live, Decisions
    <2>5. DeadIsUnfiled'
      <3> SUFFICES ASSUME NEW a \in Approvals, ~ Live(a)' PROVE primary'[a] = NoTask
        BY DEF DeadIsUnfiled
      <3> QED BY <1>0, <2>1, <2>3 DEF DeadIsUnfiled, Live, Refiled, Orphaned
    <2>6. PrimaryIsLinked'
      <3> SUFFICES ASSUME NEW a \in Approvals, Live(a)'
                   PROVE  Covers(a)' \subseteq tasks' /\ (links'[a] # {} => primary'[a] \in links'[a])
        BY DEF PrimaryIsLinked
      <3>1. Live(a) /\ Covers(a) \subseteq tasks /\ (links[a] # {} => primary[a] \in links[a])
        BY <1>0, <2>4 DEF PrimaryIsLinked
      <3>2. status'[a] # "deleted"
        BY DEF Live, Decisions
      <3>3. links'[a] # {} => primary'[a] \in links'[a]
        BY <1>0, <2>2, <2>3, <3>1, <3>2, TasksAssumption DEF TypeOK
      <3>4. Covers(a)' \subseteq tasks'
        <4>1. CASE links'[a] # {}
          BY <2>1, <2>2, <3>1, <4>1 DEF Covers
        <4>2. CASE links'[a] = {}
          BY <2>1, <2>2, <2>3, <3>1, <3>2, <4>2 DEF Covers
        <4> QED BY <4>1, <4>2
      <3> QED BY <3>3, <3>4
    <2>7. \A a \in Approvals : Covers(a)' \subseteq Covers(a)
      <3> SUFFICES ASSUME NEW a \in Approvals PROVE Covers(a)' \subseteq Covers(a)
        OBVIOUS
      <3>1. CASE links'[a] # {}
        BY <2>2, <3>1 DEF Covers
      <3>2. CASE links'[a] = {} /\ links[a] = {}
        BY <2>2, <2>3, <3>2 DEF Covers
      <3>3. CASE links'[a] = {} /\ links[a] # {}
        <4>1. primary'[a] = NoTask \/ (primary'[a] = primary[a] /\ primary[a] \notin links[a])
          BY <2>2, <2>3, <3>3
        <4>2. ~ Live(a) => primary[a] = NoTask
          BY <1>0 DEF DeadIsUnfiled
        <4>3. Live(a) => primary[a] \in links[a]
          BY <1>0, <3>3 DEF PrimaryIsLinked
        <4> QED BY <3>3, <4>1, <4>2, <4>3 DEF Covers
      <3> QED BY <3>1, <3>2, <3>3
    <2>8. \A u \in tasks' : OpenOn(u)' \subseteq OpenOn(u)
      BY <2>1, <2>7 DEF OpenOn
    <2>9. OnePendingPerTask'
      BY <1>0, <2>1, <2>8 DEF OnePendingPerTask
    <2>10. ASSUME NEW q \in Requests, q # r PROVE RequestInv(q)'
      <3>1. RequestInv(q)
        BY DEF IInv
      <3>2. Checked(q) => \A u \in job[q].scope : u \in tasks' => OpenOn(u)' \subseteq {job[q].subject}
        BY <2>1, <2>8, <3>1 DEF RequestInv, NoOtherPending
      <3>3. \A a \in Approvals : status[a] # "unused" =>
              /\ status'[a] # "unused"
              /\ Live(a)' => Live(a)
              /\ Covers(a)' \subseteq Covers(a)
              /\ \A u \in links[a] : u \in tasks' => u \in links'[a]
        BY <2>1, <2>2, <2>4, <2>7
      <3>4. \A u \in Tasks : q \in sharers[u] => (u \in tasks => u \in tasks')
        BY <2>1, <2>10
      <3>5. \A a \in Approvals : rowOwner[a] = q => (Live(a) => Live(a)')
        BY <2>1, <2>10 DEF Orphaned, Live
      <3>6. Respects(q)
        BY <1>0, <2>1, <2>10, <3>2, <3>3, <3>4, <3>5, FinishKeepsOthers DEF Respects
      <3> QED BY <1>0, <3>1, <3>6, OtherRequest
    <2> QED BY <1>0, <2>5, <2>6, <2>9, <2>10 DEF IInv
  <1> QED BY <1>1, <1>2

\* The invariant is inductive.
LEMMA NextIInv == IInv /\ [Next]_vars => IInv'
  <1> SUFFICES ASSUME IInv, [Next]_vars PROVE IInv'
    OBVIOUS
  <1>1. ASSUME NEW r \in Requests, Begin(r) PROVE IInv'
    BY <1>1, BeginStep
  <1>2. ASSUME NEW r \in Requests, Proceed(r) PROVE IInv'
    <2>1. ASSUME CreateFails(r) \/ DeadlockAbort(r)
                 \/ \E a \in Approvals, t \in Tasks : ClaimFails(r, a, t)
          PROVE  IInv'
      BY <2>1, RollbackStep DEF CreateFails, DeadlockAbort, ClaimFails
    <2> QED
      BY <1>2, <2>1, LockStep, CheckStep, ShareStep, CommitCreateStep, CommitUpdateStep,
         DeletionReadsStep, ClaimStep, RemoveTaskStep
      DEF Proceed
  <1>3. CASE UNCHANGED vars
    <2>1. UNCHANGED <<db, locks, pc, job>>
      BY <1>3 DEF vars
    <2> QED
      BY <2>1
      DEF IInv, TypeOK, PrimaryIsLinked, DeadIsUnfiled, OnePendingPerTask, RequestInv, JobShape,
          LocksHeld, NoOtherPending, SubjectInScope, LeftIsLinked, HomeIsHeld, Checked, OpenOn,
          Covers, Live, db, locks
  <1> QED BY <1>1, <1>2, <1>3 DEF Next

-----------------------------------------------------------------------------
\* The inductive invariant holds in every reachable state.
THEOREM Invariance == Spec => []IInv
  BY InitIInv, NextIInv, PTL DEF Spec

\* Whatever requests interleave, the tables and the requests keep their types.
THEOREM TypeCorrect == Spec => []TypeOK
  <1>1. IInv => TypeOK
    BY DEF IInv
  <1> QED BY <1>1, Invariance, PTL

\* "Each task can have only one pending approval" (approvals.py:159), for any
\* number of tasks, approvals and concurrent requests.
THEOREM OnePending == Spec => []OnePendingPerTask
  <1>1. IInv => OnePendingPerTask
    BY DEF IInv
  <1> QED BY <1>1, Invariance, PTL

\* The task an approval shows is one it is linked to, and it exists.
THEOREM PrimaryLinked == Spec => []PrimaryIsLinked
  <1>1. IInv => PrimaryIsLinked
    BY DEF IInv
  <1> QED BY <1>1, Invariance, PTL

-----------------------------------------------------------------------------
(***************************************************************************)
(* Lock order.  A request that is taking the locks of the conflict check   *)
(* owns only rows below those it has still to lock.  Only requests under   *)
(* way own rows, and they are finitely many.                               *)
(***************************************************************************)
Underway == {r \in Requests : pc[r] # "idle"}

OwnsLower(r) ==
  \A t \in Tasks : owner[t] = r =>
    pc[r] # "idle" /\ (pc[r] = "lock" => \A u \in Unlocked(r) : t < u)

OrderInv == IsFiniteSet(Underway) /\ \A r \in Requests : OwnsLower(r)

\* A step of one request leaves the lock order of another alone: a deletion only
\* takes rows away from those it has still to lock.
LEMMA OtherOwnsLower ==
  ASSUME TypeOK, NEW q \in Requests, OwnsLower(q),
         pc'[q] = pc[q], job'[q] = job[q], tasks' \subseteq tasks,
         \A t \in Tasks : owner'[t] = q => owner[t] = q
  PROVE  OwnsLower(q)'
  BY DEF OwnsLower, Unlocked

\* COMMIT and ROLLBACK leave the request without a row.
LEMMA FinishOwnsNothing ==
  ASSUME TypeOK, NEW r \in Requests, Finish(r)
  PROVE  OwnsLower(r)'
  <1>1. \A t \in Tasks : owner'[t] # r
    BY NoRequestAssumption DEF Finish
  <1> QED BY <1>1 DEF OwnsLower

\* The next row of the lock query is above every row the request owns and below
\* the rest of the query.
LEMMA LockOwnsLower ==
  ASSUME TypeOK, NEW r \in Requests, OwnsLower(r), NEW t \in Tasks, LockTask(r, t)
  PROVE  OwnsLower(r)'
  <1>1. /\ job'[r].todo = job[r].todo \ {t} /\ pc'[r] = "lock" /\ pc[r] = "lock"
        /\ tasks' = tasks /\ owner' = [owner EXCEPT ![t] = r]
    <2>1. job[r] \in Job
      BY DEF TypeOK
    <2> QED BY <2>1 DEF LockTask, TypeOK, db, Job
  <1>2. Unlocked(r)' = Unlocked(r) \ {t}
    BY <1>1 DEF Unlocked
  <1>3. t \in Unlocked(r) /\ \A u \in Unlocked(r) : t <= u
    BY DEF LockTask, NextInOrder
  <1>4. Unlocked(r) \subseteq Nat /\ t \in Nat
    BY TasksAssumption DEF Unlocked, TypeOK
  <1>5. \A u \in Unlocked(r) \ {t} : t < u
    BY <1>3, <1>4
  <1>6. ASSUME NEW s \in Tasks, owner'[s] = r, NEW u \in Unlocked(r) \ {t}
        PROVE  s < u
    <2>1. CASE s = t
      BY <1>5, <2>1
    <2>2. CASE s # t
      BY <1>1, <1>6, <2>2 DEF OwnsLower, TypeOK
    <2> QED BY <2>1, <2>2
  <1> QED BY <1>1, <1>2, <1>6 DEF OwnsLower

\* Every statement keeps the lock order of every request.
LEMMA OrderStep ==
  ASSUME TypeOK, NEW r \in Requests, OwnsLower(r), Begin(r) \/ Proceed(r)
  PROVE  /\ OwnsLower(r)'
         /\ tasks' \subseteq tasks
         /\ \A q \in Requests \ {r} : pc'[q] = pc[q] /\ job'[q] = job[q]
         /\ \A q \in Requests \ {r}, t \in Tasks : owner'[t] = q => owner[t] = q
  <1> DEFINE Quiet == /\ tasks' \subseteq tasks
                      /\ \A q \in Requests \ {r} : pc'[q] = pc[q] /\ job'[q] = job[q]
                      /\ \A q \in Requests \ {r}, t \in Tasks : owner'[t] = q => owner[t] = q
  <1>1. ASSUME Finish(r), tasks' \subseteq tasks
        PROVE  OwnsLower(r)' /\ Quiet
    <2>1. Quiet
      BY <1>1, NoRequestAssumption DEF Finish, TypeOK
    <2> QED BY <1>1, <2>1, FinishOwnsNothing
  <1>2. CASE Begin(r)
    <2>1. /\ pc[r] = "idle" /\ UNCHANGED <<db, locks>>
          /\ \A q \in Requests \ {r} : pc'[q] = pc[q] /\ job'[q] = job[q]
      BY <1>2 DEF Begin, BeginCreate, BeginUpdate, BeginDelete, TypeOK
    <2>2. \A t \in Tasks : owner'[t] # r
      BY <2>1 DEF OwnsLower, locks
    <2> QED BY <2>1, <2>2 DEF OwnsLower, db, locks
  <1>3. ASSUME NEW t \in Tasks, LockTask(r, t)
        PROVE  OwnsLower(r)' /\ Quiet
    <2>1. Quiet
      BY <1>3 DEF LockTask, TypeOK, db
    <2> QED BY <1>3, <2>1, LockOwnsLower
  <1>4. CASE CheckConflicts(r)
    <2>1. CASE Rollback(r)
      BY <1>1, <2>1 DEF Rollback, db
    <2>2. CASE /\ pc' = [pc EXCEPT ![r] = IF job[r].subject = NoApproval THEN "share" ELSE "write"]
               /\ job' = [job EXCEPT ![r].todo = job[r].scope]
               /\ UNCHANGED <<db, locks>>
      <3>1. pc'[r] # "idle" /\ pc'[r] # "lock"
        BY <2>2 DEF TypeOK
      <3> QED BY <2>2, <3>1 DEF OwnsLower, TypeOK, db, locks
    <2> QED BY <1>4, <2>1, <2>2 DEF CheckConflicts
  <1>5. CASE \/ \E t \in Tasks : ShareTask(r, t)
             \/ ReadPrimaries(r) \/ CutLinks(r)
             \/ \E a \in Approvals : ClaimOrphan(r, a)
             \/ \E a \in Approvals, t \in Tasks : ClaimMoved(r, a, t)
    <2>1. /\ pc'[r] # "idle" /\ pc'[r] # "lock"
          /\ \A q \in Requests \ {r} : pc'[q] = pc[q] /\ job'[q] = job[q]
      BY <1>5 DEF ShareTask, ReadPrimaries, CutLinks, ClaimOrphan, ClaimMoved, TypeOK
    <2>2. owner' = owner /\ tasks' = tasks
      BY <1>5 DEF ShareTask, ReadPrimaries, CutLinks, ClaimOrphan, ClaimMoved, db, locks
    <2> QED BY <2>1, <2>2 DEF OwnsLower
  <1>6. CASE \/ CreateFails(r) \/ DeadlockAbort(r)
             \/ \E a \in Approvals, t \in Tasks : ClaimFails(r, a, t)
    BY <1>1, <1>6 DEF CreateFails, DeadlockAbort, ClaimFails, Rollback, db
  <1>7. CASE \/ \E a \in Approvals : CommitCreate(r, a)
             \/ CommitUpdate(r)
             \/ \E t \in Tasks : RemoveTask(r, t)
    BY <1>1, <1>7 DEF CommitCreate, CommitUpdate, RemoveTask, db
  <1> QED BY <1>2, <1>3, <1>4, <1>5, <1>6, <1>7 DEF Proceed

\* The lock order is kept by every step, and a step begins at most one request.
LEMMA NextOrderInv == TypeOK /\ OrderInv /\ [Next]_vars => OrderInv'
  <1> SUFFICES ASSUME TypeOK, OrderInv, [Next]_vars PROVE OrderInv'
    OBVIOUS
  <1>1. ASSUME NEW r \in Requests, Begin(r) \/ Proceed(r) PROVE OrderInv'
    <2>1. /\ OwnsLower(r)' /\ tasks' \subseteq tasks
          /\ \A q \in Requests \ {r} : pc'[q] = pc[q] /\ job'[q] = job[q]
          /\ \A q \in Requests \ {r}, t \in Tasks : owner'[t] = q => owner[t] = q
      BY <1>1, OrderStep DEF OrderInv
    <2>2. \A q \in Requests : OwnsLower(q)'
      <3> SUFFICES ASSUME NEW q \in Requests, q # r PROVE OwnsLower(q)'
        BY <2>1
      <3> QED BY <2>1, OtherOwnsLower DEF OrderInv
    <2>3. IsFiniteSet(Underway \cup {r})
      BY FS_AddElement DEF OrderInv
    <2>4. Underway' \in SUBSET (Underway \cup {r})
      BY <2>1 DEF Underway
    <2>5. IsFiniteSet(Underway')
      BY <2>3, <2>4, FS_Subset
    <2> QED BY <2>2, <2>5 DEF OrderInv
  <1>2. CASE UNCHANGED vars
    <2>1. UNCHANGED <<tasks, owner, pc, job>>
      BY <1>2 DEF vars, db, locks
    <2> QED BY <2>1 DEF OrderInv, Underway, OwnsLower, Unlocked
  <1> QED BY <1>1, <1>2 DEF Next

\* In every reachable state requests own rows below those they wait for.
THEOREM LocksAreOrdered == Spec => []OrderInv
  <1>1. Init => OrderInv
    <2> SUFFICES ASSUME Init PROVE OrderInv
      OBVIOUS
    <2>1. Underway = {} /\ \A t \in Tasks : owner[t] = NoRequest
      BY DEF Init, Underway
    <2> QED BY <2>1, FS_EmptySet, NoRequestAssumption DEF OrderInv, OwnsLower
  <1> QED BY <1>1, NextOrderInv, TypeCorrect, PTL DEF Spec

\* Finitely many ascents end: where every member of a nonempty finite set has one
\* above it, the set of members above some member would shrink for ever.
LEMMA SomeoneIsHighest ==
  ASSUME NEW S, S # {}, IsFiniteSet(S), NEW rank \in [S -> Nat]
  PROVE  \E p \in S : \A q \in S : ~ rank[p] < rank[q]
  <1> DEFINE Above(p) == {q \in S : rank[p] < rank[q]}
             T == {Above(p) : p \in S}
  <1>1. T \subseteq FiniteSubsetsOf(S) /\ T # {}
    <2>1. ASSUME NEW p \in S PROVE Above(p) \in FiniteSubsetsOf(S)
      <3>1. Above(p) \in SUBSET S
        OBVIOUS
      <3> QED BY <3>1, FS_Subset DEF FiniteSubsetsOf
    <2>2. \E p \in S : Above(p) \in T
      OBVIOUS
    <2> HIDE DEF Above
    <2> QED BY <2>1, <2>2
  <1>2. IsWellFoundedOn(StrictSubsetOrdering(S), FiniteSubsetsOf(S))
    BY FS_StrictSubsetOrderingWellFounded
  <1> HIDE DEF T
  <1>3. PICK x \in T : \A y \in T : ~ (<<y, x>> \in StrictSubsetOrdering(S))
    BY <1>1, <1>2, WFMin
  <1> USE DEF T
  <1>4. PICK p \in S : x = Above(p)
    BY DEF T
  <1>5. ASSUME NEW q \in S, rank[p] < rank[q]
        PROVE  FALSE
    <2>1. rank[p] \in Nat /\ rank[q] \in Nat /\ \A u \in S : rank[u] \in Nat
      OBVIOUS
    <2>2. Above(q) \subseteq Above(p)
      BY <1>5, <2>1
    <2>3. q \in Above(p) /\ q \notin Above(q)
      BY <1>5, <2>1
    <2>4. <<Above(q), Above(p)>> \in StrictSubsetOrdering(S)
      <3>1. Above(q) \in SUBSET S /\ Above(p) \in SUBSET S /\ Above(q) # Above(p)
        BY <2>3
      <3> HIDE DEF Above
      <3> QED BY <2>2, <3>1 DEF StrictSubsetOrdering
    <2> QED BY <1>3, <1>4, <2>4
  <1> QED BY <1>5

\* "Acquire row locks for task ids in deterministic order"
\* (approval_task_links.py): requests that only take the conflict check's locks
\* never wait for each other in a cycle, however many there are.
THEOREM ChecksDoNotDeadlock == Spec => []ChecksNeverDeadlock
  <1>1. TypeOK /\ OrderInv => ChecksNeverDeadlock
    <2> SUFFICES ASSUME TypeOK, OrderInv, NEW S \in SUBSET Requests, S # {},
                        \A p \in S : /\ pc[p] = "lock"
                                     /\ \E t \in Tasks : NextInOrder(p, t) /\ owner[t] \in S
                 PROVE  FALSE
      BY DEF ChecksNeverDeadlock
    <2> DEFINE Awaits(p, t) == NextInOrder(p, t) /\ owner[t] \in S
               rank == [p \in S |-> CHOOSE t \in Tasks : Awaits(p, t)]
    <2>1. \A p \in S : rank[p] \in Tasks /\ NextInOrder(p, rank[p]) /\ owner[rank[p]] \in S
      OBVIOUS
    <2>2. rank \in [S -> Nat]
      BY <2>1, TasksAssumption
    <2>3. IsFiniteSet(S)
      <3>1. S \in SUBSET Underway
        BY DEF Underway
      <3> QED BY <3>1, FS_Subset DEF OrderInv
    <2> HIDE DEF rank
    <2>4. PICK p \in S : \A q \in S : ~ rank[p] < rank[q]
      BY <2>2, <2>3, SomeoneIsHighest
    <2>5. PICK q \in S : owner[rank[p]] = q
      BY <2>1
    <2>6. rank[q] \in Unlocked(q)
      BY <2>1 DEF NextInOrder
    <2>7. rank[p] < rank[q]
      BY <2>1, <2>5, <2>6 DEF OrderInv, OwnsLower
    <2> QED BY <2>4, <2>7
  <1> QED BY <1>1, LocksAreOrdered, TypeCorrect, PTL

-----------------------------------------------------------------------------
(***************************************************************************)
(* What a deletion relies on.                                              *)
(***************************************************************************)
Deleting(r) == pc[r] \in {"scan", "cut", "claim"}

\* An approval that the deletion still has to write, or has decided to delete,
\* is filed under the task unless it has links.
FiledHere(r, a) ==
  /\ status[a] # "unused"
  /\ Live(a) /\ links[a] = {} => primary[a] \in job[r].scope

\* The deletion of r has found that the approval has no other task.
FoundOrphan(r, a) ==
  \/ pc[r] = "claim" /\ a \in job[r].claims /\ job[r].left[a] = {}
  \/ Orphaned(r, a)

DeletionInv(r) ==
  /\ Deleting(r) => \E t \in Tasks : job[r].scope = {t}
  /\ \A a \in Approvals :
       /\ rowOwner[a] = r => pc[r] = "claim"
       /\ a \in job[r].claims => Deleting(r)
       /\ a \in job[r].claims \/ Orphaned(r, a) => FiledHere(r, a)
       /\ FoundOrphan(r, a) => (Live(a) => links[a] \subseteq job[r].scope)

DeadIsUnlinked == \A a \in Approvals : ~ Live(a) => links[a] = {}

DInv == DeadIsUnlinked /\ \A r \in Requests : DeletionInv(r)

\* No deletion has begun.
LEMMA InitDInv == Init => DInv
  <1> SUFFICES ASSUME Init PROVE DInv
    OBVIOUS
  <1>1. ASSUME NEW r \in Requests PROVE pc[r] = "idle" /\ job[r] = NoJob
    BY <1>1 DEF Init
  <1>2. \A a \in Approvals, r \in Requests : rowOwner[a] # r
    BY NoRequestAssumption DEF Init
  <1>3. ASSUME NEW r \in Requests PROVE DeletionInv(r)
    BY <1>1, <1>2 DEF DeletionInv, Deleting, FoundOrphan, Orphaned, NoJob
  <1> QED BY <1>3 DEF Init, DInv, DeadIsUnlinked

\* What a deletion q relies on survives a step of another request: approvals lose
\* links but never all of them while they live, and keep their task_id otherwise.
DInvKept ==
  \A a \in Approvals : status[a] # "unused" =>
    /\ status'[a] # "unused"
    /\ Live(a)' => Live(a) /\ links'[a] \subseteq links[a]
    /\ Live(a)' /\ links'[a] = {} => links[a] = {} /\ primary'[a] = primary[a]

\* A step that only loses links keeps what another deletion relies on.
LEMMA OtherDeletion ==
  ASSUME NEW q \in Requests, DeletionInv(q), DInvKept,
         pc'[q] = pc[q], job'[q] = job[q],
         \A a \in Approvals : rowOwner'[a] = q => rowOwner[a] = q
  PROVE  DeletionInv(q)'
  <1>1. ASSUME NEW a \in Approvals, FoundOrphan(q, a)'
        PROVE  FoundOrphan(q, a)
    BY <1>1 DEF FoundOrphan, Orphaned
  <1>2. ASSUME NEW a \in Approvals, a \in job[q].claims \/ Orphaned(q, a)'
        PROVE  FiledHere(q, a) /\ FiledHere(q, a)'
    <2>1. FiledHere(q, a)
      BY <1>2 DEF DeletionInv, Orphaned
    <2> QED BY <2>1 DEF FiledHere, DInvKept
  <1>3. ASSUME NEW a \in Approvals, FoundOrphan(q, a)', Live(a)'
        PROVE  links'[a] \subseteq job[q].scope
    <2>1. a \in job[q].claims \/ Orphaned(q, a)'
      BY <1>3 DEF FoundOrphan
    <2>2. status[a] # "unused"
      BY <1>2, <2>1 DEF FiledHere
    <2> QED BY <1>1, <1>3, <2>2 DEF DeletionInv, DInvKept
  <1> QED BY <1>1, <1>2, <1>3 DEF DeletionInv, Deleting

\* A request that has ended is no deletion.
LEMMA EndedDeletion ==
  ASSUME TypeOK, NEW r \in Requests, Finish(r)
  PROVE  DeletionInv(r)'
  <1>1. pc'[r] = "idle" /\ job'[r] = NoJob /\ \A a \in Approvals : rowOwner'[a] # r
    BY NoRequestAssumption DEF Finish, TypeOK
  <1> QED BY <1>1 DEF DeletionInv, Deleting, FoundOrphan, Orphaned, NoJob

\* A step that leaves the tables alone.
LEMMA QuietDeletion ==
  ASSUME DInv, NEW r \in Requests, UNCHANGED db,
         \A q \in Requests \ {r} : pc'[q] = pc[q] /\ job'[q] = job[q],
         \A q \in Requests \ {r}, a \in Approvals : rowOwner'[a] = q => rowOwner[a] = q,
         DeletionInv(r)'
  PROVE  DInv'
  <1>1. DInvKept /\ DeadIsUnlinked'
    BY DEF DInvKept, DInv, DeadIsUnlinked, Live, db
  <1>2. ASSUME NEW q \in Requests, q # r PROVE DeletionInv(q)'
    BY <1>1, <1>2, OtherDeletion DEF DInv
  <1> QED BY <1>1, <1>2 DEF DInv


-----------------------------------------------------------------------------
(***************************************************************************)
(* DInv is inductive together with IInv.                                   *)
(***************************************************************************)
\* A request that arrives has claimed nothing.
LEMMA BeginDeletionStep ==
  ASSUME IInv, DInv, NEW r \in Requests, Begin(r)
  PROVE  DInv'
  <1>0. TypeOK /\ DeletionInv(r)
    BY DEF IInv, DInv
  <1>1. /\ UNCHANGED <<db, locks>> /\ pc[r] = "idle"
        /\ \A q \in Requests \ {r} : pc'[q] = pc[q] /\ job'[q] = job[q]
    BY <1>0 DEF Begin, BeginCreate, BeginUpdate, BeginDelete, TypeOK
  <1>2. /\ pc'[r] # "claim" /\ job'[r].claims = {}
        /\ Deleting(r)' => \E t \in Tasks : job'[r].scope = {t}
    <2>1. CASE \E scope \in SUBSET Tasks, first \in Tasks \cup {NoTask}, target \in Decisions :
                 BeginCreate(r, scope, first, target)
      BY <1>0, <2>1 DEF BeginCreate, TypeOK, NoJob, Deleting
    <2>2. CASE \E a \in Approvals, target \in Decisions : BeginUpdate(r, a, target)
      BY <1>0, <2>2 DEF BeginUpdate, TypeOK, NoJob, Deleting
    <2>3. CASE \E t \in Tasks : BeginDelete(r, t)
      BY <1>0, <2>3 DEF BeginDelete, TypeOK, NoJob, Deleting
    <2> QED BY <2>1, <2>2, <2>3 DEF Begin
  <1>3. \A a \in Approvals : rowOwner'[a] # r
    BY <1>0, <1>1 DEF DeletionInv, locks
  <1>4. DeletionInv(r)'
    BY <1>2, <1>3 DEF DeletionInv, FoundOrphan, Orphaned
  <1> QED BY <1>1, <1>4, QuietDeletion DEF locks

\* A rejected request only gives up its locks.
LEMMA RollbackDeletionStep ==
  ASSUME IInv, DInv, NEW r \in Requests, Rollback(r)
  PROVE  DInv'
  <1>1. TypeOK /\ Finish(r) /\ UNCHANGED db
    BY DEF IInv, Rollback
  <1>2. /\ \A q \in Requests \ {r} : pc'[q] = pc[q] /\ job'[q] = job[q]
        /\ \A q \in Requests \ {r}, a \in Approvals : rowOwner'[a] = q => rowOwner[a] = q
    BY <1>1, NoRequestAssumption DEF TypeOK, Finish
  <1> QED BY <1>1, <1>2, EndedDeletion, QuietDeletion

\* The statements of creations and updates before their COMMIT are no deletions.
LEMMA NoDeletionStep ==
  ASSUME IInv, DInv, NEW r \in Requests,
         \/ \E t \in Tasks : LockTask(r, t) \/ ShareTask(r, t)
         \/ CheckConflicts(r) /\ ~ Rollback(r)
  PROVE  DInv'
  <1>0. TypeOK /\ DeletionInv(r) /\ job[r] \in Job
    BY DEF IInv, DInv, TypeOK
  <1>1. /\ UNCHANGED <<db, rowOwner>> /\ pc[r] \in {"lock", "share"}
        /\ pc'[r] \in {"lock", "share", "write"}
        /\ \A q \in Requests \ {r} : pc'[q] = pc[q] /\ job'[q] = job[q]
        /\ \E todo \in SUBSET Tasks : job'[r] = [job[r] EXCEPT !.todo = todo]
    <2>1. ASSUME NEW t \in Tasks, LockTask(r, t) \/ ShareTask(r, t) PROVE <1>1!:
      BY <1>0, <2>1, JobFields DEF LockTask, ShareTask, TypeOK
    <2>2. CASE CheckConflicts(r) /\ ~ Rollback(r)
      BY <1>0, <2>2, JobFields DEF CheckConflicts, TypeOK, locks
    <2> QED BY <2>1, <2>2
  <1>2. job'[r].claims = job[r].claims
    BY <1>0, <1>1 DEF Job
  <1>3. DeletionInv(r)'
    BY <1>0, <1>1, <1>2 DEF DeletionInv, Deleting, FoundOrphan, Orphaned
  <1> QED BY <1>1, <1>3, QuietDeletion

\* The reads of a deletion: the approvals filed under the task, and of these the
\* tasks they still have.
LEMMA ReadsDeletionStep ==
  ASSUME IInv, DInv, NEW r \in Requests, ReadPrimaries(r) \/ CutLinks(r)
  PROVE  DInv'
  <1>0. TypeOK /\ DeletionInv(r) /\ job[r] \in Job
    BY DEF IInv, DInv, TypeOK
  <1>1. /\ UNCHANGED <<db, rowOwner>> /\ pc[r] \in {"scan", "cut"}
        /\ pc'[r] \in {"cut", "claim"}
        /\ \A q \in Requests \ {r} : pc'[q] = pc[q] /\ job'[q] = job[q]
    BY <1>0 DEF ReadPrimaries, CutLinks, TypeOK, locks
  <1>2. \A a \in Approvals : rowOwner'[a] # r
    BY <1>0, <1>1 DEF DeletionInv
  <1>3. CASE ReadPrimaries(r)
    <2> DEFINE found == {a \in Approvals : Live(a) /\ primary[a] \in job[r].scope}
    <2>1. job'[r] = [job[r] EXCEPT !.claims = found] /\ pc'[r] = "cut"
      BY <1>0, <1>3 DEF ReadPrimaries, TypeOK
    <2>2. \A a \in found : status[a] # "unused" /\ primary[a] \in job[r].scope
      BY DEF Live, Decisions
    <2> HIDE DEF found
    <2>3. job'[r].scope = job[r].scope /\ job'[r].claims = found
      BY <1>0, <2>1 DEF Job
    <2>4. DeletionInv(r)'
      BY <1>0, <1>1, <1>2, <2>1, <2>2, <2>3
      DEF DeletionInv, Deleting, FoundOrphan, Orphaned, FiledHere, db
    <2> QED BY <1>1, <2>4, QuietDeletion
  <1>4. CASE CutLinks(r)
    <2> DEFINE linked == {a \in Approvals : job[r].scope \cap links[a] # {}}
               rest == [a \in Approvals |-> IF a \in job[r].claims
                                            THEN links[a] \ job[r].scope ELSE {}]
    <2>1. job'[r] = [job[r] EXCEPT !.cut = linked, !.left = rest] /\ pc'[r] = "claim"
      BY <1>0, <1>4 DEF CutLinks, TypeOK
    <2>2. \A a \in Approvals : a \in job[r].claims /\ rest[a] = {} => links[a] \subseteq job[r].scope
      OBVIOUS
    <2> HIDE DEF linked, rest
    <2>3. /\ job'[r].scope = job[r].scope /\ job'[r].claims = job[r].claims
          /\ job'[r].left = rest
      BY <1>0, <2>1 DEF Job
    <2>4. DeletionInv(r)'
      BY <1>0, <1>1, <1>2, <2>1, <2>2, <2>3
      DEF DeletionInv, Deleting, FoundOrphan, Orphaned, FiledHere, Live, db
    <2> QED BY <1>1, <2>4, QuietDeletion
  <1> QED BY <1>3, <1>4

\* The writes of a deletion to approvals: one decided to be deleted has no other task.
LEMMA ClaimDeletionStep ==
  ASSUME IInv, DInv, NEW r \in Requests, NEW a \in Approvals,
         ClaimOrphan(r, a) \/ \E t \in Tasks : ClaimMoved(r, a, t)
  PROVE  DInv'
  <1>0. TypeOK /\ DeletionInv(r) /\ job[r] \in Job
    BY DEF IInv, DInv, TypeOK
  <1>1. \E claims \in SUBSET Approvals, home \in [Approvals -> Tasks \cup {NoTask}] :
          /\ job' = [job EXCEPT ![r] = [job[r] EXCEPT !.claims = claims, !.home = home]]
          /\ claims = job[r].claims \ {a} /\ a \in job[r].claims
          /\ \A b \in Approvals \ {a} : home[b] = job[r].home[b]
          /\ home[a] = NoTask => job[r].left[a] = {}
    <2>1. CASE ClaimOrphan(r, a)
      <3>1. job' = [job EXCEPT ![r] = [job[r] EXCEPT !.claims = job[r].claims \ {a},
                                                     !.home = job[r].home]]
        BY <1>0, <2>1 DEF ClaimOrphan, Job
      <3>2. /\ job[r].claims \ {a} \in SUBSET Approvals
            /\ job[r].home \in [Approvals -> Tasks \cup {NoTask}]
            /\ a \in job[r].claims /\ job[r].left[a] = {}
        BY <1>0, <2>1, JobFields DEF ClaimOrphan
      <3> QED BY <3>1, <3>2
    <2>2. CASE \E t \in Tasks : ClaimMoved(r, a, t)
      <3>0. PICK t \in Tasks : ClaimMoved(r, a, t)
        BY <2>2
      <3> DEFINE moved == [job[r].home EXCEPT ![a] = t]
      <3>1. /\ job' = [job EXCEPT ![r] = [job[r] EXCEPT !.claims = job[r].claims \ {a},
                                                        !.home = moved]]
            /\ a \in job[r].claims
        BY <3>0 DEF ClaimMoved
      <3>2. /\ moved \in [Approvals -> Tasks \cup {NoTask}]
            /\ moved[a] # NoTask /\ \A b \in Approvals \ {a} : moved[b] = job[r].home[b]
            /\ job[r].claims \ {a} \in SUBSET Approvals
        BY <1>0, JobFields, TasksAssumption
      <3> HIDE DEF moved
      <3> QED BY <3>1, <3>2
    <2> QED BY <2>1, <2>2
  <1>2. PICK claims \in SUBSET Approvals, home \in [Approvals -> Tasks \cup {NoTask}] :
          /\ job' = [job EXCEPT ![r] = [job[r] EXCEPT !.claims = claims, !.home = home]]
          /\ claims = job[r].claims \ {a} /\ a \in job[r].claims
          /\ \A b \in Approvals \ {a} : home[b] = job[r].home[b]
          /\ home[a] = NoTask => job[r].left[a] = {}
    BY <1>1
  <1>3. /\ job'[r].scope = job[r].scope /\ job'[r].left = job[r].left
        /\ job'[r].claims = claims /\ job'[r].home = home
        /\ \A q \in Requests \ {r} : job'[q] = job[q]
    <2>1. job'[r] = [job[r] EXCEPT !.claims = claims, !.home = home]
      BY <1>0, <1>2 DEF TypeOK
    <2> QED BY <1>0, <1>2, <2>1 DEF TypeOK, Job
  <1>4. /\ UNCHANGED <<db, pc>> /\ pc[r] = "claim"
        /\ rowOwner' = [rowOwner EXCEPT ![a] = r]
    BY DEF ClaimOrphan, ClaimMoved
  <1>5. /\ rowOwner'[a] = r /\ \A b \in Approvals \ {a} : rowOwner'[b] = rowOwner[b]
    BY <1>0, <1>4 DEF TypeOK
  <1>6. ASSUME NEW b \in Approvals PROVE FoundOrphan(r, b)' => FoundOrphan(r, b)
    BY <1>2, <1>3, <1>4, <1>5 DEF FoundOrphan, Orphaned
  <1>7. ASSUME NEW b \in Approvals, b \in job'[r].claims \/ Orphaned(r, b)'
        PROVE  b \in job[r].claims \/ Orphaned(r, b)
    BY <1>2, <1>3, <1>5, <1>7 DEF Orphaned
  <1>8. DeletionInv(r)'
    BY <1>0, <1>2, <1>3, <1>4, <1>6, <1>7 DEF DeletionInv, Deleting, FiledHere, Live, db
  <1> QED BY <1>3, <1>4, <1>5, <1>8, QuietDeletion

\* A step that commits keeps what the other deletions rely on.
LEMMA CommitDeletionStep ==
  ASSUME IInv, DInv, NEW r \in Requests, Finish(r), DInvKept, DeadIsUnlinked'
  PROVE  DInv'
  <1>1. TypeOK
    BY DEF IInv
  <1>2. ASSUME NEW q \in Requests, q # r PROVE DeletionInv(q)'
    <2>1. /\ pc'[q] = pc[q] /\ job'[q] = job[q]
          /\ \A a \in Approvals : rowOwner'[a] = q => rowOwner[a] = q
      BY <1>1, <1>2, NoRequestAssumption DEF TypeOK, Finish
    <2> QED BY <2>1, OtherDeletion DEF DInv
  <1> QED BY <1>1, <1>2, EndedDeletion DEF DInv

\* A committed creation or decision takes no links away.
LEMMA CommitOneDeletionStep ==
  ASSUME IInv, DInv, NEW r \in Requests,
         CommitUpdate(r) \/ \E a \in Approvals : CommitCreate(r, a)
  PROVE  DInv'
  <1>0. TypeOK /\ DeadIsUnlinked /\ job[r] \in Job
    BY DEF IInv, DInv, TypeOK
  <1>1. ASSUME NEW a \in Approvals, CommitCreate(r, a)
        PROVE  DInvKept /\ DeadIsUnlinked'
    <2>1. /\ status[a] = "unused" /\ Live(a)'
          /\ \A b \in Approvals \ {a} :
               status'[b] = status[b] /\ primary'[b] = primary[b] /\ links'[b] = links[b]
      BY <1>0, <1>1, JobFields DEF CommitCreate, TypeOK, Live
    <2> QED BY <1>0, <2>1 DEF DInvKept, DeadIsUnlinked, Live
  <1>2. ASSUME CommitUpdate(r)
        PROVE  DInvKept /\ DeadIsUnlinked'
    <2>1. /\ UNCHANGED <<primary, links>>
          /\ \A b \in Approvals : status'[b] = status[b] \/ (Live(b) /\ Live(b)')
      BY <1>0, <1>2, JobFields DEF CommitUpdate, TypeOK, Live, db
    <2>2. \A b \in Approvals : /\ Live(b)' <=> Live(b)
                               /\ status[b] # "unused" => status'[b] # "unused"
      BY <2>1 DEF Live, Decisions
    <2> QED BY <1>0, <2>1, <2>2 DEF DInvKept, DeadIsUnlinked
  <1> QED BY <1>1, <1>2, CommitDeletionStep DEF CommitUpdate, CommitCreate

\* A committed deletion leaves an approval that lives and had links with a link.
LEMMA RemoveDeletionStep ==
  ASSUME IInv, DInv, NEW r \in Requests, NEW t \in Tasks, RemoveTask(r, t),
         ~ StillReferenced(r, t)
  PROVE  DInv'
  <1>0. TypeOK /\ PrimaryIsLinked /\ DeadIsUnlinked /\ DeletionInv(r)
    BY DEF IInv, DInv
  <1>1. /\ t \in job[r].scope /\ Finish(r) /\ pc[r] = "claim"
        /\ \A a \in Approvals :
             /\ status'[a] = IF Orphaned(r, a) THEN "deleted" ELSE status[a]
             /\ primary'[a] # t /\ links'[a] = links[a] \ {t}
             /\ \/ primary'[a] = NoTask /\ (Live(a) => status'[a] = "deleted" \/ primary[a] = NoTask)
                \/ primary'[a] = primary[a] /\ status'[a] = status[a]
                \/ primary'[a] \in links'[a] /\ Live(a) /\ status'[a] = status[a]
    BY RemovedTask DEF RemoveTask
  <1>2. \A a \in Approvals : Live(a)' => Live(a) /\ status'[a] # "deleted"
    BY <1>1 DEF Live, Decisions
  <1>3. DInvKept
    <2> SUFFICES ASSUME NEW a \in Approvals, status[a] # "unused"
                 PROVE  /\ status'[a] # "unused"
                        /\ Live(a)' => Live(a) /\ links'[a] \subseteq links[a]
                        /\ Live(a)' /\ links'[a] = {} => links[a] = {} /\ primary'[a] = primary[a]
      BY DEF DInvKept
    <2>1. ASSUME Live(a)', links'[a] = {}
          PROVE  links[a] = {} /\ primary'[a] = primary[a]
      <3>1. links[a] # {} => primary[a] \in links[a]
        BY <1>0, <1>2, <2>1 DEF PrimaryIsLinked
      <3>2. primary'[a] = primary[a]
        BY <1>1, <1>2, <2>1
      <3> QED BY <1>1, <2>1, <3>1, <3>2
    <2> QED BY <1>1, <1>2, <2>1
  <1>4. DeadIsUnlinked'
    <2> SUFFICES ASSUME NEW a \in Approvals, ~ Live(a)' PROVE links'[a] = {}
      BY DEF DeadIsUnlinked
    <2>1. CASE ~ Live(a)
      BY <1>0, <1>1, <2>1 DEF DeadIsUnlinked
    <2>2. CASE Live(a)
      <3>1. Orphaned(r, a)
        BY <1>1, <2>2 DEF Live
      <3>2. links[a] \subseteq job[r].scope /\ \E u \in Tasks : job[r].scope = {u}
        BY <1>0, <1>1, <2>2, <3>1 DEF DeletionInv, FoundOrphan, Deleting
      <3> QED BY <1>1, <3>2
    <2> QED BY <2>1, <2>2
  <1> QED BY <1>1, <1>3, <1>4, CommitDeletionStep

\* DInv is inductive relative to IInv.
LEMMA NextDInv == IInv /\ DInv /\ [Next]_vars => DInv'
  <1> SUFFICES ASSUME IInv, DInv, [Next]_vars PROVE DInv'
    OBVIOUS
  <1>1. ASSUME NEW r \in Requests, Begin(r) PROVE DInv'
    BY <1>1, BeginDeletionStep
  <1>2. ASSUME NEW r \in Requests, Proceed(r) PROVE DInv'
    <2>1. ASSUME \/ CreateFails(r) \/ DeadlockAbort(r)
                 \/ \E a \in Approvals, t \in Tasks : ClaimFails(r, a, t)
                 \/ Rollback(r)
          PROVE  DInv'
      BY <2>1, RollbackDeletionStep DEF CreateFails, DeadlockAbort, ClaimFails
    <2>2. ASSUME NEW t \in Tasks, RemoveTask(r, t) PROVE DInv'
      BY <2>2, RemoveDeletionStep, RollbackDeletionStep DEF RemoveTask, Rollback
    <2> QED
      BY <1>2, <2>1, <2>2, NoDeletionStep, ReadsDeletionStep, ClaimDeletionStep,
         CommitOneDeletionStep
      DEF Proceed
  <1>3. CASE UNCHANGED vars
    BY <1>3
    DEF vars, db, locks, DInv, DeadIsUnlinked, DeletionInv, FoundOrphan, Orphaned, FiledHere,
        Deleting, Live
  <1> QED BY <1>1, <1>2, <1>3 DEF Next

\* What deletions rely on holds in every reachable state.
THEOREM DeletionInvariance == Spec => []DInv
  BY InitDInv, NextDInv, Invariance, PTL DEF Spec

-----------------------------------------------------------------------------
(***************************************************************************)
(* The refinement: a COMMIT is an operation of the ledger, every other     *)
(* statement changes none of its variables.                                *)
(***************************************************************************)
\* The database of the initial states, legacy approvals included, is a ledger.
LEMMA InitLedger == Init => Ledger!Init
  <1> SUFFICES ASSUME Init PROVE Ledger!Init
    OBVIOUS
  <1>1. \A a \in Approvals : Covers(a) = {primary[a]} \ {NoTask} /\ Covers(a) \subseteq Tasks
    BY DEF Init, Covers
  <1>2. \A a \in Approvals : status[a] = "unused" => Covers(a) = {}
    BY <1>1 DEF Init
  <1>3. \A a, b \in Approvals :
          status[a] = "pending" /\ status[b] = "pending" /\ a # b => Covers(a) \cap Covers(b) = {}
    BY <1>1 DEF Init
  <1> QED BY <1>1, <1>2, <1>3 DEF Init, Decisions, Ledger!Init, Ledger!Decisions, Ledger!Free

\* A statement that commits nothing is not seen by the ledger.
LEMMA QuietLedger ==
  ASSUME UNCHANGED db
  PROVE  UNCHANGED Ledger!vars
  BY DEF db, Covers, Ledger!vars

\* A committed creation happens at once: what the conflict check found still holds.
LEMMA CreateLedger ==
  ASSUME IInv, NEW r \in Requests, NEW a \in Approvals, CommitCreate(r, a)
  PROVE  Ledger!Create(a, job[r].scope, job[r].target)
  <1>0. TypeOK /\ RequestInv(r) /\ job[r] \in Job /\ PrimaryIsLinked
    BY DEF IInv, TypeOK
  <1>1. /\ pc[r] = "share" /\ job[r].todo = {} /\ status[a] = "unused" /\ tasks' = tasks
        /\ status' = [status EXCEPT ![a] = job[r].target]
        /\ primary'[a] = job[r].primary /\ links'[a] = job[r].scope
        /\ \A b \in Approvals \ {a} : primary'[b] = primary[b] /\ links'[b] = links[b]
    BY <1>0 DEF CommitCreate, TypeOK
  <1>2. /\ job[r].scope \subseteq tasks /\ job[r].subject = NoApproval
        /\ \/ job[r].scope = {} /\ job[r].primary = NoTask
           \/ job[r].primary \in job[r].scope
    BY <1>0, <1>1 DEF RequestInv, LocksHeld, JobShape
  <1>3. Covers(a)' = job[r].scope /\ \A b \in Approvals \ {a} : Covers(b)' = Covers(b)
    BY <1>1, <1>2 DEF Covers
  <1>4. [b \in Approvals |-> Covers(b)]' = [[b \in Approvals |-> Covers(b)] EXCEPT ![a] = job[r].scope]
    BY <1>3
  <1>5. ASSUME job[r].target = "pending", NEW b \in Approvals, b # a, status[b] = "pending"
        PROVE  Covers(b) \cap job[r].scope = {}
    <2>1. \A t \in job[r].scope : t \in tasks /\ OpenOn(t) \subseteq {NoApproval}
      BY <1>0, <1>1, <1>2, <1>5 DEF RequestInv, NoOtherPending, Checked
    <2> QED BY <1>5, <2>1, NoApprovalAssumption DEF OpenOn
  <1> QED BY <1>1, <1>2, <1>4, <1>5 DEF Ledger!Create, Ledger!Free

\* A committed decision or reopening happens at once; one that finds its approval
\* deleted is not seen.
LEMMA DecideLedger ==
  ASSUME IInv, NEW r \in Requests, CommitUpdate(r), ~ UNCHANGED db
  PROVE  Ledger!Decide(job[r].subject, job[r].target) /\ job[r].subject \in Approvals
  <1> DEFINE a == job[r].subject
  <1>0. TypeOK /\ RequestInv(r) /\ job[r] \in Job /\ PrimaryIsLinked
    BY DEF IInv, TypeOK
  <1>1. a \in Approvals
    BY <1>0 DEF RequestInv, JobShape, CommitUpdate
  <1>2. /\ pc[r] = "write" /\ job[r].target # job[r].prior /\ Live(a)
        /\ status' = [status EXCEPT ![a] = job[r].target]
        /\ UNCHANGED <<tasks, primary, links>>
    BY <1>0, <1>1 DEF CommitUpdate, TypeOK, db
  <1>3. [b \in Approvals |-> Covers(b)]' = [b \in Approvals |-> Covers(b)]
    BY <1>2 DEF Covers
  <1>4. ASSUME job[r].target = "pending", NEW b \in Approvals, b # a, status[b] = "pending"
        PROVE  Covers(b) \cap Covers(a) = {}
    <2>1. Covers(a) \subseteq job[r].scope /\ Covers(a) \subseteq tasks
      BY <1>0, <1>1, <1>2, <1>4 DEF RequestInv, SubjectInScope, Checked, PrimaryIsLinked
    <2>2. \A t \in Covers(a) : OpenOn(t) \subseteq {a}
      BY <1>0, <1>2, <1>4, <2>1 DEF RequestInv, NoOtherPending, Checked
    <2> QED BY <1>4, <2>2 DEF OpenOn
  <1> QED BY <1>1, <1>2, <1>3, <1>4 DEF Live, Decisions, Ledger!Decide, Ledger!Decisions, Ledger!Free

\* When a deletion commits, an approval loses the task it covers, and is deleted
\* exactly if it covered no other.
LEMMA OrphansLedger ==
  ASSUME IInv, DInv, NEW r \in Requests, NEW t \in Tasks, RemoveTask(r, t),
         ~ StillReferenced(r, t), NEW a \in Approvals
  PROVE  /\ Covers(a)' = Covers(a) \ {t}
         /\ t \in tasks => status'[a] = IF Covers(a) = {t} THEN "deleted" ELSE status[a]
         /\ t \notin tasks => status'[a] = status[a]
  <1>0. /\ TypeOK /\ PrimaryIsLinked /\ DeadIsUnfiled /\ RequestInv(r)
        /\ DeadIsUnlinked /\ DeletionInv(r)
    BY DEF IInv, DInv
  <1>1. /\ t \in job[r].scope /\ pc[r] = "claim"
        /\ status'[a] = IF Orphaned(r, a) THEN "deleted" ELSE status[a]
        /\ primary'[a] = Refiled(r, a) /\ primary'[a] # t /\ links'[a] = links[a] \ {t}
    BY RemovedTask DEF RemoveTask
  <1>2. job[r].scope = {t}
    BY <1>0, <1>1 DEF DeletionInv, Deleting
  <1>3. CASE ~ Live(a)
    <2>1. primary[a] = NoTask /\ links[a] = {} /\ Covers(a) = {}
      BY <1>0, <1>3 DEF DeadIsUnfiled, DeadIsUnlinked, Covers
    <2>2. Refiled(r, a) = NoTask
      BY <1>0, <1>3, <2>1 DEF Refiled, RequestInv, HomeIsHeld
    <2>3. Orphaned(r, a) => status[a] = "deleted"
      BY <1>0, <1>3 DEF DeletionInv, FiledHere, TypeOK, Live
    <2> QED BY <1>1, <2>1, <2>2, <2>3 DEF Covers
  <1>4. CASE Live(a) /\ Orphaned(r, a)
    <2>1. links[a] \subseteq {t} /\ (links[a] = {} => primary[a] = t) /\ primary'[a] = NoTask
      BY <1>0, <1>1, <1>2, <1>4 DEF DeletionInv, FoundOrphan, FiledHere, Refiled, Orphaned
    <2>2. Covers(a) = {t} /\ Covers(a)' = {}
      BY <1>1, <2>1, TasksAssumption DEF Covers
    <2>3. t \in tasks
      BY <1>0, <1>4, <2>2 DEF PrimaryIsLinked
    <2> QED BY <1>1, <1>4, <2>2, <2>3
  <1>5. CASE Live(a) /\ ~ Orphaned(r, a)
    <2>1. links[a] # {} => primary[a] \in links[a]
      BY <1>0, <1>5 DEF PrimaryIsLinked
    <2>2. \/ rowOwner[a] # r /\ primary'[a] = primary[a]
          \/ \E u \in links[a] : u # t
      BY <1>0, <1>1, <1>2, <1>5 DEF Refiled, Orphaned, RequestInv, HomeIsHeld
    <2>3. Covers(a) # {t}
      BY <1>1, <2>1, <2>2 DEF Covers
    <2>4. Covers(a)' = Covers(a) \ {t}
      <3>1. CASE links'[a] # {}
        BY <1>1, <3>1 DEF Covers
      <3>2. CASE links'[a] = {}
        <4>1. links[a] = {} /\ primary'[a] = primary[a]
          BY <1>1, <2>1, <2>2, <3>2
        <4> QED BY <1>1, <3>2, <4>1 DEF Covers
      <3> QED BY <3>1, <3>2
    <2> QED BY <1>1, <1>5, <2>3, <2>4
  <1> QED BY <1>3, <1>4, <1>5

\* A committed deletion happens at once; a second one of the same task is not seen.
LEMMA DeleteLedger ==
  ASSUME IInv, DInv, NEW r \in Requests, NEW t \in Tasks, RemoveTask(r, t)
  PROVE  Ledger!DeleteTask(t) \/ UNCHANGED Ledger!vars
  <1>0. TypeOK /\ PrimaryIsLinked /\ DeadIsUnfiled /\ DeadIsUnlinked
    BY DEF IInv, DInv
  <1>1. CASE StillReferenced(r, t)
    BY <1>1, QuietLedger DEF RemoveTask
  <1>2. CASE ~ StillReferenced(r, t)
    <2> DEFINE covers == [a \in Approvals |-> Covers(a)]
    <2>1. tasks' = tasks \ {t} /\ status' = [a \in Approvals |-> status'[a]]
      BY <1>0, <1>2 DEF RemoveTask
    <2>2. covers' = [a \in Approvals |-> covers[a] \ {t}]
      BY <1>2, OrphansLedger
    <2>3. CASE t \in tasks
      <3>1. status' = [a \in Approvals |-> IF covers[a] = {t} THEN "deleted" ELSE status[a]]
        BY <1>2, <2>1, <2>3, OrphansLedger
      <3> QED BY <2>1, <2>2, <2>3, <3>1 DEF Ledger!DeleteTask
    <2>4. CASE t \notin tasks
      <3>1. status' = status
        BY <1>0, <1>2, <2>1, <2>4, OrphansLedger DEF TypeOK
      <3>2. ASSUME NEW a \in Approvals PROVE t \notin Covers(a)
        BY <1>0, <2>4 DEF PrimaryIsLinked, DeadIsUnfiled, DeadIsUnlinked, Covers
      <3> QED BY <2>1, <2>2, <2>4, <3>1, <3>2 DEF Ledger!vars
    <2> QED BY <2>3, <2>4
  <1> QED BY <1>1, <1>2

\* Every step of the service is one operation of the ledger, or none.
LEMMA StepLedger == IInv /\ DInv /\ [Next]_vars => [Ledger!Next]_(Ledger!vars)
  <1> SUFFICES ASSUME IInv, DInv, [Next]_vars PROVE Ledger!Next \/ UNCHANGED Ledger!vars
    OBVIOUS
  <1>1. CASE UNCHANGED vars
    BY <1>1, QuietLedger DEF vars
  <1>2. ASSUME NEW r \in Requests, Begin(r) PROVE UNCHANGED Ledger!vars
    BY <1>2, QuietLedger DEF Begin, BeginCreate, BeginUpdate, BeginDelete
  <1>3. ASSUME NEW r \in Requests, Proceed(r) PROVE Ledger!Next \/ UNCHANGED Ledger!vars
    <2>0. job[r].scope \in SUBSET Tasks /\ job[r].target \in Decisions
      BY JobFields DEF IInv, TypeOK
    <2>1. ASSUME NEW a \in Approvals, CommitCreate(r, a) PROVE Ledger!Next
      BY <2>0, <2>1, CreateLedger DEF Ledger!Next, Ledger!Decisions, Decisions
    <2>2. ASSUME CommitUpdate(r) PROVE Ledger!Next \/ UNCHANGED Ledger!vars
      BY <2>0, <2>2, DecideLedger, QuietLedger DEF Ledger!Next, Ledger!Decisions, Decisions
    <2>3. ASSUME NEW t \in Tasks, RemoveTask(r, t) PROVE Ledger!Next \/ UNCHANGED Ledger!vars
      BY <2>3, DeleteLedger DEF Ledger!Next
    <2>4. ASSUME \/ \E t \in Tasks : LockTask(r, t) \/ ShareTask(r, t)
                 \/ CheckConflicts(r) \/ CreateFails(r) \/ ReadPrimaries(r) \/ CutLinks(r)
                 \/ \E a \in Approvals : ClaimOrphan(r, a)
                 \/ \E a \in Approvals, t \in Tasks : ClaimMoved(r, a, t) \/ ClaimFails(r, a, t)
                 \/ DeadlockAbort(r)
          PROVE  UNCHANGED db
      BY <2>4 DEF LockTask, ShareTask, CheckConflicts, CreateFails, ReadPrimaries, CutLinks,
                  ClaimOrphan, ClaimMoved, ClaimFails, DeadlockAbort, Rollback
    <2> QED BY <1>3, <2>1, <2>2, <2>3, <2>4, QuietLedger DEF Proceed
  <1> QED BY <1>1, <1>2, <1>3 DEF Next

\* With its statements interleaved, the service behaves as if each creation,
\* decision, reopening and deletion happened at once, at its commit.
THEOREM Refinement == Spec => ImplementsLedger
  BY InitLedger, StepLedger, Invariance, DeletionInvariance, PTL
  DEF Spec, ImplementsLedger, Ledger!Spec
=============================================================================
