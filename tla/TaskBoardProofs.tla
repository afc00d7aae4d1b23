-------------------------- MODULE TaskBoardProofs --------------------------
(***************************************************************************)
(* A task in review has a deadline, for any board and any number of        *)
(* requests and workers.  A row is only ever changed by an UPDATE of some  *)
(* of its columns, so the invariant says what an UPDATE may contain: it    *)
(* moves a task to review only with a deadline, and it clears a deadline   *)
(* only if it moves the task elsewhere.  With the same view of an UPDATE:  *)
(* a task becomes done only by a request that has seen an approval; rows,  *)
(* dependencies and what requests hold keep their types; and, from the     *)
(* deadlines, a review is watched by the SLA worker until a fault.         *)
(***************************************************************************)
EXTENDS TaskBoard, TLAPS

(* A row is a record of the columns and nothing else. *)
IsRow(n) == n = [f \in Fields |-> n[f]]

(* A row in review has a deadline. *)
HasDeadline(n) == n.status = "review" => n.due # "none"

(* An UPDATE that cannot leave a task in review without a deadline. *)
KeepsDeadline(u) ==
    /\ "status" \in DOMAIN u /\ u.status = "review" => "due" \in DOMAIN u /\ u.due # "none"
    /\ "due" \in DOMAIN u /\ u.due = "none" => "status" \in DOMAIN u /\ u.status # "review"

(* What a request has read and is about to write, by its stage. *)
RequestSound(q) ==
    /\ q.stage \in {"loaded", "decided"} => IsRow(q.old) /\ HasDeadline(q.old)
    /\ q.stage = "loaded" => q.actor \in Actors
    /\ q.stage = "decided" => IsRow(q.new) /\ q.new.due = q.old.due
    /\ q.stage \in {"gated", "cascading"} => KeepsDeadline(q.update)
    /\ q.stage \in {"gated", "cascading", "resetting"} =>
         \A d \in DOMAIN q.resets : KeepsDeadline(q.resets[d])

(* What a worker has read of an overdue task. *)
WorkerSound(j) ==
    j.stage = "overdue" => IsRow(j.old) /\ j.old.status = "review" /\ j.old.due # "none"

(* Every row is one, and has its deadline if it is in review. *)
RowsSound == \A t \in Tasks : IsRow(row[t]) /\ HasDeadline(row[t])

(* The inductive invariant: rows, requests and workers are sound. *)
DeadlineInv ==
    /\ row = [t \in Tasks |-> row[t]] /\ RowsSound
    /\ req = [r \in Requests |-> req[r]] /\ \A r \in Requests : RequestSound(req[r])
    /\ worker = [w \in Workers |-> worker[w]] /\ \A w \in Workers : WorkerSound(worker[w])

(* An UPDATE that keeps deadlines keeps that of the row it is applied to. *)
LEMMA MergeKeeps ==
    ASSUME NEW n, HasDeadline(n), NEW u, KeepsDeadline(u)
    PROVE  IsRow(Merged(n, u)) /\ HasDeadline(Merged(n, u))
<1>1. IsRow(Merged(n, u))
  BY DEF IsRow, Merged
<1>2. /\ Merged(n, u).status = IF "status" \in DOMAIN u THEN u.status ELSE n.status
      /\ Merged(n, u).due = IF "due" \in DOMAIN u THEN u.due ELSE n.due
  BY DEF Merged, Fields
<1>3. HasDeadline(Merged(n, u))
  BY <1>2 DEF HasDeadline, KeepsDeadline
<1> QED
  BY <1>1, <1>3

(* The rules of the actors leave the deadline alone. *)
LEMMA RulesKeepDue ==
    ASSUME NEW actor \in {"admin", "lead", "agent"}, NEW t, NEW p, NEW old, IsRow(old),
           NEW new \in RowsFor(actor, t, old, p)
    PROVE  IsRow(new) /\ new.due = old.due
<1>1. ASSUME NEW s, NEW h, NEW n, n = [old EXCEPT !.status = s, !.assigned = h]
      PROVE  IsRow(n) /\ n.due = old.due
  BY <1>1 DEF IsRow, Fields
<1>2. \E s, h : new = [old EXCEPT !.status = s, !.assigned = h]
  <2>1. CASE actor = "lead"
    <3>1. new \in LeadRows(t, old, p)
      BY <2>1 DEF RowsFor
    <3> QED
      BY <3>1 DEF LeadRows
  <2>2. CASE actor = "agent"
    <3>1. new \in AgentRows(t, old, p)
      BY <2>2 DEF RowsFor
    <3> QED
      BY <3>1 DEF AgentRows
  <2>3. CASE actor = "admin"
    <3>1. new \in AdminRows(t, old, p)
      BY <2>3 DEF RowsFor
    <3> DEFINE target == IF p.status = "keep" THEN old.status ELSE p.status
               reset == Blocked(Effective(t, p)) /\ ~(old.status = "done" /\ target = "done")
               holder == CASE p.assign # "keep" -> p.assign
                           [] p.assign = "keep" /\ p.status \in {"inbox", "review"} -> "none"
                           [] OTHER -> old.assigned
    <3>2. new = IF reset THEN [old EXCEPT !.status = "inbox", !.assigned = "none"]
                         ELSE [old EXCEPT !.status = target, !.assigned = holder]
      BY <3>1 DEF AdminRows
    <3> HIDE DEF target, reset, holder
    <3>3. CASE reset
      <4>1. new = [old EXCEPT !.status = "inbox", !.assigned = "none"]
        BY <3>2, <3>3
      <4> QED
        BY <4>1
    <3>4. CASE ~reset
      <4>1. new = [old EXCEPT !.status = target, !.assigned = holder]
        BY <3>2, <3>4
      <4> QED
        BY <4>1
    <3> QED
      BY <3>3, <3>4
  <2> QED
    BY <2>1, <2>2, <2>3
<1> QED
  BY <1>1, <1>2

(* Review tracking makes an UPDATE that keeps deadlines. *)
LEMMA TrackingKeeps ==
    ASSUME NEW old, IsRow(old), HasDeadline(old), NEW new, IsRow(new), new.due = old.due
    PROVE  KeepsDeadline(UpdateTo(old, Tracked(old, new)))
<1> DEFINE n == Tracked(old, new)
           u == UpdateTo(old, n)
<1>1. n.status = new.status
  BY DEF Tracked, IsRow, Fields
<1>2. /\ Enters(old, new) => n.due = "ahead"
      /\ Leaves(old, new) => n.due = "none"
      /\ ~Enters(old, new) /\ ~Leaves(old, new) => n.due = old.due
  BY DEF Tracked, IsRow, Fields, Enters, Leaves
<1>3. /\ "status" \in DOMAIN u <=> n.status # old.status
      /\ "due" \in DOMAIN u <=> n.due # old.due \/ Enters(old, n)
      /\ \A f \in DOMAIN u : u[f] = n[f]
  BY DEF UpdateTo, Fields
<1>4. Enters(old, n) <=> Enters(old, new)
  BY <1>1 DEF Enters
<1>5. u.status = n.status \/ "status" \notin DOMAIN u
  BY <1>3
<1>6. u.due = n.due \/ "due" \notin DOMAIN u
  BY <1>3
<1> HIDE DEF n, u
<1>7. KeepsDeadline(u)
  BY <1>1, <1>2, <1>3, <1>4, <1>5, <1>6 DEF KeepsDeadline, Enters, Leaves, HasDeadline
<1> QED
  BY <1>7 DEF u, n

(* A reset moves a dependent to the inbox and leaves its deadline alone. *)
LEMMA ResetsKeep ==
    ASSUME NEW t, NEW d \in DOMAIN ResetsFor(t)
    PROVE  KeepsDeadline(ResetsFor(t)[d])
  BY DEF ResetsFor, KeepsDeadline, Unclaimed

(* Writing resets that keep deadlines keeps the rows sound. *)
LEMMA ResetSound ==
    ASSUME NEW rows, \A t \in Tasks : IsRow(rows[t]) /\ HasDeadline(rows[t]),
           NEW resets, \A d \in DOMAIN resets : KeepsDeadline(resets[d])
    PROVE  LET after == Reset(rows, resets)
           IN /\ after = [t \in Tasks |-> after[t]]
              /\ \A t \in Tasks : IsRow(after[t]) /\ HasDeadline(after[t])
<1> DEFINE after == Reset(rows, resets)
<1>1. after = [t \in Tasks |-> after[t]]
  BY DEF Reset
<1>2. ASSUME NEW t \in Tasks PROVE IsRow(after[t]) /\ HasDeadline(after[t])
  <2>1. after[t] = IF t \in DOMAIN resets THEN Merged(rows[t], resets[t]) ELSE rows[t]
    BY DEF Reset
  <2>2. CASE t \in DOMAIN resets
    BY <2>1, <2>2, MergeKeeps
  <2>3. CASE t \notin DOMAIN resets
    BY <2>1, <2>3
  <2> QED
    BY <2>2, <2>3
<1> QED
  BY <1>1, <1>2

(* A step of one request: its own state is sound and the rows stay so. *)
LEMMA RequestStep ==
    ASSUME DeadlineInv, NEW r \in Requests, NEW q, RequestSound(q), Becomes(r, q),
           UNCHANGED worker, row' = [t \in Tasks |-> row'[t]], RowsSound'
    PROVE  DeadlineInv'
<1>1. req' = [o \in Requests |-> IF o = r THEN q ELSE req[o]]
  BY DEF DeadlineInv, Becomes
<1>2. \A o \in Requests : RequestSound(req[o])'
  BY <1>1 DEF DeadlineInv, RequestSound
<1> QED
  BY <1>1, <1>2 DEF DeadlineInv, WorkerSound

(* A worker that lets go of, or takes over, sound data. *)
LEMMA WorkerStep ==
    ASSUME DeadlineInv, NEW w \in Workers, NEW j, WorkerSound(j),
           worker' = [worker EXCEPT ![w] = j], UNCHANGED req,
           row' = [t \in Tasks |-> row'[t]], RowsSound'
    PROVE  DeadlineInv'
<1>1. worker' = [o \in Workers |-> IF o = w THEN j ELSE worker[o]]
  BY DEF DeadlineInv
<1>2. \A o \in Workers : WorkerSound(worker[o])'
  BY <1>1 DEF DeadlineInv, WorkerSound
<1> QED
  BY <1>1, <1>2 DEF DeadlineInv, RequestSound

(* A request that takes a step without writing a row. *)
LEMMA RowsStay ==
    ASSUME DeadlineInv, UNCHANGED row
    PROVE  row' = [t \in Tasks |-> row'[t]] /\ RowsSound'
  BY DEF DeadlineInv, RowsSound

(* One UPDATE that keeps deadlines, of any task. *)
LEMMA RowsUpdate ==
    ASSUME DeadlineInv, NEW t, NEW u, KeepsDeadline(u),
           row' = [row EXCEPT ![t] = Merged(@, u)]
    PROVE  row' = [o \in Tasks |-> row'[o]] /\ RowsSound'
<1>1. row' = [o \in Tasks |-> IF o = t THEN Merged(row[o], u) ELSE row[o]]
  BY DEF DeadlineInv
<1>2. \A o \in Tasks : IsRow(row'[o]) /\ HasDeadline(row'[o])
  BY <1>1, MergeKeeps DEF DeadlineInv, RowsSound
<1> QED
  BY <1>1, <1>2 DEF RowsSound, IsRow, HasDeadline

(* An idle request or worker has read nothing. *)
LEMMA IdleSound == RequestSound(Idle) /\ WorkerSound(Idle)
  BY DEF RequestSound, WorkerSound, Idle

(* No task is in review before the first request. *)
LEMMA InitDeadline == Init => DeadlineInv
<1> SUFFICES ASSUME Init PROVE DeadlineInv
  OBVIOUS
<1>1. PICK start \in Starts : row = [t \in Tasks |-> AtRest(start.status[t])]
  BY DEF Init
<1>2. ASSUME NEW s PROVE IsRow(AtRest(s)) /\ HasDeadline(AtRest(s))
  BY DEF AtRest, IsRow, HasDeadline, Fields
<1>3. RowsSound
  BY <1>1, <1>2 DEF RowsSound
<1> QED
  BY <1>1, <1>3, IdleSound DEF Init, DeadlineInv

(* A request reads a sound row. *)
LEMMA LoadStep ==
    ASSUME DeadlineInv, NEW r \in Requests, NEW t \in Tasks, NEW a \in Actors, Load(r, t, a)
    PROVE  DeadlineInv'
<1> DEFINE q == [stage |-> "loaded", actor |-> a, task |-> t, old |-> row[t]]
<1>1. RequestSound(q)
  BY DEF RequestSound, DeadlineInv, RowsSound
<1>2. req' = [o \in Requests |-> IF o = r THEN q ELSE req[o]] /\ UNCHANGED <<row, worker>>
  BY DEF Load, DeadlineInv
<1> HIDE DEF q
<1>3. \A o \in Requests : RequestSound(req[o])'
  BY <1>1, <1>2 DEF DeadlineInv, RequestSound
<1> QED
  BY <1>2, <1>3, RowsStay DEF DeadlineInv, WorkerSound

(* The new row of a request is the one it read, with the fields of its patch. *)
LEMMA DecideStep ==
    ASSUME DeadlineInv, NEW r \in Requests, NEW p \in Patches, Decide(r, p)
    PROVE  DeadlineInv'
<1>1. PICK new \in RowsFor(req[r].actor, req[r].task, req[r].old, p) :
        Becomes(r, [stage |-> "decided", actor |-> req[r].actor, task |-> req[r].task,
                    old |-> req[r].old, new |-> new,
                    moves |-> p.status \notin {"keep", req[r].old.status}
                                /\ new.status # req[r].old.status,
                    cut |-> IF p.edges = <<>> THEN {} ELSE deps[req[r].task],
                    added |-> IF p.edges = <<>> THEN {} ELSE p.edges[1]])
  BY DEF Decide
<1> DEFINE q == [stage |-> "decided", actor |-> req[r].actor, task |-> req[r].task,
                 old |-> req[r].old, new |-> new,
                 moves |-> p.status \notin {"keep", req[r].old.status}
                             /\ new.status # req[r].old.status,
                 cut |-> IF p.edges = <<>> THEN {} ELSE deps[req[r].task],
                 added |-> IF p.edges = <<>> THEN {} ELSE p.edges[1]]
<1>2. /\ req[r].stage = "loaded" /\ RequestSound(req[r])
      /\ UNCHANGED <<row, worker>>
  BY DEF Decide, DeadlineInv
<1>3. /\ IsRow(req[r].old) /\ HasDeadline(req[r].old)
      /\ req[r].actor \in {"admin", "lead", "agent"}
  BY <1>2, BoardAssumption DEF RequestSound
<1>4. IsRow(new) /\ new.due = req[r].old.due
  BY <1>3, RulesKeepDue
<1>5. RequestSound(q)
  BY <1>3, <1>4 DEF RequestSound
<1> QED
  BY <1>1, <1>2, <1>5, RowsStay, RequestStep

(* The UPDATE of a decided change sets a deadline when it enters review. *)
LEMMA GateStep ==
    ASSUME DeadlineInv, NEW r \in Requests, Gate(r)
    PROVE  DeadlineInv'
<1> DEFINE old == req[r].old
           new == Tracked(old, req[r].new)
           q == [stage |-> "gated", actor |-> req[r].actor, task |-> req[r].task,
                 wasDone |-> old.status = "done",
                 reopens |-> Reopens(old, new), enters |-> Enters(old, new),
                 update |-> UpdateTo(old, new),
                 cut |-> req[r].cut, added |-> req[r].added, resets |-> <<>>]
<1>1. /\ req[r].stage = "decided" /\ RequestSound(req[r])
      /\ UNCHANGED <<row, worker>>
      /\ Becomes(r, q) \/ Becomes(r, Idle)
  BY DEF Gate, DeadlineInv, Ends
<1>2. KeepsDeadline(UpdateTo(old, new))
  BY <1>1, TrackingKeeps DEF RequestSound
<1>3. RequestSound(q)
  BY <1>2 DEF RequestSound
<1> HIDE DEF q
<1> QED
  BY <1>1, <1>3, IdleSound, RowsStay, RequestStep

(* The resets a request plans within its transaction. *)
LEMMA ReadDependentsStep ==
    ASSUME DeadlineInv, NEW r \in Requests, ReadDependents(r)
    PROVE  DeadlineInv'
<1> DEFINE q == [req[r] EXCEPT !.stage = "cascading", !.resets = ResetsFor(req[r].task)]
<1>1. req[r].stage = "gated" /\ RequestSound(req[r]) /\ Becomes(r, q) /\ UNCHANGED <<row, worker>>
  BY DEF ReadDependents, DeadlineInv
<1>2. RequestSound(q)
  BY <1>1, ResetsKeep DEF RequestSound
<1> HIDE DEF q
<1> QED
  BY <1>1, <1>2, RowsStay, RequestStep

(* The COMMIT of a change and its resets. *)
LEMMA CommitStep ==
    ASSUME DeadlineInv, NEW r \in Requests, Commit(r)
    PROVE  DeadlineInv'
<1> DEFINE t == req[r].task
           q == [stage |-> "saved", actor |-> req[r].actor, task |-> t,
                 wasDone |-> req[r].wasDone, enters |-> req[r].enters]
           written == [row EXCEPT ![t] = Merged(@, req[r].update)]
<1>1. /\ KeepsDeadline(req[r].update)
      /\ \A d \in DOMAIN req[r].resets : KeepsDeadline(req[r].resets[d])
      /\ UNCHANGED worker
  BY DEF Commit, DeadlineInv, RequestSound
<1>2. \/ Ends(r) /\ UNCHANGED row
      \/ row' = Reset(written, req[r].resets) /\ Becomes(r, q)
  BY DEF Commit
<1>3. CASE Ends(r) /\ UNCHANGED row
  BY <1>1, <1>3, IdleSound, RowsStay, RequestStep DEF Ends
<1>4. CASE row' = Reset(written, req[r].resets) /\ Becomes(r, q)
  <2>1. \A o \in Tasks : IsRow(written[o]) /\ HasDeadline(written[o])
    <3>1. written = [o \in Tasks |-> IF o = t THEN Merged(row[o], req[r].update) ELSE row[o]]
      BY DEF DeadlineInv
    <3> QED
      BY <1>1, <3>1, MergeKeeps DEF DeadlineInv, RowsSound
  <2> HIDE DEF written
  <2>2. row' = [o \in Tasks |-> row'[o]] /\ \A o \in Tasks : IsRow(row'[o]) /\ HasDeadline(row'[o])
    BY <1>1, <1>4, <2>1, ResetSound
  <2>3. RowsSound'
    BY <2>2 DEF RowsSound, IsRow, HasDeadline
  <2>4. RequestSound(q)
    BY DEF RequestSound
  <2> HIDE DEF q
  <2> QED
    BY <1>1, <1>4, <2>2, <2>3, <2>4, RequestStep
<1> QED
  BY <1>2, <1>3, <1>4

(* Queueing the check writes no row. *)
LEMMA ScheduleStep ==
    ASSUME DeadlineInv, NEW r \in Requests, Schedule(r)
    PROVE  DeadlineInv'
<1> DEFINE q == [stage |-> "reopened", task |-> req[r].task]
<1>1. (Becomes(r, q) \/ Becomes(r, Idle)) /\ UNCHANGED <<row, worker>>
  BY DEF Schedule, Ends
<1>2. RequestSound(q)
  BY DEF RequestSound
<1> HIDE DEF q
<1> QED
  BY <1>1, <1>2, IdleSound, RowsStay, RequestStep

(* The resets planned after a reopening. *)
LEMMA ReadDependentsLaterStep ==
    ASSUME DeadlineInv, NEW r \in Requests, ReadDependentsLater(r)
    PROVE  DeadlineInv'
<1> DEFINE q == [stage |-> "resetting", resets |-> ResetsFor(req[r].task)]
<1>1. Becomes(r, q) /\ UNCHANGED <<row, worker>>
  BY DEF ReadDependentsLater
<1>2. RequestSound(q)
  BY ResetsKeep DEF RequestSound
<1> HIDE DEF q
<1> QED
  BY <1>1, <1>2, RowsStay, RequestStep

(* The COMMIT of those resets. *)
LEMMA CommitResetsStep ==
    ASSUME DeadlineInv, NEW r \in Requests, CommitResets(r)
    PROVE  DeadlineInv'
<1>1. /\ \A d \in DOMAIN req[r].resets : KeepsDeadline(req[r].resets[d])
      /\ row' = Reset(row, req[r].resets) /\ Becomes(r, Idle) /\ UNCHANGED worker
  BY DEF CommitResets, DeadlineInv, RequestSound, Ends
<1>2. row' = [o \in Tasks |-> row'[o]] /\ \A o \in Tasks : IsRow(row'[o]) /\ HasDeadline(row'[o])
  BY <1>1, ResetSound DEF DeadlineInv, RowsSound
<1>3. RowsSound'
  BY <1>2 DEF RowsSound, IsRow, HasDeadline
<1> QED
  BY <1>1, <1>2, <1>3, IdleSound, RequestStep

(* Dropped and refused requests, and those whose process dies. *)
LEMMA EndStep ==
    ASSUME DeadlineInv, NEW r \in Requests, Refuse(r) \/ RequestDies(r)
    PROVE  DeadlineInv'
<1>1. Becomes(r, Idle) /\ UNCHANGED <<row, worker>>
  BY DEF Refuse, RequestDies, Ends
<1> QED
  BY <1>1, IdleSound, RowsStay, RequestStep

(* A worker reads the row it found overdue. *)
LEMMA FindOverdueStep ==
    ASSUME DeadlineInv, NEW w \in Workers, NEW t \in Tasks, FindOverdue(w, t)
    PROVE  DeadlineInv'
<1> DEFINE j == [stage |-> "overdue", task |-> t, old |-> row[t]]
<1>1. worker' = [worker EXCEPT ![w] = j] /\ UNCHANGED <<row, req>>
  BY DEF FindOverdue
<1>2. WorkerSound(j)
  BY DEF WorkerSound, FindOverdue, InReview, DeadlineInv, RowsSound
<1> HIDE DEF j
<1> QED
  BY <1>1, <1>2, RowsStay, WorkerStep

(* A nudge moves the deadline, never clears it. *)
LEMMA NudgeStep ==
    ASSUME DeadlineInv, NEW w \in Workers, Nudge(w)
    PROVE  DeadlineInv'
<1> DEFINE j == [stage |-> "nudged", task |-> worker[w].task]
           u == NextMiss(worker[w].old)
<1>1. /\ worker' = [worker EXCEPT ![w] = j] /\ UNCHANGED req
      /\ row' = [row EXCEPT ![worker[w].task] = Merged(@, u)]
  BY DEF Nudge
<1>2. WorkerSound(j) /\ KeepsDeadline(u)
  BY DEF WorkerSound, KeepsDeadline, NextMiss
<1> HIDE DEF j, u
<1>3. row' = [o \in Tasks |-> row'[o]] /\ RowsSound'
  BY <1>1, <1>2, RowsUpdate
<1> QED
  BY <1>1, <1>2, <1>3, WorkerStep

(* A task handed back loses its deadline with its review. *)
LEMMA ReassignStep ==
    ASSUME DeadlineInv, NEW w \in Workers, Reassign(w)
    PROVE  DeadlineInv'
<1> DEFINE old == worker[w].old
<1>1. PICK owner \in {"none", "worker"} :
        row' = [row EXCEPT ![worker[w].task] =
                  Merged(@, UpdateTo(old, [status |-> "inbox", assigned |-> owner,
                                           due |-> "none", misses |-> old.misses + 1]))]
  BY DEF Reassign
<1> DEFINE new == [status |-> "inbox", assigned |-> owner,
                   due |-> "none", misses |-> old.misses + 1]
           u == UpdateTo(old, new)
<1>2. old.status = "review" /\ worker' = [worker EXCEPT ![w] = Idle] /\ UNCHANGED req
  BY DEF Reassign, DeadlineInv, WorkerSound
<1>3. KeepsDeadline(u)
  <2>1. "status" \in DOMAIN u /\ u.status = "inbox"
    BY <1>2 DEF UpdateTo, Fields
  <2> HIDE DEF u
  <2> QED
    BY <2>1 DEF KeepsDeadline
<1> HIDE DEF u
<1>4. row' = [row EXCEPT ![worker[w].task] = Merged(@, u)]
  BY <1>1 DEF u
<1>5. row' = [o \in Tasks |-> row'[o]] /\ RowsSound'
  BY <1>3, <1>4, RowsUpdate
<1> QED
  BY <1>2, <1>5, IdleSound, WorkerStep

(* A worker that ends has read nothing. *)
LEMMA WorkerEndStep ==
    ASSUME DeadlineInv, NEW w \in Workers, CheckAgain(w) \/ WorkerDies(w)
    PROVE  DeadlineInv'
<1>1. worker' = [worker EXCEPT ![w] = Idle] /\ UNCHANGED <<row, req>>
  BY DEF CheckAgain, WorkerDies
<1> QED
  BY <1>1, IdleSound, RowsStay, WorkerStep

(* A deadline that passes is still one. *)
LEMMA DeadlineStep ==
    ASSUME DeadlineInv, NEW t \in Tasks, DeadlinePasses(t)
    PROVE  DeadlineInv'
<1>1. row' = [o \in Tasks |-> IF o = t THEN [row[t] EXCEPT !.due = "past"] ELSE row[o]]
  BY DEF DeadlinePasses, DeadlineInv
<1>2. LET n == [row[t] EXCEPT !.due = "past"] IN IsRow(n) /\ HasDeadline(n)
  BY DEF DeadlineInv, RowsSound, IsRow, HasDeadline, Fields
<1>3. RowsSound'
  BY <1>1, <1>2 DEF DeadlineInv, RowsSound, IsRow, HasDeadline
<1> QED
  BY <1>1, <1>3 DEF DeadlinePasses, DeadlineInv, RequestSound, WorkerSound

(* Steps that touch neither rows nor what requests and workers hold. *)
LEMMA QuietStep ==
    ASSUME DeadlineInv, UNCHANGED <<row, req, worker>>
    PROVE  DeadlineInv'
  BY DEF DeadlineInv, RowsSound, IsRow, HasDeadline, RequestSound, WorkerSound

(* Every step keeps the rows sound. *)
LEMMA NextDeadline == DeadlineInv /\ [Next]_vars => DeadlineInv'
<1> SUFFICES ASSUME DeadlineInv, [Next]_vars PROVE DeadlineInv'
  OBVIOUS
<1>1. ASSUME NEW r \in Requests, NEW t \in Tasks, NEW a \in Actors, Load(r, t, a)
      PROVE  DeadlineInv'
  BY <1>1, LoadStep
<1>2. ASSUME NEW r \in Requests, Continue(r) PROVE DeadlineInv'
  BY <1>2, DecideStep, EndStep, GateStep, ReadDependentsStep, CommitStep, ScheduleStep,
     ReadDependentsLaterStep, CommitResetsStep DEF Continue
<1>3. ASSUME NEW r \in Requests, RequestDies(r) PROVE DeadlineInv'
  BY <1>3, EndStep
<1>4. ASSUME NEW w \in Workers, NEW t \in Tasks, Receive(w, t) \/ PostponeFails(w, t)
      PROVE  DeadlineInv'
  <2>1. CASE FindOverdue(w, t)
    BY <2>1, FindOverdueStep
  <2>2. CASE Discard(w, t) \/ Postpone(w, t) \/ PostponeFails(w, t)
    <3>1. UNCHANGED <<row, req, worker>>
      BY <2>2 DEF Discard, Postpone, PostponeFails, vars
    <3> QED
      BY <3>1, QuietStep
  <2> QED
    BY <1>4, <2>1, <2>2 DEF Receive
<1>5. ASSUME NEW w \in Workers, Handle(w) \/ WorkerDies(w) PROVE DeadlineInv'
  BY <1>5, NudgeStep, ReassignStep, WorkerEndStep DEF Handle
<1>6. ASSUME NEW t \in Tasks, DeadlinePasses(t) PROVE DeadlineInv'
  BY <1>6, DeadlineStep
<1>7. ASSUME NEW t \in Tasks, ApprovalsChange(t) PROVE DeadlineInv'
  BY <1>7, QuietStep DEF ApprovalsChange
<1>8. CASE UNCHANGED vars
  BY <1>8, QuietStep DEF vars
<1> QED
  BY <1>1, <1>2, <1>3, <1>4, <1>5, <1>6, <1>7, <1>8 DEF Next

(* What is read and written, at every stage, keeps the deadlines. *)
THEOREM DeadlineInvariance == Spec => []DeadlineInv
<1> QED
  BY InitDeadline, NextDeadline, PTL DEF Spec

(* A task in review always has a deadline, however the columns of requests *)
(* and SLA checks are merged: the SLA worker ignores a review without one. *)
THEOREM ReviewsHaveDeadlines == Spec => []ReviewHasDeadline
<1>1. DeadlineInv => ReviewHasDeadline
  BY DEF DeadlineInv, RowsSound, HasDeadline, ReviewHasDeadline
<1> QED
  BY <1>1, DeadlineInvariance, PTL

-----------------------------------------------------------------------------
(* A task becomes done only with an approval.  The gate reads one, and     *)
(* from the load on the witness remembers every one there is; the UPDATE   *)
(* that finishes a task is the one whose request passed the gate.          *)

Finishes(u) == "status" \in DOMAIN u /\ u.status = "done"

(* What a request may finish it has seen an approval for; b: it has seen one. *)
Vouches(q, b) ==
    /\ q.stage \in Open => q.task \in Tasks
    /\ q.stage \in Open /\ "approved" \in approvals[q.task] => b
    /\ q.stage \in {"gated", "cascading"} /\ Finishes(q.update) /\ "approval" \in rules => b
    /\ q.stage \in {"gated", "cascading", "resetting"} =>
         \A d \in DOMAIN q.resets : ~Finishes(q.resets[d])

(* The inductive invariant: every request vouches for what it will write. *)
VouchInv ==
    /\ approvals = [t \in Tasks |-> approvals[t]]
    /\ witness \in [Requests -> BOOLEAN]
    /\ \A r \in Requests : Vouches(req[r], witness[r])

(* A step of one request that vouches for its new state. *)
LEMMA VouchRequest ==
    ASSUME DeadlineInv, VouchInv, NEW r \in Requests, NEW q, Becomes(r, q),
           Vouches(q, witness[r]), UNCHANGED <<approvals, rules>>
    PROVE  VouchInv'
<1>1. /\ req' = [o \in Requests |-> IF o = r THEN q ELSE req[o]]
      /\ witness' = [witness EXCEPT ![r] = witness[r] /\ q.stage \in Open]
  BY DEF Becomes, DeadlineInv
<1>2. witness' \in [Requests -> BOOLEAN]
  BY <1>1 DEF VouchInv
<1>3. ASSUME NEW o \in Requests PROVE Vouches(req[o], witness[o])'
  <2>1. CASE o = r
    <3>1. req'[o] = q /\ (witness'[o] <=> witness[r] /\ q.stage \in Open)
      BY <1>1, <2>1 DEF VouchInv
    <3>2. q.stage \in {"gated", "cascading"} => q.stage \in Open
      BY DEF Open
    <3> QED
      BY <3>1, <3>2 DEF Vouches, Finishes
  <2>2. CASE o # r
    <3>1. req'[o] = req[o] /\ (witness'[o] <=> witness[o])
      BY <1>1, <2>2 DEF VouchInv
    <3> QED
      BY <3>1 DEF VouchInv, Vouches, Finishes
  <2> QED
    BY <2>1, <2>2
<1> QED
  BY <1>2, <1>3 DEF VouchInv

(* A step that changes no request and no row. *)
LEMMA VouchQuiet ==
    ASSUME VouchInv, UNCHANGED <<req, witness, approvals, rules>>
    PROVE  VouchInv'
  BY DEF VouchInv, Vouches, Finishes

(* An idle request writes nothing. *)
LEMMA IdleVouches == ASSUME NEW b PROVE Vouches(Idle, b)
  BY DEF Vouches, Idle, Open

(* A request that has only read a row. *)
LEMMA VouchLoad ==
    ASSUME DeadlineInv, VouchInv, NEW r \in Requests, NEW t \in Tasks, NEW a \in Actors,
           Load(r, t, a)
    PROVE  VouchInv'
<1> DEFINE q == [stage |-> "loaded", actor |-> a, task |-> t, old |-> row[t]]
<1>1. /\ req' = [o \in Requests |-> IF o = r THEN q ELSE req[o]]
      /\ witness' = [witness EXCEPT ![r] = "approved" \in approvals[t]]
      /\ UNCHANGED <<approvals, rules>>
  BY DEF Load, DeadlineInv
<1>2. witness' \in [Requests -> BOOLEAN]
  BY <1>1 DEF VouchInv
<1>3. ASSUME NEW o \in Requests PROVE Vouches(req[o], witness[o])'
  <2>1. CASE o = r
    <3>1. req'[o] = q /\ (witness'[o] <=> "approved" \in approvals[t])
      BY <1>1, <2>1 DEF VouchInv
    <3> QED
      BY <1>1, <3>1 DEF Vouches, Finishes
  <2>2. CASE o # r
    <3>1. req'[o] = req[o] /\ (witness'[o] <=> witness[o])
      BY <1>1, <2>2 DEF VouchInv
    <3> QED
      BY <1>1, <3>1 DEF VouchInv, Vouches, Finishes
  <2> QED
    BY <2>1, <2>2
<1> QED
  BY <1>1, <1>2, <1>3 DEF VouchInv

(* Only a permitted change of status finishes a task. *)
LEMMA VouchDecide ==
    ASSUME DeadlineInv, VouchInv, NEW r \in Requests, NEW p \in Patches, Decide(r, p)
    PROVE  VouchInv'
<1>1. PICK new \in RowsFor(req[r].actor, req[r].task, req[r].old, p) :
        Becomes(r, [stage |-> "decided", actor |-> req[r].actor, task |-> req[r].task,
                    old |-> req[r].old, new |-> new,
                    moves |-> p.status \notin {"keep", req[r].old.status}
                                /\ new.status # req[r].old.status,
                    cut |-> IF p.edges = <<>> THEN {} ELSE deps[req[r].task],
                    added |-> IF p.edges = <<>> THEN {} ELSE p.edges[1]])
  BY DEF Decide
<1> DEFINE q == [stage |-> "decided", actor |-> req[r].actor, task |-> req[r].task,
                 old |-> req[r].old, new |-> new,
                 moves |-> p.status \notin {"keep", req[r].old.status}
                             /\ new.status # req[r].old.status,
                 cut |-> IF p.edges = <<>> THEN {} ELSE deps[req[r].task],
                 added |-> IF p.edges = <<>> THEN {} ELSE p.edges[1]]
<1>2. req[r].stage = "loaded" /\ Vouches(req[r], witness[r]) /\ UNCHANGED <<approvals, rules>>
  BY DEF Decide, VouchInv
<1>3. Vouches(q, witness[r])
  BY <1>2 DEF Vouches, Open
<1> HIDE DEF q
<1> QED
  BY <1>1, <1>2, <1>3, VouchRequest DEF q

(* The gate: who finishes the task has read an approval. *)
LEMMA VouchGate ==
    ASSUME DeadlineInv, VouchInv, NEW r \in Requests, Gate(r)
    PROVE  VouchInv'
<1> DEFINE old == req[r].old
           new == Tracked(old, req[r].new)
           u == UpdateTo(old, new)
           q == [stage |-> "gated", actor |-> req[r].actor, task |-> req[r].task,
                 wasDone |-> old.status = "done",
                 reopens |-> Reopens(old, new), enters |-> Enters(old, new),
                 update |-> u, cut |-> req[r].cut, added |-> req[r].added, resets |-> <<>>]
<1>1. /\ req[r].stage = "decided" /\ Vouches(req[r], witness[r])
      /\ UNCHANGED <<approvals, rules>>
      /\ (GatesOpen(req[r]) /\ Becomes(r, q)) \/ Becomes(r, Idle)
  BY DEF Gate, VouchInv, Ends
<1>2. IsRow(req[r].new)
  BY <1>1 DEF DeadlineInv, RequestSound
<1>3. new.status = req[r].new.status
  BY <1>2 DEF Tracked, IsRow, Fields
<1>4. Finishes(u) => new.status = "done" /\ old.status # "done"
  <2>1. "status" \in DOMAIN u => new.status # old.status /\ u.status = new.status
    BY DEF UpdateTo, Fields
  <2> QED
    BY <2>1 DEF Finishes
<1>5. CASE GatesOpen(req[r]) /\ Becomes(r, q)
  <2>1. Finishes(u) /\ "approval" \in rules => "approved" \in approvals[req[r].task]
    BY <1>3, <1>4, <1>5 DEF GatesOpen
  <2>2. "approved" \in approvals[req[r].task] => witness[r]
    BY <1>1 DEF Vouches, Open
  <2> HIDE DEF u
  <2>3. Vouches(q, witness[r])
    BY <1>1, <2>1, <2>2 DEF Vouches, Open
  <2> HIDE DEF q
  <2> QED
    BY <1>1, <1>5, <2>3, VouchRequest
<1> HIDE DEF q
<1> QED
  BY <1>1, <1>5, IdleVouches, VouchRequest

(* A reset never finishes a task. *)
LEMMA ResetsFinishNothing ==
    ASSUME NEW t, NEW d \in DOMAIN ResetsFor(t)
    PROVE  ~Finishes(ResetsFor(t)[d])
  BY DEF ResetsFor, Finishes, Unclaimed

(* Planning the resets changes nothing of what is vouched for. *)
LEMMA VouchReadDependents ==
    ASSUME DeadlineInv, VouchInv, NEW r \in Requests, ReadDependents(r)
    PROVE  VouchInv'
<1> DEFINE q == [req[r] EXCEPT !.stage = "cascading", !.resets = ResetsFor(req[r].task)]
<1>1. /\ req[r].stage = "gated" /\ Vouches(req[r], witness[r])
      /\ Becomes(r, q) /\ UNCHANGED <<approvals, rules>>
  BY DEF ReadDependents, VouchInv
<1>2. Vouches(q, witness[r])
  BY <1>1, ResetsFinishNothing DEF Vouches, Open
<1> HIDE DEF q
<1> QED
  BY <1>1, <1>2, VouchRequest

(* A request that is over has nothing to vouch for, but for the resets.    *)
LEMMA VouchOver ==
    ASSUME NEW q, NEW b, q.stage \notin Open,
           q.stage = "resetting" => \A d \in DOMAIN q.resets : ~Finishes(q.resets[d])
    PROVE  Vouches(q, b)
  BY DEF Vouches, Open

(* Nor does planning them after a reopening. *)
LEMMA VouchReadDependentsLater ==
    ASSUME DeadlineInv, VouchInv, NEW r \in Requests, ReadDependentsLater(r)
    PROVE  VouchInv'
<1> DEFINE q == [stage |-> "resetting", resets |-> ResetsFor(req[r].task)]
<1>1. Becomes(r, q) /\ UNCHANGED <<approvals, rules>>
  BY DEF ReadDependentsLater
<1>2. Vouches(q, witness[r])
  BY VouchOver, ResetsFinishNothing DEF Open
<1> HIDE DEF q
<1> QED
  BY <1>1, <1>2, VouchRequest

(* A request that is over vouches for nothing. *)
LEMMA VouchEnd ==
    ASSUME DeadlineInv, VouchInv, NEW r \in Requests,
           Refuse(r) \/ Commit(r) \/ Schedule(r) \/ CommitResets(r) \/ RequestDies(r)
    PROVE  VouchInv'
<1> DEFINE saved == [stage |-> "saved", actor |-> req[r].actor, task |-> req[r].task,
                     wasDone |-> req[r].wasDone, enters |-> req[r].enters]
           reopened == [stage |-> "reopened", task |-> req[r].task]
<1>1. /\ Becomes(r, Idle) \/ Becomes(r, saved) \/ Becomes(r, reopened)
      /\ UNCHANGED <<approvals, rules>>
  BY DEF Refuse, Commit, Schedule, CommitResets, RequestDies, Ends
<1>2. Vouches(saved, witness[r]) /\ Vouches(reopened, witness[r])
  BY DEF Vouches, Open
<1> HIDE DEF saved, reopened
<1> QED
  BY <1>1, <1>2, IdleVouches, VouchRequest

(* A new approval is noted by every request on its task. *)
LEMMA VouchApprovals ==
    ASSUME VouchInv, NEW t \in Tasks, ApprovalsChange(t)
    PROVE  VouchInv'
<1>1. PICK s : /\ approvals' = [approvals EXCEPT ![t] = s]
               /\ witness' = [r \in Requests |->
                    \/ witness[r]
                    \/ req[r].stage \in Open /\ req[r].task = t /\ "approved" \in s]
  BY DEF ApprovalsChange
<1>2. approvals' = [o \in Tasks |-> IF o = t THEN s ELSE approvals[o]]
  BY <1>1 DEF VouchInv
<1>3. witness' \in [Requests -> BOOLEAN] /\ UNCHANGED <<req, rules>>
  BY <1>1 DEF ApprovalsChange
<1>4. ASSUME NEW r \in Requests PROVE Vouches(req[r], witness[r])'
  <2>1. Vouches(req[r], witness[r])
    BY DEF VouchInv
  <2>2. /\ witness[r] => witness'[r]
        /\ req[r].stage \in Open /\ req[r].task = t /\ "approved" \in s => witness'[r]
    BY <1>1
  <2>3. req[r].stage \in Open /\ "approved" \in approvals'[req[r].task] => witness'[r]
    <3>1. CASE req[r].task = t
      BY <1>2, <2>2, <3>1
    <3>2. CASE req[r].task # t
      BY <1>2, <2>1, <2>2, <3>2 DEF Vouches
    <3> QED
      BY <3>1, <3>2
  <2> QED
    BY <1>3, <2>1, <2>2, <2>3 DEF Vouches, Finishes
<1> QED
  BY <1>2, <1>3, <1>4 DEF VouchInv

(* No request has begun. *)
LEMMA InitVouch == Init => VouchInv
<1> SUFFICES ASSUME Init PROVE VouchInv
  OBVIOUS
<1>1. witness \in [Requests -> BOOLEAN] /\ approvals = [t \in Tasks |-> approvals[t]]
  BY DEF Init
<1>2. ASSUME NEW r \in Requests PROVE Vouches(req[r], witness[r])
  BY IdleVouches DEF Init
<1> QED
  BY <1>1, <1>2 DEF VouchInv

(* Every step keeps what requests vouch for. *)
LEMMA NextVouch == DeadlineInv /\ VouchInv /\ [Next]_vars => VouchInv'
<1> SUFFICES ASSUME DeadlineInv, VouchInv, [Next]_vars PROVE VouchInv'
  OBVIOUS
<1>1. ASSUME NEW r \in Requests, NEW t \in Tasks, NEW a \in Actors, Load(r, t, a)
      PROVE  VouchInv'
  BY <1>1, VouchLoad
<1>2. ASSUME NEW r \in Requests, Continue(r) \/ RequestDies(r) PROVE VouchInv'
  BY <1>2, VouchDecide, VouchGate, VouchReadDependents, VouchReadDependentsLater, VouchEnd
     DEF Continue
<1>3. ASSUME NEW w \in Workers, NEW t \in Tasks, Receive(w, t) \/ PostponeFails(w, t)
      PROVE  VouchInv'
  <2>1. UNCHANGED <<req, witness, approvals, rules>>
    BY <1>3 DEF Receive, Discard, Postpone, FindOverdue, PostponeFails, vars
  <2> QED
    BY <2>1, VouchQuiet
<1>4. ASSUME NEW w \in Workers, Handle(w) \/ WorkerDies(w) PROVE VouchInv'
  <2>1. UNCHANGED <<req, witness, approvals, rules>>
    BY <1>4 DEF Handle, Nudge, Reassign, CheckAgain, WorkerDies
  <2> QED
    BY <2>1, VouchQuiet
<1>5. ASSUME NEW t \in Tasks, DeadlinePasses(t) PROVE VouchInv'
  BY <1>5, VouchQuiet DEF DeadlinePasses
<1>6. ASSUME NEW t \in Tasks, ApprovalsChange(t) PROVE VouchInv'
  BY <1>6, VouchApprovals
<1>7. CASE UNCHANGED vars
  BY <1>7, VouchQuiet DEF vars
<1> QED
  BY <1>1, <1>2, <1>3, <1>4, <1>5, <1>6, <1>7 DEF Next

-----------------------------------------------------------------------------
(* Which steps make a task done. *)

Vouched(t) ==
    \E r \in Requests :
        req[r].stage \in {"gated", "cascading"} /\ req[r].task = t /\ witness[r]

(* The step that makes a task done. *)
BecomesDone(t) == row[t].status # "done" /\ row'[t].status = "done"

(* Only an UPDATE that finishes makes a row done. *)
LEMMA MergeFinishes ==
    ASSUME NEW n, NEW u
    PROVE  Merged(n, u).status = "done" => n.status = "done" \/ Finishes(u)
  BY DEF Merged, Fields, Finishes

(* Resets make no task done. *)
LEMMA ResetFinishes ==
    ASSUME NEW rows, NEW resets, \A d \in DOMAIN resets : ~Finishes(resets[d]),
           NEW t \in Tasks, Reset(rows, resets)[t].status = "done"
    PROVE  rows[t].status = "done"
<1>1. Reset(rows, resets)[t]
        = IF t \in DOMAIN resets THEN Merged(rows[t], resets[t]) ELSE rows[t]
  BY DEF Reset
<1> QED
  BY <1>1, MergeFinishes

(* A COMMIT makes only the task of its request done. *)
LEMMA CommitFinishes ==
    ASSUME DeadlineInv, VouchInv, NEW r \in Requests, Commit(r), "approval" \in rules,
           NEW t \in Tasks, BecomesDone(t)
    PROVE  Vouched(t)
<1> DEFINE q == req[r]
           written == [row EXCEPT ![q.task] = Merged(@, q.update)]
<1>1. q.stage \in {"gated", "cascading"} /\ Vouches(q, witness[r])
  BY DEF Commit, VouchInv
<1>2. row' = Reset(written, q.resets)
  BY DEF Commit, BecomesDone
<1>3. written = [o \in Tasks |-> IF o = q.task THEN Merged(row[o], q.update) ELSE row[o]]
  BY DEF DeadlineInv
<1>4. \A d \in DOMAIN q.resets : ~Finishes(q.resets[d])
  BY <1>1 DEF Vouches
<1> HIDE DEF written
<1>5. written[t].status = "done"
  BY <1>2, <1>4, ResetFinishes DEF BecomesDone
<1>6. q.task = t /\ Finishes(q.update)
  BY <1>3, <1>5, MergeFinishes DEF BecomesDone
<1>7. witness[r]
  BY <1>1, <1>6 DEF Vouches
<1> QED
  BY <1>1, <1>6, <1>7 DEF Vouched

(* The resets of a reopening make none done. *)
LEMMA ResetsFinish ==
    ASSUME VouchInv, NEW r \in Requests, CommitResets(r), NEW t \in Tasks
    PROVE  ~BecomesDone(t)
<1>1. \A d \in DOMAIN req[r].resets : ~Finishes(req[r].resets[d])
  BY DEF VouchInv, Vouches, CommitResets
<1>2. row' = Reset(row, req[r].resets)
  BY DEF CommitResets
<1> QED
  BY <1>1, <1>2, ResetFinishes DEF BecomesDone

(* A worker makes none done. *)
LEMMA WorkerFinishes ==
    ASSUME DeadlineInv, NEW w \in Workers, Nudge(w) \/ Reassign(w), NEW t \in Tasks
    PROVE  ~BecomesDone(t)
<1> DEFINE j == worker[w]
<1>1. ASSUME NEW u, ~Finishes(u), row' = [row EXCEPT ![j.task] = Merged(@, u)]
      PROVE  ~BecomesDone(t)
  <2>1. row'[t] = IF t = j.task THEN Merged(row[t], u) ELSE row[t]
    BY <1>1 DEF DeadlineInv
  <2> QED
    BY <1>1, <2>1, MergeFinishes DEF BecomesDone
<1>2. CASE Nudge(w)
  <2>1. ~Finishes(NextMiss(j.old))
    BY DEF Finishes, NextMiss
  <2> QED
    BY <1>1, <1>2, <2>1 DEF Nudge
<1>3. CASE Reassign(w)
  <2>1. PICK owner \in {"none", "worker"} :
          row' = [row EXCEPT ![j.task] =
                    Merged(@, UpdateTo(j.old, [status |-> "inbox", assigned |-> owner,
                                               due |-> "none", misses |-> j.old.misses + 1]))]
    BY <1>3 DEF Reassign
  <2> DEFINE u == UpdateTo(j.old, [status |-> "inbox", assigned |-> owner,
                                   due |-> "none", misses |-> j.old.misses + 1])
  <2>2. ~Finishes(u)
    BY DEF UpdateTo, Finishes, Fields
  <2> HIDE DEF u
  <2>3. row' = [row EXCEPT ![j.task] = Merged(@, u)]
    BY <2>1 DEF u
  <2> QED
    BY <1>1, <2>2, <2>3
<1> QED
  BY <1>2, <1>3

(* Nor does a deadline. *)
LEMMA DeadlineFinishes ==
    ASSUME DeadlineInv, NEW o \in Tasks, DeadlinePasses(o), NEW t \in Tasks
    PROVE  ~BecomesDone(t)
<1>1. row'[t] = IF t = o THEN [row[t] EXCEPT !.due = "past"] ELSE row[t]
  BY DEF DeadlinePasses, DeadlineInv
<1>2. [row[t] EXCEPT !.due = "past"].status = row[t].status
  BY DEF DeadlineInv, RowsSound, IsRow, Fields
<1> QED
  BY <1>1, <1>2 DEF BecomesDone

(* Whoever makes a task done has vouched for it. *)
LEMMA StepVouched ==
    ASSUME DeadlineInv, VouchInv, [Next]_vars, "approval" \in rules,
           NEW t \in Tasks, BecomesDone(t)
    PROVE  Vouched(t)
<1>1. ASSUME NEW r \in Requests, Commit(r) PROVE Vouched(t)
  BY <1>1, CommitFinishes
<1>2. ASSUME NEW r \in Requests, CommitResets(r) PROVE FALSE
  BY <1>2, ResetsFinish
<1>3. ASSUME NEW w \in Workers, Nudge(w) \/ Reassign(w) PROVE FALSE
  BY <1>3, WorkerFinishes
<1>4. ASSUME NEW o \in Tasks, DeadlinePasses(o) PROVE FALSE
  BY <1>4, DeadlineFinishes
<1>5. ~UNCHANGED row
  BY DEF BecomesDone
<1>6. ASSUME NEW r \in Requests,
             (\E o \in Tasks, a \in Actors : Load(r, o, a)) \/ Continue(r) \/ RequestDies(r)
      PROVE  Commit(r) \/ CommitResets(r)
  BY <1>5, <1>6 DEF Load, Continue, Decide, Refuse, Gate, ReadDependents, Schedule,
     ReadDependentsLater, RequestDies
<1>7. ASSUME NEW w \in Workers,
             (\E o \in Tasks : Receive(w, o) \/ PostponeFails(w, o)) \/ Handle(w) \/ WorkerDies(w)
      PROVE  Nudge(w) \/ Reassign(w)
  BY <1>5, <1>7 DEF Receive, Discard, Postpone, FindOverdue, PostponeFails, Handle, CheckAgain,
     WorkerDies, vars
<1>8. ~ \E o \in Tasks : ApprovalsChange(o)
  BY <1>5 DEF ApprovalsChange
<1> QED
  BY <1>1, <1>2, <1>3, <1>4, <1>5, <1>6, <1>7, <1>8 DEF Next, vars

(* On a board that requires approval a task becomes done only by a request *)
(* during which an approved approval of the task existed.                  *)
THEOREM DoneVouched == Spec => DoneIsVouched
<1>1. Spec => []VouchInv
  BY InitVouch, NextVouch, DeadlineInvariance, PTL DEF Spec
<1>2. DeadlineInv /\ VouchInv /\ [Next]_vars =>
        [\A t \in Tasks :
           row[t].status # "done" /\ row'[t].status = "done" /\ "approval" \in rules =>
             \E r \in Requests :
               req[r].stage \in {"gated", "cascading"} /\ req[r].task = t /\ witness[r]]_vars
  BY StepVouched DEF Vouched, BecomesDone
<1> QED
  BY <1>1, <1>2, DeadlineInvariance, PTL DEF Spec, DoneIsVouched

-----------------------------------------------------------------------------
(***************************************************************************)
(* Types.  What the rules, review tracking and the SLA worker make of a    *)
(* row is a row, and an UPDATE made of the difference of two rows keeps    *)
(* every row one.  A request is the only one between flush and COMMIT of a *)
(* task because its flush waits for the lock.                              *)
(***************************************************************************)
UpdateTyped(u) ==
    /\ "status" \in DOMAIN u => u.status \in Status
    /\ "assigned" \in DOMAIN u => u.assigned \in Holders
    /\ "due" \in DOMAIN u => u.due \in {"none", "ahead", "past"}
    /\ "misses" \in DOMAIN u => u.misses \in Nat

(* What a request holds at each of its stages. *)
RequestTyped(q) ==
    /\ q.stage \in Open \cup {"idle", "saved", "reopened", "resetting"}
    /\ q.stage \in Open \cup {"saved", "reopened"} => q.task \in Tasks
    /\ q.stage = "loaded" => q.actor \in Actors
    /\ q.stage \in {"loaded", "decided"} => q.old \in Rows
    /\ q.stage = "decided" => q.new \in Rows
    /\ q.stage \in {"gated", "cascading"} => UpdateTyped(q.update)
    /\ q.stage \in {"decided", "gated", "cascading"} => q.added \subseteq Tasks
    /\ q.stage \in {"gated", "cascading", "resetting"} =>
         \A d \in DOMAIN q.resets : UpdateTyped(q.resets[d])

(* What a worker holds at each of its stages. *)
WorkerTyped(j) ==
    /\ j.stage \in {"idle", "overdue", "nudged"}
    /\ j.stage # "idle" => j.task \in Tasks
    /\ j.stage = "overdue" => j.old \in Rows

(* At most one request has flushed an UPDATE of a task and not committed. *)
OneFlushes == \A t \in Tasks, r, o \in Requests : Locks(r, t) /\ Locks(o, t) => r = o

(* The tables, the queue and the bounds. *)
TablesTyped ==
    /\ rules \in RuleSets
    /\ row \in [Tasks -> Rows]
    /\ deps \in [Tasks -> SUBSET Tasks]
    /\ approvals \in [Tasks -> SUBSET {"pending", "approved"}]
    /\ queue \in [Tasks -> Nat] /\ faults \in Nat

(* The inductive strengthening of the type invariant. *)
BoardTyped ==
    /\ TablesTyped /\ OneFlushes
    /\ req = [r \in Requests |-> req[r]] /\ \A r \in Requests : RequestTyped(req[r])
    /\ worker = [w \in Workers |-> worker[w]] /\ \A w \in Workers : WorkerTyped(worker[w])

(***************************************************************************)
(* The watch over reviews.  Only the COMMIT of a request that is to queue  *)
(* a check brings a task into review.                                      *)
(***************************************************************************)
MovesInKnowingly(q) ==
    /\ /\ q.stage \in {"gated", "cascading"}
       /\ "status" \in DOMAIN q.update /\ q.update.status = "review"
       => q.enters
    /\ q.stage \in {"gated", "cascading", "resetting"} =>
         \A d \in DOMAIN q.resets :
            ~("status" \in DOMAIN q.resets[d] /\ q.resets[d].status = "review")

(* The watch over reviews, with what requests will queue. *)
SlaInv == ReviewIsWatched /\ \A r \in Requests : MovesInKnowingly(req[r])

(* The columns of a row. *)
LEMMA RowColumns ==
    ASSUME NEW n \in Rows
    PROVE  /\ n.status \in Status /\ n.assigned \in Holders
           /\ n.due \in {"none", "ahead", "past"} /\ n.misses \in Nat
  BY DEF Rows

(* A typed row is a record of the columns. *)
LEMMA RowOf ==
    ASSUME NEW n, n = [f \in Fields |-> n[f]],
           n.status \in Status, n.assigned \in Holders,
           n.due \in {"none", "ahead", "past"}, n.misses \in Nat
    PROVE  n \in Rows
<1>1. n = [status |-> n.status, assigned |-> n.assigned, due |-> n.due, misses |-> n.misses]
  BY DEF Fields
<1> QED
  BY <1>1 DEF Rows

(* An UPDATE of such columns makes a row of a row. *)
LEMMA MergeTyped ==
    ASSUME NEW n \in Rows, NEW u, UpdateTyped(u)
    PROVE  Merged(n, u) \in Rows
<1> DEFINE m == Merged(n, u)
<1>1. m = [f \in Fields |-> m[f]]
  BY DEF Merged
<1>2. /\ m.status = IF "status" \in DOMAIN u THEN u.status ELSE n.status
      /\ m.assigned = IF "assigned" \in DOMAIN u THEN u.assigned ELSE n.assigned
      /\ m.due = IF "due" \in DOMAIN u THEN u.due ELSE n.due
      /\ m.misses = IF "misses" \in DOMAIN u THEN u.misses ELSE n.misses
  BY DEF Merged, Fields
<1> HIDE DEF m
<1>3. /\ m.status \in Status /\ m.assigned \in Holders
      /\ m.due \in {"none", "ahead", "past"} /\ m.misses \in Nat
  BY <1>2, RowColumns DEF UpdateTyped
<1>4. m \in Rows
  BY <1>1, <1>3, RowOf
<1> QED
  BY <1>4 DEF m

(* The columns in which two rows differ. *)
LEMMA DifferenceTyped ==
    ASSUME NEW old, NEW new \in Rows
    PROVE  UpdateTyped(UpdateTo(old, new))
<1> DEFINE u == UpdateTo(old, new)
<1>1. DOMAIN u \subseteq Fields /\ \A f \in DOMAIN u : u[f] = new[f]
  BY DEF UpdateTo
<1> HIDE DEF u
<1>2. UpdateTyped(u)
  BY <1>1, RowColumns DEF UpdateTyped
<1> QED
  BY <1>2 DEF u

(* The rules of the actors make a row of a row. *)
LEMMA RulesTyped ==
    ASSUME NEW actor \in {"admin", "lead", "agent"}, NEW t, NEW p \in Patches,
           NEW old \in Rows, NEW new \in RowsFor(actor, t, old, p)
    PROVE  new \in Rows
<1>1. /\ p.status \in Status \cup {"keep"} /\ p.assign \in {"keep", "none", "worker"}
      /\ old.status \in Status /\ old.assigned \in Holders
  BY BoardAssumption, RowColumns DEF Patches
<1>2. ASSUME NEW s \in Status, NEW h \in Holders, NEW n, n = [old EXCEPT !.status = s, !.assigned = h]
      PROVE  n \in Rows
  BY <1>2 DEF Rows
<1>3. \E s \in Status, h \in Holders : new = [old EXCEPT !.status = s, !.assigned = h]
  <2>1. CASE actor = "lead"
    <3>1. new \in LeadRows(t, old, p)
      BY <2>1 DEF RowsFor
    <3> DEFINE held == IF p.assign = "keep" THEN old.assigned ELSE p.assign
               moves == p.status \notin {"keep", old.status}
               holders == CASE ~moves -> {held}
                            [] moves /\ p.status = "inbox" /\ old.status = "review" -> {"none", "worker"}
                            [] moves /\ p.status \in {"inbox", "review"} /\ old.status # "review" -> {"none"}
                            [] OTHER -> {held}
    <3>2. PICK h \in holders : new = [old EXCEPT !.status = IF moves THEN p.status ELSE @, !.assigned = h]
      BY <3>1 DEF LeadRows
    <3>3. held \in Holders
      BY <1>1 DEF Holders
    <3>4. h \in Holders
      <4> HIDE DEF held, moves
      <4> QED
        BY <3>2, <3>3 DEF Holders
    <3>5. (IF moves THEN p.status ELSE old.status) \in Status
      BY <1>1
    <3> HIDE DEF held, moves, holders
    <3> QED
      BY <3>2, <3>4, <3>5
  <2>2. CASE actor = "agent"
    <3>1. new \in AgentRows(t, old, p)
      BY <2>2 DEF RowsFor
    <3> DEFINE holder == CASE p.status = "keep" -> old.assigned
                           [] p.status \in {"inbox", "review"} -> "none"
                           [] OTHER -> "worker"
    <3>2. new = [old EXCEPT !.status = IF p.status = "keep" THEN @ ELSE p.status,
                            !.assigned = holder]
      BY <3>1 DEF AgentRows
    <3>3. holder \in Holders
      BY <1>1 DEF Holders
    <3>4. (IF p.status = "keep" THEN old.status ELSE p.status) \in Status
      BY <1>1
    <3> HIDE DEF holder
    <3> QED
      BY <3>2, <3>3, <3>4
  <2>3. CASE actor = "admin"
    <3>1. new \in AdminRows(t, old, p)
      BY <2>3 DEF RowsFor
    <3> DEFINE target == IF p.status = "keep" THEN old.status ELSE p.status
               reset == Blocked(Effective(t, p)) /\ ~(old.status = "done" /\ target = "done")
               holder == CASE p.assign # "keep" -> p.assign
                           [] p.assign = "keep" /\ p.status \in {"inbox", "review"} -> "none"
                           [] OTHER -> old.assigned
    <3>2. new = IF reset THEN [old EXCEPT !.status = "inbox", !.assigned = "none"]
                         ELSE [old EXCEPT !.status = target, !.assigned = holder]
      BY <3>1 DEF AdminRows
    <3>3. holder \in Holders /\ "none" \in Holders
      BY <1>1 DEF Holders
    <3>4. target \in Status /\ "inbox" \in Status
      BY <1>1 DEF Status
    <3> HIDE DEF target, reset, holder
    <3> QED
      BY <3>2, <3>3, <3>4
  <2> QED
    BY <2>1, <2>2, <2>3
<1> QED
  BY <1>2, <1>3

(* Review tracking makes a row of a row. *)
LEMMA TrackingTyped ==
    ASSUME NEW old, NEW new \in Rows
    PROVE  Tracked(old, new) \in Rows
<1>1. /\ [new EXCEPT !.assigned = IF "lead" \in Actors THEN "lead" ELSE @,
                      !.due = "ahead", !.misses = 0] \in Rows
      /\ [new EXCEPT !.due = "none", !.misses = 0] \in Rows
  BY DEF Rows, Holders
<1> QED
  BY <1>1 DEF Tracked

(* A reset is an UPDATE to the inbox. *)
LEMMA ResetsTyped ==
    ASSUME NEW t
    PROVE  \A d \in DOMAIN ResetsFor(t) :
             /\ UpdateTyped(ResetsFor(t)[d])
             /\ ~("status" \in DOMAIN ResetsFor(t)[d] /\ ResetsFor(t)[d].status = "review")
<1>1. ASSUME NEW d \in DOMAIN ResetsFor(t)
      PROVE  LET u == ResetsFor(t)[d] IN
             DOMAIN u \subseteq {"status", "assigned"} /\ \A f \in DOMAIN u : u[f] = Unclaimed[f]
  BY DEF ResetsFor
<1>2. ASSUME NEW u, DOMAIN u \subseteq {"status", "assigned"}, \A f \in DOMAIN u : u[f] = Unclaimed[f]
      PROVE  UpdateTyped(u) /\ ~("status" \in DOMAIN u /\ u.status = "review")
  BY <1>2 DEF UpdateTyped, Unclaimed, Status, Holders
<1> QED
  BY <1>1, <1>2

(* Resets of rows are rows. *)
LEMMA ResetTyped ==
    ASSUME NEW rows \in [Tasks -> Rows], NEW resets, \A d \in DOMAIN resets : UpdateTyped(resets[d])
    PROVE  Reset(rows, resets) \in [Tasks -> Rows]
  BY MergeTyped DEF Reset

(* A step of one request, which flushes only a row that nobody else has. *)
LEMMA TypedRequest ==
    ASSUME BoardTyped, NEW r \in Requests, NEW q, RequestTyped(q), Becomes(r, q),
           q.stage \in {"gated", "cascading"} /\ q.update # <<>> => FreeFor(r, q.task),
           UNCHANGED worker, TablesTyped'
    PROVE  BoardTyped'
<1>1. req' = [o \in Requests |-> IF o = r THEN q ELSE req[o]]
  BY DEF BoardTyped, Becomes
<1>2. \A o \in Requests : RequestTyped(req[o])'
  BY <1>1 DEF BoardTyped, RequestTyped
<1>3. OneFlushes'
  BY <1>1 DEF BoardTyped, OneFlushes, Locks, FreeFor
<1>4. \A w \in Workers : WorkerTyped(worker[w])'
  BY DEF BoardTyped, WorkerTyped
<1> QED
  BY <1>1, <1>2, <1>3, <1>4 DEF BoardTyped

(* A worker that takes a typed step. *)
LEMMA TypedWorker ==
    ASSUME BoardTyped, NEW w \in Workers, NEW j, WorkerTyped(j),
           worker' = [worker EXCEPT ![w] = j], UNCHANGED req, TablesTyped'
    PROVE  BoardTyped'
<1>1. worker' = [o \in Workers |-> IF o = w THEN j ELSE worker[o]]
  BY DEF BoardTyped
<1>2. \A o \in Workers : WorkerTyped(worker[o])'
  BY <1>1 DEF BoardTyped, WorkerTyped
<1>3. OneFlushes' /\ \A r \in Requests : RequestTyped(req[r])'
  BY DEF BoardTyped, OneFlushes, Locks, RequestTyped
<1> QED
  BY <1>1, <1>2, <1>3 DEF BoardTyped

(* An idle request or worker is typed. *)
LEMMA IdleTyped == RequestTyped(Idle) /\ WorkerTyped(Idle) /\ Idle.stage = "idle"
  BY DEF RequestTyped, WorkerTyped, Idle, Open

(* The initial states are typed. *)
LEMMA InitBoardTyped == Init => BoardTyped
<1> SUFFICES ASSUME Init PROVE BoardTyped
  OBVIOUS
<1>1. PICK start \in Starts : /\ row = [t \in Tasks |-> AtRest(start.status[t])]
                              /\ deps = start.deps
  BY DEF Init
<1>2. start.status \in [Tasks -> Status] /\ start.deps \in [Tasks -> SUBSET Tasks]
  BY BoardAssumption
<1>3. ASSUME NEW s \in Status PROVE AtRest(s) \in Rows
  BY DEF AtRest, Rows, Holders, Status
<1>4. TablesTyped
  <2>1. row \in [Tasks -> Rows] /\ deps \in [Tasks -> SUBSET Tasks]
    BY <1>1, <1>2, <1>3
  <2>2. queue \in [Tasks -> Nat] /\ approvals \in [Tasks -> SUBSET {"pending", "approved"}]
    BY DEF Init
  <2> QED
    BY <2>1, <2>2 DEF Init, TablesTyped
<1>5. \A r \in Requests : req[r] = Idle
  BY DEF Init
<1>6. OneFlushes
  BY <1>5, IdleTyped DEF OneFlushes, Locks
<1> QED
  BY <1>4, <1>5, <1>6, IdleTyped DEF Init, BoardTyped

(* Loading, and the rules of the actor. *)
LEMMA LoadTyped ==
    ASSUME BoardTyped, NEW r \in Requests, NEW t \in Tasks, NEW a \in Actors, Load(r, t, a)
    PROVE  BoardTyped'
<1> DEFINE q == [stage |-> "loaded", actor |-> a, task |-> t, old |-> row[t]]
<1>1. /\ TablesTyped /\ row[t] \in Rows
      /\ UNCHANGED <<rules, row, deps, approvals, queue, worker, faults>>
      /\ req' = [o \in Requests |-> IF o = r THEN q ELSE req[o]]
  BY DEF Load, BoardTyped, TablesTyped
<1>2. RequestTyped(q) /\ q.stage = "loaded"
  BY <1>1 DEF RequestTyped, Open
<1> HIDE DEF q
<1>3. \A o \in Requests : RequestTyped(req[o])'
  BY <1>1, <1>2 DEF BoardTyped, RequestTyped
<1>4. OneFlushes'
  BY <1>1, <1>2 DEF BoardTyped, OneFlushes, Locks
<1>5. TablesTyped' /\ \A w \in Workers : WorkerTyped(worker[w])'
  BY <1>1 DEF BoardTyped, TablesTyped, WorkerTyped
<1> QED
  BY <1>1, <1>3, <1>4, <1>5 DEF BoardTyped

(* The tables do not change when no table is written. *)
LEMMA TablesStay ==
    ASSUME BoardTyped, UNCHANGED <<rules, row, deps, approvals, queue, faults>>
    PROVE  TablesTyped'
  BY DEF BoardTyped, TablesTyped

(* Merging a patch into a row gives a row. *)
LEMMA DecideTyped ==
    ASSUME BoardTyped, NEW r \in Requests, NEW p \in Patches, Decide(r, p)
    PROVE  BoardTyped'
<1>1. PICK new \in RowsFor(req[r].actor, req[r].task, req[r].old, p) :
        Becomes(r, [stage |-> "decided", actor |-> req[r].actor, task |-> req[r].task,
                    old |-> req[r].old, new |-> new,
                    moves |-> p.status \notin {"keep", req[r].old.status}
                                /\ new.status # req[r].old.status,
                    cut |-> IF p.edges = <<>> THEN {} ELSE deps[req[r].task],
                    added |-> IF p.edges = <<>> THEN {} ELSE p.edges[1]])
  BY DEF Decide
<1> DEFINE q == [stage |-> "decided", actor |-> req[r].actor, task |-> req[r].task,
                 old |-> req[r].old, new |-> new,
                 moves |-> p.status \notin {"keep", req[r].old.status}
                             /\ new.status # req[r].old.status,
                 cut |-> IF p.edges = <<>> THEN {} ELSE deps[req[r].task],
                 added |-> IF p.edges = <<>> THEN {} ELSE p.edges[1]]
<1>2. /\ req[r].stage = "loaded" /\ RequestTyped(req[r])
      /\ UNCHANGED <<rules, row, deps, approvals, queue, worker, faults>>
  BY DEF Decide, BoardTyped, bounds
<1>3. /\ req[r].task \in Tasks /\ req[r].old \in Rows
      /\ req[r].actor \in {"admin", "lead", "agent"}
  BY <1>2, BoardAssumption DEF RequestTyped, Open
<1>4. new \in Rows
  BY <1>3, RulesTyped
<1>5. (IF p.edges = <<>> THEN {} ELSE p.edges[1]) \subseteq Tasks
  BY BoardAssumption DEF Patches
<1>6. RequestTyped(q) /\ q.stage = "decided"
  BY <1>3, <1>4, <1>5 DEF RequestTyped, Open
<1> HIDE DEF q
<1>7. Becomes(r, q)
  BY <1>1 DEF q
<1> QED
  BY <1>2, <1>6, <1>7, TablesStay, TypedRequest

(* Flushing. *)
LEMMA GateTyped ==
    ASSUME BoardTyped, NEW r \in Requests, Gate(r)
    PROVE  BoardTyped'
<1> DEFINE old == req[r].old
           new == Tracked(old, req[r].new)
           q == [stage |-> "gated", actor |-> req[r].actor, task |-> req[r].task,
                 wasDone |-> old.status = "done",
                 reopens |-> Reopens(old, new), enters |-> Enters(old, new),
                 update |-> UpdateTo(old, new),
                 cut |-> req[r].cut, added |-> req[r].added, resets |-> <<>>]
<1>1. /\ req[r].stage = "decided" /\ RequestTyped(req[r]) /\ FreeFor(r, req[r].task)
      /\ UNCHANGED <<rules, row, deps, approvals, queue, worker, faults>>
      /\ Becomes(r, q) \/ Becomes(r, Idle)
  BY DEF Gate, BoardTyped, Ends, bounds
<1>2. /\ req[r].task \in Tasks /\ req[r].added \subseteq Tasks
      /\ req[r].new \in Rows
  BY <1>1 DEF RequestTyped, Open
<1>3. UpdateTyped(UpdateTo(old, new))
  BY <1>2, TrackingTyped, DifferenceTyped
<1>4. RequestTyped(q) /\ q.task = req[r].task
  BY <1>2, <1>3 DEF RequestTyped, Open
<1> HIDE DEF q
<1> QED
  BY <1>1, <1>4, IdleTyped, TablesStay, TypedRequest

(* The resets a request plans are UPDATEs of tasks. *)
LEMMA ReadDependentsTyped ==
    ASSUME BoardTyped, NEW r \in Requests, ReadDependents(r)
    PROVE  BoardTyped'
<1> DEFINE q == [req[r] EXCEPT !.stage = "cascading", !.resets = ResetsFor(req[r].task)]
<1>1. /\ req[r].stage = "gated" /\ RequestTyped(req[r]) /\ Becomes(r, q)
      /\ UNCHANGED <<rules, row, deps, approvals, queue, worker, faults>>
  BY DEF ReadDependents, BoardTyped, bounds
<1>2. \A d \in DOMAIN ResetsFor(req[r].task) : UpdateTyped(ResetsFor(req[r].task)[d])
  BY ResetsTyped
<1>3. RequestTyped(q) /\ q.task = req[r].task /\ q.update = req[r].update
  BY <1>1, <1>2 DEF RequestTyped, Open
<1>4. req[r].update # <<>> => FreeFor(r, req[r].task)
  BY <1>1 DEF BoardTyped, OneFlushes, Locks, FreeFor, RequestTyped, Open
<1> HIDE DEF q
<1> QED
  BY <1>1, <1>3, <1>4, TablesStay, TypedRequest

(* The two COMMITs. *)
LEMMA CommitTyped ==
    ASSUME BoardTyped, NEW r \in Requests, Commit(r)
    PROVE  BoardTyped'
<1> DEFINE t == req[r].task
           q == [stage |-> "saved", actor |-> req[r].actor, task |-> t,
                 wasDone |-> req[r].wasDone, enters |-> req[r].enters]
           written == [row EXCEPT ![t] = Merged(@, req[r].update)]
           kept == deps[t] \ req[r].cut
<1>1. /\ TablesTyped /\ t \in Tasks /\ req[r].added \subseteq Tasks
      /\ UpdateTyped(req[r].update)
      /\ \A d \in DOMAIN req[r].resets : UpdateTyped(req[r].resets[d])
      /\ UNCHANGED <<rules, approvals, queue, worker, faults>>
  BY DEF Commit, BoardTyped, RequestTyped, Open, bounds
<1>2. \/ Becomes(r, Idle) /\ UNCHANGED <<row, deps>>
      \/ /\ row' = Reset(written, req[r].resets) /\ Becomes(r, q)
         /\ deps' = [deps EXCEPT ![t] = kept \cup req[r].added]
  BY DEF Commit, Ends
<1>3. CASE Becomes(r, Idle) /\ UNCHANGED <<row, deps>>
  BY <1>1, <1>3, IdleTyped, TablesStay, TypedRequest
<1>4. CASE /\ row' = Reset(written, req[r].resets) /\ Becomes(r, q)
           /\ deps' = [deps EXCEPT ![t] = kept \cup req[r].added]
  <2>1. Merged(row[t], req[r].update) \in Rows
    BY <1>1, MergeTyped DEF TablesTyped
  <2>2. written \in [Tasks -> Rows]
    BY <1>1, <2>1 DEF TablesTyped
  <2> HIDE DEF written
  <2>3. row' \in [Tasks -> Rows]
    BY <1>1, <1>4, <2>2, ResetTyped
  <2>4. kept \cup req[r].added \in SUBSET Tasks
    BY <1>1 DEF TablesTyped
  <2>5. deps' \in [Tasks -> SUBSET Tasks]
    BY <1>1, <1>4, <2>4 DEF TablesTyped
  <2>6. TablesTyped'
    BY <1>1, <2>3, <2>5 DEF TablesTyped
  <2>7. RequestTyped(q) /\ q.stage = "saved"
    BY <1>1 DEF RequestTyped, Open
  <2> HIDE DEF q
  <2> QED
    BY <1>1, <1>4, <2>6, <2>7, TypedRequest
<1> QED
  BY <1>2, <1>3, <1>4

(* The COMMIT of resets writes rows. *)
LEMMA CommitResetsTyped ==
    ASSUME BoardTyped, NEW r \in Requests, CommitResets(r)
    PROVE  BoardTyped'
<1>1. /\ TablesTyped /\ RequestTyped(req[r]) /\ req[r].stage = "resetting"
      /\ row' = Reset(row, req[r].resets) /\ Becomes(r, Idle)
      /\ UNCHANGED <<rules, deps, approvals, queue, worker, faults>>
  BY DEF CommitResets, BoardTyped, Ends, bounds
<1>2. row' \in [Tasks -> Rows]
  BY <1>1, ResetTyped DEF TablesTyped, RequestTyped
<1>3. TablesTyped'
  BY <1>1, <1>2 DEF TablesTyped
<1> QED
  BY <1>1, <1>3, IdleTyped, TypedRequest

(* Queueing a check, or failing to. *)
LEMMA EnqueueTyped ==
    ASSUME TablesTyped, NEW t \in Tasks, Enqueue(t) \/ UNCHANGED <<queue, faults>>
    PROVE  queue' \in [Tasks -> Nat] /\ faults' \in Nat
  BY DEF TablesTyped, Enqueue

(* Taking a check off the queue leaves a count. *)
LEMMA DequeueTyped ==
    ASSUME TablesTyped, NEW t \in Tasks, queue[t] > 0, queue' = Dequeued(t)
    PROVE  queue' \in [Tasks -> Nat]
  BY DEF TablesTyped, Dequeued

(* Queueing a check after the COMMIT. *)
LEMMA ScheduleTyped ==
    ASSUME BoardTyped, NEW r \in Requests, Schedule(r)
    PROVE  BoardTyped'
<1> DEFINE q == [stage |-> "reopened", task |-> req[r].task]
<1>1. /\ req[r].stage = "saved" /\ RequestTyped(req[r]) /\ TablesTyped
      /\ Enqueue(req[r].task) \/ UNCHANGED <<queue, faults>>
      /\ Becomes(r, q) \/ Becomes(r, Idle)
      /\ UNCHANGED <<rules, row, deps, approvals, worker>>
  BY DEF Schedule, BoardTyped, Ends
<1>2. req[r].task \in Tasks
  BY <1>1 DEF RequestTyped
<1>3. TablesTyped'
  BY <1>1, <1>2, EnqueueTyped DEF TablesTyped
<1>4. RequestTyped(q) /\ q.stage = "reopened"
  BY <1>2 DEF RequestTyped, Open
<1> HIDE DEF q
<1> QED
  BY <1>1, <1>3, <1>4, IdleTyped, TypedRequest

(* The resets planned after a reopening. *)
LEMMA ReadDependentsLaterTyped ==
    ASSUME BoardTyped, NEW r \in Requests, ReadDependentsLater(r)
    PROVE  BoardTyped'
<1> DEFINE q == [stage |-> "resetting", resets |-> ResetsFor(req[r].task)]
<1>1. Becomes(r, q) /\ UNCHANGED <<rules, row, deps, approvals, queue, worker, faults>>
  BY DEF ReadDependentsLater, bounds
<1>2. \A d \in DOMAIN ResetsFor(req[r].task) : UpdateTyped(ResetsFor(req[r].task)[d])
  BY ResetsTyped
<1>3. RequestTyped(q) /\ q.stage = "resetting"
  BY <1>2 DEF RequestTyped, Open
<1> HIDE DEF q
<1> QED
  BY <1>1, <1>3, TablesStay, TypedRequest

(* A request refused or dead is idle. *)
LEMMA EndTyped ==
    ASSUME BoardTyped, NEW r \in Requests, Refuse(r) \/ RequestDies(r)
    PROVE  BoardTyped'
<1>1. /\ Becomes(r, Idle) /\ UNCHANGED <<rules, row, deps, approvals, queue, worker>>
      /\ faults' \in {faults, faults + 1}
  BY DEF Refuse, RequestDies, Ends, bounds
<1>2. TablesTyped'
  BY <1>1 DEF BoardTyped, TablesTyped
<1> QED
  BY <1>1, <1>2, IdleTyped, TypedRequest

(* The SLA worker. *)
LEMMA ReceiveTyped ==
    ASSUME BoardTyped, NEW w \in Workers, NEW t \in Tasks, Receive(w, t) \/ PostponeFails(w, t)
    PROVE  BoardTyped'
<1>1. CASE FindOverdue(w, t)
  <2> DEFINE j == [stage |-> "overdue", task |-> t, old |-> row[t]]
  <2>1. /\ worker' = [worker EXCEPT ![w] = j] /\ UNCHANGED req
        /\ UNCHANGED <<rules, row, deps, approvals, faults>>
        /\ queue' \in [Tasks -> Nat]
    BY <1>1, DequeueTyped DEF FindOverdue, BoardTyped, bounds
  <2>2. TablesTyped'
    BY <2>1 DEF BoardTyped, TablesTyped
  <2>3. WorkerTyped(j)
    BY DEF WorkerTyped, BoardTyped, TablesTyped
  <2> HIDE DEF j
  <2> QED
    BY <2>1, <2>2, <2>3, TypedWorker
<1>2. CASE Discard(w, t) \/ Postpone(w, t) \/ PostponeFails(w, t)
  <2>1. /\ UNCHANGED <<rules, row, deps, approvals, req, worker>>
        /\ faults' \in {faults, faults + 1}
        /\ queue' \in [Tasks -> Nat]
    BY <1>2, DequeueTyped DEF Discard, Postpone, PostponeFails, BoardTyped, TablesTyped, bounds, vars
  <2>2. TablesTyped'
    BY <2>1 DEF BoardTyped, TablesTyped
  <2> QED
    BY <2>1, <2>2 DEF BoardTyped, OneFlushes, Locks, RequestTyped, WorkerTyped
<1> QED
  BY <1>1, <1>2 DEF Receive

(* What a worker does with a check it has taken. *)
LEMMA HandleTyped ==
    ASSUME BoardTyped, NEW w \in Workers, Handle(w) \/ WorkerDies(w)
    PROVE  BoardTyped'
<1> DEFINE t == worker[w].task
           old == worker[w].old
<1>0. TablesTyped /\ WorkerTyped(worker[w])
  BY DEF BoardTyped
<1>1. CASE Nudge(w)
  <2> DEFINE j == [stage |-> "nudged", task |-> t]
             u == NextMiss(old)
  <2>1. /\ worker' = [worker EXCEPT ![w] = j] /\ row' = [row EXCEPT ![t] = Merged(@, u)]
        /\ UNCHANGED <<rules, deps, approvals, queue, req, faults>>
        /\ t \in Tasks /\ old \in Rows
    BY <1>0, <1>1 DEF Nudge, WorkerTyped, bounds
  <2>2. UpdateTyped(u)
    BY <2>1, RowColumns DEF NextMiss, UpdateTyped
  <2>3. WorkerTyped(j)
    BY <2>1 DEF WorkerTyped
  <2> HIDE DEF j, u
  <2>4. Merged(row[t], u) \in Rows
    BY <1>0, <2>1, <2>2, MergeTyped DEF TablesTyped
  <2>5. TablesTyped'
    BY <1>0, <2>1, <2>4 DEF TablesTyped
  <2> QED
    BY <2>1, <2>3, <2>5, TypedWorker
<1>2. CASE Reassign(w)
  <2>1. PICK owner \in {"none", "worker"} :
          row' = [row EXCEPT ![t] =
                    Merged(@, UpdateTo(old, [status |-> "inbox", assigned |-> owner,
                                             due |-> "none", misses |-> old.misses + 1]))]
    BY <1>2 DEF Reassign
  <2> DEFINE new == [status |-> "inbox", assigned |-> owner,
                     due |-> "none", misses |-> old.misses + 1]
             u == UpdateTo(old, new)
  <2>2. /\ worker' = [worker EXCEPT ![w] = Idle] /\ t \in Tasks /\ old \in Rows
        /\ UNCHANGED <<rules, deps, approvals, queue, req, faults>>
    BY <1>0, <1>2 DEF Reassign, WorkerTyped, bounds
  <2>3. new \in Rows
    BY <2>2, RowColumns DEF Rows, Status, Holders
  <2>4. UpdateTyped(u)
    BY <2>3, DifferenceTyped
  <2> HIDE DEF new
  <2>5. row' = [row EXCEPT ![t] = Merged(@, u)]
    BY <2>1 DEF new
  <2> HIDE DEF u
  <2>6. Merged(row[t], u) \in Rows
    BY <1>0, <2>2, <2>4, MergeTyped DEF TablesTyped
  <2>7. TablesTyped'
    BY <1>0, <2>2, <2>5, <2>6 DEF TablesTyped
  <2> QED
    BY <2>2, <2>7, IdleTyped, TypedWorker
<1>3. CASE CheckAgain(w) \/ WorkerDies(w)
  <2>1. /\ worker' = [worker EXCEPT ![w] = Idle] /\ UNCHANGED <<rules, row, deps, approvals, req>>
        /\ queue' \in [Tasks -> Nat] /\ faults' \in Nat
    <3>1. CASE CheckAgain(w)
      BY <1>0, <3>1, EnqueueTyped DEF CheckAgain, WorkerTyped
    <3>2. CASE WorkerDies(w)
      BY <1>0, <3>2 DEF WorkerDies, TablesTyped
    <3> QED
      BY <1>3, <3>1, <3>2
  <2>2. TablesTyped'
    BY <1>0, <2>1 DEF TablesTyped
  <2> QED
    BY <2>1, <2>2, IdleTyped, TypedWorker
<1> QED
  BY <1>1, <1>2, <1>3 DEF Handle

(* Deadlines and approvals. *)
LEMMA OutsideTyped ==
    ASSUME BoardTyped, NEW t \in Tasks, DeadlinePasses(t) \/ ApprovalsChange(t)
    PROVE  BoardTyped'
<1>1. UNCHANGED <<rules, deps, queue, req, worker, faults>>
  BY DEF DeadlinePasses, ApprovalsChange, bounds
<1>2. row' \in [Tasks -> Rows]
  <2>1. CASE DeadlinePasses(t)
    <3>1. [row[t] EXCEPT !.due = "past"] \in Rows
      BY DEF BoardTyped, TablesTyped, Rows
    <3> QED
      BY <2>1, <3>1 DEF DeadlinePasses, BoardTyped, TablesTyped
  <2>2. CASE ApprovalsChange(t)
    BY <2>2 DEF ApprovalsChange, BoardTyped, TablesTyped
  <2> QED
    BY <2>1, <2>2
<1>3. approvals' \in [Tasks -> SUBSET {"pending", "approved"}]
  <2>1. CASE DeadlinePasses(t)
    BY <2>1 DEF DeadlinePasses, BoardTyped, TablesTyped
  <2>2. CASE ApprovalsChange(t)
    <3>1. PICK s \in SUBSET {"pending", "approved"} : approvals' = [approvals EXCEPT ![t] = s]
      BY <2>2 DEF ApprovalsChange
    <3> QED
      BY <3>1 DEF BoardTyped, TablesTyped
  <2> QED
    BY <2>1, <2>2
<1>4. TablesTyped'
  BY <1>1, <1>2, <1>3 DEF BoardTyped, TablesTyped
<1> QED
  BY <1>1, <1>4 DEF BoardTyped, OneFlushes, Locks, RequestTyped, WorkerTyped

(* Every step keeps the types. *)
LEMMA NextBoardTyped == BoardTyped /\ [Next]_vars => BoardTyped'
<1> SUFFICES ASSUME BoardTyped, [Next]_vars PROVE BoardTyped'
  OBVIOUS
<1>1. ASSUME NEW r \in Requests, Continue(r) PROVE BoardTyped'
  BY <1>1, DecideTyped, EndTyped, GateTyped, ReadDependentsTyped, CommitTyped, ScheduleTyped,
     ReadDependentsLaterTyped, CommitResetsTyped DEF Continue
<1>2. CASE UNCHANGED vars
  BY <1>2, TablesStay
  DEF vars, bounds, BoardTyped, OneFlushes, Locks, RequestTyped, WorkerTyped
<1> QED
  BY <1>1, <1>2, LoadTyped, EndTyped, ReceiveTyped, HandleTyped, OutsideTyped DEF Next

(* Rows, dependencies, approvals and what requests and workers hold keep   *)
(* their types, and of any number of requests on a task one at a time is   *)
(* between its first flush and its COMMIT.                                 *)
THEOREM BoardKeepsTypes == Spec => []TypeOK
<1>1. BoardTyped => TypeOK
  BY DEF BoardTyped, TablesTyped, OneFlushes, RequestTyped, WorkerTyped, TypeOK
<1>2. Spec => []BoardTyped
  BY InitBoardTyped, NextBoardTyped, PTL DEF Spec
<1> QED
  BY <1>1, <1>2, PTL

-----------------------------------------------------------------------------
(***************************************************************************)
(* The watch over reviews is never lost without a fault.                   *)
(***************************************************************************)
Watching(w, t) == worker[w] # Idle /\ worker[w].task = t
(* A request that has committed an entry into review and not yet queued its check. *)
WillQueue(q, t) == q.stage = "saved" /\ q.task = t /\ q.enters

(* A task with a check queued, in hand, or about to be queued. *)
HasWatch(t) ==
    \/ queue[t] > 0
    \/ \E w \in Workers : Watching(w, t)
    \/ \E r \in Requests : WillQueue(req[r], t)

(* ReviewIsWatched with that name for a watch. *)
LEMMA WatchIs == ReviewIsWatched <=> (faults = 0 => \A t \in Tasks : row[t].status = "review" => HasWatch(t))
  BY DEF ReviewIsWatched, HasWatch, Watching, WillQueue

(* The same, one step later. *)
LEMMA WatchIsNext ==
    (\A t \in Tasks : faults' = 0 /\ row'[t].status = "review" => HasWatch(t)') => ReviewIsWatched'
  BY DEF ReviewIsWatched, HasWatch, Watching, WillQueue

(* A step of one request: a task that it brings into review it will queue  *)
(* a check for, and what it was to queue before it has queued or need not. *)
LEMMA RequestWatches ==
    ASSUME SlaInv, NEW r \in Requests, NEW q, MovesInKnowingly(q),
           req' = [o \in Requests |-> IF o = r THEN q ELSE req[o]],
           faults' = 0 => faults = 0, UNCHANGED worker,
           \A t \in Tasks : queue[t] > 0 => queue'[t] > 0,
           \A t \in Tasks : row'[t].status = "review" => row[t].status = "review" \/ WillQueue(q, t),
           \A t \in Tasks : faults' = 0 /\ row'[t].status = "review" /\ WillQueue(req[r], t)
                              => queue'[t] > 0
    PROVE  SlaInv'
<1>1. \A o \in Requests : MovesInKnowingly(req[o])'
  BY DEF SlaInv, MovesInKnowingly
<1>2. ASSUME NEW t \in Tasks, faults' = 0, row'[t].status = "review" PROVE HasWatch(t)'
  <2>1. CASE WillQueue(q, t)
    BY <2>1 DEF HasWatch, WillQueue
  <2>2. CASE row[t].status = "review"
    <3>1. HasWatch(t)
      BY <1>2, <2>2, WatchIs DEF SlaInv
    <3>2. CASE queue[t] > 0
      BY <3>2 DEF HasWatch
    <3>3. CASE \E w \in Workers : Watching(w, t)
      BY <3>3 DEF HasWatch, Watching
    <3>4. CASE \E o \in Requests : WillQueue(req[o], t)
      <4>1. PICK o \in Requests : WillQueue(req[o], t)
        BY <3>4
      <4>2. CASE o = r
        BY <1>2, <4>1, <4>2 DEF HasWatch
      <4>3. CASE o # r
        BY <4>1, <4>3 DEF HasWatch, WillQueue
      <4> QED
        BY <4>2, <4>3
    <3> QED
      BY <3>1, <3>2, <3>3, <3>4 DEF HasWatch
  <2> QED
    BY <1>2, <2>1, <2>2
<1> QED
  BY <1>1, <1>2, WatchIsNext DEF SlaInv

(* One request changes its state and no other does. *)
LEMMA BecomesIs ==
    ASSUME BoardTyped, NEW r, NEW q, Becomes(r, q)
    PROVE  req' = [o \in Requests |-> IF o = r THEN q ELSE req[o]]
  BY DEF BoardTyped, Becomes

(* A step of a request that is not to queue anything, and writes no row.   *)
LEMMA QuietRequest ==
    ASSUME SlaInv, NEW r \in Requests, NEW q, MovesInKnowingly(q),
           req' = [o \in Requests |-> IF o = r THEN q ELSE req[o]],
           req[r].stage # "saved", UNCHANGED <<row, queue, faults, worker>>
    PROVE  SlaInv'
  BY RequestWatches DEF WillQueue

(* An idle request brings no task into review. *)
LEMMA IdleMovesNothing == MovesInKnowingly(Idle) /\ Idle.stage = "idle"
  BY DEF MovesInKnowingly, Idle

(* What each request is about to write, step by step. *)
LEMMA BeforeFlushWatches ==
    ASSUME BoardTyped, SlaInv, NEW r \in Requests,
           \/ \E t \in Tasks, a \in Actors : Load(r, t, a)
           \/ \E p \in Patches : Decide(r, p)
           \/ Refuse(r)
    PROVE  SlaInv'
<1>1. CASE \E t \in Tasks, a \in Actors : Load(r, t, a)
  <2>1. PICK t \in Tasks, a \in Actors : Load(r, t, a)
    BY <1>1
  <2> DEFINE q == [stage |-> "loaded", actor |-> a, task |-> t, old |-> row[t]]
  <2>2. /\ req[r] = Idle /\ UNCHANGED <<row, queue, faults, worker>>
        /\ req' = [o \in Requests |-> IF o = r THEN q ELSE req[o]]
    BY <2>1 DEF Load, BoardTyped
  <2>3. MovesInKnowingly(q)
    BY DEF MovesInKnowingly
  <2> HIDE DEF q
  <2> QED
    BY <2>2, <2>3, IdleMovesNothing, QuietRequest
<1>2. CASE \E p \in Patches : Decide(r, p)
  <2>1. PICK q : Becomes(r, q) /\ q.stage = "decided"
    BY <1>2 DEF Decide
  <2>2. req[r].stage = "loaded" /\ UNCHANGED <<row, queue, faults, worker>>
    BY <1>2 DEF Decide, bounds
  <2>3. MovesInKnowingly(q)
    BY <2>1 DEF MovesInKnowingly
  <2> QED
    BY <2>1, <2>2, <2>3, BecomesIs, QuietRequest
<1>3. CASE Refuse(r)
  BY <1>3, IdleMovesNothing, BecomesIs, QuietRequest DEF Refuse, Ends, bounds
<1> QED
  BY <1>1, <1>2, <1>3

(* An UPDATE that enters review is one that will queue a check. *)
LEMMA GateWatches ==
    ASSUME BoardTyped, SlaInv, NEW r \in Requests, Gate(r)
    PROVE  SlaInv'
<1> DEFINE old == req[r].old
           new == Tracked(old, req[r].new)
           u == UpdateTo(old, new)
           q == [stage |-> "gated", actor |-> req[r].actor, task |-> req[r].task,
                 wasDone |-> old.status = "done",
                 reopens |-> Reopens(old, new), enters |-> Enters(old, new),
                 update |-> u,
                 cut |-> req[r].cut, added |-> req[r].added, resets |-> <<>>]
<1>1. /\ req[r].stage = "decided" /\ UNCHANGED <<row, queue, faults, worker>>
      /\ Becomes(r, q) \/ Becomes(r, Idle)
  BY DEF Gate, Ends, bounds
<1>2. "status" \in DOMAIN u /\ u.status = "review" => Enters(old, new)
  <2> HIDE DEF old, new
  <2> QED
    BY DEF UpdateTo, Enters
<1>3. q.stage = "gated" /\ q.update = u /\ (q.enters <=> Enters(old, new)) /\ q.resets = <<>>
  <2> HIDE DEF old, new, u
  <2> QED
    OBVIOUS
<1> HIDE DEF q, u, old, new
<1>4. MovesInKnowingly(q)
  BY <1>2, <1>3 DEF MovesInKnowingly
<1> QED
  BY <1>1, <1>4, IdleMovesNothing, BecomesIs, QuietRequest

(* Planning resets brings no task into review. *)
LEMMA ReadWatches ==
    ASSUME BoardTyped, SlaInv, NEW r \in Requests, ReadDependents(r) \/ ReadDependentsLater(r)
    PROVE  SlaInv'
<1> DEFINE t == req[r].task
<1>1. CASE ReadDependents(r)
  <2> DEFINE q == [req[r] EXCEPT !.stage = "cascading", !.resets = ResetsFor(t)]
  <2>1. /\ req[r].stage = "gated" /\ Becomes(r, q) /\ UNCHANGED <<row, queue, faults, worker>>
    BY <1>1 DEF ReadDependents, bounds
  <2>2. MovesInKnowingly(req[r])
    BY DEF SlaInv
  <2>3. MovesInKnowingly(q)
    BY <2>1, <2>2, ResetsTyped DEF MovesInKnowingly
  <2> HIDE DEF q
  <2> QED
    BY <2>1, <2>3, BecomesIs, QuietRequest
<1>2. CASE ReadDependentsLater(r)
  <2> DEFINE q == [stage |-> "resetting", resets |-> ResetsFor(t)]
  <2>1. /\ req[r].stage = "reopened" /\ Becomes(r, q) /\ UNCHANGED <<row, queue, faults, worker>>
    BY <1>2 DEF ReadDependentsLater, bounds
  <2>2. MovesInKnowingly(q)
    BY ResetsTyped DEF MovesInKnowingly
  <2> HIDE DEF q
  <2> QED
    BY <2>1, <2>2, BecomesIs, QuietRequest
<1> QED
  BY <1>1, <1>2

(* A reset brings no task into review. *)
LEMMA ResetMovesNothingIn ==
    ASSUME NEW rows, NEW resets,
           \A d \in DOMAIN resets : ~("status" \in DOMAIN resets[d] /\ resets[d].status = "review")
    PROVE  \A t \in Tasks : Reset(rows, resets)[t].status = "review" => rows[t].status = "review"
  BY DEF Reset, Merged, Fields

(* The COMMIT that enters review leaves a request that will queue the check. *)
LEMMA CommitWatches ==
    ASSUME BoardTyped, SlaInv, NEW r \in Requests, Commit(r)
    PROVE  SlaInv'
<1> DEFINE t == req[r].task
           q == [stage |-> "saved", actor |-> req[r].actor, task |-> t,
                 wasDone |-> req[r].wasDone, enters |-> req[r].enters]
           written == [row EXCEPT ![t] = Merged(@, req[r].update)]
<1>1. /\ req[r].stage \in {"gated", "cascading"} /\ MovesInKnowingly(req[r])
      /\ UNCHANGED <<queue, faults, worker>>
  BY DEF Commit, SlaInv, bounds
<1>2. \/ Becomes(r, Idle) /\ UNCHANGED row
      \/ row' = Reset(written, req[r].resets) /\ Becomes(r, q)
  BY DEF Commit, Ends
<1>3. CASE Becomes(r, Idle) /\ UNCHANGED row
  BY <1>1, <1>3, IdleMovesNothing, BecomesIs, QuietRequest
<1>4. CASE row' = Reset(written, req[r].resets) /\ Becomes(r, q)
  <2>1. ASSUME NEW o \in Tasks, row'[o].status = "review"
        PROVE  row[o].status = "review" \/ WillQueue(q, o)
    <3>1. \A d \in DOMAIN req[r].resets :
            ~("status" \in DOMAIN req[r].resets[d] /\ req[r].resets[d].status = "review")
      BY <1>1 DEF MovesInKnowingly
    <3>2. written[o].status = "review"
      <4> HIDE DEF written
      <4> QED
        BY <1>4, <2>1, <3>1, ResetMovesNothingIn
    <3>3. CASE o = t
      <4>1. written[o] = Merged(row[o], req[r].update)
        BY <3>3 DEF BoardTyped, TablesTyped
      <4>2. Merged(row[o], req[r].update).status
              = IF "status" \in DOMAIN req[r].update THEN req[r].update.status ELSE row[o].status
        BY DEF Merged, Fields
      <4>3. row[o].status = "review" \/ req[r].enters
        BY <1>1, <3>2, <4>1, <4>2 DEF MovesInKnowingly
      <4> QED
        BY <3>3, <4>3 DEF WillQueue
    <3>4. CASE o # t
      BY <3>2, <3>4 DEF BoardTyped, TablesTyped
    <3> QED
      BY <3>3, <3>4
  <2>2. MovesInKnowingly(q)
    BY DEF MovesInKnowingly
  <2>3. ~ \E o \in Tasks : WillQueue(req[r], o)
    BY <1>1 DEF WillQueue
  <2> HIDE DEF q, written
  <2> QED
    BY <1>1, <1>4, <2>1, <2>2, <2>3, BecomesIs, RequestWatches
<1> QED
  BY <1>2, <1>3, <1>4

(* The COMMIT of resets brings no task into review. *)
LEMMA CommitResetsWatches ==
    ASSUME BoardTyped, SlaInv, NEW r \in Requests, CommitResets(r)
    PROVE  SlaInv'
<1>1. /\ req[r].stage = "resetting" /\ MovesInKnowingly(req[r])
      /\ row' = Reset(row, req[r].resets) /\ Becomes(r, Idle) /\ UNCHANGED <<queue, faults, worker>>
  BY DEF CommitResets, SlaInv, Ends, bounds
<1>2. \A t \in Tasks : row'[t].status = "review" => row[t].status = "review"
  BY <1>1, ResetMovesNothingIn DEF MovesInKnowingly
<1>3. ~ \E t \in Tasks : WillQueue(req[r], t)
  BY <1>1 DEF WillQueue
<1> QED
  BY <1>1, <1>2, <1>3, IdleMovesNothing, BecomesIs, RequestWatches

(* Queueing a check keeps every other one, and a failure is a fault. *)
LEMMA EnqueueWatches ==
    ASSUME TablesTyped, NEW t \in Tasks, Enqueue(t)
    PROVE  /\ faults' = 0 => faults = 0 /\ queue'[t] > 0
           /\ \A o \in Tasks : queue[o] > 0 => queue'[o] > 0
<1>1. CASE queue' = [queue EXCEPT ![t] = @ + 1] /\ UNCHANGED faults
  BY <1>1 DEF TablesTyped
<1>2. CASE faults < MaxFaults /\ faults' = faults + 1 /\ UNCHANGED queue
  BY <1>2 DEF TablesTyped
<1> QED
  BY <1>1, <1>2 DEF Enqueue

(* The deadline test never skips a check: a review has a deadline. *)
LEMMA ScheduleWatches ==
    ASSUME BoardTyped, DeadlineInv, SlaInv, NEW r \in Requests, Schedule(r)
    PROVE  SlaInv'
<1> DEFINE t == req[r].task
           q == [stage |-> "reopened", task |-> t]
<1>1. /\ TablesTyped /\ t \in Tasks /\ UNCHANGED <<row, worker>>
      /\ Becomes(r, q) \/ Becomes(r, Idle)
  BY DEF Schedule, BoardTyped, RequestTyped, Ends
<1>2. IF req[r].enters /\ row[t].due # "none" THEN Enqueue(t) ELSE UNCHANGED <<queue, faults>>
  BY DEF Schedule
<1>3. row[t].status = "review" => row[t].due # "none"
  BY <1>1 DEF DeadlineInv, RowsSound, HasDeadline
<1>4. /\ faults' = 0 => faults = 0
      /\ \A o \in Tasks : queue[o] > 0 => queue'[o] > 0
  BY <1>1, <1>2, EnqueueWatches
<1>5. ASSUME NEW o \in Tasks, faults' = 0, row'[o].status = "review", WillQueue(req[r], o)
      PROVE  queue'[o] > 0
  <2>1. o = t /\ req[r].enters /\ row[t].due # "none"
    BY <1>1, <1>3, <1>5 DEF WillQueue
  <2> QED
    BY <1>1, <1>2, <1>5, <2>1, EnqueueWatches
<1>6. MovesInKnowingly(q)
  BY DEF MovesInKnowingly
<1> HIDE DEF q
<1>7. PICK n : MovesInKnowingly(n) /\ Becomes(r, n)
  BY <1>1, <1>6, IdleMovesNothing
<1> QED
  BY <1>1, <1>4, <1>5, <1>7, BecomesIs, RequestWatches

(* A request that dies is a fault. *)
LEMMA DeathWatches ==
    ASSUME BoardTyped, SlaInv, NEW r \in Requests, RequestDies(r)
    PROVE  SlaInv'
<1>1. /\ Becomes(r, Idle) /\ UNCHANGED <<row, queue, worker>> /\ faults' # 0
  BY DEF RequestDies, Ends, BoardTyped, TablesTyped
<1> QED
  BY <1>1, IdleMovesNothing, BecomesIs, RequestWatches

(* A step of a worker: it takes over a check it has removed, and what it   *)
(* lets go of it has queued, or the task has left review.                  *)
LEMMA WorkerWatches ==
    ASSUME BoardTyped, SlaInv, NEW w \in Workers, NEW j,
           worker' = [worker EXCEPT ![w] = j], UNCHANGED req, faults' = 0 => faults = 0,
           \A t \in Tasks : row'[t].status = "review" => row[t].status = "review",
           \A t \in Tasks :
              /\ faults' = 0 /\ row'[t].status = "review"
              /\ queue[t] > 0 \/ Watching(w, t)
              => queue'[t] > 0 \/ (j # Idle /\ j.task = t)
    PROVE  SlaInv'
<1>1. worker' = [o \in Workers |-> IF o = w THEN j ELSE worker[o]]
  BY DEF BoardTyped
<1>2. \A o \in Requests : MovesInKnowingly(req[o])'
  BY DEF SlaInv, MovesInKnowingly
<1>3. ASSUME NEW t \in Tasks, faults' = 0, row'[t].status = "review" PROVE HasWatch(t)'
  <2>1. HasWatch(t)
    BY <1>3, WatchIs DEF SlaInv
  <2>2. CASE queue'[t] > 0
    BY <2>2 DEF HasWatch
  <2>3. CASE j # Idle /\ j.task = t
    <3>1. Watching(w, t)'
      BY <1>1, <2>3 DEF Watching
    <3> QED
      BY <3>1 DEF HasWatch
  <2>4. CASE queue[t] > 0 \/ Watching(w, t)
    BY <1>3, <2>2, <2>3, <2>4
  <2>5. CASE \E o \in Workers : o # w /\ Watching(o, t)
    <3>1. PICK o \in Workers : o # w /\ Watching(o, t)
      BY <2>5
    <3>2. Watching(o, t)'
      BY <1>1, <3>1 DEF Watching
    <3> QED
      BY <3>2 DEF HasWatch
  <2>6. CASE \E r \in Requests : WillQueue(req[r], t)
    BY <2>6 DEF HasWatch, WillQueue
  <2> QED
    BY <2>1, <2>4, <2>5, <2>6 DEF HasWatch
<1> QED
  BY <1>2, <1>3, WatchIsNext DEF SlaInv

(* A check that is dropped is of a task no longer in review. *)
LEMMA ReceiveWatches ==
    ASSUME BoardTyped, DeadlineInv, SlaInv, NEW w \in Workers, NEW t \in Tasks,
           Receive(w, t) \/ PostponeFails(w, t)
    PROVE  SlaInv'
<1>1. TablesTyped /\ worker = [o \in Workers |-> worker[o]]
  BY DEF BoardTyped
<1>2. CASE FindOverdue(w, t)
  <2> DEFINE j == [stage |-> "overdue", task |-> t, old |-> row[t]]
  <2>1. /\ worker' = [worker EXCEPT ![w] = j] /\ worker[w] = Idle
        /\ UNCHANGED <<row, req, faults>> /\ queue' = Dequeued(t)
    BY <1>2 DEF FindOverdue, bounds
  <2>2. j # Idle /\ j.task = t
    BY DEF Idle
  <2> HIDE DEF j
  <2>3. \A o \in Tasks : o # t => queue'[o] = queue[o]
    BY <1>1, <2>1 DEF Dequeued, TablesTyped
  <2>4. \A o \in Tasks : row'[o].status = "review" => row[o].status = "review"
    BY <2>1
  <2>5. \A o \in Tasks :
          /\ faults' = 0 /\ row'[o].status = "review"
          /\ queue[o] > 0 \/ Watching(w, o)
          => queue'[o] > 0 \/ (j # Idle /\ j.task = o)
    BY <2>1, <2>2, <2>3 DEF Watching
  <2> QED
    BY <2>1, <2>4, <2>5, WorkerWatches
<1>3. CASE Discard(w, t)
  <2> DEFINE j == worker[w]
  <2>1. /\ worker' = [worker EXCEPT ![w] = j] /\ worker[w] = Idle
        /\ UNCHANGED <<row, req, faults>> /\ queue' = Dequeued(t) /\ ~InReview(t)
    BY <1>1, <1>3 DEF Discard, bounds
  <2>2. row[t].status # "review"
    BY <2>1 DEF InReview, DeadlineInv, RowsSound, HasDeadline
  <2>3. \A o \in Tasks : o # t => queue'[o] = queue[o]
    BY <1>1, <2>1 DEF Dequeued, TablesTyped
  <2>4. \A o \in Tasks : row'[o].status = "review" => row[o].status = "review"
    BY <2>1
  <2>5. \A o \in Tasks :
          /\ faults' = 0 /\ row'[o].status = "review"
          /\ queue[o] > 0 \/ Watching(w, o)
          => queue'[o] > 0 \/ (j # Idle /\ j.task = o)
    BY <2>1, <2>2, <2>3 DEF Watching
  <2> QED
    BY <2>1, <2>4, <2>5, WorkerWatches
<1>4. CASE Postpone(w, t)
  <2>1. worker' = [worker EXCEPT ![w] = worker[w]] /\ UNCHANGED <<row, req, faults, queue, worker>>
    BY <1>1, <1>4 DEF Postpone, vars, bounds
  <2> QED
    BY <2>1, WorkerWatches DEF Watching
<1>5. CASE PostponeFails(w, t)
  <2>1. /\ worker' = [worker EXCEPT ![w] = worker[w]] /\ UNCHANGED <<row, req>> /\ faults' # 0
    BY <1>1, <1>5 DEF PostponeFails, TablesTyped
  <2> QED
    BY <2>1, WorkerWatches
<1> QED
  BY <1>2, <1>3, <1>4, <1>5 DEF Receive

(* A worker that lets go of a task in review has queued the next check. *)
LEMMA HandleWatches ==
    ASSUME BoardTyped, DeadlineInv, SlaInv, NEW w \in Workers, Handle(w) \/ WorkerDies(w)
    PROVE  SlaInv'
<1> DEFINE t == worker[w].task
           old == worker[w].old
<1>0. TablesTyped /\ WorkerTyped(worker[w]) /\ WorkerSound(worker[w])
  BY DEF BoardTyped, DeadlineInv
<1>1. CASE Nudge(w)
  <2> DEFINE j == [stage |-> "nudged", task |-> t]
  <2>1. /\ worker' = [worker EXCEPT ![w] = j] /\ row' = [row EXCEPT ![t] = Merged(@, NextMiss(old))]
        /\ UNCHANGED <<queue, req, faults>> /\ worker[w] # Idle
    BY <1>1 DEF Nudge, bounds, Idle
  <2>2. j # Idle /\ j.task = t
    BY DEF Idle
  <2>3. \A n : Merged(n, NextMiss(old)).status = n.status
    BY DEF Merged, NextMiss, Fields
  <2>4. \A o \in Tasks : row'[o].status = row[o].status
    BY <1>0, <2>1, <2>3 DEF TablesTyped
  <2> HIDE DEF j
  <2>5. \A o \in Tasks : row'[o].status = "review" => row[o].status = "review"
    BY <2>4
  <2>6. \A o \in Tasks :
          /\ faults' = 0 /\ row'[o].status = "review"
          /\ queue[o] > 0 \/ Watching(w, o)
          => queue'[o] > 0 \/ (j # Idle /\ j.task = o)
    BY <2>1, <2>2 DEF Watching
  <2> QED
    BY <2>1, <2>5, <2>6, WorkerWatches
<1>2. CASE Reassign(w)
  <2>1. PICK owner \in {"none", "worker"} :
          row' = [row EXCEPT ![t] =
                    Merged(@, UpdateTo(old, [status |-> "inbox", assigned |-> owner,
                                             due |-> "none", misses |-> old.misses + 1]))]
    BY <1>2 DEF Reassign
  <2> DEFINE u == UpdateTo(old, [status |-> "inbox", assigned |-> owner,
                                 due |-> "none", misses |-> old.misses + 1])
  <2>2. /\ worker' = [worker EXCEPT ![w] = Idle] /\ old.status = "review"
        /\ UNCHANGED <<queue, req, faults>>
    BY <1>0, <1>2 DEF Reassign, WorkerSound, bounds
  <2>3. "status" \in DOMAIN u /\ u.status = "inbox"
    BY <2>2 DEF UpdateTo, Fields
  <2> HIDE DEF u
  <2>4. \A n : Merged(n, u).status = "inbox"
    BY <2>3 DEF Merged, Fields
  <2>5. row' = [row EXCEPT ![t] = Merged(@, u)]
    BY <2>1 DEF u
  <2>6. \A o \in Tasks : row'[o].status = IF o = t THEN "inbox" ELSE row[o].status
    BY <1>0, <2>4, <2>5 DEF TablesTyped
  <2> QED
    BY <2>2, <2>6, WorkerWatches DEF Watching
<1>3. CASE CheckAgain(w)
  <2>1. /\ worker' = [worker EXCEPT ![w] = Idle] /\ UNCHANGED <<row, req>>
        /\ Enqueue(t) /\ t \in Tasks
    BY <1>0, <1>3 DEF CheckAgain, WorkerTyped
  <2>2. /\ faults' = 0 => faults = 0 /\ queue'[t] > 0
        /\ \A o \in Tasks : queue[o] > 0 => queue'[o] > 0
    BY <1>0, <2>1, EnqueueWatches
  <2> QED
    BY <2>1, <2>2, WorkerWatches DEF Watching
<1>4. CASE WorkerDies(w)
  <2>1. /\ worker' = [worker EXCEPT ![w] = Idle] /\ UNCHANGED <<row, req>> /\ faults' # 0
    BY <1>0, <1>4 DEF WorkerDies, TablesTyped
  <2> QED
    BY <2>1, WorkerWatches
<1> QED
  BY <1>1, <1>2, <1>3, <1>4 DEF Handle

(* Neither a deadline that passes nor an approval ends a watch. *)
LEMMA OutsideWatches ==
    ASSUME BoardTyped, SlaInv,
           (\E t \in Tasks : DeadlinePasses(t) \/ ApprovalsChange(t)) \/ UNCHANGED vars
    PROVE  SlaInv'
<1>1. UNCHANGED <<queue, req, worker, faults>>
  BY DEF DeadlinePasses, ApprovalsChange, bounds, vars
<1>2. \A o \in Tasks : row'[o].status = row[o].status
  <2>1. ASSUME NEW t \in Tasks, DeadlinePasses(t)
        PROVE  \A o \in Tasks : row'[o].status = row[o].status
    <3>1. [row[t] EXCEPT !.due = "past"].status = row[t].status
      BY DEF BoardTyped, TablesTyped, Rows
    <3> QED
      BY <2>1, <3>1 DEF DeadlinePasses, BoardTyped, TablesTyped
  <2>2. CASE UNCHANGED row
    BY <2>2
  <2> QED
    BY <2>1, <2>2 DEF ApprovalsChange, vars
<1>3. ASSUME NEW t \in Tasks, faults' = 0, row'[t].status = "review" PROVE HasWatch(t)'
  BY <1>1, <1>2, <1>3, WatchIs DEF SlaInv, HasWatch, Watching, WillQueue
<1>4. \A r \in Requests : MovesInKnowingly(req[r])'
  BY <1>1 DEF SlaInv, MovesInKnowingly
<1> QED
  BY <1>3, <1>4, WatchIsNext DEF SlaInv

(* No task is in review. *)
LEMMA InitSla == Init => SlaInv
<1> SUFFICES ASSUME Init PROVE SlaInv
  OBVIOUS
<1>1. \A t \in Tasks : row[t].status = "review" => queue[t] > 0
  BY DEF Init
<1>2. ReviewIsWatched
  BY <1>1, WatchIs DEF HasWatch
<1>3. \A r \in Requests : req[r] = Idle
  BY DEF Init
<1> QED
  BY <1>2, <1>3, IdleMovesNothing DEF SlaInv

(* Every step keeps the watch. *)
LEMMA NextSla == BoardTyped /\ DeadlineInv /\ SlaInv /\ [Next]_vars => SlaInv'
<1> SUFFICES ASSUME BoardTyped, DeadlineInv, SlaInv, [Next]_vars PROVE SlaInv'
  OBVIOUS
<1>1. ASSUME NEW r \in Requests, Continue(r) PROVE SlaInv'
  BY <1>1, BeforeFlushWatches, GateWatches, ReadWatches, CommitWatches, ScheduleWatches,
     CommitResetsWatches DEF Continue
<1> QED
  BY <1>1, BeforeFlushWatches, DeathWatches, ReceiveWatches, HandleWatches, OutsideWatches DEF Next

(* Unless an enqueue failed or a process died, every review has a check in *)
(* the queue, a worker that has one in hand, or a request that is about to *)
(* queue one, for any number of requests and SLA workers                   *)
(* (task_review_sla_queue.py, task_review_sla_worker.py).                  *)
THEOREM ReviewsAreWatched == Spec => []ReviewIsWatched
<1>1. Spec => []BoardTyped
  BY InitBoardTyped, NextBoardTyped, PTL DEF Spec
<1>2. SlaInv => ReviewIsWatched
  BY DEF SlaInv
<1> QED
  BY <1>1, <1>2, DeadlineInvariance, InitSla, NextSla, PTL DEF Spec

=============================================================================
