--------------------------- MODULE ApprovalLedger ---------------------------
(***************************************************************************)
(* What the approval endpoints promise: a ledger of approvals over the     *)
(* tasks of a board in which every operation is atomic and no task ever    *)
(* has two pending approvals.  ApprovalGate implements it.                 *)
(***************************************************************************)
CONSTANTS Tasks, Approvals

VARIABLES tasks,    \* the tasks that exist
          status,   \* approval -> "unused", a decision, or "deleted"
          covers    \* approval -> the tasks it is about

vars == <<tasks, status, covers>>

Decisions == {"pending", "approved", "rejected"}

Free(scope, self) ==
  \A b \in Approvals \ {self} : status[b] = "pending" => covers[b] \cap scope = {}

Init ==
  /\ tasks = Tasks
  /\ status \in [Approvals -> {"unused"} \cup Decisions]
  /\ covers \in [Approvals -> SUBSET Tasks]
  /\ \A a \in Approvals : status[a] = "unused" => covers[a] = {}
  /\ \A a \in Approvals : status[a] = "pending" => Free(covers[a], a)

\* A new approval; a pending one only if its tasks have no pending approval.
Create(a, scope, target) ==
  /\ status[a] = "unused"
  /\ scope \subseteq tasks
  /\ target = "pending" => Free(scope, a)
  /\ status' = [status EXCEPT ![a] = target]
  /\ covers' = [covers EXCEPT ![a] = scope]
  /\ UNCHANGED tasks

\* A decision, its correction, or a reopening under the same rule.
Decide(a, target) ==
  /\ status[a] \in Decisions
  /\ target = "pending" => Free(covers[a], a)
  /\ status' = [status EXCEPT ![a] = target]
  /\ UNCHANGED <<tasks, covers>>

\* A task goes, and with it the approvals that were about nothing else.
DeleteTask(t) ==
  /\ t \in tasks
  /\ tasks' = tasks \ {t}
  /\ covers' = [a \in Approvals |-> covers[a] \ {t}]
  /\ status' = [a \in Approvals |-> IF covers[a] = {t} THEN "deleted" ELSE status[a]]

Next ==
  \/ \E a \in Approvals, scope \in SUBSET Tasks, target \in Decisions : Create(a, scope, target)
  \/ \E a \in Approvals, target \in Decisions : Decide(a, target)
  \/ \E t \in Tasks : DeleteTask(t)

Spec == Init /\ [][Next]_vars

=============================================================================
