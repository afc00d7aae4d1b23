---------------------------- MODULE MCTaskBoard ----------------------------
(* Constants for model checking TaskBoard. *)
EXTENDS TaskBoard, TLC

CONSTANTS t1, t2

Everyone == {"admin", "lead", "agent"}
Strict == {{"approval", "review", "pending"}}
Default == {{"approval"}}

Board(first, second, ds) ==
    [status |-> t1 :> first @@ t2 :> second, deps |-> t1 :> {} @@ t2 :> ds]

(* A review next to a fresh task, and a task under way on a finished one. *)
Boards == {Board("review", "inbox", {}), Board("done", "in_progress", {t1})}

(* Two tasks without dependencies. *)
Fresh == {Board("inbox", "inbox", {})}

OnFirst == {{t1}}
OnOne == {{t1}, {t2}}

(* One task in review. *)
Alone == {[status |-> t1 :> "review", deps |-> t1 :> {}]}
=============================================================================
