---------------------------- MODULE BoardApprovals ----------------------------
(***************************************************************************)
(* The approvals on the board page (app/(app)/boards/[boardId]/page.tsx):  *)
(* the list `approvals`, the count of pending ones on the card of a task,  *)
(* the event stream that updates both and the user's decisions, against    *)
(* the rows and the stream's poll loop of backend/app/api/approvals.py.    *)
(*                                                                         *)
(* Each approval is about a task of its own, which has the same name here, *)
(* so the count on a card is 0 or 1.                                       *)
(***************************************************************************)
EXTENDS Integers, Sequences, FiniteSets, FiniteSetsExt

CONSTANTS
    Approvals,
    NoApproval,     \* an approval that does not exist, or is not in the list
    MaxStamps,      \* bound: requests that write an approval, which take a stamp each
    MaxWrites,      \* bound: such requests at a time
    MaxShifts,      \* bound: cards the user moves
    MaxLapses       \* bound: connections that break

ASSUME ApprovalsAssumption ==
    /\ IsFiniteSet(Approvals)
    /\ NoApproval \notin [status : {"pending", "decided"}, created : Nat, resolved : Nat]
    /\ {MaxStamps, MaxWrites, MaxShifts, MaxLapses} \subseteq Nat

VARIABLES
    approval,   \* server: rows
    stamps,     \* server: stamps taken so far, which is the time
    writes,     \* server: requests that have still to commit
    answers,    \* answers to the user's decisions under way
    begun,      \* the page has its snapshot
    list,       \* approvals, of the page
    badge,      \* approvals_pending_count of each card
    updating,   \* approvalsUpdatingId
    line,       \* the connection of useSSEStream
    shifts,     \* moves of cards under way
    shifted,    \* moves so far
    lapses,     \* connections that broke
    marred      \* history: what made the page miss a change

rowVars == <<approval, stamps, writes>>
pageVars == <<begun, list, badge, updating>>
shiftVars == <<shifts, shifted>>
approvalsVars == <<rowVars, answers, pageVars, line, shiftVars, lapses, marred>>

\* Approved or rejected: nothing here tells them apart.
Rulings == {"pending", "decided"}
NoLine == [phase |-> "off", since |-> 0, wire |-> <<>>]

\* _approval_updated_at, and the same in latestApprovalTimestamp.
UpdatedAt(r) == IF r.resolved # 0 THEN r.resolved ELSE r.created

\* task_counts_for_board.
Waiting(a) == approval[a] # NoApproval /\ approval[a].status = "pending"
Badge(a) == IF Waiting(a) THEN "pending" ELSE "clear"

-----------------------------------------------------------------------------
(***************************************************************************)
(* create_approval and update_approval: a stamp is taken before the        *)
(* COMMIT; a reopening keeps the one of the decision it takes back.        *)
(***************************************************************************)
Asks(a, kind, to, own) ==
    /\ stamps < MaxStamps /\ Cardinality(writes) < MaxWrites
    /\ stamps' = stamps + 1
    /\ writes' = writes \cup
          {[approval |-> a, kind |-> kind, to |-> to, at |-> stamps', own |-> own]}

OthersCreate ==
    /\ \E a \in Approvals, status \in Rulings :
          /\ approval[a] = NoApproval
          /\ \A w \in writes : w.approval # a
          /\ Asks(a, "create", status, FALSE)
    /\ UNCHANGED <<approval, answers, pageVars, line, shiftVars, lapses, marred>>

\* A decision of an approval that is read as decided may be the same again, which
\* leaves the status alone, or another one.
DecisionKinds(a) == {"change"} \cup (IF Waiting(a) THEN {} ELSE {"again"})

OthersDecide ==
    /\ \E a \in Approvals :
          /\ approval[a] # NoApproval
          /\ \E kind \in DecisionKinds(a) : Asks(a, kind, "decided", FALSE)
    /\ UNCHANGED <<approval, answers, pageVars, line, shiftVars, lapses, marred>>

OthersReopen ==
    /\ \E a \in Approvals :
          /\ approval[a] # NoApproval /\ ~ Waiting(a)
          /\ Asks(a, "change", "pending", FALSE)
    /\ UNCHANGED <<approval, answers, pageVars, line, shiftVars, lapses, marred>>

Written(w) ==
    IF w.kind = "create" THEN [status |-> w.to, created |-> w.at, resolved |-> 0]
    ELSE [approval[w.approval] EXCEPT
             !.status = IF w.kind = "again" THEN @ ELSE w.to,
             !.resolved = IF w.to = "pending" THEN @ ELSE w.at]

\* An open stream that has gone past the row's stamp never looks back at it.
WriteCommits ==
    /\ \E w \in writes :
          /\ writes' = writes \ {w}
          /\ approval' = [approval EXCEPT ![w.approval] = Written(w)]
          /\ answers' = IF w.own
                        THEN answers \cup {[approval |-> w.approval, row |-> Written(w)]}
                        ELSE answers
          /\ marred' = IF line.phase = "open" /\ UpdatedAt(Written(w)) < line.since
                       THEN marred \cup {IF w.to = "pending" THEN "reopened" ELSE "late"}
                       ELSE marred
    /\ UNCHANGED <<stamps, pageVars, line, shiftVars, lapses>>

\* A conflict, a failure, or a user who may not write.
WriteFails ==
    /\ \E w \in writes :
          /\ writes' = writes \ {w}
          /\ updating' = IF w.own THEN NoApproval ELSE updating
    /\ UNCHANGED <<approval, stamps, answers, begun, list, badge, line, shiftVars,
                   lapses, marred>>

-----------------------------------------------------------------------------
(***************************************************************************)
(* The snapshot, the decisions of the user, and the cards.                 *)
(***************************************************************************)
\* A snapshot need not have every task: some are archived, beyond its limit, or
\* created later.
LoadSnapshot ==
    /\ ~begun
    /\ begun' = TRUE
    /\ list' = approval
    /\ \E there \in SUBSET Approvals :
          badge' = [t \in Approvals |-> IF t \in there THEN Badge(t) ELSE "none"]
    /\ UNCHANGED <<rowVars, answers, updating, line, shiftVars, lapses, marred>>

\* handleApprovalDecision, and the handler's load.
Decide ==
    /\ \E a \in Approvals :
          /\ list[a] # NoApproval /\ list[a].status = "pending"
          /\ updating # a
          /\ updating' = a
          /\ \E kind \in DecisionKinds(a) : Asks(a, kind, "decided", TRUE)
    /\ UNCHANGED <<approval, answers, begun, list, badge, line, shiftVars, lapses,
                   marred>>

\* The answer is sent after the lead was told, and replaces the row in the list.
DecisionAnswered ==
    /\ \E n \in answers :
          LET a == n.approval IN
          /\ answers' = answers \ {n}
          /\ list' = IF list[a] = NoApproval THEN list ELSE [list EXCEPT ![a] = n.row]
          /\ marred' = IF list[a] = approval[a] /\ n.row # approval[a]
                       THEN marred \cup {"overtaken"} ELSE marred
    /\ updating' = NoApproval
    /\ UNCHANGED <<rowVars, begun, badge, line, shiftVars, lapses>>

AnswerLost ==
    /\ \E n \in answers : answers' = answers \ {n}
    /\ updating' = NoApproval
    /\ UNCHANGED <<rowVars, begun, list, badge, line, shiftVars, lapses, marred>>

\* An event of the task stream makes a card for a task without one, and leaves
\* the count on a card as it is.
CardArrives ==
    /\ begun
    /\ \E t \in Approvals :
          /\ badge[t] = "none"
          /\ badge' = [badge EXCEPT ![t] = "clear"]
          /\ marred' = IF Waiting(t) THEN marred \cup {"newcomer"} ELSE marred
    /\ UNCHANGED <<rowVars, answers, begun, list, updating, line, shiftVars, lapses>>

\* handleTaskMove: its answer restores the count of before, its failure all cards.
ShiftStarts ==
    /\ shifted < MaxShifts
    /\ shifted' = shifted + 1
    /\ \E t \in Approvals :
          /\ badge[t] # "none"
          /\ shifts' = shifts \cup {[task |-> t, previous |-> badge]}
    /\ UNCHANGED <<rowVars, answers, pageVars, line, lapses, marred>>

ShiftAnswered ==
    /\ \E m \in shifts :
          LET count == m.previous[m.task] IN
          /\ shifts' = shifts \ {m}
          /\ badge' = [badge EXCEPT ![m.task] = IF @ = "none" THEN @ ELSE count]
          /\ marred' = IF badge' # badge THEN marred \cup {"restored"} ELSE marred
    /\ UNCHANGED <<rowVars, answers, begun, list, updating, line, shifted, lapses>>

ShiftFails ==
    /\ \E m \in shifts :
          /\ shifts' = shifts \ {m}
          /\ badge' = m.previous
          /\ marred' = IF badge' # badge THEN marred \cup {"restored"} ELSE marred
    /\ UNCHANGED <<rowVars, answers, begun, list, updating, line, shifted, lapses>>

-----------------------------------------------------------------------------
(***************************************************************************)
(* The stream.                                                             *)
(***************************************************************************)
Listed == {a \in Approvals : list[a] # NoApproval}

LineConnects ==
    /\ begun /\ line.phase \in {"off", "waiting"}
    /\ line' = [NoLine EXCEPT !.phase = "asked",
                   !.since = Max({UpdatedAt(list[a]) : a \in Listed} \cup {0})]
    /\ UNCHANGED <<rowVars, answers, pageVars, shiftVars, lapses, marred>>

\* Approvals that a stream from position n will not send.
Past(n) == {a \in Approvals : approval[a] # NoApproval /\ UpdatedAt(approval[a]) < n}
IsShown(a) == list[a] = approval[a] /\ badge[a] \in {"none", Badge(a)}

\* Without "since" the endpoint starts from its own clock.
LineAccepted ==
    /\ line.phase = "asked"
    /\ line' = [line EXCEPT !.phase = "open", !.since = IF @ = 0 THEN stamps + 1 ELSE @]
    /\ marred' = IF \E a \in Past(line'.since) : ~ IsShown(a)
                 THEN marred \cup {"leap"} ELSE marred
    /\ UNCHANGED <<rowVars, answers, pageVars, shiftVars, lapses>>

\* Mutant: only approvals that were created since.
DueCreated == {a \in Approvals : approval[a] # NoApproval /\ approval[a].created >= line.since}

\* _fetch_approval_events.
DueApprovals == {a \in Approvals : approval[a] # NoApproval} \ Past(line.since)

\* In the order of their creation, and not of their stamps.
LinePolls ==
    /\ line.phase = "open" /\ line.wire = <<>> /\ DueApprovals # {}
    /\ \E order \in [1..Cardinality(DueApprovals) -> DueApprovals] :
          /\ \A i, j \in DOMAIN order :
                i < j => /\ order[i] # order[j]
                         /\ approval[order[i]].created <= approval[order[j]].created
          /\ line' = [line EXCEPT
                !.wire = [i \in DOMAIN order |->
                             [approval |-> order[i], row |-> approval[order[i]]]],
                !.since = Max({UpdatedAt(approval[a]) : a \in DueApprovals} \cup {@})]
    /\ UNCHANGED <<rowVars, answers, pageVars, shiftVars, lapses, marred>>

\* The row takes its place in the list, and the count of that time the one on the
\* card of its task.
LineEvent ==
    /\ line.wire # <<>>
    /\ LET event == Head(line.wire)
           a == event.approval
       IN /\ list' = [list EXCEPT ![a] = event.row]
          /\ badge' = [badge EXCEPT ![a] =
                IF @ = "none" THEN @
                ELSE IF event.row.status = "pending" THEN "pending" ELSE "clear"]
    /\ line' = [line EXCEPT !.wire = Tail(@)]
    /\ UNCHANGED <<rowVars, answers, begun, updating, shiftVars, lapses, marred>>

\* The connection is lost, or the tab is hidden (usePageActive).
LineBreaks ==
    /\ line.phase \in {"asked", "open"} /\ lapses < MaxLapses
    /\ lapses' = lapses + 1
    /\ line' = [NoLine EXCEPT !.phase = "waiting"]
    /\ UNCHANGED <<rowVars, answers, pageVars, shiftVars, marred>>

-----------------------------------------------------------------------------
ApprovalsInit ==
    /\ approval \in [Approvals -> {NoApproval,
                                   [status |-> "pending", created |-> 1, resolved |-> 0],
                                   [status |-> "decided", created |-> 1, resolved |-> 2]}]
    /\ stamps = 2
    /\ writes = {} /\ answers = {}
    /\ begun = FALSE
    /\ list = [a \in Approvals |-> NoApproval]
    /\ badge = [a \in Approvals |-> "none"]
    /\ updating = NoApproval
    /\ line = NoLine
    /\ shifts = {} /\ shifted = 0 /\ lapses = 0 /\ marred = {}

ApprovalsServer == OthersCreate \/ OthersDecide \/ OthersReopen \/ WriteCommits \/ WriteFails
                   \/ LineAccepted \/ LinePolls
ApprovalsPage == LoadSnapshot \/ Decide \/ DecisionAnswered \/ AnswerLost \/ CardArrives
                 \/ ShiftStarts \/ ShiftAnswered \/ ShiftFails
                 \/ LineConnects \/ LineEvent \/ LineBreaks
ApprovalsNext == ApprovalsServer \/ ApprovalsPage

ApprovalsSpec == ApprovalsInit /\ [][ApprovalsNext]_approvalsVars

-----------------------------------------------------------------------------
ApprovalRows == [status : Rulings, created : Nat, resolved : Nat] \cup {NoApproval}

ApprovalsTypeOK ==
    /\ {approval, list} \subseteq [Approvals -> ApprovalRows]
    /\ \A w \in writes : w.at \in 1..stamps
    /\ badge \in [Approvals -> {"none", "clear", "pending"}]
    /\ updating \in Approvals \cup {NoApproval}
    /\ line.phase \in {"off", "asked", "open", "waiting"}
    /\ line.since \in 0..stamps + 1
    /\ marred \subseteq {"reopened", "late", "overtaken", "leap", "newcomer", "restored"}

\* What the stream no longer looks at is shown as it is.  The list misses a change
\* only if an approval was reopened after a later one had been sent, a decision was
\* committed after one with a later stamp had been sent, an answer overtook a newer
\* row, or a connection was resumed past it; the count on a card also if the card
\* came when its approval was there, or a move restored the count of before it.
ApprovalsAreCurrent ==
    line.phase = "open" /\ line.wire = <<>> =>
        \A a \in Past(line.since) :
            /\ marred \subseteq {"newcomer", "restored"} => list[a] = approval[a]
            /\ marred = {} => IsShown(a)

===============================================================================
