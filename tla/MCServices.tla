------------------------------ MODULE MCServices ------------------------------
(***************************************************************************)
(* Parts of the server that share no state in these models, side by side:  *)
(* the approval gate, the queue, the webhooks of Polar, the token ledger   *)
(* and the members of an organization.  A behaviour is one of the part it  *)
(* starts in; the others stay as they were.                                *)
(***************************************************************************)
EXTENDS ApprovalGate, TaskQueue, BillingWebhooks, TokenLedger, Membership, TLC

CONSTANT Parts    \* the parts a run is about

VARIABLE part

servicesVars == <<part, vars, queueVars, billingVars, ledgerVars, membershipVars>>

\* Daily limits, scaled down: an agent on trial reaches the one on cost first.
Policies == [trial |-> [tokens |-> 2, cost |-> 1], pro |-> [tokens |-> 3, cost |-> 2]]

\* Approval ids, requests, queued tasks and workers are interchangeable.  So are
\* invites and calls, which a cfg may name like the approvals and the requests, so
\* that the group does not grow: no behaviour has both.
Symmetry == Permutations(Requests) \cup Permutations(Approvals)
            \cup Permutations(QueueTasks) \cup Permutations(QueueWorkers)

ServicesInit ==
    /\ part \in Parts
    /\ Init /\ (part # "gate" => status = [a \in Approvals |-> "unused"])
    /\ QueueInit
    /\ BillingInit
    /\ LedgerInit /\ (part # "ledger" => tier = "trial" /\ first = [a \in Agents |-> {}]
                                          /\ usage = [a \in Agents |-> Zero])
    /\ MembershipInit

OthersThanGate == <<part, queueVars, billingVars, ledgerVars, membershipVars>>
OthersThanQueue == <<part, vars, billingVars, ledgerVars, membershipVars>>
OthersThanBilling == <<part, vars, queueVars, ledgerVars, membershipVars>>
OthersThanLedger == <<part, vars, queueVars, billingVars, membershipVars>>
OthersThanMembers == <<part, vars, queueVars, billingVars, ledgerVars>>

ServicesNext ==
    \/ part = "gate" /\ Next /\ UNCHANGED OthersThanGate
    \/ part = "queue" /\ QueueNext /\ UNCHANGED OthersThanQueue
    \/ part = "billing" /\ BillingNext /\ UNCHANGED OthersThanBilling
    \/ part = "ledger" /\ LedgerNext /\ UNCHANGED OthersThanLedger
    \/ part = "members" /\ MembershipNext /\ UNCHANGED OthersThanMembers

\* The fairness of ApprovalGate and of TaskQueue.
GateProceeds(r) == part = "gate" /\ Proceed(r) /\ UNCHANGED OthersThanGate
QueueWorks(w) == part = "queue" /\ Work(w) /\ UNCHANGED OthersThanQueue
QueueComesDue(e) == part = "queue" /\ ComesDue(e) /\ UNCHANGED OthersThanQueue

ServicesFairness ==
    /\ \A r \in Requests : SF_servicesVars(GateProceeds(r))
    /\ \A w \in QueueWorkers : WF_servicesVars(QueueWorks(w))
    /\ \A e \in Envelopes : WF_servicesVars(QueueComesDue(e))

ServicesSpec == ServicesInit /\ [][ServicesNext]_servicesVars
ServicesFairSpec == ServicesSpec /\ ServicesFairness

\* The types of all parts.
ServicesTypeOK ==
    TypeOK /\ QueueTypeOK /\ BillingTypeOK /\ LedgerTypeOK /\ MembershipTypeOK
===============================================================================
