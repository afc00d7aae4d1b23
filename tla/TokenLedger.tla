---------------------------- MODULE TokenLedger ----------------------------
(***************************************************************************)
(* The daily usage ledger of the agents of one board, and the check every  *)
(* message to an agent's session passes first                              *)
(* (services/openclaw/session_usage_sync.py,                               *)
(* services/agent_token_quota_service.py, called by gateway_dispatch.py    *)
(* and session_service.py).                                                *)
(*                                                                         *)
(* A check asks the gateway for the agent's usage of the day, without any  *)
(* lock, then locks the agent's row of the day, adds what has been used    *)
(* since the last total, and admits or refuses the message; its session is *)
(* committed either way.  The model is of one day, in which the totals of  *)
(* the gateway do not fall.                                                *)
(***************************************************************************)
EXTENDS Integers

CONSTANTS
    Agents,      \* agents of the board
    Leads,       \* those with is_board_lead: one at most
    Checks,      \* checks that may be under way at a time
    Limits,      \* PLAN_POLICIES: [tier -> [resource -> daily limit of an agent]]
    Enforcing,   \* openclaw_usage_enforcement_mode is "enforce"
    MaxTurns,    \* bound: turns the agents take in a day
    MaxAsks,     \* bound: checks in a day
    MaxPlans     \* bound: changes of the plan in a day

Resources == {"tokens", "cost"}

ASSUME LedgerAssumption ==
    /\ Agents # {} /\ Leads \subseteq Agents /\ Enforcing \in BOOLEAN
    /\ MaxTurns \in Nat /\ MaxAsks \in Nat /\ MaxPlans \in Nat
    /\ Limits \in [{"trial", "pro"} -> [Resources -> Nat]]

VARIABLES
    usage,     \* the gateway's totals of each agent
    ledger,    \* rows of agent_token_daily_usage
    tier,      \* plan of the organization, or "expired"
    checks,    \* what each check is doing, and the answer it holds
    arrivals,  \* turns, checks and changes of the plan so far
    first,     \* history: the usage when a check first asked the gateway
    base,      \* history: the totals that were taken as the baseline
    refused    \* history: agents refused for a limit since the plan last changed

ledgerVars == <<usage, ledger, tier, checks, arrivals, first, base, refused>>

Zero == [r \in Resources |-> 0]
NewRow == [total |-> Zero, used |-> Zero, blocked |-> {}]
NoCheck == [asked |-> FALSE, agent |-> CHOOSE a \in Agents : TRUE, answer |-> Zero,
            priced |-> FALSE, admitted |-> FALSE]

Larger(x, y) == IF x > y THEN x ELSE y

-----------------------------------------------------------------------------
(***************************************************************************)
(* The gateway: an agent works, on tokens that may have no price.          *)
(***************************************************************************)
Spend(a, price) ==
    /\ arrivals.turns < MaxTurns
    /\ arrivals' = [arrivals EXCEPT !.turns = @ + 1]
    /\ usage' = [usage EXCEPT ![a].tokens = @ + 1, ![a].cost = @ + price]
    /\ UNCHANGED <<ledger, tier, checks, first, base, refused>>

\* A webhook changes the plan, or it expires.
ChangePlan ==
    /\ arrivals.plans < MaxPlans
    /\ arrivals' = [arrivals EXCEPT !.plans = @ + 1]
    /\ \E t \in DOMAIN Limits \cup {"expired"} : t # tier /\ tier' = t
    /\ refused' = {}
    /\ UNCHANGED <<usage, ledger, checks, first, base>>

-----------------------------------------------------------------------------
(***************************************************************************)
(* sync_session_usage and sync_and_enforce.                                *)
(***************************************************************************)
\* fetch_session_usage: cost data is there if no entry lacks it, or if the sum
\* is not 0.  A failed call changes nothing.
FetchUsage(c, a, priced) ==
    /\ ~ checks[c].asked
    /\ arrivals.asks < MaxAsks
    /\ arrivals' = [arrivals EXCEPT !.asks = @ + 1]
    /\ priced \/ usage[a].cost = 0
    /\ checks' = [checks EXCEPT ![c] = [asked |-> TRUE, agent |-> a, answer |-> usage[a],
                                        priced |-> priced, admitted |-> FALSE]]
    /\ first' = IF first[a] = {} THEN [first EXCEPT ![a] = {usage[a]}] ELSE first
    /\ UNCHANGED <<usage, ledger, tier, base, refused>>

\* Mutant: the first total is billed.
CatchesUpNever(row, r) == FALSE

\* The first total that is not 0 is a baseline, not billed; a cost is part of it
\* only if none was recorded.
CatchesUp(row, r) ==
    /\ row.total["tokens"] = 0 /\ row.used["tokens"] = 0
    /\ r = "cost" => row.total["cost"] = 0 /\ row.used["cost"] = 0

Delta(row, answer, r) ==
    IF CatchesUp(row, r) THEN 0 ELSE Larger(answer[r] - row.total[r], 0)

\* Mutant: the last answer is the total.
SyncedToAnswer(row, answer) ==
    [row EXCEPT !.total = answer,
                !.used = [r \in Resources |-> row.used[r] + Delta(row, answer, r)]]

\* The row after a sync, which the row lock makes one step.
Synced(row, answer) ==
    [row EXCEPT !.total = [r \in Resources |-> Larger(row.total[r], answer[r])],
                !.used = [r \in Resources |-> row.used[r] + Delta(row, answer, r)]]

\* The limit an agent has reached: cost first, if this answer has cost data.
Exceeded(row, priced) ==
    {r \in Resources : row.used[r] >= Limits[tier][r] /\ (r = "cost" => priced)}
BlockedBy(row, priced) ==
    IF "cost" \in Exceeded(row, priced) THEN "cost" ELSE "tokens"

\* _all_board_members_blocked: a lead goes on until every other agent is marked.
BoardBlocked ==
    /\ Agents \ Leads # {}
    /\ \A m \in Agents \ Leads : ledger[m].blocked # {}

\* Mutant: an agent that is marked is not looked at again.
RefusesOnce(a, row, priced) ==
    /\ Enforcing
    /\ Exceeded(row, priced) # {}
    /\ row.blocked = {}
    /\ a \in Leads => BoardBlocked

Refuses(a, row, priced) ==
    /\ Enforcing
    /\ Exceeded(row, priced) # {}
    /\ a \in Leads => BoardBlocked

\* Locks the row, syncs it, and decides on it; the COMMIT covers a refusal too.
SyncAndEnforce(c) ==
    LET a == checks[c].agent
        row == ledger[a]
        synced == Synced(row, checks[c].answer)
        refuses == tier # "expired" /\ Refuses(a, synced, checks[c].priced)
    IN /\ checks[c].asked
       /\ ledger' = [ledger EXCEPT ![a] =
                       IF refuses
                         THEN [synced EXCEPT !.blocked = @ \cup {BlockedBy(synced, checks[c].priced)}]
                         ELSE synced]
       /\ checks' = [checks EXCEPT ![c] = [NoCheck EXCEPT !.admitted = ~ refuses /\ tier # "expired"]]
       /\ base' = [base EXCEPT ![a] =
                     [r \in Resources |-> IF CatchesUp(row, r) THEN synced.total[r] ELSE @[r]]]
       /\ refused' = IF refuses THEN refused \cup {a} ELSE refused
       /\ UNCHANGED <<usage, tier, arrivals, first>>

-----------------------------------------------------------------------------
\* The day begins with no usage, with usage no check has asked for, or tracked.
One == [Zero EXCEPT !.tokens = 1]
LedgerInit ==
    /\ \E start \in {Zero, One}, tracked \in BOOLEAN :
         /\ usage = [a \in Agents |-> start]
         /\ base = [a \in Agents |-> IF tracked THEN start ELSE Zero]
         /\ ledger = [a \in Agents |-> [NewRow EXCEPT !.total = base[a]]]
         /\ first = [a \in Agents |-> IF tracked THEN {start} ELSE {}]
    /\ tier \in DOMAIN Limits
    /\ checks = [c \in Checks |-> NoCheck]
    /\ arrivals = [turns |-> 0, asks |-> 0, plans |-> 0]
    /\ refused = {}

LedgerNext ==
    \/ \E a \in Agents, price \in {0, 1} : Spend(a, price)
    \/ ChangePlan
    \/ \E c \in Checks, a \in Agents, priced \in BOOLEAN : FetchUsage(c, a, priced)
    \/ \E c \in Checks : SyncAndEnforce(c)

LedgerSpec == LedgerInit /\ [][LedgerNext]_ledgerVars

-----------------------------------------------------------------------------
Totals == [Resources -> Nat]

LedgerTypeOK ==
    /\ usage \in [Agents -> Totals]
    /\ ledger \in [Agents -> [total : Totals, used : Totals, blocked : SUBSET Resources]]
    /\ tier \in {"trial", "pro", "expired"}
    /\ checks \in [Checks -> [asked : BOOLEAN, agent : Agents, answer : Totals,
                              priced : BOOLEAN, admitted : BOOLEAN]]
    /\ arrivals \in [turns : 0..MaxTurns, asks : 0..MaxAsks, plans : 0..MaxPlans]
    /\ first \in [Agents -> SUBSET Totals]
    /\ base \in [Agents -> Totals]
    /\ refused \subseteq Agents

\* Checks that overlap and answers that arrive late bill each token once: what
\* the ledger has billed is the last total less the baseline.
BilledOnce ==
    \A a \in Agents, r \in Resources : ledger[a].used[r] = ledger[a].total[r] - base[a][r]

\* "to avoid backcharging usage that happened before this ledger started tracking
\* the session" (session_usage_sync.py:190-191): no more is billed than was used since
\* a check first asked for the agent's usage.
NoBackcharge ==
    \A a \in Agents, r \in Resources : \A u \in first[a] :
        ledger[a].used[r] <= usage[a][r] - u[r]

\* An agent that has reached a limit is refused whatever answer a later check
\* holds, until the plan changes; but a check whose answer has no cost data does
\* not look at the cost.
RefusalStands ==
    [][\A c \in Checks :
         checks[c].asked /\ checks'[c].admitted
           => checks[c].agent \notin refused \/ ~ checks[c].priced]_ledgerVars

=============================================================================
