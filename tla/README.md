# Project Helux: a TLA+ verification project

Helux is a control plane for AI agents: a FastAPI backend over PostgreSQL and
Redis (`src/backend/app`), a Next.js console (`src/frontend`) and, outside the
repository, OpenClaw gateways on which the agents run and Polar, which bills.
This directory holds TLA+ models of the concurrent cores of backend and console,
the TLC runs that check them on small instances, and proofs checked by TLAPS.

    tlasany M.tla                        parse a module
    tlc -config MCx.cfg M                model-check a run (see "Runs")
    tlapm ApprovalGateProofs.tla         check the proofs of a module

`PROJECT.json` is the machine-readable index: components, runs, mutants (one
plausible bug per property, which the run must catch), the map from definitions
to source lines, findings, hazards and theorems.

## 1. Inventory

### How the parts run

* **API server.** Every HTTP request is a coroutine with one database session
  (`db/session.py`). PostgreSQL runs at READ COMMITTED: a statement sees what
  was committed before it began. A session keeps the objects it has loaded; a
  later `SELECT ... FOR UPDATE` waits for the row but does not refresh an object
  the session already holds, and a flush writes only the columns that changed.
  An exception rolls the transaction back.
* **Queue worker.** One or more processes run `queue_worker.py`, which pops
  envelopes from a Redis list and calls a handler by task type: lifecycle
  reconcile, review SLA, webhook delivery, billing webhooks, emails, chat files.
* **Console.** One JavaScript thread per browser tab: a handler runs to its next
  `await` undisturbed, but between a request and its answer other events, polls,
  renders and clicks come. State that a callback captured is that of its render.
  `useSSEStream` keeps one connection per key and resumes it from the newest
  stamp on display; the streams of the backend are loops that poll the database.
* **Outside.** Gateway calls take seconds, may fail, and may have had their effect
  although they failed or were cancelled. Polar delivers webhooks in any order.

### Components

| component | state | operations | hard behaviour | correct when |
|---|---|---|---|---|
| Approvals (`api/approvals.py`, `services/approval_task_links.py`) | `approvals`, `approval_task_links`, row locks on `tasks` | create, decide, reopen; deletion of a task moves or deletes its approvals | check-then-insert races; lock order; status loaded before the lock; deletions sharing an approval | one pending approval per task; an approval's filing task exists and is linked; every request ends; looks atomic |
| Background queue (`services/queue.py`, `queue_worker.py`) | a Redis list, a sorted set of delayed envelopes, the worker's hand | enqueue, delayed enqueue, drain, pop, handle, requeue | two-command drain raced by another worker; death with an envelope in hand; retry counts | nothing accepted vanishes silently; retries bounded; duplicates only through faults, which multiply; every task settles |
| Agent lifecycle (`services/openclaw/lifecycle_*.py`, `db_agent_state.py`) | the agent row (status, generation, wakes, deadline, last seen, token hash), reconcile messages, the token in the gateway workspace | run_lifecycle, reconcile task | stale objects after a lock; late and reordered messages; timeouts after COMMIT | a woken agent is watched until it answers or is given up; escalation stops |
| Agent provisioning, presence (`provisioning_db.py`, `admin_service.py`, `core/agent_auth.py`) | the same row | create, update, sync, rotate, heartbeat, touch, delete | merges of sessions that loaded different versions | the workspace's token is the one the row accepts |
| Tasks and review SLA (`api/tasks.py`, `services/task_dependencies.py`, `task_review_sla_*.py`) | task rows, dependencies, SLA check messages | create, update under admin, lead or agent rules, finalize, delete | done gates read state that changes before the COMMIT; dependency cycles through two updates; SLA chain of messages | no task is done against a gate; dependencies stay acyclic; overdue reviews are escalated |
| Inbound webhooks (`services/webhooks/*`) | payload rows, queue | ingest, deliver, retry | the queue's refusal is not looked at | a stored payload is delivered or its failure is known |
| Billing (`api/billing_webhooks.py`, `services/billing_webhook_*.py`) | organization plan, stored events, receipts | receive, store, enqueue, process | events out of order, overlapping and processed twice; plan loaded before its lock | a replay changes nothing; a revoked subscription blocks |
| Token quota (`session_usage_sync.py`, `agent_token_quota_service.py`) | daily usage rows | sync, check, refuse | answers fetched before the lock, applied in another order | nothing billed twice or from before tracking; a refusal stands |
| Organizations, invites (`api/organizations.py`, `services/organizations.py`) | members, invites | invite, revoke, accept, enter, change a role, remove | counts and roles read without a lock; two ways to accept | somebody owns the organization; nobody joins through a revoked invite |
| Chat (`api/board_memory.py`, `use-board-chat-messages.ts`, `BoardChatPanel.tsx`) | messages; in the console the thread, its pages, a cache per session, the stream | post, list, stream, switch session, load older | late answers after a switch; reconnects; replies before the answer of the POST | sessions are not mixed; no hole in the thread; the newest message arrives |
| Board page (`boards/[boardId]/page.tsx`, streams of `api/tasks.py` and `api/approvals.py`) | cards, approvals, counts on cards; activity log | snapshot, streams, optimistic moves, decisions | rollback of a whole list; row and event in two transactions; stamps taken before the COMMIT | a quiet page shows the rows |
| Onboarding (`api/board_onboarding.py`, `BoardOnboardingChat.tsx`) | the conversation of a board, its draft, the dialog | start, answer, confirm, the agent's posts, polls | lists written back whole; prompt before the row; deduplication; overlapping polls | dialog and agent do not wait for each other; goal and lead are from one draft |
| Boards, groups, memory, files, skills, email, auth, rate limits, metrics, other pages | their own tables, what React Query fetched | mostly single-statement CRUD and append | little interaction; extraction of files is queued | see the notes in `PROJECT.json` |

Approvals and tasks share the task rows and their locks. Agent lifecycle uses the
queue for its messages; so do the SLA, webhooks, billing and mail. The done gate
of tasks reads approvals. The console's panels meet the backend only through
requests and streams. All other interaction is through the database.

The hazards (races, stale reads, deaths between two steps, reordered or lost
messages, limits) are listed with their lines in `PROJECT.json`; section 6 lists
those no property covers.

## 2. Modules

| module | what it is |
|---|---|
| `ApprovalGate` | approvals and their row locks, statement by statement |
| `ApprovalLedger` | what approvals promise: every operation at once |
| `ApprovalGateProofs` | safety and deadlock order of `ApprovalGate`, and that it implements `ApprovalLedger`, proved |
| `TaskQueue` | the Redis queue and the worker loop, command by command |
| `TaskDelivery` | what the queue promises of a task: its attempts in their order, its end |
| `TaskQueueProofs` | nothing vanishes from the queue, what a fault repeats, and that it implements `TaskDelivery`, proved |
| `BillingWebhooks` | the plan of an organization and the webhooks of Polar |
| `TokenLedger` | the daily token ledger of the agents of a board |
| `Membership` | the members of an organization and the invites to it |
| `OrganizationProofs` | of `BillingWebhooks`: where a stored event is and what a replay does; of `TokenLedger`: billing once, no backcharge, refusals that stand; of `Membership`: an owner stays, only the invited join, proved |
| `AgentLifecycle` | one agent: runs, reconcile tasks, requests on its row |
| `AgentLifecycleProofs` | the row lock, the watch over a woken agent, the end of escalation, proved |
| `TaskBoard` | tasks of one board: PATCH requests, dependencies, review SLA |
| `TaskBoardProofs` | types, review deadlines, the approval gate and the watch over reviews of `TaskBoard`, proved |
| `BoardChat` | the chat panel of a tab, its stream and its messages |
| `BoardCards` | the cards of the board page, optimistic moves and event stream |
| `BoardApprovals` | the approvals of the board page and the counts on its cards |
| `BoardOnboarding` | the onboarding conversation, its agent and its dialog |
| `BoardOnboardingProofs` | nobody waits, nothing is asked again, goal and lead agree, what is confirmed stays, proved |
| `ConsoleProofs` | what the chat, the cards and the approvals leave on display, and what the panels keep side by side, proved |
| `MCServices` | gate, queue, billing, ledger and members side by side |
| `ServicesProofs` | that each of them behaves there as its own module says, proved |
| `MCConsole` | chat, cards, approvals and onboarding side by side |
| `MCAgentLifecycle`, `MCTaskBoard` | initial states, symmetry and constants for TLC |

The parts of `MCServices` and the panels of `MCConsole` share no state in these
models. A behaviour belongs to the one it starts in and leaves the others as they
were, so one run asks the questions of all of them and its state count is their
sum, not their product. Invites and calls are given the same model values as
approvals and requests, and the console's approvals those of its tasks: no
behaviour has both, and the symmetry group stays small.

### 2.1 ApprovalGate

*State.* `tasks`, `status`, `primary` (`approvals.task_id`) and `links`
(`approval_task_links`) are the committed tables. `owner`, `sharers` and
`rowOwner` are the locks: `FOR UPDATE` on a task row, the `FOR KEY SHARE` that a
foreign key takes, and an uncommitted write of an approval row. `pc` and `job`
are the program counter and local variables of a request.

*Actions.* One per statement whose order against other transactions matters.
Create: `BeginCreate` (payload, board check), `LockTask` per row in id order,
`CheckConflicts` (409), `ShareTask` per foreign key, `CommitCreate` or
`CreateFails`. Update: `BeginUpdate` (load, 404, scope of a reopening), `LockTask`,
`CheckConflicts`, `CommitUpdate`. Task deletion: `BeginDelete`, `ReadPrimaries`,
`CutLinks`, `ClaimOrphan`/`ClaimMoved`/`ClaimFails` per approval, `RemoveTask`.
`DeadlockAbort` is PostgreSQL's deadlock detector.

*Abstractions.* One board (an approval and its tasks belong to one board; other
boards cannot interact). A statement is atomic. `Init` admits approvals from
before the link table (no links, only a `task_id`), because the code handles them. The
session writes the status only when it differs from the loaded one; a PATCH
without a status changes nothing and is left out, as are confidence, payload and
the lead notification after COMMIT. `CHECK_DEADLOCK FALSE`: the finite supply of
tasks and approval ids may be used up.

*Refinement.* `ApprovalLedger` has three atomic actions: `Create`, `Decide` (also
reopening), `DeleteTask`. `ApprovalGate` implements it with
`covers <- [a |-> Covers(a)]`: each operation takes effect at its COMMIT and
everything before is a stutter.

### 2.2 TaskQueue

*State.* (Operators with a name others have are called `QueueInit`, `QueueNext`,
`QueueSpec`, `QueueTypeOK`.) `ready` (the list), `scheduled` (the sorted set; an envelope is its
member string, so equal ones are one), `due` (those whose score has passed).
Each worker has `pc`, the `batch` it read, its `hand`. `accepted`, `settled`,
`lost`, `runs` are history, and so is `granted`, which is 1 and doubles at a fault.

*Actions.* `Submit` (both enqueue functions), `ComesDue`; per worker the drain's
`ReadDue`, `PushBatch`, `RemoveBatch`, then `Pop` or `PopTimesOut`, then
`HandlerReturns` or `HandlerRaises` and `Requeue`; `Fault` is a Redis error or a
death anywhere. A handler that has its effect and raises is `HandlerRaises`; a
BRPOP whose reply is lost is `Pop` followed by `Fault`.

*Abstractions.* The drains before and after a BRPOP timeout are one. The drain's
`LIMIT 100` is not reached with two tasks. An enqueue that returns False is no
acceptance and no action. Redis itself does not lose data. Scores and the BRPOP
timeout are not numbers: `ComesDue` may happen at any time. Undecodable
envelopes are not modelled.

*Refinement.* `TaskDelivery` knows no Redis: a task is accepted; a worker starts an
attempt once each earlier one was started; an attempt ends by returning, by raising
with another granted or none left, or with its worker. `TaskQueue` implements it with
`raised <- {w : queuePc[w] = "failed"}`; what the drain does is a stutter. It does not
say how often an attempt is started: two drains may push the same envelope twice
(`DuplicatesAreFaults` bounds that for one worker).

### 2.3 AgentLifecycle

*State.* `row` is the committed agent row, `lock` its `FOR UPDATE` holder,
`gateway` the token in the workspace (`NoToken`: no workspace), `queue` the
reconcile messages, `clock`. `job[p]` holds the row as the session loaded it
(`loaded`), as it has changed it (`edited`), and which columns it set to the
current time (`now`); `Flushed` is the UPDATE that SQLAlchemy makes of the three.

*Actions.* `Update`, `Provision`, `Ensure`, `Sync` with `ResolveToken`,
`MintToken`, then the run: `LockAgent`, `SendWake` (the wake message, the last
gateway call), `GatewaySucceeds` or `GatewayFails` (with or without effect),
`Enqueue`. `Touch`, `Heartbeat` and `Delete` end in `Save`.
Reconcile: `SkipMessage`, `Defer`, `GiveUp`, `WakeAgain`, `TimesOut`. `Tick`.
`TimesOut` cancels a run at any point before, between and after the gateway calls and
the COMMIT: what was written to the workspace and the wake that was delivered stay,
the row is rolled back. `streak` counts the wakes that reconcile has *delivered*,
whatever became of their run, and `undone` those whose run was cancelled before its
COMMIT; a check-in, and a run that wakes on a request's behalf, set both to 0.

*Abstractions.* One agent (the lock and the messages are per agent). Status is
the committed one: `updating`/`provisioning` of a run are overwritten before its
COMMIT unless the gateway has no URL, which is not modelled. A heartbeat reports
no status or `online`; heartbeats by users are not modelled. A sync that is
retried with backoff is another `Sync`; the lead workspace reconcile is a `Sync`
with rotation. Equal messages are one. Not modelled: a failed enqueue, a missing
gateway or board, a refused deletion, `MAX_WAKE` timing beyond the order of
deadlines. A request slot and a worker are used again and again, and there are finitely
many of each. `CHECK_DEADLOCK FALSE`: the number of calls is bounded.

### 2.4 TaskBoard

*State.* `row` holds the columns of `tasks` that decide something: status,
assignee, review deadline, miss count. `deps` is `task_dependencies`, `queue` how
many SLA checks of each task wait, `rules` the board's settings, `approvals` which
statuses the approvals of a task have. `req` and `worker` are the local variables
of a request and of a queue worker by `stage`; `witness` is history.

*Actions.* `Load` is `get_task_or_404`. `Decide` picks the PATCH body and applies
the rules of the actor (`LeadRows`, `AgentRows`, `AdminRows`: the rows they turn
the task into) against the dependencies as they are now; `Refuse` is every 4xx of
rules and validation. `Gate` is the flush, which waits for the row lock, the three
gates, and review tracking. `Commit` writes the changed columns (`UpdateTo`,
`Merged`) and the dependency edges. `Schedule` is the refresh and the enqueue of
the SLA check. A reopened task resets its dependents: the lead's request in its
own transaction (`ReadDependents`, `Commit`), others in a second one
(`ReadDependentsLater`, `CommitResets`). The SLA worker: `Discard`, `Postpone`,
`FindOverdue`, `Nudge` or `Reassign`, `CheckAgain`. `RequestDies`, `WorkerDies`,
`PostponeFails` and half of `Enqueue` are faults.

*Abstractions.* One worker agent per board. Deadlines are ahead or past. A check
may be delivered early (the code queues it again). The owner and the last worker
of a task, who get it back from review, are a choice; `reviewer_agent_id` and
`in_progress_at` decide nothing here. Queries of one check see one state: the
dependency edges and their statuses, and the two gates on approvals. Two updates
of one task's edges merge as DELETE and INSERT do at READ COMMITTED; a repeated
edge breaks the unique constraint. Not modelled: creation, comments, the rules
`comment_required_for_review` and `only_lead_can_change_status`, tags, custom
fields, notifications. `CHECK_DEADLOCK FALSE`: the number of requests is bounded.

### 2.5 BillingWebhooks

*State.* `polar` and `emitted` are the subscriptions and their events; the place of
an event in `emitted` is its `modified_at`. `wire` is what has to be delivered, in
any order. `records` is `polar_webhook_events`, `jobs` the queue with attempts,
`plan` the row of `organization_plans`, `receipts` the checkout rows, `desk` what a
worker does. `once`, `handled`, `unsure`, `dropped` are history.

*Actions.* `PolarEmits`; `ReceiveDuplicate` and `StoreEvent` (COMMIT, then enqueue,
which may fail); `TakeJob` (pop and load), `Handle` (lock, handler, COMMIT),
`FinishJob` (COMMIT of the event), `JobRaises`, `WorkerDies`. `Handled` is the
effect of all six subscription handlers; `Updated` the UPDATE, which writes the
columns that differ from what the session had loaded before it locked.

*Abstractions.* One organization. Renewals and prices are in `updated`. A period's
end that has passed equals the present. The unique key is the subscription's id
(`api/billing_webhooks.py:109`), so two events of one subscription are never stored
both; overlapping and reordered handling needs two subscriptions. Not modelled:
checkout, order and customer events, expiry, daily reconciliation, the portal.

### 2.6 TokenLedger

*State.* `usage` is what the gateway would answer now, `ledger` the rows of
`agent_token_daily_usage` (last total, what is billed, marks), `tier` the plan,
`checks` the answer each check holds between its gateway call and the row lock.

*Actions.* `FetchUsage`, `SyncAndEnforce` (lock, delta, limits, mark, COMMIT: one
step, for the row lock covers it), `Spend`, `ChangePlan`.

*Abstractions.* One day, in which totals do not fall. The first total that is not 0
is a baseline. Cost counts only where the answer is priced. A lead is let through
until all others are marked. An agent without a session, a failed gateway call and
the turn of the day are not modelled.

### 2.7 Membership

*State.* `members` (role, and which row it is: a user who comes back has a new one),
`invites`, `calls` with what each request read.

*Actions.* Each request arrives (`Ask...`: caller's role, rows), some load again
(`Load...`), and commit (`Commit...`). `InsertMember` is the INSERT of a member,
which waits for an uncommitted one of the same user and for a request that has
locked the user's row; a deadlock of two of them is among `CallFails`.

*Abstractions.* One organization. Left out: board access, the active organization,
creation of a user's own organization and deletion of an organization. A user
without a membership may come by any invite addressed to him, not only the oldest.
An invite that was used may readmit a removed user who had accepted it twice at
once: `JoinsByInvite` says so.

### 2.8 BoardChat

*State.* `rows` (messages by stamp; stored when committed), the tab's selected
session (`rendered` for the callbacks, `session` for the effects), `thread`,
`hasMore`, `fetched`, `cache` per session, requests (`loads`, `older`,
`sending`) and `stream`. The indicator of a reply is four variables: `awaiting` is
the state as callbacks set it (`awaitingSinceRef`), `indicator` what was rendered of
it, `timed` the indicator for which the timer effect last ran, `timer` its timeout.
`turn` names the fetch the list belongs to, `crossed`
records that an answer was taken for another, `untimed` that a wait began between
the end of a timer and the next render, `emptied` that a first page failed
while an older page or a sent message was under way.

*Actions.* User: open, close, `SelectSession`, `LoadOlder`, `Send`. Effects:
`SwitchSession` (with cache, its age, and the skip after a creation). The effect
of `isAwaitingReply`: `RenderAwaiting`, `AwaitEffect` (cleanup, then a timeout for
what remains of the wait, or its end), `AwaitTimesOut`. Requests read
at the server and are taken later, or fail. Stream: `Reconnects`, `StreamAccepted`,
`StreamPolls` (it repeats the newest row), `StreamEvent`, `StreamBreaks`,
`StreamRetries`. `AgentPosts`, `RowCommits` (a stamp is taken before its COMMIT).

*Abstractions.* A message is its stamp; lists are sets. Ages of the cache and of a
message are choices. Text, attachments, tags and session administration are left
out.

### 2.9 BoardCards

*State.* `row` and `log` are the tasks and the activity log, `handlers` requests
that have committed a row and not yet its event; `cards`, `moves`, `feed` are the
page. A version is the number of a change; a timestamp is a position of the log.

*Actions.* `OthersWrite`, `MoveStored`, then `EventStamped`, `EventStored` or
`HandlerDies`; `LoadBoard`; `FeedConnects` (from the largest stamp on display),
`FeedAccepted`, `FeedPolls`, `FeedEvent`, `FeedBreaks`; `MoveStarts`,
`MoveAnswered`, `MoveFails` (the whole list of before is put back). `reasons`
records what made the page miss a change.

*Abstractions.* A row is its version. Two events have two stamps. A snapshot is one
query. Tasks are not deleted; filters, the limit of the snapshot and the edit
dialog are left out.

### 2.10 BoardApprovals

*State.* `approval` (status, creation and resolution stamp), `writes` (requests
before their COMMIT), `answers`; `list`, `badge` (the count of pending approvals on
a card), `updating`, `line` (the stream), `shifts` (moves of cards).

*Actions.* `OthersCreate`, `OthersDecide`, `OthersReopen` and the user's `Decide`
take a stamp; `WriteCommits` or `WriteFails`; `LoadSnapshot`; `DecisionAnswered`,
`AnswerLost`; `CardArrives` (a task event makes a card without a count);
`ShiftStarts`, `ShiftAnswered`, `ShiftFails` (which restore counts);
`LineConnects`, `LineAccepted`, `LinePolls`, `LineEvent`, `LineBreaks`. `marred`
records what made the page miss a change.

*Abstractions.* One approval per task, so a count is 0 or 1. Approved and rejected
are not told apart; a decision that is repeated leaves the status alone. A
snapshot and a poll are each one query, and the answer of a decision is the row at
its COMMIT (the code refreshes right after). Deleted approvals, approvals beyond
the snapshot's 200 and the dialogs that create or edit tasks are left out.

### 2.11 BoardOnboarding

*State.* `talks` are the rows (status, messages, draft), `latest` the row the
handlers find; `calls` the dialog's requests, `post` the agent's, `inbox` what the
gateway has still to answer; the dialog is `mount`, `visible`, `shown`, `awaits`,
`submitted`, `asked` and `polls`. `mishaps` records what went wrong on the way.

*Actions.* The handlers of start, answer and confirm in their steps (read, gateway
call, COMMIT), the agent's post (read, COMMIT of the whole list), polls (sent,
read, returned), the effects of a render (`Shows`), the user's open, close, submit
and confirm. Storing a row makes it the one updated last, so an older conversation may
become `latest` again (`Astray`).

*Abstractions.* A message is its content and a stamp. Cooldowns that decide whether
a repetition is dropped are choices. Provisioning of the lead after a confirmation
may fail and has no other effect here. The tour, autonomy and identity fields are
left out.

## 3. Runs

| run | config | instance | distinct states | question |
|---|---|---|---|---|
| `services` | `MCServices.cfg` | gate: 2 tasks, 2 approvals, 2 requests; queue: 1 task, 2 workers, 1 retry, 2 faults; billing: 2 subscriptions, 3 events, 2 workers, 1 requeue, 1 loss; ledger: 2 agents, 2 checks at a time, 3 altogether, 2 turns, 1 change of plan; members: 2 users, 2 invites, 2 calls at a time, 5 altogether | 427,671 | do interleaved requests keep one pending approval per task and refine the ledger; does an accepted task stay somewhere, and does the queue refine `TaskDelivery`; do replays change the plan; is a token billed once; does somebody own the organization? |
| `services_live` | `MCServicesLive.cfg` | gate: 2 tasks, 1 approval, 2 requests; queue: 2 tasks, 1 worker, 2 retries, 1 fault | 48,496 | is every request answered, does every task settle, does a fault at most double what is started? |
| `agent_lifecycle` | `MCAgentLifecycle.cfg` | any 2 of 7 kinds of request, 2 workers | 1,142,196 | is the lock held as it should be, is a woken agent always in somebody's hand? |
| `agent_live` | `MCAgentLive.cfg` | 2 of update, heartbeat, touch; 1 worker | 318,162 | does waiting end, and does one worker deliver no more wakes than the limit and those that were rolled back? |
| `task_board` | `MCTaskBoard.cfg` | 2 tasks, 2 requests, 1 SLA worker, 1 change of an approval | 1,501,684 | do merged columns keep review deadlines and the approval gate? |
| `review_sla` | `MCReviewSla.cfg` | 1 task, 2 requests, 2 SLA workers, 1 fault | 240,132 | is every review watched, and does one nobody answers end? |
| `console` | `MCConsole.cfg` | chat: 2 sessions, page of 1, 2 messages, 3 acts, no drop; cards: 2 tasks, 2 changes, 2 moves, 1 break; approvals: 2, with 4 stamps, 2 writes at a time, 1 move, 1 break; onboarding: 1 question, 2 drafts, 1 reply, 3 deeds, 2 posts, 1 poll, 1 failure | 1,376,828 | what may make a panel show something else than the rows; may dialog and agent wait for each other? |
| `console_live` | `MCConsoleLive.cfg` | chat: 2 acts, 1 drop; cards: 1 move; onboarding: 1 draft, no failure; else as above, without the approvals | 209,160 | does what is new arrive, and does waiting end? Are sessions mixed when connections break? |
| `agent_sync_race`, `agent_deleted`, `task_board_cycle`, `billing_revoked` | `MCAgentSyncRace.cfg`, `MCAgentDeleted.cfg`, `MCTaskBoardCycle.cfg`, `MCBillingRevoked.cfg` | as small as the disagreement allows | violated | the findings below |

*Bounds, and why they are enough.* Two tasks are the fewest with an order, two
approvals the fewest that conflict, two requests the fewest that race: every
conflict, wait and wait cycle of the code is between two transactions over two
rows. The proofs of section 4 cover every larger instance of what they state. In the
queue one retry and one fault reach every branch of `requeue_if_failed` and every
place of a death, alone and next to a second worker; two retries and one fault are
the fewest with which the copies of an envelope each bring a next attempt about. Two reconcile workers are what reordered and repeated messages
need. For the agent two requests beside the reconcile worker are the fewest with which a stale load meets a new wake; `MaxWakes = 2` tells the first
wake, the last and the giving up apart; `MaxRetries = 1` a retry from the end of
retries, and 2, in `agent_live`, are the fewest with which wakes that are rolled back
pass the limit; `Grace = 1` and `Horizon = 1` make a deadline come before, at and after
an event, since the clock may pass `Horizon` as long as a message is to come due
(`agent_lifecycle` with `Horizon = 2` has 4,102,228 states and passes as well). The task board begins at rest, with a
review, or with a task under way on a finished one, so that two requests, the
fewest that merge columns, reach what takes more from an empty board: a review
left and entered again under an old check, a task reopened under a request that
read it done. `MissLimit = 2` tells a nudge from the reassignment.

In the billing part two subscriptions are the fewest whose events interleave (two
of one are never stored both), three events let one be delivered behind two, one
loss reaches every place of a failure. For the ledger two checks overlap, a third
comes after them, and two turns reach the limits of the scaled plan. For the
members two users and two calls are the fewest that count the same owners, and
five calls reach: invite, accept, promote, and two who remove each other. In the
console a page of one message makes two messages two pages; two sessions and three
acts reach open, switch and one more; a connection of the chat breaks only in
`console_live`, which checks `BleedsOnlyLate` with it for two acts (the chat alone with
three acts and a drop has 796,683 states, where both its safety properties hold too); two changes and two moves are the fewest in
which an answer, a rollback and an event overtake each other. Four stamps are two
more than the initial rows have: one write behind another. In the onboarding dialog
two posts are a question and a draft, or one of them twice; two drafts tell an old
from a new one.
The properties of the console name their exceptions (`crossed`, `untimed`, `emptied`,
`reasons`, `marred`, `mishaps`): leaving one out makes the run fail. Five only do so
on a larger instance of the panel alone: `emptied` of the chat with a page of two,
three messages and seven acts, `"overtaken"` of the approvals with a fifth stamp,
`"reopened"` of the onboarding with four deeds and three posts, `"raced"` and
`"astray"` with five deeds and three posts.

*Fairness.* Requests that have begun and workers go on: the event loop and the
worker loop (which catches every exception) do not stop. Where a process waits for
a row lock the fairness is strong, per request, since PostgreSQL queues the waiters
of a row. Time passes (`ComesDue`, `Tick`, `DeadlinePasses`: weak).
On the task board, where requests are few, weak fairness of each request and of
each worker with each task (the queue is first in, first out) is enough. In the
console timers and effects run, the server's poll loops go on, a connection that is
asked for is accepted or breaks, and events on the wire are handled
(`SwitchSession`, `RenderAwaiting`, `AwaitEffect`, `AwaitTimesOut`, `Stream...`,
`Feed...`, `Poll...`: weak). The timer is fair only while it is set, and setting it
is the effect's doing: `AwaitingEnds` rests on what the effect does at each change
of the rendered indicator.
Nothing makes a request arrive, a user act, an agent post, an answer come, a
gateway succeed or a fault happen.

### What the runs found

Four runs are expected to be violated; each contradicts what the code or its
documentation says (`PROJECT.json`, "findings").

1. `agent_sync_race`: a template sync that loaded the row before two other runs
   computes its generation from the old object and writes one back that is not
   newer; the message of the last wake is then dropped as stale. (`Watched` is the
   same property for behaviours in which every run wakes the agent; it holds.)
2. `agent_deleted`: the guard against reconciling a deleted agent tests a status
   no code sets, so a queued message provisions a deleted agent's workspace again.
3. `task_board_cycle`: two updates validate one edge each against the committed
   graph and commit the two edges of a cycle; both tasks block each other, and
   further dependency updates on the board are refused.
4. `billing_revoked`: the key under which a webhook is stored is the id of its
   data, for subscription events the subscription's. The second event of a
   subscription is taken for a repetition of the first, so a cancellation, a failed
   payment or a revocation is never processed and the organization stays on pro.

The models also have behaviours that were not made runs of their own, some because
no text of the repository rules on them:

* An update commits a new agent token before it takes the agent lock; two
  overlapping updates may leave the workspace with a token the row rejects.
* The SLA worker's reassignment is written over a `done` that the lead committed
  after the worker's read; a claim that found its dependencies done commits after
  one was reopened; a stale request enters review with the misses of the last one.
* A sync after a wake clears the check-in deadline and outdates the wake's message,
  so an agent that never answers is not woken again; and the first successful run
  sets `last_seen_at` (`db_agent_state.py:59`), which reconcile takes for a check-in.
  Both differ from `docs/troubleshooting/gateway-agent-provisioning.md`.
* Two owners who remove each other leave none, and so does the demotion of the last
  one, which nothing forbids (`api/organizations.py:669` refuses removal with
  "Organization must have at least one owner").
* A dialog that is closed and opened again while the agent has still to answer asks
  it once more; the second draft may be stored between the confirmation and its
  read, so that the goal is of one draft and the lead of another (four deeds, three
  posts). Starts that were abandoned may leave two rows; sending the prompt of the
  older one again makes it the one every handler finds, without the question that
  was posted to the other, and the dialog waits for it (five deeds, three posts).
* The worker's timeout of 60 s (`lifecycle_reconcile.py:119`) may cancel a reconcile run
  after its wake message was delivered and before its COMMIT. The count in the row is
  taken back and the task is requeued, so even one worker wakes an agent more often
  than "up to 3 wake attempts" (`constants.py`): four times from one message with its
  three retries. `EscalationStops` says that nothing else passes the limit; without
  `undone` the run `agent_live` fails.
* Two reconcile workers (`compose.yml` runs one) may each hold a message of the
  same generation, which two requests enqueued one after the other, load the same
  `wake_attempts` and wake the agent once more than the limit: 4 times for
  `MAX_WAKE_ATTEMPTS_WITHOUT_CHECKIN = 3` ("allow up to 3 wake attempts before giving
  up", `constants.py`). With a limit of 2 this does not show.
* Faults of the queue multiply: a death between the push and the ZREM of a drain
  leaves two copies of every due envelope, each of which may fail and bring a next
  attempt about. With two retries two faults start the last attempt 4 times.
* A reopened approval keeps its `resolved_at`, so a console whose stream has gone
  past that stamp does not learn of it. A move restores the count of pending
  approvals of before it.
* A first page of chat messages that arrives after a switch is shown in the other
  session; a plan in `plans/archive` (multi-session management, phase 3) speaks of
  "no stale bleed".
* A wait for a reply that begins after a timer has ended another and before that was
  rendered gets no timer, since the effect depends on `isAwaitingReply` alone
  (`use-board-chat-messages.ts:258`); the indicator then stays on until a reply or a
  switch (`untimed`). A wait that takes the place of one without a render in between
  keeps the timer of the older one, and ends early.
* A first page that fails empties the list (`use-board-chat-messages.ts:364`), also
  under an older page or a message on its way. What arrives then is counted from an
  empty list, "load older" asks with that count, and a message is never fetched.
* A failed move of a card puts back the whole list of before, with every row that
  the stream has delivered since.

## 4. Proofs

`ApprovalGateProofs` proves, for every set of tasks, approvals and requests (from
the assumptions `TasksAssumption`, `NoApprovalAssumption`, `NoRequestAssumption`
of `ApprovalGate`: task ids are naturals, the null values are not ids):

* `Invariance`: `Spec => []IInv`;
* `TypeCorrect`, `OnePending`, `PrimaryLinked`: the three safety invariants;
* `LocksAreOrdered`, `ChecksDoNotDeadlock`: `Spec => []ChecksNeverDeadlock`.

*Why IInv.* `OnePendingPerTask` is not inductive: a request that has passed the
conflict check commits later, and nothing in the property says what keeps its
check true. `IInv` says, for each request by where it is: what its job holds
(`JobShape`); that it owns the task rows it has locked (`LocksHeld`); that, once
checked, no other pending approval covers its tasks (`NoOtherPending`) and its
subject's cover is the scope it locked (`SubjectInScope`). Another request can
break that only by making an approval pending over one of these tasks, for which
it would own the same row. For deletions it says that what a request read about an
approval it has claimed is still so (`LeftIsLinked`, `HomeIsHeld`), because it holds
the approval row and shares the task row the approval moves to. `DeadIsUnfiled`
covers approvals without a live row. The step proof is one lemma per action; one
lemma (`OtherRequest`) says what a step of one request may do without disturbing
another (`Respects`), and every step is shown to stay within it.

*Why OrderInv.* Lock order is an invariant of one request: while it takes the locks of
the conflict check it owns only rows below those it has still to lock
(`OwnsLower`), and only finitely many requests are under way. In a circle of such
requests the one that waits for the highest row has its row owned by another, which
by `OwnsLower` waits for a higher one still (`SomeoneIsHighest`). The set of
requests need not be finite.

It also proves that it implements `ApprovalLedger`:

* `DeletionInvariance`: `Spec => []DInv`;
* `Refinement`: `Spec => ImplementsLedger`.

*Why DInv.* For creations and decisions `IInv` gives the guards of the ledger's
operations. A deletion commits what it read several statements ago: that an
approval has no other task (it is deleted) or has one (it moves there). `DInv`
says that such a finding stays true, since the links of an existing approval only
shrink, and since an approval that lives never loses its last link without its
`task_id` having gone with it. `OrphansLedger` concludes that the approvals a
deletion marks deleted are exactly those that covered nothing but the task.

`TaskBoardProofs` proves, from `BoardAssumption`, for any board and any number of
requests and SLA workers:

* `DeadlineInvariance`: `Spec => []DeadlineInv`;
* `ReviewsHaveDeadlines`: `Spec => []ReviewHasDeadline`;
* `DoneVouched`: `Spec => DoneIsVouched`;
* `BoardKeepsTypes`: `Spec => []TypeOK`;
* `ReviewsAreWatched`: `Spec => []ReviewIsWatched`.

*Why DeadlineInv.* An UPDATE is applied to whatever the row is by then, so nothing
a request knows about the row helps: what must hold is a property of the UPDATE
alone. `KeepsDeadline` says that it moves a task to review only together with a
deadline, and clears a deadline only together with a status other than review;
such an UPDATE preserves `HasDeadline` of every row (`MergeKeeps`). `DeadlineInv`
says by stage where it comes from: a session has read a sound row, the actors'
rules leave the deadline alone (`RulesKeepDue`), and review tracking sets or clears
it in the same flush as the status (`TrackingKeeps`); the SLA worker has read a
task in review, so that its reassignment writes the status with the cleared deadline.

*Why VouchInv.* `DoneIsVouched` is about one step, the COMMIT, and the reason lies
two steps before, at the gate. `VouchInv` carries it: while a request is open its
witness is true whenever its task has an approved approval, so what the gate read
is remembered when the approval is withdrawn; an UPDATE that passed the gate
and finishes the task has its witness; a cascade never contains "done". That an
UPDATE contains "done" only when the request read another status is what
`UpdateTo` is for (`VouchGate`).

*Why BoardTyped and SlaInv.* `TypeOK` says what stage a session is in; `BoardTyped`
adds what it holds there, since what it holds is what it will write. That one request
flushes at a time (`OneFlushes`) is not a matter of types: the flush waits for the lock.
`ReviewIsWatched` is about a request that has committed; `MovesInKnowingly` says what
must hold before the COMMIT, that an UPDATE which contains "review" belongs to a request
that will queue a check, and that no cascade contains it. The request queues the
check only if the row it reloads has a deadline: there the proof needs `DeadlineInv`.
A worker drops a check of a task without a deadline, and needs it again. So
`ReviewHasDeadline` is what the watch rests on, and a writer that cleared a
deadline alone would lose it.

`TaskQueueProofs` proves, from `MaxRetriesAssumption` and `MaxFaultsAssumption`
(both are natural numbers), for any tasks:

* `QueueKeepsTypes`, `TasksNeverVanish`: `QueueSpec => []NothingVanishes`, any number of
  workers;
* `FaultsBoundDuplicates`: `QueueSpec => []DuplicatesAreFaults`, with one worker;
* `QueueDelivers`: `QueueSpec => ImplementsDelivery`, any number of workers.

*Why QueueIInv.* The dangerous step is the ZREM: it removes members that were pushed
long before, while another worker may have popped one, run it and put its next
attempt into the sorted set, where a third drain may have read it in turn.
`NothingVanishes` does not say that what is about to be removed is elsewhere.
`PushedMovesOn` does: the task is over, or an envelope with at least as many attempts
is on the list or in a hand, or one with *more* attempts is in the sorted set and no
drain is about to remove it. Attempts only grow, so this order is what makes it
inductive.

*Why LoneIInv.* For the bound on duplicates the invariant counts: the starts of an
attempt there were, plus every envelope of its task, in Redis or in the hand, that
may still lead to that attempt, are at most `granted` (`StartsGranted`). A handler
that raises moves one from the hand to the sorted set; a fault between the push and
the ZREM makes the batch count twice, hence the doubling. The counts are sums of
cardinalities over the list, the sorted set and the hand, with lemmas on how LPUSH,
BRPOP, ZADD and ZREM change them. With several workers two drains read the same
members and push them twice without any fault, so the hypothesis is needed.

*Why DeliveryInv.* `Pop` starts whatever comes first on the list. That each earlier
attempt of its task was started, which `TaskDelivery` demands, is decided much earlier
and by another worker: when the attempt before was requeued. `Startable` is carried
from there: it holds of every envelope that is on the list, in the sorted set or in the
memory of a drain, where a member may outlive its removal from the set and be pushed
once more; what a worker has in its hand was started itself, so that its next attempt
is startable (`NextStartable`). A task is given up with its last attempt since the
retry limit is compared with the count that the envelope carries.

`AgentLifecycleProofs` proves, from `ProcessAssumption` (finitely many request slots
and workers, which the numbering of tokens needs) and `NumberAssumption`:

* `LifecycleTyped`, `RowIsLocked`: `Spec => []TypeOK`, which says that the row lock is
  held exactly during the gateway calls;
* `WokenAgentIsWatched`: `Spec => []Watched`, any number of requests and workers;
* `OneWorkerStops`: `Spec => []EscalationStops`, with one worker: of the wakes
  delivered, by runs that succeed, fail or are cancelled, no more than the limit were
  not rolled back.

*Why WatchInv.* Somebody in `InHand` is not enough: an idle-bound worker counts there
although it is about to drop its message. `Held` says which worker counts: one that
runs for a message of the row's *present* generation (`Follows`), or one that saves
a row and clears a deadline (`Clears`). That no other session makes the deadline
reappear or the generation go back is `SavesLittle`: heartbeats, touches and
deletions write at most a cleared deadline.

*Why StreakInv.* A wake is counted by the property when it is delivered, by the row
when its run commits, and the counter in the row is written over by stale sessions. So
the streak is compared with what is certain where it is used: without the wakes that
were undone it is at most the row's count plus one, if the worker has a wake out whose
run is still open (`Out`); and for the one worker at most the count it loaded, which
it found below the limit (`CountsUp`). A COMMIT turns the open wake into a counted one,
a cancellation into an undone one (`StreakSend`, `StreakTimeout`). Requests that do not
wake write the count back that is there (`KeepsWakes`, `SavesWakes`). A second worker
would have loaded the same count.

`OrganizationProofs` proves, from `BillingAssumption`, for any subscriptions, workers,
events, requeues and losses: `BillingKeepsTypes`, `StoredEventIsUnderWay`,
`ReplaysAreHarmless`.

*Why BillingIInv.* `ReplaysKnown` says of *every* event that was handled, not only of
the last, that handling it again leaves the present plan as it is or turns its time
back: after any other handler, an event that was handled is older than the plan's
stamp or not of its subscription. That rests on `OneEventEach`, which is the unique
key. `Places` says of each stored event which one place it is in, as sets; the sum of
cardinalities follows.

and, from `LedgerAssumption`: `LedgerTyped`, `TokensBilledOnce`,
`NothingBackcharged`, `RefusalsStand` (an action property).

*Why LedgerIInv.* What a check holds was true some time ago. `CheckInv` says what
remains true of it: the answer lies between the first answer anybody had (`first`)
and the usage of now. `AgentInv` puts the ledger's total and baseline in the same
interval, so a late answer neither bills twice nor bills what was before; for a
refused agent `RefusedInv` keeps the limit it reached and the mark on its board.

and, from `MembershipAssumption`: `MembershipTyped`,
`AnOwnerStays`, `OnlyInvitedJoin` (an action property).

*Why MembershipIInv.* `CallInv` says what a request has read that nobody can change
without `overtaken`: the removal of an owner has counted two, the invite is addressed
to the one who joins by it, an invite that was used has let its user in
(`InviteInv`). `OneAdds` is the unique constraint on members: of two INSERTs of one
user the second waits.

`ServicesProofs` puts them together, from the assumptions of all parts. A step of
`MCServices` is a step of one part and leaves the variables of the others alone
(`StepsAreOfParts`), so that

* `ServicesAreTheirParts`: `ServicesSpec` implies the specification of each part;
* `ServicesKeepTypes`: `ServicesSpec => []ServicesTypeOK`;
* `ServicesKeepPromises`: every safety property of the run `services`, as that run
  states it, for every value of the constants.

This is what entitles one run to ask the questions of five modules: no property of a
part is lost, or gained, by checking it there. The converse, that a run reaches every
behaviour of a part, is seen in `ServicesNext`; the fairness of `ServicesFairSpec`
contains `ENABLED` and is not carried over by proof.

`ConsoleProofs` proves, from `ApprovalsAssumption`, `CardsAssumption` and
`ChatAssumption`, for any tasks, approvals, sessions, page size and bounds:

* `ApprovalsTyped`: `ApprovalsSpec => []ApprovalsTypeOK`, and
  `StreamedApprovalsAreCurrent`: `ApprovalsSpec => []ApprovalsAreCurrent`;
* `CardsAreTyped`: `CardsSpec => []CardsTypeOK`, and
  `QuietBoards`: `CardsSpec => []QuietBoardIsCurrent`;
* `ChatIsTyped`: `ChatSpec => []ChatTypeOK`,
  `SessionsDoNotMix`: `ChatSpec => []BleedsOnlyLate`, and
  `PagesNeverGap`: `ChatSpec => []PagesMeet`;
* `ConsoleIsItsPanels`, `ConsoleKeepsTypes`, `ConsoleKeepsPromises`: as for
  `MCServices`, a behaviour of `MCConsole` is one of each panel, and it keeps
  `ConsoleTypeOK` and every other safety property of the run `console`.

*Why ApprovalsInv.* The stream asks for what has changed since the position it has
reached. `NothingMissed` says that every approval whose last change is before that
position is shown as it is or on the wire; `WireSound` that what is on the wire is
the row as it is, for a later change has a later stamp. `"late"` is the exception
that a stamp was taken before the position and committed after it.

*Why CardsInv.* A card may be out of step as long as somebody owes it an event: a
handler that has stored the row has still to store the event, the stream has still
to send it (`IsDue`), or it is on the wire with the row as it is (`Brings`). A move
that fails puts the whole list back; `MovesEnd` says that with one move at a time
this list shows no other move.

*Why BoardTyped.* The type invariant of the cards is proved on top of `CardsInv`. It
bounds the log of events, which nothing in a step bounds: a handler appends to it
some time after it has changed the row. `EventsCounted` counts both, the events
stored and the handlers that owe one, against the changes made. In the same way the
lists that moves keep for a rollback, and the rows on the wire, show no version
that is still to come (`PageCapped`, `WireCapped`).

*Why ChatInv.* A request is named by the run of the fetch effect it was asked in;
`InTurn` says that an answer of the *present* run belongs to the session on display,
which is what the code compares `cancelled` flags and refs for. `Counts` ties the
number that the next offset is made of to the database: at most as many messages as
the list reaches down to, and at least a page while there is more. That an older
page cannot leave a gap then rests on what LIMIT and OFFSET return
(`PageHolds`, proved by numbering the rows by the rows that are newer). The attempt
to prove this for `crossed` alone failed: it led to `emptied` (section 3).
`ChatTyped` adds for the types that nothing is shown, cached or awaited that was never
stored (`ListsTaken`), and that a broken connection is off only while the panel is shut.

`BoardOnboardingProofs` proves, from `OnboardingAssumption`, for any questions, drafts,
replies and bounds:

* `OnboardingIsTyped`: `OnboardingSpec => []OnboardingTypeOK`;
* `QuestionsNotAskedAgain`: `OnboardingSpec => []NoReask`;
* `TheyDoNotWait`: `OnboardingSpec => []NobodyWaits`;
* `ConfirmedIsKept`: `OnboardingSpec => ConfirmedStays` (an action property);
* `GoalIsTheDraft`: `OnboardingSpec => []OneDraft`.

Each property names the mishaps that may break it, and each inductive invariant
says: unless one of these has happened, the parts hold. `OnboardingTyped` says what a
request has read by phase, and that a dialog has at most one under way.

*Why ReaskInv.* `NoReask` looks at the message on display, and an answer that comes
later may bring an earlier one back. `AskedInv` says of every stamp that was answered
that what is on display is newer, or is that message and is waited on; and that an
answer under way is for a message newer than all of those.

*Why WaitInv.* The dialog waits because its answer was sent, the agent is silent
because nothing is in its inbox. `Owed` says that while the last message of the row
is the user's, something is on its way to the agent or from it; `DialogTold` that
what the dialog waits on is a message that one of the user follows in its row. At
rest, with the row on display, the last message would have to be both. Stamps tell
messages apart (`OneStampEach`), and a draft is a message of the agent (`RowsTold`).

*Why StayInv.* A post stores the status it has read. It could take a confirmation
back only if it had read the row before it had a draft (`PostSeen`), and a row is
confirmed only with one; so what must hold is that nobody confirms, or answers, by a
view of another row. `RowsDrafted` says that only the newest row may be without a
draft, `ViewOpen` that a view with a draft is not of an open row unless it will be
discarded (`Outdated`): by a newer answer on display or a start that has come back.

*Why OneInv.* The goal comes from the dialog and the lead from the row. They agree
since the agent has one thing at a time to answer (`Tokens`), and while it has, the
dialog waits: a view is what is waited on (`Stuck`), or is the row, of which nobody
owes a change (`UpToNow`), or will be discarded. A confirmation therefore finds the
agent silent and the draft on display in the row (`ConfirmOne`).

Attempts at these proofs failed for good reasons, three of them in the model or a
property: a first page that fails empties the list while an older page or a sent message is
under way (`emptied`); a row that is stored again becomes the latest one, which the model
left out (`astray`); and a dialog that is opened again while the agent has still to
answer starts a second exchange (`reopened`). TLC shows each of them on an instance
larger than those the runs use (section 3).

*What is only model-checked.* All liveness (`EveryRequestEnds`, `EveryTaskSettles`,
`NoEndlessWait`, `ReviewEnds`, `NewestArrives`, `AwaitingEnds`, `CardsCatchUp`,
`NewsArrives`): fairness and `ENABLED` are outside what the prover can do. Every
invariant and every action property of the passing runs, and both refinements, are
stated by a theorem. Induction over data and `RECURSIVE` operators would be out of reach
as well, but no module needs them. No definition of a module with theorems is
replaced by a configuration; the proofs are about the modules themselves, which the
MC modules extend. TLC checked each inductive invariant on the instances of section
3 before it was proved, and that is how the limits of `EscalationStops` and
`DuplicatesAreFaults` came to light ("What the runs found").

## 5. Plan

1. Done: approvals with their ledger and proofs; the queue; the agent's lifecycle;
   tasks with the review SLA and its safety proofs; billing, token ledger and
   members; the console's chat, cards, approvals and onboarding.
2. Proofs: done for all safety properties of the components and of their
   compositions, and for the refinements of `ApprovalLedger` and `TaskDelivery`.
3. Models that could follow: creation (`api/tasks.py` 1785-1915) and deletion of
   tasks, and the gates of `TaskBoard` over `ApprovalGate`'s tables instead of free
   changes; delivery of webhook payloads; the comments and agents panels of the
   board page, which are streams like those modelled.

## 6. Not modelled

The generated API client (half of the console's code) and presentation: forms,
routing, pages that show what React Query fetched, rendering of agent workspaces,
the marketplace, metrics, e-mail providers, token verification. They are pure
functions or I/O with no state of their own that others race for. The components
marked `not_modelled` in `PROJECT.json` say why, one by one.

Hazards of the backend that no property covers, and where they bite
(`src/backend/app/`):

| line | what |
|---|---|
| `services/queue_worker.py:203` | an envelope of an unknown type, or one that cannot be decoded, is dropped after the pop |
| `services/queue.py:209` | a next score equal to now makes a BRPOP timeout of 0, which blocks without end |
| `services/openclaw/provisioning_db.py:1843` | a new token is committed before the lock that serialises the runs that deliver tokens |
| `services/openclaw/lifecycle_orchestrator.py:99`, `:177` | a run without wake clears what one with it left; a message that Redis refused is not looked after |
| `services/openclaw/db_agent_state.py:59` | a seeded timestamp stands for a sign of life |
| `api/tasks.py:2938`, `:3280` | dependencies found done, and reopened before the COMMIT; dependents reset in a second transaction |
| `services/task_review_sla_worker.py:146`, `:148` | a reassignment over a newer `done`; misses that stay in the row |
| `services/webhooks/queue.py:76` | the queue's refusal is not looked at by webhook ingestion |
