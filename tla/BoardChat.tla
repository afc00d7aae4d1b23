------------------------------ MODULE BoardChat ------------------------------
(***************************************************************************)
(* One browser tab's chat panel (BoardChatPanel.tsx) with the hook that     *)
(* holds the messages of the selected session (use-board-chat-messages.ts), *)
(* the stream hook it uses (use-sse-stream.ts), and the two sides of        *)
(* the network it talks to: the message rows and the stream's poll loop of  *)
(* backend/app/api/board_memory.py.                                         *)
(*                                                                          *)
(* A message is the number of its created_at stamp.  A list of messages is  *)
(* kept in stamp order without duplicates by the hook's merge, so it is the *)
(* set of its stamps here.                                                  *)
(***************************************************************************)
EXTENDS Integers, FiniteSets, FiniteSetsExt

CONSTANTS
    Sessions,       \* the chat sessions of the board
    FirstSession,   \* the first of the list, selected when the panel mounts
    NoSession,      \* the session of a stamp that is not taken yet
    None,           \* no cache entry, no page request, no message being sent
    PageSize,       \* messages of a page (PAGE_SIZE)
    MaxMessages,    \* bound: messages ever stamped
    MaxActs,        \* bound: what the user does
    MaxDrops        \* bound: connections of the stream that break

ASSUME ChatAssumption ==
    /\ FirstSession \in Sessions /\ NoSession \notin Sessions
    /\ PageSize \in Nat \ {0}
    /\ {MaxMessages, MaxActs, MaxDrops} \subseteq Nat

VARIABLES
    rows,       \* server: stamp |-> [session, by, stored]
    session,    \* the session the effects ran for last (chatSessionId)
    rendered,   \* the session of the last render: the refs hold its callbacks
    open,       \* the panel is open (enabled)
    acts,       \* what the user did so far
    turn,       \* the act the fetch effect ran for last; names the requests
    thread,     \* messages
    hasMore,    \* hasMore
    fetched,    \* fetchedCountRef
    cache,      \* sessionCacheRef
    awaiting,   \* awaitingSinceRef; the state isAwaitingReply is set with it
    indicator,  \* isAwaitingReply as the last render had it
    timed,      \* the indicator that the timer effect ran for last
    timer,      \* the effect has a timeout set
    loads,      \* requests of fetchLatest under way
    older,      \* the request of loadOlder under way
    sending,    \* the request of sendMessage under way
    stream,     \* the connection of useSSEStream
    drops,      \* connections that broke
    crossed,    \* history: an answer was taken in another run of the effect,
                \* or an event between a render and its effects
    untimed,    \* history: a wait began after the timer of another had ended and
                \* before the render that takes the indicator off
    emptied     \* history: a first page failed while loadOlder or sendMessage was
                \* under way

chatVars == <<rows, session, rendered, open, acts, turn, thread, hasMore,
              fetched, cache, awaiting, indicator, timed, timer, loads, older,
              sending, stream, drops, crossed, untimed, emptied>>
\* What the hook keeps for the session on display.
shownVars == <<thread, hasMore, fetched, awaiting>>
tabVars == <<session, rendered, open, acts, turn>>
requestVars == <<loads, older, sending>>
timerVars == <<indicator, timed, timer>>
historyVars == <<crossed, untimed, emptied>>

Stamps == 1..MaxMessages
Taken == {m \in Stamps : rows[m].session # NoSession}
Now == Cardinality(Taken)
Stored(s) == {m \in Stamps : rows[m].session = s /\ rows[m].stored}

NoStream == [phase |-> "off", since |-> 0, wire |-> {}]

ChatTypeOK ==
    /\ rows \in [Stamps -> [session : Sessions \cup {NoSession},
                            by : {"user", "agent"}, stored : BOOLEAN]]
    /\ {session, rendered} \subseteq Sessions
    /\ open \in BOOLEAN
    /\ {acts, turn} \subseteq 0..MaxActs
    /\ thread \subseteq Taken
    /\ hasMore \in BOOLEAN
    /\ fetched \in Nat
    /\ \A s \in Sessions :
          \/ cache[s] = None
          \/ cache[s] \in [messages : SUBSET Taken, hasMore : BOOLEAN,
                           fetched : Nat, fresh : BOOLEAN]
    /\ awaiting \in {0} \cup Taken
    /\ stream.phase \in {"off", "asked", "open", "waiting"}
    /\ (stream.phase = "off") <=> ~open
    /\ stream.wire \subseteq Taken
    /\ {indicator, timed, timer} \subseteq BOOLEAN
    /\ {crossed, untimed, emptied} \subseteq BOOLEAN
------------------------------------------------------------------------------
(* The server: a row is stamped when the handler builds it and visible when *)
(* its transaction commits.  A list is ordered by stamp, newest first.      *)

Stamp(s, by) ==
    /\ Now < MaxMessages
    /\ rows' = [rows EXCEPT ![Now + 1] =
                   [session |-> s, by |-> by, stored |-> FALSE]]

\* The rows of a page: LIMIT PageSize OFFSET offset of the newest first order.
Page(s, offset) ==
    {m \in Stored(s) :
        LET newer == Cardinality({n \in Stored(s) : n > m})
        IN offset <= newer /\ newer < offset + PageSize}

AgentPosts ==
    /\ \E s \in Sessions : Stamp(s, "agent")
    /\ UNCHANGED <<timerVars, tabVars, shownVars, cache, requestVars, stream, drops, historyVars>>

RowCommits ==
    /\ \E m \in Taken :
          /\ ~rows[m].stored
          /\ rows' = [rows EXCEPT ![m].stored = TRUE]
    /\ UNCHANGED <<timerVars, tabVars, shownVars, cache, requestVars, stream, drops, historyVars>>
------------------------------------------------------------------------------
(* The hook's own steps.                                                    *)

Entry(messages, more, count) ==
    [messages |-> messages, hasMore |-> more, fetched |-> count, fresh |-> TRUE]

\* The list with m merged into it, and the cache entry written with it.  An
\* entry counts every message it holds as fetched.
Merged(m) == thread \cup {m}
CacheMerged(s, m, more) ==
    cache' = [cache EXCEPT ![s] =
        Entry(Merged(m), more, Max({fetched, Cardinality(Merged(m))}))]

\* A wait that begins while the effect's last run still stands for an indicator
\* that is on, and its timer is gone, gets none: the effect does not run again.
BeginsTimed == untimed' = (untimed \/ (awaiting' # 0 /\ indicator /\ timed /\ ~timer))

\* A user's message that is the last of a list keeps the indicator on when it
\* is younger than AWAITING_REPLY_TIMEOUT_MS.
RestoreAwaiting(items) ==
    \E young \in BOOLEAN :
        awaiting' = IF items # {} /\ young /\ rows[Max(items)].by = "user"
                    THEN Max(items) ELSE 0

\* Mutants: the cleanup does not abort; the key is left out.
NeverAborts(on) == stream' = IF on THEN [NoStream EXCEPT !.phase = "asked",
                                 !.since = IF thread # {} THEN Max(thread) ELSE 0]
                             ELSE stream
ConnectsOnce(on) == stream' = IF on /\ stream.phase = "open" THEN stream
                              ELSE [NoStream EXCEPT !.phase = IF on THEN "asked" ELSE "off",
                                    !.since = IF on /\ thread # {} THEN Max(thread) ELSE 0]

\* useSSEStream connects when it is enabled, and again whenever its key (the
\* session) changes; the cleanup aborts the connection it had.
Reconnects(on) == stream' = [NoStream EXCEPT !.phase = IF on THEN "asked" ELSE "off",
                             !.since = IF on /\ thread # {} THEN Max(thread) ELSE 0]

Act == acts < MaxActs /\ acts' = acts + 1

(* The effect that runs fetchLatest, for session s of an open panel.        *)
Fresh(s) == cache[s] # None /\ cache[s].fresh

FromCache(s) ==
    /\ cache[s] # None
    /\ thread' = cache[s].messages
    /\ hasMore' = cache[s].hasMore
    /\ fetched' = cache[s].fetched
    /\ RestoreAwaiting(cache[s].messages)

Cleared ==
    /\ thread' = {}
    /\ hasMore' = FALSE
    /\ fetched' = 0
    /\ awaiting' = 0

\* An entry younger than SESSION_CACHE_TTL_MS is enough; an older one, or an
\* empty list, is on display until the answer is taken.
Fetch(s, skip) ==
    /\ turn' = acts'
    /\ \/ Fresh(s) /\ FromCache(s) /\ UNCHANGED <<cache, loads>>
       \/ /\ ~Fresh(s) /\ skip
          /\ Cleared
          /\ cache' = [cache EXCEPT ![s] = Entry({}, FALSE, 0)]
          /\ UNCHANGED loads
       \/ /\ ~Fresh(s) /\ ~skip
          /\ FromCache(s) \/ (cache[s] = None /\ Cleared)
          /\ loads' = loads \cup {[session |-> s, turn |-> acts',
                answered |-> FALSE, items |-> {}, total |-> 0]}
          /\ UNCHANGED cache

\* The user picks another session.  The render writes the callbacks of the new
\* session into the refs of useSSEStream; the connection of the old one lives
\* on until the effects of the render run.
SelectSession ==
    /\ open /\ rendered = session
    /\ Act
    /\ rendered' \in Sessions \ {session}
    /\ UNCHANGED <<timerVars, rows, session, open, turn, shownVars, cache, requestVars,
                   stream, drops, historyVars>>

\* The effects.  A session that was created a moment ago is known to be empty:
\* its first fetch is skipped.
SwitchSession ==
    /\ rendered # session
    /\ session' = rendered
    /\ UNCHANGED acts
    /\ \/ Fetch(rendered, FALSE)
       \/ /\ \A m \in Taken : rows[m].session # rendered
          /\ Fetch(rendered, TRUE)
    /\ Reconnects(TRUE)
    /\ BeginsTimed
    /\ UNCHANGED <<timerVars, rows, rendered, open, older, sending, drops,
                   crossed, emptied>>

OpenPanel ==
    /\ ~open
    /\ Act
    /\ open' = TRUE
    /\ Fetch(session, FALSE)
    /\ Reconnects(TRUE)
    /\ BeginsTimed
    /\ UNCHANGED <<timerVars, rows, session, rendered, older, sending, drops,
                   crossed, emptied>>

\* fetchLatest runs once more, finds the panel closed and leaves the messages.
ClosePanel ==
    /\ open /\ rendered = session
    /\ Act
    /\ open' = FALSE
    /\ Reconnects(FALSE)
    /\ UNCHANGED <<timerVars, rows, session, rendered, turn, shownVars, cache, requestVars, drops,
                   historyVars>>

\* SESSION_CACHE_TTL_MS passes.
CacheAges ==
    /\ \E s \in Sessions :
          /\ Fresh(s)
          /\ cache' = [cache EXCEPT ![s].fresh = FALSE]
    /\ UNCHANGED <<timerVars, rows, tabVars, shownVars, requestVars, stream,
                   drops, historyVars>>

\* The effect of isAwaitingReply.  A render has the value the state has by then;
\* React runs the effects of a render before it renders again.
RenderAwaiting ==
    /\ timed = indicator
    /\ indicator # (awaiting # 0)
    /\ indicator' = (awaiting # 0)
    /\ UNCHANGED <<rows, tabVars, shownVars, timed, timer, cache, requestVars,
                   stream, drops, historyVars>>

\* Mutant: the effect also asks whether the panel is open, and does not depend on it.
AwaitEffectOpen ==
    /\ timed # indicator
    /\ timed' = indicator
    /\ timer' = (indicator /\ awaiting # 0 /\ open)
    /\ UNCHANGED <<rows, tabVars, shownVars, indicator, cache, requestVars,
                   stream, drops, historyVars>>

\* The effect runs when the indicator of a render is not that of its last run.  The
\* cleanup clears the timeout it had; a wait that is still on by the time it runs
\* gets one for what remains of AWAITING_REPLY_TIMEOUT_MS, or ends at once.
AwaitEffect ==
    /\ timed # indicator
    /\ timed' = indicator
    /\ \/ timer' = (indicator /\ awaiting # 0) /\ UNCHANGED awaiting
       \/ indicator /\ awaiting # 0 /\ timer' = FALSE /\ awaiting' = 0
    /\ UNCHANGED <<rows, tabVars, thread, hasMore, fetched, indicator, cache,
                   requestVars, stream, drops, historyVars>>

\* The timeout: it was set for the wait the effect found, and ends the one there is.
AwaitTimesOut ==
    /\ timer
    /\ timer' = FALSE
    /\ awaiting' = 0
    /\ UNCHANGED <<rows, tabVars, thread, hasMore, fetched, indicator, timed, cache,
                   requestVars, stream, drops, historyVars>>
------------------------------------------------------------------------------
(* fetchLatest and loadOlder: the server reads, later the answer is taken.  *)
(* Neither asks whether its session is still the selected one.              *)

TakenFor(run) == crossed' = (crossed \/ run # turn \/ rendered # session)

\* Mutant: a page counts in full.
FullPage(items) == PageSize

\* data.items.length.
Count(items) == Cardinality(items)

LoadRead ==
    /\ \E q \in loads :
          /\ ~q.answered
          /\ loads' = (loads \ {q}) \cup
                {[q EXCEPT !.answered = TRUE, !.items = Page(q.session, 0),
                           !.total = Cardinality(Stored(q.session))]}
    /\ UNCHANGED <<timerVars, rows, tabVars, shownVars, cache, older, sending,
                   stream, drops, historyVars>>

LoadTaken ==
    /\ \E q \in loads :
          /\ q.answered
          /\ loads' = loads \ {q}
          /\ thread' = q.items
          /\ fetched' = Count(q.items)
          /\ hasMore' = (q.total > Count(q.items))
          /\ cache' = [cache EXCEPT ![q.session] =
                          Entry(q.items, hasMore', fetched')]
          /\ RestoreAwaiting(q.items)
          /\ TakenFor(q.turn)
    /\ BeginsTimed
    /\ UNCHANGED <<timerVars, rows, tabVars, older, sending, stream, drops, emptied>>

\* The catch of fetchLatest: resetState, whatever is on display by now.
LoadFails ==
    /\ \E q \in loads :
          /\ ~q.answered
          /\ loads' = loads \ {q}
          /\ TakenFor(q.turn)
    /\ emptied' = (emptied \/ older # None \/ sending # None)
    /\ Cleared
    /\ UNCHANGED <<timerVars, rows, tabVars, cache, older, sending, stream, drops, untimed>>

LoadOlder ==
    /\ open /\ rendered = session
    /\ hasMore /\ older = None
    /\ Act
    /\ older' = [session |-> session, turn |-> turn, offset |-> fetched,
                 answered |-> FALSE, items |-> {}, total |-> 0]
    /\ UNCHANGED <<timerVars, rows, session, rendered, open, turn, shownVars, cache, loads,
                   sending, stream, drops, historyVars>>

OlderRead ==
    /\ older # None /\ ~older.answered
    /\ older' = [older EXCEPT !.answered = TRUE,
                              !.items = Page(older.session, older.offset),
                              !.total = Cardinality(Stored(older.session))]
    /\ UNCHANGED <<timerVars, rows, tabVars, shownVars, cache, loads, sending,
                   stream, drops, historyVars>>

OlderTaken ==
    /\ older # None /\ older.answered
    /\ fetched' = fetched + Count(older.items)
    /\ hasMore' = (older.total > fetched')
    /\ thread' = thread \cup older.items
    /\ cache' = [cache EXCEPT ![older.session] = Entry(thread', hasMore', fetched')]
    /\ TakenFor(older.turn)
    /\ older' = None
    /\ UNCHANGED <<timerVars, rows, tabVars, awaiting, loads, sending, stream, drops,
                   untimed, emptied>>

OlderFails ==
    /\ older # None /\ ~older.answered
    /\ older' = None
    /\ UNCHANGED <<timerVars, rows, tabVars, shownVars, cache, loads, sending,
                   stream, drops, historyVars>>
------------------------------------------------------------------------------
(* sendMessage.  The handler commits the row, tells the agents, and answers *)
(* only then: the reply may be on the stream before the answer.             *)

Send ==
    /\ open /\ rendered = session
    /\ sending = None
    /\ Act
    /\ awaiting' = 0
    /\ sending' = [session |-> session, turn |-> turn, msg |-> 0,
                    hasMore |-> hasMore]
    /\ UNCHANGED <<timerVars, rows, session, rendered, open, turn, thread, hasMore,
                   fetched, cache, loads, older, stream, drops, historyVars>>

SendStamped ==
    /\ sending # None /\ sending.msg = 0
    /\ Stamp(sending.session, "user")
    /\ sending' = [sending EXCEPT !.msg = Now + 1]
    /\ UNCHANGED <<timerVars, tabVars, shownVars, cache, loads, older, stream,
                   drops, historyVars>>

SendAnswered ==
    /\ sending # None /\ sending.msg # 0 /\ rows[sending.msg].stored
    /\ thread' = Merged(sending.msg)
    /\ CacheMerged(sending.session, sending.msg, sending.hasMore)
    /\ awaiting' = sending.msg
    /\ TakenFor(sending.turn)
    /\ sending' = None
    /\ BeginsTimed
    /\ UNCHANGED <<timerVars, rows, tabVars, hasMore, fetched, loads, older,
                   stream, drops, emptied>>

\* The request is refused, or its answer is lost after the row was stored.
SendFails ==
    /\ sending # None
    /\ sending.msg # 0 => rows[sending.msg].stored
    /\ awaiting' = 0
    /\ sending' = None
    /\ UNCHANGED <<timerVars, rows, tabVars, thread, hasMore, fetched, cache,
                   loads, older, stream, drops, historyVars>>
------------------------------------------------------------------------------
(* The stream: the endpoint polls the rows stamped at or after the last one *)
(* it sent, so it repeats the newest row with every poll.                   *)

\* Without "since" the endpoint starts from its own clock.
StreamAccepted ==
    /\ stream.phase = "asked"
    /\ stream' = [stream EXCEPT !.phase = "open",
                     !.since = IF stream.since = 0 THEN Now + 1 ELSE stream.since]
    /\ UNCHANGED <<timerVars, rows, tabVars, shownVars, cache, requestVars, drops, historyVars>>

\* Mutant: only rows after the last one sent.
DueLater == {m \in Stored(session) : m > stream.since}

Due == {m \in Stored(session) : m >= stream.since}

StreamPolls ==
    /\ stream.phase = "open" /\ stream.wire = {} /\ Due # {}
    /\ stream' = [stream EXCEPT !.wire = Due, !.since = Max(Due)]
    /\ UNCHANGED <<timerVars, rows, tabVars, shownVars, cache, requestVars, drops, historyVars>>

\* The callback is the one of the last render: it writes that session's entry.
StreamEvent ==
    /\ stream.wire # {}
    /\ LET m == Min(stream.wire)
       IN /\ stream' = [stream EXCEPT !.wire = @ \ {m}]
          /\ thread' = Merged(m)
          /\ CacheMerged(rendered, m, hasMore)
          /\ awaiting' = IF rows[m].by = "agent" /\ m >= awaiting
                         THEN 0 ELSE awaiting
          /\ TakenFor(turn)
    /\ UNCHANGED <<timerVars, rows, tabVars, hasMore, fetched, requestVars, drops,
                   untimed, emptied>>

\* The connection ends or cannot be made; the backoff timer is set.
StreamBreaks ==
    /\ stream.phase \in {"asked", "open"} /\ drops < MaxDrops
    /\ stream' = [NoStream EXCEPT !.phase = "waiting"]
    /\ drops' = drops + 1
    /\ UNCHANGED <<timerVars, rows, tabVars, shownVars, cache, requestVars, historyVars>>

StreamRetries ==
    /\ stream.phase = "waiting"
    /\ Reconnects(TRUE)
    /\ UNCHANGED <<timerVars, rows, tabVars, shownVars, cache, requestVars, drops, historyVars>>
------------------------------------------------------------------------------
\* The panel is mounted closed, with the messages that were stored before.
ChatInit ==
    /\ \E old \in Sessions :
          rows = [m \in Stamps |->
                    IF m = 1
                    THEN [session |-> old, by |-> "user", stored |-> TRUE]
                    ELSE [session |-> NoSession, by |-> "agent", stored |-> FALSE]]
    /\ session = FirstSession
    /\ rendered = session
    /\ open = FALSE
    /\ acts = 0
    /\ turn = 0
    /\ thread = {}
    /\ hasMore = FALSE
    /\ fetched = 0
    /\ cache = [s \in Sessions |-> None]
    /\ awaiting = 0
    /\ indicator = FALSE /\ timed = FALSE /\ timer = FALSE
    /\ loads = {}
    /\ older = None
    /\ sending = None
    /\ stream = NoStream
    /\ drops = 0
    /\ crossed = FALSE
    /\ untimed = FALSE
    /\ emptied = FALSE

Server == RowCommits \/ LoadRead \/ OlderRead \/ SendStamped
          \/ StreamAccepted \/ StreamPolls
Answers == LoadTaken \/ OlderTaken \/ SendAnswered
User == SelectSession \/ SwitchSession \/ OpenPanel \/ ClosePanel \/ LoadOlder \/ Send
Faults == LoadFails \/ OlderFails \/ SendFails \/ StreamBreaks

Timing == RenderAwaiting \/ AwaitEffect \/ AwaitTimesOut

ChatNext == User \/ Server \/ Answers \/ Faults \/ AgentPosts \/ CacheAges
            \/ Timing \/ StreamEvent \/ StreamRetries

\* A page renders what has changed, runs its effects and its timers, the server its
\* poll loop, the stream its events.
ChatFairness ==
    /\ WF_chatVars(SwitchSession)
    /\ WF_chatVars(RenderAwaiting)
    /\ WF_chatVars(AwaitEffect)
    /\ WF_chatVars(AwaitTimesOut)
    /\ WF_chatVars(StreamRetries)
    /\ WF_chatVars(StreamAccepted)
    /\ WF_chatVars(StreamPolls)
    /\ WF_chatVars(StreamEvent)

ChatSpec == ChatInit /\ [][ChatNext]_chatVars
ChatFairSpec == ChatSpec /\ ChatFairness
------------------------------------------------------------------------------
Foreign(s, messages) == \E m \in messages : rows[m].session # s

\* A message of another session is on display, or in a session's cache entry,
\* only when an answer was taken after its session was left, or an event between
\* the render of a switch and its effects: the stream, the cache, and closing and
\* opening the panel never mix two sessions.
BleedsOnlyLate ==
    ~crossed => /\ ~Foreign(session, thread)
             /\ \A s \in Sessions :
                   cache[s] # None => ~Foreign(s, cache[s].messages)

\* "Load older" asks for no row behind a row that is missing: the offset never
\* passes the oldest message on display, whatever arrived since the first page
\* and whatever the cache made of the count, unless a first page failed while an
\* older page or the answer to a message was to come: what comes then is counted
\* from an empty list.
PagesMeet ==
    ~crossed /\ ~emptied => fetched <= Cardinality({m \in Stored(session) :
                                        \E n \in thread : n <= m})

\* The newest message of the session on display, stamped after the stream
\* connected, comes to be shown, though a late first page may take it off the
\* list again and connections break: the stream repeats it.
Newest(m) ==
    /\ open /\ m \in Stored(session)
    /\ \A n \in Taken : rows[n].session = session => n <= m
NewestArrives ==
    \A m \in Stamps :
        (Newest(m) /\ stream.phase = "open" /\ stream.since <= m)
            ~> (m \in thread \/ ~Newest(m) \/ crossed
                   \/ (stream.phase = "asked" /\ stream.since = 0))

\* A wait for a reply ends though no reply comes, and though it began, ended and
\* began again between renders: the timer of the effect is set for it or for one
\* before it, unless it began between the end of a timer and the next render.
AwaitingEnds == (awaiting # 0) ~> (awaiting = 0 \/ untimed)
==============================================================================
