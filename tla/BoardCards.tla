----------------------------- MODULE BoardCards -----------------------------
(***************************************************************************)
(* The cards of the board page (app/(app)/boards/[boardId]/page.tsx): the   *)
(* list `tasks` with its optimistic moves and its event stream, against the *)
(* rows, the activity log and the stream's poll loop of                     *)
(* backend/app/api/tasks.py.                                                *)
(*                                                                          *)
(* A version is the number of a committed change of a task's row; version 0 *)
(* was there before.  A timestamp is a position of the activity log: a row  *)
(* that was written when n events were stamped has the timestamp n + 1, the *)
(* position of the next event, so an event at or after a row's timestamp is *)
(* one the server sends to a client that asks for events since that row.    *)
(***************************************************************************)
EXTENDS Integers, Sequences, FiniteSets, FiniteSetsExt

CONSTANTS
    Tasks,          \* the tasks of the board
    NoRow,          \* a task that does not exist yet, or has no card
    MaxChanges,     \* bound: changes of rows
    MaxMoves,       \* bound: cards the user drags
    MaxBreaks       \* bound: connections that break

ASSUME CardsAssumption ==
    /\ NoRow \notin [version : Nat, at : Nat] \cup [version : Nat, at : Nat, moved : Nat]
    /\ {MaxChanges, MaxMoves, MaxBreaks} \subseteq Nat

VARIABLES
    row,        \* server: task |-> its row
    changes,    \* server: changes committed so far
    handlers,   \* server: requests that committed a row and not yet its event
    log,        \* server: the activity log, in stamp order
    cards,      \* tasks: task |-> its card
    loaded,     \* the page has its snapshot (board is set)
    moves,      \* handleTaskMove calls under way
    dragged,    \* moves so far; the name of a move
    feed,       \* the connection of useSSEStream
    breaks,     \* connections that broke
    reasons     \* history: what made the page miss a change

cardsVars == <<row, changes, handlers, log, cards, loaded, moves, dragged,
               feed, breaks, reasons>>
serverVars == <<row, changes, handlers, log>>
moveVars == <<moves, dragged>>

Row == [version : 0..MaxChanges, at : 1..MaxChanges + 1]
\* A card shows a row, and the status of a move until the move is settled.
Card == [version : 0..MaxChanges, at : 1..MaxChanges + 1, moved : 0..MaxMoves]
Shown(r) == [version |-> r.version, at |-> r.at, moved |-> 0]

NoFeed == [phase |-> "off", since |-> 0, seen |-> {}, wire |-> <<>>]
Reasons == {"rollback", "answer", "leap", "inversion", "untold", "overlap"}

CardsTypeOK ==
    /\ row \in [Tasks -> Row \cup {NoRow}]
    /\ changes \in 0..MaxChanges
    /\ \A h \in handlers : h.version \in 1..changes /\ h.task \in Tasks
    /\ Len(log) <= changes
    /\ cards \in [Tasks -> Card \cup {NoRow}]
    /\ loaded \in BOOLEAN
    /\ \A m \in moves : m.id \in 1..dragged /\ m.version \in 0..changes
    /\ dragged \in 0..MaxMoves
    /\ feed.phase \in {"off", "asked", "open", "waiting"}
    /\ feed.phase # "off" => loaded
    /\ feed.seen \subseteq DOMAIN log
    /\ reasons \subseteq Reasons
------------------------------------------------------------------------------
(* The server.  A handler commits the row, then the event in a transaction  *)
(* of its own; the event's created_at is taken before its COMMIT.           *)

Write(t) ==
    /\ changes < MaxChanges
    /\ changes' = changes + 1
    /\ row' = [row EXCEPT ![t] = [version |-> changes + 1, at |-> Len(log) + 1]]
    /\ handlers' = handlers \cup
          {[version |-> changes + 1, task |-> t, event |-> 0]}

\* An agent, another user or another tab creates or updates a task.
OthersWrite ==
    /\ \E t \in Tasks : Write(t)
    /\ UNCHANGED <<log, cards, loaded, moveVars, feed, breaks, reasons>>

EventStamped ==
    /\ \E h \in handlers :
          /\ h.event = 0
          /\ log' = Append(log, [task |-> h.task, stored |-> FALSE])
          /\ handlers' = (handlers \ {h}) \cup {[h EXCEPT !.event = Len(log')]}
    /\ UNCHANGED <<row, changes, cards, loaded, moveVars, feed, breaks,
                   reasons>>

\* An open stream that has sent a later event never looks back at this one.
EventStored ==
    /\ \E h \in handlers :
          /\ h.event # 0
          /\ log' = [log EXCEPT ![h.event].stored = TRUE]
          /\ handlers' = handlers \ {h}
          /\ moves' = {[m EXCEPT !.done = @ \/ m.version = h.version] : m \in moves}
          /\ reasons' = IF h.event < feed.since
                        THEN reasons \cup {"inversion"} ELSE reasons
    /\ UNCHANGED <<row, changes, cards, loaded, dragged, feed, breaks>>

\* The request dies between its two transactions.
HandlerDies ==
    /\ \E h \in handlers : handlers' = handlers \ {h}
    /\ reasons' = reasons \cup {"untold"}
    /\ UNCHANGED <<row, changes, log, cards, loaded, moveVars, feed, breaks>>
------------------------------------------------------------------------------
(* The snapshot and the stream.                                             *)

Ats == {cards[t].at : t \in {u \in Tasks : cards[u] # NoRow}}

\* latestTaskTimestamp; without it the endpoint starts from its own clock.
Connects == feed' = [NoFeed EXCEPT !.phase = "asked",
                          !.since = IF Ats = {} THEN 0 ELSE Max(Ats)]

\* An event at or after position n that the page does not know the result of.
Behind(n) ==
    \E e \in DOMAIN log :
        /\ e < n
        /\ LET t == log[e].task
           IN cards[t] = NoRow \/ cards[t].version # row[t].version

LoadBoard ==
    /\ ~loaded
    /\ loaded' = TRUE
    /\ cards' = [t \in Tasks |-> IF row[t] = NoRow THEN NoRow ELSE Shown(row[t])]
    /\ UNCHANGED <<serverVars, moveVars, feed, breaks, reasons>>

\* The effect of useSSEStream once the board is there, and its retry timer.
FeedConnects ==
    /\ loaded /\ feed.phase \in {"off", "waiting"}
    /\ Connects
    /\ UNCHANGED <<serverVars, cards, loaded, moveVars, breaks, reasons>>

FeedAccepted ==
    /\ feed.phase = "asked"
    /\ feed' = [feed EXCEPT !.phase = "open",
                     !.since = IF @ = 0 THEN Len(log) + 1 ELSE @]
    /\ reasons' = IF Behind(feed'.since) THEN reasons \cup {"leap"} ELSE reasons
    /\ UNCHANGED <<serverVars, cards, loaded, moveVars, breaks>>

\* Mutant: only events after the last one sent.
UnsentLater == {e \in DOMAIN log : log[e].stored /\ e > feed.since /\ e \notin feed.seen}

\* The events the poll loop has not sent, joined with the rows as they are now.
Unsent == {e \in DOMAIN log : log[e].stored /\ e >= feed.since /\ e \notin feed.seen}

FeedPolls ==
    /\ feed.phase = "open" /\ feed.wire = <<>> /\ Unsent # {}
    /\ feed' = [feed EXCEPT
          !.seen = @ \cup Unsent,
          !.since = Max(Unsent),
          !.wire = [i \in 1..Cardinality(Unsent) |->
                      LET e == CHOOSE e \in Unsent :
                                  Cardinality({d \in Unsent : d <= e}) = i
                      IN [task |-> log[e].task, row |-> row[log[e].task]]]]
    /\ UNCHANGED <<serverVars, cards, loaded, moveVars, breaks, reasons>>

\* Mutant: a card that is there is kept.
FeedEventAddsOnly ==
    /\ feed.wire # <<>>
    /\ LET event == Head(feed.wire)
       IN cards' = [cards EXCEPT ![event.task] = IF @ = NoRow THEN Shown(event.row) ELSE @]
    /\ feed' = [feed EXCEPT !.wire = Tail(@)]
    /\ UNCHANGED <<serverVars, loaded, moveVars, breaks, reasons>>

\* The row takes the place of the card, or is a card of its own.
FeedEvent ==
    /\ feed.wire # <<>>
    /\ LET event == Head(feed.wire)
       IN cards' = [cards EXCEPT ![event.task] = Shown(event.row)]
    /\ feed' = [feed EXCEPT !.wire = Tail(@)]
    /\ UNCHANGED <<serverVars, loaded, moveVars, breaks, reasons>>

\* The connection is lost, or the tab is hidden (usePageActive).
FeedBreaks ==
    /\ feed.phase \in {"asked", "open"} /\ breaks < MaxBreaks
    /\ breaks' = breaks + 1
    /\ feed' = [NoFeed EXCEPT !.phase = "waiting"]
    /\ UNCHANGED <<serverVars, cards, loaded, moveVars, reasons>>
------------------------------------------------------------------------------
(* handleTaskMove.                                                          *)

MoveStarts ==
    /\ dragged < MaxMoves
    /\ \E t \in Tasks :
          /\ cards[t] # NoRow
          /\ dragged' = dragged + 1
          /\ cards' = [cards EXCEPT ![t].moved = dragged + 1]
          /\ moves' = moves \cup {[id |-> dragged + 1, task |-> t,
                                   previous |-> cards, version |-> 0, at |-> 1,
                                   done |-> FALSE]}
          /\ reasons' = IF moves # {} THEN reasons \cup {"overlap"} ELSE reasons
    /\ UNCHANGED <<serverVars, loaded, feed, breaks>>

MoveStored ==
    /\ \E m \in moves :
          /\ m.version = 0
          /\ Write(m.task)
          /\ moves' = (moves \ {m}) \cup
                {[m EXCEPT !.version = changes', !.at = row'[m.task].at]}
    /\ UNCHANGED <<log, cards, loaded, dragged, feed, breaks, reasons>>

\* The handler answers when its event is stored, with the row it wrote.  An
\* answer for a card that is gone changes nothing.
MoveAnswered ==
    /\ \E m \in moves :
          /\ m.done
          /\ moves' = moves \ {m}
          /\ cards' = [cards EXCEPT ![m.task] =
                          IF @ = NoRow THEN NoRow ELSE Shown(m)]
          /\ reasons' = IF cards[m.task] # NoRow /\ cards[m.task].version > m.version
                        THEN reasons \cup {"answer"} ELSE reasons
    /\ UNCHANGED <<serverVars, loaded, dragged, feed, breaks>>

\* The move is refused or its answer is lost: the list of before is back.
MoveFails ==
    /\ \E m \in moves :
          /\ moves' = moves \ {m}
          /\ cards' = m.previous
          /\ reasons' = IF \E t \in Tasks :
                              /\ cards[t] # NoRow
                              /\ \/ m.previous[t] = NoRow
                                 \/ m.previous[t].version # cards[t].version
                        THEN reasons \cup {"rollback"} ELSE reasons
    /\ UNCHANGED <<serverVars, loaded, dragged, feed, breaks>>
------------------------------------------------------------------------------
CardsInit ==
    /\ \E there \in SUBSET Tasks :
          row = [t \in Tasks |-> IF t \in there THEN [version |-> 0, at |-> 1]
                                 ELSE NoRow]
    /\ changes = 0
    /\ handlers = {}
    /\ log = <<>>
    /\ cards = [t \in Tasks |-> NoRow]
    /\ loaded = FALSE
    /\ moves = {}
    /\ dragged = 0
    /\ feed = NoFeed
    /\ breaks = 0
    /\ reasons = {}

CardsServer == OthersWrite \/ EventStamped \/ EventStored \/ HandlerDies
               \/ FeedAccepted \/ FeedPolls
CardsPage == LoadBoard \/ FeedConnects \/ FeedEvent \/ FeedBreaks
             \/ MoveStarts \/ MoveStored \/ MoveAnswered \/ MoveFails
CardsNext == CardsServer \/ CardsPage

\* The poll loop and the page's timers run; requests come to an end.
CardsFairness ==
    /\ WF_cardsVars(FeedConnects)
    /\ WF_cardsVars(FeedAccepted)
    /\ WF_cardsVars(FeedPolls)
    /\ WF_cardsVars(FeedEvent)

CardsSpec == CardsInit /\ [][CardsNext]_cardsVars
CardsFairSpec == CardsSpec /\ CardsFairness
------------------------------------------------------------------------------
Current(t) ==
    IF row[t] = NoRow THEN cards[t] = NoRow
    ELSE cards[t] # NoRow /\ cards[t].version = row[t].version

Quiet ==
    /\ feed.phase = "open" /\ feed.wire = <<>> /\ Unsent = {}
    /\ handlers = {} /\ moves = {}

\* When nothing is under way and the stream has sent all it has, every card
\* shows its row, unless one of the named things happened on the way: a failed
\* move put an old list back, an answer overtook a newer row, the stream began
\* behind a change the page did not have, an event was stored after a later one
\* had been sent, or a handler died before it stored its event.  The status of a
\* move that has ended, which no row may have, stays on a card only if two moves
\* were under way together.
QuietBoardIsCurrent ==
    Quiet /\ reasons \subseteq {"overlap"} =>
        \A t \in Tasks :
            /\ Current(t)
            /\ "overlap" \notin reasons /\ cards[t] # NoRow => cards[t].moved = 0

\* A card that is behind its row catches up, through the stream that is open or
\* the one that is made next, once the requests have ended.
Settled == loaded /\ handlers = {} /\ moves = {} /\ reasons \subseteq {"overlap"}
CardsCatchUp ==
    \A t \in Tasks : (Settled /\ ~Current(t)) ~> (Current(t) \/ ~Settled)
==============================================================================
