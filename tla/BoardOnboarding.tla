--------------------------- MODULE BoardOnboarding ---------------------------
(***************************************************************************)
(* The onboarding of a board: the dialog that asks the user the questions  *)
(* of the gateway's agent (components/BoardOnboardingChat.tsx), and the    *)
(* conversation it is kept in (backend/app/api/board_onboarding.py).  The  *)
(* dialog polls; the agent hears of the answers by messages and posts its  *)
(* questions and, at the end, a draft of the goal.                         *)
(*                                                                         *)
(* Every handler reads the row of the conversation, without a lock, and    *)
(* writes the whole list of messages back.                                 *)
(***************************************************************************)
EXTENDS Integers, Sequences

CONSTANTS
    Questions, Drafts,   \* what the agent posts
    Replies,             \* what the user types or selects
    Nothing,             \* no content
    MaxDeeds,            \* bound: answers the user sends, and dialogs opened; one
                         \* that is opened again counts twice
    MaxPosts,            \* bound: what the agent posts
    MaxPolls,            \* bound: polls under way at a time
    MaxFailures          \* bound: gateway calls that fail

ASSUME OnboardingAssumption ==
    /\ Nothing \notin Questions \cup Drafts \cup Replies
    /\ Questions \cap Drafts = {}
    /\ {MaxDeeds, MaxPosts, MaxPolls, MaxFailures} \subseteq Nat

VARIABLES
    talks,      \* server: the rows of board_onboarding_sessions
    latest,     \* server: the row updated last, 0 without a row
    clock,      \* server: messages stamped so far
    goal,       \* server: what the board was confirmed with
    calls,      \* POST requests of the dialog
    inbox,      \* gateway: messages the agent has still to answer
    post,       \* the agent's POST
    posts,      \* the agent's POSTs so far
    mount,      \* the dialog is open for the mount-th time
    visible,
    shown,      \* session: what the dialog knows of the row
    awaits,     \* awaitingAssistantFingerprint: a stamp, or 0
    submitted,  \* lastSubmittedAnswer is set
    asked,      \* lastAnsweredQuestionFingerprint
    polls,      \* GET requests under way
    deeds,      \* what the user opened and sent so far
    failures,
    settled,    \* history: stamps of the messages this mount had answered
    mishaps     \* history: what went wrong on the way

talkVars == <<talks, latest, clock>>
agentVars == <<inbox, post, posts>>
dialogVars == <<shown, awaits, submitted, asked, settled>>
onboardingVars == <<talkVars, goal, calls, agentVars, mount, visible, dialogVars, polls, deeds,
                    failures, mishaps>>

NoMessage == [content |-> Nothing, stamp |-> 0]
Unknown == [row |-> 0, last |-> NoMessage, draft |-> Nothing]
NoPost == [phase |-> "none", content |-> Nothing, talk |-> 0, seen |-> <<>>, status |-> "none"]

\* What the dialog makes of a row: its last message of the agent, and its draft.
LastOfAgent(messages) ==
    LET own == {n \in DOMAIN messages : messages[n].role = "assistant"}
    IN IF own = {} THEN NoMessage
       ELSE LET n == CHOOSE n \in own : \A k \in own : k <= n
            IN [content |-> messages[n].content, stamp |-> messages[n].stamp]
View(i) == [row |-> i, last |-> LastOfAgent(talks[i].messages), draft |-> talks[i].draft]

Message(role, content) == [role |-> role, content |-> content, stamp |-> clock + 1]
IsLast(messages, role) ==
    messages # <<>> /\ messages[Len(messages)].role = role

-----------------------------------------------------------------------------
(***************************************************************************)
(* The handlers of the dialog's requests.                                  *)
(***************************************************************************)
Moves(c, d) == calls' = (calls \ {c}) \cup {d}
\* The answer to a dialog that has been closed changes nothing, but onConfirmed is
\* the page's: it closes the dialog that is open by then.
Shut(c) == ~ visible \/ c.mount # mount
IsHeard(c) == ~ Shut(c) \/ (c.kind = "confirm" /\ c.phase = "ok")
Ends(c, d) == IF IsHeard(d) THEN Moves(c, d) ELSE calls' = calls \ {c}
Answered(c, view) == Ends(c, [c EXCEPT !.phase = "ok", !.view = view, !.talk = 0])
Refused(c) == Ends(c, [c EXCEPT !.phase = "failed"])

\* start_onboarding: an active row is resumed; the message the agent has not
\* answered is sent again if it is not young (RESUME_REDISPATCH_COOLDOWN).
Active == {i \in DOMAIN talks : talks[i].status = "active"}

StartReads(c) ==
    /\ c.kind = "start" /\ c.phase = "sent"
    /\ \/ Active = {} /\ Moves(c, [c EXCEPT !.phase = "prompt"])
       \/ \E i \in Active :
             \/ /\ IsLast(talks[i].messages, "user")
                /\ Moves(c, [c EXCEPT !.phase = "resume", !.talk = i])
             \/ Answered(c, View(i))
    /\ UNCHANGED <<talkVars, goal, agentVars, mount, visible, dialogVars, polls, deeds, failures,
                   mishaps>>

\* answer_onboarding reads; what is the last message already is not sent again.
AnswerReads(c) ==
    /\ c.kind = "answer" /\ c.phase = "sent"
    /\ LET messages == talks[latest].messages
       IN IF IsLast(messages, "user") /\ messages[Len(messages)].content = c.content
          THEN Answered(c, View(latest))
          ELSE Moves(c, [c EXCEPT !.phase = "read", !.talk = latest, !.seen = messages])
    /\ UNCHANGED <<talkVars, goal, agentVars, mount, visible, dialogVars, polls, deeds, failures,
                   mishaps>>

\* Messages of talk i are lost when seen is written back with one more.
Lost(i, seen) == IF talks[i].messages # seen THEN {"raced"} ELSE {}
\* A row that is stored is the one updated last again.
Astray(i) == IF latest = i THEN {} ELSE {"astray"}

\* Mutant: the answer is stored, and the agent is not told.
AnswerOnlyCommits(c) ==
    /\ c.kind = "answer" /\ c.phase = "read"
    /\ talks' = [talks EXCEPT ![c.talk].messages = Append(c.seen, Message("user", c.content))]
    /\ latest' = c.talk
    /\ clock' = clock + 1
    /\ mishaps' = mishaps \cup Lost(c.talk, c.seen) \cup Astray(c.talk)
    /\ Answered(c, View(c.talk)')
    /\ UNCHANGED <<goal, agentVars, mount, visible, dialogVars, polls, deeds, failures>>

AnswerCommits(c) ==
    /\ c.kind = "answer" /\ c.phase = "read"
    /\ talks' = [talks EXCEPT ![c.talk].messages = Append(c.seen, Message("user", c.content))]
    /\ latest' = c.talk
    /\ clock' = clock + 1
    /\ mishaps' = mishaps \cup Lost(c.talk, c.seen) \cup Astray(c.talk)
    /\ Moves(c, [c EXCEPT !.phase = "dispatch", !.seen = <<>>, !.view = View(c.talk)'])
    /\ UNCHANGED <<goal, agentVars, mount, visible, dialogVars, polls, deeds, failures>>

\* The gateway takes the message: the prompt of a row that is not stored yet, the
\* message of a row that is resumed, the answer that is stored.
Dispatch(c) ==
    /\ c.phase \in {"prompt", "resume", "dispatch"}
    /\ inbox' = inbox + 1
    /\ IF c.phase = "dispatch" THEN Answered(c, c.view)
       ELSE Moves(c, [c EXCEPT !.phase = IF c.phase = "prompt" THEN "insert" ELSE "touch"])
    /\ mishaps' = IF c.phase = "resume" THEN mishaps \cup {"resent"} ELSE mishaps
    /\ UNCHANGED <<talkVars, goal, post, posts, mount, visible, dialogVars, polls, deeds, failures>>

DispatchFails(c) ==
    /\ c.phase \in {"prompt", "resume", "dispatch"}
    /\ failures < MaxFailures
    /\ failures' = failures + 1
    /\ mishaps' = mishaps \cup {"deaf"}
    /\ Refused(c)
    /\ UNCHANGED <<talkVars, goal, agentVars, mount, visible, dialogVars, polls, deeds>>

StartCommits(c) ==
    /\ \/ /\ c.phase = "insert"
          /\ talks' = Append(talks, [status |-> "active", draft |-> Nothing,
                                     messages |-> <<Message("user", "prompt")>>])
          /\ latest' = Len(talks')
          /\ clock' = clock + 1
          /\ UNCHANGED mishaps
       \/ /\ c.phase = "touch"
          /\ latest' = c.talk
          /\ mishaps' = mishaps \cup Astray(c.talk)
          /\ UNCHANGED <<talks, clock>>
    /\ Answered(c, View(latest)')
    /\ UNCHANGED <<goal, agentVars, mount, visible, dialogVars, polls, deeds, failures>>

\* confirm_onboarding takes the goal from the dialog, and the preferences for the
\* lead from the draft of the row it reads; after the COMMIT it provisions the lead,
\* and may fail there.
ConfirmReads(c) ==
    /\ c.kind = "confirm" /\ c.phase = "sent"
    /\ Moves(c, [c EXCEPT !.phase = "store", !.talk = latest, !.lead = talks[latest].draft])
    /\ UNCHANGED <<talkVars, goal, agentVars, mount, visible, dialogVars, polls, deeds, failures,
                   mishaps>>

ConfirmCommits(c) ==
    /\ c.phase = "store"
    /\ goal' = [board |-> c.content, lead |-> c.lead]
    /\ talks' = [talks EXCEPT ![c.talk].status = "confirmed"]
    /\ latest' = c.talk
    /\ mishaps' = mishaps \cup Astray(c.talk)
    /\ \/ Answered(c, c.view) /\ UNCHANGED failures
       \/ failures < MaxFailures /\ failures' = failures + 1 /\ Refused(c)
    /\ UNCHANGED <<clock, agentVars, mount, visible, dialogVars, polls, deeds>>

-----------------------------------------------------------------------------
(***************************************************************************)
(* The agent and agent_onboarding_update.                                  *)
(***************************************************************************)
\* It answers a message, or posts once more what nobody asked it for.
AgentSays(content, answers) ==
    /\ post.phase = "none" /\ posts < MaxPosts
    /\ IF answers THEN inbox > 0 /\ inbox' = inbox - 1
       ELSE posts > 0 /\ UNCHANGED inbox
    /\ posts' = posts + 1
    /\ post' = [NoPost EXCEPT !.phase = "sent", !.content = content]
    /\ mishaps' = IF answers THEN mishaps ELSE mishaps \cup {"unasked"}
    /\ UNCHANGED <<talkVars, goal, calls, mount, visible, dialogVars, polls, deeds, failures>>

\* No row (404), or the goal was confirmed (409).
AgentRefused ==
    /\ post.phase = "sent"
    /\ latest # 0 => talks[latest].status = "confirmed"
    /\ post' = NoPost
    /\ mishaps' = mishaps \cup {IF latest = 0 THEN "early" ELSE "refused"}
    /\ UNCHANGED <<talkVars, goal, calls, inbox, posts, mount, visible, dialogVars, polls, deeds,
                   failures>>

\* What the agent posted last already is not stored again: a draft ever, a
\* question within QUESTION_PAYLOAD_DEDUP_COOLDOWN.
Repeats(messages, content) == LastOfAgent(messages).content = content

AgentReads ==
    /\ post.phase = "sent" /\ latest # 0 /\ talks[latest].status # "confirmed"
    /\ LET talk == talks[latest]
           early == IF \E c \in calls : c.phase = "insert" THEN {"early"} ELSE {}
           dropped == post' = NoPost /\ mishaps' = mishaps \cup {"repeat"}
           taken == /\ post' = [post EXCEPT !.phase = "read", !.talk = latest,
                                            !.seen = talk.messages, !.status = talk.status]
                    /\ mishaps' = mishaps \cup early
                    /\ UNCHANGED talks
       IN IF ~ Repeats(talk.messages, post.content) THEN taken
          ELSE IF post.content \in Drafts
          THEN dropped /\ talks' = [talks EXCEPT ![latest].status = "completed",
                                                 ![latest].draft = post.content]
          ELSE taken \/ (dropped /\ UNCHANGED talks)
    /\ UNCHANGED <<latest, clock, goal, calls, inbox, posts, mount, visible, dialogVars, polls,
                   deeds, failures>>

\* Mutant: the status is written in any case.
AgentCommitsWhole ==
    /\ post.phase = "read"
    /\ LET said == Append(post.seen, Message("assistant", post.content))
       IN talks' = [talks EXCEPT ![post.talk] =
             IF post.content \in Drafts
             THEN [status |-> "completed", messages |-> said, draft |-> post.content]
             ELSE [@ EXCEPT !.messages = said]]
    /\ latest' = post.talk
    /\ clock' = clock + 1
    /\ mishaps' = mishaps \cup Lost(post.talk, post.seen) \cup Astray(post.talk)
    /\ post' = NoPost
    /\ UNCHANGED <<goal, calls, inbox, posts, mount, visible, dialogVars, polls, deeds, failures>>

\* The UPDATE writes the status only if it is not the one that was read.
AgentCommits ==
    /\ post.phase = "read"
    /\ LET said == Append(post.seen, Message("assistant", post.content))
       IN talks' = [talks EXCEPT ![post.talk] =
             IF post.content \in Drafts
             THEN [status |-> IF post.status = "completed" THEN @.status ELSE "completed",
                   messages |-> said, draft |-> post.content]
             ELSE [@ EXCEPT !.messages = said]]
    /\ latest' = post.talk
    /\ clock' = clock + 1
    /\ mishaps' = mishaps \cup Lost(post.talk, post.seen) \cup Astray(post.talk)
    /\ post' = NoPost
    /\ UNCHANGED <<goal, calls, inbox, posts, mount, visible, dialogVars, polls, deeds, failures>>

-----------------------------------------------------------------------------
(***************************************************************************)
(* The dialog.                                                             *)
(***************************************************************************)
Call(m, kind, content) ==
    [kind |-> kind, mount |-> m, phase |-> "sent", content |-> content, talk |-> 0,
     seen |-> <<>>, view |-> Unknown, lead |-> Nothing, before |-> shown.last.stamp]

Loading == \E c \in calls : c.mount = mount

\* parseQuestion: a draft is not a question.
Question(view) == IF view.last.content \in Questions THEN view.last.content ELSE Nothing

Offers == visible /\ shown.draft = Nothing /\ Question(shown) # Nothing /\ awaits = 0
\* Mutant: the draft can be confirmed while the agent is asked for another.
OffersAnyDraft == visible /\ shown.draft # Nothing

OffersDraft == visible /\ shown.draft # Nothing /\ awaits = 0

\* shouldPollSession.
Waits == visible /\ (awaits # 0 \/ (Question(shown) = Nothing /\ shown.draft = Nothing))
\* Mutant: the wait for the agent ends with the request.
PollsWhileLoading == visible /\ Loading

ShouldPoll == Waits \/ (visible /\ Loading)

Older(view) == view.row < shown.row \/ view.last.stamp < shown.last.stamp

\* Mutant: an answer does not begin a wait.
ShowsAtOnce(view, waits, answer) ==
    /\ shown' = view /\ awaits' = 0 /\ submitted' = answer
    /\ mishaps' = IF Older(view) THEN mishaps \cup {"overtaken"} ELSE mishaps

\* setSession with the effects of its render.  A new message of the agent ends
\* the wait, but not when it repeats the question that was just answered.
Shows(view, waits, answer) ==
    LET news == waits # 0 /\ view.last.stamp # waits
        repeat == answer /\ Question(view) # Nothing /\ Question(view) = asked
                         /\ view.draft = Nothing
    IN /\ shown' = view
       /\ awaits' = IF repeat THEN view.last.stamp ELSE IF news THEN 0 ELSE waits
       /\ submitted' = (answer /\ ~ news)
       /\ mishaps' = mishaps \cup (IF repeat /\ news THEN {"repeat"} ELSE {})
                             \cup (IF Older(view) THEN {"overtaken"} ELSE {})

OpenDialog ==
    /\ ~ visible
    /\ deeds' = deeds + (IF mount = 0 THEN 1 ELSE 2) /\ deeds' <= MaxDeeds
    /\ visible' = TRUE
    /\ mount' = mount + 1
    /\ calls' = calls \cup {Call(mount', "start", Nothing)}
    /\ mishaps' = IF inbox > 0 \/ post.phase # "none" THEN mishaps \cup {"reopened"} ELSE mishaps
    /\ UNCHANGED <<talkVars, goal, agentVars, dialogVars, polls, failures>>

\* The component is unmounted: what it held is gone, and what was answered is lost.
Unmounted(remaining) ==
    /\ calls' = {c \in remaining : \/ c.phase \notin {"ok", "failed"}
                                   \/ c.kind = "confirm" /\ c.phase = "ok"}
    /\ mishaps' = IF \E c \in remaining : c.mount = mount
                  THEN mishaps \cup {"abandoned"} ELSE mishaps
    /\ visible' = FALSE
    /\ shown' = Unknown /\ awaits' = 0 /\ submitted' = FALSE /\ asked' = Nothing
    /\ settled' = {}
    /\ polls' = <<>>

CloseDialog ==
    /\ visible
    /\ Unmounted(calls)
    /\ UNCHANGED <<talkVars, goal, agentVars, mount, deeds, failures>>

\* submitAnswer and submitExtraContext.
Submit(content) ==
    /\ Offers \/ OffersDraft
    /\ ~ Loading
    /\ deeds < MaxDeeds
    /\ deeds' = deeds + 1
    /\ calls' = calls \cup {Call(mount, "answer", content)}
    /\ asked' = IF Offers THEN Question(shown) ELSE asked
    /\ awaits' = 0
    /\ submitted' = FALSE
    /\ UNCHANGED <<talkVars, goal, agentVars, mount, visible, shown, polls, failures, settled,
                   mishaps>>

Confirm ==
    /\ OffersDraft /\ ~ Loading
    /\ calls' = calls \cup {Call(mount, "confirm", shown.draft)}
    /\ UNCHANGED <<talkVars, goal, agentVars, mount, visible, dialogVars, polls, deeds, failures,
                   mishaps>>

\* The answer of a request.
CallReturns(c) ==
    /\ c.phase = "ok"
    /\ \/ /\ c.kind = "confirm"
          /\ Unmounted(calls \ {c})
       \/ /\ c.kind = "start"
          /\ calls' = calls \ {c}
          /\ Shows(c.view, awaits, submitted)
          /\ UNCHANGED <<asked, settled, visible, polls>>
       \/ /\ c.kind = "answer"
          /\ calls' = calls \ {c}
          /\ Shows(c.view, c.before, TRUE)
          /\ settled' = settled \cup {c.before}
          /\ UNCHANGED <<asked, visible, polls>>
    /\ UNCHANGED <<talkVars, goal, agentVars, mount, deeds, failures>>

CallFails(c) ==
    /\ c.phase = "failed"
    /\ calls' = calls \ {c}
    /\ UNCHANGED <<talkVars, goal, agentVars, mount, visible, dialogVars, polls, deeds, failures,
                   mishaps>>

\* refreshSession, every two seconds, whether the last one has come back or not.
PollSent ==
    /\ ShouldPoll /\ Len(polls) < MaxPolls
    /\ polls' = Append(polls, [read |-> FALSE, view |-> Unknown])
    /\ UNCHANGED <<talkVars, goal, calls, agentVars, mount, visible, dialogVars, deeds, failures,
                   mishaps>>

PollReads(n) ==
    /\ n \in DOMAIN polls /\ ~ polls[n].read
    /\ polls' = [polls EXCEPT ![n].read = TRUE,
                    ![n].view = IF latest = 0 THEN Unknown ELSE View(latest)]
    /\ UNCHANGED <<talkVars, goal, calls, agentVars, mount, visible, dialogVars, deeds, failures,
                   mishaps>>

\* Without a row the answer is 404, and ignored.
PollReturns(n) ==
    /\ n \in DOMAIN polls /\ polls[n].read
    /\ polls' = [k \in 1..Len(polls) - 1 |-> IF k < n THEN polls[k] ELSE polls[k + 1]]
    /\ IF polls[n].view # Unknown
       THEN Shows(polls[n].view, awaits, submitted)
       ELSE UNCHANGED <<shown, awaits, submitted, mishaps>>
    /\ UNCHANGED <<talkVars, goal, calls, agentVars, mount, visible, asked, deeds, failures,
                   settled>>

-----------------------------------------------------------------------------
OnboardingInit ==
    /\ talks = <<>> /\ latest = 0 /\ clock = 0
    /\ goal = [board |-> Nothing, lead |-> Nothing]
    /\ calls = {} /\ polls = <<>>
    /\ inbox = 0 /\ post = NoPost /\ posts = 0
    /\ mount = 0 /\ visible = FALSE
    /\ shown = Unknown /\ awaits = 0 /\ submitted = FALSE /\ asked = Nothing
    /\ settled = {}
    /\ deeds = 0 /\ failures = 0 /\ mishaps = {}

Handles(c) == \/ StartReads(c) \/ AnswerReads(c) \/ AnswerCommits(c) \/ Dispatch(c)
              \/ DispatchFails(c) \/ StartCommits(c) \/ ConfirmReads(c) \/ ConfirmCommits(c)
Returns(c) == CallReturns(c) \/ CallFails(c)
AgentSteps ==
    \/ \E content \in Questions \cup Drafts, answers \in BOOLEAN : AgentSays(content, answers)
    \/ AgentRefused \/ AgentReads \/ AgentCommits
UserSteps == OpenDialog \/ CloseDialog \/ (\E content \in Replies : Submit(content)) \/ Confirm
Polling == PollSent \/ (\E n \in DOMAIN polls : PollReads(n) \/ PollReturns(n))

OnboardingNext ==
    \/ \E c \in calls : Handles(c) \/ Returns(c)
    \/ AgentSteps \/ UserSteps \/ Polling

\* The interval of the dialog runs while it is visible, and its requests return.
OnboardingFairness ==
    /\ WF_onboardingVars(PollSent)
    /\ WF_onboardingVars(\E n \in DOMAIN polls : PollReads(n))
    /\ WF_onboardingVars(\E n \in DOMAIN polls : PollReturns(n))

OnboardingSpec == OnboardingInit /\ [][OnboardingNext]_onboardingVars
OnboardingFairSpec == OnboardingSpec /\ OnboardingFairness

-----------------------------------------------------------------------------
Contents == Questions \cup Drafts \cup Replies \cup {"prompt"}
Views == [row : Nat, draft : Drafts \cup {Nothing},
          last : [content : Questions \cup Drafts \cup {Nothing}, stamp : Nat]]

OnboardingTypeOK ==
    /\ \A i \in DOMAIN talks :
          /\ talks[i].status \in {"active", "completed", "confirmed"}
          /\ talks[i].draft \in Drafts \cup {Nothing}
          /\ \A n \in DOMAIN talks[i].messages : talks[i].messages[n].content \in Contents
    /\ latest \in 0..Len(talks) /\ (talks # <<>> => latest # 0)
    /\ {inbox, clock} \subseteq Nat
    /\ shown \in Views
    /\ awaits \in {0, shown.last.stamp}
    /\ \A c, d \in calls : c.mount = d.mount => c = d

Idle == calls = {} /\ polls = <<>> /\ post.phase = "none" /\ inbox = 0

\* The dialog and the agent do not wait for each other.  They do when a message did
\* not reach the agent ("deaf"); when its post said again what the row or the dialog
\* had heard ("repeat"); when it came before the row was stored ("early"); when the
\* goal was confirmed ("refused"); when one list of messages was written over
\* another ("raced"); or when an older conversation was stored again ("astray").
NobodyWaits ==
    Idle /\ Waits /\ latest # 0 /\ shown = View(latest)
        => mishaps \cap {"deaf", "repeat", "early", "refused", "raced", "astray"} # {}

\* The dialog does not offer a question that it has had answered, unless an answer
\* of the server came after a newer one.
NoReask == Offers /\ shown.last.stamp \in settled => "overtaken" \in mishaps

\* The goal and the lead of the board come from one draft, unless the row was ahead
\* of the draft on display: by a post that answers nothing or answers a message that
\* was sent again, by an old answer of the server on display, or in a dialog that
\* was opened while a request of the last one was under way ("abandoned") or the agent
\* had still to answer ("reopened").
OneDraft ==
    \/ goal.board = goal.lead
    \/ mishaps \cap {"unasked", "resent", "overtaken", "abandoned", "reopened"} # {}

\* A confirmed conversation stays confirmed, though a post of the agent that was read
\* before is stored after, unless it was confirmed by an old draft of another.
ConfirmedStays ==
    [][\A i \in DOMAIN talks :
         talks[i].status = "confirmed"
           => talks'[i].status = "confirmed" \/ mishaps \cap {"overtaken", "abandoned"} # {}
      ]_onboardingVars

\* What the agent has posted reaches a dialog that waits.
NewestStamp == IF latest = 0 THEN 0 ELSE View(latest).last.stamp
NewsArrives ==
    (Waits /\ shown.last.stamp # NewestStamp) ~> (~ Waits \/ shown.last.stamp = NewestStamp)
=============================================================================
