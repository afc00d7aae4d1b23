------------------------------- MODULE MCConsole -------------------------------
(***************************************************************************)
(* The panels of the console's board pages that keep server state of their *)
(* own, side by side: the chat, the cards, the approvals with their counts *)
(* on the cards, and the onboarding dialog.  They share no state; a        *)
(* behaviour is one of the panel it starts in.                             *)
(***************************************************************************)
EXTENDS BoardChat, BoardCards, BoardApprovals, BoardOnboarding, TLC

CONSTANT Panels     \* the panels a run is about

VARIABLE panel

consoleVars == <<panel, chatVars, cardsVars, approvalsVars, onboardingVars>>

\* Tasks are interchangeable, and so are approvals and drafts.
Symmetry == Permutations(Tasks) \cup Permutations(Approvals) \cup Permutations(Drafts)

ConsoleInit ==
    /\ panel \in Panels
    /\ ChatInit /\ (panel # "chat" => rows[1].session = FirstSession)
    /\ CardsInit /\ (panel # "cards" => row = [t \in Tasks |-> NoRow])
    /\ ApprovalsInit /\ (panel # "approvals" => approval = [a \in Approvals |-> NoApproval])
    /\ OnboardingInit

OthersThanChat == <<panel, cardsVars, approvalsVars, onboardingVars>>
OthersThanCards == <<panel, chatVars, approvalsVars, onboardingVars>>
OthersThanApprovals == <<panel, chatVars, cardsVars, onboardingVars>>
OthersThanOnboarding == <<panel, chatVars, cardsVars, approvalsVars>>

ConsoleNext ==
    \/ panel = "chat" /\ ChatNext /\ UNCHANGED OthersThanChat
    \/ panel = "cards" /\ CardsNext /\ UNCHANGED OthersThanCards
    \/ panel = "approvals" /\ ApprovalsNext /\ UNCHANGED OthersThanApprovals
    \/ panel = "onboarding" /\ OnboardingNext /\ UNCHANGED OthersThanOnboarding

\* The fairness of the chat, the cards and the dialog.
Chats(A) == panel = "chat" /\ A /\ UNCHANGED OthersThanChat
Plays(A) == panel = "cards" /\ A /\ UNCHANGED OthersThanCards
Onboards(A) == panel = "onboarding" /\ A /\ UNCHANGED OthersThanOnboarding

ConsoleFairness ==
    /\ WF_consoleVars(Chats(SwitchSession))
    /\ WF_consoleVars(Chats(RenderAwaiting))
    /\ WF_consoleVars(Chats(AwaitEffect))
    /\ WF_consoleVars(Chats(AwaitTimesOut))
    /\ WF_consoleVars(Chats(StreamRetries))
    /\ WF_consoleVars(Chats(StreamAccepted))
    /\ WF_consoleVars(Chats(StreamPolls))
    /\ WF_consoleVars(Chats(StreamEvent))
    /\ WF_consoleVars(Plays(FeedConnects))
    /\ WF_consoleVars(Plays(FeedAccepted))
    /\ WF_consoleVars(Plays(FeedPolls))
    /\ WF_consoleVars(Plays(FeedEvent))
    /\ WF_consoleVars(Onboards(PollSent))
    /\ WF_consoleVars(Onboards(\E n \in DOMAIN polls : PollReads(n)))
    /\ WF_consoleVars(Onboards(\E n \in DOMAIN polls : PollReturns(n)))

ConsoleSpec == ConsoleInit /\ [][ConsoleNext]_consoleVars
ConsoleFairSpec == ConsoleSpec /\ ConsoleFairness

\* The types of the panels.
ConsoleTypeOK == ChatTypeOK /\ CardsTypeOK /\ ApprovalsTypeOK /\ OnboardingTypeOK
================================================================================
