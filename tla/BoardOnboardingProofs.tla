------------------------ MODULE BoardOnboardingProofs ------------------------
(***************************************************************************)
(* Proofs about the onboarding of a board, for any questions, drafts and   *)
(* replies and any bounds: what the dialog asks again, who waits for whom, *)
(* what stays confirmed, and what the board is confirmed with.             *)
(***************************************************************************)
EXTENDS BoardOnboarding, FiniteSetsExt, FiniteSetTheorems, TLAPS

-----------------------------------------------------------------------------
(***************************************************************************)
(* Numbers.                                                                *)
(***************************************************************************)
(* A finite set of naturals has a maximum: sets of larger members cannot   *)
(* shrink for ever.                                                        *)
LEMMA MaxOf ==
    ASSUME NEW S \in SUBSET Nat, S # {}, IsFiniteSet(S)
    PROVE  Max(S) \in S /\ \A n \in S : n <= Max(S)
<1> DEFINE Above(n) == {m \in S : n < m}
           T == {Above(n) : n \in S}
<1>1. T \subseteq FiniteSubsetsOf(S) /\ T # {}
  <2>1. ASSUME NEW n \in S PROVE Above(n) \in FiniteSubsetsOf(S)
    <3>1. Above(n) \in SUBSET S
      OBVIOUS
    <3> QED
      BY <3>1, FS_Subset DEF FiniteSubsetsOf
  <2>2. \E n \in S : Above(n) \in T
    OBVIOUS
  <2> HIDE DEF Above
  <2> QED
    BY <2>1, <2>2
<1>2. IsWellFoundedOn(StrictSubsetOrdering(S), FiniteSubsetsOf(S))
  BY FS_StrictSubsetOrderingWellFounded
<1> HIDE DEF T
<1>3. PICK least \in T : \A other \in T : <<other, least>> \notin StrictSubsetOrdering(S)
  BY <1>1, <1>2, WFMin
<1>4. PICK n \in S : least = Above(n)
  BY DEF T
<1>5. ASSUME NEW m \in S, n < m PROVE FALSE
  <2>0. n \in Nat /\ m \in Nat /\ \A k \in S : k \in Nat
    OBVIOUS
  <2>1. Above(m) \subseteq Above(n) /\ m \in Above(n) /\ m \notin Above(m)
    <3>1. ASSUME NEW k \in S, m < k PROVE n < k
      BY <1>5, <2>0, <3>1
    <3>2. ~ m < m
      BY <2>0
    <3> QED
      BY <1>5, <3>1, <3>2
  <2>2. Above(m) \in T /\ Above(n) \in FiniteSubsetsOf(S) /\ Above(m) \in FiniteSubsetsOf(S)
    BY <1>1, <1>4 DEF T
  <2>3. <<Above(m), Above(n)>> \in StrictSubsetOrdering(S)
    <3> HIDE DEF Above
    <3>1. Above(m) \subseteq S /\ Above(n) \subseteq S
      BY <2>2 DEF FiniteSubsetsOf
    <3> QED
      BY <2>1, <3>1 DEF StrictSubsetOrdering
  <2> QED
    BY <1>3, <1>4, <2>2, <2>3
<1>6. \A m \in S : n >= m
  <2>1. n \in Nat /\ \A k \in S : k \in Nat
    OBVIOUS
  <2> QED
    BY <1>5, <2>1
<1>7. Max(S) \in S /\ \A m \in S : Max(S) >= m
  BY <1>6 DEF Max
<1> QED
  <2>1. Max(S) \in Nat /\ \A k \in S : k \in Nat
    BY <1>7
  <2> QED
    BY <1>7, <2>1

-----------------------------------------------------------------------------
(***************************************************************************)
(* The onboarding.  What rows, requests, posts and the dialog hold.        *)
(***************************************************************************)
(* A message of the first t stamps. *)
Sayings(t) ==
    [role : {"assistant"}, content : Questions \cup Drafts, stamp : 1..t]
        \cup [role : {"user"}, content : Replies \cup {"prompt"}, stamp : 1..t]
Talks(t) ==
    [status : {"active", "completed", "confirmed"}, draft : Drafts \cup {Nothing},
     messages : Seq(Sayings(t))]

(* The rows, one of which was updated last. *)
TalksOk ==
    /\ clock \in Nat /\ inbox \in Nat
    /\ talks \in Seq(Talks(clock))
    /\ latest \in 0..Len(talks) /\ (talks # <<>> => latest # 0)

(* What has been read of a row. *)
ViewOk(v) ==
    /\ v \in Views /\ v.row \in 0..Len(talks)
    /\ v.row = 0 => v = Unknown
    /\ v.last.stamp = 0 => v.last.content = Nothing

(* A request has what its handler has read, by phase. *)
Phases ==
    [start |-> {"sent", "prompt", "insert", "resume", "touch", "ok", "failed"},
     answer |-> {"sent", "read", "dispatch", "ok", "failed"},
     confirm |-> {"sent", "store", "ok", "failed"}]
Calls(t) ==
    [kind : {"start", "answer", "confirm"}, mount : Nat,
     phase : {"sent", "prompt", "insert", "resume", "touch", "read", "dispatch", "store", "ok",
              "failed"},
     content : Replies \cup Drafts \cup {Nothing}, talk : Nat, seen : Seq(Sayings(t)),
     view : Views, lead : Drafts \cup {Nothing}, before : Nat]
CallOk(c) ==
    /\ c \in Calls(clock)
    /\ c.phase \in Phases[c.kind]
    /\ c.mount \in 1..mount
    /\ c.kind = "answer" => c.content \in Replies
    /\ c.kind = "confirm" => c.content \in Drafts
    /\ c.kind # "start" => latest # 0
    /\ c.phase \in {"resume", "touch", "read", "store", "dispatch"} => c.talk \in 1..Len(talks)
    /\ c.phase \in {"ok", "failed"} =>
          (visible /\ c.mount = mount) \/ (c.kind = "confirm" /\ c.phase = "ok")
    /\ ViewOk(c.view)

(* One request per dialog. *)
CallsOk ==
    /\ mount \in Nat /\ visible \in BOOLEAN /\ (visible => mount # 0)
    /\ \A c \in calls : CallOk(c)
    /\ \A c, d \in calls : c.mount = d.mount => c = d

(* The post of the agent. *)
PostOk ==
    /\ post \in [phase : {"none", "sent", "read"}, content : Questions \cup Drafts \cup {Nothing},
                 talk : Nat, seen : Seq(Sayings(clock)),
                 status : {"none", "active", "completed", "confirmed"}]
    /\ post.phase # "none" => post.content \in Questions \cup Drafts
    /\ post.phase = "read" => post.talk \in 1..Len(talks)

(* What is on display, and on its way to it. *)
DialogOk ==
    /\ ViewOk(shown)
    /\ awaits \in {0, shown.last.stamp}
    /\ submitted \in BOOLEAN
    /\ asked \in Questions \cup {Nothing}
    /\ settled \subseteq Nat
    /\ ~ visible =>
          shown = Unknown /\ awaits = 0 /\ ~ submitted /\ settled = {} /\ polls = <<>>
PollsOk ==
    /\ polls \in Seq([read : BOOLEAN, view : Views])
    /\ \A n \in DOMAIN polls : ViewOk(polls[n].view)

OnboardingTyped == TalksOk /\ CallsOk /\ PostOk /\ DialogOk /\ PollsOk

(* Stamps that are taken later do not matter to what was said. *)
LEMMA SayingsLater ==
    ASSUME NEW t \in Nat, NEW u \in Nat, t <= u
    PROVE  Seq(Sayings(t)) \subseteq Seq(Sayings(u)) /\ Seq(Talks(t)) \subseteq Seq(Talks(u))
<1>1. 1..t \subseteq 1..u
  OBVIOUS
<1>2. Sayings(t) \subseteq Sayings(u)
  BY <1>1 DEF Sayings
<1>3. Seq(Sayings(t)) \subseteq Seq(Sayings(u))
  BY <1>2
<1>4. Talks(t) \subseteq Talks(u)
  BY <1>3 DEF Talks
<1> QED
  BY <1>3, <1>4

(* The last message of the agent, if there is one. *)
LEMMA LastIs ==
    ASSUME NEW t \in Nat, NEW ms \in Seq(Sayings(t))
    PROVE  \/ /\ LastOfAgent(ms) = NoMessage
              /\ \A n \in DOMAIN ms : ms[n].role = "user"
           \/ \E n \in DOMAIN ms :
                /\ ms[n].role = "assistant"
                /\ LastOfAgent(ms) = [content |-> ms[n].content, stamp |-> ms[n].stamp]
                /\ \A k \in DOMAIN ms : n < k => ms[k].role = "user"
<1> DEFINE own == {n \in DOMAIN ms : ms[n].role = "assistant"}
<1>0. \A n \in DOMAIN ms : ms[n].role \in {"assistant", "user"}
  BY DEF Sayings
<1>1. CASE own = {}
  BY <1>0, <1>1 DEF LastOfAgent
<1>2. CASE own # {}
  <2>1. own \in SUBSET (1..Len(ms)) /\ own \in SUBSET Nat /\ Len(ms) \in Nat
    OBVIOUS
  <2>2. IsFiniteSet(own)
    BY <2>1, FS_Interval, FS_Subset
  <2>3. \E n \in own : \A k \in own : k <= n
    <3> HIDE DEF own
    <3>1. Max(own) \in own /\ \A n \in own : n <= Max(own)
      BY <1>2, <2>1, <2>2, MaxOf
    <3> QED
      BY <3>1
  <2>4. PICK n \in own : n = CHOOSE e \in own : \A k \in own : k <= e
    BY <2>3
  <2>5. \A k \in own : k <= n
    BY <2>3, <2>4
  <2>6. LastOfAgent(ms) = [content |-> ms[n].content, stamp |-> ms[n].stamp]
    BY <1>2, <2>4 DEF LastOfAgent
  <2>7. \A k \in DOMAIN ms : n < k => ms[k].role = "user"
    BY <1>0, <2>1, <2>5
  <2> QED
    BY <2>6, <2>7
<1> QED
  BY <1>1, <1>2

(* A message of the user is not the agent's last, and one of the agent is. *)
LEMMA LastAfter ==
    ASSUME NEW t \in Nat, NEW ms \in Seq(Sayings(t)), NEW m \in Sayings(t)
    PROVE  LastOfAgent(Append(ms, m)) =
              IF m.role = "user" THEN LastOfAgent(ms) ELSE [content |-> m.content, stamp |-> m.stamp]
<1> DEFINE more == Append(ms, m)
           own == {n \in DOMAIN ms : ms[n].role = "assistant"}
           owns == {n \in DOMAIN more : more[n].role = "assistant"}
<1>0. /\ Len(ms) \in Nat /\ DOMAIN more = 1..Len(ms) + 1 /\ DOMAIN ms = 1..Len(ms)
      /\ more[Len(ms) + 1] = m /\ \A n \in 1..Len(ms) : more[n] = ms[n]
  OBVIOUS
<1>1. m.role \in {"assistant", "user"}
  BY DEF Sayings
<1>2. CASE m.role = "user"
  <2>1. owns = own
    <3>1. ASSUME NEW n \in owns PROVE n \in own
      BY <1>0, <1>2
    <3>2. ASSUME NEW n \in own PROVE n \in owns
      BY <1>0
    <3> QED
      BY <3>1, <3>2
  <2>2. LastOfAgent(ms) = IF own = {} THEN NoMessage
                          ELSE LET n == CHOOSE n \in own : \A k \in own : k <= n
                               IN [content |-> ms[n].content, stamp |-> ms[n].stamp]
    BY DEF LastOfAgent
  <2>3. LastOfAgent(more) = IF owns = {} THEN NoMessage
                            ELSE LET n == CHOOSE n \in owns : \A k \in owns : k <= n
                                 IN [content |-> more[n].content, stamp |-> more[n].stamp]
    BY DEF LastOfAgent
  <2>4. CASE own = {}
    BY <1>2, <2>1, <2>2, <2>3, <2>4
  <2>5. CASE own # {}
    <3>1. PICK n : n = CHOOSE e \in own : \A k \in own : k <= e
      OBVIOUS
    <3>2. n \in own
      <4>1. own \in SUBSET (1..Len(ms)) /\ own \in SUBSET Nat
        OBVIOUS
      <4>2. IsFiniteSet(own)
        <5>1. Len(ms) \in Nat
          BY <1>0
        <5>2. IsFiniteSet(1..Len(ms))
          BY <5>1, FS_Interval
        <5> HIDE DEF own, owns, more
        <5> QED
          BY <4>1, <5>2, FS_Subset
      <4>3. \E k \in own : \A i \in own : i <= k
        <5> HIDE DEF own
        <5>1. Max(own) \in own /\ \A k \in own : k <= Max(own)
          BY <2>5, <4>1, <4>2, MaxOf
        <5> QED
          BY <5>1
      <4> QED
        BY <3>1, <4>3
    <3>3. more[n] = ms[n]
      BY <1>0, <3>2
    <3>4. LastOfAgent(ms) = [content |-> ms[n].content, stamp |-> ms[n].stamp]
      BY <2>2, <2>5, <3>1
    <3>5. LastOfAgent(more) = [content |-> more[n].content, stamp |-> more[n].stamp]
      BY <2>1, <2>3, <2>5, <3>1
    <3> QED
      BY <1>2, <3>3, <3>4, <3>5
  <2> QED
    BY <2>4, <2>5
<1>3. CASE m.role = "assistant"
  <2>1. Len(ms) + 1 \in owns /\ \A k \in owns : k <= Len(ms) + 1 /\ k \in Nat
    BY <1>0, <1>3
  <2>2. PICK n : n = CHOOSE e \in owns : \A k \in owns : k <= e
    OBVIOUS
  <2>3. n = Len(ms) + 1
    BY <1>0, <2>1, <2>2
  <2>4. LastOfAgent(more) = [content |-> more[n].content, stamp |-> more[n].stamp]
    BY <2>1, <2>2 DEF LastOfAgent
  <2> QED
    BY <1>0, <1>3, <2>3, <2>4
<1> QED
  BY <1>1, <1>2, <1>3

(* What is read of a row. *)
LEMMA LastTyped ==
    ASSUME NEW t \in Nat, NEW ms \in Seq(Sayings(t))
    PROVE  /\ LastOfAgent(ms) \in [content : Questions \cup Drafts \cup {Nothing}, stamp : 0..t]
           /\ LastOfAgent(ms).stamp = 0 => LastOfAgent(ms) = NoMessage
<1>0. PICK last : last = LastOfAgent(ms)
  OBVIOUS
<1>1. CASE last = NoMessage
  BY <1>0, <1>1 DEF NoMessage
<1>2. CASE last # NoMessage
  <2>1. PICK n \in DOMAIN ms :
          /\ ms[n].role = "assistant"
          /\ last = [content |-> ms[n].content, stamp |-> ms[n].stamp]
    BY <1>0, <1>2, LastIs
  <2>2. ms[n] \in Sayings(t)
    OBVIOUS
  <2>3. ms[n].content \in Questions \cup Drafts /\ ms[n].stamp \in 1..t
    BY <2>1, <2>2 DEF Sayings
  <2> QED
    BY <1>0, <2>1, <2>3
<1> QED
  BY <1>1, <1>2

(* What a row is seen as is a view. *)
LEMMA RowViewed ==
    ASSUME NEW t \in Nat, NEW row \in Talks(t), NEW i \in Nat, NEW v,
           v = [row |-> i, last |-> LastOfAgent(row.messages), draft |-> row.draft]
    PROVE  v \in Views /\ (v.last.stamp = 0 => v.last.content = Nothing)
<1>1. row.messages \in Seq(Sayings(t)) /\ row.draft \in Drafts \cup {Nothing}
  BY DEF Talks
<1>2. PICK last : last = LastOfAgent(row.messages)
  OBVIOUS
<1>3. /\ last \in [content : Questions \cup Drafts \cup {Nothing}, stamp : 0..t]
      /\ last.stamp = 0 => last = NoMessage
  BY <1>1, <1>2, LastTyped
<1>4. v = [row |-> i, last |-> last, draft |-> row.draft]
  BY <1>2
<1> QED
  BY <1>1, <1>3, <1>4 DEF Views, NoMessage

(* The view of a row, by its number. *)
LEMMA ViewIs ==
    ASSUME TalksOk, NEW i \in 1..Len(talks)
    PROVE  ViewOk(View(i)) /\ View(i).row = i /\ View(i).draft = talks[i].draft
<1>1. clock \in Nat /\ talks[i] \in Talks(clock) /\ Len(talks) \in Nat
  BY DEF TalksOk
<1>2. PICK row : row = talks[i]
  OBVIOUS
<1>3. PICK v : v = [row |-> i, last |-> LastOfAgent(row.messages), draft |-> row.draft]
  OBVIOUS
<1>4. v \in Views /\ (v.last.stamp = 0 => v.last.content = Nothing) /\ v.row \in 1..Len(talks)
  BY <1>1, <1>2, <1>3, RowViewed
<1>5. View(i) = v
  BY <1>2, <1>3 DEF View
<1> QED
  BY <1>1, <1>2, <1>3, <1>4, <1>5 DEF ViewOk

(* The view of a row that is stored is one of the next state. *)
LEMMA ViewNext ==
    ASSUME TalksOk', NEW i \in 1..Len(talks'), NEW v,
           v = [row |-> i, last |-> LastOfAgent(talks'[i].messages), draft |-> talks'[i].draft]
    PROVE  ViewOk(v)'
<1>1. clock' \in Nat /\ talks'[i] \in Talks(clock') /\ Len(talks') \in Nat
  BY DEF TalksOk
<1>2. PICK row : row = talks'[i]
  OBVIOUS
<1>4. v \in Views /\ (v.last.stamp = 0 => v.last.content = Nothing) /\ v.row \in 1..Len(talks')
  BY <1>1, <1>2, RowViewed
<1> QED
  BY <1>1, <1>4 DEF ViewOk

(* Rows are added and stamps are taken; neither goes back. *)
TablesGrow ==
    /\ {clock, clock', Len(talks), Len(talks')} \subseteq Nat
    /\ clock <= clock' /\ Len(talks) <= Len(talks')
    /\ latest # 0 => latest' # 0

(* What was read stays what a row was. *)
LEMMA ViewLater ==
    ASSUME TablesGrow, NEW v, ViewOk(v)
    PROVE  ViewOk(v)'
<1>1. v.row \in 0..Len(talks')
  BY DEF ViewOk, TablesGrow
<1> QED
  BY <1>1 DEF ViewOk

(* A request that a step leaves alone holds what it held. *)
LEMMA CallLater ==
    ASSUME TablesGrow, UNCHANGED <<mount, visible>>, NEW c, CallOk(c)
    PROVE  CallOk(c)'
<1>1. ViewOk(c.view)'
  BY ViewLater DEF CallOk
<1>2. Seq(Sayings(clock)) \subseteq Seq(Sayings(clock'))
  BY SayingsLater DEF TablesGrow
<1>3. c.seen \in Seq(Sayings(clock'))
  BY <1>2 DEF CallOk, Calls
<1>4. c.phase \in {"resume", "touch", "read", "store", "dispatch"} => c.talk \in 1..Len(talks')
  BY DEF CallOk, TablesGrow
<1>5. c \in Calls(clock')
  BY <1>3 DEF CallOk, Calls
<1>6. c.kind # "start" => latest' # 0
  BY DEF CallOk, TablesGrow
<1> QED
  BY <1>1, <1>4, <1>5, <1>6 DEF CallOk

(* So does the post, and the dialog. *)
LEMMA PostLater ==
    ASSUME TablesGrow, PostOk, UNCHANGED post
    PROVE  PostOk'
<1>1. Seq(Sayings(clock)) \subseteq Seq(Sayings(clock'))
  BY SayingsLater DEF TablesGrow
<1>2. post.phase = "read" => post.talk \in 1..Len(talks')
  BY DEF PostOk, TablesGrow
<1>3. post \in [phase : {"none", "sent", "read"}, content : Questions \cup Drafts \cup {Nothing},
                talk : Nat, seen : Seq(Sayings(clock')),
                status : {"none", "active", "completed", "confirmed"}]
  BY <1>1 DEF PostOk
<1> QED
  BY <1>2, <1>3 DEF PostOk

(* The dialog and its polls keep their types while the rows grow. *)
LEMMA DialogLater ==
    ASSUME TablesGrow
    PROVE  /\ DialogOk /\ UNCHANGED <<dialogVars, visible, polls>> => DialogOk'
           /\ PollsOk /\ UNCHANGED polls => PollsOk'
<1>1. ASSUME DialogOk, UNCHANGED <<dialogVars, visible, polls>> PROVE DialogOk'
  <2>1. ViewOk(shown)'
    <3>1. PICK v : v = shown
      OBVIOUS
    <3>2. ViewOk(v) /\ shown' = v
      BY <1>1, <3>1 DEF DialogOk, dialogVars
    <3>3. ViewOk(v)'
      BY <3>2, ViewLater
    <3> QED
      BY <3>2, <3>3
  <2>2. UNCHANGED <<shown, awaits, submitted, asked, settled, visible, polls>>
    BY <1>1 DEF dialogVars
  <2> QED
    BY <1>1, <2>1, <2>2 DEF DialogOk
<1>2. ASSUME PollsOk, UNCHANGED polls PROVE PollsOk'
  <2>1. ASSUME NEW n \in DOMAIN polls PROVE ViewOk(polls[n].view)'
    <3>1. PICK v : v = polls[n].view
      OBVIOUS
    <3>2. ViewOk(v) /\ polls'[n].view = v
      BY <1>2, <3>1 DEF PollsOk
    <3>3. ViewOk(v)'
      BY <3>2, ViewLater
    <3> QED
      BY <3>2, <3>3
  <2> QED
    BY <1>2, <2>1 DEF PollsOk
<1> QED
  BY <1>1, <1>2

(* Nothing is stored. *)
LEMMA SameTables ==
    ASSUME TalksOk, UNCHANGED talkVars
    PROVE  TablesGrow /\ (inbox' \in Nat => TalksOk')
<1>1. UNCHANGED <<talks, latest, clock>>
  BY DEF talkVars
<1> QED
  BY <1>1 DEF TalksOk, TablesGrow

(* Requests go on, and come to an end. *)
LEMMA CallsGoOn ==
    ASSUME CallsOk, TablesGrow, UNCHANGED <<mount, visible>>, NEW c \in calls, NEW d,
           \/ Moves(c, d) /\ CallOk(d)' /\ d.mount = c.mount
           \/ calls' = calls \ {c}
    PROVE  CallsOk'
<1>1. \A b \in calls : CallOk(b)'
  BY CallLater DEF CallsOk
<1>2. \A b \in calls' : b = d \/ (b \in calls /\ b # c)
  BY DEF Moves
<1>3. \A b \in calls' : CallOk(b)'
  BY <1>1 DEF Moves
<1>4. ASSUME NEW a \in calls', NEW b \in calls', a.mount = b.mount PROVE a = b
  BY <1>4 DEF CallsOk, Moves
<1>5. mount' \in Nat /\ visible' \in BOOLEAN /\ (visible' => mount' # 0)
  BY DEF CallsOk
<1> QED
  BY <1>3, <1>4, <1>5 DEF CallsOk

(* A request that is answered holds what is answered. *)
LEMMA CallAnswered ==
    ASSUME CallsOk, TablesGrow, UNCHANGED <<mount, visible>>, NEW c \in calls, NEW v, ViewOk(v)',
           Answered(c, v)
    PROVE  CallsOk'
<1> DEFINE d == [c EXCEPT !.phase = "ok", !.view = v, !.talk = 0]
<1>1. CallOk(c)'
  BY CallLater DEF CallsOk
<1>2. ASSUME IsHeard(d) PROVE Moves(c, d) /\ CallOk(d)' /\ d.mount = c.mount
  <2>1. Moves(c, d)
    BY <1>2 DEF Answered, Ends
  <2>2. v \in Views
    BY DEF ViewOk
  <2>3. /\ d.kind = c.kind /\ d.mount = c.mount /\ d.content = c.content /\ d.view = v
        /\ d.phase = "ok" /\ d.seen = c.seen
    BY <1>1 DEF CallOk, Calls
  <2>4. (visible' /\ d.mount = mount') \/ (d.kind = "confirm" /\ d.phase = "ok")
    BY <1>2 DEF IsHeard, Shut
  <2>5. "ok" \in Phases[c.kind]
    BY <1>1 DEF CallOk, Calls, Phases
  <2>6. d \in Calls(clock')
    BY <1>1, <2>2 DEF CallOk, Calls
  <2> QED
    BY <1>1, <2>1, <2>3, <2>4, <2>5, <2>6 DEF CallOk
<1>3. ASSUME ~ IsHeard(d) PROVE calls' = calls \ {c}
  BY <1>3 DEF Answered, Ends
<1> QED
  BY <1>2, <1>3, CallsGoOn

(* A request that is refused stays as it was. *)
LEMMA CallRefused ==
    ASSUME CallsOk, TablesGrow, UNCHANGED <<mount, visible>>, NEW c \in calls, Refused(c)
    PROVE  CallsOk'
<1> DEFINE d == [c EXCEPT !.phase = "failed"]
<1>1. CallOk(c)'
  BY CallLater DEF CallsOk
<1>2. ASSUME IsHeard(d) PROVE Moves(c, d) /\ CallOk(d)' /\ d.mount = c.mount
  <2>1. Moves(c, d)
    BY <1>2 DEF Refused, Ends
  <2>3. /\ d.kind = c.kind /\ d.mount = c.mount /\ d.content = c.content /\ d.view = c.view
        /\ d.phase = "failed" /\ d.seen = c.seen
    BY <1>1 DEF CallOk, Calls
  <2>4. visible' /\ d.mount = mount'
    BY <1>2, <2>3 DEF IsHeard, Shut
  <2>5. "failed" \in Phases[c.kind]
    BY <1>1 DEF CallOk, Calls, Phases
  <2>6. d \in Calls(clock')
    BY <1>1 DEF CallOk, Calls
  <2> QED
    BY <1>1, <2>1, <2>3, <2>4, <2>5, <2>6 DEF CallOk
<1>3. ASSUME ~ IsHeard(d) PROVE calls' = calls \ {c}
  BY <1>3 DEF Refused, Ends
<1> QED
  BY <1>2, <1>3, CallsGoOn

(* A step of a request that stores nothing. *)
LEMMA OnlyCalls ==
    ASSUME OnboardingTyped, CallsOk', inbox' \in Nat,
           UNCHANGED <<talkVars, post, visible, dialogVars, polls>>
    PROVE  OnboardingTyped'
<1>1. TablesGrow /\ TalksOk'
  BY SameTables DEF OnboardingTyped
<1>2. PostOk'
  BY <1>1, PostLater DEF OnboardingTyped
<1>3. DialogOk' /\ PollsOk'
  BY <1>1, DialogLater DEF OnboardingTyped
<1> QED
  BY <1>1, <1>2, <1>3 DEF OnboardingTyped

(* A request that goes on holds what its handler has read by then. *)
Onward(c, phase, talk, seen, v, lead) ==
    [c EXCEPT !.phase = phase, !.talk = talk, !.seen = seen, !.view = v, !.lead = lead]

(* A request that goes on holds what its handler has read. *)
LEMMA CallMoved ==
    ASSUME NEW c, CallOk(c)', NEW phase \in Phases[c.kind] \ {"ok", "failed"},
           NEW talk \in Nat, NEW seen \in Seq(Sayings(clock')), NEW v, ViewOk(v)',
           NEW lead \in Drafts \cup {Nothing},
           phase \in {"resume", "touch", "read", "store", "dispatch"} => talk \in 1..Len(talks')
    PROVE  /\ CallOk(Onward(c, phase, talk, seen, v, lead))'
           /\ Onward(c, phase, talk, seen, v, lead).mount = c.mount
<1> DEFINE d == Onward(c, phase, talk, seen, v, lead)
<1>1. v \in Views
  BY DEF ViewOk
<1>2. c.kind \in {"start", "answer", "confirm"}
  BY DEF CallOk, Calls
<1>3. phase \in {"sent", "prompt", "insert", "resume", "touch", "read", "dispatch", "store"}
  BY <1>2 DEF Phases
<1>4. d \in Calls(clock')
  BY <1>1, <1>3 DEF CallOk, Calls, Onward
<1>5. /\ d.kind = c.kind /\ d.mount = c.mount /\ d.content = c.content /\ d.view = v
      /\ d.phase = phase /\ d.talk = talk
  BY DEF CallOk, Calls, Onward
<1> HIDE DEF d
<1>6. CallOk(d)' /\ d.mount = c.mount
  BY <1>3, <1>4, <1>5 DEF CallOk
<1> QED
  BY <1>6 DEF d

(* The rows, read. *)
LEMMA RowIs ==
    ASSUME TalksOk, NEW i \in 1..Len(talks)
    PROVE  /\ talks[i].messages \in Seq(Sayings(clock))
           /\ talks[i].status \in {"active", "completed", "confirmed"}
           /\ talks[i].draft \in Drafts \cup {Nothing}
           /\ talks[i] = [status |-> talks[i].status, draft |-> talks[i].draft,
                          messages |-> talks[i].messages]
<1>1. talks[i] \in Talks(clock)
  BY DEF TalksOk
<1> QED
  BY <1>1 DEF Talks

(* A start reads the active rows. *)
LEMMA StartReadsTyped ==
    ASSUME OnboardingTyped, NEW c \in calls, StartReads(c)
    PROVE  OnboardingTyped'
<1>1. UNCHANGED <<talkVars, goal, agentVars, mount, visible, dialogVars, polls, deeds, failures,
                  mishaps>>
  BY DEF StartReads
<1>2. TablesGrow /\ UNCHANGED <<talks, latest, clock, post, inbox>> /\ inbox' \in Nat
  BY <1>1, SameTables DEF OnboardingTyped, TalksOk, talkVars, agentVars
<1>3. CallOk(c) /\ CallsOk /\ TalksOk /\ c.kind = "start"
  BY DEF OnboardingTyped, CallsOk, StartReads
<1>4. c.seen \in Seq(Sayings(clock')) /\ ViewOk(c.view)' /\ c.lead \in Drafts \cup {Nothing}
      /\ c.talk \in Nat
  BY <1>1, <1>2, <1>3, CallLater DEF CallOk, Calls
<1>5. CASE Moves(c, [c EXCEPT !.phase = "prompt"])
  <2> DEFINE d == [c EXCEPT !.phase = "prompt"]
  <2>1. CallOk(d)' /\ d.mount = c.mount
    BY <1>1, <1>2, <1>3, CallLater DEF CallOk, Calls, Phases
  <2> QED
    BY <1>1, <1>2, <1>3, <1>5, <2>1, CallsGoOn, OnlyCalls
<1>6. ASSUME NEW i \in Active, Moves(c, [c EXCEPT !.phase = "resume", !.talk = i])
      PROVE  OnboardingTyped'
  <2> DEFINE d == [c EXCEPT !.phase = "resume", !.talk = i]
  <2>0. i \in 1..Len(talks') /\ i \in Nat
    BY <1>2, <1>3 DEF Active, TalksOk
  <2>1. CallOk(d)' /\ d.mount = c.mount
    <3>1. CallOk(c)'
      BY <1>1, <1>2, <1>3, CallLater
    <3>2. ViewOk(c.view)' /\ c.seen \in Seq(Sayings(clock')) /\ c.lead \in Drafts \cup {Nothing}
      BY <3>1 DEF CallOk, Calls
    <3>3. d = Onward(c, "resume", i, c.seen, c.view, c.lead)
      BY <3>1 DEF CallOk, Calls, Onward
    <3>4. "resume" \in Phases[c.kind] \ {"ok", "failed"}
      BY <1>3 DEF Phases
    <3> HIDE DEF d
    <3> QED
      BY <2>0, <3>1, <3>2, <3>3, <3>4, CallMoved
  <2> QED
    BY <1>1, <1>2, <1>3, <1>6, <2>1, CallsGoOn, OnlyCalls
<1>7. ASSUME NEW i \in Active, Answered(c, View(i)) PROVE OnboardingTyped'
  <2>0. i \in 1..Len(talks)
    BY <1>3 DEF Active, TalksOk
  <2>1. PICK v : v = View(i)
    OBVIOUS
  <2>2. ViewOk(v)'
    BY <1>2, <1>3, <2>0, <2>1, ViewIs, ViewLater
  <2>3. CallsOk'
    BY <1>1, <1>2, <1>3, <1>7, <2>1, <2>2, CallAnswered
  <2> QED
    BY <1>1, <1>2, <2>3, OnlyCalls
<1> QED
  BY <1>5, <1>6, <1>7 DEF StartReads

(* An answer reads the row that was updated last. *)
LEMMA AnswerReadsTyped ==
    ASSUME OnboardingTyped, NEW c \in calls, AnswerReads(c)
    PROVE  OnboardingTyped'
<1>1. UNCHANGED <<talkVars, goal, agentVars, mount, visible, dialogVars, polls, deeds, failures,
                  mishaps>>
  BY DEF AnswerReads
<1>2. TablesGrow /\ UNCHANGED <<talks, latest, clock, post, inbox>> /\ inbox' \in Nat
  BY <1>1, SameTables DEF OnboardingTyped, TalksOk, talkVars, agentVars
<1>3. CallOk(c) /\ CallsOk /\ TalksOk /\ c.kind = "answer"
  BY DEF OnboardingTyped, CallsOk, AnswerReads
<1>4. latest \in 1..Len(talks)
  BY <1>3 DEF CallOk, TalksOk
<1>5. CASE Answered(c, View(latest))
  <2>1. PICK v : v = View(latest)
    OBVIOUS
  <2>2. ViewOk(v)'
    BY <1>2, <1>3, <1>4, <2>1, ViewIs, ViewLater
  <2>3. CallsOk'
    BY <1>1, <1>2, <1>3, <1>5, <2>1, <2>2, CallAnswered
  <2> QED
    BY <1>1, <1>2, <2>3, OnlyCalls
<1>6. CASE Moves(c, [c EXCEPT !.phase = "read", !.talk = latest, !.seen = talks[latest].messages])
  <2>5. PICK d : d = [c EXCEPT !.phase = "read", !.talk = latest, !.seen = talks[latest].messages]
    OBVIOUS
  <2>0. PICK i : i = latest /\ i \in 1..Len(talks)
    BY <1>4
  <2>6. PICK ms : ms = talks[i].messages
    OBVIOUS
  <2>1. ms \in Seq(Sayings(clock')) /\ i \in Nat /\ i \in 1..Len(talks')
    <3>1. ms \in Seq(Sayings(clock))
      BY <1>3, <2>0, <2>6, RowIs
    <3>2. Len(talks) \in Nat
      BY <1>3 DEF TalksOk
    <3> QED
      BY <1>2, <2>0, <3>1, <3>2
  <2>2. CallOk(d)' /\ d.mount = c.mount
    <3>1. CallOk(c)'
      BY <1>1, <1>2, <1>3, CallLater
    <3>2. d = [c EXCEPT !.phase = "read", !.talk = i, !.seen = ms]
      BY <2>0, <2>5, <2>6
    <3>3. c.view \in Views /\ ViewOk(c.view)' /\ c.lead \in Drafts \cup {Nothing}
      BY <3>1 DEF CallOk, Calls
    <3>4. d = Onward(c, "read", i, ms, c.view, c.lead)
      BY <3>1, <3>2 DEF CallOk, Calls, Onward
    <3>5. "read" \in Phases[c.kind] \ {"ok", "failed"}
      BY <1>3 DEF Phases
    <3>6. /\ CallOk(Onward(c, "read", i, ms, c.view, c.lead))'
          /\ Onward(c, "read", i, ms, c.view, c.lead).mount = c.mount
      BY <2>1, <3>1, <3>3, <3>5, CallMoved
    <3> QED
      BY <3>4, <3>6
  <2> QED
    BY <1>1, <1>2, <1>3, <1>6, <2>2, <2>5, CallsGoOn, OnlyCalls
<1> QED
  BY <1>5, <1>6 DEF AnswerReads

(* The gateway takes a message. *)
LEMMA DispatchTyped ==
    ASSUME OnboardingTyped, NEW c \in calls, Dispatch(c)
    PROVE  OnboardingTyped'
<1>1. UNCHANGED <<talkVars, goal, post, posts, mount, visible, dialogVars, polls, deeds, failures>>
  BY DEF Dispatch
<1>2. TablesGrow /\ UNCHANGED <<talks, latest, clock, post>> /\ inbox' \in Nat
  BY <1>1, SameTables DEF OnboardingTyped, TalksOk, talkVars, Dispatch
<1>3. CallOk(c) /\ CallsOk /\ TalksOk
  BY DEF OnboardingTyped, CallsOk
<1>4. ViewOk(c.view)'
  BY <1>2, <1>3, ViewLater DEF CallOk
<1>5. CASE c.phase = "dispatch"
  <2>1. Answered(c, c.view)
    BY <1>5 DEF Dispatch
  <2>2. CallsOk'
    BY <1>1, <1>2, <1>3, <1>4, <2>1, CallAnswered
  <2> QED
    BY <1>1, <1>2, <2>2, OnlyCalls
<1>6. CASE c.phase # "dispatch"
  <2> DEFINE d == [c EXCEPT !.phase = IF c.phase = "prompt" THEN "insert" ELSE "touch"]
  <2>1. Moves(c, d) /\ c.phase \in {"prompt", "resume"}
    BY <1>6 DEF Dispatch
  <2>2. CallOk(d)' /\ d.mount = c.mount
    BY <1>1, <1>2, <1>3, <2>1, CallLater DEF CallOk, Calls, Phases
  <2> QED
    BY <1>1, <1>2, <1>3, <2>1, <2>2, CallsGoOn, OnlyCalls
<1> QED
  BY <1>5, <1>6

(* The gateway does not. *)
LEMMA DispatchFailsTyped ==
    ASSUME OnboardingTyped, NEW c \in calls, DispatchFails(c)
    PROVE  OnboardingTyped'
<1>1. UNCHANGED <<talkVars, goal, agentVars, mount, visible, dialogVars, polls, deeds>>
  BY DEF DispatchFails
<1>2. TablesGrow /\ UNCHANGED post /\ inbox' \in Nat
  BY <1>1, SameTables DEF OnboardingTyped, TalksOk, talkVars, agentVars
<1>3. CallsOk'
  BY <1>1, <1>2, CallRefused DEF OnboardingTyped, DispatchFails
<1> QED
  BY <1>1, <1>2, <1>3, OnlyCalls

(* A confirmation reads the draft of the row. *)
LEMMA ConfirmReadsTyped ==
    ASSUME OnboardingTyped, NEW c \in calls, ConfirmReads(c)
    PROVE  OnboardingTyped'
<1>1. UNCHANGED <<talkVars, goal, agentVars, mount, visible, dialogVars, polls, deeds, failures,
                  mishaps>>
  BY DEF ConfirmReads
<1>2. TablesGrow /\ UNCHANGED <<talks, latest, clock, post, inbox>> /\ inbox' \in Nat
  BY <1>1, SameTables DEF OnboardingTyped, TalksOk, talkVars, agentVars
<1>3. CallOk(c) /\ CallsOk /\ TalksOk /\ c.kind = "confirm"
  BY DEF OnboardingTyped, CallsOk, ConfirmReads
<1>4. latest \in 1..Len(talks)
  BY <1>3 DEF CallOk, TalksOk
<1>0. PICK d : d = [c EXCEPT !.phase = "store", !.talk = latest, !.lead = talks[latest].draft]
  OBVIOUS
<1>5. Moves(c, d)
  BY <1>0 DEF ConfirmReads
<1>6. PICK i : i = latest /\ i \in 1..Len(talks)
  BY <1>4
<1>7. CallOk(d)' /\ d.mount = c.mount
  <2>1. CallOk(c)'
    BY <1>1, <1>2, <1>3, CallLater
  <2>0. PICK lead : lead = talks[i].draft
    OBVIOUS
  <2>2. lead \in Drafts \cup {Nothing}
    BY <1>3, <1>6, <2>0, RowIs
  <2>3. i \in Nat /\ i \in 1..Len(talks')
    <3>1. Len(talks) \in Nat
      BY <1>3 DEF TalksOk
    <3> QED
      BY <1>2, <1>6, <3>1
  <2>4. d = [c EXCEPT !.phase = "store", !.talk = i, !.lead = lead]
    BY <1>0, <1>6, <2>0
  <2>5. d \in Calls(clock')
    BY <2>1, <2>2, <2>3, <2>4 DEF CallOk, Calls
  <2>6. /\ d.kind = "confirm" /\ d.phase = "store" /\ d.talk = i
        /\ d.mount = c.mount /\ d.content = c.content /\ d.view = c.view
    BY <1>3, <2>1, <2>4 DEF CallOk, Calls
  <2>7. d.phase \in Phases[d.kind]
    BY <2>6 DEF Phases
  <2> QED
    BY <1>3, <2>1, <2>3, <2>5, <2>6, <2>7 DEF CallOk
<1> QED
  BY <1>1, <1>2, <1>3, <1>5, <1>7, CallsGoOn, OnlyCalls

(* An answer comes back, and so does a failure. *)
LEMMA CallFailsTyped ==
    ASSUME OnboardingTyped, NEW c \in calls, CallFails(c)
    PROVE  OnboardingTyped'
<1>1. UNCHANGED <<talkVars, goal, agentVars, mount, visible, dialogVars, polls, deeds, failures,
                  mishaps>>
  BY DEF CallFails
<1>2. TablesGrow /\ UNCHANGED post /\ inbox' \in Nat
  BY <1>1, SameTables DEF OnboardingTyped, TalksOk, talkVars, agentVars
<1>3. CallsOk'
  BY <1>1, <1>2, CallsGoOn DEF OnboardingTyped, CallFails
<1> QED
  BY <1>1, <1>2, <1>3, OnlyCalls

(* A row is stored. *)
LEMMA RowStored ==
    ASSUME TalksOk, NEW i \in 1..Len(talks), clock' \in {clock, clock + 1}, inbox' \in Nat,
           NEW row \in Talks(clock'), talks' = [talks EXCEPT ![i] = row], latest' = i
    PROVE  TalksOk' /\ TablesGrow /\ Len(talks') = Len(talks)
<1>0. clock \in Nat /\ clock' \in Nat /\ clock <= clock' /\ talks \in Seq(Talks(clock))
  BY DEF TalksOk
<1>1. talks \in Seq(Talks(clock'))
  BY <1>0, SayingsLater
<1>2. talks' \in Seq(Talks(clock')) /\ Len(talks') = Len(talks) /\ Len(talks) \in Nat
  BY <1>1
<1>3. latest' \in 0..Len(talks') /\ latest' # 0
  BY <1>2
<1> QED
  BY <1>0, <1>2, <1>3 DEF TalksOk, TablesGrow

(* A row is stored with a list of messages. *)
LEMMA TalkSaid ==
    ASSUME TalksOk, NEW i \in 1..Len(talks), NEW ms \in Seq(Sayings(clock')),
           clock' = clock + 1, inbox' \in Nat, NEW st \in {"active", "completed", "confirmed"},
           NEW dr \in Drafts \cup {Nothing},
           talks' = [talks EXCEPT ![i] = [status |-> st, messages |-> ms, draft |-> dr]],
           latest' = i
    PROVE  TalksOk' /\ TablesGrow /\ Len(talks') = Len(talks)
<1> DEFINE row == [status |-> st, messages |-> ms, draft |-> dr]
<1>1. row \in Talks(clock')
  BY DEF Talks
<1> HIDE DEF row
<1>2. talks' = [talks EXCEPT ![i] = row]
  BY DEF row
<1> QED
  BY <1>1, <1>2, RowStored

(* A message that is stored has the next stamp. *)
LEMMA Said ==
    ASSUME TalksOk, clock' = clock + 1, NEW seen \in Seq(Sayings(clock)), NEW role, NEW content,
           \/ role = "user" /\ content \in Replies \cup {"prompt"}
           \/ role = "assistant" /\ content \in Questions \cup Drafts
    PROVE  Append(seen, Message(role, content)) \in Seq(Sayings(clock'))
<1>0. clock \in Nat /\ clock' \in Nat /\ clock <= clock'
  BY DEF TalksOk
<1>1. seen \in Seq(Sayings(clock'))
  BY <1>0, SayingsLater
<1>2. Message(role, content) \in Sayings(clock')
  BY <1>0 DEF Message, Sayings
<1> QED
  BY <1>1, <1>2

(* A step that stores a row keeps what is not a row. *)
LEMMA RowsStored ==
    ASSUME OnboardingTyped, TalksOk', TablesGrow, CallsOk',
           \/ UNCHANGED post
           \/ post' = NoPost
    PROVE  /\ PostOk'
           /\ UNCHANGED <<visible, dialogVars, polls>> => OnboardingTyped'
<1>1. PostOk'
  <2>1. CASE UNCHANGED post
    BY <2>1, PostLater DEF OnboardingTyped
  <2>2. CASE post' = NoPost
    <3>1. <<>> \in Seq(Sayings(clock'))
      OBVIOUS
    <3>2. clock' \in Nat
      BY DEF TablesGrow
    <3> QED
      BY <2>2, <3>1 DEF PostOk, NoPost
  <2> QED
    BY <2>1, <2>2
<1>2. UNCHANGED <<visible, dialogVars, polls>> => DialogOk' /\ PollsOk'
  BY DialogLater DEF OnboardingTyped
<1> QED
  BY <1>1, <1>2 DEF OnboardingTyped

(* An answer is stored. *)
LEMMA AnswerCommitsTyped ==
    ASSUME OnboardingTyped, NEW c \in calls, AnswerCommits(c)
    PROVE  OnboardingTyped'
<1>1. UNCHANGED <<goal, agentVars, mount, visible, dialogVars, polls, deeds, failures>>
      /\ c.kind = "answer" /\ c.phase = "read" /\ latest' = c.talk /\ clock' = clock + 1
  BY DEF AnswerCommits
<1>2. UNCHANGED <<post, inbox>> /\ inbox' \in Nat
  BY <1>1 DEF OnboardingTyped, TalksOk, agentVars
<1>3. CallOk(c) /\ CallsOk /\ TalksOk
  BY DEF OnboardingTyped, CallsOk
<1>4. /\ c.talk \in 1..Len(talks) /\ c.content \in Replies /\ c.seen \in Seq(Sayings(clock))
      /\ c.lead \in Drafts \cup {Nothing}
  BY <1>1, <1>3 DEF CallOk, Calls
<1>5. PICK ms : ms = Append(c.seen, Message("user", c.content))
  OBVIOUS
<1>6. ms \in Seq(Sayings(clock'))
  BY <1>1, <1>3, <1>4, <1>5, Said
<1>7. PICK st, dr : st = talks[c.talk].status /\ dr = talks[c.talk].draft
  OBVIOUS
<1>8. st \in {"active", "completed", "confirmed"} /\ dr \in Drafts \cup {Nothing}
      /\ talks[c.talk] = [status |-> st, draft |-> dr, messages |-> talks[c.talk].messages]
  BY <1>3, <1>4, <1>7, RowIs
<1>9. talks' = [talks EXCEPT ![c.talk] = [status |-> st, messages |-> ms, draft |-> dr]]
  <2>1. talks' = [talks EXCEPT ![c.talk].messages = ms]
    BY <1>5 DEF AnswerCommits
  <2>2. talks' = [talks EXCEPT ![c.talk] = [talks[c.talk] EXCEPT !.messages = ms]]
    BY <2>1
  <2>3. [talks[c.talk] EXCEPT !.messages = ms] = [status |-> st, messages |-> ms, draft |-> dr]
    BY <1>8
  <2> QED
    BY <2>2, <2>3
<1>10. TalksOk' /\ TablesGrow /\ Len(talks') = Len(talks)
  BY <1>1, <1>2, <1>3, <1>4, <1>6, <1>8, <1>9, TalkSaid
<1>11. PICK v : v = View(c.talk)'
  OBVIOUS
<1>12. ViewOk(v)'
  <2>1. v = [row |-> c.talk, last |-> LastOfAgent(talks'[c.talk].messages),
              draft |-> talks'[c.talk].draft]
    BY <1>11 DEF View
  <2> QED
    BY <1>4, <1>10, <2>1, ViewNext
<1>13. PICK d : d = [c EXCEPT !.phase = "dispatch", !.seen = <<>>, !.view = v]
  OBVIOUS
<1>14. Moves(c, d)
  BY <1>11, <1>13 DEF AnswerCommits
<1>15. CallOk(d)' /\ d.mount = c.mount
  <2>1. CallOk(c)'
    BY <1>1, <1>3, <1>10, CallLater
  <2>2. d = Onward(c, "dispatch", c.talk, <<>>, v, c.lead)
    BY <1>13, <2>1 DEF CallOk, Calls, Onward
  <2>3. "dispatch" \in Phases[c.kind] \ {"ok", "failed"} /\ c.talk \in Nat
        /\ <<>> \in Seq(Sayings(clock')) /\ c.talk \in 1..Len(talks')
    BY <1>1, <1>4, <1>10 DEF Phases
  <2>4. /\ CallOk(Onward(c, "dispatch", c.talk, <<>>, v, c.lead))'
        /\ Onward(c, "dispatch", c.talk, <<>>, v, c.lead).mount = c.mount
    <3>1. PICK i, seen, lead : i = c.talk /\ seen = <<>> /\ lead = c.lead
      OBVIOUS
    <3>2. i \in Nat /\ seen \in Seq(Sayings(clock')) /\ lead \in Drafts \cup {Nothing}
          /\ i \in 1..Len(talks')
      BY <1>4, <2>3, <3>1
    <3>3. /\ CallOk(Onward(c, "dispatch", i, seen, v, lead))'
          /\ Onward(c, "dispatch", i, seen, v, lead).mount = c.mount
      BY <1>12, <2>1, <2>3, <3>2, CallMoved
    <3> QED
      BY <3>1, <3>3
  <2> QED
    BY <2>2, <2>4
<1>16. CallsOk'
  BY <1>1, <1>3, <1>10, <1>14, <1>15, CallsGoOn
<1> QED
  BY <1>1, <1>2, <1>10, <1>16, RowsStored

(* A start is. *)
LEMMA StartCommitsTyped ==
    ASSUME OnboardingTyped, NEW c \in calls, StartCommits(c)
    PROVE  OnboardingTyped'
<1>1. UNCHANGED <<goal, agentVars, mount, visible, dialogVars, polls, deeds, failures>>
  BY DEF StartCommits
<1>2. UNCHANGED <<post, inbox>> /\ inbox' \in Nat
  BY <1>1 DEF OnboardingTyped, TalksOk, agentVars
<1>3. CallOk(c) /\ CallsOk /\ TalksOk /\ clock \in Nat /\ Len(talks) \in Nat
  BY DEF OnboardingTyped, CallsOk, TalksOk
<1>4. TalksOk' /\ TablesGrow /\ latest' \in 1..Len(talks')
  <2>1. CASE c.phase = "insert"
    <3>1. /\ talks' = Append(talks, [status |-> "active", draft |-> Nothing,
                                     messages |-> <<Message("user", "prompt")>>])
          /\ latest' = Len(talks') /\ clock' = clock + 1
      BY <2>1 DEF StartCommits
    <3>2. PICK ms : ms = <<Message("user", "prompt")>>
      OBVIOUS
    <3>3. ms \in Seq(Sayings(clock'))
      <4>1. <<>> \in Seq(Sayings(clock)) /\ Append(<<>>, Message("user", "prompt")) = ms
        BY <3>2
      <4> QED
        BY <1>3, <3>1, <4>1, Said
    <3>4. PICK row : row = [status |-> "active", draft |-> Nothing, messages |-> ms]
      OBVIOUS
    <3>5. row \in Talks(clock')
      BY <3>3, <3>4 DEF Talks
    <3>6. talks' = Append(talks, row)
      BY <3>1, <3>2, <3>4
    <3>7. talks \in Seq(Talks(clock'))
      BY <1>3, <3>1, SayingsLater DEF TalksOk
    <3>8. talks' \in Seq(Talks(clock')) /\ Len(talks') = Len(talks) + 1
      BY <3>5, <3>6, <3>7
    <3> QED
      BY <1>2, <1>3, <3>1, <3>8 DEF TalksOk, TablesGrow
  <2>2. CASE c.phase = "touch"
    <3>1. latest' = c.talk /\ UNCHANGED <<talks, clock>> /\ c.talk \in 1..Len(talks)
      BY <1>3, <2>2 DEF StartCommits, CallOk
    <3> QED
      BY <1>2, <1>3, <3>1 DEF TalksOk, TablesGrow
  <2> QED
    BY <2>1, <2>2 DEF StartCommits
<1>5. PICK v : v = View(latest)'
  OBVIOUS
<1>6. ViewOk(v)'
  <2>1. PICK i : i = latest'
    OBVIOUS
  <2>2. v = [row |-> i, last |-> LastOfAgent(talks'[i].messages), draft |-> talks'[i].draft]
    BY <1>5, <2>1 DEF View
  <2> QED
    BY <1>4, <2>1, <2>2, ViewNext
<1>7. CallsOk'
  BY <1>1, <1>3, <1>4, <1>5, <1>6, CallAnswered DEF StartCommits
<1> QED
  BY <1>1, <1>2, <1>4, <1>7, RowsStored

(* A confirmation is. *)
LEMMA ConfirmCommitsTyped ==
    ASSUME OnboardingTyped, NEW c \in calls, ConfirmCommits(c)
    PROVE  OnboardingTyped'
<1>1. UNCHANGED <<clock, agentVars, mount, visible, dialogVars, polls, deeds>>
      /\ latest' = c.talk /\ c.phase = "store"
  BY DEF ConfirmCommits
<1>2. UNCHANGED <<post, inbox>> /\ inbox' \in Nat
  BY <1>1 DEF OnboardingTyped, TalksOk, agentVars
<1>3. CallOk(c) /\ CallsOk /\ TalksOk
  BY DEF OnboardingTyped, CallsOk
<1>4. c.talk \in 1..Len(talks)
  BY <1>1, <1>3 DEF CallOk
<1>5. PICK row : row = [talks[c.talk] EXCEPT !.status = "confirmed"]
  OBVIOUS
<1>6. talks' = [talks EXCEPT ![c.talk] = row]
  BY <1>5 DEF ConfirmCommits
<1>7. row \in Talks(clock')
  <2>1. talks[c.talk] \in Talks(clock)
    BY <1>3, <1>4 DEF TalksOk
  <2> QED
    BY <1>1, <1>5, <2>1 DEF Talks
<1>8. TalksOk' /\ TablesGrow
  BY <1>1, <1>2, <1>3, <1>4, <1>6, <1>7, RowStored
<1>9. CallsOk'
  <2>1. ViewOk(c.view)'
    BY <1>3, <1>8, ViewLater DEF CallOk
  <2>2. Answered(c, c.view) \/ Refused(c)
    BY DEF ConfirmCommits
  <2> QED
    BY <1>1, <1>3, <1>8, <2>1, <2>2, CallAnswered, CallRefused
<1> QED
  BY <1>1, <1>2, <1>8, <1>9, RowsStored

(* No request moves. *)
LEMMA SameCalls ==
    ASSUME CallsOk, TablesGrow, UNCHANGED <<calls, mount, visible>>
    PROVE  CallsOk'
<1>1. \A c \in calls : CallOk(c)'
  BY CallLater DEF CallsOk
<1> QED
  BY <1>1 DEF CallsOk

(* The agent takes a message, or posts unasked. *)
LEMMA AgentSaysTyped ==
    ASSUME OnboardingTyped, NEW content \in Questions \cup Drafts, NEW answers \in BOOLEAN,
           AgentSays(content, answers)
    PROVE  OnboardingTyped'
<1>1. UNCHANGED <<talkVars, goal, calls, mount, visible, dialogVars, polls, deeds, failures>>
  BY DEF AgentSays
<1>2. inbox' \in Nat
  BY DEF OnboardingTyped, TalksOk, AgentSays
<1>3. TablesGrow /\ TalksOk' /\ UNCHANGED <<talks, clock>>
  BY <1>1, <1>2, SameTables DEF OnboardingTyped, talkVars
<1>4. CallsOk'
  BY <1>1, <1>3, SameCalls DEF OnboardingTyped
<1>5. PostOk'
  <2>1. post' = [phase |-> "sent", content |-> content, talk |-> 0, seen |-> <<>>,
                 status |-> "none"]
    BY DEF AgentSays, NoPost
  <2>2. <<>> \in Seq(Sayings(clock'))
    OBVIOUS
  <2> QED
    BY <2>1, <2>2 DEF PostOk
<1>6. DialogOk' /\ PollsOk'
  BY <1>1, <1>3, DialogLater DEF OnboardingTyped
<1> QED
  BY <1>3, <1>4, <1>5, <1>6 DEF OnboardingTyped

(* Its post is refused. *)
LEMMA AgentRefusedTyped ==
    ASSUME OnboardingTyped, AgentRefused
    PROVE  OnboardingTyped'
<1>1. /\ UNCHANGED <<talkVars, goal, calls, inbox, posts, mount, visible, dialogVars, polls, deeds,
                     failures>>
      /\ post' = NoPost
  BY DEF AgentRefused
<1>2. TablesGrow /\ TalksOk'
  BY <1>1, SameTables DEF OnboardingTyped, TalksOk
<1>3. CallsOk'
  BY <1>1, <1>2, SameCalls DEF OnboardingTyped
<1> QED
  BY <1>1, <1>2, <1>3, RowsStored

(* Its post reads the row, and may write a draft of a status that was lost. *)
LEMMA AgentReadsTyped ==
    ASSUME OnboardingTyped, AgentReads
    PROVE  OnboardingTyped'
<1>1. UNCHANGED <<latest, clock, goal, calls, inbox, posts, mount, visible, dialogVars, polls,
                  deeds, failures>>
  BY DEF AgentReads
<1>2. /\ TalksOk /\ CallsOk /\ PostOk /\ post.phase = "sent" /\ clock \in Nat /\ inbox' \in Nat
      /\ talks \in Seq(Talks(clock)) /\ Len(talks) \in Nat
  BY <1>1 DEF OnboardingTyped, TalksOk, AgentReads
<1>3. PICK i : i = latest /\ i \in 1..Len(talks)
  BY <1>2 DEF TalksOk, AgentReads
<1>4. PICK row : row = talks[i] /\ row \in Talks(clock)
  BY <1>2, <1>3
<1>5. \/ /\ post' = [post EXCEPT !.phase = "read", !.talk = i, !.seen = row.messages,
                                 !.status = row.status]
         /\ UNCHANGED talks
      \/ post' = NoPost /\ UNCHANGED talks
      \/ /\ post' = NoPost /\ post.content \in Drafts
         /\ talks' = [talks EXCEPT ![i].status = "completed", ![i].draft = post.content]
  BY <1>3, <1>4 DEF AgentReads
<1>6. CASE post' = [post EXCEPT !.phase = "read", !.talk = i, !.seen = row.messages,
                                !.status = row.status] /\ UNCHANGED talks
  <2>1. TablesGrow /\ TalksOk'
    BY <1>1, <1>2, <1>6, SameTables DEF talkVars
  <2>2. row.messages \in Seq(Sayings(clock)) /\ row.status \in {"active", "completed", "confirmed"}
    BY <1>4 DEF Talks
  <2>3. PICK ms, st : ms = row.messages /\ st = row.status
    OBVIOUS
  <2>4. /\ post'.phase = "read" /\ post'.talk = i /\ post'.content = post.content
        /\ post' \in [phase : {"none", "sent", "read"}, content : Questions \cup Drafts \cup {Nothing},
                      talk : Nat, seen : Seq(Sayings(clock)),
                      status : {"none", "active", "completed", "confirmed"}]
    <3>1. post' = [post EXCEPT !.phase = "read", !.talk = i, !.seen = ms, !.status = st]
      BY <1>6, <2>3
    <3>2. i \in Nat
      BY <1>2, <1>3
    <3> QED
      BY <1>2, <2>2, <2>3, <3>1, <3>2 DEF PostOk
  <2>5. PostOk'
    <3>1. post'.content \in Questions \cup Drafts
      BY <1>2, <2>4 DEF PostOk
    <3> QED
      BY <1>1, <1>3, <1>6, <2>4, <3>1 DEF PostOk
  <2>6. CallsOk' /\ DialogOk' /\ PollsOk'
    BY <1>1, <2>1, SameCalls, DialogLater DEF OnboardingTyped
  <2> QED
    BY <2>1, <2>5, <2>6 DEF OnboardingTyped
<1>7. CASE post' = NoPost /\ UNCHANGED talks
  <2>1. TablesGrow /\ TalksOk'
    BY <1>1, <1>2, <1>7, SameTables DEF talkVars
  <2>2. CallsOk'
    BY <1>1, <1>2, <2>1, SameCalls
  <2> QED
    BY <1>1, <1>7, <2>1, <2>2, RowsStored
<1>8. CASE /\ post' = NoPost /\ post.content \in Drafts
           /\ talks' = [talks EXCEPT ![i].status = "completed", ![i].draft = post.content]
  <2>1. PICK d : d = post.content /\ d \in Drafts
    BY <1>8
  <2>2. PICK new : new = [row EXCEPT !.status = "completed", !.draft = d]
    OBVIOUS
  <2>3. new \in Talks(clock')
    BY <1>1, <1>4, <2>1, <2>2 DEF Talks
  <2>4. talks' = [talks EXCEPT ![i] = new]
    BY <1>4, <1>8, <2>1, <2>2
  <2>5. TablesGrow /\ TalksOk'
    BY <1>1, <1>2, <1>3, <2>3, <2>4, RowStored
  <2>6. CallsOk'
    BY <1>1, <1>2, <2>5, SameCalls
  <2> QED
    BY <1>1, <1>8, <2>5, <2>6, RowsStored
<1> QED
  BY <1>5, <1>6, <1>7, <1>8

(* Its post is stored. *)
LEMMA AgentCommitsTyped ==
    ASSUME OnboardingTyped, AgentCommits
    PROVE  OnboardingTyped'
<1>1. /\ UNCHANGED <<goal, calls, inbox, posts, mount, visible, dialogVars, polls, deeds, failures>>
      /\ post.phase = "read" /\ latest' = post.talk /\ clock' = clock + 1 /\ post' = NoPost
  BY DEF AgentCommits
<1>2. TalksOk /\ CallsOk /\ PostOk /\ inbox' \in Nat
  BY <1>1 DEF OnboardingTyped, TalksOk
<1>3. PICK i, content, seen : /\ i = post.talk /\ content = post.content /\ seen = post.seen
                              /\ i \in 1..Len(talks) /\ content \in Questions \cup Drafts
                              /\ seen \in Seq(Sayings(clock))
  BY <1>1, <1>2 DEF PostOk
<1>4. PICK ms : ms = Append(seen, Message("assistant", content))
  OBVIOUS
<1>5. ms \in Seq(Sayings(clock'))
  BY <1>1, <1>2, <1>3, <1>4, Said
<1>6. PICK st, dr : st = talks[i].status /\ dr = talks[i].draft
  OBVIOUS
<1>7. st \in {"active", "completed", "confirmed"} /\ dr \in Drafts \cup {Nothing}
      /\ talks[i] = [status |-> st, draft |-> dr, messages |-> talks[i].messages]
  BY <1>2, <1>3, <1>6, RowIs
<1>8. \E s \in {"active", "completed", "confirmed"}, e \in Drafts \cup {Nothing} :
         talks' = [talks EXCEPT ![i] = [status |-> s, messages |-> ms, draft |-> e]]
  <2>1. CASE content \in Drafts
    <3>1. PICK s : s = (IF post.status = "completed" THEN st ELSE "completed")
                   /\ s \in {"active", "completed", "confirmed"}
      BY <1>7
    <3>2. talks' = [talks EXCEPT ![i] = [status |-> s, messages |-> ms, draft |-> content]]
      BY <1>3, <1>4, <1>6, <2>1, <3>1 DEF AgentCommits
    <3> QED
      BY <2>1, <3>1, <3>2
  <2>2. CASE content \notin Drafts
    <3>1. talks' = [talks EXCEPT ![i] = [talks[i] EXCEPT !.messages = ms]]
      BY <1>3, <1>4, <2>2 DEF AgentCommits
    <3>2. [talks[i] EXCEPT !.messages = ms] = [status |-> st, messages |-> ms, draft |-> dr]
      BY <1>7
    <3> QED
      BY <1>7, <3>1, <3>2
  <2> QED
    BY <2>1, <2>2
<1>9. TalksOk' /\ TablesGrow
  <2>1. PICK s \in {"active", "completed", "confirmed"}, e \in Drafts \cup {Nothing} :
           talks' = [talks EXCEPT ![i] = [status |-> s, messages |-> ms, draft |-> e]]
    BY <1>8
  <2>2. latest' = i
    BY <1>1, <1>3
  <2> QED
    BY <1>1, <1>2, <1>3, <1>5, <2>1, <2>2, TalkSaid
<1>10. CallsOk'
  BY <1>1, <1>2, <1>9, SameCalls
<1> QED
  BY <1>1, <1>9, <1>10, RowsStored

(* A dialog opens with a request of its own. *)
LEMMA OpenDialogTyped ==
    ASSUME OnboardingTyped, OpenDialog
    PROVE  OnboardingTyped'
<1>1. /\ UNCHANGED <<talkVars, goal, agentVars, dialogVars, polls, failures>>
      /\ ~ visible /\ visible' = TRUE /\ mount' = mount + 1
      /\ calls' = calls \cup {Call(mount', "start", Nothing)}
  BY DEF OpenDialog
<1>2. TablesGrow /\ TalksOk' /\ UNCHANGED <<talks, latest, clock, post>>
  BY <1>1, SameTables DEF OnboardingTyped, TalksOk, talkVars, agentVars
<1>3. PostOk' /\ PollsOk'
  BY <1>1, <1>2, PostLater, DialogLater DEF OnboardingTyped
<1>4. DialogOk'
  <2>1. PICK v : v = shown
    OBVIOUS
  <2>2. ViewOk(v)' /\ shown' = v
    BY <1>1, <1>2, <2>1, ViewLater DEF OnboardingTyped, DialogOk, dialogVars
  <2>3. UNCHANGED <<shown, awaits, submitted, asked, settled>>
    BY <1>1 DEF dialogVars
  <2> QED
    BY <1>1, <2>2, <2>3 DEF OnboardingTyped, DialogOk
<1>5. CallsOk'
  <2>0. CallsOk /\ mount \in Nat
    BY DEF OnboardingTyped, CallsOk
  <2>1. PICK new : new = Call(mount', "start", Nothing)
    OBVIOUS
  <2>2. CallOk(new)' /\ new.mount = mount + 1
    <3>1. shown.last.stamp \in Nat
      BY DEF OnboardingTyped, DialogOk, ViewOk, Views
    <3>2. new = [kind |-> "start", mount |-> mount + 1, phase |-> "sent", content |-> Nothing,
                 talk |-> 0, seen |-> <<>>, view |-> Unknown, lead |-> Nothing,
                 before |-> shown.last.stamp]
      BY <1>1, <2>1 DEF Call
    <3>3. Unknown \in Views /\ ViewOk(Unknown)'
      <4>1. Len(talks') \in Nat
        BY <1>2 DEF TablesGrow
      <4> QED
        BY <4>1 DEF Unknown, Views, NoMessage, ViewOk
    <3>4. <<>> \in Seq(Sayings(clock'))
      OBVIOUS
    <3>5. new \in Calls(clock')
      BY <2>0, <3>1, <3>2, <3>3, <3>4 DEF Calls
    <3>6. "sent" \in Phases["start"]
      BY DEF Phases
    <3> QED
      BY <1>1, <2>0, <3>2, <3>3, <3>5, <3>6 DEF CallOk
  <2>3. ASSUME NEW c \in calls PROVE CallOk(c)' /\ c.mount <= mount /\ c.mount \in Nat
    <3>0. CallOk(c) /\ c.phase # "failed" /\ (c.phase = "ok" => c.kind = "confirm")
      BY <1>1, <2>0 DEF CallsOk, CallOk
    <3>1. ViewOk(c.view)'
      BY <1>2, <3>0, ViewLater DEF CallOk
    <3>2. UNCHANGED <<clock, talks, latest>>
      BY <1>2
    <3>3. c.mount \in 1..mount'
      BY <1>1, <2>0, <3>0 DEF CallOk
    <3> QED
      BY <2>0, <3>0, <3>1, <3>2, <3>3 DEF CallOk
  <2>4. \A c, d \in calls' : c.mount = d.mount => c = d
    BY <1>1, <2>0, <2>1, <2>2, <2>3 DEF CallsOk
  <2>5. \A c \in calls' : CallOk(c)'
    BY <1>1, <2>1, <2>2, <2>3
  <2> QED
    BY <1>1, <2>0, <2>4, <2>5 DEF CallsOk
<1> QED
  BY <1>2, <1>3, <1>4, <1>5 DEF OnboardingTyped

(* A dialog closes with what it held. *)
LEMMA UnmountedTyped ==
    ASSUME OnboardingTyped, NEW remaining \in SUBSET calls, Unmounted(remaining),
           UNCHANGED <<talkVars, agentVars, mount>>
    PROVE  OnboardingTyped'
<1>1. TablesGrow /\ TalksOk' /\ UNCHANGED <<talks, latest, clock, post>>
  BY SameTables DEF OnboardingTyped, TalksOk, talkVars, agentVars
<1>2. PostOk'
  BY <1>1, PostLater DEF OnboardingTyped
<1>3. DialogOk' /\ PollsOk'
  <2>1. /\ shown' = Unknown /\ awaits' = 0 /\ submitted' = FALSE /\ asked' = Nothing
        /\ settled' = {} /\ polls' = <<>>
    BY DEF Unmounted
  <2>2. ViewOk(shown)'
    <3>1. Len(talks') \in Nat
      BY <1>1 DEF TablesGrow
    <3> QED
      BY <2>1, <3>1 DEF ViewOk, Unknown, NoMessage, Views
  <2>3. PollsOk'
    BY <2>1 DEF PollsOk
  <2>4. awaits' \in {0, shown'.last.stamp} /\ submitted' \in BOOLEAN /\ settled' \subseteq Nat
        /\ asked' \in Questions \cup {Nothing}
    BY <2>1
  <2> QED
    BY <2>1, <2>2, <2>3, <2>4 DEF DialogOk
<1>4. CallsOk'
  <2>1. CallsOk /\ calls' \subseteq calls /\ visible' = FALSE /\ mount' = mount
    BY DEF OnboardingTyped, Unmounted
  <2>2. ASSUME NEW c \in calls' PROVE CallOk(c)'
    <3>1. CallOk(c) /\ (c.phase \notin {"ok", "failed"} \/ (c.kind = "confirm" /\ c.phase = "ok"))
      BY <2>1 DEF CallsOk, Unmounted
    <3>2. ViewOk(c.view)'
      BY <1>1, <3>1, ViewLater DEF CallOk
    <3> QED
      BY <1>1, <2>1, <3>1, <3>2 DEF CallOk
  <2> QED
    BY <2>1, <2>2 DEF CallsOk
<1> QED
  BY <1>1, <1>2, <1>3, <1>4 DEF OnboardingTyped

(* The user sends an answer, or confirms. *)
LEMMA CallSentTyped ==
    ASSUME OnboardingTyped, NEW kind \in {"answer", "confirm"}, NEW content,
           kind = "answer" => content \in Replies,
           kind = "confirm" => content \in Drafts,
           visible, shown.row # 0, ~ Loading, calls' = calls \cup {Call(mount, kind, content)},
           UNCHANGED <<talkVars, agentVars, mount, visible, shown, polls, settled>>,
           awaits' = 0, submitted' \in BOOLEAN, asked' \in Questions \cup {Nothing}
    PROVE  OnboardingTyped'
<1>1. TablesGrow /\ TalksOk' /\ UNCHANGED <<talks, latest, clock, post>>
  BY SameTables DEF OnboardingTyped, TalksOk, talkVars, agentVars
<1>2. PostOk' /\ PollsOk'
  BY <1>1, PostLater, DialogLater DEF OnboardingTyped
<1>3. DialogOk'
  <2>1. PICK v : v = shown
    OBVIOUS
  <2>2. ViewOk(v)' /\ shown' = v
    BY <1>1, <2>1, ViewLater DEF OnboardingTyped, DialogOk
  <2> QED
    BY <2>2 DEF OnboardingTyped, DialogOk
<1>4. CallsOk'
  <2>0. CallsOk /\ mount \in Nat
    BY DEF OnboardingTyped, CallsOk
  <2>00. PICK seen : seen = shown.last.stamp
    OBVIOUS
  <2>1. PICK new : new = Call(mount, kind, content)
    OBVIOUS
  <2>4. mount # 0 /\ latest # 0
    <3>1. /\ shown.row \in 0..Len(talks) /\ talks \in Seq(Talks(clock))
          /\ (talks # <<>> => latest # 0)
      BY DEF OnboardingTyped, DialogOk, ViewOk, TalksOk
    <3>2. talks # <<>>
      BY <3>1
    <3> QED
      BY <2>0, <3>1, <3>2 DEF CallsOk
  <2>2. CallOk(new)' /\ new.mount = mount
    <3>1. shown.last.stamp \in Nat
      BY DEF OnboardingTyped, DialogOk, ViewOk, Views
    <3>2. new = [kind |-> kind, mount |-> mount, phase |-> "sent", content |-> content,
                 talk |-> 0, seen |-> <<>>, view |-> Unknown, lead |-> Nothing,
                 before |-> shown.last.stamp]
      BY <2>1 DEF Call
    <3>3. Unknown \in Views /\ ViewOk(Unknown)'
      <4>1. Len(talks') \in Nat
        BY <1>1 DEF TablesGrow
      <4> QED
        BY <4>1 DEF Unknown, Views, NoMessage, ViewOk
    <3>4. <<>> \in Seq(Sayings(clock'))
      OBVIOUS
    <3>5. new \in Calls(clock')
      BY <2>0, <3>1, <3>2, <3>3, <3>4 DEF Calls
    <3>6. "sent" \in Phases[kind]
      BY DEF Phases
    <3> QED
      BY <1>1, <2>0, <2>4, <3>2, <3>3, <3>5, <3>6 DEF CallOk
  <2>3. ASSUME NEW c \in calls PROVE CallOk(c)'
    BY <1>1, <2>0, CallLater DEF CallsOk
  <2> QED
    BY <2>0, <2>1, <2>2, <2>3 DEF CallsOk, Loading
<1> QED
  BY <1>1, <1>2, <1>3, <1>4 DEF OnboardingTyped

(* The user answers. *)
LEMMA SubmitTyped ==
    ASSUME OnboardingTyped, NEW content \in Replies, Submit(content)
    PROVE  OnboardingTyped'
<1>1. /\ UNCHANGED <<talkVars, goal, agentVars, mount, visible, shown, polls, failures, settled,
                     mishaps>>
      /\ calls' = calls \cup {Call(mount, "answer", content)} /\ ~ Loading
      /\ awaits' = 0 /\ submitted' = FALSE
  BY DEF Submit
<1>2. visible /\ (shown.last.content \in Questions \/ shown.draft # Nothing)
  BY DEF Submit, Offers, OffersDraft, Question
<1>3. shown.row # 0
  BY <1>2, OnboardingAssumption DEF OnboardingTyped, DialogOk, ViewOk, Unknown, NoMessage
<1>4. asked' \in Questions \cup {Nothing}
  BY DEF Submit, Question, OnboardingTyped, DialogOk
<1> QED
  BY <1>1, <1>2, <1>3, <1>4, CallSentTyped

(* The user confirms the draft on display. *)
LEMMA ConfirmTyped ==
    ASSUME OnboardingTyped, Confirm
    PROVE  OnboardingTyped'
<1>1. /\ UNCHANGED <<talkVars, goal, agentVars, mount, visible, dialogVars, polls, deeds, failures,
                     mishaps>>
      /\ calls' = calls \cup {Call(mount, "confirm", shown.draft)} /\ ~ Loading
      /\ visible /\ shown.draft # Nothing /\ awaits = 0
  BY DEF Confirm, OffersDraft
<1>2. PICK d : d = shown.draft
  OBVIOUS
<1>3. d \in Drafts
  BY <1>1, <1>2 DEF OnboardingTyped, DialogOk, ViewOk, Views
<1>4. shown.row # 0
  BY <1>1 DEF OnboardingTyped, DialogOk, ViewOk, Unknown
<1>5. UNCHANGED <<shown, awaits, submitted, asked, settled>>
  BY <1>1 DEF dialogVars
<1>6. /\ UNCHANGED <<talkVars, agentVars, mount, visible, shown, polls, settled>>
      /\ awaits' = 0 /\ submitted' \in BOOLEAN /\ asked' \in Questions \cup {Nothing}
      /\ calls' = calls \cup {Call(mount, "confirm", d)} /\ visible
  BY <1>1, <1>2, <1>5 DEF OnboardingTyped, DialogOk
<1> QED
  BY <1>1, <1>3, <1>4, <1>6, CallSentTyped

(* What comes back is shown. *)
LEMMA ShowsTyped ==
    ASSUME NEW v, ViewOk(v)', NEW waits \in Nat, NEW answer \in BOOLEAN, Shows(v, waits, answer)
    PROVE  /\ shown' = v /\ ViewOk(shown)' /\ submitted' \in BOOLEAN
           /\ awaits' \in {0, shown'.last.stamp}
<1>1. shown' = v /\ submitted' \in BOOLEAN
  BY DEF Shows
<1>2. awaits' \in {0, v.last.stamp}
  BY DEF Shows
<1> QED
  BY <1>1, <1>2

(* An answer of the server, shown. *)
LEMMA CallReturnsTyped ==
    ASSUME OnboardingTyped, NEW c \in calls, CallReturns(c)
    PROVE  OnboardingTyped'
<1>1. UNCHANGED <<talkVars, goal, agentVars, mount, deeds, failures>> /\ c.phase = "ok"
  BY DEF CallReturns
<1>2. TablesGrow /\ TalksOk' /\ UNCHANGED <<talks, latest, clock, post>>
  BY <1>1, SameTables DEF OnboardingTyped, TalksOk, talkVars, agentVars
<1>3. CallOk(c) /\ CallsOk
  BY DEF OnboardingTyped, CallsOk
<1>4. CASE Unmounted(calls \ {c})
  BY <1>1, <1>4, UnmountedTyped
<1>5. ASSUME NEW waits \in Nat, NEW answer \in BOOLEAN, Shows(c.view, waits, answer),
             UNCHANGED <<asked, visible, polls>>, settled' \subseteq Nat, calls' = calls \ {c},
             c.kind # "confirm"
      PROVE  OnboardingTyped'
  <2>1. ViewOk(c.view)'
    BY <1>2, <1>3, ViewLater DEF CallOk
  <2>2. /\ shown' = c.view /\ ViewOk(shown)' /\ submitted' \in BOOLEAN
        /\ awaits' \in {0, shown'.last.stamp}
    BY <1>5, <2>1, ShowsTyped
  <2>3. visible
    BY <1>1, <1>3, <1>5 DEF CallOk
  <2>4. DialogOk'
    BY <1>5, <2>2, <2>3 DEF DialogOk, OnboardingTyped
  <2>5. PollsOk' /\ PostOk'
    BY <1>1, <1>2, <1>5, DialogLater, PostLater DEF OnboardingTyped
  <2>6. CallsOk'
    BY <1>1, <1>2, <1>3, <1>5, CallsGoOn
  <2> QED
    BY <1>2, <2>4, <2>5, <2>6 DEF OnboardingTyped
<1>6. CASE /\ c.kind = "start" /\ calls' = calls \ {c} /\ Shows(c.view, awaits, submitted)
           /\ UNCHANGED <<asked, settled, visible, polls>>
  <2>0. shown.last.stamp \in Nat
    BY DEF OnboardingTyped, DialogOk, ViewOk, Views
  <2>1. awaits \in Nat /\ submitted \in BOOLEAN /\ settled' \subseteq Nat
    BY <1>6, <2>0 DEF OnboardingTyped, DialogOk
  <2>2. PICK waits, answer : waits = awaits /\ answer = submitted /\ waits \in Nat
                             /\ answer \in BOOLEAN
    BY <2>1
  <2>3. Shows(c.view, waits, answer)
    BY <1>6, <2>2
  <2> QED
    BY <1>5, <1>6, <2>1, <2>2, <2>3
<1>7. CASE /\ c.kind = "answer" /\ calls' = calls \ {c} /\ Shows(c.view, c.before, TRUE)
           /\ settled' = settled \cup {c.before}
           /\ UNCHANGED <<asked, visible, polls>>
  <2>1. c.before \in Nat
    BY <1>3 DEF CallOk, Calls
  <2>2. settled' \subseteq Nat
    BY <1>7, <2>1 DEF OnboardingTyped, DialogOk
  <2> QED
    BY <1>5, <1>7, <2>1, <2>2
<1> QED
  BY <1>4, <1>6, <1>7 DEF CallReturns

(* Polls. *)
LEMMA PollTyped ==
    ASSUME OnboardingTyped, PollsOk', visible,
           UNCHANGED <<talkVars, goal, calls, agentVars, mount, visible, deeds, failures>>,
           \/ UNCHANGED dialogVars
           \/ UNCHANGED <<asked, settled>> /\ ViewOk(shown)' /\ submitted' \in BOOLEAN
              /\ awaits' \in {0, shown'.last.stamp}
    PROVE  OnboardingTyped'
<1>1. TablesGrow /\ TalksOk' /\ UNCHANGED <<talks, latest, clock, post>>
  BY SameTables DEF OnboardingTyped, TalksOk, talkVars, agentVars
<1>2. PostOk' /\ CallsOk'
  BY <1>1, PostLater, SameCalls DEF OnboardingTyped
<1>3. DialogOk'
  <2>1. CASE UNCHANGED dialogVars
    <3>1. PICK v : v = shown
      OBVIOUS
    <3>2. ViewOk(v)' /\ shown' = v
      BY <1>1, <2>1, <3>1, ViewLater DEF OnboardingTyped, DialogOk, dialogVars
    <3>3. UNCHANGED <<shown, awaits, submitted, asked, settled>>
      BY <2>1 DEF dialogVars
    <3> QED
      BY <3>2, <3>3 DEF OnboardingTyped, DialogOk
  <2>2. CASE UNCHANGED <<asked, settled>> /\ ViewOk(shown)' /\ submitted' \in BOOLEAN
             /\ awaits' \in {0, shown'.last.stamp}
    BY <2>2 DEF OnboardingTyped, DialogOk
  <2> QED
    BY <2>1, <2>2
<1> QED
  BY <1>1, <1>2, <1>3 DEF OnboardingTyped

(* The polls, once they are known. *)
LEMMA PollsAre ==
    ASSUME NEW qs, polls' = qs, qs \in Seq([read : BOOLEAN, view : Views]),
           \A n \in DOMAIN qs : ViewOk(qs[n].view)'
    PROVE  PollsOk'
BY DEF PollsOk

(* The interval sends a poll. *)
LEMMA PollSentTyped ==
    ASSUME OnboardingTyped, PollSent
    PROVE  OnboardingTyped'
<1>1. /\ UNCHANGED <<talkVars, goal, calls, agentVars, mount, visible, dialogVars, deeds, failures,
                     mishaps>>
      /\ visible /\ polls' = Append(polls, [read |-> FALSE, view |-> Unknown])
  BY DEF PollSent, ShouldPoll, Waits
<1>2. PICK p : p = [read |-> FALSE, view |-> Unknown]
  OBVIOUS
<1>3. /\ p \in [read : BOOLEAN, view : Views] /\ p.view = Unknown
      /\ polls \in Seq([read : BOOLEAN, view : Views]) /\ polls' = Append(polls, p)
  BY <1>1, <1>2 DEF Views, Unknown, NoMessage, OnboardingTyped, PollsOk
<1>4. polls' \in Seq([read : BOOLEAN, view : Views]) /\ Len(polls) \in Nat
      /\ \A n \in DOMAIN polls' : IF n = Len(polls) + 1 THEN polls'[n] = p
                                  ELSE n \in DOMAIN polls /\ polls'[n] = polls[n]
  BY <1>3
<1>5. TablesGrow
  BY <1>1, SameTables DEF OnboardingTyped
<1>0. PICK qs : qs = polls'
  OBVIOUS
<1>6. ASSUME NEW n \in DOMAIN qs PROVE ViewOk(qs[n].view)'
  <2>1. ViewOk(qs[n].view)
    <3>1. CASE n = Len(polls) + 1
      <4>1. qs[n].view = Unknown /\ Len(talks) \in Nat
        BY <1>0, <1>3, <1>4, <1>5, <3>1 DEF TablesGrow
      <4> QED
        BY <4>1 DEF ViewOk, Unknown, NoMessage, Views
    <3>2. CASE n # Len(polls) + 1
      BY <1>0, <1>4, <3>2 DEF OnboardingTyped, PollsOk
    <3> QED
      BY <3>1, <3>2
  <2> QED
    BY <1>5, <2>1, ViewLater
<1>7. PollsOk'
  BY <1>0, <1>4, <1>6, PollsAre
<1> QED
  BY <1>1, <1>7, PollTyped

(* A poll reads the row that was updated last. *)
LEMMA PollReadsTyped ==
    ASSUME OnboardingTyped, NEW m \in DOMAIN polls, PollReads(m)
    PROVE  OnboardingTyped'
<1>1. UNCHANGED <<talkVars, goal, calls, agentVars, mount, visible, dialogVars, deeds, failures,
                  mishaps>>
  BY DEF PollReads
<1>2. PICK v : v = IF latest = 0 THEN Unknown ELSE View(latest)
  OBVIOUS
<1>3. polls' = [polls EXCEPT ![m].read = TRUE, ![m].view = v]
  BY <1>2 DEF PollReads
<1>4. TablesGrow /\ TalksOk /\ PollsOk
  BY <1>1, SameTables DEF OnboardingTyped
<1>5. ViewOk(v)
  <2>1. CASE latest = 0
    BY <1>2, <1>4, <2>1 DEF TablesGrow, ViewOk, Unknown, NoMessage, Views
  <2>2. CASE latest # 0
    <3>1. PICK i : i = latest /\ i \in 1..Len(talks)
      BY <1>4, <2>2 DEF TalksOk
    <3>2. ViewOk(View(i))
      BY <1>4, <3>1, ViewIs
    <3> QED
      BY <1>2, <2>2, <3>1, <3>2
  <2> QED
    BY <2>1, <2>2
<1>6. /\ polls' \in Seq([read : BOOLEAN, view : Views]) /\ DOMAIN polls' = DOMAIN polls
      /\ \A n \in DOMAIN polls : polls'[n].view = IF n = m THEN v ELSE polls[n].view
  <2>1. polls \in Seq([read : BOOLEAN, view : Views]) /\ v \in Views
    BY <1>4, <1>5 DEF PollsOk, ViewOk
  <2>2. PICK p : p = [polls[m] EXCEPT !.read = TRUE, !.view = v]
    OBVIOUS
  <2>5. polls[m] \in [read : BOOLEAN, view : Views]
    <3> DEFINE T == [read : BOOLEAN, view : Views]
    <3>1. polls \in Seq(T)
      BY <2>1
    <3> HIDE DEF T
    <3>2. polls[m] \in T
      BY <3>1
    <3> QED
      BY <3>2 DEF T
  <2>3. p \in [read : BOOLEAN, view : Views] /\ p.view = v
    BY <2>1, <2>2, <2>5
  <2>4. polls' = [polls EXCEPT ![m] = p]
    BY <1>3, <2>2
  <2> QED
    BY <2>1, <2>3, <2>4
<1>0. PICK qs : qs = polls'
  OBVIOUS
<1>7. ASSUME NEW n \in DOMAIN qs PROVE ViewOk(qs[n].view)'
  <2>1. ViewOk(qs[n].view)
    BY <1>0, <1>4, <1>5, <1>6 DEF PollsOk
  <2> QED
    BY <1>4, <2>1, ViewLater
<1>8. PollsOk'
  BY <1>0, <1>6, <1>7, PollsAre
<1>9. visible
  BY DEF OnboardingTyped, DialogOk
<1> QED
  BY <1>1, <1>8, <1>9, PollTyped

(* Polls close up when one comes back. *)
LEMMA PollsCloseUp ==
    ASSUME NEW T, NEW ps \in Seq(T), NEW n \in DOMAIN ps, NEW qs,
           qs = [k \in 1..Len(ps) - 1 |-> IF k < n THEN ps[k] ELSE ps[k + 1]]
    PROVE  /\ qs \in Seq(T)
           /\ \A k \in DOMAIN qs : \E j \in DOMAIN ps : j # n /\ qs[k] = ps[j]
<1>1. Len(ps) \in Nat /\ n \in 1..Len(ps) /\ Len(ps) - 1 \in Nat
  OBVIOUS
<1>2. DOMAIN qs = 1..Len(ps) - 1
  OBVIOUS
<1>3. ASSUME NEW k \in DOMAIN qs PROVE \E j \in DOMAIN ps : j # n /\ qs[k] = ps[j]
  <2>1. CASE k < n
    BY <1>1, <1>2, <2>1
  <2>2. CASE ~ k < n
    <3>1. k + 1 \in DOMAIN ps /\ k + 1 # n /\ qs[k] = ps[k + 1]
      BY <1>1, <1>2, <2>2
    <3> QED
      BY <3>1
  <2> QED
    BY <2>1, <2>2
<1>4. \A k \in DOMAIN qs : qs[k] \in T
  BY <1>3
<1>5. qs = [k \in 1..Len(ps) - 1 |-> qs[k]]
  BY <1>2
<1>6. qs \in [1..Len(ps) - 1 -> T]
  BY <1>2, <1>4, <1>5
<1>7. qs \in Seq(T)
  BY <1>1, <1>6
<1> QED
  BY <1>3, <1>7

(* A poll has come back. *)
LEMMA PollReturnsTyped ==
    ASSUME OnboardingTyped, NEW m \in DOMAIN polls, PollReturns(m)
    PROVE  OnboardingTyped'
<1>1. /\ UNCHANGED <<talkVars, goal, calls, agentVars, mount, visible, asked, deeds, failures,
                     settled>>
      /\ polls' = [k \in 1..Len(polls) - 1 |-> IF k < m THEN polls[k] ELSE polls[k + 1]]
  BY DEF PollReturns
<1>2. TablesGrow /\ PollsOk
  BY <1>1, SameTables DEF OnboardingTyped
<1>3. PICK ps, qs : ps = polls /\ qs = polls'
  OBVIOUS
<1>4. /\ qs \in Seq([read : BOOLEAN, view : Views])
      /\ \A k \in DOMAIN qs : \E j \in DOMAIN ps : j # m /\ qs[k] = ps[j]
  <2>1. ps \in Seq([read : BOOLEAN, view : Views]) /\ m \in DOMAIN ps
        /\ qs = [k \in 1..Len(ps) - 1 |-> IF k < m THEN ps[k] ELSE ps[k + 1]]
    BY <1>1, <1>2, <1>3 DEF PollsOk
  <2> DEFINE T == [read : BOOLEAN, view : Views]
  <2>2. ps \in Seq(T)
    BY <2>1
  <2> HIDE DEF T
  <2>3. qs \in Seq(T) /\ \A k \in DOMAIN qs : \E j \in DOMAIN ps : j # m /\ qs[k] = ps[j]
    BY <2>1, <2>2, PollsCloseUp
  <2> QED
    BY <2>3 DEF T
<1>5. PollsOk'
  <2>1. ASSUME NEW n \in DOMAIN qs PROVE ViewOk(qs[n].view)'
    <3>1. ViewOk(qs[n].view)
      BY <1>2, <1>3, <1>4 DEF PollsOk
    <3> QED
      BY <1>2, <3>1, ViewLater
  <2> QED
    BY <1>3, <1>4, <2>1, PollsAre
<1>6. visible
  BY DEF OnboardingTyped, DialogOk
<1>7. CASE polls[m].view # Unknown
  <2>1. PICK v, waits, answer : v = polls[m].view /\ waits = awaits /\ answer = submitted
    OBVIOUS
  <2>2. shown.last.stamp \in Nat /\ ViewOk(v)
    BY <1>2, <2>1 DEF OnboardingTyped, DialogOk, ViewOk, Views, PollsOk
  <2>3. waits \in Nat /\ answer \in BOOLEAN
    BY <2>1, <2>2 DEF OnboardingTyped, DialogOk
  <2>4. Shows(v, waits, answer)
    BY <1>7, <2>1 DEF PollReturns
  <2>5. ViewOk(v)'
    BY <1>2, <2>2, ViewLater
  <2>6. ViewOk(shown)' /\ submitted' \in BOOLEAN /\ awaits' \in {0, shown'.last.stamp}
    BY <2>3, <2>4, <2>5, ShowsTyped
  <2> QED
    BY <1>1, <1>5, <1>6, <2>6, PollTyped
<1>8. CASE polls[m].view = Unknown
  <2>1. UNCHANGED dialogVars
    BY <1>1, <1>8 DEF PollReturns, dialogVars
  <2> QED
    BY <1>1, <1>5, <1>6, <2>1, PollTyped
<1> QED
  BY <1>7, <1>8

(* The first state. *)
LEMMA OnboardingTypedInit == OnboardingInit => OnboardingTyped
<1> SUFFICES ASSUME OnboardingInit PROVE OnboardingTyped
  OBVIOUS
<1>1. TalksOk /\ CallsOk /\ PollsOk
  <2>1. TalksOk
    BY DEF OnboardingInit, TalksOk
  <2>2. CallsOk
    BY DEF OnboardingInit, CallsOk
  <2>3. PollsOk
    BY DEF OnboardingInit, PollsOk
  <2> QED
    BY <2>1, <2>2, <2>3
<1>2. PostOk
  <2>1. <<>> \in Seq(Sayings(clock))
    OBVIOUS
  <2> QED
    BY <2>1 DEF OnboardingInit, PostOk, NoPost
<1>3. DialogOk
  <2>1. ViewOk(shown)
    BY DEF OnboardingInit, ViewOk, Unknown, NoMessage, Views
  <2>2. awaits \in {0, shown.last.stamp} /\ submitted \in BOOLEAN
        /\ asked \in Questions \cup {Nothing} /\ settled \subseteq Nat
    BY DEF OnboardingInit
  <2> QED
    BY <2>1, <2>2 DEF OnboardingInit, DialogOk
<1> QED
  BY <1>1, <1>2, <1>3 DEF OnboardingTyped

(* A step of someone else. *)
LEMMA OnboardingTypedStutters ==
    ASSUME OnboardingTyped, UNCHANGED onboardingVars
    PROVE  OnboardingTyped'
<1>1. UNCHANGED <<talkVars, goal, calls, agentVars, mount, visible, dialogVars, polls>>
  BY DEF onboardingVars
<1>2. TablesGrow
  BY <1>1, SameTables DEF OnboardingTyped
<1>3. CallsOk' /\ inbox' \in Nat /\ UNCHANGED post
  BY <1>1, <1>2, SameCalls DEF OnboardingTyped, agentVars, TalksOk
<1> QED
  BY <1>1, <1>3, OnlyCalls

(* Every step. *)
LEMMA OnboardingTypedNext ==
    ASSUME OnboardingTyped, [OnboardingNext]_onboardingVars
    PROVE  OnboardingTyped'
<1>1. CASE \E c \in calls : Handles(c) \/ Returns(c)
  <2>1. PICK c \in calls : Handles(c) \/ Returns(c)
    BY <1>1
  <2> QED
    BY <2>1, StartReadsTyped, AnswerReadsTyped, AnswerCommitsTyped, DispatchTyped,
       DispatchFailsTyped, StartCommitsTyped, ConfirmReadsTyped, ConfirmCommitsTyped,
       CallReturnsTyped, CallFailsTyped DEF Handles, Returns
<1>2. CASE AgentSteps
  BY <1>2, AgentSaysTyped, AgentRefusedTyped, AgentReadsTyped, AgentCommitsTyped DEF AgentSteps
<1>3. CASE UserSteps
  <2>1. CASE CloseDialog
    <3>1. Unmounted(calls) /\ UNCHANGED <<talkVars, agentVars, mount>>
      BY <2>1 DEF CloseDialog
    <3> QED
      BY <3>1, UnmountedTyped
  <2> QED
    BY <1>3, <2>1, OpenDialogTyped, SubmitTyped, ConfirmTyped DEF UserSteps
<1>4. CASE Polling
  BY <1>4, PollSentTyped, PollReadsTyped, PollReturnsTyped DEF Polling
<1>5. CASE UNCHANGED onboardingVars
  BY <1>5, OnboardingTypedStutters
<1> QED
  BY <1>1, <1>2, <1>3, <1>4, <1>5 DEF OnboardingNext

(* The types are those TLC checks. *)
LEMMA OnboardingTypes == OnboardingTyped => OnboardingTypeOK
<1> SUFFICES ASSUME OnboardingTyped PROVE OnboardingTypeOK
  OBVIOUS
<1>1. TalksOk /\ CallsOk /\ DialogOk
  BY DEF OnboardingTyped
<1>2. ASSUME NEW i \in DOMAIN talks
      PROVE  /\ talks[i].status \in {"active", "completed", "confirmed"}
             /\ talks[i].draft \in Drafts \cup {Nothing}
             /\ \A n \in DOMAIN talks[i].messages : talks[i].messages[n].content \in Contents
  <2>1. i \in 1..Len(talks)
    BY <1>1 DEF TalksOk
  <2>2. talks[i].messages \in Seq(Sayings(clock))
    BY <1>1, <2>1, RowIs
  <2>3. ASSUME NEW n \in DOMAIN talks[i].messages PROVE talks[i].messages[n].content \in Contents
    <3>1. talks[i].messages[n] \in Sayings(clock)
      BY <2>2
    <3> QED
      BY <3>1 DEF Sayings, Contents
  <2> QED
    BY <1>1, <2>1, <2>3, RowIs
<1> QED
  BY <1>1, <1>2 DEF OnboardingTypeOK, TalksOk, CallsOk, DialogOk, ViewOk

(* Rows, requests and the dialog hold what they may. *)
THEOREM OnboardingIsTyped == OnboardingSpec => []OnboardingTypeOK
<1>1. OnboardingInit => OnboardingTyped
  BY OnboardingTypedInit
<1>2. OnboardingTyped /\ [OnboardingNext]_onboardingVars => OnboardingTyped'
  BY OnboardingTypedNext
<1>3. OnboardingTyped => OnboardingTypeOK
  BY OnboardingTypes
<1> QED
  BY <1>1, <1>2, <1>3, PTL DEF OnboardingSpec

-----------------------------------------------------------------------------
(***************************************************************************)
(* The onboarding: a question that was answered is not asked again.        *)
(***************************************************************************)
(* One request, at two times. *)
SameRequest(b, d) ==
    d.kind = b.kind /\ d.mount = b.mount /\ d.before = b.before /\ d.content = b.content

(* What an answer, or a refusal, makes of a request. *)
LEMMA AnsweredIs ==
    ASSUME NEW c, c \in Calls(clock), NEW v, Answered(c, v)
    PROVE  \A d \in calls' : \/ d \in calls /\ d # c
                             \/ /\ SameRequest(c, d) /\ d.phase = "ok" /\ d.view = v
                                /\ d.talk = 0 /\ d.lead = c.lead
<1> DEFINE e == [c EXCEPT !.phase = "ok", !.view = v, !.talk = 0]
<1>1. SameRequest(c, e) /\ e.phase = "ok" /\ e.view = v /\ e.talk = 0 /\ e.lead = c.lead
  BY DEF Calls, SameRequest
<1>2. \A d \in calls' : (d \in calls /\ d # c) \/ d = e
  BY DEF Answered, Ends, Moves
<1> QED
  BY <1>1, <1>2

(* What a refusal makes of a request. *)
LEMMA RefusedIs ==
    ASSUME NEW c, c \in Calls(clock), Refused(c)
    PROVE  \A d \in calls' : \/ d \in calls /\ d # c
                             \/ /\ SameRequest(c, d) /\ d.phase = "failed" /\ d.view = c.view
                                /\ d.talk = c.talk /\ d.lead = c.lead
<1> DEFINE e == [c EXCEPT !.phase = "failed"]
<1>1. /\ SameRequest(c, e) /\ e.phase = "failed" /\ e.view = c.view
      /\ e.talk = c.talk /\ e.lead = c.lead
  BY DEF Calls, SameRequest
<1>2. \A d \in calls' : (d \in calls /\ d # c) \/ d = e
  BY DEF Refused, Ends, Moves
<1> QED
  BY <1>1, <1>2

(* What its handler makes of one. *)
LEMMA MovedIs ==
    ASSUME NEW c, c \in Calls(clock), NEW d, SameRequest(c, d), Moves(c, d)
    PROVE  \A e \in calls' : (e \in calls /\ e # c) \/ e = d
BY DEF Moves

(* No handler makes a new request. *)
Continue == \A d \in calls' : \E b \in calls : SameRequest(b, d)

(* No handler makes a request of another. *)
LEMMA RequestsGoOn ==
    ASSUME CallsOk, NEW c \in calls, Handles(c) \/ CallFails(c)
    PROVE  Continue
<1>0. c \in Calls(clock)
  BY DEF CallsOk, CallOk
<1>1. \A d \in calls : SameRequest(d, d)
  BY DEF SameRequest
<1>2. ASSUME NEW d, Moves(c, d), SameRequest(c, d) PROVE Continue
  BY <1>1, <1>2 DEF Continue, Moves
<1>3. ASSUME NEW v, Answered(c, v) PROVE Continue
  BY <1>0, <1>1, <1>3, AnsweredIs DEF Continue
<1>4. CASE StartReads(c)
  <2>1. CASE Moves(c, [c EXCEPT !.phase = "prompt"])
    <3>1. PICK d : d = [c EXCEPT !.phase = "prompt"]
      OBVIOUS
    <3> QED
      BY <1>0, <1>2, <2>1, <3>1 DEF Calls, SameRequest
  <2>2. ASSUME NEW i, Moves(c, [c EXCEPT !.phase = "resume", !.talk = i]) PROVE Continue
    <3>1. PICK d : d = [c EXCEPT !.phase = "resume", !.talk = i]
      OBVIOUS
    <3> QED
      BY <1>0, <1>2, <2>2, <3>1 DEF Calls, SameRequest
  <2>3. ASSUME NEW i, Answered(c, View(i)) PROVE Continue
    <3>1. PICK v : v = View(i)
      OBVIOUS
    <3> QED
      BY <1>3, <2>3, <3>1
  <2> QED
    BY <1>4, <2>1, <2>2, <2>3 DEF StartReads
<1>5. CASE AnswerReads(c)
  <2>1. PICK v, d : /\ v = View(latest)
                    /\ d = [c EXCEPT !.phase = "read", !.talk = latest, !.seen = talks[latest].messages]
    OBVIOUS
  <2>2. SameRequest(c, d)
    BY <1>0, <2>1 DEF Calls, SameRequest
  <2>3. Answered(c, v) \/ Moves(c, d)
    BY <1>5, <2>1 DEF AnswerReads
  <2> QED
    BY <1>2, <1>3, <2>2, <2>3
<1>6. CASE AnswerCommits(c)
  <2>1. PICK d : d = [c EXCEPT !.phase = "dispatch", !.seen = <<>>, !.view = View(c.talk)']
    OBVIOUS
  <2>2. SameRequest(c, d)
    BY <1>0, <2>1 DEF Calls, SameRequest
  <2>3. Moves(c, d)
    BY <1>6, <2>1 DEF AnswerCommits
  <2> QED
    BY <1>2, <2>2, <2>3
<1>7. CASE Dispatch(c)
  <2>1. PICK d : d = [c EXCEPT !.phase = IF c.phase = "prompt" THEN "insert" ELSE "touch"]
    OBVIOUS
  <2>2. SameRequest(c, d)
    BY <1>0, <2>1 DEF Calls, SameRequest
  <2>3. Answered(c, c.view) \/ Moves(c, d)
    BY <1>7, <2>1 DEF Dispatch
  <2> QED
    BY <1>2, <1>3, <2>2, <2>3
<1>8. CASE StartCommits(c)
  <2>1. PICK v : v = View(latest)'
    OBVIOUS
  <2> QED
    BY <1>3, <1>8, <2>1 DEF StartCommits
<1>9. CASE ConfirmReads(c)
  <2>1. PICK d : d = [c EXCEPT !.phase = "store", !.talk = latest, !.lead = talks[latest].draft]
    OBVIOUS
  <2>2. SameRequest(c, d)
    BY <1>0, <2>1 DEF Calls, SameRequest
  <2>3. Moves(c, d)
    BY <1>9, <2>1 DEF ConfirmReads
  <2> QED
    BY <1>2, <2>2, <2>3
<1>10. ASSUME Refused(c) PROVE Continue
  BY <1>0, <1>1, <1>10, RefusedIs DEF Continue
<1>11. CASE ConfirmCommits(c)
  BY <1>3, <1>10, <1>11 DEF ConfirmCommits
<1>12. CASE DispatchFails(c)
  BY <1>10, <1>12 DEF DispatchFails
<1>13. CASE CallFails(c)
  BY <1>1, <1>13 DEF CallFails, Continue
<1> QED
  BY <1>4, <1>5, <1>6, <1>7, <1>8, <1>9, <1>11, <1>12, <1>13 DEF Handles

(* A stamp whose message is no news. *)
Grown(s) == s = 0 \/ s < shown.last.stamp
Heard(s) == Grown(s) \/ (s = shown.last.stamp /\ awaits = s)

(* The answer that is under way, if there is one. *)
UnderWay(c) == visible /\ c.mount = mount /\ c.kind = "answer"

(* A message that was answered is shown no more, or waited for; an answer under *)
(* way is for a message newer than those. *)
AskedInv ==
    /\ \A s \in settled : Heard(s)
    /\ \A c \in calls : UnderWay(c) =>
          /\ awaits = 0 /\ ~ submitted /\ c.before <= shown.last.stamp
          /\ \A s \in settled : s = 0 \/ s < c.before

ReaskInv == "overtaken" \notin mishaps => AskedInv

(* A step that leaves the dialog alone. *)
LEMMA AskedStays ==
    ASSUME AskedInv, Continue, UNCHANGED <<dialogVars, visible, mount>>
    PROVE  AskedInv'
<1>1. UNCHANGED <<shown, awaits, submitted, settled, visible, mount>>
  BY DEF dialogVars
<1>2. \A s \in settled' : Heard(s)'
  BY <1>1 DEF AskedInv, Heard, Grown
<1>3. ASSUME NEW d \in calls', UnderWay(d)'
      PROVE  /\ awaits' = 0 /\ ~ submitted' /\ d.before <= shown'.last.stamp
             /\ \A s \in settled' : s = 0 \/ s < d.before
  <2>1. PICK c \in calls : SameRequest(c, d)
    BY DEF Continue
  <2>2. UnderWay(c)
    BY <1>1, <1>3, <2>1 DEF UnderWay, SameRequest
  <2> QED
    BY <1>1, <2>1, <2>2 DEF AskedInv, SameRequest
<1> QED
  BY <1>2, <1>3 DEF AskedInv

(* What comes back is shown: an answer to what was asked, or a start or a poll. *)
LEMMA ShowsKeepsAsked ==
    ASSUME OnboardingTyped, AskedInv, NEW v, ViewOk(v), NEW waits \in Nat, NEW answer \in BOOLEAN,
           Shows(v, waits, answer), "overtaken" \notin mishaps', UNCHANGED <<visible, mount>>,
           \/ /\ waits = awaits /\ answer = submitted /\ UNCHANGED settled
              /\ calls' \subseteq calls
           \/ \E c \in calls : /\ UnderWay(c) /\ waits = c.before /\ calls' = calls \ {c}
                               /\ settled' = settled \cup {c.before}
    PROVE  AskedInv'
<1>0. /\ shown.last.stamp \in Nat /\ v.last.stamp \in Nat /\ settled \subseteq Nat
      /\ \A c \in calls : c.before \in Nat
      /\ \A c, d \in calls : c.mount = d.mount => c = d
  BY DEF OnboardingTyped, DialogOk, CallsOk, CallOk, Calls, ViewOk, Views
<1>1. shown' = v /\ shown.last.stamp <= v.last.stamp
  BY <1>0 DEF Shows, Older
<1>2. /\ awaits' = IF answer /\ Question(v) # Nothing /\ Question(v) = asked /\ v.draft = Nothing
                   THEN v.last.stamp
                   ELSE IF waits # 0 /\ v.last.stamp # waits THEN 0 ELSE waits
      /\ submitted' = (answer /\ ~ (waits # 0 /\ v.last.stamp # waits))
  BY DEF Shows
<1>3. CASE waits = awaits /\ answer = submitted /\ UNCHANGED settled /\ calls' \subseteq calls
  <2>1. ASSUME NEW s \in settled' PROVE Heard(s)'
    BY <1>0, <1>1, <1>2, <1>3 DEF AskedInv, Heard, Grown
  <2>2. ASSUME NEW d \in calls', UnderWay(d)'
        PROVE  /\ awaits' = 0 /\ ~ submitted' /\ d.before <= shown'.last.stamp
               /\ \A s \in settled' : s = 0 \/ s < d.before
    <3>1. d \in calls /\ UnderWay(d)
      BY <1>3, <2>2 DEF UnderWay
    <3>2. /\ awaits = 0 /\ ~ submitted /\ d.before <= shown.last.stamp
          /\ \A s \in settled : s = 0 \/ s < d.before
      BY <3>1 DEF AskedInv
    <3> QED
      BY <1>0, <1>1, <1>2, <1>3, <3>1, <3>2
  <2> QED
    BY <2>1, <2>2 DEF AskedInv
<1>4. ASSUME NEW c \in calls, UnderWay(c), waits = c.before, calls' = calls \ {c},
             settled' = settled \cup {c.before}
      PROVE  AskedInv'
  <2>1. c.before <= shown.last.stamp /\ \A s \in settled : s = 0 \/ s < c.before
    BY <1>4 DEF AskedInv
  <2>2. ASSUME NEW s \in settled' PROVE Heard(s)'
    <3>1. CASE s = c.before
      BY <1>0, <1>1, <1>2, <1>4, <2>1, <3>1 DEF Heard, Grown
    <3>2. CASE s # c.before
      <4>1. s \in Nat /\ (s = 0 \/ s < c.before) /\ c.before \in Nat
        BY <1>0, <1>4, <2>1, <3>2
      <4>2. s = 0 \/ s < v.last.stamp
        BY <1>0, <1>1, <2>1, <4>1
      <4> QED
        BY <1>1, <4>2 DEF Heard, Grown
    <3> QED
      BY <3>1, <3>2
  <2>3. \A d \in calls' : ~ UnderWay(d)'
    BY <1>0, <1>4 DEF UnderWay
  <2> QED
    BY <2>2, <2>3 DEF AskedInv
<1> QED
  BY <1>3, <1>4

(* Every step. *)
LEMMA ReaskNext ==
    ASSUME OnboardingTyped, ReaskInv, [OnboardingNext]_onboardingVars
    PROVE  ReaskInv'
<1> SUFFICES ASSUME "overtaken" \notin mishaps' PROVE AskedInv'
  BY DEF ReaskInv
<1>0. CallsOk /\ DialogOk /\ PollsOk
  BY DEF OnboardingTyped
<1>00. \A d \in calls : SameRequest(d, d)
  BY DEF SameRequest
<1>a. shown.last.stamp \in Nat /\ awaits \in Nat /\ submitted \in BOOLEAN
  BY <1>0 DEF DialogOk, ViewOk, Views
<1>1. ASSUME mishaps \subseteq mishaps' PROVE AskedInv
  BY <1>1 DEF ReaskInv
<1>2. CASE \E c \in calls : Handles(c) \/ CallFails(c)
  <2>1. PICK c \in calls : Handles(c) \/ CallFails(c)
    BY <1>2
  <2>2. Continue
    BY <1>0, <2>1, RequestsGoOn
  <2>3. UNCHANGED <<dialogVars, visible, mount>>
    BY <2>1 DEF Handles, StartReads, AnswerReads, AnswerCommits, Dispatch, DispatchFails,
                StartCommits, ConfirmReads, ConfirmCommits, CallFails
  <2>4. mishaps \subseteq mishaps'
    BY <2>1 DEF Handles, StartReads, AnswerReads, AnswerCommits, Dispatch, DispatchFails,
                StartCommits, ConfirmReads, ConfirmCommits, CallFails
  <2> QED
    BY <1>1, <2>2, <2>3, <2>4, AskedStays
<1>3. CASE AgentSteps
  <2>1. UNCHANGED <<dialogVars, visible, mount, calls>> /\ mishaps \subseteq mishaps'
    BY <1>3 DEF AgentSteps, AgentSays, AgentRefused, AgentReads, AgentCommits
  <2> QED
    BY <1>00, <1>1, <2>1, AskedStays DEF Continue
<1>4. ASSUME NEW remaining, Unmounted(remaining) PROVE AskedInv'
  <2>1. settled' = {} /\ ~ visible'
    BY <1>4 DEF Unmounted
  <2> QED
    BY <2>1 DEF AskedInv, UnderWay
<1>5. CASE OpenDialog
  <2>1. /\ ~ visible /\ mount' = mount + 1 /\ UNCHANGED dialogVars
        /\ calls' = calls \cup {Call(mount', "start", Nothing)}
    BY <1>5 DEF OpenDialog
  <2>2. settled' = {}
    BY <1>0, <2>1 DEF DialogOk, dialogVars
  <2>3. \A d \in calls' : ~ UnderWay(d)'
    <3>1. Call(mount', "start", Nothing).kind = "start"
      BY DEF Call
    <3>2. \A d \in calls : d.mount # mount'
      BY <1>0, <2>1 DEF CallsOk, CallOk
    <3> QED
      BY <2>1, <3>1, <3>2 DEF UnderWay
  <2> QED
    BY <2>2, <2>3 DEF AskedInv
<1>6. CASE \E content \in Replies : Submit(content)
  <2>1. PICK content \in Replies : Submit(content)
    BY <1>6
  <2>2. /\ UNCHANGED <<shown, settled, visible, mount, mishaps>> /\ awaits = 0 /\ awaits' = 0
        /\ ~ submitted' /\ ~ Loading
        /\ calls' = calls \cup {Call(mount, "answer", content)}
    BY <2>1 DEF Submit, Offers, OffersDraft
  <2>3. AskedInv
    BY <1>1, <2>2
  <2>4. ASSUME NEW s \in settled PROVE s = 0 \/ s < shown.last.stamp
    BY <1>a, <2>2, <2>3 DEF AskedInv, Heard, Grown
  <2>5. ASSUME NEW d \in calls', UnderWay(d)'
        PROVE  d.before <= shown.last.stamp /\ \A s \in settled : s = 0 \/ s < d.before
    <3>1. d.mount = mount
      BY <2>2, <2>5 DEF UnderWay
    <3>2. d = Call(mount, "answer", content)
      BY <2>2, <3>1 DEF Loading
    <3>3. d.before = shown.last.stamp
      BY <3>2 DEF Call
    <3> QED
      BY <1>a, <2>4, <3>3
  <2>6. \A s \in settled' : Heard(s)'
    BY <2>2, <2>4 DEF Heard, Grown
  <2> QED
    BY <2>2, <2>5, <2>6 DEF AskedInv
<1>7. CASE Confirm
  <2>1. /\ UNCHANGED <<dialogVars, visible, mount, mishaps>> /\ ~ Loading
        /\ calls' = calls \cup {Call(mount, "confirm", shown.draft)}
    BY <1>7 DEF Confirm
  <2>2. AskedInv
    BY <1>1, <2>1
  <2>3. UNCHANGED <<shown, awaits, submitted, settled>>
    BY <2>1 DEF dialogVars
  <2>4. Call(mount, "confirm", shown.draft).kind = "confirm"
    BY DEF Call
  <2>5. \A s \in settled' : Heard(s)'
    BY <2>2, <2>3 DEF AskedInv, Heard, Grown
  <2>6. \A d \in calls' : UnderWay(d)' => d \in calls /\ UnderWay(d)
    BY <2>1, <2>4 DEF UnderWay
  <2> QED
    BY <2>2, <2>3, <2>5, <2>6 DEF AskedInv
<1>8. CASE \E c \in calls : CallReturns(c)
  <2>1. PICK c \in calls : CallReturns(c)
    BY <1>8
  <2>2. CallOk(c) /\ c.phase = "ok" /\ ViewOk(c.view) /\ c.before \in Nat
    BY <1>0, <2>1 DEF CallReturns, CallsOk, CallOk, Calls
  <2>3. CASE Unmounted(calls \ {c})
    BY <1>4, <2>3
  <2>4. CASE /\ c.kind = "start" /\ calls' = calls \ {c} /\ Shows(c.view, awaits, submitted)
             /\ UNCHANGED <<asked, settled, visible, polls>>
    <3>1. PICK waits, answer : waits = awaits /\ answer = submitted
      OBVIOUS
    <3>2. waits \in Nat /\ answer \in BOOLEAN /\ Shows(c.view, waits, answer) /\ AskedInv
      BY <1>1, <1>a, <2>4, <3>1 DEF Shows
    <3>3. UNCHANGED <<visible, mount>>
      BY <2>1, <2>4 DEF CallReturns
    <3> QED
      BY <2>2, <2>4, <3>1, <3>2, <3>3, ShowsKeepsAsked
  <2>5. CASE /\ c.kind = "answer" /\ calls' = calls \ {c} /\ Shows(c.view, c.before, TRUE)
             /\ settled' = settled \cup {c.before}
             /\ UNCHANGED <<asked, visible, polls>>
    <3>1. AskedInv /\ UNCHANGED <<visible, mount>>
      BY <1>1, <2>1, <2>5 DEF Shows, CallReturns
    <3>2. UnderWay(c)
      BY <2>2, <2>5 DEF CallOk, UnderWay
    <3>3. TRUE \in BOOLEAN /\ \E d \in calls : /\ UnderWay(d) /\ c.before = d.before
                                               /\ calls' = calls \ {d}
                                               /\ settled' = settled \cup {d.before}
      BY <2>5, <3>2
    <3> QED
      BY <2>2, <2>5, <3>1, <3>3, ShowsKeepsAsked
  <2> QED
    BY <2>1, <2>3, <2>4, <2>5 DEF CallReturns
<1>9. CASE Polling
  <2>1. CASE PollSent \/ \E n \in DOMAIN polls : PollReads(n)
    <3>1. UNCHANGED <<dialogVars, visible, mount, calls, mishaps>>
      BY <2>1 DEF PollSent, PollReads
    <3> QED
      BY <1>00, <1>1, <3>1, AskedStays DEF Continue
  <2>2. CASE \E n \in DOMAIN polls : PollReturns(n)
    <3>1. PICK n \in DOMAIN polls : PollReturns(n)
      BY <2>2
    <3>2. UNCHANGED <<visible, mount, calls, settled, asked>>
      BY <3>1 DEF PollReturns
    <3>3. CASE polls[n].view # Unknown
      <4>1. PICK v, waits, answer : v = polls[n].view /\ waits = awaits /\ answer = submitted
        OBVIOUS
      <4>2. Shows(v, waits, answer) /\ ViewOk(v) /\ waits \in Nat /\ answer \in BOOLEAN
        BY <1>0, <1>a, <3>1, <3>3, <4>1 DEF PollReturns, PollsOk
      <4>3. AskedInv
        BY <1>1, <4>2 DEF Shows
      <4> QED
        BY <3>2, <4>1, <4>2, <4>3, ShowsKeepsAsked
    <3>4. CASE polls[n].view = Unknown
      <4>1. UNCHANGED <<dialogVars, mishaps>>
        BY <3>1, <3>2, <3>4 DEF PollReturns, dialogVars
      <4> QED
        BY <1>00, <1>1, <3>2, <4>1, AskedStays DEF Continue
    <3> QED
      BY <3>3, <3>4
  <2> QED
    BY <1>9, <2>1, <2>2 DEF Polling
<1>10. CASE UNCHANGED onboardingVars
  <2>1. UNCHANGED <<dialogVars, visible, mount, calls, mishaps>>
    BY <1>10 DEF onboardingVars
  <2> QED
    BY <1>00, <1>1, <2>1, AskedStays DEF Continue
<1> QED
  BY <1>2, <1>3, <1>4, <1>5, <1>6, <1>7, <1>8, <1>9, <1>10
  DEF OnboardingNext, Returns, UserSteps, CloseDialog

(* A question that was answered is not offered again. *)
THEOREM QuestionsNotAskedAgain == OnboardingSpec => []NoReask
<1>1. OnboardingInit => OnboardingTyped /\ ReaskInv
  BY OnboardingTypedInit DEF OnboardingInit, ReaskInv, AskedInv
<1>2. OnboardingTyped /\ ReaskInv /\ [OnboardingNext]_onboardingVars
        => OnboardingTyped' /\ ReaskInv'
  BY OnboardingTypedNext, ReaskNext
<1>3. OnboardingTyped /\ ReaskInv => NoReask
  <2> SUFFICES ASSUME OnboardingTyped, ReaskInv, Offers, shown.last.stamp \in settled,
                      "overtaken" \notin mishaps
               PROVE  FALSE
    BY DEF NoReask
  <2>1. visible /\ shown.last.content \in Questions /\ awaits = 0 /\ shown.last.stamp \in Nat
    BY DEF Offers, Question, OnboardingTyped, DialogOk, ViewOk, Views
  <2>2. shown.last.stamp # 0
    BY <2>1, OnboardingAssumption DEF OnboardingTyped, DialogOk, ViewOk
  <2> QED
    BY <2>1, <2>2 DEF ReaskInv, AskedInv, Heard, Grown
<1> QED
  BY <1>1, <1>2, <1>3, PTL DEF OnboardingSpec

-----------------------------------------------------------------------------
(***************************************************************************)
(* The onboarding: dialog and agent do not wait for each other.            *)
(***************************************************************************)
(* What went wrong, of some kinds. *)
Mishap(S) == mishaps \cap S # {}
Deaf == {"deaf", "repeat", "early", "refused", "raced", "astray"}

(* A message of the agent that one of the user follows, by its stamp. *)
Follows(ms, s) ==
    \E n, m \in DOMAIN ms : /\ n < m
                            /\ ms[n].role = "assistant" /\ ms[n].stamp = s /\ ms[m].role = "user"
Followed(s) == \E i \in DOMAIN talks : Follows(talks[i].messages, s)

(* No two messages have one stamp. *)
OneStampEach ==
    \A i, j \in DOMAIN talks :
        \A n \in DOMAIN talks[i].messages, m \in DOMAIN talks[j].messages :
            talks[i].messages[n].stamp = talks[j].messages[m].stamp => i = j /\ n = m

(* A draft is one the agent has posted, and a draft it posted last is the row's. *)
Told(v) == v.draft # Nothing => v.last.stamp # 0
RowTold(ms, draft) ==
    /\ ms # <<>>
    /\ draft # Nothing => LastOfAgent(ms).stamp # 0
    /\ LastOfAgent(ms).content \in Drafts => draft # Nothing
RowsTold == \A i \in DOMAIN talks : RowTold(talks[i].messages, talks[i].draft)

(* Of the last message, if it is the user's, the agent has heard or will. *)
Telling == \E c \in calls : c.phase = "dispatch"
Inserting == \E c \in calls : c.phase = "insert"
Owed ==
    /\ latest # 0 /\ IsLast(talks[latest].messages, "user") =>
          \/ inbox > 0 \/ post.phase = "sent" \/ (post.phase = "read" /\ post.talk = latest)
          \/ Telling
    /\ Inserting => inbox > 0 \/ post.phase = "sent"

(* The dialog waits where its answer is the last word. *)
DialogTold ==
    /\ Told(shown) /\ \A n \in DOMAIN polls : Told(polls[n].view)
    /\ awaits # 0 => Followed(awaits)
    /\ submitted => awaits # 0
CallTold(c) ==
    /\ Told(c.view)
    /\ c.kind = "answer" =>
          /\ c.before # 0
          /\ c.phase \in {"dispatch", "ok"} /\ c.view.last.stamp # 0 => Followed(c.view.last.stamp)
CallsTold == \A c \in calls : CallTold(c)

WaitParts == OneStampEach /\ RowsTold /\ Owed /\ DialogTold /\ CallsTold
WaitInv == ~ Mishap(Deaf) => WaitParts

(* What a step may say: nothing, a prompt in a new row, or one more message. *)
SameSayings ==
    /\ DOMAIN talks' = DOMAIN talks /\ UNCHANGED clock
    /\ \A i \in DOMAIN talks : /\ talks'[i].messages = talks[i].messages
                               /\ talks'[i].draft = talks[i].draft
Prompts ==
    /\ clock' = clock + 1
    /\ talks' = Append(talks, [status |-> "active", draft |-> Nothing,
                               messages |-> <<Message("user", "prompt")>>])
Says(i, role, content) ==
    /\ clock' = clock + 1 /\ DOMAIN talks' = DOMAIN talks
    /\ talks'[i].messages = Append(talks[i].messages, Message(role, content))
    /\ talks'[i].draft = IF role = "assistant" /\ content \in Drafts THEN content ELSE talks[i].draft
    /\ \A j \in DOMAIN talks \ {i} : talks'[j] = talks[j]
OneSays ==
    \E i \in DOMAIN talks :
        \/ \E content \in Replies \cup {"prompt"} : Says(i, "user", content)
        \/ \E content \in Questions \cup Drafts : Says(i, "assistant", content)
Spoken == SameSayings \/ Prompts \/ OneSays

(* A message of the user that is appended, and one of the agent, follow the rest. *)
LEMMA FollowsAppended ==
    ASSUME NEW t \in Nat, NEW ms \in Seq(Sayings(t)), NEW m, NEW s, Follows(ms, s)
    PROVE  Follows(Append(ms, m), s)
<1>1. \A n \in DOMAIN ms : n \in DOMAIN Append(ms, m) /\ Append(ms, m)[n] = ms[n]
  OBVIOUS
<1>2. PICK n, k \in DOMAIN ms : n < k /\ ms[n].role = "assistant" /\ ms[n].stamp = s
                                /\ ms[k].role = "user"
  BY DEF Follows
<1> QED
  BY <1>1, <1>2 DEF Follows

(* The last message of the agent is followed by one of the user that is appended. *)
LEMMA LastFollowed ==
    ASSUME NEW t \in Nat, NEW ms \in Seq(Sayings(t)), IsLast(ms, "user"), LastOfAgent(ms).stamp # 0
    PROVE  Follows(ms, LastOfAgent(ms).stamp)
<1>1. Len(ms) \in Nat \ {0} /\ DOMAIN ms = 1..Len(ms) /\ ms[Len(ms)].role = "user"
  BY DEF IsLast
<1>2. PICK last : last = LastOfAgent(ms)
  OBVIOUS
<1>3. last # NoMessage
  BY <1>2 DEF NoMessage
<1>4. PICK n \in DOMAIN ms : ms[n].role = "assistant"
                             /\ last = [content |-> ms[n].content, stamp |-> ms[n].stamp]
  BY <1>2, <1>3, LastIs
<1>5. n < Len(ms) /\ Len(ms) \in DOMAIN ms /\ ms[n].stamp = last.stamp
  <2>1. n # Len(ms)
    BY <1>1, <1>4
  <2> QED
    BY <1>1, <1>4, <2>1
<1> QED
  BY <1>1, <1>2, <1>4, <1>5 DEF Follows

(* Only the last message of the agent can be followed by the last message. *)
LEMMA FollowedLast ==
    ASSUME NEW t \in Nat, NEW ms \in Seq(Sayings(t)), LastOfAgent(ms).stamp # 0,
           \A n, m \in DOMAIN ms : ms[n].stamp = ms[m].stamp => n = m,
           Follows(ms, LastOfAgent(ms).stamp)
    PROVE  IsLast(ms, "user")
<1>1. Len(ms) \in Nat /\ DOMAIN ms = 1..Len(ms)
  OBVIOUS
<1>2. PICK last : last = LastOfAgent(ms)
  OBVIOUS
<1>3. last # NoMessage
  BY <1>2 DEF NoMessage
<1>4. PICK n \in DOMAIN ms :
         /\ last = [content |-> ms[n].content, stamp |-> ms[n].stamp]
         /\ \A k \in DOMAIN ms : n < k => ms[k].role = "user"
  BY <1>2, <1>3, LastIs
<1>5. PICK k, m \in DOMAIN ms : k < m /\ ms[k].stamp = last.stamp
  BY <1>2 DEF Follows
<1>6. k = n
  BY <1>4, <1>5
<1>7. n < Len(ms) /\ Len(ms) \in DOMAIN ms
  BY <1>1, <1>4, <1>5, <1>6
<1>8. ms # <<>> /\ ms[Len(ms)].role = "user"
  BY <1>1, <1>4, <1>7
<1> QED
  BY <1>8 DEF IsLast

(* A row that is one message longer. *)
LEMMA RowTold1 ==
    ASSUME NEW t \in Nat, NEW ms \in Seq(Sayings(t)), NEW m \in Sayings(t + 1), NEW draft,
           m.stamp = t + 1, RowTold(ms, draft) \/ (ms = <<>> /\ draft = Nothing)
    PROVE  RowTold(Append(ms, m),
                   IF m.role = "assistant" /\ m.content \in Drafts THEN m.content ELSE draft)
<1>0. t + 1 \in Nat /\ t <= t + 1
  OBVIOUS
<1>1. ms \in Seq(Sayings(t + 1))
  BY <1>0, SayingsLater
<1>2. m.role \in {"assistant", "user"} /\ (m.role = "assistant" => m.content \in Questions \cup Drafts)
  BY DEF Sayings
<1>3. LastOfAgent(Append(ms, m)) =
         IF m.role = "user" THEN LastOfAgent(ms) ELSE [content |-> m.content, stamp |-> m.stamp]
  BY <1>0, <1>1, LastAfter
<1>4. Append(ms, m) # <<>>
  OBVIOUS
<1>5. CASE m.role = "user"
  <2>1. LastOfAgent(<<>>) = NoMessage
    BY DEF LastOfAgent
  <2>2. NoMessage.content \notin Drafts
    BY OnboardingAssumption DEF NoMessage
  <2> QED
    BY <1>3, <1>4, <1>5, <2>1, <2>2 DEF RowTold
<1>6. CASE m.role = "assistant"
  <2>1. LastOfAgent(Append(ms, m)).stamp = t + 1 /\ LastOfAgent(Append(ms, m)).content = m.content
    BY <1>3, <1>6
  <2>2. t + 1 # 0
    OBVIOUS
  <2>3. m.content \in Drafts => m.content # Nothing
    BY OnboardingAssumption
  <2> QED
    BY <1>4, <1>6, <2>1, <2>2, <2>3 DEF RowTold
<1> QED
  BY <1>2, <1>5, <1>6

(* What is said last is the newest. *)
LEMMA SpokenStamped ==
    ASSUME TalksOk, TalksOk', OneStampEach, Spoken
    PROVE  OneStampEach'
<1>0. clock \in Nat /\ Len(talks) \in Nat /\ DOMAIN talks = 1..Len(talks)
  BY DEF TalksOk
<1>1. ASSUME NEW i \in DOMAIN talks
      PROVE  /\ talks[i].messages \in Seq(Sayings(clock))
             /\ \A n \in DOMAIN talks[i].messages : talks[i].messages[n].stamp \in 1..clock
  <2>1. talks[i].messages \in Seq(Sayings(clock))
    BY <1>0, RowIs
  <2>2. \A n \in DOMAIN talks[i].messages : talks[i].messages[n] \in Sayings(clock)
    BY <2>1
  <2> QED
    BY <2>1, <2>2 DEF Sayings
<1>2. CASE SameSayings
  <2> SUFFICES ASSUME NEW i \in DOMAIN talks', NEW j \in DOMAIN talks',
                      NEW n \in DOMAIN talks'[i].messages, NEW m \in DOMAIN talks'[j].messages,
                      talks'[i].messages[n].stamp = talks'[j].messages[m].stamp
               PROVE  i = j /\ n = m
    BY DEF OneStampEach
  <2> QED
    BY <1>2 DEF OneStampEach, SameSayings
(* A message of the new stamp is added to row i at place p; all others were there. *)
<1> DEFINE Added(i, p) ==
             \A j \in DOMAIN talks' : \A n \in DOMAIN talks'[j].messages :
                 \/ j = i /\ n = p /\ talks'[j].messages[n].stamp = clock + 1
                 \/ /\ j \in DOMAIN talks /\ n \in DOMAIN talks[j].messages
                    /\ talks'[j].messages[n].stamp = talks[j].messages[n].stamp
<1>3. ASSUME NEW i, NEW p, Added(i, p) PROVE OneStampEach'
  <2> SUFFICES ASSUME NEW j \in DOMAIN talks', NEW k \in DOMAIN talks',
                      NEW n \in DOMAIN talks'[j].messages, NEW m \in DOMAIN talks'[k].messages,
                      talks'[j].messages[n].stamp = talks'[k].messages[m].stamp
               PROVE  j = k /\ n = m
    BY DEF OneStampEach
  <2>1. PICK s : s = talks'[j].messages[n].stamp
    OBVIOUS
  <2>2. \/ j = i /\ n = p /\ s = clock + 1
        \/ j \in DOMAIN talks /\ n \in DOMAIN talks[j].messages /\ s = talks[j].messages[n].stamp
    BY <1>3, <2>1
  <2>3. \/ k = i /\ m = p /\ s = clock + 1
        \/ k \in DOMAIN talks /\ m \in DOMAIN talks[k].messages /\ s = talks[k].messages[m].stamp
    BY <1>3, <2>1
  <2>4. \A a \in DOMAIN talks : \A b \in DOMAIN talks[a].messages :
           talks[a].messages[b].stamp # clock + 1
    BY <1>0, <1>1
  <2> QED
    BY <2>2, <2>3, <2>4 DEF OneStampEach
<1>4. CASE Prompts
  <2>1. PICK row : row = [status |-> "active", draft |-> Nothing,
                          messages |-> <<Message("user", "prompt")>>]
    OBVIOUS
  <2>2. /\ row.messages = <<Message("user", "prompt")>> /\ DOMAIN row.messages = {1}
        /\ row.messages[1].stamp = clock + 1
    BY <2>1 DEF Message
  <2>3. talks' = Append(talks, row) /\ talks \in Seq(Talks(clock))
    BY <1>4, <2>1 DEF Prompts, TalksOk
  <2>4. \A j \in DOMAIN talks' : IF j = Len(talks) + 1 THEN talks'[j] = row
                                 ELSE j \in DOMAIN talks /\ talks'[j] = talks[j]
    BY <2>3
  <2>5. ASSUME NEW j \in DOMAIN talks', NEW n \in DOMAIN talks'[j].messages
        PROVE  \/ j = Len(talks) + 1 /\ n = 1 /\ talks'[j].messages[n].stamp = clock + 1
               \/ /\ j \in DOMAIN talks /\ n \in DOMAIN talks[j].messages
                  /\ talks'[j].messages[n].stamp = talks[j].messages[n].stamp
    <3>1. CASE j = Len(talks) + 1
      BY <2>2, <2>4, <2>5, <3>1
    <3>2. CASE j # Len(talks) + 1
      BY <2>4, <2>5, <3>2
    <3> QED
      BY <3>1, <3>2
  <2>6. Added(Len(talks) + 1, 1)
    BY <2>5
  <2> HIDE DEF Added
  <2> QED
    BY <1>3, <2>6
<1>5. ASSUME NEW i \in DOMAIN talks, NEW role, NEW content, Says(i, role, content) PROVE OneStampEach'
  <2>1. PICK m, ms : m = Message(role, content) /\ ms = talks[i].messages
    OBVIOUS
  <2>2. talks'[i].messages = Append(ms, m) /\ m.stamp = clock + 1 /\ ms \in Seq(Sayings(clock))
    BY <1>1, <1>5, <2>1 DEF Says, Message
  <2>3. \A n \in DOMAIN Append(ms, m) :
           IF n = Len(ms) + 1 THEN Append(ms, m)[n] = m
           ELSE n \in DOMAIN ms /\ Append(ms, m)[n] = ms[n]
    BY <2>2
  <2>4. ASSUME NEW j \in DOMAIN talks', NEW n \in DOMAIN talks'[j].messages
        PROVE  \/ j = i /\ n = Len(ms) + 1 /\ talks'[j].messages[n].stamp = clock + 1
               \/ /\ j \in DOMAIN talks /\ n \in DOMAIN talks[j].messages
                  /\ talks'[j].messages[n].stamp = talks[j].messages[n].stamp
    <3>0. j \in DOMAIN talks
      BY <1>5 DEF Says
    <3>1. CASE j = i
      BY <2>1, <2>2, <2>3, <3>0, <3>1
    <3>2. CASE j # i
      BY <1>5, <3>0, <3>2 DEF Says
    <3> QED
      BY <3>1, <3>2
  <2>6. Added(i, Len(ms) + 1)
    BY <2>4
  <2> HIDE DEF Added
  <2> QED
    BY <1>3, <2>6
<1> QED
  BY <1>2, <1>4, <1>5 DEF Spoken, OneSays

(* The row that is told one more. *)
LEMMA SaysIs ==
    ASSUME TalksOk, TalksOk', NEW i \in DOMAIN talks, NEW role, NEW content, Says(i, role, content),
           \/ role = "user" /\ content \in Replies \cup {"prompt"}
           \/ role = "assistant" /\ content \in Questions \cup Drafts
    PROVE  /\ Message(role, content) \in Sayings(clock + 1)
           /\ Message(role, content).stamp = clock + 1
           /\ Message(role, content).role = role /\ Message(role, content).content = content
           /\ talks[i].messages \in Seq(Sayings(clock)) /\ talks[i].messages \in Seq(Sayings(clock + 1))
           /\ clock \in Nat
<1>0. clock \in Nat /\ clock + 1 \in Nat /\ clock <= clock + 1 /\ i \in 1..Len(talks)
  BY DEF TalksOk
<1>1. talks[i].messages \in Seq(Sayings(clock))
  BY <1>0, RowIs
<1>2. talks[i].messages \in Seq(Sayings(clock + 1))
  BY <1>0, <1>1, SayingsLater
<1> QED
  BY <1>0, <1>1, <1>2 DEF Message, Sayings

(* What is said leaves every row told, unless a message was lost or repeated. *)
LEMMA SpokenTold ==
    ASSUME TalksOk, TalksOk', RowsTold, Spoken
    PROVE  RowsTold'
<1> SUFFICES ASSUME NEW j \in DOMAIN talks'
             PROVE  RowTold(talks'[j].messages, talks'[j].draft)
  BY DEF RowsTold
<1>1. CASE SameSayings
  <2>1. j \in DOMAIN talks
    BY <1>1 DEF SameSayings
  <2>2. PICK ms, d : ms = talks[j].messages /\ d = talks[j].draft
    OBVIOUS
  <2>3. RowTold(ms, d) /\ talks'[j].messages = ms /\ talks'[j].draft = d
    BY <1>1, <2>1, <2>2 DEF SameSayings, RowsTold
  <2> QED
    BY <2>3
<1>2. CASE Prompts
  <2>1. PICK m, row : /\ m = Message("user", "prompt")
                      /\ row = [status |-> "active", draft |-> Nothing, messages |-> <<m>>]
    OBVIOUS
  <2>2. talks' = Append(talks, row) /\ talks \in Seq(Talks(clock)) /\ clock \in Nat
    BY <1>2, <2>1 DEF Prompts, TalksOk
  <2>3. IF j = Len(talks) + 1 THEN talks'[j] = row ELSE j \in DOMAIN talks /\ talks'[j] = talks[j]
    BY <2>2
  <2>4. CASE j = Len(talks) + 1
    <3>1. <<>> \in Seq(Sayings(clock)) /\ m \in Sayings(clock + 1) /\ m.stamp = clock + 1
          /\ m.role = "user"
      BY <2>1, <2>2 DEF Message, Sayings
    <3>2. PICK e : e = <<>>
      OBVIOUS
    <3>3. RowTold(Append(e, m),
                  IF m.role = "assistant" /\ m.content \in Drafts THEN m.content ELSE Nothing)
      BY <2>2, <3>1, <3>2, RowTold1
    <3>4. Append(e, m) = <<m>> /\ ~ m.role = "assistant"
      BY <3>1, <3>2
    <3>5. RowTold(<<m>>, Nothing)
      BY <3>3, <3>4
    <3>6. talks'[j].messages = <<m>> /\ talks'[j].draft = Nothing
      BY <2>1, <2>3, <2>4
    <3> QED
      BY <3>5, <3>6
  <2>5. CASE j # Len(talks) + 1
    <3>1. PICK ms, d : ms = talks[j].messages /\ d = talks[j].draft
      OBVIOUS
    <3>2. RowTold(ms, d) /\ talks'[j].messages = ms /\ talks'[j].draft = d
      BY <2>3, <2>5, <3>1 DEF RowsTold
    <3> QED
      BY <3>2
  <2> QED
    BY <2>4, <2>5
<1>3. ASSUME NEW i \in DOMAIN talks, NEW role, NEW content, Says(i, role, content),
             \/ role = "user" /\ content \in Replies \cup {"prompt"}
             \/ role = "assistant" /\ content \in Questions \cup Drafts
      PROVE  RowTold(talks'[j].messages, talks'[j].draft)
  <2>0. j \in DOMAIN talks
    BY <1>3 DEF Says
  <2>1. PICK ms, d, m : ms = talks[j].messages /\ d = talks[j].draft /\ m = Message(role, content)
    OBVIOUS
  <2>2. RowTold(ms, d)
    BY <2>0, <2>1 DEF RowsTold
  <2>3. CASE j = i
    <3>1. /\ m \in Sayings(clock + 1) /\ m.stamp = clock + 1 /\ ms \in Seq(Sayings(clock))
          /\ clock \in Nat /\ m.role = role /\ m.content = content
      BY <1>3, <2>1, <2>3, SaysIs
    <3>2. RowTold(Append(ms, m), IF m.role = "assistant" /\ m.content \in Drafts THEN m.content ELSE d)
      BY <2>2, <3>1, RowTold1
    <3>3. talks'[j].messages = Append(ms, m)
          /\ talks'[j].draft = IF m.role = "assistant" /\ m.content \in Drafts THEN m.content ELSE d
      BY <1>3, <2>1, <2>3, <3>1 DEF Says
    <3> QED
      BY <3>2, <3>3
  <2>4. CASE j # i
    <3>1. talks'[j].messages = ms /\ talks'[j].draft = d
      BY <1>3, <2>0, <2>1, <2>4 DEF Says
    <3> QED
      BY <2>2, <3>1
  <2> QED
    BY <2>3, <2>4
<1> QED
  BY <1>1, <1>2, <1>3 DEF Spoken, OneSays

(* What was followed by a message of the user still is. *)
LEMMA SpokenFollows ==
    ASSUME TalksOk, TalksOk', Spoken, NEW s, Followed(s)
    PROVE  Followed(s)'
<1>0. DOMAIN talks = 1..Len(talks) /\ clock \in Nat
  BY DEF TalksOk
<1>1. PICK i \in DOMAIN talks : Follows(talks[i].messages, s)
  BY DEF Followed
<1>2. PICK ms : ms = talks[i].messages
  OBVIOUS
<1>3. Follows(ms, s) /\ ms \in Seq(Sayings(clock))
  BY <1>0, <1>1, <1>2, RowIs
<1>4. \E m : i \in DOMAIN talks' /\ (talks'[i].messages = ms \/ talks'[i].messages = Append(ms, m))
  <2>1. CASE SameSayings
    BY <1>2, <2>1 DEF SameSayings
  <2>2. CASE Prompts
    <3>1. PICK row : talks' = Append(talks, row)
      BY <2>2 DEF Prompts
    <3>2. talks \in Seq(Talks(clock))
      BY DEF TalksOk
    <3>3. i \in DOMAIN talks' /\ talks'[i] = talks[i]
      BY <3>1, <3>2
    <3> QED
      BY <1>2, <3>3
  <2>3. ASSUME NEW j \in DOMAIN talks, NEW role, NEW content, Says(j, role, content)
        PROVE \E m : i \in DOMAIN talks' /\ (talks'[i].messages = ms \/ talks'[i].messages = Append(ms, m))
    BY <1>2, <2>3 DEF Says
  <2> QED
    BY <2>1, <2>2, <2>3 DEF Spoken, OneSays
<1>5. PICK m : i \in DOMAIN talks' /\ (talks'[i].messages = ms \/ talks'[i].messages = Append(ms, m))
  BY <1>4
<1>6. PICK new : new = talks'[i].messages
  OBVIOUS
<1>7. Follows(new, s)
  BY <1>0, <1>3, <1>5, <1>6, FollowsAppended
<1> QED
  BY <1>5, <1>6, <1>7 DEF Followed

(* What the steps say. *)
LEMMA SilentIs == UNCHANGED <<talks, clock>> => SameSayings
BY DEF SameSayings

(* An answer is one more message of the user. *)
LEMMA AnswerSays ==
    ASSUME OnboardingTyped, NEW c \in calls, AnswerCommits(c), "raced" \notin mishaps'
    PROVE  /\ Says(c.talk, "user", c.content) /\ c.talk \in DOMAIN talks /\ c.content \in Replies
           /\ talks[c.talk].messages = c.seen
<1>1. CallOk(c) /\ c.phase = "read" /\ c.kind = "answer" /\ Len(talks) \in Nat
      /\ DOMAIN talks = 1..Len(talks) /\ TalksOk
  BY DEF OnboardingTyped, CallsOk, AnswerCommits, TalksOk
<1>2. c.talk \in 1..Len(talks) /\ c.content \in Replies
  BY <1>1 DEF CallOk
<1>3. talks[c.talk].messages = c.seen
  BY DEF AnswerCommits, Lost
<1>4. PICK m : m = Message("user", c.content)
  OBVIOUS
<1>5. talks' = [talks EXCEPT ![c.talk].messages = Append(c.seen, m)]
  BY <1>4 DEF AnswerCommits
<1>6. talks[c.talk] = [status |-> talks[c.talk].status, draft |-> talks[c.talk].draft,
                       messages |-> talks[c.talk].messages]
  BY <1>1, <1>2, RowIs
<1>7. talks'[c.talk] = [talks[c.talk] EXCEPT !.messages = Append(c.seen, m)]
  BY <1>1, <1>2, <1>5
<1>8. talks'[c.talk].messages = Append(c.seen, m) /\ talks'[c.talk].draft = talks[c.talk].draft
  BY <1>6, <1>7
<1>9. /\ DOMAIN talks' = DOMAIN talks /\ \A j \in DOMAIN talks \ {c.talk} : talks'[j] = talks[j]
      /\ clock' = clock + 1
  BY <1>5 DEF AnswerCommits
<1> QED
  BY <1>1, <1>2, <1>3, <1>4, <1>8, <1>9 DEF Says

(* A post is one more message of the agent, and a draft with it. *)
LEMMA AgentCommitsSays ==
    ASSUME OnboardingTyped, AgentCommits, "raced" \notin mishaps'
    PROVE  /\ Says(post.talk, "assistant", post.content) /\ post.talk \in DOMAIN talks
           /\ post.content \in Questions \cup Drafts
<1>1. PostOk /\ post.phase = "read" /\ Len(talks) \in Nat
      /\ DOMAIN talks = 1..Len(talks) /\ TalksOk
  BY DEF OnboardingTyped, AgentCommits, TalksOk
<1>2. PICK i, content : /\ i = post.talk /\ content = post.content /\ i \in 1..Len(talks)
                        /\ content \in Questions \cup Drafts
  BY <1>1 DEF PostOk
<1>3. talks[i].messages = post.seen
  BY <1>2 DEF AgentCommits, Lost
<1>4. PICK ms, m : ms = talks[i].messages /\ m = Message("assistant", content)
  OBVIOUS
<1>5. talks' = [talks EXCEPT ![i] =
                  IF content \in Drafts
                  THEN [status |-> IF post.status = "completed" THEN @.status ELSE "completed",
                        messages |-> Append(ms, m), draft |-> content]
                  ELSE [@ EXCEPT !.messages = Append(ms, m)]]
  BY <1>2, <1>3, <1>4 DEF AgentCommits
<1>6. talks[i] = [status |-> talks[i].status, draft |-> talks[i].draft, messages |-> ms]
  BY <1>1, <1>2, <1>4, RowIs
<1>7. talks'[i].messages = Append(ms, m)
      /\ talks'[i].draft = IF content \in Drafts THEN content ELSE talks[i].draft
  <2>1. CASE content \in Drafts
    <3>1. talks'[i] = [status |-> IF post.status = "completed" THEN talks[i].status ELSE "completed",
                        messages |-> Append(ms, m), draft |-> content]
      BY <1>1, <1>2, <1>5, <2>1
    <3> QED
      BY <2>1, <3>1
  <2>2. CASE content \notin Drafts
    <3>1. talks'[i] = [talks[i] EXCEPT !.messages = Append(ms, m)]
      BY <1>1, <1>2, <1>5, <2>2
    <3> QED
      BY <1>6, <2>2, <3>1
  <2> QED
    BY <2>1, <2>2
<1>8. /\ DOMAIN talks' = DOMAIN talks /\ \A j \in DOMAIN talks \ {i} : talks'[j] = talks[j]
      /\ clock' = clock + 1
  <2>1. DOMAIN talks' = DOMAIN talks /\ \A j \in DOMAIN talks \ {i} : talks'[j] = talks[j]
    BY <1>5
  <2> QED
    BY <2>1 DEF AgentCommits
<1> QED
  BY <1>1, <1>2, <1>4, <1>7, <1>8 DEF Says

(* A confirmation says nothing. *)
LEMMA ConfirmCommitsSays ==
    ASSUME OnboardingTyped, NEW c \in calls, ConfirmCommits(c)
    PROVE  SameSayings
<1>1. TalksOk /\ CallOk(c) /\ c.phase = "store" /\ DOMAIN talks = 1..Len(talks)
  BY DEF OnboardingTyped, CallsOk, ConfirmCommits, TalksOk
<1>2. talks' = [talks EXCEPT ![c.talk].status = "confirmed"] /\ UNCHANGED clock
  BY DEF ConfirmCommits
<1>3. ASSUME NEW i \in DOMAIN talks
      PROVE  talks'[i].messages = talks[i].messages /\ talks'[i].draft = talks[i].draft
  <2>1. talks[i] = [status |-> talks[i].status, draft |-> talks[i].draft,
                    messages |-> talks[i].messages]
    BY <1>1, RowIs
  <2>2. talks'[i] = talks[i] \/ talks'[i] = [talks[i] EXCEPT !.status = "confirmed"]
    BY <1>2
  <2> QED
    BY <2>1, <2>2
<1>4. DOMAIN talks' = DOMAIN talks
  BY <1>2
<1> QED
  BY <1>2, <1>3, <1>4 DEF SameSayings

(* Every step says nothing, a prompt, or one more message. *)
LEMMA StepSpoken ==
    ASSUME OnboardingTyped, [OnboardingNext]_onboardingVars, mishaps' \cap {"raced", "repeat"} = {}
    PROVE  Spoken
<1>1. CASE UNCHANGED talkVars
  BY <1>1, SilentIs DEF Spoken, talkVars
<1>2. CASE \E c \in calls : Handles(c)
  <2>1. PICK c \in calls : Handles(c)
    BY <1>2
  <2>2. CASE AnswerCommits(c)
    BY <2>2, AnswerSays DEF Spoken, OneSays
  <2>3. CASE StartCommits(c)
    BY <2>3, SilentIs DEF StartCommits, Spoken, Prompts
  <2>4. CASE ConfirmCommits(c)
    BY <2>4, ConfirmCommitsSays DEF Spoken
  <2> QED
    BY <1>1, <2>1, <2>2, <2>3, <2>4
    DEF Handles, StartReads, AnswerReads, Dispatch, DispatchFails, ConfirmReads
<1>3. CASE AgentSteps
  <2>1. CASE AgentCommits
    BY <2>1, AgentCommitsSays DEF Spoken, OneSays
  <2>2. CASE AgentReads
    <3>1. UNCHANGED <<talks, clock>>
      BY <2>2 DEF AgentReads
    <3> QED
      BY <3>1, SilentIs DEF Spoken
  <2> QED
    BY <1>1, <1>3, <2>1, <2>2 DEF AgentSteps, AgentSays, AgentRefused
<1> QED
  BY <1>1, <1>2, <1>3 DEF OnboardingNext, Returns, CallReturns, CallFails, UserSteps, OpenDialog,
     CloseDialog, Submit, Confirm, Polling, PollSent, PollReads, PollReturns, onboardingVars

(* Nothing that went wrong is forgotten. *)
LEMMA MishapsGrow ==
    ASSUME [OnboardingNext]_onboardingVars
    PROVE  mishaps \subseteq mishaps'
<1>1. CASE UNCHANGED onboardingVars
  BY <1>1 DEF onboardingVars
<1>2. ASSUME NEW c \in calls, Handles(c) PROVE mishaps \subseteq mishaps'
  BY <1>2 DEF Handles, StartReads, AnswerReads, AnswerCommits, Dispatch, DispatchFails, StartCommits,
     ConfirmReads, ConfirmCommits
<1>3. ASSUME NEW c \in calls, Returns(c) PROVE mishaps \subseteq mishaps'
  BY <1>3 DEF Returns, CallReturns, CallFails, Unmounted, Shows
<1>4. CASE AgentSteps
  BY <1>4 DEF AgentSteps, AgentSays, AgentRefused, AgentReads, AgentCommits
<1>5. CASE UserSteps
  BY <1>5 DEF UserSteps, OpenDialog, CloseDialog, Unmounted, Submit, Confirm
<1>6. CASE Polling
  BY <1>6 DEF Polling, PollSent, PollReads, PollReturns, Shows
<1> QED
  BY <1>1, <1>2, <1>3, <1>4, <1>5, <1>6 DEF OnboardingNext

(* A view of a row the agent told of its draft. *)
LEMMA ViewTold ==
    ASSUME RowsTold, NEW i \in DOMAIN talks
    PROVE  Told(View(i))
BY DEF RowsTold, RowTold, Told, View

(* The view of a row of the next state is told. *)
LEMMA ViewToldNext ==
    ASSUME RowsTold', NEW i \in DOMAIN talks', NEW v,
           v = [row |-> i, last |-> LastOfAgent(talks'[i].messages), draft |-> talks'[i].draft]
    PROVE  Told(v)
BY DEF RowsTold, RowTold, Told

(* Without a row there is no draft. *)
LEMMA UnknownTold == Told(Unknown)
BY DEF Told, Unknown

(* A step in which requests go on with what was told them. *)
LEMMA CallsToldStay ==
    ASSUME CallsTold, \A s : Followed(s) => Followed(s)',
           \A d \in calls' : d \in calls \/ CallTold(d)'
    PROVE  CallsTold'
<1> SUFFICES ASSUME NEW d \in calls' PROVE CallTold(d)'
  BY DEF CallsTold
<1>1. CASE d \in calls
  BY <1>1 DEF CallsTold, CallTold
<1> QED
  BY <1>1

(* What becomes of a request that is answered. *)
LEMMA AnsweredTold ==
    ASSUME CallsTold, \A s : Followed(s) => Followed(s)',
           NEW c \in calls, c \in Calls(clock), NEW v, Told(v), Answered(c, v),
           c.kind = "answer" /\ v.last.stamp # 0 => Followed(v.last.stamp)'
    PROVE  CallsTold'
<1>1. CallTold(c)
  BY DEF CallsTold
<1>2. ASSUME NEW d \in calls', d \notin calls PROVE CallTold(d)'
  <2>1. SameRequest(c, d) /\ d.phase = "ok" /\ d.view = v
    BY <1>2, AnsweredIs
  <2> QED
    BY <1>1, <2>1 DEF CallTold, SameRequest
<1> QED
  BY <1>2, CallsToldStay

(* A request that is refused is told. *)
LEMMA RefusedTold ==
    ASSUME CallsTold, \A s : Followed(s) => Followed(s)',
           NEW c \in calls, c \in Calls(clock), Refused(c)
    PROVE  CallsTold'
<1>1. CallTold(c)
  BY DEF CallsTold
<1>2. ASSUME NEW d \in calls', d \notin calls PROVE CallTold(d)'
  <2>1. SameRequest(c, d) /\ d.phase = "failed" /\ d.view = c.view
    BY <1>2, RefusedIs
  <2> QED
    BY <1>1, <2>1 DEF CallTold, SameRequest
<1> QED
  BY <1>2, CallsToldStay

(* And of one that goes on. *)
LEMMA MovedTold ==
    ASSUME CallsTold, \A s : Followed(s) => Followed(s)',
           NEW c \in calls, NEW d, Moves(c, d), SameRequest(c, d),
           \/ d.view = c.view /\ d.phase \notin {"dispatch", "ok"}
           \/ Told(d.view) /\ (d.view.last.stamp # 0 => Followed(d.view.last.stamp)')
    PROVE  CallsTold'
<1>1. CallTold(c)
  BY DEF CallsTold
<1>2. CallTold(d)'
  BY <1>1 DEF CallTold, SameRequest
<1> QED
  BY <1>2, CallsToldStay DEF Moves

(* The phase tells the kind of a request. *)
LEMMA PhaseKind ==
    ASSUME NEW c, CallOk(c)
    PROVE  /\ c.phase \in {"prompt", "insert", "resume", "touch"} => c.kind = "start"
           /\ c.phase \in {"read", "dispatch"} => c.kind = "answer"
           /\ c.phase = "store" => c.kind = "confirm"
<1>1. c.kind \in {"start", "answer", "confirm"} /\ c.phase \in Phases[c.kind]
  BY DEF CallOk, Calls
<1>2. CASE c.kind = "start"
  BY <1>1, <1>2 DEF Phases
<1>3. CASE c.kind = "answer"
  BY <1>1, <1>3 DEF Phases
<1>4. CASE c.kind = "confirm"
  BY <1>1, <1>4 DEF Phases
<1> QED
  BY <1>1, <1>2, <1>3, <1>4

(* The handlers tell their requests what the rows say. *)
LEMMA HandlesTold ==
    ASSUME OnboardingTyped, OnboardingTyped', RowsTold, RowsTold', CallsTold,
           \A s : Followed(s) => Followed(s)', NEW c \in calls, Handles(c),
           "raced" \notin mishaps'
    PROVE  CallsTold'
<1>0. /\ CallOk(c) /\ c \in Calls(clock) /\ TalksOk /\ TalksOk' /\ CallTold(c)
      /\ Len(talks) \in Nat /\ DOMAIN talks = 1..Len(talks) /\ clock' \in Nat
      /\ DOMAIN talks' = 1..Len(talks') /\ Len(talks') \in Nat
  BY DEF OnboardingTyped, CallsOk, CallOk, TalksOk, CallsTold
<1>4. CASE StartReads(c)
  <2>1. CASE Moves(c, [c EXCEPT !.phase = "prompt"])
    <3>1. PICK d : d = [c EXCEPT !.phase = "prompt"]
      OBVIOUS
    <3>2. SameRequest(c, d) /\ d.phase = "prompt" /\ d.view = c.view
      BY <1>0, <3>1 DEF Calls, SameRequest
    <3> QED
      BY <2>1, <3>1, <3>2, MovedTold
  <2>2. ASSUME NEW i, Moves(c, [c EXCEPT !.phase = "resume", !.talk = i]) PROVE CallsTold'
    <3>1. PICK d : d = [c EXCEPT !.phase = "resume", !.talk = i]
      OBVIOUS
    <3>2. SameRequest(c, d) /\ d.phase = "resume" /\ d.view = c.view
      BY <1>0, <3>1 DEF Calls, SameRequest
    <3> QED
      BY <2>2, <3>1, <3>2, MovedTold
  <2>3. ASSUME NEW i \in DOMAIN talks, Answered(c, View(i)) PROVE CallsTold'
    <3>1. PICK v : v = View(i)
      OBVIOUS
    <3>2. Told(v) /\ c.kind = "start"
      BY <1>4, <2>3, <3>1, ViewTold DEF StartReads
    <3> QED
      BY <1>0, <2>3, <3>1, <3>2, AnsweredTold
  <2> QED
    BY <1>4, <2>1, <2>2, <2>3 DEF StartReads, Active
<1>5. CASE AnswerReads(c)
  <2>1. PICK v, d : /\ v = View(latest)
                    /\ d = [c EXCEPT !.phase = "read", !.talk = latest, !.seen = talks[latest].messages]
    OBVIOUS
  <2>2. SameRequest(c, d) /\ d.phase = "read" /\ d.view = c.view
    BY <1>0, <2>1 DEF Calls, SameRequest
  <2>3. \/ Answered(c, v) /\ IsLast(talks[latest].messages, "user")
        \/ Moves(c, d)
    BY <1>5, <2>1 DEF AnswerReads
  <2>4. PICK i : i = latest /\ i \in DOMAIN talks
    BY <1>0, <1>5 DEF AnswerReads, CallOk, TalksOk
  <2>5. CASE Answered(c, v) /\ IsLast(talks[latest].messages, "user")
    <3>1. PICK ms : ms = talks[i].messages
      OBVIOUS
    <3>2. ms \in Seq(Sayings(clock)) /\ clock \in Nat
      BY <1>0, <2>4, <3>1, RowIs DEF TalksOk
    <3>3. v.last = LastOfAgent(ms) /\ IsLast(ms, "user")
      BY <2>1, <2>4, <2>5, <3>1 DEF View
    <3>4. v.last.stamp # 0 => Followed(v.last.stamp)
      BY <2>4, <3>1, <3>2, <3>3, LastFollowed DEF Followed
    <3>5. Told(v)
      BY <2>1, <2>4, ViewTold
    <3> QED
      BY <1>0, <2>5, <3>4, <3>5, AnsweredTold
  <2> QED
    BY <2>2, <2>3, <2>5, MovedTold
<1>6. CASE AnswerCommits(c)
  <2>0. Says(c.talk, "user", c.content) /\ c.talk \in DOMAIN talks
    BY <1>6, AnswerSays
  <2>1. PICK v, d : v = View(c.talk)' /\ d = [c EXCEPT !.phase = "dispatch", !.seen = <<>>, !.view = v]
    OBVIOUS
  <2>2. SameRequest(c, d) /\ Moves(c, d) /\ d.view = v
    BY <1>0, <1>6, <2>1 DEF Calls, SameRequest, AnswerCommits
  <2>3. c.talk \in DOMAIN talks'
        /\ v = [row |-> c.talk, last |-> LastOfAgent(talks'[c.talk].messages),
                draft |-> talks'[c.talk].draft]
    BY <2>0, <2>1 DEF View, Says
  <2>4. Told(v)
    BY <2>3, ViewToldNext
  <2>5. PICK ms, new, m : /\ ms = talks[c.talk].messages /\ new = talks'[c.talk].messages
                          /\ m = Message("user", c.content)
    OBVIOUS
  <2>6. new = Append(ms, m) /\ m.role = "user" /\ ms \in Seq(Sayings(clock))
    BY <1>0, <2>0, <2>5, RowIs DEF Says, Message
  <2>7. IsLast(new, "user")
    BY <2>6 DEF IsLast
  <2>8. new \in Seq(Sayings(clock'))
    <3>1. talks'[c.talk] \in Talks(clock')
      BY <1>0, <2>3 DEF TalksOk
    <3> QED
      BY <2>5, <3>1 DEF Talks
  <2>9. v.last.stamp # 0 => Followed(v.last.stamp)'
    <3>1. v.last = LastOfAgent(new)
      BY <2>3, <2>5
    <3>2. v.last.stamp # 0 => Follows(new, v.last.stamp)
      BY <1>0, <2>7, <2>8, <3>1, LastFollowed
    <3> QED
      BY <2>3, <2>5, <3>2 DEF Followed
  <2> QED
    BY <2>2, <2>4, <2>9, MovedTold
<1>7. CASE Dispatch(c)
  <2>1. PICK d : d = [c EXCEPT !.phase = IF c.phase = "prompt" THEN "insert" ELSE "touch"]
    OBVIOUS
  <2>2. SameRequest(c, d) /\ d.view = c.view /\ d.phase \notin {"dispatch", "ok"}
    BY <1>0, <2>1 DEF Calls, SameRequest
  <2>3. (c.phase = "dispatch" /\ Answered(c, c.view)) \/ Moves(c, d)
    BY <1>7, <2>1 DEF Dispatch
  <2>4. CASE c.phase = "dispatch" /\ Answered(c, c.view)
    BY <1>0, <2>4, AnsweredTold DEF CallTold
  <2> QED
    BY <2>2, <2>3, <2>4, MovedTold
<1>8. CASE StartCommits(c)
  <2>1. PICK v, i : v = View(latest)' /\ i = latest'
    OBVIOUS
  <2>2. Answered(c, v) /\ c.phase \in {"insert", "touch"} /\ c.kind = "start"
    <3>1. Answered(c, v) /\ c.phase \in {"insert", "touch"}
      BY <1>8, <2>1 DEF StartCommits
    <3> QED
      BY <1>0, <3>1, PhaseKind
  <2>3. i \in DOMAIN talks'
    <3>1. talks' # <<>> /\ latest' \in 0..Len(talks') /\ (talks' # <<>> => latest' # 0)
      <4>1. CASE c.phase = "insert"
        <5>1. latest' = Len(talks') /\ Len(talks') = Len(talks) + 1
          <6>1. PICK row : talks' = Append(talks, row)
            BY <1>8, <4>1 DEF StartCommits
          <6>2. talks \in Seq(Talks(clock))
            BY <1>0 DEF TalksOk
          <6>3. Len(talks') = Len(talks) + 1
            BY <6>1, <6>2
          <6> QED
            BY <1>8, <4>1, <6>3 DEF StartCommits
        <5> QED
          BY <1>0, <5>1 DEF TalksOk
      <4>2. CASE c.phase = "touch"
        BY <1>0, <1>8, <4>2 DEF StartCommits, CallOk, TalksOk
      <4> QED
        BY <2>2, <4>1, <4>2
    <3> QED
      BY <1>0, <2>1, <3>1
  <2>4. v = [row |-> i, last |-> LastOfAgent(talks'[i].messages), draft |-> talks'[i].draft]
    BY <2>1 DEF View
  <2>5. Told(v)
    BY <2>3, <2>4, ViewToldNext
  <2> QED
    BY <1>0, <2>2, <2>5, AnsweredTold
<1>9. CASE ConfirmReads(c)
  <2>1. PICK d : d = [c EXCEPT !.phase = "store", !.talk = latest, !.lead = talks[latest].draft]
    OBVIOUS
  <2>2. SameRequest(c, d) /\ d.view = c.view /\ d.phase = "store"
    BY <1>0, <2>1 DEF Calls, SameRequest
  <2>3. Moves(c, d)
    BY <1>9, <2>1 DEF ConfirmReads
  <2> QED
    BY <2>2, <2>3, MovedTold
<1>10. CASE ConfirmCommits(c)
  <2>1. c.kind = "confirm" /\ (Answered(c, c.view) \/ Refused(c))
    <3>1. c.phase = "store" /\ (Answered(c, c.view) \/ Refused(c))
      BY <1>10 DEF ConfirmCommits
    <3> QED
      BY <1>0, <3>1, PhaseKind
  <2> QED
    BY <1>0, <2>1, AnsweredTold, RefusedTold DEF CallTold
<1>11. CASE DispatchFails(c)
  BY <1>0, <1>11, RefusedTold DEF DispatchFails
<1> QED
  BY <1>4, <1>5, <1>6, <1>7, <1>8, <1>9, <1>10, <1>11 DEF Handles

(* A view that comes back is shown. *)
LEMMA ShowsTold ==
    ASSUME NEW v, Told(v), ViewOk(v), NEW waits \in Nat, NEW answer \in BOOLEAN,
           Shows(v, waits, answer), "repeat" \notin mishaps', answer => waits # 0,
           waits # 0 => Followed(waits) \/ waits # v.last.stamp
    PROVE  /\ Told(shown)' /\ (submitted' => awaits' # 0)
           /\ awaits' # 0 => Followed(awaits')
<1>1. shown' = v /\ v.last.stamp \in Nat
  BY DEF Shows, ViewOk, Views
<1>2. CASE waits # 0 /\ v.last.stamp # waits
  <2>1. awaits' = 0 /\ ~ submitted'
    BY <1>2 DEF Shows
  <2> QED
    BY <1>1, <2>1 DEF Told
<1>3. CASE ~ (waits # 0 /\ v.last.stamp # waits)
  <2>1. awaits' = waits /\ submitted' = answer
    BY <1>1, <1>3 DEF Shows
  <2> QED
    BY <1>1, <1>3, <2>1 DEF Told
<1> QED
  BY <1>2, <1>3

(* The dialog keeps what was told it. *)
LEMMA DialogToldStays ==
    ASSUME DialogTold, \A s : Followed(s) => Followed(s)',
           UNCHANGED <<dialogVars, polls>>
    PROVE  DialogTold'
<1>1. UNCHANGED <<shown, awaits, submitted, polls>>
  BY DEF dialogVars
<1> QED
  BY <1>1 DEF DialogTold, Told

(* A dialog that is closed waits for nothing. *)
LEMMA UnmountedTold ==
    ASSUME CallsTold, \A s : Followed(s) => Followed(s)', NEW remaining \in SUBSET calls,
           Unmounted(remaining)
    PROVE  DialogTold' /\ CallsTold'
<1>1. /\ calls' \subseteq calls /\ shown' = Unknown /\ awaits' = 0 /\ submitted' = FALSE
      /\ polls' = <<>>
  BY DEF Unmounted
<1>2. CallsTold'
  BY <1>1, CallsToldStay
<1> QED
  BY <1>1, <1>2, UnknownTold DEF DialogTold, Told, Unknown

(* A request that is sent knows of nothing yet. *)
LEMMA SentTold ==
    ASSUME CallsTold, \A s : Followed(s) => Followed(s)', NEW kind, NEW content, NEW m,
           calls' = calls \cup {Call(m, kind, content)}, kind = "answer" => shown.last.stamp # 0
    PROVE  CallsTold'
<1>0. PICK new : new = Call(m, kind, content)
  OBVIOUS
<1>1. new.kind = kind /\ new.view = Unknown /\ new.before = shown.last.stamp /\ new.phase = "sent"
  BY <1>0 DEF Call
<1>2. CallTold(new)'
  BY <1>1, UnknownTold DEF CallTold
<1> QED
  BY <1>0, <1>2, CallsToldStay

(* An answer tells the dialog what it has to wait for. *)
LEMMA ReturnsTold ==
    ASSUME OnboardingTyped, DialogTold, CallsTold, \A s : Followed(s) => Followed(s)',
           NEW c \in calls, Returns(c), "repeat" \notin mishaps', UNCHANGED talks
    PROVE  DialogTold' /\ CallsTold'
<1>0. CallOk(c) /\ CallTold(c) /\ ViewOk(c.view) /\ c.before \in Nat
  BY DEF OnboardingTyped, CallsOk, CallOk, CallsTold, Calls
<1>a. shown.last.stamp \in Nat /\ awaits \in Nat /\ submitted \in BOOLEAN
  BY DEF OnboardingTyped, DialogOk, ViewOk, Views
<1>1. CASE CallFails(c)
  <2>1. UNCHANGED <<dialogVars, polls>> /\ calls' \subseteq calls
    BY <1>1 DEF CallFails
  <2> QED
    BY <2>1, DialogToldStays, CallsToldStay
<1>2. CASE Unmounted(calls \ {c})
  BY <1>2, UnmountedTold
<1>3. ASSUME NEW waits \in Nat, NEW answer \in BOOLEAN, Shows(c.view, waits, answer),
             answer => waits # 0, waits # 0 => Followed(waits) \/ waits # c.view.last.stamp,
             calls' = calls \ {c}, UNCHANGED polls
      PROVE  DialogTold' /\ CallsTold'
  <2>1. /\ Told(shown)' /\ (submitted' => awaits' # 0)
        /\ awaits' # 0 => Followed(awaits')
    BY <1>0, <1>3, ShowsTold DEF CallTold
  <2>2. Followed(awaits') => Followed(awaits)'
    <3>1. PICK s : s = awaits'
      OBVIOUS
    <3>2. Followed(s) => Followed(s)'
      OBVIOUS
    <3> QED
      BY <3>1, <3>2
  <2>3. CallsTold'
    BY <1>3, CallsToldStay
  <2> QED
    BY <1>3, <2>1, <2>2, <2>3 DEF DialogTold, Told
<1>4. CASE /\ c.kind = "start" /\ calls' = calls \ {c} /\ Shows(c.view, awaits, submitted)
           /\ UNCHANGED <<asked, settled, visible, polls>>
  <2>1. PICK waits, answer : waits = awaits /\ answer = submitted
    OBVIOUS
  <2>2. /\ waits \in Nat /\ answer \in BOOLEAN /\ Shows(c.view, waits, answer)
        /\ answer => waits # 0
        /\ waits # 0 => Followed(waits)
    BY <1>a, <1>4, <2>1 DEF DialogTold
  <2> QED
    BY <1>3, <1>4, <2>2
<1>5. CASE /\ c.kind = "answer" /\ c.phase = "ok" /\ calls' = calls \ {c} /\ Shows(c.view, c.before, TRUE)
           /\ settled' = settled \cup {c.before}
           /\ UNCHANGED <<asked, visible, polls>>
  <2>1. c.before # 0 /\ c.phase = "ok"
        /\ (c.view.last.stamp # 0 => Followed(c.view.last.stamp))
    BY <1>0, <1>5 DEF CallTold
  <2>2. Followed(c.before) \/ c.before # c.view.last.stamp
    BY <2>1
  <2> QED
    BY <1>0, <1>3, <1>5, <2>1, <2>2
<1> QED
  BY <1>1, <1>2, <1>4, <1>5 DEF Returns, CallReturns

(* A poll tells the dialog what the row says. *)
LEMMA PollingTold ==
    ASSUME OnboardingTyped, RowsTold, DialogTold, CallsTold, \A s : Followed(s) => Followed(s)',
           Polling, "repeat" \notin mishaps'
    PROVE  DialogTold' /\ CallsTold'
<1>0. UNCHANGED <<talks, calls>> /\ PollsOk /\ polls \in Seq([read : BOOLEAN, view : Views])
      /\ TalksOk
  BY DEF Polling, PollSent, PollReads, PollReturns, talkVars, OnboardingTyped, PollsOk
<1>a. shown.last.stamp \in Nat /\ awaits \in Nat /\ submitted \in BOOLEAN
  BY DEF OnboardingTyped, DialogOk, ViewOk, Views
<1>b. CallsTold'
  BY <1>0, CallsToldStay
<1>1. ASSUME UNCHANGED dialogVars, \A n \in DOMAIN polls' : Told(polls'[n].view)
      PROVE  DialogTold'
  <2>1. UNCHANGED <<shown, awaits, submitted>>
    BY <1>1 DEF dialogVars
  <2> QED
    BY <1>1, <2>1 DEF DialogTold, Told
<1>2. CASE PollSent
  <2>1. PICK p : p = [read |-> FALSE, view |-> Unknown]
    OBVIOUS
  <2>2. polls' = Append(polls, p) /\ Told(p.view) /\ UNCHANGED dialogVars
    BY <1>2, <2>1, UnknownTold DEF PollSent
  <2>3. \A n \in DOMAIN polls' : polls'[n] = p \/ (n \in DOMAIN polls /\ polls'[n] = polls[n])
    BY <1>0, <2>2
  <2>4. \A n \in DOMAIN polls' : Told(polls'[n].view)
    BY <2>2, <2>3 DEF DialogTold
  <2> QED
    BY <1>1, <1>b, <2>2, <2>4
<1>3. CASE \E n \in DOMAIN polls : PollReads(n)
  <2>1. PICK n \in DOMAIN polls : PollReads(n)
    BY <1>3
  <2>2. PICK v : v = IF latest = 0 THEN Unknown ELSE View(latest)
    OBVIOUS
  <2>3. polls' = [polls EXCEPT ![n].read = TRUE, ![n].view = v] /\ UNCHANGED dialogVars
    BY <2>1, <2>2 DEF PollReads
  <2>4. Told(v)
    <3>1. latest # 0 => latest \in DOMAIN talks
      BY <1>0 DEF TalksOk
    <3> QED
      BY <2>2, <3>1, UnknownTold, ViewTold
  <2>5. polls[n] \in [read : BOOLEAN, view : Views]
    <3> DEFINE T == [read : BOOLEAN, view : Views]
    <3>1. polls \in Seq(T)
      BY <1>0
    <3> HIDE DEF T
    <3>2. polls[n] \in T
      BY <3>1
    <3> QED
      BY <3>2 DEF T
  <2>6. \A m \in DOMAIN polls' :
           m \in DOMAIN polls /\ polls'[m].view = IF m = n THEN v ELSE polls[m].view
    BY <2>3, <2>5
  <2>7. \A m \in DOMAIN polls' : Told(polls'[m].view)
    BY <2>4, <2>6 DEF DialogTold
  <2> QED
    BY <1>1, <1>b, <2>3, <2>7
<1>4. CASE \E n \in DOMAIN polls : PollReturns(n)
  <2>1. PICK n \in DOMAIN polls : PollReturns(n)
    BY <1>4
  <2>2. PICK ps, qs : ps = polls /\ qs = polls'
    OBVIOUS
  <2>3. \A k \in DOMAIN qs : \E j \in DOMAIN ps : qs[k] = ps[j]
    <3> DEFINE T == [read : BOOLEAN, view : Views]
    <3>1. ps \in Seq(T) /\ n \in DOMAIN ps
          /\ qs = [k \in 1..Len(ps) - 1 |-> IF k < n THEN ps[k] ELSE ps[k + 1]]
      BY <1>0, <2>1, <2>2 DEF PollReturns
    <3> HIDE DEF T
    <3> QED
      BY <3>1, PollsCloseUp
  <2>4. \A k \in DOMAIN polls' : Told(polls'[k].view)
    BY <2>2, <2>3 DEF DialogTold
  <2>5. CASE polls[n].view # Unknown
    <3>1. PICK v, waits, answer : v = polls[n].view /\ waits = awaits /\ answer = submitted
      OBVIOUS
    <3>2. /\ waits \in Nat /\ answer \in BOOLEAN /\ Shows(v, waits, answer) /\ Told(v) /\ ViewOk(v)
          /\ answer => waits # 0
          /\ waits # 0 => Followed(waits)
      BY <1>0, <1>a, <2>1, <2>5, <3>1 DEF DialogTold, PollReturns, PollsOk
    <3>3. /\ Told(shown)' /\ (submitted' => awaits' # 0)
          /\ awaits' # 0 => Followed(awaits')
      BY <3>2, ShowsTold
    <3>4. Followed(awaits') => Followed(awaits)'
      <4>1. PICK s : s = awaits'
        OBVIOUS
      <4>2. Followed(s) => Followed(s)'
        OBVIOUS
      <4> QED
        BY <4>1, <4>2
    <3> QED
      BY <1>b, <2>4, <3>3, <3>4 DEF DialogTold, Told
  <2>6. CASE polls[n].view = Unknown
    <3>1. UNCHANGED dialogVars
      BY <2>1, <2>6 DEF PollReturns, dialogVars
    <3> QED
      BY <1>1, <1>b, <2>4, <3>1
  <2> QED
    BY <2>5, <2>6
<1> QED
  BY <1>2, <1>3, <1>4 DEF Polling

(* A step that owes the agent nothing new. *)
LEMMA OwedStays ==
    ASSUME Owed, TalksOk, SameSayings, UNCHANGED <<latest, post>>, inbox' >= inbox, inbox' \in Nat,
           \A c \in calls : c.phase = "dispatch" => c \in calls',
           \A d \in calls' : d \in calls \/ d.phase # "insert"
    PROVE  Owed'
<1>1. latest' # 0 /\ IsLast(talks'[latest'].messages, "user")
        => latest # 0 /\ IsLast(talks[latest].messages, "user")
  <2>1. latest # 0 => latest \in DOMAIN talks
    BY DEF TalksOk
  <2> QED
    BY <2>1 DEF SameSayings, IsLast
<1>2. (Telling => Telling') /\ (Inserting' => Inserting)
  BY DEF Telling, Inserting
<1>3. inbox \in Nat /\ (inbox > 0 => inbox' > 0)
  BY DEF TalksOk
<1> QED
  BY <1>1, <1>2, <1>3 DEF Owed

(* The handlers store what the agent has heard, or will. *)
LEMMA HandlesOwed ==
    ASSUME OnboardingTyped, Owed, NEW c \in calls, Handles(c), ~ Mishap(Deaf)'
    PROVE  Owed'
<1>0. CallOk(c) /\ TalksOk /\ inbox \in Nat /\ c \in Calls(clock)
  BY DEF OnboardingTyped, CallsOk, CallOk, TalksOk
<1>1. "deaf" \notin mishaps' /\ "astray" \notin mishaps'
  BY DEF Mishap, Deaf
<1>2. ASSUME NEW d, d.phase # "insert", Moves(c, d) \/ calls' = calls \ {c},
             c.phase # "dispatch"
      PROVE  /\ \A b \in calls : b.phase = "dispatch" => b \in calls'
             /\ \A b \in calls' : b \in calls \/ b.phase # "insert"
  BY <1>2 DEF Moves
<1>3. ASSUME NEW v, Answered(c, v), c.phase # "dispatch"
      PROVE  /\ \A b \in calls : b.phase = "dispatch" => b \in calls'
             /\ \A b \in calls' : b \in calls \/ b.phase # "insert"
  <2>1. PICK d : d = [c EXCEPT !.phase = "ok", !.view = v, !.talk = 0]
    OBVIOUS
  <2>2. d.phase # "insert" /\ (Moves(c, d) \/ calls' = calls \ {c})
    BY <1>0, <1>3, <2>1 DEF Answered, Ends, Calls
  <2> QED
    BY <1>2, <1>3, <2>2
<1>4. ASSUME Refused(c), c.phase # "dispatch"
      PROVE  /\ \A b \in calls : b.phase = "dispatch" => b \in calls'
             /\ \A b \in calls' : b \in calls \/ b.phase # "insert"
  <2>1. PICK d : d = [c EXCEPT !.phase = "failed"]
    OBVIOUS
  <2>2. d.phase # "insert" /\ (Moves(c, d) \/ calls' = calls \ {c})
    BY <1>0, <1>4, <2>1 DEF Refused, Ends, Calls
  <2> QED
    BY <1>2, <1>4, <2>2
<1>5. CASE StartReads(c)
  <2>1. UNCHANGED <<talks, clock, latest, post, inbox>> /\ c.phase = "sent"
    BY <1>5 DEF StartReads, talkVars, agentVars
  <2>2. CASE Moves(c, [c EXCEPT !.phase = "prompt"])
    <3>1. PICK d : d = [c EXCEPT !.phase = "prompt"]
      OBVIOUS
    <3>2. d.phase # "insert" /\ Moves(c, d)
      BY <1>0, <2>2, <3>1 DEF Calls
    <3> QED
      BY <1>0, <1>2, <2>1, <3>2, SilentIs, OwedStays
  <2>3. ASSUME NEW i, Moves(c, [c EXCEPT !.phase = "resume", !.talk = i]) PROVE Owed'
    <3>1. PICK d : d = [c EXCEPT !.phase = "resume", !.talk = i]
      OBVIOUS
    <3>2. d.phase # "insert" /\ Moves(c, d)
      BY <1>0, <2>3, <3>1 DEF Calls
    <3> QED
      BY <1>0, <1>2, <2>1, <3>2, SilentIs, OwedStays
  <2>4. ASSUME NEW i, Answered(c, View(i)) PROVE Owed'
    <3>1. PICK v : v = View(i)
      OBVIOUS
    <3>2. Answered(c, v)
      BY <2>4, <3>1
    <3> QED
      BY <1>0, <1>3, <2>1, <3>2, SilentIs, OwedStays
  <2> QED
    BY <1>5, <2>2, <2>3, <2>4 DEF StartReads
<1>6. CASE AnswerReads(c)
  <2>1. UNCHANGED <<talks, clock, latest, post, inbox>> /\ c.phase = "sent"
    BY <1>6 DEF AnswerReads, talkVars, agentVars
  <2>2. PICK v, d : /\ v = View(latest)
                    /\ d = [c EXCEPT !.phase = "read", !.talk = latest, !.seen = talks[latest].messages]
    OBVIOUS
  <2>3. (Answered(c, v) \/ Moves(c, d)) /\ d.phase # "insert"
    BY <1>0, <1>6, <2>2 DEF AnswerReads, Calls
  <2> QED
    BY <1>0, <1>2, <1>3, <2>1, <2>3, SilentIs, OwedStays
<1>7. CASE AnswerCommits(c)
  <2>1. PICK d : d = [c EXCEPT !.phase = "dispatch", !.seen = <<>>, !.view = View(c.talk)']
    OBVIOUS
  <2>2. Moves(c, d) /\ UNCHANGED <<inbox, post>>
    BY <1>7, <2>1 DEF AnswerCommits, agentVars
  <2>3. d.phase = "dispatch"
    BY <1>0, <2>1 DEF Calls
  <2>4. Telling' /\ (Inserting' => Inserting)
    BY <2>2, <2>3 DEF Telling, Inserting, Moves
  <2> QED
    BY <2>2, <2>4 DEF Owed
<1>8. CASE Dispatch(c)
  <2>1. inbox' > 0
    BY <1>0, <1>8 DEF Dispatch
  <2> QED
    BY <2>1 DEF Owed
<1>9. CASE StartCommits(c)
  <2>1. UNCHANGED <<inbox, post>>
    BY <1>9 DEF StartCommits, agentVars
  <2>2. PICK v : v = View(latest)'
    OBVIOUS
  <2>3. Answered(c, v) /\ c.phase # "dispatch"
    BY <1>9, <2>2 DEF StartCommits
  <2>4. CASE c.phase = "insert"
    <3>1. inbox > 0 \/ post.phase = "sent"
      BY <2>4 DEF Owed, Inserting
    <3> QED
      BY <2>1, <3>1 DEF Owed
  <2>5. CASE c.phase = "touch"
    <3>1. UNCHANGED <<talks, clock, latest>>
      BY <1>1, <1>9, <2>5 DEF StartCommits, Astray
    <3> QED
      BY <1>0, <1>3, <2>1, <2>3, <3>1, SilentIs, OwedStays
  <2> QED
    BY <1>9, <2>4, <2>5 DEF StartCommits
<1>10. CASE ConfirmReads(c)
  <2>1. UNCHANGED <<talks, clock, latest, post, inbox>> /\ c.phase = "sent"
    BY <1>10 DEF ConfirmReads, talkVars, agentVars
  <2>2. PICK d : d = [c EXCEPT !.phase = "store", !.talk = latest, !.lead = talks[latest].draft]
    OBVIOUS
  <2>3. Moves(c, d) /\ d.phase # "insert"
    BY <1>0, <1>10, <2>2 DEF ConfirmReads, Calls
  <2> QED
    BY <1>0, <1>2, <2>1, <2>3, SilentIs, OwedStays
<1>11. CASE ConfirmCommits(c)
  <2>1. UNCHANGED <<inbox, post, latest>> /\ c.phase = "store" /\ (Answered(c, c.view) \/ Refused(c))
    BY <1>1, <1>11 DEF ConfirmCommits, agentVars, Astray
  <2> QED
    BY <1>0, <1>3, <1>4, <1>11, <2>1, ConfirmCommitsSays, OwedStays
<1>12. CASE DispatchFails(c)
  BY <1>1, <1>12 DEF DispatchFails
<1> QED
  BY <1>5, <1>6, <1>7, <1>8, <1>9, <1>10, <1>11, <1>12 DEF Handles

(* The agent answers what it has heard. *)
LEMMA AgentOwed ==
    ASSUME OnboardingTyped, Owed, AgentSteps, ~ Mishap(Deaf)'
    PROVE  Owed'
<1>0. /\ mishaps' \cap Deaf = {} /\ "raced" \notin mishaps' /\ TalksOk
      /\ DOMAIN talks = 1..Len(talks)
  BY DEF Mishap, Deaf, OnboardingTyped, TalksOk
<1>1. ASSUME NEW content, NEW answers \in BOOLEAN, AgentSays(content, answers) PROVE Owed'
  <2>1. post'.phase = "sent"
    BY <1>1 DEF AgentSays, NoPost
  <2> QED
    BY <2>1 DEF Owed
<1>2. CASE AgentRefused
  BY <1>0, <1>2 DEF AgentRefused, Deaf
<1>3. CASE AgentReads
  <2>1. /\ post'.phase = "read" /\ post'.talk = latest /\ UNCHANGED <<calls, inbox, latest>>
        /\ ~ Inserting
    <3>1. "repeat" \notin mishaps' /\ "early" \notin mishaps'
      BY <1>0 DEF Deaf
    <3>2. post' = [post EXCEPT !.phase = "read", !.talk = latest, !.seen = talks[latest].messages,
                               !.status = talks[latest].status]
          /\ mishaps' = mishaps \cup (IF \E c \in calls : c.phase = "insert" THEN {"early"} ELSE {})
          /\ UNCHANGED <<calls, inbox, latest>>
      BY <1>3, <3>1 DEF AgentReads
    <3>3. post'.phase = "read" /\ post'.talk = latest
      BY <3>2 DEF OnboardingTyped, PostOk
    <3> QED
      BY <3>1, <3>2, <3>3 DEF Inserting
  <2>2. ~ Inserting'
    BY <2>1 DEF Inserting
  <2> QED
    BY <2>1, <2>2 DEF Owed
<1>4. CASE AgentCommits
  <2>1. /\ Says(post.talk, "assistant", post.content) /\ post.talk \in DOMAIN talks
        /\ latest' = post.talk /\ post.phase = "read" /\ UNCHANGED <<calls, inbox>>
    BY <1>0, <1>4, AgentCommitsSays DEF AgentCommits
  <2>2. PICK i, ms, m : i = post.talk /\ ms = talks[i].messages
                        /\ m = Message("assistant", post.content)
    OBVIOUS
  <2>3. ms \in Seq(Sayings(clock)) /\ talks'[i].messages = Append(ms, m) /\ m.role = "assistant"
    BY <1>0, <2>1, <2>2, RowIs DEF Says, Message
  <2>4. ~ IsLast(talks'[latest'].messages, "user")
    BY <2>1, <2>2, <2>3 DEF IsLast
  <2>5. ~ IsLast(talks[latest].messages, "user")'
    BY <2>4 DEF IsLast
  <2>6. Inserting' => inbox' > 0
    BY <2>1 DEF Owed, Inserting
  <2> QED
    BY <2>5, <2>6 DEF Owed
<1> QED
  BY <1>1, <1>2, <1>3, <1>4 DEF AgentSteps

(* The dialog does not say anything itself. *)
LEMMA DialogOwed ==
    ASSUME OnboardingTyped, Owed,
           \/ UserSteps \/ Polling \/ (\E c \in calls : Returns(c)) \/ UNCHANGED onboardingVars
    PROVE  Owed'
<1>0. TalksOk /\ inbox \in Nat
  BY DEF OnboardingTyped, TalksOk
<1>1. UNCHANGED <<talks, clock, latest, post, inbox>>
  BY DEF UserSteps, OpenDialog, CloseDialog, Submit, Confirm, Polling, PollSent, PollReads,
     PollReturns, Returns, CallReturns, CallFails, onboardingVars, talkVars, agentVars
<1>2. /\ \A c \in calls : c.phase = "dispatch" => c \in calls'
      /\ \A d \in calls' : d \in calls \/ d.phase # "insert"
  <2>1. ASSUME NEW remaining \in SUBSET calls, Unmounted(remaining),
               \A c \in calls : c.phase = "dispatch" => c \in remaining
        PROVE  /\ \A c \in calls : c.phase = "dispatch" => c \in calls'
               /\ \A d \in calls' : d \in calls \/ d.phase # "insert"
    BY <2>1 DEF Unmounted
  <2>2. ASSUME NEW m, NEW kind, NEW content, calls' = calls \cup {Call(m, kind, content)}
        PROVE  /\ \A c \in calls : c.phase = "dispatch" => c \in calls'
               /\ \A d \in calls' : d \in calls \/ d.phase # "insert"
    BY <2>2 DEF Call
  <2>3. CASE UserSteps
    <3>1. CASE OpenDialog
      <4>1. PICK m : m = mount'
        OBVIOUS
      <4> QED
        BY <2>2, <3>1, <4>1 DEF OpenDialog
    <3>2. CASE \E content \in Replies : Submit(content)
      BY <2>2, <3>2 DEF Submit
    <3>3. CASE Confirm
      BY <2>2, <3>3 DEF Confirm
    <3>4. CASE CloseDialog
      BY <2>1, <3>4 DEF CloseDialog
    <3> QED
      BY <2>3, <3>1, <3>2, <3>3, <3>4 DEF UserSteps
  <2>4. ASSUME NEW c \in calls, Returns(c)
        PROVE  /\ \A b \in calls : b.phase = "dispatch" => b \in calls'
               /\ \A d \in calls' : d \in calls \/ d.phase # "insert"
    <3>1. c.phase # "dispatch" /\ (calls' = calls \ {c} \/ Unmounted(calls \ {c}))
      BY <2>4 DEF Returns, CallReturns, CallFails
    <3> QED
      BY <2>1, <3>1
  <2>5. CASE Polling \/ UNCHANGED onboardingVars
    <3>1. UNCHANGED calls
      BY <2>5 DEF Polling, PollSent, PollReads, PollReturns, onboardingVars
    <3> QED
      BY <3>1
  <2> QED
    BY <2>3, <2>4, <2>5
<1> QED
  BY <1>0, <1>1, <1>2, SilentIs, OwedStays

(* The messages that one of the user follows stay so, for what is read later too. *)
LEMMA FollowedStays ==
    ASSUME TalksOk, TalksOk', Spoken
    PROVE  \A s : Followed(s) => Followed(s)'
BY SpokenFollows

(* The requests that the user sends. *)
LEMMA UserTold ==
    ASSUME OnboardingTyped, DialogTold, CallsTold, \A s : Followed(s) => Followed(s)', UserSteps
    PROVE  DialogTold' /\ CallsTold'
<1>1. CASE OpenDialog
  <2>1. PICK m : m = mount'
    OBVIOUS
  <2>2. UNCHANGED <<dialogVars, polls>> /\ calls' = calls \cup {Call(m, "start", Nothing)}
    BY <1>1, <2>1 DEF OpenDialog
  <2> QED
    BY <2>2, DialogToldStays, SentTold
<1>2. CASE \E content \in Replies : Submit(content)
  <2>1. PICK content \in Replies : Submit(content)
    BY <1>2
  <2>2. /\ UNCHANGED <<shown, polls>> /\ calls' = calls \cup {Call(mount, "answer", content)}
        /\ awaits' = 0 /\ submitted' = FALSE
    BY <2>1 DEF Submit
  <2>3. shown.last.stamp # 0
    <3>1. CASE OffersDraft
      BY <3>1 DEF OffersDraft, DialogTold, Told
    <3>2. CASE Offers
      <4>1. shown.last.content # Nothing
        BY <3>2 DEF Offers, Question
      <4> QED
        BY <4>1 DEF OnboardingTyped, DialogOk, ViewOk
    <3> QED
      BY <2>1, <3>1, <3>2 DEF Submit
  <2>4. CallsTold'
    BY <2>2, <2>3, SentTold
  <2> QED
    BY <2>2, <2>4 DEF DialogTold, Told
<1>3. CASE Confirm
  <2>1. UNCHANGED <<dialogVars, polls>> /\ calls' = calls \cup {Call(mount, "confirm", shown.draft)}
    BY <1>3 DEF Confirm
  <2> QED
    BY <2>1, DialogToldStays, SentTold
<1>4. CASE CloseDialog
  BY <1>4, UnmountedTold DEF CloseDialog
<1> QED
  BY <1>1, <1>2, <1>3, <1>4 DEF UserSteps

(* Every step. *)
LEMMA WaitNext ==
    ASSUME OnboardingTyped, WaitInv, [OnboardingNext]_onboardingVars
    PROVE  WaitInv'
<1> SUFFICES ASSUME ~ Mishap(Deaf)' PROVE WaitParts'
  BY DEF WaitInv
<1>1. /\ WaitParts /\ "raced" \notin mishaps' /\ "repeat" \notin mishaps'
      /\ mishaps' \cap {"raced", "repeat"} = {}
  BY MishapsGrow DEF WaitInv, Mishap, Deaf
<1>2. OnboardingTyped'
  BY OnboardingTypedNext
<1>3. TalksOk /\ TalksOk' /\ Spoken
  BY <1>1, <1>2, StepSpoken DEF OnboardingTyped
<1>4. OneStampEach /\ RowsTold /\ Owed /\ DialogTold /\ CallsTold
  BY <1>1 DEF WaitParts
<1>5. OneStampEach' /\ RowsTold' /\ \A s : Followed(s) => Followed(s)'
  BY <1>3, <1>4, SpokenStamped, SpokenTold, FollowedStays
<1>6. ASSUME NEW c \in calls, Handles(c) PROVE Owed' /\ DialogTold' /\ CallsTold'
  <2>1. UNCHANGED <<dialogVars, polls>>
    BY <1>6 DEF Handles, StartReads, AnswerReads, AnswerCommits, Dispatch, DispatchFails,
                StartCommits, ConfirmReads, ConfirmCommits
  <2> QED
    BY <1>1, <1>2, <1>4, <1>5, <1>6, <2>1, HandlesOwed, HandlesTold, DialogToldStays
<1>7. CASE AgentSteps
  <2>1. UNCHANGED <<dialogVars, polls, calls>>
    BY <1>7 DEF AgentSteps, AgentSays, AgentRefused, AgentReads, AgentCommits
  <2>2. DialogTold'
    BY <1>4, <1>5, <2>1, DialogToldStays
  <2>3. CallsTold'
    BY <1>4, <1>5, <2>1, CallsToldStay
  <2> QED
    BY <1>4, <1>5, <1>7, <2>2, <2>3, AgentOwed DEF WaitParts
<1>8. CASE UserSteps
  <2>1. Owed'
    BY <1>4, <1>8, DialogOwed
  <2> QED
    BY <1>4, <1>5, <1>8, <2>1, UserTold DEF WaitParts
<1>9. ASSUME NEW c \in calls, Returns(c) PROVE Owed' /\ DialogTold' /\ CallsTold'
  <2>1. UNCHANGED talks
    BY <1>9 DEF Returns, CallReturns, CallFails, talkVars
  <2> QED
    BY <1>1, <1>4, <1>5, <1>9, <2>1, DialogOwed, ReturnsTold
<1>10. CASE Polling
  <2>1. Owed'
    BY <1>4, <1>10, DialogOwed
  <2> QED
    BY <1>1, <1>4, <1>5, <1>10, <2>1, PollingTold DEF WaitParts
<1>11. CASE UNCHANGED onboardingVars
  <2>1. UNCHANGED <<dialogVars, polls, calls>>
    BY <1>11 DEF onboardingVars
  <2>2. DialogTold'
    BY <1>4, <1>5, <2>1, DialogToldStays
  <2>3. CallsTold'
    BY <1>4, <1>5, <2>1, CallsToldStay
  <2> QED
    BY <1>4, <1>5, <1>11, <2>2, <2>3, DialogOwed DEF WaitParts
<1> QED
  BY <1>5, <1>6, <1>7, <1>8, <1>9, <1>10, <1>11 DEF OnboardingNext, WaitParts

(* The dialog waits only where the user had the last word, and then somebody owes *)
(* the agent that word, or the agent the answer.                                  *)
LEMMA WaitSays ==
    ASSUME OnboardingTyped, WaitInv
    PROVE  NobodyWaits
<1> SUFFICES ASSUME Idle, Waits, latest # 0, shown = View(latest), ~ Mishap(Deaf) PROVE FALSE
  BY DEF NobodyWaits, Mishap, Deaf
<1>1. /\ TalksOk /\ OneStampEach /\ RowsTold /\ Owed /\ DialogTold
      /\ DOMAIN talks = 1..Len(talks) /\ clock \in Nat /\ Len(talks) \in Nat
  BY DEF WaitInv, WaitParts, OnboardingTyped, TalksOk
<1>2. PICK i, ms, last, draft : /\ i = latest /\ ms = talks[latest].messages
                                /\ last = LastOfAgent(ms) /\ draft = talks[latest].draft
  OBVIOUS
<1>3. i \in DOMAIN talks /\ ms \in Seq(Sayings(clock)) /\ RowTold(ms, draft)
  <2>1. i \in 1..Len(talks)
    BY <1>1, <1>2 DEF TalksOk
  <2> QED
    BY <1>1, <1>2, <2>1, RowIs DEF RowsTold
<1>4. shown.last = last /\ shown.draft = draft
  BY <1>2 DEF View
<1>5. ~ IsLast(ms, "user")
  BY <1>1, <1>2 DEF Owed, Idle, Telling, NoPost
<1>6. last \in [content : Questions \cup Drafts \cup {Nothing}, stamp : 0..clock]
  BY <1>1, <1>2, <1>3, LastTyped
<1>7. CASE awaits # 0
  <2>1. awaits = last.stamp /\ last.stamp # 0 /\ Followed(last.stamp)
    BY <1>1, <1>4, <1>7 DEF OnboardingTyped, DialogOk, DialogTold
  <2>2. PICK j \in DOMAIN talks : Follows(talks[j].messages, last.stamp)
    BY <2>1 DEF Followed
  <2>3. PICK n \in DOMAIN talks[j].messages : talks[j].messages[n].stamp = last.stamp
    BY <2>2 DEF Follows
  <2>4. last # NoMessage
    BY <2>1 DEF NoMessage
  <2>5. PICK m \in DOMAIN ms : last = [content |-> ms[m].content, stamp |-> ms[m].stamp]
    BY <1>1, <1>2, <1>3, <2>4, LastIs
  <2>6. j = i
    BY <1>1, <1>2, <1>3, <2>3, <2>5 DEF OneStampEach
  <2>7. \A a, b \in DOMAIN ms : ms[a].stamp = ms[b].stamp => a = b
    BY <1>1, <1>2, <1>3 DEF OneStampEach
  <2> QED
    BY <1>1, <1>2, <1>3, <1>5, <2>1, <2>2, <2>6, <2>7, FollowedLast
<1>8. CASE awaits = 0
  <2>1. Question(shown) = Nothing /\ draft = Nothing
    BY <1>4, <1>8 DEF Waits
  <2>2. last.content = Nothing
    BY <1>2, <1>3, <1>4, <1>6, <2>1, OnboardingAssumption DEF Question, RowTold
  <2>3. last = NoMessage
    <3>1. CASE last # NoMessage
      <4>1. PICK m \in DOMAIN ms : ms[m].role = "assistant"
                                   /\ last = [content |-> ms[m].content, stamp |-> ms[m].stamp]
        BY <1>1, <1>2, <1>3, <3>1, LastIs
      <4>2. ms[m] \in Sayings(clock)
        BY <1>3
      <4>3. ms[m].content \in Questions \cup Drafts
        BY <4>1, <4>2 DEF Sayings
      <4> QED
        BY <2>2, <4>1, <4>3, OnboardingAssumption
    <3> QED
      BY <3>1
  <2>4. \A n \in DOMAIN ms : ms[n].role = "user"
    <3>1. ~ \E n \in DOMAIN ms : /\ ms[n].role = "assistant"
                                 /\ last = [content |-> ms[n].content, stamp |-> ms[n].stamp]
      <4>1. ASSUME NEW n \in DOMAIN ms, ms[n].role = "assistant", last.content = ms[n].content
            PROVE  FALSE
        <5>1. ms[n] \in Sayings(clock)
          BY <1>3
        <5>2. ms[n].content \in Questions \cup Drafts
          BY <4>1, <5>1 DEF Sayings
        <5> QED
          BY <2>2, <4>1, <5>2, OnboardingAssumption
      <4> QED
        BY <4>1
    <3> QED
      BY <1>1, <1>2, <1>3, <3>1, LastIs
  <2>5. ms # <<>> /\ Len(ms) \in DOMAIN ms
    BY <1>3 DEF RowTold
  <2>6. IsLast(ms, "user")
    BY <2>4, <2>5 DEF IsLast
  <2> QED
    BY <1>5, <2>6
<1> QED
  BY <1>7, <1>8

(* The dialog and the agent do not wait for each other. *)
THEOREM TheyDoNotWait == OnboardingSpec => []NobodyWaits
<1>1. OnboardingInit => OnboardingTyped /\ WaitInv
  <2> SUFFICES ASSUME OnboardingInit PROVE WaitParts
    BY OnboardingTypedInit DEF WaitInv
  <2>1. OneStampEach /\ RowsTold /\ Owed /\ CallsTold
    BY DEF OnboardingInit, OneStampEach, RowsTold, Owed, Inserting, CallsTold
  <2>2. DialogTold
    BY UnknownTold DEF OnboardingInit, DialogTold
  <2> QED
    BY <2>1, <2>2 DEF WaitParts
<1>2. OnboardingTyped /\ WaitInv /\ [OnboardingNext]_onboardingVars
        => OnboardingTyped' /\ WaitInv'
  BY OnboardingTypedNext, WaitNext
<1>3. OnboardingTyped /\ WaitInv => NobodyWaits
  BY WaitSays
<1> QED
  BY <1>1, <1>2, <1>3, PTL DEF OnboardingSpec

-----------------------------------------------------------------------------
(***************************************************************************)
(* The onboarding: what was confirmed stays confirmed.                     *)
(***************************************************************************)
(* Without a dialog abandoned there is one request at a time. *)
OneCall == \A c \in calls : visible /\ c.mount = mount

(* Only the last row may be without a draft, and it is active until it has one. *)
LastRow == Len(talks)
Drafted(i) == talks[i].draft # Nothing
OpenLast == LastRow # 0 /\ ~ Drafted(LastRow)
RowsDrafted ==
    \A i \in 1..Len(talks) : /\ i < LastRow => Drafted(i)
                             /\ talks[i].status = "active" <=> ~ Drafted(i)

(* The post still has the status that it read, as far as it goes. *)
PostSeen ==
    post.phase = "read" =>
        /\ post.status \in {"active", "completed"}
        /\ post.status = "active" => ~ Drafted(post.talk)
        /\ post.status = "completed" => Drafted(post.talk)
        /\ post.talk = LastRow => latest = LastRow

(* A view with a draft is of an older row than an open one, or will be discarded; *)
(* one without is of the newest row, or will be discarded.                        *)
StartHas(v) == \E c \in calls : c.kind = "start" /\ c.phase = "ok" /\ v.row < c.view.row
Outdated(v) == Older(v) \/ StartHas(v)
ViewOpen(v) ==
    /\ v.draft # Nothing => v.row # 0 /\ Drafted(v.row)
    /\ v.draft # Nothing /\ OpenLast => latest < LastRow \/ Outdated(v)
    /\ v.draft = Nothing /\ v.row # 0 => v.row = LastRow \/ Outdated(v)

(* A request knows of its row what its handler goes by. *)
CallSeen(c) ==
    /\ c.phase \in {"prompt", "insert"} => \A i \in 1..Len(talks) : Drafted(i)
    /\ c.phase \in {"resume", "touch"} => c.talk = LastRow
    /\ c.phase \in {"read", "store"} /\ c.talk < LastRow => latest < LastRow
    /\ (c.kind = "answer" /\ OpenLast
          /\ ((c.phase = "sent" /\ latest = LastRow) \/ (c.phase = "read" /\ c.talk = LastRow)))
          => shown.row = LastRow
    /\ c.kind = "confirm" /\ c.phase = "sent" => Drafted(latest)
    /\ c.phase = "store" => Drafted(c.talk)
    /\ c.kind # "confirm" /\ c.phase \in {"dispatch", "ok"} => ViewOpen(c.view)

StayParts ==
    /\ OneCall /\ RowsDrafted /\ PostSeen
    /\ ViewOpen(shown) /\ \A n \in DOMAIN polls : ViewOpen(polls[n].view)
    /\ \A c \in calls : CallSeen(c)
StayInv == ~ Mishap({"overtaken", "abandoned"}) => StayParts

(* One request, and what becomes of it. *)
LEMMA AloneIs ==
    ASSUME CallsOk, OneCall, NEW c \in calls
    PROVE  /\ calls = {c} /\ c \in Calls(clock) /\ visible /\ c.mount = mount
           /\ \A d : Moves(c, d) => calls' = {d}
           /\ \A v : Answered(c, v) => \E d : /\ calls' = {d} /\ SameRequest(c, d)
                                              /\ d.phase = "ok" /\ d.view = v /\ d.talk = 0
                                              /\ d.lead = c.lead
           /\ Refused(c) => \E d : calls' = {d} /\ SameRequest(c, d) /\ d.phase = "failed"
<1>1. calls = {c} /\ c \in Calls(clock) /\ visible /\ c.mount = mount
  BY DEF CallsOk, CallOk, OneCall
<1>2. ASSUME NEW d, Moves(c, d) PROVE calls' = {d}
  BY <1>1, <1>2 DEF Moves
<1>3. ASSUME NEW d, Ends(c, d), SameRequest(c, d) PROVE calls' = {d}
  BY <1>1, <1>2, <1>3 DEF Ends, IsHeard, Shut, SameRequest
<1>4. ASSUME NEW v, Answered(c, v)
      PROVE  \E d : /\ calls' = {d} /\ SameRequest(c, d)
                    /\ d.phase = "ok" /\ d.view = v /\ d.talk = 0 /\ d.lead = c.lead
  <2>1. PICK d : d = [c EXCEPT !.phase = "ok", !.view = v, !.talk = 0]
    OBVIOUS
  <2>2. /\ SameRequest(c, d) /\ d.phase = "ok" /\ d.view = v /\ d.talk = 0 /\ d.lead = c.lead
        /\ Ends(c, d)
    BY <1>1, <1>4, <2>1 DEF Calls, SameRequest, Answered
  <2> QED
    BY <1>3, <2>2
<1>5. ASSUME Refused(c)
      PROVE  \E d : calls' = {d} /\ SameRequest(c, d) /\ d.phase = "failed"
  <2>1. PICK d : d = [c EXCEPT !.phase = "failed"]
    OBVIOUS
  <2>2. SameRequest(c, d) /\ d.phase = "failed" /\ Ends(c, d)
    BY <1>1, <1>5, <2>1 DEF Calls, SameRequest, Refused
  <2> QED
    BY <1>3, <2>2
<1> QED
  BY <1>1, <1>2, <1>4, <1>5

(* The handlers leave the dialog as it is. *)
LEMMA HandledStays ==
    ASSUME StayParts, DialogOk, PollsOk, NEW c \in calls, NEW d, calls' = {d}, SameRequest(c, d),
           UNCHANGED <<shown, polls, visible, mount>>,
           \A v : ViewOk(v) /\ ViewOpen(v) => ViewOpen(v)',
           RowsDrafted', PostSeen', CallSeen(d)'
    PROVE  StayParts'
<1>1. OneCall'
  BY DEF StayParts, OneCall, SameRequest
<1>2. ViewOpen(shown)'
  <2>1. PICK v : v = shown
    OBVIOUS
  <2>2. ViewOpen(v)'
    BY <2>1 DEF StayParts, DialogOk
  <2>3. shown' = v
    BY <2>1
  <2> QED
    BY <2>2, <2>3 DEF ViewOpen, Outdated, Older, StartHas
<1>3. ASSUME NEW n \in DOMAIN polls' PROVE ViewOpen(polls[n].view)'
  <2>1. PICK v : v = polls[n].view
    OBVIOUS
  <2>2. ViewOpen(v)'
    BY <2>1, <1>3 DEF StayParts, PollsOk
  <2>3. polls'[n].view = v
    BY <2>1
  <2> QED
    BY <2>2, <2>3 DEF ViewOpen, Outdated, Older, StartHas
<1>4. \A e \in calls' : CallSeen(e)'
  OBVIOUS
<1> QED
  BY <1>1, <1>2, <1>3, <1>4 DEF StayParts

(* Views stay as they were judged while rows get no draft taken, and none is opened. *)
LEMMA ViewsStay ==
    ASSUME TalksOk, Len(talks') = Len(talks), UNCHANGED shown,
           \A i \in 1..Len(talks) : Drafted(i) => Drafted(i)',
           OpenLast' /\ latest < LastRow => latest' < LastRow,
           \A c \in calls : c.kind = "start" /\ c.phase = "ok" => c \in calls'
    PROVE  \A v : ViewOk(v) /\ ViewOpen(v) => ViewOpen(v)'
<1> SUFFICES ASSUME NEW v, ViewOk(v), ViewOpen(v) PROVE ViewOpen(v)'
  OBVIOUS
<1>1. Outdated(v) => Outdated(v)'
  BY DEF Outdated, Older, StartHas
<1>2. v.row \in 0..Len(talks) /\ Len(talks) \in Nat
  BY DEF ViewOk, TalksOk
<1>3. v.row # 0 /\ Drafted(v.row) => Drafted(v.row)'
  BY <1>2
<1>4. OpenLast' => OpenLast
  BY <1>2 DEF OpenLast, LastRow
<1>5. LastRow' = LastRow
  BY DEF LastRow
<1> QED
  BY <1>1, <1>3, <1>4, <1>5 DEF ViewOpen

(* What is read of a row is in order. *)
LEMMA ViewIsOpen ==
    ASSUME TalksOk, RowsDrafted, NEW i \in 1..Len(talks), NEW v, v = View(i),
           i = latest \/ talks[i].status = "active"
    PROVE  ViewOpen(v)
<1>1. v.row = i /\ v.draft = talks[i].draft /\ Len(talks) \in Nat /\ latest \in 0..Len(talks)
  BY DEF View, TalksOk
<1> QED
  BY <1>1 DEF ViewOpen, RowsDrafted, Drafted, OpenLast, LastRow

(* A step that writes no row. *)
LEMMA ReadsKeep ==
    ASSUME TalksOk, StayParts, UNCHANGED <<talks, latest, shown, post>>,
           \A c \in calls : c.kind = "start" /\ c.phase = "ok" => c \in calls'
    PROVE  /\ \A v : ViewOk(v) /\ ViewOpen(v) => ViewOpen(v)'
           /\ RowsDrafted' /\ PostSeen'
<1>1. UNCHANGED <<LastRow, OpenLast>> /\ \A i : UNCHANGED Drafted(i)
  BY DEF LastRow, OpenLast, Drafted
<1>2. \A v : ViewOk(v) /\ ViewOpen(v) => ViewOpen(v)'
  BY <1>1, ViewsStay
<1>3. RowsDrafted'
  BY <1>1 DEF StayParts, RowsDrafted
<1>4. PostSeen'
  BY <1>1 DEF StayParts, PostSeen, Drafted
<1> QED
  BY <1>2, <1>3, <1>4

(* A start reads the rows that are active. *)
LEMMA StartReadsStays ==
    ASSUME OnboardingTyped, StayParts, NEW c \in calls, StartReads(c)
    PROVE  StayParts'
<1>a. /\ TalksOk /\ CallsOk /\ DialogOk /\ PollsOk /\ OneCall /\ RowsDrafted /\ Len(talks) \in Nat
  BY DEF OnboardingTyped, StayParts, TalksOk
<1>b. calls = {c} /\ c \in Calls(clock)
  BY <1>a, AloneIs
<1>c. DOMAIN talks = 1..Len(talks)
  BY <1>a DEF TalksOk
<1>d. c.kind = "start" /\ c.phase = "sent"
  BY DEF StartReads
<1>0. /\ TalksOk /\ CallsOk /\ DialogOk /\ PollsOk /\ OneCall /\ RowsDrafted /\ Len(talks) \in Nat
      /\ DOMAIN talks = 1..Len(talks) /\ calls = {c} /\ c \in Calls(clock)
      /\ c.kind = "start" /\ c.phase = "sent"
  BY <1>a, <1>b, <1>c, <1>d
<1>1. UNCHANGED <<talks, latest, shown, post, polls, visible, mount>>
  BY DEF StartReads, talkVars, agentVars, dialogVars
<1>2. \A b \in calls : b.kind = "start" /\ b.phase = "ok" => b \in calls'
  BY <1>0
<1>3. /\ \A v : ViewOk(v) /\ ViewOpen(v) => ViewOpen(v)'
      /\ RowsDrafted' /\ PostSeen'
  BY <1>0, <1>1, <1>2, ReadsKeep
<1>4. ASSUME NEW d, calls' = {d}, SameRequest(c, d), CallSeen(d)' PROVE StayParts'
  BY <1>0, <1>1, <1>3, <1>4, HandledStays
<1>5. CASE Active = {} /\ Moves(c, [c EXCEPT !.phase = "prompt"])
  <2>1. PICK d : d = [c EXCEPT !.phase = "prompt"]
    OBVIOUS
  <2>2. calls' = {d} /\ SameRequest(c, d) /\ d.phase = "prompt" /\ d.kind = "start"
    BY <1>0, <1>5, <2>1, AloneIs DEF Calls, SameRequest
  <2>3. \A i \in 1..Len(talks) : talks[i].draft # Nothing
    BY <1>0, <1>5 DEF Active, RowsDrafted, Drafted
  <2>4. CallSeen(d)'
    BY <1>1, <2>2, <2>3 DEF CallSeen, Drafted
  <2> QED
    BY <1>4, <2>2, <2>4
<1>6. ASSUME NEW i \in Active, Moves(c, [c EXCEPT !.phase = "resume", !.talk = i])
      PROVE  StayParts'
  <2>1. PICK d : d = [c EXCEPT !.phase = "resume", !.talk = i]
    OBVIOUS
  <2>2. calls' = {d} /\ SameRequest(c, d) /\ d.phase = "resume" /\ d.talk = i /\ d.kind = "start"
    BY <1>0, <1>6, <2>1, AloneIs DEF Calls, SameRequest
  <2>3. i = Len(talks)
    BY <1>0 DEF Active, RowsDrafted, LastRow
  <2>4. CallSeen(d)'
    BY <1>1, <2>2, <2>3 DEF CallSeen, LastRow
  <2> QED
    BY <1>4, <2>2, <2>4
<1>7. ASSUME NEW i \in Active, Answered(c, View(i))
      PROVE  StayParts'
  <2>1. PICK v : v = View(i)
    OBVIOUS
  <2>2. PICK d : calls' = {d} /\ SameRequest(c, d) /\ d.phase = "ok" /\ d.view = v
    BY <1>0, <1>7, <2>1, AloneIs
  <2>3. ViewOpen(v)'
    BY <1>0, <1>3, <2>1, ViewIs, ViewIsOpen DEF Active
  <2>4. CallSeen(d)'
    BY <1>0, <2>2, <2>3 DEF CallSeen, SameRequest
  <2> QED
    BY <1>4, <2>2, <2>4
<1> QED
  BY <1>5, <1>6, <1>7 DEF StartReads

(* An answer reads the row that was updated last. *)
LEMMA AnswerReadsStays ==
    ASSUME OnboardingTyped, StayParts, NEW c \in calls, AnswerReads(c)
    PROVE  StayParts'
<1>0. /\ TalksOk /\ CallsOk /\ DialogOk /\ PollsOk /\ OneCall /\ RowsDrafted /\ Len(talks) \in Nat
      /\ calls = {c} /\ c \in Calls(clock) /\ CallSeen(c)
      /\ c.kind = "answer" /\ c.phase = "sent" /\ latest \in 1..Len(talks)
  BY AloneIs DEF OnboardingTyped, StayParts, TalksOk, AnswerReads, CallsOk, CallOk
<1>1. UNCHANGED <<talks, latest, shown, post, polls, visible, mount>>
  BY DEF AnswerReads, talkVars, agentVars, dialogVars
<1>2. \A b \in calls : b.kind = "start" /\ b.phase = "ok" => b \in calls'
  BY <1>0
<1>3. /\ \A v : ViewOk(v) /\ ViewOpen(v) => ViewOpen(v)'
      /\ RowsDrafted' /\ PostSeen'
  BY <1>0, <1>1, <1>2, ReadsKeep
<1>4. ASSUME NEW d, calls' = {d}, SameRequest(c, d), CallSeen(d)' PROVE StayParts'
  BY <1>0, <1>1, <1>3, <1>4, HandledStays
<1>5. PICK v, e : /\ v = View(latest)
                  /\ e = [c EXCEPT !.phase = "read", !.talk = latest, !.seen = talks[latest].messages]
  OBVIOUS
<1>6. CASE Moves(c, e)
  <2>1. calls' = {e} /\ SameRequest(c, e) /\ e.phase = "read" /\ e.talk = latest
    BY <1>0, <1>5, <1>6, AloneIs DEF Calls, SameRequest
  <2>2. UNCHANGED <<OpenLast, LastRow>>
    BY <1>1 DEF OpenLast, LastRow, Drafted
  <2>3. e.talk = latest' /\ (OpenLast' /\ latest' = LastRow' => shown'.row = LastRow')
    BY <1>0, <1>1, <2>1, <2>2 DEF CallSeen
  <2>4. CallSeen(e)'
    BY <2>1, <2>3 DEF CallSeen
  <2> QED
    BY <1>4, <2>1, <2>4
<1>7. CASE Answered(c, v)
  <2>2. PICK d : calls' = {d} /\ SameRequest(c, d) /\ d.phase = "ok" /\ d.view = v
    BY <1>0, <1>7, AloneIs
  <2>3. ViewOpen(v)'
    BY <1>0, <1>3, <1>5, ViewIs, ViewIsOpen
  <2>4. CallSeen(d)'
    BY <1>0, <2>2, <2>3 DEF CallSeen, SameRequest
  <2> QED
    BY <1>4, <2>2, <2>4
<1> QED
  BY <1>5, <1>6, <1>7 DEF AnswerReads

(* The gateway stores nothing. *)
LEMMA DispatchStays ==
    ASSUME OnboardingTyped, StayParts, NEW c \in calls,
           Dispatch(c) \/ DispatchFails(c) \/ ConfirmReads(c)
    PROVE  StayParts'
<1>0. /\ TalksOk /\ CallsOk /\ DialogOk /\ PollsOk /\ OneCall /\ RowsDrafted /\ Len(talks) \in Nat
      /\ calls = {c} /\ c \in Calls(clock) /\ CallSeen(c) /\ CallOk(c)
      /\ c.phase \in {"prompt", "resume", "dispatch", "sent"}
  BY AloneIs DEF OnboardingTyped, StayParts, TalksOk, Dispatch, DispatchFails, ConfirmReads, CallsOk
<1>1. UNCHANGED <<talks, latest, shown, post, polls, visible, mount>>
  BY DEF Dispatch, DispatchFails, ConfirmReads, talkVars, agentVars, dialogVars
<1>2. \A b \in calls : b.kind = "start" /\ b.phase = "ok" => b \in calls'
  BY <1>0
<1>3. /\ \A v : ViewOk(v) /\ ViewOpen(v) => ViewOpen(v)'
      /\ RowsDrafted' /\ PostSeen'
  BY <1>0, <1>1, <1>2, ReadsKeep
<1>4. ASSUME NEW d, calls' = {d}, SameRequest(c, d), CallSeen(d)' PROVE StayParts'
  BY <1>0, <1>1, <1>3, <1>4, HandledStays
<1>5. CASE Refused(c)
  <2>1. PICK d : calls' = {d} /\ SameRequest(c, d) /\ d.phase = "failed"
    BY <1>0, <1>5, AloneIs
  <2>2. CallSeen(d)'
    BY <2>1 DEF CallSeen
  <2> QED
    BY <1>4, <2>1, <2>2
<1>6. CASE Dispatch(c)
  <2>1. PICK e : e = [c EXCEPT !.phase = IF c.phase = "prompt" THEN "insert" ELSE "touch"]
    OBVIOUS
  <2>2. /\ SameRequest(c, e) /\ e.talk = c.talk
        /\ e.phase = IF c.phase = "prompt" THEN "insert" ELSE "touch"
    BY <1>0, <2>1 DEF Calls, SameRequest
  <2>3. CASE c.phase = "dispatch"
    <3>1. Answered(c, c.view) /\ c.kind = "answer"
      BY <1>0, <1>6, <2>3, PhaseKind DEF Dispatch
    <3>2. PICK d : calls' = {d} /\ SameRequest(c, d) /\ d.phase = "ok" /\ d.view = c.view
      BY <1>0, <3>1, AloneIs
    <3>3. ViewOpen(c.view)'
      BY <1>0, <1>3, <2>3, <3>1 DEF CallSeen, CallOk
    <3>4. CallSeen(d)'
      BY <3>1, <3>2, <3>3 DEF CallSeen, SameRequest
    <3> QED
      BY <1>4, <3>2, <3>4
  <2>4. CASE c.phase # "dispatch"
    <3>1. Moves(c, e) /\ c.phase \in {"prompt", "resume"}
      BY <1>6, <2>1, <2>4 DEF Dispatch
    <3>2. calls' = {e}
      BY <1>0, <3>1, AloneIs
    <3>3. CallSeen(e)'
      BY <1>0, <1>1, <2>2, <3>1 DEF CallSeen, Drafted, LastRow
    <3> QED
      BY <1>4, <2>2, <3>2, <3>3
  <2> QED
    BY <2>3, <2>4
<1>7. CASE ConfirmReads(c)
  <2>1. PICK d : d = [c EXCEPT !.phase = "store", !.talk = latest, !.lead = talks[latest].draft]
    OBVIOUS
  <2>2. SameRequest(c, d) /\ d.talk = latest /\ d.phase = "store"
    BY <1>0, <2>1 DEF Calls, SameRequest
  <2>3. calls' = {d}
    BY <1>0, <1>7, <2>1, AloneIs DEF ConfirmReads
  <2>4. Drafted(latest)
    BY <1>0, <1>7 DEF CallSeen, ConfirmReads
  <2>5. CallSeen(d)'
    BY <1>1, <2>2, <2>4 DEF CallSeen, Drafted
  <2> QED
    BY <1>4, <2>2, <2>3, <2>5
<1> QED
  BY <1>5, <1>6, <1>7 DEF DispatchFails

(* An answer makes its row the latest, which an older row is not yet if it is open. *)
LEMMA AnswerCommitsStays ==
    ASSUME OnboardingTyped, OnboardingTyped', StayParts, NEW c \in calls, AnswerCommits(c)
    PROVE  StayParts'
<1>a. /\ TalksOk /\ CallsOk /\ DialogOk /\ PollsOk /\ OneCall /\ RowsDrafted /\ Len(talks) \in Nat
      /\ PostOk /\ PostSeen /\ ViewOpen(shown) /\ CallSeen(c) /\ CallOk(c)
      /\ c.kind = "answer" /\ c.phase = "read" /\ latest \in 0..Len(talks) /\ TalksOk'
  BY DEF OnboardingTyped, StayParts, TalksOk, CallsOk, AnswerCommits
<1>b. calls = {c} /\ c \in Calls(clock) /\ c.talk \in 1..Len(talks)
  BY <1>a, AloneIs DEF CallOk
<1>1. UNCHANGED <<shown, post, polls, visible, mount>> /\ latest' = c.talk
  BY DEF AnswerCommits, agentVars, dialogVars
<1>2. /\ Len(talks') = Len(talks)
      /\ \A i \in 1..Len(talks) : talks'[i].draft = talks[i].draft /\ talks'[i].status = talks[i].status
  <2>1. PICK ms : talks' = [talks EXCEPT ![c.talk].messages = ms]
    BY DEF AnswerCommits
  <2>2. talks \in Seq(Talks(clock))
    BY <1>a DEF TalksOk
  <2>3. ASSUME NEW i \in 1..Len(talks)
        PROVE  talks'[i].draft = talks[i].draft /\ talks'[i].status = talks[i].status
    <3>1. talks[i] = [status |-> talks[i].status, draft |-> talks[i].draft,
                      messages |-> talks[i].messages]
      BY <1>a, RowIs
    <3>2. talks'[i] = talks[i] \/ talks'[i] = [talks[i] EXCEPT !.messages = ms]
      BY <2>1, <2>2
    <3> QED
      BY <3>1, <3>2
  <2> QED
    BY <2>1, <2>2, <2>3
<1>3. /\ LastRow' = LastRow /\ (OpenLast' <=> OpenLast)
      /\ \A i \in 1..Len(talks) : Drafted(i)' <=> Drafted(i)
  BY <1>a, <1>2 DEF LastRow, OpenLast, Drafted
<1>4. RowsDrafted'
  BY <1>a, <1>2, <1>3 DEF RowsDrafted
<1>5. PostSeen'
  <2>1. post.phase = "read" => post.talk \in 1..Len(talks)
    BY <1>a DEF PostOk
  <2>2. c.talk < LastRow => latest < LastRow
    BY <1>a DEF CallSeen
  <2>3. latest = LastRow => c.talk = LastRow
    BY <1>a, <1>b, <2>2 DEF LastRow
  <2> QED
    BY <1>1, <1>3, <1>a, <2>1, <2>3 DEF PostSeen
<1>6. \A v : ViewOk(v) /\ ViewOpen(v) => ViewOpen(v)'
  <2> SUFFICES ASSUME NEW v, ViewOk(v), ViewOpen(v) PROVE ViewOpen(v)'
    OBVIOUS
  <2>1. v.row \in 0..Len(talks) /\ shown.row \in 0..Len(talks)
    BY <1>a DEF ViewOk, DialogOk
  <2>2. ~ StartHas(v)
    BY <1>a, <1>b DEF StartHas
  <2>3. Older(v) => Outdated(v)'
    BY <1>1 DEF Outdated, Older
  <2>4. v.draft # Nothing => v.row # 0 /\ Drafted(v.row)'
    BY <1>3, <2>1 DEF ViewOpen
  <2>5. ASSUME v.draft # Nothing, OpenLast, c.talk = LastRow PROVE Older(v)
    <3>1. shown.row = LastRow
      BY <1>a, <2>5 DEF CallSeen
    <3>2. v.row # LastRow
      BY <2>5 DEF ViewOpen, OpenLast
    <3> QED
      BY <1>a, <2>1, <3>1, <3>2 DEF Older, LastRow
  <2>6. c.talk = LastRow \/ c.talk < LastRow
    BY <1>a, <1>b DEF LastRow
  <2> QED
    BY <1>1, <1>3, <2>2, <2>3, <2>4, <2>5, <2>6 DEF ViewOpen, Outdated
<1>7. PICK v, d : /\ v = View(c.talk)'
                  /\ d = [c EXCEPT !.phase = "dispatch", !.seen = <<>>, !.view = v]
  OBVIOUS
<1>8. SameRequest(c, d) /\ d.phase = "dispatch" /\ d.view = v /\ d.kind = "answer"
  BY <1>a, <1>b, <1>7 DEF Calls, SameRequest
<1>9. calls' = {d}
  <2>1. Moves(c, d)
    BY <1>7 DEF AnswerCommits
  <2> QED
    BY <1>a, <2>1, AloneIs
<1>10. ViewOpen(v)'
  <2>1. v.row = c.talk /\ v.draft = talks'[c.talk].draft
    BY <1>7 DEF View
  <2>2. c.talk = LastRow \/ c.talk < LastRow
    BY <1>a, <1>b DEF LastRow
  <2>3. v.draft # Nothing <=> Drafted(c.talk)
    BY <1>b, <1>2, <2>1 DEF Drafted
  <2>4. c.talk # 0
    BY <1>b
  <2> QED
    BY <1>1, <1>3, <1>a, <1>b, <2>1, <2>2, <2>3, <2>4 DEF ViewOpen, RowsDrafted, OpenLast
<1>11. CallSeen(d)'
  BY <1>8, <1>10 DEF CallSeen
<1> QED
  BY <1>a, <1>1, <1>4, <1>5, <1>6, <1>8, <1>9, <1>11, HandledStays

(* A start makes its row the latest, and the newest. *)
LEMMA StartCommitsStays ==
    ASSUME OnboardingTyped, StayParts, NEW c \in calls, StartCommits(c)
    PROVE  StayParts'
<1>a. /\ TalksOk /\ CallsOk /\ DialogOk /\ PollsOk /\ OneCall /\ RowsDrafted /\ Len(talks) \in Nat
      /\ PostOk /\ PostSeen /\ ViewOpen(shown) /\ CallSeen(c) /\ CallOk(c)
      /\ c.phase \in {"insert", "touch"} /\ latest \in 0..Len(talks)
  BY DEF OnboardingTyped, StayParts, TalksOk, CallsOk, StartCommits
<1>b. calls = {c} /\ c \in Calls(clock) /\ c.kind = "start"
      /\ (c.phase = "touch" => c.talk \in 1..Len(talks))
  BY <1>a, AloneIs, PhaseKind DEF CallOk
<1>1. UNCHANGED <<shown, post, polls, visible, mount>>
  BY DEF StartCommits, agentVars, dialogVars
<1>2. PICK v : v = View(latest)'
  OBVIOUS
<1>3. PICK d : calls' = {d} /\ SameRequest(c, d) /\ d.phase = "ok" /\ d.view = v
  <2>1. Answered(c, v)
    BY <1>2 DEF StartCommits
  <2> QED
    BY <1>a, <2>1, AloneIs
<1>4. d \in calls' /\ d.kind = "start" /\ v.row = latest' /\ v.draft = talks'[latest'].draft
  BY <1>b, <1>2, <1>3 DEF SameRequest, View
<1>5. ASSUME ViewOpen(v)' PROVE CallSeen(d)'
  BY <1>3, <1>4, <1>5 DEF CallSeen
<1>6. \A w : w.row < latest' => Outdated(w)'
  BY <1>3, <1>4 DEF Outdated, StartHas
<1>7. \A w : ~ StartHas(w)
  BY <1>a, <1>b DEF StartHas
<1>8. \A w : ViewOk(w) => w.row \in 0..Len(talks)
  BY DEF ViewOk
<1>9. CASE c.phase = "insert"
  <2>1. PICK row : /\ row.draft = Nothing /\ row.status = "active" /\ talks' = Append(talks, row)
                   /\ latest' = Len(talks')
    <3>1. PICK row : row = [status |-> "active", draft |-> Nothing,
                            messages |-> <<Message("user", "prompt")>>]
      OBVIOUS
    <3> QED
      BY <1>9, <3>1 DEF StartCommits
  <2>2. talks \in Seq(Talks(clock))
    BY <1>a DEF TalksOk
  <2>3. /\ Len(talks') = Len(talks) + 1 /\ talks'[Len(talks) + 1] = row
        /\ \A i \in 1..Len(talks) : talks'[i] = talks[i]
    BY <2>1, <2>2
  <2>4. LastRow' = Len(talks) + 1 /\ latest' = LastRow' /\ ~ Drafted(LastRow)'
        /\ \A i \in 1..Len(talks) : Drafted(i)
    BY <1>9, <1>a, <2>1, <2>3 DEF LastRow, Drafted, CallSeen
  <2>5. \A i \in 1..Len(talks) : Drafted(i)'
    BY <2>3, <2>4 DEF Drafted
  <2>6. RowsDrafted'
    <3> SUFFICES ASSUME NEW i \in 1..Len(talks')
                 PROVE  /\ i < LastRow' => Drafted(i)'
                        /\ talks'[i].status = "active" <=> ~ Drafted(i)'
      BY DEF RowsDrafted
    <3>1. CASE i = Len(talks) + 1
      BY <1>a, <2>1, <2>3, <2>4, <3>1 DEF Drafted
    <3>2. CASE i # Len(talks) + 1
      BY <1>a, <2>3, <2>4, <2>5, <3>2 DEF RowsDrafted
    <3> QED
      BY <3>1, <3>2
  <2>7. PostSeen'
    <3>1. post.phase = "read" => post.talk \in 1..Len(talks)
      BY <1>a DEF PostOk
    <3>2. PICK i : i = post.talk
      OBVIOUS
    <3>3. post.phase = "read" => /\ i # LastRow' /\ Drafted(i) /\ Drafted(i)'
                                 /\ post.status = "completed"
      BY <1>a, <2>4, <2>5, <3>1, <3>2 DEF PostSeen
    <3> QED
      BY <1>1, <3>2, <3>3 DEF PostSeen
  <2>8. \A w : ViewOk(w) /\ ViewOpen(w) => ViewOpen(w)'
    <3> SUFFICES ASSUME NEW w, ViewOk(w), ViewOpen(w) PROVE ViewOpen(w)'
      OBVIOUS
    <3>1. w.row \in 0..Len(talks)
      BY <1>8
    <3>2. Outdated(w)'
      BY <1>6, <1>a, <2>4, <3>1
    <3>3. w.draft # Nothing => w.row # 0 /\ Drafted(w.row)'
      BY <2>5, <3>1 DEF ViewOpen
    <3> QED
      BY <3>2, <3>3 DEF ViewOpen
  <2>9. ViewOpen(v)'
    BY <1>4, <2>1, <2>3, <2>4 DEF ViewOpen
  <2>10. CallSeen(d)'
    BY <1>5, <2>9
  <2> QED
    BY <1>a, <1>1, <1>3, <2>6, <2>7, <2>8, <2>10, HandledStays
<1>10. CASE c.phase = "touch"
  <2>1. UNCHANGED talks /\ latest' = LastRow
    BY <1>10, <1>a DEF StartCommits, CallSeen
  <2>2. UNCHANGED <<LastRow, OpenLast, RowsDrafted>> /\ \A i : UNCHANGED Drafted(i)
    BY <2>1 DEF LastRow, OpenLast, RowsDrafted, Drafted
  <2>3. PostSeen'
    BY <1>1, <1>a, <2>1, <2>2 DEF PostSeen, LastRow, Drafted
  <2>4. \A w : ViewOk(w) /\ ViewOpen(w) => ViewOpen(w)'
    <3> SUFFICES ASSUME NEW w, ViewOk(w), ViewOpen(w) PROVE ViewOpen(w)'
      OBVIOUS
    <3>1. w.row \in 0..Len(talks)
      BY <1>8
    <3>2. w.draft # Nothing /\ OpenLast => Outdated(w)'
      <4>1. w.draft # Nothing /\ OpenLast => w.row # LastRow
        BY DEF ViewOpen, OpenLast
      <4> QED
        BY <1>6, <1>a, <2>1, <3>1, <4>1 DEF LastRow
    <3>3. Outdated(w) => Outdated(w)'
      BY <1>1, <1>7 DEF Outdated, Older
    <3> QED
      BY <2>2, <3>2, <3>3 DEF ViewOpen
  <2>5. ViewOpen(v)'
    <3>1. v.row = LastRow /\ v.row # 0 /\ v.draft = talks[LastRow].draft
      BY <1>4, <1>10, <1>a, <1>b, <2>1 DEF CallSeen, LastRow
    <3>2. v.draft # Nothing => Drafted(v.row) /\ ~ OpenLast
      BY <3>1 DEF Drafted, OpenLast
    <3> QED
      BY <2>2, <3>1, <3>2 DEF ViewOpen
  <2>6. CallSeen(d)'
    BY <1>5, <2>5
  <2> QED
    BY <1>a, <1>1, <1>3, <2>2, <2>3, <2>4, <2>6, HandledStays DEF StayParts
<1> QED
  BY <1>a, <1>9, <1>10

(* What is confirmed has its draft. *)
LEMMA ConfirmCommitsStays ==
    ASSUME OnboardingTyped, StayParts, NEW c \in calls, ConfirmCommits(c)
    PROVE  StayParts'
<1>a. /\ TalksOk /\ CallsOk /\ DialogOk /\ PollsOk /\ OneCall /\ RowsDrafted /\ Len(talks) \in Nat
      /\ PostOk /\ PostSeen /\ CallSeen(c) /\ CallOk(c)
      /\ c.phase = "store" /\ latest \in 0..Len(talks)
  BY DEF OnboardingTyped, StayParts, TalksOk, CallsOk, ConfirmCommits
<1>b. calls = {c} /\ c \in Calls(clock) /\ c.talk \in 1..Len(talks) /\ Drafted(c.talk)
      /\ c.kind = "confirm"
  BY <1>a, AloneIs, PhaseKind DEF CallOk, CallSeen
<1>1. UNCHANGED <<shown, post, polls, visible, mount>> /\ latest' = c.talk
      /\ (Answered(c, c.view) \/ Refused(c))
  BY DEF ConfirmCommits, agentVars, dialogVars
<1>2. /\ Len(talks') = Len(talks)
      /\ \A i \in 1..Len(talks) :
            /\ talks'[i].draft = talks[i].draft
            /\ talks'[i].status = IF i = c.talk THEN "confirmed" ELSE talks[i].status
  <2>1. talks' = [talks EXCEPT ![c.talk].status = "confirmed"]
    BY DEF ConfirmCommits
  <2>2. talks \in Seq(Talks(clock))
    BY <1>a DEF TalksOk
  <2>3. ASSUME NEW i \in 1..Len(talks)
        PROVE  /\ talks'[i].draft = talks[i].draft
               /\ talks'[i].status = IF i = c.talk THEN "confirmed" ELSE talks[i].status
    <3>1. talks[i] = [status |-> talks[i].status, draft |-> talks[i].draft,
                      messages |-> talks[i].messages]
      BY <1>a, RowIs
    <3>2. talks'[i] = IF i = c.talk THEN [talks[i] EXCEPT !.status = "confirmed"] ELSE talks[i]
      BY <2>1, <2>2
    <3> QED
      BY <3>1, <3>2
  <2> QED
    BY <2>1, <2>2, <2>3
<1>3. /\ LastRow' = LastRow /\ (OpenLast' <=> OpenLast)
      /\ \A i \in 1..Len(talks) : Drafted(i)' <=> Drafted(i)
  BY <1>a, <1>2 DEF LastRow, OpenLast, Drafted
<1>4. RowsDrafted'
  BY <1>a, <1>b, <1>2, <1>3 DEF RowsDrafted
<1>5. PostSeen'
  <2>1. post.phase = "read" => post.talk \in 1..Len(talks)
    BY <1>a DEF PostOk
  <2>2. latest = LastRow => c.talk = LastRow
    BY <1>a, <1>b DEF CallSeen, LastRow
  <2> QED
    BY <1>1, <1>3, <1>a, <2>1, <2>2 DEF PostSeen
<1>6. \A v : ViewOk(v) /\ ViewOpen(v) => ViewOpen(v)'
  <2>1. OpenLast' => latest' < LastRow
    BY <1>a, <1>b, <1>1, <1>3 DEF OpenLast, LastRow
  <2>2. \A b \in calls : b.kind = "start" /\ b.phase = "ok" => b \in calls'
    BY <1>a, <1>b
  <2> QED
    BY <1>a, <1>1, <1>2, <1>3, <2>1, <2>2, ViewsStay
<1>7. PICK d : calls' = {d} /\ SameRequest(c, d) /\ d.phase \in {"ok", "failed"}
  BY <1>a, <1>1, AloneIs
<1>8. CallSeen(d)'
  BY <1>b, <1>7 DEF CallSeen, SameRequest
<1> QED
  BY <1>a, <1>1, <1>4, <1>5, <1>6, <1>7, <1>8, HandledStays

(* A dialog that shows what came back, which is not older than what it shows. *)
LEMMA ShownStays ==
    ASSUME OnboardingTyped, StayParts, NEW v, ViewOk(v), ViewOpen(v), shown' = v, ~ Older(v),
           UNCHANGED <<talks, latest, post, visible, mount>>,
           \A c \in calls : c.kind = "start" /\ c.phase = "ok" => c \in calls' \/ c.view = v,
           calls' \subseteq calls,
           \A n \in DOMAIN polls' : \E k \in DOMAIN polls : polls'[n] = polls[k]
    PROVE  StayParts'
<1>0. /\ TalksOk /\ CallsOk /\ DialogOk /\ PollsOk /\ OneCall /\ RowsDrafted /\ Len(talks) \in Nat
      /\ v.row \in 0..Len(talks) /\ shown.row \in 0..Len(talks)
      /\ v.last.stamp \in Nat /\ shown.last.stamp \in Nat
  BY DEF OnboardingTyped, StayParts, TalksOk, ViewOk, DialogOk, Views
<1>1. UNCHANGED <<LastRow, OpenLast, RowsDrafted, PostSeen>> /\ \A i : UNCHANGED Drafted(i)
  BY DEF LastRow, OpenLast, RowsDrafted, PostSeen, Drafted
<1>2. shown.row <= v.row /\ shown.last.stamp <= v.last.stamp
  BY <1>0 DEF Older
<1>3. ASSUME NEW w, ViewOk(w), ViewOpen(w) PROVE ViewOpen(w)'
  <2>1. w.row \in 0..Len(talks) /\ w.last.stamp \in Nat
    BY <1>3 DEF ViewOk, Views
  <2>2. Older(w) => Older(w)'
    BY <1>0, <1>2, <2>1 DEF Older
  <2>3. StartHas(w) => StartHas(w)' \/ Older(w)'
    BY DEF StartHas, Older
  <2> QED
    BY <1>1, <1>3, <2>2, <2>3 DEF ViewOpen, Outdated
<1>4. OneCall'
  BY <1>0 DEF OneCall
<1>5. ViewOpen(shown)'
  <2>1. ViewOpen(v)'
    BY <1>3
  <2> QED
    BY <2>1 DEF ViewOpen, Outdated, Older, StartHas
<1>6. ASSUME NEW n \in DOMAIN polls' PROVE ViewOpen(polls[n].view)'
  <2>1. PICK k \in DOMAIN polls : polls'[n] = polls[k]
    BY <1>6
  <2>2. PICK w : w = polls[k].view
    OBVIOUS
  <2>3. ViewOpen(w)'
    BY <1>0, <1>3, <2>2 DEF StayParts, PollsOk
  <2>4. polls'[n].view = w
    BY <2>1, <2>2
  <2> QED
    BY <2>3, <2>4 DEF ViewOpen, Outdated, Older, StartHas
<1>7. ASSUME NEW c \in calls' PROVE CallSeen(c)'
  <2>1. CallSeen(c) /\ CallOk(c)
    BY <1>0 DEF StayParts, CallsOk
  <2>2. c.kind # "confirm" /\ c.phase \in {"dispatch", "ok"} => ViewOpen(c.view)'
    BY <1>3, <2>1 DEF CallSeen, CallOk
  <2>3. shown.row = LastRow => shown'.row = LastRow'
    BY <1>0, <1>1, <1>2 DEF LastRow
  <2> QED
    BY <1>1, <2>1, <2>2, <2>3 DEF CallSeen
<1> QED
  BY <1>1, <1>4, <1>5, <1>6, <1>7 DEF StayParts

(* The dialog that is closed leaves nothing behind: it is not abandoned. *)
LEMMA ClosedStays ==
    ASSUME OnboardingTyped, StayParts, NEW remaining \in SUBSET calls, Unmounted(remaining),
           "abandoned" \notin mishaps', UNCHANGED <<talks, latest, post>>
    PROVE  StayParts'
<1>1. calls' = {} /\ polls' = <<>> /\ shown' = Unknown
  BY DEF Unmounted, StayParts, OneCall
<1>2. UNCHANGED <<RowsDrafted, PostSeen>>
  BY DEF LastRow, RowsDrafted, PostSeen, Drafted
<1>3. ViewOpen(shown)'
  BY <1>1 DEF ViewOpen, Unknown
<1> QED
  BY <1>1, <1>2, <1>3 DEF StayParts, OneCall

(* The user. *)
LEMMA UserStays ==
    ASSUME OnboardingTyped, StayParts, UserSteps, "abandoned" \notin mishaps'
    PROVE  StayParts'
<1>0. /\ TalksOk /\ CallsOk /\ DialogOk /\ PollsOk /\ OneCall /\ RowsDrafted /\ Len(talks) \in Nat
      /\ ViewOpen(shown) /\ latest \in 0..Len(talks) /\ (talks # <<>> => latest # 0)
  BY DEF OnboardingTyped, StayParts, TalksOk
<1>1. CASE CloseDialog
  <2>1. UNCHANGED <<talks, latest, post>>
    BY <1>1 DEF CloseDialog, talkVars, agentVars
  <2> QED
    BY <1>1, <2>1, ClosedStays DEF CloseDialog
(* A request that is sent when there is none. *)
<1>2. ASSUME calls = {}, NEW d, calls' = {d}, UNCHANGED <<talks, latest, post, shown, polls>>,
             visible', d.mount = mount', CallSeen(d)'
      PROVE  StayParts'
  <2>1. \A c \in calls : c.kind = "start" /\ c.phase = "ok" => c \in calls'
    BY <1>2
  <2>2. /\ \A v : ViewOk(v) /\ ViewOpen(v) => ViewOpen(v)'
        /\ RowsDrafted' /\ PostSeen'
    BY <1>0, <1>2, <2>1, ReadsKeep
  <2>3. ViewOpen(shown)'
    <3>1. PICK v : v = shown
      OBVIOUS
    <3>2. ViewOpen(v)' /\ shown' = v
      BY <1>0, <1>2, <2>2, <3>1 DEF DialogOk
    <3> QED
      BY <3>2 DEF ViewOpen, Outdated, Older, StartHas
  <2>4. ASSUME NEW n \in DOMAIN polls' PROVE ViewOpen(polls[n].view)'
    <3>1. PICK v : v = polls[n].view
      OBVIOUS
    <3>2. ViewOpen(v)' /\ polls'[n].view = v
      BY <1>0, <1>2, <2>2, <2>4, <3>1 DEF StayParts, PollsOk
    <3> QED
      BY <3>2 DEF ViewOpen, Outdated, Older, StartHas
  <2>5. OneCall'
    BY <1>2 DEF OneCall
  <2> QED
    BY <1>2, <2>2, <2>3, <2>4, <2>5 DEF StayParts
<1>3. CASE OpenDialog
  <2>1. calls = {}
    BY <1>0, <1>3 DEF OneCall, OpenDialog
  <2>2. PICK d : d = Call(mount', "start", Nothing)
    OBVIOUS
  <2>3. d.kind = "start" /\ d.phase = "sent" /\ d.mount = mount'
    BY <2>2 DEF Call
  <2>4. CallSeen(d)'
    BY <2>3 DEF CallSeen
  <2>5. UNCHANGED <<talks, latest, post, shown, polls>> /\ visible' /\ calls' = {d}
    BY <1>3, <2>1, <2>2 DEF OpenDialog, talkVars, agentVars, dialogVars
  <2> QED
    BY <1>2, <2>1, <2>3, <2>4, <2>5
<1>4. ASSUME ~ Loading PROVE calls = {}
  BY <1>0, <1>4 DEF OneCall, Loading
<1>5. ASSUME UNCHANGED <<talks, latest, shown>>
      PROVE  UNCHANGED <<LastRow, OpenLast>> /\ \A i : UNCHANGED Drafted(i)
  BY <1>5 DEF LastRow, OpenLast, Drafted
<1>6. ASSUME calls = {} PROVE ~ Outdated(shown)
  BY <1>0, <1>6 DEF Outdated, Older, StartHas, DialogOk, ViewOk, Views
<1>7. CASE \E content \in Replies : Submit(content)
  <2>1. PICK content \in Replies : Submit(content)
    BY <1>7
  <2>2. calls = {}
    BY <1>4, <2>1 DEF Submit
  <2>3. PICK d : d = Call(mount, "answer", content)
    OBVIOUS
  <2>4. d.kind = "answer" /\ d.phase = "sent" /\ d.mount = mount
    BY <2>3 DEF Call
  <2>5. /\ UNCHANGED <<talks, latest, post, shown, polls, mount, visible>>
        /\ visible /\ calls' = {d}
    BY <2>1, <2>2, <2>3 DEF Submit, talkVars, agentVars, Offers, OffersDraft
  <2>6. ASSUME OpenLast, latest = LastRow PROVE shown.row = LastRow
    <3>1. shown.draft = Nothing
      BY <1>0, <1>6, <2>2, <2>6 DEF ViewOpen, LastRow
    <3>2. shown.row # 0
      <4>1. shown.last.content # Nothing
        BY <2>1, <3>1 DEF Submit, Offers, OffersDraft, Question
      <4> QED
        BY <1>0, <4>1 DEF DialogOk, ViewOk, Unknown, NoMessage
    <3> QED
      BY <1>0, <1>6, <2>2, <3>1, <3>2 DEF ViewOpen
  <2>7. CallSeen(d)'
    BY <1>5, <2>4, <2>5, <2>6 DEF CallSeen
  <2> QED
    BY <1>2, <2>2, <2>4, <2>5, <2>7
<1>8. CASE Confirm
  <2>1. calls = {}
    BY <1>4, <1>8 DEF Confirm
  <2>2. PICK d : d = Call(mount, "confirm", shown.draft)
    OBVIOUS
  <2>3. d.kind = "confirm" /\ d.phase = "sent" /\ d.mount = mount
    BY <2>2 DEF Call
  <2>4. /\ UNCHANGED <<talks, latest, post, shown, polls, mount, visible>>
        /\ visible /\ calls' = {d} /\ shown.draft # Nothing
    BY <1>8, <2>1, <2>2 DEF Confirm, talkVars, agentVars, dialogVars, OffersDraft
  <2>5. Drafted(latest)
    <3>1. shown.row # 0 /\ shown.row \in 0..Len(talks)
      BY <1>0, <2>4 DEF ViewOpen, DialogOk, ViewOk
    <3>2. latest \in 1..Len(talks)
      BY <1>0, <3>1
    <3>3. latest = LastRow => ~ OpenLast
      BY <1>0, <1>6, <2>1, <2>4 DEF ViewOpen, LastRow
    <3>4. latest = LastRow \/ latest < LastRow
      BY <1>0 DEF LastRow
    <3> QED
      BY <1>0, <3>2, <3>3, <3>4 DEF RowsDrafted, OpenLast
  <2>6. CallSeen(d)'
    BY <1>5, <2>3, <2>4, <2>5 DEF CallSeen
  <2> QED
    BY <1>2, <2>1, <2>3, <2>4, <2>6
<1> QED
  BY <1>1, <1>3, <1>7, <1>8 DEF UserSteps

(* The agent. *)
LEMMA AgentStays ==
    ASSUME OnboardingTyped, StayParts, AgentSteps
    PROVE  StayParts'
<1>0. /\ TalksOk /\ CallsOk /\ DialogOk /\ PollsOk /\ PostOk /\ OneCall /\ RowsDrafted /\ PostSeen
      /\ Len(talks) \in Nat /\ ViewOpen(shown) /\ latest \in 0..Len(talks)
  BY DEF OnboardingTyped, StayParts, TalksOk
<1>1. UNCHANGED <<shown, polls, visible, mount, calls>>
  BY DEF AgentSteps, AgentSays, AgentRefused, AgentReads, AgentCommits, dialogVars
(* Rows that may have got a draft, which makes them complete. *)
<1>2. ASSUME Len(talks') = Len(talks), RowsDrafted', PostSeen',
             \A i \in 1..Len(talks) : Drafted(i) => Drafted(i)',
             latest < LastRow => latest' < LastRow,
             latest' = latest \/ latest' \in 1..Len(talks)
      PROVE  StayParts'
  <2>1. \A v : ViewOk(v) /\ ViewOpen(v) => ViewOpen(v)'
    BY <1>0, <1>1, <1>2, ViewsStay
  <2>2. LastRow' = LastRow /\ (OpenLast' => OpenLast)
    BY <1>0, <1>2 DEF LastRow, OpenLast
  <2>3. ViewOpen(shown)'
    <3>1. PICK v : v = shown
      OBVIOUS
    <3>2. ViewOpen(v)' /\ shown' = v
      BY <1>0, <1>1, <2>1, <3>1 DEF DialogOk
    <3> QED
      BY <3>2 DEF ViewOpen, Outdated, Older, StartHas
  <2>4. ASSUME NEW n \in DOMAIN polls' PROVE ViewOpen(polls[n].view)'
    <3>1. PICK v : v = polls[n].view
      OBVIOUS
    <3>2. ViewOpen(v)' /\ polls'[n].view = v
      BY <1>0, <1>1, <2>1, <2>4, <3>1 DEF StayParts, PollsOk
    <3> QED
      BY <3>2 DEF ViewOpen, Outdated, Older, StartHas
  <2>5. OneCall'
    BY <1>0, <1>1 DEF OneCall
  <2>6. ASSUME NEW c \in calls' PROVE CallSeen(c)'
    <3>1. CallSeen(c) /\ CallOk(c) /\ c \in calls
      BY <1>0, <1>1 DEF StayParts, CallsOk
    <3>2. c.kind # "confirm" /\ c.phase \in {"dispatch", "ok"} => ViewOpen(c.view)'
      BY <2>1, <3>1 DEF CallSeen, CallOk
    <3>3. latest' = LastRow => latest = LastRow
      BY <1>0, <1>2 DEF LastRow
    <3>4. c.phase = "store" => Drafted(c.talk)'
      BY <1>2, <3>1 DEF CallSeen, CallOk
    <3>5. c.phase \in {"prompt", "insert"} => \A i \in 1..Len(talks) : Drafted(i)'
      BY <1>2, <3>1 DEF CallSeen
    <3>6. c.kind = "confirm" /\ c.phase = "sent" => Drafted(latest)'
      <4> SUFFICES ASSUME c.kind = "confirm", c.phase = "sent" PROVE Drafted(latest)'
        OBVIOUS
      <4>1. PICK i, j : i = latest /\ j = latest'
        OBVIOUS
      <4>2. Drafted(i) /\ i \in 1..Len(talks) /\ j \in 1..Len(talks)
        BY <1>0, <1>2, <3>1, <4>1 DEF CallSeen, CallOk
      <4>3. Drafted(j)
        BY <1>0, <1>2, <4>1, <4>2 DEF RowsDrafted, LastRow
      <4>4. Drafted(j)'
        BY <1>2, <4>2, <4>3
      <4> QED
        BY <4>1, <4>4 DEF Drafted
    <3>7. c.phase \in {"read", "store"} /\ c.talk < LastRow => latest' < LastRow
      BY <1>2, <3>1 DEF CallSeen
    <3>8. (c.kind = "answer" /\ OpenLast'
             /\ ((c.phase = "sent" /\ latest' = LastRow) \/ (c.phase = "read" /\ c.talk = LastRow)))
             => shown.row = LastRow
      BY <2>2, <3>1, <3>3 DEF CallSeen
    <3>9. c.phase \in {"resume", "touch"} => c.talk = LastRow
      BY <3>1 DEF CallSeen
    <3> QED
      BY <1>1, <1>2, <2>2, <3>2, <3>4, <3>5, <3>6, <3>7, <3>8, <3>9 DEF CallSeen
  <2> QED
    BY <1>2, <2>3, <2>4, <2>5, <2>6 DEF StayParts
<1>3. ASSUME UNCHANGED <<talks, latest>>, PostSeen' PROVE StayParts'
  <2>1. UNCHANGED RowsDrafted /\ \A i : UNCHANGED Drafted(i)
    BY <1>3 DEF LastRow, RowsDrafted, Drafted
  <2> QED
    BY <1>0, <1>2, <1>3, <2>1
<1>4. ASSUME post'.phase # "read" PROVE PostSeen'
  BY <1>4 DEF PostSeen
<1>5. CASE AgentRefused \/ \E content \in Questions \cup Drafts, answers \in BOOLEAN :
                             AgentSays(content, answers)
  <2>1. ASSUME NEW content, NEW answers, AgentSays(content, answers)
        PROVE  post'.phase # "read" /\ UNCHANGED <<talks, latest>>
    <3>1. PICK p : p = [NoPost EXCEPT !.phase = "sent", !.content = content]
      OBVIOUS
    <3>2. p.phase = "sent" /\ post' = p
      BY <2>1, <3>1 DEF AgentSays, NoPost
    <3> QED
      BY <2>1, <3>2 DEF AgentSays, talkVars
  <2>2. CASE AgentRefused
    BY <1>3, <1>4, <2>2 DEF AgentRefused, NoPost, talkVars
  <2> QED
    BY <1>3, <1>4, <1>5, <2>1, <2>2
<1>6. CASE AgentReads
  <2>0. latest \in 1..Len(talks) /\ talks[latest].status # "confirmed" /\ UNCHANGED latest
    BY <1>0, <1>6 DEF AgentReads
  <2>1. CASE /\ post' = [post EXCEPT !.phase = "read", !.talk = latest,
                                     !.seen = talks[latest].messages, !.status = talks[latest].status]
             /\ UNCHANGED talks
    <3>1. post'.talk = latest /\ post'.status = talks[latest].status
      BY <1>0, <2>1 DEF PostOk
    <3>2. PICK i, s : i = latest /\ s = talks[latest].status
      OBVIOUS
    <3>3. s \in {"active", "completed"} /\ (s = "active" <=> ~ Drafted(i))
      BY <1>0, <2>0, <3>2, RowIs DEF RowsDrafted
    <3>4. Drafted(i) = Drafted(i)'
      BY <2>1 DEF Drafted
    <3>5. PostSeen'
      BY <2>0, <2>1, <3>1, <3>2, <3>3, <3>4 DEF PostSeen
    <3> QED
      BY <1>3, <2>0, <2>1, <3>5
  <2>2. CASE /\ post' = NoPost /\ post.content \in Drafts
             /\ talks' = [talks EXCEPT ![latest].status = "completed", ![latest].draft = post.content]
    <3>1. talks \in Seq(Talks(clock))
      BY <1>0 DEF TalksOk
    <3>2. PICK i, e : i = latest /\ e = post.content /\ e \in Drafts /\ e # Nothing
      BY <2>2, OnboardingAssumption
    <3>3. Len(talks') = Len(talks) /\ \A j \in 1..Len(talks) : j # i => talks'[j] = talks[j]
      BY <2>2, <3>1, <3>2
    <3>4. talks'[i].draft = e /\ talks'[i].status = "completed"
      <4>1. talks[i] = [status |-> talks[i].status, draft |-> talks[i].draft,
                        messages |-> talks[i].messages]
        BY <1>0, <2>0, <3>2, RowIs
      <4>2. PICK row : row = [talks[i] EXCEPT !.status = "completed", !.draft = e]
        OBVIOUS
      <4>3. row.draft = e /\ row.status = "completed"
        BY <4>1, <4>2
      <4>4. talks' = [talks EXCEPT ![i] = row]
        BY <2>0, <2>2, <3>1, <3>2, <4>2
      <4>5. talks'[i] = row
        BY <2>0, <3>1, <3>2, <4>4
      <4> QED
        BY <4>3, <4>5
    <3>5. \A j \in 1..Len(talks) : Drafted(j) => Drafted(j)'
      BY <3>2, <3>3, <3>4 DEF Drafted
    <3>6. RowsDrafted'
      <4> SUFFICES ASSUME NEW j \in 1..Len(talks)
                   PROVE  /\ j < LastRow => Drafted(j)'
                          /\ talks'[j].status = "active" <=> ~ Drafted(j)'
        BY <3>3 DEF RowsDrafted, LastRow
      <4>1. CASE j = i
        BY <3>2, <3>4, <4>1 DEF Drafted
      <4>2. CASE j # i
        BY <1>0, <3>3, <4>2 DEF RowsDrafted, Drafted
      <4> QED
        BY <4>1, <4>2
    <3>7. PostSeen'
      BY <1>4, <2>2 DEF NoPost
    <3> QED
      BY <1>2, <2>0, <3>3, <3>5, <3>6, <3>7
  <2>3. CASE post' = NoPost /\ UNCHANGED talks
    BY <1>3, <1>4, <2>0, <2>3 DEF NoPost
  <2> QED
    BY <1>6, <2>1, <2>2, <2>3 DEF AgentReads
<1>7. CASE AgentCommits
  <2>1. PICK i, s, e, said : /\ i = post.talk /\ s = post.status /\ e = post.content
                             /\ said = Append(post.seen, Message("assistant", post.content))
    OBVIOUS
  <2>2. i \in 1..Len(talks) /\ e \in Questions \cup Drafts /\ latest' = i /\ post' = NoPost
        /\ post.phase = "read"
    BY <1>0, <1>7, <2>1 DEF AgentCommits, PostOk
  <2>3. talks' = [talks EXCEPT ![i] =
                    IF e \in Drafts
                    THEN [status |-> IF s = "completed" THEN @.status ELSE "completed",
                          messages |-> said, draft |-> e]
                    ELSE [@ EXCEPT !.messages = said]]
    BY <1>7, <2>1 DEF AgentCommits
  <2>4. talks \in Seq(Talks(clock))
    BY <1>0 DEF TalksOk
  <2>5. Len(talks') = Len(talks) /\ \A j \in 1..Len(talks) : j # i => talks'[j] = talks[j]
    BY <2>3, <2>4
  <2>6. /\ talks'[i].draft = IF e \in Drafts THEN e ELSE talks[i].draft
        /\ talks'[i].status = IF e \in Drafts /\ s # "completed" THEN "completed"
                              ELSE talks[i].status
    <3>1. talks[i] = [status |-> talks[i].status, draft |-> talks[i].draft,
                      messages |-> talks[i].messages]
      BY <1>0, <2>2, RowIs
    <3>2. CASE e \in Drafts
      <4>1. talks'[i] = [status |-> IF s = "completed" THEN talks[i].status ELSE "completed",
                         messages |-> said, draft |-> e]
        BY <2>2, <2>3, <2>4, <3>2
      <4> QED
        BY <3>2, <4>1
    <3>3. CASE e \notin Drafts
      <4>1. talks'[i] = [talks[i] EXCEPT !.messages = said]
        BY <2>2, <2>3, <2>4, <3>3
      <4> QED
        BY <3>1, <3>3, <4>1
    <3> QED
      BY <3>2, <3>3
  <2>7. e \in Drafts => e # Nothing
    BY OnboardingAssumption
  <2>8. \A j \in 1..Len(talks) : Drafted(j) => Drafted(j)'
    BY <2>5, <2>6, <2>7 DEF Drafted
  <2>9. /\ s \in {"active", "completed"} /\ (s = "completed" => Drafted(i))
        /\ (i = LastRow => latest = LastRow)
    BY <1>0, <2>1, <2>2 DEF PostSeen
  <2>10. RowsDrafted'
    <3> SUFFICES ASSUME NEW j \in 1..Len(talks)
                 PROVE  /\ j < LastRow => Drafted(j)'
                        /\ talks'[j].status = "active" <=> ~ Drafted(j)'
      BY <2>5 DEF RowsDrafted, LastRow
    <3>1. CASE j = i
      BY <1>0, <2>2, <2>6, <2>7, <2>9, <3>1 DEF RowsDrafted, Drafted
    <3>2. CASE j # i
      BY <1>0, <2>5, <3>2 DEF RowsDrafted, Drafted
    <3> QED
      BY <3>1, <3>2
  <2>11. PostSeen'
    BY <1>4, <2>2 DEF NoPost
  <2>12. latest < LastRow => latest' < LastRow
    BY <1>0, <2>2, <2>9 DEF LastRow
  <2> QED
    BY <1>2, <2>2, <2>5, <2>8, <2>10, <2>11, <2>12
<1> QED
  BY <1>5, <1>6, <1>7 DEF AgentSteps

(* The answers to the dialog. *)
LEMMA ReturnsStay ==
    ASSUME OnboardingTyped, StayParts, NEW c \in calls, Returns(c),
           mishaps' \cap {"overtaken", "abandoned"} = {}
    PROVE  StayParts'
<1>0. /\ TalksOk /\ CallsOk /\ DialogOk /\ PollsOk /\ OneCall /\ CallOk(c) /\ CallSeen(c)
      /\ ViewOpen(shown) /\ ViewOk(c.view)
  BY DEF OnboardingTyped, StayParts, CallsOk, CallOk
<1>1. calls = {c}
  BY <1>0, AloneIs
<1>2. UNCHANGED <<talks, latest, post, mount>>
  BY DEF Returns, CallReturns, CallFails, talkVars, agentVars
<1>3. CASE Unmounted(calls \ {c})
  BY <1>2, <1>3, ClosedStays
<1>4. CASE CallFails(c)
  <2>1. calls' = {} /\ UNCHANGED <<shown, polls, visible>> /\ c.phase = "failed"
    BY <1>1, <1>4 DEF CallFails, dialogVars
  <2>2. \A b \in calls : b.kind = "start" /\ b.phase = "ok" => b \in calls'
    BY <1>1, <2>1
  <2>3. /\ \A v : ViewOk(v) /\ ViewOpen(v) => ViewOpen(v)'
        /\ RowsDrafted' /\ PostSeen'
    BY <1>0, <1>2, <2>1, <2>2, ReadsKeep
  <2>4. ViewOpen(shown)'
    <3>1. PICK v : v = shown
      OBVIOUS
    <3>2. ViewOpen(v)' /\ shown' = v
      BY <1>0, <2>1, <2>3, <3>1 DEF DialogOk
    <3> QED
      BY <3>2 DEF ViewOpen, Outdated, Older, StartHas
  <2>5. ASSUME NEW n \in DOMAIN polls' PROVE ViewOpen(polls[n].view)'
    <3>1. PICK v : v = polls[n].view
      OBVIOUS
    <3>2. ViewOpen(v)' /\ polls'[n].view = v
      BY <1>0, <2>1, <2>3, <2>5, <3>1 DEF StayParts, PollsOk
    <3> QED
      BY <3>2 DEF ViewOpen, Outdated, Older, StartHas
  <2> QED
    BY <2>1, <2>3, <2>4, <2>5 DEF StayParts, OneCall
<1>5. ASSUME NEW waits, NEW answer, Shows(c.view, waits, answer), UNCHANGED <<visible, polls>>,
             c.phase = "ok", c.kind # "confirm", calls' = calls \ {c}
      PROVE  StayParts'
  <2>1. PICK v : v = c.view
    OBVIOUS
  <2>2. shown' = v /\ ~ Older(v) /\ ViewOk(v) /\ ViewOpen(v)
    BY <1>0, <1>5, <2>1 DEF Shows, CallSeen
  <2>3. calls' = {} /\ \A b \in calls : b.view = v
    BY <1>1, <1>5, <2>1
  <2> QED
    BY <1>2, <1>5, <2>2, <2>3, ShownStays
<1>6. CASE CallReturns(c)
  <2>1. c.phase = "ok"
    BY <1>6 DEF CallReturns
  <2>2. CASE /\ c.kind = "start" /\ calls' = calls \ {c} /\ Shows(c.view, awaits, submitted)
             /\ UNCHANGED <<visible, polls>>
    <3>1. PICK waits, answer : waits = awaits /\ answer = submitted
      OBVIOUS
    <3> QED
      BY <1>5, <2>1, <2>2, <3>1
  <2>3. CASE /\ c.kind = "answer" /\ calls' = calls \ {c} /\ Shows(c.view, c.before, TRUE)
             /\ UNCHANGED <<visible, polls>>
    BY <1>5, <2>1, <2>3
  <2> QED
    BY <1>3, <1>6, <2>2, <2>3 DEF CallReturns
<1> QED
  BY <1>4, <1>6 DEF Returns

(* The polls. *)
LEMMA PollingStays ==
    ASSUME OnboardingTyped, StayParts, Polling, "overtaken" \notin mishaps'
    PROVE  StayParts'
<1>0. /\ TalksOk /\ CallsOk /\ DialogOk /\ PollsOk /\ OneCall /\ RowsDrafted /\ ViewOpen(shown)
      /\ polls \in Seq([read : BOOLEAN, view : Views]) /\ latest \in 0..Len(talks)
      /\ Len(talks) \in Nat
  BY DEF OnboardingTyped, StayParts, PollsOk, TalksOk
<1>1. UNCHANGED <<talks, latest, post, mount, visible, calls>>
  BY DEF Polling, PollSent, PollReads, PollReturns, talkVars, agentVars
<1>2. UNCHANGED <<LastRow, OpenLast, RowsDrafted, PostSeen>> /\ \A i : UNCHANGED Drafted(i)
  BY <1>1 DEF LastRow, OpenLast, RowsDrafted, PostSeen, Drafted
<1>3. ASSUME UNCHANGED shown,
             \A n \in DOMAIN polls' : ViewOpen(polls'[n].view)
      PROVE  StayParts'
  <2>1. \A v : UNCHANGED ViewOpen(v)
    BY <1>1, <1>2, <1>3 DEF ViewOpen, Outdated, Older, StartHas
  <2>2. \A c \in calls : UNCHANGED CallSeen(c)
    BY <1>1, <1>2, <1>3, <2>1 DEF CallSeen
  <2>3. ViewOpen(shown)'
    <3>1. PICK v : v = shown
      OBVIOUS
    <3>2. ViewOpen(v)' /\ shown' = v
      BY <1>0, <1>3, <2>1, <3>1
    <3> QED
      BY <3>2 DEF ViewOpen, Outdated, Older, StartHas
  <2>4. ASSUME NEW n \in DOMAIN polls' PROVE ViewOpen(polls[n].view)'
    <3>1. PICK v : v = polls'[n].view
      OBVIOUS
    <3>2. ViewOpen(v)'
      BY <1>3, <2>1, <2>4, <3>1
    <3> QED
      BY <3>1, <3>2 DEF ViewOpen, Outdated, Older, StartHas
  <2> QED
    BY <1>1, <1>2, <2>2, <2>3, <2>4 DEF StayParts, OneCall
<1>4. ViewOpen(Unknown)
  BY DEF ViewOpen, Unknown
<1>5. CASE PollSent
  <2>1. PICK p : p = [read |-> FALSE, view |-> Unknown]
    OBVIOUS
  <2>2. polls' = Append(polls, p) /\ ViewOpen(p.view) /\ UNCHANGED shown
    BY <1>4, <1>5, <2>1 DEF PollSent, dialogVars
  <2>3. \A n \in DOMAIN polls' : polls'[n] = p \/ (n \in DOMAIN polls /\ polls'[n] = polls[n])
    BY <1>0, <2>2
  <2>4. \A n \in DOMAIN polls' : ViewOpen(polls'[n].view)
    BY <2>2, <2>3 DEF StayParts
  <2> QED
    BY <1>3, <2>2, <2>4
<1>6. CASE \E n \in DOMAIN polls : PollReads(n)
  <2>1. PICK n \in DOMAIN polls : PollReads(n)
    BY <1>6
  <2>2. PICK v : v = IF latest = 0 THEN Unknown ELSE View(latest)
    OBVIOUS
  <2>3. polls' = [polls EXCEPT ![n].read = TRUE, ![n].view = v] /\ UNCHANGED shown
    BY <2>1, <2>2 DEF PollReads, dialogVars
  <2>4. ViewOpen(v)
    BY <1>0, <1>4, <2>2, ViewIsOpen
  <2>5. polls[n] \in [read : BOOLEAN, view : Views]
    <3> DEFINE T == [read : BOOLEAN, view : Views]
    <3>1. polls \in Seq(T)
      BY <1>0
    <3> HIDE DEF T
    <3>2. polls[n] \in T
      BY <3>1
    <3> QED
      BY <3>2 DEF T
  <2>6. \A m \in DOMAIN polls' :
           m \in DOMAIN polls /\ polls'[m].view = IF m = n THEN v ELSE polls[m].view
    BY <2>3, <2>5
  <2>7. \A m \in DOMAIN polls' : ViewOpen(polls'[m].view)
    BY <2>4, <2>6 DEF StayParts
  <2> QED
    BY <1>3, <2>3, <2>7
<1>7. CASE \E n \in DOMAIN polls : PollReturns(n)
  <2>1. PICK n \in DOMAIN polls : PollReturns(n)
    BY <1>7
  <2>2. PICK ps, qs : ps = polls /\ qs = polls'
    OBVIOUS
  <2>3. \A k \in DOMAIN qs : \E j \in DOMAIN ps : qs[k] = ps[j]
    <3> DEFINE T == [read : BOOLEAN, view : Views]
    <3>1. ps \in Seq(T) /\ n \in DOMAIN ps
          /\ qs = [k \in 1..Len(ps) - 1 |-> IF k < n THEN ps[k] ELSE ps[k + 1]]
      BY <1>0, <2>1, <2>2 DEF PollReturns
    <3> HIDE DEF T
    <3> QED
      BY <3>1, PollsCloseUp
  <2>4. CASE polls[n].view # Unknown
    <3>1. PICK v, waits, answer : v = polls[n].view /\ waits = awaits /\ answer = submitted
      OBVIOUS
    <3>2. Shows(v, waits, answer) /\ ViewOk(v) /\ ViewOpen(v)
      BY <1>0, <2>1, <2>4, <3>1 DEF PollReturns, PollsOk, StayParts
    <3>3. shown' = v /\ ~ Older(v)
      BY <3>2 DEF Shows
    <3> QED
      BY <1>1, <2>2, <2>3, <3>2, <3>3, ShownStays
  <2>5. CASE polls[n].view = Unknown
    <3>1. UNCHANGED shown
      BY <2>1, <2>5 DEF PollReturns
    <3>2. \A k \in DOMAIN polls' : ViewOpen(polls'[k].view)
      BY <2>2, <2>3 DEF StayParts
    <3> QED
      BY <1>3, <3>1, <3>2
  <2> QED
    BY <2>4, <2>5
<1> QED
  BY <1>5, <1>6, <1>7 DEF Polling

(* Every step. *)
LEMMA StayNext ==
    ASSUME OnboardingTyped, StayInv, [OnboardingNext]_onboardingVars
    PROVE  StayInv'
<1> SUFFICES ASSUME ~ Mishap({"overtaken", "abandoned"})' PROVE StayParts'
  BY DEF StayInv
<1>1. /\ StayParts /\ "overtaken" \notin mishaps' /\ "abandoned" \notin mishaps'
      /\ mishaps' \cap {"overtaken", "abandoned"} = {}
  BY MishapsGrow DEF StayInv, Mishap
<1>2. OnboardingTyped'
  BY OnboardingTypedNext
<1>3. ASSUME NEW c \in calls, Handles(c) PROVE StayParts'
  BY <1>1, <1>2, <1>3, StartReadsStays, AnswerReadsStays, AnswerCommitsStays, DispatchStays,
     StartCommitsStays, ConfirmCommitsStays DEF Handles
<1>4. CASE UNCHANGED onboardingVars
  <2>1. UNCHANGED <<talks, latest, calls, post, shown, polls, mount, visible>>
    BY <1>4 DEF onboardingVars, talkVars, agentVars, dialogVars
  <2>2. UNCHANGED <<LastRow, OpenLast, RowsDrafted, PostSeen>> /\ \A i : UNCHANGED Drafted(i)
    BY <2>1 DEF LastRow, OpenLast, RowsDrafted, PostSeen, Drafted
  <2>3. \A v : UNCHANGED ViewOpen(v)
    BY <2>1, <2>2 DEF ViewOpen, Outdated, Older, StartHas
  <2>4. \A c : UNCHANGED CallSeen(c)
    BY <2>1, <2>2, <2>3 DEF CallSeen
  <2>5. UNCHANGED OneCall
    BY <2>1 DEF OneCall
  <2> QED
    BY <1>1, <2>1, <2>2, <2>3, <2>4, <2>5 DEF StayParts, ViewOpen, Outdated, Older, StartHas
<1> QED
  BY <1>1, <1>3, <1>4, AgentStays, UserStays, ReturnsStay, PollingStays DEF OnboardingNext

(* What was confirmed stays confirmed. *)
LEMMA ConfirmedStep ==
    ASSUME OnboardingTyped, StayInv, [OnboardingNext]_onboardingVars,
           NEW i \in DOMAIN talks, talks[i].status = "confirmed"
    PROVE  talks'[i].status = "confirmed" \/ mishaps \cap {"overtaken", "abandoned"} # {}
<1> SUFFICES ASSUME ~ Mishap({"overtaken", "abandoned"}) PROVE talks'[i].status = "confirmed"
  BY DEF Mishap
<1>1. /\ TalksOk /\ CallsOk /\ PostOk /\ RowsDrafted /\ PostSeen /\ talks \in Seq(Talks(clock))
      /\ i \in 1..Len(talks)
  BY DEF StayInv, StayParts, OnboardingTyped, TalksOk
<1>2. PICK row : row = talks[i]
  OBVIOUS
<1>3. row = [status |-> "confirmed", draft |-> row.draft, messages |-> row.messages]
  BY <1>1, <1>2, RowIs
<1>4. CASE UNCHANGED talks
  BY <1>4
<1>5. ASSUME NEW c \in calls, Handles(c) PROVE talks'[i].status = "confirmed"
  <2>1. CASE AnswerCommits(c)
    <3>1. PICK ms : talks' = [talks EXCEPT ![c.talk].messages = ms]
      BY <2>1 DEF AnswerCommits
    <3>2. talks'[i] = row \/ talks'[i] = [row EXCEPT !.messages = ms]
      BY <1>1, <1>2, <3>1
    <3> QED
      BY <1>3, <3>2
  <2>2. CASE StartCommits(c)
    <3>1. CASE c.phase = "insert"
      <4>1. PICK new : talks' = Append(talks, new)
        BY <2>2, <3>1 DEF StartCommits
      <4> QED
        BY <1>1, <4>1
    <3>2. CASE c.phase = "touch"
      BY <1>4, <2>2, <3>2 DEF StartCommits
    <3> QED
      BY <2>2, <3>1, <3>2 DEF StartCommits
  <2>3. CASE ConfirmCommits(c)
    <3>1. talks' = [talks EXCEPT ![c.talk].status = "confirmed"]
      BY <2>3 DEF ConfirmCommits
    <3>2. talks'[i] = row \/ talks'[i] = [row EXCEPT !.status = "confirmed"]
      BY <1>1, <1>2, <3>1
    <3> QED
      BY <1>3, <3>2
  <2> QED
    BY <1>4, <1>5, <2>1, <2>2, <2>3
    DEF Handles, StartReads, AnswerReads, Dispatch, DispatchFails, ConfirmReads, talkVars
<1>6. CASE AgentReads
  <2>1. CASE talks' = [talks EXCEPT ![latest].status = "completed", ![latest].draft = post.content]
    <3>1. i # latest
      BY <1>6 DEF AgentReads
    <3> QED
      BY <1>1, <2>1, <3>1
  <2> QED
    BY <1>4, <1>6, <2>1 DEF AgentReads
<1>7. CASE AgentCommits
  <2>1. PICK k, s, e, said : /\ k = post.talk /\ s = post.status /\ e = post.content
                             /\ said = Append(post.seen, Message("assistant", post.content))
    OBVIOUS
  <2>2. talks' = [talks EXCEPT ![k] =
                    IF e \in Drafts
                    THEN [status |-> IF s = "completed" THEN @.status ELSE "completed",
                          messages |-> said, draft |-> e]
                    ELSE [@ EXCEPT !.messages = said]]
    BY <1>7, <2>1 DEF AgentCommits
  <2>3. k = i => s = "completed"
    BY <1>1, <1>7, <2>1 DEF AgentCommits, PostSeen, RowsDrafted
  <2>4. CASE k = i
    <3>1. talks'[i] = IF e \in Drafts
                      THEN [status |-> row.status, messages |-> said, draft |-> e]
                      ELSE [row EXCEPT !.messages = said]
      BY <1>1, <1>2, <2>2, <2>3, <2>4
    <3>2. [row EXCEPT !.messages = said].status = "confirmed"
      BY <1>3
    <3> QED
      BY <1>3, <3>1, <3>2
  <2>5. CASE k # i
    BY <1>1, <2>2, <2>5
  <2> QED
    BY <2>4, <2>5
<1> QED
  BY <1>4, <1>5, <1>6, <1>7
  DEF OnboardingNext, AgentSteps, AgentSays, AgentRefused, Returns, CallReturns, CallFails, UserSteps,
      OpenDialog, CloseDialog, Submit, Confirm, Polling, PollSent, PollReads, PollReturns,
      onboardingVars, talkVars

(* A confirmed conversation stays confirmed. *)
THEOREM ConfirmedIsKept == OnboardingSpec => ConfirmedStays
<1>1. OnboardingInit => OnboardingTyped /\ StayInv
  <2> SUFFICES ASSUME OnboardingInit PROVE StayParts
    BY OnboardingTypedInit DEF StayInv
  <2>1. ViewOpen(shown)
    BY DEF OnboardingInit, ViewOpen, Unknown
  <2> QED
    BY <2>1 DEF OnboardingInit, StayParts, OneCall, RowsDrafted, PostSeen, NoPost
<1>2. OnboardingTyped /\ StayInv /\ [OnboardingNext]_onboardingVars
        => /\ OnboardingTyped' /\ StayInv'
           /\ \A i \in DOMAIN talks :
                talks[i].status = "confirmed"
                  => talks'[i].status = "confirmed" \/ mishaps \cap {"overtaken", "abandoned"} # {}
  BY OnboardingTypedNext, StayNext, ConfirmedStep
<1> QED
  BY <1>1, <1>2, PTL DEF OnboardingSpec, ConfirmedStays

-----------------------------------------------------------------------------
(***************************************************************************)
(* The onboarding: the goal and the lead come from one draft.              *)
(***************************************************************************)
(* What the agent has still to answer, or to say: one thing at a time. *)
Tokens == inbox + (IF post.phase = "none" THEN 0 ELSE 1)

(* The conversation as it is, without anything of the agent, and as the one who   *)
(* waits for the stamp w knows it.                                                *)
Cur == IF latest = 0 THEN Unknown ELSE View(latest)
Blank(v) == v.last.stamp = 0 /\ v.draft = Nothing
Stuck(w, v) == IF w = 0 THEN Blank(v) ELSE v.last.stamp = w

(* A row that is not the latest, or whose post was read before, is an old one. *)
LastBlank == talks[LastRow].status = "active" /\ Blank(View(LastRow))
RowsOne ==
    /\ latest # LastRow => LastBlank
    /\ \A i \in 1..Len(talks) : talks[i].status = "active" => i = latest \/ i = LastRow
    /\ post.phase = "read" =>
          \/ post.talk = latest /\ post.seen = talks[latest].messages
          \/ post.talk < LastRow /\ latest = LastRow /\ LastBlank
    /\ \A i \in 1..Len(talks) : Told(View(i))

(* A request that has not told the agent anything yet finds it silent. *)
StartOne(c) ==
    c.kind = "start" =>
      /\ awaits = 0 /\ ~ submitted
      /\ c.phase \in {"sent", "prompt", "resume"} => Tokens = 0
      /\ c.phase \in {"prompt", "insert"} => Active = {}
      /\ c.phase # "touch"
AnswerOne(c) ==
    c.kind = "answer" =>
      /\ c.before # 0
      /\ c.phase \in {"sent", "read", "dispatch"} => Tokens = 0 /\ Cur.last.stamp = c.before
      /\ c.phase = "read" => c.talk = latest /\ c.seen = talks[latest].messages
      /\ c.phase \in {"dispatch", "ok"} => c.view.last.stamp = c.before
ConfirmOne(c) ==
    c.kind = "confirm" =>
      /\ c.phase \in {"sent", "store"} => Tokens = 0 /\ talks[latest].draft = c.content
      /\ c.phase = "store" => c.talk = latest /\ c.lead = c.content
CallOne(c) == StartOne(c) /\ AnswerOne(c) /\ ConfirmOne(c)

(* What the dialog waits for, or will when its answer has come back. *)
IsAnswer(c) == c.kind = "answer" /\ c.phase = "ok"
Awaited(w) ==
    IF \E c \in calls : IsAnswer(c) THEN \E c \in calls : IsAnswer(c) /\ w = c.before
    ELSE w = awaits

(* A view is what is waited on, or is the conversation that nobody will change but  *)
(* the user, or will be discarded.                                                  *)
UpToNow(v) == v = Cur /\ Tokens = 0
ViewOne(w, v) == Stuck(w, v) \/ UpToNow(v) \/ Outdated(v)
Agreed(w) ==
    /\ Tokens = 1 => Stuck(w, Cur)
    /\ ViewOne(w, shown)
    /\ \A n \in DOMAIN polls : polls[n].read => ViewOne(w, polls[n].view)
    /\ \A c \in calls : c.kind # "confirm" /\ c.phase = "ok" => ViewOne(w, c.view)

OneParts ==
    /\ OneCall /\ goal.board = goal.lead /\ Tokens \in {0, 1} /\ (submitted => awaits # 0)
    /\ RowsOne /\ \A c \in calls : CallOne(c)
    /\ visible /\ ~ Inserting => \A w : Awaited(w) => Agreed(w)
OneInv ==
    ~ Mishap({"unasked", "resent", "overtaken", "abandoned", "reopened"}) => OneParts

(* While nothing is stored, sent or said the conversation is the same. *)
LEMMA OneKeeps ==
    ASSUME OneParts, UNCHANGED <<talks, latest, inbox, post>>
    PROVE  RowsOne' /\ Tokens' = Tokens /\ Cur' = Cur /\ Active' = Active
<1>1. Tokens' = Tokens /\ Active' = Active /\ LastRow' = LastRow
  BY DEF Tokens, Active, LastRow
<1>2. \A i : View(i)' = View(i)
  BY DEF View
<1>3. Cur' = Cur
  BY DEF Cur, View
<1>4. LastBlank' = LastBlank
  BY <1>1 DEF LastBlank, View, LastRow
<1>5. \A i \in 1..Len(talks) : Told(View(i))'
  <2> SUFFICES ASSUME NEW i \in 1..Len(talks) PROVE Told(View(i))'
    OBVIOUS
  <2>1. Told(View(i))
    BY DEF OneParts, RowsOne
  <2> QED
    BY <2>1 DEF Told, View
<1> QED
  BY <1>1, <1>3, <1>4, <1>5 DEF OneParts, RowsOne

(* Who waits for what, with one request at most. *)
LEMMA AwaitedIs ==
    ASSUME NEW c, calls = {c}, NEW w
    PROVE  Awaited(w) <=> w = IF IsAnswer(c) THEN c.before ELSE awaits
BY DEF Awaited

(* The same, of the next state. *)
LEMMA AwaitedNext ==
    ASSUME NEW d, calls' = {d}, NEW w
    PROVE  Awaited(w)' <=> w = IF IsAnswer(d) THEN d.before ELSE awaits'
<1>1. IsAnswer(d)' = IsAnswer(d)
  BY DEF IsAnswer
<1> QED
  BY <1>1 DEF Awaited

(* The handlers leave the dialog as it is. *)
LEMMA OneHandled ==
    ASSUME OneParts, NEW c \in calls, NEW d, calls' = {d}, SameRequest(c, d),
           UNCHANGED <<awaits, submitted, visible, mount>>, RowsOne', Tokens' \in {0, 1},
           goal'.board = goal'.lead, CallOne(d)',
           d.phase # "insert" => \A w : Awaited(w)' => Agreed(w)'
    PROVE  OneParts'
<1>1. OneCall'
  BY DEF OneParts, OneCall, SameRequest
<1>2. d.phase = "insert" => Inserting'
  BY DEF Inserting
<1> QED
  BY <1>1, <1>2 DEF OneParts

(* What the dialog knows stays agreed upon. *)
LEMMA AgreedStays ==
    ASSUME DialogOk, PollsOk, NEW w, NEW u, Agreed(w), NEW d, calls' = {d},
           UNCHANGED <<shown, polls>>,
           \A v : ViewOk(v) /\ ViewOne(w, v) => ViewOne(u, v)',
           Tokens' = 1 => Stuck(u, Cur'),
           d.kind # "confirm" /\ d.phase = "ok" => ViewOne(u, d.view)'
    PROVE  Agreed(u)'
<1>1. ViewOne(u, shown)'
  <2>1. PICK v : v = shown
    OBVIOUS
  <2>2. ViewOne(u, v)' /\ shown' = v
    BY <2>1 DEF Agreed, DialogOk
  <2> QED
    BY <2>2 DEF ViewOne, UpToNow, Outdated, Older, StartHas
<1>2. ASSUME NEW n \in DOMAIN polls', polls'[n].read PROVE ViewOne(u, polls[n].view)'
  <2>1. PICK v : v = polls[n].view
    OBVIOUS
  <2>2. ViewOne(u, v)' /\ polls'[n].view = v
    BY <2>1, <1>2 DEF Agreed, PollsOk
  <2> QED
    BY <2>2 DEF ViewOne, UpToNow, Outdated, Older, StartHas
<1>3. Tokens' = 1 => Stuck(u, Cur)'
  BY DEF Stuck, Blank
<1> QED
  BY <1>1, <1>2, <1>3 DEF Agreed

(* Views stay as they were judged while nothing is said or shown. *)
LEMMA ViewsOne ==
    ASSUME Cur' = Cur, Tokens' = Tokens, UNCHANGED shown, NEW w,
           \A c \in calls : c.kind = "start" /\ c.phase = "ok" => c \in calls'
    PROVE  \A v : ViewOne(w, v) => ViewOne(w, v)'
<1> SUFFICES ASSUME NEW v, ViewOne(w, v) PROVE ViewOne(w, v)'
  OBVIOUS
<1>1. Outdated(v) => Outdated(v)'
  BY DEF Outdated, Older, StartHas
<1>2. UpToNow(v) => UpToNow(v)'
  BY DEF UpToNow
<1>3. Stuck(w, v)' = Stuck(w, v)
  BY DEF Stuck, Blank
<1> QED
  BY <1>1, <1>2, <1>3 DEF ViewOne

(* Nothing of what the one who answered knew before remains to be shown. *)
LEMMA ViewsAnswered ==
    ASSUME DialogOk, UNCHANGED shown, NEW w \in Nat, w # 0, w <= shown.last.stamp,
           \A v : UpToNow(v) => UpToNow(v)' \/ v.last.stamp = w,
           \A c \in calls : ~ (c.kind = "start" /\ c.phase = "ok")
    PROVE  \A v : ViewOk(v) /\ ViewOne(0, v) => ViewOne(w, v)'
<1> SUFFICES ASSUME NEW v, ViewOk(v), ViewOne(0, v) PROVE ViewOne(w, v)'
  OBVIOUS
<1>1. v.last.stamp \in Nat /\ shown.last.stamp \in Nat
  BY DEF DialogOk, ViewOk, Views
<1>2. CASE Stuck(0, v)
  <2>1. Older(v)'
    BY <1>1, <1>2 DEF Stuck, Blank, Older
  <2> QED
    BY <2>1 DEF ViewOne, Outdated
<1>3. CASE UpToNow(v)
  BY <1>3 DEF ViewOne, Stuck
<1>4. CASE Outdated(v)
  <2>1. Older(v)'
    BY <1>4 DEF Outdated, Older, StartHas
  <2> QED
    BY <2>1 DEF ViewOne, Outdated
<1> QED
  BY <1>2, <1>3, <1>4 DEF ViewOne

(* A request that goes on, while nothing is said. *)
LEMMA OneMoves ==
    ASSUME OnboardingTyped, OneParts, NEW c \in calls, NEW d, calls' = {d}, SameRequest(c, d),
           UNCHANGED <<talks, latest, post, inbox, goal, shown, awaits, submitted, polls, visible,
                       mount>>,
           c.phase \notin {"ok", "insert"}, ~ IsAnswer(d), CallOne(d)',
           d.kind # "confirm" /\ d.phase = "ok" => \A w : w = awaits => ViewOne(w, d.view)'
    PROVE  OneParts'
<1>0. CallsOk /\ DialogOk /\ PollsOk /\ OneCall
  BY DEF OnboardingTyped, OneParts
<1>1. calls = {c} /\ visible
  BY <1>0, AloneIs
<1>2. RowsOne' /\ Tokens' = Tokens /\ Cur' = Cur
  BY OneKeeps
<1>3. ASSUME NEW w, Awaited(w)' PROVE Agreed(w)'
  <2>1. w = awaits
    BY <1>3, AwaitedNext
  <2>2. ~ IsAnswer(c) /\ ~ Inserting
    BY <1>1 DEF IsAnswer, Inserting
  <2>3. Awaited(w)
    BY <1>1, <2>1, <2>2, AwaitedIs
  <2>4. Agreed(w)
    BY <1>1, <2>2, <2>3 DEF OneParts
  <2>5. \A v : ViewOne(w, v) => ViewOne(w, v)'
    BY <1>1, <1>2, ViewsOne
  <2>6. Tokens' = 1 => Stuck(w, Cur')
    BY <1>2, <2>4 DEF Agreed
  <2> QED
    BY <1>0, <2>1, <2>4, <2>5, <2>6, AgreedStays
<1> QED
  BY <1>2, <1>3, OneHandled DEF OneParts

(* A start finds the row that the dialog is to show. *)
LEMMA StartReadsOne ==
    ASSUME OnboardingTyped, OneParts, NEW c \in calls, StartReads(c)
    PROVE  OneParts'
<1>a. /\ TalksOk /\ CallsOk /\ OneCall /\ RowsOne /\ StartOne(c) /\ Len(talks) \in Nat
      /\ latest \in 0..Len(talks)
  BY DEF OnboardingTyped, OneParts, TalksOk, CallOne
<1>b. c.kind = "start" /\ c.phase = "sent" /\ DOMAIN talks = 1..Len(talks)
  <2>1. c.kind = "start" /\ c.phase = "sent"
    BY DEF StartReads
  <2>2. DOMAIN talks = 1..Len(talks)
    BY <1>a DEF TalksOk
  <2> QED
    BY <2>1, <2>2
<1>c. /\ c \in Calls(clock) /\ awaits = 0 /\ ~ submitted /\ Tokens = 0
  BY <1>a, <1>b, AloneIs DEF StartOne
<1>1. UNCHANGED <<talks, latest, post, inbox, goal, shown, awaits, submitted, polls, visible, mount>>
  BY DEF StartReads, talkVars, agentVars, dialogVars
<1>2. Tokens' = Tokens /\ Cur' = Cur /\ Active' = Active
  BY <1>1, OneKeeps
<1>3. ASSUME NEW d, calls' = {d}, SameRequest(c, d), d.phase \in {"prompt", "resume", "ok"},
             d.phase = "prompt" => Active = {},
             d.phase = "ok" => ViewOne(0, d.view)'
      PROVE  OneParts'
  <2>1. d.kind = "start" /\ ~ IsAnswer(d)
    BY <1>3, <1>b DEF SameRequest, IsAnswer
  <2>2. CallOne(d)'
    BY <1>1, <1>2, <1>3, <1>c, <2>1 DEF CallOne, StartOne, AnswerOne, ConfirmOne
  <2> QED
    BY <1>1, <1>3, <1>b, <1>c, <2>1, <2>2, OneMoves
<1>5. CASE Active = {} /\ Moves(c, [c EXCEPT !.phase = "prompt"])
  <2>1. PICK d : d = [c EXCEPT !.phase = "prompt"]
    OBVIOUS
  <2>2. calls' = {d} /\ SameRequest(c, d) /\ d.phase = "prompt"
    BY <1>a, <1>c, <1>5, <2>1, AloneIs DEF Calls, SameRequest
  <2> QED
    BY <1>3, <1>5, <2>2
<1>6. ASSUME NEW i, Moves(c, [c EXCEPT !.phase = "resume", !.talk = i])
      PROVE  OneParts'
  <2>1. PICK d : d = [c EXCEPT !.phase = "resume", !.talk = i]
    OBVIOUS
  <2>2. calls' = {d} /\ SameRequest(c, d) /\ d.phase = "resume"
    BY <1>a, <1>c, <1>6, <2>1, AloneIs DEF Calls, SameRequest
  <2> QED
    BY <1>3, <2>2
<1>7. ASSUME NEW i \in Active, Answered(c, View(i))
      PROVE  OneParts'
  <2>1. PICK v : v = View(i)
    OBVIOUS
  <2>2. PICK d : calls' = {d} /\ SameRequest(c, d) /\ d.phase = "ok" /\ d.view = v
    BY <1>a, <1>7, <2>1, AloneIs
  <2>3. i \in 1..Len(talks) /\ talks[i].status = "active"
    BY <1>b DEF Active
  <2>4. CASE i = latest
    <3>1. v = Cur
      BY <2>1, <2>3, <2>4, <1>a DEF Cur
    <3>2. UpToNow(v)'
      BY <1>2, <1>c, <3>1 DEF UpToNow
    <3> QED
      BY <1>3, <2>2, <3>2 DEF ViewOne
  <2>5. CASE i # latest
    <3>1. i = LastRow /\ latest # LastRow
      BY <1>a, <2>3, <2>5 DEF RowsOne
    <3>2. Blank(v)
      BY <1>a, <2>1, <3>1 DEF RowsOne, LastBlank
    <3>3. ViewOne(0, v)'
      BY <3>2 DEF ViewOne, Stuck, Blank
    <3> QED
      BY <1>3, <2>2, <3>3
  <2> QED
    BY <2>4, <2>5
<1> QED
  BY <1>5, <1>6, <1>7 DEF StartReads

(* What the dialog is like while its answer is under way. *)
LEMMA AnsweringIs ==
    ASSUME OnboardingTyped, OneParts, AskedInv, NEW c \in calls, c.kind = "answer"
    PROVE  /\ calls = {c} /\ c \in Calls(clock) /\ visible /\ awaits = 0 /\ ~ submitted
           /\ c.before \in Nat /\ c.before # 0 /\ c.before <= shown.last.stamp
           /\ AnswerOne(c) /\ latest \in 1..Len(talks) /\ Len(talks) \in Nat /\ TalksOk
           /\ ~ Inserting
<1>1. /\ CallsOk /\ OneCall /\ TalksOk /\ CallOk(c) /\ AnswerOne(c)
      /\ latest \in 0..Len(talks) /\ Len(talks) \in Nat
  BY DEF OnboardingTyped, OneParts, CallsOk, TalksOk, CallOne
<1>2. calls = {c} /\ c \in Calls(clock) /\ visible /\ c.mount = mount
  BY <1>1, AloneIs
<1>3. UnderWay(c)
  BY <1>2 DEF UnderWay
<1>4. awaits = 0 /\ ~ submitted /\ c.before <= shown.last.stamp
  BY <1>3 DEF AskedInv
<1>5. c.before \in Nat /\ c.before # 0 /\ latest # 0
  BY <1>1, <1>2 DEF Calls, AnswerOne, CallOk
<1>6. ~ Inserting
  BY <1>1, <1>2, PhaseKind DEF Inserting
<1> QED
  BY <1>1, <1>2, <1>4, <1>5, <1>6

(* An answer reads the row that is on display. *)
LEMMA AnswerReadsOne ==
    ASSUME OnboardingTyped, OneParts, AskedInv, NEW c \in calls, AnswerReads(c)
    PROVE  OneParts'
<1>a. c.kind = "answer" /\ c.phase = "sent"
  BY DEF AnswerReads
<1>b. /\ calls = {c} /\ c \in Calls(clock) /\ visible /\ awaits = 0 /\ ~ submitted
      /\ c.before \in Nat /\ c.before # 0 /\ c.before <= shown.last.stamp
      /\ AnswerOne(c) /\ latest \in 1..Len(talks) /\ TalksOk /\ ~ Inserting
  BY <1>a, AnsweringIs
<1>c. Tokens = 0 /\ Cur.last.stamp = c.before /\ CallsOk /\ OneCall /\ DialogOk /\ PollsOk
  BY <1>a, <1>b DEF AnswerOne, OnboardingTyped, OneParts
<1>1. UNCHANGED <<talks, latest, post, inbox, goal, shown, awaits, submitted, polls, visible, mount>>
  BY DEF AnswerReads, talkVars, agentVars, dialogVars
<1>2. Tokens' = Tokens /\ Cur' = Cur /\ RowsOne'
  BY <1>1, OneKeeps
<1>5. PICK v, e : /\ v = View(latest)
                  /\ e = [c EXCEPT !.phase = "read", !.talk = latest, !.seen = talks[latest].messages]
  OBVIOUS
<1>6. CASE Moves(c, e)
  <2>1. /\ calls' = {e} /\ SameRequest(c, e) /\ e.phase = "read" /\ e.talk = latest
        /\ e.seen = talks[latest].messages /\ e.kind = "answer" /\ e.before = c.before
    BY <1>a, <1>b, <1>c, <1>5, <1>6, AloneIs DEF Calls, SameRequest
  <2>2. CallOne(e)'
    BY <1>1, <1>2, <1>b, <1>c, <2>1 DEF CallOne, StartOne, AnswerOne, ConfirmOne
  <2>3. ~ IsAnswer(e)
    BY <2>1 DEF IsAnswer
  <2> QED
    BY <1>1, <1>a, <2>1, <2>2, <2>3, OneMoves
<1>7. CASE Answered(c, v)
  <2>1. PICK d : calls' = {d} /\ SameRequest(c, d) /\ d.phase = "ok" /\ d.view = v
    BY <1>c, <1>7, AloneIs
  <2>2. d.kind = "answer" /\ IsAnswer(d) /\ d.before = c.before /\ v = Cur
    BY <1>5, <1>a, <1>b, <2>1 DEF SameRequest, IsAnswer, Cur
  <2>3. CallOne(d)'
    BY <1>c, <1>b, <2>1, <2>2 DEF CallOne, StartOne, AnswerOne, ConfirmOne
  <2>4. ASSUME NEW w, Awaited(w)' PROVE Agreed(w)'
    <3>1. w = c.before /\ w \in Nat /\ w # 0
      BY <1>b, <2>1, <2>2, <2>4, AwaitedNext
    <3>2. Awaited(0)
      BY <1>a, <1>b, AwaitedIs DEF IsAnswer
    <3>3. Agreed(0)
      BY <1>b, <3>2 DEF OneParts
    <3>4. \A x : UpToNow(x) => UpToNow(x)'
      BY <1>2 DEF UpToNow
    <3>5. \A x : ViewOk(x) /\ ViewOne(0, x) => ViewOne(w, x)'
      BY <1>1, <1>a, <1>b, <1>c, <3>1, <3>4, ViewsAnswered
    <3>6. ViewOne(w, d.view)'
      BY <1>c, <2>1, <2>2, <3>1 DEF ViewOne, Stuck
    <3> QED
      BY <1>1, <1>2, <1>c, <2>1, <3>3, <3>5, <3>6, AgreedStays
  <2> QED
    BY <1>1, <1>2, <2>1, <2>3, <2>4, OneHandled DEF OneParts
<1> QED
  BY <1>5, <1>6, <1>7 DEF AnswerReads

(* The agent is told: now it is its turn. *)
LEMMA DispatchOne ==
    ASSUME OnboardingTyped, OneParts, AskedInv, NEW c \in calls, Dispatch(c), "resent" \notin mishaps'
    PROVE  OneParts'
<1>a. /\ c.phase \in {"prompt", "dispatch"} /\ inbox' = inbox + 1
      /\ UNCHANGED <<talks, latest, post, goal, shown, awaits, submitted, polls, visible, mount>>
  BY DEF Dispatch, talkVars, dialogVars
<1>b. /\ CallsOk /\ OneCall /\ DialogOk /\ PollsOk /\ CallOne(c) /\ CallOk(c) /\ inbox \in Nat
      /\ goal'.board = goal'.lead
  BY <1>a DEF OnboardingTyped, OneParts, CallsOk, TalksOk
<1>c. /\ calls = {c} /\ c \in Calls(clock) /\ visible
      /\ (c.phase = "prompt" => c.kind = "start") /\ (c.phase = "dispatch" => c.kind = "answer")
  BY <1>b, AloneIs, PhaseKind
<1>d. Tokens = 0 /\ Tokens' = 1
  <2>1. Tokens = 0
    BY <1>a, <1>b, <1>c DEF CallOne, StartOne, AnswerOne
  <2> QED
    BY <1>a, <1>b, <2>1 DEF Tokens
<1>e. Cur' = Cur /\ Active' = Active /\ LastRow' = LastRow
  BY <1>a DEF Cur, View, Active, LastRow
<1>f. RowsOne'
  <2>1. LastBlank' = LastBlank
    BY <1>a, <1>e DEF LastBlank, View, LastRow
  <2>2. ASSUME NEW i \in 1..Len(talks) PROVE Told(View(i))'
    <3>1. Told(View(i))
      BY DEF OneParts, RowsOne
    <3> QED
      BY <1>a, <3>1 DEF Told, View
  <2> QED
    BY <1>a, <1>e, <2>1, <2>2 DEF OneParts, RowsOne
<1>1. CASE c.phase = "prompt"
  <2>1. PICK d : d = [c EXCEPT !.phase = "insert"]
    OBVIOUS
  <2>2. SameRequest(c, d) /\ d.phase = "insert" /\ d.kind = "start" /\ calls' = {d}
    <3>1. Moves(c, d)
      BY <1>1, <2>1 DEF Dispatch
    <3> QED
      BY <1>1, <1>b, <1>c, <2>1, <3>1, AloneIs DEF Calls, SameRequest
  <2>3. CallOne(d)'
    BY <1>1, <1>a, <1>b, <1>c, <1>e, <2>2 DEF CallOne, StartOne, AnswerOne, ConfirmOne
  <2> QED
    BY <1>a, <1>b, <1>d, <1>f, <2>2, <2>3, OneHandled
<1>2. CASE c.phase = "dispatch"
  <2>0. /\ awaits = 0 /\ c.before \in Nat /\ c.before # 0 /\ c.before <= shown.last.stamp
        /\ AnswerOne(c) /\ ~ Inserting
    BY <1>2, <1>c, AnsweringIs
  <2>1. PICK d : calls' = {d} /\ SameRequest(c, d) /\ d.phase = "ok" /\ d.view = c.view
    <3>1. Answered(c, c.view)
      BY <1>2 DEF Dispatch
    <3> QED
      BY <1>b, <3>1, AloneIs
  <2>2. d.kind = "answer" /\ IsAnswer(d) /\ d.before = c.before
        /\ c.view.last.stamp = c.before /\ Cur.last.stamp = c.before
    BY <1>2, <1>c, <2>0, <2>1 DEF SameRequest, IsAnswer, AnswerOne
  <2>3. CallOne(d)'
    BY <2>0, <2>1, <2>2 DEF CallOne, StartOne, AnswerOne, ConfirmOne
  <2>4. ASSUME NEW w, Awaited(w)' PROVE Agreed(w)'
    <3>1. w = c.before /\ w \in Nat /\ w # 0
      BY <2>0, <2>1, <2>2, <2>4, AwaitedNext
    <3>2. Awaited(0)
      BY <1>2, <1>c, <2>0, AwaitedIs DEF IsAnswer
    <3>3. Agreed(0)
      BY <1>c, <2>0, <3>2 DEF OneParts
    <3>4. \A x : UpToNow(x) => x.last.stamp = w
      BY <2>2, <3>1 DEF UpToNow
    <3>5. \A x : ViewOk(x) /\ ViewOne(0, x) => ViewOne(w, x)'
      BY <1>2, <1>a, <1>b, <1>c, <2>0, <3>1, <3>4, ViewsAnswered
    <3>6. ViewOne(w, d.view)'
      BY <2>1, <2>2, <3>1 DEF ViewOne, Stuck
    <3>7. Stuck(w, Cur')
      BY <1>e, <2>2, <3>1 DEF Stuck
    <3> QED
      BY <1>a, <1>b, <2>1, <3>3, <3>5, <3>6, <3>7, AgreedStays
  <2> QED
    BY <1>a, <1>b, <1>d, <1>f, <2>1, <2>3, <2>4, OneHandled
<1> QED
  BY <1>1, <1>2, <1>a

(* A gateway that fails has told nobody anything. *)
LEMMA DispatchFailsOne ==
    ASSUME OnboardingTyped, OneParts, NEW c \in calls, DispatchFails(c)
    PROVE  OneParts'
<1>a. c.phase \in {"prompt", "resume", "dispatch"} /\ Refused(c)
      /\ UNCHANGED <<talks, latest, post, inbox, goal, shown, awaits, submitted, polls, visible,
                     mount>>
  BY DEF DispatchFails, talkVars, agentVars, dialogVars
<1>b. CallsOk /\ OneCall /\ CallOne(c)
  BY DEF OnboardingTyped, OneParts
<1>1. PICK d : calls' = {d} /\ SameRequest(c, d) /\ d.phase = "failed"
  BY <1>a, <1>b, AloneIs
<1>2. CallOne(d)' /\ ~ IsAnswer(d)
  BY <1>a, <1>b, <1>1 DEF CallOne, StartOne, AnswerOne, ConfirmOne, SameRequest, IsAnswer
<1> QED
  BY <1>1, <1>2, <1>a, OneMoves

(* A confirmation reads the draft that is on display. *)
LEMMA ConfirmReadsOne ==
    ASSUME OnboardingTyped, OneParts, NEW c \in calls, ConfirmReads(c)
    PROVE  OneParts'
<1>a. c.phase = "sent" /\ c.kind = "confirm"
      /\ UNCHANGED <<talks, latest, post, inbox, goal, shown, awaits, submitted, polls, visible,
                     mount>>
  BY DEF ConfirmReads, talkVars, agentVars, dialogVars
<1>b. CallsOk /\ OneCall /\ CallOne(c) /\ c \in Calls(clock)
  BY AloneIs DEF OnboardingTyped, OneParts
<1>1. PICK d : d = [c EXCEPT !.phase = "store", !.talk = latest, !.lead = talks[latest].draft]
  OBVIOUS
<1>2. SameRequest(c, d) /\ d.phase = "store" /\ d.talk = latest /\ d.lead = talks[latest].draft
      /\ d.kind = "confirm" /\ d.content = c.content
  BY <1>a, <1>b, <1>1 DEF Calls, SameRequest
<1>3. calls' = {d}
  <2>1. Moves(c, d)
    BY <1>1 DEF ConfirmReads
  <2> QED
    BY <1>b, <2>1, AloneIs
<1>4. Tokens' = Tokens
  BY <1>a, OneKeeps
<1>5. CallOne(d)' /\ ~ IsAnswer(d)
  BY <1>a, <1>b, <1>2, <1>4 DEF CallOne, StartOne, AnswerOne, ConfirmOne, IsAnswer
<1> QED
  BY <1>a, <1>2, <1>3, <1>5, OneMoves

(* Rows that are still seen the same. *)
LEMMA RowsSeen ==
    ASSUME TalksOk, RowsOne, Len(talks') = Len(talks), latest' = latest,
           post'.phase = "read" => post'.talk = latest /\ post'.seen = talks'[latest].messages,
           \A i \in 1..Len(talks) :
              /\ \A v : v = View(i) => v = View(i)'
              /\ talks'[i].status = talks[i].status \/ (i = latest /\ talks'[i].status # "active")
    PROVE  RowsOne' /\ Cur' = Cur
<1>0. Len(talks) \in Nat /\ latest \in 0..Len(talks) /\ LastRow' = LastRow /\ LastRow = Len(talks)
  BY DEF TalksOk, LastRow
<1>1. Cur' = Cur
  <2>1. PICK v : v = View(latest)
    OBVIOUS
  <2>2. latest # 0 => v = View(latest)'
    <3>1. PICK i : i = latest
      OBVIOUS
    <3>2. i # 0 => v = View(i)'
      BY <1>0, <2>1, <3>1
    <3>3. View(i)' = View(latest)'
      BY <3>1 DEF View
    <3> QED
      BY <3>1, <3>2, <3>3
  <2> QED
    BY <2>1, <2>2 DEF Cur
<1>2. latest # LastRow => LastBlank'
  <2> SUFFICES ASSUME latest # LastRow PROVE LastBlank'
    OBVIOUS
  <2>1. PICK i, v : i = LastRow /\ v = View(i)
    OBVIOUS
  <2>2. i \in 1..Len(talks) /\ i # latest
    BY <1>0, <2>1
  <2>3. talks[i].status = "active" /\ Blank(v)
    BY <2>1 DEF RowsOne, LastBlank
  <2>4. talks'[i].status = "active" /\ v = View(i)'
    BY <2>1, <2>2, <2>3
  <2>5. View(i)' = View(LastRow)'
    BY <1>0, <2>1 DEF View
  <2> QED
    BY <1>0, <2>1, <2>3, <2>4, <2>5 DEF LastBlank, Blank
<1>3. ASSUME NEW i \in 1..Len(talks) PROVE Told(View(i))'
  <2>1. PICK v : v = View(i)
    OBVIOUS
  <2>2. Told(v) /\ v = View(i)'
    BY <2>1 DEF RowsOne
  <2> QED
    BY <2>2 DEF Told
<1>4. \A i \in 1..Len(talks) : talks'[i].status = "active" => i = latest \/ i = LastRow
  BY DEF RowsOne
<1> QED
  BY <1>0, <1>1, <1>2, <1>3, <1>4 DEF RowsOne

(* The answer of the user is stored while the agent is silent. *)
LEMMA AnswerCommitsOne ==
    ASSUME OnboardingTyped, OneParts, AskedInv, NEW c \in calls, AnswerCommits(c)
    PROVE  OneParts'
<1>a. c.kind = "answer" /\ c.phase = "read"
  BY DEF AnswerCommits
<1>b. /\ calls = {c} /\ c \in Calls(clock) /\ visible /\ awaits = 0 /\ ~ submitted
      /\ c.before \in Nat /\ c.before # 0 /\ c.before <= shown.last.stamp
      /\ AnswerOne(c) /\ latest \in 1..Len(talks) /\ TalksOk /\ ~ Inserting /\ Len(talks) \in Nat
  BY <1>a, AnsweringIs
<1>c. /\ Tokens = 0 /\ Cur.last.stamp = c.before /\ CallsOk /\ OneCall /\ DialogOk /\ PollsOk
      /\ c.talk = latest /\ c.seen = talks[latest].messages /\ CallOk(c) /\ PostOk /\ RowsOne
      /\ inbox \in Nat
  BY <1>a, <1>b DEF AnswerOne, OnboardingTyped, OneParts, CallsOk, TalksOk
<1>d. post.phase = "none"
  BY <1>c DEF Tokens
<1>1. UNCHANGED <<post, inbox, goal, shown, awaits, submitted, polls, visible, mount>>
      /\ latest' = latest
  BY <1>c DEF AnswerCommits, agentVars, dialogVars
<1>2. PICK i, ms, m : i = latest /\ ms = talks[latest].messages /\ m = Message("user", c.content)
  OBVIOUS
<1>3. /\ ms \in Seq(Sayings(clock + 1)) /\ m \in Sayings(clock + 1) /\ m.role = "user"
      /\ clock + 1 \in Nat
  <2>0. clock \in Nat /\ talks \in Seq(Talks(clock))
    BY <1>b DEF TalksOk
  <2>1. clock \in Nat /\ ms \in Seq(Sayings(clock)) /\ clock + 1 \in Nat /\ clock <= clock + 1
    <3>1. latest \in 1..Len(talks)
      BY <1>b
    <3>2. talks[latest].messages \in Seq(Sayings(clock))
      BY <1>b, <3>1, RowIs
    <3> QED
      BY <1>2, <2>0, <3>2
  <2>2. c.content \in Replies
    BY <1>a, <1>c DEF CallOk
  <2>3. m \in Sayings(clock + 1)
    BY <1>2, <2>1, <2>2 DEF Message, Sayings
  <2>4. Seq(Sayings(clock)) \subseteq Seq(Sayings(clock + 1))
    BY <2>1, SayingsLater
  <2> QED
    BY <1>2, <2>1, <2>3, <2>4 DEF Message
<1>4. LastOfAgent(Append(ms, m)) = LastOfAgent(ms)
  BY <1>3, LastAfter
<1>5. talks' = [talks EXCEPT ![i].messages = Append(ms, m)] /\ talks \in Seq(Talks(clock))
  BY <1>b, <1>c, <1>2 DEF AnswerCommits, TalksOk
<1>6. /\ Len(talks') = Len(talks)
      /\ \A k \in 1..Len(talks) :
            /\ talks'[k].status = talks[k].status /\ talks'[k].draft = talks[k].draft
            /\ LastOfAgent(talks'[k].messages) = LastOfAgent(talks[k].messages)
  <2>1. Len(talks') = Len(talks) /\ \A k \in 1..Len(talks) : k # i => talks'[k] = talks[k]
    BY <1>5
  <2>2. talks[i] = [status |-> talks[i].status, draft |-> talks[i].draft, messages |-> ms]
    BY <1>b, <1>2, RowIs
  <2>3. talks'[i] = [talks[i] EXCEPT !.messages = Append(ms, m)]
    <3>1. i \in 1..Len(talks)
      BY <1>b, <1>2
    <3>2. i \in DOMAIN talks
      BY <1>5, <3>1
    <3>3. PICK row : row = [talks[i] EXCEPT !.messages = Append(ms, m)]
      OBVIOUS
    <3>4. talks' = [talks EXCEPT ![i] = row]
      BY <1>5, <3>3
    <3> QED
      BY <3>2, <3>3, <3>4
  <2>4. talks'[i].messages = Append(ms, m) /\ talks'[i].status = talks[i].status
        /\ talks'[i].draft = talks[i].draft
    BY <2>2, <2>3
  <2> QED
    BY <1>2, <1>4, <2>1, <2>4
<1>7. ASSUME NEW k \in 1..Len(talks), NEW v, v = View(k) PROVE v = View(k)'
  <2>1. View(k)' = [row |-> k, last |-> LastOfAgent(talks'[k].messages), draft |-> talks'[k].draft]
    BY DEF View
  <2>2. v = [row |-> k, last |-> LastOfAgent(talks[k].messages), draft |-> talks[k].draft]
    BY <1>7 DEF View
  <2> QED
    BY <1>6, <2>1, <2>2
<1>8. RowsOne' /\ Cur' = Cur
  BY <1>1, <1>6, <1>7, <1>b, <1>c, <1>d, RowsSeen
<1>9. Tokens' = Tokens
  BY <1>1 DEF Tokens
<1>10. PICK v, d : /\ v = View(c.talk)'
                   /\ d = [c EXCEPT !.phase = "dispatch", !.seen = <<>>, !.view = v]
  OBVIOUS
<1>11. /\ SameRequest(c, d) /\ d.phase = "dispatch" /\ d.view = v /\ d.kind = "answer"
       /\ d.before = c.before /\ ~ IsAnswer(d)
  BY <1>a, <1>b, <1>10 DEF Calls, SameRequest, IsAnswer
<1>12. calls' = {d}
  <2>1. Moves(c, d)
    BY <1>10 DEF AnswerCommits
  <2> QED
    BY <1>c, <2>1, AloneIs
<1>13. v = Cur
  <2>1. Cur' = View(latest)'
    BY <1>1, <1>b DEF Cur
  <2>2. View(latest)' = View(c.talk)'
    BY <1>1, <1>c DEF View
  <2> QED
    BY <1>8, <1>10, <2>1, <2>2
<1>14. CallOne(d)'
  BY <1>8, <1>9, <1>11, <1>13, <1>b, <1>c DEF CallOne, StartOne, AnswerOne, ConfirmOne
<1>15. ASSUME NEW w, Awaited(w)' PROVE Agreed(w)'
  <2>1. w = awaits
    BY <1>1, <1>11, <1>12, <1>15, AwaitedNext
  <2>2. Awaited(w)
    BY <1>a, <1>b, <2>1, AwaitedIs DEF IsAnswer
  <2>3. Agreed(w)
    BY <1>b, <2>2 DEF OneParts
  <2>4. \A x : ViewOne(w, x) => ViewOne(w, x)'
    BY <1>1, <1>8, <1>9, <1>a, <1>b, ViewsOne
  <2> QED
    BY <1>1, <1>9, <1>11, <1>12, <1>c, <2>3, <2>4, AgreedStays
<1> QED
  BY <1>1, <1>8, <1>9, <1>11, <1>12, <1>14, <1>15, OneHandled DEF OneParts

(* The new row is the one the dialog waits in. *)
LEMMA StartCommitsOne ==
    ASSUME OnboardingTyped, OnboardingTyped', OneParts, NEW c \in calls, StartCommits(c)
    PROVE  OneParts'
<1>a. /\ c.phase = "insert" /\ c.kind = "start"
  <2>1. c.phase \in {"insert", "touch"}
    BY DEF StartCommits
  <2>2. CallOk(c) /\ CallOne(c)
    BY DEF OnboardingTyped, CallsOk, OneParts
  <2> QED
    BY <2>1, <2>2, PhaseKind DEF CallOne, StartOne
<1>b. /\ TalksOk /\ CallsOk /\ OneCall /\ DialogOk /\ PollsOk /\ PostOk /\ RowsOne /\ CallOne(c)
      /\ Len(talks) \in Nat /\ TalksOk' /\ talks \in Seq(Talks(clock)) /\ clock \in Nat
      /\ latest \in 0..Len(talks)
  BY DEF OnboardingTyped, OneParts, TalksOk
<1>c. awaits = 0 /\ ~ submitted /\ Active = {}
  BY <1>a, <1>b DEF CallOne, StartOne
<1>1. UNCHANGED <<post, inbox, goal, shown, awaits, submitted, polls, visible, mount>>
  BY DEF StartCommits, agentVars, dialogVars
<1>2. PICK m, row : /\ m = Message("user", "prompt")
                    /\ row = [status |-> "active", draft |-> Nothing, messages |-> <<m>>]
  OBVIOUS
<1>3. talks' = Append(talks, row) /\ latest' = Len(talks')
  BY <1>2, <1>a DEF StartCommits
<1>4. /\ Len(talks') = Len(talks) + 1 /\ talks'[Len(talks) + 1] = row
      /\ \A i \in 1..Len(talks) : talks'[i] = talks[i]
  BY <1>3, <1>b
<1>5. PICK n : n = Len(talks) + 1
  OBVIOUS
<1>6. latest' = n /\ LastRow' = n /\ n \in Nat /\ n # 0
  BY <1>3, <1>4, <1>5, <1>b DEF LastRow
<1>7. LastOfAgent(<<m>>) = NoMessage
  <2>1. DOMAIN <<m>> = {1} /\ <<m>>[1] = m /\ m.role = "user"
    BY <1>2 DEF Message
  <2> QED
    BY <2>1 DEF LastOfAgent
<1>8. PICK v : v = View(n)'
  OBVIOUS
<1>9. v = [row |-> n, last |-> NoMessage, draft |-> Nothing] /\ Blank(v)
  <2>1. v = [row |-> n, last |-> LastOfAgent(talks'[n].messages), draft |-> talks'[n].draft]
    BY <1>8 DEF View
  <2>2. talks'[n].messages = <<m>> /\ talks'[n].draft = Nothing
    BY <1>2, <1>4, <1>5
  <2>3. v = [row |-> n, last |-> NoMessage, draft |-> Nothing]
    BY <1>7, <2>1, <2>2
  <2> QED
    BY <2>3 DEF Blank, NoMessage
<1>10. View(latest)' = v /\ View(LastRow)' = v /\ Cur' = v
  BY <1>6, <1>8 DEF View, Cur
<1>11. LastBlank'
  <2>1. talks'[LastRow'].status = "active"
    BY <1>2, <1>4, <1>5, <1>6
  <2> QED
    BY <1>9, <1>10, <2>1 DEF LastBlank, Blank
<1>12. ASSUME NEW i \in 1..Len(talks') PROVE Told(View(i))'
  <2>1. CASE i = n
    <3>1. View(i)' = v
      BY <1>8, <2>1 DEF View
    <3> QED
      BY <1>9, <3>1 DEF Told
  <2>2. CASE i # n
    <3>1. i \in 1..Len(talks)
      BY <1>4, <1>5, <1>b, <2>2
    <3>2. PICK u : u = View(i)
      OBVIOUS
    <3>3. Told(u) /\ View(i)' = u
      BY <1>4, <1>b, <3>1, <3>2 DEF View, RowsOne
    <3> QED
      BY <3>3 DEF Told
  <2> QED
    BY <2>1, <2>2
<1>13. \A i \in 1..Len(talks') : talks'[i].status = "active" => i = n
  <2> SUFFICES ASSUME NEW i \in 1..Len(talks'), i # n PROVE talks'[i].status # "active"
    OBVIOUS
  <2>1. i \in 1..Len(talks) /\ i \in DOMAIN talks
    BY <1>4, <1>5, <1>b
  <2>2. talks[i].status # "active"
    BY <1>c, <2>1 DEF Active
  <2> QED
    BY <1>4, <2>1, <2>2
<1>14. post.phase = "read" => post.talk < n
  BY <1>5, <1>b DEF PostOk
<1>15. RowsOne'
  BY <1>1, <1>6, <1>11, <1>12, <1>13, <1>14 DEF RowsOne
<1>16. PICK d : calls' = {d} /\ SameRequest(c, d) /\ d.phase = "ok" /\ d.view = v
  <2>1. Answered(c, v)
    BY <1>10 DEF StartCommits
  <2> QED
    BY <1>b, <2>1, AloneIs
<1>17. d.kind = "start" /\ ~ IsAnswer(d)
  BY <1>16, <1>a DEF SameRequest, IsAnswer
<1>18. Tokens' = Tokens
  BY <1>1 DEF Tokens
<1>19. CallOne(d)'
  BY <1>1, <1>16, <1>17, <1>c DEF CallOne, StartOne, AnswerOne, ConfirmOne
<1>20. \A x : x.row < n => Outdated(x)'
  BY <1>9, <1>16, <1>17 DEF Outdated, StartHas
<1>21. ASSUME NEW w, Awaited(w)' PROVE Agreed(w)'
  <2>1. w = 0
    BY <1>1, <1>16, <1>17, <1>21, <1>c, AwaitedNext
  <2>2. ViewOne(w, shown)'
    <3>1. shown.row < n
      BY <1>5, <1>b DEF DialogOk, ViewOk
    <3>2. PICK x : x = shown
      OBVIOUS
    <3>3. Outdated(x)' /\ shown' = x
      BY <1>1, <1>20, <3>1, <3>2
    <3> QED
      BY <3>3 DEF ViewOne, Outdated, Older, StartHas
  <2>3. ASSUME NEW k \in DOMAIN polls' PROVE ViewOne(w, polls[k].view)'
    <3>1. PICK x : x = polls[k].view
      OBVIOUS
    <3>2. x.row < n
      BY <1>1, <1>5, <1>b, <2>3, <3>1 DEF PollsOk, ViewOk
    <3>3. Outdated(x)' /\ polls'[k].view = x
      BY <1>1, <1>20, <3>1, <3>2
    <3> QED
      BY <3>3 DEF ViewOne, Outdated, Older, StartHas
  <2>4. ViewOne(w, v)' /\ Stuck(w, Cur)'
    <3>1. Stuck(w, v) /\ Stuck(w, v)'
      BY <1>9, <2>1 DEF Stuck, Blank
    <3> QED
      BY <1>10, <3>1 DEF ViewOne, Stuck, Blank
  <2> QED
    BY <1>16, <2>2, <2>3, <2>4 DEF Agreed
<1> QED
  BY <1>1, <1>15, <1>16, <1>18, <1>19, <1>21, OneHandled DEF OneParts

(* The goal that is confirmed is the draft that its row has. *)
LEMMA ConfirmCommitsOne ==
    ASSUME OnboardingTyped, OneParts, NEW c \in calls, ConfirmCommits(c)
    PROVE  OneParts'
<1>b. /\ CallsOk /\ OneCall /\ DialogOk /\ PollsOk /\ PostOk /\ RowsOne /\ CallOne(c) /\ CallOk(c)
      /\ Len(talks) \in Nat /\ TalksOk /\ talks \in Seq(Talks(clock)) /\ inbox \in Nat
      /\ c.phase = "store"
  BY DEF OnboardingTyped, OneParts, CallsOk, TalksOk, ConfirmCommits
<1>a. c.kind = "confirm" /\ c.talk \in 1..Len(talks) /\ calls = {c} /\ visible
      /\ c \in Calls(clock)
  BY <1>b, PhaseKind, AloneIs DEF CallOk
<1>c. Tokens = 0 /\ c.talk = latest /\ c.lead = c.content
  BY <1>a, <1>b DEF CallOne, ConfirmOne
<1>d. post.phase = "none"
  BY <1>b, <1>c DEF Tokens
<1>1. /\ UNCHANGED <<post, inbox, shown, awaits, submitted, polls, visible, mount>>
      /\ latest' = latest /\ goal'.board = goal'.lead /\ (Answered(c, c.view) \/ Refused(c))
  BY <1>c DEF ConfirmCommits, agentVars, dialogVars
<1>2. /\ Len(talks') = Len(talks)
      /\ \A i \in 1..Len(talks) :
            /\ talks'[i].draft = talks[i].draft /\ talks'[i].messages = talks[i].messages
            /\ talks'[i].status = IF i = latest THEN "confirmed" ELSE talks[i].status
  <2>1. talks' = [talks EXCEPT ![latest].status = "confirmed"]
    BY <1>c DEF ConfirmCommits
  <2>2. ASSUME NEW i \in 1..Len(talks)
        PROVE  /\ talks'[i].draft = talks[i].draft /\ talks'[i].messages = talks[i].messages
               /\ talks'[i].status = IF i = latest THEN "confirmed" ELSE talks[i].status
    <3>1. talks[i] = [status |-> talks[i].status, draft |-> talks[i].draft,
                      messages |-> talks[i].messages]
      BY <1>b, RowIs
    <3>2. talks'[i] = IF i = latest THEN [talks[i] EXCEPT !.status = "confirmed"] ELSE talks[i]
      BY <1>b, <2>1
    <3> QED
      BY <3>1, <3>2
  <2> QED
    BY <1>b, <2>1, <2>2
<1>3. ASSUME NEW k \in 1..Len(talks), NEW v, v = View(k) PROVE v = View(k)'
  BY <1>2, <1>3 DEF View
<1>4. RowsOne' /\ Cur' = Cur
  BY <1>1, <1>2, <1>3, <1>b, <1>d, RowsSeen
<1>5. Tokens' = Tokens
  BY <1>1 DEF Tokens
<1>6. PICK d : calls' = {d} /\ SameRequest(c, d) /\ d.phase \in {"ok", "failed"}
  BY <1>1, <1>b, AloneIs
<1>7. d.kind = "confirm" /\ ~ IsAnswer(d)
  BY <1>6, <1>a DEF SameRequest, IsAnswer
<1>8. CallOne(d)'
  BY <1>6, <1>7 DEF CallOne, StartOne, AnswerOne, ConfirmOne
<1>9. ASSUME NEW w, Awaited(w)' PROVE Agreed(w)'
  <2>1. w = awaits
    BY <1>1, <1>6, <1>7, <1>9, AwaitedNext
  <2>2. Awaited(w) /\ ~ Inserting
    BY <1>a, <1>b, <2>1, AwaitedIs DEF IsAnswer, Inserting
  <2>3. Agreed(w)
    BY <1>a, <2>2 DEF OneParts
  <2>4. \A x : ViewOne(w, x) => ViewOne(w, x)'
    BY <1>1, <1>4, <1>5, <1>a, <1>b, ViewsOne
  <2>5. Tokens' = 1 => Stuck(w, Cur')
    BY <1>c, <1>5
  <2> QED
    BY <1>1, <1>6, <1>7, <1>b, <2>3, <2>4, <2>5, AgreedStays
<1> QED
  BY <1>1, <1>4, <1>5, <1>6, <1>8, <1>9, OneHandled DEF OneParts

(* A row that is stored again. *)
LEMMA RowSaid ==
    ASSUME TalksOk, TalksOk', RowsOne, NEW i \in 1..Len(talks), Len(talks') = Len(talks),
           \A k \in 1..Len(talks) : k # i => talks'[k] = talks[k],
           talks'[i].status = "active" => talks[i].status = "active",
           Told(View(i))', latest' = i, post'.phase # "read",
           i = latest \/ (i < LastRow /\ latest = LastRow /\ LastBlank)
    PROVE  RowsOne' /\ Active' \subseteq Active
<1>0. Len(talks) \in Nat /\ latest \in 0..Len(talks) /\ LastRow' = LastRow /\ LastRow = Len(talks)
      /\ DOMAIN talks = 1..Len(talks)
  BY DEF TalksOk, LastRow
<1>1. Active' \subseteq Active
  <2> SUFFICES ASSUME NEW k \in Active' PROVE k \in Active
    OBVIOUS
  <2>1. DOMAIN talks' = 1..Len(talks')
    BY DEF TalksOk
  <2>2. k \in 1..Len(talks) /\ talks'[k].status = "active"
    BY <2>1 DEF Active
  <2>3. talks[k].status = "active"
    BY <2>2
  <2> QED
    BY <1>0, <2>2, <2>3 DEF Active
<1>2. latest' # LastRow => LastBlank'
  <2> SUFFICES ASSUME i # LastRow PROVE LastBlank'
    BY <1>0
  <2>1. PICK k, v : k = LastRow /\ v = View(k)
    OBVIOUS
  <2>2. LastBlank /\ k \in 1..Len(talks) /\ k # i
    BY <1>0, <2>1 DEF RowsOne
  <2>3. talks'[k] = talks[k] /\ talks[k].status = "active" /\ Blank(v)
    BY <2>1, <2>2 DEF LastBlank
  <2>4. View(LastRow)' = v
    BY <1>0, <2>1, <2>3 DEF View
  <2> QED
    BY <1>0, <2>1, <2>3, <2>4 DEF LastBlank, Blank
<1>3. ASSUME NEW k \in 1..Len(talks) PROVE Told(View(k))'
  <2>1. CASE k = i
    BY <2>1 DEF View
  <2>2. CASE k # i
    <3>1. PICK v : v = View(k)
      OBVIOUS
    <3>2. Told(v) /\ View(k)' = v
      BY <2>2, <3>1 DEF RowsOne, View
    <3> QED
      BY <3>2 DEF Told
  <2> QED
    BY <2>1, <2>2
<1>4. ASSUME NEW k \in 1..Len(talks), talks'[k].status = "active" PROVE k = i \/ k = LastRow
  BY <1>4, <1>0 DEF RowsOne
<1> QED
  BY <1>0, <1>1, <1>2, <1>3, <1>4 DEF RowsOne

(* What the agent does when it was asked leaves the dialog as it is. *)
LEMMA OneSaid ==
    ASSUME OneParts, Tokens = 1, Tokens' \in {0, 1}, Tokens' = 1 => Cur' = Cur,
           Active' \subseteq Active, RowsOne',
           UNCHANGED <<calls, goal, shown, awaits, submitted, polls, visible, mount>>
    PROVE  OneParts'
<1>1. ASSUME NEW c \in calls' PROVE CallOne(c)'
  <2>1. CallOne(c)
    BY <1>1 DEF OneParts
  <2>2. StartOne(c)'
    BY <2>1 DEF CallOne, StartOne
  <2>3. AnswerOne(c)'
    BY <2>1 DEF CallOne, AnswerOne
  <2>4. ConfirmOne(c)'
    BY <2>1 DEF CallOne, ConfirmOne
  <2> QED
    BY <2>2, <2>3, <2>4 DEF CallOne
<1>2. ASSUME visible', ~ Inserting', NEW w, Awaited(w)' PROVE Agreed(w)'
  <2>1. Awaited(w) /\ visible /\ ~ Inserting
    BY <1>2 DEF Awaited, IsAnswer, Inserting
  <2>2. Agreed(w)
    BY <2>1 DEF OneParts
  <2>3. \A v : ViewOne(w, v) => ViewOne(w, v)'
    <3> SUFFICES ASSUME NEW v, ViewOne(w, v) PROVE ViewOne(w, v)'
      OBVIOUS
    <3>1. Stuck(w, v)' = Stuck(w, v) /\ ~ UpToNow(v)
      BY DEF Stuck, Blank, UpToNow
    <3>2. Outdated(v)' = Outdated(v)
      BY DEF Outdated, Older, StartHas
    <3> QED
      BY <3>1, <3>2 DEF ViewOne
  <2>4. ViewOne(w, shown)'
    <3>1. PICK v : v = shown
      OBVIOUS
    <3>2. ViewOne(w, v)' /\ shown' = v
      BY <2>2, <2>3, <3>1 DEF Agreed
    <3> QED
      BY <3>2 DEF ViewOne, UpToNow, Outdated, Older, StartHas
  <2>5. ASSUME NEW n \in DOMAIN polls', polls'[n].read PROVE ViewOne(w, polls[n].view)'
    <3>1. PICK v : v = polls[n].view
      OBVIOUS
    <3>2. ViewOne(w, v)' /\ polls'[n].view = v
      BY <2>2, <2>3, <2>5, <3>1 DEF Agreed
    <3> QED
      BY <3>2 DEF ViewOne, UpToNow, Outdated, Older, StartHas
  <2>6. ASSUME NEW c \in calls', c.kind # "confirm", c.phase = "ok" PROVE ViewOne(w, c.view)'
    BY <2>2, <2>3, <2>6 DEF Agreed
  <2>7. Tokens' = 1 => Stuck(w, Cur)'
    <3>1. PICK u : u = Cur
      OBVIOUS
    <3>2. Tokens' = 1 => Stuck(w, u) /\ Cur' = u
      BY <2>2, <3>1 DEF Agreed
    <3> QED
      BY <3>2 DEF Stuck, Blank
  <2> QED
    BY <2>4, <2>5, <2>6, <2>7 DEF Agreed
<1>3. OneCall'
  BY DEF OneParts, OneCall
<1> QED
  BY <1>1, <1>2, <1>3 DEF OneParts

(* The agent speaks to what it was asked. *)
LEMMA AgentSpeaksOne ==
    ASSUME OnboardingTyped, OneParts, "unasked" \notin mishaps',
           AgentRefused \/ \E content \in Questions \cup Drafts, answers \in BOOLEAN :
                             AgentSays(content, answers)
    PROVE  OneParts'
<1>0. /\ TalksOk /\ RowsOne /\ inbox \in Nat /\ Tokens \in {0, 1} /\ Len(talks) \in Nat
      /\ latest \in 0..Len(talks)
  BY DEF OnboardingTyped, OneParts, TalksOk
<1>1. UNCHANGED <<talks, latest, calls, goal, shown, awaits, submitted, polls, visible, mount>>
  BY DEF AgentRefused, AgentSays, talkVars, dialogVars
<1>2. Tokens = 1 /\ Tokens' \in {0, 1} /\ post'.phase # "read"
  <2>1. CASE AgentRefused
    <3>1. post.phase = "sent" /\ post' = NoPost /\ inbox' = inbox
      BY <2>1 DEF AgentRefused
    <3> QED
      BY <1>0, <3>1 DEF Tokens, NoPost
  <2>2. ASSUME NEW content, NEW answers, AgentSays(content, answers)
        PROVE  Tokens = 1 /\ Tokens' \in {0, 1} /\ post'.phase # "read"
    <3>1. answers
      BY <2>2 DEF AgentSays
    <3>2. PICK p : p = [NoPost EXCEPT !.phase = "sent", !.content = content]
      OBVIOUS
    <3>3. /\ p.phase = "sent" /\ post' = p /\ post.phase = "none" /\ inbox > 0
          /\ inbox' = inbox - 1
      BY <2>2, <3>1, <3>2 DEF AgentSays, NoPost
    <3> QED
      BY <1>0, <3>3 DEF Tokens
  <2> QED
    BY <2>1, <2>2
<1>3. \A i : \A v : v = View(i) => v = View(i)'
  BY <1>1 DEF View
<1>4. RowsOne' /\ Cur' = Cur
  BY <1>0, <1>1, <1>2, <1>3, RowsSeen
<1>5. Active' = Active
  BY <1>1 DEF Active
<1> QED
  BY <1>1, <1>2, <1>4, <1>5, OneSaid

(* Its post reads the row that was updated last. *)
LEMMA AgentReadsOne ==
    ASSUME OnboardingTyped, OnboardingTyped', OneParts, AgentReads
    PROVE  OneParts'
<1>0. /\ TalksOk /\ RowsOne /\ inbox \in Nat /\ Tokens \in {0, 1} /\ Len(talks) \in Nat
      /\ talks \in Seq(Talks(clock)) /\ clock \in Nat /\ PostOk /\ TalksOk'
  BY DEF OnboardingTyped, OneParts, TalksOk
<1>1. /\ UNCHANGED <<latest, inbox, calls, goal, shown, awaits, submitted, polls, visible, mount>>
      /\ post.phase = "sent" /\ latest \in 1..Len(talks)
  BY <1>0 DEF AgentReads, dialogVars, TalksOk
<1>2. Tokens = 1
  BY <1>0, <1>1 DEF Tokens
<1>3. CASE /\ post' = [post EXCEPT !.phase = "read", !.talk = latest,
                                   !.seen = talks[latest].messages, !.status = talks[latest].status]
           /\ UNCHANGED talks
  <2>1. PICK ms, st : ms = talks[latest].messages /\ st = talks[latest].status
    OBVIOUS
  <2>2. post'.phase = "read" /\ post'.talk = latest /\ post'.seen = ms
    BY <1>0, <1>3, <2>1 DEF PostOk
  <2>3. Tokens' = Tokens
    BY <1>1, <2>2 DEF Tokens
  <2>4. \A i : \A v : v = View(i) => v = View(i)'
    BY <1>3 DEF View
  <2>5. RowsOne' /\ Cur' = Cur
    BY <1>0, <1>1, <1>3, <2>1, <2>2, <2>4, RowsSeen
  <2>6. Active' = Active
    BY <1>3 DEF Active
  <2> QED
    BY <1>1, <1>2, <2>3, <2>5, <2>6, OneSaid
<1>4. CASE post' = NoPost /\ UNCHANGED talks
  <2>1. post'.phase # "read" /\ Tokens' \in {0, 1}
    BY <1>0, <1>1, <1>2, <1>4 DEF NoPost, Tokens
  <2>2. \A i : \A v : v = View(i) => v = View(i)'
    BY <1>4 DEF View
  <2>3. RowsOne' /\ Cur' = Cur
    BY <1>0, <1>1, <1>4, <2>1, <2>2, RowsSeen
  <2>4. Active' = Active
    BY <1>4 DEF Active
  <2> QED
    BY <1>1, <1>2, <2>1, <2>3, <2>4, OneSaid
<1>5. CASE /\ post' = NoPost /\ post.content \in Drafts
           /\ Repeats(talks[latest].messages, post.content)
           /\ talks' = [talks EXCEPT ![latest].status = "completed", ![latest].draft = post.content]
  <2>1. post'.phase # "read" /\ Tokens' = 0
    BY <1>0, <1>1, <1>2, <1>5 DEF NoPost, Tokens
  <2>2. PICK i, row, e : i = latest /\ row = talks[i] /\ e = post.content /\ i \in 1..Len(talks)
    BY <1>1
  <2>3. PICK new : new = [row EXCEPT !.status = "completed", !.draft = e]
    OBVIOUS
  <2>4. row = [status |-> row.status, draft |-> row.draft, messages |-> row.messages]
        /\ row.messages \in Seq(Sayings(clock))
    BY <1>0, <2>2, RowIs
  <2>5. new.status = "completed" /\ new.draft = e /\ new.messages = row.messages
    BY <2>3, <2>4
  <2>6. talks' = [talks EXCEPT ![i] = new]
    BY <1>5, <2>2, <2>3
  <2>7. /\ Len(talks') = Len(talks) /\ talks'[i] = new
        /\ \A k \in 1..Len(talks) : k # i => talks'[k] = talks[k]
    BY <1>0, <2>2, <2>6
  <2>8. Told(View(i))'
    <3>1. PICK last : last = LastOfAgent(row.messages)
      OBVIOUS
    <3>2. last.content \in Drafts /\ Nothing \notin Drafts
      BY <1>5, <2>2, <3>1, OnboardingAssumption DEF Repeats
    <3>3. last.stamp # 0
      BY <1>0, <2>4, <3>1, <3>2, LastTyped DEF NoMessage
    <3>4. View(i)' = [row |-> i, last |-> LastOfAgent(talks'[i].messages), draft |-> talks'[i].draft]
      BY DEF View
    <3>5. View(i)' = [row |-> i, last |-> last, draft |-> e]
      BY <2>5, <2>7, <3>1, <3>4
    <3> QED
      BY <3>3, <3>5 DEF Told
  <2>9. RowsOne' /\ Active' \subseteq Active
    BY <1>0, <1>1, <2>1, <2>2, <2>5, <2>7, <2>8, RowSaid
  <2> QED
    BY <1>1, <1>2, <2>1, <2>9, OneSaid
<1> QED
  BY <1>3, <1>4, <1>5 DEF AgentReads

(* What it posts is stored in the row that it had read. *)
LEMMA AgentCommitsOne ==
    ASSUME OnboardingTyped, OnboardingTyped', OneParts, AgentCommits
    PROVE  OneParts'
<1>0. /\ TalksOk /\ RowsOne /\ inbox \in Nat /\ Tokens \in {0, 1} /\ Len(talks) \in Nat
      /\ talks \in Seq(Talks(clock)) /\ clock \in Nat /\ PostOk /\ TalksOk'
  BY DEF OnboardingTyped, OneParts, TalksOk
<1>1. /\ UNCHANGED <<inbox, calls, goal, shown, awaits, submitted, polls, visible, mount>>
      /\ post.phase = "read" /\ post' = NoPost /\ latest' = post.talk
  BY DEF AgentCommits, dialogVars
<1>2. Tokens = 1 /\ Tokens' = 0 /\ post'.phase # "read"
  BY <1>0, <1>1 DEF Tokens, NoPost
<1>3. PICK i, s, e, m, said : /\ i = post.talk /\ s = post.status /\ e = post.content
                              /\ m = Message("assistant", e) /\ said = Append(post.seen, m)
  OBVIOUS
<1>4. /\ i \in 1..Len(talks) /\ e \in Questions \cup Drafts /\ latest' = i
      /\ i = latest \/ (i < LastRow /\ latest = LastRow /\ LastBlank)
  BY <1>0, <1>1, <1>3 DEF PostOk, RowsOne
<1>5. talks' = [talks EXCEPT ![i] =
                  IF e \in Drafts
                  THEN [status |-> IF s = "completed" THEN @.status ELSE "completed",
                        messages |-> said, draft |-> e]
                  ELSE [@ EXCEPT !.messages = said]]
  BY <1>3 DEF AgentCommits
<1>6. Len(talks') = Len(talks) /\ \A k \in 1..Len(talks) : k # i => talks'[k] = talks[k]
  BY <1>0, <1>5
<1>7. talks'[i].messages = said /\ (talks'[i].status = "active" => talks[i].status = "active")
  <2>1. talks[i] = [status |-> talks[i].status, draft |-> talks[i].draft,
                    messages |-> talks[i].messages]
    BY <1>0, <1>4, RowIs
  <2>2. CASE e \in Drafts
    <3>1. talks'[i] = [status |-> IF s = "completed" THEN talks[i].status ELSE "completed",
                       messages |-> said, draft |-> e]
      BY <1>0, <1>4, <1>5, <2>2
    <3> QED
      BY <3>1
  <2>3. CASE e \notin Drafts
    <3>1. talks'[i] = [talks[i] EXCEPT !.messages = said]
      BY <1>0, <1>4, <1>5, <2>3
    <3> QED
      BY <2>1, <3>1
  <2> QED
    BY <2>2, <2>3
<1>8. LastOfAgent(said) = [content |-> e, stamp |-> clock + 1]
  <2>1. clock + 1 \in Nat /\ clock <= clock + 1 /\ post.seen \in Seq(Sayings(clock))
    BY <1>0 DEF PostOk
  <2>2. m \in Sayings(clock + 1) /\ m.role = "assistant" /\ m.content = e /\ m.stamp = clock + 1
    BY <1>0, <1>3, <1>4 DEF Message, Sayings
  <2>3. post.seen \in Seq(Sayings(clock + 1))
    BY <1>0, <2>1, SayingsLater
  <2> QED
    BY <1>3, <2>1, <2>2, <2>3, LastAfter
<1>9. Told(View(i))'
  <2>1. View(i)' = [row |-> i, last |-> LastOfAgent(talks'[i].messages), draft |-> talks'[i].draft]
    BY DEF View
  <2>2. View(i)'.last.stamp = clock + 1
    BY <1>7, <1>8, <2>1
  <2>3. clock + 1 # 0
    BY <1>0
  <2> QED
    BY <2>2, <2>3 DEF Told
<1>10. RowsOne' /\ Active' \subseteq Active
  BY <1>0, <1>2, <1>4, <1>6, <1>7, <1>9, RowSaid
<1> QED
  BY <1>1, <1>2, <1>10, OneSaid

(* A dialog whose polls go on, and whose requests fail. *)
LEMMA PolledOne ==
    ASSUME OneParts, UNCHANGED <<talks, latest, post, inbox, goal, shown, awaits, submitted, visible,
                                 mount>>,
           calls' \subseteq calls, \A c \in calls : c \in calls' \/ c.phase = "failed",
           \A n \in DOMAIN polls' : polls'[n].read =>
              (\E k \in DOMAIN polls : polls'[n] = polls[k]) \/ polls'[n].view = Cur
    PROVE  OneParts'
<1>1. RowsOne' /\ Tokens' = Tokens /\ Cur' = Cur /\ Active' = Active
  BY OneKeeps
<1>2. ASSUME NEW c \in calls' PROVE CallOne(c)'
  <2>1. CallOne(c)
    BY <1>2 DEF OneParts
  <2>2. StartOne(c)'
    BY <1>1, <2>1 DEF CallOne, StartOne
  <2>3. AnswerOne(c)'
    BY <1>1, <2>1 DEF CallOne, AnswerOne
  <2>4. ConfirmOne(c)'
    BY <1>1, <2>1 DEF CallOne, ConfirmOne
  <2> QED
    BY <2>2, <2>3, <2>4 DEF CallOne
<1>3. ASSUME visible', ~ Inserting', NEW w, Awaited(w)' PROVE Agreed(w)'
  <2>1. Awaited(w) /\ visible /\ ~ Inserting
    BY <1>3 DEF Awaited, IsAnswer, Inserting
  <2>2. Agreed(w)
    BY <2>1 DEF OneParts
  <2>3. \A v : ViewOne(w, v) => ViewOne(w, v)'
    BY <1>1, ViewsOne
  <2>4. ViewOne(w, shown)'
    <3>1. PICK v : v = shown
      OBVIOUS
    <3>2. ViewOne(w, v)' /\ shown' = v
      BY <2>2, <2>3, <3>1 DEF Agreed
    <3> QED
      BY <3>2 DEF ViewOne, UpToNow, Outdated, Older, StartHas
  <2>5. ASSUME NEW n \in DOMAIN polls', polls'[n].read PROVE ViewOne(w, polls[n].view)'
    <3>1. PICK v : v = polls'[n].view
      OBVIOUS
    <3>2. ViewOne(w, Cur)
      BY <2>2 DEF Agreed, ViewOne, UpToNow, OneParts
    <3>3. ViewOne(w, v)
      <4>1. CASE v = Cur
        BY <3>2, <4>1
      <4>2. ASSUME NEW k \in DOMAIN polls, polls'[n] = polls[k] PROVE ViewOne(w, v)
        BY <2>2, <2>5, <3>1, <4>2 DEF Agreed
      <4> QED
        BY <2>5, <3>1, <4>1, <4>2
    <3>4. ViewOne(w, v)'
      BY <2>3, <3>3
    <3> QED
      BY <3>1, <3>4 DEF ViewOne, UpToNow, Outdated, Older, StartHas
  <2>6. ASSUME NEW c \in calls', c.kind # "confirm", c.phase = "ok" PROVE ViewOne(w, c.view)'
    BY <2>2, <2>3, <2>6 DEF Agreed
  <2>7. Tokens' = 1 => Stuck(w, Cur)'
    <3>1. PICK u : u = Cur
      OBVIOUS
    <3>2. Tokens' = 1 => Stuck(w, u) /\ Cur' = u
      BY <1>1, <2>2, <3>1 DEF Agreed
    <3> QED
      BY <3>2 DEF Stuck, Blank
  <2> QED
    BY <2>4, <2>5, <2>6, <2>7 DEF Agreed
<1> QED
  BY <1>1, <1>2, <1>3 DEF OneParts, OneCall

(* A dialog that shows what came back, which is not older than what it shows. *)
LEMMA ShownOne ==
    ASSUME OnboardingTyped, OneParts, NEW v, ViewOk(v), shown' = v, ~ Older(v),
           UNCHANGED <<talks, latest, post, inbox, goal, visible, mount>>,
           calls' \subseteq calls,
           \A c \in calls : c.kind = "start" /\ c.phase = "ok" => c \in calls' \/ c.view = v,
           \A n \in DOMAIN polls' : \E k \in DOMAIN polls : polls'[n] = polls[k],
           submitted' => awaits' # 0,
           \A c \in calls' : c.kind = "start" => awaits' = 0 /\ ~ submitted',
           ASSUME visible, ~ Inserting', NEW u, Awaited(u)'
           PROVE  \E w : /\ Agreed(w) /\ ViewOne(w, v)
                         /\ \/ u = w
                            \/ w # 0 /\ w < v.last.stamp /\ UpToNow(v)
    PROVE  OneParts'
<1>0. /\ DialogOk /\ PollsOk /\ CallsOk /\ v.last.stamp \in Nat /\ shown.last.stamp \in Nat
      /\ v.row \in Nat /\ shown.row \in Nat
  BY DEF OnboardingTyped, DialogOk, ViewOk, Views
<1>1. RowsOne' /\ Tokens' = Tokens /\ Cur' = Cur /\ Active' = Active
  BY OneKeeps
<1>2. ASSUME NEW c \in calls' PROVE CallOne(c)'
  <2>1. CallOne(c)
    BY <1>2 DEF OneParts
  <2>2. StartOne(c)'
    BY <1>1, <1>2, <2>1 DEF CallOne, StartOne
  <2>3. AnswerOne(c)'
    BY <1>1, <2>1 DEF CallOne, AnswerOne
  <2>4. ConfirmOne(c)'
    BY <1>1, <2>1 DEF CallOne, ConfirmOne
  <2> QED
    BY <2>2, <2>3, <2>4 DEF CallOne
<1>3. ASSUME NEW x, ViewOk(x), Outdated(x) PROVE Outdated(x)'
  <2>0. x.row \in Nat /\ x.last.stamp \in Nat
    BY <1>3 DEF ViewOk, Views
  <2>1. Older(x) => Older(x)'
    BY <1>0, <2>0 DEF Older
  <2>2. StartHas(x) => StartHas(x)' \/ Older(x)'
    BY DEF StartHas, Older
  <2> QED
    BY <1>3, <2>1, <2>2 DEF Outdated
<1>4. ASSUME visible', ~ Inserting', NEW u, Awaited(u)' PROVE Agreed(u)'
  <2>1. PICK w : /\ Agreed(w) /\ ViewOne(w, v)
                 /\ u = w \/ (w # 0 /\ w < v.last.stamp /\ UpToNow(v))
    BY <1>4
  <2>2. ASSUME NEW x, ViewOk(x), ViewOne(w, x) PROVE ViewOne(u, x)'
    <3>1. CASE Outdated(x)
      BY <1>3, <2>2, <3>1 DEF ViewOne
    <3>2. CASE UpToNow(x)
      BY <1>1, <3>2 DEF ViewOne, UpToNow
    <3>3. CASE Stuck(w, x)
      <4>1. CASE u = w
        BY <3>3, <4>1 DEF ViewOne, Stuck, Blank
      <4>2. CASE w # 0 /\ w < v.last.stamp
        <5>1. x.last.stamp < v.last.stamp
          BY <3>3, <4>2 DEF Stuck
        <5>2. Older(x)'
          BY <5>1 DEF Older
        <5> QED
          BY <5>2 DEF ViewOne, Outdated
      <4> QED
        BY <2>1, <4>1, <4>2
    <3> QED
      BY <2>2, <3>1, <3>2, <3>3 DEF ViewOne
  <2>3. ViewOne(u, shown)'
    <3>1. ViewOne(u, v)'
      BY <2>1, <2>2
    <3> QED
      BY <3>1 DEF ViewOne, UpToNow, Outdated, Older, StartHas
  <2>4. ASSUME NEW n \in DOMAIN polls', polls'[n].read PROVE ViewOne(u, polls[n].view)'
    <3>1. PICK k \in DOMAIN polls : polls'[n] = polls[k]
      BY <2>4
    <3>2. PICK x : x = polls[k].view
      OBVIOUS
    <3>3. polls[k].read /\ polls'[n].view = x
      BY <2>4, <3>1, <3>2
    <3>4. ViewOk(x) /\ ViewOne(w, x)
      BY <1>0, <2>1, <3>2, <3>3 DEF Agreed, PollsOk
    <3>5. ViewOne(u, x)'
      BY <2>2, <3>4
    <3> QED
      BY <3>3, <3>5 DEF ViewOne, UpToNow, Outdated, Older, StartHas
  <2>5. ASSUME NEW c \in calls', c.kind # "confirm", c.phase = "ok" PROVE ViewOne(u, c.view)'
    <3>1. ViewOk(c.view) /\ ViewOne(w, c.view)
      BY <1>0, <2>1, <2>5 DEF Agreed, CallsOk, CallOk
    <3> QED
      BY <2>2, <3>1
  <2>6. Tokens' = 1 => Stuck(u, Cur)'
    <3>1. PICK y : y = Cur
      OBVIOUS
    <3>2. Tokens' = 1 => Stuck(u, y)
      BY <1>1, <2>1, <3>1 DEF Agreed, UpToNow
    <3> QED
      BY <1>1, <3>1, <3>2 DEF Stuck, Blank
  <2> QED
    BY <2>3, <2>4, <2>5, <2>6 DEF Agreed
<1> QED
  BY <1>1, <1>2, <1>4 DEF OneParts, OneCall

(* The dialog that is closed leaves nothing behind. *)
LEMMA ClosedOne ==
    ASSUME OneParts, NEW remaining \in SUBSET calls, Unmounted(remaining),
           "abandoned" \notin mishaps', UNCHANGED <<talks, latest, post, inbox, goal>>
    PROVE  OneParts'
<1>1. calls' = {} /\ visible' = FALSE /\ submitted' = FALSE
  BY DEF Unmounted, OneParts, OneCall
<1>2. RowsOne' /\ Tokens' = Tokens
  BY OneKeeps
<1> QED
  BY <1>1, <1>2 DEF OneParts, OneCall

(* A dialog that is opened finds the agent silent: it is not opened again. *)
LEMMA OpenOne ==
    ASSUME OnboardingTyped, OneParts, OpenDialog, "reopened" \notin mishaps'
    PROVE  OneParts'
<1>0. /\ inbox \in Nat /\ DialogOk /\ ~ visible
      /\ UNCHANGED <<talks, latest, post, inbox, goal, shown, awaits, submitted, polls>>
  BY DEF OnboardingTyped, TalksOk, OpenDialog, talkVars, agentVars, dialogVars
<1>1. shown = Unknown /\ awaits = 0 /\ ~ submitted /\ polls = <<>>
  BY <1>0 DEF DialogOk
<1>2. Tokens = 0
  BY <1>0 DEF OpenDialog, Tokens
<1>3. RowsOne' /\ Tokens' = Tokens
  BY <1>0, OneKeeps
<1>4. PICK d : d = Call(mount', "start", Nothing)
  OBVIOUS
<1>5. d.kind = "start" /\ d.phase = "sent" /\ d.mount = mount' /\ ~ IsAnswer(d)
  BY <1>4 DEF Call, IsAnswer
<1>6. calls' = {d} /\ visible'
  BY <1>0, <1>4 DEF OneParts, OneCall, OpenDialog
<1>7. CallOne(d)'
  BY <1>0, <1>1, <1>2, <1>3, <1>5 DEF CallOne, StartOne, AnswerOne, ConfirmOne
<1>8. ASSUME NEW w, Awaited(w)' PROVE Agreed(w)'
  <2>1. w = 0
    BY <1>0, <1>1, <1>5, <1>6, <1>8, AwaitedNext
  <2>2. Blank(Unknown) /\ shown' = Unknown /\ polls' = <<>>
    BY <1>0, <1>1 DEF Blank, Unknown, NoMessage
  <2>3. ViewOne(w, shown)'
    BY <2>1, <2>2 DEF ViewOne, Stuck, Blank
  <2> QED
    BY <1>2, <1>3, <1>5, <1>6, <2>2, <2>3 DEF Agreed
<1>9. OneCall'
  BY <1>5, <1>6 DEF OneCall
<1> QED
  BY <1>0, <1>3, <1>6, <1>7, <1>8, <1>9 DEF OneParts

(* What the user answers, or confirms, is the conversation as it is. *)
LEMMA OfferOne ==
    ASSUME OnboardingTyped, OneParts, Offers \/ OffersDraft, ~ Loading
    PROVE  /\ calls = {} /\ awaits = 0 /\ ~ submitted /\ Agreed(0)
           /\ shown = Cur /\ Tokens = 0 /\ shown.last.stamp # 0
           /\ shown.draft # Nothing => talks[latest].draft = shown.draft
<1>0. /\ DialogOk /\ visible /\ awaits = 0 /\ RowsOne /\ TalksOk /\ latest \in 0..Len(talks)
      /\ Len(talks) \in Nat
  BY DEF OnboardingTyped, OneParts, TalksOk, Offers, OffersDraft
<1>1. calls = {} /\ ~ submitted
  BY <1>0 DEF OneParts, OneCall, Loading
<1>2. Agreed(0)
  BY <1>0, <1>1 DEF OneParts, Awaited, Inserting
<1>3. ~ Blank(shown) /\ ~ Outdated(shown)
  <2>1. Offers => shown.last.content # Nothing
    BY DEF Offers, Question
  <2>2. ~ Blank(shown)
    BY <1>0, <2>1 DEF Blank, Offers, OffersDraft, DialogOk, ViewOk
  <2>3. shown.row \in Nat /\ shown.last.stamp \in Nat
    BY <1>0 DEF DialogOk, ViewOk, Views
  <2> QED
    BY <1>1, <2>2, <2>3 DEF Outdated, Older, StartHas
<1>4. shown = Cur /\ Tokens = 0
  BY <1>2, <1>3 DEF Agreed, ViewOne, Stuck, UpToNow
<1>5. shown.draft # Nothing => latest # 0 /\ shown = View(latest)
  BY <1>4 DEF Cur, Unknown
<1>6. shown.draft # Nothing => talks[latest].draft = shown.draft
  BY <1>5 DEF View
<1>7. shown.last.stamp # 0
  <2>1. CASE shown.draft = Nothing
    BY <1>3, <2>1 DEF Blank
  <2>2. CASE shown.draft # Nothing
    <3>1. PICK i : i = latest /\ i \in 1..Len(talks)
      BY <1>0, <1>5, <2>2
    <3>2. Told(View(i))
      BY <1>0, <3>1 DEF RowsOne
    <3> QED
      BY <1>5, <2>2, <3>1, <3>2 DEF Told
  <2> QED
    BY <2>1, <2>2
<1> QED
  BY <1>0, <1>1, <1>2, <1>4, <1>6, <1>7

(* A request of the user that is sent. *)
LEMMA SentOne ==
    ASSUME OnboardingTyped, OneParts, Offers \/ OffersDraft, ~ Loading, NEW d, calls' = {d},
           d.phase = "sent", d.mount = mount,
           \/ d.kind = "answer" /\ d.before = shown.last.stamp
           \/ d.kind = "confirm" /\ d.content = shown.draft /\ shown.draft # Nothing,
           UNCHANGED <<talks, latest, post, inbox, goal, shown, polls, visible, mount>>,
           awaits' = 0, submitted' = FALSE
    PROVE  OneParts'
<1>0. DialogOk /\ PollsOk /\ visible
  BY DEF OnboardingTyped, Offers, OffersDraft
<1>1. /\ calls = {} /\ awaits = 0 /\ ~ submitted /\ Agreed(0)
      /\ shown = Cur /\ Tokens = 0 /\ shown.last.stamp # 0
      /\ shown.draft # Nothing => talks[latest].draft = shown.draft
  BY OfferOne
<1>2. RowsOne' /\ Tokens' = Tokens /\ Cur' = Cur
  BY OneKeeps
<1>3. CallOne(d)' /\ ~ IsAnswer(d)
  BY <1>1, <1>2 DEF CallOne, StartOne, AnswerOne, ConfirmOne, IsAnswer
<1>4. ASSUME NEW w, Awaited(w)' PROVE Agreed(w)'
  <2>1. w = 0
    BY <1>3, <1>4, AwaitedNext
  <2>2. \A v : ViewOne(0, v) => ViewOne(0, v)'
    BY <1>1, <1>2, ViewsOne
  <2> QED
    BY <1>0, <1>1, <1>2, <2>1, <2>2, AgreedStays
<1>5. OneCall'
  BY <1>0 DEF OneCall
<1> QED
  BY <1>2, <1>3, <1>4, <1>5 DEF OneParts

(* The user. *)
LEMMA UserOne ==
    ASSUME OnboardingTyped, OneParts, UserSteps, "abandoned" \notin mishaps',
           "reopened" \notin mishaps'
    PROVE  OneParts'
<1>1. CASE OpenDialog
  BY <1>1, OpenOne
<1>2. CASE CloseDialog
  BY <1>2, ClosedOne DEF CloseDialog, talkVars, agentVars
<1>3. ASSUME NEW content, Submit(content) PROVE OneParts'
  <2>1. PICK d : d = Call(mount, "answer", content)
    OBVIOUS
  <2>2. d.kind = "answer" /\ d.phase = "sent" /\ d.mount = mount /\ d.before = shown.last.stamp
    BY <2>1 DEF Call
  <2>3. /\ Offers \/ OffersDraft
        /\ ~ Loading /\ awaits' = 0 /\ submitted' = FALSE
        /\ UNCHANGED <<talks, latest, post, inbox, goal, shown, polls, visible, mount>>
    BY <1>3 DEF Submit, talkVars, agentVars
  <2>4. calls' = {d}
    BY <1>3, <2>1, <2>3, OfferOne DEF Submit
  <2> QED
    BY <2>2, <2>3, <2>4, SentOne
<1>4. CASE Confirm
  <2>1. PICK d : d = Call(mount, "confirm", shown.draft)
    OBVIOUS
  <2>2. d.kind = "confirm" /\ d.phase = "sent" /\ d.mount = mount /\ d.content = shown.draft
    BY <2>1 DEF Call
  <2>3. /\ OffersDraft /\ ~ Loading /\ shown.draft # Nothing
        /\ UNCHANGED <<talks, latest, post, inbox, goal, shown, polls, visible, mount, awaits, submitted>>
    BY <1>4 DEF Confirm, OffersDraft, talkVars, agentVars, dialogVars
  <2>4. calls' = {d} /\ awaits' = 0 /\ submitted' = FALSE
    <3>1. calls = {} /\ awaits = 0 /\ ~ submitted /\ submitted \in BOOLEAN
      BY <2>3, OfferOne DEF OnboardingTyped, DialogOk
    <3> QED
      BY <1>4, <2>1, <2>3, <3>1 DEF Confirm
  <2> QED
    BY <2>2, <2>3, <2>4, SentOne
<1> QED
  BY <1>1, <1>2, <1>3, <1>4 DEF UserSteps

(* The answers to the dialog. *)
LEMMA ReturnsOne ==
    ASSUME OnboardingTyped, OneParts, AskedInv, NEW c \in calls, Returns(c),
           "overtaken" \notin mishaps', "abandoned" \notin mishaps'
    PROVE  OneParts'
<1>0. /\ CallsOk /\ OneCall /\ CallOk(c) /\ CallOne(c) /\ ViewOk(c.view)
      /\ UNCHANGED <<talks, latest, post, inbox, goal, mount>>
  BY DEF OnboardingTyped, OneParts, CallsOk, CallOk, Returns, CallReturns, CallFails, talkVars,
     agentVars
<1>1. calls = {c} /\ visible
  BY <1>0, AloneIs
<1>2. CASE Unmounted(calls \ {c})
  BY <1>0, <1>2, ClosedOne
<1>3. CASE CallFails(c)
  <2>1. calls' = calls \ {c} /\ c.phase = "failed"
        /\ UNCHANGED <<shown, awaits, submitted, visible, polls>>
    BY <1>3 DEF CallFails, dialogVars
  <2> QED
    BY <1>0, <2>1, PolledOne
<1>4. CASE CallReturns(c) /\ c.kind = "start"
  <2>1. /\ calls' = {} /\ Shows(c.view, awaits, submitted) /\ UNCHANGED <<visible, polls>>
        /\ c.phase = "ok"
    BY <1>1, <1>4 DEF CallReturns
  <2>2. awaits = 0 /\ ~ submitted /\ ~ IsAnswer(c) /\ ~ Inserting
    BY <1>0, <1>1, <1>4, <2>1 DEF CallOne, StartOne, IsAnswer, Inserting
  <2>3. PICK v : v = c.view
    OBVIOUS
  <2>4. shown' = v /\ ~ Older(v) /\ awaits' = 0 /\ submitted' = FALSE
    BY <2>1, <2>2, <2>3 DEF Shows
  <2>5. Agreed(0) /\ ViewOne(0, v)
    <3>1. Awaited(0)
      BY <1>1, <2>2, AwaitedIs
    <3> QED
      BY <1>1, <1>4, <2>1, <2>2, <2>3, <3>1 DEF OneParts, Agreed
  <2>6. \A u : Awaited(u)' => u = 0
    BY <2>1, <2>4 DEF Awaited
  <2> QED
    BY <1>0, <1>1, <2>1, <2>3, <2>4, <2>5, <2>6, ShownOne
<1>5. CASE CallReturns(c) /\ c.kind = "answer"
  <2>1. /\ calls' = {} /\ Shows(c.view, c.before, TRUE) /\ UNCHANGED <<visible, polls>>
        /\ c.phase = "ok"
    BY <1>1, <1>5 DEF CallReturns
  <2>2. c.before # 0 /\ c.view.last.stamp = c.before /\ IsAnswer(c) /\ ~ Inserting
    BY <1>0, <1>1, <1>5, <2>1 DEF CallOne, AnswerOne, IsAnswer, Inserting
  <2>3. PICK v, w : v = c.view /\ w = c.before
    OBVIOUS
  <2>4. shown' = v /\ ~ Older(v) /\ awaits' = w
    BY <2>1, <2>2, <2>3 DEF Shows
  <2>5. Agreed(w) /\ ViewOne(w, v)
    <3>1. Awaited(w)
      BY <1>1, <2>2, <2>3, AwaitedIs
    <3> QED
      BY <1>1, <1>5, <2>1, <2>2, <2>3, <3>1 DEF OneParts, Agreed
  <2>6. \A u : Awaited(u)' => u = w
    BY <2>1, <2>4 DEF Awaited
  <2> QED
    BY <1>0, <1>1, <2>1, <2>2, <2>3, <2>4, <2>5, <2>6, ShownOne
<1> QED
  BY <1>2, <1>3, <1>4, <1>5 DEF Returns, CallReturns

(* A poll has come back. *)
LEMMA PollReturnsOne ==
    ASSUME OnboardingTyped, OneParts, AskedInv, NEW n \in DOMAIN polls, PollReturns(n),
           "overtaken" \notin mishaps'
    PROVE  OneParts'
<1>0. /\ CallsOk /\ OneCall /\ DialogOk /\ PollsOk /\ polls[n].read /\ ViewOk(polls[n].view)
      /\ UNCHANGED <<talks, latest, post, inbox, goal, mount, visible, calls>>
      /\ submitted \in BOOLEAN
  BY DEF OnboardingTyped, OneParts, PollsOk, DialogOk, PollReturns, talkVars, agentVars
<1>1. \A m \in DOMAIN polls' : \E k \in DOMAIN polls : polls'[m] = polls[k]
  <2>1. polls' = [k \in 1..Len(polls) - 1 |-> IF k < n THEN polls[k] ELSE polls[k + 1]]
    BY DEF PollReturns
  <2>2. polls \in Seq([read : BOOLEAN, view : Views])
    BY <1>0 DEF PollsOk
  <2> QED
    BY <2>1, <2>2
<1>2. CASE polls[n].view = Unknown
  <2>1. UNCHANGED <<shown, awaits, submitted>>
    BY <1>2 DEF PollReturns
  <2> QED
    BY <1>0, <1>1, <2>1, PolledOne
<1>3. CASE polls[n].view # Unknown
  <2>1. PICK v : v = polls[n].view
    OBVIOUS
  <2>2. Shows(v, awaits, submitted)
    BY <1>3, <2>1 DEF PollReturns
  <2>3. shown' = v /\ ~ Older(v) /\ ViewOk(v) /\ v.last.stamp \in Nat /\ shown.last.stamp \in Nat
    BY <1>0, <2>1, <2>2 DEF Shows, DialogOk, ViewOk, Views
  <2>4. /\ awaits = 0 => awaits' = 0 /\ ~ submitted'
        /\ awaits # 0 /\ v.last.stamp = awaits => awaits' = awaits
        /\ awaits # 0 /\ v.last.stamp # awaits => ~ submitted'
    <3>1. awaits = 0 => ~ submitted
      BY DEF OneParts
    <3> QED
      BY <2>2, <3>1 DEF Shows
  <2>5. submitted' => awaits' # 0
    BY <2>4
  <2>6. \A c \in calls' : c.kind = "start" => awaits' = 0 /\ ~ submitted'
    BY <1>0, <2>4 DEF OneParts, CallOne, StartOne
  <2>7. ASSUME visible, ~ Inserting', NEW u, Awaited(u)'
        PROVE  \E w : /\ Agreed(w) /\ ViewOne(w, v)
                      /\ u = w \/ (w # 0 /\ w < v.last.stamp /\ UpToNow(v))
    <3>0. ~ Inserting
      BY <1>0, <2>7 DEF Inserting
    <3>1. \A w : Agreed(w) => ViewOne(w, v)
      BY <1>0, <2>1 DEF Agreed
    <3>2. CASE \E c \in calls : IsAnswer(c)
      <4>1. Awaited(u)
        BY <1>0, <2>7, <3>2 DEF Awaited, IsAnswer
      <4> QED
        BY <2>7, <3>0, <3>1, <4>1 DEF OneParts
    <3>3. CASE ~ \E c \in calls : IsAnswer(c)
      <4>1. u = awaits' /\ \A w : w = awaits => Awaited(w)
        BY <1>0, <2>7, <3>3 DEF Awaited, IsAnswer
      <4>2. PICK w : w = awaits /\ Agreed(w) /\ ViewOne(w, v)
        BY <2>7, <3>0, <3>1, <4>1 DEF OneParts
      <4>3. CASE w = 0 \/ v.last.stamp = w
        BY <2>4, <4>1, <4>2, <4>3
      <4>4. CASE w # 0 /\ v.last.stamp # w
        <5>1. w < v.last.stamp
          BY <1>0, <2>3, <4>2, <4>4 DEF DialogOk, Older
        <5>2. ~ StartHas(v)
          BY <4>2, <4>4 DEF StartHas, OneParts, CallOne, StartOne
        <5>3. UpToNow(v)
          BY <2>3, <4>2, <4>4, <5>2 DEF ViewOne, Stuck, Outdated
        <5> QED
          BY <4>2, <4>4, <5>1, <5>3
      <4> QED
        BY <4>3, <4>4
    <3> QED
      BY <3>2, <3>3
  <2> QED
    BY <1>0, <1>1, <2>3, <2>5, <2>6, <2>7, ShownOne
<1> QED
  BY <1>2, <1>3

(* The polls. *)
LEMMA PollingOne ==
    ASSUME OnboardingTyped, OneParts, AskedInv, Polling, "overtaken" \notin mishaps'
    PROVE  OneParts'
<1>0. polls \in Seq([read : BOOLEAN, view : Views])
  BY DEF OnboardingTyped, PollsOk
<1>1. CASE PollSent
  <2>1. PICK p : p = [read |-> FALSE, view |-> Unknown]
    OBVIOUS
  <2>2. polls' = Append(polls, p) /\ p.read = FALSE
        /\ UNCHANGED <<talks, latest, post, inbox, goal, shown, awaits, submitted, visible, mount, calls>>
    BY <1>1, <2>1 DEF PollSent, talkVars, agentVars, dialogVars
  <2>3. \A m \in DOMAIN polls' : polls'[m] = p \/ (m \in DOMAIN polls /\ polls'[m] = polls[m])
    BY <1>0, <2>2
  <2> QED
    BY <2>2, <2>3, PolledOne
<1>2. ASSUME NEW n \in DOMAIN polls, PollReads(n) PROVE OneParts'
  <2>1. UNCHANGED <<talks, latest, post, inbox, goal, shown, awaits, submitted, visible, mount, calls>>
    BY <1>2 DEF PollReads, talkVars, agentVars, dialogVars
  <2>2. PICK v : v = Cur
    OBVIOUS
  <2>3. polls' = [polls EXCEPT ![n].read = TRUE, ![n].view = v]
    BY <1>2, <2>2 DEF PollReads, Cur
  <2>4. PICK p : p = [polls[n] EXCEPT !.read = TRUE, !.view = v]
    OBVIOUS
  <2>5. p.view = v /\ polls' = [polls EXCEPT ![n] = p]
    <3>1. polls[n] \in [read : BOOLEAN, view : Views]
      <4>1. PICK T : T = [read : BOOLEAN, view : Views]
        OBVIOUS
      <4>2. polls \in Seq(T) /\ n \in 1..Len(polls)
        BY <1>0, <4>1
      <4>3. polls[n] \in T
        BY <4>2
      <4> QED
        BY <4>1, <4>3
    <3>2. p.view = v
      BY <2>4, <3>1
    <3> QED
      BY <2>3, <2>4, <3>2
  <2>6. \A m \in DOMAIN polls' : polls'[m] = p \/ (m \in DOMAIN polls /\ polls'[m] = polls[m])
    BY <1>0, <2>5
  <2> QED
    BY <2>1, <2>2, <2>5, <2>6, PolledOne
<1> QED
  BY <1>1, <1>2, PollReturnsOne DEF Polling

(* Every step. *)
LEMMA OneNext ==
    ASSUME OnboardingTyped, ReaskInv, OneInv, [OnboardingNext]_onboardingVars
    PROVE  OneInv'
<1> SUFFICES ASSUME ~ Mishap({"unasked", "resent", "overtaken", "abandoned", "reopened"})'
             PROVE  OneParts'
  BY DEF OneInv
<1>1. /\ "unasked" \notin mishaps' /\ "resent" \notin mishaps' /\ "overtaken" \notin mishaps'
      /\ "abandoned" \notin mishaps' /\ "reopened" \notin mishaps'
  BY DEF Mishap
<1>2. OneParts /\ AskedInv
  BY <1>1, MishapsGrow DEF OneInv, Mishap, ReaskInv
<1>3. OnboardingTyped'
  BY OnboardingTypedNext
<1>4. ASSUME NEW c \in calls, Handles(c) PROVE OneParts'
  BY <1>1, <1>2, <1>3, <1>4, StartReadsOne, AnswerReadsOne, AnswerCommitsOne, DispatchOne,
     DispatchFailsOne, StartCommitsOne, ConfirmReadsOne, ConfirmCommitsOne DEF Handles
<1>5. CASE AgentSteps
  <2>1. CASE AgentReads \/ AgentCommits
    BY <1>2, <1>3, <2>1, AgentReadsOne, AgentCommitsOne
  <2> QED
    BY <1>1, <1>2, <1>5, <2>1, AgentSpeaksOne DEF AgentSteps
<1>6. CASE UNCHANGED onboardingVars
  <2>1. UNCHANGED <<talks, latest, post, inbox, goal, shown, awaits, submitted, visible, mount, calls, polls>>
    BY <1>6 DEF onboardingVars, talkVars, agentVars, dialogVars
  <2> QED
    BY <1>2, <2>1, PolledOne
<1> QED
  BY <1>1, <1>2, <1>4, <1>5, <1>6, UserOne, ReturnsOne, PollingOne DEF OnboardingNext

(* The goal and the lead of the board come from one draft. *)
THEOREM GoalIsTheDraft == OnboardingSpec => []OneDraft
<1>1. OnboardingInit => OnboardingTyped /\ ReaskInv /\ OneInv
  <2> SUFFICES ASSUME OnboardingInit PROVE OnboardingTyped /\ AskedInv /\ OneParts
    BY DEF ReaskInv, OneInv
  <2>1. OnboardingTyped
    BY OnboardingTypedInit
  <2>2. AskedInv
    BY DEF OnboardingInit, AskedInv
  <2>3. /\ talks = <<>> /\ latest = 0 /\ LastRow = 0 /\ calls = {} /\ ~ visible /\ ~ submitted
        /\ post.phase = "none" /\ inbox = 0 /\ goal.board = goal.lead
    BY DEF OnboardingInit, LastRow, NoPost
  <2>4. RowsOne /\ Tokens = 0
    BY <2>3 DEF RowsOne, Tokens
  <2> QED
    BY <2>1, <2>2, <2>3, <2>4 DEF OneParts, OneCall
<1>2. OnboardingTyped /\ ReaskInv /\ OneInv /\ [OnboardingNext]_onboardingVars
        => OnboardingTyped' /\ ReaskInv' /\ OneInv'
  BY OnboardingTypedNext, ReaskNext, OneNext
<1>3. OneInv => OneDraft
  BY DEF OneInv, OneParts, OneDraft, Mishap
<1> QED
  BY <1>1, <1>2, <1>3, PTL DEF OnboardingSpec
==============================================================================
