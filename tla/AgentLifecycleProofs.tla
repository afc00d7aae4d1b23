------------------------ MODULE AgentLifecycleProofs ------------------------
(***************************************************************************)
(* Proofs about AgentLifecycle, for any number of requests and, unless a   *)
(* theorem says otherwise, of queue workers: its types and row lock, that  *)
(* a woken agent stays in somebody's hand, and that one worker stops       *)
(* waking an agent at the limit.                                           *)
(***************************************************************************)
EXTENDS AgentLifecycle, FiniteSetTheorems, TLAPS

-----------------------------------------------------------------------------
(***************************************************************************)
(* Types.  What a session holds is a row as well, and none of its times is *)
(* in the future.                                                          *)
(***************************************************************************)
Columns == {"status", "gen", "wakes", "woken", "seen", "deadline", "token", "deleted"}

Jobs == [loaded : Row, edited : Row, wake : BOOLEAN, token : Nat, now : SUBSET Columns,
         sent : BOOLEAN, failed : BOOLEAN, msg : Message]

Timely(r) == r.deadline <= clock + Grace /\ r.seen <= clock /\ r.woken <= clock

OneHolder ==
  /\ lock = {p \in Procs : pc[p] = "gateway"}
  /\ \A p, q \in lock : p = q

Typed ==
  /\ row \in Row /\ Timely(row)
  /\ answered \in BOOLEAN /\ quiet \in BOOLEAN
  /\ gateway \in Nat /\ clock \in Nat /\ calls \in 0..MaxCalls
  /\ streak \in Nat /\ undone \in Nat
  /\ queue \subseteq Message /\ lapsed \subseteq Nat
  /\ pc \in [Procs -> Phases]
  /\ job \in [Procs -> Jobs]
  /\ \A p \in Procs : Timely(job[p].loaded) /\ Timely(job[p].edited)
  /\ OneHolder

-----------------------------------------------------------------------------
(***************************************************************************)
(* What is true of a process by where it is.  A session that saves leaves  *)
(* generation and wake time alone and at most clears the deadline.         *)
(***************************************************************************)
SavesLittle(p) ==
  LET old == job[p].loaded
      new == job[p].edited
  IN pc[p] \in {"save", "beat"} =>
       /\ new.gen = old.gen /\ new.woken = old.woken
       /\ new.deadline \in {old.deadline, Never}
       /\ old.deleted => new.deleted
       /\ job[p].now \subseteq {"seen"}

RunsWake(p) ==
  ~ quiet => pc[p] # "resolve" /\ (pc[p] \in {"mint", "lock", "gateway"} => job[p].wake)

WorkerPhases(w) ==
  /\ pc[w] \in {"idle", "lock", "gateway", "enqueue", "save"}
  /\ pc[w] = "save" => job[w].edited.deadline = Never

(***************************************************************************)
(* Who has the last wake in hand.  A worker does while it runs for a       *)
(* message of the row's generation, or gives up with a deadline to clear.  *)
(***************************************************************************)
Follows(w) == pc[w] \in {"lock", "gateway"} /\ job[w].msg.gen = row.gen
Clears(w) == pc[w] = "save" /\ job[w].loaded.deadline # Never

Held ==
  \/ \E m \in queue : m.gen = row.gen
  \/ \E p \in Procs : pc[p] = "enqueue"
  \/ \E w \in Workers : Follows(w) \/ Clears(w)
  \/ row.gen \in lapsed

WatchInv ==
  /\ \A p \in Procs : SavesLittle(p) /\ RunsWake(p)
  /\ \A w \in Workers : WorkerPhases(w)
  /\ CheckedIn(row) => answered
  /\ AwaitsCheckIn /\ ~ quiet => Held

(***************************************************************************)
(* One worker w counts what it does.  The wakes it has delivered are no    *)
(* more than those of the row, those of cancelled runs, and one that is    *)
(* out with its COMMIT to come; for a run under way, than the wakes it     *)
(* loaded instead of those of the row.                                     *)
(***************************************************************************)
Unsaved(phase, j) == IF phase = "gateway" /\ j.sent THEN 1 ELSE 0
Out(w) == Unsaved(pc[w], job[w])

CountsUp(w) ==
  /\ pc[w] \in {"lock", "gateway"} =>
       /\ job[w].wake /\ job[w].loaded.wakes < MaxWakes
       /\ streak <= job[w].loaded.wakes + undone + Out(w)
  /\ pc[w] = "gateway" => job[w].edited.wakes = job[w].loaded.wakes + 1

KeepsWakes(p) == pc[p] = "gateway" /\ ~ job[p].wake => job[p].edited.wakes = row.wakes

SavesWakes(p) == pc[p] = "save" => job[p].edited.wakes = job[p].loaded.wakes

StreakInv(w) ==
  /\ streak <= row.wakes + undone + Out(w)
  /\ streak <= MaxWakes + undone
  /\ CountsUp(w)
  /\ \A p \in Procs : KeepsWakes(p) /\ SavesWakes(p)

-----------------------------------------------------------------------------
(***************************************************************************)
(* Rows and jobs, column by column.                                        *)
(***************************************************************************)
LEMMA RowFields ==
  ASSUME NEW r \in Row
  PROVE  /\ DOMAIN r = Columns
         /\ r.status \in {"provisioning", "online", "offline"} /\ r.deleted \in BOOLEAN
         /\ r.gen \in Nat /\ r.wakes \in Nat /\ r.woken \in Nat /\ r.seen \in Nat
         /\ r.deadline \in Nat /\ r.token \in Nat
  BY DEF Row, Columns

\* The parts of what a process holds.
LEMMA JobFields ==
  ASSUME NEW j \in Jobs
  PROVE  /\ j.loaded \in Row /\ j.edited \in Row /\ j.wake \in BOOLEAN /\ j.token \in Nat
         /\ j.now \in SUBSET Columns /\ j.sent \in BOOLEAN /\ j.failed \in BOOLEAN
         /\ j.msg \in Message
  BY DEF Jobs

\* The parts of a reconcile message.
LEMMA MessageFields ==
  ASSUME NEW m \in Message
  PROVE  m.gen \in Nat /\ m.deadline \in Nat /\ m.attempts \in 0..MaxRetries /\ m.at \in Nat
  BY DEF Message

\* The two rows a behaviour may start from, and what an idle process holds.
LEMMA FirstRows ==
  /\ NewAgent \in Row /\ KnownAgent \in Row
  /\ NoMessage \in Message
  /\ NoJob \in Jobs
  <1>1. NewAgent \in Row /\ KnownAgent \in Row
    BY DEF NewAgent, KnownAgent, Row, Never
  <1>2. NoMessage \in Message
    BY NumberAssumption DEF NoMessage, Message, Never
  <1> QED BY <1>1, <1>2 DEF NoJob, Jobs, NoToken

\* An UPDATE takes each column from the session or from the row.
LEMMA FlushedColumns ==
  ASSUME row \in Row, NEW old \in Row, NEW new \in Row, NEW now
  PROVE  LET f == Flushed(old, new, now) IN
         /\ f \in Row
         /\ f.status = IF "status" \in now \/ new.status # old.status THEN new.status ELSE row.status
         /\ f.gen = IF "gen" \in now \/ new.gen # old.gen THEN new.gen ELSE row.gen
         /\ f.wakes = IF "wakes" \in now \/ new.wakes # old.wakes THEN new.wakes ELSE row.wakes
         /\ f.woken = IF "woken" \in now \/ new.woken # old.woken THEN new.woken ELSE row.woken
         /\ f.seen = IF "seen" \in now \/ new.seen # old.seen THEN new.seen ELSE row.seen
         /\ f.deadline = IF "deadline" \in now \/ new.deadline # old.deadline
                         THEN new.deadline ELSE row.deadline
         /\ f.token = IF "token" \in now \/ new.token # old.token THEN new.token ELSE row.token
         /\ f.deleted = IF "deleted" \in now \/ new.deleted # old.deleted
                        THEN new.deleted ELSE row.deleted
  <1> DEFINE f == Flushed(old, new, now)
  <1>1. f = [c \in Columns |-> IF c \in now \/ new[c] # old[c] THEN new[c] ELSE row[c]]
    BY RowFields DEF Flushed
  <1>2. /\ f.status = IF "status" \in now \/ new.status # old.status THEN new.status ELSE row.status
        /\ f.gen = IF "gen" \in now \/ new.gen # old.gen THEN new.gen ELSE row.gen
        /\ f.wakes = IF "wakes" \in now \/ new.wakes # old.wakes THEN new.wakes ELSE row.wakes
        /\ f.woken = IF "woken" \in now \/ new.woken # old.woken THEN new.woken ELSE row.woken
        /\ f.seen = IF "seen" \in now \/ new.seen # old.seen THEN new.seen ELSE row.seen
        /\ f.deadline = IF "deadline" \in now \/ new.deadline # old.deadline
                        THEN new.deadline ELSE row.deadline
        /\ f.token = IF "token" \in now \/ new.token # old.token THEN new.token ELSE row.token
        /\ f.deleted = IF "deleted" \in now \/ new.deleted # old.deleted
                       THEN new.deleted ELSE row.deleted
    BY <1>1 DEF Columns
  <1>3. /\ f.status \in {"provisioning", "online", "offline"} /\ f.deleted \in BOOLEAN
        /\ f.gen \in Nat /\ f.wakes \in Nat /\ f.woken \in Nat /\ f.seen \in Nat
        /\ f.deadline \in Nat /\ f.token \in Nat
    BY <1>2, RowFields
  <1>4. f = [status |-> f.status, gen |-> f.gen, wakes |-> f.wakes, woken |-> f.woken,
             seen |-> f.seen, deadline |-> f.deadline, token |-> f.token, deleted |-> f.deleted]
    BY <1>1 DEF Columns
  <1>5. f \in Row
    BY <1>3, <1>4 DEF Row
  <1> QED BY <1>2, <1>5

\* A new token is a token: finitely many are in use.
LEMMA FreshIsToken ==
  ASSUME gateway \in Nat, row \in Row, job \in [Procs -> Jobs]
  PROVE  Fresh \in Nat
  <1> DEFINE Held3(p) == {job[p].token, job[p].loaded.token, job[p].edited.token}
             Sets == {Held3(p) : p \in Procs}
             held == [p \in Procs |-> Held3(p)]
             n == Cardinality(InUse)
  <1>1. IsFiniteSet(Procs)
    BY ProcessAssumption, FS_Union DEF Procs
  <1>2. IsFiniteSet(Sets)
    <2>1. held \in Surjection(Procs, Sets)
      BY DEF Surjection
    <2> HIDE DEF held, Sets
    <2> QED BY <1>1, <2>1, FS_Surjection
  <1>3. \A S \in Sets : IsFiniteSet(S)
    <2>1. ASSUME NEW p \in Procs PROVE IsFiniteSet(Held3(p))
      <3>1. IsFiniteSet({job[p].token} \cup {job[p].loaded.token})
        BY FS_Singleton, FS_Union
      <3>2. IsFiniteSet(({job[p].token} \cup {job[p].loaded.token}) \cup {job[p].edited.token})
        BY <3>1, FS_Singleton, FS_Union
      <3>3. Held3(p) = ({job[p].token} \cup {job[p].loaded.token}) \cup {job[p].edited.token}
        OBVIOUS
      <3> QED BY <3>2, <3>3
    <2> QED BY <2>1
  <1>4. IsFiniteSet(InUse)
    <2>1. IsFiniteSet(UNION Sets)
      BY <1>2, <1>3, FS_UNION
    <2>2. IsFiniteSet({gateway} \cup {row.token})
      BY FS_Singleton, FS_Union
    <2>3. InUse = ({gateway} \cup {row.token}) \cup UNION Sets
      BY DEF InUse
    <2> HIDE DEF Sets
    <2> QED BY <2>1, <2>2, <2>3, FS_Union
  <1>5. n \in Nat
    BY <1>4, FS_CardinalityType
  <1>6. Cardinality(1..(n + 1)) = n + 1 /\ IsFiniteSet(1..(n + 1))
    BY <1>5, FS_Interval
  <1>7. ~ (1..(n + 1) \subseteq InUse)
    BY <1>4, <1>5, <1>6, FS_Subset
  <1>8. \E t \in 1..(n + 1) : t \notin InUse
    BY <1>7
  <1>9. Fresh \in 1..(n + 1)
    BY <1>8 DEF Fresh
  <1> QED BY <1>5, <1>9

-----------------------------------------------------------------------------
(***************************************************************************)
(* What each action does, as far as the invariants look: one lemma per     *)
(* action, with the job of its process spelled out.                        *)
(***************************************************************************)
Put(p, phase, j) == pc' = [pc EXCEPT ![p] = phase] /\ job' = [job EXCEPT ![p] = j]

\* A process is where it was put; the others have not moved.
LEMMA PutIs ==
  ASSUME Typed, NEW p \in Procs, NEW phase, NEW j, Put(p, phase, j)
  PROVE  /\ pc'[p] = phase /\ job'[p] = j
         /\ \A q \in Procs \ {p} : pc'[q] = pc[q] /\ job'[q] = job[q]
  BY DEF Typed, Put

\* A session that has just loaded the row.
LEMMA LoadedIs ==
  ASSUME Typed, NEW wake \in BOOLEAN, NEW token \in Nat
  PROVE  LET j == Loaded(wake, token) IN
         /\ j \in Jobs
         /\ j.loaded = row /\ j.edited = row /\ j.wake = wake /\ j.token = token
         /\ j.now = {} /\ j.failed = FALSE /\ j.msg = NoMessage
  BY FirstRows DEF Typed, Loaded, NoJob, Jobs

\* A heartbeat or another request of the agent marks it seen, and no more.
LEMMA TouchedIs ==
  ASSUME Typed
  PROVE  /\ Touched \in Row /\ Timely(Touched)
         /\ Touched.gen = row.gen /\ Touched.woken = row.woken /\ Touched.wakes = row.wakes
         /\ Touched.deadline = row.deadline /\ Touched.deleted = row.deleted
  <1>1. CASE SeenLately
    BY <1>1 DEF Typed, Touched
  <1>2. CASE ~ SeenLately
    <2>1. Touched = [row EXCEPT !.seen = clock, !.status = "online"]
      BY <1>2 DEF Touched
    <2>2. /\ Touched.gen = row.gen /\ Touched.woken = row.woken /\ Touched.wakes = row.wakes
          /\ Touched.deadline = row.deadline /\ Touched.deleted = row.deleted
          /\ Touched.seen = clock /\ Touched \in Row
      BY <2>1 DEF Typed, Row
    <2>3. clock <= clock
      BY DEF Typed
    <2> QED BY <2>2, <2>3 DEF Typed, Timely
  <1> QED BY <1>1, <1>2

\* The first step of a request.
Arrives(p, phase, j) ==
  /\ Put(p, phase, j) /\ pc[p] = "idle"
  /\ phase \in {"mint", "lock", "resolve", "save", "beat"}
  /\ j \in Jobs /\ j.loaded = row /\ Timely(j.edited)
  /\ calls' \in 0..MaxCalls /\ gateway' \in Nat
  /\ quiet' \in BOOLEAN /\ (quiet => quiet')
  /\ ~ quiet' => phase # "resolve" /\ (phase \in {"mint", "lock"} => j.wake)
  /\ phase \in {"save", "beat"} =>
       /\ j.edited.gen = row.gen /\ j.edited.woken = row.woken
       /\ j.edited.deadline \in {row.deadline, Never}
       /\ row.deleted => j.edited.deleted
       /\ j.now \subseteq {"seen"}
  /\ phase = "save" => j.edited.wakes = row.wakes
  /\ UNCHANGED <<row, answered, lock, queue, clock, lapsed, streak, undone>>

\* Every request arrives in this way: it only takes a job to an idle process.
LEMMA RequestIs ==
  ASSUME Typed, NEW p \in Callers, Request(p)
  PROVE  \E phase, j : Arrives(p, phase, j)
  <1>0. /\ row \in Row /\ Timely(row) /\ clock \in Nat /\ gateway \in Nat /\ quiet \in BOOLEAN
        /\ calls \in 0..MaxCalls
    BY DEF Typed
  <1>1. ASSUME NEW kind, NEW phase, NEW j, Arrive(p, kind, phase, j)
        PROVE  /\ Put(p, phase, j) /\ pc[p] = "idle" /\ calls' \in 0..MaxCalls
               /\ quiet' = (quiet \/ kind \in {"sync", "ensure"})
    BY <1>0, <1>1, NumberAssumption DEF Arrive, Goto, Put
  <1>2. /\ Loaded(TRUE, NoToken) \in Jobs /\ Loaded(FALSE, NoToken) \in Jobs
        /\ Loaded(TRUE, NoToken).wake = TRUE
        /\ Loaded(TRUE, NoToken).loaded = row /\ Loaded(TRUE, NoToken).edited = row
        /\ Loaded(FALSE, NoToken).loaded = row /\ Loaded(FALSE, NoToken).edited = row
        /\ Loaded(FALSE, NoToken).now = {}
    BY LoadedIs DEF NoToken
  <1>3. CASE Update(p)
    BY <1>0, <1>1, <1>2, <1>3 DEF Update, Arrives, agent, tally
  <1>4. CASE Provision(p)
    BY <1>0, <1>1, <1>2, <1>4 DEF Provision, Arrives, agent, tally
  <1>5. CASE Ensure(p)
    BY <1>0, <1>1, <1>2, <1>5 DEF Ensure, Arrives, agent, tally
  <1>6. CASE Sync(p)
    BY <1>0, <1>1, <1>2, <1>6 DEF Sync, Arrives, agent, tally
  <1>7. CASE Touch(p)
    <2> DEFINE now == IF SeenLately THEN {} ELSE {"seen"}
               j == [Loaded(FALSE, NoToken) EXCEPT !.edited = Touched, !.now = now]
    <2>1. now \in SUBSET Columns /\ now \subseteq {"seen"}
      BY DEF Columns
    <2>2. Arrive(p, "touch", "save", j) /\ UNCHANGED <<agent, lock, gateway, queue, clock, lapsed, tally>>
      BY <1>7 DEF Touch
    <2>3. /\ j \in Jobs /\ j.loaded = row /\ j.edited = Touched /\ j.now \subseteq {"seen"}
      <3> HIDE DEF now
      <3> QED BY <1>2, <2>1, TouchedIs DEF Jobs
    <2> HIDE DEF j
    <2> QED BY <1>0, <1>1, <2>2, <2>3, TouchedIs DEF Arrives, agent, tally
  <1>8. CASE Heartbeat(p)
    <2> DEFINE beat == [Touched EXCEPT !.status = IF @ = "provisioning" THEN "online" ELSE @,
                                       !.seen = clock, !.wakes = 0, !.deadline = Never]
               j == [Loaded(FALSE, NoToken) EXCEPT !.edited = beat, !.now = {"seen"}]
    <2>1. /\ beat \in Row /\ beat.gen = row.gen /\ beat.woken = row.woken /\ beat.seen = clock
          /\ beat.deadline = Never /\ beat.deleted = row.deleted
      BY <1>0, TouchedIs DEF Row, Never
    <2>2. Arrive(p, "beat", "beat", j) /\ UNCHANGED <<agent, lock, gateway, queue, clock, lapsed, tally>>
      BY <1>8 DEF Heartbeat
    <2>3. Timely(beat)
      BY <1>0, <2>1, NumberAssumption DEF Timely, Never, Row
    <2>4. j \in Jobs /\ j.loaded = row /\ j.edited = beat /\ j.now = {"seen"}
      <3>1. {"seen"} \in SUBSET Columns
        BY DEF Columns
      <3> HIDE DEF beat
      <3> QED BY <1>2, <2>1, <3>1 DEF Jobs
    <2> HIDE DEF j, beat
    <2> QED BY <1>0, <1>1, <2>1, <2>2, <2>3, <2>4 DEF Arrives, agent, tally
  <1>9. CASE Delete(p)
    <2> DEFINE gone == [row EXCEPT !.deleted = TRUE, !.token = NoToken]
               j == [Loaded(FALSE, NoToken) EXCEPT !.edited = gone]
    <2>1. /\ gone \in Row /\ gone.gen = row.gen /\ gone.woken = row.woken /\ gone.seen = row.seen
          /\ gone.deadline = row.deadline /\ gone.deleted = TRUE /\ gone.wakes = row.wakes
      BY <1>0 DEF Row, NoToken
    <2>2. /\ Arrive(p, "delete", "save", j) /\ gateway' \in Nat
          /\ UNCHANGED <<agent, lock, queue, clock, lapsed, tally>>
      BY <1>9 DEF Delete, NoToken
    <2>3. Timely(gone)
      BY <1>0, <2>1 DEF Timely
    <2>4. j \in Jobs /\ j.loaded = row /\ j.edited = gone /\ j.now = {}
      <3> HIDE DEF gone
      <3> QED BY <1>2, <2>1 DEF Jobs
    <2> HIDE DEF j, gone
    <2> QED BY <1>0, <1>1, <2>1, <2>2, <2>3, <2>4 DEF Arrives, agent, tally
  <1> QED BY <1>3, <1>4, <1>5, <1>6, <1>7, <1>8, <1>9 DEF Request

\* A sync that has found its token on the gateway, or gives up.
LEMMA ResolveIs ==
  ASSUME Typed, NEW p \in Procs, NEW rotate \in BOOLEAN, ResolveToken(p, rotate)
  PROVE  \E phase \in {"idle", "mint", "lock"}, j \in Jobs :
           /\ Put(p, phase, j) /\ pc[p] = "resolve"
           /\ phase = "idle" => j = NoJob
           /\ phase # "idle" => /\ j.loaded = job[p].loaded /\ j.edited = job[p].edited
                                /\ j.wake = job[p].wake /\ j.msg = job[p].msg
           /\ UNCHANGED <<row, answered, lock, gateway, queue, clock, calls, quiet, lapsed, streak, undone>>
  <1>1. CASE gateway = NoToken /\ ~ rotate
    BY <1>1, FirstRows DEF ResolveToken, Done, Goto, Put, agent, arrivals, tally
  <1>2. CASE ~ (gateway = NoToken /\ ~ rotate)
    <2> DEFINE j == [job[p] EXCEPT !.token = gateway]
    <2>1. job[p] \in Jobs /\ gateway \in Nat
      BY DEF Typed
    <2>2. /\ j \in Jobs /\ j.loaded = job[p].loaded /\ j.edited = job[p].edited
          /\ j.wake = job[p].wake /\ j.msg = job[p].msg
      BY <2>1 DEF Jobs
    <2>3. job' = [job EXCEPT ![p] = j]
      BY <1>2 DEF ResolveToken, Typed
    <2>4. \E phase \in {"mint", "lock"} : pc' = [pc EXCEPT ![p] = phase]
      BY <1>2 DEF ResolveToken, Goto
    <2>5. /\ pc[p] = "resolve"
          /\ UNCHANGED <<row, answered, lock, gateway, queue, clock, calls, quiet, lapsed, streak, undone>>
      BY DEF ResolveToken, agent, arrivals, tally
    <2> HIDE DEF j
    <2> QED BY <2>2, <2>3, <2>4, <2>5 DEF Put
  <1> QED BY <1>1, <1>2

\* What a COMMIT of the row does to it and to the history of answers.
Writes(r) ==
  /\ row' = r
  /\ answered' \in BOOLEAN
  /\ CheckedIn(r) => answered'
  /\ (r.woken = row.woken /\ answered) => answered'

\* What the row writes have in common.
LEMMA WriteIs ==
  ASSUME NEW r, Write(r)
  PROVE  Writes(r)
  BY DEF Write, Writes, CheckedIn

\* A new token is committed before the run that delivers it.
LEMMA MintIs ==
  ASSUME Typed, NEW p \in Procs, MintToken(p)
  PROVE  \E r \in Row, j \in Jobs :
           /\ Put(p, "lock", j) /\ pc[p] = "mint" /\ lock = {}
           /\ Writes(r)
           /\ r.gen = row.gen /\ r.wakes = row.wakes /\ r.woken = row.woken /\ r.seen = row.seen
           /\ r.deadline = row.deadline /\ r.deleted = row.deleted
           /\ j.loaded = r /\ j.edited = r /\ j.wake = job[p].wake /\ j.msg = job[p].msg
           /\ UNCHANGED <<lock, gateway, queue, clock, calls, quiet, lapsed, streak, undone>>
  <1> DEFINE r == [row EXCEPT !.token = Fresh]
             j == [job[p] EXCEPT !.loaded = r, !.edited = r, !.token = Fresh]
  <1>1. Fresh \in Nat /\ row \in Row /\ job[p] \in Jobs
    BY FreshIsToken DEF Typed
  <1>2. /\ r \in Row
        /\ r.gen = row.gen /\ r.wakes = row.wakes /\ r.woken = row.woken /\ r.seen = row.seen
        /\ r.deadline = row.deadline /\ r.deleted = row.deleted
    BY <1>1 DEF Row
  <1>3. Writes(r) /\ row' = r
    BY WriteIs DEF MintToken, Writes
  <1>4. job' = [job EXCEPT ![p] = j]
    BY <1>3 DEF MintToken, Typed
  <1>5. j \in Jobs /\ j.loaded = r /\ j.edited = r /\ j.wake = job[p].wake /\ j.msg = job[p].msg
    <2> HIDE DEF r
    <2> QED BY <1>1, <1>2 DEF Jobs
  <1>6. /\ pc' = [pc EXCEPT ![p] = "lock"] /\ pc[p] = "mint" /\ lock = {}
        /\ UNCHANGED <<lock, gateway, queue, clock, calls, quiet, lapsed, streak, undone>>
    BY DEF MintToken, Goto, arrivals, tally
  <1> HIDE DEF j, r
  <1> QED BY <1>2, <1>3, <1>4, <1>5, <1>6 DEF Put

\* A run holds the row: its session has written a new generation and, when it
\* wakes the agent, one wake more than it had loaded.
LEMMA LockIs ==
  ASSUME Typed, NEW p \in Procs, LockAgent(p)
  PROVE  \E j \in Jobs :
           /\ Put(p, "gateway", j) /\ pc[p] = "lock" /\ lock = {} /\ lock' = {p}
           /\ j.loaded = job[p].loaded /\ j.wake = job[p].wake /\ j.msg = job[p].msg
           /\ Timely(j.edited)
           /\ job[p].wake => j.edited.wakes = job[p].loaded.wakes + 1
           /\ ~ job[p].wake => j.edited.wakes = row.wakes
           /\ UNCHANGED <<row, answered, gateway, queue, clock, calls, quiet, lapsed, streak, undone>>
  <1> DEFINE token == IF job[p].token = NoToken THEN Fresh ELSE job[p].token
             old == job[p].loaded
             next == [old EXCEPT !.gen = @ + 1,
                                 !.token = IF job[p].token = NoToken THEN token ELSE @,
                                 !.deadline = Never]
             woken == [next EXCEPT !.wakes = @ + 1, !.woken = clock, !.deadline = clock + Grace]
             flushed == IF job[p].wake THEN Flushed(old, woken, {"woken", "deadline"})
                                       ELSE Flushed(old, next, {})
             j == [job[p] EXCEPT !.token = token, !.edited = flushed]
  <1>1. /\ job[p] \in Jobs /\ old \in Row /\ row \in Row /\ clock \in Nat /\ gateway \in Nat
        /\ Timely(row) /\ Timely(old) /\ Grace \in Nat /\ job \in [Procs -> Jobs]
    BY JobFields, NumberAssumption DEF Typed
  <1>2. token \in Nat
    BY <1>1, FreshIsToken, JobFields
  <1>3. next \in Row /\ next.wakes = old.wakes /\ next.woken = old.woken /\ next.seen = old.seen
        /\ next.deadline = Never
    <2>1. old.gen + 1 \in Nat /\ old.token \in Nat
      BY <1>1, RowFields
    <2> HIDE DEF token, old
    <2> QED BY <1>1, <1>2, <2>1 DEF Row, Never
  <1>4. /\ woken \in Row /\ woken.wakes = old.wakes + 1 /\ woken.woken = clock
        /\ woken.seen = old.seen /\ woken.deadline = clock + Grace
    <2>1. next.wakes \in Nat /\ clock + Grace \in Nat /\ next.wakes + 1 \in Nat
      BY <1>1, <1>3, RowFields
    <2> HIDE DEF next
    <2> QED BY <1>1, <1>3, <2>1 DEF Row
  <1> HIDE DEF old, next, woken, token
  <1>5. ASSUME job[p].wake
        PROVE  /\ flushed \in Row /\ Timely(flushed) /\ flushed.wakes = old.wakes + 1
    <2>1. flushed = Flushed(old, woken, {"woken", "deadline"})
      BY <1>5
    <2>2. old.wakes + 1 # old.wakes /\ "wakes" \notin {"woken", "deadline"}
      BY <1>1, RowFields
    <2> HIDE DEF flushed
    <2>3. /\ flushed \in Row /\ flushed.wakes = old.wakes + 1 /\ flushed.woken = clock
          /\ flushed.deadline = clock + Grace /\ flushed.seen \in {old.seen, row.seen}
      BY <1>1, <1>4, <2>1, <2>2, FlushedColumns
    <2>4. clock <= clock /\ clock + Grace <= clock + Grace
      BY <1>1
    <2> QED BY <1>1, <2>3, <2>4 DEF Timely
  <1>6. ASSUME ~ job[p].wake
        PROVE  /\ flushed \in Row /\ Timely(flushed) /\ flushed.wakes = row.wakes
    <2>1. flushed = Flushed(old, next, {})
      BY <1>6
    <2> HIDE DEF flushed
    <2>3. /\ flushed \in Row /\ flushed.wakes = row.wakes /\ flushed.woken = row.woken
          /\ flushed.deadline \in {Never, row.deadline} /\ flushed.seen = row.seen
      BY <1>1, <1>3, <2>1, FlushedColumns
    <2>4. Never <= clock + Grace
      BY <1>1 DEF Never
    <2> QED BY <1>1, <2>3, <2>4 DEF Timely
  <1>7. flushed \in Row
    BY <1>5, <1>6
  <1>8. /\ job' = [job EXCEPT ![p] = j] /\ pc' = [pc EXCEPT ![p] = "gateway"] /\ pc[p] = "lock"
        /\ lock = {} /\ lock' = {p}
        /\ UNCHANGED <<row, answered, gateway, queue, clock, calls, quiet, lapsed, streak, undone>>
    <2>1. /\ job' = [job EXCEPT ![p].token = token, ![p].edited = flushed]
          /\ Goto(p, "gateway") /\ pc[p] = "lock" /\ lock = {} /\ lock' = {p}
          /\ UNCHANGED <<agent, gateway, queue, clock, arrivals, lapsed, tally>>
      BY DEF LockAgent, old, next, woken, token
    <2> HIDE DEF flushed
    <2> QED BY <1>1, <2>1 DEF Goto, agent, arrivals, tally
  <1> HIDE DEF flushed
  <1>9. /\ j \in Jobs /\ j.loaded = job[p].loaded /\ j.wake = job[p].wake /\ j.msg = job[p].msg
        /\ j.edited = flushed
    BY <1>1, <1>2, <1>7 DEF Jobs
  <1> HIDE DEF j
  <1> QED BY <1>5, <1>6, <1>8, <1>9 DEF Put, old

\* The wake message is out: the run goes on as it was, and a worker's is counted.
LEMMA SendIs ==
  ASSUME Typed, NEW p \in Procs, SendWake(p)
  PROVE  \E j \in Jobs :
           /\ Put(p, "gateway", j) /\ pc[p] = "gateway"
           /\ j.loaded = job[p].loaded /\ j.edited = job[p].edited /\ j.msg = job[p].msg
           /\ j.wake /\ job[p].wake /\ j.sent /\ ~ job[p].sent
           /\ gateway' \in Nat
           /\ streak' = IF p \in Workers THEN streak + 1 ELSE streak
           /\ UNCHANGED <<row, answered, lock, queue, clock, calls, quiet, lapsed, undone>>
  <1> DEFINE j == [job[p] EXCEPT !.sent = TRUE]
  <1>1. job[p] \in Jobs /\ job \in [Procs -> Jobs] /\ pc \in [Procs -> Phases] /\ job[p].token \in Nat
    BY JobFields DEF Typed
  <1>2. /\ j \in Jobs /\ j.loaded = job[p].loaded /\ j.edited = job[p].edited /\ j.msg = job[p].msg
        /\ j.wake = job[p].wake /\ j.sent
    BY <1>1 DEF Jobs
  <1>3. job' = [job EXCEPT ![p] = j]
    BY <1>1 DEF SendWake
  <1>4. /\ pc[p] = "gateway" /\ pc' = [pc EXCEPT ![p] = "gateway"]
        /\ job[p].wake /\ ~ job[p].sent /\ gateway' = job[p].token
        /\ streak' = IF p \in Workers THEN streak + 1 ELSE streak
        /\ UNCHANGED <<row, answered, lock, queue, clock, calls, quiet, lapsed, undone>>
    BY <1>1 DEF SendWake, agent, arrivals
  <1> HIDE DEF j
  <1> QED BY <1>1, <1>2, <1>3, <1>4 DEF Put

\* COMMIT of a run: the lock is free and, after a wake, a message is to be queued.
Commits(p, r) ==
  /\ pc[p] = "gateway" /\ lock' = {}
  /\ r \in Row /\ Timely(r) /\ r.wakes = job[p].edited.wakes
  /\ row' = r /\ answered' \in BOOLEAN /\ (CheckedIn(r) => answered')
  /\ \/ job[p].wake /\ p \notin Workers /\ streak' = 0 /\ undone' = 0
     \/ (job[p].wake => p \in Workers) /\ streak' = streak /\ undone' = undone
  /\ gateway' \in Nat
  /\ UNCHANGED <<queue, clock, calls, quiet, lapsed>>

\* Both ends of a gateway call commit the row and go on to the enqueue, or end.
LEMMA CommitIs ==
  ASSUME Typed, NEW p \in Procs,
         GatewaySucceeds(p) \/ \E wrote \in BOOLEAN : GatewayFails(p, wrote)
  PROVE  /\ \E r : Commits(p, r)
         /\ \/ /\ job[p].wake
               /\ \E j \in Jobs : /\ Put(p, "enqueue", j)
                                  /\ j.loaded = job[p].loaded /\ j.edited = job[p].edited
            \/ ~ job[p].wake /\ Put(p, "idle", NoJob)
  <1> DEFINE old == job[p].edited
             up == [old EXCEPT !.status = "online",
                               !.seen = IF job[p].loaded.seen = Never THEN clock ELSE @,
                               !.deadline = IF job[p].wake THEN clock + Grace ELSE @]
             down == [old EXCEPT !.status = "offline"]
             j == [job[p] EXCEPT !.failed = TRUE]
  <1>1. /\ job[p] \in Jobs /\ old \in Row /\ clock \in Nat /\ Grace \in Nat /\ gateway \in Nat
        /\ job[p].token \in Nat /\ Timely(old) /\ job \in [Procs -> Jobs] /\ pc \in [Procs -> Phases]
    BY JobFields, NumberAssumption DEF Typed
  <1>2. /\ old.seen \in Nat /\ old.deadline \in Nat /\ clock + Grace \in Nat
        /\ clock <= clock /\ clock + Grace <= clock + Grace
    BY <1>1, RowFields
  <1> HIDE DEF old
  <1>3. up \in Row /\ up.wakes = old.wakes /\ Timely(up)
    <2>1. up \in Row /\ up.wakes = old.wakes /\ up.woken = old.woken
          /\ up.seen \in {clock, old.seen} /\ up.deadline \in {clock + Grace, old.deadline}
      BY <1>1, <1>2 DEF Row
    <2> HIDE DEF up
    <2> QED BY <1>1, <1>2, <2>1 DEF Timely
  <1>4. down \in Row /\ down.wakes = old.wakes /\ Timely(down)
    BY <1>1 DEF Row, Timely
  <1>5. /\ j \in Jobs /\ j.loaded = job[p].loaded /\ j.edited = job[p].edited
    BY <1>1 DEF Jobs
  <1>6. CASE GatewaySucceeds(p)
    <2>1. /\ CommitRun(p, up) /\ pc[p] = "gateway" /\ gateway' \in Nat
          /\ UNCHANGED <<queue, clock, calls, quiet, lapsed>>
      BY <1>1, <1>6 DEF GatewaySucceeds, old, arrivals
    <2>2. /\ \/ job[p].wake /\ Put(p, "enqueue", job[p])
             \/ ~ job[p].wake /\ Put(p, "idle", NoJob)
      BY <1>1, <1>6 DEF GatewaySucceeds, Goto, Done, Put
    <2> HIDE DEF up
    <2>3. Commits(p, up)
      BY <1>1, <1>3, <2>1, WriteIs, ProcessAssumption
         DEF CommitRun, Commits, Write, CheckedIn, old, tally, Procs
    <2> QED BY <1>1, <2>2, <2>3
  <1>7. CASE \E wrote \in BOOLEAN : GatewayFails(p, wrote)
    <2>1. /\ CommitRun(p, down) /\ pc[p] = "gateway" /\ gateway' \in Nat
          /\ UNCHANGED <<queue, clock, calls, quiet, lapsed>>
      BY <1>1, <1>7 DEF GatewayFails, old, arrivals
    <2>2. /\ \/ job[p].wake /\ Put(p, "enqueue", j)
             \/ ~ job[p].wake /\ Put(p, "idle", NoJob)
      BY <1>1, <1>7 DEF GatewayFails, Goto, Done, Put
    <2> HIDE DEF down, j
    <2>3. Commits(p, down)
      BY <1>1, <1>4, <2>1, WriteIs, ProcessAssumption
         DEF CommitRun, Commits, Write, CheckedIn, old, tally, Procs
    <2> QED BY <1>5, <2>2, <2>3
  <1> QED BY <1>6, <1>7

\* A message whose handling failed is queued again or has run out of retries.
LEMMA RequeueIs ==
  ASSUME Typed, NEW w \in Procs, NEW messages \in SUBSET Message, NEW cut \in SUBSET Nat,
         Requeue(w, messages, cut)
  PROVE  /\ queue' \in SUBSET Message /\ messages \subseteq queue'
         /\ lapsed' \in SUBSET Nat /\ lapsed \subseteq lapsed' /\ cut \subseteq lapsed'
         /\ \/ job[w].msg.gen \in lapsed'
            \/ \E m \in queue' : m.gen = job[w].msg.gen
  <1> DEFINE m == job[w].msg
             again == [m EXCEPT !.attempts = @ + 1, !.at = clock]
  <1>1. m \in Message /\ clock \in Nat /\ lapsed \in SUBSET Nat
    BY JobFields DEF Typed
  <1>2. m.gen \in Nat /\ m.attempts \in Nat /\ MaxRetries \in Nat
    BY <1>1, MessageFields, NumberAssumption
  <1> HIDE DEF m
  <1>3. CASE m.attempts + 1 > MaxRetries
    BY <1>1, <1>2, <1>3 DEF Requeue, m
  <1>4. CASE ~ (m.attempts + 1 > MaxRetries)
    <2>1. m.attempts + 1 \in 0..MaxRetries
      BY <1>2, <1>4
    <2>2. again \in Message /\ again.gen = m.gen
      BY <1>1, <2>1 DEF Message
    <2>3. queue' = messages \cup {again} /\ lapsed' = lapsed \cup cut
      BY <1>4 DEF Requeue, m
    <2> HIDE DEF again
    <2> QED BY <1>1, <2>2, <2>3 DEF m
  <1> QED BY <1>3, <1>4

\* The message of a run is about the row as it is when it is queued.
LEMMA EnqueueIs ==
  ASSUME Typed, NEW p \in Procs, Enqueue(p)
  PROVE  /\ Put(p, "idle", NoJob) /\ pc[p] = "enqueue"
         /\ queue' \in SUBSET Message /\ queue \subseteq queue'
         /\ lapsed' \in SUBSET Nat /\ lapsed \subseteq lapsed'
         /\ row.deadline # Never => \E m \in queue' : m.gen = row.gen
         /\ UNCHANGED <<row, answered, lock, gateway, clock, calls, quiet, streak, undone>>
  <1> DEFINE check == [NoMessage EXCEPT !.gen = row.gen, !.deadline = row.deadline, !.at = row.deadline]
             messages == IF row.deadline = Never THEN queue ELSE queue \cup {check}
  <1>1. check \in Message /\ check.gen = row.gen
    <2>1. row.gen \in Nat /\ row.deadline \in Nat
      BY RowFields DEF Typed
    <2> QED BY <2>1, FirstRows DEF Message, NoMessage
  <1>2. /\ messages \in SUBSET Message /\ queue \subseteq messages
        /\ row.deadline # Never => \E m \in messages : m.gen = row.gen
    BY <1>1 DEF Typed
  <1>3. /\ Put(p, "idle", NoJob) /\ pc[p] = "enqueue"
        /\ UNCHANGED <<row, answered, lock, gateway, clock, calls, quiet, streak, undone>>
    BY DEF Enqueue, Done, Goto, Put, agent, arrivals, tally
  <1>4. Requeue(p, messages, {}) \/ (queue' = messages /\ UNCHANGED lapsed)
    BY DEF Enqueue
  <1> HIDE DEF messages
  <1>5. /\ queue' \in SUBSET Message /\ messages \subseteq queue'
        /\ lapsed' \in SUBSET Nat /\ lapsed \subseteq lapsed'
    BY <1>2, <1>4, RequeueIs DEF Typed
  <1> QED BY <1>2, <1>3, <1>5

\* A session that saves merges what it changed into the row it finds.
LEMMA SaveIs ==
  ASSUME Typed, NEW p \in Procs, Save(p)
  PROVE  LET r == Flushed(job[p].loaded, job[p].edited, job[p].now) IN
         /\ Put(p, "idle", NoJob) /\ pc[p] \in {"save", "beat"} /\ lock = {}
         /\ r \in Row /\ Timely(r)
         /\ row' = r /\ answered' \in BOOLEAN /\ (CheckedIn(r) => answered')
         /\ (r.woken = row.woken /\ answered) => answered'
         /\ streak' = IF pc[p] = "beat" THEN 0 ELSE streak
         /\ undone' = IF pc[p] = "beat" THEN 0 ELSE undone
         /\ UNCHANGED <<lock, gateway, queue, clock, calls, quiet, lapsed>>
  <1> DEFINE r == Flushed(job[p].loaded, job[p].edited, job[p].now)
  <1>1. /\ job[p].loaded \in Row /\ job[p].edited \in Row /\ row \in Row
        /\ Timely(row) /\ Timely(job[p].edited)
    BY JobFields DEF Typed
  <1>2. /\ r \in Row /\ r.woken \in {row.woken, job[p].edited.woken}
        /\ r.seen \in {row.seen, job[p].edited.seen}
        /\ r.deadline \in {row.deadline, job[p].edited.deadline}
    BY <1>1, FlushedColumns
  <1>3. /\ Put(p, "idle", NoJob) /\ pc[p] \in {"save", "beat"} /\ lock = {}
        /\ Write(r)
        /\ streak' = IF pc[p] = "beat" THEN 0 ELSE streak
        /\ undone' = IF pc[p] = "beat" THEN 0 ELSE undone
        /\ UNCHANGED <<lock, gateway, queue, clock, calls, quiet, lapsed>>
    BY DEF Save, Done, Goto, Put, arrivals, tally
  <1> HIDE DEF r
  <1>4. Timely(r)
    BY <1>1, <1>2 DEF Timely
  <1>5. /\ row' = r /\ answered' \in BOOLEAN /\ (CheckedIn(r) => answered')
        /\ (r.woken = row.woken /\ answered) => answered'
    BY <1>3 DEF Write, CheckedIn
  <1> QED BY <1>2, <1>3, <1>4, <1>5 DEF r

\* A message that is dropped is stale, or its agent has checked in.
LEMMA SkipIs ==
  ASSUME Typed, NEW w \in Workers, NEW m \in queue, SkipMessage(w, m)
  PROVE  /\ m.gen # row.gen \/ CheckedIn(row)
         /\ queue' = queue \ {m}
         /\ UNCHANGED <<row, answered, lock, gateway, clock, pc, job, calls, quiet, lapsed, streak, undone>>
  BY DEF SkipMessage, Take, Stale, agent, arrivals, control, tally

\* A message that came early waits for the deadline.
LEMMA DeferIs ==
  ASSUME Typed, NEW w \in Workers, NEW m \in queue, Defer(w, m)
  PROVE  /\ queue' \in SUBSET Message /\ \A n \in queue : \E k \in queue' : k.gen = n.gen
         /\ UNCHANGED <<row, answered, lock, gateway, clock, pc, job, calls, quiet, lapsed, streak, undone>>
  <1> DEFINE late == [m EXCEPT !.at = DeadlineOf(m)]
  <1>1. m \in Message /\ row.deadline \in Nat
    BY RowFields DEF Typed
  <1>2. late \in Message /\ late.gen = m.gen
    <2>1. DeadlineOf(m) \in Nat
      BY <1>1, MessageFields DEF DeadlineOf
    <2> QED BY <1>1, <2>1 DEF Message
  <1>3. queue' = (queue \ {m}) \cup {late}
    BY DEF Defer
  <1>4. UNCHANGED <<row, answered, lock, gateway, clock, pc, job, calls, quiet, lapsed, streak, undone>>
    BY DEF Defer, Take, agent, arrivals, control, tally
  <1> HIDE DEF late
  <1> QED BY <1>2, <1>3, <1>4 DEF Typed

\* A worker acts on an overdue message of the row's generation: it gives up, or
\* wakes the agent once more if the row it loads allows it.
LEMMA ActIs ==
  ASSUME Typed, NEW w \in Workers, NEW m \in queue, GiveUp(w, m) \/ WakeAgain(w, m)
  PROVE  \E phase \in {"save", "lock"}, j \in Jobs :
           /\ Put(w, phase, j) /\ pc[w] = "idle"
           /\ m.gen = row.gen /\ j.msg = m /\ j.loaded = row /\ Timely(j.edited)
           /\ queue' = queue \ {m}
           /\ phase = "save" =>
                /\ j.edited.gen = row.gen /\ j.edited.woken = row.woken
                /\ j.edited.wakes = row.wakes /\ j.edited.deleted = row.deleted
                /\ j.edited.deadline = Never /\ j.now = {}
           /\ phase = "lock" => j.wake /\ row.wakes < MaxWakes
           /\ UNCHANGED <<row, answered, lock, gateway, clock, calls, quiet, lapsed, streak, undone>>
  <1> DEFINE offline == [row EXCEPT !.status = "offline", !.deadline = Never]
             stop == [Loaded(FALSE, NoToken) EXCEPT !.edited = offline, !.msg = m]
             more == [Loaded(TRUE, NoToken) EXCEPT !.msg = m]
  <1>1. /\ m \in Message /\ row \in Row /\ Timely(row) /\ clock \in Nat
        /\ Loaded(TRUE, NoToken) \in Jobs /\ Loaded(FALSE, NoToken) \in Jobs
        /\ Loaded(TRUE, NoToken).wake = TRUE
        /\ Loaded(TRUE, NoToken).loaded = row /\ Loaded(TRUE, NoToken).edited = row
        /\ Loaded(FALSE, NoToken).loaded = row
        /\ Loaded(FALSE, NoToken).now = {}
    BY LoadedIs DEF Typed, NoToken
  <1>2. /\ pc[w] = "idle" /\ m.gen = row.gen /\ queue' = queue \ {m}
        /\ UNCHANGED <<row, answered, lock, gateway, clock, calls, quiet, lapsed, streak, undone>>
    BY DEF GiveUp, WakeAgain, Overdue, Take, Stale, agent, arrivals, tally
  <1>3. CASE GiveUp(w, m)
    <2>1. /\ offline \in Row /\ offline.gen = row.gen /\ offline.woken = row.woken
          /\ offline.wakes = row.wakes /\ offline.deleted = row.deleted
          /\ offline.seen = row.seen /\ offline.deadline = Never
      BY <1>1 DEF Row, Never
    <2>2. Timely(offline)
      BY <1>1, <2>1, NumberAssumption DEF Timely, Never
    <2>3. Put(w, "save", stop)
      BY <1>3 DEF GiveUp, Goto, Put
    <2> HIDE DEF offline
    <2>4. stop \in Jobs /\ stop.msg = m /\ stop.loaded = row /\ stop.edited = offline /\ stop.now = {}
      BY <1>1, <2>1 DEF Jobs
    <2> HIDE DEF stop
    <2> QED BY <1>2, <2>1, <2>2, <2>3, <2>4
  <1>4. CASE WakeAgain(w, m)
    <2>1. Put(w, "lock", more) /\ row.wakes < MaxWakes
      BY <1>4 DEF WakeAgain, Goto, Put
    <2>2. more \in Jobs /\ more.msg = m /\ more.loaded = row /\ more.edited = row /\ more.wake
      BY <1>1 DEF Jobs
    <2> HIDE DEF more
    <2> QED BY <1>1, <1>2, <2>1, <2>2
  <1> QED BY <1>3, <1>4

\* A run that takes too long loses the lock; its message comes again, or lapses.
LEMMA TimesOutIs ==
  ASSUME Typed, NEW w \in Workers, NEW wrote \in BOOLEAN, TimesOut(w, wrote)
  PROVE  /\ Put(w, "idle", NoJob) /\ pc[w] \in {"lock", "gateway", "enqueue"}
         /\ lock' = lock \ {w} /\ gateway' \in Nat
         /\ queue' \in SUBSET Message /\ queue \subseteq queue'
         /\ lapsed' \in SUBSET Nat /\ lapsed \subseteq lapsed'
         /\ pc[w] = "enqueue" => row.gen \in lapsed'
         /\ \/ job[w].msg.gen \in lapsed'
            \/ \E m \in queue' : m.gen = job[w].msg.gen
         /\ undone' = undone + Out(w)
         /\ UNCHANGED <<row, answered, clock, calls, quiet, streak>>
  <1> DEFINE cut == IF pc[w] = "enqueue" THEN {row.gen} ELSE {}
  <1>1. /\ w \in Procs /\ job[w].token \in Nat /\ gateway \in Nat /\ row.gen \in Nat
        /\ queue \in SUBSET Message /\ undone \in Nat
    BY JobFields, RowFields DEF Typed, Procs
  <1>2. /\ Put(w, "idle", NoJob) /\ pc[w] \in {"lock", "gateway", "enqueue"}
        /\ lock' = lock \ {w} /\ gateway' \in Nat
        /\ Requeue(w, queue, cut)
        /\ undone' = undone + Out(w)
        /\ UNCHANGED <<row, answered, clock, calls, quiet, streak>>
    BY <1>1 DEF TimesOut, Done, Goto, Put, agent, arrivals, Out, Unsaved
  <1>3. cut \in SUBSET Nat
    BY <1>1
  <1>4. /\ queue' \in SUBSET Message /\ queue \subseteq queue'
        /\ lapsed' \in SUBSET Nat /\ lapsed \subseteq lapsed' /\ cut \subseteq lapsed'
        /\ \/ job[w].msg.gen \in lapsed'
           \/ \E m \in queue' : m.gen = job[w].msg.gen
    <2> HIDE DEF cut
    <2> QED BY <1>1, <1>2, <1>3, RequeueIs
  <1> QED BY <1>2, <1>4

-----------------------------------------------------------------------------
(***************************************************************************)
(* The types are inductive.                                                *)
(***************************************************************************)
\* A process that stays clear of the gateway leaves the lock as it was.
LEMMA OthersKeepLock ==
  ASSUME Typed, NEW p \in Procs, NEW phase, NEW j, Put(p, phase, j), pc[p] # "gateway",
         phase # "gateway", lock' = lock
  PROVE  OneHolder'
  BY PutIs DEF Typed, OneHolder

\* The holder of the lock gives it up.
LEMMA HolderFrees ==
  ASSUME Typed, NEW p \in Procs, NEW phase, NEW j, Put(p, phase, j),
         phase # "gateway", lock' = lock \ {p}
  PROVE  OneHolder'
  BY PutIs DEF Typed, OneHolder

\* A step that puts one process elsewhere keeps the types of jobs and phases.
LEMMA PutTypes ==
  ASSUME Typed, NEW p \in Procs, NEW phase \in Phases, NEW j \in Jobs, Put(p, phase, j),
         clock' = clock, Timely(j.loaded), Timely(j.edited)
  PROVE  /\ pc' \in [Procs -> Phases] /\ job' \in [Procs -> Jobs]
         /\ \A q \in Procs : Timely(job[q].loaded)' /\ Timely(job[q].edited)'
  <1>1. pc' \in [Procs -> Phases] /\ job' \in [Procs -> Jobs]
    BY DEF Typed, Put
  <1>2. ASSUME NEW q \in Procs
        PROVE  Timely(job[q].loaded)' /\ Timely(job[q].edited)'
    <2>1. CASE q = p
      BY <2>1, PutIs DEF Timely
    <2>2. CASE q # p
      BY <2>2, PutIs DEF Timely, Typed
    <2> QED BY <2>1, <2>2
  <1> QED BY <1>1, <1>2

\* A process that ends keeps them.
LEMMA EndTypes ==
  ASSUME Typed, NEW p \in Procs, Put(p, "idle", NoJob), clock' = clock
  PROVE  /\ pc' \in [Procs -> Phases] /\ job' \in [Procs -> Jobs]
         /\ \A q \in Procs : Timely(job[q].loaded)' /\ Timely(job[q].edited)'
  <1>1. Timely(NoJob.loaded) /\ Timely(NoJob.edited)
    BY NumberAssumption DEF Typed, Timely, NoJob, NewAgent, Never
  <1> QED BY <1>1, FirstRows, PutTypes DEF Phases

\* The types hold at first.
LEMMA InitTyped == Init => Typed
  <1> SUFFICES ASSUME Init PROVE Typed
    OBVIOUS
  <1>1. row \in Row /\ gateway \in Nat /\ answered \in BOOLEAN
    <2>1. KnownAgent.token \in Nat
      BY FirstRows, RowFields
    <2>2. (row = NewAgent /\ gateway = NoToken) \/ (row = KnownAgent /\ gateway = KnownAgent.token)
      BY DEF Init
    <2>3. answered = CheckedIn(row)
      BY DEF Init
    <2>4. answered \in BOOLEAN
      BY <2>3 DEF CheckedIn
    <2> QED BY <2>1, <2>2, <2>4, FirstRows DEF NoToken
  <1>2. Timely(row)
    <2>1. clock = 1 /\ Grace \in Nat
      BY NumberAssumption DEF Init
    <2>2. Timely(NewAgent)
      BY <2>1 DEF Timely, NewAgent, Never
    <2>3. Timely(KnownAgent)
      BY <2>1 DEF Timely, NewAgent, KnownAgent, Never
    <2>4. row = NewAgent \/ row = KnownAgent
      BY DEF Init
    <2> QED BY <2>2, <2>3, <2>4
  <1>3. \A p \in Procs : job[p] = NoJob /\ pc[p] = "idle"
    BY DEF Init
  <1>4. Timely(NoJob.loaded) /\ Timely(NoJob.edited)
    BY NumberAssumption DEF Init, Timely, NoJob, NewAgent, Never
  <1>5. job \in [Procs -> Jobs] /\ pc \in [Procs -> Phases]
    BY FirstRows DEF Init, Phases
  <1>6. OneHolder
    BY <1>3 DEF Init, OneHolder
  <1>7. /\ queue = {} /\ clock = 1 /\ calls = 0 /\ quiet = FALSE /\ lapsed = {}
        /\ streak = 0 /\ undone = 0
    BY DEF Init
  <1>8. calls \in 0..MaxCalls
    BY <1>7, NumberAssumption
  <1>9. \A p \in Procs : Timely(job[p].loaded) /\ Timely(job[p].edited)
    BY <1>3, <1>4
  <1> QED BY <1>1, <1>2, <1>5, <1>6, <1>7, <1>8, <1>9 DEF Typed

\* Every step of every process preserves the types.
LEMMA TypeStep == Typed /\ [Next]_vars => Typed'
  <1> SUFFICES ASSUME Typed, [Next]_vars PROVE Typed'
    OBVIOUS
  <1>0. /\ row \in Row /\ Timely(row) /\ answered \in BOOLEAN /\ quiet \in BOOLEAN
        /\ gateway \in Nat /\ clock \in Nat /\ calls \in 0..MaxCalls
        /\ streak \in Nat /\ undone \in Nat
        /\ queue \subseteq Message /\ lapsed \subseteq Nat
    BY DEF Typed
  <1>1. ASSUME NEW p \in Callers, Request(p) PROVE Typed'
    <2>1. PICK phase, j : Arrives(p, phase, j)
      BY <1>1, RequestIs
    <2>2. /\ p \in Procs /\ phase \in Phases /\ phase # "gateway" /\ j \in Jobs
          /\ Put(p, phase, j) /\ pc[p] # "gateway" /\ clock' = clock
          /\ Timely(j.loaded) /\ Timely(j.edited) /\ lock' = lock
      BY <1>0, <2>1 DEF Arrives, Phases, Procs
    <2>3. OneHolder'
      BY <2>2, OthersKeepLock
    <2>4. Timely(row)'
      BY <1>0, <2>1 DEF Arrives, Timely
    <2>5. /\ pc' \in [Procs -> Phases] /\ job' \in [Procs -> Jobs]
          /\ \A q \in Procs : Timely(job[q].loaded)' /\ Timely(job[q].edited)'
      BY <2>2, PutTypes
    <2> QED BY <1>0, <2>1, <2>3, <2>4, <2>5 DEF Typed, Arrives
  <1>2. ASSUME NEW p \in Procs, NEW rotate \in BOOLEAN, ResolveToken(p, rotate) PROVE Typed'
    <2>1. PICK phase \in {"idle", "mint", "lock"}, j \in Jobs :
           /\ Put(p, phase, j) /\ pc[p] = "resolve"
           /\ phase = "idle" => j = NoJob
           /\ phase # "idle" => /\ j.loaded = job[p].loaded /\ j.edited = job[p].edited
                                /\ j.wake = job[p].wake /\ j.msg = job[p].msg
           /\ UNCHANGED <<row, answered, lock, gateway, queue, clock, calls, quiet, lapsed, streak, undone>>
      BY <1>2, ResolveIs
    <2>2. OneHolder'
      BY <2>1, OthersKeepLock
    <2>3. /\ pc' \in [Procs -> Phases] /\ job' \in [Procs -> Jobs]
          /\ \A q \in Procs : Timely(job[q].loaded)' /\ Timely(job[q].edited)'
      <3>1. CASE phase = "idle"
        BY <2>1, <3>1, EndTypes
      <3>2. CASE phase # "idle"
        <4>1. Timely(j.loaded) /\ Timely(j.edited) /\ phase \in Phases
          BY <2>1, <3>2 DEF Typed, Phases
        <4> QED BY <2>1, <4>1, PutTypes
      <3> QED BY <3>1, <3>2
    <2> QED BY <1>0, <2>1, <2>2, <2>3 DEF Typed, Timely
  <1>3. ASSUME NEW p \in Procs, MintToken(p) PROVE Typed'
    <2>1. PICK r \in Row, j \in Jobs :
           /\ Put(p, "lock", j) /\ pc[p] = "mint" /\ lock = {}
           /\ Writes(r)
           /\ r.gen = row.gen /\ r.wakes = row.wakes /\ r.woken = row.woken /\ r.seen = row.seen
           /\ r.deadline = row.deadline /\ r.deleted = row.deleted
           /\ j.loaded = r /\ j.edited = r /\ j.wake = job[p].wake /\ j.msg = job[p].msg
           /\ UNCHANGED <<lock, gateway, queue, clock, calls, quiet, lapsed, streak, undone>>
      BY <1>3, MintIs
    <2>2. OneHolder'
      BY <2>1, OthersKeepLock
    <2>3. Timely(r)
      BY <1>0, <2>1 DEF Timely
    <2>4. /\ pc' \in [Procs -> Phases] /\ job' \in [Procs -> Jobs]
          /\ \A q \in Procs : Timely(job[q].loaded)' /\ Timely(job[q].edited)'
      <3>1. "lock" \in Phases
        BY DEF Phases
      <3> QED BY <2>1, <2>3, <3>1, PutTypes
    <2> QED BY <1>0, <2>1, <2>2, <2>3, <2>4 DEF Typed, Timely, Writes
  <1>4. ASSUME NEW p \in Procs, LockAgent(p) PROVE Typed'
    <2>1. PICK j \in Jobs :
           /\ Put(p, "gateway", j) /\ pc[p] = "lock" /\ lock = {} /\ lock' = {p}
           /\ j.loaded = job[p].loaded /\ j.wake = job[p].wake /\ j.msg = job[p].msg
           /\ Timely(j.edited)
           /\ job[p].wake => j.edited.wakes = job[p].loaded.wakes + 1
           /\ ~ job[p].wake => j.edited.wakes = row.wakes
           /\ UNCHANGED <<row, answered, gateway, queue, clock, calls, quiet, lapsed, streak, undone>>
      BY <1>4, LockIs
    <2>2. OneHolder'
      BY <2>1, PutIs DEF Typed, OneHolder
    <2>3. /\ pc' \in [Procs -> Phases] /\ job' \in [Procs -> Jobs]
          /\ \A q \in Procs : Timely(job[q].loaded)' /\ Timely(job[q].edited)'
      <3>1. Timely(j.loaded) /\ "gateway" \in Phases
        BY <2>1 DEF Typed, Phases
      <3> QED BY <2>1, <3>1, PutTypes
    <2> QED BY <1>0, <2>1, <2>2, <2>3 DEF Typed, Timely
  <1>5. ASSUME NEW p \in Procs, GatewaySucceeds(p) \/ \E wrote \in BOOLEAN : GatewayFails(p, wrote)
        PROVE  Typed'
    <2>1. PICK r : Commits(p, r)
      BY <1>5, CommitIs
    <2>2. PICK phase \in {"enqueue", "idle"}, j \in Jobs :
            Put(p, phase, j) /\ Timely(j.loaded) /\ Timely(j.edited)
      <3>1. Timely(NoJob.loaded) /\ Timely(NoJob.edited)
        BY <1>0, NumberAssumption DEF Timely, NoJob, NewAgent, Never
      <3> QED BY <1>5, <3>1, CommitIs, FirstRows DEF Typed
    <2>3. OneHolder'
      <3>1. lock' = lock \ {p}
        BY <2>1 DEF Commits, Typed, OneHolder
      <3> QED BY <2>2, <3>1, HolderFrees
    <2>4. /\ pc' \in [Procs -> Phases] /\ job' \in [Procs -> Jobs]
          /\ \A q \in Procs : Timely(job[q].loaded)' /\ Timely(job[q].edited)'
      <3>1. clock' = clock /\ phase \in Phases
        BY <2>1 DEF Commits, Phases
      <3> QED BY <2>2, <3>1, PutTypes
    <2>5. Timely(row)'
      BY <2>1 DEF Commits, Timely
    <2>6. streak' \in Nat /\ undone' \in Nat
      BY <1>0, <2>1 DEF Commits
    <2> QED BY <1>0, <2>1, <2>3, <2>4, <2>5, <2>6 DEF Typed, Commits
  <1>6. ASSUME NEW p \in Procs, Enqueue(p) PROVE Typed'
    <2>1. /\ Put(p, "idle", NoJob) /\ pc[p] = "enqueue"
          /\ queue' \in SUBSET Message /\ lapsed' \in SUBSET Nat
          /\ UNCHANGED <<row, answered, lock, gateway, clock, calls, quiet, streak, undone>>
      BY <1>6, EnqueueIs
    <2>2. OneHolder'
      BY <2>1, OthersKeepLock
    <2> QED BY <1>0, <2>1, <2>2, EndTypes DEF Typed, Timely
  <1>7. ASSUME NEW p \in Procs, Save(p) PROVE Typed'
    <2>1. PICK r : /\ r \in Row /\ Timely(r) /\ row' = r /\ answered' \in BOOLEAN
                   /\ Put(p, "idle", NoJob) /\ pc[p] \in {"save", "beat"}
                   /\ streak' = IF pc[p] = "beat" THEN 0 ELSE streak
                   /\ undone' = IF pc[p] = "beat" THEN 0 ELSE undone
                   /\ UNCHANGED <<lock, gateway, queue, clock, calls, quiet, lapsed>>
      BY <1>7, SaveIs
    <2>2. OneHolder'
      BY <2>1, OthersKeepLock
    <2>3. streak' \in Nat /\ undone' \in Nat /\ Timely(row)'
      BY <1>0, <2>1 DEF Timely
    <2> QED BY <1>0, <2>1, <2>2, <2>3, EndTypes DEF Typed
  <1>8. ASSUME NEW w \in Workers, Reconcile(w) PROVE Typed'
    <2>0. w \in Procs
      BY DEF Procs
    <2>1. PICK m \in queue : SkipMessage(w, m) \/ Defer(w, m) \/ GiveUp(w, m) \/ WakeAgain(w, m)
      BY <1>8 DEF Reconcile
    <2>2. CASE SkipMessage(w, m) \/ Defer(w, m)
      <3>1. /\ queue' \subseteq Message
            /\ UNCHANGED <<row, answered, lock, gateway, clock, pc, job, calls, quiet, lapsed, streak, undone>>
        BY <1>0, <2>2, SkipIs, DeferIs
      <3> QED BY <3>1 DEF Typed, Timely, OneHolder
    <2>3. CASE GiveUp(w, m) \/ WakeAgain(w, m)
      <3>1. PICK phase \in {"save", "lock"}, j \in Jobs :
              /\ Put(w, phase, j) /\ pc[w] = "idle"
              /\ j.loaded = row /\ Timely(j.edited) /\ queue' = queue \ {m}
              /\ UNCHANGED <<row, answered, lock, gateway, clock, calls, quiet, lapsed, streak, undone>>
        BY <2>3, ActIs
      <3>2. OneHolder'
        BY <2>0, <3>1, OthersKeepLock
      <3>3. /\ pc' \in [Procs -> Phases] /\ job' \in [Procs -> Jobs]
            /\ \A q \in Procs : Timely(job[q].loaded)' /\ Timely(job[q].edited)'
        <4>1. phase \in Phases /\ Timely(j.loaded)
          BY <1>0, <3>1 DEF Phases
        <4> QED BY <2>0, <3>1, <4>1, PutTypes
      <3> QED BY <1>0, <3>1, <3>2, <3>3 DEF Typed, Timely
    <2> QED BY <2>1, <2>2, <2>3
  <1>9. ASSUME NEW w \in Workers, NEW wrote \in BOOLEAN, TimesOut(w, wrote) PROVE Typed'
    <2>1. /\ Put(w, "idle", NoJob) /\ lock' = lock \ {w} /\ gateway' \in Nat
          /\ queue' \in SUBSET Message /\ lapsed' \in SUBSET Nat
          /\ undone' = undone + Out(w) /\ Out(w) \in Nat /\ w \in Procs
          /\ UNCHANGED <<row, answered, clock, calls, quiet, streak>>
      BY <1>9, TimesOutIs DEF Procs, Out, Unsaved
    <2>2. OneHolder'
      BY <2>1, HolderFrees
    <2> QED BY <1>0, <2>1, <2>2, EndTypes DEF Typed, Timely
  <1>10. CASE Tick
    <2>1. /\ clock' = clock + 1
          /\ UNCHANGED <<row, answered, lock, gateway, queue, pc, job, calls, quiet, lapsed, streak, undone>>
      BY <1>10 DEF Tick, agent, control, arrivals, tally
    <2>2. clock' \in Nat /\ Grace \in Nat
      BY <1>0, <2>1, NumberAssumption
    <2>3. ASSUME NEW r \in Row, Timely(r)
          PROVE  r.deadline <= clock' + Grace /\ r.seen <= clock' /\ r.woken <= clock'
      BY <1>0, <2>1, <2>2, <2>3, RowFields DEF Timely
    <2>4. Timely(row)'
      BY <1>0, <2>1, <2>3 DEF Timely
    <2>5. \A p \in Procs : Timely(job[p].loaded)' /\ Timely(job[p].edited)'
      <3> SUFFICES ASSUME NEW p \in Procs
                   PROVE  Timely(job[p].loaded)' /\ Timely(job[p].edited)'
        OBVIOUS
      <3>1. /\ job[p].loaded \in Row /\ job[p].edited \in Row
            /\ Timely(job[p].loaded) /\ Timely(job[p].edited)
        BY JobFields DEF Typed
      <3> QED BY <2>1, <2>3, <3>1 DEF Timely
    <2> QED BY <2>1, <2>2, <2>4, <2>5 DEF Typed, OneHolder
  <1>11. ASSUME NEW p \in Procs, SendWake(p) PROVE Typed'
    <2>1. PICK j \in Jobs :
           /\ Put(p, "gateway", j) /\ pc[p] = "gateway"
           /\ j.loaded = job[p].loaded /\ j.edited = job[p].edited
           /\ gateway' \in Nat
           /\ streak' = IF p \in Workers THEN streak + 1 ELSE streak
           /\ UNCHANGED <<row, answered, lock, queue, clock, calls, quiet, lapsed, undone>>
      BY <1>11, SendIs
    <2>2. OneHolder'
      BY <2>1, PutIs DEF Typed, OneHolder
    <2>3. /\ pc' \in [Procs -> Phases] /\ job' \in [Procs -> Jobs]
          /\ \A q \in Procs : Timely(job[q].loaded)' /\ Timely(job[q].edited)'
      <3>1. Timely(j.loaded) /\ Timely(j.edited) /\ "gateway" \in Phases
        BY <2>1 DEF Typed, Phases
      <3> QED BY <2>1, <3>1, PutTypes
    <2>4. streak' \in Nat
      BY <1>0, <2>1
    <2> QED BY <1>0, <2>1, <2>2, <2>3, <2>4 DEF Typed, Timely
  <1>12. CASE UNCHANGED vars
    BY <1>12 DEF vars, agent, control, arrivals, tally, Typed, Timely, OneHolder
  <1> QED BY <1>1, <1>2, <1>3, <1>4, <1>5, <1>6, <1>7, <1>8, <1>9, <1>10, <1>11, <1>12
         DEF Next, Continue

-----------------------------------------------------------------------------
(***************************************************************************)
(* A woken agent stays in somebody's hand.                                 *)
(***************************************************************************)
\* What the other processes are doing is not disturbed, and they keep what they
\* have in hand: a step of p leaves the last wake with its messages or with them.
LEMMA PhasesStep ==
  ASSUME Typed, NEW p \in Procs, NEW phase, NEW j, Put(p, phase, j), quiet => quiet',
         \A q \in Procs : SavesLittle(q) /\ RunsWake(q),
         \A w \in Workers : WorkerPhases(w),
         quiet \in BOOLEAN, quiet' \in BOOLEAN,
         ~ quiet' => phase # "resolve" /\ (phase \in {"mint", "lock", "gateway"} => j.wake),
         phase \in {"save", "beat"} =>
           /\ j.edited.gen = j.loaded.gen /\ j.edited.woken = j.loaded.woken
           /\ j.edited.deadline \in {j.loaded.deadline, Never}
           /\ j.loaded.deleted => j.edited.deleted
           /\ j.now \subseteq {"seen"},
         p \in Workers => /\ phase \in {"idle", "lock", "gateway", "enqueue", "save"}
                          /\ phase = "save" => j.edited.deadline = Never
  PROVE  /\ \A q \in Procs : SavesLittle(q)' /\ RunsWake(q)'
         /\ \A w \in Workers : WorkerPhases(w)'
  <1>0. /\ pc'[p] = phase /\ job'[p] = j
        /\ \A q \in Procs \ {p} : pc'[q] = pc[q] /\ job'[q] = job[q]
    BY PutIs
  <1>1. ASSUME NEW q \in Procs PROVE SavesLittle(q)' /\ RunsWake(q)'
    <2>1. CASE q = p
      BY <1>0, <2>1 DEF SavesLittle, RunsWake
    <2>2. CASE q # p
      BY <1>0, <2>2 DEF SavesLittle, RunsWake
    <2> QED BY <2>1, <2>2
  <1>2. ASSUME NEW w \in Workers PROVE WorkerPhases(w)'
    <2>1. w \in Procs
      BY DEF Procs
    <2>2. CASE w = p
      BY <1>0, <2>2 DEF WorkerPhases
    <2>3. CASE w # p
      BY <1>0, <2>1, <2>3 DEF WorkerPhases
    <2> QED BY <2>2, <2>3
  <1> QED BY <1>1, <1>2

\* A step of p that leaves the generation alone and takes no message away leaves
\* the wake held, unless p itself held it.
LEMMA HeldStays ==
  ASSUME Typed, NEW p \in Procs, NEW phase, NEW j, Put(p, phase, j), Held,
         row'.gen = row.gen, queue \subseteq queue', lapsed \subseteq lapsed',
         pc[p] # "enqueue", p \in Workers => ~ Follows(p) /\ ~ Clears(p)
  PROVE  Held'
  <1>0. \A q \in Procs \ {p} : pc'[q] = pc[q] /\ job'[q] = job[q]
    BY PutIs
  <1>1. CASE \E m \in queue : m.gen = row.gen
    BY <1>1 DEF Held
  <1>2. CASE \E q \in Procs : pc[q] = "enqueue"
    BY <1>0, <1>2 DEF Held
  <1>3. CASE \E w \in Workers : Follows(w) \/ Clears(w)
    <2>1. PICK w \in Workers : Follows(w) \/ Clears(w)
      BY <1>3
    <2>2. w \in Procs \ {p}
      BY <2>1 DEF Procs
    <2>3. Follows(w)' \/ Clears(w)'
      BY <1>0, <2>1, <2>2 DEF Follows, Clears
    <2> QED BY <2>3 DEF Held
  <1>4. CASE row.gen \in lapsed
    BY <1>4 DEF Held
  <1> QED BY <1>1, <1>2, <1>3, <1>4 DEF Held

\* Nobody is awaited at first, or the first message is there.
LEMMA InitWatch == Init => WatchInv
  <1> SUFFICES ASSUME Init PROVE WatchInv
    OBVIOUS
  <1>1. \A p \in Procs : pc[p] = "idle"
    BY DEF Init
  <1>2. row.deadline = Never /\ (CheckedIn(row) => answered)
    <2>1. row = NewAgent \/ row = KnownAgent
      BY DEF Init
    <2>2. NewAgent.deadline = Never /\ KnownAgent.deadline = Never
      BY DEF NewAgent, KnownAgent
    <2>3. answered = CheckedIn(row)
      BY DEF Init
    <2> QED BY <2>1, <2>2, <2>3
  <1>3. \A w \in Workers : w \in Procs
    BY DEF Procs
  <1> QED BY <1>1, <1>2, <1>3
          DEF WatchInv, SavesLittle, RunsWake, WorkerPhases, AwaitsCheckIn

\* Requests arrive, find their token, mint one and take the lock.
LEMMA WatchRequest ==
  ASSUME Typed, WatchInv, NEW p \in Callers, Request(p)
  PROVE  WatchInv'
  <1>0. p \in Procs /\ p \notin Workers
    BY ProcessAssumption DEF Procs
  <1>1. PICK phase, j : Arrives(p, phase, j)
    BY RequestIs
  <1>2. /\ Put(p, phase, j) /\ pc[p] = "idle" /\ j.loaded = row
        /\ UNCHANGED <<row, answered, queue, lapsed>>
        /\ quiet' \in BOOLEAN /\ quiet \in BOOLEAN /\ (quiet => quiet')
    BY <1>1 DEF Arrives, Typed
  <1>3. /\ \A q \in Procs : SavesLittle(q)' /\ RunsWake(q)'
        /\ \A w \in Workers : WorkerPhases(w)'
    BY <1>0, <1>1, <1>2, PhasesStep DEF WatchInv, Arrives
  <1>4. (AwaitsCheckIn /\ ~ quiet)' => AwaitsCheckIn /\ ~ quiet
    BY <1>2 DEF AwaitsCheckIn
  <1>5. Held => Held'
    BY <1>0, <1>2, HeldStays
  <1>6. (CheckedIn(row) => answered)'
    BY <1>2 DEF WatchInv, CheckedIn
  <1> QED BY <1>3, <1>4, <1>5, <1>6 DEF WatchInv

\* Resolving the token leaves the watch alone.
LEMMA WatchResolve ==
  ASSUME Typed, WatchInv, NEW p \in Procs, NEW rotate \in BOOLEAN, ResolveToken(p, rotate)
  PROVE  WatchInv'
  <1>1. PICK phase \in {"idle", "mint", "lock"}, j \in Jobs :
         /\ Put(p, phase, j) /\ pc[p] = "resolve"
         /\ phase # "idle" => j.wake = job[p].wake
         /\ UNCHANGED <<row, answered, lock, gateway, queue, clock, calls, quiet, lapsed, streak, undone>>
    BY ResolveIs
  <1>2. p \notin Workers /\ quiet /\ quiet' = quiet /\ quiet \in BOOLEAN
    BY <1>1 DEF WatchInv, WorkerPhases, RunsWake, Typed
  <1>3. /\ \A q \in Procs : SavesLittle(q)' /\ RunsWake(q)'
        /\ \A w \in Workers : WorkerPhases(w)'
    BY <1>1, <1>2, PhasesStep DEF WatchInv
  <1> QED BY <1>1, <1>2, <1>3 DEF WatchInv, CheckedIn

\* Committing a new token leaves the columns of the watch alone.
LEMMA WatchMint ==
  ASSUME Typed, WatchInv, NEW p \in Procs, MintToken(p)
  PROVE  WatchInv'
  <1>1. PICK r \in Row, j \in Jobs :
         /\ Put(p, "lock", j) /\ pc[p] = "mint" /\ lock = {}
         /\ Writes(r)
         /\ r.gen = row.gen /\ r.wakes = row.wakes /\ r.woken = row.woken /\ r.seen = row.seen
         /\ r.deadline = row.deadline /\ r.deleted = row.deleted
         /\ j.loaded = r /\ j.edited = r /\ j.wake = job[p].wake /\ j.msg = job[p].msg
         /\ UNCHANGED <<lock, gateway, queue, clock, calls, quiet, lapsed, streak, undone>>
    BY MintIs
  <1>2. p \notin Workers /\ (~ quiet => j.wake) /\ quiet' = quiet /\ quiet \in BOOLEAN
    BY <1>1 DEF WatchInv, WorkerPhases, RunsWake, Typed
  <1>3. /\ \A q \in Procs : SavesLittle(q)' /\ RunsWake(q)'
        /\ \A w \in Workers : WorkerPhases(w)'
    BY <1>1, <1>2, PhasesStep DEF WatchInv
  <1>4. row' = r /\ (answered => answered') /\ (CheckedIn(r) => answered')
    BY <1>1 DEF Writes
  <1>5. (AwaitsCheckIn /\ ~ quiet)' => AwaitsCheckIn /\ ~ quiet
    BY <1>1, <1>4 DEF AwaitsCheckIn
  <1>6. Held => Held'
    BY <1>1, <1>2, <1>4, HeldStays
  <1>7. (CheckedIn(row) => answered)'
    BY <1>4 DEF CheckedIn
  <1> QED BY <1>3, <1>5, <1>6, <1>7 DEF WatchInv

\* A worker that takes the lock goes on with its message.
LEMMA WatchLock ==
  ASSUME Typed, WatchInv, NEW p \in Procs, LockAgent(p)
  PROVE  WatchInv'
  <1>1. PICK j \in Jobs :
         /\ Put(p, "gateway", j) /\ pc[p] = "lock" /\ lock = {} /\ lock' = {p}
         /\ j.loaded = job[p].loaded /\ j.wake = job[p].wake /\ j.msg = job[p].msg
         /\ UNCHANGED <<row, answered, gateway, queue, clock, calls, quiet, lapsed, streak, undone>>
    BY LockIs
  <1>2. (~ quiet => j.wake) /\ quiet' = quiet /\ quiet \in BOOLEAN
    BY <1>1 DEF WatchInv, RunsWake, Typed
  <1>3. /\ \A q \in Procs : SavesLittle(q)' /\ RunsWake(q)'
        /\ \A w \in Workers : WorkerPhases(w)'
    BY <1>1, <1>2, PhasesStep DEF WatchInv
  <1>4. Held => Held'
    <2>1. CASE p \in Workers /\ Follows(p)
      <3>1. Follows(p)'
        BY <1>1, <2>1, PutIs DEF Follows
      <3> QED BY <2>1, <3>1 DEF Held
    <2>2. CASE ~ (p \in Workers /\ Follows(p))
      BY <1>1, <2>2, HeldStays DEF Clears
    <2> QED BY <2>1, <2>2
  <1> QED BY <1>1, <1>3, <1>4 DEF WatchInv, CheckedIn, AwaitsCheckIn

\* The wake message goes out while the run stays where it is.
LEMMA WatchSend ==
  ASSUME Typed, WatchInv, NEW p \in Procs, SendWake(p)
  PROVE  WatchInv'
  <1>1. PICK j \in Jobs :
         /\ Put(p, "gateway", j) /\ pc[p] = "gateway" /\ j.msg = job[p].msg /\ j.wake
         /\ UNCHANGED <<row, answered, lock, queue, clock, calls, quiet, lapsed, undone>>
    BY SendIs
  <1>2. quiet' = quiet /\ quiet \in BOOLEAN
    BY <1>1 DEF Typed
  <1>3. /\ \A q \in Procs : SavesLittle(q)' /\ RunsWake(q)'
        /\ \A w \in Workers : WorkerPhases(w)'
    BY <1>1, <1>2, PhasesStep DEF WatchInv
  <1>4. Held => Held'
    <2>1. CASE p \in Workers /\ Follows(p)
      <3>1. Follows(p)'
        BY <1>1, <2>1, PutIs DEF Follows
      <3> QED BY <2>1, <3>1 DEF Held
    <2>2. CASE ~ (p \in Workers /\ Follows(p))
      BY <1>1, <2>2, HeldStays DEF Clears
    <2> QED BY <2>1, <2>2
  <1> QED BY <1>1, <1>3, <1>4 DEF WatchInv, CheckedIn, AwaitsCheckIn

\* A run that has woken the agent has its message in hand; one that has not, was
\* asked for by a request that does not wake.
LEMMA WatchCommit ==
  ASSUME Typed, WatchInv, NEW p \in Procs,
         GatewaySucceeds(p) \/ \E wrote \in BOOLEAN : GatewayFails(p, wrote)
  PROVE  WatchInv'
  <1>1. PICK r : Commits(p, r)
    BY CommitIs
  <1>2. PICK phase, j : /\ Put(p, phase, j)
                        /\ phase = "enqueue" \/ (phase = "idle" /\ ~ job[p].wake)
    BY CommitIs
  <1>3. quiet' = quiet /\ quiet \in BOOLEAN /\ pc[p] = "gateway"
    BY <1>1 DEF Commits, Typed
  <1>4. /\ \A q \in Procs : SavesLittle(q)' /\ RunsWake(q)'
        /\ \A w \in Workers : WorkerPhases(w)'
    BY <1>2, <1>3, PhasesStep DEF WatchInv
  <1>5. ~ quiet' => Held'
    <2>1. ASSUME ~ quiet PROVE pc'[p] = "enqueue"
      BY <1>2, <1>3, <2>1, PutIs DEF WatchInv, RunsWake
    <2> QED BY <1>3, <2>1 DEF Held
  <1>6. (CheckedIn(row) => answered)'
    BY <1>1 DEF Commits, CheckedIn
  <1> QED BY <1>4, <1>5, <1>6 DEF WatchInv

\* A message that is queued is about the row.
LEMMA WatchEnqueue ==
  ASSUME Typed, WatchInv, NEW p \in Procs, Enqueue(p)
  PROVE  WatchInv'
  <1>1. /\ Put(p, "idle", NoJob) /\ pc[p] = "enqueue"
        /\ row.deadline # Never => \E m \in queue' : m.gen = row.gen
        /\ UNCHANGED <<row, answered, lock, gateway, clock, calls, quiet, streak, undone>>
    BY EnqueueIs
  <1>2. quiet' = quiet /\ quiet \in BOOLEAN
    BY <1>1 DEF Typed
  <1>3. /\ \A q \in Procs : SavesLittle(q)' /\ RunsWake(q)'
        /\ \A w \in Workers : WorkerPhases(w)'
    BY <1>1, <1>2, PhasesStep DEF WatchInv
  <1>4. AwaitsCheckIn' => Held'
    BY <1>1 DEF AwaitsCheckIn, Held
  <1> QED BY <1>1, <1>3, <1>4 DEF WatchInv, CheckedIn

\* A worker that gives up clears the deadline it has loaded; where it loaded none,
\* a later wake is with its own message.
LEMMA WatchSave ==
  ASSUME Typed, WatchInv, NEW p \in Procs, Save(p)
  PROVE  WatchInv'
  <1> DEFINE old == job[p].loaded
             new == job[p].edited
             r == Flushed(old, new, job[p].now)
  <1>1. /\ Put(p, "idle", NoJob) /\ pc[p] \in {"save", "beat"}
        /\ r \in Row /\ row' = r /\ (CheckedIn(r) => answered')
        /\ (r.woken = row.woken /\ answered) => answered'
        /\ UNCHANGED <<lock, gateway, queue, clock, calls, quiet, lapsed>>
    BY SaveIs
  <1>2. quiet' = quiet /\ quiet \in BOOLEAN
    BY <1>1 DEF Typed
  <1>3. /\ \A q \in Procs : SavesLittle(q)' /\ RunsWake(q)'
        /\ \A w \in Workers : WorkerPhases(w)'
    BY <1>1, <1>2, PhasesStep DEF WatchInv
  <1>4. /\ new.gen = old.gen /\ new.woken = old.woken /\ new.deadline \in {old.deadline, Never}
        /\ old.deleted => new.deleted
        /\ job[p].now \subseteq {"seen"}
        /\ p \in Workers => new.deadline = Never /\ pc[p] = "save"
    BY <1>1 DEF WatchInv, SavesLittle, WorkerPhases
  <1>5. row \in Row /\ old \in Row /\ new \in Row
    BY JobFields DEF Typed
  <1>6. /\ r.gen = IF "gen" \in job[p].now \/ new.gen # old.gen THEN new.gen ELSE row.gen
        /\ r.woken = IF "woken" \in job[p].now \/ new.woken # old.woken THEN new.woken ELSE row.woken
        /\ r.deadline = IF "deadline" \in job[p].now \/ new.deadline # old.deadline
                        THEN new.deadline ELSE row.deadline
        /\ r.deleted = IF "deleted" \in job[p].now \/ new.deleted # old.deleted
                       THEN new.deleted ELSE row.deleted
    BY <1>5, FlushedColumns
  <1> HIDE DEF r
  <1>7. /\ r.gen = row.gen /\ r.woken = row.woken
        /\ r.deadline = IF new.deadline # old.deadline THEN Never ELSE row.deadline
        /\ row.deleted => r.deleted
    <2>1. new.deleted \in BOOLEAN /\ old.deleted \in BOOLEAN /\ row.deleted \in BOOLEAN
      BY <1>5, RowFields
    <2> HIDE DEF old, new
    <2> QED BY <1>4, <1>6, <2>1
  <1>8. (AwaitsCheckIn /\ ~ quiet)' =>
          AwaitsCheckIn /\ ~ quiet /\ new.deadline = old.deadline
    <2> HIDE DEF old, new
    <2> QED BY <1>1, <1>7 DEF AwaitsCheckIn
  <1>9. Held /\ new.deadline = old.deadline => Held'
    <2>1. new.deadline = old.deadline /\ p \in Workers => ~ Follows(p) /\ ~ Clears(p)
      BY <1>1, <1>4 DEF Follows, Clears
    <2> QED BY <1>1, <1>7, <2>1, HeldStays
  <1>10. (CheckedIn(row) => answered)'
    BY <1>1 DEF CheckedIn
  <1> QED BY <1>3, <1>8, <1>9, <1>10 DEF WatchInv

\* A worker drops messages that are not of the last wake, or whose agent has
\* answered; puts an early one back; and holds the one it acts on.
LEMMA WatchReconcile ==
  ASSUME Typed, WatchInv, NEW w \in Workers, Reconcile(w)
  PROVE  WatchInv'
  <1>0. w \in Procs
    BY DEF Procs
  <1>1. PICK m \in queue : SkipMessage(w, m) \/ Defer(w, m) \/ GiveUp(w, m) \/ WakeAgain(w, m)
    BY DEF Reconcile
  <1>2. CASE SkipMessage(w, m)
    <2>1. /\ m.gen # row.gen \/ CheckedIn(row)
          /\ queue' = queue \ {m}
          /\ UNCHANGED <<row, answered, lock, gateway, clock, pc, job, calls, quiet, lapsed, streak, undone>>
      BY <1>2, SkipIs
    <2>2. AwaitsCheckIn => m.gen # row.gen
      BY <2>1 DEF WatchInv, AwaitsCheckIn
    <2>3. AwaitsCheckIn /\ Held => Held'
      BY <2>1, <2>2 DEF Held, Follows, Clears
    <2> QED
      BY <2>1, <2>3
      DEF WatchInv, CheckedIn, AwaitsCheckIn, SavesLittle, RunsWake, WorkerPhases
  <1>3. CASE Defer(w, m)
    <2>1. /\ \A n \in queue : \E k \in queue' : k.gen = n.gen
          /\ UNCHANGED <<row, answered, lock, gateway, clock, pc, job, calls, quiet, lapsed, streak, undone>>
      BY <1>3, DeferIs
    <2>2. Held => Held'
      BY <2>1 DEF Held, Follows, Clears
    <2> QED
      BY <2>1, <2>2
      DEF WatchInv, CheckedIn, AwaitsCheckIn, SavesLittle, RunsWake, WorkerPhases
  <1>4. CASE GiveUp(w, m) \/ WakeAgain(w, m)
    <2>1. PICK phase \in {"save", "lock"}, j \in Jobs :
           /\ Put(w, phase, j) /\ pc[w] = "idle"
           /\ m.gen = row.gen /\ j.msg = m /\ j.loaded = row /\ Timely(j.edited)
           /\ queue' = queue \ {m}
           /\ phase = "save" =>
                /\ j.edited.gen = row.gen /\ j.edited.woken = row.woken
                /\ j.edited.wakes = row.wakes /\ j.edited.deleted = row.deleted
                /\ j.edited.deadline = Never /\ j.now = {}
           /\ phase = "lock" => j.wake /\ row.wakes < MaxWakes
           /\ UNCHANGED <<row, answered, lock, gateway, clock, calls, quiet, lapsed, streak, undone>>
      BY <1>4, ActIs
    <2>2. quiet' = quiet /\ quiet \in BOOLEAN
      BY <2>1 DEF Typed
    <2>3. /\ \A q \in Procs : SavesLittle(q)' /\ RunsWake(q)'
          /\ \A v \in Workers : WorkerPhases(v)'
      BY <1>0, <2>1, <2>2, PhasesStep DEF WatchInv
    <2>4. AwaitsCheckIn => Follows(w)' \/ Clears(w)'
      BY <1>0, <2>1, PutIs DEF Follows, Clears, AwaitsCheckIn
    <2>5. AwaitsCheckIn => Held'
      BY <2>4 DEF Held
    <2> QED BY <2>1, <2>3, <2>5 DEF WatchInv, CheckedIn, AwaitsCheckIn
  <1> QED BY <1>1, <1>2, <1>3, <1>4

\* A run that is cancelled gives its message back, or has let it lapse.
LEMMA WatchTimeout ==
  ASSUME Typed, WatchInv, NEW w \in Workers, NEW wrote \in BOOLEAN, TimesOut(w, wrote)
  PROVE  WatchInv'
  <1>0. w \in Procs
    BY DEF Procs
  <1>1. /\ Put(w, "idle", NoJob) /\ pc[w] \in {"lock", "gateway", "enqueue"}
        /\ queue \subseteq queue' /\ lapsed \subseteq lapsed'
        /\ pc[w] = "enqueue" => row.gen \in lapsed'
        /\ \/ job[w].msg.gen \in lapsed'
           \/ \E m \in queue' : m.gen = job[w].msg.gen
        /\ UNCHANGED <<row, answered, clock, calls, quiet, streak>>
    BY TimesOutIs
  <1>2. quiet' = quiet /\ quiet \in BOOLEAN
    BY <1>1 DEF Typed
  <1>3. /\ \A q \in Procs : SavesLittle(q)' /\ RunsWake(q)'
        /\ \A v \in Workers : WorkerPhases(v)'
    BY <1>0, <1>1, <1>2, PhasesStep DEF WatchInv
  <1>4. Held => Held'
    <2>1. CASE pc[w] = "enqueue"
      BY <1>1, <2>1 DEF Held
    <2>2. CASE Follows(w)
      BY <1>1, <2>2 DEF Held, Follows
    <2>3. CASE pc[w] # "enqueue" /\ ~ Follows(w)
      BY <1>0, <1>1, <2>3, HeldStays DEF Clears
    <2> QED BY <2>1, <2>2, <2>3
  <1> QED BY <1>1, <1>3, <1>4 DEF WatchInv, CheckedIn, AwaitsCheckIn

\* The watch is inductive.
LEMMA NextWatch == Typed /\ WatchInv /\ [Next]_vars => WatchInv'
  <1> SUFFICES ASSUME Typed, WatchInv, [Next]_vars PROVE WatchInv'
    OBVIOUS
  <1>1. CASE Tick
    <2>1. UNCHANGED <<row, answered, lock, gateway, queue, pc, job, calls, quiet, lapsed, streak, undone>>
      BY <1>1 DEF Tick, agent, control, arrivals, tally
    <2> QED
      BY <2>1
      DEF WatchInv, Held, Follows, Clears, CheckedIn, AwaitsCheckIn, SavesLittle, RunsWake,
          WorkerPhases
  <1>2. CASE UNCHANGED vars
    <2>1. UNCHANGED <<row, answered, lock, gateway, queue, pc, job, calls, quiet, lapsed, streak, undone>>
      BY <1>2 DEF vars, agent, control, arrivals, tally
    <2> QED
      BY <2>1
      DEF WatchInv, Held, Follows, Clears, CheckedIn, AwaitsCheckIn, SavesLittle, RunsWake,
          WorkerPhases
  <1> QED
    BY <1>1, <1>2, WatchRequest, WatchResolve, WatchMint, WatchLock, WatchSend, WatchCommit, WatchEnqueue,
       WatchSave, WatchReconcile, WatchTimeout
    DEF Next, Continue

\* What the agents' rows, sessions and messages are, and who holds the row lock.
THEOREM LifecycleTyped == Spec => []Typed
  BY InitTyped, TypeStep, PTL DEF Spec

\* A process holds the row lock exactly during its gateway calls, no deadline is
\* further off than the grace, and no message has more attempts than it may, for
\* any number of requests and workers.
THEOREM RowIsLocked == Spec => []TypeOK
  <1>1. Typed => TypeOK
    <2> SUFFICES ASSUME Typed PROVE TypeOK
      OBVIOUS
    <2>1. Cardinality(lock) <= 1
      <3>1. lock = {} \/ \E p \in lock : lock = {p}
        BY DEF Typed, OneHolder
      <3> QED BY <3>1, FS_EmptySet, FS_Singleton
    <2>2. \A p \in Procs : job[p].loaded \in Row /\ job[p].edited \in Row /\ job[p].token \in Nat
      BY JobFields DEF Typed
    <2> QED BY <2>1, <2>2 DEF Typed, TypeOK, OneHolder, Timely
  <1> QED BY <1>1, LifecycleTyped, PTL

\* A woken agent that has not checked in is in somebody's hand, whatever rows the
\* runs, heartbeats and workers had read before, and however many they are
\* (lifecycle_orchestrator.py, lifecycle_reconcile.py).
THEOREM WokenAgentIsWatched == Spec => []Watched
  <1>1. WatchInv => Watched
    BY DEF WatchInv, Held, Follows, Clears, Watched, InHand
  <1> QED BY <1>1, LifecycleTyped, InitWatch, NextWatch, PTL DEF Spec

-----------------------------------------------------------------------------
(***************************************************************************)
(* One worker stops at the limit.                                          *)
(***************************************************************************)
\* A wake that is out with its COMMIT to come is one wake.
LEMMA OutIs ==
  ASSUME NEW phase, NEW j
  PROVE  /\ Unsaved(phase, j) \in {0, 1}
         /\ phase # "gateway" => Unsaved(phase, j) = 0
         /\ phase = "gateway" /\ j.sent => Unsaved(phase, j) = 1
         /\ ~ j.sent => Unsaved(phase, j) = 0
  BY DEF Unsaved

\* Nothing is counted at first.
LEMMA InitStreak ==
  ASSUME NEW w \in Workers, Init
  PROVE  StreakInv(w)
  <1>1. streak = 0 /\ undone = 0 /\ row \in Row /\ MaxWakes \in Nat
    BY InitTyped, NumberAssumption DEF Init, Typed
  <1>2. row.wakes \in Nat
    BY <1>1, RowFields
  <1>3. \A p \in Procs : pc[p] = "idle"
    BY DEF Init
  <1>4. w \in Procs /\ Out(w) \in {0, 1}
    BY OutIs DEF Procs, Out
  <1> QED BY <1>1, <1>2, <1>3, <1>4 DEF StreakInv, CountsUp, KeepsWakes, SavesWakes

\* A step that raises the streak only as a step of w, and changes the row's counter
\* only while no other run holds the row.
LEMMA StreakPut ==
  ASSUME Typed, NEW w, Workers = {w}, StreakInv(w),
         NEW p \in Procs, NEW phase, NEW j \in Jobs, Put(p, phase, j),
         streak' <= MaxWakes + undone', undone' \in Nat,
         p # w => /\ streak' <= row'.wakes + undone' + Out(w)
                  /\ UNCHANGED <<streak, undone>> \/ streak' = 0,
         p = w => /\ streak' <= row'.wakes + undone' + Unsaved(phase, j)
                  /\ phase \in {"lock", "gateway"} =>
                       /\ j.wake /\ j.loaded.wakes < MaxWakes
                       /\ streak' <= j.loaded.wakes + undone' + Unsaved(phase, j)
                  /\ phase = "gateway" => j.edited.wakes = j.loaded.wakes + 1,
         phase = "gateway" /\ ~ j.wake => j.edited.wakes = row'.wakes,
         phase = "save" => j.edited.wakes = j.loaded.wakes,
         row'.wakes = row.wakes \/ \A q \in Procs \ {p} : pc[q] # "gateway"
  PROVE  StreakInv(w)'
  <1>0. /\ pc'[p] = phase /\ job'[p] = j /\ w \in Procs
        /\ \A q \in Procs \ {p} : pc'[q] = pc[q] /\ job'[q] = job[q]
    BY PutIs DEF Procs
  <1>1. CountsUp(w)' /\ streak' <= row'.wakes + undone' + Out(w)'
    <2>1. CASE p = w
      <3>1. Out(w)' = Unsaved(phase, j)
        BY <1>0, <2>1 DEF Out, Unsaved
      <3> QED BY <1>0, <2>1, <3>1 DEF CountsUp
    <2>2. CASE p # w
      <3>1. pc'[w] = pc[w] /\ job'[w] = job[w] /\ CountsUp(w)
        BY <1>0, <2>2 DEF StreakInv
      <3>2. Out(w)' = Out(w) /\ Out(w) \in {0, 1}
        BY <3>1, OutIs DEF Out, Unsaved
      <3>3. job[w].loaded.wakes \in Nat
        BY <1>0, JobFields, RowFields DEF Typed
      <3>4. pc[w] \in {"lock", "gateway"} => streak' <= job[w].loaded.wakes + undone' + Out(w)
        <4>1. CASE UNCHANGED <<streak, undone>>
          BY <3>1, <4>1 DEF CountsUp
        <4>2. CASE streak' = 0
          BY <3>2, <3>3, <4>2
        <4> QED BY <2>2, <4>1, <4>2
      <3> QED BY <2>2, <3>1, <3>2, <3>4 DEF CountsUp
    <2> QED BY <2>1, <2>2
  <1>2. ASSUME NEW q \in Procs
        PROVE  KeepsWakes(q)' /\ SavesWakes(q)'
    <2>1. CASE q = p
      BY <1>0, <2>1 DEF KeepsWakes, SavesWakes
    <2>2. CASE q # p
      BY <1>0, <2>2 DEF StreakInv, KeepsWakes, SavesWakes
    <2> QED BY <2>1, <2>2
  <1> QED BY <1>1, <1>2 DEF StreakInv

\* A step of p that leaves the counters and the row's wakes alone and takes no wake
\* back that is out.
LEMMA StreakStays ==
  ASSUME Typed, NEW w, Workers = {w}, StreakInv(w),
         NEW p \in Procs, NEW phase, NEW j \in Jobs, Put(p, phase, j),
         UNCHANGED <<streak, undone>>, row'.wakes = row.wakes,
         p = w => /\ pc[w] # "gateway"
                  /\ phase \in {"lock", "gateway"} =>
                       /\ j.wake /\ j.loaded.wakes < MaxWakes
                       /\ streak <= j.loaded.wakes + undone
                  /\ phase = "gateway" => j.edited.wakes = j.loaded.wakes + 1,
         phase = "gateway" /\ ~ j.wake => j.edited.wakes = row.wakes,
         phase = "save" => j.edited.wakes = j.loaded.wakes
  PROVE  StreakInv(w)'
  <1>1. streak \in Nat /\ undone \in Nat /\ row.wakes \in Nat /\ j.loaded.wakes \in Nat
    BY JobFields, RowFields DEF Typed
  <1>2. Unsaved(phase, j) \in {0, 1} /\ (pc[w] # "gateway" => Out(w) = 0)
    BY OutIs DEF Out
  <1>3. streak <= row.wakes + undone + Out(w) /\ streak <= MaxWakes + undone
    BY DEF StreakInv
  <1>4. p = w => /\ streak <= row.wakes + undone + Unsaved(phase, j)
                 /\ phase \in {"lock", "gateway"} =>
                      streak <= j.loaded.wakes + undone + Unsaved(phase, j)
    BY <1>1, <1>2, <1>3
  <1> QED BY <1>1, <1>3, <1>4, StreakPut

\* A wake of the worker that goes out is one more than the wakes it had loaded.
LEMMA StreakSend ==
  ASSUME Typed, NEW w, Workers = {w}, StreakInv(w), NEW p \in Procs, SendWake(p)
  PROVE  StreakInv(w)'
  <1>1. PICK j \in Jobs :
          /\ Put(p, "gateway", j) /\ pc[p] = "gateway"
          /\ j.loaded = job[p].loaded /\ j.edited = job[p].edited
          /\ j.wake /\ job[p].wake /\ j.sent /\ ~ job[p].sent
          /\ streak' = IF p \in Workers THEN streak + 1 ELSE streak
          /\ UNCHANGED <<row, undone>>
    BY SendIs
  <1>2. /\ streak \in Nat /\ undone \in Nat /\ MaxWakes \in Nat /\ row.wakes \in Nat
        /\ job[p].loaded.wakes \in Nat
    BY JobFields, RowFields, NumberAssumption DEF Typed
  <1>3. streak <= row.wakes + undone + Out(w) /\ streak <= MaxWakes + undone /\ CountsUp(w)
    BY DEF StreakInv
  <1>4. CASE p = w
    <2>1. Out(w) = 0 /\ Unsaved("gateway", j) = 1 /\ streak' = streak + 1
      BY <1>1, <1>4, OutIs DEF Out
    <2>2. /\ streak <= job[p].loaded.wakes + undone /\ job[p].loaded.wakes < MaxWakes
          /\ job[p].edited.wakes = job[p].loaded.wakes + 1
      BY <1>1, <1>2, <1>3, <1>4, <2>1 DEF CountsUp
    <2>3. /\ streak' <= row.wakes + undone + 1 /\ streak' <= MaxWakes + undone
          /\ streak' <= job[p].loaded.wakes + undone + 1
      BY <1>2, <1>3, <2>1, <2>2
    <2> QED BY <1>1, <1>2, <1>4, <2>1, <2>2, <2>3, StreakPut
  <1>5. CASE p # w
    <2>1. streak' = streak
      BY <1>1, <1>5
    <2> QED BY <1>1, <1>2, <1>3, <1>5, <2>1, StreakPut
  <1> QED BY <1>4, <1>5

\* A COMMIT that a request asked for ends the streak; the worker's brings the row's
\* counter up with the wake that is out.
LEMMA StreakCommit ==
  ASSUME Typed, NEW w, Workers = {w}, StreakInv(w), NEW p \in Procs,
         GatewaySucceeds(p) \/ \E wrote \in BOOLEAN : GatewayFails(p, wrote)
  PROVE  StreakInv(w)'
  <1>1. PICK r : Commits(p, r)
    BY CommitIs
  <1>2. PICK phase \in {"enqueue", "idle"}, j \in Jobs : Put(p, phase, j)
    BY CommitIs, FirstRows
  <1>3. /\ pc[p] = "gateway" /\ row'.wakes = job[p].edited.wakes
        /\ \/ job[p].wake /\ p # w /\ streak' = 0 /\ undone' = 0
           \/ (job[p].wake => p = w) /\ streak' = streak /\ undone' = undone
    BY <1>1 DEF Commits
  <1>4. \A q \in Procs \ {p} : pc[q] # "gateway"
    BY <1>3 DEF Typed, OneHolder
  <1>5. /\ streak \in Nat /\ undone \in Nat /\ MaxWakes \in Nat /\ row.wakes \in Nat
        /\ job[p].edited.wakes \in Nat /\ job[p].loaded.wakes \in Nat
        /\ Out(w) \in {0, 1} /\ Unsaved(phase, j) = 0
    BY JobFields, RowFields, NumberAssumption, OutIs DEF Typed, Out
  <1>6. /\ streak <= row.wakes + undone + Out(w) /\ streak <= MaxWakes + undone
        /\ KeepsWakes(p) /\ CountsUp(w)
    BY DEF StreakInv
  <1>7. CASE job[p].wake /\ p # w
    <2>1. streak' = 0 /\ undone' = 0
      BY <1>3, <1>7
    <2>2. streak' <= row'.wakes + undone' + Out(w) /\ streak' <= MaxWakes + undone'
      BY <1>3, <1>5, <2>1
    <2> QED BY <1>2, <1>4, <1>7, <2>1, <2>2, StreakPut
  <1>8. CASE p = w
    <2>1. /\ streak <= job[p].loaded.wakes + undone + Out(w)
          /\ job[p].edited.wakes = job[p].loaded.wakes + 1
      BY <1>3, <1>6, <1>8 DEF CountsUp
    <2>2. streak' = streak /\ undone' = undone
      BY <1>3, <1>8
    <2>3. streak' <= row'.wakes + undone' + Unsaved(phase, j) /\ streak' <= MaxWakes + undone'
      BY <1>3, <1>5, <1>6, <2>1, <2>2
    <2> QED BY <1>2, <1>4, <1>5, <1>8, <2>2, <2>3, StreakPut
  <1>9. CASE ~ job[p].wake /\ p # w
    <2>1. row'.wakes = row.wakes /\ streak' = streak /\ undone' = undone
      BY <1>3, <1>6, <1>9 DEF KeepsWakes
    <2> QED BY <1>2, <1>9, <2>1, StreakStays
  <1> QED BY <1>7, <1>8, <1>9

\* A heartbeat ends the streak with the wakes it clears; other sessions leave both.
LEMMA StreakSave ==
  ASSUME Typed, WatchInv, NEW w, Workers = {w}, StreakInv(w), NEW p \in Procs, Save(p)
  PROVE  StreakInv(w)'
  <1> DEFINE old == job[p].loaded
             new == job[p].edited
             r == Flushed(old, new, job[p].now)
  <1>1. /\ Put(p, "idle", NoJob) /\ pc[p] \in {"save", "beat"} /\ lock = {}
        /\ r \in Row /\ row' = r
        /\ streak' = IF pc[p] = "beat" THEN 0 ELSE streak
        /\ undone' = IF pc[p] = "beat" THEN 0 ELSE undone
    BY SaveIs
  <1>2. row \in Row /\ old \in Row /\ new \in Row /\ NoJob \in Jobs
    BY JobFields, FirstRows DEF Typed
  <1>3. r.wakes = IF "wakes" \in job[p].now \/ new.wakes # old.wakes THEN new.wakes ELSE row.wakes
    BY <1>2, FlushedColumns
  <1> HIDE DEF r
  <1>4. CASE pc[p] = "save"
    <2>1. job[p].now \subseteq {"seen"}
      BY <1>1 DEF WatchInv, SavesLittle
    <2>2. r.wakes = row.wakes
      BY <1>3, <1>4, <2>1 DEF StreakInv, SavesWakes
    <2>3. UNCHANGED <<streak, undone>> /\ row'.wakes = row.wakes
      BY <1>1, <1>4, <2>2
    <2> QED BY <1>1, <1>2, <1>4, <2>3, StreakStays
  <1>5. CASE pc[p] = "beat"
    <2>1. streak' = 0 /\ undone' = 0
      BY <1>1, <1>5
    <2>2. r.wakes \in Nat /\ MaxWakes \in Nat /\ Out(w) \in {0, 1} /\ Unsaved("idle", NoJob) = 0
      BY <1>1, RowFields, NumberAssumption, OutIs DEF Out
    <2>3. /\ streak' <= row'.wakes + undone' + Out(w) /\ streak' <= MaxWakes + undone'
          /\ streak' <= row'.wakes + undone' + Unsaved("idle", NoJob)
      BY <1>1, <2>1, <2>2
    <2>4. \A q \in Procs : pc[q] # "gateway"
      BY <1>1 DEF Typed, OneHolder
    <2> QED BY <1>1, <1>2, <2>1, <2>3, <2>4, StreakPut
  <1> QED BY <1>1, <1>4, <1>5

\* A run that is cancelled leaves its wake with those that were undone.
LEMMA StreakTimeout ==
  ASSUME Typed, NEW w, Workers = {w}, StreakInv(w), NEW wrote \in BOOLEAN, TimesOut(w, wrote)
  PROVE  StreakInv(w)'
  <1>1. /\ w \in Procs /\ Put(w, "idle", NoJob) /\ row' = row /\ streak' = streak
        /\ undone' = undone + Out(w)
    BY TimesOutIs DEF Procs
  <1>2. /\ streak \in Nat /\ undone \in Nat /\ MaxWakes \in Nat /\ row.wakes \in Nat
        /\ Out(w) \in {0, 1} /\ Unsaved("idle", NoJob) = 0
    BY RowFields, NumberAssumption, OutIs DEF Typed, Out
  <1>3. streak <= row.wakes + undone + Out(w) /\ streak <= MaxWakes + undone
    BY DEF StreakInv
  <1>4. /\ streak' <= row'.wakes + undone' + Unsaved("idle", NoJob)
        /\ streak' <= MaxWakes + undone' /\ undone' \in Nat
    BY <1>1, <1>2, <1>3
  <1> QED BY <1>1, <1>4, FirstRows, StreakPut

\* The count of the one worker is inductive.
LEMMA NextStreak ==
  ASSUME Typed, WatchInv, NEW w, Workers = {w}, StreakInv(w), [Next]_vars
  PROVE  StreakInv(w)'
  <1>0. /\ w \in Procs
        /\ streak \in Nat /\ undone \in Nat /\ row.wakes \in Nat
        /\ streak <= row.wakes + undone + Out(w) /\ (pc[w] # "gateway" => Out(w) = 0)
        /\ \A p \in Callers : p # w /\ p \in Procs
    BY ProcessAssumption, RowFields, OutIs DEF StreakInv, Procs, Typed, Out
  <1>1. ASSUME NEW p \in Callers, Request(p) PROVE StreakInv(w)'
    <2>1. PICK phase, j : Arrives(p, phase, j)
      BY <1>1, RequestIs
    <2>2. /\ Put(p, phase, j) /\ j \in Jobs /\ UNCHANGED <<row, streak, undone>>
          /\ phase # "gateway" /\ (phase = "save" => j.edited.wakes = j.loaded.wakes)
      BY <2>1 DEF Arrives
    <2> QED BY <1>0, <2>2, StreakStays
  <1>2. ASSUME NEW p \in Procs, NEW rotate \in BOOLEAN, ResolveToken(p, rotate)
        PROVE  StreakInv(w)'
    <2>1. PICK phase \in {"idle", "mint", "lock"}, j \in Jobs :
            Put(p, phase, j) /\ pc[p] = "resolve" /\ UNCHANGED <<row, streak, undone>>
      BY <1>2, ResolveIs
    <2>2. p # w
      BY <2>1 DEF WatchInv, WorkerPhases
    <2> QED BY <1>0, <2>1, <2>2, StreakStays
  <1>3. ASSUME NEW p \in Procs, MintToken(p) PROVE StreakInv(w)'
    <2>1. PICK r \in Row, j \in Jobs :
            /\ Put(p, "lock", j) /\ pc[p] = "mint" /\ Writes(r) /\ r.wakes = row.wakes
            /\ UNCHANGED <<streak, undone>>
      BY <1>3, MintIs
    <2>2. p # w /\ row'.wakes = row.wakes
      BY <2>1 DEF WatchInv, WorkerPhases, Writes
    <2> QED BY <1>0, <2>1, <2>2, StreakStays
  <1>4. ASSUME NEW p \in Procs, LockAgent(p) PROVE StreakInv(w)'
    <2>1. PICK j \in Jobs :
           /\ Put(p, "gateway", j) /\ pc[p] = "lock"
           /\ j.loaded = job[p].loaded /\ j.wake = job[p].wake
           /\ job[p].wake => j.edited.wakes = job[p].loaded.wakes + 1
           /\ ~ job[p].wake => j.edited.wakes = row.wakes
           /\ UNCHANGED <<row, streak, undone>>
      BY <1>4, LockIs
    <2>2. p = w => j.wake /\ streak <= j.loaded.wakes + undone /\ j.loaded.wakes < MaxWakes
      <3>1. j.loaded.wakes \in Nat
        BY <2>1, JobFields, RowFields
      <3> QED BY <1>0, <2>1, <3>1 DEF StreakInv, CountsUp
    <2> QED BY <1>0, <2>1, <2>2, StreakStays
  <1>5. ASSUME NEW p \in Procs, Enqueue(p) PROVE StreakInv(w)'
    <2>1. Put(p, "idle", NoJob) /\ pc[p] = "enqueue" /\ UNCHANGED <<row, streak, undone>>
      BY <1>5, EnqueueIs
    <2> QED BY <1>0, <2>1, FirstRows, StreakStays
  <1>6. ASSUME NEW v \in Workers, Reconcile(v) PROVE StreakInv(w)'
    <2>1. PICK m \in queue : SkipMessage(v, m) \/ Defer(v, m) \/ GiveUp(v, m) \/ WakeAgain(v, m)
      BY <1>6 DEF Reconcile
    <2>2. CASE SkipMessage(v, m) \/ Defer(v, m)
      <3>1. UNCHANGED <<row, pc, job, streak, undone>>
        BY <2>2, SkipIs, DeferIs
      <3> QED BY <3>1 DEF StreakInv, CountsUp, Out, Unsaved, KeepsWakes, SavesWakes
    <2>3. CASE GiveUp(v, m) \/ WakeAgain(v, m)
      <3>1. PICK phase \in {"save", "lock"}, j \in Jobs :
             /\ Put(v, phase, j) /\ pc[v] = "idle" /\ j.loaded = row
             /\ phase = "save" => j.edited.wakes = row.wakes
             /\ phase = "lock" => j.wake /\ row.wakes < MaxWakes
             /\ UNCHANGED <<row, streak, undone>>
        BY <2>3, ActIs
      <3>2. v = w /\ v \in Procs /\ streak <= row.wakes + undone
        BY <1>0, <3>1
      <3> QED BY <3>1, <3>2, StreakStays
    <2> QED BY <2>1, <2>2, <2>3
  <1>7. ASSUME NEW v \in Workers, NEW wrote \in BOOLEAN, TimesOut(v, wrote) PROVE StreakInv(w)'
    BY <1>7, StreakTimeout
  <1>8. CASE Tick \/ UNCHANGED vars
    <2>1. UNCHANGED <<row, pc, job, streak, undone>>
      BY <1>8 DEF Tick, vars, agent, control, tally
    <2> QED BY <2>1 DEF StreakInv, CountsUp, Out, Unsaved, KeepsWakes, SavesWakes
  <1> QED
    BY <1>1, <1>2, <1>3, <1>4, <1>5, <1>6, <1>7, <1>8, StreakSend, StreakCommit, StreakSave
    DEF Next, Continue

\* With the one worker of the compose files, the wakes that reconcile has delivered
\* between two check-ins or requests that wake the agent are at most
\* MAX_WAKE_ATTEMPTS_WITHOUT_CHECKIN and those of runs that the worker's timeout
\* cancelled after the message was out, whatever the others had read
\* (lifecycle_reconcile.py, "allow up to 3 wake attempts before giving up",
\* constants.py).
THEOREM OneWorkerStops ==
  ASSUME NEW w, Workers = {w}
  PROVE  Spec => []EscalationStops
  <1>1. Init => StreakInv(w)
    BY InitStreak
  <1>2. Typed /\ WatchInv /\ StreakInv(w) /\ [Next]_vars => StreakInv(w)'
    BY NextStreak
  <1>3. StreakInv(w) => EscalationStops
    BY DEF StreakInv, EscalationStops
  <1> QED BY <1>1, <1>2, <1>3, LifecycleTyped, InitWatch, NextWatch, PTL DEF Spec

=============================================================================
