---------------------------- MODULE ConsoleProofs ----------------------------
(***************************************************************************)
(* Proofs about the panels of the console that keep server state of their  *)
(* own, for every set of tasks, approvals and sessions and any bounds:     *)
(* what the streams, the pages and the optimistic changes of               *)
(* BoardApprovals, BoardCards and BoardChat leave on display; and that the *)
(* panels keep it, and the onboarding what is proved of it, side by side   *)
(* in MCConsole.                                                           *)
(***************************************************************************)
EXTENDS MCConsole, BoardOnboardingProofs

-----------------------------------------------------------------------------
(***************************************************************************)
(* Numbers and sequences.                                                  *)
(***************************************************************************)
(* A set of naturals has a least member. *)
LEMMA MinOf ==
    ASSUME NEW S \in SUBSET Nat, S # {}
    PROVE  Min(S) \in S
<1>1. IsWellFoundedOn(OpToRel(<, Nat), Nat)
  BY NatLessThanWellFounded
<1>2. PICK n \in S : \A m \in S : <<m, n>> \notin OpToRel(<, Nat)
  BY <1>1, WFMin
<1>3. \A m \in S : ~ m < n
  BY <1>2 DEF OpToRel
<1>4. \A m \in S : n <= m
  BY <1>3
<1> QED
  BY <1>4 DEF Min

(* As many different members as a finite set has are all of them. *)
LEMMA AllInOrder ==
    ASSUME NEW S, IsFiniteSet(S), NEW order \in [1..Cardinality(S) -> S],
           \A i, j \in DOMAIN order : i < j => order[i] # order[j]
    PROVE  \A s \in S : \E i \in DOMAIN order : order[i] = s
<1>1. Cardinality(S) \in Nat
  BY FS_CardinalityType
<1>2. IsFiniteSet(1..Cardinality(S)) /\ Cardinality(1..Cardinality(S)) = Cardinality(S)
  BY <1>1, FS_Interval
<1>3. \A i, j \in 1..Cardinality(S) : order[i] = order[j] => i = j
  BY <1>1
<1>4. order \in Injection(1..Cardinality(S), S)
  BY <1>3 DEF Injection, IsInjective
<1>5. order \in Surjection(1..Cardinality(S), S)
  BY <1>2, <1>4, FS_Injection
<1> QED
  BY <1>5 DEF Surjection

(* Ranks in a finite set of numbers. *)
LEMMA Ranks ==
    ASSUME NEW S \in SUBSET Nat, IsFiniteSet(S)
    PROVE  /\ Cardinality(S) \in Nat
           /\ \A i \in 1..Cardinality(S) :
                 (CHOOSE e \in S : Cardinality({d \in S : d <= e}) = i) \in S
           /\ \A e \in S : \E i \in 1..Cardinality(S) :
                 (CHOOSE c \in S : Cardinality({d \in S : d <= c}) = i) = e
<1> DEFINE UpTo(e) == {d \in S : d <= e}
           Rank(e) == Cardinality(UpTo(e))
           rank == [e \in S |-> Rank(e)]
<1>1. Cardinality(S) \in Nat
  BY FS_CardinalityType
<1>2. ASSUME NEW e \in S PROVE IsFiniteSet(UpTo(e)) /\ Rank(e) \in 1..Cardinality(S)
  <2>1. UpTo(e) \in SUBSET S /\ e \in UpTo(e)
    OBVIOUS
  <2> HIDE DEF UpTo
  <2>2. IsFiniteSet(UpTo(e)) /\ Cardinality(UpTo(e)) <= Cardinality(S)
    BY <2>1, FS_Subset
  <2>3. Cardinality(UpTo(e)) \in Nat /\ Cardinality(UpTo(e)) # 0
    BY <2>1, <2>2, FS_CardinalityType, FS_EmptySet
  <2> QED
    BY <1>1, <2>2, <2>3
<1>3. ASSUME NEW d \in S, NEW e \in S, d < e PROVE Rank(d) # Rank(e)
  <2>0. \A n \in S : n \in Nat
    OBVIOUS
  <2>1. UpTo(d) \in SUBSET UpTo(e)
    <3>1. \A n \in S : n <= d => n <= e
      BY <1>3, <2>0
    <3> QED
      BY <3>1
  <2>2. e \in UpTo(e) /\ e \notin UpTo(d)
    BY <1>3, <2>0
  <2> HIDE DEF UpTo
  <2>3. IsFiniteSet(UpTo(e)) /\ (Cardinality(UpTo(e)) = Cardinality(UpTo(d)) => UpTo(e) = UpTo(d))
    BY <1>2, <2>1, FS_Subset
  <2> QED
    BY <2>2, <2>3
<1>4. \A d, e \in S : Rank(d) = Rank(e) => d = e
  <2>1. \A d, e \in S : d < e \/ d = e \/ e < d
    OBVIOUS
  <2> HIDE DEF Rank
  <2> QED
    BY <1>3, <2>1
<1>5. \A i \in 1..Cardinality(S) : \E e \in S : Rank(e) = i
  <2> HIDE DEF Rank
  <2>1. rank \in [S -> 1..Cardinality(S)]
    BY <1>2
  <2>2. rank \in Injection(S, 1..Cardinality(S))
    BY <1>4, <2>1 DEF Injection, IsInjective
  <2>3. IsFiniteSet(1..Cardinality(S)) /\ Cardinality(1..Cardinality(S)) = Cardinality(S)
    BY <1>1, FS_Interval
  <2>4. rank \in Surjection(S, 1..Cardinality(S))
    BY <2>2, <2>3, FS_Injection
  <2> QED
    BY <2>4 DEF Surjection
<1>6. ASSUME NEW i \in 1..Cardinality(S) PROVE (CHOOSE e \in S : Rank(e) = i) \in S
  <2> HIDE DEF Rank
  <2> QED
    BY <1>5
<1>7. ASSUME NEW e \in S PROVE (CHOOSE c \in S : Rank(c) = Rank(e)) = e
  <2> HIDE DEF Rank
  <2> QED
    BY <1>4
<1> QED
  BY <1>1, <1>2, <1>6, <1>7

(* A sequence with one element changed. *)
LEMMA SeqPut ==
    ASSUME NEW E, NEW s \in Seq(E), NEW x \in E, NEW i \in 1..Len(s)
    PROVE  /\ [s EXCEPT ![i] = x] \in Seq(E)
           /\ Len([s EXCEPT ![i] = x]) = Len(s)
           /\ \A j \in 1..Len(s) : [s EXCEPT ![i] = x][j] = IF j = i THEN x ELSE s[j]
  OBVIOUS

-----------------------------------------------------------------------------
(***************************************************************************)
(* The approvals of the board page.  Whatever the stream will not look at  *)
(* again is in the list as it is, or an event with the row as it is has    *)
(* been sent.                                                              *)
(***************************************************************************)
(* A row of the approvals table. *)
Rulable == [status : Rulings, created : Nat, resolved : Nat]

(* Nothing has happened that the list may have missed. *)
ListKeepsUp == marred \subseteq {"newcomer", "restored"}

(* An event for the approval is on its way. *)
OnWire(a) == \E i \in DOMAIN line.wire : line.wire[i].approval = a

(* The list and the count on the card, as far as nothing was missed. *)
UpToDate(a) == list[a] = approval[a] /\ (marred = {} => IsShown(a))

(* A row of the past. *)
Stamped(r) == r # NoApproval => r \in Rulable /\ UpdatedAt(r) <= stamps

(* Rows, and what requests, answers and the page hold of them. *)
RowsTyped ==
    /\ stamps \in Nat
    /\ approval = [a \in Approvals |-> approval[a]] /\ \A a \in Approvals : Stamped(approval[a])
    /\ list = [a \in Approvals |-> list[a]] /\ \A a \in Approvals : Stamped(list[a])
    /\ \A a \in Approvals : list[a] # NoApproval => approval[a] # NoApproval
    /\ \A w \in writes :
          /\ w.approval \in Approvals /\ w.to \in Rulings
          /\ w.at \in 1..stamps
          /\ w.kind # "create" => approval[w.approval] # NoApproval
    /\ \A n \in answers : n.approval \in Approvals /\ n.row \in Rulable /\ Stamped(n.row)
                         /\ approval[n.approval] # NoApproval
    /\ updating \in Approvals \cup {NoApproval}

(* The counts on the cards, now and before the moves under way. *)
CardsTyped ==
    /\ badge \in [Approvals -> {"none", "clear", "pending"}]
    /\ \A m \in shifts : m.task \in Approvals
                         /\ m.previous \in [Approvals -> {"none", "clear", "pending"}]

(* The connection, and its events while it is open. *)
LineTyped ==
    /\ line = [phase |-> line.phase, since |-> line.since, wire |-> line.wire]
    /\ line.phase \in {"off", "asked", "open", "waiting"}
    /\ line.since \in 0..stamps + 1
    /\ line.wire \in Seq([approval : Approvals, row : Rulable])
    /\ \A i \in DOMAIN line.wire :
          Stamped(line.wire[i].row) /\ approval[line.wire[i].approval] # NoApproval
    /\ line.phase # "open" => line.wire = <<>>
    /\ line.phase # "off" => begun

(* An event the stream would not send again has the row as it is. *)
WireSound ==
    \A i \in DOMAIN line.wire :
        line.wire[i].approval \in Past(line.since) =>
            line.wire[i].row = approval[line.wire[i].approval]

(* Every change before the position of the stream is shown or on its way. *)
NothingMissed == \A a \in Past(line.since) : OnWire(a) \/ UpToDate(a)

(* The list keeps up with the stream unless one of the exceptions occurred. *)
ApprovalsInv ==
    /\ RowsTyped /\ CardsTyped /\ LineTyped
    /\ marred \subseteq {"reopened", "late", "overtaken", "leap", "newcomer", "restored"}
    /\ line.phase = "open" /\ ListKeepsUp => WireSound /\ NothingMissed

(* Rows outlive the stamps that are taken later. *)
LEMMA StampedLater ==
    ASSUME NEW r, Stamped(r), stamps \in Nat, stamps' \in Nat, stamps <= stamps'
    PROVE  Stamped(r)'
  BY DEF Stamped, Rulable, UpdatedAt

(* An event is about an approval, and has a row. *)
LEMMA EventAt ==
    ASSUME LineTyped, NEW i \in DOMAIN line.wire
    PROVE  /\ line.wire[i].approval \in Approvals /\ line.wire[i].row \in Rulable
           /\ Stamped(line.wire[i].row) /\ approval[line.wire[i].approval] # NoApproval
<1> DEFINE Events == [approval : Approvals, row : Rulable]
<1>0. line.wire \in Seq(Events)
  BY DEF LineTyped
<1> HIDE DEF Events
<1>1. line.wire[i] \in Events
  BY <1>0
<1> USE DEF Events
<1> QED
  BY <1>1 DEF LineTyped

(* The connection after one of its steps. *)
LEMMA LineMade ==
    ASSUME line' = [phase |-> line'.phase, since |-> line'.since, wire |-> line'.wire],
           line'.phase \in {"off", "asked", "open", "waiting"}, line'.since \in 0..stamps + 1,
           line'.wire \in Seq([approval : Approvals, row : Rulable]),
           \A i \in DOMAIN line'.wire :
              Stamped(line'.wire[i].row) /\ approval[line'.wire[i].approval] # NoApproval,
           line'.phase # "open" => line'.wire = <<>>, begun', UNCHANGED <<stamps, approval>>
    PROVE  LineTyped'
<1>1. \A r : Stamped(r) => Stamped(r)'
  BY DEF Stamped
<1>2. \A i \in DOMAIN line'.wire :
        Stamped(line.wire[i].row)' /\ approval'[line'.wire[i].approval] # NoApproval
  BY <1>1
<1> QED
  BY <1>2 DEF LineTyped

(* No event is one of those. *)
LEMMA NoEvents ==
    /\ <<>> \in Seq([approval : Approvals, row : Rulable])
    /\ \A i \in DOMAIN <<>> : FALSE
  OBVIOUS

(* A page that is not loaded yet has missed nothing. *)
LEMMA InitApprovals == ApprovalsInit => ApprovalsInv
<1> SUFFICES ASSUME ApprovalsInit PROVE ApprovalsInv
  OBVIOUS
<1>1. \A a \in Approvals : Stamped(approval[a])
  BY DEF ApprovalsInit, Stamped, Rulable, Rulings, UpdatedAt
<1>2. RowsTyped
  BY <1>1 DEF ApprovalsInit, RowsTyped, Stamped
<1>3. CardsTyped
  BY DEF ApprovalsInit, CardsTyped
<1>4. LineTyped
  BY DEF ApprovalsInit, LineTyped, NoLine
<1> QED
  BY <1>2, <1>3, <1>4 DEF ApprovalsInit, ApprovalsInv, NoLine

(* A step that changes no row, card or event. *)
LEMMA CurrentStays ==
    ASSUME ApprovalsInv, UNCHANGED <<approval, list, badge, line, marred>>
    PROVE  /\ line'.phase = "open" /\ ListKeepsUp' => WireSound' /\ NothingMissed'
           /\ marred' \subseteq {"reopened", "late", "overtaken", "leap", "newcomer", "restored"}
<1>1. Past(line.since)' = Past(line.since)
  BY DEF Past, UpdatedAt
<1>2. \A a : /\ OnWire(a) => OnWire(a)'
             /\ UpToDate(a) => UpToDate(a)'
  BY DEF OnWire, UpToDate, IsShown, Badge, Waiting
<1> QED
  BY <1>1, <1>2 DEF ApprovalsInv, ListKeepsUp, WireSound, NothingMissed

(* The connection stays typed when nothing but the time moves on. *)
LEMMA LineStays ==
    ASSUME LineTyped, UNCHANGED <<line, begun, approval>>,
           stamps \in Nat, stamps' \in Nat, stamps <= stamps'
    PROVE  LineTyped'
<1>1. \A i \in DOMAIN line.wire :
        Stamped(line.wire[i].row)' /\ approval'[line.wire[i].approval] # NoApproval
  BY StampedLater DEF LineTyped
<1> QED
  BY <1>1 DEF LineTyped

(* A request that has taken its stamp. *)
LEMMA AsksStep ==
    ASSUME ApprovalsInv, NEW a \in Approvals, NEW kind, NEW to \in Rulings, NEW own,
           Asks(a, kind, to, own), kind # "create" => approval[a] # NoApproval,
           updating' \in Approvals \cup {NoApproval},
           UNCHANGED <<approval, answers, begun, list, badge, line, shiftVars, marred>>
    PROVE  ApprovalsInv'
<1> DEFINE new == [approval |-> a, kind |-> kind, to |-> to, at |-> stamps + 1, own |-> own]
<1>1. stamps \in Nat /\ stamps' = stamps + 1 /\ writes' = writes \cup {new}
  BY DEF Asks, ApprovalsInv, RowsTyped
<1>2. \A r : Stamped(r) => Stamped(r)'
  BY <1>1, StampedLater
<1>3. \A w \in writes' :
          /\ w.approval \in Approvals /\ w.to \in Rulings
          /\ w.at \in 1..stamps'
          /\ w.kind # "create" => approval'[w.approval] # NoApproval
  BY <1>1 DEF ApprovalsInv, RowsTyped
<1>4. RowsTyped'
  BY <1>1, <1>2, <1>3 DEF ApprovalsInv, RowsTyped
<1>5. LineTyped'
  BY <1>1, LineStays DEF ApprovalsInv
<1>6. CardsTyped'
  BY DEF ApprovalsInv, CardsTyped, shiftVars
<1> QED
  BY <1>4, <1>5, <1>6, CurrentStays DEF ApprovalsInv

(* The requests of others, and the user's decisions. *)
LEMMA RequestStep ==
    ASSUME ApprovalsInv, OthersCreate \/ OthersDecide \/ OthersReopen \/ Decide
    PROVE  ApprovalsInv'
<1>0. {"pending", "decided"} \subseteq Rulings
  BY DEF Rulings
<1>1. CASE OthersCreate
  BY <1>1, AsksStep DEF OthersCreate, pageVars, ApprovalsInv, RowsTyped
<1>2. CASE OthersDecide
  BY <1>0, <1>2, AsksStep DEF OthersDecide, pageVars, ApprovalsInv, RowsTyped
<1>3. CASE OthersReopen
  BY <1>0, <1>3, AsksStep DEF OthersReopen, pageVars, ApprovalsInv, RowsTyped
<1>4. CASE Decide
  <2>1. PICK a \in Approvals :
          /\ list[a] # NoApproval /\ updating' = a
          /\ \E kind \in DecisionKinds(a) : Asks(a, kind, "decided", TRUE)
    BY <1>4 DEF Decide
  <2>2. approval[a] # NoApproval
    BY <2>1 DEF ApprovalsInv, RowsTyped
  <2> QED
    BY <1>0, <1>4, <2>1, <2>2, AsksStep DEF Decide
<1> QED
  BY <1>1, <1>2, <1>3, <1>4

(* A COMMIT: of a row that the stream has gone past it is noted. *)
LEMMA CommitStep ==
    ASSUME ApprovalsInv, WriteCommits
    PROVE  ApprovalsInv'
<1>1. PICK w \in writes :
        /\ writes' = writes \ {w}
        /\ approval' = [approval EXCEPT ![w.approval] = Written(w)]
        /\ answers' = IF w.own
                      THEN answers \cup {[approval |-> w.approval, row |-> Written(w)]}
                      ELSE answers
        /\ marred' = IF line.phase = "open" /\ UpdatedAt(Written(w)) < line.since
                     THEN marred \cup {IF w.to = "pending" THEN "reopened" ELSE "late"}
                     ELSE marred
  BY DEF WriteCommits
<1>2. UNCHANGED <<stamps, begun, list, badge, updating, line, shifts>>
  BY DEF WriteCommits, pageVars, shiftVars
<1> DEFINE b == w.approval
           n == Written(w)
<1>3. /\ b \in Approvals /\ stamps \in Nat
      /\ approval' = [a \in Approvals |-> IF a = b THEN n ELSE approval[a]]
  BY <1>1 DEF ApprovalsInv, RowsTyped
<1>4. n \in Rulable /\ Stamped(n) /\ n # NoApproval
  <2>1. CASE w.kind = "create"
    BY <2>1, ApprovalsAssumption DEF Written, Stamped, Rulable, Rulings, UpdatedAt, ApprovalsInv, RowsTyped
  <2>2. CASE w.kind # "create"
    <3>1. approval[b] \in Rulable /\ UpdatedAt(approval[b]) <= stamps
      BY <2>2 DEF ApprovalsInv, RowsTyped, Stamped
    <3>2. w.to \in Rulings /\ w.at \in 1..stamps
      BY DEF ApprovalsInv, RowsTyped
    <3>3. PICK s \in Rulings, d \in {approval[b].resolved, w.at} :
            n = [approval[b] EXCEPT !.status = s, !.resolved = d]
      BY <2>2, <3>1, <3>2 DEF Written, Rulable
    <3>4. n = [status |-> s, created |-> approval[b].created, resolved |-> d]
      BY <3>1, <3>3 DEF Rulable
    <3>5. n.resolved = d /\ n.created = approval[b].created /\ d \in Nat
          /\ n \in Rulable
      <4>1. d \in Nat /\ approval[b].created \in Nat
        BY <1>3, <3>1, <3>2, <3>3 DEF Rulable
      <4> HIDE DEF n
      <4> QED
        BY <3>3, <3>4, <4>1 DEF Rulable
    <3>6. UpdatedAt(n) <= stamps
      <4>1. CASE d = w.at
        BY <1>3, <3>2, <3>5, <4>1 DEF UpdatedAt
      <4>2. CASE d = approval[b].resolved
        BY <3>1, <3>5, <4>2 DEF UpdatedAt
      <4> QED
        BY <3>3, <4>1, <4>2
    <3> QED
      BY <3>5, <3>6, ApprovalsAssumption DEF Stamped, Rulable, Rulings
  <2> QED
    BY <2>1, <2>2
<1> HIDE DEF n
<1>5. \A r : Stamped(r) => Stamped(r)'
  BY <1>2 DEF Stamped
<1>6. \A a \in Approvals : approval[a] # NoApproval => approval'[a] # NoApproval
  BY <1>3, <1>4
<1>7. RowsTyped'
  <2>1. \A o \in answers' : /\ o.approval \in Approvals /\ o.row \in Rulable /\ Stamped(o.row)'
                            /\ approval'[o.approval] # NoApproval
    BY <1>1, <1>3, <1>4, <1>5, <1>6 DEF ApprovalsInv, RowsTyped
  <2>2. \A o \in writes' : /\ o.approval \in Approvals /\ o.to \in Rulings /\ o.at \in 1..stamps'
                           /\ o.kind # "create" => approval'[o.approval] # NoApproval
    BY <1>1, <1>2, <1>6 DEF ApprovalsInv, RowsTyped
  <2>3. \A a \in Approvals : Stamped(approval[a])'
    BY <1>3, <1>4, <1>5 DEF ApprovalsInv, RowsTyped
  <2> QED
    BY <1>2, <1>3, <1>5, <1>6, <2>1, <2>2, <2>3 DEF ApprovalsInv, RowsTyped
<1>8. LineTyped'
  <2>1. \A i \in DOMAIN line.wire :
          /\ Stamped(line.wire[i].row)'
          /\ approval'[line.wire[i].approval] # NoApproval
    <3>1. LineTyped
      BY DEF ApprovalsInv
    <3> QED
      BY <1>2, <1>5, <1>6, <3>1, EventAt
  <2> QED
    BY <1>2, <2>1 DEF ApprovalsInv, LineTyped
<1>9. CardsTyped'
  BY <1>2 DEF ApprovalsInv, CardsTyped
<1>10. ASSUME line'.phase = "open", ListKeepsUp' PROVE WireSound' /\ NothingMissed'
  <2>1. ~ UpdatedAt(n) < line.since /\ marred' = marred
    <3>1. CASE UpdatedAt(n) < line.since
      BY <1>1, <1>2, <1>10, <3>1 DEF ListKeepsUp, n
    <3> QED
      BY <1>1, <3>1 DEF n
  <2>2. Past(line.since)' = Past(line.since) \ {b}
    BY <1>2, <1>3, <2>1 DEF Past, UpdatedAt
  <2>3. WireSound /\ NothingMissed
    BY <1>2, <1>10, <2>1 DEF ApprovalsInv, ListKeepsUp
  <2>4. WireSound'
    <3>1. ASSUME NEW i \in DOMAIN line.wire, line.wire[i].approval \in Past(line.since)'
          PROVE  line.wire[i].row = approval'[line.wire[i].approval]
      <4>1. line.wire[i].approval # b /\ line.wire[i].approval \in Past(line.since)
        BY <2>2, <3>1
      <4> QED
        BY <1>3, <2>3, <4>1 DEF WireSound, Past
    <3> QED
      BY <1>2, <3>1 DEF WireSound
  <2>5. ASSUME NEW a \in Past(line.since)' PROVE OnWire(a)' \/ UpToDate(a)'
    <3>1. a \in Approvals /\ approval'[a] = approval[a] /\ (OnWire(a) \/ UpToDate(a))
      BY <1>3, <2>2, <2>3 DEF Past, NothingMissed
    <3> QED
      BY <1>2, <2>1, <3>1 DEF OnWire, UpToDate, IsShown, Badge, Waiting
  <2> QED
    BY <2>4, <2>5 DEF NothingMissed
<1>11. marred' \subseteq {"reopened", "late", "overtaken", "leap", "newcomer", "restored"}
  BY <1>1 DEF ApprovalsInv
<1> QED
  BY <1>7, <1>8, <1>9, <1>10, <1>11 DEF ApprovalsInv

(* The snapshot comes before the connection. *)
LEMMA SnapshotStep ==
    ASSUME ApprovalsInv, LoadSnapshot
    PROVE  ApprovalsInv'
<1>1. /\ ~begun /\ list' = approval
      /\ UNCHANGED <<approval, stamps, writes, answers, updating, line, shifts, marred>>
  BY DEF LoadSnapshot, rowVars, shiftVars
<1>2. PICK there \in SUBSET Approvals :
        badge' = [t \in Approvals |-> IF t \in there THEN Badge(t) ELSE "none"]
  BY DEF LoadSnapshot
<1>3. \A r : Stamped(r) => Stamped(r)'
  BY <1>1 DEF Stamped
<1>4. RowsTyped'
  BY <1>1, <1>3 DEF ApprovalsInv, RowsTyped
<1>5. CardsTyped'
  BY <1>1, <1>2 DEF ApprovalsInv, CardsTyped, Badge
<1>6. line.phase = "off" /\ line.wire = <<>> /\ begun'
  BY <1>1 DEF ApprovalsInv, LineTyped, LoadSnapshot
<1>7. LineTyped'
  BY <1>1, <1>6 DEF ApprovalsInv, LineTyped
<1> QED
  BY <1>1, <1>4, <1>5, <1>6, <1>7 DEF ApprovalsInv

(* A step of the page that changes its list or its cards: what was as the  *)
(* row is stays so, or it is noted.                                        *)
LEMMA PageStep ==
    ASSUME ApprovalsInv, RowsTyped', CardsTyped',
           UNCHANGED <<approval, stamps, begun, line>>,
           marred \subseteq marred',
           marred' \subseteq {"reopened", "late", "overtaken", "leap", "newcomer", "restored"},
           \A a \in Approvals : UpToDate(a) /\ ListKeepsUp' => UpToDate(a)'
    PROVE  ApprovalsInv'
<1>1. LineTyped'
  BY LineStays DEF ApprovalsInv, RowsTyped
<1>2. ASSUME line'.phase = "open", ListKeepsUp' PROVE WireSound' /\ NothingMissed'
  <2>1. ListKeepsUp
    BY <1>2 DEF ListKeepsUp
  <2>2. WireSound /\ NothingMissed
    BY <1>2, <2>1 DEF ApprovalsInv
  <2>3. Past(line.since)' = Past(line.since)
    BY DEF Past, UpdatedAt
  <2>4. WireSound'
    BY <2>2, <2>3 DEF WireSound
  <2>5. ASSUME NEW a \in Past(line.since) PROVE OnWire(a)' \/ UpToDate(a)'
    BY <1>2, <2>2 DEF NothingMissed, OnWire, Past
  <2> QED
    BY <2>3, <2>4, <2>5 DEF NothingMissed
<1> QED
  BY <1>1, <1>2 DEF ApprovalsInv

(* The user's answers, and those that fail. *)
LEMMA AnswerStep ==
    ASSUME ApprovalsInv, DecisionAnswered \/ AnswerLost \/ WriteFails
    PROVE  ApprovalsInv'
<1>1. CASE DecisionAnswered
  <2>1. PICK n \in answers :
          /\ answers' = answers \ {n}
          /\ list' = IF list[n.approval] = NoApproval THEN list
                     ELSE [list EXCEPT ![n.approval] = n.row]
          /\ marred' = IF list[n.approval] = approval[n.approval] /\ n.row # approval[n.approval]
                       THEN marred \cup {"overtaken"} ELSE marred
    BY <1>1 DEF DecisionAnswered
  <2> DEFINE b == n.approval
  <2>2. /\ updating' = NoApproval
        /\ UNCHANGED <<approval, stamps, writes, begun, badge, line, shifts>>
    BY <1>1 DEF DecisionAnswered, rowVars, shiftVars
  <2>3. b \in Approvals /\ n.row \in Rulable /\ Stamped(n.row) /\ approval[b] # NoApproval
    BY DEF ApprovalsInv, RowsTyped
  <2>4. list' = [a \in Approvals |-> IF a = b /\ list[b] # NoApproval THEN n.row ELSE list[a]]
    BY <2>1, <2>3 DEF ApprovalsInv, RowsTyped
  <2>5. \A r : Stamped(r) => Stamped(r)'
    BY <2>2 DEF Stamped
  <2>6. RowsTyped'
    BY <2>1, <2>2, <2>3, <2>4, <2>5 DEF ApprovalsInv, RowsTyped
  <2>7. CardsTyped'
    BY <2>2 DEF ApprovalsInv, CardsTyped
  <2>8. ASSUME NEW a \in Approvals, UpToDate(a), ListKeepsUp' PROVE UpToDate(a)'
    <3>1. marred' = marred /\ (list[b] = approval[b] => n.row = approval[b])
      BY <2>1, <2>8 DEF ListKeepsUp
    <3>2. list'[a] = approval[a]
      BY <2>4, <2>8, <3>1 DEF UpToDate
    <3> QED
      BY <2>2, <2>8, <3>1, <3>2 DEF UpToDate, IsShown, Badge, Waiting
  <2>9. marred \subseteq marred'
        /\ marred' \subseteq {"reopened", "late", "overtaken", "leap", "newcomer", "restored"}
    BY <2>1 DEF ApprovalsInv
  <2> QED
    BY <2>2, <2>6, <2>7, <2>8, <2>9, PageStep
<1>2. CASE AnswerLost \/ WriteFails
  <2>1. /\ writes' \subseteq writes /\ answers' \subseteq answers
        /\ updating' \in {updating, NoApproval}
        /\ UNCHANGED <<approval, stamps, begun, list, badge, line, shifts, marred>>
    BY <1>2 DEF AnswerLost, WriteFails, rowVars, shiftVars
  <2>2. \A r : Stamped(r) => Stamped(r)'
    BY <2>1 DEF Stamped
  <2>3. RowsTyped'
    BY <2>1, <2>2 DEF ApprovalsInv, RowsTyped
  <2>4. CardsTyped' /\ LineTyped'
    BY <2>1, LineStays DEF ApprovalsInv, CardsTyped, RowsTyped
  <2> QED
    BY <2>1, <2>3, <2>4, CurrentStays DEF ApprovalsInv
<1> QED
  BY <1>1, <1>2

(* The cards: a count that is not the row's is noted. *)
LEMMA CardStep ==
    ASSUME ApprovalsInv, CardArrives \/ ShiftStarts \/ ShiftAnswered \/ ShiftFails
    PROVE  ApprovalsInv'
<1>1. UNCHANGED <<approval, stamps, writes, answers, begun, list, updating, line>>
  BY DEF CardArrives, ShiftStarts, ShiftAnswered, ShiftFails, rowVars, pageVars
<1>2. RowsTyped'
  <2>1. \A r : Stamped(r) => Stamped(r)'
    BY <1>1 DEF Stamped
  <2> QED
    BY <1>1, <2>1 DEF ApprovalsInv, RowsTyped
<1>3. \A a : IsShown(a) /\ badge'[a] = badge[a] => IsShown(a)'
  BY <1>1 DEF IsShown, Badge, Waiting
<1>4. CASE CardArrives
  <2>1. PICK t \in Approvals :
          /\ badge[t] = "none" /\ badge' = [badge EXCEPT ![t] = "clear"]
          /\ marred' = IF Waiting(t) THEN marred \cup {"newcomer"} ELSE marred
    BY <1>4 DEF CardArrives
  <2>2. shifts' = shifts /\ badge' = [a \in Approvals |-> IF a = t THEN "clear" ELSE badge[a]]
    BY <1>4, <2>1 DEF CardArrives, shiftVars, ApprovalsInv, CardsTyped
  <2>3. CardsTyped'
    BY <2>2 DEF ApprovalsInv, CardsTyped
  <2>4. ASSUME NEW a \in Approvals, UpToDate(a) PROVE UpToDate(a)'
    <3>1. marred' = {} => marred = {} /\ ~ Waiting(t)
      BY <2>1
    <3>2. ~ Waiting(t) => (Badge(t))' = "clear"
      BY <1>1 DEF Badge, Waiting
    <3>3. IsShown(t) /\ ~ Waiting(t) => IsShown(t)'
      BY <1>1, <2>2, <3>2 DEF IsShown
    <3> QED
      BY <1>1, <1>3, <2>2, <2>4, <3>1, <3>3 DEF UpToDate
  <2>5. marred \subseteq marred'
        /\ marred' \subseteq {"reopened", "late", "overtaken", "leap", "newcomer", "restored"}
    BY <2>1 DEF ApprovalsInv
  <2> QED
    BY <1>1, <1>2, <2>3, <2>4, <2>5, PageStep
<1>5. CASE ShiftStarts
  <2>1. PICK t \in Approvals : shifts' = shifts \cup {[task |-> t, previous |-> badge]}
    BY <1>5 DEF ShiftStarts
  <2>2. UNCHANGED <<badge, marred>>
    BY <1>5 DEF ShiftStarts, pageVars
  <2>3. CardsTyped'
    BY <2>1, <2>2 DEF ApprovalsInv, CardsTyped
  <2>4. LineTyped'
    BY <1>1, LineStays DEF ApprovalsInv, RowsTyped
  <2> QED
    BY <1>1, <1>2, <2>2, <2>3, <2>4, CurrentStays DEF ApprovalsInv
<1>6. CASE ShiftAnswered \/ ShiftFails
  <2>1. /\ shifts' \subseteq shifts
        /\ marred' = IF badge' # badge THEN marred \cup {"restored"} ELSE marred
    BY <1>6 DEF ShiftAnswered, ShiftFails
  <2>2. badge' \in [Approvals -> {"none", "clear", "pending"}]
    BY <1>6 DEF ShiftAnswered, ShiftFails, ApprovalsInv, CardsTyped
  <2>3. CardsTyped'
    BY <2>1, <2>2 DEF ApprovalsInv, CardsTyped
  <2>4. ASSUME NEW a \in Approvals, UpToDate(a) PROVE UpToDate(a)'
    <3>1. marred' = {} => marred = {} /\ badge' = badge
      BY <2>1
    <3> QED
      BY <1>1, <1>3, <2>4, <3>1 DEF UpToDate
  <2>5. marred \subseteq marred'
        /\ marred' \subseteq {"reopened", "late", "overtaken", "leap", "newcomer", "restored"}
    BY <2>1 DEF ApprovalsInv
  <2> QED
    BY <1>1, <1>2, <2>3, <2>4, <2>5, PageStep
<1> QED
  BY <1>4, <1>5, <1>6

(* A connection starts from the newest stamp in the list. *)
LEMMA ConnectStep ==
    ASSUME ApprovalsInv, LineConnects
    PROVE  ApprovalsInv'
<1> DEFINE known == {UpdatedAt(list[a]) : a \in Listed} \cup {0}
<1>1. /\ begun /\ line' = [NoLine EXCEPT !.phase = "asked", !.since = Max(known)]
      /\ UNCHANGED <<approval, stamps, writes, answers, begun, list, badge, updating, shifts, marred>>
  BY DEF LineConnects, rowVars, pageVars, shiftVars
<1>2. Max(known) \in 0..stamps
  <2>1. \A a \in Listed : UpdatedAt(list[a]) \in 0..stamps
    BY DEF Listed, ApprovalsInv, RowsTyped, Stamped, Rulable, UpdatedAt
  <2>2. known \in SUBSET (0..stamps) /\ known \in SUBSET Nat /\ known # {}
    BY <2>1 DEF ApprovalsInv, RowsTyped
  <2>3. IsFiniteSet(known)
    <3>0. stamps \in Nat
      BY DEF ApprovalsInv, RowsTyped
    <3>1. IsFiniteSet(0..stamps)
      BY <3>0, FS_Interval
    <3> HIDE DEF known
    <3> QED
      BY <2>2, <3>1, FS_Subset
  <2> HIDE DEF known
  <2> QED
    BY <2>2, <2>3, MaxOf
<1> HIDE DEF known
<1>3. line' = [phase |-> "asked", since |-> Max(known), wire |-> <<>>]
  BY <1>1 DEF NoLine
<1>4. LineTyped'
  <2>1. /\ line'.phase = "asked" /\ line'.since = Max(known) /\ line'.wire = <<>>
        /\ line' = [phase |-> line'.phase, since |-> line'.since, wire |-> line'.wire]
    BY <1>3
  <2>2. Max(known) \in 0..stamps + 1
    BY <1>2 DEF ApprovalsInv, RowsTyped
  <2> QED
    BY <1>1, <2>1, <2>2, NoEvents, LineMade
<1>5. \A r : Stamped(r) => Stamped(r)'
  BY <1>1 DEF Stamped
<1>6. RowsTyped' /\ CardsTyped'
  BY <1>1, <1>5 DEF ApprovalsInv, RowsTyped, CardsTyped
<1> QED
  BY <1>1, <1>3, <1>4, <1>6 DEF ApprovalsInv

(* The server takes the connection; what the list has missed is noted. *)
LEMMA AcceptStep ==
    ASSUME ApprovalsInv, LineAccepted
    PROVE  ApprovalsInv'
<1> DEFINE start == IF line.since = 0 THEN stamps + 1 ELSE line.since
<1>1. /\ line.phase = "asked" /\ line' = [line EXCEPT !.phase = "open", !.since = start]
      /\ marred' = IF \E a \in Past(line'.since) : ~ IsShown(a)
                   THEN marred \cup {"leap"} ELSE marred
      /\ UNCHANGED <<approval, stamps, writes, answers, begun, list, badge, updating, shifts>>
  BY DEF LineAccepted, rowVars, pageVars, shiftVars
<1>2. line' = [phase |-> "open", since |-> start, wire |-> <<>>] /\ begun
  BY <1>1 DEF ApprovalsInv, LineTyped
<1>3. start \in 0..stamps + 1
  BY DEF ApprovalsInv, LineTyped, RowsTyped
<1> HIDE DEF start
<1>4. LineTyped'
  <2>1. /\ line'.phase = "open" /\ line'.since = start /\ line'.wire = <<>>
        /\ line' = [phase |-> line'.phase, since |-> line'.since, wire |-> line'.wire]
    BY <1>2
  <2> QED
    BY <1>1, <1>2, <1>3, <2>1, NoEvents, LineMade
<1>5. \A r : Stamped(r) => Stamped(r)'
  BY <1>1 DEF Stamped
<1>6. RowsTyped' /\ CardsTyped'
  BY <1>1, <1>5 DEF ApprovalsInv, RowsTyped, CardsTyped
<1>7. ASSUME ListKeepsUp' PROVE WireSound' /\ NothingMissed'
  <2>1. \A a \in Past(line'.since) : IsShown(a)
    BY <1>1, <1>7 DEF ListKeepsUp
  <2>2. Past(line.since)' = Past(line'.since)
    BY <1>1 DEF Past, UpdatedAt
  <2>3. \A a : IsShown(a) => UpToDate(a)'
    BY <1>1 DEF IsShown, UpToDate, Badge, Waiting
  <2>4. WireSound'
    BY <1>2 DEF WireSound
  <2> QED
    BY <2>1, <2>2, <2>3, <2>4 DEF NothingMissed
<1>8. marred' \subseteq {"reopened", "late", "overtaken", "leap", "newcomer", "restored"}
  BY <1>1 DEF ApprovalsInv
<1> QED
  BY <1>4, <1>6, <1>7, <1>8 DEF ApprovalsInv

(* A poll sends whatever is not of the past. *)
LEMMA PollStep ==
    ASSUME ApprovalsInv, LinePolls
    PROVE  ApprovalsInv'
<1> DEFINE known == {UpdatedAt(approval[a]) : a \in DueApprovals} \cup {line.since}
<1>1. /\ line.phase = "open" /\ line.wire = <<>>
      /\ UNCHANGED <<approval, stamps, writes, answers, begun, list, badge, updating, shifts, marred>>
  BY DEF LinePolls, rowVars, pageVars, shiftVars
<1>2. PICK order \in [1..Cardinality(DueApprovals) -> DueApprovals] :
        /\ \A i, j \in DOMAIN order :
              i < j => /\ order[i] # order[j]
                       /\ approval[order[i]].created <= approval[order[j]].created
        /\ line' = [line EXCEPT
              !.wire = [i \in DOMAIN order |->
                           [approval |-> order[i], row |-> approval[order[i]]]],
              !.since = Max({UpdatedAt(approval[a]) : a \in DueApprovals} \cup {@})]
  BY DEF LinePolls
<1>3. Max(known) \in 0..stamps + 1
  <2>1. \A a \in DueApprovals : UpdatedAt(approval[a]) \in 0..stamps + 1
    BY DEF DueApprovals, ApprovalsInv, RowsTyped, Stamped, Rulable, UpdatedAt
  <2>2. known \in SUBSET (0..stamps + 1) /\ known \in SUBSET Nat /\ known # {}
    BY <2>1 DEF ApprovalsInv, RowsTyped, LineTyped
  <2>3. IsFiniteSet(known)
    <3>0. stamps \in Nat
      BY DEF ApprovalsInv, RowsTyped
    <3>1. IsFiniteSet(0..stamps + 1)
      BY <3>0, FS_Interval
    <3> HIDE DEF known
    <3> QED
      BY <2>2, <3>1, FS_Subset
  <2> HIDE DEF known
  <2> QED
    BY <2>2, <2>3, MaxOf
<1> HIDE DEF known
<1> DEFINE events == [i \in DOMAIN order |-> [approval |-> order[i], row |-> approval[order[i]]]]
<1>4. line' = [phase |-> "open", since |-> Max(known), wire |-> events]
  BY <1>1, <1>2 DEF ApprovalsInv, LineTyped, known
<1>5. IsFiniteSet(DueApprovals) /\ DueApprovals \subseteq Approvals
      /\ Cardinality(DueApprovals) \in Nat
  <2>1. DueApprovals \in SUBSET Approvals
    BY DEF DueApprovals
  <2> QED
    BY <2>1, FS_Subset, FS_CardinalityType, ApprovalsAssumption
<1>6. \A a \in DueApprovals : a \in Approvals /\ approval[a] \in Rulable
                              /\ Stamped(approval[a]) /\ approval[a] # NoApproval
  BY DEF DueApprovals, ApprovalsInv, RowsTyped, Stamped
<1>7. events \in Seq([approval : Approvals, row : Rulable])
      /\ DOMAIN events = DOMAIN order
  <2> DEFINE Events == [approval : Approvals, row : Rulable]
  <2>1. \A i \in DOMAIN order : events[i] \in Events
    BY <1>6
  <2>2. events = [i \in 1..Cardinality(DueApprovals) |-> events[i]]
    OBVIOUS
  <2> HIDE DEF events, Events
  <2>3. events \in Seq(Events)
    BY <1>5, <2>1, <2>2
  <2> QED
    BY <2>2, <2>3 DEF Events
<1>8. \A r : Stamped(r) => Stamped(r)'
  BY <1>1 DEF Stamped
<1>9. LineTyped'
  <2>1. \A i \in DOMAIN events :
          Stamped(events[i].row) /\ approval[events[i].approval] # NoApproval
    BY <1>6
  <2>2. begun'
    BY <1>1 DEF ApprovalsInv, LineTyped
  <2> HIDE DEF events
  <2>3. /\ line'.phase = "open" /\ line'.since = Max(known) /\ line'.wire = events
        /\ line' = [phase |-> line'.phase, since |-> line'.since, wire |-> line'.wire]
    BY <1>4
  <2> QED
    BY <1>1, <1>3, <1>7, <2>1, <2>2, <2>3, LineMade
<1>10. RowsTyped' /\ CardsTyped'
  BY <1>1, <1>8 DEF ApprovalsInv, RowsTyped, CardsTyped
<1>11. WireSound'
  BY <1>1, <1>4 DEF WireSound
<1>12. ASSUME ListKeepsUp' PROVE NothingMissed'
  <2>1. NothingMissed
    BY <1>1, <1>12 DEF ApprovalsInv, ListKeepsUp
  <2>2. ASSUME NEW a \in DueApprovals PROVE OnWire(a)'
    <3>1. PICK i \in DOMAIN order : order[i] = a
      BY <1>2, <1>5, AllInOrder
    <3> QED
      BY <1>4, <3>1 DEF OnWire
  <2>3. ASSUME NEW a \in Past(line.since) PROVE UpToDate(a)'
    <3>1. UpToDate(a)
      BY <1>1, <2>1 DEF NothingMissed, OnWire
    <3> QED
      BY <1>1, <3>1 DEF UpToDate, IsShown, Badge, Waiting
  <2>4. Past(line.since)' \subseteq DueApprovals \cup Past(line.since)
    BY <1>1 DEF Past, DueApprovals, UpdatedAt
  <2> QED
    BY <2>2, <2>3, <2>4 DEF NothingMissed
<1> QED
  BY <1>1, <1>9, <1>10, <1>11, <1>12 DEF ApprovalsInv

(* An event of the past brings the row as it is. *)
LEMMA EventStep ==
    ASSUME ApprovalsInv, LineEvent
    PROVE  ApprovalsInv'
<1> DEFINE event == Head(line.wire)
           b == event.approval
<1>1. /\ line.wire # <<>> /\ line' = [line EXCEPT !.wire = Tail(@)]
      /\ list' = [list EXCEPT ![b] = event.row]
      /\ badge' = [badge EXCEPT ![b] = IF @ = "none" THEN @
                       ELSE IF event.row.status = "pending" THEN "pending" ELSE "clear"]
      /\ UNCHANGED <<approval, stamps, writes, answers, begun, updating, shifts, marred>>
  BY DEF LineEvent, rowVars, shiftVars
<1>2. /\ 1 \in DOMAIN line.wire /\ event = line.wire[1]
      /\ Tail(line.wire) \in Seq([approval : Approvals, row : Rulable])
      /\ DOMAIN Tail(line.wire) = 1..Len(line.wire) - 1 /\ Len(line.wire) \in Nat
      /\ \A i \in DOMAIN Tail(line.wire) :
            i + 1 \in DOMAIN line.wire /\ Tail(line.wire)[i] = line.wire[i + 1]
      /\ \A i \in DOMAIN line.wire : i # 1 => i - 1 \in DOMAIN Tail(line.wire)
                                              /\ Tail(line.wire)[i - 1] = line.wire[i]
  <2> DEFINE Events == [approval : Approvals, row : Rulable]
             wire == line.wire
  <2>1. wire \in Seq(Events) /\ wire # <<>>
    BY <1>1 DEF ApprovalsInv, LineTyped
  <2> HIDE DEF Events, wire
  <2>2. /\ 1 \in DOMAIN wire /\ Head(wire) = wire[1]
        /\ Tail(wire) \in Seq(Events)
        /\ DOMAIN Tail(wire) = 1..Len(wire) - 1 /\ Len(wire) \in Nat
        /\ \A i \in DOMAIN Tail(wire) : i + 1 \in DOMAIN wire /\ Tail(wire)[i] = wire[i + 1]
        /\ \A i \in DOMAIN wire : i # 1 => i - 1 \in DOMAIN Tail(wire)
                                           /\ Tail(wire)[i - 1] = wire[i]
    BY <2>1
  <2> QED
    BY <2>2 DEF Events, wire
<1>3. LineTyped /\ b \in Approvals /\ event.row \in Rulable /\ Stamped(event.row)
      /\ approval[b] # NoApproval
  BY <1>2, EventAt DEF ApprovalsInv
<1>4. line' = [phase |-> line.phase, since |-> line.since, wire |-> Tail(line.wire)]
  BY <1>1, <1>3 DEF LineTyped
<1>5. \A r : Stamped(r) => Stamped(r)'
  BY <1>1 DEF Stamped
<1>6. LineTyped'
  <2> DEFINE rest == Tail(line.wire)
  <2>1. \A i \in DOMAIN rest :
          Stamped(rest[i].row) /\ approval[rest[i].approval] # NoApproval
    BY <1>2, <1>3, EventAt
  <2>2. /\ line.phase = "open" /\ line.since \in 0..stamps + 1 /\ begun'
        /\ rest \in Seq([approval : Approvals, row : Rulable])
    BY <1>1, <1>2, <1>3 DEF LineTyped
  <2> HIDE DEF rest
  <2>3. /\ line'.phase = line.phase /\ line'.since = line.since /\ line'.wire = rest
        /\ line' = [phase |-> line'.phase, since |-> line'.since, wire |-> line'.wire]
    BY <1>4 DEF rest
  <2> QED
    BY <1>1, <2>1, <2>2, <2>3, LineMade
<1> HIDE DEF event
<1>7. list' = [a \in Approvals |-> IF a = b THEN event.row ELSE list[a]]
  BY <1>1, <1>3 DEF ApprovalsInv, RowsTyped
<1>8. RowsTyped'
  BY <1>1, <1>3, <1>5, <1>7 DEF ApprovalsInv, RowsTyped
<1>9. badge' = [a \in Approvals |->
                  IF a # b \/ badge[a] = "none" THEN badge[a]
                  ELSE IF event.row.status = "pending" THEN "pending" ELSE "clear"]
  BY <1>1, <1>3 DEF ApprovalsInv, CardsTyped
<1>10. CardsTyped'
  BY <1>1, <1>9 DEF ApprovalsInv, CardsTyped
<1>11. ASSUME line'.phase = "open", ListKeepsUp' PROVE WireSound' /\ NothingMissed'
  <2>1. WireSound /\ NothingMissed
    BY <1>1, <1>4, <1>11 DEF ApprovalsInv, ListKeepsUp
  <2>2. Past(line.since)' = Past(line.since)
    BY <1>1, <1>4 DEF Past, UpdatedAt
  <2>3. WireSound'
    BY <1>1, <1>2, <1>4, <2>1, <2>2 DEF WireSound
  <2>4. ASSUME NEW a \in Past(line.since), a = b PROVE UpToDate(a)'
    <3>1. event.row = approval[b]
      BY <1>2, <2>1, <2>4 DEF WireSound, event
    <3>2. list'[a] = approval'[a]
      BY <1>1, <1>3, <1>7, <2>4, <3>1
    <3>3. badge'[a] \in {"none", Badge(a)'}
      BY <1>1, <1>3, <1>9, <2>4, <3>1 DEF Badge, Waiting
    <3> QED
      BY <3>2, <3>3 DEF UpToDate, IsShown
  <2>5. ASSUME NEW a \in Past(line.since), a # b PROVE OnWire(a)' \/ UpToDate(a)'
    <3>1. a \in Approvals /\ (OnWire(a) \/ UpToDate(a))
      BY <2>1 DEF NothingMissed, Past
    <3>2. CASE OnWire(a)
      <4>1. PICK i \in DOMAIN line.wire : line.wire[i].approval = a
        BY <3>2 DEF OnWire
      <4>2. i # 1
        BY <1>2, <2>5, <4>1
      <4> QED
        BY <1>2, <1>4, <4>1, <4>2 DEF OnWire
    <3>3. CASE UpToDate(a)
      BY <1>1, <1>7, <1>9, <2>5, <3>1, <3>3 DEF UpToDate, IsShown, Badge, Waiting
    <3> QED
      BY <3>1, <3>2, <3>3
  <2> QED
    BY <2>2, <2>3, <2>4, <2>5 DEF NothingMissed
<1> QED
  BY <1>1, <1>6, <1>8, <1>10, <1>11 DEF ApprovalsInv

(* A connection that breaks has no events. *)
LEMMA BreakStep ==
    ASSUME ApprovalsInv, LineBreaks
    PROVE  ApprovalsInv'
<1>1. /\ line.phase \in {"asked", "open"} /\ line' = [phase |-> "waiting", since |-> 0, wire |-> <<>>]
      /\ UNCHANGED <<approval, stamps, writes, answers, begun, list, badge, updating, shifts, marred>>
  BY DEF LineBreaks, NoLine, rowVars, pageVars, shiftVars
<1>2. \A r : Stamped(r) => Stamped(r)'
  BY <1>1 DEF Stamped
<1>3. RowsTyped' /\ CardsTyped'
  BY <1>1, <1>2 DEF ApprovalsInv, RowsTyped, CardsTyped
<1>4. LineTyped'
  BY <1>1 DEF LineTyped, ApprovalsInv, RowsTyped
<1> QED
  BY <1>1, <1>3, <1>4 DEF ApprovalsInv

(* Every step of the page, its stream and the other users. *)
LEMMA NextApprovals == ApprovalsInv /\ [ApprovalsNext]_approvalsVars => ApprovalsInv'
<1> SUFFICES ASSUME ApprovalsInv, [ApprovalsNext]_approvalsVars PROVE ApprovalsInv'
  OBVIOUS
<1>1. CASE UNCHANGED approvalsVars
  <2>1. /\ UNCHANGED <<approval, stamps, writes, answers, begun, list, badge, updating, line>>
        /\ UNCHANGED <<shifts, marred>>
    BY <1>1 DEF approvalsVars, rowVars, pageVars, shiftVars
  <2>2. \A r : Stamped(r) => Stamped(r)'
    BY <2>1 DEF Stamped
  <2>3. RowsTyped' /\ CardsTyped' /\ LineTyped'
    BY <2>1, <2>2, LineStays DEF ApprovalsInv, RowsTyped, CardsTyped
  <2> QED
    BY <2>1, <2>3, CurrentStays DEF ApprovalsInv
<1>2. CASE ApprovalsNext
  BY <1>2, RequestStep, CommitStep, SnapshotStep, AnswerStep, CardStep, ConnectStep,
     AcceptStep, PollStep, EventStep, BreakStep DEF ApprovalsNext, ApprovalsServer, ApprovalsPage
<1> QED
  BY <1>1, <1>2

(* The inductive invariant of the approvals. *)
LEMMA ApprovalsInvariance == ApprovalsSpec => []ApprovalsInv
  BY InitApprovals, NextApprovals, PTL DEF ApprovalsSpec

(* Rows, requests, counts and the position of the stream keep their types; *)
(* a position is never beyond the next stamp.                              *)
THEOREM ApprovalsTyped == ApprovalsSpec => []ApprovalsTypeOK
<1>1. ApprovalsInv => ApprovalsTypeOK
  BY DEF ApprovalsInv, RowsTyped, CardsTyped, LineTyped, Stamped, Rulable, ApprovalsTypeOK,
         ApprovalRows
<1> QED
  BY <1>1, ApprovalsInvariance, PTL

(* What the stream will not look at again is shown as it is, unless one of *)
(* the five named things happened; for any number of approvals, requests,  *)
(* moves and broken connections (approvals.py _fetch_approval_events,      *)
(* page.tsx).                                                              *)
THEOREM StreamedApprovalsAreCurrent == ApprovalsSpec => []ApprovalsAreCurrent
<1>1. ApprovalsInv => ApprovalsAreCurrent
  <2> SUFFICES ASSUME ApprovalsInv, line.phase = "open", line.wire = <<>>,
                      NEW a \in Past(line.since), ListKeepsUp
               PROVE  UpToDate(a)
    BY DEF ApprovalsAreCurrent, ListKeepsUp, UpToDate
  <2> QED
    BY DEF ApprovalsInv, NothingMissed, OnWire
<1> QED
  BY <1>1, ApprovalsInvariance, PTL

-----------------------------------------------------------------------------
(***************************************************************************)
(* The cards of the board page.  A card that is not as its row is owed an  *)
(* event: one that a handler has still to store, one that the stream has   *)
(* still to send, or one on its way with the row as it is.                 *)
(***************************************************************************)
(* A row, and a card, of a log of n events. *)
RowBy(n) == [version : Nat, at : 1..n + 1]
CardBy(n) == [version : Nat, at : 1..n + 1, moved : Nat]

(* A list of cards of tasks that exist. *)
CardList(cs, n) ==
    /\ cs = [t \in Tasks |-> cs[t]]
    /\ \A t \in Tasks : cs[t] # NoRow => cs[t] \in CardBy(n) /\ row[t] # NoRow

(* A move, with the list of before and the version it has written. *)
MoveTyped(m) ==
    /\ m = [id |-> m.id, task |-> m.task, previous |-> m.previous, version |-> m.version,
            at |-> m.at, done |-> m.done]
    /\ m.task \in Tasks /\ row[m.task] # NoRow /\ m.version \in 0..row[m.task].version
    /\ m.at \in 1..Len(log) + 1
    /\ CardList(m.previous, Len(log))
    /\ m.done => m.version # 0

(* A handler, and the event that it has stamped and not yet stored. *)
HandlerTyped(h) ==
    /\ h = [version |-> h.version, task |-> h.task, event |-> h.event]
    /\ h.version \in Nat \ {0} /\ h.task \in Tasks /\ row[h.task] # NoRow
    /\ h.event \in 0..Len(log)
    /\ h.event # 0 => log[h.event].task = h.task /\ ~ log[h.event].stored

(* Rows, and the log of their events. *)
RowsOk ==
    /\ changes \in Nat /\ row = [t \in Tasks |-> row[t]]
    /\ \A t \in Tasks : row[t] # NoRow => row[t] \in RowBy(Len(log)) /\ row[t].version <= changes

(* An event is of a task that has a row. *)
LogOk ==
    /\ log \in Seq([task : Tasks, stored : BOOLEAN])
    /\ \A e \in DOMAIN log : row[log[e].task] # NoRow

(* Handlers have an event of their own each. *)
HandlersOk ==
    /\ \A h \in handlers : HandlerTyped(h)
    /\ \A h, o \in handlers : h.event # 0 /\ h.event = o.event => h = o

(* The page shows no card before it has its snapshot. *)
PageOk ==
    /\ dragged \in Nat /\ CardList(cards, Len(log))
    /\ \A m \in moves : MoveTyped(m)
    /\ ~loaded => moves = {} /\ \A t \in Tasks : cards[t] = NoRow

(* The connection, which has sent only what was stored. *)
FeedOk ==
    /\ feed = [phase |-> feed.phase, since |-> feed.since, seen |-> feed.seen,
               wire |-> feed.wire]
    /\ feed.since \in Nat
    /\ \A e \in feed.seen : e \in DOMAIN log /\ log[e].stored
    /\ feed.phase # "open" => feed.wire = <<>> /\ feed.seen = {}
    /\ feed.phase # "off" => loaded
    /\ feed.wire \in Seq([task : Tasks, row : [version : Nat, at : Nat]])
    /\ \A i \in DOMAIN feed.wire :
          /\ feed.wire[i].row \in RowBy(Len(log))
          /\ \E e \in DOMAIN log : log[e].task = feed.wire[i].task /\ log[e].stored

(* What rows, log, handlers, page and stream hold. *)
BoardTables == RowsOk /\ LogOk /\ HandlersOk /\ PageOk /\ FeedOk

(* An event for the task is still to be stored or sent. *)
IsDue(t) ==
    \/ \E h \in handlers : h.task = t
    \/ \E e \in DOMAIN log :
          /\ log[e].task = t /\ log[e].stored
          /\ feed.phase = "open" => e >= feed.since /\ e \notin feed.seen

(* An event with the row as it is is on its way. *)
Brings(t) == \E i \in DOMAIN feed.wire : feed.wire[i].task = t /\ feed.wire[i].row = row[t]

(* An event on its way with an older row is followed by another. *)
WireFollowed ==
    \A i \in DOMAIN feed.wire :
        feed.wire[i].row = row[feed.wire[i].task] \/ IsDue(feed.wire[i].task)

(* A failed move puts no card back that is gone. *)
CardsRemain == \A m \in moves, t \in Tasks : m.previous[t] # NoRow => cards[t] # NoRow

(* A card out of step is owed an event, or one is on its way. *)
CardsFollow ==
    loaded /\ reasons \subseteq {"overlap"} =>
        /\ WireFollowed /\ CardsRemain
        /\ \A t \in Tasks : Current(t) \/ IsDue(t) \/ Brings(t)

(* One move at a time, whose card alone shows it. *)
MovesEnd ==
    reasons = {} =>
        /\ \A m, n \in moves : m = n
        /\ \A t \in Tasks : cards[t] # NoRow /\ cards[t].moved # 0 => \E m \in moves : m.task = t
        /\ \A m \in moves, t \in Tasks : m.previous[t] # NoRow => m.previous[t].moved = 0

(* The inductive invariant of the cards. *)
CardsInv == BoardTables /\ CardsFollow /\ MovesEnd

(* Rows are not deleted and their versions rise; events stay in the log.   *)
RowsGrow ==
    /\ Len(log) \in Nat /\ Len(log') \in Nat /\ Len(log) <= Len(log')
    /\ \A t \in Tasks : row[t] # NoRow =>
          /\ row'[t] # NoRow
          /\ row[t].version \in Nat /\ row'[t].version \in Nat
          /\ row[t].version <= row'[t].version
    /\ \A e \in DOMAIN log : /\ e \in DOMAIN log' /\ log'[e].task = log[e].task
                             /\ log[e].stored => log'[e].stored

(* An event in the log. *)
LEMMA LogAt ==
    ASSUME LogOk
    PROVE  /\ Len(log) \in Nat /\ DOMAIN log = 1..Len(log)
           /\ \A e \in DOMAIN log : /\ e \in Nat /\ log[e].task \in Tasks /\ log[e].stored \in BOOLEAN
                                    /\ log[e] = [task |-> log[e].task, stored |-> log[e].stored]
                                    /\ row[log[e].task] # NoRow
<1> DEFINE E == [task : Tasks, stored : BOOLEAN]
<1>1. log \in Seq(E)
  BY DEF LogOk
<1> HIDE DEF E
<1>2. Len(log) \in Nat /\ DOMAIN log = 1..Len(log) /\ \A e \in DOMAIN log : log[e] \in E
  BY <1>1
<1> QED
  BY <1>2 DEF LogOk, E

(* When nothing is written, rows and events grow trivially. *)
LEMMA NothingGrows ==
    ASSUME RowsOk, LogOk, UNCHANGED <<row, log>>
    PROVE  RowsGrow
  BY LogAt DEF RowsOk, RowsGrow, RowBy

(* Lists of cards, moves, the page and the stream outlive what is stored later. *)
LEMMA CardListLater ==
    ASSUME RowsGrow, NEW cs, CardList(cs, Len(log))
    PROVE  /\ cs = [t \in Tasks |-> cs[t]]
           /\ \A t \in Tasks : cs[t] # NoRow => cs[t] \in CardBy(Len(log')) /\ row'[t] # NoRow
<1>1. ASSUME NEW t \in Tasks, cs[t] # NoRow PROVE cs[t] \in CardBy(Len(log')) /\ row'[t] # NoRow
  <2>1. cs[t] \in CardBy(Len(log)) /\ row[t] # NoRow
    BY <1>1 DEF CardList
  <2>2. 1..Len(log) + 1 \subseteq 1..Len(log') + 1
    BY DEF RowsGrow
  <2> QED
    BY <2>1, <2>2 DEF CardBy, RowsGrow
<1> QED
  BY <1>1 DEF CardList

(* So does the list that a move would put back. *)
LEMMA MoveLater ==
    ASSUME RowsGrow, NEW m, MoveTyped(m)
    PROVE  MoveTyped(m)'
<1>1. CardList(m.previous, Len(log))'
  BY CardListLater DEF MoveTyped, CardList
<1>2. m.version \in 0..row'[m.task].version /\ row'[m.task] # NoRow
  BY DEF MoveTyped, RowsGrow
<1>3. m.at \in 1..Len(log') + 1
  BY DEF MoveTyped, RowsGrow
<1> QED
  BY <1>1, <1>2, <1>3 DEF MoveTyped

(* So does the page. *)
LEMMA PageStays ==
    ASSUME PageOk, RowsGrow, UNCHANGED <<dragged, cards, moves, loaded>>
    PROVE  PageOk'
<1>1. CardList(cards, Len(log))'
  BY CardListLater DEF PageOk, CardList
<1>2. \A m \in moves' : MoveTyped(m)'
  BY MoveLater DEF PageOk
<1> QED
  BY <1>1, <1>2 DEF PageOk

(* So does what is on the wire. *)
LEMMA FeedStays ==
    ASSUME FeedOk, RowsGrow, UNCHANGED <<feed, loaded>>
    PROVE  FeedOk'
<1>1. ASSUME NEW i \in DOMAIN feed.wire
      PROVE  /\ feed.wire[i].row \in RowBy(Len(log'))
             /\ \E e \in DOMAIN log' : log'[e].task = feed.wire[i].task /\ log'[e].stored
  <2>1. feed.wire[i].row \in RowBy(Len(log))
    BY <1>1 DEF FeedOk
  <2>2. 1..Len(log) + 1 \subseteq 1..Len(log') + 1
    BY DEF RowsGrow
  <2>3. PICK e \in DOMAIN log : log[e].task = feed.wire[i].task /\ log[e].stored
    BY <1>1 DEF FeedOk
  <2>4. feed.wire[i].row \in RowBy(Len(log'))
    BY <2>1, <2>2 DEF RowBy
  <2> QED
    BY <2>3, <2>4 DEF RowsGrow
<1>2. \A e \in feed.seen : e \in DOMAIN log' /\ log'[e].stored
  BY DEF FeedOk, RowsGrow
<1>3. /\ feed' = feed
      /\ feed.since \in Nat
      /\ feed.phase # "open" => feed.wire = <<>> /\ feed.seen = {}
      /\ feed.phase # "off" => loaded
      /\ feed.wire \in Seq([task : Tasks, row : [version : Nat, at : Nat]])
      /\ feed = [phase |-> feed.phase, since |-> feed.since, seen |-> feed.seen, wire |-> feed.wire]
  BY DEF FeedOk
<1> QED
  BY <1>1, <1>2, <1>3 DEF FeedOk

(* A handler that its step leaves alone. *)
LEMMA HandlerLater ==
    ASSUME RowsGrow, NEW h, HandlerTyped(h),
           h.event # 0 => log'[h.event].task = log[h.event].task
                          /\ (log[h.event].stored <=> log'[h.event].stored)
    PROVE  HandlerTyped(h)'
<1>1. h.event \in 0..Len(log') /\ row'[h.task] # NoRow
  BY DEF HandlerTyped, RowsGrow
<1> QED
  BY <1>1 DEF HandlerTyped

(* A step of neither page nor server. *)
LEMMA RowsStayOk ==
    ASSUME RowsOk, LogOk, HandlersOk, UNCHANGED <<row, changes, handlers, log>>
    PROVE  RowsOk' /\ LogOk' /\ HandlersOk'
<1>1. RowsOk' /\ LogOk'
  BY DEF RowsOk, LogOk
<1>2. HandlersOk'
  BY DEF HandlersOk, HandlerTyped
<1> QED
  BY <1>1, <1>2

(* A task's row is written, by a handler that has an event to store.       *)
LEMMA WriteOk ==
    ASSUME RowsOk, LogOk, HandlersOk, NEW t \in Tasks, Write(t), UNCHANGED log
    PROVE  /\ RowsOk' /\ LogOk' /\ HandlersOk' /\ RowsGrow
           /\ row' = [o \in Tasks |-> IF o = t THEN [version |-> changes + 1, at |-> Len(log) + 1]
                                      ELSE row[o]]
           /\ changes' = changes + 1 /\ changes \in Nat
           /\ \E h \in handlers' : h.task = t
           /\ handlers \subseteq handlers'
<1> DEFINE new == [version |-> changes + 1, at |-> Len(log) + 1]
<1>0. PICK own : own = [version |-> changes + 1, task |-> t, event |-> 0]
  OBVIOUS
<1>1. /\ changes' = changes + 1 /\ changes \in Nat /\ handlers' = handlers \cup {own}
      /\ row' = [o \in Tasks |-> IF o = t THEN new ELSE row[o]]
  BY <1>0 DEF Write, RowsOk
<1>2. Len(log) \in Nat
  BY LogAt
<1>3. new \in RowBy(Len(log)) /\ new # NoRow /\ new.version = changes + 1
  <2>1. new \in RowBy(Len(log))
    BY <1>1, <1>2 DEF RowBy
  <2>2. new \in [version : Nat, at : Nat]
    BY <1>1, <1>2
  <2> QED
    BY <2>1, <2>2, CardsAssumption
<1>4. RowsOk'
  <2>1. ASSUME NEW o \in Tasks, row'[o] # NoRow
        PROVE  row'[o] \in RowBy(Len(log)) /\ row'[o].version <= changes + 1
    <3>1. CASE o = t
      BY <1>1, <1>3, <3>1
    <3>2. CASE o # t
      BY <1>1, <2>1, <3>2 DEF RowsOk, RowBy
    <3> QED
      BY <3>1, <3>2
  <2> QED
    BY <1>1, <2>1 DEF RowsOk
<1>5. RowsGrow
  <2>1. ASSUME NEW o \in Tasks, row[o] # NoRow
        PROVE  /\ row'[o] # NoRow
               /\ row[o].version \in Nat /\ row'[o].version \in Nat
               /\ row[o].version <= row'[o].version
    <3>1. row[o].version \in Nat /\ row[o].version <= changes
      BY <2>1 DEF RowsOk, RowBy
    <3> HIDE DEF new
    <3>2. row'[o] = IF o = t THEN new ELSE row[o]
      BY <1>1
    <3> QED
      BY <1>1, <1>3, <2>1, <3>1, <3>2
  <2> QED
    BY <1>2, <2>1 DEF RowsGrow
<1>6. LogOk'
  BY <1>5, LogAt DEF LogOk, RowsGrow
<1>7. HandlersOk'
  <2>1. HandlerTyped(own)'
    BY <1>0, <1>1, <1>2, <1>3 DEF HandlerTyped
  <2>2. \A o \in handlers : HandlerTyped(o)'
    BY <1>5, HandlerLater DEF HandlersOk
  <2>3. own.event = 0 /\ \A o \in handlers' : o = own \/ o \in handlers
    BY <1>0, <1>1
  <2>4. \A o, p \in handlers' : o.event # 0 /\ o.event = p.event => o = p
    BY <2>3 DEF HandlersOk
  <2>5. \A o \in handlers' : HandlerTyped(o)'
    BY <2>1, <2>2, <2>3
  <2> QED
    BY <2>4, <2>5 DEF HandlersOk
<1>8. own \in handlers' /\ own.task = t /\ handlers \subseteq handlers'
  BY <1>0, <1>1
<1>9. \E h \in handlers' : h.task = t
  BY <1>8
<1> QED
  BY <1>1, <1>4, <1>5, <1>6, <1>7, <1>8, <1>9

(* A step that brings no task out of step with its card. *)
LEMMA FollowStays ==
    ASSUME CardsFollow, UNCHANGED <<row, cards, loaded>>, feed'.wire = feed.wire,
           reasons \subseteq reasons',
           \A m \in moves' : \E n \in moves : m.previous = n.previous,
           reasons' \subseteq {"overlap"} => \A t : IsDue(t) => IsDue(t)'
    PROVE  CardsFollow'
<1> SUFFICES ASSUME loaded', reasons' \subseteq {"overlap"}
             PROVE  /\ WireFollowed' /\ CardsRemain'
                    /\ \A t \in Tasks : Current(t)' \/ IsDue(t)' \/ Brings(t)'
  BY DEF CardsFollow
<1>1. /\ WireFollowed /\ CardsRemain
      /\ \A t \in Tasks : Current(t) \/ IsDue(t) \/ Brings(t)
  BY DEF CardsFollow
<1>2. WireFollowed'
  BY <1>1 DEF WireFollowed
<1>3. CardsRemain'
  BY <1>1 DEF CardsRemain
<1>4. ASSUME NEW t \in Tasks PROVE Current(t)' \/ IsDue(t)' \/ Brings(t)'
  <2>1. CASE Current(t)
    BY <2>1 DEF Current
  <2>2. CASE Brings(t)
    BY <2>2 DEF Brings
  <2> QED
    BY <1>1, <2>1, <2>2
<1> QED
  BY <1>2, <1>3, <1>4

(* A step that moves no card. *)
LEMMA MovesStay ==
    ASSUME MovesEnd, UNCHANGED <<cards, moves>>, reasons \subseteq reasons'
    PROVE  MovesEnd'
  BY DEF MovesEnd

(* A write leaves every task but its own as it was, and its own is due.    *)
LEMMA WriteFollows ==
    ASSUME CardsInv, NEW t \in Tasks, Write(t), UNCHANGED <<log, cards, loaded, feed, reasons>>,
           \A m \in moves' : \E n \in moves : m.previous = n.previous
    PROVE  CardsFollow'
<1> SUFFICES ASSUME loaded', reasons' \subseteq {"overlap"}
             PROVE  /\ WireFollowed' /\ CardsRemain'
                    /\ \A o \in Tasks : Current(o)' \/ IsDue(o)' \/ Brings(o)'
  BY DEF CardsFollow
<1>1. /\ WireFollowed /\ CardsRemain
      /\ \A o \in Tasks : Current(o) \/ IsDue(o) \/ Brings(o)
  BY DEF CardsFollow, CardsInv
<1>2. /\ handlers \subseteq handlers' /\ \E h \in handlers' : h.task = t
      /\ \A o \in Tasks : o # t => row'[o] = row[o]
  BY WriteOk DEF CardsInv, BoardTables
<1>3. \A o : IsDue(o) => IsDue(o)'
  BY <1>2 DEF IsDue
<1>4. IsDue(t)'
  BY <1>2 DEF IsDue
<1>5. \A i \in DOMAIN feed.wire : feed.wire[i].task \in Tasks
  <2> DEFINE E == [task : Tasks, row : [version : Nat, at : Nat]]
  <2>1. feed.wire \in Seq(E)
    BY DEF CardsInv, BoardTables, FeedOk
  <2> HIDE DEF E
  <2>2. \A i \in DOMAIN feed.wire : feed.wire[i] \in E
    BY <2>1
  <2> QED
    BY <2>2 DEF E
<1>6. WireFollowed'
  BY <1>1, <1>2, <1>3, <1>4, <1>5 DEF WireFollowed
<1>7. CardsRemain'
  BY <1>1 DEF CardsRemain
<1>8. ASSUME NEW o \in Tasks, o # t PROVE Current(o)' \/ IsDue(o)' \/ Brings(o)'
  <2>1. CASE Current(o)
    BY <1>2, <1>8, <2>1 DEF Current
  <2>2. CASE Brings(o)
    BY <1>2, <1>8, <2>2 DEF Brings
  <2> QED
    BY <1>1, <1>3, <2>1, <2>2
<1> QED
  BY <1>4, <1>6, <1>7, <1>8

(* Another user stores a change, and its handler has still to log it. *)
LEMMA OthersWriteStep ==
    ASSUME CardsInv, OthersWrite
    PROVE  CardsInv'
<1>1. PICK t \in Tasks : Write(t)
  BY DEF OthersWrite
<1>2. UNCHANGED <<log, cards, loaded, moves, dragged, feed, reasons>>
  BY DEF OthersWrite, moveVars
<1>3. RowsOk' /\ LogOk' /\ HandlersOk' /\ RowsGrow
  BY <1>1, <1>2, WriteOk DEF CardsInv, BoardTables
<1>4. PageOk' /\ FeedOk'
  BY <1>2, <1>3, PageStays, FeedStays DEF CardsInv, BoardTables
<1>5. CardsFollow' /\ MovesEnd'
  BY <1>1, <1>2, WriteFollows, MovesStay DEF CardsInv
<1> QED
  BY <1>3, <1>4, <1>5 DEF CardsInv, BoardTables

(* A handler takes the place of its event in the log. *)
LEMMA StampedStep ==
    ASSUME CardsInv, EventStamped
    PROVE  CardsInv'
<1>1. PICK h \in handlers :
        /\ h.event = 0
        /\ log' = Append(log, [task |-> h.task, stored |-> FALSE])
        /\ handlers' = (handlers \ {h}) \cup {[h EXCEPT !.event = Len(log')]}
  BY DEF EventStamped
<1>2. UNCHANGED <<row, changes, cards, loaded, moves, dragged, feed, reasons>>
  BY DEF EventStamped, moveVars
<1> DEFINE E == [task : Tasks, stored : BOOLEAN]
           event == [task |-> h.task, stored |-> FALSE]
<1>3. HandlerTyped(h) /\ LogOk /\ RowsOk
  BY DEF CardsInv, BoardTables, HandlersOk
<1>4. /\ log' \in Seq(E) /\ Len(log') = Len(log) + 1 /\ Len(log) \in Nat
      /\ DOMAIN log = 1..Len(log) /\ DOMAIN log' = 1..Len(log) + 1
      /\ \A e \in DOMAIN log : log'[e] = log[e]
      /\ log'[Len(log) + 1] = event
  <2>1. log \in Seq(E) /\ event \in E
    BY <1>3 DEF LogOk, HandlerTyped
  <2> HIDE DEF E, event
  <2>2. log' = Append(log, event)
    BY <1>1 DEF event
  <2> QED
    BY <2>1, <2>2
<1>5. RowsGrow
  BY <1>2, <1>3, <1>4 DEF RowsGrow, RowsOk, RowBy
<1>6. RowsOk'
  <2>1. 1..Len(log) + 1 \subseteq 1..Len(log') + 1
    BY <1>4
  <2> QED
    BY <1>2, <1>3, <2>1 DEF RowsOk, RowBy
<1>7. LogOk'
  BY <1>2, <1>3, <1>4 DEF LogOk, HandlerTyped
<1>0. PICK new : new = [version |-> h.version, task |-> h.task, event |-> Len(log) + 1]
  OBVIOUS
<1>8. handlers' = (handlers \ {h}) \cup {new}
  BY <1>0, <1>1, <1>3, <1>4 DEF HandlerTyped
<1>9. HandlersOk'
  <2>1. HandlerTyped(new)'
    BY <1>0, <1>2, <1>3, <1>4 DEF HandlerTyped
  <2>2. \A o \in handlers : HandlerTyped(o) /\ o.event \in 0..Len(log)
    BY DEF CardsInv, BoardTables, HandlersOk, HandlerTyped
  <2>3. \A o \in handlers : HandlerTyped(o)'
    BY <1>4, <1>5, <2>2, HandlerLater
  <2>4. new.event = Len(log) + 1
    BY <1>0
  <2>5. \A o, p \in handlers' : o.event # 0 /\ o.event = p.event => o = p
    BY <1>4, <1>8, <2>2, <2>4 DEF CardsInv, BoardTables, HandlersOk
  <2> QED
    BY <1>8, <2>1, <2>3, <2>5 DEF HandlersOk
<1>10. PageOk' /\ FeedOk'
  BY <1>2, <1>5, PageStays, FeedStays DEF CardsInv, BoardTables
<1>11. \A t : IsDue(t) => IsDue(t)'
  <2>1. new.task = h.task /\ new \in handlers'
    BY <1>0, <1>8
  <2>2. \A o \in handlers : \E p \in handlers' : p.task = o.task
    BY <1>8, <2>1
  <2>3. \A e \in DOMAIN log : e \in DOMAIN log' /\ log'[e] = log[e]
    BY <1>4
  <2> QED
    BY <1>2, <2>2, <2>3 DEF IsDue
<1>12. CardsFollow' /\ MovesEnd'
  BY <1>2, <1>11, FollowStays, MovesStay DEF CardsInv
<1> QED
  BY <1>6, <1>7, <1>9, <1>10, <1>12 DEF CardsInv, BoardTables

(* An event with another mark. *)
LEMMA EventMarked ==
    ASSUME NEW r, r = [task |-> r.task, stored |-> r.stored], NEW c
    PROVE  [r EXCEPT !.stored = c] = [task |-> r.task, stored |-> c]
  OBVIOUS

(* A move of a set in which the moves have been told of a handler's end. *)
LEMMA MoveTold ==
    ASSUME RowsGrow, NEW m, MoveTyped(m), NEW n, NEW v \in Nat \ {0},
           n = [m EXCEPT !.done = @ \/ m.version = v]
    PROVE  MoveTyped(n)' /\ n.previous = m.previous /\ n.task = m.task
<1>1. n = [id |-> m.id, task |-> m.task, previous |-> m.previous, version |-> m.version,
           at |-> m.at, done |-> (m.done \/ m.version = v)]
  BY DEF MoveTyped
<1>2. MoveTyped(m)'
  BY MoveLater
<1>3. /\ n = [id |-> n.id, task |-> n.task, previous |-> n.previous, version |-> n.version,
              at |-> n.at, done |-> n.done]
      /\ n.task = m.task /\ n.previous = m.previous /\ n.version = m.version /\ n.at = m.at
      /\ n.done = (m.done \/ m.version = v)
  BY <1>1
<1>4. n.done => n.version # 0
  BY <1>3 DEF MoveTyped
<1> QED
  BY <1>2, <1>3, <1>4 DEF MoveTyped

(* The event of a handler is stored: what it was due by, the stream owes.  *)
LEMMA StoredStep ==
    ASSUME CardsInv, EventStored
    PROVE  CardsInv'
<1>1. PICK h \in handlers :
        /\ h.event # 0
        /\ log' = [log EXCEPT ![h.event].stored = TRUE]
        /\ handlers' = handlers \ {h}
        /\ moves' = {[m EXCEPT !.done = @ \/ m.version = h.version] : m \in moves}
        /\ reasons' = IF h.event < feed.since
                      THEN reasons \cup {"inversion"} ELSE reasons
  BY DEF EventStored
<1>2. UNCHANGED <<row, changes, cards, loaded, dragged, feed>>
  BY DEF EventStored
<1>3. HandlerTyped(h) /\ LogOk /\ RowsOk /\ HandlersOk
  BY DEF CardsInv, BoardTables, HandlersOk
<1>4. /\ Len(log) \in Nat /\ DOMAIN log = 1..Len(log) /\ h.event \in DOMAIN log
      /\ log[h.event].task = h.task /\ ~ log[h.event].stored
      /\ h.version \in Nat \ {0}
  BY <1>1, <1>3, LogAt DEF HandlerTyped
<1>5. PICK event : event = [task |-> h.task, stored |-> TRUE]
  OBVIOUS
<1>6. /\ log' \in Seq([task : Tasks, stored : BOOLEAN])
      /\ Len(log') = Len(log) /\ DOMAIN log' = DOMAIN log
      /\ \A e \in DOMAIN log : log'[e] = IF e = h.event THEN event ELSE log[e]
  <2> DEFINE E == [task : Tasks, stored : BOOLEAN]
  <2>1. log \in Seq(E) /\ event \in E
    BY <1>3, <1>5 DEF LogOk, HandlerTyped
  <2>2. PICK old : old = log[h.event]
    OBVIOUS
  <2>3. old = [task |-> old.task, stored |-> old.stored] /\ old.task = h.task
    BY <1>3, <1>4, <2>2, LogAt
  <2>4. [old EXCEPT !.stored = TRUE] = event
    BY <1>5, <2>3, EventMarked
  <2>5. log' = [log EXCEPT ![h.event] = event]
    BY <1>1, <2>2, <2>4
  <2> HIDE DEF E
  <2>6. /\ log' \in Seq(E) /\ Len(log') = Len(log)
        /\ \A e \in 1..Len(log) : log'[e] = IF e = h.event THEN event ELSE log[e]
    BY <1>4, <2>1, <2>5, SeqPut
  <2>7. DOMAIN log' = 1..Len(log')
    BY <2>6
  <2> QED
    BY <1>4, <2>6, <2>7 DEF E
<1>7. /\ \A e \in DOMAIN log : log'[e].task = log[e].task /\ (log[e].stored => log'[e].stored)
      /\ log'[h.event].stored
  BY <1>4, <1>5, <1>6
<1>8. RowsGrow
  BY <1>2, <1>3, <1>4, <1>6, <1>7 DEF RowsGrow, RowsOk, RowBy
<1>9. RowsOk' /\ LogOk'
  BY <1>2, <1>3, <1>6, <1>7 DEF RowsOk, LogOk
<1>10. HandlersOk'
  <2>1. ASSUME NEW o \in handlers' PROVE HandlerTyped(o)'
    <3>1. o \in handlers /\ HandlerTyped(o) /\ (o.event # 0 => o.event # h.event)
      BY <1>1, <1>3 DEF HandlersOk
    <3>2. o.event # 0 => o.event \in DOMAIN log
      BY <1>4, <3>1 DEF HandlerTyped
    <3>3. o.event # 0 => log'[o.event] = log[o.event]
      BY <1>6, <3>1, <3>2
    <3> QED
      BY <1>8, <3>1, <3>3, HandlerLater
  <2> QED
    BY <1>1, <1>3, <2>1 DEF HandlersOk
<1>11. \A n \in moves' : \E m \in moves : /\ MoveTyped(n)' /\ n.previous = m.previous
                                          /\ n.task = m.task
  BY <1>1, <1>4, <1>8, MoveTold DEF CardsInv, BoardTables, PageOk
<1>12. PageOk'
  <2>1. CardList(cards, Len(log))'
    BY <1>2, <1>8, CardListLater DEF CardsInv, BoardTables, PageOk, CardList
  <2> QED
    BY <1>1, <1>2, <1>11, <2>1 DEF CardsInv, BoardTables, PageOk
<1>13. FeedOk'
  BY <1>2, <1>8, FeedStays DEF CardsInv, BoardTables
<1>14. reasons \subseteq reasons'
  BY <1>1
<1>15. ASSUME reasons' \subseteq {"overlap"}, NEW t, IsDue(t) PROVE IsDue(t)'
  <2>1. ~ h.event < feed.since
    BY <1>1, <1>15
  <2>2. h.event >= feed.since /\ h.event \notin feed.seen
    BY <1>4, <2>1 DEF CardsInv, BoardTables, FeedOk
  <2>3. t = h.task => IsDue(t)'
    BY <1>2, <1>4, <1>6, <1>7, <2>2 DEF IsDue
  <2>4. CASE \E o \in handlers : o.task = t /\ o # h
    BY <1>1, <2>4 DEF IsDue
  <2>5. CASE \E e \in DOMAIN log :
              /\ log[e].task = t /\ log[e].stored
              /\ feed.phase = "open" => e >= feed.since /\ e \notin feed.seen
    BY <1>2, <1>6, <1>7, <2>5 DEF IsDue
  <2> QED
    BY <1>15, <2>3, <2>4, <2>5 DEF IsDue
<1>16. CardsFollow'
  BY <1>2, <1>11, <1>14, <1>15, FollowStays DEF CardsInv
<1>17. MovesEnd'
  <2> SUFFICES ASSUME reasons' = {} PROVE
        /\ \A m, n \in moves' : m = n
        /\ \A t \in Tasks : cards[t] # NoRow /\ cards[t].moved # 0 => \E m \in moves' : m.task = t
        /\ \A m \in moves', t \in Tasks : m.previous[t] # NoRow => m.previous[t].moved = 0
    BY <1>2 DEF MovesEnd
  <2>1. reasons = {}
    BY <1>14
  <2>2. /\ \A m, n \in moves : m = n
        /\ \A t \in Tasks : cards[t] # NoRow /\ cards[t].moved # 0 => \E m \in moves : m.task = t
        /\ \A m \in moves, t \in Tasks : m.previous[t] # NoRow => m.previous[t].moved = 0
    BY <2>1 DEF CardsInv, MovesEnd
  <2>3. \A m, n \in moves' : m = n
    BY <1>1, <2>2
  <2>4. \A m \in moves : \E n \in moves' : n.task = m.task
    <3> SUFFICES ASSUME NEW m \in moves PROVE \E n \in moves' : n.task = m.task
      OBVIOUS
    <3>1. PICK n : n = [m EXCEPT !.done = @ \/ m.version = h.version]
      OBVIOUS
    <3>2. n \in moves' /\ MoveTyped(m)
      BY <1>1, <3>1 DEF CardsInv, BoardTables, PageOk
    <3>3. n.task = m.task
      BY <1>4, <1>8, <3>1, <3>2, MoveTold
    <3> QED
      BY <3>2, <3>3
  <2> QED
    BY <1>11, <2>2, <2>3, <2>4
<1> QED
  BY <1>9, <1>10, <1>12, <1>13, <1>16, <1>17 DEF CardsInv, BoardTables

(* The request dies; the page is known to miss what it was to be told.     *)
LEMMA DiesStep ==
    ASSUME CardsInv, HandlerDies
    PROVE  CardsInv'
<1>1. PICK h \in handlers : handlers' = handlers \ {h}
  BY DEF HandlerDies
<1>2. /\ UNCHANGED <<row, changes, log, cards, loaded, moves, dragged, feed>>
      /\ "untold" \in reasons'
  BY DEF HandlerDies, moveVars
<1>3. RowsOk' /\ LogOk' /\ RowsGrow
  BY <1>2, NothingGrows DEF CardsInv, BoardTables, RowsOk, LogOk
<1>4. HandlersOk'
  BY <1>1, <1>2 DEF CardsInv, BoardTables, HandlersOk, HandlerTyped
<1>5. PageOk' /\ FeedOk'
  BY <1>2, <1>3, PageStays, FeedStays DEF CardsInv, BoardTables
<1>6. CardsFollow' /\ MovesEnd'
  BY <1>2 DEF CardsFollow, MovesEnd
<1> QED
  BY <1>3, <1>4, <1>5, <1>6 DEF CardsInv, BoardTables

(* The snapshot shows every row.                                           *)
LEMMA LoadStep ==
    ASSUME CardsInv, LoadBoard
    PROVE  CardsInv'
<1>1. /\ ~ loaded /\ loaded'
      /\ cards' = [t \in Tasks |-> IF row[t] = NoRow THEN NoRow ELSE Shown(row[t])]
      /\ UNCHANGED <<row, changes, handlers, log, moves, dragged, feed, reasons>>
  BY DEF LoadBoard, serverVars, moveVars
<1>2. RowsOk' /\ LogOk' /\ HandlersOk' /\ RowsGrow
  BY <1>1, RowsStayOk, NothingGrows DEF CardsInv, BoardTables
<1>3. moves = {} /\ feed.phase = "off" /\ feed.wire = <<>>
  BY <1>1 DEF CardsInv, BoardTables, PageOk, FeedOk
<1>4. ASSUME NEW t \in Tasks
      PROVE  /\ cards'[t] # NoRow => cards'[t] \in CardBy(Len(log)) /\ row[t] # NoRow
             /\ Current(t)'
             /\ cards'[t] # NoRow => cards'[t].moved = 0
  <2>1. CASE row[t] = NoRow
    BY <1>1, <2>1 DEF Current
  <2>2. CASE row[t] # NoRow
    <3>1. row[t] \in RowBy(Len(log))
      BY <2>2 DEF CardsInv, BoardTables, RowsOk
    <3>2. PICK card : card = [version |-> row[t].version, at |-> row[t].at, moved |-> 0]
      OBVIOUS
    <3>3. cards'[t] = card
      BY <1>1, <2>2, <3>2 DEF Shown
    <3>4. LogOk /\ Len(log) \in Nat
      BY LogAt DEF CardsInv, BoardTables
    <3>5. card \in CardBy(Len(log)) /\ card \in [version : Nat, at : Nat, moved : Nat]
      BY <3>1, <3>2, <3>4 DEF RowBy, CardBy
    <3>6. card # NoRow
      BY <3>5, CardsAssumption
    <3> QED
      BY <1>1, <2>2, <3>2, <3>3, <3>5, <3>6 DEF Current
  <2> QED
    BY <2>1, <2>2
<1>5. PageOk'
  <2>1. cards' = [t \in Tasks |-> cards'[t]]
    BY <1>1
  <2> QED
    BY <1>1, <1>3, <1>4, <2>1 DEF CardsInv, BoardTables, PageOk, CardList
<1>6. FeedOk'
  BY <1>1, <1>3 DEF CardsInv, BoardTables, FeedOk
<1>7. CardsFollow'
  BY <1>1, <1>3, <1>4 DEF CardsFollow, WireFollowed, CardsRemain
<1>8. MovesEnd'
  BY <1>1, <1>3, <1>4 DEF MovesEnd
<1> QED
  BY <1>2, <1>5, <1>6, <1>7, <1>8 DEF CardsInv, BoardTables

(* No event of the stream is one of those. *)
LEMMA NoRowEvents ==
    /\ <<>> \in Seq([task : Tasks, row : [version : Nat, at : Nat]])
    /\ \A i \in DOMAIN <<>> : FALSE
  OBVIOUS

(* A connection on which nothing has been sent. *)
LEMMA FeedMade ==
    ASSUME NEW phase, NEW since \in Nat, loaded', 
           feed' = [phase |-> phase, since |-> since, seen |-> {}, wire |-> <<>>]
    PROVE  FeedOk' /\ feed'.wire = <<>> /\ feed'.seen = {} /\ feed'.phase = phase
           /\ feed'.since = since
<1>1. /\ feed'.wire = <<>> /\ feed'.seen = {} /\ feed'.phase = phase /\ feed'.since = since
      /\ feed' = [phase |-> feed'.phase, since |-> feed'.since, seen |-> feed'.seen,
                  wire |-> feed'.wire]
  OBVIOUS
<1> QED
  BY <1>1, NoRowEvents DEF FeedOk

(* A step of the stream alone leaves rows, moves and cards in order.       *)
LEMMA StreamStays ==
    ASSUME CardsInv, UNCHANGED <<row, changes, handlers, log, cards, loaded, moves, dragged>>,
           reasons \subseteq reasons'
    PROVE  RowsOk' /\ LogOk' /\ HandlersOk' /\ PageOk' /\ MovesEnd'
<1>1. RowsGrow
  BY NothingGrows DEF CardsInv, BoardTables
<1> QED
  BY <1>1, RowsStayOk, PageStays, MovesStay DEF CardsInv, BoardTables

(* A connection starts from the newest card. *)
LEMMA FeedConnectsStep ==
    ASSUME CardsInv, FeedConnects
    PROVE  CardsInv'
<1> DEFINE since == IF Ats = {} THEN 0 ELSE Max(Ats)
<1>1. /\ loaded /\ feed.phase \in {"off", "waiting"}
      /\ feed' = [NoFeed EXCEPT !.phase = "asked", !.since = since]
      /\ UNCHANGED <<row, changes, handlers, log, cards, loaded, moves, dragged, reasons>>
  BY DEF FeedConnects, Connects, serverVars, moveVars
<1>2. since \in Nat
  <2>1. Len(log) \in Nat
    BY LogAt DEF CardsInv, BoardTables
  <2>2. Ats \in SUBSET (1..Len(log) + 1) /\ Ats \in SUBSET Nat
    BY <2>1 DEF Ats, CardsInv, BoardTables, PageOk, CardList, CardBy
  <2>3. IsFiniteSet(1..Len(log) + 1)
    BY <2>1, FS_Interval
  <2>4. IsFiniteSet(Ats)
    BY <2>2, <2>3, FS_Subset
  <2> QED
    BY <2>2, <2>4, MaxOf
<1> HIDE DEF since
<1>3. feed' = [phase |-> "asked", since |-> since, seen |-> {}, wire |-> <<>>]
  BY <1>1 DEF NoFeed
<1>4. FeedOk' /\ feed'.wire = feed.wire /\ feed'.phase = "asked"
  <2>1. feed.wire = <<>> /\ loaded'
    BY <1>1 DEF CardsInv, BoardTables, FeedOk
  <2> QED
    BY <1>2, <1>3, <2>1, FeedMade
<1>5. \A t : IsDue(t) => IsDue(t)'
  BY <1>1, <1>4 DEF IsDue
<1>6. CardsFollow'
  BY <1>1, <1>4, <1>5, FollowStays DEF CardsInv
<1> QED
  BY <1>1, <1>4, <1>6, StreamStays DEF CardsInv, BoardTables

(* The stream begins behind no change that the page does not have.         *)
LEMMA FeedAcceptedStep ==
    ASSUME CardsInv, FeedAccepted
    PROVE  CardsInv'
<1> DEFINE since == IF feed.since = 0 THEN Len(log) + 1 ELSE feed.since
<1>1. /\ feed.phase = "asked"
      /\ feed' = [feed EXCEPT !.phase = "open", !.since = since]
      /\ reasons' = IF Behind(feed'.since) THEN reasons \cup {"leap"} ELSE reasons
      /\ UNCHANGED <<row, changes, handlers, log, cards, loaded, moves, dragged>>
  BY DEF FeedAccepted, serverVars, moveVars
<1>2. since \in Nat /\ loaded /\ feed.wire = <<>> /\ feed.seen = {} /\ LogOk
      /\ Len(log) \in Nat
  BY <1>1, LogAt DEF CardsInv, BoardTables, FeedOk
<1> HIDE DEF since
<1>3. feed' = [phase |-> "open", since |-> since, seen |-> {}, wire |-> <<>>]
  BY <1>1, <1>2 DEF CardsInv, BoardTables, FeedOk
<1>4. FeedOk' /\ feed'.wire = <<>> /\ feed'.seen = {} /\ feed'.since = since
  BY <1>1, <1>2, <1>3, FeedMade
<1>5. ASSUME reasons' \subseteq {"overlap"}, NEW t \in Tasks PROVE Current(t)' \/ IsDue(t)'
  <2>1. ~ Behind(since) /\ reasons \subseteq {"overlap"}
    BY <1>1, <1>4, <1>5
  <2>2. Current(t) \/ IsDue(t) \/ Brings(t)
    BY <1>2, <2>1 DEF CardsInv, CardsFollow
  <2>3. CASE Current(t)
    BY <1>1, <2>3 DEF Current
  <2>4. CASE ~ Current(t)
    <3>1. \A e \in DOMAIN log : e \in Nat /\ row[log[e].task] # NoRow
      BY <1>2, LogAt
    <3>2. \A e \in DOMAIN log : log[e].task = t => e >= since
      BY <1>2, <2>1, <2>4, <3>1 DEF Behind, Current
    <3>3. IsDue(t)
      BY <1>2, <2>2, <2>4, NoRowEvents DEF Brings
    <3> QED
      BY <1>1, <1>4, <3>2, <3>3 DEF IsDue
  <2> QED
    BY <2>3, <2>4
<1>6. CardsFollow'
  <2>1. WireFollowed'
    BY <1>4, NoRowEvents DEF WireFollowed
  <2>2. ASSUME reasons' \subseteq {"overlap"} PROVE CardsRemain'
    BY <1>1, <1>2, <2>2 DEF CardsInv, CardsFollow, CardsRemain
  <2> QED
    BY <1>5, <2>1, <2>2 DEF CardsFollow
<1>7. reasons \subseteq reasons'
  BY <1>1
<1> QED
  BY <1>1, <1>4, <1>6, <1>7, StreamStays DEF CardsInv, BoardTables

(* What was on its way is lost, and due again. *)
LEMMA FeedBreaksStep ==
    ASSUME CardsInv, FeedBreaks
    PROVE  CardsInv'
<1>1. /\ feed.phase \in {"asked", "open"} /\ feed' = [NoFeed EXCEPT !.phase = "waiting"]
      /\ UNCHANGED <<row, changes, handlers, log, cards, loaded, moves, dragged, reasons>>
  BY DEF FeedBreaks, serverVars, moveVars
<1>2. loaded
  BY <1>1 DEF CardsInv, BoardTables, FeedOk
<1>3. feed' = [phase |-> "waiting", since |-> 0, seen |-> {}, wire |-> <<>>]
  BY <1>1 DEF NoFeed
<1>4. FeedOk' /\ feed'.wire = <<>> /\ feed'.phase = "waiting"
  BY <1>1, <1>2, <1>3, FeedMade
<1>5. ASSUME NEW t, IsDue(t) \/ Brings(t) PROVE IsDue(t)'
  <2>1. CASE IsDue(t)
    BY <1>1, <1>4, <2>1 DEF IsDue
  <2>2. CASE Brings(t)
    <3>1. PICK e \in DOMAIN log : log[e].task = t /\ log[e].stored
      BY <2>2 DEF Brings, CardsInv, BoardTables, FeedOk
    <3> QED
      BY <1>1, <1>4, <3>1 DEF IsDue
  <2> QED
    BY <1>5, <2>1, <2>2
<1>6. CardsFollow'
  <2>1. WireFollowed'
    BY <1>4, NoRowEvents DEF WireFollowed
  <2>2. ASSUME reasons' \subseteq {"overlap"} PROVE CardsRemain'
    BY <1>1, <1>2, <2>2 DEF CardsInv, CardsFollow, CardsRemain
  <2>3. ASSUME reasons' \subseteq {"overlap"}, NEW t \in Tasks PROVE Current(t)' \/ IsDue(t)'
    <3>1. Current(t) \/ IsDue(t) \/ Brings(t)
      BY <1>1, <1>2, <2>3 DEF CardsInv, CardsFollow
    <3>2. Current(t) => Current(t)'
      BY <1>1 DEF Current
    <3> QED
      BY <1>5, <3>1, <3>2
  <2> QED
    BY <2>1, <2>2, <2>3 DEF CardsFollow
<1> QED
  BY <1>1, <1>4, <1>6, StreamStays DEF CardsInv, BoardTables

(* A poll sends every event that was due with the row as it is.            *)
LEMMA FeedPollsStep ==
    ASSUME CardsInv, FeedPolls
    PROVE  CardsInv'
<1> DEFINE n == Cardinality(Unsent)
           Nth(i) == CHOOSE e \in Unsent : Cardinality({d \in Unsent : d <= e}) = i
           Event(e) == [task |-> log[e].task, row |-> row[log[e].task]]
           events == [i \in 1..n |-> Event(Nth(i))]
           seen == feed.seen \cup Unsent
<1>1. /\ feed.phase = "open" /\ feed.wire = <<>> /\ Unsent # {}
      /\ UNCHANGED <<row, changes, handlers, log, cards, loaded, moves, dragged, reasons>>
      /\ feed' = [feed EXCEPT !.seen = seen, !.since = Max(Unsent), !.wire = events]
  BY DEF FeedPolls, serverVars, moveVars
<1>2. RowsOk /\ LogOk /\ HandlersOk /\ PageOk /\ FeedOk
  BY DEF CardsInv, BoardTables
<1>3. /\ Len(log) \in Nat /\ DOMAIN log = 1..Len(log)
      /\ \A e \in DOMAIN log : e \in Nat /\ log[e].task \in Tasks /\ row[log[e].task] # NoRow
  BY <1>2, LogAt
<1>4. /\ Unsent \in SUBSET Nat /\ IsFiniteSet(Unsent)
      /\ \A e \in Unsent : e \in DOMAIN log /\ log[e].stored
  <2>1. Unsent \in SUBSET (1..Len(log)) /\ \A e \in Unsent : e \in DOMAIN log /\ log[e].stored
    BY <1>3 DEF Unsent
  <2>2. IsFiniteSet(1..Len(log))
    BY <1>3, FS_Interval
  <2>3. IsFiniteSet(Unsent)
    BY <2>1, <2>2, FS_Subset
  <2> QED
    BY <2>1, <2>3
<1>5. Max(Unsent) \in Nat
  BY <1>1, <1>4, MaxOf
<1>6. /\ n \in Nat /\ \A i \in 1..n : Nth(i) \in Unsent
      /\ \A e \in Unsent : \E i \in 1..n : Nth(i) = e
  BY <1>4, Ranks
<1> HIDE DEF n, Nth, seen
<1>7. ASSUME NEW e \in Unsent
      PROVE  /\ Event(e) \in [task : Tasks, row : [version : Nat, at : Nat]]
             /\ Event(e).row \in RowBy(Len(log)) /\ Event(e).row = row[Event(e).task]
             /\ Event(e).task = log[e].task
  <2>1. e \in DOMAIN log /\ log[e].task \in Tasks /\ row[log[e].task] # NoRow
    BY <1>3, <1>4
  <2>2. row[log[e].task] \in RowBy(Len(log))
    BY <1>2, <2>1 DEF RowsOk
  <2>3. row[log[e].task] \in [version : Nat, at : Nat]
    BY <1>3, <2>2 DEF RowBy
  <2> QED
    BY <2>1, <2>2, <2>3
<1> HIDE DEF Event
<1>8. /\ events \in Seq([task : Tasks, row : [version : Nat, at : Nat]])
      /\ DOMAIN events = 1..n /\ \A i \in 1..n : events[i] = Event(Nth(i))
  <2> DEFINE E == [task : Tasks, row : [version : Nat, at : Nat]]
  <2>1. \A i \in 1..n : Event(Nth(i)) \in E
    BY <1>6, <1>7
  <2> HIDE DEF E
  <2>2. events \in Seq(E)
    BY <1>6, <2>1
  <2> QED
    BY <2>2 DEF E
<1> HIDE DEF events
<1>9. /\ feed'.phase = "open" /\ feed'.since = Max(Unsent) /\ feed'.seen = seen
      /\ feed'.wire = events
      /\ feed' = [phase |-> feed'.phase, since |-> feed'.since, seen |-> feed'.seen,
                  wire |-> feed'.wire]
  <2>1. feed = [phase |-> feed.phase, since |-> feed.since, seen |-> feed.seen,
                wire |-> feed.wire]
    BY <1>2 DEF FeedOk
  <2>2. feed' = [phase |-> feed.phase, since |-> Max(Unsent), seen |-> seen, wire |-> events]
    BY <1>1, <2>1
  <2> QED
    BY <1>1, <2>2
<1>10. ASSUME NEW i \in DOMAIN events
       PROVE  /\ events[i].row \in RowBy(Len(log)) /\ events[i].row = row[events[i].task]
              /\ \E e \in DOMAIN log : log[e].task = events[i].task /\ log[e].stored
  <2>1. events[i] = Event(Nth(i)) /\ Nth(i) \in Unsent
    BY <1>6, <1>8
  <2>2. Nth(i) \in DOMAIN log /\ log[Nth(i)].stored
    BY <1>4, <2>1
  <2> QED
    BY <1>7, <2>1, <2>2
<1>11. FeedOk'
  <2>1. loaded' /\ \A e \in seen : e \in DOMAIN log /\ log[e].stored
    BY <1>1, <1>2, <1>4 DEF FeedOk, seen
  <2> QED
    BY <1>1, <1>5, <1>8, <1>9, <1>10, <2>1 DEF FeedOk
<1>12. ASSUME NEW t, IsDue(t) PROVE IsDue(t)' \/ Brings(t)'
  <2>1. CASE \E h \in handlers : h.task = t
    BY <1>1, <2>1 DEF IsDue
  <2>2. CASE ~ \E h \in handlers : h.task = t
    <3>1. PICK e \in Unsent : log[e].task = t
      BY <1>1, <1>12, <2>2 DEF IsDue, Unsent
    <3>2. PICK i \in 1..n : Nth(i) = e
      BY <1>6
    <3>3. events[i].task = t /\ events[i].row = row[t]
      BY <1>7, <1>8, <3>1, <3>2
    <3> QED
      BY <1>1, <1>8, <1>9, <3>3 DEF Brings
  <2> QED
    BY <2>1, <2>2
<1>13. CardsFollow'
  <2>1. WireFollowed'
    BY <1>1, <1>9, <1>10 DEF WireFollowed
  <2>2. ASSUME loaded', reasons' \subseteq {"overlap"} PROVE CardsRemain'
    BY <1>1, <2>2 DEF CardsInv, CardsFollow, CardsRemain
  <2>3. ASSUME loaded', reasons' \subseteq {"overlap"}, NEW t \in Tasks
        PROVE  Current(t)' \/ IsDue(t)' \/ Brings(t)'
    <3>1. Current(t) \/ IsDue(t) \/ Brings(t)
      BY <1>1, <2>3 DEF CardsInv, CardsFollow
    <3>2. ~ Brings(t)
      BY <1>1, NoRowEvents DEF Brings
    <3>3. Current(t) => Current(t)'
      BY <1>1 DEF Current
    <3> QED
      BY <1>12, <3>1, <3>2, <3>3
  <2> QED
    BY <2>1, <2>2, <2>3 DEF CardsFollow
<1> QED
  BY <1>1, <1>11, <1>13, StreamStays DEF CardsInv, BoardTables

(* A step that changes one card, to one of a task that has a row.          *)
LEMMA CardPut ==
    ASSUME PageOk, UNCHANGED <<row, log, dragged, loaded>>, loaded,
           NEW t \in Tasks, NEW card \in CardBy(Len(log)), row[t] # NoRow,
           cards' = [cards EXCEPT ![t] = card], 
           \A m \in moves' : MoveTyped(m)
    PROVE  /\ PageOk'
           /\ \A o \in Tasks : cards'[o] = IF o = t THEN card ELSE cards[o]
<1>1. cards' = [o \in Tasks |-> IF o = t THEN card ELSE cards[o]]
  BY DEF PageOk, CardList
<1>2. \A o \in Tasks : cards'[o] = IF o = t THEN card ELSE cards[o]
  BY <1>1
<1>3. cards' = [o \in Tasks |-> cards'[o]]
  BY <1>1
<1>4. CardList(cards, Len(log))'
  BY <1>2, <1>3 DEF PageOk, CardList
<1>5. \A m \in moves' : MoveTyped(m)'
  BY DEF MoveTyped, CardList
<1> QED
  BY <1>2, <1>4, <1>5 DEF PageOk

(* A row shown as a card. *)
LEMMA ShownIs ==
    ASSUME NEW r, NEW n \in Nat, r.version \in Nat, r.at \in 1..n + 1
    PROVE  /\ Shown(r) \in CardBy(n) /\ Shown(r) # NoRow
           /\ Shown(r).version = r.version /\ Shown(r).moved = 0
<1>1. Shown(r) \in CardBy(n) /\ Shown(r) \in [version : Nat, at : Nat, moved : Nat]
  BY DEF Shown, CardBy
<1> QED
  BY <1>1, CardsAssumption DEF Shown

(* An event makes its card the row it brings, which is the row as it is    *)
(* unless another event is due.                                            *)
LEMMA FeedEventStep ==
    ASSUME CardsInv, FeedEvent
    PROVE  CardsInv'
<1>0. PICK event, rest, b :
        event = Head(feed.wire) /\ rest = Tail(feed.wire) /\ b = event.task
  OBVIOUS
<1>1. /\ feed.wire # <<>> /\ feed' = [feed EXCEPT !.wire = rest]
      /\ cards' = [cards EXCEPT ![b] = Shown(event.row)]
      /\ UNCHANGED <<row, changes, handlers, log, loaded, moves, dragged, reasons>>
  BY <1>0 DEF FeedEvent, serverVars, moveVars
<1>2. RowsOk /\ LogOk /\ HandlersOk /\ PageOk /\ FeedOk
  BY DEF CardsInv, BoardTables
<1>3. /\ 1 \in DOMAIN feed.wire /\ event = feed.wire[1]
      /\ rest \in Seq([task : Tasks, row : [version : Nat, at : Nat]])
      /\ DOMAIN rest = 1..Len(feed.wire) - 1 /\ Len(feed.wire) \in Nat
      /\ \A i \in DOMAIN rest : i + 1 \in DOMAIN feed.wire /\ rest[i] = feed.wire[i + 1]
      /\ \A i \in DOMAIN feed.wire : i # 1 => i - 1 \in DOMAIN rest
                                              /\ rest[i - 1] = feed.wire[i]
      /\ b \in Tasks
  <2> DEFINE E == [task : Tasks, row : [version : Nat, at : Nat]]
             wire == feed.wire
  <2>1. wire \in Seq(E) /\ wire # <<>>
    BY <1>1, <1>2 DEF FeedOk
  <2> HIDE DEF E, wire
  <2>2. /\ 1 \in DOMAIN wire /\ Head(wire) = wire[1] /\ wire[1] \in E
        /\ Tail(wire) \in Seq(E)
        /\ DOMAIN Tail(wire) = 1..Len(wire) - 1 /\ Len(wire) \in Nat
        /\ \A i \in DOMAIN Tail(wire) : i + 1 \in DOMAIN wire /\ Tail(wire)[i] = wire[i + 1]
        /\ \A i \in DOMAIN wire : i # 1 => i - 1 \in DOMAIN Tail(wire)
                                           /\ Tail(wire)[i - 1] = wire[i]
    BY <2>1
  <2> QED
    BY <1>0, <2>2 DEF E, wire
<1>4. /\ event.row \in RowBy(Len(log)) /\ row[b] # NoRow
  <2>1. /\ event.row \in RowBy(Len(log))
        /\ \E e \in DOMAIN log : log[e].task = b
    BY <1>0, <1>2, <1>3 DEF FeedOk
  <2> QED
    BY <1>2, <2>1 DEF LogOk
<1>5. feed.phase = "open" /\ loaded
  BY <1>1, <1>2 DEF FeedOk
<1>6. /\ Shown(event.row) \in CardBy(Len(log)) /\ Shown(event.row) # NoRow
      /\ Shown(event.row).version = event.row.version /\ Shown(event.row).moved = 0
  <2>1. event.row.version \in Nat /\ event.row.at \in 1..Len(log) + 1 /\ Len(log) \in Nat
    BY <1>2, <1>4, LogAt DEF RowBy
  <2> QED
    BY <2>1, ShownIs
<1>7. /\ PageOk'
      /\ \A t \in Tasks : cards'[t] = IF t = b THEN Shown(event.row) ELSE cards[t]
  <2>1. \A m \in moves' : MoveTyped(m)
    BY <1>1, <1>2 DEF PageOk
  <2> QED
    BY <1>1, <1>2, <1>3, <1>4, <1>5, <1>6, <2>1, CardPut
<1>8. /\ feed'.phase = "open" /\ feed'.since = feed.since /\ feed'.seen = feed.seen
      /\ feed'.wire = rest
      /\ feed' = [phase |-> feed'.phase, since |-> feed'.since, seen |-> feed'.seen,
                  wire |-> feed'.wire]
  <2>1. feed = [phase |-> feed.phase, since |-> feed.since, seen |-> feed.seen,
                wire |-> feed.wire]
    BY <1>2 DEF FeedOk
  <2>2. feed' = [phase |-> feed.phase, since |-> feed.since, seen |-> feed.seen, wire |-> rest]
    BY <1>1, <2>1
  <2> QED
    BY <1>5, <2>2
<1>9. FeedOk'
  <2>1. ASSUME NEW i \in DOMAIN rest
        PROVE  /\ rest[i].row \in RowBy(Len(log))
               /\ \E e \in DOMAIN log : log[e].task = rest[i].task /\ log[e].stored
    <3>1. i + 1 \in DOMAIN feed.wire /\ rest[i] = feed.wire[i + 1]
      BY <1>3
    <3> QED
      BY <1>2, <3>1 DEF FeedOk
  <2>2. feed.since \in Nat /\ \A e \in feed.seen : e \in DOMAIN log /\ log[e].stored
    BY <1>2 DEF FeedOk
  <2> QED
    BY <1>1, <1>3, <1>5, <1>8, <2>1, <2>2 DEF FeedOk
<1>10. RowsOk' /\ LogOk' /\ HandlersOk'
  BY <1>1, <1>2, RowsStayOk
<1>11. \A t : IsDue(t)' <=> IsDue(t)
  BY <1>1, <1>5, <1>8 DEF IsDue
<1>12. ASSUME reasons' \subseteq {"overlap"}
       PROVE  /\ WireFollowed' /\ CardsRemain'
              /\ \A t \in Tasks : Current(t)' \/ IsDue(t)' \/ Brings(t)'
  <2>1. /\ WireFollowed /\ CardsRemain
        /\ \A t \in Tasks : Current(t) \/ IsDue(t) \/ Brings(t)
    BY <1>1, <1>5, <1>12 DEF CardsInv, CardsFollow
  <2>2. WireFollowed'
    <3> SUFFICES ASSUME NEW i \in DOMAIN rest
                 PROVE  rest[i].row = row[rest[i].task] \/ IsDue(rest[i].task)'
      BY <1>1, <1>8 DEF WireFollowed
    <3>1. i + 1 \in DOMAIN feed.wire /\ rest[i] = feed.wire[i + 1]
      BY <1>3
    <3>2. rest[i].row = row[rest[i].task] \/ IsDue(rest[i].task)
      BY <2>1, <3>1 DEF WireFollowed
    <3> QED
      BY <1>11, <3>2
  <2>3. CardsRemain'
    BY <1>1, <1>6, <1>7, <2>1 DEF CardsRemain
  <2>4. Current(b)' \/ IsDue(b)'
    <3>1. event.row = row[b] \/ IsDue(b)
      BY <1>0, <1>3, <2>1 DEF WireFollowed
    <3>2. event.row = row[b] => Current(b)'
      BY <1>1, <1>3, <1>4, <1>6, <1>7 DEF Current
    <3> QED
      BY <1>11, <3>1, <3>2
  <2>5. ASSUME NEW t \in Tasks, t # b PROVE Current(t)' \/ IsDue(t)' \/ Brings(t)'
    <3>1. CASE Current(t)
      BY <1>1, <1>7, <2>5, <3>1 DEF Current
    <3>2. CASE Brings(t)
      <4>1. PICK i \in DOMAIN feed.wire : feed.wire[i].task = t /\ feed.wire[i].row = row[t]
        BY <3>2 DEF Brings
      <4>2. i # 1
        BY <1>0, <1>3, <2>5, <4>1
      <4> QED
        BY <1>1, <1>3, <1>8, <4>1, <4>2 DEF Brings
    <3> QED
      BY <1>11, <2>1, <3>1, <3>2
  <2> QED
    BY <2>2, <2>3, <2>4, <2>5
<1>13. MovesEnd'
  BY <1>1, <1>6, <1>7 DEF CardsInv, MovesEnd
<1> QED
  BY <1>7, <1>9, <1>10, <1>12, <1>13 DEF CardsInv, BoardTables, CardsFollow

(* A step of the page's moves alone leaves rows and stream in order.       *)
LEMMA MovesLeaveRows ==
    ASSUME CardsInv, UNCHANGED <<row, changes, handlers, log, loaded, feed>>
    PROVE  /\ RowsOk' /\ LogOk' /\ HandlersOk' /\ FeedOk'
           /\ \A t : (IsDue(t)' <=> IsDue(t)) /\ (Brings(t)' <=> Brings(t))
           /\ WireFollowed => WireFollowed'
<1>1. RowsGrow
  BY NothingGrows DEF CardsInv, BoardTables
<1>2. \A t : (IsDue(t)' <=> IsDue(t)) /\ (Brings(t)' <=> Brings(t))
  BY DEF IsDue, Brings
<1>3. WireFollowed => WireFollowed'
  BY <1>2 DEF WireFollowed
<1> QED
  BY <1>1, <1>2, <1>3, RowsStayOk, FeedStays DEF CardsInv, BoardTables

(* A card that is dragged shows its move. *)
LEMMA MoveStartsStep ==
    ASSUME CardsInv, MoveStarts
    PROVE  CardsInv'
<1>1. PICK t \in Tasks :
        /\ cards[t] # NoRow
        /\ dragged' = dragged + 1
        /\ cards' = [cards EXCEPT ![t].moved = dragged + 1]
        /\ moves' = moves \cup {[id |-> dragged + 1, task |-> t,
                                 previous |-> cards, version |-> 0, at |-> 1,
                                 done |-> FALSE]}
        /\ reasons' = IF moves # {} THEN reasons \cup {"overlap"} ELSE reasons
  BY DEF MoveStarts
<1>2. UNCHANGED <<row, changes, handlers, log, loaded, feed>>
  BY DEF MoveStarts, serverVars
<1>3. RowsOk /\ LogOk /\ PageOk /\ CardList(cards, Len(log)) /\ Len(log) \in Nat /\ dragged \in Nat
  BY LogAt DEF CardsInv, BoardTables, PageOk
<1>4. cards[t] \in CardBy(Len(log)) /\ row[t] # NoRow /\ row[t] \in RowBy(Len(log))
  BY <1>1, <1>3 DEF CardList, RowsOk
<1>0. PICK card, new :
        /\ card = [version |-> cards[t].version, at |-> cards[t].at, moved |-> dragged + 1]
        /\ new = [id |-> dragged + 1, task |-> t, previous |-> cards, version |-> 0, at |-> 1,
                  done |-> FALSE]
  OBVIOUS
<1>5. card \in CardBy(Len(log)) /\ card # NoRow /\ card.version = cards[t].version
  <2>1. card \in CardBy(Len(log)) /\ card \in [version : Nat, at : Nat, moved : Nat]
    BY <1>0, <1>3, <1>4 DEF CardBy
  <2> QED
    BY <1>0, <2>1, CardsAssumption
<1>6. \A o \in Tasks : cards'[o] = IF o = t THEN card ELSE cards[o]
  <2>1. cards = [o \in Tasks |-> cards[o]]
    BY <1>3 DEF CardList
  <2>2. PICK old : old = cards[t]
    OBVIOUS
  <2>3. [old EXCEPT !.moved = dragged + 1] = card
    BY <1>0, <1>4, <2>2 DEF CardBy
  <2>4. cards' = [cards EXCEPT ![t] = card]
    BY <1>1, <2>2, <2>3
  <2> QED
    BY <2>1, <2>4
<1>7. cards' = [o \in Tasks |-> cards'[o]]
  BY <1>1, <1>3 DEF CardList
<1>8. MoveTyped(new) /\ moves' = moves \cup {new}
  BY <1>0, <1>1, <1>3, <1>4 DEF MoveTyped, RowBy
<1>9. loaded
  BY <1>1, <1>3 DEF PageOk
<1>10. PageOk'
  <2>1. CardList(cards, Len(log))'
    BY <1>2, <1>3, <1>4, <1>5, <1>6, <1>7 DEF CardList
  <2>2. \A m \in moves' : MoveTyped(m)
    BY <1>3, <1>8 DEF PageOk
  <2>3. \A m \in moves' : MoveTyped(m)'
    BY <1>2, <2>2 DEF MoveTyped, CardList
  <2> QED
    BY <1>1, <1>2, <1>3, <1>9, <2>1, <2>3 DEF PageOk
<1>11. \A o \in Tasks : /\ cards[o] # NoRow <=> cards'[o] # NoRow
                        /\ Current(o) => Current(o)'
  BY <1>1, <1>2, <1>5, <1>6 DEF Current
<1>12. CardsFollow'
  <2> SUFFICES ASSUME reasons' \subseteq {"overlap"}
               PROVE  /\ WireFollowed' /\ CardsRemain'
                      /\ \A o \in Tasks : Current(o)' \/ IsDue(o)' \/ Brings(o)'
    BY DEF CardsFollow
  <2>1. /\ WireFollowed /\ CardsRemain
        /\ \A o \in Tasks : Current(o) \/ IsDue(o) \/ Brings(o)
    BY <1>1, <1>9 DEF CardsInv, CardsFollow
  <2>2. CardsRemain'
    BY <1>0, <1>8, <1>11, <2>1 DEF CardsRemain
  <2> QED
    BY <1>2, <1>11, <2>1, <2>2, MovesLeaveRows
<1>13. MovesEnd'
  <2> SUFFICES ASSUME reasons' = {} PROVE
        /\ \A m, n \in moves' : m = n
        /\ \A o \in Tasks : cards'[o] # NoRow /\ cards'[o].moved # 0 =>
              \E m \in moves' : m.task = o
        /\ \A m \in moves', o \in Tasks : m.previous[o] # NoRow => m.previous[o].moved = 0
    BY DEF MovesEnd
  <2>1. moves = {} /\ reasons = {}
    BY <1>1
  <2>2. moves' = {new} /\ new.task = t /\ new.previous = cards
    BY <1>0, <1>8, <2>1
  <2>3. \A o \in Tasks : cards[o] # NoRow => cards[o].moved = 0
    BY <2>1 DEF CardsInv, MovesEnd
  <2> QED
    BY <1>6, <2>2, <2>3
<1> QED
  BY <1>2, <1>10, <1>12, <1>13, MovesLeaveRows DEF CardsInv, BoardTables

(* A move with the version and the stamp that it has written. *)
LEMMA MoveWritten ==
    ASSUME NEW m, m = [id |-> m.id, task |-> m.task, previous |-> m.previous,
                       version |-> m.version, at |-> m.at, done |-> m.done],
           NEW v, NEW a
    PROVE  [m EXCEPT !.version = v, !.at = a]
             = [id |-> m.id, task |-> m.task, previous |-> m.previous,
                version |-> v, at |-> a, done |-> m.done]
<1>1. PICK n : n = [m EXCEPT !.version = v, !.at = a]
  OBVIOUS
<1>2. n = [id |-> m.id, task |-> m.task, previous |-> m.previous,
           version |-> v, at |-> a, done |-> m.done]
  BY <1>1
<1> QED
  BY <1>1, <1>2

(* The move's row is written, and its event is due. *)
LEMMA MoveStoredStep ==
    ASSUME CardsInv, MoveStored
    PROVE  CardsInv'
<1>1. PICK m \in moves :
        /\ m.version = 0
        /\ Write(m.task)
        /\ moves' = (moves \ {m}) \cup
              {[m EXCEPT !.version = changes', !.at = row'[m.task].at]}
  BY DEF MoveStored
<1>2. UNCHANGED <<log, cards, loaded, dragged, feed, reasons>>
  BY DEF MoveStored
<1>3. RowsOk /\ LogOk /\ HandlersOk /\ PageOk /\ FeedOk /\ MoveTyped(m) /\ m.task \in Tasks
  BY DEF CardsInv, BoardTables, PageOk, MoveTyped
<1>4. /\ RowsOk' /\ LogOk' /\ HandlersOk' /\ RowsGrow /\ changes' = changes + 1 /\ changes \in Nat
      /\ row'[m.task] = [version |-> changes + 1, at |-> Len(log) + 1]
  BY <1>1, <1>2, <1>3, WriteOk
<1>0. PICK n : n = [id |-> m.id, task |-> m.task, previous |-> m.previous,
                    version |-> changes + 1, at |-> Len(log) + 1, done |-> m.done]
  OBVIOUS
<1>5. moves' = (moves \ {m}) \cup {n}
  <2>1. row'[m.task].at = Len(log) + 1
    BY <1>4
  <2>2. [m EXCEPT !.version = changes', !.at = row'[m.task].at] = n
    <3>1. m = [id |-> m.id, task |-> m.task, previous |-> m.previous, version |-> m.version,
               at |-> m.at, done |-> m.done]
      BY <1>3 DEF MoveTyped
    <3>2. [m EXCEPT !.version = changes', !.at = row'[m.task].at]
            = [id |-> m.id, task |-> m.task, previous |-> m.previous,
               version |-> changes', at |-> row'[m.task].at, done |-> m.done]
      BY <3>1, MoveWritten, Zenon
    <3> QED
      BY <1>0, <1>4, <2>1, <3>2, Zenon
  <2> QED
    BY <1>1, <2>2
<1>6. MoveTyped(n)' /\ n.task = m.task /\ n.previous = m.previous
  <2>1. MoveTyped(m)'
    BY <1>3, <1>4, MoveLater
  <2>2. /\ n = [id |-> n.id, task |-> n.task, previous |-> n.previous, version |-> n.version,
                at |-> n.at, done |-> n.done]
        /\ n.task = m.task /\ n.previous = m.previous /\ n.version = changes + 1
        /\ n.at = Len(log) + 1
    BY <1>0
  <2>3. Len(log) \in Nat /\ Len(log') = Len(log)
    BY <1>2, <1>3, LogAt
  <2>4. n.version # 0 /\ n.version \in 0..row'[n.task].version /\ n.at \in 1..Len(log') + 1
    BY <1>4, <2>2, <2>3
  <2> QED
    BY <2>1, <2>2, <2>4 DEF MoveTyped
<1>7. PageOk'
  <2>1. CardList(cards, Len(log))'
    BY <1>2, <1>3, <1>4, CardListLater DEF PageOk, CardList
  <2>2. \A o \in moves' : MoveTyped(o)'
    BY <1>3, <1>4, <1>5, <1>6, MoveLater DEF PageOk
  <2> QED
    BY <1>2, <1>3, <2>1, <2>2 DEF PageOk
<1>8. FeedOk'
  BY <1>2, <1>3, <1>4, FeedStays
<1>9. CardsFollow'
  BY <1>1, <1>2, <1>3, <1>5, <1>6, WriteFollows
<1>10. MovesEnd'
  <2> SUFFICES ASSUME reasons = {} PROVE
        /\ \A p, q \in moves' : p = q
        /\ \A o \in Tasks : cards[o] # NoRow /\ cards[o].moved # 0 => \E p \in moves' : p.task = o
        /\ \A p \in moves', o \in Tasks : p.previous[o] # NoRow => p.previous[o].moved = 0
    BY <1>2 DEF MovesEnd
  <2>1. /\ \A p, q \in moves : p = q
        /\ \A o \in Tasks : cards[o] # NoRow /\ cards[o].moved # 0 => \E p \in moves : p.task = o
        /\ \A p \in moves, o \in Tasks : p.previous[o] # NoRow => p.previous[o].moved = 0
    BY DEF CardsInv, MovesEnd
  <2> QED
    BY <1>5, <1>6, <2>1
<1> QED
  BY <1>4, <1>7, <1>8, <1>9, <1>10 DEF CardsInv, BoardTables

(* The answer of a move; it is no older than the card, or that is noted.   *)
LEMMA MoveAnsweredStep ==
    ASSUME CardsInv, MoveAnswered
    PROVE  CardsInv'
<1>1. PICK m \in moves :
        /\ m.done
        /\ moves' = moves \ {m}
        /\ cards' = [cards EXCEPT ![m.task] =
                        IF @ = NoRow THEN NoRow ELSE Shown(m)]
        /\ reasons' = IF cards[m.task] # NoRow /\ cards[m.task].version > m.version
                      THEN reasons \cup {"answer"} ELSE reasons
  BY DEF MoveAnswered
<1>2. UNCHANGED <<row, changes, handlers, log, loaded, dragged, feed>>
  BY DEF MoveAnswered, serverVars
<1>3. RowsOk /\ LogOk /\ PageOk /\ CardList(cards, Len(log)) /\ Len(log) \in Nat
      /\ MoveTyped(m) /\ m.task \in Tasks /\ loaded
  BY LogAt DEF CardsInv, BoardTables, PageOk, MoveTyped
<1>4. row[m.task] # NoRow /\ row[m.task] \in RowBy(Len(log)) /\ m.version \in Nat
      /\ m.version <= row[m.task].version
  BY <1>3 DEF MoveTyped, RowsOk, RowBy
<1>5. /\ Shown(m) \in CardBy(Len(log)) /\ Shown(m) # NoRow
      /\ Shown(m).version = m.version /\ Shown(m).moved = 0
  <2>1. m.at \in 1..Len(log) + 1
    BY <1>3 DEF MoveTyped
  <2> QED
    BY <1>3, <1>4, <2>1, ShownIs
<1>6. \A o \in Tasks : cards'[o] = IF o = m.task /\ cards[o] # NoRow THEN Shown(m) ELSE cards[o]
  BY <1>1, <1>3 DEF CardList
<1>7. cards' = [o \in Tasks |-> cards'[o]]
  BY <1>1, <1>3 DEF CardList
<1>8. PageOk'
  <2>1. CardList(cards, Len(log))'
    BY <1>2, <1>3, <1>4, <1>5, <1>6, <1>7 DEF CardList
  <2>2. \A o \in moves' : MoveTyped(o)'
    BY <1>1, <1>2, <1>3 DEF PageOk, MoveTyped, CardList
  <2> QED
    BY <1>2, <1>3, <2>1, <2>2 DEF PageOk
<1>9. \A o \in Tasks : cards[o] # NoRow <=> cards'[o] # NoRow
  BY <1>5, <1>6
<1>10. CardsFollow'
  <2> SUFFICES ASSUME reasons' \subseteq {"overlap"}
               PROVE  /\ WireFollowed' /\ CardsRemain'
                      /\ \A o \in Tasks : Current(o)' \/ IsDue(o)' \/ Brings(o)'
    BY DEF CardsFollow
  <2>1. reasons \subseteq {"overlap"}
        /\ (cards[m.task] # NoRow => ~ cards[m.task].version > m.version)
    BY <1>1
  <2>2. /\ WireFollowed /\ CardsRemain
        /\ \A o \in Tasks : Current(o) \/ IsDue(o) \/ Brings(o)
    BY <1>3, <2>1 DEF CardsInv, CardsFollow
  <2>3. CardsRemain'
    BY <1>1, <1>9, <2>2 DEF CardsRemain
  <2>4. ASSUME NEW o \in Tasks, Current(o) PROVE Current(o)'
    <3>1. CASE o = m.task
      <4>1. cards[o] # NoRow /\ cards[o].version = row[o].version
        BY <1>4, <2>4, <3>1 DEF Current
      <4>2. row[o].version \in Nat
        BY <1>4, <3>1 DEF RowBy
      <4>3. m.version = row[o].version
        BY <1>4, <2>1, <3>1, <4>1, <4>2
      <4> QED
        BY <1>2, <1>4, <1>5, <1>6, <3>1, <4>1, <4>3 DEF Current
    <3>2. CASE o # m.task
      BY <1>2, <1>6, <2>4, <3>2 DEF Current
    <3> QED
      BY <3>1, <3>2
  <2> QED
    BY <1>2, <2>2, <2>3, <2>4, MovesLeaveRows
<1>11. MovesEnd'
  <2> SUFFICES ASSUME reasons' = {}
               PROVE  /\ moves' = {}
                      /\ \A o \in Tasks : cards'[o] # NoRow => cards'[o].moved = 0
    BY DEF MovesEnd
  <2>1. /\ \A p, q \in moves : p = q
        /\ \A o \in Tasks : cards[o] # NoRow /\ cards[o].moved # 0 => \E p \in moves : p.task = o
    BY <1>1 DEF CardsInv, MovesEnd
  <2> QED
    BY <1>1, <1>5, <1>6, <2>1
<1> QED
  BY <1>2, <1>8, <1>10, <1>11, MovesLeaveRows DEF CardsInv, BoardTables

(* A failed move puts back cards of the same versions, or that is noted.   *)
LEMMA MoveFailsStep ==
    ASSUME CardsInv, MoveFails
    PROVE  CardsInv'
<1>1. PICK m \in moves :
        /\ moves' = moves \ {m}
        /\ cards' = m.previous
        /\ reasons' = IF \E t \in Tasks :
                            /\ cards[t] # NoRow
                            /\ \/ m.previous[t] = NoRow
                               \/ m.previous[t].version # cards[t].version
                      THEN reasons \cup {"rollback"} ELSE reasons
  BY DEF MoveFails
<1>2. UNCHANGED <<row, changes, handlers, log, loaded, dragged, feed>>
  BY DEF MoveFails, serverVars
<1>3. PageOk /\ MoveTyped(m) /\ loaded /\ CardList(m.previous, Len(log))
  BY DEF CardsInv, BoardTables, PageOk, MoveTyped
<1>4. PageOk'
  <2>1. CardList(cards, Len(log))'
    BY <1>1, <1>2, <1>3 DEF CardList
  <2>2. \A o \in moves' : MoveTyped(o)'
    BY <1>1, <1>2, <1>3 DEF PageOk, MoveTyped, CardList
  <2> QED
    BY <1>2, <1>3, <2>1, <2>2 DEF PageOk
<1>5. CardsFollow'
  <2> SUFFICES ASSUME reasons' \subseteq {"overlap"}
               PROVE  /\ WireFollowed' /\ CardsRemain'
                      /\ \A o \in Tasks : Current(o)' \/ IsDue(o)' \/ Brings(o)'
    BY DEF CardsFollow
  <2>1. /\ reasons \subseteq {"overlap"}
        /\ \A t \in Tasks : cards[t] # NoRow =>
              m.previous[t] # NoRow /\ m.previous[t].version = cards[t].version
    BY <1>1
  <2>2. /\ WireFollowed /\ CardsRemain
        /\ \A o \in Tasks : Current(o) \/ IsDue(o) \/ Brings(o)
    BY <1>3, <2>1 DEF CardsInv, CardsFollow
  <2>3. CardsRemain'
    BY <1>1, <2>1, <2>2 DEF CardsRemain
  <2>4. \A o \in Tasks : Current(o) => Current(o)'
    BY <1>1, <1>2, <2>1, <2>2 DEF Current, CardsRemain
  <2> QED
    BY <1>2, <2>2, <2>3, <2>4, MovesLeaveRows
<1>6. MovesEnd'
  <2> SUFFICES ASSUME reasons' = {}
               PROVE  /\ moves' = {}
                      /\ \A o \in Tasks : cards'[o] # NoRow => cards'[o].moved = 0
    BY DEF MovesEnd
  <2>1. /\ \A p, q \in moves : p = q
        /\ \A p \in moves, o \in Tasks : p.previous[o] # NoRow => p.previous[o].moved = 0
    BY <1>1 DEF CardsInv, MovesEnd
  <2> QED
    BY <1>1, <2>1
<1> QED
  BY <1>2, <1>4, <1>5, <1>6, MovesLeaveRows DEF CardsInv, BoardTables

(* The page opens with nothing under way. *)
LEMMA InitCards == CardsInit => CardsInv
<1> SUFFICES ASSUME CardsInit PROVE CardsInv
  OBVIOUS
<1>1. PICK there \in SUBSET Tasks :
        row = [t \in Tasks |-> IF t \in there THEN [version |-> 0, at |-> 1] ELSE NoRow]
  BY DEF CardsInit
<1>2. /\ changes = 0 /\ handlers = {} /\ log = <<>> /\ cards = [t \in Tasks |-> NoRow]
      /\ loaded = FALSE /\ moves = {} /\ dragged = 0 /\ feed = NoFeed /\ reasons = {}
  BY DEF CardsInit
<1>3. Len(log) = 0 /\ LogOk
  BY <1>2 DEF LogOk
<1>4. RowsOk
  <2>1. row = [t \in Tasks |-> row[t]]
    BY <1>1
  <2>2. \A t \in Tasks : row[t] # NoRow => row[t] = [version |-> 0, at |-> 1]
    BY <1>1
  <2> QED
    BY <1>2, <1>3, <2>1, <2>2 DEF RowsOk, RowBy
<1>5. HandlersOk /\ PageOk
  BY <1>2 DEF HandlersOk, PageOk, CardList
<1>6. FeedOk
  <2>1. /\ feed = [phase |-> feed.phase, since |-> feed.since, seen |-> feed.seen,
                   wire |-> feed.wire]
        /\ feed.phase = "off" /\ feed.since = 0 /\ feed.seen = {} /\ feed.wire = <<>>
    BY <1>2 DEF NoFeed
  <2> QED
    BY <2>1, NoRowEvents DEF FeedOk
<1>7. CardsFollow /\ MovesEnd
  BY <1>2 DEF CardsFollow, MovesEnd
<1> QED
  BY <1>3, <1>4, <1>5, <1>6, <1>7 DEF CardsInv, BoardTables

(* Every step keeps the invariant. *)
LEMMA NextCards == CardsInv /\ [CardsNext]_cardsVars => CardsInv'
<1> SUFFICES ASSUME CardsInv, [CardsNext]_cardsVars PROVE CardsInv'
  OBVIOUS
<1>1. CASE CardsServer
  BY <1>1, OthersWriteStep, StampedStep, StoredStep, DiesStep, FeedAcceptedStep, FeedPollsStep
     DEF CardsServer
<1>2. CASE CardsPage
  BY <1>2, LoadStep, FeedConnectsStep, FeedEventStep, FeedBreaksStep, MoveStartsStep,
     MoveStoredStep, MoveAnsweredStep, MoveFailsStep
     DEF CardsPage
<1>3. CASE UNCHANGED cardsVars
  <2>1. UNCHANGED <<row, changes, handlers, log, cards, loaded, moves, dragged, feed, reasons>>
    BY <1>3 DEF cardsVars
  <2>2. RowsOk' /\ LogOk' /\ HandlersOk' /\ PageOk' /\ MovesEnd'
    BY <2>1, StreamStays
  <2>3. FeedOk' /\ WireFollowed = WireFollowed'
    BY <2>1, NothingGrows, FeedStays DEF CardsInv, BoardTables, WireFollowed, IsDue
  <2>4. \A t : IsDue(t) => IsDue(t)'
    BY <2>1 DEF IsDue
  <2>5. CardsFollow'
    BY <2>1, <2>4, FollowStays DEF CardsInv
  <2> QED
    BY <2>2, <2>3, <2>5 DEF CardsInv, BoardTables
<1> QED
  BY <1>1, <1>2, <1>3 DEF CardsNext

(* The invariant holds throughout. *)
LEMMA CardsInvariance == CardsSpec => []CardsInv
  BY InitCards, NextCards, PTL DEF CardsSpec

(* When nothing is under way and the stream has sent all it has, every card
   of the board shows its row, unless one of the named things happened; and a
   card shows a move that has ended only if two were under way together.
   (page.tsx's optimistic moves and event handler against tasks.py's poll
   loop.) *)
THEOREM QuietBoards == CardsSpec => []QuietBoardIsCurrent
<1>1. CardsInv => QuietBoardIsCurrent
  <2> SUFFICES ASSUME CardsInv, Quiet, reasons \subseteq {"overlap"}, NEW t \in Tasks
               PROVE  /\ Current(t)
                      /\ "overlap" \notin reasons /\ cards[t] # NoRow => cards[t].moved = 0
    BY DEF QuietBoardIsCurrent
  <2>1. loaded /\ ~ Brings(t)
    BY NoRowEvents DEF Quiet, Brings, CardsInv, BoardTables, FeedOk
  <2>2. ~ IsDue(t)
    BY DEF Quiet, IsDue, Unsent
  <2>3. Current(t)
    BY <2>1, <2>2 DEF CardsInv, CardsFollow
  <2>4. "overlap" \notin reasons /\ cards[t] # NoRow => cards[t].moved = 0
    BY DEF Quiet, CardsInv, MovesEnd
  <2> QED
    BY <2>3, <2>4
<1> QED
  BY <1>1, CardsInvariance, PTL
-----------------------------------------------------------------------------
(* What the types of the cards say beyond their tables: the counters stay  *)
(* below their bounds, and what is on display below the counters.  An event *)
(* has a change of its own: those in the log and those that handlers have   *)
(* still to stamp are no more than the changes.                             *)
Unstamped == {h \in handlers : h.event = 0}
EventsCounted ==
    /\ IsFiniteSet(Unstamped) /\ Len(log) + Cardinality(Unstamped) <= changes
    /\ changes <= MaxChanges /\ \A h \in handlers : h.version <= changes

(* No card shows a version, or a move, that is still to come. *)
CardsCapped(cs) ==
    \A t \in Tasks : cs[t] # NoRow => cs[t].version \in 0..changes /\ cs[t].moved \in 0..dragged
MoveCapped(m) == m.id \in 1..dragged /\ CardsCapped(m.previous)
WireCapped == \A i \in DOMAIN feed.wire : feed.wire[i].row.version <= changes

PageCapped == CardsCapped(cards) /\ \A m \in moves : MoveCapped(m)

(* The words of the connection and of the history. *)
WordsKnown ==
    /\ loaded \in BOOLEAN /\ feed.phase \in {"off", "asked", "open", "waiting"}
    /\ reasons \subseteq Reasons

BoardTyped == EventsCounted /\ PageCapped /\ WireCapped /\ WordsKnown /\ dragged <= MaxMoves

(* A request that writes a row has an event to stamp. *)
LEMMA WriteCounted ==
    ASSUME CardsInv, EventsCounted, NEW t \in Tasks, Write(t), UNCHANGED log
    PROVE  EventsCounted'
<1>1. changes \in Nat /\ MaxChanges \in Nat /\ Len(log) \in Nat
  BY LogAt, CardsAssumption DEF CardsInv, BoardTables, RowsOk
<1>2. PICK new : new = [version |-> changes + 1, task |-> t, event |-> 0]
  OBVIOUS
<1>3. changes' = changes + 1 /\ changes < MaxChanges /\ handlers' = handlers \cup {new}
  BY <1>2 DEF Write
<1>4. new.event = 0 /\ new.version = changes + 1
  BY <1>2
<1>5. Unstamped' = Unstamped \cup {new}
  BY <1>3, <1>4 DEF Unstamped
<1>6. IsFiniteSet(Unstamped') /\ Cardinality(Unstamped') \in Nat /\ Cardinality(Unstamped) \in Nat
      /\ Cardinality(Unstamped') <= Cardinality(Unstamped) + 1
  <2>1. PICK S, T : S = Unstamped /\ T = Unstamped'
    OBVIOUS
  <2>2. IsFiniteSet(S) /\ T = S \cup {new}
    BY <1>5, <2>1 DEF EventsCounted
  <2>3. Cardinality(S) \in Nat
    BY <2>2, FS_CardinalityType
  <2>4. IsFiniteSet(T) /\ Cardinality(T) = IF new \in S THEN Cardinality(S) ELSE Cardinality(S) + 1
    BY <2>2, FS_AddElement
  <2> QED
    BY <2>1, <2>3, <2>4
<1>7. \A h \in handlers : h.version \in Nat
  BY DEF CardsInv, BoardTables, HandlersOk, HandlerTyped
<1>8. \A h \in handlers' : h.version <= changes'
  BY <1>1, <1>3, <1>4, <1>7 DEF EventsCounted
<1>9. Len(log) + Cardinality(Unstamped') <= changes'
  BY <1>1, <1>3, <1>6 DEF EventsCounted
<1> QED
  BY <1>1, <1>3, <1>6, <1>8, <1>9 DEF EventsCounted

(* An event that is stamped is stamped once. *)
LEMMA StampCounted ==
    ASSUME CardsInv, EventsCounted, EventStamped
    PROVE  EventsCounted'
<1>1. PICK h \in handlers :
        /\ h.event = 0
        /\ log' = Append(log, [task |-> h.task, stored |-> FALSE])
        /\ handlers' = (handlers \ {h}) \cup {[h EXCEPT !.event = Len(log')]}
  BY DEF EventStamped
<1>2. UNCHANGED changes
  BY DEF EventStamped
<1>3. HandlerTyped(h) /\ LogOk
  BY DEF CardsInv, BoardTables, HandlersOk
<1>4. Len(log') = Len(log) + 1 /\ Len(log) \in Nat
  <2>1. PICK event : event = [task |-> h.task, stored |-> FALSE]
    OBVIOUS
  <2>2. event \in [task : Tasks, stored : BOOLEAN]
    BY <1>3, <2>1 DEF HandlerTyped
  <2>3. log' = Append(log, event)
    BY <1>1, <2>1
  <2>4. PICK E : E = [task : Tasks, stored : BOOLEAN]
    OBVIOUS
  <2>5. log \in Seq(E) /\ event \in E
    BY <1>3, <2>2, <2>4 DEF LogOk
  <2> QED
    BY <2>3, <2>5
<1>5. PICK new : new = [version |-> h.version, task |-> h.task, event |-> Len(log) + 1]
  OBVIOUS
<1>6. handlers' = (handlers \ {h}) \cup {new}
  BY <1>1, <1>3, <1>4, <1>5 DEF HandlerTyped
<1>7. new.event # 0 /\ new.version = h.version
  BY <1>4, <1>5
<1>8. Unstamped' = Unstamped \ {h} /\ h \in Unstamped
  BY <1>1, <1>6, <1>7 DEF Unstamped
<1>9. IsFiniteSet(Unstamped') /\ Cardinality(Unstamped') = Cardinality(Unstamped) - 1
      /\ Cardinality(Unstamped) \in Nat
  BY <1>8, FS_RemoveElement, FS_CardinalityType DEF EventsCounted
<1>10. Len(log') + Cardinality(Unstamped') <= changes'
  BY <1>2, <1>4, <1>9 DEF EventsCounted
<1>11. \A o \in handlers' : o.version <= changes'
  BY <1>2, <1>6, <1>7 DEF EventsCounted
<1> QED
  BY <1>2, <1>9, <1>10, <1>11 DEF EventsCounted

(* A handler that ends takes nothing with it that was counted. *)
LEMMA EndCounted ==
    ASSUME CardsInv, EventsCounted, handlers' \subseteq handlers, Len(log') = Len(log),
           UNCHANGED changes
    PROVE  EventsCounted'
<1>1. Len(log) \in Nat /\ changes \in Nat
  BY LogAt DEF CardsInv, BoardTables, RowsOk
<1>2. Unstamped' \in SUBSET Unstamped
  BY DEF Unstamped
<1>3. IsFiniteSet(Unstamped') /\ Cardinality(Unstamped') <= Cardinality(Unstamped)
      /\ Cardinality(Unstamped) \in Nat /\ Cardinality(Unstamped') \in Nat
  BY <1>2, FS_Subset, FS_CardinalityType DEF EventsCounted
<1>4. Len(log') + Cardinality(Unstamped') <= changes'
  BY <1>1, <1>3 DEF EventsCounted
<1> QED
  BY <1>3, <1>4 DEF EventsCounted

(* Changes and events after a step. *)
LEMMA CountsAfter ==
    ASSUME CardsInv, EventsCounted, [CardsNext]_cardsVars
    PROVE  EventsCounted' /\ changes' \in Nat /\ changes <= changes'
<1>1. changes \in Nat
  BY DEF CardsInv, BoardTables, RowsOk
<1>2. ASSUME NEW t \in Tasks, Write(t), UNCHANGED log
      PROVE  EventsCounted' /\ changes' \in Nat /\ changes <= changes'
  <2>1. changes' = changes + 1
    BY <1>2 DEF Write
  <2>2. EventsCounted'
    BY <1>2, WriteCounted
  <2> QED
    BY <1>1, <2>1, <2>2
<1>3. ASSUME handlers' \subseteq handlers, Len(log') = Len(log), UNCHANGED changes
      PROVE  EventsCounted' /\ changes' \in Nat /\ changes <= changes'
  BY <1>1, <1>3, EndCounted
<1>4. CASE OthersWrite
  BY <1>2, <1>4 DEF OthersWrite
<1>5. CASE EventStamped
  <2>1. UNCHANGED changes
    BY <1>5 DEF EventStamped
  <2> QED
    BY <1>1, <1>5, <2>1, StampCounted
<1>6. CASE EventStored
  <2>1. PICK i, event : log' = [log EXCEPT ![i] = event]
    <3>1. PICK h \in handlers : log' = [log EXCEPT ![h.event].stored = TRUE]
      BY <1>6 DEF EventStored
    <3>2. PICK event : event = [log[h.event] EXCEPT !.stored = TRUE]
      OBVIOUS
    <3>3. log' = [log EXCEPT ![h.event] = event]
      BY <3>1, <3>2
    <3> QED
      BY <3>3
  <2>2. Len(log') = Len(log)
    <3>1. PICK E : E = [task : Tasks, stored : BOOLEAN]
      OBVIOUS
    <3>2. log \in Seq(E)
      BY <3>1 DEF CardsInv, BoardTables, LogOk
    <3>3. DOMAIN log' = 1..Len(log) /\ Len(log) \in Nat
      BY <2>1, <3>2
    <3> QED
      BY <3>3
  <2>3. handlers' \subseteq handlers /\ UNCHANGED changes
    BY <1>6 DEF EventStored
  <2> QED
    BY <1>3, <2>2, <2>3
<1>7. CASE HandlerDies
  BY <1>3, <1>7 DEF HandlerDies
<1>8. CASE FeedAccepted \/ FeedPolls
  BY <1>3, <1>8 DEF FeedAccepted, FeedPolls, serverVars
<1>9. CASE LoadBoard \/ FeedConnects \/ FeedEvent \/ FeedBreaks
  BY <1>3, <1>9 DEF LoadBoard, FeedConnects, FeedEvent, FeedBreaks, serverVars
<1>10. CASE MoveStarts \/ MoveAnswered \/ MoveFails
  BY <1>3, <1>10 DEF MoveStarts, MoveAnswered, MoveFails, serverVars
<1>11. CASE MoveStored
  <2>1. PICK m \in moves : Write(m.task)
    BY <1>11 DEF MoveStored
  <2>2. m.task \in Tasks
    BY <2>1 DEF CardsInv, BoardTables, PageOk, MoveTyped
  <2>3. UNCHANGED log
    BY <1>11 DEF MoveStored
  <2> QED
    BY <1>2, <2>1, <2>2, <2>3
<1>12. CASE UNCHANGED cardsVars
  BY <1>3, <1>12 DEF cardsVars
<1> QED
  BY <1>4, <1>5, <1>6, <1>7, <1>8, <1>9, <1>10, <1>11, <1>12 DEF CardsNext, CardsServer, CardsPage

(* Moves after a step. *)
LEMMA DragsAfter ==
    ASSUME CardsInv, dragged <= MaxMoves, [CardsNext]_cardsVars
    PROVE  dragged \in Nat /\ dragged' \in Nat /\ dragged <= dragged' /\ dragged' <= MaxMoves
<1>1. dragged \in Nat /\ MaxMoves \in Nat
  BY CardsAssumption DEF CardsInv, BoardTables, PageOk
<1>2. UNCHANGED dragged \/ (dragged < MaxMoves /\ dragged' = dragged + 1)
  <2>1. CASE CardsServer
    BY <2>1 DEF CardsServer, OthersWrite, EventStamped, EventStored, HandlerDies, FeedAccepted,
                FeedPolls, moveVars
  <2>2. CASE CardsPage
    BY <2>2 DEF CardsPage, LoadBoard, FeedConnects, FeedEvent, FeedBreaks, MoveStarts, MoveStored,
                MoveAnswered, MoveFails, moveVars
  <2>3. CASE UNCHANGED cardsVars
    BY <2>3 DEF cardsVars
  <2> QED
    BY <2>1, <2>2, <2>3 DEF CardsNext
<1> QED
  BY <1>1, <1>2

(* The words after a step. *)
LEMMA WordsAfter ==
    ASSUME CardsInv, WordsKnown, [CardsNext]_cardsVars
    PROVE  WordsKnown'
<1>1. PICK old : old = feed
  OBVIOUS
<1>2. old = [phase |-> old.phase, since |-> old.since, seen |-> old.seen, wire |-> old.wire]
  BY <1>1 DEF CardsInv, BoardTables, FeedOk
<1>3. reasons' \subseteq reasons \cup Reasons /\ loaded' \in {loaded, TRUE}
  <2>1. CASE CardsServer
    BY <2>1 DEF CardsServer, OthersWrite, EventStamped, EventStored, HandlerDies, FeedAccepted,
                FeedPolls, Reasons
  <2>2. CASE CardsPage
    BY <2>2 DEF CardsPage, LoadBoard, FeedConnects, FeedEvent, FeedBreaks, MoveStarts, MoveStored,
                MoveAnswered, MoveFails, Reasons
  <2>3. CASE UNCHANGED cardsVars
    BY <2>3 DEF cardsVars
  <2> QED
    BY <2>1, <2>2, <2>3 DEF CardsNext
<1>4. feed'.phase \in {old.phase, "asked", "open", "waiting"}
  <2>1. CASE UNCHANGED feed
    BY <1>1, <2>1
  <2>2. CASE FeedConnects
    <3>1. PICK since : feed' = [NoFeed EXCEPT !.phase = "asked", !.since = since]
      BY <2>2 DEF FeedConnects, Connects
    <3> QED
      BY <3>1 DEF NoFeed
  <2>3. CASE FeedAccepted
    <3>1. PICK since : feed' = [old EXCEPT !.phase = "open", !.since = since]
      BY <1>1, <2>3 DEF FeedAccepted
    <3> QED
      BY <1>2, <3>1
  <2>4. CASE FeedPolls
    <3>1. PICK seen, since, wire : feed' = [old EXCEPT !.seen = seen, !.since = since, !.wire = wire]
      BY <1>1, <2>4 DEF FeedPolls
    <3> QED
      BY <1>2, <3>1
  <2>5. CASE FeedEvent
    <3>1. PICK wire : feed' = [old EXCEPT !.wire = wire]
      BY <1>1, <2>5 DEF FeedEvent
    <3> QED
      BY <1>2, <3>1
  <2>6. CASE FeedBreaks
    BY <2>6 DEF FeedBreaks, NoFeed
  <2>7. CASE OthersWrite \/ EventStamped \/ EventStored \/ HandlerDies
    BY <2>1, <2>7 DEF OthersWrite, EventStamped, EventStored, HandlerDies
  <2>8. CASE LoadBoard \/ MoveStarts \/ MoveStored \/ MoveAnswered \/ MoveFails
    BY <2>1, <2>8 DEF LoadBoard, MoveStarts, MoveStored, MoveAnswered, MoveFails
  <2>9. CASE UNCHANGED cardsVars
    BY <2>1, <2>9 DEF cardsVars
  <2> QED
    BY <2>2, <2>3, <2>4, <2>5, <2>6, <2>7, <2>8, <2>9 DEF CardsNext, CardsServer, CardsPage
<1>5. reasons' \subseteq Reasons /\ loaded' \in BOOLEAN
  BY <1>3 DEF WordsKnown
<1>6. feed'.phase \in {"off", "asked", "open", "waiting"}
  BY <1>1, <1>4 DEF WordsKnown
<1> QED
  BY <1>5, <1>6 DEF WordsKnown, Reasons

(* What is below a counter stays below it. *)
LEMMA CapsRise ==
    ASSUME changes \in Nat, changes' \in Nat, changes <= changes',
           dragged \in Nat, dragged' \in Nat, dragged <= dragged'
    PROVE  /\ \A cs : CardsCapped(cs) => CardsCapped(cs)'
           /\ \A m : MoveCapped(m) => MoveCapped(m)'
<1>1. \A v \in 0..changes : v \in 0..changes'
  OBVIOUS
<1>2. \A v \in 0..dragged : v \in 0..dragged'
  OBVIOUS
<1>3. \A v \in 1..dragged : v \in 1..dragged'
  OBVIOUS
<1>4. \A cs : CardsCapped(cs) => CardsCapped(cs)'
  BY <1>1, <1>2 DEF CardsCapped
<1>5. ASSUME NEW m, MoveCapped(m) PROVE MoveCapped(m)'
  BY <1>3, <1>4, <1>5 DEF MoveCapped
<1> QED
  BY <1>4, <1>5

(* What comes on the wire is a row as it is. *)
LEMMA WireAfter ==
    ASSUME CardsInv, WireCapped, [CardsNext]_cardsVars, changes' \in Nat, changes <= changes'
    PROVE  WireCapped'
<1>1. PICK old, ch, next : old = feed /\ ch = changes /\ next = changes'
  OBVIOUS
<1>2. /\ old = [phase |-> old.phase, since |-> old.since, seen |-> old.seen, wire |-> old.wire]
      /\ old.wire \in Seq([task : Tasks, row : [version : Nat, at : Nat]])
      /\ ch \in Nat /\ next \in Nat /\ ch <= next
      /\ \A i \in DOMAIN old.wire : old.wire[i].row \in RowBy(Len(log))
  BY <1>1 DEF CardsInv, BoardTables, FeedOk, RowsOk
<1>3. \A i \in DOMAIN old.wire : old.wire[i].row.version \in Nat /\ old.wire[i].row.version <= ch
  BY <1>1, <1>2 DEF WireCapped, RowBy
<1>4. ASSUME NEW wire, feed'.wire = wire, \A i \in DOMAIN wire : wire[i].row.version \in Nat
                                                          /\ wire[i].row.version <= ch
      PROVE  WireCapped'
  BY <1>1, <1>2, <1>4 DEF WireCapped
<1>5. CASE UNCHANGED feed
  BY <1>1, <1>3, <1>4, <1>5
<1>6. CASE FeedConnects \/ FeedBreaks
  <2>1. PICK phase, since : \/ feed' = [NoFeed EXCEPT !.phase = phase, !.since = since]
                            \/ feed' = [NoFeed EXCEPT !.phase = phase]
    BY <1>6 DEF FeedConnects, Connects, FeedBreaks
  <2>2. feed'.wire = <<>>
    BY <2>1 DEF NoFeed
  <2> QED
    BY <1>4, <2>2, NoRowEvents
<1>7. CASE FeedAccepted
  <2>1. PICK since : feed' = [old EXCEPT !.phase = "open", !.since = since]
    BY <1>1, <1>7 DEF FeedAccepted
  <2>2. feed'.wire = old.wire
    BY <1>2, <2>1
  <2> QED
    BY <1>3, <1>4, <2>2
<1>8. CASE FeedEvent
  <2>1. PICK wire, E : wire = old.wire /\ E = [task : Tasks, row : [version : Nat, at : Nat]]
    OBVIOUS
  <2>2. feed' = [old EXCEPT !.wire = Tail(wire)] /\ wire # <<>>
    BY <1>1, <1>8, <2>1 DEF FeedEvent
  <2>3. feed'.wire = Tail(wire)
    BY <1>2, <2>2
  <2>4. wire \in Seq(E)
    BY <1>2, <2>1
  <2>5. \A i \in DOMAIN Tail(wire) : \E j \in DOMAIN wire : Tail(wire)[i] = wire[j]
    BY <2>2, <2>4
  <2>6. \A i \in DOMAIN Tail(wire) : Tail(wire)[i].row.version \in Nat
                                     /\ Tail(wire)[i].row.version <= ch
    BY <1>3, <2>1, <2>5
  <2> QED
    BY <1>4, <2>3, <2>6
<1>9. CASE FeedPolls
  <2> DEFINE n == Cardinality(Unsent)
             Nth(i) == CHOOSE e \in Unsent : Cardinality({d \in Unsent : d <= e}) = i
             Event(e) == [task |-> log[e].task, row |-> row[log[e].task]]
  <2>1. PICK seen, since, events :
           /\ feed' = [old EXCEPT !.seen = seen, !.since = since, !.wire = events]
           /\ events = [i \in 1..n |-> Event(Nth(i))]
    BY <1>1, <1>9 DEF FeedPolls
  <2>2. feed'.wire = events
    BY <1>2, <2>1
  <2>3. /\ Len(log) \in Nat /\ DOMAIN log = 1..Len(log)
        /\ \A e \in DOMAIN log : e \in Nat /\ log[e].task \in Tasks /\ row[log[e].task] # NoRow
    BY LogAt DEF CardsInv, BoardTables
  <2>4. Unsent \in SUBSET Nat /\ IsFiniteSet(Unsent) /\ Unsent \subseteq DOMAIN log
    <3>1. Unsent \in SUBSET (1..Len(log)) /\ Unsent \subseteq DOMAIN log
      BY <2>3 DEF Unsent
    <3>2. IsFiniteSet(1..Len(log))
      BY <2>3, FS_Interval
    <3> QED
      BY <3>1, <3>2, FS_Subset
  <2>5. n \in Nat /\ \A i \in 1..n : Nth(i) \in Unsent
    BY <2>4, Ranks
  <2> HIDE DEF n, Nth
  <2>6. ASSUME NEW e \in Unsent PROVE Event(e).row.version \in Nat /\ Event(e).row.version <= ch
    <3>1. log[e].task \in Tasks /\ row[log[e].task] # NoRow
      BY <2>3, <2>4
    <3>2. row[log[e].task] \in RowBy(Len(log)) /\ row[log[e].task].version <= ch
      BY <1>1, <3>1 DEF CardsInv, BoardTables, RowsOk
    <3> QED
      BY <3>2 DEF RowBy
  <2> HIDE DEF Event
  <2>7. DOMAIN events = 1..n /\ \A i \in 1..n : events[i] = Event(Nth(i))
    BY <2>1
  <2> QED
    BY <1>4, <2>2, <2>5, <2>6, <2>7
<1>10. CASE OthersWrite \/ EventStamped \/ EventStored \/ HandlerDies
  BY <1>5, <1>10 DEF OthersWrite, EventStamped, EventStored, HandlerDies
<1>11. CASE LoadBoard \/ MoveStarts \/ MoveStored \/ MoveAnswered \/ MoveFails
  BY <1>5, <1>11 DEF LoadBoard, MoveStarts, MoveStored, MoveAnswered, MoveFails
<1>12. CASE UNCHANGED cardsVars
  BY <1>5, <1>12 DEF cardsVars
<1> QED
  BY <1>6, <1>7, <1>8, <1>9, <1>10, <1>11, <1>12 DEF CardsNext, CardsServer, CardsPage

(* Cards after a step that leaves the counters. *)
LEMMA CardsAfter ==
    ASSUME CardsInv, EventsCounted, PageCapped, WireCapped, [CardsNext]_cardsVars,
           changes' \in Nat, changes <= changes', dragged \in Nat, dragged' \in Nat, dragged <= dragged'
    PROVE  CardsCapped(cards)'
<1>1. RowsOk /\ LogOk /\ PageOk /\ FeedOk /\ changes \in Nat /\ CardList(cards, Len(log))
  BY DEF CardsInv, BoardTables, RowsOk, PageOk
<1>2. PICK ch, d, old : ch = changes' /\ d = dragged' /\ old = cards
  OBVIOUS
<1>3. (\A cs : CardsCapped(cs) => CardsCapped(cs)') /\ CardsCapped(cards) /\ CardsCapped(old)
  BY <1>1, <1>2, CapsRise DEF PageCapped
<1>4. CASE UNCHANGED cards
  BY <1>2, <1>3, <1>4
<1>5. ASSUME NEW card, card.version \in 0..ch, card.moved \in 0..d,
             \A o \in Tasks : cards'[o] = card \/ cards'[o] = old[o]
      PROVE  CardsCapped(cards)'
  <2>1. CardsCapped(old)'
    BY <1>3
  <2> QED
    BY <1>2, <1>5, <2>1 DEF CardsCapped
<1>6. \A t \in Tasks : row[t] # NoRow => row[t].version \in 0..ch
  BY <1>1, <1>2 DEF RowsOk, RowBy
<1>7. old = [t \in Tasks |-> old[t]]
  BY <1>1, <1>2 DEF CardList
<1>8. CASE LoadBoard
  <2>1. \A t \in Tasks : cards'[t] = IF row[t] = NoRow THEN NoRow ELSE Shown(row[t])
    BY <1>8 DEF LoadBoard
  <2>2. ASSUME NEW t \in Tasks, cards'[t] # NoRow
        PROVE  cards'[t].version \in 0..ch /\ cards'[t].moved \in 0..d
    <3>1. row[t] # NoRow /\ cards'[t] = Shown(row[t])
      BY <2>1, <2>2
    <3>2. cards'[t].version = row[t].version /\ cards'[t].moved = 0
      BY <3>1 DEF Shown
    <3> QED
      BY <1>2, <1>6, <3>1, <3>2
  <2> QED
    BY <1>2, <2>2 DEF CardsCapped
<1>9. CASE FeedEvent
  <2>1. PICK wire, event : wire = feed.wire /\ event = Head(wire)
    OBVIOUS
  <2>2. PICK card : card = Shown(event.row)
    OBVIOUS
  <2>3. wire # <<>> /\ cards' = [old EXCEPT ![event.task] = card]
    BY <1>2, <1>9, <2>1, <2>2 DEF FeedEvent
  <2>4. 1 \in DOMAIN wire /\ event = wire[1]
    <3>1. PICK E : E = [task : Tasks, row : [version : Nat, at : Nat]]
      OBVIOUS
    <3>2. wire \in Seq(E)
      BY <1>1, <2>1, <3>1 DEF FeedOk
    <3> QED
      BY <2>1, <2>3, <3>2
  <2>5. event.row.version \in 0..ch
    BY <1>1, <1>2, <2>1, <2>4 DEF WireCapped, FeedOk, RowBy
  <2>6. card.version \in 0..ch /\ card.moved \in 0..d
    BY <1>2, <2>2, <2>5 DEF Shown
  <2>7. \A o \in Tasks : cards'[o] = card \/ cards'[o] = old[o]
    BY <1>7, <2>3
  <2> QED
    BY <1>5, <2>6, <2>7
<1>10. CASE MoveStarts
  <2>1. PICK t \in Tasks : cards[t] # NoRow /\ dragged' = dragged + 1
                           /\ cards' = [cards EXCEPT ![t].moved = dragged + 1]
    BY <1>10 DEF MoveStarts
  <2>2. PICK was : was = old[t]
    OBVIOUS
  <2>3. PICK card : card = [was EXCEPT !.moved = d]
    OBVIOUS
  <2>4. cards' = [old EXCEPT ![t] = card]
    BY <1>2, <2>1, <2>2, <2>3
  <2>5. was.version \in 0..ch /\ was \in CardBy(Len(log))
    BY <1>1, <1>2, <1>3, <2>1, <2>2 DEF CardsCapped, CardList
  <2>6. card.version = was.version /\ card.moved = d
    BY <2>3, <2>5 DEF CardBy
  <2>7. \A o \in Tasks : cards'[o] = card \/ cards'[o] = old[o]
    BY <1>7, <2>4
  <2>8. d \in 0..d
    BY <1>2
  <2> QED
    BY <1>5, <2>5, <2>6, <2>7, <2>8
<1>11. CASE MoveAnswered
  <2>1. PICK m \in moves : cards' = [cards EXCEPT ![m.task] = IF @ = NoRow THEN NoRow ELSE Shown(m)]
    BY <1>11 DEF MoveAnswered
  <2>2. m.task \in Tasks /\ row[m.task] # NoRow /\ m.version \in 0..row[m.task].version
    BY <1>1 DEF PageOk, MoveTyped
  <2>3. m.version \in 0..ch
    BY <1>2, <1>6, <2>2
  <2>4. PICK card : card = Shown(m)
    OBVIOUS
  <2>5. card.version \in 0..ch /\ card.moved \in 0..d
    BY <1>2, <2>3, <2>4 DEF Shown
  <2>6. PICK new : new = IF old[m.task] = NoRow THEN NoRow ELSE card
    OBVIOUS
  <2>7. cards' = [old EXCEPT ![m.task] = new]
    BY <1>2, <2>1, <2>4, <2>6
  <2>8. \A o \in Tasks : cards'[o] = card \/ cards'[o] = old[o]
    BY <1>7, <2>6, <2>7
  <2> QED
    BY <1>5, <2>5, <2>8
<1>12. CASE MoveFails
  <2>1. PICK m \in moves : cards' = m.previous
    BY <1>12 DEF MoveFails
  <2>2. PICK cs : cs = m.previous
    OBVIOUS
  <2>3. CardsCapped(cs)'
    BY <1>3, <2>2 DEF PageCapped, MoveCapped
  <2> QED
    BY <2>1, <2>2, <2>3
<1>13. CASE OthersWrite \/ EventStamped \/ EventStored \/ HandlerDies
  BY <1>4, <1>13 DEF OthersWrite, EventStamped, EventStored, HandlerDies
<1>14. CASE FeedAccepted \/ FeedPolls \/ FeedConnects \/ FeedBreaks \/ MoveStored
  BY <1>4, <1>14 DEF FeedAccepted, FeedPolls, FeedConnects, FeedBreaks, MoveStored
<1>15. CASE UNCHANGED cardsVars
  BY <1>4, <1>15 DEF cardsVars
<1> QED
  BY <1>8, <1>9, <1>10, <1>11, <1>12, <1>13, <1>14, <1>15 DEF CardsNext, CardsServer, CardsPage

(* Moves after a step. *)
LEMMA MovesAfter ==
    ASSUME CardsInv, PageCapped, [CardsNext]_cardsVars,
           changes' \in Nat, changes <= changes', dragged \in Nat, dragged' \in Nat, dragged <= dragged'
    PROVE  \A m \in moves' : MoveCapped(m)'
<1>1. changes \in Nat /\ \A m \in moves : MoveTyped(m)
  BY DEF CardsInv, BoardTables, RowsOk, PageOk
<1>2. (\A m : MoveCapped(m) => MoveCapped(m)') /\ \A m \in moves : MoveCapped(m)
  BY <1>1, CapsRise DEF PageCapped
<1>3. ASSUME NEW m \in moves, NEW n, n.id = m.id, n.previous = m.previous
      PROVE  MoveCapped(n)'
  <2>1. MoveCapped(m)'
    BY <1>2
  <2> QED
    BY <1>3, <2>1 DEF MoveCapped, CardsCapped
<1>4. CASE moves' \subseteq moves
  BY <1>2, <1>4
<1>5. CASE EventStored
  <2>1. PICK h \in handlers : moves' = {[m EXCEPT !.done = @ \/ m.version = h.version] : m \in moves}
    BY <1>5 DEF EventStored
  <2>2. ASSUME NEW m \in moves, NEW n, n = [m EXCEPT !.done = @ \/ m.version = h.version]
        PROVE  MoveCapped(n)'
    <3>1. n = [id |-> m.id, task |-> m.task, previous |-> m.previous, version |-> m.version,
               at |-> m.at, done |-> (m.done \/ m.version = h.version)]
      BY <1>1, <2>2 DEF MoveTyped
    <3>2. n.id = m.id /\ n.previous = m.previous
      BY <3>1
    <3> QED
      BY <1>3, <3>2
  <2> QED
    BY <2>1, <2>2
<1>6. CASE MoveStarts
  <2>0. PICK t \in Tasks :
           /\ moves' = moves \cup {[id |-> dragged + 1, task |-> t, previous |-> cards,
                                   version |-> 0, at |-> 1, done |-> FALSE]}
           /\ dragged' = dragged + 1
    BY <1>6 DEF MoveStarts
  <2>1. PICK new :
           /\ new = [id |-> dragged + 1, task |-> t, previous |-> cards, version |-> 0, at |-> 1,
                     done |-> FALSE]
           /\ moves' = moves \cup {new} /\ dragged' = dragged + 1
    BY <2>0
  <2>2. new.id \in 1..dragged' /\ new.previous = cards
    BY <2>1
  <2>3. PICK cs : cs = cards
    OBVIOUS
  <2>4. CardsCapped(cs)'
    BY <1>1, <2>3, CapsRise DEF PageCapped
  <2>5. MoveCapped(new)'
    BY <2>2, <2>3, <2>4 DEF MoveCapped
  <2> QED
    BY <1>2, <2>1, <2>5
<1>7. CASE MoveStored
  <2>1. PICK m \in moves : moves' = (moves \ {m}) \cup
                              {[m EXCEPT !.version = changes', !.at = row'[m.task].at]}
    BY <1>7 DEF MoveStored
  <2>2. PICK n : n = [m EXCEPT !.version = changes', !.at = row'[m.task].at]
    OBVIOUS
  <2>3. n.id = m.id /\ n.previous = m.previous
    <3>1. m = [id |-> m.id, task |-> m.task, previous |-> m.previous, version |-> m.version,
               at |-> m.at, done |-> m.done]
      BY <1>1 DEF MoveTyped
    <3>2. PICK v, a : v = changes' /\ a = row'[m.task].at
      OBVIOUS
    <3>3. n = [id |-> m.id, task |-> m.task, previous |-> m.previous, version |-> v, at |-> a,
               done |-> m.done]
      BY <2>2, <3>1, <3>2
    <3> QED
      BY <3>3
  <2>4. MoveCapped(n)'
    BY <1>3, <2>3
  <2>5. moves' = (moves \ {m}) \cup {n}
    BY <2>1, <2>2
  <2> QED
    BY <1>2, <2>4, <2>5
<1>8. CASE OthersWrite \/ EventStamped \/ HandlerDies \/ FeedAccepted \/ FeedPolls
  BY <1>4, <1>8 DEF OthersWrite, EventStamped, HandlerDies, FeedAccepted, FeedPolls, moveVars
<1>9. CASE LoadBoard \/ FeedConnects \/ FeedEvent \/ FeedBreaks \/ MoveAnswered \/ MoveFails
  BY <1>4, <1>9 DEF LoadBoard, FeedConnects, FeedEvent, FeedBreaks, MoveAnswered, MoveFails, moveVars
<1>10. CASE UNCHANGED cardsVars
  BY <1>4, <1>10 DEF cardsVars
<1> QED
  BY <1>5, <1>6, <1>7, <1>8, <1>9, <1>10 DEF CardsNext, CardsServer, CardsPage

(* The types are kept along with the tables. *)
LEMMA NextBoardTyped == CardsInv /\ BoardTyped /\ [CardsNext]_cardsVars => BoardTyped'
<1> SUFFICES ASSUME CardsInv, BoardTyped, [CardsNext]_cardsVars PROVE BoardTyped'
  OBVIOUS
<1>1. EventsCounted /\ PageCapped /\ WireCapped /\ WordsKnown /\ dragged <= MaxMoves
  BY DEF BoardTyped
<1>2. EventsCounted' /\ changes' \in Nat /\ changes <= changes'
  BY <1>1, CountsAfter
<1>3. dragged \in Nat /\ dragged' \in Nat /\ dragged <= dragged' /\ dragged' <= MaxMoves
  BY <1>1, DragsAfter
<1>4. PageCapped'
  BY <1>1, <1>2, <1>3, CardsAfter, MovesAfter DEF PageCapped
<1>5. WireCapped' /\ WordsKnown'
  BY <1>1, <1>2, WireAfter, WordsAfter
<1> QED
  BY <1>2, <1>3, <1>4, <1>5 DEF BoardTyped

(* CardsTypeOK: no version, move or event is known to the page, and no event *)
(* is in the log, that no change and no move has made.                       *)
THEOREM CardsAreTyped == CardsSpec => []CardsTypeOK
<1>1. CardsInit => BoardTyped
  <2> SUFFICES ASSUME CardsInit PROVE BoardTyped
    OBVIOUS
  <2>1. /\ changes = 0 /\ handlers = {} /\ log = <<>> /\ cards = [t \in Tasks |-> NoRow]
        /\ moves = {} /\ dragged = 0 /\ feed = NoFeed /\ reasons = {}
    BY DEF CardsInit
  <2>2. {MaxChanges, MaxMoves} \subseteq Nat
    BY CardsAssumption
  <2>3. EventsCounted
    <3>1. Unstamped = {} /\ Len(log) = 0
      BY <2>1 DEF Unstamped
    <3>2. IsFiniteSet(Unstamped) /\ Cardinality(Unstamped) = 0
      BY <3>1, FS_EmptySet
    <3> QED
      BY <2>1, <2>2, <3>1, <3>2 DEF EventsCounted
  <2>4. PageCapped
    BY <2>1 DEF PageCapped, CardsCapped
  <2>5. feed.wire = <<>> /\ feed.phase = "off"
    BY <2>1 DEF NoFeed
  <2>6. WireCapped
    BY <2>5, NoRowEvents DEF WireCapped
  <2>7. WordsKnown /\ dragged <= MaxMoves
    <3>1. loaded = FALSE
      BY DEF CardsInit
    <3>2. dragged <= MaxMoves
      BY <2>1, <2>2
    <3>3. WordsKnown
      BY <2>1, <2>5, <3>1 DEF WordsKnown
    <3> QED
      BY <3>2, <3>3
  <2> QED
    BY <2>3, <2>4, <2>6, <2>7 DEF BoardTyped
<1>2. CardsInv /\ BoardTyped => CardsTypeOK
  <2> SUFFICES ASSUME CardsInv, BoardTyped PROVE CardsTypeOK
    OBVIOUS
  <2>1. RowsOk /\ LogOk /\ HandlersOk /\ PageOk /\ FeedOk
    BY DEF CardsInv, BoardTables
  <2>2. {MaxChanges, MaxMoves} \subseteq Nat
    BY CardsAssumption
  <2>3. changes \in 0..MaxChanges /\ dragged \in 0..MaxMoves /\ Len(log) \in Nat /\ Len(log) <= changes
    <3>1. Cardinality(Unstamped) \in Nat /\ Len(log) + Cardinality(Unstamped) <= changes
      BY FS_CardinalityType DEF BoardTyped, EventsCounted
    <3> QED
      BY <2>1, <2>2, <3>1, LogAt DEF BoardTyped, EventsCounted, RowsOk, PageOk
  <2>4. \A a \in 1..Len(log) + 1 : a \in 1..MaxChanges + 1
    BY <2>2, <2>3
  <2>5. row \in [Tasks -> Row \cup {NoRow}]
    <3>1. ASSUME NEW t \in Tasks, row[t] # NoRow PROVE row[t] \in Row
      <4>1. row[t] \in RowBy(Len(log)) /\ row[t].version <= changes
        BY <2>1, <3>1 DEF RowsOk
      <4> QED
        BY <2>2, <2>3, <2>4, <4>1 DEF RowBy, Row
    <3> QED
      BY <2>1, <3>1 DEF RowsOk
  <2>6. cards \in [Tasks -> Card \cup {NoRow}]
    <3>1. CardList(cards, Len(log)) /\ CardsCapped(cards)
      BY <2>1 DEF PageOk, BoardTyped, PageCapped
    <3>2. ASSUME NEW t \in Tasks, cards[t] # NoRow PROVE cards[t] \in Card
      <4>1. /\ cards[t] \in CardBy(Len(log))
            /\ cards[t].version \in 0..changes /\ cards[t].moved \in 0..dragged
        BY <3>1, <3>2 DEF CardList, CardsCapped
      <4> QED
        BY <2>2, <2>3, <2>4, <4>1 DEF CardBy, Card
    <3> QED
      BY <3>1, <3>2 DEF CardList
  <2>7. \A h \in handlers : h.version \in 1..changes /\ h.task \in Tasks
    BY <2>1, <2>3 DEF HandlersOk, HandlerTyped, BoardTyped, EventsCounted
  <2>8. \A m \in moves : m.id \in 1..dragged /\ m.version \in 0..changes
    <3>1. ASSUME NEW m \in moves PROVE m.version \in 0..changes
      <4>1. m.task \in Tasks /\ row[m.task] # NoRow /\ m.version \in 0..row[m.task].version
        BY <2>1 DEF PageOk, MoveTyped
      <4>2. row[m.task].version \in Nat /\ row[m.task].version <= changes
        BY <2>1, <4>1 DEF RowsOk, RowBy
      <4> QED
        BY <2>3, <4>1, <4>2
    <3> QED
      BY <3>1 DEF BoardTyped, PageCapped, MoveCapped
  <2>9. /\ loaded \in BOOLEAN /\ (feed.phase # "off" => loaded) /\ feed.seen \subseteq DOMAIN log
        /\ feed.phase \in {"off", "asked", "open", "waiting"} /\ reasons \subseteq Reasons
    BY <2>1 DEF FeedOk, BoardTyped, WordsKnown
  <2> QED
    BY <2>3, <2>5, <2>6, <2>7, <2>8, <2>9 DEF CardsTypeOK
<1> QED
  BY <1>1, <1>2, NextBoardTyped, CardsInvariance, InitCards, NextCards, PTL DEF CardsSpec

-----------------------------------------------------------------------------
(***************************************************************************)
(* The chat.  What an answer brings belongs to the session it was asked    *)
(* for, and an answer that is taken in its own run of the effect was asked *)
(* for by the session on display.  What a first page replaces is no less   *)
(* than a page while there is more.                                        *)
(***************************************************************************)
(* Stamps are taken one after another, and what is stored stays. *)
RowTyped(r) ==
    /\ r = [session |-> r.session, by |-> r.by, stored |-> r.stored]
    /\ r.session \in Sessions \cup {NoSession} /\ r.stored \in BOOLEAN
    /\ r.stored => r.session # NoSession

(* Stamps are taken without a gap. *)
MessagesOk ==
    /\ rows = [m \in Stamps |-> rows[m]]
    /\ \A m \in Stamps : RowTyped(rows[m])
    /\ \E k \in 0..MaxMessages : Taken = 1..k

(* A run of the fetch effect is named by the act it ran for. *)
TurnsOk ==
    /\ {session, rendered} \subseteq Sessions
    /\ acts \in Nat /\ turn \in 0..acts
    /\ rendered # session => open /\ turn < acts

(* A request belongs to a run that has been, and to its session. *)
InTurn(q) == q.turn \in 0..turn /\ q.session \in Sessions /\ (q.turn = turn => q.session = session)

(* A first page is of its session, and full when there is more than it holds. *)
LoadTyped(q) ==
    /\ q = [session |-> q.session, turn |-> q.turn, answered |-> q.answered, items |-> q.items,
            total |-> q.total]
    /\ InTurn(q)
    /\ q.answered =>
          /\ q.items \subseteq Stored(q.session) /\ Cardinality(q.items) \in 0..PageSize
          /\ q.total \in Nat /\ (q.total > Cardinality(q.items) => Cardinality(q.items) = PageSize)

(* The messages that are not older than all of a list. *)
Reached(S, msgs) == {m \in S : \E n \in msgs : n <= m}
Reach(s, msgs) == Cardinality(Reached(Stored(s), msgs))

(* An older page lies behind as many messages as its offset says. *)
OlderTyped(q) ==
    /\ q = [session |-> q.session, turn |-> q.turn, offset |-> q.offset, answered |-> q.answered,
            items |-> q.items, total |-> q.total]
    /\ InTurn(q) /\ q.offset \in Nat
    /\ q.answered =>
          /\ q.items \subseteq Stored(q.session) /\ Cardinality(q.items) \in Nat
          /\ q.items # {} => q.offset + Cardinality(q.items) <= Reach(q.session, q.items)
          /\ q.total \in Nat

(* A message that is sent is stored in the session it was sent in. *)
SendingTyped(q) ==
    /\ q = [session |-> q.session, turn |-> q.turn, msg |-> q.msg, hasMore |-> q.hasMore]
    /\ InTurn(q) /\ q.msg \in 0..MaxMessages /\ q.hasMore \in BOOLEAN
    /\ q.msg # 0 => rows[q.msg].session = q.session

(* A run of the fetch effect asks once; one older page, one message at a time. *)
LoadsOk ==
    /\ \A q \in loads : LoadTyped(q)
    /\ \A q, r \in loads : q.turn = r.turn => q = r
OlderOk == older # None => OlderTyped(older)
SendingOk == sending # None => SendingTyped(sending)

(* The stream has events of the session that it was connected for. *)
StreamOk ==
    /\ stream = [phase |-> stream.phase, since |-> stream.since, wire |-> stream.wire]
    /\ stream.wire \subseteq Stored(session)

(* The tab keeps a count, and an entry for each session it has shown. *)
EntriesOk ==
    /\ cache = [s \in Sessions |-> cache[s]]
    /\ \A s \in Sessions : cache[s] # None =>
          /\ cache[s] = [messages |-> cache[s].messages, hasMore |-> cache[s].hasMore,
                         fetched |-> cache[s].fetched, fresh |-> cache[s].fresh]
          /\ cache[s].messages \subseteq Stamps
          /\ cache[s].fetched \in Nat /\ cache[s].hasMore \in BOOLEAN

(* The list on display and its count. *)
TabOk ==
    /\ thread \subseteq Stamps /\ fetched \in Nat /\ hasMore \in BOOLEAN
    /\ {crossed, emptied} \subseteq BOOLEAN
    /\ EntriesOk

(* What rows, tab, requests and stream hold. *)
ChatTables == MessagesOk /\ TurnsOk /\ LoadsOk /\ OlderOk /\ SendingOk /\ StreamOk /\ TabOk

(* Lists and entries are of their session. *)
OwnThread == thread \subseteq Stored(session)
OwnEntries == \A s \in Sessions : cache[s] # None => cache[s].messages \subseteq Stored(s)

(* A count stands for messages that are there, and is a page while there is more. *)
Counts(s, msgs, count, more) == count <= Reach(s, msgs) /\ (more => PageSize <= count)

(* The list on display and the lists of the cache count that way. *)
ThreadCounts == Counts(session, thread, fetched, hasMore)
EntriesCount ==
    \A s \in Sessions : cache[s] # None =>
        Counts(s, cache[s].messages, cache[s].fetched, cache[s].hasMore)

(* What a first page replaces is not more than it; an older page and a      *)
(* message that is sent were asked for with a page on display.              *)
LoadsCount ==
    \A q \in loads :
        q.turn = turn /\ q.answered /\ PageSize <= fetched => Cardinality(q.items) = PageSize
OlderCounts ==
    older # None => (older.turn = turn => PageSize <= fetched /\ fetched <= older.offset)
SendingCounts ==
    sending # None => (sending.turn = turn /\ sending.hasMore => PageSize <= fetched)

CountsOk == ThreadCounts /\ EntriesCount /\ LoadsCount /\ OlderCounts /\ SendingCounts

(* The inductive invariant of the chat. *)
ChatInv ==
    /\ ChatTables
    /\ ~ crossed => OwnThread /\ OwnEntries
    /\ ~ crossed /\ ~ emptied => CountsOk
-----------------------------------------------------------------------------
(* Longer lists reach more of more messages. *)
LEMMA ReachGrows ==
    ASSUME NEW S, NEW T, IsFiniteSet(T), S \subseteq T, NEW few, NEW many, few \subseteq many
    PROVE  /\ Cardinality(Reached(S, few)) \in Nat
           /\ Cardinality(Reached(T, many)) \in Nat
           /\ Cardinality(Reached(S, few))
                 <= Cardinality(Reached(T, many))
<1> DEFINE A == Reached(S, few)
           B == Reached(T, many)
<1>1. A \in SUBSET B /\ B \in SUBSET T
  BY DEF Reached
<1> HIDE DEF A, B
<1>2. IsFiniteSet(A) /\ IsFiniteSet(B) /\ Cardinality(A) <= Cardinality(B)
  BY <1>1, FS_Subset
<1>3. Cardinality(A) \in Nat /\ Cardinality(B) \in Nat
  BY <1>2, FS_CardinalityType
<1> QED
  BY <1>2, <1>3 DEF A, B

(* A list of messages that are there is no longer than what it reaches. *)
LEMMA ReachCounts ==
    ASSUME NEW S \in SUBSET Nat, IsFiniteSet(S), NEW few \in SUBSET S
    PROVE  /\ Cardinality(few) \in Nat
           /\ Cardinality(Reached(S, few)) \in Nat
           /\ Cardinality(few) <= Cardinality(Reached(S, few))
<1> DEFINE B == Reached(S, few)
<1>1. few \in SUBSET B /\ B \in SUBSET S
  <2>1. \A n \in few : n \in S /\ n <= n
    OBVIOUS
  <2> QED
    BY <2>1 DEF Reached
<1> HIDE DEF B
<1>2. IsFiniteSet(few) /\ IsFiniteSet(B) /\ Cardinality(few) <= Cardinality(B)
  BY <1>1, FS_Subset
<1>3. Cardinality(few) \in Nat /\ Cardinality(B) \in Nat
  BY <1>2, FS_CardinalityType
<1> QED
  BY <1>2, <1>3 DEF B

(* In a finite set of numbers each has its own count of greater ones, and   *)
(* every count less than the size occurs.                                   *)
LEMMA NewerRanks ==
    ASSUME NEW S \in SUBSET Nat, IsFiniteSet(S)
    PROVE  /\ Cardinality(S) \in Nat
           /\ \A m \in S : Cardinality({n \in S : n > m}) \in 0..(Cardinality(S) - 1)
           /\ \A m, n \in S : m < n =>
                 Cardinality({k \in S : k > m}) # Cardinality({k \in S : k > n})
           /\ \A i \in 0..(Cardinality(S) - 1) :
                 \E m \in S : Cardinality({n \in S : n > m}) = i
<1> DEFINE Newer(m) == {n \in S : n > m}
           Rank(m) == Cardinality(Newer(m))
           rank == [m \in S |-> Rank(m)]
<1>1. Cardinality(S) \in Nat
  BY FS_CardinalityType
<1>2. ASSUME NEW m \in S
      PROVE  IsFiniteSet(Newer(m)) /\ Rank(m) \in 0..(Cardinality(S) - 1)
  <2>1. Newer(m) \in SUBSET S /\ m \notin Newer(m)
    OBVIOUS
  <2> HIDE DEF Newer
  <2>2. IsFiniteSet(Newer(m)) /\ Cardinality(Newer(m)) <= Cardinality(S)
        /\ Cardinality(Newer(m)) # Cardinality(S)
    BY <2>1, FS_Subset
  <2>3. Cardinality(Newer(m)) \in Nat
    BY <2>2, FS_CardinalityType
  <2> QED
    BY <1>1, <2>2, <2>3
<1>3. ASSUME NEW m \in S, NEW n \in S, m < n PROVE Rank(m) # Rank(n)
  <2>0. \A k \in S : k \in Nat
    OBVIOUS
  <2>1. Newer(n) \in SUBSET Newer(m)
    <3>1. \A k \in S : k > n => k > m
      BY <1>3, <2>0
    <3> QED
      BY <3>1
  <2>2. n \in Newer(m) /\ n \notin Newer(n)
    BY <1>3, <2>0
  <2> HIDE DEF Newer
  <2>3. IsFiniteSet(Newer(m)) /\ (Cardinality(Newer(m)) = Cardinality(Newer(n)) => Newer(m) = Newer(n))
    BY <1>2, <2>1, FS_Subset
  <2> QED
    BY <2>2, <2>3
<1>4. \A m, n \in S : Rank(m) = Rank(n) => m = n
  <2>1. \A m, n \in S : m < n \/ m = n \/ n < m
    OBVIOUS
  <2> HIDE DEF Rank
  <2> QED
    BY <1>3, <2>1
<1>5. \A i \in 0..(Cardinality(S) - 1) : \E m \in S : Rank(m) = i
  <2> HIDE DEF Rank
  <2>1. rank \in [S -> 0..(Cardinality(S) - 1)]
    BY <1>2
  <2>2. rank \in Injection(S, 0..(Cardinality(S) - 1))
    BY <1>4, <2>1 DEF Injection, IsInjective
  <2>3. IsFiniteSet(0..(Cardinality(S) - 1))
        /\ Cardinality(0..(Cardinality(S) - 1)) = Cardinality(S)
    <3>1. PICK k \in Nat : k = Cardinality(S)
      BY <1>1
    <3>2. IsFiniteSet(0..(k - 1)) /\ Cardinality(0..(k - 1)) = k
      BY FS_Interval
    <3> QED
      BY <3>1, <3>2
  <2>4. rank \in Surjection(S, 0..(Cardinality(S) - 1))
    BY <2>2, <2>3, FS_Injection
  <2>5. \A i \in 0..(Cardinality(S) - 1) : \E m \in S : rank[m] = i
    BY <2>4 DEF Surjection
  <2> QED
    BY <2>5
<1> QED
  BY <1>1, <1>2, <1>3, <1>5

(* What LIMIT k OFFSET o of a newest first order returns: at most k rows, k  *)
(* of them when the first page is not all there is, and of later pages no   *)
(* more than what there is down to their oldest row.                        *)
PageOf(S, o, k) ==
    {m \in S : LET newer == Cardinality({n \in S : n > m})
               IN o <= newer /\ newer < o + k}

(* Its proof numbers the rows of a page by the newer rows of the whole. *)
LEMMA PageHolds ==
    ASSUME NEW S \in SUBSET Nat, IsFiniteSet(S), NEW o \in Nat, NEW k \in Nat \ {0},
           NEW P, P = PageOf(S, o, k)
    PROVE  /\ P \in SUBSET S /\ IsFiniteSet(P) /\ Cardinality(P) \in 0..k
           /\ (o = 0 /\ Cardinality(S) > Cardinality(P)) => Cardinality(P) = k
           /\ P # {} => o + Cardinality(P) <= Cardinality(Reached(S, P))
<1> DEFINE Newer(m) == {n \in S : n > m}
           Rank(m) == Cardinality(Newer(m))
           rank == [m \in P |-> Rank(m)]
           reached == Reached(S, P)
<1>0. P = {m \in S : o <= Rank(m) /\ Rank(m) < o + k}
  BY DEF PageOf
<1>1. P \in SUBSET S
  BY <1>0
<1>2. IsFiniteSet(P) /\ Cardinality(P) \in Nat /\ Cardinality(P) <= Cardinality(S)
      /\ (Cardinality(P) = Cardinality(S) => P = S)
  BY <1>1, FS_Subset, FS_CardinalityType
<1>3. /\ Cardinality(S) \in Nat
      /\ \A m \in S : Rank(m) \in 0..(Cardinality(S) - 1)
      /\ \A m, n \in S : m < n => Rank(m) # Rank(n)
      /\ \A i \in 0..(Cardinality(S) - 1) : \E m \in S : Rank(m) = i
  BY NewerRanks
<1>4. \A m, n \in S : m < n \/ m = n \/ n < m
  OBVIOUS
<1>5. rank \in Injection(P, o..(o + k - 1))
  <2> HIDE DEF Rank
  <2>1. \A m \in P : Rank(m) \in o..(o + k - 1)
    <3> SUFFICES ASSUME NEW m \in P PROVE Rank(m) \in o..(o + k - 1)
      OBVIOUS
    <3>1. Rank(m) \in Nat /\ o <= Rank(m) /\ Rank(m) < o + k
      BY <1>0, <1>3
    <3> QED
      BY <3>1
  <2>2. \A m, n \in P : Rank(m) = Rank(n) => m = n
    BY <1>1, <1>3, <1>4
  <2>3. rank \in [P -> o..(o + k - 1)]
    BY <2>1
  <2> QED
    BY <2>2, <2>3 DEF Injection, IsInjective
<1>6. IsFiniteSet(o..(o + k - 1)) /\ Cardinality(o..(o + k - 1)) = k
  BY FS_Interval
<1>7. Cardinality(P) <= k
  BY <1>5, <1>6, FS_Injection
<1>8. ASSUME o = 0, Cardinality(S) > Cardinality(P) PROVE Cardinality(P) = k
  <2> HIDE DEF Rank
  <2>1. PICK m \in S : m \notin P
    <3>1. Cardinality(P) # Cardinality(S)
      BY <1>2, <1>3, <1>8
    <3>2. P # S
      BY <3>1, Zenon
    <3> QED
      BY <1>1, <3>2
  <2>2. Rank(m) \in 0..(Cardinality(S) - 1) /\ ~ Rank(m) < k
    BY <1>0, <1>3, <1>8, <2>1
  <2>3. \A i \in 0..(k - 1) : \E n \in P : rank[n] = i
    <3> SUFFICES ASSUME NEW i \in 0..(k - 1) PROVE \E n \in P : rank[n] = i
      OBVIOUS
    <3>1. i \in 0..(Cardinality(S) - 1)
      BY <1>3, <2>2
    <3>2. PICK n \in S : Rank(n) = i
      BY <1>3, <3>1
    <3>3. n \in P
      BY <1>0, <1>8, <3>2
    <3> QED
      BY <3>2, <3>3
  <2>4. rank \in Surjection(P, o..(o + k - 1))
    BY <1>5, <1>8, <2>3 DEF Surjection, Injection
  <2> QED
    BY <1>5, <1>6, <2>4, FS_Injection
<1>9. ASSUME P # {} PROVE o + Cardinality(P) <= Cardinality(reached)
  <2>1. Max(P) \in P /\ \A n \in P : n <= Max(P)
    BY <1>1, <1>2, <1>9, MaxOf
  <2>2. PICK top \in P : \A n \in P : n <= top
    BY <2>1
  <2>3. Newer(top) \in SUBSET S /\ Newer(top) \cap P = {}
    <3>0. top \in Nat /\ \A n \in S : n \in Nat
      BY <1>1
    <3>1. \A n \in P : ~ n > top
      BY <1>1, <2>2, <3>0
    <3> QED
      BY <3>1
  <2>4. (Newer(top) \cup P) \in SUBSET reached /\ reached \in SUBSET S
    <3>0. top \in Nat /\ \A n \in S : n \in Nat
      BY <1>1
    <3>1. \A n \in S : n > top => top <= n
      BY <3>0
    <3>2. \A n \in P : n <= n
      BY <1>1, <3>0
    <3> QED
      BY <1>1, <3>1, <3>2 DEF Reached
  <2>5. IsFiniteSet(Newer(top)) /\ IsFiniteSet(reached)
    BY <2>3, <2>4, FS_Subset
  <2>6. Rank(top) \in Nat /\ o <= Rank(top)
    BY <1>0, <1>3
  <2> HIDE DEF Newer, reached
  <2>7. Cardinality(Newer(top) \cup P) = Cardinality(Newer(top)) + Cardinality(P) - Cardinality({})
    BY <1>2, <2>3, <2>5, FS_Union
  <2>8. Cardinality({}) = 0
    BY FS_EmptySet
  <2>9. Cardinality(Newer(top) \cup P) <= Cardinality(reached)
    BY <2>4, <2>5, FS_Subset
  <2>10. Cardinality(reached) \in Nat
    BY <2>5, FS_CardinalityType
  <2> QED
    BY <1>2, <2>6, <2>7, <2>8, <2>9, <2>10
<1> QED
  BY <1>1, <1>2, <1>7, <1>8, <1>9
-----------------------------------------------------------------------------
(* Messages that are stamped stay in their session, and stored ones stored. *)
MessagesKept ==
    \A m \in Taken : rows'[m].session = rows[m].session /\ (rows[m].stored => rows'[m].stored)

(* The messages of a session are finitely many stamps. *)
LEMMA StoredAre ==
    ASSUME MessagesOk
    PROVE  /\ Now \in 0..MaxMessages /\ Taken = 1..Now
           /\ \A s \in Sessions : Stored(s) \in SUBSET Nat /\ Stored(s) \subseteq Taken
           /\ \A s : IsFiniteSet(Stored(s))
<1>0. MaxMessages \in Nat /\ NoSession \notin Sessions
  BY ChatAssumption
<1>1. PICK k \in 0..MaxMessages : Taken = 1..k
  BY DEF MessagesOk
<1>2. Now = k
  <2>1. Cardinality(1..k) = k
    <3>1. k \in Nat
      BY <1>0
    <3> QED
      BY <3>1, FS_Interval
  <2> QED
    BY <1>1, <2>1 DEF Now
<1>3. \A s \in Sessions : Stored(s) \subseteq Taken
  BY <1>0 DEF Stored, Taken
<1>4. \A s : Stored(s) \in SUBSET Stamps
  BY DEF Stored
<1>5. IsFiniteSet(Stamps) /\ Stamps \subseteq Nat
  BY <1>0, FS_Interval DEF Stamps
<1>6. \A s : IsFiniteSet(Stored(s))
  BY <1>4, <1>5, FS_Subset
<1> QED
  BY <1>1, <1>2, <1>3, <1>4, <1>5, <1>6

(* What is built is one more message of its session, not stored yet. *)
LEMMA StampKeeps ==
    ASSUME MessagesOk, NEW s \in Sessions, NEW by, Stamp(s, by)
    PROVE  MessagesOk' /\ MessagesKept /\ Now + 1 \in Stamps /\ rows'[Now + 1].session = s
<1> DEFINE new == [session |-> s, by |-> by, stored |-> FALSE]
<1>0. MaxMessages \in Nat /\ NoSession \notin Sessions /\ s # NoSession
  BY ChatAssumption
<1>1. PICK k : k = Now
  OBVIOUS
<1>2. k \in 0..MaxMessages /\ Taken = 1..k /\ k < MaxMessages
  BY <1>1, StoredAre DEF Stamp
<1>3. k + 1 \in Stamps /\ k + 1 \notin Taken
  BY <1>0, <1>2 DEF Stamps
<1>4. rows' = [rows EXCEPT ![k + 1] = new]
  BY <1>1 DEF Stamp
<1>5. rows = [m \in Stamps |-> rows[m]] /\ \A m \in Stamps : RowTyped(rows[m])
  BY DEF MessagesOk
<1>6. rows' = [m \in Stamps |-> IF m = k + 1 THEN new ELSE rows[m]]
  BY <1>4, <1>5
<1>7. RowTyped(new)
  BY DEF RowTyped
<1>8. rows' = [m \in Stamps |-> rows'[m]] /\ \A m \in Stamps : RowTyped(rows'[m])
  <2> HIDE DEF new
  <2>1. \A m \in Stamps : rows'[m] = IF m = k + 1 THEN new ELSE rows[m]
    BY <1>6
  <2>2. \A m \in Stamps : RowTyped(rows'[m])
    BY <1>5, <1>7, <2>1
  <2> QED
    BY <1>6, <2>1, <2>2
<1>9. rows'[k + 1].session = s /\ \A m \in Stamps : m # k + 1 => rows'[m] = rows[m]
  BY <1>3, <1>6
<1>10. Taken' = 1..(k + 1)
  <2>1. \A m \in Stamps : rows'[m].session # NoSession <=> m \in Taken \/ m = k + 1
    BY <1>0, <1>9 DEF Taken
  <2>2. \A m : m \in 1..(k + 1) <=> m \in Stamps /\ (m \in 1..k \/ m = k + 1)
    BY <1>0, <1>2 DEF Stamps
  <2>3. Taken' = {m \in Stamps : rows'[m].session # NoSession}
    BY DEF Taken, Stamps
  <2> QED
    BY <1>2, <2>1, <2>2, <2>3
<1>11. MessagesOk'
  <2>1. k + 1 \in 0..MaxMessages
    BY <1>0, <1>2
  <2>2. Stamps' = Stamps /\ \A m \in Stamps : RowTyped(rows[m])'
    BY <1>8 DEF Stamps, RowTyped
  <2> QED
    BY <1>8, <1>10, <2>1, <2>2 DEF MessagesOk
<1>12. MessagesKept
  <2>1. \A m \in Taken : m \in Stamps /\ m # k + 1
    BY <1>3 DEF Taken
  <2> QED
    BY <1>9, <2>1 DEF MessagesKept
<1> QED
  BY <1>1, <1>3, <1>9, <1>11, <1>12

(* A row that is committed is the one that was built. *)
LEMMA CommitKeeps ==
    ASSUME MessagesOk, RowCommits
    PROVE  MessagesOk' /\ MessagesKept
<1>1. PICK m \in Taken : rows' = [rows EXCEPT ![m].stored = TRUE]
  BY DEF RowCommits
<1>2. m \in Stamps /\ rows[m].session # NoSession
  BY <1>1 DEF Taken
<1>3. rows = [n \in Stamps |-> rows[n]] /\ \A n \in Stamps : RowTyped(rows[n])
  BY DEF MessagesOk
<1>4. PICK new : new = [rows[m] EXCEPT !.stored = TRUE]
  OBVIOUS
<1>5. rows' = [n \in Stamps |-> IF n = m THEN new ELSE rows[n]]
  BY <1>1, <1>2, <1>3, <1>4
<1>6. new = [session |-> rows[m].session, by |-> rows[m].by, stored |-> TRUE]
  <2>1. rows[m] = [session |-> rows[m].session, by |-> rows[m].by, stored |-> rows[m].stored]
    BY <1>2, <1>3 DEF RowTyped
  <2> QED
    BY <1>4, <2>1
<1>7. new.session = rows[m].session /\ new.stored = TRUE /\ RowTyped(new)
  <2>1. rows[m].session \in Sessions \cup {NoSession}
    BY <1>2, <1>3 DEF RowTyped
  <2> QED
    BY <1>2, <1>6, <2>1 DEF RowTyped
<1>8. \A n \in Stamps : /\ RowTyped(rows'[n])
                        /\ rows'[n].session = rows[n].session
                        /\ rows[n].stored => rows'[n].stored
  <2>1. rows'[m] = new /\ \A n \in Stamps : n # m => rows'[n] = rows[n]
    BY <1>2, <1>5
  <2> QED
    BY <1>2, <1>3, <1>7, <2>1
<1>9. Stamps' = Stamps /\ Taken' = Taken
  BY <1>8 DEF Stamps, Taken
<1>10. MessagesOk'
  <2>1. \A n \in Stamps : RowTyped(rows[n])'
    BY <1>8, <1>9 DEF RowTyped
  <2>2. rows' = [n \in Stamps |-> rows'[n]]
    BY <1>5
  <2> QED
    BY <1>9, <2>1, <2>2 DEF MessagesOk
<1> QED
  BY <1>2, <1>8, <1>10 DEF MessagesKept, Taken

(* A step that touches no message keeps them all. *)
LEMMA SameMessages ==
    ASSUME MessagesOk, UNCHANGED rows
    PROVE  MessagesOk' /\ MessagesKept
  BY DEF MessagesOk, MessagesKept, Taken, Stamps, RowTyped

(* What is stored stays, and what a list reaches does not become less. *)
LEMMA StoredKept ==
    ASSUME MessagesOk, MessagesOk', MessagesKept
    PROVE  /\ \A s \in Sessions : Stored(s) \subseteq Stored(s)'
           /\ \A s \in Sessions : \A msgs :
                 Reach(s, msgs) \in Nat /\ Reach(s, msgs)' \in Nat /\ Reach(s, msgs) <= Reach(s, msgs)'
<1>1. ASSUME NEW s \in Sessions PROVE Stored(s) \subseteq Stored(s)'
  <2>1. Stored(s)' = {m \in Stamps : rows'[m].session = s /\ rows'[m].stored}
    BY DEF Stored, Stamps
  <2>2. Stored(s) \subseteq Taken
    BY StoredAre
  <2>3. \A m \in Stored(s) : m \in Stamps /\ rows[m].session = s /\ rows[m].stored
    BY DEF Stored
  <2> QED
    BY <2>1, <2>2, <2>3 DEF MessagesKept
<1>2. ASSUME NEW s \in Sessions, NEW msgs
      PROVE  Reach(s, msgs) \in Nat /\ Reach(s, msgs)' \in Nat /\ Reach(s, msgs) <= Reach(s, msgs)'
  <2>1. PICK S, T : S = Stored(s) /\ T = Stored(s)'
    OBVIOUS
  <2>2. IsFiniteSet(T)
    <3>1. T \in SUBSET Stamps
      BY <2>1 DEF Stored, Stamps
    <3>2. IsFiniteSet(Stamps)
      BY ChatAssumption, FS_Interval DEF Stamps
    <3> QED
      BY <3>1, <3>2, FS_Subset
  <2>3. /\ Reach(s, msgs) = Cardinality(Reached(S, msgs))
        /\ Reach(s, msgs)' = Cardinality(Reached(T, msgs))
    BY <2>1 DEF Reach, Reached
  <2>4. S \subseteq T
    BY <1>1, <2>1
  <2>5. /\ Cardinality(Reached(S, msgs)) \in Nat
        /\ Cardinality(Reached(T, msgs)) \in Nat
        /\ Cardinality(Reached(S, msgs)) <= Cardinality(Reached(T, msgs))
    BY <2>2, <2>4, ReachGrows
  <2> QED
    BY <2>3, <2>5
<1> QED
  BY <1>1, <1>2

(* What a step leaves alone stays right, whatever messages were added. *)
LEMMA LoadKept ==
    ASSUME MessagesOk, MessagesOk', MessagesKept, UNCHANGED <<session, turn>>,
           NEW q, LoadTyped(q)
    PROVE  LoadTyped(q)'
<1>1. q.session \in Sessions
  BY DEF LoadTyped, InTurn
<1>2. Stored(q.session) \subseteq Stored(q.session)'
  BY <1>1, StoredKept
<1>3. InTurn(q)'
  BY DEF LoadTyped, InTurn
<1> QED
  BY <1>2, <1>3 DEF LoadTyped

(* So does an older page. *)
LEMMA OlderKept ==
    ASSUME MessagesOk, MessagesOk', MessagesKept, UNCHANGED <<session, turn>>,
           NEW q, OlderTyped(q)
    PROVE  OlderTyped(q)'
<1>1. q.session \in Sessions /\ q.offset \in Nat /\ InTurn(q)'
  BY DEF OlderTyped, InTurn
<1>2. Stored(q.session) \subseteq Stored(q.session)'
  BY <1>1, StoredKept
<1>3. /\ Reach(q.session, q.items) \in Nat /\ Reach(q.session, q.items)' \in Nat
      /\ Reach(q.session, q.items) <= Reach(q.session, q.items)'
  BY <1>1, StoredKept
<1>4. ASSUME q.answered, q.items # {}
      PROVE  q.offset + Cardinality(q.items) <= Reach(q.session, q.items)'
  <2>1. /\ Cardinality(q.items) \in Nat
        /\ q.offset + Cardinality(q.items) <= Reach(q.session, q.items)
    BY <1>4 DEF OlderTyped
  <2> QED
    BY <1>1, <1>3, <2>1
<1> QED
  BY <1>1, <1>2, <1>4 DEF OlderTyped

(* So does a message under way. *)
LEMMA SendingKept ==
    ASSUME MessagesOk, MessagesOk', MessagesKept, UNCHANGED <<session, turn>>,
           NEW q, SendingTyped(q)
    PROVE  SendingTyped(q)'
<1>1. InTurn(q)' /\ q.session \in Sessions
  BY DEF SendingTyped, InTurn
<1>2. ASSUME q.msg # 0 PROVE rows'[q.msg].session = q.session
  <2>1. q.msg \in 0..MaxMessages /\ rows[q.msg].session = q.session
    BY <1>2 DEF SendingTyped
  <2>2. q.msg \in Taken
    BY <1>1, <1>2, <2>1, ChatAssumption DEF Taken, Stamps
  <2> QED
    BY <2>1, <2>2 DEF MessagesKept
<1> QED
  BY <1>1, <1>2 DEF SendingTyped

(* What a step leaves alone keeps its shape. *)
LEMMA TablesKept ==
    ASSUME ChatTables, MessagesOk', MessagesKept, UNCHANGED <<session, turn>>
    PROVE  /\ UNCHANGED loads => LoadsOk'
           /\ UNCHANGED older => OlderOk'
           /\ UNCHANGED sending => SendingOk'
           /\ UNCHANGED stream => StreamOk'
           /\ UNCHANGED <<thread, fetched, hasMore, crossed, emptied, cache>> => TabOk'
<1>0. MessagesOk /\ session \in Sessions
  BY DEF ChatTables, TurnsOk
<1>1. UNCHANGED loads => LoadsOk'
  BY <1>0, LoadKept DEF ChatTables, LoadsOk
<1>2. UNCHANGED older => OlderOk'
  BY <1>0, OlderKept DEF ChatTables, OlderOk
<1>3. UNCHANGED sending => SendingOk'
  BY <1>0, SendingKept DEF ChatTables, SendingOk
<1>4. UNCHANGED stream => StreamOk'
  <2>1. Stored(session) \subseteq Stored(session)'
    BY <1>0, StoredKept
  <2> QED
    BY <2>1 DEF ChatTables, StreamOk
<1>5. UNCHANGED <<thread, fetched, hasMore, crossed, emptied, cache>> => TabOk'
  BY DEF ChatTables, TabOk, EntriesOk, Stamps
<1> QED
  BY <1>1, <1>2, <1>3, <1>4, <1>5

(* Lists that a step leaves alone stay of their session. *)
LEMMA ListsKept ==
    ASSUME MessagesOk, TurnsOk, MessagesOk', MessagesKept, UNCHANGED session
    PROVE  /\ OwnThread /\ UNCHANGED thread => OwnThread'
           /\ OwnEntries /\ UNCHANGED cache => OwnEntries'
<1>1. session \in Sessions /\ \A s \in Sessions : Stored(s) \subseteq Stored(s)'
  BY StoredKept DEF TurnsOk
<1>2. OwnThread /\ UNCHANGED thread => OwnThread'
  BY <1>1 DEF OwnThread
<1>3. OwnEntries /\ UNCHANGED cache => OwnEntries'
  BY <1>1 DEF OwnEntries
<1> QED
  BY <1>2, <1>3

(* A count that was right stays right. *)
LEMMA CountKept ==
    ASSUME MessagesOk, MessagesOk', MessagesKept, NEW s \in Sessions, NEW msgs,
           NEW count \in Nat, NEW more, Counts(s, msgs, count, more)
    PROVE  Counts(s, msgs, count, more)'
<1>1. /\ Reach(s, msgs) \in Nat /\ Reach(s, msgs)' \in Nat
      /\ Reach(s, msgs) <= Reach(s, msgs)'
  BY StoredKept
<1> QED
  BY <1>1 DEF Counts

(* So do all counts that a step leaves alone. *)
LEMMA CountsKept ==
    ASSUME MessagesOk, TurnsOk, TabOk, MessagesOk', MessagesKept, UNCHANGED <<session, turn>>
    PROVE  /\ ThreadCounts /\ UNCHANGED <<thread, fetched, hasMore>> => ThreadCounts'
           /\ EntriesCount /\ UNCHANGED cache => EntriesCount'
           /\ LoadsCount /\ UNCHANGED <<loads, fetched>> => LoadsCount'
           /\ OlderCounts /\ UNCHANGED <<older, fetched>> => OlderCounts'
           /\ SendingCounts /\ UNCHANGED <<sending, fetched>> => SendingCounts'
<1>1. ASSUME ThreadCounts, UNCHANGED <<thread, fetched, hasMore>> PROVE ThreadCounts'
  <2>1. session \in Sessions /\ fetched \in Nat
    BY DEF TurnsOk, TabOk
  <2>2. PICK s, msgs, count, more :
           s = session /\ msgs = thread /\ count = fetched /\ more = hasMore
    OBVIOUS
  <2>3. Counts(s, msgs, count, more)
    BY <1>1, <2>2 DEF ThreadCounts
  <2>4. Counts(s, msgs, count, more)'
    BY <2>1, <2>2, <2>3, CountKept
  <2>5. s = session' /\ msgs = thread' /\ count = fetched' /\ more = hasMore'
    BY <1>1, <2>2
  <2> QED
    BY <2>4, <2>5 DEF ThreadCounts, Counts, Reach, Reached
<1>2. ASSUME EntriesCount, UNCHANGED cache PROVE EntriesCount'
  <2>1. ASSUME NEW s \in Sessions, cache[s] # None
        PROVE  Counts(s, cache[s].messages, cache[s].fetched, cache[s].hasMore)'
    <3>1. PICK e : e = cache[s]
      OBVIOUS
    <3>2. Counts(s, e.messages, e.fetched, e.hasMore) /\ e.fetched \in Nat /\ e = cache'[s]
      BY <1>2, <2>1, <3>1 DEF EntriesCount, TabOk, EntriesOk
    <3>3. Counts(s, e.messages, e.fetched, e.hasMore)'
      BY <3>2, CountKept
    <3> QED
      BY <3>2, <3>3 DEF Counts, Reach, Reached
  <2> QED
    BY <1>2, <2>1 DEF EntriesCount
<1>3. LoadsCount /\ UNCHANGED <<loads, fetched>> => LoadsCount'
  BY DEF LoadsCount
<1>4. OlderCounts /\ UNCHANGED <<older, fetched>> => OlderCounts'
  BY DEF OlderCounts
<1>5. SendingCounts /\ UNCHANGED <<sending, fetched>> => SendingCounts'
  BY DEF SendingCounts
<1> QED
  BY <1>1, <1>2, <1>3, <1>4, <1>5
-----------------------------------------------------------------------------
(* Steps that leave the lists, their counts and the requests alone. *)
LEMMA ChatKept ==
    ASSUME ChatInv, MessagesOk', MessagesKept, TurnsOk', StreamOk',
           UNCHANGED <<session, turn, thread, hasMore, fetched, cache, requestVars, historyVars>>
    PROVE  ChatInv'
<1>1. MessagesOk /\ TurnsOk /\ TabOk /\ ChatTables
  BY DEF ChatInv, ChatTables
<1>2. ChatTables'
  <2>1. LoadsOk' /\ OlderOk' /\ SendingOk' /\ TabOk'
    BY <1>1, TablesKept DEF requestVars, historyVars
  <2> QED
    BY <2>1 DEF ChatTables
<1>3. ~ crossed' => OwnThread' /\ OwnEntries'
  BY <1>1, ListsKept DEF ChatInv, historyVars
<1>4. ~ crossed' /\ ~ emptied' => CountsOk'
  BY <1>1, CountsKept DEF ChatInv, CountsOk, historyVars, requestVars
<1> QED
  BY <1>2, <1>3, <1>4 DEF ChatInv

(* Steps that leave all but the requests alone. *)
LEMMA RequestsKept ==
    ASSUME ChatInv, MessagesOk', MessagesKept, TurnsOk', LoadsOk', OlderOk', SendingOk',
           ~ crossed /\ ~ emptied /\ CountsOk => LoadsCount' /\ OlderCounts' /\ SendingCounts',
           UNCHANGED <<session, turn, thread, hasMore, fetched, cache, stream, historyVars>>
    PROVE  ChatInv'
<1>1. MessagesOk /\ TurnsOk /\ TabOk /\ ChatTables
  BY DEF ChatInv, ChatTables
<1>2. ChatTables'
  <2>1. StreamOk' /\ TabOk'
    BY <1>1, TablesKept DEF historyVars
  <2> QED
    BY <2>1 DEF ChatTables
<1>3. ~ crossed' => OwnThread' /\ OwnEntries'
  BY <1>1, ListsKept DEF ChatInv, historyVars
<1>4. ~ crossed' /\ ~ emptied' => CountsOk'
  BY <1>1, CountsKept DEF ChatInv, CountsOk, historyVars
<1> QED
  BY <1>2, <1>3, <1>4 DEF ChatInv

(* The agent takes a stamp for a message. *)
LEMMA AgentPostsStep == ChatInv /\ AgentPosts => ChatInv'
<1> SUFFICES ASSUME ChatInv, AgentPosts PROVE ChatInv'
  OBVIOUS
<1>1. MessagesOk /\ TurnsOk /\ ChatTables
  BY DEF ChatInv, ChatTables
<1>2. MessagesOk' /\ MessagesKept
  BY <1>1, StampKeeps DEF AgentPosts
<1>3. UNCHANGED <<tabVars, shownVars, cache, requestVars, stream, drops, historyVars>>
  BY DEF AgentPosts
<1>4. TurnsOk' /\ StreamOk'
  BY <1>1, <1>2, <1>3, TablesKept DEF TurnsOk, tabVars
<1> QED
  BY <1>2, <1>3, <1>4, ChatKept DEF tabVars, shownVars

(* A message is committed. *)
LEMMA RowCommitsStep == ChatInv /\ RowCommits => ChatInv'
<1> SUFFICES ASSUME ChatInv, RowCommits PROVE ChatInv'
  OBVIOUS
<1>1. MessagesOk /\ TurnsOk /\ ChatTables
  BY DEF ChatInv, ChatTables
<1>2. MessagesOk' /\ MessagesKept
  BY <1>1, CommitKeeps
<1>3. UNCHANGED <<tabVars, shownVars, cache, requestVars, stream, drops, historyVars>>
  BY DEF RowCommits
<1>4. TurnsOk' /\ StreamOk'
  BY <1>1, <1>2, <1>3, TablesKept DEF TurnsOk, tabVars
<1> QED
  BY <1>2, <1>3, <1>4, ChatKept DEF tabVars, shownVars

(* A new connection has no events on the wire. *)
LEMMA ReconnectsOk ==
    ASSUME NEW on, Reconnects(on)
    PROVE  StreamOk'
<1>1. PICK phase, since : stream' = [NoStream EXCEPT !.phase = phase, !.since = since]
  BY DEF Reconnects
<1>2. stream' = [phase |-> phase, since |-> since, wire |-> {}]
  BY <1>1 DEF NoStream
<1> QED
  BY <1>2 DEF StreamOk

(* The user selects a session; its effects run later. *)
LEMMA SelectSessionStep == ChatInv /\ SelectSession => ChatInv'
<1> SUFFICES ASSUME ChatInv, SelectSession PROVE ChatInv'
  OBVIOUS
<1>1. MessagesOk /\ TurnsOk /\ StreamOk /\ ChatTables
  BY DEF ChatInv, ChatTables
<1>2. UNCHANGED <<rows, session, open, turn, shownVars, cache, requestVars, stream, drops, historyVars>>
  BY DEF SelectSession
<1>3. MessagesOk' /\ MessagesKept
  BY <1>1, <1>2, SameMessages
<1>4. TurnsOk'
  BY <1>1, <1>2 DEF TurnsOk, SelectSession, Act
<1>5. StreamOk'
  BY <1>1, <1>2, <1>3, TablesKept
<1> QED
  BY <1>2, <1>3, <1>4, <1>5, ChatKept DEF shownVars

(* The panel is closed. *)
LEMMA ClosePanelStep == ChatInv /\ ClosePanel => ChatInv'
<1> SUFFICES ASSUME ChatInv, ClosePanel PROVE ChatInv'
  OBVIOUS
<1>1. MessagesOk /\ TurnsOk
  BY DEF ChatInv, ChatTables
<1>2. UNCHANGED <<rows, session, rendered, turn, shownVars, cache, requestVars, drops, historyVars>>
  BY DEF ClosePanel
<1>3. MessagesOk' /\ MessagesKept
  BY <1>1, <1>2, SameMessages
<1>4. TurnsOk'
  BY <1>1, <1>2 DEF TurnsOk, ClosePanel, Act
<1>5. StreamOk'
  BY ReconnectsOk DEF ClosePanel
<1> QED
  BY <1>2, <1>3, <1>4, <1>5, ChatKept DEF shownVars

(* The indicator is rendered, its effect runs, its timer ends the wait. *)
LEMMA TimingStep == ChatInv /\ Timing => ChatInv'
<1> SUFFICES ASSUME ChatInv, Timing PROVE ChatInv'
  OBVIOUS
<1>1. MessagesOk /\ TurnsOk /\ ChatTables
  BY DEF ChatInv, ChatTables
<1>2. UNCHANGED <<rows, tabVars, thread, hasMore, fetched, cache, requestVars, stream, drops,
                  historyVars>>
  BY DEF Timing, RenderAwaiting, AwaitEffect, AwaitTimesOut, shownVars
<1>3. MessagesOk' /\ MessagesKept
  BY <1>1, <1>2, SameMessages
<1>4. TurnsOk' /\ StreamOk'
  BY <1>1, <1>2, <1>3, TablesKept DEF TurnsOk, tabVars
<1> QED
  BY <1>2, <1>3, <1>4, ChatKept DEF tabVars

(* The steps of the connection. *)
LEMMA StreamPollsOk == StreamOk /\ (StreamAccepted \/ StreamPolls) => StreamOk'
<1> SUFFICES ASSUME StreamOk, StreamAccepted \/ StreamPolls PROVE StreamOk'
  OBVIOUS
<1>1. stream = [phase |-> stream.phase, since |-> stream.since, wire |-> stream.wire]
  BY DEF StreamOk
<1>2. Stored(session)' = Stored(session)
  BY DEF Stored, Stamps, StreamAccepted, StreamPolls, tabVars
<1>3. CASE StreamAccepted
  <2>1. PICK since : stream' = [stream EXCEPT !.phase = "open", !.since = since]
    BY <1>3 DEF StreamAccepted
  <2>2. stream' = [phase |-> "open", since |-> since, wire |-> stream.wire]
    BY <1>1, <2>1
  <2> QED
    BY <1>2, <2>2 DEF StreamOk
<1>4. CASE StreamPolls
  <2>1. PICK due, since : due = Due /\ stream' = [stream EXCEPT !.wire = due, !.since = since]
    BY <1>4 DEF StreamPolls
  <2>2. stream' = [phase |-> stream.phase, since |-> since, wire |-> due]
    BY <1>1, <2>1
  <2>3. due \subseteq Stored(session)
    BY <2>1 DEF Due
  <2> QED
    BY <1>2, <2>2, <2>3 DEF StreamOk
<1> QED
  BY <1>3, <1>4

(* A broken connection has nothing on the wire. *)
LEMMA StreamBreaksOk == StreamBreaks \/ StreamRetries => StreamOk'
<1>1. ASSUME StreamBreaks PROVE StreamOk'
  <2>1. stream' = [phase |-> "waiting", since |-> 0, wire |-> {}]
    BY <1>1 DEF StreamBreaks, NoStream
  <2> QED
    BY <2>1 DEF StreamOk
<1>2. ASSUME StreamRetries PROVE StreamOk'
  BY <1>2, ReconnectsOk DEF StreamRetries
<1> QED
  BY <1>1, <1>2

(* The connection is accepted, polled, broken, or tried again. *)
LEMMA ConnectionStep ==
    ChatInv /\ (StreamAccepted \/ StreamPolls \/ StreamBreaks \/ StreamRetries) => ChatInv'
<1> SUFFICES ASSUME ChatInv, StreamAccepted \/ StreamPolls \/ StreamBreaks \/ StreamRetries
             PROVE  ChatInv'
  OBVIOUS
<1>1. MessagesOk /\ TurnsOk /\ StreamOk
  BY DEF ChatInv, ChatTables
<1>2. UNCHANGED <<rows, tabVars, shownVars, cache, requestVars, historyVars>>
  BY DEF StreamAccepted, StreamPolls, StreamBreaks, StreamRetries
<1>3. MessagesOk' /\ MessagesKept
  BY <1>1, <1>2, SameMessages
<1>4. TurnsOk'
  BY <1>1, <1>2 DEF TurnsOk, tabVars
<1>5. StreamOk'
  BY <1>1, StreamPollsOk, StreamBreaksOk
<1> QED
  BY <1>2, <1>3, <1>4, <1>5, ChatKept DEF tabVars, shownVars
-----------------------------------------------------------------------------
(* What an answer of the server holds. *)
LEMMA PageAt ==
    ASSUME MessagesOk, NEW s \in Sessions, NEW o \in Nat
    PROVE  /\ Page(s, o) \subseteq Stored(s) /\ Cardinality(Page(s, o)) \in 0..PageSize
           /\ Cardinality(Stored(s)) \in Nat
           /\ o = 0 /\ Cardinality(Stored(s)) > Cardinality(Page(s, o)) =>
                 Cardinality(Page(s, o)) = PageSize
           /\ Page(s, o) # {} => o + Cardinality(Page(s, o)) <= Reach(s, Page(s, o))
<1>1. PICK S, P : S = Stored(s) /\ P = Page(s, o)
  OBVIOUS
<1>2. S \in SUBSET Nat /\ IsFiniteSet(S) /\ PageSize \in Nat \ {0}
  BY <1>1, StoredAre, ChatAssumption
<1>3. P = PageOf(S, o, PageSize)
  BY <1>1 DEF Page, PageOf
<1>4. /\ P \in SUBSET S /\ IsFiniteSet(P) /\ Cardinality(P) \in 0..PageSize
      /\ (o = 0 /\ Cardinality(S) > Cardinality(P)) => Cardinality(P) = PageSize
      /\ P # {} => o + Cardinality(P) <= Cardinality(Reached(S, P))
  BY <1>2, <1>3, PageHolds
<1>5. Cardinality(S) \in Nat
  BY <1>2, FS_CardinalityType
<1> QED
  BY <1>1, <1>4, <1>5 DEF Reach

(* A list reaches no more than what is stored. *)
LEMMA ReachStored ==
    ASSUME MessagesOk, NEW s \in Sessions, NEW msgs
    PROVE  /\ Reach(s, msgs) \in Nat /\ Cardinality(Stored(s)) \in Nat
           /\ Reach(s, msgs) <= Cardinality(Stored(s))
<1>1. IsFiniteSet(Stored(s)) /\ Reached(Stored(s), msgs) \in SUBSET Stored(s)
  BY StoredAre DEF Reached
<1>2. IsFiniteSet(Reached(Stored(s), msgs))
      /\ Cardinality(Reached(Stored(s), msgs)) <= Cardinality(Stored(s))
  BY <1>1, FS_Subset
<1>3. Cardinality(Reached(Stored(s), msgs)) \in Nat /\ Cardinality(Stored(s)) \in Nat
  BY <1>1, <1>2, FS_CardinalityType
<1> QED
  BY <1>2, <1>3 DEF Reach

(* An entry of the cache grows old. *)
LEMMA CacheAgesStep == ChatInv /\ CacheAges => ChatInv'
<1> SUFFICES ASSUME ChatInv, CacheAges PROVE ChatInv'
  OBVIOUS
<1>1. MessagesOk /\ TurnsOk /\ TabOk /\ ChatTables
  BY DEF ChatInv, ChatTables
<1>2. UNCHANGED <<rows, tabVars, shownVars, requestVars, stream, drops, historyVars>>
  BY DEF CacheAges
<1>3. MessagesOk' /\ MessagesKept
  BY <1>1, <1>2, SameMessages
<1>4. PICK s \in Sessions : cache[s] # None /\ cache' = [cache EXCEPT ![s].fresh = FALSE]
  BY DEF CacheAges, Fresh
<1>5. PICK new : new = [cache[s] EXCEPT !.fresh = FALSE]
  OBVIOUS
<1>6. cache' = [u \in Sessions |-> IF u = s THEN new ELSE cache[u]]
  BY <1>1, <1>4, <1>5 DEF TabOk, EntriesOk
<1>7. new = [messages |-> cache[s].messages, hasMore |-> cache[s].hasMore,
             fetched |-> cache[s].fetched, fresh |-> FALSE]
  <2>1. cache[s] = [messages |-> cache[s].messages, hasMore |-> cache[s].hasMore,
                    fetched |-> cache[s].fetched, fresh |-> cache[s].fresh]
    BY <1>1, <1>4 DEF TabOk, EntriesOk
  <2> QED
    BY <1>5, <2>1
<1>8. /\ new.messages = cache[s].messages /\ new.hasMore = cache[s].hasMore
      /\ new.fetched = cache[s].fetched
      /\ new = [messages |-> new.messages, hasMore |-> new.hasMore,
                fetched |-> new.fetched, fresh |-> new.fresh]
  BY <1>7
<1>9. \A u \in Sessions : cache'[u] = IF u = s THEN new ELSE cache[u]
  BY <1>6
<1>10. ChatTables'
  <2>1. LoadsOk' /\ OlderOk' /\ SendingOk' /\ StreamOk'
    BY <1>1, <1>2, <1>3, TablesKept DEF tabVars, requestVars
  <2>2. TurnsOk'
    BY <1>1, <1>2 DEF TurnsOk, tabVars
  <2>3. TabOk'
    <3>1. cache' = [u \in Sessions |-> cache'[u]]
      BY <1>6
    <3>2. ASSUME NEW u \in Sessions, cache'[u] # None
          PROVE  /\ cache'[u] = [messages |-> cache'[u].messages, hasMore |-> cache'[u].hasMore,
                                 fetched |-> cache'[u].fetched, fresh |-> cache'[u].fresh]
                 /\ cache'[u].messages \subseteq Stamps
                 /\ cache'[u].fetched \in Nat /\ cache'[u].hasMore \in BOOLEAN
      <4>1. CASE u = s
        <5>1. cache'[u] = new
          BY <1>9, <4>1
        <5>2. new.messages \subseteq Stamps /\ new.fetched \in Nat /\ new.hasMore \in BOOLEAN
          BY <1>1, <1>4, <1>8 DEF TabOk, EntriesOk
        <5> QED
          BY <1>8, <5>1, <5>2
      <4>2. CASE u # s
        <5>1. cache'[u] = cache[u]
          BY <1>9, <4>2
        <5> QED
          BY <1>1, <3>2, <5>1 DEF TabOk, EntriesOk
      <4> QED
        BY <4>1, <4>2
    <3> QED
      BY <1>1, <1>2, <3>1, <3>2 DEF TabOk, EntriesOk, Stamps, shownVars, historyVars
  <2> QED
    BY <1>3, <2>1, <2>2, <2>3 DEF ChatTables
<1>11. ASSUME NEW u \in Sessions, cache'[u] # None
       PROVE  /\ cache[u] # None /\ cache'[u].messages = cache[u].messages
              /\ cache'[u].fetched = cache[u].fetched /\ cache'[u].hasMore = cache[u].hasMore
  BY <1>4, <1>8, <1>9, <1>11
<1>12. \A u \in Sessions : \A msgs : Stored(u)' = Stored(u) /\ Reach(u, msgs)' = Reach(u, msgs)
  BY <1>2 DEF Stored, Stamps, Reach, Reached
<1>13. ~ crossed' => OwnThread' /\ OwnEntries'
  <2>1. OwnThread => OwnThread'
    BY <1>1, <1>2, <1>3, ListsKept DEF tabVars, shownVars
  <2>2. OwnEntries => OwnEntries'
    BY <1>11, <1>12 DEF OwnEntries
  <2> QED
    BY <1>2, <2>1, <2>2 DEF ChatInv, historyVars
<1>14. ~ crossed' /\ ~ emptied' => CountsOk'
  <2>1. EntriesCount => EntriesCount'
    BY <1>11, <1>12 DEF EntriesCount, Counts
  <2> QED
    BY <1>1, <1>2, <1>3, <2>1, CountsKept
       DEF ChatInv, CountsOk, tabVars, shownVars, requestVars, historyVars
<1> QED
  BY <1>10, <1>13, <1>14 DEF ChatInv

(* The first page is read for a list of less than a page, or it is a page. *)
LEMMA LoadReadStep == ChatInv /\ LoadRead => ChatInv'
<1> SUFFICES ASSUME ChatInv, LoadRead PROVE ChatInv'
  OBVIOUS
<1>1. MessagesOk /\ TurnsOk /\ TabOk /\ LoadsOk /\ ChatTables
  BY DEF ChatInv, ChatTables
<1>2. UNCHANGED <<rows, tabVars, shownVars, cache, older, sending, stream, drops, historyVars>>
  BY DEF LoadRead
<1>3. MessagesOk' /\ MessagesKept
  BY <1>1, <1>2, SameMessages
<1>4. PICK q \in loads :
         /\ ~q.answered
         /\ loads' = (loads \ {q}) \cup
              {[q EXCEPT !.answered = TRUE, !.items = Page(q.session, 0),
                         !.total = Cardinality(Stored(q.session))]}
  BY DEF LoadRead
<1>5. PICK P, total : P = Page(q.session, 0) /\ total = Cardinality(Stored(q.session))
  OBVIOUS
<1>6. PICK new : new = [q EXCEPT !.answered = TRUE, !.items = P, !.total = total]
  OBVIOUS
<1>7. loads' = (loads \ {q}) \cup {new}
  BY <1>4, <1>5, <1>6
<1>8. LoadTyped(q)
  BY <1>1 DEF LoadsOk
<1>9. new = [session |-> q.session, turn |-> q.turn, answered |-> TRUE, items |-> P,
             total |-> total]
  BY <1>6, <1>8 DEF LoadTyped
<1>10. q.session \in Sessions /\ InTurn(q)
  BY <1>8 DEF LoadTyped, InTurn
<1>11. /\ P \subseteq Stored(q.session) /\ Cardinality(P) \in 0..PageSize /\ total \in Nat
       /\ total > Cardinality(P) => Cardinality(P) = PageSize
  BY <1>1, <1>5, <1>10, PageAt
<1>12. LoadTyped(new)
  BY <1>9, <1>10, <1>11 DEF LoadTyped, InTurn
<1>13. new.turn = q.turn /\ new.items = P
  BY <1>9
<1>14. LoadsOk'
  <2>1. \A r \in loads' : LoadTyped(r)'
    <3>1. \A r \in loads' : LoadTyped(r)
      BY <1>1, <1>7, <1>12 DEF LoadsOk
    <3> QED
      BY <1>1, <1>2, <1>3, <3>1, LoadKept DEF tabVars
  <2>2. \A r, t \in loads' : r.turn = t.turn => r = t
    BY <1>1, <1>7, <1>13 DEF LoadsOk
  <2> QED
    BY <2>1, <2>2 DEF LoadsOk
<1>15. OlderOk' /\ SendingOk' /\ TurnsOk'
  BY <1>1, <1>2, <1>3, TablesKept DEF tabVars, TurnsOk
<1>16. ASSUME CountsOk PROVE LoadsCount' /\ OlderCounts' /\ SendingCounts'
  <2>1. ASSUME new.turn = turn, PageSize <= fetched PROVE Cardinality(P) = PageSize
    <3>1. q.session = session
      BY <1>10, <1>13, <2>1 DEF InTurn
    <3>2. fetched \in Nat /\ fetched <= Reach(session, thread)
      BY <1>1, <1>16 DEF CountsOk, ThreadCounts, Counts, TabOk
    <3>3. Reach(session, thread) \in Nat /\ Reach(session, thread) <= total
      BY <1>1, <1>5, <1>10, <3>1, ReachStored
    <3> QED
      BY <1>11, <2>1, <3>2, <3>3, ChatAssumption
  <2>2. LoadsCount'
    BY <1>2, <1>7, <1>13, <1>16, <2>1 DEF CountsOk, LoadsCount, tabVars, shownVars
  <2> QED
    BY <1>1, <1>2, <1>3, <1>16, <2>2, CountsKept DEF CountsOk, tabVars, shownVars
<1> QED
  BY <1>2, <1>3, <1>14, <1>15, <1>16, RequestsKept DEF tabVars, shownVars

(* The server reads an older page. *)
LEMMA OlderReadStep == ChatInv /\ OlderRead => ChatInv'
<1> SUFFICES ASSUME ChatInv, OlderRead PROVE ChatInv'
  OBVIOUS
<1>1. MessagesOk /\ TurnsOk /\ TabOk /\ OlderOk /\ ChatTables
  BY DEF ChatInv, ChatTables
<1>2. UNCHANGED <<rows, tabVars, shownVars, cache, loads, sending, stream, drops, historyVars>>
  BY DEF OlderRead
<1>3. MessagesOk' /\ MessagesKept
  BY <1>1, <1>2, SameMessages
<1>4. PICK q : q = older
  OBVIOUS
<1>5. q # None /\ OlderTyped(q)
  BY <1>1, <1>4 DEF OlderRead, OlderOk
<1>6. PICK P, total : P = Page(q.session, q.offset) /\ total = Cardinality(Stored(q.session))
  OBVIOUS
<1>7. older' = [q EXCEPT !.answered = TRUE, !.items = P, !.total = total]
  BY <1>4, <1>6 DEF OlderRead
<1>8. PICK new : new = older'
  OBVIOUS
<1>9. new = [session |-> q.session, turn |-> q.turn, offset |-> q.offset, answered |-> TRUE,
             items |-> P, total |-> total]
  BY <1>5, <1>7, <1>8 DEF OlderTyped
<1>10. q.session \in Sessions /\ q.offset \in Nat /\ InTurn(q)
  BY <1>5 DEF OlderTyped, InTurn
<1>11. /\ P \subseteq Stored(q.session) /\ Cardinality(P) \in Nat /\ total \in Nat
       /\ P # {} => q.offset + Cardinality(P) <= Reach(q.session, P)
  BY <1>1, <1>6, <1>10, PageAt
<1>12. OlderTyped(new)
  BY <1>9, <1>10, <1>11 DEF OlderTyped, InTurn
<1>13. OlderOk'
  BY <1>1, <1>2, <1>3, <1>8, <1>12, OlderKept DEF OlderOk, tabVars
<1>14. LoadsOk' /\ SendingOk' /\ TurnsOk'
  BY <1>1, <1>2, <1>3, TablesKept DEF tabVars, TurnsOk
<1>15. ASSUME CountsOk PROVE LoadsCount' /\ OlderCounts' /\ SendingCounts'
  <2>1. new.turn = q.turn /\ new.offset = q.offset
    BY <1>9
  <2>2. OlderCounts'
    BY <1>2, <1>4, <1>5, <1>8, <1>15, <2>1 DEF CountsOk, OlderCounts, tabVars, shownVars
  <2> QED
    BY <1>1, <1>2, <1>3, <1>15, <2>2, CountsKept DEF CountsOk, tabVars, shownVars
<1> QED
  BY <1>2, <1>3, <1>13, <1>14, <1>15, RequestsKept DEF tabVars, shownVars

(* An older page is asked for behind what the list has counted. *)
LEMMA LoadOlderStep == ChatInv /\ LoadOlder => ChatInv'
<1> SUFFICES ASSUME ChatInv, LoadOlder PROVE ChatInv'
  OBVIOUS
<1>1. MessagesOk /\ TurnsOk /\ TabOk /\ ChatTables
  BY DEF ChatInv, ChatTables
<1>2. UNCHANGED <<rows, session, rendered, open, turn, shownVars, cache, loads,
                  sending, stream, drops, historyVars>>
  BY DEF LoadOlder
<1>3. MessagesOk' /\ MessagesKept
  BY <1>1, <1>2, SameMessages
<1>4. older' = [session |-> session, turn |-> turn, offset |-> fetched,
                answered |-> FALSE, items |-> {}, total |-> 0] /\ hasMore
  BY DEF LoadOlder
<1>5. TurnsOk'
  BY <1>1, <1>2 DEF TurnsOk, LoadOlder, Act
<1>6. OlderOk'
  <2>1. session \in Sessions /\ turn \in 0..turn /\ fetched \in Nat
    BY <1>1 DEF TurnsOk, TabOk
  <2>2. PICK new : new = older'
    OBVIOUS
  <2>3. OlderTyped(new)
    BY <1>4, <2>1, <2>2 DEF OlderTyped, InTurn
  <2> QED
    BY <1>1, <1>2, <1>3, <2>2, <2>3, OlderKept DEF OlderOk
<1>7. LoadsOk' /\ SendingOk'
  BY <1>1, <1>2, <1>3, TablesKept
<1>8. ASSUME CountsOk PROVE LoadsCount' /\ OlderCounts' /\ SendingCounts'
  <2>1. PageSize <= fetched /\ fetched <= fetched
    BY <1>1, <1>4, <1>8 DEF CountsOk, ThreadCounts, Counts, TabOk
  <2>2. OlderCounts'
    BY <1>2, <1>4, <2>1 DEF OlderCounts, shownVars
  <2> QED
    BY <1>1, <1>2, <1>3, <1>8, <2>2, CountsKept DEF CountsOk, shownVars
<1> QED
  BY <1>2, <1>3, <1>5, <1>6, <1>7, <1>8, RequestsKept DEF shownVars

(* An older page does not arrive. *)
LEMMA OlderFailsStep == ChatInv /\ OlderFails => ChatInv'
<1> SUFFICES ASSUME ChatInv, OlderFails PROVE ChatInv'
  OBVIOUS
<1>1. MessagesOk /\ TurnsOk /\ TabOk /\ ChatTables
  BY DEF ChatInv, ChatTables
<1>2. UNCHANGED <<rows, tabVars, shownVars, cache, loads, sending, stream, drops, historyVars>>
  BY DEF OlderFails
<1>3. MessagesOk' /\ MessagesKept
  BY <1>1, <1>2, SameMessages
<1>4. older' = None
  BY DEF OlderFails
<1>5. LoadsOk' /\ SendingOk' /\ OlderOk' /\ TurnsOk'
  BY <1>1, <1>2, <1>3, <1>4, TablesKept DEF OlderOk, tabVars, TurnsOk
<1>6. ASSUME CountsOk PROVE LoadsCount' /\ OlderCounts' /\ SendingCounts'
  BY <1>1, <1>2, <1>3, <1>4, <1>6, CountsKept DEF CountsOk, OlderCounts, tabVars, shownVars
<1> QED
  BY <1>2, <1>3, <1>5, <1>6, RequestsKept DEF tabVars, shownVars

(* The user sends a message. *)
LEMMA SendStep == ChatInv /\ Send => ChatInv'
<1> SUFFICES ASSUME ChatInv, Send PROVE ChatInv'
  OBVIOUS
<1>1. MessagesOk /\ TurnsOk /\ TabOk /\ ChatTables
  BY DEF ChatInv, ChatTables
<1>2. UNCHANGED <<rows, session, rendered, open, turn, thread, hasMore, fetched, cache,
                  loads, older, stream, drops, historyVars>>
  BY DEF Send
<1>3. MessagesOk' /\ MessagesKept
  BY <1>1, <1>2, SameMessages
<1>4. sending' = [session |-> session, turn |-> turn, msg |-> 0, hasMore |-> hasMore]
  BY DEF Send
<1>5. TurnsOk'
  BY <1>1, <1>2 DEF TurnsOk, Send, Act
<1>6. SendingOk'
  <2>1. session \in Sessions /\ turn \in 0..turn /\ 0 \in 0..MaxMessages /\ hasMore \in BOOLEAN
    BY <1>1, ChatAssumption DEF TurnsOk, TabOk
  <2>2. PICK new : new = sending'
    OBVIOUS
  <2>3. SendingTyped(new)
    BY <1>4, <2>1, <2>2 DEF SendingTyped, InTurn
  <2> QED
    BY <1>1, <1>2, <1>3, <2>2, <2>3, SendingKept DEF SendingOk
<1>7. LoadsOk' /\ OlderOk'
  BY <1>1, <1>2, <1>3, TablesKept
<1>8. ASSUME CountsOk PROVE LoadsCount' /\ OlderCounts' /\ SendingCounts'
  <2>1. hasMore => PageSize <= fetched
    BY <1>8 DEF CountsOk, ThreadCounts, Counts
  <2>2. SendingCounts'
    BY <1>2, <1>4, <2>1 DEF SendingCounts
  <2> QED
    BY <1>1, <1>2, <1>3, <1>8, <2>2, CountsKept DEF CountsOk
<1> QED
  BY <1>2, <1>3, <1>5, <1>6, <1>7, <1>8, RequestsKept

(* Its handler takes the stamp. *)
LEMMA SendStampedStep == ChatInv /\ SendStamped => ChatInv'
<1> SUFFICES ASSUME ChatInv, SendStamped PROVE ChatInv'
  OBVIOUS
<1>1. MessagesOk /\ TurnsOk /\ TabOk /\ SendingOk /\ ChatTables
  BY DEF ChatInv, ChatTables
<1>2. UNCHANGED <<tabVars, shownVars, cache, loads, older, stream, drops, historyVars>>
  BY DEF SendStamped
<1>3. PICK q : q = sending
  OBVIOUS
<1>4. q # None /\ SendingTyped(q)
  BY <1>1, <1>3 DEF SendStamped, SendingOk
<1>5. q.session \in Sessions /\ InTurn(q)
  BY <1>4 DEF SendingTyped, InTurn
<1>6. PICK m : m = Now + 1
  OBVIOUS
<1>7. MessagesOk' /\ MessagesKept /\ m \in Stamps /\ rows'[m].session = q.session
  <2>1. Stamp(q.session, "user")
    BY <1>3 DEF SendStamped
  <2> QED
    BY <1>1, <1>5, <1>6, <2>1, StampKeeps
<1>8. sending' = [q EXCEPT !.msg = m]
  BY <1>3, <1>6 DEF SendStamped
<1>9. PICK new : new = sending'
  OBVIOUS
<1>10. new = [session |-> q.session, turn |-> q.turn, msg |-> m, hasMore |-> q.hasMore]
  BY <1>4, <1>8, <1>9 DEF SendingTyped
<1>11. SendingOk'
  <2>1. InTurn(new)' /\ m \in 0..MaxMessages /\ new.hasMore \in BOOLEAN
    BY <1>2, <1>4, <1>5, <1>7, <1>10, ChatAssumption DEF InTurn, SendingTyped, tabVars, Stamps
  <2> QED
    BY <1>7, <1>9, <1>10, <2>1 DEF SendingOk, SendingTyped
<1>12. LoadsOk' /\ OlderOk' /\ TurnsOk'
  BY <1>1, <1>2, <1>7, TablesKept DEF tabVars, TurnsOk
<1>13. ASSUME CountsOk PROVE LoadsCount' /\ OlderCounts' /\ SendingCounts'
  <2>1. new.turn = q.turn /\ new.hasMore = q.hasMore
    BY <1>10
  <2>2. SendingCounts'
    BY <1>2, <1>3, <1>4, <1>9, <1>13, <2>1 DEF CountsOk, SendingCounts, tabVars, shownVars
  <2> QED
    BY <1>1, <1>2, <1>7, <1>13, <2>2, CountsKept DEF CountsOk, tabVars, shownVars
<1> QED
  BY <1>2, <1>7, <1>11, <1>12, <1>13, RequestsKept DEF tabVars, shownVars

(* The request fails. *)
LEMMA SendFailsStep == ChatInv /\ SendFails => ChatInv'
<1> SUFFICES ASSUME ChatInv, SendFails PROVE ChatInv'
  OBVIOUS
<1>1. MessagesOk /\ TurnsOk /\ TabOk /\ ChatTables
  BY DEF ChatInv, ChatTables
<1>2. UNCHANGED <<rows, tabVars, thread, hasMore, fetched, cache, loads, older, stream, drops,
                  historyVars>>
  BY DEF SendFails
<1>3. MessagesOk' /\ MessagesKept
  BY <1>1, <1>2, SameMessages
<1>4. sending' = None
  BY DEF SendFails
<1>5. LoadsOk' /\ SendingOk' /\ OlderOk' /\ TurnsOk'
  BY <1>1, <1>2, <1>3, <1>4, TablesKept DEF SendingOk, tabVars, TurnsOk
<1>6. ASSUME CountsOk PROVE LoadsCount' /\ OlderCounts' /\ SendingCounts'
  BY <1>1, <1>2, <1>3, <1>4, <1>6, CountsKept DEF CountsOk, SendingCounts, tabVars
<1> QED
  BY <1>2, <1>3, <1>5, <1>6, RequestsKept DEF tabVars
-----------------------------------------------------------------------------
(* A cache entry that is written. *)
LEMMA EntryPut ==
    ASSUME EntriesOk, UNCHANGED rows, NEW s \in Sessions,
           NEW msgs \in SUBSET Stamps, NEW more \in BOOLEAN, NEW count \in Nat,
           cache' = [cache EXCEPT ![s] = Entry(msgs, more, count)]
    PROVE  /\ EntriesOk'
           /\ OwnEntries /\ msgs \subseteq Stored(s) => OwnEntries'
           /\ EntriesCount /\ Counts(s, msgs, count, more) => EntriesCount'
<1>1. PICK new : new = Entry(msgs, more, count)
  OBVIOUS
<1>2. cache' = [u \in Sessions |-> IF u = s THEN new ELSE cache[u]]
  BY <1>1 DEF EntriesOk
<1>3. \A u \in Sessions : cache'[u] = IF u = s THEN new ELSE cache[u]
  BY <1>2
<1>4. /\ new.messages = msgs /\ new.hasMore = more /\ new.fetched = count
      /\ new = [messages |-> new.messages, hasMore |-> new.hasMore,
                fetched |-> new.fetched, fresh |-> new.fresh]
  BY <1>1 DEF Entry
<1>5. EntriesOk'
  <2>1. cache' = [u \in Sessions |-> cache'[u]]
    BY <1>2
  <2>2. ASSUME NEW u \in Sessions, cache'[u] # None
        PROVE  /\ cache'[u] = [messages |-> cache'[u].messages, hasMore |-> cache'[u].hasMore,
                               fetched |-> cache'[u].fetched, fresh |-> cache'[u].fresh]
               /\ cache'[u].messages \subseteq Stamps
               /\ cache'[u].fetched \in Nat /\ cache'[u].hasMore \in BOOLEAN
    <3>1. CASE u = s
      <4>1. cache'[u] = new
        BY <1>3, <3>1
      <4> QED
        BY <1>4, <4>1
    <3>2. CASE u # s
      <4>1. cache'[u] = cache[u]
        BY <1>3, <3>2
      <4> QED
        BY <2>2, <4>1 DEF EntriesOk
    <3> QED
      BY <3>1, <3>2
  <2> QED
    BY <2>1, <2>2 DEF EntriesOk, Stamps
<1>6. \A u \in Sessions : \A m : Stored(u)' = Stored(u) /\ Reach(u, m)' = Reach(u, m)
  BY DEF Stored, Stamps, Reach, Reached
<1>7. ASSUME OwnEntries, msgs \subseteq Stored(s) PROVE OwnEntries'
  BY <1>3, <1>4, <1>6, <1>7 DEF OwnEntries
<1>8. ASSUME EntriesCount, Counts(s, msgs, count, more) PROVE EntriesCount'
  <2>1. ASSUME NEW u \in Sessions, NEW e, e = cache'[u], e # None
        PROVE  Counts(u, e.messages, e.fetched, e.hasMore)'
    <3>1. Counts(u, e.messages, e.fetched, e.hasMore)
      <4>1. CASE u = s
        <5>1. e = new
          BY <1>3, <2>1, <4>1
        <5> QED
          BY <1>4, <1>8, <4>1, <5>1
      <4>2. CASE u # s
        <5>1. e = cache[u]
          BY <1>3, <2>1, <4>2
        <5> QED
          BY <1>8, <2>1, <5>1 DEF EntriesCount
      <4> QED
        BY <4>1, <4>2
    <3> QED
      BY <1>6, <3>1 DEF Counts
  <2> QED
    BY <2>1 DEF EntriesCount, Counts, Reach, Reached
<1> QED
  BY <1>5, <1>7, <1>8

(* A run of the effect has a name of its own: no request belongs to it. *)
LEMMA RunStarts ==
    ASSUME ChatTables, UNCHANGED rows, session' \in Sessions, turn' \in Nat, turn < turn'
    PROVE  /\ \A q \in loads : LoadTyped(q)' /\ q.turn \in Nat /\ q.turn # turn'
           /\ UNCHANGED older => OlderOk' /\ OlderCounts'
           /\ UNCHANGED sending => SendingOk' /\ SendingCounts'
<1>1. turn \in Nat
  BY DEF ChatTables, TurnsOk
<1>2. ASSUME NEW q, InTurn(q) PROVE InTurn(q)' /\ q.turn \in Nat /\ q.turn # turn'
  BY <1>1, <1>2 DEF InTurn
<1>3. \A u : \A m : Stored(u)' = Stored(u) /\ Reach(u, m)' = Reach(u, m)
  BY DEF Stored, Stamps, Reach, Reached
<1>4. ASSUME NEW q \in loads PROVE LoadTyped(q)' /\ q.turn \in Nat /\ q.turn # turn'
  <2>1. LoadTyped(q) /\ InTurn(q)
    BY DEF ChatTables, LoadsOk, LoadTyped
  <2> QED
    BY <1>2, <1>3, <2>1 DEF LoadTyped
<1>5. ASSUME UNCHANGED older PROVE OlderOk' /\ OlderCounts'
  <2>1. ASSUME older # None PROVE OlderTyped(older)' /\ older.turn # turn'
    <3>1. OlderTyped(older) /\ InTurn(older)
      BY <2>1 DEF ChatTables, OlderOk, OlderTyped
    <3>2. PICK q : q = older /\ q = older'
      BY <1>5
    <3>3. OlderTyped(q) /\ InTurn(q)' /\ q.turn # turn'
      BY <1>2, <3>1, <3>2
    <3>4. OlderTyped(q)'
      BY <1>3, <3>3 DEF OlderTyped
    <3> QED
      BY <3>2, <3>3, <3>4
  <2> QED
    BY <1>5, <2>1 DEF OlderOk, OlderCounts
<1>6. ASSUME UNCHANGED sending PROVE SendingOk' /\ SendingCounts'
  <2>1. ASSUME sending # None PROVE SendingTyped(sending)' /\ sending.turn # turn'
    <3>1. SendingTyped(sending) /\ InTurn(sending)
      BY <2>1 DEF ChatTables, SendingOk, SendingTyped
    <3>2. PICK q : q = sending /\ q = sending'
      BY <1>6
    <3>3. SendingTyped(q) /\ InTurn(q)' /\ q.turn # turn'
      BY <1>2, <3>1, <3>2
    <3>4. SendingTyped(q)'
      BY <3>3 DEF SendingTyped
    <3> QED
      BY <3>2, <3>3, <3>4
  <2> QED
    BY <1>6, <2>1 DEF SendingOk, SendingCounts
<1> QED
  BY <1>4, <1>5, <1>6
-----------------------------------------------------------------------------
(* An empty list counts nothing. *)
LEMMA NothingCounts ==
    ASSUME MessagesOk, NEW s \in Sessions, NEW msgs
    PROVE  Counts(s, msgs, 0, FALSE)
<1>1. Reach(s, msgs) \in Nat
  BY ReachStored
<1> QED
  BY <1>1 DEF Counts

(* What the effect shows is the entry of its session or nothing. *)
LEMMA FetchShows ==
    ASSUME ChatTables, UNCHANGED rows, NEW s \in Sessions, session' = s,
           FromCache(s) \/ Cleared
    PROVE  /\ thread' \subseteq Stamps /\ fetched' \in Nat /\ hasMore' \in BOOLEAN
           /\ OwnEntries => OwnThread'
           /\ EntriesCount => ThreadCounts'
<1>1. MessagesOk /\ EntriesOk
  BY DEF ChatTables, TabOk
<1>2. \A u : \A m : Stored(u)' = Stored(u) /\ Reach(u, m)' = Reach(u, m)
  BY DEF Stored, Stamps, Reach, Reached
<1>3. PICK msgs, count, more : msgs = thread' /\ count = fetched' /\ more = hasMore'
  OBVIOUS
<1>4. /\ msgs \subseteq Stamps /\ count \in Nat /\ more \in BOOLEAN
      /\ OwnEntries => msgs \subseteq Stored(s)
      /\ EntriesCount => Counts(s, msgs, count, more)
  <2>1. CASE FromCache(s)
    <3>1. PICK e : e = cache[s]
      OBVIOUS
    <3>2. e # None /\ msgs = e.messages /\ count = e.fetched /\ more = e.hasMore
      BY <1>3, <2>1, <3>1 DEF FromCache
    <3>3. e.messages \subseteq Stamps /\ e.fetched \in Nat /\ e.hasMore \in BOOLEAN
      BY <1>1, <3>1, <3>2 DEF EntriesOk
    <3>4. OwnEntries => e.messages \subseteq Stored(s)
      BY <3>1, <3>2 DEF OwnEntries
    <3>5. EntriesCount => Counts(s, e.messages, e.fetched, e.hasMore)
      BY <3>1, <3>2 DEF EntriesCount
    <3> QED
      BY <3>2, <3>3, <3>4, <3>5
  <2>2. CASE Cleared
    <3>1. msgs = {} /\ count = 0 /\ more = FALSE
      BY <1>3, <2>2 DEF Cleared
    <3>2. Counts(s, msgs, 0, FALSE)
      BY <1>1, NothingCounts
    <3> QED
      BY <3>1, <3>2
  <2> QED
    BY <2>1, <2>2
<1>5. OwnEntries => OwnThread'
  BY <1>2, <1>3, <1>4 DEF OwnThread
<1>6. EntriesCount => ThreadCounts'
  <2>1. EntriesCount => Counts(s, msgs, count, more)'
    BY <1>2, <1>4 DEF Counts
  <2> QED
    BY <1>3, <2>1 DEF ThreadCounts, Counts, Reach, Reached
<1> QED
  BY <1>3, <1>4, <1>5, <1>6

(* A run of the fetch effect. *)
LEMMA FetchStep ==
    ASSUME ChatInv, NEW s \in Sessions, NEW skip \in BOOLEAN, Fetch(s, skip),
           session' = s, acts' \in Nat, turn < acts', TurnsOk', StreamOk',
           UNCHANGED <<rows, older, sending, crossed, emptied>>
    PROVE  ChatInv'
<1>1. ChatTables /\ MessagesOk /\ LoadsOk /\ EntriesOk
  BY DEF ChatInv, ChatTables, TabOk
<1>2. turn' = acts' /\ turn' \in Nat /\ turn < turn' /\ session' \in Sessions
  BY DEF Fetch
<1>3. MessagesOk'
  BY <1>1, SameMessages
<1>4. OlderOk' /\ OlderCounts' /\ SendingOk' /\ SendingCounts'
  BY <1>1, <1>2, RunStarts
<1>5. \A q \in loads : LoadTyped(q)' /\ q.turn \in Nat /\ q.turn # turn'
  BY <1>1, <1>2, RunStarts
<1>6. /\ thread' \subseteq Stamps /\ fetched' \in Nat /\ hasMore' \in BOOLEAN
      /\ OwnEntries => OwnThread'
      /\ EntriesCount => ThreadCounts'
  <2>1. FromCache(s) \/ Cleared
    BY DEF Fetch
  <2> QED
    BY <1>1, <2>1, FetchShows
<1>7. /\ EntriesOk'
      /\ OwnEntries => OwnEntries'
      /\ EntriesCount => EntriesCount'
  <2>1. CASE UNCHANGED cache
    <3>1. \A u : \A m : Stored(u)' = Stored(u) /\ Reach(u, m)' = Reach(u, m)
      BY DEF Stored, Stamps, Reach, Reached
    <3>2. EntriesOk'
      BY <1>1, <2>1 DEF EntriesOk, Stamps
    <3>3. OwnEntries => OwnEntries'
      BY <2>1, <3>1 DEF OwnEntries
    <3>4. EntriesCount => EntriesCount'
      BY <1>1, <1>3, <2>1, <3>1 DEF EntriesCount, Counts
    <3> QED
      BY <3>2, <3>3, <3>4
  <2>2. CASE cache' = [cache EXCEPT ![s] = Entry({}, FALSE, 0)]
    <3>1. {} \in SUBSET Stamps /\ {} \subseteq Stored(s) /\ Counts(s, {}, 0, FALSE)
      BY <1>1, NothingCounts
    <3> QED
      BY <1>1, <2>2, <3>1, EntryPut
  <2> QED
    BY <2>1, <2>2 DEF Fetch
<1>8. LoadsOk' /\ LoadsCount'
  <2>1. CASE UNCHANGED loads
    <3>1. LoadsOk'
      BY <1>1, <1>5, <2>1 DEF LoadsOk
    <3>2. LoadsCount'
      BY <1>5, <2>1 DEF LoadsCount
    <3> QED
      BY <3>1, <3>2
  <2>2. CASE loads' = loads \cup {[session |-> s, turn |-> acts', answered |-> FALSE,
                                   items |-> {}, total |-> 0]}
    <3>1. PICK new : new = [session |-> s, turn |-> acts', answered |-> FALSE,
                            items |-> {}, total |-> 0]
      OBVIOUS
    <3>2. loads' = loads \cup {new} /\ new.turn = turn' /\ ~ new.answered
      BY <1>2, <2>2, <3>1
    <3>3. LoadTyped(new)'
      BY <1>2, <3>1 DEF LoadTyped, InTurn
    <3>4. \A q \in loads' : LoadTyped(q)'
      BY <1>5, <3>2, <3>3
    <3>5. \A q, r \in loads' : q.turn = r.turn => q = r
      BY <1>1, <1>5, <3>2 DEF LoadsOk
    <3>6. LoadsOk'
      BY <3>4, <3>5 DEF LoadsOk
    <3>7. LoadsCount'
      BY <1>5, <3>2 DEF LoadsCount
    <3> QED
      BY <3>6, <3>7
  <2> QED
    BY <2>1, <2>2 DEF Fetch
<1>9. ChatTables'
  <2>1. TabOk'
    BY <1>1, <1>6, <1>7 DEF TabOk, ChatTables, Stamps
  <2> QED
    BY <1>3, <1>4, <1>8, <2>1 DEF ChatTables
<1>10. ~ crossed' => OwnThread' /\ OwnEntries'
  BY <1>6, <1>7 DEF ChatInv
<1>11. ~ crossed' /\ ~ emptied' => CountsOk'
  BY <1>4, <1>6, <1>7, <1>8 DEF ChatInv, CountsOk
<1> QED
  BY <1>9, <1>10, <1>11 DEF ChatInv

(* The effects of a selection run. *)
LEMMA SwitchSessionStep == ChatInv /\ SwitchSession => ChatInv'
<1> SUFFICES ASSUME ChatInv, SwitchSession PROVE ChatInv'
  OBVIOUS
<1>1. TurnsOk
  BY DEF ChatInv, ChatTables
<1>2. /\ rendered # session /\ session' = rendered /\ acts' = acts
      /\ UNCHANGED <<rows, rendered, open, older, sending, drops, crossed, emptied>>
      /\ Reconnects(TRUE)
  BY DEF SwitchSession
<1>3. PICK skip \in BOOLEAN : Fetch(rendered, skip)
  BY DEF SwitchSession
<1>4. rendered \in Sessions /\ acts' \in Nat /\ turn < acts'
  BY <1>1, <1>2 DEF TurnsOk
<1>5. TurnsOk'
  <2>1. turn' = acts'
    BY <1>3 DEF Fetch
  <2> QED
    BY <1>1, <1>2, <1>4, <2>1 DEF TurnsOk
<1>6. StreamOk'
  BY <1>2, ReconnectsOk
<1> QED
  BY <1>2, <1>3, <1>4, <1>5, <1>6, FetchStep

(* The panel is opened and fetches its first page. *)
LEMMA OpenPanelStep == ChatInv /\ OpenPanel => ChatInv'
<1> SUFFICES ASSUME ChatInv, OpenPanel PROVE ChatInv'
  OBVIOUS
<1>1. TurnsOk
  BY DEF ChatInv, ChatTables
<1>2. /\ ~ open /\ open' /\ acts' = acts + 1 /\ Fetch(session, FALSE) /\ Reconnects(TRUE)
      /\ UNCHANGED <<rows, session, rendered, older, sending, drops, crossed, emptied>>
  BY DEF OpenPanel, Act
<1>3. session \in Sessions /\ rendered = session /\ acts' \in Nat /\ turn < acts'
  BY <1>1, <1>2 DEF TurnsOk
<1>4. TurnsOk'
  <2>1. turn' = acts'
    BY <1>2 DEF Fetch
  <2> QED
    BY <1>1, <1>2, <1>3, <2>1 DEF TurnsOk
<1>5. StreamOk'
  BY <1>2, ReconnectsOk
<1> QED
  BY <1>2, <1>3, <1>4, <1>5, FetchStep

(* A failed first page leaves an empty list. *)
LEMMA LoadFailsStep == ChatInv /\ LoadFails => ChatInv'
<1> SUFFICES ASSUME ChatInv, LoadFails PROVE ChatInv'
  OBVIOUS
<1>1. ChatTables /\ MessagesOk /\ TurnsOk /\ TabOk /\ LoadsOk /\ session \in Sessions
  BY DEF ChatInv, ChatTables, TurnsOk
<1>2. UNCHANGED <<rows, tabVars, cache, older, sending, stream, drops>>
  BY DEF LoadFails
<1>3. MessagesOk' /\ MessagesKept
  BY <1>1, <1>2, SameMessages
<1>4. PICK q \in loads : loads' = loads \ {q} /\ TakenFor(q.turn)
  BY DEF LoadFails
<1>5. /\ thread' = {} /\ hasMore' = FALSE /\ fetched' = 0
      /\ crossed' \in BOOLEAN /\ (~ crossed' => ~ crossed)
      /\ emptied' = (emptied \/ older # None \/ sending # None)
  BY <1>1, <1>4 DEF LoadFails, Cleared, TakenFor, TabOk
<1>6. ChatTables'
  <2>1. OlderOk' /\ SendingOk' /\ StreamOk'
    BY <1>1, <1>2, <1>3, TablesKept DEF tabVars
  <2>2. LoadsOk'
    <3>1. \A r \in loads : LoadTyped(r)'
      BY <1>1, <1>2, <1>3, LoadKept DEF LoadsOk, tabVars
    <3> QED
      BY <1>1, <1>4, <3>1 DEF LoadsOk
  <2>3. TurnsOk'
    BY <1>1, <1>2 DEF TurnsOk, tabVars
  <2>4. TabOk'
    BY <1>1, <1>2, <1>5 DEF TabOk, EntriesOk, Stamps
  <2> QED
    BY <1>3, <2>1, <2>2, <2>3, <2>4 DEF ChatTables
<1>7. ~ crossed' => OwnThread' /\ OwnEntries'
  <2>1. OwnEntries => OwnEntries'
    BY <1>1, <1>2, <1>3, ListsKept DEF tabVars
  <2> QED
    BY <1>5, <2>1 DEF ChatInv, OwnThread
<1>8. ~ crossed' /\ ~ emptied' => CountsOk'
  <2> SUFFICES ASSUME ~ crossed', ~ emptied' PROVE CountsOk'
    OBVIOUS
  <2>1. ~ crossed /\ ~ emptied /\ older = None /\ sending = None /\ CountsOk
    BY <1>5 DEF ChatInv
  <2>2. ThreadCounts'
    <3>1. PICK s, msgs, count, more : s = session /\ msgs = {} /\ count = 0 /\ more = FALSE
      OBVIOUS
    <3>2. Counts(s, msgs, count, more) /\ count \in Nat
      BY <1>1, <3>1, NothingCounts
    <3>3. Counts(s, msgs, count, more)'
      BY <1>1, <1>3, <3>1, <3>2, CountKept
    <3>4. s = session' /\ msgs = thread' /\ count = fetched' /\ more = hasMore'
      BY <1>2, <1>5, <3>1 DEF tabVars
    <3> QED
      BY <3>3, <3>4 DEF ThreadCounts, Counts, Reach, Reached
  <2>3. EntriesCount'
    BY <1>1, <1>2, <1>3, <2>1, CountsKept DEF CountsOk, tabVars
  <2>4. LoadsCount'
    BY <1>5, ChatAssumption DEF LoadsCount
  <2>5. OlderCounts' /\ SendingCounts'
    BY <1>2, <2>1 DEF OlderCounts, SendingCounts
  <2> QED
    BY <2>2, <2>3, <2>4, <2>5 DEF CountsOk
<1> QED
  BY <1>6, <1>7, <1>8 DEF ChatInv
-----------------------------------------------------------------------------
(* A first page that is taken in its own run is counted in full, and is a   *)
(* page when it takes the place of one.                                     *)
LEMMA LoadTakenStep == ChatInv /\ LoadTaken => ChatInv'
<1> SUFFICES ASSUME ChatInv, LoadTaken PROVE ChatInv'
  OBVIOUS
<1>1. ChatTables /\ MessagesOk /\ TurnsOk /\ TabOk /\ LoadsOk /\ EntriesOk /\ session \in Sessions
  BY DEF ChatInv, ChatTables, TurnsOk, TabOk
<1>2. UNCHANGED <<rows, tabVars, older, sending, stream, drops, emptied>>
  BY DEF LoadTaken
<1>3. MessagesOk' /\ MessagesKept
  BY <1>1, <1>2, SameMessages
<1>4. PICK q \in loads :
         /\ q.answered /\ loads' = loads \ {q} /\ thread' = q.items
         /\ fetched' = Count(q.items) /\ hasMore' = (q.total > Count(q.items))
         /\ cache' = [cache EXCEPT ![q.session] = Entry(q.items, hasMore', fetched')]
         /\ TakenFor(q.turn)
  BY DEF LoadTaken
<1>5. PICK s, msgs, count, more :
         s = q.session /\ msgs = thread' /\ count = fetched' /\ more = hasMore'
  OBVIOUS
<1>6. LoadTyped(q) /\ InTurn(q) /\ s \in Sessions
  BY <1>1, <1>4, <1>5 DEF LoadsOk, LoadTyped, InTurn
<1>7. /\ msgs \subseteq Stored(s) /\ count = Cardinality(msgs) /\ count \in 0..PageSize
      /\ more \in BOOLEAN /\ (more => count = PageSize)
  <2>1. /\ q.items \subseteq Stored(q.session) /\ Cardinality(q.items) \in 0..PageSize
        /\ q.total > Cardinality(q.items) => Cardinality(q.items) = PageSize
    BY <1>4, <1>6 DEF LoadTyped
  <2>2. msgs = q.items /\ count = Cardinality(q.items) /\ more = (q.total > Cardinality(q.items))
    BY <1>4, <1>5 DEF Count
  <2>3. more \in BOOLEAN
    BY <1>4, <1>5
  <2>4. more => count = PageSize
    <3>1. ASSUME more PROVE q.total > Cardinality(q.items)
      BY <2>2, <3>1, Zenon
    <3> QED
      BY <2>1, <2>2, <3>1
  <2>5. msgs \subseteq Stored(s) /\ count = Cardinality(msgs) /\ count \in 0..PageSize
    BY <1>5, <2>1, <2>2
  <2> QED
    BY <2>3, <2>4, <2>5
<1>8. count \in Nat /\ msgs \in SUBSET Stamps
  BY <1>7, ChatAssumption DEF Stored
<1>9. Counts(s, msgs, count, more)
  <2>1. PICK S : S = Stored(s)
    OBVIOUS
  <2>2. S \in SUBSET Nat /\ IsFiniteSet(S) /\ msgs \in SUBSET S
    BY <1>1, <1>6, <1>7, <2>1, StoredAre
  <2>3. Cardinality(msgs) <= Cardinality(Reached(S, msgs))
    BY <2>2, ReachCounts
  <2>4. more => PageSize <= count
    BY <1>7, ChatAssumption
  <2> QED
    BY <1>7, <2>1, <2>3, <2>4 DEF Counts, Reach
<1>10. crossed' = (crossed \/ q.turn # turn \/ rendered # session)
  BY <1>4 DEF TakenFor
<1>11. ~ crossed' => ~ crossed /\ q.turn = turn /\ s = session
  BY <1>1, <1>5, <1>6, <1>10 DEF InTurn
<1>12. /\ EntriesOk'
       /\ OwnEntries => OwnEntries'
       /\ EntriesCount => EntriesCount'
  <2>1. cache' = [cache EXCEPT ![s] = Entry(msgs, more, count)]
    BY <1>4, <1>5
  <2> QED
    BY <1>1, <1>2, <1>6, <1>7, <1>8, <1>9, <2>1, EntryPut
<1>13. ChatTables'
  <2>1. OlderOk' /\ SendingOk' /\ StreamOk'
    BY <1>1, <1>2, <1>3, TablesKept DEF tabVars
  <2>2. LoadsOk'
    <3>1. \A r \in loads : LoadTyped(r)'
      BY <1>1, <1>2, <1>3, LoadKept DEF LoadsOk, tabVars
    <3> QED
      BY <1>1, <1>4, <3>1 DEF LoadsOk
  <2>3. TurnsOk'
    BY <1>1, <1>2 DEF TurnsOk, tabVars
  <2>4. TabOk'
    BY <1>1, <1>2, <1>5, <1>7, <1>8, <1>10, <1>12 DEF TabOk, Stamps
  <2> QED
    BY <1>3, <2>1, <2>2, <2>3, <2>4 DEF ChatTables
<1>14. \A u : Stored(u)' = Stored(u)
  BY <1>2 DEF Stored, Stamps
<1>15. ~ crossed' => OwnThread' /\ OwnEntries'
  <2>1. ~ crossed' => OwnThread'
    BY <1>2, <1>5, <1>7, <1>11, <1>14 DEF OwnThread, tabVars
  <2> QED
    BY <1>11, <1>12, <2>1 DEF ChatInv
<1>16. ~ crossed' /\ ~ emptied' => CountsOk'
  <2> SUFFICES ASSUME ~ crossed', ~ emptied' PROVE CountsOk'
    OBVIOUS
  <2>1. CountsOk /\ q.turn = turn /\ s = session
    BY <1>2, <1>11 DEF ChatInv
  <2>2. PageSize <= fetched => PageSize <= count /\ count <= PageSize
    BY <1>4, <1>5, <1>7, <2>1, ChatAssumption DEF CountsOk, LoadsCount, Count
  <2>3. ThreadCounts'
    <3>1. Counts(s, msgs, count, more)'
      BY <1>1, <1>3, <1>6, <1>8, <1>9, CountKept
    <3>2. s = session' /\ msgs = thread' /\ count = fetched' /\ more = hasMore'
      BY <1>2, <1>5, <2>1 DEF tabVars
    <3> QED
      BY <3>1, <3>2 DEF ThreadCounts, Counts, Reach, Reached
  <2>4. EntriesCount'
    BY <1>12, <2>1 DEF CountsOk
  <2>5. LoadsCount'
    <3>1. \A r \in loads' : r.turn # turn
      BY <1>1, <1>4, <2>1 DEF LoadsOk
    <3> QED
      BY <1>2, <3>1 DEF LoadsCount, tabVars
  <2>6. OlderCounts'
    <3> SUFFICES ASSUME older' # None, older'.turn = turn'
                 PROVE  PageSize <= fetched' /\ fetched' <= older'.offset
      BY DEF OlderCounts
    <3>1. PageSize <= fetched /\ fetched <= older.offset /\ older.offset \in Nat /\ fetched \in Nat
      BY <1>1, <1>2, <2>1 DEF CountsOk, OlderCounts, ChatTables, OlderOk, OlderTyped, TabOk, tabVars
    <3> QED
      BY <1>2, <1>5, <1>8, <2>2, <3>1, ChatAssumption
  <2>7. SendingCounts'
    BY <1>2, <1>5, <2>1, <2>2 DEF CountsOk, SendingCounts, tabVars
  <2> QED
    BY <2>3, <2>4, <2>5, <2>6, <2>7 DEF CountsOk
<1> QED
  BY <1>13, <1>15, <1>16 DEF ChatInv

(* A count that is carried to a longer list. *)
LEMMA CountGrows ==
    ASSUME MessagesOk, NEW s \in Sessions, NEW few, NEW many, few \subseteq many
    PROVE  /\ Reach(s, few) \in Nat /\ Reach(s, many) \in Nat
           /\ Reach(s, few) <= Reach(s, many)
<1>1. PICK S : S = Stored(s)
  OBVIOUS
<1>2. IsFiniteSet(S) /\ S \subseteq S
  BY <1>1, StoredAre
<1>3. /\ Cardinality(Reached(S, few)) \in Nat /\ Cardinality(Reached(S, many)) \in Nat
      /\ Cardinality(Reached(S, few)) <= Cardinality(Reached(S, many))
  BY <1>2, ReachGrows
<1> QED
  BY <1>1, <1>3 DEF Reach

(* An older page that is taken in its own run begins where the count ends,  *)
(* or behind it.                                                            *)
LEMMA OlderTakenStep == ChatInv /\ OlderTaken => ChatInv'
<1> SUFFICES ASSUME ChatInv, OlderTaken PROVE ChatInv'
  OBVIOUS
<1>1. ChatTables /\ MessagesOk /\ TurnsOk /\ TabOk /\ OlderOk /\ EntriesOk /\ session \in Sessions
  BY DEF ChatInv, ChatTables, TurnsOk, TabOk
<1>2. UNCHANGED <<rows, tabVars, awaiting, loads, sending, stream, drops, emptied>>
  BY DEF OlderTaken
<1>3. MessagesOk' /\ MessagesKept
  BY <1>1, <1>2, SameMessages
<1>4. PICK q : q = older
  OBVIOUS
<1>5. /\ q # None /\ q.answered /\ fetched' = fetched + Count(q.items)
      /\ hasMore' = (q.total > fetched') /\ thread' = thread \cup q.items
      /\ cache' = [cache EXCEPT ![q.session] = Entry(thread', hasMore', fetched')]
      /\ TakenFor(q.turn) /\ older' = None
  BY <1>4 DEF OlderTaken
<1>6. OlderTyped(q) /\ InTurn(q) /\ q.offset \in Nat
  BY <1>1, <1>4, <1>5 DEF OlderOk, OlderTyped
<1>7. PICK s, msgs, count, more :
         s = q.session /\ msgs = thread' /\ count = fetched' /\ more = hasMore'
  OBVIOUS
<1>8. /\ s \in Sessions /\ q.items \subseteq Stored(s) /\ Cardinality(q.items) \in Nat
      /\ q.items # {} => q.offset + Cardinality(q.items) <= Reach(s, q.items)
  BY <1>5, <1>6, <1>7 DEF OlderTyped, InTurn
<1>9. /\ msgs = thread \cup q.items /\ msgs \in SUBSET Stamps
      /\ count = fetched + Cardinality(q.items) /\ count \in Nat /\ more \in BOOLEAN
  BY <1>1, <1>5, <1>7, <1>8 DEF TabOk, Count, Stored
<1>10. crossed' = (crossed \/ q.turn # turn \/ rendered # session)
  BY <1>5 DEF TakenFor
<1>11. ~ crossed' => ~ crossed /\ q.turn = turn /\ s = session
  BY <1>1, <1>6, <1>7, <1>10 DEF InTurn
<1>12. cache' = [cache EXCEPT ![s] = Entry(msgs, more, count)]
  BY <1>5, <1>7
<1>13. /\ EntriesOk'
       /\ OwnEntries /\ msgs \subseteq Stored(s) => OwnEntries'
       /\ EntriesCount /\ Counts(s, msgs, count, more) => EntriesCount'
  BY <1>1, <1>2, <1>8, <1>9, <1>12, EntryPut
<1>14. ChatTables'
  <2>1. LoadsOk' /\ SendingOk' /\ StreamOk'
    BY <1>1, <1>2, <1>3, TablesKept DEF tabVars
  <2>2. OlderOk'
    BY <1>5 DEF OlderOk
  <2>3. TurnsOk'
    BY <1>1, <1>2 DEF TurnsOk, tabVars
  <2>4. TabOk'
    BY <1>1, <1>2, <1>7, <1>9, <1>10, <1>13 DEF TabOk, Stamps
  <2> QED
    BY <1>3, <2>1, <2>2, <2>3, <2>4 DEF ChatTables
<1>15. \A u : Stored(u)' = Stored(u)
  BY <1>2 DEF Stored, Stamps
<1>16. ~ crossed' => OwnThread' /\ OwnEntries'
  <2> SUFFICES ASSUME ~ crossed' PROVE OwnThread' /\ OwnEntries'
    OBVIOUS
  <2>1. OwnThread /\ OwnEntries /\ s = session
    BY <1>11 DEF ChatInv
  <2>2. msgs \subseteq Stored(s)
    BY <1>8, <1>9, <2>1 DEF OwnThread
  <2>3. OwnThread'
    BY <1>2, <1>7, <1>15, <2>1, <2>2 DEF OwnThread, tabVars
  <2> QED
    BY <1>13, <2>1, <2>2, <2>3
<1>17. ~ crossed' /\ ~ emptied' => CountsOk'
  <2> SUFFICES ASSUME ~ crossed', ~ emptied' PROVE CountsOk'
    OBVIOUS
  <2>1. CountsOk /\ q.turn = turn /\ s = session
    BY <1>2, <1>11 DEF ChatInv
  <2>2. /\ PageSize <= fetched /\ fetched <= q.offset /\ fetched \in Nat
        /\ fetched <= Reach(s, thread)
    BY <1>1, <1>4, <1>5, <2>1 DEF CountsOk, OlderCounts, ThreadCounts, Counts, TabOk
  <2>3. fetched <= count /\ PageSize <= count
    BY <1>8, <1>9, <2>2, ChatAssumption
  <2>4. Counts(s, msgs, count, more)
    <3>1. CASE q.items = {}
      <4>1. Cardinality(q.items) = 0
        BY <3>1, FS_EmptySet
      <4>2. count = fetched
        BY <1>9, <2>2, <4>1
      <4>3. /\ Reach(s, thread) \in Nat /\ Reach(s, msgs) \in Nat
            /\ Reach(s, thread) <= Reach(s, msgs)
        BY <1>1, <1>8, <1>9, CountGrows
      <4> QED
        BY <2>2, <2>3, <4>2, <4>3 DEF Counts
    <3>2. CASE q.items # {}
      <4>1. /\ Reach(s, q.items) \in Nat /\ Reach(s, msgs) \in Nat
            /\ Reach(s, q.items) <= Reach(s, msgs)
        BY <1>1, <1>8, <1>9, CountGrows
      <4>2. count <= Reach(s, q.items)
        BY <1>6, <1>8, <1>9, <2>2, <3>2, <4>1
      <4> QED
        BY <1>9, <2>3, <4>1, <4>2 DEF Counts
    <3> QED
      BY <3>1, <3>2
  <2>5. ThreadCounts'
    <3>1. Counts(s, msgs, count, more)'
      BY <1>1, <1>3, <1>8, <1>9, <2>4, CountKept
    <3>2. s = session' /\ msgs = thread' /\ count = fetched' /\ more = hasMore'
      BY <1>2, <1>7, <2>1 DEF tabVars
    <3> QED
      BY <3>1, <3>2 DEF ThreadCounts, Counts, Reach, Reached
  <2>6. EntriesCount'
    BY <1>13, <2>1, <2>4 DEF CountsOk
  <2>7. LoadsCount'
    BY <1>2, <2>1, <2>2 DEF CountsOk, LoadsCount, tabVars
  <2>8. OlderCounts'
    BY <1>5 DEF OlderCounts
  <2>9. SendingCounts'
    BY <1>2, <1>7, <2>3 DEF SendingCounts
  <2> QED
    BY <2>5, <2>6, <2>7, <2>8, <2>9 DEF CountsOk
<1> QED
  BY <1>14, <1>16, <1>17 DEF ChatInv

(* A message that is merged into the list and into the entry of a session. *)
LEMMA MessageMerged ==
    ASSUME ChatInv, UNCHANGED <<rows, tabVars, hasMore, fetched, loads, older, emptied>>,
           NEW s \in Sessions, NEW m \in Stamps, NEW more \in BOOLEAN,
           thread' = Merged(m), CacheMerged(s, m, more), crossed' \in BOOLEAN
    PROVE  /\ MessagesOk' /\ TurnsOk' /\ LoadsOk' /\ OlderOk' /\ TabOk'
           /\ OwnThread /\ OwnEntries /\ s = session /\ m \in Stored(s) =>
                 OwnThread' /\ OwnEntries'
           /\ /\ OwnThread /\ CountsOk /\ s = session /\ m \in Stored(s)
              /\ more => PageSize <= fetched
              => ThreadCounts' /\ EntriesCount' /\ LoadsCount' /\ OlderCounts'
<1>1. ChatTables /\ MessagesOk /\ TurnsOk /\ TabOk /\ EntriesOk /\ session \in Sessions
  BY DEF ChatInv, ChatTables, TurnsOk, TabOk
<1>2. MessagesOk' /\ MessagesKept
  BY <1>1, SameMessages
<1>3. PICK msgs, count : msgs = Merged(m) /\ count = Max({fetched, Cardinality(msgs)})
  OBVIOUS
<1>4. msgs = thread' /\ msgs = thread \cup {m} /\ msgs \in SUBSET Stamps
  BY <1>1, <1>3 DEF Merged, TabOk
<1>5. Cardinality(msgs) \in Nat /\ fetched \in Nat
  <2>1. IsFiniteSet(Stamps)
    BY ChatAssumption, FS_Interval DEF Stamps
  <2> QED
    BY <1>1, <1>4, <2>1, FS_Subset, FS_CardinalityType DEF TabOk
<1>6. count \in {fetched, Cardinality(msgs)} /\ count \in Nat /\ fetched <= count
  <2>1. PICK i \in Nat, j \in Nat : i = fetched /\ j = Cardinality(msgs)
    BY <1>5
  <2>2. {i, j} \in SUBSET Nat /\ {i, j} # {} /\ IsFiniteSet({i, j})
    <3>1. IsFiniteSet({i} \cup {j})
      BY FS_AddElement, FS_Singleton
    <3>2. {i, j} = {i} \cup {j}
      OBVIOUS
    <3> QED
      BY <3>1, <3>2
  <2>3. Max({i, j}) \in {i, j} /\ \A n \in {i, j} : n <= Max({i, j})
    BY <2>2, MaxOf
  <2> QED
    BY <1>3, <2>1, <2>3
<1>7. cache' = [cache EXCEPT ![s] = Entry(msgs, more, count)]
  BY <1>3 DEF CacheMerged
<1>8. /\ EntriesOk'
      /\ OwnEntries /\ msgs \subseteq Stored(s) => OwnEntries'
      /\ EntriesCount /\ Counts(s, msgs, count, more) => EntriesCount'
  BY <1>1, <1>4, <1>6, <1>7, EntryPut
<1>9. LoadsOk' /\ OlderOk'
  BY <1>1, <1>2, TablesKept DEF tabVars
<1>10. TurnsOk' /\ TabOk'
  BY <1>1, <1>4, <1>8 DEF TurnsOk, TabOk, tabVars, Stamps
<1>11. ASSUME OwnThread, s = session, m \in Stored(s)
       PROVE  msgs \subseteq Stored(s) /\ OwnThread'
  <2>1. Stored(session)' = Stored(session)
    BY DEF Stored, Stamps, tabVars
  <2> QED
    BY <1>4, <1>11, <2>1 DEF OwnThread
<1>12. ASSUME OwnThread, CountsOk, s = session, m \in Stored(s), more => PageSize <= fetched
       PROVE  ThreadCounts' /\ EntriesCount' /\ LoadsCount' /\ OlderCounts'
  <2>1. fetched <= Reach(s, thread) /\ (hasMore => PageSize <= fetched)
    BY <1>12 DEF CountsOk, ThreadCounts, Counts
  <2>2. /\ Reach(s, thread) \in Nat /\ Reach(s, msgs) \in Nat
        /\ Reach(s, thread) <= Reach(s, msgs)
    BY <1>1, <1>4, CountGrows
  <2>3. Cardinality(msgs) <= Reach(s, msgs)
    <3>1. PICK S : S = Stored(s)
      OBVIOUS
    <3>2. S \in SUBSET Nat /\ IsFiniteSet(S) /\ msgs \in SUBSET S
      BY <1>1, <1>11, <1>12, <3>1, StoredAre
    <3>3. Cardinality(msgs) <= Cardinality(Reached(S, msgs))
      BY <3>2, ReachCounts
    <3> QED
      BY <3>1, <3>3 DEF Reach
  <2>4. Counts(s, msgs, count, more)
    BY <1>5, <1>6, <1>12, <2>1, <2>2, <2>3, ChatAssumption DEF Counts
  <2>5. ThreadCounts'
    <3>1. PICK n, more2 : n = fetched /\ more2 = hasMore
      OBVIOUS
    <3>2. Counts(s, msgs, n, more2) /\ n \in Nat
      BY <1>5, <2>1, <2>2, <3>1 DEF Counts
    <3>3. Counts(s, msgs, n, more2)'
      BY <1>1, <1>2, <3>2, CountKept
    <3>4. s = session' /\ msgs = thread' /\ n = fetched' /\ more2 = hasMore'
      BY <1>4, <1>12, <3>1 DEF tabVars
    <3> QED
      BY <3>3, <3>4 DEF ThreadCounts, Counts, Reach, Reached
  <2>6. EntriesCount'
    BY <1>8, <1>12, <2>4 DEF CountsOk
  <2>7. LoadsCount' /\ OlderCounts'
    BY <1>1, <1>2, <1>12, CountsKept DEF CountsOk, tabVars
  <2> QED
    BY <2>5, <2>6, <2>7
<1> QED
  BY <1>2, <1>8, <1>9, <1>10, <1>11, <1>12

(* The answer of the POST is put into the list. *)
LEMMA SendAnsweredStep == ChatInv /\ SendAnswered => ChatInv'
<1> SUFFICES ASSUME ChatInv, SendAnswered PROVE ChatInv'
  OBVIOUS
<1>1. ChatTables /\ MessagesOk /\ TurnsOk /\ TabOk /\ SendingOk
  BY DEF ChatInv, ChatTables
<1>2. UNCHANGED <<rows, tabVars, hasMore, fetched, loads, older, stream, drops, emptied>>
  BY DEF SendAnswered
<1>3. MessagesOk' /\ MessagesKept
  BY <1>1, <1>2, SameMessages
<1>4. PICK q : q = sending
  OBVIOUS
<1>5. PICK s, m, more : s = q.session /\ m = q.msg /\ more = q.hasMore
  OBVIOUS
<1>6. /\ q # None /\ m # 0 /\ rows[m].stored /\ thread' = Merged(m) /\ CacheMerged(s, m, more)
      /\ TakenFor(q.turn) /\ sending' = None
  BY <1>4, <1>5 DEF SendAnswered
<1>7. SendingTyped(q) /\ InTurn(q)
  BY <1>1, <1>4, <1>6 DEF SendingOk, SendingTyped
<1>8. s \in Sessions /\ more \in BOOLEAN /\ m \in Stamps /\ m \in Stored(s)
  BY <1>5, <1>6, <1>7, ChatAssumption DEF SendingTyped, InTurn, Stored, Stamps
<1>9. crossed' = (crossed \/ q.turn # turn \/ rendered # session) /\ crossed' \in BOOLEAN
  BY <1>1, <1>6 DEF TakenFor, TabOk
<1>10. ~ crossed' => ~ crossed /\ q.turn = turn /\ s = session
  BY <1>1, <1>5, <1>7, <1>9 DEF InTurn
<1>11. /\ MessagesOk' /\ TurnsOk' /\ LoadsOk' /\ OlderOk' /\ TabOk'
       /\ OwnThread /\ OwnEntries /\ s = session /\ m \in Stored(s) =>
             OwnThread' /\ OwnEntries'
       /\ /\ OwnThread /\ CountsOk /\ s = session /\ m \in Stored(s)
          /\ more => PageSize <= fetched
          => ThreadCounts' /\ EntriesCount' /\ LoadsCount' /\ OlderCounts'
  BY <1>2, <1>6, <1>8, <1>9, MessageMerged
<1>12. ChatTables'
  <2>1. StreamOk'
    BY <1>1, <1>2, <1>3, TablesKept DEF tabVars
  <2>2. SendingOk'
    BY <1>6 DEF SendingOk
  <2> QED
    BY <1>11, <2>1, <2>2 DEF ChatTables
<1>13. ~ crossed' => OwnThread' /\ OwnEntries'
  BY <1>8, <1>10, <1>11 DEF ChatInv
<1>14. ~ crossed' /\ ~ emptied' => CountsOk'
  <2> SUFFICES ASSUME ~ crossed', ~ emptied' PROVE CountsOk'
    OBVIOUS
  <2>1. OwnThread /\ CountsOk /\ q.turn = turn /\ s = session
    BY <1>2, <1>10 DEF ChatInv
  <2>2. more => PageSize <= fetched
    BY <1>4, <1>5, <1>6, <2>1 DEF CountsOk, SendingCounts
  <2>3. SendingCounts'
    BY <1>6 DEF SendingCounts
  <2> QED
    BY <1>8, <1>11, <2>1, <2>2, <2>3 DEF CountsOk
<1> QED
  BY <1>12, <1>13, <1>14 DEF ChatInv

(* The stream adds a message to the list. *)
LEMMA StreamEventStep == ChatInv /\ StreamEvent => ChatInv'
<1> SUFFICES ASSUME ChatInv, StreamEvent PROVE ChatInv'
  OBVIOUS
<1>1. ChatTables /\ MessagesOk /\ TurnsOk /\ TabOk /\ StreamOk /\ {session, rendered} \subseteq Sessions
  BY DEF ChatInv, ChatTables, TurnsOk
<1>2. UNCHANGED <<rows, tabVars, hasMore, fetched, requestVars, drops, emptied>>
  BY DEF StreamEvent
<1>3. MessagesOk' /\ MessagesKept
  BY <1>1, <1>2, SameMessages
<1>4. PICK m, s, more : m = Min(stream.wire) /\ s = rendered /\ more = hasMore
  OBVIOUS
<1>5. /\ stream.wire # {} /\ stream' = [stream EXCEPT !.wire = stream.wire \ {m}]
      /\ thread' = Merged(m) /\ CacheMerged(s, m, more) /\ TakenFor(turn)
  BY <1>4 DEF StreamEvent
<1>6. m \in stream.wire
  <2>1. PICK S : S = stream.wire
    OBVIOUS
  <2>2. S \in SUBSET Nat /\ S # {}
    BY <1>1, <1>5, <2>1, StoredAre DEF StreamOk
  <2> QED
    BY <1>4, <2>1, <2>2, MinOf
<1>7. m \in Stored(session) /\ m \in Stamps /\ s \in Sessions /\ more \in BOOLEAN
  BY <1>1, <1>4, <1>6 DEF StreamOk, Stored, TabOk
<1>8. crossed' = (crossed \/ rendered # session) /\ crossed' \in BOOLEAN
  BY <1>1, <1>5 DEF TakenFor, TabOk
<1>9. UNCHANGED <<loads, older, sending>>
  BY <1>2 DEF requestVars
<1>10. /\ MessagesOk' /\ TurnsOk' /\ LoadsOk' /\ OlderOk' /\ TabOk'
       /\ OwnThread /\ OwnEntries /\ s = session /\ m \in Stored(s) =>
             OwnThread' /\ OwnEntries'
       /\ /\ OwnThread /\ CountsOk /\ s = session /\ m \in Stored(s)
          /\ more => PageSize <= fetched
          => ThreadCounts' /\ EntriesCount' /\ LoadsCount' /\ OlderCounts'
  BY <1>2, <1>5, <1>7, <1>8, <1>9, MessageMerged
<1>11. ChatTables'
  <2>1. SendingOk'
    BY <1>1, <1>2, <1>3, <1>9, TablesKept DEF tabVars
  <2>2. StreamOk'
    <3>1. PICK wire : wire = stream.wire \ {m}
      OBVIOUS
    <3>2. stream' = [phase |-> stream.phase, since |-> stream.since, wire |-> wire]
      BY <1>1, <1>5, <3>1 DEF StreamOk
    <3>3. Stored(session)' = Stored(session)
      BY <1>2 DEF Stored, Stamps, tabVars
    <3>4. wire \subseteq Stored(session)
      BY <1>1, <3>1 DEF StreamOk
    <3> QED
      BY <3>2, <3>3, <3>4 DEF StreamOk
  <2> QED
    BY <1>10, <2>1, <2>2 DEF ChatTables
<1>12. ~ crossed' => OwnThread' /\ OwnEntries'
  BY <1>4, <1>7, <1>8, <1>10 DEF ChatInv
<1>13. ~ crossed' /\ ~ emptied' => CountsOk'
  <2> SUFFICES ASSUME ~ crossed', ~ emptied' PROVE CountsOk'
    OBVIOUS
  <2>1. OwnThread /\ CountsOk /\ s = session
    BY <1>2, <1>4, <1>8 DEF ChatInv
  <2>2. more => PageSize <= fetched
    BY <1>4, <2>1 DEF CountsOk, ThreadCounts, Counts
  <2>3. SendingCounts'
    BY <1>1, <1>2, <1>3, <1>9, <2>1, CountsKept DEF CountsOk, tabVars
  <2> QED
    BY <1>7, <1>10, <2>1, <2>2, <2>3 DEF CountsOk
<1> QED
  BY <1>11, <1>12, <1>13 DEF ChatInv
-----------------------------------------------------------------------------
(* The panel is mounted closed, with an empty list. *)
LEMMA InitChat == ChatInit => ChatInv
<1> SUFFICES ASSUME ChatInit PROVE ChatInv
  OBVIOUS
<1>0. MaxMessages \in Nat /\ FirstSession \in Sessions /\ NoSession \notin Sessions
      /\ PageSize \in Nat \ {0}
  BY ChatAssumption
<1>1. PICK old \in Sessions :
         rows = [m \in Stamps |->
                   IF m = 1
                   THEN [session |-> old, by |-> "user", stored |-> TRUE]
                   ELSE [session |-> NoSession, by |-> "agent", stored |-> FALSE]]
  BY DEF ChatInit
<1>2. \A m \in Stamps :
         rows[m] = IF m = 1
                   THEN [session |-> old, by |-> "user", stored |-> TRUE]
                   ELSE [session |-> NoSession, by |-> "agent", stored |-> FALSE]
  BY <1>1
<1>3. MessagesOk
  <2>1. \A m \in Stamps : RowTyped(rows[m])
    <3>1. RowTyped([session |-> old, by |-> "user", stored |-> TRUE])
      BY <1>0 DEF RowTyped
    <3>2. RowTyped([session |-> NoSession, by |-> "agent", stored |-> FALSE])
      BY <1>0 DEF RowTyped
    <3> QED
      BY <1>2, <3>1, <3>2
  <2>2. \A m \in Stamps : rows[m].session # NoSession <=> m = 1
    BY <1>0, <1>2
  <2>3. \E k \in 0..MaxMessages : Taken = 1..k
    <3>1. CASE MaxMessages = 0
      BY <1>0, <3>1 DEF Taken, Stamps
    <3>2. CASE MaxMessages # 0
      <4>1. 1 \in 0..MaxMessages /\ 1 \in Stamps /\ 1..1 = {1}
        BY <1>0, <3>2 DEF Stamps
      <4>2. Taken = 1..1
        BY <2>2, <4>1 DEF Taken
      <4> QED
        BY <4>1, <4>2
    <3> QED
      BY <3>1, <3>2
  <2>4. rows = [m \in Stamps |-> rows[m]]
    BY <1>1
  <2> QED
    BY <2>1, <2>3, <2>4 DEF MessagesOk
<1>4. TurnsOk /\ LoadsOk /\ OlderOk /\ SendingOk /\ StreamOk
  BY <1>0 DEF ChatInit, TurnsOk, LoadsOk, OlderOk, SendingOk, StreamOk, NoStream
<1>5. TabOk /\ OwnThread /\ OwnEntries
  BY DEF ChatInit, TabOk, EntriesOk, OwnThread, OwnEntries
<1>6. CountsOk
  <2>1. ThreadCounts
    <3>1. Counts(session, thread, 0, FALSE)
      BY <1>0, <1>3, NothingCounts DEF ChatInit
    <3> QED
      BY <3>1 DEF ChatInit, ThreadCounts
  <2>2. EntriesCount /\ LoadsCount /\ OlderCounts /\ SendingCounts
    BY DEF ChatInit, EntriesCount, LoadsCount, OlderCounts, SendingCounts
  <2> QED
    BY <2>1, <2>2 DEF CountsOk
<1> QED
  BY <1>3, <1>4, <1>5, <1>6 DEF ChatInv, ChatTables

(* Every step of the panel, its stream and the server. *)
LEMMA NextChat == ChatInv /\ [ChatNext]_chatVars => ChatInv'
<1> SUFFICES ASSUME ChatInv, [ChatNext]_chatVars PROVE ChatInv'
  OBVIOUS
<1>1. CASE User
  BY <1>1, SelectSessionStep, SwitchSessionStep, OpenPanelStep, ClosePanelStep, LoadOlderStep, SendStep
     DEF User
<1>2. CASE Server
  BY <1>2, RowCommitsStep, LoadReadStep, OlderReadStep, SendStampedStep, ConnectionStep DEF Server
<1>3. CASE LoadTaken \/ OlderTaken \/ SendAnswered
  BY <1>3, LoadTakenStep, OlderTakenStep, SendAnsweredStep
<1>4. CASE Faults
  BY <1>4, LoadFailsStep, OlderFailsStep, SendFailsStep, ConnectionStep DEF Faults
<1>5. CASE AgentPosts \/ CacheAges \/ Timing \/ StreamEvent \/ StreamRetries
  BY <1>5, AgentPostsStep, CacheAgesStep, TimingStep, StreamEventStep, ConnectionStep
<1>6. CASE UNCHANGED chatVars
  <2>1. UNCHANGED <<rows, session, rendered, open, acts, turn, thread, hasMore, fetched, cache,
                    awaiting, loads, older, sending, stream, drops, historyVars>>
    BY <1>6 DEF chatVars, historyVars
  <2>2. MessagesOk /\ TurnsOk /\ ChatTables
    BY DEF ChatInv, ChatTables
  <2>3. MessagesOk' /\ MessagesKept
    BY <2>1, <2>2, SameMessages
  <2>4. TurnsOk' /\ StreamOk'
    BY <2>1, <2>2, <2>3, TablesKept DEF TurnsOk
  <2> QED
    BY <2>1, <2>3, <2>4, ChatKept DEF requestVars
<1> QED
  BY <1>1, <1>2, <1>3, <1>4, <1>5, <1>6 DEF ChatNext, Answers

(* ChatInv is an invariant of the chat. *)
LEMMA ChatInvariance == ChatSpec => []ChatInv
  BY InitChat, NextChat, PTL DEF ChatSpec

(* BleedsOnlyLate: a message of another session comes into a list or an     *)
(* entry only with an answer that was taken in another run of the effect,   *)
(* or with an event between the render of a switch and its effects.         *)
THEOREM SessionsDoNotMix == ChatSpec => []BleedsOnlyLate
<1>1. ChatInv => BleedsOnlyLate
  BY DEF ChatInv, OwnThread, OwnEntries, BleedsOnlyLate, Foreign, Stored
<1> QED
  BY <1>1, ChatInvariance, PTL

(* PagesMeet: the offset of "load older" never passes the oldest message on *)
(* display, whatever was stored since the first page and whatever the cache *)
(* made of the count, unless a first page failed under another request.     *)
THEOREM PagesNeverGap == ChatSpec => []PagesMeet
<1>1. ChatInv => PagesMeet
  BY DEF ChatInv, CountsOk, ThreadCounts, Counts, Reach, Reached, PagesMeet
<1> QED
  BY <1>1, ChatInvariance, PTL
-----------------------------------------------------------------------------
(* What the types of the chat say beyond its tables: who wrote a message,   *)
(* that lists hold messages that were stamped, that the indicator stands    *)
(* for one, and that the stream is off while the panel is closed.           *)
Authored == \A m \in Stamps : rows[m].by \in {"user", "agent"}

(* Entries of the cache. *)
EntryTaken(e) == e.messages \subseteq Taken /\ e.fresh \in BOOLEAN
EntriesTaken == \A s \in Sessions : cache[s] # None => EntryTaken(cache[s])

(* The list on display, indicator and entries. *)
ListsTaken == thread \subseteq Taken /\ awaiting \in {0} \cup Taken /\ EntriesTaken

(* The stream of a panel. *)
Connected(phase, on) ==
    on \in BOOLEAN /\ phase \in {"off", "asked", "open", "waiting"} /\ ((phase = "off") <=> ~ on)

(* The timer of the indicator. *)
TimerTyped == {indicator, timed, timer, untimed} \subseteq BOOLEAN

ChatTyped ==
    Authored /\ ListsTaken /\ acts <= MaxActs /\ Connected(stream.phase, open) /\ TimerTyped

(* Rows change only when a message is built or committed. *)
LEMMA RowsChange ==
    ASSUME SendingOk, [ChatNext]_chatVars
    PROVE  \/ UNCHANGED rows \/ RowCommits
           \/ \E s \in Sessions, by \in {"user", "agent"} : Stamp(s, by)
<1>1. CASE User
  BY <1>1 DEF User, SelectSession, SwitchSession, OpenPanel, ClosePanel, LoadOlder, Send
<1>2. CASE Server
  <2>1. CASE SendStamped
    BY <2>1 DEF SendStamped, SendingOk, SendingTyped, InTurn
  <2> QED
    BY <1>2, <2>1 DEF Server, LoadRead, OlderRead, StreamAccepted, StreamPolls
<1>3. CASE Answers
  BY <1>3 DEF Answers, LoadTaken, OlderTaken, SendAnswered
<1>4. CASE Faults
  BY <1>4 DEF Faults, LoadFails, OlderFails, SendFails, StreamBreaks
<1>5. CASE AgentPosts
  BY <1>5 DEF AgentPosts
<1>6. CASE CacheAges \/ Timing \/ StreamEvent \/ StreamRetries
  BY <1>6 DEF CacheAges, Timing, RenderAwaiting, AwaitEffect, AwaitTimesOut, StreamEvent,
              StreamRetries
<1>7. CASE UNCHANGED chatVars
  BY <1>7 DEF chatVars
<1> QED
  BY <1>1, <1>2, <1>3, <1>4, <1>5, <1>6, <1>7 DEF ChatNext

(* A message keeps its author, and its stamp stays taken. *)
LEMMA AuthorsKept ==
    ASSUME ChatInv, Authored, [ChatNext]_chatVars
    PROVE  Authored' /\ Taken \subseteq Taken'
<1>1. MessagesOk /\ SendingOk
  BY DEF ChatInv, ChatTables
<1>2. CASE UNCHANGED rows
  BY <1>2 DEF Authored, Taken, Stamps
<1>3. CASE RowCommits
  <2>1. PICK m \in Taken : rows' = [rows EXCEPT ![m].stored = TRUE]
    BY <1>3 DEF RowCommits
  <2>2. PICK old : old = rows[m]
    OBVIOUS
  <2>3. rows' = [rows EXCEPT ![m] = [old EXCEPT !.stored = TRUE]]
    BY <2>1, <2>2
  <2>4. [old EXCEPT !.stored = TRUE].by = old.by
    BY <1>1, <2>1, <2>2 DEF MessagesOk, RowTyped, Taken
  <2>5. PICK new : new = [old EXCEPT !.stored = TRUE]
    OBVIOUS
  <2>6. \A n \in Stamps : rows'[n] = IF n = m THEN new ELSE rows[n]
    BY <1>1, <2>3, <2>5 DEF MessagesOk
  <2>7. \A n \in Stamps : rows'[n].by = rows[n].by
    BY <2>2, <2>4, <2>5, <2>6
  <2>8. Authored'
    BY <2>7 DEF Authored, Stamps
  <2>9. MessagesKept
    BY <1>1, <1>3, CommitKeeps
  <2> QED
    BY <2>8, <2>9, ChatAssumption DEF MessagesKept, Taken, Stamps
<1>4. ASSUME NEW s \in Sessions, NEW by \in {"user", "agent"}, Stamp(s, by)
      PROVE  Authored' /\ Taken \subseteq Taken'
  <2>1. PICK k : k = Now
    OBVIOUS
  <2>2. PICK new : new = [session |-> s, by |-> by, stored |-> FALSE]
    OBVIOUS
  <2>3. \A n \in Stamps : rows'[n] = IF n = k + 1 THEN new ELSE rows[n]
    BY <1>1, <1>4, <2>1, <2>2 DEF MessagesOk, Stamp
  <2>4. new.by \in {"user", "agent"}
    BY <2>2
  <2>5. Authored'
    BY <2>3, <2>4 DEF Authored, Stamps
  <2>6. MessagesKept
    BY <1>1, <1>4, StampKeeps
  <2> QED
    BY <2>5, <2>6, ChatAssumption DEF MessagesKept, Taken, Stamps
<1> QED
  BY <1>1, <1>2, <1>3, <1>4, RowsChange

(* Acts are counted up to their bound. *)
LEMMA ActsBounded ==
    ASSUME ChatInv, acts <= MaxActs, [ChatNext]_chatVars
    PROVE  acts' <= MaxActs
<1>1. acts \in Nat /\ MaxActs \in Nat
  BY ChatAssumption DEF ChatInv, ChatTables, TurnsOk
<1>2. UNCHANGED acts \/ Act
  <2>1. CASE User
    BY <2>1 DEF User, SelectSession, SwitchSession, OpenPanel, ClosePanel, LoadOlder, Send
  <2>2. CASE Server
    BY <2>2 DEF Server, RowCommits, LoadRead, OlderRead, SendStamped, StreamAccepted,
                StreamPolls, tabVars
  <2>3. CASE Answers \/ Faults
    BY <2>3 DEF Answers, LoadTaken, OlderTaken, SendAnswered, Faults, LoadFails, OlderFails, SendFails,
                StreamBreaks, tabVars
  <2>4. CASE AgentPosts \/ CacheAges \/ Timing \/ StreamEvent \/ StreamRetries
    BY <2>4 DEF AgentPosts, CacheAges, Timing, RenderAwaiting, AwaitEffect, AwaitTimesOut,
                StreamEvent, StreamRetries, tabVars
  <2>5. CASE UNCHANGED chatVars
    BY <2>5 DEF chatVars
  <2> QED
    BY <2>1, <2>2, <2>3, <2>4, <2>5 DEF ChatNext
<1> QED
  BY <1>1, <1>2 DEF Act

(* A new connection is asked for when the panel is open. *)
LEMMA ConnectionMade ==
    ASSUME NEW on \in BOOLEAN, Reconnects(on), open' = on
    PROVE  Connected(stream'.phase, open')
<1>1. PICK phase, since : /\ phase = IF on THEN "asked" ELSE "off"
                          /\ stream' = [NoStream EXCEPT !.phase = phase, !.since = since]
  BY DEF Reconnects
<1>2. stream'.phase = phase
  BY <1>1 DEF NoStream
<1> QED
  BY <1>1, <1>2 DEF Connected

(* The stream is off as long as the panel is closed. *)
LEMMA ConnectionTyped ==
    ASSUME ChatInv, Connected(stream.phase, open), [ChatNext]_chatVars
    PROVE  Connected(stream'.phase, open')
<1>1. PICK old : old = stream
  OBVIOUS
<1>2. old = [phase |-> old.phase, since |-> old.since, wire |-> old.wire]
  BY <1>1 DEF ChatInv, ChatTables, StreamOk
<1>3. open \in BOOLEAN /\ Connected(old.phase, open)
  BY <1>1 DEF Connected
<1>4. session # rendered => open
  BY DEF ChatInv, ChatTables, TurnsOk
<1>5. CASE UNCHANGED <<open, stream>>
  BY <1>5
<1>6. CASE SwitchSession \/ OpenPanel
  BY <1>4, <1>6, ConnectionMade DEF SwitchSession, OpenPanel
<1>7. CASE ClosePanel
  BY <1>7, ConnectionMade DEF ClosePanel
<1>8. CASE StreamAccepted
  <2>1. PICK since : stream' = [old EXCEPT !.phase = "open", !.since = since]
    BY <1>1, <1>8 DEF StreamAccepted
  <2>2. stream'.phase = "open" /\ old.phase = "asked" /\ open' = open
    BY <1>1, <1>2, <1>8, <2>1 DEF StreamAccepted, tabVars
  <2> QED
    BY <1>3, <2>2 DEF Connected
<1>9. CASE StreamPolls \/ StreamEvent
  <2>1. PICK since, wire : \/ stream' = [old EXCEPT !.wire = wire, !.since = since]
                           \/ stream' = [old EXCEPT !.wire = wire]
    BY <1>1, <1>9 DEF StreamPolls, StreamEvent
  <2>2. stream'.phase = old.phase /\ open' = open
    BY <1>2, <1>9, <2>1 DEF StreamPolls, StreamEvent, tabVars
  <2> QED
    BY <1>3, <2>2
<1>10. CASE StreamBreaks
  <2>1. stream'.phase = "waiting" /\ old.phase \in {"asked", "open"} /\ open' = open
    BY <1>1, <1>10 DEF StreamBreaks, NoStream, tabVars
  <2> QED
    BY <1>3, <2>1 DEF Connected
<1>11. CASE StreamRetries
  <2>1. Reconnects(TRUE) /\ old.phase = "waiting" /\ open' = open
    BY <1>1, <1>11 DEF StreamRetries, tabVars
  <2>2. open' = TRUE
    BY <1>3, <2>1 DEF Connected
  <2> QED
    BY <2>1, <2>2, ConnectionMade
<1>12. CASE SelectSession \/ LoadOlder \/ Send
  BY <1>5, <1>12 DEF SelectSession, LoadOlder, Send
<1>13. CASE Server /\ ~ StreamAccepted /\ ~ StreamPolls
  BY <1>5, <1>13 DEF Server, RowCommits, LoadRead, OlderRead, SendStamped, tabVars
<1>14. CASE Answers \/ (Faults /\ ~ StreamBreaks)
  BY <1>5, <1>14 DEF Answers, LoadTaken, OlderTaken, SendAnswered, Faults, LoadFails, OlderFails,
                     SendFails, tabVars
<1>15. CASE AgentPosts \/ CacheAges \/ Timing
  BY <1>5, <1>15 DEF AgentPosts, CacheAges, Timing, RenderAwaiting, AwaitEffect, AwaitTimesOut,
                     tabVars
<1>16. CASE UNCHANGED chatVars
  BY <1>5, <1>16 DEF chatVars
<1> QED
  BY <1>6, <1>7, <1>8, <1>9, <1>10, <1>11, <1>12, <1>13, <1>14, <1>15, <1>16 DEF ChatNext, User

(* A list whose last message keeps the indicator on holds that message. *)
LEMMA RestoredIsThere ==
    ASSUME MessagesOk, NEW items, items \subseteq Taken, RestoreAwaiting(items)
    PROVE  awaiting' \in {0} \cup items
<1>1. Now \in Nat /\ Taken = 1..Now
  BY StoredAre, ChatAssumption
<1>2. items \in SUBSET Nat /\ IsFiniteSet(items)
  <2>1. PICK k : k = Now
    OBVIOUS
  <2>2. IsFiniteSet(1..k)
    BY <1>1, <2>1, FS_Interval
  <2>3. items \in SUBSET (1..k)
    BY <1>1, <2>1
  <2>4. items \in SUBSET Nat
    BY <1>1, <2>1, <2>3
  <2> QED
    BY <2>2, <2>3, <2>4, FS_Subset
<1>3. items # {} => Max(items) \in items
  BY <1>2, MaxOf
<1> QED
  BY <1>3 DEF RestoreAwaiting

(* An entry that is written lists messages that were stamped. *)
LEMMA EntryWritten ==
    ASSUME EntriesOk, EntriesTaken, NEW s, NEW msgs, NEW more, NEW count, msgs \subseteq Taken,
           cache' = [cache EXCEPT ![s] = Entry(msgs, more, count)]
    PROVE  \A u \in Sessions : cache'[u] # None => EntryTaken(cache'[u])
<1>1. PICK new : new = Entry(msgs, more, count)
  OBVIOUS
<1>2. new.messages = msgs /\ new.fresh = TRUE
  BY <1>1 DEF Entry
<1>3. \A u \in Sessions : cache'[u] = new \/ cache'[u] = cache[u]
  BY <1>1 DEF EntriesOk
<1>4. EntryTaken(new)
  BY <1>2 DEF EntryTaken
<1> QED
  BY <1>3, <1>4 DEF EntriesTaken

(* What a run of the effect shows was in the cache. *)
LEMMA FetchLists ==
    ASSUME MessagesOk, EntriesOk, EntriesTaken, NEW s \in Sessions, NEW skip, Fetch(s, skip)
    PROVE  /\ thread' \subseteq Taken /\ awaiting' \in {0} \cup Taken
           /\ \A u \in Sessions : cache'[u] # None => EntryTaken(cache'[u])
<1>1. thread' \subseteq Taken /\ awaiting' \in {0} \cup Taken
  <2>1. CASE FromCache(s)
    <3>1. PICK items : items = cache[s].messages
      OBVIOUS
    <3>2. items \subseteq Taken /\ thread' = items /\ RestoreAwaiting(items)
      BY <2>1, <3>1 DEF FromCache, EntriesTaken, EntryTaken
    <3> QED
      BY <3>2, RestoredIsThere
  <2>2. CASE Cleared
    BY <2>2 DEF Cleared
  <2> QED
    BY <2>1, <2>2 DEF Fetch
<1>2. ASSUME UNCHANGED cache PROVE \A u \in Sessions : cache'[u] # None => EntryTaken(cache'[u])
  BY <1>2 DEF EntriesTaken
<1>3. ASSUME cache' = [cache EXCEPT ![s] = Entry({}, FALSE, 0)]
      PROVE  \A u \in Sessions : cache'[u] # None => EntryTaken(cache'[u])
  BY <1>3, EntryWritten
<1> QED
  BY <1>1, <1>2, <1>3 DEF Fetch

(* Lists, entries and indicator after a step, of what was stamped before it. *)
LEMMA ListsAfter ==
    ASSUME ChatInv, ListsTaken, [ChatNext]_chatVars
    PROVE  /\ thread' \subseteq Taken /\ awaiting' \in {0} \cup Taken
           /\ \A u \in Sessions : cache'[u] # None => EntryTaken(cache'[u])
<1>1. MessagesOk /\ LoadsOk /\ OlderOk /\ SendingOk /\ StreamOk /\ EntriesOk
      /\ {session, rendered} \subseteq Sessions
  BY DEF ChatInv, ChatTables, TabOk, TurnsOk
<1>2. thread \subseteq Taken /\ awaiting \in {0} \cup Taken /\ EntriesTaken
  BY DEF ListsTaken
<1>3. \A s \in Sessions : Stored(s) \subseteq Taken
  BY <1>1, StoredAre
<1>4. CASE UNCHANGED <<thread, cache>> /\ awaiting' \in {0, awaiting}
  BY <1>2, <1>4 DEF EntriesTaken
<1>5. CASE SwitchSession \/ OpenPanel
  BY <1>1, <1>2, <1>5, FetchLists DEF SwitchSession, OpenPanel
<1>6. CASE CacheAges
  <2>1. PICK s \in Sessions : Fresh(s) /\ cache' = [cache EXCEPT ![s].fresh = FALSE]
    BY <1>6 DEF CacheAges
  <2>2. PICK old : old = cache[s]
    OBVIOUS
  <2>3. PICK new : new = [old EXCEPT !.fresh = FALSE]
    OBVIOUS
  <2>4. cache' = [cache EXCEPT ![s] = new]
    BY <2>1, <2>2, <2>3
  <2>5. old # None /\ EntryTaken(old)
    BY <1>2, <2>1, <2>2 DEF Fresh, EntriesTaken
  <2>6. old = [messages |-> old.messages, hasMore |-> old.hasMore,
               fetched |-> old.fetched, fresh |-> old.fresh]
    BY <1>1, <2>2, <2>5 DEF EntriesOk
  <2>7. new.messages = old.messages /\ new.fresh = FALSE
    BY <2>3, <2>6
  <2>8. EntryTaken(new)
    BY <2>5, <2>7 DEF EntryTaken
  <2>9. \A u \in Sessions : cache'[u] = new \/ cache'[u] = cache[u]
    BY <1>1, <2>4 DEF EntriesOk
  <2> QED
    BY <1>2, <1>6, <2>8, <2>9 DEF CacheAges, shownVars, EntriesTaken
<1>7. CASE LoadTaken
  <2>1. PICK q \in loads :
           /\ q.answered /\ thread' = q.items /\ RestoreAwaiting(q.items)
           /\ cache' = [cache EXCEPT ![q.session] = Entry(q.items, hasMore', fetched')]
    BY <1>7 DEF LoadTaken
  <2>2. q.items \subseteq Taken
    BY <1>1, <1>3, <2>1 DEF LoadsOk, LoadTyped, InTurn
  <2>3. awaiting' \in {0} \cup Taken
    BY <1>1, <2>1, <2>2, RestoredIsThere
  <2>4. \A u \in Sessions : cache'[u] # None => EntryTaken(cache'[u])
    BY <1>1, <1>2, <2>1, <2>2, EntryWritten
  <2> QED
    BY <2>1, <2>2, <2>3, <2>4
<1>8. CASE OlderTaken
  <2>1. PICK items : items = thread'
    OBVIOUS
  <2>2. items \subseteq Taken /\ awaiting' = awaiting
    <3>1. older.items \subseteq Taken
      BY <1>1, <1>3, <1>8 DEF OlderTaken, OlderOk, OlderTyped, InTurn
    <3> QED
      BY <1>2, <1>8, <2>1, <3>1 DEF OlderTaken
  <2>3. PICK s, more, count : cache' = [cache EXCEPT ![s] = Entry(items, more, count)]
    BY <1>8, <2>1 DEF OlderTaken
  <2> QED
    BY <1>1, <1>2, <2>1, <2>2, <2>3, EntryWritten
<1>9. CASE SendAnswered
  <2>1. PICK m : m = sending.msg
    OBVIOUS
  <2>2. m \in Taken
    <3>1. rows[m].session \in Sessions /\ m \in 1..MaxMessages
      BY <1>1, <1>9, <2>1, ChatAssumption DEF SendAnswered, SendingOk, SendingTyped, InTurn
    <3> QED
      BY <3>1, ChatAssumption DEF Taken, Stamps
  <2>3. PICK items : items = Merged(m)
    OBVIOUS
  <2>4. items \subseteq Taken /\ thread' = items /\ awaiting' = m
    BY <1>2, <1>9, <2>1, <2>2, <2>3 DEF SendAnswered, Merged
  <2>5. PICK s, more, count : cache' = [cache EXCEPT ![s] = Entry(items, more, count)]
    BY <1>9, <2>1, <2>3 DEF SendAnswered, CacheMerged
  <2> QED
    BY <1>1, <1>2, <2>2, <2>4, <2>5, EntryWritten
<1>10. CASE StreamEvent
  <2>1. PICK m : m = Min(stream.wire)
    OBVIOUS
  <2>2. m \in Taken
    <3>1. stream.wire \subseteq Stored(session) /\ stream.wire # {}
      BY <1>1, <1>10 DEF StreamEvent, StreamOk
    <3>2. stream.wire \in SUBSET Nat
      BY <1>1, <3>1, StoredAre
    <3>3. PICK wire : wire = stream.wire
      OBVIOUS
    <3>4. Min(wire) \in wire
      BY <3>1, <3>2, <3>3, MinOf
    <3> QED
      BY <1>1, <1>3, <2>1, <3>1, <3>3, <3>4
  <2>3. PICK items : items = Merged(m)
    OBVIOUS
  <2>4. items \subseteq Taken /\ thread' = items /\ awaiting' \in {0, awaiting}
    BY <1>2, <1>10, <2>1, <2>2, <2>3 DEF StreamEvent, Merged
  <2>5. PICK s, more, count : cache' = [cache EXCEPT ![s] = Entry(items, more, count)]
    BY <1>10, <2>1, <2>3 DEF StreamEvent, CacheMerged
  <2> QED
    BY <1>1, <1>2, <2>4, <2>5, EntryWritten
<1>11. CASE LoadFails
  BY <1>2, <1>11 DEF LoadFails, Cleared, EntriesTaken
<1>12. CASE SelectSession \/ ClosePanel \/ LoadOlder \/ Send
  BY <1>4, <1>12 DEF SelectSession, ClosePanel, LoadOlder, Send, shownVars
<1>13. CASE Server
  BY <1>4, <1>13 DEF Server, RowCommits, LoadRead, OlderRead, SendStamped, StreamAccepted, StreamPolls,
                     shownVars
<1>14. CASE OlderFails \/ SendFails \/ StreamBreaks
  BY <1>4, <1>14 DEF OlderFails, SendFails, StreamBreaks, shownVars
<1>15. CASE AgentPosts \/ Timing \/ StreamRetries
  BY <1>4, <1>15 DEF AgentPosts, Timing, RenderAwaiting, AwaitEffect, AwaitTimesOut, StreamRetries,
                     shownVars
<1>16. CASE UNCHANGED chatVars
  BY <1>4, <1>16 DEF chatVars
<1> QED
  BY <1>5, <1>6, <1>7, <1>8, <1>9, <1>10, <1>11, <1>12, <1>13, <1>14, <1>15, <1>16
     DEF ChatNext, User, Answers, Faults

(* The timer is set, cleared or left alone. *)
LEMMA TimerStays ==
    ASSUME TimerTyped, [ChatNext]_chatVars
    PROVE  TimerTyped'
<1>1. CASE UNCHANGED timerVars /\ (UNCHANGED untimed \/ BeginsTimed)
  BY <1>1 DEF TimerTyped, timerVars, BeginsTimed
<1>2. CASE Timing
  <2>1. indicator' \in BOOLEAN /\ timed' \in BOOLEAN /\ timer' \in BOOLEAN
    BY <1>2 DEF TimerTyped, Timing, RenderAwaiting, AwaitEffect, AwaitTimesOut
  <2>2. UNCHANGED untimed
    BY <1>2 DEF Timing, RenderAwaiting, AwaitEffect, AwaitTimesOut, historyVars
  <2> QED
    BY <2>1, <2>2 DEF TimerTyped
<1>3. CASE User
  BY <1>1, <1>3 DEF User, SelectSession, SwitchSession, OpenPanel, ClosePanel, LoadOlder, Send,
                    historyVars
<1>4. CASE Server
  BY <1>1, <1>4 DEF Server, RowCommits, LoadRead, OlderRead, SendStamped, StreamAccepted,
                    StreamPolls, historyVars
<1>5. CASE Answers \/ StreamEvent
  BY <1>1, <1>5 DEF Answers, LoadTaken, OlderTaken, SendAnswered, StreamEvent
<1>6. CASE Faults
  BY <1>1, <1>6 DEF Faults, LoadFails, OlderFails, SendFails, StreamBreaks, historyVars
<1>7. CASE AgentPosts \/ CacheAges \/ StreamRetries
  BY <1>1, <1>7 DEF AgentPosts, CacheAges, StreamRetries, historyVars
<1>8. CASE UNCHANGED chatVars
  BY <1>1, <1>8 DEF chatVars, timerVars
<1> QED
  BY <1>2, <1>3, <1>4, <1>5, <1>6, <1>7, <1>8 DEF ChatNext

(* The types are kept along with the tables. *)
LEMMA NextChatTyped == ChatInv /\ ChatTyped /\ [ChatNext]_chatVars => ChatTyped'
<1> SUFFICES ASSUME ChatInv, ChatTyped, [ChatNext]_chatVars PROVE ChatTyped'
  OBVIOUS
<1>1. Authored /\ ListsTaken /\ acts <= MaxActs /\ Connected(stream.phase, open)
  BY DEF ChatTyped
<1>2. Authored' /\ Taken \subseteq Taken'
  BY <1>1, AuthorsKept
<1>3. acts' <= MaxActs /\ Connected(stream'.phase, open')
  BY <1>1, ActsBounded, ConnectionTyped
<1>4. ListsTaken'
  <2>1. /\ thread' \subseteq Taken /\ awaiting' \in {0} \cup Taken
        /\ \A u \in Sessions : cache'[u] # None => EntryTaken(cache'[u])
    BY <1>1, ListsAfter
  <2>2. EntriesTaken'
    BY <1>2, <2>1 DEF EntriesTaken, EntryTaken
  <2> QED
    BY <1>2, <2>1, <2>2 DEF ListsTaken
<1>5. TimerTyped'
  BY TimerStays DEF ChatTyped
<1> QED
  BY <1>2, <1>3, <1>4, <1>5 DEF ChatTyped, Connected

(* ChatTypeOK: whatever was loaded, sent, streamed or kept in the cache. *)
THEOREM ChatIsTyped == ChatSpec => []ChatTypeOK
<1>1. ChatInit => ChatTyped
  <2> SUFFICES ASSUME ChatInit PROVE ChatTyped
    OBVIOUS
  <2>1. Authored
    <3>1. PICK old : rows = [m \in Stamps |->
                               IF m = 1
                               THEN [session |-> old, by |-> "user", stored |-> TRUE]
                               ELSE [session |-> NoSession, by |-> "agent", stored |-> FALSE]]
      BY DEF ChatInit
    <3>2. \A m \in Stamps : rows[m].by = IF m = 1 THEN "user" ELSE "agent"
      BY <3>1
    <3> QED
      BY <3>2 DEF Authored
  <2>2. ListsTaken
    BY DEF ChatInit, ListsTaken, EntriesTaken
  <2>3. acts <= MaxActs /\ Connected(stream.phase, open)
    <3>1. acts = 0 /\ open = FALSE /\ stream = [phase |-> "off", since |-> 0, wire |-> {}]
      BY DEF ChatInit, NoStream
    <3>2. stream.phase = "off" /\ MaxActs \in Nat
      BY <3>1, ChatAssumption
    <3>3. acts <= MaxActs
      BY <3>1, <3>2
    <3>4. Connected(stream.phase, open)
      BY <3>1, <3>2 DEF Connected
    <3> QED
      BY <3>3, <3>4
  <2>4. TimerTyped
    BY DEF ChatInit, TimerTyped
  <2> QED
    BY <2>1, <2>2, <2>3, <2>4 DEF ChatTyped
<1>2. ChatInv /\ ChatTyped => ChatTypeOK
  <2> SUFFICES ASSUME ChatInv, ChatTyped PROVE ChatTypeOK
    OBVIOUS
  <2>1. MessagesOk /\ TurnsOk /\ StreamOk /\ TabOk /\ EntriesOk
    BY DEF ChatInv, ChatTables, TabOk
  <2>2. rows \in [Stamps -> [session : Sessions \cup {NoSession}, by : {"user", "agent"},
                             stored : BOOLEAN]]
    <3>1. \A m \in Stamps : rows[m] \in [session : Sessions \cup {NoSession},
                                         by : {"user", "agent"}, stored : BOOLEAN]
      BY <2>1 DEF MessagesOk, RowTyped, ChatTyped, Authored
    <3> QED
      BY <2>1, <3>1 DEF MessagesOk
  <2>3. {session, rendered} \subseteq Sessions /\ {acts, turn} \subseteq 0..MaxActs
    BY <2>1, ChatAssumption DEF TurnsOk, ChatTyped
  <2>4. \A s \in Sessions :
           \/ cache[s] = None
           \/ cache[s] \in [messages : SUBSET Taken, hasMore : BOOLEAN, fetched : Nat, fresh : BOOLEAN]
    BY <2>1 DEF EntriesOk, ChatTyped, ListsTaken, EntriesTaken, EntryTaken
  <2>5. stream.wire \subseteq Taken
    BY <2>1, StoredAre DEF StreamOk, TurnsOk
  <2>6. {indicator, timed, timer, untimed} \subseteq BOOLEAN
    BY DEF ChatTyped, TimerTyped
  <2> QED
    BY <2>1, <2>2, <2>3, <2>4, <2>5, <2>6 DEF ChatTypeOK, ChatTyped, ListsTaken, Connected, TabOk
<1> QED
  BY <1>1, <1>2, NextChatTyped, ChatInvariance, InitChat, NextChat, PTL DEF ChatSpec

-----------------------------------------------------------------------------
(***************************************************************************)
(* The panels side by side: a behaviour of MCConsole is one of each of its *)
(* panels, so that it keeps what they promise.                             *)
(***************************************************************************)
(* A step of the page is a step of one panel, and leaves the others alone. *)
LEMMA StepsAreOfPanels ==
    ASSUME [ConsoleNext]_consoleVars
    PROVE  /\ [ChatNext]_chatVars /\ [CardsNext]_cardsVars
           /\ [ApprovalsNext]_approvalsVars /\ [OnboardingNext]_onboardingVars
  BY DEF ConsoleNext, consoleVars, OthersThanChat, OthersThanCards, OthersThanApprovals,
         OthersThanOnboarding

(* Whatever panels a run is about, each of them behaves as its own module  *)
(* says: what is proved of a panel holds where they are checked together.  *)
THEOREM ConsoleIsItsPanels ==
    ConsoleSpec => ChatSpec /\ CardsSpec /\ ApprovalsSpec /\ OnboardingSpec
<1>1. ConsoleInit => ChatInit /\ CardsInit /\ ApprovalsInit /\ OnboardingInit
  BY DEF ConsoleInit
<1> QED
  BY <1>1, StepsAreOfPanels, PTL
  DEF ConsoleSpec, ChatSpec, CardsSpec, ApprovalsSpec, OnboardingSpec

(* Chat, cards, approvals and dialog keep their types side by side. *)
THEOREM ConsoleKeepsTypes == ConsoleSpec => []ConsoleTypeOK
<1>1. ChatTypeOK /\ CardsTypeOK /\ ApprovalsTypeOK /\ OnboardingTypeOK => ConsoleTypeOK
  BY DEF ConsoleTypeOK
<1> QED
  BY <1>1, ConsoleIsItsPanels, ChatIsTyped, CardsAreTyped, ApprovalsTyped, OnboardingIsTyped, PTL

(* What the panels promise, states and steps, they keep side by side: every *)
(* safety property that is checked of them, on no instance in particular.   *)
THEOREM ConsoleKeepsPromises ==
    ConsoleSpec =>
        /\ [](/\ BleedsOnlyLate /\ PagesMeet /\ QuietBoardIsCurrent /\ ApprovalsAreCurrent
              /\ NobodyWaits /\ NoReask /\ OneDraft)
        /\ ConfirmedStays
<1>1. ChatSpec => [](BleedsOnlyLate /\ PagesMeet)
  BY SessionsDoNotMix, PagesNeverGap, PTL
<1>2. OnboardingSpec => [](NobodyWaits /\ NoReask /\ OneDraft) /\ ConfirmedStays
  BY TheyDoNotWait, QuestionsNotAskedAgain, GoalIsTheDraft, ConfirmedIsKept, PTL
<1> QED
  BY <1>1, <1>2, ConsoleIsItsPanels, QuietBoards, StreamedApprovalsAreCurrent, PTL
=============================================================================
