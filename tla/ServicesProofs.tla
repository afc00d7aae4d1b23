---------------------------- MODULE ServicesProofs ----------------------------
(***************************************************************************)
(* The parts of the server side by side: a behaviour of MCServices is one  *)
(* of each of its parts, so that it keeps what they promise.               *)
(***************************************************************************)
EXTENDS MCServices, ApprovalGateProofs, TaskQueueProofs, OrganizationProofs

(* A step of the whole is a step of one part, and leaves the others alone. *)
LEMMA StepsAreOfParts ==
    ASSUME [ServicesNext]_servicesVars
    PROVE  /\ [Next]_vars /\ [QueueNext]_queueVars /\ [BillingNext]_billingVars
           /\ [LedgerNext]_ledgerVars /\ [MembershipNext]_membershipVars
  BY DEF ServicesNext, servicesVars, OthersThanGate, OthersThanQueue, OthersThanBilling,
         OthersThanLedger, OthersThanMembers

(* Whatever parts a run is about, each of them behaves as its own module   *)
(* says: what is proved of a part holds where they are checked together.   *)
THEOREM ServicesAreTheirParts ==
    ServicesSpec => Spec /\ QueueSpec /\ BillingSpec /\ LedgerSpec /\ MembershipSpec
<1>1. ServicesInit => Init /\ QueueInit /\ BillingInit /\ LedgerInit /\ MembershipInit
  BY DEF ServicesInit
<1> QED
  BY <1>1, StepsAreOfParts, PTL
  DEF ServicesSpec, Spec, QueueSpec, BillingSpec, LedgerSpec, MembershipSpec

(* Gate, queue, plan, ledger and members keep their types side by side. *)
THEOREM ServicesKeepTypes == ServicesSpec => []ServicesTypeOK
<1>1. TypeOK /\ QueueTypeOK /\ BillingTypeOK /\ LedgerTypeOK /\ MembershipTypeOK => ServicesTypeOK
  BY DEF ServicesTypeOK
<1> QED
  BY <1>1, ServicesAreTheirParts, TypeCorrect, QueueKeepsTypes, BillingKeepsTypes,
     LedgerTyped, MembershipTyped, PTL

(* What the parts promise, states and steps, they keep side by side: every *)
(* safety property that is checked of them, on no instance in particular.  *)
THEOREM ServicesKeepPromises ==
    ServicesSpec =>
        /\ [](/\ OnePendingPerTask /\ PrimaryIsLinked /\ ChecksNeverDeadlock /\ NothingVanishes
              /\ StoredIsUnderWay /\ ReplaysChangeNothing /\ BilledOnce /\ NoBackcharge
              /\ SomeoneOwns)
        /\ ImplementsLedger /\ ImplementsDelivery
        /\ RefusalStands /\ JoinsByInvite
<1>1. Spec => [](OnePendingPerTask /\ PrimaryIsLinked /\ ChecksNeverDeadlock) /\ ImplementsLedger
  BY OnePending, PrimaryLinked, ChecksDoNotDeadlock, Refinement, PTL
<1>2. BillingSpec => [](StoredIsUnderWay /\ ReplaysChangeNothing)
  BY StoredEventIsUnderWay, ReplaysAreHarmless, PTL
<1>3. LedgerSpec => [](BilledOnce /\ NoBackcharge) /\ RefusalStands
  BY TokensBilledOnce, NothingBackcharged, RefusalsStand, PTL
<1>4. MembershipSpec => []SomeoneOwns /\ JoinsByInvite
  BY AnOwnerStays, OnlyInvitedJoin, PTL
<1> QED
  BY <1>1, <1>2, <1>3, <1>4, ServicesAreTheirParts, TasksNeverVanish, QueueDelivers, PTL
===============================================================================
