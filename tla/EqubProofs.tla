----------------------------- MODULE EqubProofs -----------------------------
(***************************************************************************)
(* Proofs about Equb.  Everything follows from one inductive invariant: a  *)
(* cycle number is in circulation (the pointer, a request in flight, a     *)
(* contribution) only once all earlier recipients have been paid.  It      *)
(* speaks of the requests in flight because they carry the cycle they read *)
(* past any number of later advances.                                      *)
(***************************************************************************)
EXTENDS Equb, TLAPS

(* All recipients before cycle k have had the pot. *)
PaidBefore(k) == \A m \in Member : m < k => m \in received

InFlightFollowsPayouts ==
  /\ \A c \in contributing : PaidBefore(c.seen)
  /\ \A a \in advancing : PaidBefore(a.seen) /\ (a.at = "move" => a.seen \in received)

EqubInv ==
  TypeOK /\ NobodySkipped /\ ContributionFollowsPayouts /\ InFlightFollowsPayouts

(* What a request in flight has read is a cycle of the Equb. *)
LEMMA InFlightTypes ==
  ASSUME TypeOK
  PROVE  /\ \A c \in contributing : c.seen \in Member /\ c.member \in Member /\ c.req \in Reqs
         /\ \A a \in advancing : a.seen \in Member /\ a.req \in Reqs
BY DEF TypeOK

(* The Equb that create makes has paid nobody and points at position 1. *)
LEMMA EqubInit == Init => EqubInv
<1> SUFFICES ASSUME Init PROVE EqubInv
  OBVIOUS
<1>1. cycle = 1 /\ cycle \in Member /\ overlapped = FALSE
  BY NAssumption DEF Init, Member
<1>2. overlapped \in BOOLEAN
  BY <1>1
<1>3. TypeOK
  BY <1>1, <1>2 DEF Init, TypeOK
<1>4. NobodySkipped /\ ContributionFollowsPayouts /\ InFlightFollowsPayouts
  BY <1>1 DEF Init, NobodySkipped, ContributionFollowsPayouts, InFlightFollowsPayouts, Member
<1>5. QED BY <1>3, <1>4 DEF EqubInv

(* Types survive every step of the service. *)
LEMMA TypeStep == TypeOK /\ [Next]_vars => TypeOK'
<1> SUFFICES ASSUME TypeOK, [Next]_vars PROVE TypeOK'
  OBVIOUS
<1> USE NAssumption DEF TypeOK
<1>1. ASSUME NEW r \in Reqs, NEW m \in Member, BeginContribution(r, m) PROVE TypeOK'
  <2>1. overlapped' \in BOOLEAN
    BY <1>1 DEF BeginContribution, Receive
  <2>2. fresh' \subseteq Reqs /\ cycle \in Member
    BY <1>1 DEF BeginContribution, Receive
  <2>3. contributing' \subseteq [req : Reqs, at : {"lookup", "insert"}, member : Member, seen : Member]
    BY <1>1, <2>2 DEF BeginContribution, Receive
  <2>4. QED BY <1>1, <2>1, <2>2, <2>3 DEF BeginContribution
<1>2. ASSUME NEW c \in contributing, LookupContribution(c) PROVE TypeOK'
  BY <1>2 DEF LookupContribution
<1>3. ASSUME NEW c \in contributing, InsertContribution(c) PROVE TypeOK'
  <2>1. c.member \in Member /\ c.seen \in Member /\ c.req \in Reqs
    BY InFlightTypes
  <2>2. QED BY <1>3, <2>1 DEF InsertContribution, Entry, AuditOrStop, Audit
<1>4. ASSUME NEW r \in Reqs, BeginAdvance(r) PROVE TypeOK'
  <2>1. overlapped' \in BOOLEAN
    BY <1>4 DEF BeginAdvance, Receive
  <2>2. fresh' \subseteq Reqs /\ cycle \in Member
    BY <1>4 DEF BeginAdvance, Receive
  <2>3. advancing' \subseteq [req : Reqs, at : {"mark", "move"}, seen : Member]
    BY <1>4, <2>2 DEF BeginAdvance, Receive
  <2>4. QED BY <1>4, <2>1, <2>2, <2>3 DEF BeginAdvance
<1>5. ASSUME NEW a \in advancing, MarkRecipient(a) PROVE TypeOK'
  BY <1>5, InFlightTypes DEF MarkRecipient
<1>6. ASSUME NEW a \in advancing, MovePointer(a) PROVE TypeOK'
  <2>1. a.seen \in Member
    BY InFlightTypes
  <2>2. cycle' \in Member /\ status' \in {"ACTIVE", "COMPLETED"}
    BY <1>6, <2>1 DEF MovePointer, Member
  <2>3. QED BY <1>6, <2>1, <2>2 DEF MovePointer, AuditOrStop, Audit
<1>7. ASSUME Stop PROVE TypeOK'
  BY <1>7 DEF Stop
<1>8. ASSUME NEW u \in Users, OfferSlots(u) PROVE TypeOK'
  BY <1>8 DEF OfferSlots
<1>9. ASSUME NEW u \in Users, NEW m \in Member, JoinSlot(u, m) PROVE TypeOK'
  BY <1>9 DEF JoinSlot
<1>10. CASE UNCHANGED vars
  BY <1>10 DEF vars
<1>11. QED
  BY <1>1, <1>2, <1>3, <1>4, <1>5, <1>6, <1>7, <1>8, <1>9, <1>10 DEF Next

(* Cycle numbers in circulation follow the payouts after every step. *)
LEMMA PayoutStep == EqubInv /\ [Next]_vars =>
  NobodySkipped' /\ ContributionFollowsPayouts' /\ InFlightFollowsPayouts'
<1> SUFFICES ASSUME EqubInv, [Next]_vars
             PROVE  NobodySkipped' /\ ContributionFollowsPayouts' /\ InFlightFollowsPayouts'
  OBVIOUS
<1> USE NAssumption DEF EqubInv, NobodySkipped, ContributionFollowsPayouts,
                        InFlightFollowsPayouts, PaidBefore
<1>1. ASSUME NEW r \in Reqs, NEW m \in Member, BeginContribution(r, m)
      PROVE  NobodySkipped' /\ ContributionFollowsPayouts' /\ InFlightFollowsPayouts'
  BY <1>1 DEF BeginContribution, Receive
<1>2. ASSUME NEW c \in contributing, LookupContribution(c)
      PROVE  NobodySkipped' /\ ContributionFollowsPayouts' /\ InFlightFollowsPayouts'
  <2>1. \A x \in contributing' : \E y \in contributing : x.seen = y.seen
    BY <1>2 DEF LookupContribution, TypeOK
  <2>2. QED BY <1>2, <2>1 DEF LookupContribution
<1>3. ASSUME NEW c \in contributing, InsertContribution(c)
      PROVE  NobodySkipped' /\ ContributionFollowsPayouts' /\ InFlightFollowsPayouts'
  <2>1. \A x \in contributions' : x \in contributions \/ x.cycle = c.seen
    BY <1>3 DEF InsertContribution, Entry
  <2>2. QED BY <1>3, <2>1 DEF InsertContribution
<1>4. ASSUME NEW r \in Reqs, BeginAdvance(r)
      PROVE  NobodySkipped' /\ ContributionFollowsPayouts' /\ InFlightFollowsPayouts'
  BY <1>4 DEF BeginAdvance, Receive
<1>5. ASSUME NEW a \in advancing, MarkRecipient(a)
      PROVE  NobodySkipped' /\ ContributionFollowsPayouts' /\ InFlightFollowsPayouts'
  <2>1. received' = received \cup {a.seen} /\ a.seen \in Member
    BY <1>5, InFlightTypes DEF MarkRecipient
  <2>2. \A x \in advancing' : x \in advancing \/ x.seen = a.seen
    BY <1>5 DEF MarkRecipient, TypeOK
  <2>3. received \subseteq Member
    BY DEF TypeOK
  <2>4. QED BY <1>5, <2>1, <2>2, <2>3 DEF MarkRecipient
<1>6. ASSUME NEW a \in advancing, MovePointer(a)
      PROVE  NobodySkipped' /\ ContributionFollowsPayouts' /\ InFlightFollowsPayouts'
  <2>1. a.seen \in Member /\ a.seen \in received /\ PaidBefore(a.seen) /\ received \subseteq Member
    BY <1>6, InFlightTypes DEF MovePointer, TypeOK
  <2>2. PaidBefore(a.seen + 1)
    BY <2>1 DEF Member
  <2>3. CASE a.seen >= N
    <3>1. a.seen = N
      BY <2>1, <2>3 DEF Member
    <3>2. \A m \in Member : m < N + 1
      BY DEF Member
    <3>3. received = Member
      BY <2>1, <2>2, <3>1, <3>2
    <3>4. QED BY <1>6, <2>1, <2>3, <3>1, <3>3 DEF MovePointer
  <2>4. CASE ~(a.seen >= N)
    BY <1>6, <2>1, <2>2, <2>4 DEF MovePointer
  <2>5. QED BY <2>3, <2>4
<1>7. ASSUME Stop
      PROVE  NobodySkipped' /\ ContributionFollowsPayouts' /\ InFlightFollowsPayouts'
  BY <1>7 DEF Stop
<1>8. ASSUME NEW u \in Users, OfferSlots(u)
      PROVE  NobodySkipped' /\ ContributionFollowsPayouts' /\ InFlightFollowsPayouts'
  BY <1>8 DEF OfferSlots
<1>9. ASSUME NEW u \in Users, NEW m \in Member, JoinSlot(u, m)
      PROVE  NobodySkipped' /\ ContributionFollowsPayouts' /\ InFlightFollowsPayouts'
  BY <1>9 DEF JoinSlot
<1>10. CASE UNCHANGED vars
  BY <1>10 DEF vars
<1>11. QED
  BY <1>1, <1>2, <1>3, <1>4, <1>5, <1>6, <1>7, <1>8, <1>9, <1>10 DEF Next

(* The invariant holds in every reachable state, for every number of       *)
(* members and of requests.                                                *)
THEOREM EqubInvariant == Spec => []EqubInv
<1>1. EqubInv /\ [Next]_vars => EqubInv'
  BY TypeStep, PayoutStep DEF EqubInv
<1>2. QED
  BY EqubInit, <1>1, PTL DEF Spec

(* Every variable of the module keeps its type. *)
THEOREM TypeCorrect == Spec => []TypeOK
BY EqubInvariant, PTL DEF EqubInv

(* Positions before the pointer have been paid, and a completed Equb has   *)
(* paid everyone, under any overlap of requests and any stop.              *)
THEOREM NoMemberSkipped == Spec => []NobodySkipped
BY EqubInvariant, PTL DEF EqubInv

(* No contribution is booked for a cycle that has not been reached. *)
THEOREM ContributionsFollow == Spec => []ContributionFollowsPayouts
BY EqubInvariant, PTL DEF EqubInv

(* Every step pays the next member in order, or pays nobody. *)
LEMMA RotationStep == EqubInv /\ [Next]_vars => [Rotation!Next]_received
<1> SUFFICES ASSUME EqubInv, [Next]_vars, received' # received PROVE Rotation!Next
  OBVIOUS
<1>1. PICK a \in advancing : MarkRecipient(a)
  BY DEF Next, vars, BeginContribution, Receive, LookupContribution, InsertContribution, BeginAdvance,
         MovePointer, Stop, OfferSlots, JoinSlot
<1>2. a.seen \in 1 .. N
  BY InFlightTypes DEF EqubInv, Member
<1>3. Rotation!PayOut(a.seen)
  BY <1>1, <1>2, NAssumption DEF Rotation!PayOut, MarkRecipient, EqubInv, InFlightFollowsPayouts,
     PaidBefore, Member
<1>4. QED
  BY <1>2, <1>3 DEF Rotation!Next

(* The service implements the rotation: every member gets the pot at most  *)
(* once and in payout order, however requests overlap or stop.             *)
THEOREM RotationRefinement == Spec => ImplementsRotation
<1>1. Init => Rotation!Init
  BY DEF Init, Rotation!Init
<1>2. QED
  BY <1>1, EqubInvariant, RotationStep, PTL DEF Spec, ImplementsRotation, Rotation!Spec

-----------------------------------------------------------------------------
(* An organiser whose app waits for every answer: the only request in      *)
(* flight has read what is still there when it writes.                     *)
OneInFlight ==
  /\ \A c, d \in contributing : c = d
  /\ \A a, b \in advancing : a = b
  /\ contributing = {} \/ advancing = {}

ReadIsCurrent ==
  /\ \A c \in contributing : c.seen = cycle /\ (c.at = "insert" => Entry(c) \notin contributions)
  /\ \A a \in advancing : a.seen = cycle /\ status = "ACTIVE"

SerialInv == ~overlapped => OneInFlight /\ ReadIsCurrent /\ refused = {}

LEMMA SerialInit == Init => SerialInv
BY DEF Init, SerialInv, OneInFlight, ReadIsCurrent

LEMMA SerialStep == TypeOK /\ SerialInv /\ [Next]_vars => SerialInv'
<1> SUFFICES ASSUME TypeOK, SerialInv, [Next]_vars, ~overlapped'
             PROVE  OneInFlight' /\ ReadIsCurrent' /\ (refused = {})'
  BY DEF SerialInv
<1>0. ~overlapped
  BY DEF Next, vars, BeginContribution, BeginAdvance, Receive, LookupContribution,
         InsertContribution, MarkRecipient, MovePointer, Stop, OfferSlots, JoinSlot, TypeOK
<1> USE <1>0 DEF SerialInv, OneInFlight, ReadIsCurrent
<1>1. ASSUME NEW r \in Reqs, NEW m \in Member, BeginContribution(r, m)
      PROVE  OneInFlight' /\ ReadIsCurrent' /\ (refused = {})'
  <2>1. contributing = {} /\ advancing = {}
    BY <1>1 DEF BeginContribution, Receive
  <2>2. QED BY <1>1, <2>1 DEF BeginContribution, Entry
<1>2. ASSUME NEW c \in contributing, LookupContribution(c)
      PROVE  OneInFlight' /\ ReadIsCurrent' /\ (refused = {})'
  <2>1. contributing = {c} /\ advancing = {} /\ c.seen = cycle
    OBVIOUS
  <2>2. CASE Entry(c) \in contributions
    BY <1>2, <2>1, <2>2 DEF LookupContribution
  <2>3. CASE Entry(c) \notin contributions
    <3>1. contributing' = {[c EXCEPT !.at = "insert"]}
      BY <1>2, <2>1, <2>3 DEF LookupContribution
    <3>2. Entry([c EXCEPT !.at = "insert"]) = Entry(c)
      BY DEF Entry, TypeOK
    <3>3. [c EXCEPT !.at = "insert"].seen = cycle
      BY <2>1 DEF TypeOK
    <3>4. QED BY <1>2, <2>1, <2>3, <3>1, <3>2, <3>3 DEF LookupContribution, Entry
  <2>4. QED BY <2>2, <2>3
<1>3. ASSUME NEW c \in contributing, InsertContribution(c)
      PROVE  OneInFlight' /\ ReadIsCurrent' /\ (refused = {})'
  <2>1. contributing' = {} /\ advancing' = {}
    BY <1>3 DEF InsertContribution
  <2>2. QED BY <1>3, <2>1 DEF InsertContribution
<1>4. ASSUME NEW r \in Reqs, BeginAdvance(r)
      PROVE  OneInFlight' /\ ReadIsCurrent' /\ (refused = {})'
  <2>1. contributing = {} /\ advancing = {}
    BY <1>4 DEF BeginAdvance, Receive
  <2>2. QED BY <1>4, <2>1 DEF BeginAdvance
<1>5. ASSUME NEW a \in advancing, MarkRecipient(a)
      PROVE  OneInFlight' /\ ReadIsCurrent' /\ (refused = {})'
  <2>1. advancing' = {[a EXCEPT !.at = "move"]} /\ contributing' = {}
    BY <1>5 DEF MarkRecipient
  <2>2. [a EXCEPT !.at = "move"].seen = cycle
    BY DEF TypeOK
  <2>3. QED BY <1>5, <2>1, <2>2 DEF MarkRecipient
<1>6. ASSUME NEW a \in advancing, MovePointer(a)
      PROVE  OneInFlight' /\ ReadIsCurrent' /\ (refused = {})'
  <2>1. contributing' = {} /\ advancing' = {}
    BY <1>6 DEF MovePointer
  <2>2. QED BY <1>6, <2>1 DEF MovePointer
<1>7. ASSUME Stop
      PROVE  OneInFlight' /\ ReadIsCurrent' /\ (refused = {})'
  BY <1>7 DEF Stop, Entry
<1>8. ASSUME NEW u \in Users, OfferSlots(u) \/ \E m \in Member : JoinSlot(u, m)
      PROVE  OneInFlight' /\ ReadIsCurrent' /\ (refused = {})'
  BY <1>8 DEF OfferSlots, JoinSlot, Entry
<1>9. CASE UNCHANGED vars
  BY <1>9 DEF vars, Entry
<1>10. QED
  BY <1>1, <1>2, <1>3, <1>4, <1>5, <1>6, <1>7, <1>8, <1>9 DEF Next

LEMMA SerialInvariant == Spec => [](TypeOK /\ SerialInv)
<1>1. EqubInv => TypeOK
  BY DEF EqubInv
<1>2. QED
  BY EqubInvariant, SerialInit, SerialStep, <1>1, PTL DEF Spec

(* Without overlapping requests the pointer never moves back and a         *)
(* completed Equb stays completed, for every number of members.            *)
THEOREM SerialForward == Spec => SerialMovesForward
<1>1. ASSUME TypeOK, SerialInv, [Next]_vars, ~overlapped
      PROVE  Forward
  <2>1. ASSUME NEW a \in advancing, MovePointer(a)
        PROVE  Forward
    <3>1. a.seen = cycle /\ status = "ACTIVE" /\ cycle \in Nat
      BY <1>1 DEF SerialInv, ReadIsCurrent, TypeOK, Member
    <3>2. cycle' \in {cycle, cycle + 1}
      BY <2>1, <3>1 DEF MovePointer
    <3>3. QED BY <3>1, <3>2 DEF Forward
  <2>2. ASSUME UNCHANGED <<cycle, status>>
        PROVE  Forward
    BY <1>1, <2>2 DEF Forward, TypeOK, Member
  <2>3. QED
    BY <1>1, <2>1, <2>2 DEF Next, vars, BeginContribution, BeginAdvance, Receive, LookupContribution,
       InsertContribution, MarkRecipient, Stop, OfferSlots, JoinSlot
<1>2. TypeOK /\ SerialInv /\ [Next]_vars => [~overlapped => Forward]_vars
  BY <1>1
<1>3. QED
  BY SerialInvariant, <1>2, PTL DEF Spec, SerialMovesForward

(* Without overlapping requests a repeated contribution is never refused. *)
THEOREM SerialRepeats == Spec => []RepeatIsAnswered
<1>1. SerialInv => RepeatIsAnswered
  BY DEF SerialInv, RepeatIsAnswered
<1>2. QED
  BY SerialInvariant, <1>1, PTL

(* Without overlapping requests a contribution is booked for the cycle     *)
(* that is current when it is booked.                                      *)
LEMMA SerialBooksCurrent == Spec => ContributionIsCurrent
<1>1. ASSUME TypeOK, SerialInv, [Next]_vars, ~overlapped, NEW e \in contributions' \ contributions
      PROVE  e.cycle = cycle
  <2>1. ASSUME NEW c \in contributing, InsertContribution(c)
        PROVE  e.cycle = cycle
    <3>1. c.seen = cycle
      BY <1>1 DEF SerialInv, ReadIsCurrent
    <3>2. e = Entry(c)
      BY <1>1, <2>1 DEF InsertContribution
    <3>3. QED BY <3>1, <3>2 DEF Entry
  <2>2. CASE UNCHANGED contributions
    BY <1>1, <2>2
  <2>3. QED
    BY <1>1, <2>1, <2>2 DEF Next, vars, BeginContribution, BeginAdvance, Receive, LookupContribution,
       MarkRecipient, MovePointer, Stop, OfferSlots, JoinSlot
<1>2. TypeOK /\ SerialInv /\ [Next]_vars =>
        [~overlapped => \A c \in contributions' \ contributions : c.cycle = cycle]_vars
  BY <1>1
<1>3. QED
  BY SerialInvariant, <1>2, PTL DEF Spec, ContributionIsCurrent

(* What the organiser who waits is promised, for every number of members. *)
THEOREM SerialInOrder == Spec => SerialRunsInOrder
BY SerialForward, SerialBooksCurrent, SerialRepeats, PTL DEF SerialRunsInOrder

(* Nobody is passed over and nothing is booked ahead, however requests     *)
(* overlap.                                                                *)
THEOREM InOrder == Spec => []PayoutsInOrder
BY NoMemberSkipped, ContributionsFollow, PTL DEF PayoutsInOrder

=============================================================================
