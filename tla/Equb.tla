-------------------------------- MODULE Equb --------------------------------
(***************************************************************************)
(* One Equb, a rotating savings group: equb.service.ts over                *)
(* equb.repository.ts, and the bot's join flow.                            *)
(*                                                                         *)
(* No operation uses a transaction.  A contribution reads the Equb, looks  *)
(* for an earlier contribution of the member in that cycle, and inserts;   *)
(* advancing reads the Equb, marks the recipient, and writes the next      *)
(* cycle as a value computed from the read.  Requests interleave between   *)
(* any two of these statements and may stop after any of them.             *)
(*                                                                         *)
(* A member is named by its payout position, 1 to N in the order entered.  *)
(***************************************************************************)
EXTENDS Integers

CONSTANTS
  N,        \* members; the request schema allows 2 to 50
  Users,    \* Telegram users who open the join link
  NoUser,   \* telegram_user_id IS NULL
  Reqs      \* requests of the organiser: each serves one request, ever

ASSUME NAssumption == N \in Nat \ {0, 1}

Member == 1 .. N

VARIABLES
  cycle, status,   \* equbs.current_cycle, equbs.status
  received,        \* members with payout_received
  contributions,   \* equb_contributions; (member, cycle) is unique
  linked,          \* equb_members.telegram_user_id
  offered,         \* members each user was shown a join button for
  fresh,           \* requests not received yet
  contributing,    \* recordContribution, before its insert
  advancing,       \* advanceCycle, before its pointer write
  overlapped,      \* history: a request came while another was in flight
  refused,         \* contribution requests the unique index turned down
  audit            \* audit_logs of the module

vars == <<cycle, status, received, contributions, linked, offered, fresh,
          contributing, advancing, overlapped, refused, audit>>

Audit == [action : {"EQUB_CONTRIBUTION_RECORDED", "EQUB_CYCLE_ADVANCED"}, cycle : Member]

TypeOK ==
  /\ cycle \in Member /\ status \in {"ACTIVE", "COMPLETED"}
  /\ received \subseteq Member
  /\ contributions \subseteq [member : Member, cycle : Member]
  /\ linked \in [Member -> Users \cup {NoUser}]
  /\ offered \in [Users -> SUBSET Member]
  /\ fresh \subseteq Reqs /\ refused \subseteq Reqs
  /\ contributing \subseteq [req : Reqs, at : {"lookup", "insert"}, member : Member, seen : Member]
  /\ advancing \subseteq [req : Reqs, at : {"mark", "move"}, seen : Member]
  /\ audit \subseteq Audit /\ overlapped \in BOOLEAN

(* create: the Equb and its members are one insert; it is read by no       *)
(* other request before it has answered.                                   *)
Init ==
  /\ cycle = 1 /\ status = "ACTIVE" /\ received = {} /\ contributions = {}
  /\ linked = [m \in Member |-> NoUser]
  /\ offered = [u \in Users |-> {}]
  /\ fresh = Reqs /\ refused = {} /\ audit = {}
  /\ contributing = {} /\ advancing = {} /\ overlapped = FALSE

-----------------------------------------------------------------------------
(* The organiser sends a request, whether or not the last has answered. *)
Receive(r) ==
  /\ r \in fresh
  /\ fresh' = fresh \ {r}
  /\ overlapped' = (overlapped \/ contributing \cup advancing # {})

(* audit.record comes after the write; it may fail, or never be reached. *)
AuditOrStop(a, c) == audit' \in {audit, audit \cup {[action |-> a, cycle |-> c]}}

(* recordContribution reads the Equb, whatever its status ... *)
BeginContribution(r, m) ==
  /\ Receive(r)
  /\ contributing' = contributing \cup {[req |-> r, at |-> "lookup", member |-> m, seen |-> cycle]}
  /\ UNCHANGED <<cycle, status, received, contributions, linked, offered, advancing, refused, audit>>

Entry(c) == [member |-> c.member, cycle |-> c.seen]

(* ... then looks for the contribution: found, the request is answered ... *)
LookupContribution(c) ==
  /\ c.at = "lookup"
  /\ contributing' = (contributing \ {c}) \cup
       (IF Entry(c) \in contributions THEN {} ELSE {[c EXCEPT !.at = "insert"]})
  /\ UNCHANGED <<cycle, status, received, contributions, linked, offered, fresh, overlapped, advancing, refused, audit>>

(* ... and inserts it, or is refused by the unique index.  Nothing catches *)
(* that error.                                                             *)
InsertContribution(c) ==
  /\ c.at = "insert"
  /\ contributing' = contributing \ {c}
  /\ \/ /\ Entry(c) \notin contributions
        /\ contributions' = contributions \cup {Entry(c)}
        /\ AuditOrStop("EQUB_CONTRIBUTION_RECORDED", c.seen)
        /\ UNCHANGED refused
     \/ /\ Entry(c) \in contributions
        /\ refused' = refused \cup {c.req}
        /\ UNCHANGED <<contributions, audit>>
  /\ UNCHANGED <<cycle, status, received, linked, offered, fresh, overlapped, advancing>>

(* advanceCycle reads the Equb and refuses one that is not active. *)
BeginAdvance(r) ==
  /\ Receive(r)
  /\ status = "ACTIVE"
  /\ advancing' = advancing \cup {[req |-> r, at |-> "mark", seen |-> cycle]}
  /\ UNCHANGED <<cycle, status, received, contributions, linked, offered, contributing, refused, audit>>

(* Mutant: the next one is marked. *)
MarkRecipientNext(a) ==
  /\ a.at = "mark"
  /\ received' = received \cup ({a.seen + 1} \cap Member)
  /\ advancing' = (advancing \ {a}) \cup {[a EXCEPT !.at = "move"]}
  /\ UNCHANGED <<cycle, status, contributions, linked, offered, fresh, overlapped,
                 contributing, refused, audit>>

(* The member at the cycle it read has received the pot. *)
MarkRecipient(a) ==
  /\ a.at = "mark"
  /\ received' = received \cup {a.seen}
  /\ advancing' = (advancing \ {a}) \cup {[a EXCEPT !.at = "move"]}
  /\ UNCHANGED <<cycle, status, contributions, linked, offered, fresh, overlapped, contributing, refused, audit>>

(* Mutants of the pointer write: { increment: 1 } on the current value;    *)
(* wrapping round.                                                         *)
MovePointerIncrement(a) ==
  /\ a.at = "move"
  /\ cycle'  = IF a.seen >= N \/ cycle = N THEN cycle ELSE cycle + 1
  /\ status' = IF a.seen >= N THEN "COMPLETED" ELSE "ACTIVE"
  /\ advancing' = advancing \ {a}
  /\ AuditOrStop("EQUB_CYCLE_ADVANCED", a.seen)
  /\ UNCHANGED <<received, contributions, linked, offered, fresh, overlapped, contributing, refused>>

MovePointerWraps(a) ==
  /\ a.at = "move"
  /\ cycle' = (a.seen % N) + 1
  /\ advancing' = advancing \ {a}
  /\ AuditOrStop("EQUB_CYCLE_ADVANCED", a.seen)
  /\ UNCHANGED <<status, received, contributions, linked, offered, fresh, overlapped, contributing, refused>>

(* The pointer and the status, as values computed from that read. *)
MovePointer(a) ==
  LET isLastCycle == a.seen >= N
  IN  /\ a.at = "move"
      /\ cycle'  = IF isLastCycle THEN a.seen ELSE a.seen + 1
      /\ status' = IF isLastCycle THEN "COMPLETED" ELSE "ACTIVE"
      /\ advancing' = advancing \ {a}
      /\ AuditOrStop("EQUB_CYCLE_ADVANCED", a.seen)
      /\ UNCHANGED <<received, contributions, linked, offered, fresh, overlapped, contributing, refused>>

(* The process or the database fails before the next statement. *)
Stop ==
  /\ \/ /\ \E c \in contributing : contributing' = contributing \ {c}
        /\ UNCHANGED advancing
     \/ /\ \E a \in advancing : advancing' = advancing \ {a}
        /\ UNCHANGED contributing
  /\ UNCHANGED <<cycle, status, received, contributions, linked, offered, fresh, overlapped, refused, audit>>

(* handleEqubJoin: a user who holds no slot is offered those nobody holds. *)
OfferSlots(u) ==
  /\ \A m \in Member : linked[m] # u
  /\ offered' = [offered EXCEPT ![u] = @ \cup {m \in Member : linked[m] = NoUser}]
  /\ UNCHANGED <<cycle, status, received, contributions, linked, fresh, overlapped,
                 contributing, advancing, refused, audit>>

(* completeEqubJoin: the tap links the slot, whoever holds it by now. *)
JoinSlot(u, m) ==
  /\ m \in offered[u]
  /\ linked' = [linked EXCEPT ![m] = u]
  /\ UNCHANGED <<cycle, status, received, contributions, offered, fresh, overlapped,
                 contributing, advancing, refused, audit>>

Next ==
  \/ \E r \in Reqs, m \in Member : BeginContribution(r, m)
  \/ \E c \in contributing : LookupContribution(c) \/ InsertContribution(c)
  \/ \E r \in Reqs : BeginAdvance(r)
  \/ \E a \in advancing : MarkRecipient(a) \/ MovePointer(a)
  \/ Stop
  \/ \E u \in Users : OfferSlots(u) \/ \E m \in Member : JoinSlot(u, m)

Spec == Init /\ [][Next]_vars

-----------------------------------------------------------------------------
(* Nobody is passed over: all positions before the pointer have had the    *)
(* pot, and a completed Equb has paid everyone, whatever advances overlap  *)
(* or stop half way (the recipient is marked before the pointer moves).    *)
NobodySkipped ==
  /\ \A m \in Member : m < cycle => m \in received
  /\ status = "COMPLETED" => received = Member

(* A contribution is booked for a cycle only when every earlier recipient  *)
(* has been paid, even by a request that read the pointer long ago.        *)
ContributionFollowsPayouts ==
  \A c \in contributions : \A m \in Member : m < c.cycle => m \in received

(* Both: whatever overlaps or stops half way, the payouts are in order and *)
(* nothing is booked ahead of them.                                        *)
PayoutsInOrder == NobodySkipped /\ ContributionFollowsPayouts

Rotation == INSTANCE EqubRotation

(* The pot goes round in payout order: overlapping, repeated and stopped   *)
(* advances never pay out of turn.                                         *)
ImplementsRotation == Rotation!Spec

(* What happens to the pointer in a step: no way back.                     *)
Forward == cycle' >= cycle /\ (status = "COMPLETED" => status' = "COMPLETED")

(* advanceCycle "moves the pointer forward" and "completes the Equb once   *)
(* everyone has received", as its comment says, for an organiser whose app *)
(* waits for every answer, also when requests stop half way and are sent   *)
(* again.                                                                  *)
SerialMovesForward == [][~overlapped => Forward]_vars

(* For such an organiser a contribution goes to the cycle that is current  *)
(* when it is recorded.                                                    *)
ContributionIsCurrent ==
  [][~overlapped => \A c \in contributions' \ contributions : c.cycle = cycle]_vars

(* And recordContribution is idempotent, as its comment says: a            *)
(* contribution recorded again is answered, not refused by the index.      *)
RepeatIsAnswered == ~overlapped => refused = {}

(* What an organiser is promised who waits for every answer. *)
SerialRunsInOrder == SerialMovesForward /\ ContributionIsCurrent /\ []RepeatIsAnswered

=============================================================================
