----------------------------- MODULE MessagesProofs -----------------------------
(***************************************************************************)
(* Proofs about what stands between the chat and the rest, for every       *)
(* instance: the Digest, the Assistant's quota and what it answers, the    *)
(* RateLimit, and the rule parser.                                         *)
(***************************************************************************)
EXTENDS MCMessages, FiniteSetTheorems, SequenceTheorems, TLAPS

(* Each part keeps the others' variables, so a behaviour of the instance   *)
(* is one of each part.                                                    *)
THEOREM PartsApart == Spec => ParserSpec /\ AssistantSpec /\ LimitSpec /\ DigestSpec
<1>1. Init => ParserInit /\ AssistantInit /\ LimitInit /\ DigestInit
  BY DEF Init
<1>2. [Next]_messageVars =>
        /\ [ParserNext]_message /\ [AssistantNext]_assistantVars
        /\ [LimitNext]_limitVars /\ [DigestNext]_digestVars
  BY DEF Next, messageVars
<1>3. QED
  BY <1>1, <1>2, PTL DEF Spec, ParserSpec, AssistantSpec, LimitSpec, DigestSpec

-----------------------------------------------------------------------------
(* The digest.  A job has still to send until it marks its row.            *)
JobPlaces == {"waiting", "insights", "coach", "send", "mark"}
Analyses  == [Kinds -> Nat]
Jobs == [user : Users, no : Nat, at : JobPlaces, left : Nat \ {0}, stalled : BOOLEAN,
         told : Analyses, new : Nat]

DigestTypes ==
  /\ paying \subseteq Users
  /\ fanout \in [at : {"scheduled", "list", "add", "over"}, left : Nat, todo : SUBSET Users]
  /\ fanout.at # "over" => fanout.left > 0
  /\ IsFiniteSet(jobs) /\ jobs \subseteq Jobs
  /\ kept \in [Users -> Analyses]
  /\ texts \in Nat /\ faults \in Nat
  /\ sent \in [Users -> Seq(Analyses)]
  /\ clouded \in BOOLEAN

(* What has been told, what is under way and what the fan-out has still to *)
(* queue, together: only a failure adds to it.                             *)
ToSend(u) == {j \in jobs : j.user = u /\ j.at # "mark"}
ToQueue(u) ==
  IF fanout.at \in {"scheduled", "list"} \/ (fanout.at = "add" /\ u \in fanout.todo) THEN 1 ELSE 0
DigestsCounted ==
  \A u \in Users : Len(sent[u]) + Cardinality(ToSend(u)) + ToQueue(u) <= 1 + faults

(* An analysis is asked for while none is kept, by one job of a user at a  *)
(* time, so what a job carries and what was told is what is kept.          *)
AskedOnlyForNone == \A j \in jobs : j.new > 0 => j.at \in Kinds
ToldIsKept ==
  /\ \A u \in Users : \A i \in DOMAIN sent[u], k \in Kinds : sent[u][i][k] \in {0, kept[u][k]}
  /\ \A j \in jobs : \A k \in Kinds : j.told[k] \in {0, kept[j.user][k]}
  /\ \A j \in jobs : j.new > 0 => kept[j.user][j.at] = 0
  /\ \A i, j \in jobs : i.user = j.user /\ i.at = j.at /\ i.new > 0 /\ j.new > 0 => i = j

DigestInv == DigestTypes /\ DigestsCounted /\ AskedOnlyForNone /\ (clouded \/ ToldIsKept)

LEMMA JobFields ==
  ASSUME NEW j \in Jobs
  PROVE  /\ j.user \in Users /\ j.no \in Nat /\ j.at \in JobPlaces /\ j.left \in Nat \ {0}
         /\ j.stalled \in BOOLEAN /\ j.told \in Analyses /\ j.new \in Nat
BY DEF Jobs

LEMMA NothingTold == NoTexts \in Analyses /\ \A k \in Kinds : NoTexts[k] = 0
BY DEF NoTexts, Analyses

(* One job for another: what is still to be sent changes by one at most,   *)
(* grows only when a job that was past its message starts again, and falls *)
(* when a job gets there.                                                  *)
LEMMA PutCounts ==
  ASSUME IsFiniteSet(jobs), jobs \subseteq Jobs, NEW j \in jobs, NEW new \in Jobs,
         new.user = j.user, Put(j, new)
  PROVE  /\ IsFiniteSet(jobs') /\ jobs' \subseteq Jobs
         /\ \A u \in Users : u # j.user => ToSend(u)' = ToSend(u)
         /\ Cardinality(ToSend(j.user)') <= Cardinality(ToSend(j.user)) + 1
         /\ j.at # "mark" => Cardinality(ToSend(j.user)') <= Cardinality(ToSend(j.user))
         /\ j.at # "mark" /\ new.at = "mark" =>
              Cardinality(ToSend(j.user)') <= Cardinality(ToSend(j.user)) - 1
<1>1. jobs' = (jobs \ {j}) \cup {new}
  BY DEF Put
<1>2. IsFiniteSet(jobs') /\ jobs' \subseteq Jobs
  BY <1>1, FS_RemoveElement, FS_AddElement
<1>3. \A u \in Users : u # j.user => ToSend(u)' = ToSend(u)
  BY <1>1 DEF ToSend
<1> DEFINE P == {i \in jobs : i.user = j.user /\ i.at # "mark"}
           Q == {i \in jobs' : i.user = j.user /\ i.at # "mark"}
<1>4. PICK R : R = P \ {j}
  OBVIOUS
<1>5. ToSend(j.user) = P /\ ToSend(j.user)' = Q
  BY DEF ToSend
<1>6. IsFiniteSet(P) /\ Cardinality(P) \in Nat
  BY FS_Subset, FS_CardinalityType
<1>7. IsFiniteSet(R) /\ Cardinality(R) \in Nat /\ Cardinality(R) <= Cardinality(P)
  BY <1>4, <1>6, FS_Subset, FS_CardinalityType
<1>8. j.at # "mark" => Cardinality(R) = Cardinality(P) - 1
  BY <1>4, <1>6, FS_RemoveElement
<1>9. /\ new.at = "mark" => Q = R
      /\ new.at # "mark" => Q = R \cup {new}
  BY <1>1, <1>4
<1>10. /\ Cardinality(R \cup {new}) \in Nat
       /\ Cardinality(R \cup {new}) <= Cardinality(R) + 1
  <2>1. Cardinality(R \cup {new}) = IF new \in R THEN Cardinality(R) ELSE Cardinality(R) + 1
    BY <1>7, FS_AddElement
  <2>2. QED
    BY <1>7, <2>1
<1> HIDE DEF P, Q
<1>11. Cardinality(Q) \in Nat /\ Cardinality(Q) <= Cardinality(R) + 1
  <2>1. Q = R \/ Q = R \cup {new}
    BY <1>9
  <2>2. CASE Q = R
    BY <1>7, <2>2
  <2>3. CASE Q = R \cup {new}
    BY <1>10, <2>3
  <2>4. QED
    BY <2>1, <2>2, <2>3
<1>12. Cardinality(Q) <= Cardinality(P) + 1
  BY <1>6, <1>7, <1>11
<1>13. j.at # "mark" => Cardinality(Q) <= Cardinality(P)
  BY <1>6, <1>7, <1>8, <1>11
<1>14. j.at # "mark" /\ new.at = "mark" => Cardinality(Q) <= Cardinality(P) - 1
  <2>1. CASE j.at # "mark" /\ new.at = "mark"
    BY <1>6, <1>8, <1>9, <2>1
  <2>2. QED
    BY <2>1
<1>15. QED
  BY <1>2, <1>3, <1>5, <1>12, <1>13, <1>14

LEMMA FinishCounts ==
  ASSUME IsFiniteSet(jobs), jobs \subseteq Jobs, NEW j \in jobs, Finish(j)
  PROVE  /\ IsFiniteSet(jobs') /\ jobs' \subseteq jobs
         /\ \A u \in Users : Cardinality(ToSend(u)') <= Cardinality(ToSend(u))
<1>1. jobs' = jobs \ {j} /\ IsFiniteSet(jobs')
  BY FS_RemoveElement DEF Finish
<1>2. ASSUME NEW u \in Users PROVE Cardinality(ToSend(u)') <= Cardinality(ToSend(u))
  <2>1. ToSend(u)' \subseteq ToSend(u)
    BY <1>1 DEF ToSend
  <2>2. IsFiniteSet(ToSend(u))
    BY FS_Subset DEF ToSend
  <2>3. QED
    BY <2>1, <2>2, FS_Subset
<1>3. QED
  BY <1>1, <1>2

LEMMA CountsAreNumbers ==
  ASSUME DigestTypes
  PROVE  \A u \in Users : /\ Len(sent[u]) \in Nat /\ Cardinality(ToSend(u)) \in Nat
                          /\ ToQueue(u) \in {0, 1}
<1>1. \A u \in Users : IsFiniteSet(ToSend(u))
  BY FS_Subset DEF DigestTypes, ToSend
<1>2. \A u \in Users : sent[u] \in Seq(Analyses)
  BY DEF DigestTypes
<1>3. QED
  BY <1>1, <1>2, FS_CardinalityType DEF ToQueue

LEMMA CountsAreNumbersNext ==
  ASSUME IsFiniteSet(jobs')
  PROVE  \A u \in Users : Cardinality(ToSend(u)') \in Nat
<1>1. ASSUME NEW u \in Users PROVE Cardinality(ToSend(u)') \in Nat
  <2>1. ToSend(u)' \subseteq jobs'
    BY DEF ToSend
  <2>2. QED
    BY <2>1, FS_Subset, FS_CardinalityType
<1>2. QED
  BY <1>1

(* A job that is added has a number no other job of its user has.          *)
LEMMA NewJob ==
  ASSUME DigestTypes, NEW u \in Users
  PROVE  /\ Queued(u) \in Jobs /\ Queued(u).user = u /\ Queued(u).at = "waiting"
         /\ Queued(u).told = NoTexts /\ Queued(u).new = 0
         /\ \A j \in jobs : j.user = u => j.no # Queued(u).no
<1> DEFINE mine == {i \in jobs : i.user = u}
           numbers == {j.no : j \in mine}
           m == Cardinality(numbers)
<1>1. IsFiniteSet(mine)
  BY FS_Subset DEF DigestTypes
<1>2. IsFiniteSet(numbers) /\ m \in Nat
  <2> DEFINE f == [j \in mine |-> j.no]
  <2>1. f \in Surjection(mine, numbers)
    BY DEF Surjection
  <2>2. QED
    BY <1>1, <2>1, FS_Surjection, FS_CardinalityType
<1>3. \E n \in 0..m : n \notin numbers
  <2> SUFFICES ASSUME 0..m \subseteq numbers PROVE FALSE
    OBVIOUS
  <2>1. Cardinality(0..m) <= m
    BY <1>2, FS_Subset
  <2>2. Cardinality(0..m) = m + 1
    BY <1>2, FS_Interval
  <2>3. QED
    BY <1>2, <2>1, <2>2
<1>4. PICK n \in 0..m : n = (CHOOSE k \in 0..m : k \notin numbers) /\ n \notin numbers
  BY <1>3
<1>5. Queued(u) = [user |-> u, no |-> n, at |-> "waiting", left |-> Attempts, stalled |-> FALSE,
                   told |-> NoTexts, new |-> 0]
  BY <1>4 DEF Queued
<1>6. \A j \in jobs : j.user = u => j.no # n
  BY <1>4
<1>7. n \in Nat
  BY <1>2, <1>4
<1> HIDE DEF numbers, mine, m
<1>8. Queued(u) \in Jobs
  BY <1>5, <1>7, NothingTold, DigestAssumption DEF Jobs, JobPlaces
<1>9. QED
  BY <1>5, <1>6, <1>8
LEMMA DigestStart == DigestInit => DigestInv
<1> SUFFICES ASSUME DigestInit PROVE DigestInv
  OBVIOUS
<1>1. /\ jobs = {} /\ sent = [u \in Users |-> <<>>] /\ kept = [u \in Users |-> NoTexts]
      /\ fanout = [at |-> "scheduled", left |-> Attempts, todo |-> {}]
      /\ texts = 0 /\ faults = 0 /\ clouded = FALSE /\ paying \subseteq Users
  BY DEF DigestInit
<1>2. IsFiniteSet(jobs)
  BY <1>1, FS_EmptySet
<1>3. DigestTypes
  <2>1. <<>> \in Seq(Analyses)
    OBVIOUS
  <2>2. sent \in [Users -> Seq(Analyses)] /\ kept \in [Users -> Analyses]
    BY <1>1, <2>1, NothingTold
  <2>3. /\ fanout \in [at : {"scheduled", "list", "add", "over"}, left : Nat, todo : SUBSET Users]
        /\ fanout.left > 0
    BY <1>1, DigestAssumption
  <2>4. QED
    BY <1>1, <1>2, <2>2, <2>3 DEF DigestTypes
<1>4. DigestsCounted
  <2> SUFFICES ASSUME NEW u \in Users
               PROVE  Len(sent[u]) + Cardinality(ToSend(u)) + ToQueue(u) <= 1 + faults
    BY DEF DigestsCounted
  <2>1. ToSend(u) = {} /\ ToQueue(u) = 1 /\ sent[u] = <<>>
    BY <1>1 DEF ToSend, ToQueue
  <2>2. QED
    BY <1>1, <2>1, FS_EmptySet
<1>5. AskedOnlyForNone /\ ToldIsKept
  BY <1>1 DEF AskedOnlyForNone, ToldIsKept
<1>6. QED
  BY <1>3, <1>4, <1>5 DEF DigestInv

(* A job gives way to another of the same user that asks for nothing and   *)
(* was told no more than is kept.                                          *)
LEMMA PutKeeps ==
  ASSUME DigestInv, NEW j \in jobs, NEW new \in Jobs, Put(j, new),
         new.user = j.user, new.new = 0,
         \A k \in Kinds : new.told[k] \in {0, j.told[k], kept[j.user][k]},
         j.at = "mark" => faults' = faults + 1,
         faults' \in {faults, faults + 1},
         UNCHANGED <<paying, fanout, kept, texts, sent, clouded>>
  PROVE  DigestInv'
<1>0. DigestTypes /\ IsFiniteSet(jobs) /\ jobs \subseteq Jobs /\ j.user \in Users
  BY JobFields DEF DigestInv, DigestTypes
<1>1. /\ IsFiniteSet(jobs') /\ jobs' \subseteq Jobs
      /\ \A u \in Users : u # j.user => ToSend(u)' = ToSend(u)
      /\ Cardinality(ToSend(j.user)') <= Cardinality(ToSend(j.user)) + 1
      /\ j.at # "mark" => Cardinality(ToSend(j.user)') <= Cardinality(ToSend(j.user))
  BY <1>0, PutCounts
<1>2. DigestTypes'
  BY <1>0, <1>1 DEF DigestTypes
<1>3. DigestsCounted'
  <2>0. DigestsCounted
    BY DEF DigestInv
  <2> SUFFICES ASSUME NEW u \in Users
               PROVE  Len(sent[u]) + Cardinality(ToSend(u)') + ToQueue(u) <= 1 + faults'
    BY DEF DigestsCounted, ToQueue
  <2>1. /\ Len(sent[u]) \in Nat /\ Cardinality(ToSend(u)) \in Nat /\ Cardinality(ToSend(u)') \in Nat
        /\ ToQueue(u) \in {0, 1} /\ faults \in Nat
        /\ Len(sent[u]) + Cardinality(ToSend(u)) + ToQueue(u) <= 1 + faults
    BY <1>0, <1>1, <2>0, CountsAreNumbers, CountsAreNumbersNext DEF DigestTypes, DigestsCounted
  <2>2. Cardinality(ToSend(u)') <= Cardinality(ToSend(u)) \/ faults' = faults + 1
    BY <1>1, <2>1
  <2>3. Cardinality(ToSend(u)') <= Cardinality(ToSend(u)) + 1
    BY <1>1, <2>1
  <2>4. QED
    BY <2>1, <2>2, <2>3, SMTT(20)
<1>4. jobs' = (jobs \ {j}) \cup {new}
  BY DEF Put
<1>5. AskedOnlyForNone'
  BY <1>4 DEF DigestInv, AskedOnlyForNone
<1>6. ToldIsKept => ToldIsKept'
  BY <1>4 DEF ToldIsKept
<1>7. QED
  BY <1>2, <1>3, <1>5, <1>6 DEF DigestInv

LEMMA FinishKeeps ==
  ASSUME DigestInv, NEW j \in jobs, Finish(j), faults' \in {faults, faults + 1},
         UNCHANGED <<paying, fanout, kept, texts, sent, clouded>>
  PROVE  DigestInv'
<1>0. DigestTypes /\ IsFiniteSet(jobs) /\ jobs \subseteq Jobs
  BY DEF DigestInv, DigestTypes
<1>1. /\ IsFiniteSet(jobs') /\ jobs' \subseteq jobs
      /\ \A u \in Users : Cardinality(ToSend(u)') <= Cardinality(ToSend(u))
  BY <1>0, FinishCounts
<1>2. DigestTypes'
  BY <1>0, <1>1 DEF DigestTypes
<1>3. DigestsCounted'
  <2>0. DigestsCounted
    BY DEF DigestInv
  <2> SUFFICES ASSUME NEW u \in Users
               PROVE  Len(sent[u]) + Cardinality(ToSend(u)') + ToQueue(u) <= 1 + faults'
    BY DEF DigestsCounted, ToQueue
  <2>1. /\ Len(sent[u]) \in Nat /\ Cardinality(ToSend(u)) \in Nat /\ Cardinality(ToSend(u)') \in Nat
        /\ ToQueue(u) \in {0, 1} /\ faults \in Nat
        /\ Len(sent[u]) + Cardinality(ToSend(u)) + ToQueue(u) <= 1 + faults
    BY <1>0, <1>1, <2>0, CountsAreNumbers, CountsAreNumbersNext DEF DigestTypes, DigestsCounted
  <2>2. QED
    BY <1>1, <2>1, SMTT(20)
<1>4. AskedOnlyForNone'
  BY <1>1 DEF DigestInv, AskedOnlyForNone
<1>5. ToldIsKept => ToldIsKept'
  BY <1>1 DEF ToldIsKept
<1>6. QED
  BY <1>2, <1>3, <1>4, <1>5 DEF DigestInv

LEMMA FanoutKeeps ==
  ASSUME DigestInv, MonthEnds \/ ListEligible \/ EndFanout \/ FanoutFails
  PROVE  DigestInv'
<1>0. DigestTypes /\ DigestsCounted
  BY DEF DigestInv
<1>1. UNCHANGED <<paying, jobs, kept, texts, sent, clouded>> /\ faults' \in {faults, faults + 1}
  BY DEF MonthEnds, ListEligible, EndFanout, FanoutFails
<1>2. DigestTypes'
  <2>1. /\ fanout.at \in {"scheduled", "list", "add", "over"} /\ fanout.left \in Nat
        /\ fanout.todo \subseteq Users /\ paying \subseteq Users
        /\ fanout = [at |-> fanout.at, left |-> fanout.left, todo |-> fanout.todo]
        /\ fanout.at # "over" => fanout.left > 0
    BY <1>0 DEF DigestTypes
  <2>2. PICK place \in {"list", "add", "over"}, left \in Nat, todo \in SUBSET Users :
          /\ fanout' = [at |-> place, left |-> left, todo |-> todo]
          /\ place # "over" => left > 0
    <3>1. CASE MonthEnds \/ ListEligible \/ EndFanout
      BY <2>1, <3>1 DEF MonthEnds, ListEligible, EndFanout
    <3>2. CASE FanoutFails
      <4>1. fanout.left - 1 \in Nat /\ (fanout.left # 1 => fanout.left - 1 > 0)
        BY <2>1, <3>2 DEF FanoutFails
      <4>2. QED
        BY <3>2, <4>1, ZenonT(60) DEF FanoutFails
    <3>3. QED
      BY <3>1, <3>2
  <2>3. /\ fanout' \in [at : {"scheduled", "list", "add", "over"}, left : Nat, todo : SUBSET Users]
        /\ fanout'.at # "over" => fanout'.left > 0
    BY <2>2
  <2>4. faults' \in Nat
    BY <1>0, <1>1 DEF DigestTypes
  <2>5. QED
    BY <1>0, <1>1, <2>3, <2>4 DEF DigestTypes
<1>3. \A u \in Users : ToQueue(u)' <= ToQueue(u) \/ (ToQueue(u)' <= ToQueue(u) + 1 /\ faults' = faults + 1)
  BY <1>0 DEF DigestTypes, ToQueue, MonthEnds, ListEligible, EndFanout, FanoutFails
<1>4. DigestsCounted'
  <2> SUFFICES ASSUME NEW u \in Users
               PROVE  Len(sent[u]) + Cardinality(ToSend(u)) + ToQueue(u)' <= 1 + faults'
    BY <1>1 DEF DigestsCounted, ToSend
  <2>1. /\ Len(sent[u]) \in Nat /\ Cardinality(ToSend(u)) \in Nat
        /\ ToQueue(u) \in {0, 1} /\ faults \in Nat
        /\ Len(sent[u]) + Cardinality(ToSend(u)) + ToQueue(u) <= 1 + faults
    BY <1>0, CountsAreNumbers DEF DigestTypes, DigestsCounted
  <2>2. ToQueue(u)' \in {0, 1}
    BY DEF ToQueue
  <2>3. QED
    BY <1>1, <1>3, <2>1, <2>2
<1>5. AskedOnlyForNone' /\ (clouded' \/ ToldIsKept')
  BY <1>1 DEF DigestInv, AskedOnlyForNone, ToldIsKept
<1>6. QED
  BY <1>2, <1>4, <1>5 DEF DigestInv

LEMMA AddKeeps ==
  ASSUME DigestInv, NEW u \in Users, AddJob(u)
  PROVE  DigestInv'
<1>0. DigestTypes /\ DigestsCounted
  BY DEF DigestInv
<1>1. PICK new : new = Queued(u)
  OBVIOUS
<1>2. /\ fanout.at = "add" /\ u \in fanout.todo /\ jobs' = jobs \cup {new}
      /\ fanout' = [fanout EXCEPT !.todo = @ \ {u}]
      /\ UNCHANGED <<paying, kept, texts, sent, faults, clouded>>
  BY <1>1 DEF AddJob
<1>3. new \in Jobs /\ new.user = u /\ new.at = "waiting" /\ new.told = NoTexts /\ new.new = 0
  BY <1>0, <1>1, NewJob
<1>4. IsFiniteSet(jobs')
  BY <1>0, <1>2, FS_AddElement DEF DigestTypes
<1>5. DigestTypes'
  BY <1>0, <1>2, <1>3, <1>4 DEF DigestTypes
<1>6. \A v \in Users : v # u => ToSend(v)' = ToSend(v) /\ ToQueue(v)' = ToQueue(v)
  BY <1>0, <1>2, <1>3 DEF ToSend, ToQueue, DigestTypes
<1>7. ToQueue(u) = 1 /\ ToQueue(u)' = 0
  BY <1>0, <1>2 DEF ToQueue, DigestTypes
<1>8. Cardinality(ToSend(u)') <= Cardinality(ToSend(u)) + 1
  <2>1. PICK S : S = ToSend(u)
    OBVIOUS
  <2>2. ToSend(u)' = S \cup {new}
    BY <1>2, <1>3, <2>1 DEF ToSend
  <2>3. IsFiniteSet(S) /\ Cardinality(S) \in Nat
    BY <1>0, <2>1, FS_Subset, FS_CardinalityType DEF ToSend, DigestTypes
  <2>4. Cardinality(S \cup {new}) = IF new \in S THEN Cardinality(S) ELSE Cardinality(S) + 1
    BY <2>3, FS_AddElement
  <2>5. QED
    BY <2>1, <2>2, <2>3, <2>4
<1>9. DigestsCounted'
  <2> SUFFICES ASSUME NEW v \in Users
               PROVE  Len(sent[v]) + Cardinality(ToSend(v)') + ToQueue(v)' <= 1 + faults
    BY <1>2 DEF DigestsCounted
  <2>1. /\ Len(sent[v]) \in Nat /\ Cardinality(ToSend(v)) \in Nat /\ Cardinality(ToSend(v)') \in Nat
        /\ ToQueue(v) \in {0, 1} /\ faults \in Nat
        /\ Len(sent[v]) + Cardinality(ToSend(v)) + ToQueue(v) <= 1 + faults
    BY <1>0, <1>4, CountsAreNumbers, CountsAreNumbersNext DEF DigestTypes, DigestsCounted
  <2>2. CASE v = u
    BY <1>7, <1>8, <2>1, <2>2
  <2>3. CASE v # u
    BY <1>6, <2>1, <2>3
  <2>4. QED
    BY <2>2, <2>3
<1>10. AskedOnlyForNone'
  BY <1>2, <1>3 DEF DigestInv, AskedOnlyForNone
<1>11. ToldIsKept => ToldIsKept'
  BY <1>2, <1>3, NothingTold DEF ToldIsKept
<1>12. QED
  BY <1>2, <1>5, <1>9, <1>10, <1>11 DEF DigestInv
(* What a job becomes keeps the fields it does not set.                    *)
LEMMA JobBecomes ==
  ASSUME NEW j \in Jobs, NEW place \in JobPlaces, NEW k \in Kinds, NEW n \in Nat
  PROVE  /\ At(j, place) \in Jobs /\ At(j, place).user = j.user /\ At(j, place).at = place
         /\ At(j, place).told = j.told /\ At(j, place).new = j.new
         /\ Again(j) \in Jobs /\ Again(j).user = j.user /\ Again(j).at = "waiting"
         /\ Again(j).told = NoTexts /\ Again(j).new = 0
         /\ [j EXCEPT !.new = n] \in Jobs
BY NothingTold DEF Jobs, At, Again, JobPlaces

LEMMA JobTold ==
  ASSUME NEW j \in Jobs, NEW k \in Kinds, NEW n \in Nat, NEW m \in Nat, NEW new,
         new = [user |-> j.user, no |-> j.no, at |-> After(k), left |-> j.left,
                stalled |-> j.stalled, told |-> [j.told EXCEPT ![k] = n], new |-> m]
  PROVE  /\ new \in Jobs /\ new.user = j.user /\ new.at \in {"coach", "send"} /\ new.new = m
         /\ new.told[k] = n /\ \A l \in Kinds : l # k => new.told[l] = j.told[l]
<1>1. After(k) \in {"coach", "send"} /\ After(k) \in JobPlaces
  BY DEF After, JobPlaces
<1>2. PICK told \in Analyses : told = [j.told EXCEPT ![k] = n]
  <2>1. j.told \in Analyses
    BY JobFields
  <2>2. [j.told EXCEPT ![k] = n] \in Analyses
    BY <2>1 DEF Analyses
  <2>3. QED
    BY <2>2
<1>3. told[k] = n /\ \A l \in Kinds : l # k => told[l] = j.told[l]
  BY <1>2, JobFields DEF Analyses
<1>4. new \in Jobs
  BY <1>1, <1>2, JobFields DEF Jobs
<1>5. QED
  BY <1>1, <1>2, <1>3, <1>4

LEMMA ReadKeeps ==
  ASSUME DigestInv, NEW j \in jobs, ReadKept(j)
  PROVE  DigestInv'
<1>0. DigestTypes /\ DigestsCounted /\ AskedOnlyForNone /\ j \in Jobs
  BY DEF DigestInv, DigestTypes
<1>1. PICK k : k = j.at
  OBVIOUS
<1>2. PICK text : text = IF j.user \in paying THEN kept[j.user][k] ELSE 0
  OBVIOUS
<1>3. /\ k \in Kinds /\ j.new = 0 /\ j.at # "mark"
      /\ UNCHANGED <<paying, fanout, kept, sent, faults>>
  BY <1>1 DEF ReadKept, Kinds
<1>4. text \in Nat /\ text \in {0, kept[j.user][k]}
  BY <1>0, <1>2, <1>3, JobFields DEF DigestTypes, Analyses
<1>5. CASE /\ Put(j, [j EXCEPT !.at = After(k), !.told[k] = text])
           /\ UNCHANGED <<texts, clouded>>
  <2>1. PICK new : new = [j EXCEPT !.at = After(k), !.told[k] = text]
    OBVIOUS
  <2>2. new = [user |-> j.user, no |-> j.no, at |-> After(k), left |-> j.left,
               stalled |-> j.stalled, told |-> [j.told EXCEPT ![k] = text], new |-> j.new]
    BY <1>0, <2>1 DEF Jobs
  <2>3. /\ new \in Jobs /\ new.user = j.user /\ new.new = 0
        /\ new.told[k] = text /\ \A l \in Kinds : l # k => new.told[l] = j.told[l]
    BY <1>0, <1>3, <1>4, <2>2, JobTold
  <2>4. \A l \in Kinds : new.told[l] \in {0, j.told[l], kept[j.user][l]}
    BY <1>4, <2>3
  <2>5. Put(j, new) /\ faults' \in {faults, faults + 1}
    BY <1>3, <1>5, <2>1
  <2>6. QED
    BY <1>3, <1>5, <2>3, <2>4, <2>5, PutKeeps
<1>6. CASE /\ j.user \in paying /\ text = 0
           /\ texts' = texts + 1
           /\ Put(j, [j EXCEPT !.new = texts'])
           /\ clouded' = (clouded \/ \E i \in jobs \ {j} : i.user = j.user /\ i.at = k /\ i.new > 0)
  <2>1. PICK new : new = [j EXCEPT !.new = texts']
    OBVIOUS
  <2>2. texts' \in Nat /\ texts' > 0
    BY <1>0, <1>6 DEF DigestTypes
  <2>3. /\ new \in Jobs /\ new.user = j.user /\ new.at = j.at /\ new.told = j.told
    BY <1>0, <1>3, <2>1, <2>2, JobBecomes DEF Jobs
  <2>4. jobs' = (jobs \ {j}) \cup {new}
    BY <1>6, <2>1 DEF Put
  <2>5. /\ IsFiniteSet(jobs') /\ jobs' \subseteq Jobs
        /\ \A u \in Users : u # j.user => ToSend(u)' = ToSend(u)
        /\ Cardinality(ToSend(j.user)') <= Cardinality(ToSend(j.user))
    BY <1>0, <1>3, <1>6, <2>1, <2>3, PutCounts DEF DigestTypes
  <2>6. clouded' \in BOOLEAN
    BY <1>0, <1>6 DEF DigestTypes
  <2>7. DigestTypes'
    BY <1>0, <1>3, <2>2, <2>5, <2>6 DEF DigestTypes
  <2>8. DigestsCounted'
    <3> SUFFICES ASSUME NEW u \in Users
                 PROVE  Len(sent[u]) + Cardinality(ToSend(u)') + ToQueue(u) <= 1 + faults
      BY <1>3 DEF DigestsCounted, ToQueue
    <3>1. /\ Len(sent[u]) \in Nat /\ Cardinality(ToSend(u)) \in Nat /\ Cardinality(ToSend(u)') \in Nat
          /\ ToQueue(u) \in {0, 1} /\ faults \in Nat
          /\ Len(sent[u]) + Cardinality(ToSend(u)) + ToQueue(u) <= 1 + faults
      BY <1>0, <2>5, CountsAreNumbers, CountsAreNumbersNext DEF DigestTypes, DigestsCounted
    <3>2. Cardinality(ToSend(u)') <= Cardinality(ToSend(u))
      BY <2>5, <3>1
    <3>3. QED
      BY <3>1, <3>2
  <2>9. AskedOnlyForNone'
    BY <1>0, <1>1, <1>3, <2>3, <2>4 DEF AskedOnlyForNone
  <2>10. ASSUME ToldIsKept, ~clouded' PROVE ToldIsKept'
    <3>1. kept[j.user][j.at] = 0
      BY <1>1, <1>2, <1>6
    <3>2. \A i \in jobs \ {j} : ~(i.user = j.user /\ i.at = j.at /\ i.new > 0)
      BY <1>1, <1>6, <2>10
    <3>3. /\ \A i \in jobs' : \A l \in Kinds : i.told[l] \in {0, kept[i.user][l]}
          /\ \A i \in jobs' : i.new > 0 => kept[i.user][i.at] = 0
      BY <2>3, <2>4, <2>10, <3>1 DEF ToldIsKept
    <3>4. \A i, l \in jobs' : i.user = l.user /\ i.at = l.at /\ i.new > 0 /\ l.new > 0 => i = l
      BY <2>3, <2>4, <2>10, <3>2 DEF ToldIsKept
    <3>5. QED
      BY <1>3, <2>10, <3>3, <3>4 DEF ToldIsKept
  <2>11. clouded => clouded'
    BY <1>6
  <2>12. QED
    BY <2>7, <2>8, <2>9, <2>10, <2>11 DEF DigestInv
<1>7. QED
  BY <1>1, <1>2, <1>5, <1>6 DEF ReadKept
LEMMA KeepKeeps ==
  ASSUME DigestInv, NEW j \in jobs, NEW fails \in BOOLEAN, Keep(j, fails)
  PROVE  DigestInv'
<1>0. DigestTypes /\ DigestsCounted /\ AskedOnlyForNone /\ j \in Jobs
  BY DEF DigestInv, DigestTypes
<1>1. PICK k : k = j.at
  OBVIOUS
<1>2. PICK n : n = IF fails THEN 0 ELSE j.new
  OBVIOUS
<1>3. PICK new : new = [j EXCEPT !.at = After(k), !.told[k] = n, !.new = 0]
  OBVIOUS
<1>4. /\ k \in Kinds /\ j.new > 0 /\ j.at # "mark" /\ Put(j, new)
      /\ UNCHANGED <<paying, fanout, texts, sent, faults, clouded>>
      /\ kept' = IF fails THEN kept ELSE [kept EXCEPT ![j.user][k] = n]
  BY <1>1, <1>2, <1>3 DEF Keep, Kinds
<1>5. n \in Nat /\ j.user \in Users /\ kept[j.user] \in Analyses
  BY <1>0, <1>2, JobFields DEF DigestTypes
<1>6. new = [user |-> j.user, no |-> j.no, at |-> After(k), left |-> j.left,
             stalled |-> j.stalled, told |-> [j.told EXCEPT ![k] = n], new |-> 0]
  BY <1>0, <1>3 DEF Jobs
<1>7. /\ new \in Jobs /\ new.user = j.user /\ new.new = 0 /\ new.at \in {"coach", "send"}
      /\ new.told[k] = n /\ \A l \in Kinds : l # k => new.told[l] = j.told[l]
  BY <1>0, <1>4, <1>5, <1>6, JobTold
<1>8. CASE fails
  <2>1. \A l \in Kinds : new.told[l] \in {0, j.told[l], kept[j.user][l]}
    BY <1>2, <1>7, <1>8
  <2>2. faults' \in {faults, faults + 1} /\ kept' = kept
    BY <1>4, <1>8
  <2>3. QED
    BY <1>4, <1>7, <2>1, <2>2, PutKeeps
<1>9. CASE ~fails
  <2>1. kept'[j.user][k] = j.new /\ kept' \in [Users -> Analyses]
    BY <1>0, <1>2, <1>4, <1>5, <1>9 DEF DigestTypes, Analyses
  <2>2. /\ \A u \in Users : u # j.user => kept'[u] = kept[u]
        /\ \A l \in Kinds : l # k => kept'[j.user][l] = kept[j.user][l]
    BY <1>0, <1>2, <1>4, <1>5, <1>9 DEF DigestTypes, Analyses
  <2>3. jobs' = (jobs \ {j}) \cup {new}
    BY <1>4 DEF Put
  <2>4. /\ IsFiniteSet(jobs') /\ jobs' \subseteq Jobs
        /\ \A u \in Users : u # j.user => ToSend(u)' = ToSend(u)
        /\ Cardinality(ToSend(j.user)') <= Cardinality(ToSend(j.user))
    BY <1>0, <1>4, <1>7, PutCounts DEF DigestTypes
  <2>5. DigestTypes'
    BY <1>0, <1>4, <2>1, <2>4 DEF DigestTypes
  <2>6. DigestsCounted'
    <3> SUFFICES ASSUME NEW u \in Users
                 PROVE  Len(sent[u]) + Cardinality(ToSend(u)') + ToQueue(u) <= 1 + faults
      BY <1>4 DEF DigestsCounted, ToQueue
    <3>1. /\ Len(sent[u]) \in Nat /\ Cardinality(ToSend(u)) \in Nat /\ Cardinality(ToSend(u)') \in Nat
          /\ ToQueue(u) \in {0, 1} /\ faults \in Nat
          /\ Len(sent[u]) + Cardinality(ToSend(u)) + ToQueue(u) <= 1 + faults
      BY <1>0, <2>4, CountsAreNumbers, CountsAreNumbersNext DEF DigestTypes, DigestsCounted
    <3>2. Cardinality(ToSend(u)') <= Cardinality(ToSend(u))
      BY <2>4, <3>1
    <3>3. QED
      BY <3>1, <3>2
  <2>7. AskedOnlyForNone'
    BY <1>0, <1>7, <2>3 DEF AskedOnlyForNone
  <2>8. ASSUME ToldIsKept PROVE ToldIsKept'
    <3>1. kept[j.user][k] = 0 /\ \A i \in jobs \ {j} : ~(i.user = j.user /\ i.at = k /\ i.new > 0)
      BY <1>1, <1>4, <2>8 DEF ToldIsKept
    <3>2. \A u \in Users, l \in Kinds : kept[u][l] \in {0, kept'[u][l]}
      BY <2>2, <3>1
    <3>3. ASSUME NEW u \in Users, NEW i \in DOMAIN sent[u], NEW l \in Kinds
          PROVE  sent[u][i][l] \in {0, kept'[u][l]}
      <4>1. sent[u][i][l] \in {0, kept[u][l]}
        BY <2>8 DEF ToldIsKept
      <4>2. QED
        BY <3>2, <4>1
    <3>4. ASSUME NEW i \in jobs', NEW l \in Kinds PROVE i.told[l] \in {0, kept'[i.user][l]}
      <4>1. CASE i \in jobs
        <5>1. i.told[l] \in {0, kept[i.user][l]} /\ i.user \in Users
          BY <1>0, <2>8, <4>1, JobFields DEF ToldIsKept, DigestTypes
        <5>2. QED
          BY <3>2, <5>1
      <4>2. CASE i = new /\ l = k
        BY <1>2, <1>7, <1>9, <2>1, <4>2
      <4>3. CASE i = new /\ l # k
        <5>1. j.told[l] \in {0, kept[j.user][l]}
          BY <2>8 DEF ToldIsKept
        <5>2. QED
          BY <1>5, <1>7, <3>2, <4>3, <5>1
      <4>4. QED
        BY <2>3, <4>1, <4>2, <4>3
    <3>5. ASSUME NEW i \in jobs', i.new > 0 PROVE kept'[i.user][i.at] = 0
      <4>1. i \in jobs \ {j} /\ i \in Jobs /\ i.at \in Kinds /\ i.user \in Users
        BY <1>0, <1>7, <2>3, <3>5, JobFields DEF DigestTypes, AskedOnlyForNone
      <4>2. kept[i.user][i.at] = 0 /\ ~(i.user = j.user /\ i.at = k)
        BY <2>8, <3>1, <3>5, <4>1 DEF ToldIsKept
      <4>3. QED
        BY <2>2, <4>1, <4>2
    <3>6. \A i, l \in jobs' : i.user = l.user /\ i.at = l.at /\ i.new > 0 /\ l.new > 0 => i = l
      BY <1>7, <2>3, <2>8 DEF ToldIsKept
    <3>7. QED
      BY <1>4, <3>3, <3>4, <3>5, <3>6 DEF ToldIsKept
  <2>9. QED
    BY <1>4, <2>5, <2>6, <2>7, <2>8 DEF DigestInv
<1>10. QED
  BY <1>8, <1>9

LEMMA SendKeeps ==
  ASSUME DigestInv, NEW j \in jobs, Send(j)
  PROVE  DigestInv'
<1>0. DigestTypes /\ DigestsCounted /\ AskedOnlyForNone /\ j \in Jobs
  BY DEF DigestInv, DigestTypes
<1>1. PICK new : new = At(j, "mark")
  OBVIOUS
<1>2. /\ j.at = "send" /\ Put(j, new) /\ sent' = [sent EXCEPT ![j.user] = Append(@, j.told)]
      /\ UNCHANGED <<paying, fanout, kept, texts, faults, clouded>>
  BY <1>1 DEF Send
<1>3. /\ new \in Jobs /\ new.user = j.user /\ new.at = "mark" /\ new.told = j.told /\ new.new = j.new
  BY <1>0, <1>1, JobBecomes DEF JobPlaces, Kinds
<1>4. j.user \in Users /\ j.told \in Analyses /\ sent[j.user] \in Seq(Analyses) /\ j.new \in Nat
  BY <1>0, JobFields DEF DigestTypes
<1>5. ~(j.new > 0)
  BY <1>0, <1>2 DEF AskedOnlyForNone, Kinds
<1>6. /\ sent'[j.user] = Append(sent[j.user], j.told)
      /\ \A u \in Users : u # j.user => sent'[u] = sent[u]
      /\ sent' \in [Users -> Seq(Analyses)]
  BY <1>0, <1>2, <1>4 DEF DigestTypes
<1>7. /\ IsFiniteSet(jobs') /\ jobs' \subseteq Jobs
      /\ \A u \in Users : u # j.user => ToSend(u)' = ToSend(u)
      /\ Cardinality(ToSend(j.user)') <= Cardinality(ToSend(j.user)) - 1
  BY <1>0, <1>2, <1>3, PutCounts DEF DigestTypes
<1>8. DigestTypes'
  BY <1>0, <1>2, <1>6, <1>7 DEF DigestTypes
<1>9. DigestsCounted'
  <2> SUFFICES ASSUME NEW u \in Users
               PROVE  Len(sent'[u]) + Cardinality(ToSend(u)') + ToQueue(u) <= 1 + faults
    BY <1>2 DEF DigestsCounted, ToQueue
  <2>1. /\ Len(sent[u]) \in Nat /\ Cardinality(ToSend(u)) \in Nat /\ Cardinality(ToSend(u)') \in Nat
        /\ ToQueue(u) \in {0, 1} /\ faults \in Nat
        /\ Len(sent[u]) + Cardinality(ToSend(u)) + ToQueue(u) <= 1 + faults
    BY <1>0, <1>7, CountsAreNumbers, CountsAreNumbersNext DEF DigestTypes, DigestsCounted
  <2>2. CASE u = j.user
    <3>1. Len(sent'[u]) = Len(sent[u]) + 1
      BY <1>4, <1>6, <2>2
    <3>2. QED
      BY <1>7, <2>1, <2>2, <3>1
  <2>3. CASE u # j.user
    BY <1>6, <1>7, <2>1, <2>3
  <2>4. QED
    BY <2>2, <2>3
<1>10. jobs' = (jobs \ {j}) \cup {new}
  BY <1>2 DEF Put
<1>11. AskedOnlyForNone'
  BY <1>0, <1>3, <1>5, <1>10 DEF AskedOnlyForNone
<1>12. ASSUME ToldIsKept PROVE ToldIsKept'
  <2>1. ASSUME NEW u \in Users, NEW i \in DOMAIN sent'[u], NEW k \in Kinds
        PROVE  sent'[u][i][k] \in {0, kept[u][k]}
    <3>1. CASE u # j.user
      BY <1>6, <1>12, <3>1 DEF ToldIsKept
    <3>2. CASE u = j.user /\ i \in DOMAIN sent[u]
      <4>1. sent'[u][i] = sent[u][i]
        BY <1>4, <1>6, <3>2
      <4>2. QED
        BY <1>12, <3>2, <4>1 DEF ToldIsKept
    <3>3. CASE u = j.user /\ i \notin DOMAIN sent[u]
      <4>1. sent'[u][i] = j.told
        BY <1>4, <1>6, <2>1, <3>3
      <4>2. QED
        BY <1>12, <3>3, <4>1 DEF ToldIsKept
    <3>4. QED
      BY <3>1, <3>2, <3>3
  <2>2. /\ \A i \in jobs' : \A k \in Kinds : i.told[k] \in {0, kept[i.user][k]}
        /\ \A i \in jobs' : i.new > 0 => kept[i.user][i.at] = 0
        /\ \A i, k \in jobs' : i.user = k.user /\ i.at = k.at /\ i.new > 0 /\ k.new > 0 => i = k
    BY <1>3, <1>5, <1>10, <1>12 DEF ToldIsKept
  <2>3. QED
    BY <1>2, <2>1, <2>2 DEF ToldIsKept
<1>13. QED
  BY <1>2, <1>8, <1>9, <1>11, <1>12 DEF DigestInv

LEMMA FailuresKeep ==
  ASSUME DigestInv, NEW j \in jobs, StartJob(j) \/ MarkSent(j) \/ JobFails(j) \/ WorkerDies(j)
  PROVE  DigestInv'
<1>0. DigestTypes /\ AskedOnlyForNone /\ j \in Jobs /\ j.left \in Nat \ {0} /\ j.new \in Nat
  BY JobFields DEF DigestInv, DigestTypes
<1>1. /\ UNCHANGED <<paying, fanout, kept, texts, sent, clouded>>
      /\ faults' \in {faults, faults + 1}
      /\ StartJob(j) \/ MarkSent(j) \/ faults' = faults + 1
  BY DEF StartJob, MarkSent, JobFails, WorkerDies
<1>2. CASE Finish(j)
  BY <1>1, <1>2, FinishKeeps
<1>3. ASSUME NEW new \in Jobs, new.user = j.user, new.new = 0, new.told = j.told \/ new.told = NoTexts,
             j.at # "mark" \/ faults' = faults + 1, Put(j, new)
      PROVE  DigestInv'
  <2>1. \A k \in Kinds : new.told[k] \in {0, j.told[k], kept[j.user][k]}
    BY <1>3, NothingTold
  <2>2. QED
    BY <1>1, <1>3, <2>1, PutKeeps
<1>4. CASE StartJob(j) /\ Put(j, At(j, "insights"))
  <2>1. j.at = "waiting" /\ j.new = 0
    BY <1>0, <1>4 DEF StartJob, AskedOnlyForNone, Kinds
  <2>2. /\ At(j, "insights") \in Jobs /\ At(j, "insights").user = j.user
        /\ At(j, "insights").new = 0 /\ At(j, "insights").told = j.told
    BY <1>0, <2>1, JobBecomes DEF JobPlaces, Kinds
  <2>3. QED
    BY <1>3, <1>4, <2>1, <2>2
<1>5. CASE faults' = faults + 1 /\ \E n \in Nat \ {0} : Put(j, [Again(j) EXCEPT !.left = n])
  <2>1. PICK n \in Nat \ {0} : Put(j, [Again(j) EXCEPT !.left = n])
    BY <1>5
  <2>2. /\ Again(j) \in Jobs /\ Again(j).user = j.user /\ Again(j).told = NoTexts /\ Again(j).new = 0
    BY <1>0, JobBecomes DEF JobPlaces, Kinds
  <2>3. PICK new : new = [Again(j) EXCEPT !.left = n]
    OBVIOUS
  <2>4. new \in Jobs /\ new.user = j.user /\ new.told = NoTexts /\ new.new = 0
    BY <2>2, <2>3 DEF Jobs
  <2>5. QED
    BY <1>3, <1>5, <2>1, <2>3, <2>4
<1>6. CASE faults' = faults + 1 /\ Put(j, [Again(j) EXCEPT !.stalled = TRUE])
  <2>1. /\ Again(j) \in Jobs /\ Again(j).user = j.user /\ Again(j).told = NoTexts /\ Again(j).new = 0
    BY <1>0, JobBecomes DEF JobPlaces, Kinds
  <2>2. PICK new : new = [Again(j) EXCEPT !.stalled = TRUE]
    OBVIOUS
  <2>3. new \in Jobs /\ new.user = j.user /\ new.told = NoTexts /\ new.new = 0
    BY <2>1, <2>2 DEF Jobs
  <2>4. QED
    BY <1>3, <1>6, <2>2, <2>3
<1>7. CASE JobFails(j) /\ ~Finish(j)
  <2>1. j.left # 1 /\ Put(j, [Again(j) EXCEPT !.left = @ - 1])
    BY <1>7 DEF JobFails
  <2>2. Again(j).left = j.left
    BY <1>0 DEF Again, Jobs
  <2>3. j.left - 1 \in Nat \ {0}
    BY <1>0, <2>1
  <2>4. QED
    BY <1>5, <1>7, <2>1, <2>2, <2>3 DEF JobFails
<1>8. QED
  BY <1>2, <1>4, <1>6, <1>7 DEF StartJob, MarkSent, WorkerDies

LEMMA DigestSteps == DigestInv /\ [DigestNext]_digestVars => DigestInv'
<1> SUFFICES ASSUME DigestInv, [DigestNext]_digestVars PROVE DigestInv'
  OBVIOUS
<1>1. ASSUME NEW u \in Users, NEW k \in Kinds, Refresh(u, k) PROVE DigestInv'
  <2>1. DigestTypes'
    BY <1>1 DEF DigestInv, DigestTypes, Refresh, Analyses
  <2>2. DigestsCounted' /\ AskedOnlyForNone' /\ clouded'
    BY <1>1 DEF DigestInv, DigestsCounted, ToSend, ToQueue, AskedOnlyForNone, Refresh
  <2>3. QED
    BY <2>1, <2>2 DEF DigestInv
<1>2. ASSUME NEW u \in Users, ChangePlan(u) PROVE DigestInv'
  <2>1. DigestTypes'
    BY <1>2 DEF DigestInv, DigestTypes, ChangePlan
  <2>2. DigestsCounted' /\ AskedOnlyForNone' /\ (clouded' \/ ToldIsKept')
    BY <1>2 DEF DigestInv, DigestsCounted, ToSend, ToQueue, AskedOnlyForNone, ToldIsKept, ChangePlan
  <2>3. QED
    BY <2>1, <2>2 DEF DigestInv
<1>3. CASE UNCHANGED digestVars
  BY <1>3 DEF digestVars, DigestInv, DigestTypes, DigestsCounted, ToSend, ToQueue,
     AskedOnlyForNone, ToldIsKept
<1>4. QED
  BY <1>1, <1>2, <1>3, FanoutKeeps, AddKeeps, ReadKeeps, KeepKeeps, SendKeeps, FailuresKeep
     DEF DigestNext, DigestStep, JobStep

(* For any users, attempts and workers: nobody is told a month more often  *)
(* than once and once more for each failure, and unless two jobs or a      *)
(* refresh asked at once, what was told is what is kept and shown.         *)
THEOREM DigestOnce == DigestSpec => []OneDigestPerFault
<1>1. DigestInv => OneDigestPerFault
  <2> SUFFICES ASSUME DigestInv, NEW u \in Users
               PROVE  /\ Len(sent[u]) <= 1 + faults
                      /\ clouded \/ \A i \in DOMAIN sent[u], k \in Kinds : sent[u][i][k] \in {0, kept[u][k]}
    BY DEF OneDigestPerFault
  <2>1. /\ Len(sent[u]) \in Nat /\ Cardinality(ToSend(u)) \in Nat
        /\ ToQueue(u) \in {0, 1} /\ faults \in Nat
        /\ Len(sent[u]) + Cardinality(ToSend(u)) + ToQueue(u) <= 1 + faults
    BY CountsAreNumbers DEF DigestInv, DigestTypes, DigestsCounted
  <2>2. QED
    BY <2>1 DEF DigestInv, ToldIsKept
<1>2. QED
  BY <1>1, DigestStart, DigestSteps, PTL DEF DigestSpec
-----------------------------------------------------------------------------
(* The assistant.                                                          *)
CallStates ==
  {Idle} \cup [at : {"conversation", "download", "save"}]
         \cup [at : {"hear"}, service : 1..Len(Speech)]
         \cup [at : {"usage"}, text : Messages, unlimited : BOOLEAN]
         \cup [at : {"model"}, text : Messages, unlimited : BOOLEAN, model : 1..Models]
         \cup [at : {"charge", "expire"}, text : Messages, reply : {"model", "unknown"}]
         \cup [at : {"reply"}, reply : {"apology"}]
         \cup [at : {"reply"}, text : Messages, reply : {"rule", "quota", "unknown", "model"}]

AssistantTypes ==
  /\ overlapped \in BOOLEAN /\ redisAway \in BOOLEAN /\ redisFailed \in BOOLEAN
  /\ day \in 0..Days
  /\ used \in [0..Days -> Nat] /\ served \in [0..Days -> Nat]
  /\ call \in [Calls -> CallStates]

(* What a call carries after the rules have been heard.                    *)
CallOk(k) ==
  /\ k.at = "download" => Speech # <<>>
  /\ k.at \in {"model", "charge", "expire"} => ~Sure(Understood[k.text])
  /\ k.at \in {"charge", "expire", "reply"} /\ k.reply \in {"unknown", "quota"} =>
       Understood[k.text].intent = "UNKNOWN"
  /\ k.at = "reply" /\ k.reply = "model" => ~Sure(Understood[k.text])
  /\ k.at = "reply" /\ k.reply = "quota" => \E d \in 0..day : used[d] >= DailyLimit
CallsOk == \A c \in Calls : CallOk(call[c])

(* The free calls that were let past the quota and are not charged yet.    *)
Free(k) == k.at = "charge" \/ (k.at = "model" /\ ~k.unlimited)
Charging == {c \in Calls : Free(call[c])}

(* Each of them may still be charged to today, whichever day it was that   *)
(* let it pass, so today's answers and they keep under the bound together; *)
(* no free call is let past a quota of nothing.                            *)
QuotaLeft ==
  /\ \A d \in 0..Days : served[d] <= used[d] /\ served[d] < DailyLimit + Cardinality(Calls)
  /\ Charging # {} => DailyLimit > 0
  /\ served[day] + Cardinality(Charging) < DailyLimit + Cardinality(Calls)
  /\ ~overlapped => /\ \A d \in 0..Days : served[d] <= DailyLimit
                    /\ Charging # {} => served[day] < DailyLimit
Future == \A d \in 0..Days : d > day => used[d] = 0 /\ served[d] = 0
OneAtATime == \A c, d \in Calls : Busy(c) /\ Busy(d) => c = d

AssistantInv ==
  /\ AssistantTypes /\ CallsOk /\ Future
  /\ redisFailed \/ QuotaLeft
  /\ overlapped \/ OneAtATime

LEMMA CallFields ==
  ASSUME NEW k \in CallStates
  PROVE  /\ k.at = "hear" => k = [at |-> "hear", service |-> k.service] /\ k.service \in 1..Len(Speech)
         /\ k.at = "usage" => k.text \in Messages /\ k.unlimited \in BOOLEAN
         /\ k.at = "model" =>
              /\ k.text \in Messages /\ k.unlimited \in BOOLEAN /\ k.model \in 1..Models
              /\ k = [at |-> "model", text |-> k.text, unlimited |-> k.unlimited, model |-> k.model]
         /\ k.at \in {"charge", "expire"} =>
              /\ k.text \in Messages /\ k.reply \in {"model", "unknown"}
              /\ k = [at |-> k.at, text |-> k.text, reply |-> k.reply]
<1>1. CASE k = Idle \/ k \in [at : {"conversation", "download", "save"}]
  BY <1>1 DEF Idle
<1>2. CASE k \in [at : {"hear"}, service : 1..Len(Speech)]
  BY <1>2
<1>3. CASE k \in [at : {"usage"}, text : Messages, unlimited : BOOLEAN]
  BY <1>3
<1>4. CASE k \in [at : {"model"}, text : Messages, unlimited : BOOLEAN, model : 1..Models]
  BY <1>4
<1>5. CASE k \in [at : {"charge", "expire"}, text : Messages, reply : {"model", "unknown"}]
  BY <1>5
<1>6. CASE \/ k \in [at : {"reply"}, reply : {"apology"}]
           \/ k \in [at : {"reply"}, text : Messages, reply : {"rule", "quota", "unknown", "model"}]
  BY <1>6
<1>7. QED
  BY <1>1, <1>2, <1>3, <1>4, <1>5, <1>6 DEF CallStates

LEMMA CallsCounted ==
  /\ IsFiniteSet(Charging) /\ Cardinality(Charging) \in Nat
  /\ Cardinality(Calls) \in Nat /\ Cardinality(Calls) > 0
  /\ Cardinality(Charging) <= Cardinality(Calls)
  /\ Charging = {} => Cardinality(Charging) = 0
<1>1. IsFiniteSet(Calls) /\ Calls # {}
  BY AssistantAssumption
<1>2. Charging \subseteq Calls
  BY DEF Charging
<1>3. Cardinality(Calls) \in Nat /\ Cardinality(Calls) # 0
  BY <1>1, FS_CardinalityType, FS_EmptySet
<1>4. QED
  BY <1>1, <1>2, <1>3, FS_Subset, FS_CardinalityType, FS_EmptySet

LEMMA ModelsAreFew == Models \in 0..2
<1>1. IsFiniteSet({"gemini"}) /\ Cardinality({"gemini"}) = 1
  BY FS_Singleton
<1>2. PICK S : S = {"gemini"} \cup {"groq"}
  OBVIOUS
<1>3. IsFiniteSet(S) /\ Cardinality(S) = 2
  BY <1>1, <1>2, FS_AddElement
<1>4. ModelKeys \subseteq S
  BY <1>2, AssistantAssumption
<1>5. Cardinality(ModelKeys) <= 2 /\ Cardinality(ModelKeys) \in Nat
  BY <1>3, <1>4, FS_Subset, FS_CardinalityType
<1>6. QED
  BY <1>5 DEF Models

LEMMA AssistantStart == AssistantInit => AssistantInv
<1> SUFFICES ASSUME AssistantInit PROVE AssistantInv
  OBVIOUS
<1>1. /\ day = 0 /\ used = [d \in 0..Days |-> 0] /\ served = used
      /\ \A c \in Calls : call[c] = Idle
      /\ overlapped = FALSE /\ redisAway = FALSE /\ redisFailed = FALSE
  BY DEF AssistantInit
<1>2. AssistantTypes
  BY <1>1, AssistantAssumption DEF AssistantInit, AssistantTypes, CallStates
<1>3. CallsOk /\ OneAtATime /\ Charging = {}
  BY <1>1 DEF CallsOk, CallOk, OneAtATime, Busy, Idle, Charging, Free
<1>4. QuotaLeft
  BY <1>1, <1>3, CallsCounted, AssistantAssumption DEF QuotaLeft
<1>5. QED
  BY <1>1, <1>2, <1>3, <1>4 DEF AssistantInv, Future

(* A call that is under way goes on, and is not newly let past the quota.  *)
LEMMA GotoKeeps ==
  ASSUME AssistantInv, NEW c \in Calls, NEW new \in CallStates, Goto(c, new), Busy(c),
         CallOk(new), Free(new) => Free(call[c]),
         UNCHANGED <<day, used, served, overlapped, redisAway>>,
         redisFailed' \in BOOLEAN, redisFailed => redisFailed'
  PROVE  AssistantInv'
<1>0. AssistantTypes /\ CallsOk /\ Future
  BY DEF AssistantInv
<1>1. call'[c] = new /\ \A d \in Calls : d # c => call'[d] = call[d]
  BY <1>0 DEF Goto, AssistantTypes
<1>2. AssistantTypes'
  BY <1>0 DEF Goto, AssistantTypes
<1>3. CallsOk'
  BY <1>0, <1>1 DEF CallsOk, CallOk
<1>4. \A d \in Calls : Busy(d)' => Busy(d)
  BY <1>1 DEF Busy
<1>5. Charging' \subseteq Charging
  BY <1>1 DEF Charging
<1>6. Cardinality(Charging') <= Cardinality(Charging) /\ Cardinality(Charging') \in Nat
  BY <1>5, CallsCounted, FS_Subset, FS_CardinalityType
<1>7. ~redisFailed' => QuotaLeft'
  <2> SUFFICES ASSUME ~redisFailed' PROVE QuotaLeft'
    OBVIOUS
  <2>1. QuotaLeft
    BY DEF AssistantInv
  <2>2. day \in 0..Days /\ served[day] \in Nat /\ DailyLimit \in Nat
    BY <1>0, AssistantAssumption DEF AssistantTypes
  <2>3. served[day] + Cardinality(Charging') < DailyLimit + Cardinality(Calls)
    BY <1>6, <2>1, <2>2, CallsCounted DEF QuotaLeft
  <2>4. QED
    BY <1>5, <2>1, <2>3 DEF QuotaLeft
<1>8. QED
  BY <1>0, <1>2, <1>3, <1>4, <1>7 DEF AssistantInv, Future, OneAtATime
(* What the rules alone come to, whatever the quota says.                  *)
LEMMA RulesAnswer ==
  ASSUME NEW k, k.text \in Messages, k.unlimited \in BOOLEAN, NEW useModel \in BOOLEAN, NEW n \in Nat
  PROVE  /\ ByRules(k, useModel, n) \in CallStates /\ ~Free(ByRules(k, useModel, n))
         /\ ByRules(k, useModel, n).at = "reply" /\ ByRules(k, useModel, n).text = k.text
         /\ ByRules(k, useModel, n).reply \in {"unknown", "quota"} =>
              Understood[k.text].intent = "UNKNOWN"
         /\ ByRules(k, useModel, n).reply # "model"
         /\ ByRules(k, useModel, n).reply = "quota" => ~k.unlimited /\ ~useModel /\ n >= DailyLimit
<1>1. PICK reply : reply = ByRules(k, useModel, n).reply
  OBVIOUS
<1>2. ByRules(k, useModel, n) = [at |-> "reply", text |-> k.text, reply |-> reply]
  BY <1>1 DEF ByRules
<1>3. /\ reply \in {"rule", "quota", "unknown"}
      /\ reply \in {"unknown", "quota"} => Understood[k.text].intent = "UNKNOWN"
      /\ reply = "quota" => ~k.unlimited /\ ~useModel /\ n >= DailyLimit
  BY <1>1 DEF ByRules
<1>4. [at |-> "reply", text |-> k.text, reply |-> reply] \in CallStates
  BY <1>3 DEF CallStates
<1>5. QED
  BY <1>2, <1>3, <1>4 DEF Free

(* A text that has been read or heard goes to the rules, or something      *)
(* threw before.                                                           *)
LEMMA Apologised == Apology \in CallStates /\ CallOk(Apology) /\ ~Free(Apology)
BY DEF Apology, CallStates, CallOk, Free

LEMMA ParseForUserGoes ==
  ASSUME NEW c \in Calls, ParseForUser(c)
  PROVE  \E new \in CallStates : Goto(c, new) /\ CallOk(new) /\ ~Free(new)
<1>1. CASE Goto(c, Apology)
  BY <1>1, Apologised
<1>2. ASSUME NEW text \in Messages, NEW unlimited \in BOOLEAN, Goto(c, Parsing(text, unlimited))
      PROVE  \E new \in CallStates : Goto(c, new) /\ CallOk(new) /\ ~Free(new)
  <2>1. PICK new : new = Parsing(text, unlimited)
    OBVIOUS
  <2>2. new \in CallStates /\ new.at = "usage"
    BY <2>1 DEF Parsing, CallStates
  <2>3. CallOk(new) /\ ~Free(new)
    BY <2>2 DEF CallOk, Free
  <2>4. QED
    BY <1>2, <2>1, <2>2, <2>3
<1>3. QED
  BY <1>1, <1>2 DEF ParseForUser

LEMMA ReadConversationKeeps ==
  ASSUME AssistantInv, NEW c \in Calls, ReadConversation(c)
  PROVE  AssistantInv'
<1>1. /\ Busy(c) /\ UNCHANGED <<day, used, served, overlapped, redisAway, redisFailed>>
      /\ ParseForUser(c)
  BY DEF ReadConversation, Busy
<1>2. PICK new \in CallStates : Goto(c, new) /\ CallOk(new) /\ ~Free(new)
  BY <1>1, ParseForUserGoes
<1>3. redisFailed' \in BOOLEAN
  BY <1>1 DEF AssistantInv, AssistantTypes
<1>4. QED
  BY <1>1, <1>2, <1>3, GotoKeeps

LEMMA DownloadKeeps ==
  ASSUME AssistantInv, NEW c \in Calls, Download(c)
  PROVE  AssistantInv'
<1>1. /\ Busy(c) /\ UNCHANGED <<day, used, served, overlapped, redisAway, redisFailed>>
      /\ Goto(c, [at |-> "hear", service |-> 1]) \/ Goto(c, Apology)
      /\ Speech # <<>>
  BY DEF Download, Busy, AssistantInv, CallsOk, CallOk
<1>2. PICK new : new = [at |-> "hear", service |-> 1]
  OBVIOUS
<1>3. 1 \in 1..Len(Speech)
  BY <1>1, AssistantAssumption
<1>4. new \in CallStates /\ CallOk(new) /\ ~Free(new)
  BY <1>2, <1>3 DEF CallStates, CallOk, Free
<1>5. redisFailed' \in BOOLEAN
  BY <1>1 DEF AssistantInv, AssistantTypes
<1>6. QED
  BY <1>1, <1>2, <1>4, <1>5, Apologised, GotoKeeps

LEMMA HearKeeps ==
  ASSUME AssistantInv, NEW c \in Calls, Hear(c)
  PROVE  AssistantInv'
<1>0. AssistantTypes /\ call[c] \in CallStates
  BY DEF AssistantInv, AssistantTypes
<1>1. /\ call[c].at = "hear" /\ Busy(c)
      /\ UNCHANGED <<day, used, served, overlapped, redisAway, redisFailed>>
  BY DEF Hear, Busy
<1>2. PICK n \in 1..Len(Speech) : call[c] = [at |-> "hear", service |-> n]
  BY <1>0, <1>1, CallFields
<1>3. PICK next : next = [at |-> "hear", service |-> n + 1]
  OBVIOUS
<1>4. call[c].service = n /\ [call[c] EXCEPT !.service = n + 1] = next
  BY <1>2, <1>3
<1>5. \/ ParseForUser(c)
      \/ Goto(c, Apology)
      \/ n < Len(Speech) /\ Goto(c, next)
  BY <1>4 DEF Hear, HasBackup
<1>6. n < Len(Speech) => next \in CallStates /\ CallOk(next) /\ ~Free(next)
  <2>1. Len(Speech) \in Nat
    BY AssistantAssumption
  <2>2. QED
    BY <1>3, <2>1 DEF CallStates, CallOk, Free
<1>7. PICK new \in CallStates : Goto(c, new) /\ CallOk(new) /\ ~Free(new)
  BY <1>5, <1>6, Apologised, ParseForUserGoes
<1>8. redisFailed' \in BOOLEAN
  BY <1>0, <1>1 DEF AssistantTypes
<1>9. QED
  BY <1>1, <1>7, <1>8, GotoKeeps

LEMMA AskKeeps ==
  ASSUME AssistantInv, NEW c \in Calls, AskModel(c)
  PROVE  AssistantInv'
<1>0. AssistantTypes /\ call[c] \in CallStates /\ CallOk(call[c])
  BY DEF AssistantInv, AssistantTypes, CallsOk
<1>1. /\ call[c].at = "model" /\ Busy(c)
      /\ UNCHANGED <<day, used, served, overlapped, redisAway, redisFailed>>
  BY DEF AskModel, Busy
<1>2. PICK k : k = call[c]
  OBVIOUS
<1>3. /\ k.text \in Messages /\ k.unlimited \in BOOLEAN /\ k.model \in 1..Models
      /\ k = [at |-> "model", text |-> k.text, unlimited |-> k.unlimited, model |-> k.model]
      /\ k.at = "model" /\ ~Sure(Understood[k.text])
  BY <1>0, <1>1, <1>2, CallFields DEF CallOk
<1>4. PICK byRules : byRules = ByRules(k, TRUE, 0)
  OBVIOUS
<1>5. /\ byRules \in CallStates /\ ~Free(byRules) /\ byRules.at = "reply" /\ byRules.text = k.text
      /\ byRules.reply \in {"unknown", "quota"} => Understood[k.text].intent = "UNKNOWN"
      /\ byRules.reply # "model" /\ byRules.reply # "quota"
  BY <1>3, <1>4, RulesAnswer
<1> DEFINE charged(reply) ==
             [at |-> IF k.unlimited THEN "reply" ELSE "charge", text |-> k.text, reply |-> reply]
<1>7. PICK response \in ModelResponses :
        \/ NextModel(k.model, response) /\ Goto(c, [k EXCEPT !.model = 3 - @])
        \/ Goto(c, charged("model"))
        \/ byRules.reply = "unknown" /\ Goto(c, charged("unknown"))
        \/ Goto(c, byRules)
  BY <1>2, <1>4 DEF AskModel
<1>8. /\ charged("model") \in CallStates /\ charged("unknown") \in CallStates
  BY <1>3 DEF CallStates
<1>9. /\ CallOk(charged("model"))
      /\ byRules.reply = "unknown" => CallOk(charged("unknown"))
  BY <1>3, <1>5 DEF CallOk
<1>10. CallOk(byRules)
  BY <1>5 DEF CallOk
<1>11. redisFailed' \in BOOLEAN
  BY <1>0, <1>1 DEF AssistantTypes
<1>12. CASE NextModel(k.model, response) /\ Goto(c, [k EXCEPT !.model = 3 - @])
  <2>1. k.model < Models /\ 3 - k.model \in 1..Models
    BY <1>3, <1>12, ModelsAreFew DEF NextModel
  <2>2. PICK new : new = [at |-> "model", text |-> k.text, unlimited |-> k.unlimited, model |-> 3 - k.model]
    OBVIOUS
  <2>3. new = [k EXCEPT !.model = 3 - @]
    BY <1>3, <2>2
  <2>4. new \in CallStates
    BY <1>3, <2>1, <2>2 DEF CallStates
  <2>5. CallOk(new) /\ (Free(new) => Free(call[c]))
    BY <1>2, <1>3, <2>2 DEF CallOk, Free
  <2>6. QED
    BY <1>1, <1>11, <1>12, <2>3, <2>4, <2>5, GotoKeeps
<1>13. ASSUME NEW reply \in {"model", "unknown"}, Goto(c, charged(reply)), charged(reply) \in CallStates,
              CallOk(charged(reply))
       PROVE  AssistantInv'
  <2>1. Free(charged(reply)) => Free(call[c])
    BY <1>2, <1>3 DEF Free
  <2>2. QED
    BY <1>1, <1>11, <1>13, <2>1, GotoKeeps
<1>14. CASE Goto(c, byRules)
  BY <1>1, <1>5, <1>10, <1>11, <1>14, GotoKeeps
<1>15. QED
  BY <1>7, <1>8, <1>9, <1>12, <1>13, <1>14
(* The check of the quota.  Only a free call that finds it unused is let   *)
(* past it.                                                                *)
LEMMA InterpretKeeps ==
  ASSUME AssistantInv, NEW c \in Calls, NEW fails \in BOOLEAN, Interpret(c, fails)
  PROVE  AssistantInv'
<1>0. AssistantTypes /\ CallsOk /\ Future /\ call[c] \in CallStates
  BY DEF AssistantInv, AssistantTypes
<1>1. /\ call[c].at = "usage" /\ Busy(c)
      /\ UNCHANGED <<day, used, served, overlapped, redisAway>>
      /\ redisFailed' = (redisFailed \/ fails)
      /\ redisFailed' \in BOOLEAN
  BY <1>0 DEF Interpret, Busy, AssistantTypes
<1>2. PICK k : k = call[c]
  OBVIOUS
<1>3. k.text \in Messages /\ k.unlimited \in BOOLEAN /\ (fails => ~k.unlimited)
  BY <1>0, <1>1, <1>2, CallFields DEF Interpret
<1>4. PICK n : n = IF fails \/ k.unlimited THEN 0 ELSE used[day]
  OBVIOUS
<1>5. n \in Nat /\ used[day] \in Nat /\ day \in 0..Days /\ DailyLimit \in Nat
  BY <1>0, <1>4, AssistantAssumption DEF AssistantTypes
<1>6. PICK useModel \in BOOLEAN : useModel = MayUseModel(k.unlimited, n)
  BY DEF MayUseModel
<1>7. PICK asked : asked = [at |-> "model", text |-> k.text, unlimited |-> k.unlimited, model |-> 1]
  OBVIOUS
<1>8. \/ Goto(c, asked) /\ useModel /\ ~Sure(Understood[k.text])
      \/ Goto(c, ByRules(k, useModel, n))
  BY <1>2, <1>4, <1>6, <1>7 DEF Interpret
<1>9. CASE Goto(c, ByRules(k, useModel, n))
  <2>1. PICK new : new = ByRules(k, useModel, n)
    OBVIOUS
  <2>2. /\ new \in CallStates /\ ~Free(new) /\ new.at = "reply" /\ new.text = k.text
        /\ new.reply \in {"unknown", "quota"} => Understood[k.text].intent = "UNKNOWN"
        /\ new.reply # "model"
        /\ new.reply = "quota" => ~k.unlimited /\ n >= DailyLimit
    BY <1>3, <1>5, <2>1, RulesAnswer
  <2>3. new.reply = "quota" => \E d \in 0..day : used[d] >= DailyLimit
    <3>1. ASSUME new.reply = "quota" PROVE used[day] >= DailyLimit
      BY <1>4, <1>5, <2>2, <3>1
    <3>2. day \in 0..day
      BY <1>5, AssistantAssumption
    <3>3. QED
      BY <3>1, <3>2
  <2>4. CallOk(new)
    BY <2>2, <2>3 DEF CallOk
  <2>5. QED
    BY <1>1, <1>9, <2>1, <2>2, <2>4, GotoKeeps
<1>10. CASE Goto(c, asked) /\ useModel /\ ~Sure(Understood[k.text])
  <2>1. 1 \in 1..Models
    <3>1. Models > 0
      BY <1>6, <1>10 DEF MayUseModel
    <3>2. QED
      BY <3>1, ModelsAreFew
  <2>2. asked \in CallStates
    BY <1>3, <1>7, <2>1 DEF CallStates
  <2>3. CallOk(asked)
    BY <1>7, <1>10 DEF CallOk
  <2>4. CASE k.unlimited
    <3>1. ~Free(asked)
      BY <1>7, <2>4 DEF Free
    <3>2. QED
      BY <1>1, <1>10, <2>2, <2>3, <3>1, GotoKeeps
  <2>5. CASE ~k.unlimited
    <3>1. call'[c] = asked /\ \A d \in Calls : d # c => call'[d] = call[d]
      BY <1>0, <1>10 DEF Goto, AssistantTypes
    <3>2. AssistantTypes'
      BY <1>0, <1>1, <1>10, <2>2 DEF Goto, AssistantTypes
    <3>3. CallsOk'
      BY <1>0, <1>1, <2>3, <3>1 DEF CallsOk, CallOk
    <3>4. \A d \in Calls : Busy(d)' => Busy(d)
      BY <1>1, <3>1 DEF Busy
    <3>5. ~redisFailed' => QuotaLeft'
      <4> SUFFICES ASSUME ~redisFailed' PROVE QuotaLeft'
        OBVIOUS
      <4>1. QuotaLeft /\ ~fails
        BY <1>1 DEF AssistantInv
      <4>2. served[day] < DailyLimit /\ served[day] \in Nat /\ DailyLimit > 0
        <5>1. n = used[day] /\ n < DailyLimit
          BY <1>4, <1>6, <1>10, <2>5, <4>1 DEF MayUseModel
        <5>2. served[day] \in Nat /\ served[day] <= used[day]
          BY <1>0, <1>5, <4>1 DEF AssistantTypes, QuotaLeft
        <5>3. QED
          BY <1>5, <5>1, <5>2
      <4>3. Charging' \subseteq Calls /\ IsFiniteSet(Calls)
        BY AssistantAssumption DEF Charging
      <4>4. Cardinality(Charging') \in Nat /\ Cardinality(Charging') <= Cardinality(Calls)
        BY <4>3, FS_Subset, FS_CardinalityType
      <4>5. served[day] + Cardinality(Charging') < DailyLimit + Cardinality(Calls)
        BY <1>5, <4>2, <4>4, CallsCounted
      <4>6. QED
        BY <1>1, <4>1, <4>2, <4>5 DEF QuotaLeft
    <3>6. QED
      BY <1>0, <1>1, <3>2, <3>3, <3>4, <3>5 DEF AssistantInv, Future, OneAtATime
  <2>6. QED
    BY <1>3, <2>4, <2>5
<1>11. QED
  BY <1>8, <1>9, <1>10

(* Counting on one day leaves the other days alone.                        *)
LEMMA CountedOn ==
  ASSUME NEW counts \in [0..Days -> Nat], NEW d \in 0..Days
  PROVE  LET next == [counts EXCEPT ![d] = @ + 1]
         IN  /\ next \in [0..Days -> Nat] /\ next[d] = counts[d] + 1
             /\ \A e \in 0..Days : e # d => next[e] = counts[e]
<1>1. counts[d] \in Nat /\ counts[d] + 1 \in Nat
  OBVIOUS
<1>2. QED
  BY <1>1

(* A day's counter that only grows blames the quota no less.               *)
LEMMA UsedGrows ==
  ASSUME AssistantTypes, day' = day, \A d \in 0..Days : used'[d] \in Nat /\ used'[d] >= used[d],
         NEW l, CallOk(l)
  PROVE  CallOk(l)'
<1>1. /\ used \in [0..Days -> Nat] /\ day \in 0..Days /\ DailyLimit \in Nat /\ Days \in Nat
  BY AssistantAssumption DEF AssistantTypes
<1>2. ASSUME NEW d \in 0..day, used[d] >= DailyLimit PROVE used'[d] >= DailyLimit
  <2>1. d \in 0..Days
    BY <1>1
  <2>2. used'[d] \in Nat /\ used[d] \in Nat /\ used'[d] >= used[d]
    BY <1>1, <2>1
  <2>3. QED
    BY <1>1, <1>2, <2>2
<1>3. QED
  BY <1>2 DEF CallOk

LEMMA ChargeKeeps ==
  ASSUME AssistantInv, NEW c \in Calls, NEW fails \in BOOLEAN, Charge(c, fails)
  PROVE  AssistantInv'
<1>0. AssistantTypes /\ CallsOk /\ Future /\ call[c] \in CallStates /\ CallOk(call[c])
  BY DEF AssistantInv, AssistantTypes, CallsOk
<1>1. /\ call[c].at = "charge" /\ Busy(c)
      /\ UNCHANGED <<day, overlapped, redisAway>>
      /\ redisFailed' = (redisFailed \/ fails)
      /\ redisFailed' \in BOOLEAN
  BY <1>0 DEF Charge, Busy, AssistantTypes
<1>2. PICK k : k = call[c]
  OBVIOUS
<1>3. k.text \in Messages /\ k.reply \in {"model", "unknown"} /\ k.at = "charge"
  BY <1>0, <1>1, <1>2, CallFields
<1>4. PICK place : place = IF ~fails /\ used'[day] = 1 THEN "expire" ELSE "reply"
  OBVIOUS
<1>5. PICK new : new = [at |-> place, text |-> k.text, reply |-> k.reply]
  OBVIOUS
<1>6. place \in {"expire", "reply"} /\ Goto(c, new) /\ new \in CallStates /\ ~Free(new)
  BY <1>2, <1>3, <1>4, <1>5 DEF Charge, CallStates, Free
<1>7. CallOk(new)
  BY <1>0, <1>2, <1>3, <1>5, <1>6 DEF CallOk
<1>8. /\ used' = IF fails THEN used ELSE [used EXCEPT ![day] = @ + 1]
      /\ served' = [served EXCEPT ![day] = @ + 1]
  BY DEF Charge
<1>9. /\ used \in [0..Days -> Nat] /\ served \in [0..Days -> Nat] /\ day \in 0..Days
      /\ DailyLimit \in Nat /\ Days \in Nat
  BY <1>0, AssistantAssumption DEF AssistantTypes
<1>10. /\ served'[day] = served[day] + 1 /\ (~fails => used'[day] = used[day] + 1)
       /\ \A d \in 0..Days : d # day => served'[d] = served[d] /\ used'[d] = used[d]
       /\ \A d \in 0..Days : used'[d] \in Nat /\ used[d] \in Nat /\ used'[d] >= used[d]
       /\ used' \in [0..Days -> Nat] /\ served' \in [0..Days -> Nat]
  <2>1. used[day] \in Nat /\ served[day] \in Nat
    BY <1>9
  <2>2. /\ used' \in [0..Days -> Nat] /\ served' \in [0..Days -> Nat]
        /\ served'[day] = served[day] + 1 /\ (~fails => used'[day] = used[day] + 1)
        /\ used'[day] \in {used[day], used[day] + 1}
        /\ \A d \in 0..Days : d # day => served'[d] = served[d] /\ used'[d] = used[d]
    <3>1. /\ served' \in [0..Days -> Nat] /\ served'[day] = served[day] + 1
          /\ \A d \in 0..Days : d # day => served'[d] = served[d]
      BY <1>8, <1>9, CountedOn
    <3>2. CASE fails
      BY <1>8, <1>9, <3>1, <3>2
    <3>3. CASE ~fails
      <4>1. /\ used' \in [0..Days -> Nat] /\ used'[day] = used[day] + 1
            /\ \A d \in 0..Days : d # day => used'[d] = used[d]
        BY <1>8, <1>9, <3>3, CountedOn
      <4>2. QED
        BY <3>1, <4>1
    <3>4. QED
      BY <3>2, <3>3
  <2>3. ASSUME NEW d \in 0..Days PROVE used'[d] \in Nat /\ used[d] \in Nat /\ used'[d] >= used[d]
    <3>1. used[d] \in Nat
      BY <1>9
    <3>2. CASE d = day
      BY <2>1, <2>2, <3>2
    <3>3. CASE d # day
      BY <2>2, <3>1, <3>3
    <3>4. QED
      BY <3>2, <3>3
  <2>4. QED
    BY <2>2, <2>3
<1>11. call'[c] = new /\ \A d \in Calls : d # c => call'[d] = call[d]
  BY <1>0, <1>6 DEF Goto, AssistantTypes
<1>12. AssistantTypes'
  BY <1>0, <1>1, <1>6, <1>10 DEF Goto, AssistantTypes
<1>13. CallsOk'
  <2> SUFFICES ASSUME NEW d \in Calls PROVE CallOk(call[d])'
    BY DEF CallsOk
  <2>1. PICK l : l = call'[d] /\ CallOk(l)
    BY <1>0, <1>7, <1>11 DEF CallsOk
  <2>2. CallOk(l)'
    BY <1>0, <1>1, <1>10, <2>1, UsedGrows
  <2>3. QED
    BY <2>1, <2>2 DEF CallOk
<1>14. \A d \in Calls : Busy(d)' => Busy(d)
  BY <1>1, <1>11 DEF Busy
<1>15. Future'
  BY <1>0, <1>1, <1>9, <1>10, SMTT(20) DEF Future
<1>16. c \in Charging /\ Charging' = Charging \ {c}
  BY <1>2, <1>3, <1>6, <1>8, <1>11 DEF Charging, Free
<1>17. Cardinality(Charging') = Cardinality(Charging) - 1
  BY <1>16, CallsCounted, FS_RemoveElement
<1>18. ~redisFailed' => QuotaLeft'
  <2> SUFFICES ASSUME ~redisFailed' PROVE QuotaLeft'
    OBVIOUS
  <2>1. QuotaLeft /\ ~fails
    BY <1>1 DEF AssistantInv
  <2>2. served'[day] + Cardinality(Charging') < DailyLimit + Cardinality(Calls)
    BY <1>9, <1>10, <1>17, <2>1, CallsCounted, SMTT(20) DEF QuotaLeft
  <2>3. Cardinality(Charging') \in Nat
    BY <1>16, CallsCounted, FS_RemoveElement, FS_CardinalityType
  <2>4. \A d \in 0..Days : served'[d] <= used'[d] /\ served'[d] < DailyLimit + Cardinality(Calls)
    <3> SUFFICES ASSUME NEW d \in 0..Days
                 PROVE  served'[d] <= used'[d] /\ served'[d] < DailyLimit + Cardinality(Calls)
      OBVIOUS
    <3>1. CASE d = day
      <4>1. served'[day] <= used'[day]
        <5>1. served[day] \in Nat /\ used[day] \in Nat /\ served[day] <= used[day]
          BY <1>9, <2>1 DEF QuotaLeft
        <5>2. QED
          BY <1>10, <2>1, <5>1
      <4>2. served'[day] \in Nat
        BY <1>9, <1>10
      <4>3. served'[day] < DailyLimit + Cardinality(Calls)
        BY <1>9, <2>2, <2>3, <4>2, CallsCounted, SMTT(20)
      <4>4. QED
        BY <3>1, <4>1, <4>3
    <3>2. CASE d # day
      BY <1>10, <2>1, <3>2 DEF QuotaLeft
    <3>3. QED
      BY <3>1, <3>2
  <2>5. Charging' # {} => DailyLimit > 0
    BY <1>16, <2>1 DEF QuotaLeft
  <2>6. ASSUME ~overlapped PROVE /\ \A d \in 0..Days : served'[d] <= DailyLimit
                                 /\ Charging' = {}
    <3>1. served[day] < DailyLimit /\ \A d \in 0..Days : served[d] <= DailyLimit
      BY <1>16, <2>1, <2>6 DEF QuotaLeft
    <3>2. \A d \in Calls : Busy(d) => d = c
      BY <1>1, <2>6 DEF AssistantInv, OneAtATime
    <3>3. \A d \in Charging : Busy(d) /\ d \in Calls
      BY DEF Charging, Free, Busy
    <3>4. Charging' = {}
      BY <1>16, <3>2, <3>3
    <3>5. ASSUME NEW d \in 0..Days PROVE served'[d] <= DailyLimit
      <4>1. served[day] \in Nat /\ served'[day] = served[day] + 1 /\ DailyLimit \in Nat
        BY <1>9, <1>10
      <4>2. CASE d = day
        BY <3>1, <4>1, <4>2
      <4>3. CASE d # day
        BY <1>10, <3>1, <4>3
      <4>4. QED
        BY <4>2, <4>3
    <3>6. QED
      BY <3>4, <3>5
  <2>7. QED
    BY <1>1, <2>2, <2>4, <2>5, <2>6 DEF QuotaLeft
<1>19. QED
  BY <1>1, <1>12, <1>13, <1>14, <1>15, <1>18 DEF AssistantInv, OneAtATime

LEMMA BeginKeeps ==
  ASSUME AssistantInv, NEW c \in Calls, NEW new \in CallStates, Begin(c, new),
         new.at \in {"conversation", "download", "reply"},
         new.at = "reply" => new.reply = "apology", new.at = "download" => Speech # <<>>
  PROVE  AssistantInv'
<1>0. AssistantTypes /\ CallsOk /\ Future
  BY DEF AssistantInv, AssistantTypes
<1>1. /\ ~Busy(c) /\ Goto(c, new) /\ overlapped' = (overlapped \/ Others(c))
      /\ UNCHANGED <<day, used, served, redisAway, redisFailed>>
  BY DEF Begin
<1>2. call'[c] = new /\ \A d \in Calls : d # c => call'[d] = call[d]
  BY <1>0, <1>1 DEF Goto, AssistantTypes
<1>3. AssistantTypes'
  BY <1>0, <1>1 DEF Goto, AssistantTypes
<1>4. CallOk(new) /\ ~Free(new)
  BY DEF CallOk, Free
<1>5. CallsOk'
  BY <1>0, <1>1, <1>2, <1>4 DEF CallsOk, CallOk
<1>6. Charging' = Charging
  BY <1>1, <1>2, <1>4 DEF Charging, Free, Busy
<1>7. redisFailed' \/ QuotaLeft'
  BY <1>1, <1>6 DEF QuotaLeft, AssistantInv
<1>8. ~overlapped' => OneAtATime'
  <2> SUFFICES ASSUME ~overlapped' PROVE OneAtATime'
    OBVIOUS
  <2>1. \A d \in Calls \ {c} : ~Busy(d)
    BY <1>1 DEF Others
  <2>2. \A d \in Calls : Busy(d)' => d = c
    BY <1>2, <2>1 DEF Busy
  <2>3. QED
    BY <2>2 DEF OneAtATime
<1>9. QED
  BY <1>0, <1>1, <1>3, <1>5, <1>7, <1>8 DEF AssistantInv, Future

(* The steps that only go on from one await to the next.                   *)
LEMMA ExpireKeeps ==
  ASSUME AssistantInv, NEW c \in Calls, Expire(c)
  PROVE  AssistantInv'
<1>0. call[c] \in CallStates /\ CallOk(call[c]) /\ redisFailed \in BOOLEAN
  BY DEF AssistantInv, AssistantTypes, CallsOk
<1>1. /\ call[c].at = "expire" /\ Busy(c)
      /\ UNCHANGED <<day, used, served, overlapped, redisAway, redisFailed>>
      /\ Goto(c, [call[c] EXCEPT !.at = "reply"])
  BY DEF Expire, Busy
<1>2. PICK k : k = call[c]
  OBVIOUS
<1>3. /\ k.text \in Messages /\ k.reply \in {"model", "unknown"}
      /\ k = [at |-> "expire", text |-> k.text, reply |-> k.reply]
  BY <1>0, <1>1, <1>2, CallFields
<1>4. PICK new : new = [at |-> "reply", text |-> k.text, reply |-> k.reply]
  OBVIOUS
<1>5. Goto(c, new) /\ new \in CallStates /\ ~Free(new)
  BY <1>1, <1>2, <1>3, <1>4 DEF CallStates, Free
<1>6. CallOk(new)
  BY <1>0, <1>1, <1>2, <1>3, <1>4 DEF CallOk
<1>7. QED
  BY <1>0, <1>1, <1>5, <1>6, GotoKeeps

LEMMA ReplyKeeps ==
  ASSUME AssistantInv, NEW c \in Calls, Reply(c) \/ Save(c)
  PROVE  AssistantInv'
<1>1. PICK saving : saving = [at |-> "save"]
  OBVIOUS
<1>2. /\ Busy(c) /\ UNCHANGED <<day, used, served, overlapped, redisAway, redisFailed>>
      /\ Goto(c, Idle) \/ Goto(c, saving)
  BY <1>1 DEF Reply, Save, Busy
<1>3. /\ Idle \in CallStates /\ CallOk(Idle) /\ ~Free(Idle)
      /\ saving \in CallStates /\ CallOk(saving) /\ ~Free(saving)
  BY <1>1 DEF CallStates, CallOk, Free, Idle
<1>4. redisFailed' \in BOOLEAN
  BY <1>2 DEF AssistantInv, AssistantTypes
<1>5. QED
  BY <1>2, <1>3, <1>4, GotoKeeps

LEMMA NextDayKeeps ==
  ASSUME AssistantInv, NextDay
  PROVE  AssistantInv'
<1>0. AssistantTypes /\ CallsOk /\ Future
  BY DEF AssistantInv
<1>1. /\ day' = day + 1 /\ day < Days /\ day \in 0..Days /\ Days \in Nat /\ DailyLimit \in Nat
      /\ UNCHANGED <<used, call, served, overlapped, redisAway, redisFailed>>
  BY <1>0, AssistantAssumption DEF NextDay, AssistantTypes
<1>2. day' \in 0..Days /\ day' > day /\ \A d \in 0..day : d \in 0..day'
  BY <1>1
<1>3. AssistantTypes'
  BY <1>0, <1>1, <1>2 DEF AssistantTypes
<1>4. CallsOk'
  BY <1>0, <1>1, <1>2 DEF CallsOk, CallOk
<1>5. Future'
  BY <1>0, <1>1 DEF Future
<1>6. Charging' = Charging
  BY <1>1 DEF Charging
<1>7. QuotaLeft => QuotaLeft'
  <2> SUFFICES ASSUME QuotaLeft PROVE QuotaLeft'
    OBVIOUS
  <2>1. served[day'] = 0
    BY <1>0, <1>2 DEF Future
  <2>2. Charging # {} => DailyLimit > 0
    BY DEF QuotaLeft
  <2>3. 0 + Cardinality(Charging) < DailyLimit + Cardinality(Calls)
    <3>1. CASE Charging = {}
      BY <1>1, <3>1, CallsCounted
    <3>2. CASE Charging # {}
      BY <1>1, <2>2, <3>2, CallsCounted
    <3>3. QED
      BY <3>1, <3>2
  <2>4. QED
    BY <1>1, <1>6, <2>1, <2>2, <2>3 DEF QuotaLeft
<1>8. OneAtATime => OneAtATime'
  BY <1>1 DEF OneAtATime, Busy
<1>9. QED
  BY <1>1, <1>3, <1>4, <1>5, <1>7, <1>8 DEF AssistantInv

LEMMA DieKeeps ==
  ASSUME AssistantInv, Die
  PROVE  AssistantInv'
<1>0. AssistantTypes /\ CallsOk /\ Future
  BY DEF AssistantInv
<1>1. /\ call' = [c \in Calls |-> Idle]
      /\ UNCHANGED <<day, used, served, overlapped, redisAway, redisFailed>>
  BY DEF Die
<1>2. AssistantTypes'
  BY <1>0, <1>1 DEF AssistantTypes, CallStates
<1>3. CallsOk' /\ OneAtATime' /\ Charging' = {} /\ Future'
  BY <1>0, <1>1 DEF CallsOk, CallOk, OneAtATime, Busy, Charging, Free, Idle, Future
<1>4. QuotaLeft => QuotaLeft'
  <2> SUFFICES ASSUME QuotaLeft PROVE QuotaLeft'
    OBVIOUS
  <2>1. Cardinality(Charging') = 0
    BY <1>3, FS_EmptySet
  <2>2. day \in 0..Days /\ served[day] \in Nat /\ DailyLimit \in Nat
    BY <1>0, AssistantAssumption DEF AssistantTypes
  <2>3. served[day] + Cardinality(Charging') < DailyLimit + Cardinality(Calls)
    BY <2>1, <2>2, CallsCounted DEF QuotaLeft
  <2>4. QED
    BY <1>1, <1>3, <2>3 DEF QuotaLeft
<1>5. QED
  BY <1>1, <1>2, <1>3, <1>4 DEF AssistantInv

(* A sent-again increment only adds to the day's counter.                  *)
LEMMA RedisGoesAwayKeeps ==
  ASSUME AssistantInv, RedisGoesAway
  PROVE  AssistantInv'
<1>0. AssistantTypes /\ CallsOk /\ Future
  BY DEF AssistantInv
<1>1. /\ UNCHANGED <<day, call, served, overlapped, redisFailed>> /\ redisAway' \in BOOLEAN
      /\ used' = used \/ used' = [used EXCEPT ![day] = @ + 1]
  BY DEF RedisGoesAway
<1>2. used \in [0..Days -> Nat] /\ served \in [0..Days -> Nat] /\ day \in 0..Days
  BY <1>0 DEF AssistantTypes
<1>3. /\ used' \in [0..Days -> Nat]
      /\ \A d \in 0..Days : d # day => used'[d] = used[d]
      /\ used'[day] \in {used[day], used[day] + 1}
  BY <1>1, <1>2, CountedOn
<1>4. ASSUME NEW d \in 0..Days PROVE used'[d] \in Nat /\ used[d] \in Nat /\ used'[d] >= used[d]
  <2>1. used'[d] \in Nat /\ used[d] \in Nat /\ used'[d] \in {used[d], used[d] + 1}
    BY <1>2, <1>3
  <2>2. QED
    BY <2>1
<1>5. AssistantTypes'
  BY <1>0, <1>1, <1>3 DEF AssistantTypes
<1>6. CallsOk'
  <2> SUFFICES ASSUME NEW c \in Calls PROVE CallOk(call[c])'
    BY DEF CallsOk
  <2>1. PICK l : l = call[c] /\ CallOk(l)
    BY <1>0 DEF CallsOk
  <2>2. CallOk(l)'
    BY <1>0, <1>1, <1>4, <2>1, UsedGrows
  <2>3. QED
    BY <1>1, <2>1, <2>2 DEF CallOk
<1>7. Future'
  <2> SUFFICES ASSUME NEW d \in 0..Days, d > day PROVE used'[d] = 0 /\ served[d] = 0
    BY <1>1 DEF Future
  <2>1. d # day
    BY <1>2
  <2>2. QED
    BY <1>0, <1>3, <2>1 DEF Future
<1>8. Charging' = Charging
  BY <1>1 DEF Charging
<1>9. QuotaLeft => QuotaLeft'
  <2> SUFFICES ASSUME QuotaLeft PROVE QuotaLeft'
    OBVIOUS
  <2>1. ASSUME NEW d \in 0..Days PROVE served[d] <= used'[d]
    <3>1. served[d] \in Nat /\ served[d] <= used[d]
      BY <1>2 DEF QuotaLeft
    <3>2. QED
      BY <1>4, <3>1
  <2>2. QED
    BY <1>1, <1>8, <2>1 DEF QuotaLeft
<1>10. OneAtATime => OneAtATime'
  BY <1>1 DEF OneAtATime, Busy
<1>11. QED
  BY <1>1, <1>5, <1>6, <1>7, <1>9, <1>10 DEF AssistantInv

LEMMA RedisReturnsKeeps ==
  ASSUME AssistantInv, RedisReturns
  PROVE  AssistantInv'
<1>1. UNCHANGED <<day, used, call, served, overlapped, redisFailed>> /\ redisAway' \in BOOLEAN
  BY DEF RedisReturns
<1>2. AssistantTypes'
  BY <1>1 DEF AssistantInv, AssistantTypes
<1>3. QED
  BY <1>1, <1>2 DEF AssistantInv, CallsOk, CallOk, Future, QuotaLeft, Charging, OneAtATime, Busy

LEMMA AssistantSteps == AssistantInv /\ [AssistantNext]_assistantVars => AssistantInv'
<1> SUFFICES ASSUME AssistantInv, [AssistantNext]_assistantVars PROVE AssistantInv'
  OBVIOUS
<1>1. ASSUME NEW c \in Calls, NEW new, Begin(c, new),
             new = Apology \/ new.at = "conversation" \/ (new.at = "download" /\ Speech # <<>>),
             new \in CallStates
      PROVE  AssistantInv'
  <2>1. /\ new.at \in {"conversation", "download", "reply"}
        /\ new.at = "reply" => new.reply = "apology"
        /\ new.at = "download" => Speech # <<>>
    BY <1>1 DEF Apology
  <2>2. QED
    BY <1>1, <2>1, BeginKeeps
<1>2. ASSUME NEW c \in Calls, Say(c) PROVE AssistantInv'
  <2>1. PICK new : new = [at |-> "conversation"]
    OBVIOUS
  <2>2. new \in CallStates /\ new.at = "conversation"
    BY <2>1 DEF CallStates
  <2>3. QED
    BY <1>1, <1>2, <2>1, <2>2 DEF Say
<1>3. ASSUME NEW c \in Calls, NEW tooLong \in BOOLEAN, SendVoice(c, tooLong) PROVE AssistantInv'
  <2>1. PICK download : download = [at |-> "download"]
    OBVIOUS
  <2>2. download \in CallStates /\ download.at = "download"
    BY <2>1 DEF CallStates
  <2>3. CASE tooLong \/ Speech = <<>>
    <3>1. Begin(c, Apology)
      BY <1>3, <2>3 DEF SendVoice
    <3>2. QED
      BY <1>1, <3>1, Apologised
  <2>4. CASE ~(tooLong \/ Speech = <<>>)
    <3>1. Begin(c, download)
      BY <1>3, <2>1, <2>4 DEF SendVoice
    <3>2. QED
      BY <1>1, <2>2, <2>4, <3>1
  <2>5. QED
    BY <2>3, <2>4
<1>4. CASE UNCHANGED assistantVars
  BY <1>4 DEF assistantVars, AssistantInv, AssistantTypes, CallsOk, CallOk, Future, QuotaLeft,
     Charging, OneAtATime, Busy
<1>5. QED
  BY <1>2, <1>3, <1>4, ReadConversationKeeps, DownloadKeeps, HearKeeps, InterpretKeeps, AskKeeps,
     ChargeKeeps, ExpireKeeps, ReplyKeeps, DieKeeps, NextDayKeeps, RedisGoesAwayKeeps,
     RedisReturnsKeeps DEF AssistantNext, Step

(* While Redis answers, a day's quota is exceeded by no more than the      *)
(* calls that were under way together, for any number of calls and days,   *)
(* any limit and any services; and not at all when calls do not overlap.   *)
THEOREM QuotaHolds == AssistantSpec => []QuotaKept
<1>1. AssistantInv => QuotaKept
  BY DEF AssistantInv, QuotaLeft, QuotaKept
<1>2. QED
  BY <1>1, AssistantStart, AssistantSteps, PTL DEF AssistantSpec

(* Whatever the rules make of a message, a model's failure, silence or     *)
(* UNKNOWN never costs the user what they understood, a sure command asks  *)
(* no model, and the quota is only blamed when it was used up.             *)
THEOREM RulesAreNotLost == AssistantSpec => []NothingLostToTheModel
<1>1. AssistantInv => NothingLostToTheModel
  BY DEF AssistantInv, CallsOk, CallOk, NothingLostToTheModel
<1>2. QED
  BY <1>1, AssistantStart, AssistantSteps, PTL DEF AssistantSpec

-----------------------------------------------------------------------------
(* The rate limiter.  A request that is about to set the expiry is alone,  *)
(* and it is there while the key has no expiry and missed none; the        *)
(* counter is ahead of what it let in.                                     *)
LimitTypes ==
  /\ count \in 0..MaxPerWindow + 1 /\ letIn \in 0..MaxPerWindow
  /\ expires \in BOOLEAN /\ missed \in BOOLEAN
  /\ waiting \subseteq Requests
  /\ answer \in [Requests -> {"none", "admitted", "refused"}]

OneSetsExpiry ==
  /\ \A r, s \in waiting : r = s
  /\ waiting # {} => count > 0 /\ ~expires /\ ~missed
  /\ count > 0 /\ ~expires /\ ~missed => waiting # {}

LimitInv ==
  /\ LimitTypes
  /\ OneSetsExpiry
  /\ letIn <= count
  /\ count = 0 => ~expires /\ ~missed

(* A request that is counted is refused when the window has had its fill.  *)
LEMMA CountedKeeps ==
  ASSUME LimitInv, NEW r \in Requests, Counted(r)
  PROVE  /\ LimitInv'
         /\ \A s \in Requests : answer'[s] = "refused" /\ answer[s] # "refused" => count >= MaxPerWindow
<1>0. MaxPerWindow \in Nat \ {0}
  BY RateLimitAssumption
<1>1. /\ count' = (IF count > MaxPerWindow THEN count ELSE count + 1)
      /\ letIn' = (IF count' > MaxPerWindow THEN letIn ELSE letIn + 1)
      /\ UNCHANGED <<expires, missed>>
  BY DEF Counted, Incr, LetIn, Verdict
<1>2. count' \in 0..MaxPerWindow + 1 /\ letIn' \in 0..MaxPerWindow /\ letIn' <= count' /\ count' > 0
  BY <1>0, <1>1 DEF LimitInv, LimitTypes
<1>3. CASE count' = 1
  <2>1. count = 0 /\ waiting' = {r} /\ answer' = answer /\ waiting = {}
    BY <1>0, <1>1, <1>3 DEF Counted, LimitInv, LimitTypes, OneSetsExpiry
  <2>2. QED
    BY <1>1, <1>2, <1>3, <2>1 DEF LimitInv, LimitTypes, OneSetsExpiry
<1>4. CASE count' # 1
  <2>1. count > 0 /\ waiting' = waiting /\ answer' = [answer EXCEPT ![r] = Verdict(count')]
    BY <1>0, <1>1, <1>4 DEF Counted, LimitInv, LimitTypes, OneSetsExpiry, Tell
  <2>2. Verdict(count') \in {"admitted", "refused"} /\ (Verdict(count') = "refused" => count >= MaxPerWindow)
    BY <1>0, <1>1 DEF Verdict, LimitInv, LimitTypes
  <2>3. answer' \in [Requests -> {"none", "admitted", "refused"}]
    BY <2>1, <2>2 DEF LimitInv, LimitTypes
  <2>4. LimitInv'
    BY <1>1, <1>2, <2>1, <2>3 DEF LimitInv, LimitTypes, OneSetsExpiry
  <2>5. \A s \in Requests : answer'[s] = "refused" /\ answer[s] # "refused" => count >= MaxPerWindow
    BY <2>1, <2>2 DEF LimitInv, LimitTypes
  <2>6. QED
    BY <2>4, <2>5
<1>5. QED
  BY <1>3, <1>4

(* Telling a request it is admitted refuses nobody.                        *)
LEMMA AdmittedTells ==
  ASSUME LimitInv, NEW r \in Requests, Tell(r, "admitted")
  PROVE  /\ answer' \in [Requests -> {"none", "admitted", "refused"}]
         /\ \A s \in Requests : answer'[s] = "refused" => answer[s] = "refused"
BY DEF Tell, LimitInv, LimitTypes

LEMMA LimitStep ==
  ASSUME LimitInv, LimitNext
  PROVE  /\ LimitInv'
         /\ \A s \in Requests : answer'[s] = "refused" /\ answer[s] # "refused" => count >= MaxPerWindow
<1>0. MaxPerWindow \in Nat \ {0}
  BY RateLimitAssumption
<1>1. ASSUME NEW r \in Requests, NEW carriedOut \in BOOLEAN, CountTimedOut(r, carriedOut)
      PROVE  LimitInv'
  <2>1. /\ count' = (IF carriedOut /\ count <= MaxPerWindow THEN count + 1 ELSE count)
        /\ missed' = (missed \/ (carriedOut /\ count = 0))
        /\ UNCHANGED <<expires, waiting, letIn>>
    BY <1>0, <1>1 DEF CountTimedOut, Incr, LimitInv, LimitTypes
  <2>2. count' \in 0..MaxPerWindow + 1 /\ letIn' <= count' /\ (count' = 0 => count = 0 /\ ~carriedOut)
    BY <1>0, <2>1 DEF LimitInv, LimitTypes
  <2>3. OneSetsExpiry'
    BY <1>0, <2>1, <2>2 DEF LimitInv, LimitTypes, OneSetsExpiry
  <2>4. LimitTypes'
    BY <1>1, <2>1, <2>2, AdmittedTells DEF LimitInv, LimitTypes, CountTimedOut
  <2>5. QED
    BY <2>1, <2>2, <2>3, <2>4 DEF LimitInv
<1>2. ASSUME NEW r \in Requests, NEW carriedOut \in BOOLEAN, SetExpiry(r, carriedOut)
      PROVE  LimitInv'
  <2>1. /\ waiting = {r} /\ waiting' = {} /\ count > 0 /\ ~expires /\ ~missed
        /\ expires' = carriedOut /\ missed' = ~carriedOut
        /\ UNCHANGED <<count, letIn>>
    BY <1>2 DEF SetExpiry, LimitInv, LimitTypes, OneSetsExpiry
  <2>2. LimitTypes'
    BY <1>2, <2>1, AdmittedTells DEF LimitInv, LimitTypes, SetExpiry
  <2>3. OneSetsExpiry'
    BY <2>1 DEF OneSetsExpiry
  <2>4. QED
    BY <2>1, <2>2, <2>3 DEF LimitInv
<1>3. ASSUME WindowEnds PROVE LimitInv'
  <2>1. /\ waiting = {} /\ waiting' = {} /\ answer' = answer
        /\ count' = 0 /\ letIn' = 0 /\ ~expires' /\ ~missed' /\ expires' = FALSE /\ missed' = FALSE
    BY <1>3 DEF WindowEnds, LimitInv, OneSetsExpiry
  <2>2. LimitTypes'
    <3>1. count' \in 0..MaxPerWindow + 1 /\ letIn' \in 0..MaxPerWindow
      BY <1>0, <2>1
    <3>2. QED
      BY <2>1, <3>1 DEF LimitInv, LimitTypes
  <2>3. OneSetsExpiry'
    BY <2>1 DEF OneSetsExpiry
  <2>4. QED
    BY <2>1, <2>2, <2>3 DEF LimitInv
<1>4. \A r \in Requests, carriedOut \in BOOLEAN :
        CountTimedOut(r, carriedOut) \/ SetExpiry(r, carriedOut) =>
          \A s \in Requests : answer'[s] = "refused" => answer[s] = "refused"
  BY AdmittedTells DEF CountTimedOut, SetExpiry
<1>5. WindowEnds => answer' = answer
  BY DEF WindowEnds
<1>6. QED
  BY <1>1, <1>2, <1>3, <1>4, <1>5, CountedKeeps DEF LimitNext

LEMMA LimitStart == LimitInit => LimitInv
<1> SUFFICES ASSUME LimitInit PROVE LimitInv
  OBVIOUS
<1>1. LimitTypes
  <2>1. count \in 0..MaxPerWindow + 1 /\ letIn \in 0..MaxPerWindow
    BY RateLimitAssumption DEF LimitInit
  <2>2. QED
    BY <2>1 DEF LimitInit, LimitTypes
<1>2. OneSetsExpiry
  BY DEF LimitInit, OneSetsExpiry
<1>3. QED
  BY <1>1, <1>2 DEF LimitInit, LimitInv

LEMMA LimitSteps == LimitInv /\ [LimitNext]_limitVars => LimitInv'
<1>1. LimitInv /\ UNCHANGED limitVars => LimitInv'
  BY DEF limitVars, LimitInv, LimitTypes, OneSetsExpiry
<1>2. QED
  BY <1>1, LimitStep

(* However many requests are in the middleware at once and whatever of     *)
(* Redis's calls time out, a window's counter lets in no more than the     *)
(* limit, and a key without an expiry is about to get one from a single    *)
(* request unless its first request missed it.                             *)
THEOREM WindowIsBounded == LimitSpec => []LimitKept
<1>1. LimitInv => LimitKept
  <2> SUFFICES ASSUME LimitInv PROVE LimitKept
    OBVIOUS
  <2>1. letIn <= MaxPerWindow
    BY RateLimitAssumption DEF LimitInv, LimitTypes
  <2>2. ASSUME count > 0, ~expires, ~missed PROVE \E r \in Requests : waiting = {r}
    <3>1. PICK r \in waiting : TRUE
      BY <2>2 DEF LimitInv, OneSetsExpiry
    <3>2. waiting = {r} /\ r \in Requests
      BY <3>1 DEF LimitInv, LimitTypes, OneSetsExpiry
    <3>3. QED
      BY <3>2
  <2>3. QED
    BY <2>1, <2>2 DEF LimitKept
<1>2. QED
  BY <1>1, LimitStart, LimitSteps, PTL DEF LimitSpec

(* Nobody is refused before as many requests have come as the limit says.  *)
THEOREM RefusedOnlyAtLimit == LimitSpec => RefusedAtLimit
<1>1. LimitInv /\ [LimitNext]_limitVars =>
        [\A r \in Requests : answer'[r] = "refused" /\ answer[r] # "refused" =>
           count >= MaxPerWindow]_limitVars
  BY LimitStep
<1>2. QED
  BY <1>1, LimitStart, LimitSteps, PTL DEF LimitSpec, RefusedAtLimit

-----------------------------------------------------------------------------
(* The rule parser: what a number said in words becomes.                    *)

(* Induction over an interval, on a set.                                   *)
LEMMA LeastOf ==
  ASSUME NEW S, S # {}, S \subseteq Nat
  PROVE  Min(S) \in S /\ \A y \in S : Min(S) <= y
<1>1. PICK t \in S : \A s \in S : <<s, t>> \notin OpToRel(<, Nat)
  BY NatLessThanWellFounded, WFMin
<1>2. \A s \in S : ~(s < t)
  BY <1>1 DEF OpToRel
<1>3. \A s \in S : t <= s
  BY <1>2
<1>4. QED
  BY <1>3 DEF Min

LEMMA LargestOf ==
  ASSUME NEW S, S # {}, S \subseteq Nat, NEW b \in Nat, \A x \in S : x <= b
  PROVE  Max(S) \in S /\ \A y \in S : y <= Max(S)
<1> DEFINE T == {b - x : x \in S}
<1>1. T # {} /\ T \subseteq Nat
  <2>1. T # {}
    BY Zenon
  <2>2. ASSUME NEW x \in S PROVE b - x \in Nat
    <3>1. x \in Nat /\ x <= b
      OBVIOUS
    <3>2. QED
      BY <3>1
  <2>3. QED
    BY <2>1, <2>2
<1>2. PICK t \in T : \A s \in T : <<s, t>> \notin OpToRel(<, Nat)
  BY <1>1, NatLessThanWellFounded, WFMin
<1>3. \A s \in T : ~(s < t)
  BY <1>1, <1>2 DEF OpToRel
<1>4. PICK x \in S : t = b - x
  BY <1>2
<1>5. ASSUME NEW y \in S PROVE x >= y
  <2>1. b - y \in T
    OBVIOUS
  <2>2. ~(b - y < b - x)
    BY <1>3, <1>4, <2>1
  <2>3. QED
    BY <2>2
<1> HIDE DEF T
<1>6. \E z \in S : \A y \in S : z >= y
  BY <1>4, <1>5
<1>7. Max(S) \in S /\ \A y \in S : Max(S) >= y
  BY <1>6, Zenon DEF Max
<1>8. QED
  BY <1>7

LEMMA UpTo ==
  ASSUME NEW n \in Nat, NEW G, 0 \in G, \A m \in 0..n - 1 : m \in G => m + 1 \in G
  PROVE  \A m \in 0..n : m \in G
<1> SUFFICES ASSUME NEW k \in 0..n, k \notin G PROVE FALSE
  OBVIOUS
<1> DEFINE B == {m \in 0..n : m \notin G}
<1>1. PICK m \in B : \A j \in B : m <= j
  <2>1. B # {} /\ B \subseteq Nat
    OBVIOUS
  <2>2. QED
    BY <2>1, LeastOf
<1>2. m - 1 \in 0..n - 1 /\ m - 1 \in G
  BY <1>1
<1>3. m - 1 + 1 \in G /\ m - 1 + 1 = m
  BY <1>2
<1>4. QED
  BY <1>1, <1>3

(* A fold has a value at every prefix: there is a function that gives it.  *)
LEMMA MaxOfInitial == ASSUME NEW m \in Nat, NEW s \in SUBSET (1..m), m \in s PROVE Max(s) = m
<1>1. \A y \in s : m >= y
  OBVIOUS
<1>2. \A x \in s : (\A y \in s : x >= y) => x = m
  OBVIOUS
<1>3. QED
  BY <1>1, <1>2 DEF Max

Folding(h, R, base, m, step) ==
  /\ h \in [SUBSET (1..m) -> R]
  /\ \A s \in SUBSET (1..m) :
       h[s] = IF s = {} THEN base ELSE step[<<Max(s), h[s \ {Max(s)}]>>]

LEMMA FoldExists ==
  ASSUME NEW R, NEW base \in R, NEW n \in Nat, NEW step \in [(1..n) \X R -> R]
  PROVE  \E h : Folding(h, R, base, n, step)
<1> DEFINE F(h, m) == Folding(h, R, base, m, step)
           G == {m \in 0..n : \E h : F(h, m)}
<1>1. 0 \in G
  <2>1. F([s \in SUBSET (1..0) |-> base], 0)
    <3>1. 1..0 = {}
      OBVIOUS
    <3>2. QED
      BY <3>1 DEF Folding
  <2> HIDE DEF F
  <2>2. QED
    BY <2>1
<1>2. ASSUME NEW m \in 0..n - 1, m \in G PROVE m + 1 \in G
  <2>1. PICK g : F(g, m)
    BY <1>2, Zenon
  <2> USE DEF Folding
  <2>2. PICK h : h = [s \in SUBSET (1..m + 1) |->
                        IF m + 1 \in s THEN step[<<m + 1, g[s \ {m + 1}]>>] ELSE g[s]]
    OBVIOUS
  <2>3. \A s \in SUBSET (1..m + 1) : s \ {m + 1} \in SUBSET (1..m)
    OBVIOUS
  <2>4. \A s \in SUBSET (1..m) : h[s] = g[s] /\ s \in SUBSET (1..m + 1)
    BY <2>2
  <2>5. h \in [SUBSET (1..m + 1) -> R]
    <3>1. ASSUME NEW s \in SUBSET (1..m + 1)
          PROVE  (IF m + 1 \in s THEN step[<<m + 1, g[s \ {m + 1}]>>] ELSE g[s]) \in R
      <4>1. g[s \ {m + 1}] \in R
        BY <2>1, <2>3
      <4>2. m + 1 \in 1..n
        OBVIOUS
      <4>3. step[<<m + 1, g[s \ {m + 1}]>>] \in R
        BY <4>1, <4>2
      <4>4. m + 1 \notin s => s \in SUBSET (1..m)
        OBVIOUS
      <4>5. QED
        BY <2>1, <4>3, <4>4
    <3>2. QED
      BY <2>2, <3>1
  <2>6. ASSUME NEW s \in SUBSET (1..m + 1)
        PROVE  h[s] = IF s = {} THEN base ELSE step[<<Max(s), h[s \ {Max(s)}]>>]
    <3>1. CASE m + 1 \in s
      <4>1. Max(s) = m + 1
        BY <3>1, MaxOfInitial
      <4>2. h[s \ {m + 1}] = g[s \ {m + 1}]
        BY <2>3, <2>4
      <4>3. QED
        BY <2>2, <3>1, <4>1, <4>2
    <3>2. CASE m + 1 \notin s
      <4>0. \A x \in s : x \in 1..m
        BY <3>2
      <4>1. s \in SUBSET (1..m) /\ s \ {Max(s)} \in SUBSET (1..m)
        BY <4>0
      <4>2. g[s] = IF s = {} THEN base ELSE step[<<Max(s), g[s \ {Max(s)}]>>]
        BY <2>1, <4>1
      <4>3. h[s] = g[s] /\ h[s \ {Max(s)}] = g[s \ {Max(s)}]
        BY <2>4, <4>1
      <4>4. QED
        BY <4>2, <4>3
    <3>3. QED
      BY <3>1, <3>2
  <2>7. F(h, m + 1)
    BY <2>5, <2>6
  <2> HIDE DEF F, Folding
  <2>8. QED
    BY <2>7
<1> HIDE DEF G
<1>3. n \in G
  BY <1>1, <1>2, UpTo
<1> USE DEF G
<1>4. QED
  BY <1>3

(* The loop of replaceSpokenAmounts, state by state, over any words.       *)
Said(W) == W \cup {Amount(v) : v \in Nat}
Runs(W) == [out : Seq(Said(W)), open : BOOLEAN, total : Nat, current : Nat]
Numbered(W) == \A token \in W : token.n \in Nat

(* Closing a run, and adding a word to one, keeps it a run.                *)
LEMMA ClosedRun ==
  ASSUME NEW W, NEW run \in Runs(W)
  PROVE  Closed(run) \in Seq(Said(W))
<1>1. Amount(run.total + run.current) \in Said(W)
  <2>1. run.total + run.current \in Nat
    BY DEF Runs
  <2>2. QED
    BY <2>1 DEF Said
<1>2. QED
  BY <1>1, AppendProperties DEF Closed, Runs

LEMMA ConsumeRun ==
  ASSUME NEW W, Numbered(W), NEW run \in Runs(W), NEW token \in W
  PROVE  Consume(run, token) \in Runs(W)
<1>0. token.n \in Nat /\ token \in Said(W)
  BY DEF Numbered, Said
<1>1. CASE token.w = "scale"
  <2>1. Consume(run, token) = [out |-> run.out, open |-> TRUE, current |-> 0,
          total |-> run.total + (IF run.current = 0 THEN 1 ELSE run.current) * token.n]
    BY <1>1 DEF Consume, AddScale, Runs
  <2>2. run.total + (IF run.current = 0 THEN 1 ELSE run.current) * token.n \in Nat
    <3>1. PICK c \in Nat : c = IF run.current = 0 THEN 1 ELSE run.current
      BY DEF Runs
    <3>2. c * token.n \in Nat
      BY <1>0, <3>1
    <3>3. QED
      BY <3>1, <3>2 DEF Runs
  <2>3. QED
    BY <2>1, <2>2 DEF Runs
<1>2. CASE token.w \in {"one", "ten"}
  <2>1. Consume(run, token) = [out |-> run.out, open |-> TRUE, total |-> run.total,
                               current |-> run.current + token.n]
    BY <1>2 DEF Consume, Runs
  <2>2. QED
    BY <1>0, <2>1 DEF Runs
<1>3. CASE token.w \notin {"scale", "one", "ten"}
  <2>1. Consume(run, token) = [out |-> Append(Closed(run), token), open |-> FALSE, total |-> 0, current |-> 0]
    BY <1>3 DEF Consume, NoRun
  <2>2. Append(Closed(run), token) \in Seq(Said(W))
    BY <1>0, ClosedRun, AppendProperties
  <2>3. QED
    BY <2>1, <2>2 DEF Runs
<1>4. QED
  BY <1>1, <1>2, <1>3

Looping(W, text, v) ==
  /\ v \in [0..Len(text) -> Runs(W)]
  /\ v[0] = NoRun
  /\ \A m \in 1..Len(text) : v[m] = Consume(v[m - 1], text[m])

LEMMA NoRunIsRun == ASSUME NEW W PROVE NoRun \in Runs(W)
BY EmptySeq DEF NoRun, Runs

LEMMA LoopOf ==
  ASSUME NEW W, Numbered(W), NEW text \in Seq(W)
  PROVE  \E v : Looping(W, text, v) /\ ReplaceSpokenAmounts(text) = Closed(v[Len(text)])
<1> DEFINE n == Len(text)
           step == [p \in (1..n) \X Runs(W) |-> Consume(p[2], text[p[1]])]
           H(h) == h = [s \in SUBSET DOMAIN text |->
                          IF s = {} THEN NoRun ELSE Consume(h[s \ {Max(s)}], text[Max(s)])]
<1>0. n \in Nat /\ DOMAIN text = 1..n /\ \A i \in 1..n : text[i] \in W
  OBVIOUS
<1>1. step \in [(1..n) \X Runs(W) -> Runs(W)]
  BY <1>0, ConsumeRun
<1>2. \A i \in 1..n, run \in Runs(W) : step[<<i, run>>] = Consume(run, text[i])
  OBVIOUS
<1> HIDE DEF step, n
<1>3. PICK g \in [SUBSET (1..n) -> Runs(W)] : \A s \in SUBSET (1..n) :
        g[s] = IF s = {} THEN NoRun ELSE step[<<Max(s), g[s \ {Max(s)}]>>]
  <2>1. \E g : Folding(g, Runs(W), NoRun, n, step)
    BY <1>0, <1>1, NoRunIsRun, FoldExists
  <2>2. QED
    BY <2>1 DEF Folding
<1> USE DEF n
<1>4. H(g)
  <2>1. ASSUME NEW s \in SUBSET (1..n)
        PROVE  g[s] = IF s = {} THEN NoRun ELSE Consume(g[s \ {Max(s)}], text[Max(s)])
    <3>1. CASE s = {}
      BY <1>3, <3>1
    <3>2. CASE s # {}
      <4>1. Max(s) \in 1..n
        <5>1. \A x \in s : x <= n
          BY <1>0
        <5>2. Max(s) \in s
          <6>1. s \subseteq Nat
            BY <1>0
          <6>2. QED
            BY <1>0, <3>2, <5>1, <6>1, LargestOf
        <5>3. QED
          BY <5>2
      <4>2. g[s \ {Max(s)}] \in Runs(W)
        BY <1>3
      <4>3. QED
        BY <1>2, <1>3, <3>2, <4>1, <4>2
    <3>3. QED
      BY <3>1, <3>2
  <2>2. QED
    BY <1>0, <1>3, <2>1
<1>5. PICK h : h = (CHOOSE f : H(f)) /\ H(h)
  BY <1>4
<1>6. FoldLeft(Consume, NoRun, text) = h[DOMAIN text]
  BY <1>5 DEF FoldLeft, MapThenFoldSet
<1> DEFINE v == [m \in 0..n |-> h[1..m]]
<1>7. v[0] = NoRun
  <2>1. 1..0 = {} /\ {} \in SUBSET DOMAIN text /\ 0 \in 0..n
    BY <1>0
  <2>2. h[{}] = NoRun
    BY <1>5
  <2>3. QED
    BY <2>1, <2>2
<1>8. ASSUME NEW m \in 1..n PROVE v[m] = Consume(v[m - 1], text[m])
  <2>1. 1..m \in SUBSET DOMAIN text /\ 1..m # {} /\ (1..m) \ {m} = 1..m - 1 /\ m - 1 \in 0..n
    BY <1>0, SMTT(30)
  <2>2. Max(1..m) = m
    BY MaxOfInitial
  <2>3. h[1..m] = Consume(h[1..m - 1], text[m])
    <3>1. h[1..m] = Consume(h[(1..m) \ {Max(1..m)}], text[Max(1..m)])
      BY <1>5, <2>1
    <3>2. QED
      BY <2>1, <2>2, <3>1
  <2>4. QED
    BY <2>1, <2>3
<1>9. \A m \in 0..n : m \in {k \in 0..n : v[k] \in Runs(W)}
  <2> DEFINE G == {k \in 0..n : v[k] \in Runs(W)}
  <2> HIDE DEF v
  <2>1. 0 \in G
    BY <1>0, <1>7, NoRunIsRun
  <2>2. ASSUME NEW m \in 0..n - 1, m \in G PROVE m + 1 \in G
    <3>1. m + 1 \in 1..n /\ v[m + 1] = Consume(v[m], text[m + 1])
      BY <1>0, <1>8
    <3>2. QED
      BY <1>0, <2>2, <3>1, ConsumeRun
  <2> HIDE DEF G
  <2>3. \A m \in 0..n : m \in G
    BY <1>0, <2>1, <2>2, UpTo
  <2>4. QED
    BY <2>3 DEF G
<1>10. Looping(W, text, v)
  BY <1>7, <1>8, <1>9 DEF Looping
<1>11. v[n] = FoldLeft(Consume, NoRun, text)
  BY <1>0, <1>6
<1>12. QED
  BY <1>10, <1>11 DEF ReplaceSpokenAmounts

(* What a number means, by the value of its parts: the greatest scale of a *)
(* part is its first one when the scales fall.                             *)
LEMMA FirstIsGreatest ==
  ASSUME NEW W, Numbered(W), NEW words \in Seq(W), ScalesFall(words),
         NEW a \in 1..Len(words) + 1, NEW b \in 0..Len(words), ScalesIn(words, a, b) # {}
  PROVE  LET k == Greatest(words, ScalesIn(words, a, b))
         IN  k \in a..b /\ words[k].w = "scale" /\ \A m \in ScalesIn(words, a, b) : k <= m
<1> DEFINE at == ScalesIn(words, a, b)
<1>0. Len(words) \in Nat /\ DOMAIN words = 1..Len(words) /\ at \subseteq 1..Len(words) /\ at \subseteq a..b
      /\ \A m \in at : words[m].w = "scale" /\ words[m].n \in Nat /\ words[m] \in W
  BY DEF ScalesIn, Numbered
<1>1. PICK k \in at : \A m \in at : k <= m
  <2>1. at # {} /\ at \subseteq Nat
    BY <1>0
  <2> HIDE DEF at
  <2>2. QED
    BY <2>1, LeastOf
<1> HIDE DEF at
<1>2. \A m \in at : m # k => words[m].n < words[k].n
  <2> SUFFICES ASSUME NEW m \in at, m # k PROVE words[m].n < words[k].n
    OBVIOUS
  <2>1. k < m /\ k \in DOMAIN words /\ m \in DOMAIN words /\ words[k].w = "scale" /\ words[m].w = "scale"
    BY <1>0, <1>1
  <2>2. words[k].n > words[m].n
    BY <2>1 DEF ScalesFall
  <2>3. QED
    BY <1>0, <2>2
<1>3. \A m \in at : words[m].n <= words[k].n
  BY <1>0, <1>2
<1>4. {j \in at : \A m \in at : words[m].n <= words[j].n} = {k}
  <2>1. ASSUME NEW j \in at, \A m \in at : words[m].n <= words[j].n PROVE j = k
    <3>1. words[k].n <= words[j].n /\ words[k].n \in Nat /\ words[j].n \in Nat
      BY <1>0, <1>1, <2>1
    <3>2. QED
      BY <1>2, <3>1
  <2>2. QED
    BY <1>1, <1>3, <2>1
<1>5. Greatest(words, at) = k
  <2>1. \A m \in {k} : m >= k
    BY <1>0, <1>1
  <2>2. (CHOOSE j \in {k} : \A m \in {k} : m >= j) = k
    BY <2>1
  <2>3. QED
    BY <1>4, <2>2 DEF Greatest
<1>6. QED
  BY <1>0, <1>1, <1>5 DEF at

(* A function that is right for the parts of up to d words.                *)
Parts(words) == (1..Len(words) + 1) \X (0..Len(words))
RightUpTo(words, f, d) ==
  \A a \in 1..Len(words) + 1, b \in 0..Len(words) : b - a + 1 <= d =>
    f[<<a, b>>] \in Nat /\ f[<<a, b>>] = Part(words, f, a, b)

AgreeUpTo(words, f, g, d) ==
  \A a \in 1..Len(words) + 1, b \in 0..Len(words) : b - a + 1 <= d =>
    f[<<a, b>>] \in Nat /\ g[<<a, b>>] = f[<<a, b>>]

(* A part's value depends on shorter parts only.                           *)
LEMMA PartIsLocal ==
  ASSUME NEW W, Numbered(W), NEW words \in Seq(W), ScalesFall(words),
         NEW f, NEW g, NEW d \in Nat,
         AgreeUpTo(words, f, g, d),
         NEW a \in 1..Len(words) + 1, NEW b \in 0..Len(words), b - a + 1 <= d + 1
  PROVE  Part(words, f, a, b) \in Nat /\ Part(words, g, a, b) = Part(words, f, a, b)
<1>0. Len(words) \in Nat /\ \A m \in 1..Len(words) : words[m].n \in Nat
  BY DEF Numbered
<1>1. CASE a > b
  BY <1>1 DEF Part
<1>2. CASE a <= b /\ ScalesIn(words, a, b) = {}
  <2>1. a + 1 \in 1..Len(words) + 1 /\ b - (a + 1) + 1 <= d /\ a \in 1..Len(words)
    BY <1>0, <1>2
  <2>2. f[<<a + 1, b>>] \in Nat /\ g[<<a + 1, b>>] = f[<<a + 1, b>>]
    BY <1>0, <2>1 DEF AgreeUpTo
  <2>3. /\ Part(words, f, a, b) = words[a].n + f[<<a + 1, b>>]
        /\ Part(words, g, a, b) = words[a].n + g[<<a + 1, b>>]
    BY <1>0, <1>2 DEF Part
  <2>4. words[a].n \in Nat
    BY <1>0, <2>1
  <2>5. QED
    BY <2>2, <2>3, <2>4, SMTT(30)
<1>3. CASE a <= b /\ ScalesIn(words, a, b) # {}
  <2>1. PICK k : k = Greatest(words, ScalesIn(words, a, b))
    OBVIOUS
  <2>2. k \in a..b
    BY <1>3, <2>1, FirstIsGreatest
  <2>3. k + 1 \in 1..Len(words) + 1 /\ b - (k + 1) + 1 <= d /\ k \in 1..Len(words)
        /\ k - 1 \in 0..Len(words) /\ (k - 1) - a + 1 <= d
    BY <1>0, <2>2
  <2>4. /\ f[<<k + 1, b>>] \in Nat /\ g[<<k + 1, b>>] = f[<<k + 1, b>>]
        /\ f[<<a, k - 1>>] \in Nat /\ g[<<a, k - 1>>] = f[<<a, k - 1>>]
    BY <1>0, <2>3 DEF AgreeUpTo
  <2>5. /\ Part(words, f, a, b) = (IF k = a THEN 1 ELSE f[<<a, k - 1>>]) * words[k].n + f[<<k + 1, b>>]
        /\ Part(words, g, a, b) = (IF k = a THEN 1 ELSE g[<<a, k - 1>>]) * words[k].n + g[<<k + 1, b>>]
    BY <1>0, <1>3, <2>1 DEF Part
  <2>6. PICK c \in Nat : c = IF k = a THEN 1 ELSE f[<<a, k - 1>>]
    BY <2>4
  <2>7. PICK p \in Nat : p = c * words[k].n
    <3>1. \A x, y \in Nat : x * y \in Nat
      OBVIOUS
    <3>2. words[k].n \in Nat
      BY <1>0, <2>3
    <3>3. QED
      BY <2>6, <3>1, <3>2
  <2>8. /\ Part(words, f, a, b) = p + f[<<k + 1, b>>]
        /\ Part(words, g, a, b) = p + g[<<k + 1, b>>]
    BY <2>4, <2>5, <2>6, <2>7
  <2>9. QED
    BY <2>4, <2>8, SMTT(30)
<1>4. QED
  BY <1>0, <1>1, <1>2, <1>3

(* So there is a function that has the value of every part, and ValueOf is *)
(* its value at the whole.                                                 *)
LEMMA PartsExist ==
  ASSUME NEW W, Numbered(W), NEW words \in Seq(W), ScalesFall(words)
  PROVE  \E f : f = [piece \in Parts(words) |-> Part(words, f, piece[1], piece[2])]
<1> DEFINE n == Len(words)
           D == Parts(words)
           G == {d \in 0..n : \E f : RightUpTo(words, f, d)}
<1>0. n \in Nat
  OBVIOUS
<1>d. D = (1..n + 1) \X (0..n)
  BY DEF Parts
<1>1. 0 \in G
  <2>1. PICK f : f = [piece \in D |-> 0]
    OBVIOUS
  <2>2. RightUpTo(words, f, 0)
    <3> SUFFICES ASSUME NEW a \in 1..n + 1, NEW b \in 0..n, b - a + 1 <= 0
                 PROVE  f[<<a, b>>] \in Nat /\ f[<<a, b>>] = Part(words, f, a, b)
      BY DEF RightUpTo
    <3>1. a > b /\ f[<<a, b>>] = 0
      BY <1>0, <1>d, <2>1
    <3>2. QED
      BY <3>1 DEF Part
  <2>3. QED
    BY <1>0, <2>2
<1>2. ASSUME NEW d \in 0..n - 1, d \in G PROVE d + 1 \in G
  <2>1. PICK f : RightUpTo(words, f, d)
    BY <1>2, Zenon
  <2>2. PICK g : g = [piece \in D |->
                        IF piece[2] - piece[1] + 1 <= d THEN f[piece] ELSE Part(words, f, piece[1], piece[2])]
    OBVIOUS
  <2>3. \A a \in 1..n + 1, b \in 0..n :
          g[<<a, b>>] = IF b - a + 1 <= d THEN f[<<a, b>>] ELSE Part(words, f, a, b)
    BY <1>0, <1>d, <2>2
  <2>4. AgreeUpTo(words, f, g, d)
    BY <2>1, <2>3 DEF RightUpTo, AgreeUpTo
  <2>5. d \in Nat /\ d + 1 \in 0..n
    BY <1>0
  <2>6. \A a \in 1..n + 1, b \in 0..n : b - a + 1 <= d + 1 =>
          Part(words, f, a, b) \in Nat /\ Part(words, g, a, b) = Part(words, f, a, b)
    <3> SUFFICES ASSUME NEW a \in 1..n + 1, NEW b \in 0..n, b - a + 1 <= d + 1
                 PROVE  Part(words, f, a, b) \in Nat /\ Part(words, g, a, b) = Part(words, f, a, b)
      OBVIOUS
    <3> HIDE DEF G
    <3>1. QED
      BY <2>4, <2>5, PartIsLocal
  <2>7. RightUpTo(words, g, d + 1)
    <3> SUFFICES ASSUME NEW a \in 1..n + 1, NEW b \in 0..n, b - a + 1 <= d + 1
                 PROVE  g[<<a, b>>] \in Nat /\ g[<<a, b>>] = Part(words, g, a, b)
      BY DEF RightUpTo
    <3>1. Part(words, f, a, b) \in Nat /\ Part(words, g, a, b) = Part(words, f, a, b)
      BY <2>6
    <3>2. CASE b - a + 1 <= d
      <4>1. g[<<a, b>>] = f[<<a, b>>] /\ f[<<a, b>>] \in Nat /\ f[<<a, b>>] = Part(words, f, a, b)
        BY <2>1, <2>4, <3>2 DEF RightUpTo, AgreeUpTo
      <4>2. QED
        BY <3>1, <4>1
    <3>3. CASE ~(b - a + 1 <= d)
      BY <2>3, <3>1, <3>3
    <3>4. QED
      BY <3>2, <3>3
  <2>8. QED
    BY <2>5, <2>7
<1> HIDE DEF G, n
<1>3. n \in G
  <2>1. \A m \in 0..n : m \in G
    BY <1>0, <1>1, <1>2, UpTo
  <2>2. QED
    BY <1>0, <2>1
<1> USE DEF G, n
<1>4. PICK f : RightUpTo(words, f, n)
  BY <1>3, Zenon
<1>5. PICK g : g = [piece \in D |-> Part(words, f, piece[1], piece[2])]
  OBVIOUS
<1>6. AgreeUpTo(words, f, g, n)
  <2> SUFFICES ASSUME NEW a \in 1..n + 1, NEW b \in 0..n, b - a + 1 <= n
               PROVE  f[<<a, b>>] \in Nat /\ g[<<a, b>>] = f[<<a, b>>]
    BY DEF AgreeUpTo
  <2>1. g[<<a, b>>] = Part(words, f, a, b)
    BY <1>0, <1>d, <1>5
  <2>2. QED
    BY <1>4, <2>1 DEF RightUpTo
<1>7. ASSUME NEW piece \in D
      PROVE  Part(words, f, piece[1], piece[2]) = Part(words, g, piece[1], piece[2])
  <2>1. piece[1] \in 1..n + 1 /\ piece[2] \in 0..n /\ piece[2] - piece[1] + 1 <= n + 1
    BY <1>0, <1>d
  <2>2. QED
    BY <1>0, <1>6, <2>1, PartIsLocal
<1>8. g = [piece \in D |-> Part(words, g, piece[1], piece[2])]
  BY <1>5, <1>7
<1>9. QED
  BY <1>8

LEMMA ValueByParts ==
  ASSUME NEW W, Numbered(W), NEW words \in Seq(W), ScalesFall(words)
  PROVE  \E f : /\ ValueOf(words) = f[<<1, Len(words)>>]
                /\ RightUpTo(words, f, Len(words))
<1> DEFINE n == Len(words)
           D == Parts(words)
<1>0. n \in Nat
  OBVIOUS
<1>d. D = (1..n + 1) \X (0..n)
  BY DEF Parts
<1>1. PICK f : /\ f = (CHOOSE g : g = [piece \in D |-> Part(words, g, piece[1], piece[2])])
               /\ f = [piece \in D |-> Part(words, f, piece[1], piece[2])]
  BY PartsExist
<1>2. ValueOf(words) = f[<<1, n>>]
  BY <1>1 DEF ValueOf, Parts
<1>3. \A a \in 1..n + 1, b \in 0..n : f[<<a, b>>] = Part(words, f, a, b)
  BY <1>0, <1>d, <1>1
<1> DEFINE G == {d \in 0..n : RightUpTo(words, f, d)}
<1>4. 0 \in G
  <2>1. ASSUME NEW a \in 1..n + 1, NEW b \in 0..n, b - a + 1 <= 0 PROVE Part(words, f, a, b) = 0
    <3>1. a > b
      BY <1>0, <2>1
    <3>2. QED
      BY <3>1 DEF Part
  <2>2. QED
    BY <1>0, <1>3, <2>1 DEF RightUpTo
<1>5. ASSUME NEW d \in 0..n - 1, d \in G PROVE d + 1 \in G
  <2>1. d \in Nat /\ d + 1 \in 0..n
    BY <1>0
  <2>2. AgreeUpTo(words, f, f, d)
    BY <1>5 DEF RightUpTo, AgreeUpTo
  <2>3. \A a \in 1..n + 1, b \in 0..n : b - a + 1 <= d + 1 => Part(words, f, a, b) \in Nat
    BY <2>1, <2>2, PartIsLocal
  <2>4. RightUpTo(words, f, d + 1)
    BY <1>3, <2>3 DEF RightUpTo
  <2>5. QED
    BY <2>1, <2>4
<1> HIDE DEF G, n
<1>6. n \in G
  <2>1. \A m \in 0..n : m \in G
    BY <1>0, <1>4, <1>5, UpTo
  <2>2. QED
    BY <1>0, <2>1
<1> USE DEF n
<1>7. RightUpTo(words, f, n)
  BY <1>6 DEF G
<1>8. QED
  BY <1>2, <1>7

(* The loop, over the words of a number.                                   *)
Spoken(W, words) ==
  /\ words \in Seq(W) /\ Numbered(W)
  /\ \A k \in 1..Len(words) : IsSpoken(words[k]) /\ words[k].n > 0

(* t[k] and c[k] are the totals after k words.                             *)
Adding(words, t, c) ==
  /\ t \in [0..Len(words) -> Nat] /\ c \in [0..Len(words) -> Nat]
  /\ \A k \in 1..Len(words) :
       IF words[k].w = "scale"
       THEN c[k] = 0 /\ t[k] = t[k - 1] + (IF c[k - 1] = 0 THEN 1 ELSE c[k - 1]) * words[k].n
       ELSE c[k] = c[k - 1] + words[k].n /\ t[k] = t[k - 1]

(* Between two scales the words are added up, and what they add to is not  *)
(* nothing.                                                                *)
LEMMA PlainStretch ==
  ASSUME NEW W, NEW words, Spoken(W, words), NEW t, NEW c, Adding(words, t, c),
         NEW f, RightUpTo(words, f, Len(words)),
         NEW a \in 1..Len(words) + 1, NEW b \in 0..Len(words), a <= b + 1,
         ScalesIn(words, a, b) = {}
  PROVE  /\ f[<<a, b>>] \in Nat /\ t[b] = t[a - 1] /\ c[b] = c[a - 1] + f[<<a, b>>]
         /\ a <= b => f[<<a, b>>] > 0
<1>0. b \in Nat /\ a \in Nat /\ Len(words) \in Nat
  BY DEF Spoken
<1>1. \A k \in 1..Len(words) : words[k].n \in Nat /\ words[k].n > 0
  BY DEF Spoken, Numbered
<1>2. PICK size \in Nat : size = b + 1 - a
  BY <1>0
<1> DEFINE G == {d \in 0..size : LET e == b + 1 - d
                                 IN  t[b] = t[e - 1] /\ c[b] = c[e - 1] + f[<<e, b>>]}
<1>3. ASSUME NEW e \in a..b + 1 PROVE f[<<e, b>>] \in Nat /\ f[<<e, b>>] = Part(words, f, e, b)
  <2>1. e \in 1..Len(words) + 1 /\ b - e + 1 <= Len(words)
    BY <1>0
  <2>2. QED
    BY <2>1 DEF RightUpTo
<1>4. ASSUME NEW e \in a..b
      PROVE  /\ f[<<e, b>>] = words[e].n + f[<<e + 1, b>>]
             /\ t[e] = t[e - 1] /\ c[e] = c[e - 1] + words[e].n
             /\ words[e].n \in Nat /\ words[e].n > 0 /\ e \in 1..Len(words)
  <2>1. e \in 1..Len(words) /\ e <= b /\ ~(e > b)
    BY <1>0
  <2>2. ScalesIn(words, e, b) = {} /\ words[e].w # "scale"
    BY <1>0, <2>1 DEF ScalesIn
  <2>3. f[<<e, b>>] = words[e].n + f[<<e + 1, b>>]
    <3>1. e \in a..b + 1
      BY <1>0
    <3>2. f[<<e, b>>] = Part(words, f, e, b)
      BY <1>3, <3>1
    <3>3. QED
      BY <2>1, <2>2, <3>2 DEF Part
  <2>4. QED
    BY <1>1, <2>1, <2>2, <2>3 DEF Adding
<1>5. 0 \in G
  <2>1. f[<<b + 1, b>>] = 0
    <3>1. b + 1 \in a..b + 1 /\ b + 1 > b
      BY <1>0
    <3>2. f[<<b + 1, b>>] = Part(words, f, b + 1, b)
      BY <1>3, <3>1
    <3>3. QED
      BY <3>1, <3>2 DEF Part
  <2>2. t[b] \in Nat /\ c[b] \in Nat
    BY DEF Adding
  <2>3. b + 1 - 0 = b + 1 /\ b + 1 - 1 = b /\ 0 \in 0..size
    BY <1>0
  <2>4. QED
    BY <2>1, <2>2, <2>3
<1>6. ASSUME NEW d \in 0..size - 1, d \in G PROVE d + 1 \in G
  <2>1. PICK e \in a..b : e = b + 1 - (d + 1)
    BY <1>0, <1>2
  <2>2. b + 1 - d = e + 1 /\ e + 1 - 1 = e /\ d + 1 \in 0..size /\ e + 1 \in a..b + 1
    BY <1>0, <1>2, <2>1
  <2>3. t[b] = t[e] /\ c[b] = c[e] + f[<<e + 1, b>>]
    BY <1>6, <2>2
  <2>4. /\ f[<<e, b>>] = words[e].n + f[<<e + 1, b>>] /\ t[e] = t[e - 1]
        /\ c[e] = c[e - 1] + words[e].n /\ words[e].n \in Nat /\ e \in 1..Len(words)
    BY <1>4
  <2>5. f[<<e + 1, b>>] \in Nat /\ e - 1 \in 0..Len(words)
    BY <1>0, <1>3, <2>2, <2>4
  <2>6. c[e - 1] \in Nat
    BY <2>5 DEF Adding
  <2>7. t[b] = t[e - 1] /\ c[b] = c[e - 1] + f[<<e, b>>]
    BY <2>3, <2>4, <2>5, <2>6, SMTT(30)
  <2>8. QED
    BY <2>1, <2>2, <2>7
<1> HIDE DEF G
<1>7. \A d \in 0..size : d \in G
  BY <1>2, <1>5, <1>6, UpTo
<1>8. size \in G
  BY <1>7
<1>9. t[b] = t[a - 1] /\ c[b] = c[a - 1] + f[<<a, b>>]
  BY <1>0, <1>2, <1>8 DEF G
<1>10. a <= b => f[<<a, b>>] > 0
  <2> SUFFICES ASSUME a <= b PROVE f[<<a, b>>] > 0
    OBVIOUS
  <2>1. a \in a..b /\ a + 1 \in a..b + 1
    BY <1>0
  <2>2. f[<<a, b>>] = words[a].n + f[<<a + 1, b>>] /\ words[a].n \in Nat /\ words[a].n > 0
    BY <1>4, <2>1
  <2>3. f[<<a + 1, b>>] \in Nat
    BY <1>3, <2>1
  <2>4. QED
    BY <2>2, <2>3
<1>11. f[<<a, b>>] \in Nat
  BY <1>0, <1>3
<1>12. QED
  BY <1>9, <1>10, <1>11

(* What the words from a on add to what is there is their value.           *)
LEMMA AddsUp ==
  ASSUME NEW W, NEW words, Spoken(W, words), ScalesFall(words),
         NEW t, NEW c, Adding(words, t, c),
         NEW f, RightUpTo(words, f, Len(words)), c[0] = 0, t[0] = 0
  PROVE  t[Len(words)] + c[Len(words)] = f[<<1, Len(words)>>]
<1> DEFINE n == Len(words)
<1>0. n \in Nat /\ words \in Seq(W) /\ Numbered(W) /\ DOMAIN words = 1..n
  BY DEF Spoken
<1>1. \A k \in 1..n : words[k].n \in Nat /\ words[k].n > 0
  BY DEF Spoken, Numbered
<1>2. \A k \in 0..n : t[k] \in Nat /\ c[k] \in Nat
  BY <1>0 DEF Adding
<1> DEFINE Sum(a) == c[a - 1] = 0 => t[n] + c[n] = t[a - 1] + f[<<a, n>>]
           G == {d \in 0..n : \A a \in 1..n + 1 : n + 1 - a <= d => Sum(a)}
<1>3. ASSUME NEW a \in 1..n + 1
      PROVE  f[<<a, n>>] \in Nat /\ f[<<a, n>>] = Part(words, f, a, n)
  <2>1. n - a + 1 <= n /\ n \in 0..n
    BY <1>0
  <2>2. QED
    BY <2>1 DEF RightUpTo
<1>4. ASSUME NEW a \in 1..n + 1, ScalesIn(words, a, n) = {} PROVE Sum(a)
  <2>1. n \in 0..n /\ a <= n + 1 /\ a - 1 \in 0..n
    BY <1>0
  <2>2. t[n] = t[a - 1] /\ c[n] = c[a - 1] + f[<<a, n>>]
    BY <1>4, <2>1, PlainStretch
  <2>3. QED
    BY <1>2, <1>3, <2>1, <2>2
<1>5. ASSUME NEW a \in 1..n + 1, ScalesIn(words, a, n) # {}, c[a - 1] = 0
      PROVE  \E k \in a..n : c[k] = 0 /\ f[<<k + 1, n>>] \in Nat
                             /\ f[<<a, n>>] = t[k] - t[a - 1] + f[<<k + 1, n>>]
  <2>1. PICK k : k = Greatest(words, ScalesIn(words, a, n))
    OBVIOUS
  <2>2. n \in 0..n
    BY <1>0
  <2>3. k \in a..n /\ words[k].w = "scale" /\ \A m \in ScalesIn(words, a, n) : k <= m
    BY <1>0, <1>5, <2>1, <2>2, FirstIsGreatest
  <2>4. k \in 1..n /\ k - 1 \in 0..n /\ a <= k - 1 + 1 /\ a - 1 \in 0..n /\ k + 1 \in 1..n + 1
        /\ ~(a > n)
    BY <1>0, <2>3
  <2>5. ScalesIn(words, a, k - 1) = {}
    <3> SUFFICES ASSUME NEW m \in a..k - 1, words[m].w = "scale" PROVE FALSE
      BY DEF ScalesIn
    <3>1. m \in ScalesIn(words, a, n) /\ m < k
      BY <1>0, <2>3 DEF ScalesIn
    <3>2. QED
      BY <1>0, <2>3, <3>1
  <2>6. /\ f[<<a, k - 1>>] \in Nat /\ t[k - 1] = t[a - 1] /\ c[k - 1] = c[a - 1] + f[<<a, k - 1>>]
        /\ a <= k - 1 => f[<<a, k - 1>>] > 0
    BY <2>4, <2>5, PlainStretch
  <2>7. c[k - 1] = f[<<a, k - 1>>]
    BY <1>5, <2>6
  <2>8. PICK x : x = IF k = a THEN 1 ELSE f[<<a, k - 1>>]
    OBVIOUS
  <2>9. x = IF c[k - 1] = 0 THEN 1 ELSE c[k - 1]
    <3>1. CASE k = a
      <4>1. k - 1 = a - 1
        BY <3>1
      <4>2. c[k - 1] = 0
        BY <1>5, <4>1
      <4>3. QED
        BY <2>8, <3>1, <4>2
    <3>2. CASE k # a
      <4>1. a <= k - 1
        BY <1>0, <2>3, <3>2
      <4>2. QED
        BY <2>6, <2>7, <2>8, <3>2, <4>1
    <3>3. QED
      BY <3>1, <3>2
  <2>10. x \in Nat
    BY <2>6, <2>8
  <2>11. PICK p \in Nat : p = x * words[k].n
    <3>1. \A y, z \in Nat : y * z \in Nat
      OBVIOUS
    <3>2. words[k].n \in Nat
      BY <1>1, <2>4
    <3>3. QED
      BY <2>10, <3>1, <3>2
  <2>12. c[k] = 0 /\ t[k] = t[k - 1] + p
    BY <2>3, <2>4, <2>9, <2>11 DEF Adding
  <2>13. f[<<a, n>>] = p + f[<<k + 1, n>>]
    <3>1. f[<<a, n>>] = (IF k = a THEN 1 ELSE f[<<a, k - 1>>]) * words[k].n + f[<<k + 1, n>>]
      BY <1>3, <1>5, <2>1, <2>4 DEF Part
    <3>2. QED
      BY <2>8, <2>11, <3>1
  <2>14. t[k] \in Nat /\ t[a - 1] \in Nat /\ f[<<k + 1, n>>] \in Nat
    BY <1>2, <1>3, <2>4
  <2>15. f[<<a, n>>] = t[k] - t[a - 1] + f[<<k + 1, n>>]
    BY <2>6, <2>12, <2>13, <2>14, SMTT(30)
  <2>16. QED
    BY <2>3, <2>12, <2>14, <2>15
<1>6. 0 \in G
  <2> SUFFICES ASSUME NEW a \in 1..n + 1, n + 1 - a <= 0 PROVE Sum(a)
    BY <1>0
  <2>1. ScalesIn(words, a, n) = {}
    BY <1>0 DEF ScalesIn
  <2>2. QED
    BY <1>4, <2>1
<1>7. ASSUME NEW d \in 0..n - 1, d \in G PROVE d + 1 \in G
  <2>0. d + 1 \in 0..n /\ d \in Nat
    BY <1>0
  <2> SUFFICES ASSUME NEW a \in 1..n + 1, n + 1 - a <= d + 1 PROVE Sum(a)
    BY <2>0
  <2>1. CASE ScalesIn(words, a, n) = {}
    BY <1>4, <2>1
  <2>2. CASE ScalesIn(words, a, n) # {}
    <3> SUFFICES ASSUME c[a - 1] = 0 PROVE t[n] + c[n] = t[a - 1] + f[<<a, n>>]
      OBVIOUS
    <3>1. PICK k \in a..n : c[k] = 0 /\ f[<<k + 1, n>>] \in Nat
                            /\ f[<<a, n>>] = t[k] - t[a - 1] + f[<<k + 1, n>>]
      BY <1>5, <2>2
    <3>2. k + 1 \in 1..n + 1 /\ n + 1 - (k + 1) <= d /\ k + 1 - 1 = k /\ a - 1 \in 0..n /\ k \in 0..n
      BY <1>0, <2>0, <3>1
    <3>3. Sum(k + 1)
      BY <1>7, <3>2
    <3>4. t[n] + c[n] = t[k] + f[<<k + 1, n>>]
      BY <3>1, <3>2, <3>3
    <3>5. t[k] \in Nat /\ t[a - 1] \in Nat
      BY <1>2, <3>2
    <3>6. QED
      BY <3>1, <3>4, <3>5, SMTT(30)
  <2>3. QED
    BY <2>1, <2>2
<1> HIDE DEF G, Sum, n
<1>8. \A d \in 0..n : d \in G
  BY <1>0, <1>6, <1>7, UpTo
<1>9. n \in G /\ 1 \in 1..n + 1 /\ n + 1 - 1 <= n /\ 1 - 1 = 0
  BY <1>0, <1>8
<1>10. Sum(1)
  BY <1>9 DEF G
<1>11. f[<<1, n>>] \in Nat
  BY <1>3, <1>9
<1>12. QED
  BY <1>9, <1>10, <1>11 DEF Sum, n

(* replaceSpokenAmounts does the parts of a message one by one, where a    *)
(* part ends or begins with a word that is no number.                      *)
Shift(P, run) ==
  [out |-> P \o run.out, open |-> run.open, total |-> run.total, current |-> run.current]

LEMMA AppendAfter ==
  ASSUME NEW S, NEW p \in Seq(S), NEW s \in Seq(S), NEW e \in S
  PROVE  p \o Append(s, e) = Append(p \o s, e)
<1>1. <<e>> \in Seq(S) /\ p \o s \in Seq(S)
  OBVIOUS
<1>2. Append(s, e) = s \o <<e>> /\ Append(p \o s, e) = (p \o s) \o <<e>>
  BY <1>1, AppendIsConcat
<1>3. QED
  BY <1>1, <1>2, ConcatAssociative

LEMMA ShiftPlain ==
  ASSUME NEW P, NEW x, NEW y, P \o x = y
  PROVE  Shift(P, [out |-> x, open |-> FALSE, total |-> 0, current |-> 0]) =
           [out |-> y, open |-> FALSE, total |-> 0, current |-> 0]
BY DEF Shift

LEMMA ClosedShift ==
  ASSUME NEW W, NEW run \in Runs(W), NEW P \in Seq(Said(W))
  PROVE  Shift(P, run) \in Runs(W) /\ Closed(Shift(P, run)) = P \o Closed(run)
<1>1. run.total + run.current \in Nat /\ run.out \in Seq(Said(W))
  BY DEF Runs
<1>2. Amount(run.total + run.current) \in Said(W)
  BY <1>1 DEF Said
<1>3. P \o run.out \in Seq(Said(W))
  BY <1>1, ConcatProperties
<1>4. Shift(P, run) \in Runs(W)
  BY <1>3 DEF Shift, Runs
<1>5. P \o Append(run.out, Amount(run.total + run.current)) = Append(P \o run.out, Amount(run.total + run.current))
  BY <1>1, <1>2, AppendAfter, SMTT(30)
<1>6. QED
  BY <1>4, <1>5 DEF Shift, Closed

LEMMA ConsumeShift ==
  ASSUME NEW W, Numbered(W), NEW run \in Runs(W), NEW P \in Seq(Said(W)), NEW token \in W
  PROVE  Consume(Shift(P, run), token) = Shift(P, Consume(run, token))
<1>1. CASE token.w = "scale"
  BY <1>1 DEF Consume, AddScale, Shift, Runs
<1>2. CASE token.w \in {"one", "ten"}
  BY <1>2 DEF Consume, Shift, Runs
<1>3. CASE token.w \notin {"scale", "one", "ten"}
  <2>1. /\ Consume(run, token) = [out |-> Append(Closed(run), token), open |-> FALSE, total |-> 0, current |-> 0]
        /\ Consume(Shift(P, run), token) =
             [out |-> Append(Closed(Shift(P, run)), token), open |-> FALSE, total |-> 0, current |-> 0]
    BY <1>3 DEF Consume, NoRun
  <2>2. Closed(run) \in Seq(Said(W)) /\ token \in Said(W)
    BY ClosedRun DEF Said
  <2>3. PICK C \in Seq(Said(W)) : C = Closed(run)
    BY <2>2
  <2>4. Closed(Shift(P, run)) = P \o C
    BY <2>3, ClosedShift
  <2>5. P \o Append(C, token) = Append(P \o C, token)
    BY <2>2, AppendAfter
  <2>6. PICK D : D = Append(P \o C, token)
    OBVIOUS
  <2>7. /\ Consume(run, token) = [out |-> Append(C, token), open |-> FALSE, total |-> 0, current |-> 0]
        /\ Consume(Shift(P, run), token) = [out |-> D, open |-> FALSE, total |-> 0, current |-> 0]
    BY <2>1, <2>3, <2>4, <2>6
  <2>8. QED
    BY <2>5, <2>6, <2>7, ShiftPlain, ZenonT(60)
<1>4. QED
  BY <1>1, <1>2, <1>3

LEMMA SameStart ==
  ASSUME NEW W, NEW text, NEW v, Looping(W, text, v), NEW before, NEW u, Looping(W, before, u),
         Len(before) \in Nat, Len(text) \in Nat, Len(before) <= Len(text),
         \A k \in 1..Len(before) : before[k] = text[k]
  PROVE  v[Len(before)] = u[Len(before)]
<1> DEFINE G == {m \in 0..Len(before) : v[m] = u[m]}
<1>1. 0 \in G
  BY DEF Looping
<1>2. ASSUME NEW m \in 0..Len(before) - 1, m \in G PROVE m + 1 \in G
  <2>1. m + 1 \in 1..Len(before) /\ m + 1 \in 1..Len(text) /\ m + 1 - 1 = m
    OBVIOUS
  <2>2. v[m + 1] = Consume(v[m], text[m + 1]) /\ u[m + 1] = Consume(u[m], before[m + 1])
    BY <2>1 DEF Looping
  <2>3. QED
    BY <1>2, <2>1, <2>2
<1> HIDE DEF G
<1>3. \A m \in 0..Len(before) : m \in G
  BY <1>1, <1>2, UpTo
<1>4. Len(before) \in G
  BY <1>3
<1>5. QED
  BY <1>4 DEF G

(* Where a word is no number, what stands before and after it is replaced  *)
(* on its own.                                                             *)
LEMMA Splits ==
  ASSUME NEW W, Numbered(W), NEW text \in Seq(W), NEW j \in 0..Len(text),
         \/ j \in {0, Len(text)}
         \/ ~IsSpoken(text[j]) \/ ~IsSpoken(text[j + 1])
  PROVE  ReplaceSpokenAmounts(text) =
           ReplaceSpokenAmounts(SubSeq(text, 1, j)) \o ReplaceSpokenAmounts(SubSeq(text, j + 1, Len(text)))
<1>1. PICK n \in Nat : n = Len(text)
  OBVIOUS
<1>2. PICK before : before = SubSeq(text, 1, j)
  OBVIOUS
<1>3. PICK after : after = SubSeq(text, j + 1, n)
  OBVIOUS
<1>4. before \in Seq(W) /\ Len(before) = j /\ \A k \in 1..j : before[k] = text[k]
  BY <1>1, <1>2
<1>5. after \in Seq(W) /\ Len(after) = n - j /\ \A k \in 1..n - j : after[k] = text[j + k]
  BY <1>1, <1>3
<1>6. PICK v : Looping(W, text, v) /\ ReplaceSpokenAmounts(text) = Closed(v[n])
  BY <1>1, LoopOf
<1>7. PICK u : Looping(W, before, u) /\ ReplaceSpokenAmounts(before) = Closed(u[j])
  BY <1>4, LoopOf
<1>8. PICK w : Looping(W, after, w) /\ ReplaceSpokenAmounts(after) = Closed(w[n - j])
  BY <1>5, LoopOf
<1>9. v[j] = u[j] /\ v[j] \in Runs(W)
  <2>1. v[Len(before)] = u[Len(before)]
    BY <1>1, <1>4, <1>6, <1>7, SameStart
  <2>2. QED
    BY <1>1, <1>4, <1>6, <2>1 DEF Looping
<1>10. PICK P \in Seq(Said(W)) : P = Closed(v[j])
  BY <1>9, ClosedRun
<1>11. w[0] = NoRun /\ Closed(w[0]) = <<>>
  BY <1>8 DEF Looping, Closed, NoRun
<1>12. CASE j = n
  BY <1>1, <1>2, <1>3, <1>6, <1>7, <1>8, <1>9, <1>10, <1>11, <1>12, ConcatEmptySeq
<1>13. CASE j # n
  <2>0. j < n /\ j + 1 \in 1..n /\ 1 \in 1..n - j /\ j + 1 - 1 = j
    BY <1>1, <1>13
  <2>1. v[j + 1] = Consume(v[j], text[j + 1]) /\ w[1] = Consume(NoRun, text[j + 1]) /\ text[j + 1] \in W
    <3>1. w[1] = Consume(w[1 - 1], after[1])
      BY <1>5, <1>8, <2>0 DEF Looping
    <3>2. after[1] = text[j + 1] /\ 1 - 1 = 0
      BY <1>5, <2>0
    <3>3. QED
      BY <1>1, <1>6, <1>11, <2>0, <3>1, <3>2 DEF Looping
  <2>2. NoRun \in Runs(W)
    BY NoRunIsRun
  <2>3. ASSUME j = 0 \/ ~IsSpoken(text[j]) PROVE v[j + 1] = Shift(P, w[1])
    <3>1. v[j] = [out |-> P, open |-> FALSE, total |-> 0, current |-> 0]
      <4>1. CASE j = 0
        BY <1>6, <1>10, <4>1 DEF Looping, NoRun, Closed
      <4>2. CASE j # 0 /\ ~IsSpoken(text[j])
        <5>1. j \in 1..n /\ v[j] = Consume(v[j - 1], text[j])
          BY <1>1, <1>6, <4>2 DEF Looping
        <5>2. v[j] = [out |-> Append(Closed(v[j - 1]), text[j]), open |-> FALSE, total |-> 0, current |-> 0]
          BY <4>2, <5>1 DEF Consume, IsSpoken, NoRun
        <5>3. QED
          BY <1>10, <5>2 DEF Closed
      <4>3. QED
        BY <2>3, <4>1, <4>2
    <3>2. P \o <<>> = P
      BY ConcatEmptySeq
    <3>3. v[j] = Shift(P, NoRun)
      BY <3>1, <3>2 DEF Shift, NoRun
    <3>4. QED
      BY <2>1, <2>2, <3>3, ConsumeShift
  <2>4. ASSUME ~IsSpoken(text[j + 1]) PROVE v[j + 1] = Shift(P, w[1])
    <3>1. /\ v[j + 1] = [out |-> Append(P, text[j + 1]), open |-> FALSE, total |-> 0, current |-> 0]
          /\ w[1] = [out |-> Append(<<>>, text[j + 1]), open |-> FALSE, total |-> 0, current |-> 0]
      BY <1>10, <1>11, <2>1, <2>4 DEF Consume, IsSpoken, NoRun
    <3>2. text[j + 1] \in Said(W) /\ <<>> \in Seq(Said(W))
      BY <2>1 DEF Said
    <3>3. P \o Append(<<>>, text[j + 1]) = Append(P \o <<>>, text[j + 1]) /\ P \o <<>> = P
      BY <3>2, AppendAfter, ConcatEmptySeq
    <3>4. QED
      <4>1. PICK x, y : x = Append(<<>>, text[j + 1]) /\ y = Append(P, text[j + 1])
        OBVIOUS
      <4>2. P \o x = y
        BY <3>3, <4>1
      <4>3. w[1] = [out |-> x, open |-> FALSE, total |-> 0, current |-> 0]
            /\ v[j + 1] = [out |-> y, open |-> FALSE, total |-> 0, current |-> 0]
        BY <3>1, <4>1
      <4>4. QED
        BY <4>2, <4>3, ShiftPlain
  <2>5. v[j + 1] = Shift(P, w[1])
    <3>1. j = 0 \/ ~IsSpoken(text[j]) \/ ~IsSpoken(text[j + 1])
      BY <1>1, <1>13
    <3>2. QED
      BY <2>3, <2>4, <3>1
  <2> DEFINE G == {m \in 0..n - j - 1 : v[j + 1 + m] = Shift(P, w[1 + m])}
  <2>6. 0 \in G
    <3>1. 0 \in 0..n - j - 1 /\ j + 1 + 0 = j + 1 /\ 1 + 0 = 1
      BY <2>0
    <3>2. QED
      BY <2>5, <3>1
  <2>7. ASSUME NEW m \in 0..n - j - 1 - 1, m \in G PROVE m + 1 \in G
    <3>1. /\ m + 1 \in 0..n - j - 1 /\ j + 1 + (m + 1) \in 1..n /\ 1 + (m + 1) \in 1..n - j
          /\ j + 1 + (m + 1) - 1 = j + 1 + m /\ 1 + (m + 1) - 1 = 1 + m
          /\ j + (1 + (m + 1)) = j + 1 + (m + 1) /\ 1 + m \in 0..n - j
      BY <2>0
    <3>2. PICK token \in W : token = text[j + 1 + (m + 1)] /\ token = after[1 + (m + 1)]
      BY <1>1, <1>5, <3>1
    <3>3. v[j + 1 + (m + 1)] = Consume(v[j + 1 + m], token)
      <4>1. \A k \in 1..n : v[k] = Consume(v[k - 1], text[k])
        BY <1>1, <1>6 DEF Looping
      <4>2. v[j + 1 + (m + 1)] = Consume(v[j + 1 + (m + 1) - 1], text[j + 1 + (m + 1)])
        BY <3>1, <4>1
      <4>3. QED
        BY <3>1, <3>2, <4>2
    <3>4. w[1 + (m + 1)] = Consume(w[1 + m], token) /\ w[1 + m] \in Runs(W)
      BY <1>5, <1>8, <3>1, <3>2, SMTT(30) DEF Looping
    <3>5. v[j + 1 + m] = Shift(P, w[1 + m])
      BY <2>7
    <3>6. v[j + 1 + (m + 1)] = Shift(P, w[1 + (m + 1)])
      BY <3>3, <3>4, <3>5, ConsumeShift
    <3>7. QED
      BY <3>1, <3>6
  <2> HIDE DEF G
  <2>8. n - j - 1 \in Nat
    BY <2>0
  <2>9. \A m \in 0..n - j - 1 : m \in G
    BY <2>6, <2>7, <2>8, UpTo
  <2>10. n - j - 1 \in G /\ j + 1 + (n - j - 1) = n /\ 1 + (n - j - 1) = n - j
    BY <2>8, <2>9
  <2>11. v[n] = Shift(P, w[n - j]) /\ w[n - j] \in Runs(W)
    <3>1. n - j \in 0..n - j
      BY <2>0
    <3>2. QED
      BY <1>5, <1>8, <2>10, <3>1 DEF G, Looping
  <2>12. Closed(v[n]) = P \o Closed(w[n - j])
    BY <2>11, ClosedShift
  <2>13. QED
    BY <1>1, <1>2, <1>3, <1>6, <1>7, <1>8, <1>9, <1>10, <2>12
<1>14. QED
  BY <1>12, <1>13

(* A number alone becomes its value.                                       *)
LEMMA NumberIsValue ==
  ASSUME NEW W, NEW words, Spoken(W, words), words # <<>>, ScalesFall(words)
  PROVE  ReplaceSpokenAmounts(words) = <<Amount(ValueOf(words))>>
<1>1. PICK n \in Nat : n = Len(words) /\ n > 0
  BY DEF Spoken
<1>2. words \in Seq(W) /\ Numbered(W) /\ \A k \in 1..n : IsSpoken(words[k]) /\ words[k] \in W /\ words[k].n \in Nat
  BY <1>1 DEF Spoken, Numbered
<1>3. PICK v : Looping(W, words, v) /\ ReplaceSpokenAmounts(words) = Closed(v[n])
  BY <1>1, <1>2, LoopOf
<1>4. v[0] = NoRun /\ \A k \in 0..n : v[k] \in Runs(W)
  BY <1>1, <1>3 DEF Looping
<1>5. ASSUME NEW k \in 1..n
      PROVE  /\ v[k].out = v[k - 1].out /\ v[k].open = TRUE
             /\ IF words[k].w = "scale"
                THEN /\ v[k].current = 0
                     /\ v[k].total = v[k - 1].total
                          + (IF v[k - 1].current = 0 THEN 1 ELSE v[k - 1].current) * words[k].n
                ELSE v[k].current = v[k - 1].current + words[k].n /\ v[k].total = v[k - 1].total
  <2>1. v[k] = Consume(v[k - 1], words[k]) /\ v[k - 1] \in Runs(W)
    BY <1>1, <1>3, <1>4 DEF Looping
  <2>2. PICK r \in Runs(W) : r = v[k - 1]
    BY <2>1
  <2>3. CASE words[k].w = "scale"
    <3>1. v[k] = AddScale(r, words[k].n)
      BY <2>1, <2>2, <2>3 DEF Consume
    <3>2. QED
      BY <2>2, <2>3, <3>1 DEF AddScale, Runs
  <2>4. CASE words[k].w # "scale"
    <3>1. words[k].w \in {"one", "ten"}
      BY <1>2, <2>4 DEF IsSpoken
    <3>2. v[k] = [r EXCEPT !.open = TRUE, !.current = @ + words[k].n]
      BY <2>1, <2>2, <2>4, <3>1 DEF Consume
    <3>3. QED
      BY <2>2, <2>4, <3>2 DEF Runs
  <2>5. QED
    BY <2>3, <2>4
<1> DEFINE t == [k \in 0..n |-> v[k].total]
           c == [k \in 0..n |-> v[k].current]
<1>6. Adding(words, t, c)
  <2>1. t \in [0..n -> Nat] /\ c \in [0..n -> Nat]
    BY <1>4 DEF Runs
  <2>2. ASSUME NEW k \in 1..n
        PROVE  IF words[k].w = "scale"
               THEN c[k] = 0 /\ t[k] = t[k - 1] + (IF c[k - 1] = 0 THEN 1 ELSE c[k - 1]) * words[k].n
               ELSE c[k] = c[k - 1] + words[k].n /\ t[k] = t[k - 1]
    <3>1. k \in 0..n /\ k - 1 \in 0..n
      BY <1>1
    <3>2. t[k] = v[k].total /\ c[k] = v[k].current /\ t[k - 1] = v[k - 1].total /\ c[k - 1] = v[k - 1].current
      BY <3>1
    <3> HIDE DEF t, c
    <3>3. QED
      BY <1>5, <3>2
  <2> HIDE DEF t, c
  <2>3. QED
    BY <1>1, <2>1, <2>2 DEF Adding
<1>7. t[0] = 0 /\ c[0] = 0 /\ t[n] = v[n].total /\ c[n] = v[n].current
  BY <1>1, <1>4 DEF NoRun
<1> HIDE DEF t, c
<1>8. PICK f : ValueOf(words) = f[<<1, n>>] /\ RightUpTo(words, f, n)
  BY <1>1, <1>2, ValueByParts
<1>9. t[n] + c[n] = ValueOf(words)
  BY <1>1, <1>6, <1>7, <1>8, AddsUp
<1>10. v[n].out = <<>>
  <2> DEFINE G == {m \in 0..n : v[m].out = <<>>}
  <2>1. 0 \in G
    BY <1>1, <1>4 DEF NoRun
  <2>2. ASSUME NEW m \in 0..n - 1, m \in G PROVE m + 1 \in G
    <3>1. m + 1 \in 1..n /\ m + 1 - 1 = m /\ m + 1 \in 0..n
      BY <1>1
    <3>2. v[m + 1].out = v[m].out
      <4>1. PICK k \in 1..n : k = m + 1 /\ k - 1 = m
        BY <3>1
      <4>2. v[k].out = v[k - 1].out
        BY <1>5
      <4>3. QED
        BY <4>1, <4>2
    <3>3. QED
      BY <2>2, <3>1, <3>2
  <2> HIDE DEF G
  <2>3. \A m \in 0..n : m \in G
    BY <1>1, <2>1, <2>2, UpTo
  <2>4. n \in G
    BY <1>1, <2>3
  <2>5. QED
    BY <2>4 DEF G
<1>11. v[n].open = TRUE
  <2>1. n \in 1..n
    BY <1>1
  <2>2. QED
    BY <1>5, <2>1
<1>12. Closed(v[n]) = Append(<<>>, Amount(ValueOf(words)))
  BY <1>7, <1>9, <1>10, <1>11 DEF Closed
<1>13. PICK a : a = Amount(ValueOf(words))
  OBVIOUS
<1>14. Append(<<>>, a) = <<a>>
  OBVIOUS
<1>15. QED
  BY <1>3, <1>12, <1>13, <1>14

ParserInv == message \in Seq(Vocabulary)

(* A message is made of the words of the vocabulary.                       *)
LEMMA ParserKeepsWords == ParserSpec => []ParserInv
<1>1. ParserInit => ParserInv
  BY DEF ParserInit, ParserInv
<1>2. ParserInv /\ [ParserNext]_message => ParserInv'
  <2> SUFFICES ASSUME ParserInv, [ParserNext]_message PROVE ParserInv'
    OBVIOUS
  <2>1. ASSUME NEW token \in Vocabulary, Write(token) PROVE ParserInv'
    <3>1. message' = Append(message, token) /\ message \in Seq(Vocabulary)
      BY <2>1 DEF Write, ParserInv
    <3>2. Append(message, token) \in Seq(Vocabulary)
      BY <3>1, AppendProperties
    <3>3. QED
      BY <3>1, <3>2 DEF ParserInv
  <2>2. CASE SendMessage \/ UNCHANGED message
    <3>1. message' = <<>> \/ message' = message
      BY <2>2 DEF SendMessage
    <3>2. QED
      BY <3>1, EmptySeq DEF ParserInv
  <2>3. QED
    BY <2>1, <2>2 DEF ParserNext
<1>3. QED
  BY <1>1, <1>2, PTL DEF ParserSpec

(* A number inside a message, cut out of it at both ends.                  *)
LEMMA ValueInPlace ==
  ASSUME ParserInv
  PROVE  SpokenIsValue
<1> SUFFICES ASSUME NEW i \in DOMAIN message, NEW j \in DOMAIN message,
                    WellSaid(SubSeq(message, i, j)), ScalesFall(SubSeq(message, i, j)),
                    SubSeq(message, 1, i - 1) = <<>> \/ ~IsSpoken(message[i - 1]),
                    SubSeq(message, j + 1, Len(message)) = <<>> \/ ~IsSpoken(message[j + 1])
             PROVE  ReplaceSpokenAmounts(message) =
                      ReplaceSpokenAmounts(SubSeq(message, 1, i - 1))
                        \o <<Amount(ValueOf(SubSeq(message, i, j)))>>
                        \o ReplaceSpokenAmounts(SubSeq(message, j + 1, Len(message)))
  BY DEF SpokenIsValue
<1>1. PICK n \in Nat : n = Len(message) /\ i \in 1..n /\ j \in 1..n /\ message \in Seq(Vocabulary)
  BY DEF ParserInv
<1>2. Numbered(Vocabulary) /\ \A token \in Vocabulary : IsSpoken(token) => token.n > 0
  BY VocabularyAssumption DEF Numbered
<1>3. PICK number : number = SubSeq(message, i, j)
  OBVIOUS
<1>4. number # <<>> /\ \A k \in DOMAIN number : IsSpoken(number[k])
  <2>1. WellSaid(number) => number # <<>> /\ \A k \in DOMAIN number : IsSpoken(number[k])
    BY Zenon DEF WellSaid
  <2>2. QED
    BY <1>3, <2>1
<1>5. i <= j
  <2>1. j < i => number = <<>>
    BY <1>1, <1>3, SubSeqEmpty
  <2>2. QED
    BY <1>1, <1>4, <2>1
<1>6. number \in Seq(Vocabulary) /\ Len(number) = j - i + 1
  BY <1>1, <1>3, <1>5
<1>7. Spoken(Vocabulary, number)
  BY <1>2, <1>4, <1>6 DEF Spoken
<1>8. ReplaceSpokenAmounts(number) = <<Amount(ValueOf(number))>>
  BY <1>3, <1>4, <1>7, NumberIsValue
<1>9. PICK first : first = SubSeq(message, 1, j)
  OBVIOUS
<1>10. first \in Seq(Vocabulary) /\ Len(first) = j /\ \A k \in 1..j : first[k] = message[k]
  BY <1>1, <1>9
<1>11. ReplaceSpokenAmounts(message) =
         ReplaceSpokenAmounts(first) \o ReplaceSpokenAmounts(SubSeq(message, j + 1, n))
  <2>1. j \in 0..Len(message) /\ (j \in {0, Len(message)} \/ ~IsSpoken(message[j + 1]))
    <3>1. CASE SubSeq(message, j + 1, n) = <<>>
      <4>1. j = n
        <5>1. Len(SubSeq(message, j + 1, n)) = IF j + 1 <= n THEN n - (j + 1) + 1 ELSE 0
          BY <1>1
        <5>2. Len(SubSeq(message, j + 1, n)) = 0
          BY <3>1, EmptySeq
        <5>3. QED
          BY <1>1, <5>1, <5>2
      <4>2. QED
        BY <1>1, <4>1
    <3>2. CASE ~IsSpoken(message[j + 1])
      BY <1>1, <3>2
    <3>3. QED
      BY <1>1, <3>1, <3>2
  <2>2. QED
    BY <1>1, <1>2, <1>9, <2>1, Splits
<1>12. ReplaceSpokenAmounts(first) =
         ReplaceSpokenAmounts(SubSeq(message, 1, i - 1)) \o ReplaceSpokenAmounts(number)
  <2>1. SubSeq(first, 1, i - 1) = SubSeq(message, 1, i - 1)
    <3>1. CASE i = 1
      BY <3>1, SubSeqEmpty
    <3>2. CASE i # 1
      <4>1. j \in 1..Len(message) /\ 1 \in 1..Len(message) /\ 1 \in 1..j - 1 + 1 /\ i - 1 \in 1..j - 1 + 1
            /\ 1 + 1 - 1 = 1 /\ 1 + (i - 1) - 1 = i - 1
        BY <1>1, <1>5, <3>2
      <4>2. QED
        BY <1>1, <1>9, <4>1, SubSeqOfSubSeq
    <3>3. QED
      BY <3>1, <3>2
  <2>2. SubSeq(first, i - 1 + 1, j) = number
    <3>1. j \in 1..Len(message) /\ 1 \in 1..Len(message) /\ i \in 1..j - 1 + 1 /\ j \in 1..j - 1 + 1
          /\ 1 + i - 1 = i /\ 1 + j - 1 = j /\ i - 1 + 1 = i
      BY <1>1, <1>5
    <3>2. QED
      BY <1>1, <1>3, <1>9, <3>1, SubSeqOfSubSeq, SMTT(30)
  <2>3. i - 1 \in 0..Len(first) /\ (i - 1 \in {0, Len(first)} \/ ~IsSpoken(first[i - 1]))
    <3>1. i - 1 \in 0..j
      BY <1>1, <1>5
    <3>2. CASE i = 1
      BY <1>10, <3>1, <3>2
    <3>3. CASE i # 1
      <4>1. Len(SubSeq(message, 1, i - 1)) = i - 1 /\ i - 1 \in 1..j
        BY <1>1, <1>5, <3>3
      <4>2. SubSeq(message, 1, i - 1) # <<>>
        BY <3>3, <4>1
      <4>3. ~IsSpoken(first[i - 1])
        BY <1>10, <4>1, <4>2
      <4>4. QED
        BY <1>10, <3>1, <4>3
    <3>4. QED
      BY <3>2, <3>3
  <2>4. ReplaceSpokenAmounts(first) =
          ReplaceSpokenAmounts(SubSeq(first, 1, i - 1)) \o ReplaceSpokenAmounts(SubSeq(first, i - 1 + 1, Len(first)))
    BY <1>2, <1>10, <2>3, Splits
  <2>5. QED
    BY <1>10, <2>1, <2>2, <2>4
<1>13. QED
  BY <1>1, <1>3, <1>8, <1>11, <1>12

(* A number said in words, its scales falling, is replaced by its value in *)
(* messages of any length over any number words, whatever stands around it *)
(* that is not a number, and the rest of the message as if it stood alone. *)
THEOREM NumbersKeepTheirValue == ParserSpec => []SpokenIsValue
<1>1. QED
  BY ParserKeepsWords, ValueInPlace, PTL

-----------------------------------------------------------------------------
(* The rule parser: what the rules make of a sentence of any length.        *)

(* Where a pattern puts the words.                                         *)
APattern(pattern) == Len(pattern) \in Nat /\ DOMAIN pattern = 1..Len(pattern)
OneOpen(pattern, q) ==
  /\ APattern(pattern) /\ q \in 1..Len(pattern)
  /\ IsOpen(pattern[q]) /\ \A k \in 1..Len(pattern) : k # q => ~IsOpen(pattern[k])

LEMMA OpenPlace ==
  ASSUME NEW pattern, NEW q, OneOpen(pattern, q)
  PROVE  HasOpen(pattern) /\ OpenAt(pattern) = q
BY DEF OneOpen, APattern, HasOpen, OpenAt

(* With one open element, the words in front of it keep their places and   *)
(* those behind it move by what it takes.                                  *)
LEMMA AroundOpen ==
  ASSUME NEW pattern, NEW q, OneOpen(pattern, q), NEW words,
         NEW more \in Nat, Len(words) = Len(pattern) + more
  PROVE  /\ \A k \in 1..Len(pattern) : Place(pattern, words, k) = IF k <= q THEN k ELSE k + more
         /\ Captured(pattern, words) = SubSeq(words, q, q + more)
         /\ Fits(pattern, words) <=>
              \A k \in 1..Len(pattern) : k # q =>
                words[IF k <= q THEN k ELSE k + more].w \in pattern[k]
<1>0. PICK m \in Nat : m = Len(pattern) /\ q \in 1..m
  BY DEF OneOpen, APattern
<1>1. PICK n \in Nat : n = Len(words) /\ n - m = more /\ n >= m /\ q \in 1..m /\ m = Len(pattern)
  BY <1>0
<1>2. HasOpen(pattern) /\ OpenAt(pattern) = q /\ DOMAIN pattern = 1..m
      /\ IsOpen(pattern[q]) /\ \A k \in 1..m : k # q => ~IsOpen(pattern[k])
  BY <1>1, OpenPlace DEF OneOpen, APattern
<1>3. Spare(pattern, Len(words)) = n - m + 1 /\ n - m + 1 >= 1
  BY <1>1 DEF Spare
<1>4. \A k \in 1..m : Place(pattern, words, k) = IF k <= q THEN k ELSE k + (n - m)
  <2> SUFFICES ASSUME NEW k \in 1..m PROVE Place(pattern, words, k) = IF k <= q THEN k ELSE k + (n - m)
    OBVIOUS
  <2>1. Place(pattern, words, k) = IF k > q THEN k + (n - m + 1) - 1 ELSE k
    BY <1>2, <1>3 DEF Place
  <2>2. QED
    BY <1>1, <2>1
<1>5. Captured(pattern, words) = SubSeq(words, q, q + (n - m))
  <2>1. q + (n - m + 1) - 1 = q + (n - m)
    BY <1>1
  <2>2. Captured(pattern, words) = SubSeq(words, q, q + (n - m + 1) - 1)
    BY <1>2, <1>3 DEF Captured
  <2>3. QED
    BY <2>1, <2>2
<1>6. Fits(pattern, words) <=>
        \A k \in 1..m : k # q => words[IF k <= q THEN k ELSE k + (n - m)].w \in pattern[k]
  <2>1. Fits(pattern, words) <=>
          \A k \in 1..m : ~IsOpen(pattern[k]) => words[Place(pattern, words, k)].w \in pattern[k]
    <3>1. Spare(pattern, Len(words)) >= (IF pattern[q] = Text THEN 1 ELSE 0)
      BY <1>1, <1>3
    <3>2. QED
      BY <1>2, <3>1 DEF Fits
  <2>2. \A k \in 1..m : ~IsOpen(pattern[k]) <=> k # q
    BY <1>1, <1>2
  <2>3. \A k \in 1..m : words[Place(pattern, words, k)] = words[IF k <= q THEN k ELSE k + (n - m)]
    BY <1>4
  <2>4. QED
    BY <2>1, <2>2, <2>3
<1>7. QED
  BY <1>1, <1>4, <1>5, <1>6, SMTT(30)

LEMMA TooShort ==
  ASSUME NEW pattern, NEW q, OneOpen(pattern, q), pattern[q] = Text,
         NEW words, Len(words) \in Nat, Len(words) < Len(pattern)
  PROVE  ~Fits(pattern, words)
BY OpenPlace, SMTT(30) DEF OneOpen, APattern, Fits, Spare

(* A rule applies only to words among which are some that it names.        *)
Names(pattern, X) == APattern(pattern) /\ \E k \in 1..Len(pattern) : ~IsOpen(pattern[k]) /\ pattern[k] \subseteq X
RuleNames(rule, X) == \A p \in DOMAIN rule.patterns : Names(rule.patterns[p], X)

LEMMA FitsNames ==
  ASSUME NEW pattern, NEW X, Names(pattern, X), NEW W, NEW words \in Seq(W), Fits(pattern, words)
  PROVE  \E i \in 1..Len(words) : words[i].w \in X
<1>1. PICK n \in Nat, m \in Nat : n = Len(words) /\ m = Len(pattern) /\ DOMAIN pattern = 1..m
  <2>1. Len(words) \in Nat /\ Len(pattern) \in Nat /\ DOMAIN pattern = 1..Len(pattern)
    BY DEF Names, APattern
  <2>2. QED
    BY <2>1, ZenonT(60)
<1>2. PICK k \in 1..m : ~IsOpen(pattern[k]) /\ pattern[k] \subseteq X
  BY <1>1 DEF Names
<1>3. words[Place(pattern, words, k)].w \in pattern[k]
  BY <1>1, <1>2 DEF Fits
<1>4. Place(pattern, words, k) \in 1..n
  <2>1. CASE HasOpen(pattern)
    <3>1. PICK o \in 1..m : o = OpenAt(pattern) /\ IsOpen(pattern[o])
      BY <1>1, <2>1 DEF HasOpen, OpenAt
    <3>2. o # k /\ n - (m - 1) >= 0
      BY <1>1, <1>2, <2>1, <3>1 DEF Fits, Spare
    <3>3. Place(pattern, words, k) = IF k > o THEN k + (n - (m - 1)) - 1 ELSE k
      BY <1>1, <2>1, <3>1 DEF Place, Spare
    <3>4. QED
      BY <3>2, <3>3
  <2>2. CASE ~HasOpen(pattern)
    BY <1>1, <2>2 DEF Place, Fits
  <2>3. QED
    BY <2>1, <2>2
<1>5. QED
  BY <1>1, <1>2, <1>3, <1>4

(* A rule whose words do not occur does not apply.                         *)
LEMMA NamesUnmet ==
  ASSUME NEW rule, NEW X, RuleNames(rule, X), NEW W, NEW words \in Seq(W),
         \A i \in 1..Len(words) : words[i].w \notin X
  PROVE  ~Applies(rule, words)
<1> SUFFICES ASSUME Applies(rule, words) PROVE FALSE
  OBVIOUS
<1>1. PICK p \in DOMAIN rule.patterns : CanMatch(rule, rule.patterns[p], words)
  BY DEF Applies, Matching
<1>2. PICK pattern : pattern = rule.patterns[p] /\ Names(pattern, X)
  BY DEF RuleNames
<1>3. CASE rule.whole
  BY <1>1, <1>2, <1>3, FitsNames DEF CanMatch
<1>4. CASE ~rule.whole
  <2>1. PICK ij \in Windows(pattern, words) : TRUE
    BY <1>1, <1>2, <1>4 DEF CanMatch
  <2>2. PICK i \in 1..Len(words), j \in 1..Len(words) : i <= j /\ Fits(pattern, SubSeq(words, i, j))
    BY <2>1 DEF Windows
  <2>3. PICK piece : piece = SubSeq(words, i, j)
    OBVIOUS
  <2>4. piece \in Seq(W) /\ \A k \in 1..Len(piece) : piece[k] = words[i + k - 1] /\ i + k - 1 \in 1..Len(words)
    <3>1. \A k \in i..j : words[k] \in W
      OBVIOUS
    <3>2. /\ piece \in Seq(W) /\ Len(piece) = j - i + 1
          /\ \A k \in 1..j - i + 1 : piece[k] = words[i + k - 1]
      BY <2>2, <2>3, <3>1, SubSeqProperties
    <3>3. QED
      BY <2>2, <3>2
  <2>5. PICK k \in 1..Len(piece) : piece[k].w \in X
    BY <1>2, <2>2, <2>3, <2>4, FitsNames
  <2>6. QED
    BY <2>4, <2>5
<1>5. QED
  BY <1>3, <1>4

(* The rules in their order.                                               *)
LEMMA FirstIs ==
  ASSUME NEW rules, NEW words, NEW k \in DOMAIN rules, DOMAIN rules \subseteq Nat,
         Applies(rules[k], words), \A j \in DOMAIN rules : j < k => ~Applies(rules[j], words)
  PROVE  FirstOf(rules, words) = CommandOf(rules[k], words)
<1>1. k \in Hits(rules, words) /\ \A j \in Hits(rules, words) : k <= j /\ j \in Nat
  BY DEF Hits
<1>2. Min(Hits(rules, words)) = k
  BY <1>1 DEF Min
<1>3. QED
  BY <1>1, <1>2 DEF FirstOf, CommandOfFirst

LEMMA NoneOf ==
  ASSUME NEW rules, NEW words, \A j \in DOMAIN rules : ~Applies(rules[j], words)
  PROVE  FirstOf(rules, words) = Unknown
BY DEF FirstOf, CommandOfFirst, Hits

(* Patterns of one to four elements.                                       *)
LEMMA Elements ==
  /\ \A a : APattern(<<a>>) /\ Len(<<a>>) = 1 /\ <<a>>[1] = a
  /\ \A a, b : APattern(<<a, b>>) /\ Len(<<a, b>>) = 2 /\ <<a, b>>[1] = a /\ <<a, b>>[2] = b
  /\ \A a, b, c : /\ APattern(<<a, b, c>>) /\ Len(<<a, b, c>>) = 3
                  /\ <<a, b, c>>[1] = a /\ <<a, b, c>>[2] = b /\ <<a, b, c>>[3] = c
  /\ \A a, b, c, d : /\ APattern(<<a, b, c, d>>) /\ Len(<<a, b, c, d>>) = 4
                     /\ <<a, b, c, d>>[1] = a /\ <<a, b, c, d>>[2] = b
                     /\ <<a, b, c, d>>[3] = c /\ <<a, b, c, d>>[4] = d
BY DEF APattern

Within(e, X) == ~IsOpen(e) /\ e \subseteq X
LEMMA NamesOf ==
  ASSUME NEW X
  PROVE  /\ \A a : Within(a, X) => Names(<<a>>, X)
         /\ \A a, b : Within(a, X) \/ Within(b, X) => Names(<<a, b>>, X)
         /\ \A a, b, c : Within(a, X) \/ Within(b, X) \/ Within(c, X) => Names(<<a, b, c>>, X)
         /\ \A a, b, c, d : Within(a, X) \/ Within(b, X) \/ Within(c, X) \/ Within(d, X) =>
              Names(<<a, b, c, d>>, X)
<1>1. \A a : Within(a, X) => Names(<<a>>, X)
  BY Elements DEF Names, Within
<1>2. \A a, b : Within(a, X) \/ Within(b, X) => Names(<<a, b>>, X)
  BY Elements DEF Names, Within
<1>3. \A a, b, c : Within(a, X) \/ Within(b, X) \/ Within(c, X) => Names(<<a, b, c>>, X)
  BY Elements DEF Names, Within
<1>4. \A a, b, c, d : Within(a, X) \/ Within(b, X) \/ Within(c, X) \/ Within(d, X) =>
        Names(<<a, b, c, d>>, X)
  BY Elements DEF Names, Within
<1>5. QED
  BY <1>1, <1>2, <1>3, <1>4

LEMMA NotOpen == \A e, c : c \in e /\ c \notin {"one or more", "any"} => ~IsOpen(e)
BY DEF IsOpen, Text, Rest

(* A rule's lists of patterns, and the words that each rule names.         *)
LEMMA RuleIsItsFields ==
  ASSUME NEW patterns, NEW whole, NEW intent, NEW category, NEW sure, NEW unsure
  PROVE  LET rule == Rule(patterns, whole, intent, category, sure, unsure)
         IN  /\ rule.patterns = patterns /\ rule.whole = whole /\ rule.intent = intent
             /\ rule.category = category /\ rule.sure = sure /\ rule.unsure = unsure
BY DEF Rule

LEMMA PatternsName ==
  ASSUME NEW X, NEW whole, NEW intent, NEW category, NEW sure, NEW unsure
  PROVE  /\ \A p : Names(p, X) => RuleNames(Rule(<<p>>, whole, intent, category, sure, unsure), X)
         /\ \A p, q : Names(p, X) /\ Names(q, X) =>
              RuleNames(Rule(<<p, q>>, whole, intent, category, sure, unsure), X)
         /\ \A p, q, r : Names(p, X) /\ Names(q, X) /\ Names(r, X) =>
              RuleNames(Rule(<<p, q, r>>, whole, intent, category, sure, unsure), X)
<1>1. \A p : DOMAIN <<p>> = {1} /\ <<p>>[1] = p
  OBVIOUS
<1>2. \A p, q : DOMAIN <<p, q>> = {1, 2} /\ <<p, q>>[1] = p /\ <<p, q>>[2] = q
  OBVIOUS
<1>3. \A p, q, r : DOMAIN <<p, q, r>> = {1, 2, 3}
                   /\ <<p, q, r>>[1] = p /\ <<p, q, r>>[2] = q /\ <<p, q, r>>[3] = r
  OBVIOUS
<1>4. \A p : Names(p, X) => RuleNames(Rule(<<p>>, whole, intent, category, sure, unsure), X)
  BY <1>1, RuleIsItsFields DEF RuleNames
<1>5. \A p, q : Names(p, X) /\ Names(q, X) =>
        RuleNames(Rule(<<p, q>>, whole, intent, category, sure, unsure), X)
  BY <1>2, RuleIsItsFields DEF RuleNames
<1>6. \A p, q, r : Names(p, X) /\ Names(q, X) /\ Names(r, X) =>
        RuleNames(Rule(<<p, q, r>>, whole, intent, category, sure, unsure), X)
  BY <1>3, RuleIsItsFields DEF RuleNames
<1>7. QED
  BY <1>4, <1>5, <1>6

LEMMA RulesName ==
  /\ RuleNames(PaidMe, {"KEFELE"})
  /\ RuleNames(PaidThem, {"KEFELKU"})
  /\ RuleNames(AmSpent, {"KEFELKU", "AWETAHU", "WECHI"})
  /\ RuleNames(AmIncome, {"TEQEBELKU"})
  /\ RuleNames(OwesMe, {"ABEDEREGN"})
  /\ RuleNames(IOweAm, {"ALEBIGN"})
  /\ RuleNames(AmBudgetLead, {"BAJET"})
  /\ RuleNames(AmBudgetTrail, {"BAJET"})
  /\ RuleNames(AmSaveLead, {"QUTABA"})
  /\ RuleNames(AmSaveTrail, {"QUTABA"})
  /\ RuleNames(AmSpending, {"SINT"})
  /\ RuleNames(DebtPaidByPerson, {"paid", "pay"})
  /\ RuleNames(DebtPaidToPerson, {"paid", "pay"})
  /\ RuleNames(Spent, {"spent", "paid"})
  /\ RuleNames(Salary, {"salary"})
  /\ RuleNames(Income, {"got"})
  /\ RuleNames(OwedToMe, {"owes"})
  /\ RuleNames(IOwe, {"owe"})
  /\ RuleNames(BudgetLead, {"budget"})
  /\ RuleNames(BudgetTrail, {"budget"})
  /\ RuleNames(SavingsLead, {"save"})
  /\ RuleNames(SavingsTrail, {"save"})
<1>1. RuleNames(PaidMe, {"KEFELE"})
  <2>1. Within({"KEFELE"}, {"KEFELE"})
    BY DEF Within, IsOpen, Text, Rest
  <2>2. QED
    BY <2>1, NamesOf, PatternsName, ZenonT(60) DEF PaidMe
<1>2. RuleNames(PaidThem, {"KEFELKU"})
  <2>1. Within({"KEFELKU"}, {"KEFELKU"})
    BY DEF Within, IsOpen, Text, Rest
  <2>2. QED
    BY <2>1, NamesOf, PatternsName, ZenonT(60) DEF PaidThem
<1>3. RuleNames(AmSpent, {"KEFELKU", "AWETAHU", "WECHI"})
  <2>1. /\ Within({"KEFELKU", "AWETAHU", "WECHI"}, {"KEFELKU", "AWETAHU", "WECHI"})
        /\ Within({"KEFELKU", "AWETAHU"}, {"KEFELKU", "AWETAHU", "WECHI"})
    BY DEF Within, IsOpen, Text, Rest
  <2>2. QED
    BY <2>1, NamesOf, PatternsName, ZenonT(60) DEF AmSpent
<1>4. RuleNames(AmIncome, {"TEQEBELKU"})
  <2>1. Within({"TEQEBELKU"}, {"TEQEBELKU"})
    BY DEF Within, IsOpen, Text, Rest
  <2>2. QED
    BY <2>1, NamesOf, PatternsName, ZenonT(60) DEF AmIncome
<1>5. RuleNames(OwesMe, {"ABEDEREGN"})
  <2>1. Within({"ABEDEREGN"}, {"ABEDEREGN"})
    BY DEF Within, IsOpen, Text, Rest
  <2>2. QED
    BY <2>1, NamesOf, PatternsName, ZenonT(60) DEF OwesMe
<1>6. RuleNames(IOweAm, {"ALEBIGN"})
  <2>1. Within({"ALEBIGN"}, {"ALEBIGN"})
    BY DEF Within, IsOpen, Text, Rest
  <2>2. QED
    BY <2>1, NamesOf, PatternsName, ZenonT(60) DEF IOweAm
<1>7. RuleNames(AmBudgetLead, {"BAJET"})
  <2>1. Within({"BAJET"}, {"BAJET"})
    BY DEF Within, IsOpen, Text, Rest
  <2>2. QED
    BY <2>1, NamesOf, PatternsName, ZenonT(60) DEF AmBudgetLead
<1>8. RuleNames(AmBudgetTrail, {"BAJET"})
  <2>1. Within({"BAJET"}, {"BAJET"})
    BY DEF Within, IsOpen, Text, Rest
  <2>2. QED
    BY <2>1, NamesOf, PatternsName, ZenonT(60) DEF AmBudgetTrail
<1>9. RuleNames(AmSaveLead, {"QUTABA"})
  <2>1. Within({"QUTABA"}, {"QUTABA"})
    BY DEF Within, IsOpen, Text, Rest
  <2>2. QED
    BY <2>1, NamesOf, PatternsName, ZenonT(60) DEF AmSaveLead
<1>10. RuleNames(AmSaveTrail, {"QUTABA"})
  <2>1. Within({"QUTABA"}, {"QUTABA"})
    BY DEF Within, IsOpen, Text, Rest
  <2>2. QED
    BY <2>1, NamesOf, PatternsName, ZenonT(60) DEF AmSaveTrail
<1>11. RuleNames(AmSpending, {"SINT"})
  <2>1. Within({"SINT"}, {"SINT"})
    BY DEF Within, IsOpen, Text, Rest
  <2>2. QED
    BY <2>1, NamesOf, PatternsName, ZenonT(60) DEF AmSpending
<1>12. RuleNames(DebtPaidByPerson, {"paid", "pay"})
  <2>1. Within({"paid", "pay"}, {"paid", "pay"})
    BY DEF Within, IsOpen, Text, Rest
  <2>2. QED
    BY <2>1, NamesOf, PatternsName, ZenonT(60) DEF DebtPaidByPerson
<1>13. RuleNames(DebtPaidToPerson, {"paid", "pay"})
  <2>1. Within({"paid", "pay"}, {"paid", "pay"})
    BY DEF Within, IsOpen, Text, Rest
  <2>2. QED
    BY <2>1, NamesOf, PatternsName, ZenonT(60) DEF DebtPaidToPerson
<1>14. RuleNames(Spent, {"spent", "paid"})
  <2>1. Within({"spent", "paid"}, {"spent", "paid"})
    BY DEF Within, IsOpen, Text, Rest
  <2>2. QED
    BY <2>1, NamesOf, PatternsName, ZenonT(60) DEF Spent
<1>15. RuleNames(Salary, {"salary"})
  <2>1. Within({"salary"}, {"salary"})
    BY DEF Within, IsOpen, Text, Rest
  <2>2. QED
    BY <2>1, NamesOf, PatternsName, ZenonT(60) DEF Salary
<1>16. RuleNames(Income, {"got"})
  <2>1. Within({"got"}, {"got"})
    BY DEF Within, IsOpen, Text, Rest
  <2>2. QED
    BY <2>1, NamesOf, PatternsName, ZenonT(60) DEF Income
<1>17. RuleNames(OwedToMe, {"owes"})
  <2>1. Within({"owes"}, {"owes"})
    BY DEF Within, IsOpen, Text, Rest
  <2>2. QED
    BY <2>1, NamesOf, PatternsName, ZenonT(60) DEF OwedToMe
<1>18. RuleNames(IOwe, {"owe"})
  <2>1. Within({"owe"}, {"owe"})
    BY DEF Within, IsOpen, Text, Rest
  <2>2. QED
    BY <2>1, NamesOf, PatternsName, ZenonT(60) DEF IOwe
<1>19. RuleNames(BudgetLead, {"budget"})
  <2>1. Within({"budget"}, {"budget"})
    BY DEF Within, IsOpen, Text, Rest
  <2>2. QED
    BY <2>1, NamesOf, PatternsName, ZenonT(60) DEF BudgetLead
<1>20. RuleNames(BudgetTrail, {"budget"})
  <2>1. Within({"budget"}, {"budget"})
    BY DEF Within, IsOpen, Text, Rest
  <2>2. QED
    BY <2>1, NamesOf, PatternsName, ZenonT(60) DEF BudgetTrail
<1>21. RuleNames(SavingsLead, {"save"})
  <2>1. Within({"save"}, {"save"})
    BY DEF Within, IsOpen, Text, Rest
  <2>2. QED
    BY <2>1, NamesOf, PatternsName, ZenonT(60) DEF SavingsLead
<1>22. RuleNames(SavingsTrail, {"save"})
  <2>1. Within({"save"}, {"save"})
    BY DEF Within, IsOpen, Text, Rest
  <2>2. QED
    BY <2>1, NamesOf, PatternsName, ZenonT(60) DEF SavingsTrail
<1>23. QED
  BY <1>1, <1>2, <1>3, <1>4, <1>5, <1>6, <1>7, <1>8, <1>9, <1>10, <1>11, <1>12,
     <1>13, <1>14, <1>15, <1>16, <1>17, <1>18, <1>19, <1>20, <1>21, <1>22

(* A message without number words and currencies goes to the rules as it   *)
(* was written.                                                            *)
NoNumbers(words) == \A i \in 1..Len(words) : ~IsSpoken(words[i])

LEMMA NothingToReplace ==
  ASSUME NEW W, Numbered(W), NEW text \in Seq(W), NoNumbers(text)
  PROVE  ReplaceSpokenAmounts(text) = text
<1>1. PICK n \in Nat : n = Len(text)
  OBVIOUS
<1>2. PICK v : Looping(W, text, v) /\ ReplaceSpokenAmounts(text) = Closed(v[n])
  BY <1>1, LoopOf
<1> DEFINE Plainly(m) == [out |-> SubSeq(text, 1, m), open |-> FALSE, total |-> 0, current |-> 0]
           G == {m \in 0..n : v[m] = Plainly(m)}
<1>3. 0 \in G
  <2>0. <<>> = SubSeq(text, 1, 0)
    BY SubSeqEmpty
  <2>1. PICK o : o = <<>> /\ o = SubSeq(text, 1, 0)
    BY <2>0, Zenon
  <2>2. v[0] = [out |-> o, open |-> FALSE, total |-> 0, current |-> 0]
    BY <1>2, <2>1 DEF Looping, NoRun
  <2>3. 0 \in 0..n /\ v[0] = Plainly(0)
    BY <1>1, <2>1, <2>2
  <2>4. QED
    BY <2>3
<1>4. ASSUME NEW m \in 0..n - 1, m \in G PROVE m + 1 \in G
  <2>1. m + 1 \in 1..n /\ m + 1 - 1 = m
    BY <1>1
  <2>2. v[m + 1] = Consume(v[m], text[m + 1])
    <3>1. \A k \in 1..n : v[k] = Consume(v[k - 1], text[k])
      BY <1>1, <1>2 DEF Looping
    <3>2. v[m + 1] = Consume(v[m + 1 - 1], text[m + 1])
      BY <2>1, <3>1
    <3>3. QED
      BY <2>1, <3>2
  <2>3. PICK o : o = SubSeq(text, 1, m)
    OBVIOUS
  <2>4. v[m] = [out |-> o, open |-> FALSE, total |-> 0, current |-> 0]
    BY <1>4, <2>3
  <2>5. Closed(v[m]) = o
    BY <2>4 DEF Closed
  <2>6. ~IsSpoken(text[m + 1])
    BY <1>1, <2>1 DEF NoNumbers
  <2>7. v[m + 1] = [out |-> Append(o, text[m + 1]), open |-> FALSE, total |-> 0, current |-> 0]
    BY <2>2, <2>5, <2>6 DEF Consume, IsSpoken, NoRun
  <2>8. SubSeq(text, 1, m + 1) = Append(o, text[m + 1])
    BY <1>1, <2>1, <2>3
  <2>9. v[m + 1] = Plainly(m + 1)
    BY <2>7, <2>8
  <2>10. m + 1 \in 0..n
    BY <2>1
  <2>11. QED
    BY <2>9, <2>10
<1> HIDE DEF G
<1>5. \A m \in 0..n : m \in G
  BY <1>1, <1>3, <1>4, UpTo
<1>6. n \in G
  BY <1>1, <1>5
<1>7. SubSeq(text, 1, n) = text
  BY <1>1, SubSeqFull
<1>8. v[n] = [out |-> text, open |-> FALSE, total |-> 0, current |-> 0]
  BY <1>6, <1>7 DEF G
<1>9. QED
  BY <1>2, <1>8 DEF Closed

LEMMA NothingToLeaveOut ==
  ASSUME NEW W, NEW text \in Seq(W), \A i \in 1..Len(text) : text[i].w # "birr"
  PROVE  SpokenCurrency(text) = text
<1>1. PICK n \in Nat : n = Len(text) /\ DOMAIN text = 1..n
  OBVIOUS
<1> DEFINE H(h) == h = [s \in SUBSET DOMAIN text |->
                          IF s = {} THEN <<>> ELSE UnlessCurrency(h[s \ {Max(s)}], text[Max(s)])]
           step == [p \in (1..n) \X Seq(W) |-> Append(p[2], text[p[1]])]
<1>2. \A i \in 1..n, kept0 \in Seq(W) : step[<<i, kept0>>] = UnlessCurrency(kept0, text[i])
  BY <1>1 DEF UnlessCurrency
<1>3. step \in [(1..n) \X Seq(W) -> Seq(W)]
  BY <1>1, AppendProperties
<1> HIDE DEF step
<1>4. PICK g : Folding(g, Seq(W), <<>>, n, step)
  <2>1. <<>> \in Seq(W)
    BY EmptySeq
  <2>2. QED
    BY <1>1, <1>3, <2>1, FoldExists
<1>5. H(g)
  <2>0. /\ g \in [SUBSET (1..n) -> Seq(W)]
        /\ \A s \in SUBSET (1..n) : g[s] = IF s = {} THEN <<>> ELSE step[<<Max(s), g[s \ {Max(s)}]>>]
    BY <1>4 DEF Folding
  <2>1. ASSUME NEW s \in SUBSET (1..n)
        PROVE  g[s] = IF s = {} THEN <<>> ELSE UnlessCurrency(g[s \ {Max(s)}], text[Max(s)])
    <3>1. CASE s = {}
      BY <2>0, <3>1
    <3>2. CASE s # {}
      <4>1. Max(s) \in 1..n
        <5>1. s \subseteq Nat /\ \A x \in s : x <= n
          BY <1>1
        <5>2. Max(s) \in s
          BY <1>1, <3>2, <5>1, LargestOf
        <5>3. QED
          BY <5>2
      <4>2. g[s \ {Max(s)}] \in Seq(W)
        BY <2>0
      <4>3. QED
        BY <1>2, <2>0, <3>2, <4>1, <4>2
    <3>3. QED
      BY <3>1, <3>2
  <2>2. QED
    BY <1>1, <2>0, <2>1
<1>6. PICK h : h = (CHOOSE f : H(f)) /\ H(h)
  BY <1>5
<1>7. SpokenCurrency(text) = h[1..n]
  BY <1>1, <1>6 DEF SpokenCurrency, FoldLeft, MapThenFoldSet
<1> DEFINE G == {m \in 0..n : h[1..m] = SubSeq(text, 1, m)}
<1>8. 0 \in G
  <2>1. SubSeq(text, 1, 0) = <<>> /\ 1..0 = {} /\ {} \in SUBSET DOMAIN text /\ 0 \in 0..n
    BY <1>1, SubSeqEmpty
  <2>2. h[{}] = <<>>
    BY <1>6
  <2>3. QED
    BY <2>1, <2>2
<1>9. ASSUME NEW m \in 0..n - 1, m \in G PROVE m + 1 \in G
  <2>1. m + 1 \in 1..n /\ m \in Nat
    BY <1>1
  <2>2. 1..m + 1 \in SUBSET DOMAIN text /\ 1..m + 1 # {} /\ (1..m + 1) \ {m + 1} = 1..m
    BY <1>1, <2>1
  <2>3. Max(1..m + 1) = m + 1
    BY <2>1, MaxOfInitial
  <2>4. h[1..m + 1] = UnlessCurrency(h[(1..m + 1) \ {Max(1..m + 1)}], text[Max(1..m + 1)])
    BY <1>6, <2>2
  <2>5. h[1..m + 1] = UnlessCurrency(SubSeq(text, 1, m), text[m + 1])
    BY <1>9, <2>2, <2>3, <2>4
  <2>6. h[1..m + 1] = Append(SubSeq(text, 1, m), text[m + 1])
    BY <1>1, <2>1, <2>5 DEF UnlessCurrency
  <2>7. SubSeq(text, 1, m + 1) = Append(SubSeq(text, 1, m), text[m + 1])
    BY <1>1, <2>1
  <2>8. QED
    BY <2>1, <2>6, <2>7, SMTT(30)
<1> HIDE DEF G
<1>10. \A m \in 0..n : m \in G
  BY <1>1, <1>8, <1>9, UpTo
<1>11. n \in G
  BY <1>1, <1>10
<1>12. QED
  BY <1>1, <1>7, <1>11, SubSeqFull DEF G

(* A sentence: words with a few more in front of them and behind them.     *)
Around(s, words, a, b) ==
  /\ Len(s) = a + Len(words) + b
  /\ \A i \in 1..Len(words) : s[a + i] = words[i]

LEMMA Surrounded ==
  ASSUME NEW T, NEW s \in Seq(T), NEW words \in Seq(T), NEW a \in Nat, NEW b \in Nat, Around(s, words, a, b)
  PROVE  SubSeq(s, a + 1, a + Len(words)) = words
<1>1. PICK n \in Nat : n = Len(words) /\ Len(s) = a + n + b /\ \A i \in 1..n : s[a + i] = words[i]
  BY SMTT(30) DEF Around
<1>2. PICK piece : piece = SubSeq(s, a + 1, a + n)
  OBVIOUS
<1>3. /\ piece \in Seq(T) /\ Len(piece) = n
      /\ \A i \in 1..n : piece[i] = s[a + i]
  <2>1. \A i \in a + 1..a + n : s[i] \in T
    BY <1>1
  <2>2. /\ piece \in Seq(T) /\ Len(piece) = (IF a + 1 <= a + n THEN a + n - (a + 1) + 1 ELSE 0)
        /\ \A i \in 1..a + n - (a + 1) + 1 : piece[i] = s[a + 1 + i - 1]
    BY <1>1, <1>2, <2>1, SubSeqProperties
  <2>3. \A i \in 1..n : a + 1 + i - 1 = a + i
    BY <1>1
  <2>4. QED
    BY <1>1, <2>2, <2>3
<1>4. piece = words
  BY <1>1, <1>3
<1>5. QED
  BY <1>1, <1>2, <1>4

LEMMA Behind ==
  ASSUME NEW T, NEW s \in Seq(T), NEW words \in Seq(T), NEW a \in Nat, NEW b \in Nat,
         Around(s, words, a, b), NEW one \in Seq(T), Len(one) = 1
  PROVE  LET t == s \o one IN
         /\ t \in Seq(T) /\ Around(t, words, a, b + 1)
         /\ t[Len(s) + 1] = one[1] /\ \A i \in 1..Len(s) : t[i] = s[i]
<1>0. PICK t : t = s \o one
  OBVIOUS
<1>1. PICK n \in Nat : n = Len(words) /\ Len(s) = a + n + b /\ \A i \in 1..n : s[a + i] = words[i]
  BY DEF Around
<1>2. /\ t \in Seq(T) /\ Len(t) = a + n + b + 1
      /\ t[a + n + b + 1] = one[1] /\ \A i \in 1..a + n + b : t[i] = s[i]
  <2>1. /\ t \in Seq(T) /\ Len(t) = a + n + b + 1
        /\ \A i \in 1..a + n + b + 1 : t[i] = IF i <= a + n + b THEN s[i] ELSE one[i - (a + n + b)]
    <3>1. PICK k \in Nat : k = Len(s) /\ k = a + n + b
      BY <1>1
    <3>2. PICK l \in Nat : l = Len(one) /\ l = 1
      OBVIOUS
    <3>3. /\ s \o one \in Seq(T) /\ Len(s \o one) = Len(s) + Len(one)
          /\ \A i \in 1..Len(s) + Len(one) : (s \o one)[i] = IF i <= Len(s) THEN s[i] ELSE one[i - Len(s)]
      BY ConcatProperties
    <3>4. QED
      BY <1>0, <3>1, <3>2, <3>3
  <2>2. a + n + b + 1 \in 1..a + n + b + 1 /\ a + n + b + 1 - (a + n + b) = 1
        /\ ~(a + n + b + 1 <= a + n + b)
    BY <1>1
  <2>3. QED
    BY <1>1, <2>1, <2>2
<1>3. \A i \in 1..n : a + i \in 1..a + n + b
  BY <1>1
<1>4. QED
  BY <1>0, <1>1, <1>2, <1>3 DEF Around

LEMMA InFront ==
  ASSUME NEW T, NEW s \in Seq(T), NEW words \in Seq(T)
  PROVE  LET t == s \o words IN
         /\ t \in Seq(T) /\ Around(t, words, Len(s), 0)
         /\ \A i \in 1..Len(s) : t[i] = s[i]
<1> DEFINE t == s \o words
<1>1. PICK n \in Nat, a \in Nat : n = Len(words) /\ a = Len(s)
  OBVIOUS
<1>2. t \in Seq(T) /\ Len(t) = a + n /\ \A i \in 1..a + n : t[i] = IF i <= a THEN s[i] ELSE words[i - a]
  BY <1>1, ConcatProperties
<1>3. \A i \in 1..n : t[a + i] = words[i]
  <2> SUFFICES ASSUME NEW i \in 1..n PROVE t[a + i] = words[i]
    OBVIOUS
  <2>1. a + i \in 1..a + n /\ ~(a + i <= a) /\ a + i - a = i
    BY <1>1
  <2>2. QED
    BY <1>2, <2>1
<1>4. QED
  BY <1>1, <1>2, <1>3 DEF Around

LEMMA Bare == ASSUME NEW T, NEW words \in Seq(T) PROVE Around(words, words, 0, 0)
BY DEF Around

Seven == <<Amount(7)>>
Saying(c) == <<Word(c)>>
LEMMA Single ==
  ASSUME NEW T
  PROVE  /\ \A c : Word(c) \in T => Saying(c) \in Seq(T) /\ Len(Saying(c)) = 1 /\ Saying(c)[1] = Word(c)
         /\ Amount(7) \in T => Seven \in Seq(T) /\ Len(Seven) = 1 /\ Seven[1] = Amount(7)
BY DEF Saying, Seven

(* The forms of the sentences, by the places of their words.               *)
LEMMA Trailing ==
  ASSUME NEW T, NEW words \in Seq(T), NEW c, Word(c) \in T, Amount(7) \in T
  PROVE  LET s == words \o Saying(c) \o Seven IN
         /\ s \in Seq(T) /\ Around(s, words, 0, 2)
         /\ s[Len(words) + 1] = Word(c) /\ s[Len(words) + 2] = Amount(7)
<1>1. PICK t : t = words \o Saying(c)
  OBVIOUS
<1>2. t \in Seq(T) /\ Around(t, words, 0, 1) /\ t[Len(words) + 1] = Word(c)
  <2>1. /\ t \in Seq(T) /\ Around(t, words, 0, 0 + 1) /\ t[Len(words) + 1] = Word(c)
    BY <1>1, Bare, Behind, Single
  <2>2. QED
    BY <2>1
<1>3. Len(t) = Len(words) + 1
  BY <1>2 DEF Around
<1>4. PICK s : s = t \o Seven
  OBVIOUS
<1>5. /\ s \in Seq(T) /\ Around(s, words, 0, 1 + 1) /\ s[Len(t) + 1] = Amount(7)
      /\ \A i \in 1..Len(t) : s[i] = t[i]
  BY <1>2, <1>4, Behind, Single
<1>6. QED
  BY <1>1, <1>2, <1>3, <1>4, <1>5 DEF Around

WordsThenTwo(words, c, d) == words \o Saying(c) \o Saying(d) \o Seven
LEMMA TrailingTwo ==
  ASSUME NEW T, NEW words \in Seq(T), NEW c, NEW d, Word(c) \in T, Word(d) \in T, Amount(7) \in T
  PROVE  LET s == WordsThenTwo(words, c, d) IN
         /\ s \in Seq(T) /\ Around(s, words, 0, 3)
         /\ s[Len(words) + 1] = Word(c) /\ s[Len(words) + 2] = Word(d) /\ s[Len(words) + 3] = Amount(7)
<1>1. PICK t : t = words \o Saying(c)
  OBVIOUS
<1>2. t \in Seq(T) /\ Around(t, words, 0, 1) /\ t[Len(words) + 1] = Word(c)
  <2>1. /\ t \in Seq(T) /\ Around(t, words, 0, 0 + 1) /\ t[Len(words) + 1] = Word(c)
    BY <1>1, Bare, Behind, Single
  <2>2. QED
    BY <2>1
<1>3. Len(t) = Len(words) + 1
  BY <1>2 DEF Around
<1>4. PICK u : u = t \o Saying(d)
  OBVIOUS
<1>5. /\ u \in Seq(T) /\ Around(u, words, 0, 1 + 1) /\ u[Len(t) + 1] = Word(d)
      /\ \A i \in 1..Len(t) : u[i] = t[i]
  BY <1>2, <1>4, Behind, Single
<1>6. Len(u) = Len(words) + 2
  BY <1>5 DEF Around
<1>7. PICK s : s = u \o Seven
  OBVIOUS
<1>8. /\ s \in Seq(T) /\ Around(s, words, 0, 1 + 1 + 1) /\ s[Len(u) + 1] = Amount(7)
      /\ \A i \in 1..Len(u) : s[i] = u[i]
  BY <1>5, <1>7, Behind, Single
<1>9. s = WordsThenTwo(words, c, d)
  BY <1>1, <1>4, <1>7 DEF WordsThenTwo
<1>10. QED
  BY <1>2, <1>3, <1>5, <1>6, <1>8, <1>9, SMTT(30)

LEMMA Leading ==
  ASSUME NEW T, NEW words \in Seq(T), NEW c, Word(c) \in T, Amount(7) \in T
  PROVE  LET s == Saying(c) \o Seven \o words IN
         s \in Seq(T) /\ Around(s, words, 2, 0) /\ s[1] = Word(c) /\ s[2] = Amount(7)
<1>1. PICK t : t = Saying(c) \o Seven
  OBVIOUS
<1>2. t \in Seq(T) /\ Len(t) = 2 /\ t[1] = Word(c) /\ t[2] = Amount(7)
  BY <1>1 DEF Saying, Seven
<1>3. PICK s : s = t \o words
  OBVIOUS
<1>4. s \in Seq(T) /\ Around(s, words, Len(t), 0) /\ \A i \in 1..Len(t) : s[i] = t[i]
  BY <1>2, <1>3, InFront
<1>5. s[1] = Word(c) /\ s[2] = Amount(7) /\ Around(s, words, 2, 0)
  BY <1>2, <1>4
<1>6. QED
  BY <1>1, <1>3, <1>4, <1>5

LEMMA Between ==
  ASSUME NEW T, NEW words \in Seq(T), NEW c, Word(c) \in T, Amount(7) \in T
  PROVE  LET s == Saying(c) \o words \o Seven IN
         s \in Seq(T) /\ Around(s, words, 1, 1) /\ s[1] = Word(c) /\ s[Len(words) + 2] = Amount(7)
<1>1. PICK t : t = Saying(c) \o words
  OBVIOUS
<1>2. Saying(c) \in Seq(T) /\ Len(Saying(c)) = 1 /\ Saying(c)[1] = Word(c)
  BY DEF Saying
<1>3. t \in Seq(T) /\ Around(t, words, 1, 0) /\ t[1] = Word(c)
  <2>1. t \in Seq(T) /\ Around(t, words, Len(Saying(c)), 0) /\ \A i \in 1..Len(Saying(c)) : t[i] = Saying(c)[i]
    BY <1>1, <1>2, InFront
  <2>2. QED
    BY <1>2, <2>1
<1>4. Len(t) = Len(words) + 1
  BY <1>3 DEF Around
<1>5. PICK s : s = t \o Seven
  OBVIOUS
<1>6. /\ s \in Seq(T) /\ Around(s, words, 1, 0 + 1) /\ s[Len(t) + 1] = Amount(7)
      /\ \A i \in 1..Len(t) : s[i] = t[i]
  BY <1>3, <1>5, Behind, Single
<1>7. QED
  BY <1>1, <1>3, <1>4, <1>5, <1>6 DEF Around

WordsAfterTwo(c, d, words) == Saying(c) \o Saying(d) \o words \o Seven
LEMMA BetweenTwo ==
  ASSUME NEW T, NEW words \in Seq(T), NEW c, NEW d, Word(c) \in T, Word(d) \in T, Amount(7) \in T
  PROVE  LET s == WordsAfterTwo(c, d, words) IN
         /\ s \in Seq(T) /\ Around(s, words, 2, 1)
         /\ s[1] = Word(c) /\ s[2] = Word(d) /\ s[Len(words) + 3] = Amount(7)
<1>1. PICK r : r = Saying(c) \o Saying(d)
  OBVIOUS
<1>2. r \in Seq(T) /\ Len(r) = 2 /\ r[1] = Word(c) /\ r[2] = Word(d)
  BY <1>1 DEF Saying
<1>3. PICK t : t = r \o words
  OBVIOUS
<1>4. t \in Seq(T) /\ Around(t, words, 2, 0) /\ t[1] = Word(c) /\ t[2] = Word(d)
  <2>1. t \in Seq(T) /\ Around(t, words, Len(r), 0) /\ \A i \in 1..Len(r) : t[i] = r[i]
    BY <1>2, <1>3, InFront
  <2>2. QED
    BY <1>2, <2>1
<1>5. Len(t) = Len(words) + 2
  BY <1>4 DEF Around
<1>6. PICK s : s = t \o Seven
  OBVIOUS
<1>7. /\ s \in Seq(T) /\ Around(s, words, 2, 0 + 1) /\ s[Len(t) + 1] = Amount(7)
      /\ \A i \in 1..Len(t) : s[i] = t[i]
  BY <1>4, <1>6, Behind, Single
<1>8. s[1] = Word(c) /\ s[2] = Word(d) /\ s[Len(words) + 3] = Amount(7)
  BY <1>4, <1>5, <1>7
<1>9. Around(s, words, 2, 1)
  BY <1>7
<1>10. s = WordsAfterTwo(c, d, words)
  BY <1>1, <1>3, <1>6 DEF WordsAfterTwo
<1>11. QED
  BY <1>7, <1>8, <1>9, <1>10

LEMMA NumberLast ==
  ASSUME NEW T, NEW words \in Seq(T), Amount(7) \in T
  PROVE  LET s == words \o Seven IN
         s \in Seq(T) /\ Around(s, words, 0, 1) /\ s[Len(words) + 1] = Amount(7)
<1> DEFINE s == words \o Seven
<1>1. s \in Seq(T) /\ Around(s, words, 0, 0 + 1) /\ s[Len(words) + 1] = Amount(7)
  BY Bare, Behind, Single
<1>2. QED
  BY <1>1

LEMMA NumberFirst ==
  ASSUME NEW T, NEW words \in Seq(T), Amount(7) \in T
  PROVE  LET s == Seven \o words IN
         s \in Seq(T) /\ Around(s, words, 1, 0) /\ s[1] = Amount(7)
<1> DEFINE s == Seven \o words
<1>1. Seven \in Seq(T) /\ Len(Seven) = 1 /\ Seven[1] = Amount(7)
  BY DEF Seven
<1>2. s \in Seq(T) /\ Around(s, words, Len(Seven), 0) /\ \A i \in 1..Len(Seven) : s[i] = Seven[i]
  BY <1>1, InFront
<1>3. QED
  BY <1>1, <1>2

Stands(pattern, q, s, words, a, b) ==
  /\ words # <<>> /\ a \in Nat /\ b \in Nat /\ Around(s, words, a, b)
  /\ OneOpen(pattern, q) /\ q = a + 1 /\ Len(pattern) = q + b
  /\ \A k \in 1..Len(pattern) : k < q => s[k].w \in pattern[k]
  /\ \A k \in 1..Len(pattern) : k > q => s[k + Len(words) - 1].w \in pattern[k]

(* A pattern that stands around plain words captures them.                 *)
LEMMA Captures ==
  ASSUME NEW T, NEW s \in Seq(T), NEW words \in Seq(T), NEW pattern, NEW q, NEW a, NEW b,
         Stands(pattern, q, s, words, a, b)
  PROVE  /\ Fits(pattern, s) /\ Captured(pattern, s) = words
         /\ \A k \in 1..Len(pattern) :
              /\ k < q => Place(pattern, s, k) = k
              /\ k > q => Place(pattern, s, k) = k + Len(words) - 1
<1>1. /\ words # <<>> /\ a \in Nat /\ b \in Nat /\ Around(s, words, a, b)
      /\ OneOpen(pattern, q) /\ q = a + 1 /\ Len(pattern) = q + b
  BY DEF Stands
<1>2. PICK n \in Nat : n = Len(words) /\ n >= 1 /\ Len(s) = a + n + b
  BY <1>1 DEF Around
<1>3. PICK m \in Nat : m = Len(pattern) /\ m = a + b + 1 /\ q \in 1..m
  BY <1>1
<1>4. PICK more \in Nat : more = n - 1 /\ Len(s) = m + more
  BY <1>1, <1>2, <1>3
<1>5. /\ \A k \in 1..m : Place(pattern, s, k) = IF k <= q THEN k ELSE k + more
      /\ Captured(pattern, s) = SubSeq(s, q, q + more)
      /\ Fits(pattern, s) <=>
           \A k \in 1..m : k # q => s[IF k <= q THEN k ELSE k + more].w \in pattern[k]
  <2>1. more \in Nat /\ Len(s) = Len(pattern) + more
    BY <1>3, <1>4
  <2>0. OneOpen(pattern, q)
    BY <1>1
  <2>2. /\ \A k \in 1..Len(pattern) : Place(pattern, s, k) = IF k <= q THEN k ELSE k + more
        /\ Captured(pattern, s) = SubSeq(s, q, q + more)
        /\ Fits(pattern, s) <=>
             \A k \in 1..Len(pattern) : k # q =>
               s[IF k <= q THEN k ELSE k + more].w \in pattern[k]
    BY <2>0, <2>1, AroundOpen, ZenonT(60)
  <2>3. QED
    BY <1>3, <2>2
<1>6. Captured(pattern, s) = words
  <2>1. q + more = a + n
    BY <1>1, <1>2, <1>3, <1>4
  <2>2. SubSeq(s, a + 1, a + Len(words)) = words
    BY <1>1, Surrounded
  <2>3. QED
    BY <1>1, <1>2, <1>5, <2>1, <2>2
<1>7. ASSUME NEW k \in 1..m, k # q
      PROVE  s[IF k <= q THEN k ELSE k + more].w \in pattern[k]
  <2>1. k > q => k + more = k + n - 1
    BY <1>4
  <2>2. (k < q => s[k].w \in pattern[k]) /\ (k > q => s[k + n - 1].w \in pattern[k])
    <3>1. k \in 1..Len(pattern)
      BY <1>3
    <3>2. \A i \in 1..Len(pattern) : i < q => s[i].w \in pattern[i]
      BY DEF Stands
    <3>3. \A i \in 1..Len(pattern) : i > q => s[i + Len(words) - 1].w \in pattern[i]
      BY DEF Stands
    <3>4. k > q => s[k + n - 1].w \in pattern[k]
      BY <1>2, <3>1, <3>3
    <3>5. QED
      BY <3>1, <3>2, <3>4
  <2>3. (k < q \/ k > q) /\ (k < q => k <= q) /\ (k > q => ~(k <= q))
    BY <1>3, <1>7
  <2>4. QED
    BY <2>1, <2>2, <2>3
<1>8. ASSUME NEW k \in 1..m
      PROVE  /\ k < q => Place(pattern, s, k) = k
             /\ k > q => Place(pattern, s, k) = k + n - 1
  BY <1>3, <1>4, <1>5, SMTT(30)
<1>9. QED
  BY <1>2, <1>3, <1>5, <1>6, <1>7, <1>8

(* The amount of a pattern with one number.                                *)
LEMMA AmountAt ==
  ASSUME NEW pattern, APattern(pattern), NEW k \in 1..Len(pattern), pattern[k] = Num,
         \A j \in 1..Len(pattern) : j # k => pattern[j] # Num, NEW words
  PROVE  AmountOf(pattern, words) = words[Place(pattern, words, k)].n
<1> DEFINE First(j) == pattern[j] = Num /\ \A i \in 1..j - 1 : pattern[i] # Num
<1>1. PICK m \in Nat : m = Len(pattern) /\ DOMAIN pattern = 1..m
  BY ZenonT(60) DEF APattern
<1>2. First(k) /\ \A j \in 1..m : First(j) => j = k
  <2>1. \A i \in 1..k - 1 : i \in 1..m /\ i # k
    BY <1>1
  <2>2. QED
    BY <1>1, <2>1
<1>3. (CHOOSE j \in 1..m : First(j)) = k
  <2> HIDE DEF First
  <2>1. QED
    BY <1>1, <1>2
<1>4. QED
  BY <1>1, <1>3 DEF AmountOf

LEMMA Opens ==
  /\ IsOpen(Text) /\ IsOpen(Rest) /\ ~IsOpen(Num) /\ Text # Num /\ Rest # Num
  /\ \A X : ~IsOpen(X) => X # Text /\ X # Rest
  /\ \A c : Word(c).w = c /\ Word(c).n = 0
  /\ \A v : Amount(v).w = "num" /\ Amount(v).n = v /\ Amount(v).w \in Num
BY DEF IsOpen, Text, Rest, Num, Word, Amount

(* What the forms of the patterns read in the forms of the sentences.      *)
Reads(pattern, s, words) ==
  Fits(pattern, s) /\ Captured(pattern, s) = words /\ AmountOf(pattern, s) = 7

LEMMA ReadTrailing ==
  ASSUME NEW T, NEW s \in Seq(T), NEW words \in Seq(T), words # <<>>, Around(s, words, 0, 2),
         NEW c, s[Len(words) + 1] = Word(c), s[Len(words) + 2] = Amount(7),
         NEW X, c \in X, ~IsOpen(X), X # Num
  PROVE  Reads(<<Text, X, Num>>, s, words)
<1>1. PICK pattern : pattern = <<Text, X, Num>>
  OBVIOUS
<1>2. /\ APattern(pattern) /\ Len(pattern) = 3
      /\ pattern[1] = Text /\ pattern[2] = X /\ pattern[3] = Num
  BY <1>1, Elements
<1>3. OneOpen(pattern, 1)
  BY <1>2, Opens DEF OneOpen
<1>4. /\ \A k \in 1..3 : k < 1 => s[k].w \in pattern[k]
      /\ \A k \in 1..3 : k > 1 => s[k + Len(words) - 1].w \in pattern[k]
  <2>1. PICK n \in Nat : n = Len(words)
    OBVIOUS
  <2>2. s[2 + n - 1].w \in pattern[2] /\ s[3 + n - 1].w \in pattern[3]
    <3>1. 2 + n - 1 = n + 1 /\ 3 + n - 1 = n + 2
      BY <2>1
    <3>2. QED
      BY <1>2, <2>1, <3>1, Opens
  <2>4. QED
    BY <2>1, <2>2
<1>5. /\ Fits(pattern, s) /\ Captured(pattern, s) = words
      /\ \A k \in 1..3 : /\ k < 1 => Place(pattern, s, k) = k
                        /\ k > 1 => Place(pattern, s, k) = k + Len(words) - 1
  <2>1. Stands(pattern, 1, s, words, 0, 2)
    BY <1>2, <1>3, <1>4 DEF Stands
  <2>2. /\ Fits(pattern, s) /\ Captured(pattern, s) = words
        /\ \A k \in 1..Len(pattern) :
             /\ k < 1 => Place(pattern, s, k) = k
             /\ k > 1 => Place(pattern, s, k) = k + Len(words) - 1
    BY <2>1, Captures
  <2>3. QED
    BY <1>2, <2>2
<1>6. AmountOf(pattern, s) = s[Place(pattern, s, 3)].n
  <2>1. /\ APattern(pattern) /\ 3 \in 1..Len(pattern) /\ pattern[3] = Num
        /\ \A j \in 1..Len(pattern) : j # 3 => pattern[j] # Num
    BY <1>2, Opens
  <2>2. QED
    BY <2>1, AmountAt
<1>7. Place(pattern, s, 3) = Len(words) + 2
  <2>1. 3 \in 1..3 /\ 3 > 1
    OBVIOUS
  <2>2. QED
    BY <1>5, <2>1
<1>8. QED
  BY <1>1, <1>5, <1>6, <1>7, Opens DEF Reads

LEMMA ReadTrailingTwo ==
  ASSUME NEW T, NEW s \in Seq(T), NEW words \in Seq(T), words # <<>>, Around(s, words, 0, 3),
         NEW c, NEW d, s[Len(words) + 1] = Word(c), s[Len(words) + 2] = Word(d), s[Len(words) + 3] = Amount(7),
         NEW X, c \in X, ~IsOpen(X), X # Num, NEW Y, d \in Y, ~IsOpen(Y), Y # Num
  PROVE  Reads(<<Text, X, Y, Num>>, s, words)
<1>1. PICK pattern : pattern = <<Text, X, Y, Num>>
  OBVIOUS
<1>2. /\ APattern(pattern) /\ Len(pattern) = 4
      /\ pattern[1] = Text /\ pattern[2] = X /\ pattern[3] = Y /\ pattern[4] = Num
  BY <1>1, Elements
<1>3. OneOpen(pattern, 1)
  BY <1>2, Opens DEF OneOpen
<1>4. /\ \A k \in 1..4 : k < 1 => s[k].w \in pattern[k]
      /\ \A k \in 1..4 : k > 1 => s[k + Len(words) - 1].w \in pattern[k]
  <2>1. PICK n \in Nat : n = Len(words)
    OBVIOUS
  <2>2. s[2 + n - 1].w \in pattern[2] /\ s[3 + n - 1].w \in pattern[3] /\ s[4 + n - 1].w \in pattern[4]
    <3>1. 2 + n - 1 = n + 1 /\ 3 + n - 1 = n + 2 /\ 4 + n - 1 = n + 3
      BY <2>1
    <3>2. QED
      BY <1>2, <2>1, <3>1, Opens
  <2>4. QED
    BY <2>1, <2>2
<1>5. /\ Fits(pattern, s) /\ Captured(pattern, s) = words
      /\ \A k \in 1..4 : /\ k < 1 => Place(pattern, s, k) = k
                        /\ k > 1 => Place(pattern, s, k) = k + Len(words) - 1
  <2>1. Stands(pattern, 1, s, words, 0, 3)
    BY <1>2, <1>3, <1>4 DEF Stands
  <2>2. /\ Fits(pattern, s) /\ Captured(pattern, s) = words
        /\ \A k \in 1..Len(pattern) :
             /\ k < 1 => Place(pattern, s, k) = k
             /\ k > 1 => Place(pattern, s, k) = k + Len(words) - 1
    BY <2>1, Captures
  <2>3. QED
    BY <1>2, <2>2
<1>6. AmountOf(pattern, s) = s[Place(pattern, s, 4)].n
  <2>1. /\ APattern(pattern) /\ 4 \in 1..Len(pattern) /\ pattern[4] = Num
        /\ \A j \in 1..Len(pattern) : j # 4 => pattern[j] # Num
    BY <1>2, Opens
  <2>2. QED
    BY <2>1, AmountAt
<1>7. Place(pattern, s, 4) = Len(words) + 3
  <2>1. 4 \in 1..4 /\ 4 > 1
    OBVIOUS
  <2>2. QED
    BY <1>5, <2>1
<1>8. QED
  BY <1>1, <1>5, <1>6, <1>7, Opens DEF Reads

LEMMA ReadLeading ==
  ASSUME NEW T, NEW s \in Seq(T), NEW words \in Seq(T), words # <<>>, Around(s, words, 2, 0),
         NEW c, s[1] = Word(c), s[2] = Amount(7),
         NEW X, c \in X, ~IsOpen(X), X # Num, NEW open \in {Text, Rest}
  PROVE  Reads(<<X, Num, open>>, s, words)
<1>1. PICK pattern : pattern = <<X, Num, open>>
  OBVIOUS
<1>2. /\ APattern(pattern) /\ Len(pattern) = 3
      /\ pattern[1] = X /\ pattern[2] = Num /\ pattern[3] = open
  BY <1>1, Elements
<1>3. OneOpen(pattern, 3)
  BY <1>2, Opens DEF OneOpen
<1>4. /\ \A k \in 1..3 : k < 3 => s[k].w \in pattern[k]
      /\ \A k \in 1..3 : k > 3 => s[k + Len(words) - 1].w \in pattern[k]
  <2>3. s[1].w \in pattern[1] /\ s[2].w \in pattern[2]
    BY <1>2, Opens
  <2>4. QED
    BY <2>3
<1>5. /\ Fits(pattern, s) /\ Captured(pattern, s) = words
      /\ \A k \in 1..3 : k < 3 => Place(pattern, s, k) = k
  <2>1. Stands(pattern, 3, s, words, 2, 0)
    BY <1>2, <1>3, <1>4 DEF Stands
  <2>2. /\ Fits(pattern, s) /\ Captured(pattern, s) = words
        /\ \A k \in 1..Len(pattern) :
             /\ k < 3 => Place(pattern, s, k) = k
             /\ k > 3 => Place(pattern, s, k) = k + Len(words) - 1
    BY <2>1, Captures
  <2>3. QED
    BY <1>2, <2>2
<1>6. AmountOf(pattern, s) = s[Place(pattern, s, 2)].n
  <2>1. /\ APattern(pattern) /\ 2 \in 1..Len(pattern) /\ pattern[2] = Num
        /\ \A j \in 1..Len(pattern) : j # 2 => pattern[j] # Num
    BY <1>2, Opens
  <2>2. QED
    BY <2>1, AmountAt
<1>7. Place(pattern, s, 2) = 2
  <2>1. 2 \in 1..3 /\ 2 < 3
    OBVIOUS
  <2>2. QED
    BY <1>5, <2>1
<1>8. QED
  BY <1>1, <1>5, <1>6, <1>7, Opens DEF Reads

LEMMA ReadBetween ==
  ASSUME NEW T, NEW s \in Seq(T), NEW words \in Seq(T), words # <<>>, Around(s, words, 1, 1),
         NEW c, s[1] = Word(c), s[Len(words) + 2] = Amount(7),
         NEW X, c \in X, ~IsOpen(X), X # Num
  PROVE  Reads(<<X, Text, Num>>, s, words)
<1>1. PICK pattern : pattern = <<X, Text, Num>>
  OBVIOUS
<1>2. /\ APattern(pattern) /\ Len(pattern) = 3
      /\ pattern[1] = X /\ pattern[2] = Text /\ pattern[3] = Num
  BY <1>1, Elements
<1>3. OneOpen(pattern, 2)
  BY <1>2, Opens DEF OneOpen
<1>4. /\ \A k \in 1..3 : k < 2 => s[k].w \in pattern[k]
      /\ \A k \in 1..3 : k > 2 => s[k + Len(words) - 1].w \in pattern[k]
  <2>1. PICK n \in Nat : n = Len(words)
    OBVIOUS
  <2>2. s[3 + n - 1].w \in pattern[3]
    <3>1. 3 + n - 1 = n + 2
      BY <2>1
    <3>2. QED
      BY <1>2, <2>1, <3>1, Opens
  <2>3. s[1].w \in pattern[1]
    BY <1>2, Opens
  <2>4. QED
    BY <2>1, <2>2, <2>3
<1>5. /\ Fits(pattern, s) /\ Captured(pattern, s) = words
      /\ \A k \in 1..3 : /\ k < 2 => Place(pattern, s, k) = k
                        /\ k > 2 => Place(pattern, s, k) = k + Len(words) - 1
  <2>1. Stands(pattern, 2, s, words, 1, 1)
    BY <1>2, <1>3, <1>4 DEF Stands
  <2>2. /\ Fits(pattern, s) /\ Captured(pattern, s) = words
        /\ \A k \in 1..Len(pattern) :
             /\ k < 2 => Place(pattern, s, k) = k
             /\ k > 2 => Place(pattern, s, k) = k + Len(words) - 1
    BY <2>1, Captures
  <2>3. QED
    BY <1>2, <2>2
<1>6. AmountOf(pattern, s) = s[Place(pattern, s, 3)].n
  <2>1. /\ APattern(pattern) /\ 3 \in 1..Len(pattern) /\ pattern[3] = Num
        /\ \A j \in 1..Len(pattern) : j # 3 => pattern[j] # Num
    BY <1>2, Opens
  <2>2. QED
    BY <2>1, AmountAt
<1>7. Place(pattern, s, 3) = Len(words) + 2
  <2>1. 3 \in 1..3 /\ 3 > 2
    OBVIOUS
  <2>2. QED
    BY <1>5, <2>1
<1>8. QED
  BY <1>1, <1>5, <1>6, <1>7, Opens DEF Reads

LEMMA ReadBetweenTwo ==
  ASSUME NEW T, NEW s \in Seq(T), NEW words \in Seq(T), words # <<>>, Around(s, words, 2, 1),
         NEW c, NEW d, s[1] = Word(c), s[2] = Word(d), s[Len(words) + 3] = Amount(7),
         NEW X, c \in X, ~IsOpen(X), X # Num, NEW Y, d \in Y, ~IsOpen(Y), Y # Num
  PROVE  Reads(<<X, Y, Text, Num>>, s, words)
<1>1. PICK pattern : pattern = <<X, Y, Text, Num>>
  OBVIOUS
<1>2. /\ APattern(pattern) /\ Len(pattern) = 4
      /\ pattern[1] = X /\ pattern[2] = Y /\ pattern[3] = Text /\ pattern[4] = Num
  BY <1>1, Elements
<1>3. OneOpen(pattern, 3)
  BY <1>2, Opens DEF OneOpen
<1>4. /\ \A k \in 1..4 : k < 3 => s[k].w \in pattern[k]
      /\ \A k \in 1..4 : k > 3 => s[k + Len(words) - 1].w \in pattern[k]
  <2>1. PICK n \in Nat : n = Len(words)
    OBVIOUS
  <2>2. s[4 + n - 1].w \in pattern[4]
    <3>1. 4 + n - 1 = n + 3
      BY <2>1
    <3>2. QED
      BY <1>2, <2>1, <3>1, Opens
  <2>3. s[1].w \in pattern[1] /\ s[2].w \in pattern[2]
    BY <1>2, Opens
  <2>4. QED
    BY <2>1, <2>2, <2>3
<1>5. /\ Fits(pattern, s) /\ Captured(pattern, s) = words
      /\ \A k \in 1..4 : /\ k < 3 => Place(pattern, s, k) = k
                        /\ k > 3 => Place(pattern, s, k) = k + Len(words) - 1
  <2>1. Stands(pattern, 3, s, words, 2, 1)
    BY <1>2, <1>3, <1>4 DEF Stands
  <2>2. /\ Fits(pattern, s) /\ Captured(pattern, s) = words
        /\ \A k \in 1..Len(pattern) :
             /\ k < 3 => Place(pattern, s, k) = k
             /\ k > 3 => Place(pattern, s, k) = k + Len(words) - 1
    BY <2>1, Captures
  <2>3. QED
    BY <1>2, <2>2
<1>6. AmountOf(pattern, s) = s[Place(pattern, s, 4)].n
  <2>1. /\ APattern(pattern) /\ 4 \in 1..Len(pattern) /\ pattern[4] = Num
        /\ \A j \in 1..Len(pattern) : j # 4 => pattern[j] # Num
    BY <1>2, Opens
  <2>2. QED
    BY <2>1, AmountAt
<1>7. Place(pattern, s, 4) = Len(words) + 3
  <2>1. 4 \in 1..4 /\ 4 > 3
    OBVIOUS
  <2>2. QED
    BY <1>5, <2>1
<1>8. QED
  BY <1>1, <1>5, <1>6, <1>7, Opens DEF Reads

LEMMA ReadNumberLast ==
  ASSUME NEW T, NEW s \in Seq(T), NEW words \in Seq(T), words # <<>>, Around(s, words, 0, 1),
         s[Len(words) + 1] = Amount(7)
  PROVE  Reads(<<Text, Num>>, s, words)
<1>1. PICK pattern : pattern = <<Text, Num>>
  OBVIOUS
<1>2. APattern(pattern) /\ Len(pattern) = 2 /\ pattern[1] = Text /\ pattern[2] = Num
  BY <1>1, Elements
<1>3. OneOpen(pattern, 1)
  BY <1>2, Opens DEF OneOpen
<1>4. /\ \A k \in 1..2 : k < 1 => s[k].w \in pattern[k]
      /\ \A k \in 1..2 : k > 1 => s[k + Len(words) - 1].w \in pattern[k]
  <2>1. PICK n \in Nat : n = Len(words)
    OBVIOUS
  <2>2. s[2 + n - 1].w \in pattern[2]
    <3>1. 2 + n - 1 = n + 1
      BY <2>1
    <3>2. QED
      BY <1>2, <2>1, <3>1, Opens
  <2>4. QED
    BY <2>1, <2>2
<1>5. /\ Fits(pattern, s) /\ Captured(pattern, s) = words
      /\ \A k \in 1..2 : /\ k < 1 => Place(pattern, s, k) = k
                        /\ k > 1 => Place(pattern, s, k) = k + Len(words) - 1
  <2>1. Stands(pattern, 1, s, words, 0, 1)
    BY <1>2, <1>3, <1>4 DEF Stands
  <2>2. /\ Fits(pattern, s) /\ Captured(pattern, s) = words
        /\ \A k \in 1..Len(pattern) :
             /\ k < 1 => Place(pattern, s, k) = k
             /\ k > 1 => Place(pattern, s, k) = k + Len(words) - 1
    BY <2>1, Captures
  <2>3. QED
    BY <1>2, <2>2
<1>6. AmountOf(pattern, s) = s[Place(pattern, s, 2)].n
  <2>1. /\ APattern(pattern) /\ 2 \in 1..Len(pattern) /\ pattern[2] = Num
        /\ \A j \in 1..Len(pattern) : j # 2 => pattern[j] # Num
    BY <1>2, Opens
  <2>2. QED
    BY <2>1, AmountAt
<1>7. Place(pattern, s, 2) = Len(words) + 1
  <2>1. 2 \in 1..2 /\ 2 > 1
    OBVIOUS
  <2>2. QED
    BY <1>5, <2>1
<1>8. QED
  BY <1>1, <1>5, <1>6, <1>7, Opens DEF Reads

LEMMA ReadNumberFirst ==
  ASSUME NEW T, NEW s \in Seq(T), NEW words \in Seq(T), words # <<>>, Around(s, words, 1, 0), s[1] = Amount(7)
  PROVE  Reads(<<Num, Text>>, s, words)
<1>1. PICK pattern : pattern = <<Num, Text>>
  OBVIOUS
<1>2. APattern(pattern) /\ Len(pattern) = 2 /\ pattern[1] = Num /\ pattern[2] = Text
  BY <1>1, Elements
<1>3. OneOpen(pattern, 2)
  BY <1>2, Opens DEF OneOpen
<1>4. /\ \A k \in 1..2 : k < 2 => s[k].w \in pattern[k]
      /\ \A k \in 1..2 : k > 2 => s[k + Len(words) - 1].w \in pattern[k]
  <2>3. s[1].w \in pattern[1]
    BY <1>2, Opens
  <2>4. QED
    BY <2>3
<1>5. /\ Fits(pattern, s) /\ Captured(pattern, s) = words
      /\ \A k \in 1..2 : k < 2 => Place(pattern, s, k) = k
  <2>1. Stands(pattern, 2, s, words, 1, 0)
    BY <1>2, <1>3, <1>4 DEF Stands
  <2>2. /\ Fits(pattern, s) /\ Captured(pattern, s) = words
        /\ \A k \in 1..Len(pattern) :
             /\ k < 2 => Place(pattern, s, k) = k
             /\ k > 2 => Place(pattern, s, k) = k + Len(words) - 1
    BY <2>1, Captures
  <2>3. QED
    BY <1>2, <2>2
<1>6. AmountOf(pattern, s) = s[Place(pattern, s, 1)].n
  <2>1. /\ APattern(pattern) /\ 1 \in 1..Len(pattern) /\ pattern[1] = Num
        /\ \A j \in 1..Len(pattern) : j # 1 => pattern[j] # Num
    BY <1>2, Opens
  <2>2. QED
    BY <2>1, AmountAt
<1>7. Place(pattern, s, 1) = 1
  <2>1. 1 \in 1..2 /\ 1 < 2
    OBVIOUS
  <2>2. QED
    BY <1>5, <2>1
<1>8. QED
  BY <1>1, <1>5, <1>6, <1>7, Opens DEF Reads

(* What a rule makes of a sentence that one of its patterns reads.         *)
Meant(rule, words) == Command(rule, CategoryFor(rule, CategoryOf(words)), 7)

(* Its category is that of the words it captures.                          *)
NotOfMessage(rule) == rule.category # "of message"

(* The first of a rule's patterns that reads a sentence makes its command. *)
LEMMA Answers ==
  ASSUME NEW rule, NEW s, NEW words, NEW p \in DOMAIN rule.patterns, DOMAIN rule.patterns \subseteq Nat,
         CanMatch(rule, rule.patterns[p], s), Covered(rule, rule.patterns[p], s) = s,
         Reads(rule.patterns[p], s, words), Accepts(rule, words, s),
         \A r \in DOMAIN rule.patterns : r < p => ~CanMatch(rule, rule.patterns[r], s),
         NotOfMessage(rule)
  PROVE  Applies(rule, s) /\ CommandOf(rule, s) = Meant(rule, words)
<1>1. p \in Matching(rule, s) /\ \A r \in Matching(rule, s) : r \in Nat /\ p \in Nat /\ p <= r
  BY DEF Matching
<1>2. Min(Matching(rule, s)) = p
  <2>1. \A x \in Matching(rule, s) : (\A y \in Matching(rule, s) : x <= y) => x = p
    BY <1>1
  <2>2. \A y \in Matching(rule, s) : p <= y
    BY <1>1
  <2>3. QED
    BY <1>1, <2>1, <2>2 DEF Min
<1>3. PatternFor(rule, s) = rule.patterns[p]
  BY <1>2 DEF PatternFor
<1>4. CapturedBy(rule, rule.patterns[p], s) = words
  BY DEF CapturedBy, Reads
<1>5. Applies(rule, s)
  BY <1>1, <1>3, <1>4 DEF Applies
<1>6. AmountOf(rule.patterns[p], Covered(rule, rule.patterns[p], s)) = 7
  BY DEF Reads
<1>7. Naming(rule, rule.patterns[p], s) = words
  BY <1>4 DEF Naming, NotOfMessage
<1>8. QED
  BY <1>3, <1>5, <1>6, <1>7 DEF CommandOf, Reading, Meant

(* One pattern that stands for the whole message.                          *)
LEMMA WholeRule ==
  ASSUME NEW rule, NEW pattern, rule.patterns = <<pattern>>, rule.whole = TRUE, NEW s, NEW words,
         Reads(pattern, s, words), Accepts(rule, words, s),
         NotOfMessage(rule)
  PROVE  Applies(rule, s) /\ CommandOf(rule, s) = Meant(rule, words)
<1>1. DOMAIN rule.patterns = {1} /\ rule.patterns[1] = pattern
  OBVIOUS
<1>2. CanMatch(rule, pattern, s) /\ Covered(rule, pattern, s) = s
  BY DEF CanMatch, Covered, Reads
<1>3. 1 \in DOMAIN rule.patterns /\ DOMAIN rule.patterns \subseteq Nat
      /\ \A r \in DOMAIN rule.patterns : ~(r < 1)
  BY <1>1
<1>4. QED
  BY <1>1, <1>2, <1>3, Answers

(* The two patterns of a rule that stand for the whole message.            *)
LEMMA WholeRuleFirst ==
  ASSUME NEW rule, NEW pattern, NEW other, rule.patterns = <<pattern, other>>, rule.whole = TRUE,
         NEW s, NEW words, Reads(pattern, s, words), Accepts(rule, words, s),
         NotOfMessage(rule)
  PROVE  Applies(rule, s) /\ CommandOf(rule, s) = Meant(rule, words)
<1>1. DOMAIN rule.patterns = {1, 2} /\ rule.patterns[1] = pattern
  OBVIOUS
<1>2. CanMatch(rule, pattern, s) /\ Covered(rule, pattern, s) = s
  BY DEF CanMatch, Covered, Reads
<1>3. 1 \in DOMAIN rule.patterns /\ DOMAIN rule.patterns \subseteq Nat
      /\ \A r \in DOMAIN rule.patterns : ~(r < 1)
  BY <1>1
<1>4. QED
  BY <1>1, <1>2, <1>3, Answers

(* A rule that does not stand for the whole message may take all of it.    *)
LEMMA WholeWindow ==
  ASSUME NEW pattern, NEW T, NEW s \in Seq(T), s # <<>>, Fits(pattern, s),
         \A i, j \in 1..Len(s) : i <= j /\ Fits(pattern, SubSeq(s, i, j))
           /\ (pattern[Len(pattern)] = Rest => j = Len(s)) => j = Len(s)
  PROVE  Windows(pattern, s) # {} /\ FirstWindow(pattern, s) = s
<1>1. PICK n \in Nat : n = Len(s) /\ n >= 1
  OBVIOUS
<1>2. SubSeq(s, 1, n) = s
  BY <1>1, SubSeqFull
<1> DEFINE all == <<1, n>>
<1>3. all \in Windows(pattern, s)
  <2>1. all \in (1..Len(s)) \X (1..Len(s)) /\ all[1] = 1 /\ all[2] = n
    BY <1>1
  <2>2. all[1] <= all[2] /\ Fits(pattern, SubSeq(s, all[1], all[2])) /\ all[2] = Len(s)
    BY <1>1, <1>2, <2>1
  <2> HIDE DEF all
  <2>3. QED
    BY <2>1, <2>2 DEF Windows
<1>4. \A kl \in Windows(pattern, s) : kl \in (1..n) \X (1..n) /\ kl[2] = n
  BY <1>1 DEF Windows
<1>5. Leftmost(Windows(pattern, s)) = all
  <2> DEFINE First(ij) == \A kl \in Windows(pattern, s) : ij[1] < kl[1] \/ (ij[1] = kl[1] /\ ij[2] <= kl[2])
  <2>1. First(all)
    BY <1>1, <1>4
  <2>2. ASSUME NEW ij \in Windows(pattern, s), First(ij) PROVE ij = all
    <3>1. ij[1] < 1 \/ (ij[1] = 1 /\ ij[2] <= n)
      BY <1>3, <2>2
    <3>2. ij \in (1..n) \X (1..n) /\ ij[2] = n
      BY <1>4
    <3>3. ij[1] = 1
      BY <3>1, <3>2
    <3>4. ij = <<ij[1], ij[2]>>
      BY <3>2
    <3>5. QED
      BY <3>2, <3>3, <3>4
  <2> HIDE DEF First, all
  <2>3. (CHOOSE ij \in Windows(pattern, s) : First(ij)) = all
    BY <1>3, <2>1, <2>2
  <2> USE DEF First
  <2>4. QED
    BY <2>3 DEF Leftmost
<1>6. QED
  BY <1>1, <1>2, <1>3, <1>5 DEF FirstWindow

LEMMA AnyRule ==
  ASSUME NEW rule, NEW pattern, rule.patterns = <<pattern>>, rule.whole = FALSE, NEW s, NEW words,
         Reads(pattern, s, words), Windows(pattern, s) # {}, FirstWindow(pattern, s) = s,
         Accepts(rule, words, s),
         NotOfMessage(rule)
  PROVE  Applies(rule, s) /\ CommandOf(rule, s) = Meant(rule, words)
<1>1. DOMAIN rule.patterns = {1} /\ rule.patterns[1] = pattern
  OBVIOUS
<1>2. CanMatch(rule, pattern, s) /\ Covered(rule, pattern, s) = s
  BY DEF CanMatch, Covered
<1>3. 1 \in DOMAIN rule.patterns /\ DOMAIN rule.patterns \subseteq Nat
      /\ \A r \in DOMAIN rule.patterns : ~(r < 1)
  BY <1>1
<1>4. QED
  BY <1>1, <1>2, <1>3, Answers

(* The message that the rules get is the one that was written.             *)
Made(s, K) == \A i \in 1..Len(s) : s[i].w \in {"taxi", "salary", "name"} \cup K
LEMMA AsWritten ==
  ASSUME NEW T, Numbered(T), NEW s \in Seq(T), NEW K, Made(s, K),
         K \cap {"one", "ten", "scale", "birr"} = {}
  PROVE  Parse(s) = ParseWords(s)
<1>1. NoNumbers(s)
  BY DEF NoNumbers, Made, IsSpoken
<1>2. \A i \in 1..Len(s) : s[i].w # "birr"
  BY DEF Made
<1>3. ReplaceSpokenAmounts(s) = s
  BY <1>1, NothingToReplace
<1>4. SpokenCurrency(s) = s
  BY <1>2, NothingToLeaveOut
<1>5. QED
  BY <1>3, <1>4 DEF Parse

LEMMA Unnamed ==
  ASSUME NEW T, NEW s \in Seq(T), NEW K, Made(s, K), NEW rule, NEW X, RuleNames(rule, X),
         \A c \in X : c \notin K /\ c \notin {"taxi", "salary", "name"}
  PROVE  ~Applies(rule, s)
<1>1. \A i \in 1..Len(s) : s[i].w \notin X
  BY DEF Made
<1>2. QED
  BY <1>1, NamesUnmet

LEMMA TalkNames ==
  ASSUME NEW whole, NEW c, NEW intent, NEW sure, c \notin {"one or more", "any"}
  PROVE  RuleNames(Talk(whole, c, intent, sure), {c})
<1>1. Within({c}, {c})
  BY DEF Within, IsOpen, Text, Rest
<1>2. QED
  BY <1>1, NamesOf, PatternsName DEF Talk

LEMMA SpendingNames == RuleNames(Spending, {"spending"})
<1>1. Within({"spending"}, {"spending"})
  BY DEF Within, IsOpen, Text, Rest
<1>2. QED
  BY <1>1, NamesOf, PatternsName DEF Spending

LEMMA QuestionNames == RuleNames(QuestionRule, {"owes", "owe", "debt"})
<1>1. Within({"owes", "owe", "debt"}, {"owes", "owe", "debt"})
  BY DEF Within, IsOpen, Text, Rest
<1>2. QED
  BY <1>1, NamesOf, PatternsName DEF QuestionRule, DebtWords

(* The rule of the salary is about messages of two words.                  *)
LEMMA SalaryIsTwoWords ==
  ASSUME NEW s, Len(s) # 2
  PROVE  ~Applies(Salary, s)
<1>1. ASSUME NEW a, NEW b, ~IsOpen(a), ~IsOpen(b) PROVE ~Fits(<<a, b>>, s)
  <2>1. PICK pattern : pattern = <<a, b>>
    OBVIOUS
  <2>2. Len(pattern) = 2 /\ DOMAIN pattern = 1..2 /\ pattern[1] = a /\ pattern[2] = b
    BY <2>1
  <2>3. ~HasOpen(pattern)
    BY <1>1, <2>2 DEF HasOpen
  <2>4. QED
    BY <2>1, <2>2, <2>3 DEF Fits
<1>2. ~IsOpen(Num) /\ ~IsOpen({"salary"})
  BY DEF IsOpen, Num, Text, Rest
<1>3. ~Fits(<<Num, {"salary"}>>, s) /\ ~Fits(<<{"salary"}, Num>>, s)
  BY <1>1, <1>2
<1>4. Salary.patterns = << <<Num, {"salary"}>>, <<{"salary"}, Num>> >> /\ Salary.whole = TRUE
  BY DEF Salary, Rule
<1>5. DOMAIN Salary.patterns = {1, 2} /\ Salary.patterns[1] = <<Num, {"salary"}>>
      /\ Salary.patterns[2] = <<{"salary"}, Num>>
  BY <1>4
<1>6. QED
  BY <1>3, <1>4, <1>5 DEF Applies, Matching, CanMatch

(* The rules in their order.                                               *)
SpeechRules == AmharicRules \o EnglishRules
LEMMA SpeechOrder ==
  /\ DOMAIN SpeechRules = 1..18
  /\ SpeechRules[1] = PaidMe /\ SpeechRules[2] = PaidThem /\ SpeechRules[3] = AmSpent
  /\ SpeechRules[4] = AmIncome /\ SpeechRules[5] = OwesMe /\ SpeechRules[6] = IOweAm
  /\ SpeechRules[7] = AmBudgetLead /\ SpeechRules[8] = AmBudgetTrail /\ SpeechRules[9] = AmSaveLead
  /\ SpeechRules[10] = AmSaveTrail /\ SpeechRules[11] = AmSpending /\ SpeechRules[12] = DebtPaidByPerson
  /\ SpeechRules[13] = DebtPaidToPerson /\ SpeechRules[14] = Spent /\ SpeechRules[15] = Salary
  /\ SpeechRules[16] = Income /\ SpeechRules[17] = OwedToMe /\ SpeechRules[18] = IOwe
BY DEF SpeechRules, AmharicRules, EnglishRules

LEMMA LastOrder ==
  /\ DOMAIN LastRules = 1..14
  /\ LastRules[1] = Talk(TRUE, "hi", "GREET", 95) /\ LastRules[2] = Talk(TRUE, "howareyou", "WELLBEING", 93)
  /\ LastRules[3] = Talk(TRUE, "thanks", "THANKS", 92) /\ LastRules[4] = Talk(FALSE, "left", "QUERY_BALANCE", 88)
  /\ LastRules[5] = Spending
  /\ LastRules[6] = Talk(FALSE, "report", "QUERY_REPORT", 70) /\ LastRules[7] = QuestionRule
  /\ LastRules[8] = BudgetLead /\ LastRules[9] = BudgetTrail /\ LastRules[10] = SavingsLead
  /\ LastRules[11] = SavingsTrail /\ LastRules[12] = Shorthand /\ LastRules[13] = CategoryFirst
  /\ LastRules[14] = PersonDebt
BY DEF LastRules, TalkRules, ShorthandRules

(* The rules that name no word of a sentence do not apply to it.           *)
LEMMA Unmoved ==
  ASSUME NEW T, NEW s \in Seq(T), NEW K, Made(s, K)
  PROVE  /\ K \cap {"KEFELE"} = {} => ~Applies(PaidMe, s)
         /\ K \cap {"KEFELKU"} = {} => ~Applies(PaidThem, s)
         /\ K \cap {"KEFELKU", "AWETAHU", "WECHI"} = {} => ~Applies(AmSpent, s)
         /\ K \cap {"TEQEBELKU"} = {} => ~Applies(AmIncome, s)
         /\ K \cap {"ABEDEREGN"} = {} => ~Applies(OwesMe, s)
         /\ K \cap {"ALEBIGN"} = {} => ~Applies(IOweAm, s)
         /\ K \cap {"BAJET"} = {} => ~Applies(AmBudgetLead, s)
         /\ K \cap {"BAJET"} = {} => ~Applies(AmBudgetTrail, s)
         /\ K \cap {"QUTABA"} = {} => ~Applies(AmSaveLead, s)
         /\ K \cap {"QUTABA"} = {} => ~Applies(AmSaveTrail, s)
         /\ K \cap {"SINT"} = {} => ~Applies(AmSpending, s)
         /\ K \cap {"paid", "pay"} = {} => ~Applies(DebtPaidByPerson, s)
         /\ K \cap {"paid", "pay"} = {} => ~Applies(DebtPaidToPerson, s)
         /\ K \cap {"spent", "paid"} = {} => ~Applies(Spent, s)
         /\ K \cap {"got"} = {} => ~Applies(Income, s)
         /\ K \cap {"owes"} = {} => ~Applies(OwedToMe, s)
         /\ K \cap {"owe"} = {} => ~Applies(IOwe, s)
         /\ K \cap {"budget"} = {} => ~Applies(BudgetLead, s)
         /\ K \cap {"budget"} = {} => ~Applies(BudgetTrail, s)
         /\ K \cap {"save"} = {} => ~Applies(SavingsLead, s)
         /\ K \cap {"save"} = {} => ~Applies(SavingsTrail, s)
<1>0. \A rule, X : RuleNames(rule, X) /\ (\A c \in X : c \notin K /\ c \notin {"taxi", "salary", "name"}) =>
        ~Applies(rule, s)
  BY Unnamed
<1>1. K \cap {"KEFELE"} = {} => ~Applies(PaidMe, s)
  BY <1>0, RulesName
<1>2. K \cap {"KEFELKU"} = {} => ~Applies(PaidThem, s)
  BY <1>0, RulesName
<1>3. K \cap {"KEFELKU", "AWETAHU", "WECHI"} = {} => ~Applies(AmSpent, s)
  BY <1>0, RulesName
<1>4. K \cap {"TEQEBELKU"} = {} => ~Applies(AmIncome, s)
  BY <1>0, RulesName
<1>5. K \cap {"ABEDEREGN"} = {} => ~Applies(OwesMe, s)
  BY <1>0, RulesName
<1>6. K \cap {"ALEBIGN"} = {} => ~Applies(IOweAm, s)
  BY <1>0, RulesName
<1>7. K \cap {"BAJET"} = {} => ~Applies(AmBudgetLead, s)
  BY <1>0, RulesName
<1>8. K \cap {"BAJET"} = {} => ~Applies(AmBudgetTrail, s)
  BY <1>0, RulesName
<1>9. K \cap {"QUTABA"} = {} => ~Applies(AmSaveLead, s)
  BY <1>0, RulesName
<1>10. K \cap {"QUTABA"} = {} => ~Applies(AmSaveTrail, s)
  BY <1>0, RulesName
<1>11. K \cap {"SINT"} = {} => ~Applies(AmSpending, s)
  BY <1>0, RulesName
<1>12. K \cap {"paid", "pay"} = {} => ~Applies(DebtPaidByPerson, s)
  BY <1>0, RulesName
<1>13. K \cap {"paid", "pay"} = {} => ~Applies(DebtPaidToPerson, s)
  BY <1>0, RulesName
<1>14. K \cap {"spent", "paid"} = {} => ~Applies(Spent, s)
  BY <1>0, RulesName
<1>15. K \cap {"got"} = {} => ~Applies(Income, s)
  BY <1>0, RulesName
<1>16. K \cap {"owes"} = {} => ~Applies(OwedToMe, s)
  BY <1>0, RulesName
<1>17. K \cap {"owe"} = {} => ~Applies(IOwe, s)
  BY <1>0, RulesName
<1>18. K \cap {"budget"} = {} => ~Applies(BudgetLead, s)
  BY <1>0, RulesName
<1>19. K \cap {"budget"} = {} => ~Applies(BudgetTrail, s)
  BY <1>0, RulesName
<1>20. K \cap {"save"} = {} => ~Applies(SavingsLead, s)
  BY <1>0, RulesName
<1>21. K \cap {"save"} = {} => ~Applies(SavingsTrail, s)
  BY <1>0, RulesName
<1>22. QED
  BY <1>1, <1>2, <1>3, <1>4, <1>5, <1>6, <1>7, <1>8, <1>9, <1>10, <1>11, <1>12, <1>13, <1>14,
     <1>15, <1>16, <1>17, <1>18, <1>19, <1>20, <1>21

(* Small talk and questions do not answer a sentence without their words.  *)
LEMMA NoTalk ==
  ASSUME NEW T, NEW s \in Seq(T), NEW K, Made(s, K),
         K \cap {"hi", "howareyou", "thanks", "left", "spending", "report", "owes", "owe", "debt"} = {}
  PROVE  \A k \in 1..7 : ~Applies(LastRules[k], s)
<1>1. \A c : c \in {"hi", "howareyou", "thanks", "left", "spending", "report"} =>
        c \notin K /\ c \notin {"taxi", "salary", "name"} /\ c \notin {"one or more", "any"}
  OBVIOUS
<1>2. \A whole, intent, sure : \A c \in {"hi", "howareyou", "thanks", "left", "spending", "report"} :
        ~Applies(Talk(whole, c, intent, sure), s)
  <2> SUFFICES ASSUME NEW whole, NEW intent, NEW sure,
                      NEW c \in {"hi", "howareyou", "thanks", "left", "spending", "report"}
               PROVE  ~Applies(Talk(whole, c, intent, sure), s)
    OBVIOUS
  <2>1. RuleNames(Talk(whole, c, intent, sure), {c})
    BY <1>1, TalkNames
  <2>2. PICK rule : rule = Talk(whole, c, intent, sure)
    OBVIOUS
  <2>3. \A d \in {c} : d \notin K /\ d \notin {"taxi", "salary", "name"}
    BY <1>1
  <2>4. ~Applies(rule, s)
    BY <2>1, <2>2, <2>3, Unnamed
  <2>5. QED
    BY <2>2, <2>4
<1>3. ~Applies(QuestionRule, s)
  BY QuestionNames, Unnamed
<1>4. /\ ~Applies(Talk(TRUE, "hi", "GREET", 95), s)
      /\ ~Applies(Talk(TRUE, "howareyou", "WELLBEING", 93), s)
      /\ ~Applies(Talk(TRUE, "thanks", "THANKS", 92), s) /\ ~Applies(Talk(FALSE, "left", "QUERY_BALANCE", 88), s)
      /\ ~Applies(Talk(FALSE, "report", "QUERY_REPORT", 70), s)
  BY <1>2, ZenonT(60)
<1>7. ~Applies(Spending, s)
  <2>1. \A d \in {"spending"} : d \notin K /\ d \notin {"taxi", "salary", "name"}
    BY <1>1
  <2>2. QED
    BY <2>1, SpendingNames, Unnamed
<1>5. /\ ~Applies(LastRules[1], s) /\ ~Applies(LastRules[2], s) /\ ~Applies(LastRules[3], s)
      /\ ~Applies(LastRules[4], s) /\ ~Applies(LastRules[5], s) /\ ~Applies(LastRules[6], s)
      /\ ~Applies(LastRules[7], s)
  <2>1. ~Applies(LastRules[1], s)
    BY <1>4, LastOrder, ZenonT(60)
  <2>2. ~Applies(LastRules[2], s)
    BY <1>4, LastOrder, ZenonT(60)
  <2>3. ~Applies(LastRules[3], s)
    BY <1>4, LastOrder, ZenonT(60)
  <2>4. ~Applies(LastRules[4], s)
    BY <1>4, LastOrder, ZenonT(60)
  <2>5. ~Applies(LastRules[5], s)
    BY <1>7, LastOrder, ZenonT(60)
  <2>6. ~Applies(LastRules[6], s)
    BY <1>4, LastOrder, ZenonT(60)
  <2>7. ~Applies(LastRules[7], s)
    BY <1>3, LastOrder, Zenon
  <2>8. QED
    BY <2>1, <2>2, <2>3, <2>4, <2>5, <2>6, <2>7
<1>6. QED
  BY <1>5

(* The command of a message: of the first rule of the sentences that       *)
(* applies, or of the first of the others.                                 *)
Sound(s, K) == Made(s, K) /\ K \cap {"one", "ten", "scale", "birr", "remind"} = {}

LEMMA ByASentence ==
  ASSUME NEW T, Numbered(T), NEW s \in Seq(T), NEW K, Sound(s, K), NEW k \in 1..18, NEW rule, NEW words,
         rule = SpeechRules[k], Applies(rule, s), CommandOf(rule, s) = Meant(rule, words),
         rule.intent \notin {"UNKNOWN", "BY_CATEGORY"},
         \A j \in 1..18 : j < k => ~Applies(SpeechRules[j], s)
  PROVE  Parse(s) = Meant(rule, words)
<1>1. Parse(s) = ParseWords(s)
  BY AsWritten DEF Sound
<1>2. FirstOf(SpeechRules, s) = Meant(rule, words)
  <2>1. DOMAIN SpeechRules = 1..18
    BY SpeechOrder
  <2>2. k \in DOMAIN SpeechRules /\ DOMAIN SpeechRules \subseteq Nat
    BY <2>1
  <2>3. \A j \in DOMAIN SpeechRules : j < k => ~Applies(SpeechRules[j], s)
    BY <2>1
  <2>4. QED
    BY <2>2, <2>3, FirstIs
<1>3. Meant(rule, words).intent # "UNKNOWN"
  BY DEF Meant, Command
<1>4. Meant(rule, words) # Unknown
  BY <1>3 DEF Unknown
<1>5. QED
  BY <1>1, <1>2, <1>4 DEF ParseWords, Otherwise, SpeechRules

LEMMA ByALastRule ==
  ASSUME NEW T, Numbered(T), NEW s \in Seq(T), NEW K, Sound(s, K), NEW k \in 1..14, NEW rule, NEW words,
         rule = LastRules[k], Applies(rule, s), CommandOf(rule, s) = Meant(rule, words),
         \A j \in 1..18 : ~Applies(SpeechRules[j], s),
         \A j \in 1..14 : j < k => ~Applies(LastRules[j], s)
  PROVE  Parse(s) = Meant(rule, words)
<1>1. Parse(s) = ParseWords(s)
  BY AsWritten DEF Sound
<1>2. FirstOf(SpeechRules, s) = Unknown
  BY NoneOf, SpeechOrder
<1>3. FirstOf(LastRules, s) = Meant(rule, words)
  <2>1. DOMAIN LastRules = 1..14
    BY LastOrder
  <2>2. k \in DOMAIN LastRules /\ DOMAIN LastRules \subseteq Nat
    BY <2>1
  <2>3. \A j \in DOMAIN LastRules : j < k => ~Applies(LastRules[j], s)
    BY <2>1
  <2>4. QED
    BY <2>2, <2>3, FirstIs
<1>4. ~IsReminder(s)
  <2>1. \A i \in 1..Len(s) : s[i].w # "remind"
    BY DEF Sound, Made
  <2>2. Len(s) \in Nat
    OBVIOUS
  <2>3. PICK n \in Nat : n = Len(s)
    BY <2>2
  <2>4. \A i \in 1..n - 1 : i \in 1..n
    BY <2>3
  <2>5. QED
    BY <2>1, <2>3, <2>4 DEF IsReminder
<1>5. QED
  BY <1>1, <1>2, <1>3, <1>4 DEF ParseWords, Otherwise, SpeechRules

(* Patterns that do not fit, by the word that stands in the wrong place.   *)
LEMMA NeedsTrailing ==
  ASSUME NEW X, NEW Y, ~IsOpen(X), ~IsOpen(Y), NEW s, Len(s) \in Nat, Fits(<<Text, X, Y>>, s)
  PROVE  s[Len(s) - 1].w \in X /\ s[Len(s)].w \in Y
<1>1. PICK pattern : pattern = <<Text, X, Y>>
  OBVIOUS
<1>2. APattern(pattern) /\ Len(pattern) = 3 /\ pattern[1] = Text /\ pattern[2] = X /\ pattern[3] = Y
  BY <1>1, Elements
<1>0. PICK q \in Nat : q = 1
  OBVIOUS
<1>3. OneOpen(pattern, q) /\ pattern[q] = Text
  BY <1>0, <1>2, Opens DEF OneOpen
<1>4. PICK n \in Nat : n = Len(s) /\ n >= 3
  <2>1. ~(Len(s) < Len(pattern))
    BY <1>1, <1>2, <1>3, TooShort
  <2>2. QED
    BY <1>2, <2>1
<1>5. PICK more \in Nat : more = n - 3 /\ Len(s) = Len(pattern) + more
  <2>1. n - 3 \in Nat /\ n = 3 + (n - 3)
    BY <1>4
  <2>2. QED
    BY <1>2, <1>4, <2>1
<1>6. \A k \in 1..Len(pattern) : k # q => s[IF k <= q THEN k ELSE k + more].w \in pattern[k]
  <2>0. Fits(pattern, s)
    BY <1>1
  <2>1. OneOpen(pattern, q) /\ more \in Nat /\ Len(s) = Len(pattern) + more
    BY <1>3, <1>5
  <2>2. Fits(pattern, s) <=>
          \A k \in 1..Len(pattern) : k # q => s[IF k <= q THEN k ELSE k + more].w \in pattern[k]
    BY <2>1, AroundOpen, ZenonT(60)
  <2>3. QED
    BY <2>0, <2>2
<1>7. s[2 + more].w \in X /\ s[3 + more].w \in Y
  BY <1>0, <1>2, <1>6
<1>8. 2 + more = Len(s) - 1 /\ 3 + more = Len(s)
  BY <1>4, <1>5
<1>9. QED
  BY <1>7, <1>8

LEMMA NeedsTrailingTwo ==
  ASSUME NEW X, NEW Y, NEW Z, ~IsOpen(X), ~IsOpen(Y), ~IsOpen(Z), NEW s, Len(s) \in Nat,
         Fits(<<Text, X, Y, Z>>, s)
  PROVE  s[Len(s) - 2].w \in X /\ s[Len(s) - 1].w \in Y /\ s[Len(s)].w \in Z
<1>1. PICK pattern : pattern = <<Text, X, Y, Z>>
  OBVIOUS
<1>2. /\ APattern(pattern) /\ Len(pattern) = 4
      /\ pattern[1] = Text /\ pattern[2] = X /\ pattern[3] = Y /\ pattern[4] = Z
  BY <1>1, Elements
<1>0. PICK q \in Nat : q = 1
  OBVIOUS
<1>3. OneOpen(pattern, q) /\ pattern[q] = Text
  BY <1>0, <1>2, Opens DEF OneOpen
<1>4. PICK n \in Nat : n = Len(s) /\ n >= 4
  <2>1. ~(Len(s) < Len(pattern))
    BY <1>1, <1>2, <1>3, TooShort
  <2>2. QED
    BY <1>2, <2>1
<1>5. PICK more \in Nat : more = n - 4 /\ Len(s) = Len(pattern) + more
  <2>1. n - 4 \in Nat /\ n = 4 + (n - 4)
    BY <1>4
  <2>2. QED
    BY <1>2, <1>4, <2>1
<1>6. \A k \in 1..Len(pattern) : k # q => s[IF k <= q THEN k ELSE k + more].w \in pattern[k]
  <2>0. Fits(pattern, s)
    BY <1>1
  <2>1. OneOpen(pattern, q) /\ more \in Nat /\ Len(s) = Len(pattern) + more
    BY <1>3, <1>5
  <2>2. Fits(pattern, s) <=>
          \A k \in 1..Len(pattern) : k # q => s[IF k <= q THEN k ELSE k + more].w \in pattern[k]
    BY <2>1, AroundOpen, ZenonT(60)
  <2>3. QED
    BY <2>0, <2>2
<1>7. s[2 + more].w \in X /\ s[3 + more].w \in Y /\ s[4 + more].w \in Z
  BY <1>0, <1>2, <1>6
<1>8. 2 + more = Len(s) - 2 /\ 3 + more = Len(s) - 1 /\ 4 + more = Len(s)
  BY <1>4, <1>5
<1>9. QED
  BY <1>7, <1>8

LEMMA NeedsBetweenTwo ==
  ASSUME NEW X, NEW Y, NEW Z, ~IsOpen(X), ~IsOpen(Y), ~IsOpen(Z), NEW s, Len(s) \in Nat,
         Fits(<<X, Y, Text, Z>>, s)
  PROVE  s[Len(s)].w \in Z
<1>1. PICK pattern : pattern = <<X, Y, Text, Z>>
  OBVIOUS
<1>2. /\ APattern(pattern) /\ Len(pattern) = 4
      /\ pattern[1] = X /\ pattern[2] = Y /\ pattern[3] = Text /\ pattern[4] = Z
  BY <1>1, Elements
<1>0. PICK q \in Nat : q = 3
  OBVIOUS
<1>3. OneOpen(pattern, q) /\ pattern[q] = Text
  BY <1>0, <1>2, Opens DEF OneOpen
<1>4. PICK n \in Nat : n = Len(s) /\ n >= 4
  <2>1. ~(Len(s) < Len(pattern))
    BY <1>1, <1>2, <1>3, TooShort
  <2>2. QED
    BY <1>2, <2>1
<1>5. PICK more \in Nat : more = n - 4 /\ Len(s) = Len(pattern) + more
  <2>1. n - 4 \in Nat /\ n = 4 + (n - 4)
    BY <1>4
  <2>2. QED
    BY <1>2, <1>4, <2>1
<1>6. \A k \in 1..Len(pattern) : k # q => s[IF k <= q THEN k ELSE k + more].w \in pattern[k]
  <2>0. Fits(pattern, s)
    BY <1>1
  <2>1. OneOpen(pattern, q) /\ more \in Nat /\ Len(s) = Len(pattern) + more
    BY <1>3, <1>5
  <2>2. Fits(pattern, s) <=>
          \A k \in 1..Len(pattern) : k # q => s[IF k <= q THEN k ELSE k + more].w \in pattern[k]
    BY <2>1, AroundOpen, ZenonT(60)
  <2>3. QED
    BY <2>0, <2>2
<1>7. s[4 + more].w \in Z
  BY <1>0, <1>2, <1>6
<1>8. 4 + more = Len(s)
  BY <1>4, <1>5
<1>9. QED
  BY <1>7, <1>8

LEMMA NeedsLeading ==
  ASSUME NEW X, NEW Y, ~IsOpen(X), ~IsOpen(Y), NEW s
  PROVE  /\ Fits(<<X, Y, Text>>, s) => s[1].w \in X
         /\ Fits(<<X, Text>>, s) => s[1].w \in X
<1>1. ASSUME Fits(<<X, Y, Text>>, s) PROVE s[1].w \in X
  <2>1. PICK pattern : pattern = <<X, Y, Text>>
    OBVIOUS
  <2>2. APattern(pattern) /\ Len(pattern) = 3 /\ pattern[1] = X /\ pattern[2] = Y /\ pattern[3] = Text
    BY <2>1, Elements
  <2>3. OneOpen(pattern, 3)
    BY <2>2, Opens DEF OneOpen
  <2>4. Place(pattern, s, 1) = 1
    BY <2>3, OpenPlace DEF Place
  <2>5. QED
    BY <1>1, <2>1, <2>2, <2>4 DEF Fits, APattern
<1>2. ASSUME Fits(<<X, Text>>, s) PROVE s[1].w \in X
  <2>1. PICK pattern : pattern = <<X, Text>>
    OBVIOUS
  <2>2. APattern(pattern) /\ Len(pattern) = 2 /\ pattern[1] = X /\ pattern[2] = Text
    BY <2>1, Elements
  <2>3. OneOpen(pattern, 2)
    BY <2>2, Opens DEF OneOpen
  <2>4. Place(pattern, s, 1) = 1
    BY <2>3, OpenPlace DEF Place
  <2>5. QED
    BY <1>2, <2>1, <2>2, <2>4 DEF Fits, APattern
<1>3. QED
  BY <1>1, <1>2

(* A rule of one pattern that does not fit.                                *)
LEMMA Misfit ==
  ASSUME NEW rule, NEW pattern, rule.patterns = <<pattern>>, rule.whole = TRUE, NEW s, ~Fits(pattern, s)
  PROVE  ~Applies(rule, s)
<1>1. DOMAIN rule.patterns = {1} /\ rule.patterns[1] = pattern
  OBVIOUS
<1>2. Matching(rule, s) = {}
  BY <1>1 DEF Matching, CanMatch
<1>3. QED
  BY <1>2 DEF Applies

(* The sentences about plain words.                                        *)
Keywords ==
  {"KEFELE", "KEFELKU", "ALEBIGN", "AWETAHU", "TEQEBELKU", "ABEDEREGN", "BAJET", "QUTABA",
   "paid", "i", "owe", "spent", "got", "owes", "me", "budget", "save"}
Speakable(T, words) ==
  /\ Numbered(T) /\ Amount(7) \in T /\ \A c \in Keywords : Word(c) \in T
  /\ words \in Seq(T) /\ Plain(words)

WordsThen(words, c)       == words \o Saying(c) \o Seven
ThenWords(c, words)       == Saying(c) \o Seven \o words
WordsAfter(c, words)      == Saying(c) \o words \o Seven
NumberAfter(words)        == words \o Seven
NumberBefore(words)       == Seven \o words

LEMMA PlainWords ==
  ASSUME NEW T, NEW words \in Seq(T), Plain(words)
  PROVE  /\ words # <<>> /\ Len(words) \in Nat /\ Len(words) >= 1
         /\ \A i \in 1..Len(words) : words[i].w \in {"taxi", "salary", "name"}
BY DEF Plain

(* A sentence around plain words is made of them and of its other words.   *)
LEMMA MadeOf ==
  ASSUME NEW T, NEW s \in Seq(T), NEW words \in Seq(T), Plain(words), NEW a \in Nat, NEW b \in Nat,
         Around(s, words, a, b), NEW K,
         \A i \in 1..a : s[i].w \in K, \A i \in 1..b : s[a + Len(words) + i].w \in K
  PROVE  Made(s, K)
<1>1. PICK n \in Nat : n = Len(words) /\ Len(s) = a + n + b /\ \A i \in 1..n : s[a + i] = words[i]
  BY DEF Around
<1> SUFFICES ASSUME NEW i \in 1..Len(s) PROVE s[i].w \in {"taxi", "salary", "name"} \cup K
  BY DEF Made
<1>2. CASE i <= a
  <2>1. i \in 1..a
    BY <1>1, <1>2
  <2>2. QED
    BY <2>1
<1>3. CASE a < i /\ i <= a + n
  <2>1. PICK j \in 1..n : j = i - a
    BY <1>1, <1>3
  <2>2. a + j = i
    BY <2>1
  <2>3. s[a + j] = words[j]
    BY <1>1
  <2>4. QED
    BY <1>1, <2>2, <2>3, PlainWords
<1>4. CASE a + n < i
  <2>0. i - (a + n) \in 1..b
    BY <1>1, <1>4
  <2>1. PICK j \in 1..b : j = i - (a + n)
    BY <2>0
  <2>2. a + n + j = i
    BY <1>1, <2>1
  <2>3. s[a + n + j].w \in K
    BY <1>1
  <2>4. QED
    BY <2>2, <2>3
<1>5. QED
  BY <1>1, <1>2, <1>3, <1>4

(* What the rules have to know of a sentence, form by form: its words, and *)
(* the patterns that read it.                                              *)
LEMMA WordsThenSays ==
  ASSUME NEW T, NEW words, Speakable(T, words), NEW c \in Keywords, NEW s, s = WordsThen(words, c)
  PROVE  /\ s \in Seq(T) /\ Sound(s, {c, "num"}) /\ Len(s) \in Nat /\ Len(s) # 2
         /\ s[1].w \in {"taxi", "salary", "name"} /\ s[Len(s)].w = "num"
         /\ s[Len(s) - 2].w \in {"taxi", "salary", "name"}
         /\ \A X : c \in X /\ ~IsOpen(X) /\ X # Num => Reads(<<Text, X, Num>>, s, words)
<1>1. words \in Seq(T) /\ Plain(words) /\ Word(c) \in T /\ Amount(7) \in T
  BY DEF Speakable
<1>2. PICK n \in Nat : n = Len(words) /\ n >= 1
  BY <1>1, PlainWords
<1>3. /\ s \in Seq(T) /\ Around(s, words, 0, 2)
      /\ s[n + 1] = Word(c) /\ s[n + 2] = Amount(7)
  BY <1>1, <1>2, Trailing, ZenonT(60) DEF WordsThen
<1>4. Len(s) = n + 2 /\ \A i \in 1..n : s[i] = words[i]
  BY <1>2, <1>3 DEF Around
<1>5. Made(s, {c, "num"})
  <2>1. \A i \in 1..0 : s[i].w \in {c, "num"}
    OBVIOUS
  <2>2. \A i \in 1..2 : s[0 + Len(words) + i].w \in {c, "num"}
    BY <1>2, <1>3, Opens
  <2>3. QED
    BY <1>1, <1>3, <2>1, <2>2, MadeOf
<1>6. Sound(s, {c, "num"})
  BY <1>5 DEF Sound, Keywords
<1>7. s[1].w \in {"taxi", "salary", "name"} /\ s[n].w \in {"taxi", "salary", "name"}
  BY <1>1, <1>2, <1>4, PlainWords
<1>8. s[Len(s)].w = "num" /\ Len(s) - 2 = n /\ Len(s) # 2
  BY <1>2, <1>3, <1>4, Opens
<1>9. \A X : c \in X /\ ~IsOpen(X) /\ X # Num => Reads(<<Text, X, Num>>, s, words)
  BY <1>1, <1>2, <1>3, PlainWords, ReadTrailing
<1>10. QED
  BY <1>3, <1>4, <1>6, <1>7, <1>8, <1>9

LEMMA WordsThenTwoSays ==
  ASSUME NEW T, NEW words, Speakable(T, words), NEW s, s = WordsThenTwo(words, "owes", "me")
  PROVE  /\ s \in Seq(T) /\ s # <<>> /\ Sound(s, {"owes", "me", "num"}) /\ Len(s) \in Nat /\ Len(s) # 2
         /\ \A i \in 1..Len(s) : s[i].w = "num" => i = Len(s)
         /\ Reads(<<Text, {"owes"}, {"me"}, Num>>, s, words)
<1> DEFINE K == {"owes", "me", "num"}
<1>1. /\ words \in Seq(T)
      /\ Plain(words)
      /\ Word("owes") \in T
      /\ Word("me") \in T
      /\ Amount(7) \in T
  BY DEF Speakable, Keywords
<1>2. PICK n \in Nat : n = Len(words) /\ n >= 1
  BY <1>1, PlainWords
<1>3. /\ s \in Seq(T) /\ Around(s, words, 0, 3)
      /\ s[n + 1] = Word("owes") /\ s[n + 2] = Word("me") /\ s[n + 3] = Amount(7)
  <2>1. PICK c, d : c = "owes" /\ d = "me"
    OBVIOUS
  <2>2. Word(c) \in T /\ Word(d) \in T
    BY <1>1, <2>1
  <2>3. PICK u : u = WordsThenTwo(words, c, d)
    OBVIOUS
  <2>4. /\ u \in Seq(T) /\ Around(u, words, 0, 3)
        /\ u[Len(words) + 1] = Word(c) /\ u[Len(words) + 2] = Word(d) /\ u[Len(words) + 3] = Amount(7)
    BY <1>1, <2>2, <2>3, TrailingTwo
  <2>5. QED
    BY <1>2, <2>1, <2>3, <2>4
<1>4. Len(s) = n + 3 /\ \A i \in 1..n : s[i] = words[i]
  BY <1>2, <1>3 DEF Around
<1>5. Made(s, K)
  <2>1. \A i \in 1..0 : s[i].w \in K
    OBVIOUS
  <2>2. \A i \in 1..3 : s[0 + Len(words) + i].w \in K
    BY <1>2, <1>3, Opens
  <2> HIDE DEF K
  <2>3. QED
    BY <1>1, <1>3, <2>1, <2>2, MadeOf
<1>6. Sound(s, K)
  BY <1>5 DEF Sound
<1>7. \A i \in 1..Len(s) : s[i].w = "num" => i = Len(s)
  <2>1. \A i \in 1..n : s[i].w # "num"
    BY <1>1, <1>2, <1>4, PlainWords
  <2>2. s[n + 1].w # "num" /\ s[n + 2].w # "num"
    BY <1>3, Opens
  <2>3. \A i \in 1..n + 3 : i \in 1..n \/ i = n + 1 \/ i = n + 2 \/ i = n + 3
    BY <1>2
  <2>4. QED
    BY <1>4, <2>1, <2>2, <2>3
<1>8. Reads(<<Text, {"owes"}, {"me"}, Num>>, s, words)
  <2>1. ~IsOpen({"owes"}) /\ ~IsOpen({"me"}) /\ {"owes"} # Num /\ {"me"} # Num
    BY DEF IsOpen, Text, Rest, Num
  <2>2. QED
    BY <1>1, <1>2, <1>3, <2>1, PlainWords, ReadTrailingTwo
<1>9. QED
  BY <1>2, <1>3, <1>4, <1>6, <1>7, <1>8, SMTT(30)

LEMMA ThenWordsSays ==
  ASSUME NEW T, NEW words, Speakable(T, words), NEW c \in Keywords, NEW s, s = ThenWords(c, words)
  PROVE  /\ s \in Seq(T) /\ s # <<>> /\ Sound(s, {c, "num"}) /\ Len(s) \in Nat /\ Len(s) # 2
         /\ \A X, open : c \in X /\ ~IsOpen(X) /\ X # Num /\ open \in {Text, Rest} =>
              Reads(<<X, Num, open>>, s, words)
<1>1. words \in Seq(T) /\ Plain(words) /\ Word(c) \in T /\ Amount(7) \in T
  BY DEF Speakable
<1>2. PICK n \in Nat : n = Len(words) /\ n >= 1
  BY <1>1, PlainWords
<1>3. s \in Seq(T) /\ Around(s, words, 2, 0) /\ s[1] = Word(c) /\ s[2] = Amount(7)
  BY <1>1, <1>2, Leading DEF ThenWords
<1>4. Len(s) = n + 2
  BY <1>2, <1>3 DEF Around
<1>5. Made(s, {c, "num"})
  <2>1. \A i \in 1..2 : s[i].w \in {c, "num"}
    BY <1>3, Opens
  <2>2. \A i \in 1..0 : s[2 + Len(words) + i].w \in {c, "num"}
    OBVIOUS
  <2>3. QED
    BY <1>1, <1>3, <2>1, <2>2, MadeOf
<1>6. Sound(s, {c, "num"})
  BY <1>5 DEF Sound, Keywords
<1>7. \A X, open : c \in X /\ ~IsOpen(X) /\ X # Num /\ open \in {Text, Rest} =>
        Reads(<<X, Num, open>>, s, words)
  BY <1>1, <1>2, <1>3, PlainWords, ReadLeading
<1>8. QED
  BY <1>2, <1>3, <1>4, <1>6, <1>7

LEMMA WordsAfterSays ==
  ASSUME NEW T, NEW words, Speakable(T, words), NEW s, s = WordsAfter("paid", words)
  PROVE  /\ s \in Seq(T) /\ Sound(s, {"paid", "num"}) /\ Len(s) \in Nat /\ Len(s) # 2
         /\ s[Len(s) - 1].w \in {"taxi", "salary", "name"}
         /\ \A X : "paid" \in X /\ ~IsOpen(X) /\ X # Num => Reads(<<X, Text, Num>>, s, words)
<1>1. words \in Seq(T) /\ Plain(words) /\ Word("paid") \in T /\ Amount(7) \in T
  BY DEF Speakable, Keywords
<1>2. PICK n \in Nat : n = Len(words) /\ n >= 1
  BY <1>1, PlainWords
<1>3. s \in Seq(T) /\ Around(s, words, 1, 1) /\ s[1] = Word("paid") /\ s[n + 2] = Amount(7)
  BY <1>1, <1>2, Between DEF WordsAfter
<1>4. Len(s) = n + 2 /\ \A i \in 1..n : s[1 + i] = words[i]
  BY <1>2, <1>3 DEF Around
<1>5. Made(s, {"paid", "num"})
  <2>1. \A i \in 1..1 : s[i].w \in {"paid", "num"}
    BY <1>3, Opens
  <2>2. \A i \in 1..1 : s[1 + Len(words) + i].w \in {"paid", "num"}
    <3>1. 1 + n + 1 = n + 2
      BY <1>2
    <3>2. QED
      BY <1>2, <1>3, <3>1, Opens
  <2>3. QED
    BY <1>1, <1>3, <2>1, <2>2, MadeOf
<1>6. Sound(s, {"paid", "num"})
  BY <1>5 DEF Sound
<1>7. s[Len(s) - 1].w \in {"taxi", "salary", "name"}
  <2>1. Len(s) - 1 = 1 + n /\ s[1 + n] = words[n]
    BY <1>2, <1>4
  <2>2. words[n].w \in {"taxi", "salary", "name"}
    BY <1>1, <1>2, PlainWords
  <2>3. QED
    BY <2>1, <2>2
<1>8. \A X : "paid" \in X /\ ~IsOpen(X) /\ X # Num => Reads(<<X, Text, Num>>, s, words)
  BY <1>1, <1>2, <1>3, PlainWords, ReadBetween
<1>9. QED
  BY <1>2, <1>3, <1>4, <1>6, <1>7, <1>8

LEMMA WordsAfterTwoSays ==
  ASSUME NEW T, NEW words, Speakable(T, words), NEW s, s = WordsAfterTwo("i", "owe", words)
  PROVE  /\ s \in Seq(T) /\ s # <<>> /\ Sound(s, {"i", "owe", "num"}) /\ Len(s) \in Nat /\ Len(s) # 2
         /\ \A i \in 1..Len(s) : s[i].w = "num" => i = Len(s)
         /\ Reads(<<{"i"}, {"owe"}, Text, Num>>, s, words)
<1> DEFINE K == {"i", "owe", "num"}
<1>1. words \in Seq(T) /\ Plain(words) /\ Word("i") \in T /\ Word("owe") \in T /\ Amount(7) \in T
  BY DEF Speakable, Keywords
<1>2. PICK n \in Nat : n = Len(words) /\ n >= 1
  BY <1>1, PlainWords
<1>3. /\ s \in Seq(T) /\ Around(s, words, 2, 1)
      /\ s[1] = Word("i") /\ s[2] = Word("owe") /\ s[n + 3] = Amount(7)
  <2>1. PICK c, d : c = "i" /\ d = "owe"
    OBVIOUS
  <2>2. Word(c) \in T /\ Word(d) \in T
    BY <1>1, <2>1
  <2>3. PICK u : u = WordsAfterTwo(c, d, words)
    OBVIOUS
  <2>4. /\ u \in Seq(T) /\ Around(u, words, 2, 1)
        /\ u[1] = Word(c) /\ u[2] = Word(d) /\ u[Len(words) + 3] = Amount(7)
    BY <1>1, <2>2, <2>3, BetweenTwo
  <2>5. QED
    BY <1>2, <2>1, <2>3, <2>4
<1>4. Len(s) = n + 3 /\ \A i \in 1..n : s[2 + i] = words[i]
  BY <1>2, <1>3 DEF Around
<1>5. Made(s, K)
  <2>1. \A i \in 1..2 : s[i].w \in K
    BY <1>3, Opens
  <2>2. \A i \in 1..1 : s[2 + Len(words) + i].w \in K
    <3>1. 2 + n + 1 = n + 3
      BY <1>2
    <3>2. QED
      BY <1>2, <1>3, <3>1, Opens
  <2> HIDE DEF K
  <2>3. QED
    BY <1>1, <1>3, <2>1, <2>2, MadeOf
<1>6. Sound(s, K)
  BY <1>5 DEF Sound
<1>7. \A i \in 1..Len(s) : s[i].w = "num" => i = Len(s)
  <2>1. \A i \in 1..n : s[2 + i].w # "num"
    BY <1>1, <1>2, <1>4, PlainWords
  <2>2. s[1].w # "num" /\ s[2].w # "num"
    BY <1>3, Opens
  <2>3. \A i \in 1..n + 3 : i = 1 \/ i = 2 \/ i = n + 3 \/ \E j \in 1..n : i = 2 + j
    <3> SUFFICES ASSUME NEW i \in 1..n + 3, i > 2, i # n + 3 PROVE \E j \in 1..n : i = 2 + j
      BY <1>2
    <3>1. i - 2 \in 1..n /\ i = 2 + (i - 2)
      BY <1>2
    <3>2. QED
      BY <3>1
  <2> SUFFICES ASSUME NEW i \in 1..n + 3, s[i].w = "num" PROVE i = n + 3
    BY <1>4
  <2>4. \A j \in 1..n : i # 2 + j
    BY <2>1
  <2>5. i # 1 /\ i # 2
    BY <2>2
  <2>6. QED
    BY <2>3, <2>4, <2>5
<1>8. Reads(<<{"i"}, {"owe"}, Text, Num>>, s, words)
  <2>1. ~IsOpen({"i"}) /\ ~IsOpen({"owe"}) /\ {"i"} # Num /\ {"owe"} # Num
    BY DEF IsOpen, Text, Rest, Num
  <2>2. QED
    BY <1>1, <1>2, <1>3, <2>1, PlainWords, ReadBetweenTwo
<1>9. QED
  BY <1>2, <1>3, <1>4, <1>6, <1>7, <1>8

(* What a rule asks of the words it captures.                              *)
LEMMA Accepting ==
  ASSUME NEW rule, NEW words, NEW s
  PROVE  /\ rule.category \notin {"refused", "required", "person", "question"} => Accepts(rule, words, s)
         /\ rule.category = "refused" /\ CategoryOf(words) = "none" => Accepts(rule, words, s)
         /\ rule.category = "required" /\ CategoryOf(words) # "none" => Accepts(rule, words, s)
BY DEF Accepts

(* The words that the rules of the sentences name.                         *)
NamedBy ==
  <<{"KEFELE"}, {"KEFELKU"}, {"KEFELKU", "AWETAHU", "WECHI"}, {"TEQEBELKU"}, {"ABEDEREGN"}, {"ALEBIGN"},
    {"BAJET"}, {"BAJET"}, {"QUTABA"}, {"QUTABA"}, {"SINT"}, {"paid", "pay"}, {"paid", "pay"},
    {"spent", "paid"}, {}, {"got"}, {"owes"}, {"owe"}>>

LEMMA SilentButSalary ==
  ASSUME NEW T, NEW s \in Seq(T), NEW K, Made(s, K)
  PROVE  \A j \in 1..18 : j # 15 /\ K \cap NamedBy[j] = {} => ~Applies(SpeechRules[j], s)
BY Unmoved, SpeechOrder, SMTT(30) DEF NamedBy

LEMMA Silent ==
  ASSUME NEW T, NEW s \in Seq(T), NEW K, Made(s, K), Len(s) # 2
  PROVE  \A j \in 1..18 : K \cap NamedBy[j] = {} => ~Applies(SpeechRules[j], s)
<1>1. ~Applies(SpeechRules[15], s)
  BY SalaryIsTwoWords, SpeechOrder
<1>2. QED
  BY <1>1, SilentButSalary

(* Each of the twenty sentences is answered by the rule written for it, no *)
(* earlier one takes it, and its command is made of the plain words.       *)
LEMMA SaysPaidMe ==
  ASSUME NEW T, NEW words, Speakable(T, words), CategoryOf(words) = "none"
  PROVE  Parse(WordsThen(words, "KEFELE")) = Meant(PaidMe, words)
<1>1. PICK s : s = WordsThen(words, "KEFELE")
  OBVIOUS
<1>2. /\ s \in Seq(T) /\ Sound(s, {"KEFELE", "num"}) /\ Len(s) \in Nat /\ Len(s) # 2
      /\ s[1].w \in {"taxi", "salary", "name"} /\ s[Len(s)].w = "num"
      /\ s[Len(s) - 2].w \in {"taxi", "salary", "name"}
  <2>1. "KEFELE" \in Keywords
    BY DEF Keywords
  <2>2. QED
    BY <1>1, <2>1, WordsThenSays, ZenonT(60)
<1>3. Made(s, {"KEFELE", "num"})
  BY <1>2 DEF Sound
<1>4. Reads(<<Text, {"KEFELE"}, Num>>, s, words)
  <2>1. "KEFELE" \in Keywords /\ "KEFELE" \in {"KEFELE"} /\ ~IsOpen({"KEFELE"}) /\ {"KEFELE"} # Num
    BY DEF Keywords, IsOpen, Text, Rest, Num
  <2>2. QED
    BY <1>1, <2>1, WordsThenSays
<1>5. Applies(PaidMe, s) /\ CommandOf(PaidMe, s) = Meant(PaidMe, words)
  <2>1. /\ PaidMe.patterns = << <<Text, {"KEFELE"}, Num>> >>
        /\ PaidMe.whole = TRUE
        /\ PaidMe.category = "refused"
    BY DEF PaidMe, Rule
  <2>2. Accepts(PaidMe, words, s)
    BY <2>1, Accepting
  <2>3. QED
    BY <1>4, <2>1, <2>2, WholeRule DEF NotOfMessage
<1>6. \A j \in 1..18 : ~(j < 1)
  OBVIOUS
<1>7. PaidMe = SpeechRules[1] /\ PaidMe.intent \notin {"UNKNOWN", "BY_CATEGORY"}
  BY SpeechOrder DEF PaidMe, Rule
<1>8. Parse(s) = Meant(PaidMe, words)
  BY <1>2, <1>5, <1>6, <1>7, ByASentence DEF Speakable
<1>9. QED
  BY <1>1, <1>8

LEMMA SaysDebtPaidByPerson ==
  ASSUME NEW T, NEW words, Speakable(T, words)
  PROVE  Parse(WordsThen(words, "paid")) = Meant(DebtPaidByPerson, words)
<1>1. PICK s : s = WordsThen(words, "paid")
  OBVIOUS
<1>2. /\ s \in Seq(T) /\ Sound(s, {"paid", "num"}) /\ Len(s) \in Nat /\ Len(s) # 2
      /\ s[1].w \in {"taxi", "salary", "name"} /\ s[Len(s)].w = "num"
      /\ s[Len(s) - 2].w \in {"taxi", "salary", "name"}
  <2>1. "paid" \in Keywords
    BY DEF Keywords
  <2>2. QED
    BY <1>1, <2>1, WordsThenSays, ZenonT(60)
<1>3. Made(s, {"paid", "num"})
  BY <1>2 DEF Sound
<1>4. Reads(<<Text, {"paid", "pay"}, Num>>, s, words)
  <2>1. /\ "paid" \in Keywords
        /\ "paid" \in {"paid", "pay"}
        /\ ~IsOpen({"paid", "pay"})
        /\ {"paid", "pay"} # Num
    BY DEF Keywords, IsOpen, Text, Rest, Num
  <2>2. QED
    BY <1>1, <2>1, WordsThenSays
<1>5. /\ Applies(DebtPaidByPerson, s)
      /\ CommandOf(DebtPaidByPerson, s) = Meant(DebtPaidByPerson, words)
  <2>1. /\ DebtPaidByPerson.patterns = << <<Text, {"paid", "pay"}, Num>> >>
        /\ DebtPaidByPerson.whole = TRUE
        /\ DebtPaidByPerson.category = "ignored"
    BY DEF DebtPaidByPerson, Rule
  <2>2. Accepts(DebtPaidByPerson, words, s)
    BY <2>1, Accepting
  <2>3. QED
    BY <1>4, <2>1, <2>2, WholeRule DEF NotOfMessage
<1>6. \A j \in 1..18 : j < 12 => ~Applies(SpeechRules[j], s)
  <2>1. \A j \in 1..18 : j < 12 => {"paid", "num"} \cap NamedBy[j] = {}
    BY DEF NamedBy
  <2>2. QED
    BY <1>2, <1>3, <2>1, Silent
<1>7. /\ DebtPaidByPerson = SpeechRules[12]
      /\ DebtPaidByPerson.intent \notin {"UNKNOWN", "BY_CATEGORY"}
  BY SpeechOrder DEF DebtPaidByPerson, Rule
<1>8. Parse(s) = Meant(DebtPaidByPerson, words)
  BY <1>2, <1>5, <1>6, <1>7, ByASentence DEF Speakable
<1>9. QED
  BY <1>1, <1>8

LEMMA SaysPaidThem ==
  ASSUME NEW T, NEW words, Speakable(T, words), CategoryOf(words) = "none"
  PROVE  Parse(WordsThen(words, "KEFELKU")) = Meant(PaidThem, words)
<1>1. PICK s : s = WordsThen(words, "KEFELKU")
  OBVIOUS
<1>2. /\ s \in Seq(T) /\ Sound(s, {"KEFELKU", "num"}) /\ Len(s) \in Nat /\ Len(s) # 2
      /\ s[1].w \in {"taxi", "salary", "name"} /\ s[Len(s)].w = "num"
      /\ s[Len(s) - 2].w \in {"taxi", "salary", "name"}
  <2>1. "KEFELKU" \in Keywords
    BY DEF Keywords
  <2>2. QED
    BY <1>1, <2>1, WordsThenSays, ZenonT(60)
<1>3. Made(s, {"KEFELKU", "num"})
  BY <1>2 DEF Sound
<1>4. Reads(<<Text, {"KEFELKU"}, Num>>, s, words)
  <2>1. /\ "KEFELKU" \in Keywords
        /\ "KEFELKU" \in {"KEFELKU"}
        /\ ~IsOpen({"KEFELKU"})
        /\ {"KEFELKU"} # Num
    BY DEF Keywords, IsOpen, Text, Rest, Num
  <2>2. QED
    BY <1>1, <2>1, WordsThenSays
<1>5. Applies(PaidThem, s) /\ CommandOf(PaidThem, s) = Meant(PaidThem, words)
  <2>1. /\ PaidThem.patterns = << <<Text, {"KEFELKU"}, Num>> >>
        /\ PaidThem.whole = TRUE
        /\ PaidThem.category = "refused"
    BY DEF PaidThem, Rule
  <2>2. Accepts(PaidThem, words, s)
    BY <2>1, Accepting
  <2>3. QED
    BY <1>4, <2>1, <2>2, WholeRule DEF NotOfMessage
<1>6. \A j \in 1..18 : j < 2 => ~Applies(SpeechRules[j], s)
  <2>1. \A j \in 1..18 : j < 2 => {"KEFELKU", "num"} \cap NamedBy[j] = {}
    BY DEF NamedBy
  <2>2. QED
    BY <1>2, <1>3, <2>1, Silent
<1>7. PaidThem = SpeechRules[2] /\ PaidThem.intent \notin {"UNKNOWN", "BY_CATEGORY"}
  BY SpeechOrder DEF PaidThem, Rule
<1>8. Parse(s) = Meant(PaidThem, words)
  BY <1>2, <1>5, <1>6, <1>7, ByASentence DEF Speakable
<1>9. QED
  BY <1>1, <1>8

LEMMA SaysDebtPaidToPerson ==
  ASSUME NEW T, NEW words, Speakable(T, words)
  PROVE  Parse(WordsAfter("paid", words)) = Meant(DebtPaidToPerson, words)
<1>1. PICK s : s = WordsAfter("paid", words)
  OBVIOUS
<1>2. /\ s \in Seq(T) /\ Sound(s, {"paid", "num"}) /\ Len(s) \in Nat /\ Len(s) # 2
      /\ s[Len(s) - 1].w \in {"taxi", "salary", "name"}
  BY <1>1, WordsAfterSays
<1>3. Made(s, {"paid", "num"})
  BY <1>2 DEF Sound
<1>4. Reads(<<{"paid", "pay"}, Text, Num>>, s, words)
  <2>1. /\ "paid" \in Keywords
        /\ "paid" \in {"paid", "pay"}
        /\ ~IsOpen({"paid", "pay"})
        /\ {"paid", "pay"} # Num
    BY DEF Keywords, IsOpen, Text, Rest, Num
  <2>2. QED
    BY <1>1, <2>1, WordsAfterSays
<1>5. /\ Applies(DebtPaidToPerson, s)
      /\ CommandOf(DebtPaidToPerson, s) = Meant(DebtPaidToPerson, words)
  <2>1. /\ DebtPaidToPerson.patterns = << <<{"paid", "pay"}, Text, Num>> >>
        /\ DebtPaidToPerson.whole = TRUE
        /\ DebtPaidToPerson.category = "ignored"
    BY DEF DebtPaidToPerson, Rule
  <2>2. Accepts(DebtPaidToPerson, words, s)
    BY <2>1, Accepting
  <2>3. QED
    BY <1>4, <2>1, <2>2, WholeRule DEF NotOfMessage
<1>6. \A j \in 1..18 : j < 13 => ~Applies(SpeechRules[j], s)
  <2>1. \A j \in 1..18 : j < 13 /\ j # 12 => {"paid", "num"} \cap NamedBy[j] = {}
    BY DEF NamedBy
  <2>2. ~Applies(DebtPaidByPerson, s)
    <3>1. ~IsOpen({"paid", "pay"}) /\ s[Len(s) - 1].w \notin {"paid", "pay"}
      BY <1>2 DEF IsOpen, Text, Rest
    <3>2. ~Fits(<<Text, {"paid", "pay"}, Num>>, s)
      BY <1>2, <3>1, Opens, NeedsTrailing
    <3>3. /\ DebtPaidByPerson.patterns = << <<Text, {"paid", "pay"}, Num>> >>
          /\ DebtPaidByPerson.whole = TRUE
      BY DEF DebtPaidByPerson, Rule
    <3>4. QED
      BY <3>2, <3>3, Misfit
  <2>3. QED
    BY <1>2, <1>3, <2>1, <2>2, Silent, SpeechOrder
<1>7. /\ DebtPaidToPerson = SpeechRules[13]
      /\ DebtPaidToPerson.intent \notin {"UNKNOWN", "BY_CATEGORY"}
  BY SpeechOrder DEF DebtPaidToPerson, Rule
<1>8. Parse(s) = Meant(DebtPaidToPerson, words)
  BY <1>2, <1>5, <1>6, <1>7, ByASentence DEF Speakable
<1>9. QED
  BY <1>1, <1>8

LEMMA SaysIOweAm ==
  ASSUME NEW T, NEW words, Speakable(T, words), CategoryOf(words) = "none"
  PROVE  Parse(WordsThen(words, "ALEBIGN")) = Meant(IOweAm, words)
<1>1. PICK s : s = WordsThen(words, "ALEBIGN")
  OBVIOUS
<1>2. /\ s \in Seq(T) /\ Sound(s, {"ALEBIGN", "num"}) /\ Len(s) \in Nat /\ Len(s) # 2
      /\ s[1].w \in {"taxi", "salary", "name"} /\ s[Len(s)].w = "num"
      /\ s[Len(s) - 2].w \in {"taxi", "salary", "name"}
  <2>1. "ALEBIGN" \in Keywords
    BY DEF Keywords
  <2>2. QED
    BY <1>1, <2>1, WordsThenSays
<1>3. Made(s, {"ALEBIGN", "num"})
  BY <1>2 DEF Sound
<1>4. Reads(<<Text, {"ALEBIGN"}, Num>>, s, words)
  <2>1. /\ "ALEBIGN" \in Keywords
        /\ "ALEBIGN" \in {"ALEBIGN"}
        /\ ~IsOpen({"ALEBIGN"})
        /\ {"ALEBIGN"} # Num
    BY DEF Keywords, IsOpen, Text, Rest, Num
  <2>2. QED
    BY <1>1, <2>1, WordsThenSays
<1>5. Applies(IOweAm, s) /\ CommandOf(IOweAm, s) = Meant(IOweAm, words)
  <2>1. /\ IOweAm.patterns = << <<Text, {"ALEBIGN"}, Num>> >>
        /\ IOweAm.whole = TRUE
        /\ IOweAm.category = "refused"
    BY DEF IOweAm, Rule
  <2>2. Accepts(IOweAm, words, s)
    BY <2>1, Accepting
  <2>3. QED
    BY <1>4, <2>1, <2>2, WholeRule DEF NotOfMessage
<1>6. \A j \in 1..18 : j < 6 => ~Applies(SpeechRules[j], s)
  <2>1. \A j \in 1..18 : j < 6 => {"ALEBIGN", "num"} \cap NamedBy[j] = {}
    BY DEF NamedBy
  <2>2. QED
    BY <1>2, <1>3, <2>1, Silent
<1>7. IOweAm = SpeechRules[6] /\ IOweAm.intent \notin {"UNKNOWN", "BY_CATEGORY"}
  BY SpeechOrder DEF IOweAm, Rule
<1>8. Parse(s) = Meant(IOweAm, words)
  BY <1>2, <1>5, <1>6, <1>7, ByASentence DEF Speakable
<1>9. QED
  BY <1>1, <1>8

LEMMA SaysIOwe ==
  ASSUME NEW T, NEW words, Speakable(T, words)
  PROVE  Parse(WordsAfterTwo("i", "owe", words)) = Meant(IOwe, words)
<1>1. PICK s : s = WordsAfterTwo("i", "owe", words)
  OBVIOUS
<1>2. /\ s \in Seq(T) /\ Sound(s, {"i", "owe", "num"}) /\ Len(s) \in Nat /\ Len(s) # 2
      /\ s # <<>> /\ \A i \in 1..Len(s) : s[i].w = "num" => i = Len(s)
  BY <1>1, WordsAfterTwoSays
<1>3. Made(s, {"i", "owe", "num"})
  BY <1>2 DEF Sound
<1>4. Reads(<<{"i"}, {"owe"}, Text, Num>>, s, words)
  BY <1>1, WordsAfterTwoSays
<1>5. Applies(IOwe, s) /\ CommandOf(IOwe, s) = Meant(IOwe, words)
  <2>1. /\ IOwe.patterns = << <<{"i"}, {"owe"}, Text, Num>> >>
        /\ IOwe.whole = FALSE
        /\ IOwe.category = "ignored"
    BY DEF IOwe, Rule
  <2>2. Accepts(IOwe, words, s)
    BY <2>1, Accepting
  <2>3. /\ Windows(<<{"i"}, {"owe"}, Text, Num>>, s) # {}
        /\ FirstWindow(<<{"i"}, {"owe"}, Text, Num>>, s) = s
    <3>1. PICK pattern : pattern = <<{"i"}, {"owe"}, Text, Num>>
      OBVIOUS
    <3>2. ASSUME NEW i \in 1..Len(s), NEW j \in 1..Len(s), i <= j, Fits(pattern, SubSeq(s, i, j))
          PROVE  j = Len(s)
      <4>1. PICK t : t = SubSeq(s, i, j)
        OBVIOUS
      <4>2. Len(t) = j - i + 1 /\ Len(t) \in Nat /\ t[Len(t)] = s[j]
        BY <1>2, <3>2, <4>1
      <4>3. ~IsOpen({"i"}) /\ ~IsOpen({"owe"}) /\ ~IsOpen(Num)
        BY DEF IsOpen, Text, Rest, Num
      <4>4. Fits(<<{"i"}, {"owe"}, Text, Num>>, t)
        BY <3>1, <3>2, <4>1
      <4>5. t[Len(t)].w \in Num
        BY <4>2, <4>3, <4>4, NeedsBetweenTwo
      <4>6. QED
        BY <1>2, <4>2, <4>5 DEF Num
    <3>3. Fits(pattern, s)
      BY <1>4, <3>1 DEF Reads
    <3>4. Windows(pattern, s) # {} /\ FirstWindow(pattern, s) = s
      BY <1>2, <3>2, <3>3, WholeWindow
    <3>5. QED
      BY <3>1, <3>4
  <2>4. QED
    BY <1>4, <2>1, <2>2, <2>3, AnyRule DEF NotOfMessage
<1>6. \A j \in 1..18 : j < 18 => ~Applies(SpeechRules[j], s)
  <2>1. \A j \in 1..18 : j < 18 => {"i", "owe", "num"} \cap NamedBy[j] = {}
    BY DEF NamedBy
  <2>2. QED
    BY <1>2, <1>3, <2>1, Silent
<1>7. IOwe = SpeechRules[18] /\ IOwe.intent \notin {"UNKNOWN", "BY_CATEGORY"}
  BY SpeechOrder DEF IOwe, Rule
<1>8. Parse(s) = Meant(IOwe, words)
  BY <1>2, <1>5, <1>6, <1>7, ByASentence, SMTT(30) DEF Speakable
<1>9. QED
  BY <1>1, <1>8

LEMMA SaysAmSpent ==
  ASSUME NEW T, NEW words, Speakable(T, words)
  PROVE  Parse(ThenWords("AWETAHU", words)) = Meant(AmSpent, words)
<1>1. PICK s : s = ThenWords("AWETAHU", words)
  OBVIOUS
<1>2. s \in Seq(T) /\ Sound(s, {"AWETAHU", "num"}) /\ Len(s) \in Nat /\ Len(s) # 2
  <2>1. "AWETAHU" \in Keywords
    BY DEF Keywords
  <2>2. QED
    BY <1>1, <2>1, ThenWordsSays
<1>3. Made(s, {"AWETAHU", "num"})
  BY <1>2 DEF Sound
<1>4. Reads(<<{"KEFELKU", "AWETAHU", "WECHI"}, Num, Rest>>, s, words)
  <2>1. /\ "AWETAHU" \in Keywords
        /\ "AWETAHU" \in {"KEFELKU", "AWETAHU", "WECHI"}
        /\ ~IsOpen({"KEFELKU", "AWETAHU", "WECHI"})
        /\ {"KEFELKU", "AWETAHU", "WECHI"} # Num
    BY DEF Keywords, IsOpen, Text, Rest, Num
  <2>2. QED
    BY <1>1, <2>1, ThenWordsSays
<1>5. Applies(AmSpent, s) /\ CommandOf(AmSpent, s) = Meant(AmSpent, words)
  <2>1. /\ AmSpent.patterns = << <<{"KEFELKU", "AWETAHU", "WECHI"}, Num, Rest>>, <<Num, {"KEFELKU", "AWETAHU"}, Rest>> >>
        /\ AmSpent.whole = TRUE
        /\ AmSpent.category = "wanted"
    BY DEF AmSpent, Rule
  <2>2. Accepts(AmSpent, words, s)
    BY <2>1, Accepting
  <2>3. QED
    BY <1>4, <2>1, <2>2, WholeRuleFirst DEF NotOfMessage
<1>6. \A j \in 1..18 : j < 3 => ~Applies(SpeechRules[j], s)
  <2>1. \A j \in 1..18 : j < 3 => {"AWETAHU", "num"} \cap NamedBy[j] = {}
    BY DEF NamedBy
  <2>2. QED
    BY <1>2, <1>3, <2>1, Silent
<1>7. AmSpent = SpeechRules[3] /\ AmSpent.intent \notin {"UNKNOWN", "BY_CATEGORY"}
  BY SpeechOrder DEF AmSpent, Rule
<1>8. Parse(s) = Meant(AmSpent, words)
  BY <1>2, <1>5, <1>6, <1>7, ByASentence DEF Speakable
<1>9. QED
  BY <1>1, <1>8

LEMMA SaysSpent ==
  ASSUME NEW T, NEW words, Speakable(T, words)
  PROVE  Parse(ThenWords("spent", words)) = Meant(Spent, words)
<1>1. PICK s : s = ThenWords("spent", words)
  OBVIOUS
<1>2. s \in Seq(T) /\ Sound(s, {"spent", "num"}) /\ Len(s) \in Nat /\ Len(s) # 2
  <2>1. "spent" \in Keywords
    BY DEF Keywords
  <2>2. QED
    BY <1>1, <2>1, ThenWordsSays
<1>3. Made(s, {"spent", "num"})
  BY <1>2 DEF Sound
<1>4. Reads(<<{"spent", "paid"}, Num, Rest>>, s, words)
  <2>1. /\ "spent" \in Keywords
        /\ "spent" \in {"spent", "paid"}
        /\ ~IsOpen({"spent", "paid"})
        /\ {"spent", "paid"} # Num
    BY DEF Keywords, IsOpen, Text, Rest, Num
  <2>2. QED
    BY <1>1, <2>1, ThenWordsSays
<1>5. Applies(Spent, s) /\ CommandOf(Spent, s) = Meant(Spent, words)
  <2>1. /\ Spent.patterns = << <<{"spent", "paid"}, Num, Rest>>, <<{"i"}, {"spent", "paid"}, Num, Rest>> >>
        /\ Spent.whole = TRUE
        /\ Spent.category = "wanted"
    BY DEF Spent, Rule
  <2>2. Accepts(Spent, words, s)
    BY <2>1, Accepting
  <2>3. QED
    BY <1>4, <2>1, <2>2, WholeRuleFirst DEF NotOfMessage
<1>6. \A j \in 1..18 : j < 14 => ~Applies(SpeechRules[j], s)
  <2>1. \A j \in 1..18 : j < 14 => {"spent", "num"} \cap NamedBy[j] = {}
    BY DEF NamedBy
  <2>2. QED
    BY <1>2, <1>3, <2>1, Silent
<1>7. Spent = SpeechRules[14] /\ Spent.intent \notin {"UNKNOWN", "BY_CATEGORY"}
  BY SpeechOrder DEF Spent, Rule
<1>8. Parse(s) = Meant(Spent, words)
  BY <1>2, <1>5, <1>6, <1>7, ByASentence, SMTT(30) DEF Speakable
<1>9. QED
  BY <1>1, <1>8

LEMMA SaysAmIncome ==
  ASSUME NEW T, NEW words, Speakable(T, words)
  PROVE  Parse(ThenWords("TEQEBELKU", words)) = Meant(AmIncome, words)
<1>1. PICK s : s = ThenWords("TEQEBELKU", words)
  OBVIOUS
<1>2. s \in Seq(T) /\ Sound(s, {"TEQEBELKU", "num"}) /\ Len(s) \in Nat /\ Len(s) # 2
  <2>1. "TEQEBELKU" \in Keywords
    BY DEF Keywords
  <2>2. QED
    BY <1>1, <2>1, ThenWordsSays
<1>3. Made(s, {"TEQEBELKU", "num"})
  BY <1>2 DEF Sound
<1>4. Reads(<<{"TEQEBELKU"}, Num, Rest>>, s, words)
  <2>1. /\ "TEQEBELKU" \in Keywords
        /\ "TEQEBELKU" \in {"TEQEBELKU"}
        /\ ~IsOpen({"TEQEBELKU"})
        /\ {"TEQEBELKU"} # Num
    BY DEF Keywords, IsOpen, Text, Rest, Num
  <2>2. QED
    BY <1>1, <2>1, ThenWordsSays
<1>5. Applies(AmIncome, s) /\ CommandOf(AmIncome, s) = Meant(AmIncome, words)
  <2>1. /\ AmIncome.patterns = << <<{"TEQEBELKU"}, Num, Rest>>, <<Num, {"TEQEBELKU"}, Rest>> >>
        /\ AmIncome.whole = TRUE
        /\ AmIncome.category = "or other"
    BY DEF AmIncome, Rule
  <2>2. Accepts(AmIncome, words, s)
    BY <2>1, Accepting
  <2>3. QED
    BY <1>4, <2>1, <2>2, WholeRuleFirst DEF NotOfMessage
<1>6. \A j \in 1..18 : j < 4 => ~Applies(SpeechRules[j], s)
  <2>1. \A j \in 1..18 : j < 4 => {"TEQEBELKU", "num"} \cap NamedBy[j] = {}
    BY DEF NamedBy
  <2>2. QED
    BY <1>2, <1>3, <2>1, Silent
<1>7. AmIncome = SpeechRules[4] /\ AmIncome.intent \notin {"UNKNOWN", "BY_CATEGORY"}
  BY SpeechOrder DEF AmIncome, Rule
<1>8. Parse(s) = Meant(AmIncome, words)
  BY <1>2, <1>5, <1>6, <1>7, ByASentence DEF Speakable
<1>9. QED
  BY <1>1, <1>8

LEMMA SaysIncome ==
  ASSUME NEW T, NEW words, Speakable(T, words)
  PROVE  Parse(ThenWords("got", words)) = Meant(Income, words)
<1>1. PICK s : s = ThenWords("got", words)
  OBVIOUS
<1>2. /\ s \in Seq(T) /\ Sound(s, {"got", "num"}) /\ Len(s) \in Nat /\ Len(s) # 2
      /\ s # <<>>
  <2>1. "got" \in Keywords
    BY DEF Keywords
  <2>2. QED
    BY <1>1, <2>1, ThenWordsSays
<1>3. Made(s, {"got", "num"})
  BY <1>2 DEF Sound
<1>4. Reads(<<{"got"}, Num, Rest>>, s, words)
  <2>1. "got" \in Keywords /\ "got" \in {"got"} /\ ~IsOpen({"got"}) /\ {"got"} # Num
    BY DEF Keywords, IsOpen, Text, Rest, Num
  <2>2. QED
    BY <1>1, <2>1, ThenWordsSays
<1>5. Applies(Income, s) /\ CommandOf(Income, s) = Meant(Income, words)
  <2>1. /\ Income.patterns = << <<{"got"}, Num, Rest>> >>
        /\ Income.whole = FALSE
        /\ Income.category = "or salary"
    BY DEF Income, Rule
  <2>2. Accepts(Income, words, s)
    BY <2>1, Accepting
  <2>3. Windows(<<{"got"}, Num, Rest>>, s) # {} /\ FirstWindow(<<{"got"}, Num, Rest>>, s) = s
    <3>1. PICK pattern : pattern = <<{"got"}, Num, Rest>>
      OBVIOUS
    <3>2. pattern[Len(pattern)] = Rest
      BY <3>1, Elements
    <3>3. Fits(pattern, s)
      BY <1>4, <3>1 DEF Reads
    <3>4. Windows(pattern, s) # {} /\ FirstWindow(pattern, s) = s
      BY <1>2, <3>2, <3>3, WholeWindow
    <3>5. QED
      BY <3>1, <3>4
  <2>4. QED
    BY <1>4, <2>1, <2>2, <2>3, AnyRule DEF NotOfMessage
<1>6. \A j \in 1..18 : j < 16 => ~Applies(SpeechRules[j], s)
  <2>1. \A j \in 1..18 : j < 16 => {"got", "num"} \cap NamedBy[j] = {}
    BY DEF NamedBy
  <2>2. QED
    BY <1>2, <1>3, <2>1, Silent
<1>7. Income = SpeechRules[16] /\ Income.intent \notin {"UNKNOWN", "BY_CATEGORY"}
  BY SpeechOrder DEF Income, Rule
<1>8. Parse(s) = Meant(Income, words)
  BY <1>2, <1>5, <1>6, <1>7, ByASentence, SMTT(30) DEF Speakable
<1>9. QED
  BY <1>1, <1>8

LEMMA SaysOwesMe ==
  ASSUME NEW T, NEW words, Speakable(T, words)
  PROVE  Parse(WordsThen(words, "ABEDEREGN")) = Meant(OwesMe, words)
<1>1. PICK s : s = WordsThen(words, "ABEDEREGN")
  OBVIOUS
<1>2. /\ s \in Seq(T) /\ Sound(s, {"ABEDEREGN", "num"}) /\ Len(s) \in Nat /\ Len(s) # 2
      /\ s[1].w \in {"taxi", "salary", "name"} /\ s[Len(s)].w = "num"
      /\ s[Len(s) - 2].w \in {"taxi", "salary", "name"}
  <2>1. "ABEDEREGN" \in Keywords
    BY DEF Keywords
  <2>2. QED
    BY <1>1, <2>1, WordsThenSays, ZenonT(60)
<1>3. Made(s, {"ABEDEREGN", "num"})
  BY <1>2 DEF Sound
<1>4. Reads(<<Text, {"ABEDEREGN"}, Num>>, s, words)
  <2>1. /\ "ABEDEREGN" \in Keywords
        /\ "ABEDEREGN" \in {"ABEDEREGN"}
        /\ ~IsOpen({"ABEDEREGN"})
        /\ {"ABEDEREGN"} # Num
    BY DEF Keywords, IsOpen, Text, Rest, Num
  <2>2. QED
    BY <1>1, <2>1, WordsThenSays
<1>5. Applies(OwesMe, s) /\ CommandOf(OwesMe, s) = Meant(OwesMe, words)
  <2>1. /\ OwesMe.patterns = << <<Text, {"ABEDEREGN"}, Num>> >>
        /\ OwesMe.whole = TRUE
        /\ OwesMe.category = "ignored"
    BY DEF OwesMe, Rule
  <2>2. Accepts(OwesMe, words, s)
    BY <2>1, Accepting
  <2>3. QED
    BY <1>4, <2>1, <2>2, WholeRule DEF NotOfMessage
<1>6. \A j \in 1..18 : j < 5 => ~Applies(SpeechRules[j], s)
  <2>1. \A j \in 1..18 : j < 5 => {"ABEDEREGN", "num"} \cap NamedBy[j] = {}
    BY DEF NamedBy
  <2>2. QED
    BY <1>2, <1>3, <2>1, Silent
<1>7. OwesMe = SpeechRules[5] /\ OwesMe.intent \notin {"UNKNOWN", "BY_CATEGORY"}
  BY SpeechOrder DEF OwesMe, Rule
<1>8. Parse(s) = Meant(OwesMe, words)
  BY <1>2, <1>5, <1>6, <1>7, ByASentence DEF Speakable
<1>9. QED
  BY <1>1, <1>8

LEMMA SaysOwedToMe ==
  ASSUME NEW T, NEW words, Speakable(T, words)
  PROVE  Parse(WordsThenTwo(words, "owes", "me")) = Meant(OwedToMe, words)
<1>1. PICK s : s = WordsThenTwo(words, "owes", "me")
  OBVIOUS
<1>2. /\ s \in Seq(T) /\ Sound(s, {"owes", "me", "num"}) /\ Len(s) \in Nat /\ Len(s) # 2
      /\ s # <<>> /\ \A i \in 1..Len(s) : s[i].w = "num" => i = Len(s)
  BY <1>1, WordsThenTwoSays
<1>3. Made(s, {"owes", "me", "num"})
  BY <1>2 DEF Sound
<1>4. Reads(<<Text, {"owes"}, {"me"}, Num>>, s, words)
  BY <1>1, WordsThenTwoSays
<1>5. Applies(OwedToMe, s) /\ CommandOf(OwedToMe, s) = Meant(OwedToMe, words)
  <2>1. /\ OwedToMe.patterns = << <<Text, {"owes"}, {"me"}, Num>> >>
        /\ OwedToMe.whole = FALSE
        /\ OwedToMe.category = "ignored"
    BY DEF OwedToMe, Rule
  <2>2. Accepts(OwedToMe, words, s)
    BY <2>1, Accepting
  <2>3. /\ Windows(<<Text, {"owes"}, {"me"}, Num>>, s) # {}
        /\ FirstWindow(<<Text, {"owes"}, {"me"}, Num>>, s) = s
    <3>1. PICK pattern : pattern = <<Text, {"owes"}, {"me"}, Num>>
      OBVIOUS
    <3>2. ASSUME NEW i \in 1..Len(s), NEW j \in 1..Len(s), i <= j, Fits(pattern, SubSeq(s, i, j))
          PROVE  j = Len(s)
      <4>1. PICK t : t = SubSeq(s, i, j)
        OBVIOUS
      <4>2. Len(t) = j - i + 1 /\ Len(t) \in Nat /\ t[Len(t)] = s[j]
        BY <1>2, <3>2, <4>1
      <4>3. ~IsOpen({"owes"}) /\ ~IsOpen({"me"}) /\ ~IsOpen(Num)
        BY DEF IsOpen, Text, Rest, Num
      <4>4. Fits(<<Text, {"owes"}, {"me"}, Num>>, t)
        BY <3>1, <3>2, <4>1
      <4>5. t[Len(t)].w \in Num
        BY <4>2, <4>3, <4>4, NeedsTrailingTwo
      <4>6. QED
        BY <1>2, <4>2, <4>5 DEF Num
    <3>3. Fits(pattern, s)
      BY <1>4, <3>1 DEF Reads
    <3>4. Windows(pattern, s) # {} /\ FirstWindow(pattern, s) = s
      BY <1>2, <3>2, <3>3, WholeWindow
    <3>5. QED
      BY <3>1, <3>4
  <2>4. QED
    BY <1>4, <2>1, <2>2, <2>3, AnyRule DEF NotOfMessage
<1>6. \A j \in 1..18 : j < 17 => ~Applies(SpeechRules[j], s)
  <2>1. \A j \in 1..18 : j < 17 => {"owes", "me", "num"} \cap NamedBy[j] = {}
    BY DEF NamedBy
  <2>2. QED
    BY <1>2, <1>3, <2>1, Silent
<1>7. OwedToMe = SpeechRules[17] /\ OwedToMe.intent \notin {"UNKNOWN", "BY_CATEGORY"}
  BY SpeechOrder DEF OwedToMe, Rule
<1>8. Parse(s) = Meant(OwedToMe, words)
  BY <1>2, <1>5, <1>6, <1>7, ByASentence, SMTT(30) DEF Speakable
<1>9. QED
  BY <1>1, <1>8

LEMMA SaysAmBudgetLead ==
  ASSUME NEW T, NEW words, Speakable(T, words)
  PROVE  Parse(ThenWords("BAJET", words)) = Meant(AmBudgetLead, words)
<1>1. PICK s : s = ThenWords("BAJET", words)
  OBVIOUS
<1>2. s \in Seq(T) /\ Sound(s, {"BAJET", "num"}) /\ Len(s) \in Nat /\ Len(s) # 2
  <2>1. "BAJET" \in Keywords
    BY DEF Keywords
  <2>2. QED
    BY <1>1, <2>1, ThenWordsSays
<1>3. Made(s, {"BAJET", "num"})
  BY <1>2 DEF Sound
<1>4. Reads(<<{"BAJET"}, Num, Text>>, s, words)
  <2>1. "BAJET" \in Keywords /\ "BAJET" \in {"BAJET"} /\ ~IsOpen({"BAJET"}) /\ {"BAJET"} # Num
    BY DEF Keywords, IsOpen, Text, Rest, Num
  <2>2. QED
    BY <1>1, <2>1, ThenWordsSays
<1>5. Applies(AmBudgetLead, s) /\ CommandOf(AmBudgetLead, s) = Meant(AmBudgetLead, words)
  <2>1. /\ AmBudgetLead.patterns = << <<{"BAJET"}, Num, Text>> >>
        /\ AmBudgetLead.whole = TRUE
        /\ AmBudgetLead.category = "wanted"
    BY DEF AmBudgetLead, Rule
  <2>2. Accepts(AmBudgetLead, words, s)
    BY <2>1, Accepting
  <2>3. QED
    BY <1>4, <2>1, <2>2, WholeRule DEF NotOfMessage
<1>6. \A j \in 1..18 : j < 7 => ~Applies(SpeechRules[j], s)
  <2>1. \A j \in 1..18 : j < 7 => {"BAJET", "num"} \cap NamedBy[j] = {}
    BY DEF NamedBy
  <2>2. QED
    BY <1>2, <1>3, <2>1, Silent
<1>7. AmBudgetLead = SpeechRules[7] /\ AmBudgetLead.intent \notin {"UNKNOWN", "BY_CATEGORY"}
  BY SpeechOrder DEF AmBudgetLead, Rule
<1>8. Parse(s) = Meant(AmBudgetLead, words)
  BY <1>2, <1>5, <1>6, <1>7, ByASentence DEF Speakable
<1>9. QED
  BY <1>1, <1>8

LEMMA SaysBudgetLead ==
  ASSUME NEW T, NEW words, Speakable(T, words)
  PROVE  Parse(ThenWords("budget", words)) = Meant(BudgetLead, words)
<1>1. PICK s : s = ThenWords("budget", words)
  OBVIOUS
<1>2. s \in Seq(T) /\ Sound(s, {"budget", "num"}) /\ Len(s) \in Nat /\ Len(s) # 2
  <2>1. "budget" \in Keywords
    BY DEF Keywords
  <2>2. QED
    BY <1>1, <2>1, ThenWordsSays
<1>3. Made(s, {"budget", "num"})
  BY <1>2 DEF Sound
<1>4. Reads(<<{"budget"}, Num, Text>>, s, words)
  <2>1. "budget" \in Keywords /\ "budget" \in {"budget"} /\ ~IsOpen({"budget"}) /\ {"budget"} # Num
    BY DEF Keywords, IsOpen, Text, Rest, Num
  <2>2. QED
    BY <1>1, <2>1, ThenWordsSays
<1>5. Applies(BudgetLead, s) /\ CommandOf(BudgetLead, s) = Meant(BudgetLead, words)
  <2>1. /\ BudgetLead.patterns = << <<{"budget"}, Num, Text>> >>
        /\ BudgetLead.whole = TRUE
        /\ BudgetLead.category = "wanted"
    BY DEF BudgetLead, Rule
  <2>2. Accepts(BudgetLead, words, s)
    BY <2>1, Accepting
  <2>3. QED
    BY <1>4, <2>1, <2>2, WholeRule DEF NotOfMessage
<1>6. \A j \in 1..18 : ~Applies(SpeechRules[j], s)
  <2>1. \A j \in 1..18 : {"budget", "num"} \cap NamedBy[j] = {}
    BY DEF NamedBy
  <2>2. QED
    BY <1>2, <1>3, <2>1, Silent
<1>7. \A j \in 1..14 : j < 8 => ~Applies(LastRules[j], s)
  <2>1. \A j \in 1..7 : ~Applies(LastRules[j], s)
    BY <1>2, <1>3, NoTalk
  <2>2. QED
    BY <2>1, LastOrder
<1>8. BudgetLead = LastRules[8]
  BY LastOrder
<1>9. Parse(s) = Meant(BudgetLead, words)
  BY <1>2, <1>5, <1>6, <1>7, <1>8, ByALastRule, SMTT(30) DEF Speakable
<1>10. QED
  BY <1>1, <1>9

LEMMA SaysAmBudgetTrail ==
  ASSUME NEW T, NEW words, Speakable(T, words)
  PROVE  Parse(WordsThen(words, "BAJET")) = Meant(AmBudgetTrail, words)
<1>1. PICK s : s = WordsThen(words, "BAJET")
  OBVIOUS
<1>2. /\ s \in Seq(T) /\ Sound(s, {"BAJET", "num"}) /\ Len(s) \in Nat /\ Len(s) # 2
      /\ s[1].w \in {"taxi", "salary", "name"} /\ s[Len(s)].w = "num"
      /\ s[Len(s) - 2].w \in {"taxi", "salary", "name"}
  <2>1. "BAJET" \in Keywords
    BY DEF Keywords
  <2>2. QED
    BY <1>1, <2>1, WordsThenSays
<1>3. Made(s, {"BAJET", "num"})
  BY <1>2 DEF Sound
<1>4. Reads(<<Text, {"BAJET"}, Num>>, s, words)
  <2>1. "BAJET" \in Keywords /\ "BAJET" \in {"BAJET"} /\ ~IsOpen({"BAJET"}) /\ {"BAJET"} # Num
    BY DEF Keywords, IsOpen, Text, Rest, Num
  <2>2. QED
    BY <1>1, <2>1, WordsThenSays
<1>5. Applies(AmBudgetTrail, s) /\ CommandOf(AmBudgetTrail, s) = Meant(AmBudgetTrail, words)
  <2>1. /\ AmBudgetTrail.patterns = << <<Text, {"BAJET"}, Num>> >>
        /\ AmBudgetTrail.whole = TRUE
        /\ AmBudgetTrail.category = "wanted"
    BY DEF AmBudgetTrail, Rule
  <2>2. Accepts(AmBudgetTrail, words, s)
    BY <2>1, Accepting
  <2>3. QED
    BY <1>4, <2>1, <2>2, WholeRule DEF NotOfMessage
<1>6. \A j \in 1..18 : j < 8 => ~Applies(SpeechRules[j], s)
  <2>1. \A j \in 1..18 : j < 8 /\ j # 7 => {"BAJET", "num"} \cap NamedBy[j] = {}
    BY DEF NamedBy
  <2>2. ~Applies(AmBudgetLead, s)
    <3>1. ~IsOpen({"BAJET"}) /\ s[1].w \notin {"BAJET"}
      BY <1>2 DEF IsOpen, Text, Rest
    <3>2. ~Fits(<<{"BAJET"}, Num, Text>>, s)
      BY <3>1, Opens, NeedsLeading
    <3>3. AmBudgetLead.patterns = << <<{"BAJET"}, Num, Text>> >> /\ AmBudgetLead.whole = TRUE
      BY DEF AmBudgetLead, Rule
    <3>4. QED
      BY <3>2, <3>3, Misfit
  <2>3. QED
    BY <1>2, <1>3, <2>1, <2>2, Silent, SpeechOrder
<1>7. AmBudgetTrail = SpeechRules[8] /\ AmBudgetTrail.intent \notin {"UNKNOWN", "BY_CATEGORY"}
  BY SpeechOrder DEF AmBudgetTrail, Rule
<1>8. Parse(s) = Meant(AmBudgetTrail, words)
  BY <1>2, <1>5, <1>6, <1>7, ByASentence DEF Speakable
<1>9. QED
  BY <1>1, <1>8

LEMMA SaysBudgetTrail ==
  ASSUME NEW T, NEW words, Speakable(T, words)
  PROVE  Parse(WordsThen(words, "budget")) = Meant(BudgetTrail, words)
<1>1. PICK s : s = WordsThen(words, "budget")
  OBVIOUS
<1>2. /\ s \in Seq(T) /\ Sound(s, {"budget", "num"}) /\ Len(s) \in Nat /\ Len(s) # 2
      /\ s[1].w \in {"taxi", "salary", "name"} /\ s[Len(s)].w = "num"
      /\ s[Len(s) - 2].w \in {"taxi", "salary", "name"}
  <2>1. "budget" \in Keywords
    BY DEF Keywords
  <2>2. QED
    BY <1>1, <2>1, WordsThenSays, ZenonT(60)
<1>3. Made(s, {"budget", "num"})
  BY <1>2 DEF Sound
<1>4. Reads(<<Text, {"budget"}, Num>>, s, words)
  <2>1. "budget" \in Keywords /\ "budget" \in {"budget"} /\ ~IsOpen({"budget"}) /\ {"budget"} # Num
    BY DEF Keywords, IsOpen, Text, Rest, Num
  <2>2. QED
    BY <1>1, <2>1, WordsThenSays
<1>5. Applies(BudgetTrail, s) /\ CommandOf(BudgetTrail, s) = Meant(BudgetTrail, words)
  <2>1. /\ BudgetTrail.patterns = << <<Text, {"budget"}, Num>> >>
        /\ BudgetTrail.whole = TRUE
        /\ BudgetTrail.category = "wanted"
    BY DEF BudgetTrail, Rule
  <2>2. Accepts(BudgetTrail, words, s)
    BY <2>1, Accepting
  <2>3. QED
    BY <1>4, <2>1, <2>2, WholeRule DEF NotOfMessage
<1>6. \A j \in 1..18 : ~Applies(SpeechRules[j], s)
  <2>1. \A j \in 1..18 : {"budget", "num"} \cap NamedBy[j] = {}
    BY DEF NamedBy
  <2>2. QED
    BY <1>2, <1>3, <2>1, Silent
<1>7. \A j \in 1..14 : j < 9 => ~Applies(LastRules[j], s)
  <2>1. ~Applies(BudgetLead, s)
    <3>1. ~IsOpen({"budget"}) /\ s[1].w \notin {"budget"}
      BY <1>2 DEF IsOpen, Text, Rest
    <3>2. ~Fits(<<{"budget"}, Num, Text>>, s)
      BY <3>1, Opens, NeedsLeading
    <3>3. BudgetLead.patterns = << <<{"budget"}, Num, Text>> >> /\ BudgetLead.whole = TRUE
      BY DEF BudgetLead, Rule
    <3>4. QED
      BY <3>2, <3>3, Misfit
  <2>2. \A j \in 1..7 : ~Applies(LastRules[j], s)
    BY <1>2, <1>3, NoTalk, SMTT(30)
  <2>3. QED
    BY <2>1, <2>2, LastOrder
<1>8. BudgetTrail = LastRules[9]
  BY LastOrder
<1>9. Parse(s) = Meant(BudgetTrail, words)
  BY <1>2, <1>5, <1>6, <1>7, <1>8, ByALastRule, SMTT(30) DEF Speakable
<1>10. QED
  BY <1>1, <1>9

LEMMA SaysAmSaveLead ==
  ASSUME NEW T, NEW words, Speakable(T, words)
  PROVE  Parse(ThenWords("QUTABA", words)) = Meant(AmSaveLead, words)
<1>1. PICK s : s = ThenWords("QUTABA", words)
  OBVIOUS
<1>2. s \in Seq(T) /\ Sound(s, {"QUTABA", "num"}) /\ Len(s) \in Nat /\ Len(s) # 2
  <2>1. "QUTABA" \in Keywords
    BY DEF Keywords
  <2>2. QED
    BY <1>1, <2>1, ThenWordsSays
<1>3. Made(s, {"QUTABA", "num"})
  BY <1>2 DEF Sound
<1>4. Reads(<<{"QUTABA"}, Num, Text>>, s, words)
  <2>1. "QUTABA" \in Keywords /\ "QUTABA" \in {"QUTABA"} /\ ~IsOpen({"QUTABA"}) /\ {"QUTABA"} # Num
    BY DEF Keywords, IsOpen, Text, Rest, Num
  <2>2. QED
    BY <1>1, <2>1, ThenWordsSays
<1>5. Applies(AmSaveLead, s) /\ CommandOf(AmSaveLead, s) = Meant(AmSaveLead, words)
  <2>1. /\ AmSaveLead.patterns = << <<{"QUTABA"}, Num, Text>> >>
        /\ AmSaveLead.whole = TRUE
        /\ AmSaveLead.category = "ignored"
    BY DEF AmSaveLead, Rule
  <2>2. Accepts(AmSaveLead, words, s)
    BY <2>1, Accepting
  <2>3. QED
    BY <1>4, <2>1, <2>2, WholeRule DEF NotOfMessage
<1>6. \A j \in 1..18 : j < 9 => ~Applies(SpeechRules[j], s)
  <2>1. \A j \in 1..18 : j < 9 => {"QUTABA", "num"} \cap NamedBy[j] = {}
    BY DEF NamedBy
  <2>2. QED
    BY <1>2, <1>3, <2>1, Silent
<1>7. AmSaveLead = SpeechRules[9] /\ AmSaveLead.intent \notin {"UNKNOWN", "BY_CATEGORY"}
  BY SpeechOrder DEF AmSaveLead, Rule
<1>8. Parse(s) = Meant(AmSaveLead, words)
  BY <1>2, <1>5, <1>6, <1>7, ByASentence DEF Speakable
<1>9. QED
  BY <1>1, <1>8

LEMMA SaysSavingsLead ==
  ASSUME NEW T, NEW words, Speakable(T, words)
  PROVE  Parse(ThenWords("save", words)) = Meant(SavingsLead, words)
<1>1. PICK s : s = ThenWords("save", words)
  OBVIOUS
<1>2. s \in Seq(T) /\ Sound(s, {"save", "num"}) /\ Len(s) \in Nat /\ Len(s) # 2
  <2>1. "save" \in Keywords
    BY DEF Keywords
  <2>2. QED
    BY <1>1, <2>1, ThenWordsSays
<1>3. Made(s, {"save", "num"})
  BY <1>2 DEF Sound
<1>4. Reads(<<{"save"}, Num, Text>>, s, words)
  <2>1. "save" \in Keywords /\ "save" \in {"save"} /\ ~IsOpen({"save"}) /\ {"save"} # Num
    BY DEF Keywords, IsOpen, Text, Rest, Num
  <2>2. QED
    BY <1>1, <2>1, ThenWordsSays
<1>5. Applies(SavingsLead, s) /\ CommandOf(SavingsLead, s) = Meant(SavingsLead, words)
  <2>1. /\ SavingsLead.patterns = << <<{"save"}, Num, Text>> >>
        /\ SavingsLead.whole = TRUE
        /\ SavingsLead.category = "ignored"
    BY DEF SavingsLead, Rule
  <2>2. Accepts(SavingsLead, words, s)
    BY <2>1, Accepting
  <2>3. QED
    BY <1>4, <2>1, <2>2, WholeRule DEF NotOfMessage
<1>6. \A j \in 1..18 : ~Applies(SpeechRules[j], s)
  <2>1. \A j \in 1..18 : {"save", "num"} \cap NamedBy[j] = {}
    BY DEF NamedBy
  <2>2. QED
    BY <1>2, <1>3, <2>1, Silent
<1>7. \A j \in 1..14 : j < 10 => ~Applies(LastRules[j], s)
  <2>1. ~Applies(BudgetLead, s)
    BY <1>2, <1>3, Unmoved
  <2>2. ~Applies(BudgetTrail, s)
    BY <1>2, <1>3, Unmoved
  <2>3. \A j \in 1..7 : ~Applies(LastRules[j], s)
    BY <1>2, <1>3, NoTalk
  <2>4. QED
    BY <2>1, <2>2, <2>3, LastOrder
<1>8. SavingsLead = LastRules[10]
  BY LastOrder
<1>9. Parse(s) = Meant(SavingsLead, words)
  BY <1>2, <1>5, <1>6, <1>7, <1>8, ByALastRule, SMTT(30) DEF Speakable
<1>10. QED
  BY <1>1, <1>9

LEMMA SaysAmSaveTrail ==
  ASSUME NEW T, NEW words, Speakable(T, words)
  PROVE  Parse(WordsThen(words, "QUTABA")) = Meant(AmSaveTrail, words)
<1>1. PICK s : s = WordsThen(words, "QUTABA")
  OBVIOUS
<1>2. /\ s \in Seq(T) /\ Sound(s, {"QUTABA", "num"}) /\ Len(s) \in Nat /\ Len(s) # 2
      /\ s[1].w \in {"taxi", "salary", "name"} /\ s[Len(s)].w = "num"
      /\ s[Len(s) - 2].w \in {"taxi", "salary", "name"}
  <2>1. "QUTABA" \in Keywords
    BY DEF Keywords
  <2>2. QED
    BY <1>1, <2>1, WordsThenSays, ZenonT(60)
<1>3. Made(s, {"QUTABA", "num"})
  BY <1>2 DEF Sound
<1>4. Reads(<<Text, {"QUTABA"}, Num>>, s, words)
  <2>1. "QUTABA" \in Keywords /\ "QUTABA" \in {"QUTABA"} /\ ~IsOpen({"QUTABA"}) /\ {"QUTABA"} # Num
    BY DEF Keywords, IsOpen, Text, Rest, Num
  <2>2. QED
    BY <1>1, <2>1, WordsThenSays
<1>5. Applies(AmSaveTrail, s) /\ CommandOf(AmSaveTrail, s) = Meant(AmSaveTrail, words)
  <2>1. /\ AmSaveTrail.patterns = << <<Text, Num, {"QUTABA"}, Num>>, <<Text, Num, {"QUTABA"}>>, <<Text, {"QUTABA"}, Num>> >>
        /\ AmSaveTrail.whole = TRUE
        /\ AmSaveTrail.category = "ignored"
    BY DEF AmSaveTrail, Rule
  <2>2. Accepts(AmSaveTrail, words, s)
    BY <2>1, Accepting
  <2>3. /\ ~IsOpen(Num)
        /\ ~IsOpen({"QUTABA"})
        /\ s[Len(s)].w \notin {"QUTABA"}
        /\ s[Len(s) - 2].w \notin Num
    BY <1>2 DEF IsOpen, Text, Rest, Num
  <2>4. ~Fits(<<Text, Num, {"QUTABA"}, Num>>, s)
    BY <1>2, <2>3, NeedsTrailingTwo
  <2>5. ~Fits(<<Text, Num, {"QUTABA"}>>, s)
    BY <1>2, <2>3, NeedsTrailing
  <2>6. Fits(<<Text, {"QUTABA"}, Num>>, s)
    BY <1>4 DEF Reads
  <2>7. /\ DOMAIN AmSaveTrail.patterns = {1, 2, 3}
        /\ AmSaveTrail.patterns[1] = <<Text, Num, {"QUTABA"}, Num>>
        /\ AmSaveTrail.patterns[2] = <<Text, Num, {"QUTABA"}>> /\ AmSaveTrail.patterns[3] = <<Text, {"QUTABA"}, Num>>
    BY <2>1
  <2>8. /\ CanMatch(AmSaveTrail, AmSaveTrail.patterns[3], s)
        /\ Covered(AmSaveTrail, AmSaveTrail.patterns[3], s) = s
        /\ \A k \in DOMAIN AmSaveTrail.patterns : k < 3 => ~CanMatch(AmSaveTrail, AmSaveTrail.patterns[k], s)
    BY <2>1, <2>4, <2>5, <2>6, <2>7 DEF CanMatch, Covered
  <2>9. 3 \in DOMAIN AmSaveTrail.patterns /\ DOMAIN AmSaveTrail.patterns \subseteq Nat
        /\ Reads(AmSaveTrail.patterns[3], s, words)
    BY <1>4, <2>7
  <2>10. QED
    BY <2>1, <2>2, <2>8, <2>9, Answers DEF NotOfMessage
<1>6. \A j \in 1..18 : j < 10 => ~Applies(SpeechRules[j], s)
  <2>1. \A j \in 1..18 : j < 10 /\ j # 9 => {"QUTABA", "num"} \cap NamedBy[j] = {}
    BY DEF NamedBy
  <2>2. ~Applies(AmSaveLead, s)
    <3>1. ~IsOpen({"QUTABA"}) /\ s[1].w \notin {"QUTABA"}
      BY <1>2 DEF IsOpen, Text, Rest
    <3>2. ~Fits(<<{"QUTABA"}, Num, Text>>, s)
      BY <3>1, Opens, NeedsLeading
    <3>3. AmSaveLead.patterns = << <<{"QUTABA"}, Num, Text>> >> /\ AmSaveLead.whole = TRUE
      BY DEF AmSaveLead, Rule
    <3>4. QED
      BY <3>2, <3>3, Misfit
  <2>3. QED
    BY <1>2, <1>3, <2>1, <2>2, Silent, SpeechOrder
<1>7. AmSaveTrail = SpeechRules[10] /\ AmSaveTrail.intent \notin {"UNKNOWN", "BY_CATEGORY"}
  BY SpeechOrder DEF AmSaveTrail, Rule
<1>8. Parse(s) = Meant(AmSaveTrail, words)
  BY <1>2, <1>5, <1>6, <1>7, ByASentence DEF Speakable
<1>9. QED
  BY <1>1, <1>8

LEMMA SaysSavingsTrail ==
  ASSUME NEW T, NEW words, Speakable(T, words)
  PROVE  Parse(WordsThen(words, "save")) = Meant(SavingsTrail, words)
<1>1. PICK s : s = WordsThen(words, "save")
  OBVIOUS
<1>2. /\ s \in Seq(T) /\ Sound(s, {"save", "num"}) /\ Len(s) \in Nat /\ Len(s) # 2
      /\ s[1].w \in {"taxi", "salary", "name"} /\ s[Len(s)].w = "num"
      /\ s[Len(s) - 2].w \in {"taxi", "salary", "name"}
  <2>1. "save" \in Keywords
    BY DEF Keywords
  <2>2. QED
    BY <1>1, <2>1, WordsThenSays
<1>3. Made(s, {"save", "num"})
  BY <1>2 DEF Sound
<1>4. Reads(<<Text, {"save"}, Num>>, s, words)
  <2>1. "save" \in Keywords /\ "save" \in {"save"} /\ ~IsOpen({"save"}) /\ {"save"} # Num
    BY DEF Keywords, IsOpen, Text, Rest, Num
  <2>2. QED
    BY <1>1, <2>1, WordsThenSays
<1>5. Applies(SavingsTrail, s) /\ CommandOf(SavingsTrail, s) = Meant(SavingsTrail, words)
  <2>1. /\ SavingsTrail.patterns = << <<Text, {"save"}, Num>> >>
        /\ SavingsTrail.whole = TRUE
        /\ SavingsTrail.category = "ignored"
    BY DEF SavingsTrail, Rule
  <2>2. Accepts(SavingsTrail, words, s)
    BY <2>1, Accepting
  <2>3. QED
    BY <1>4, <2>1, <2>2, WholeRule DEF NotOfMessage
<1>6. \A j \in 1..18 : ~Applies(SpeechRules[j], s)
  <2>1. \A j \in 1..18 : {"save", "num"} \cap NamedBy[j] = {}
    BY DEF NamedBy
  <2>2. QED
    BY <1>2, <1>3, <2>1, Silent
<1>7. \A j \in 1..14 : j < 11 => ~Applies(LastRules[j], s)
  <2>1. ~Applies(BudgetLead, s)
    BY <1>2, <1>3, Unmoved
  <2>2. ~Applies(BudgetTrail, s)
    BY <1>2, <1>3, Unmoved
  <2>3. ~Applies(SavingsLead, s)
    <3>1. ~IsOpen({"save"}) /\ s[1].w \notin {"save"}
      BY <1>2 DEF IsOpen, Text, Rest
    <3>2. ~Fits(<<{"save"}, Num, Text>>, s)
      BY <3>1, Opens, NeedsLeading
    <3>3. SavingsLead.patterns = << <<{"save"}, Num, Text>> >> /\ SavingsLead.whole = TRUE
      BY DEF SavingsLead, Rule
    <3>4. QED
      BY <3>2, <3>3, Misfit
  <2>4. \A j \in 1..7 : ~Applies(LastRules[j], s)
    BY <1>2, <1>3, NoTalk
  <2>5. QED
    BY <2>1, <2>2, <2>3, <2>4, LastOrder
<1>8. SavingsTrail = LastRules[11]
  BY LastOrder
<1>9. Parse(s) = Meant(SavingsTrail, words)
  BY <1>2, <1>5, <1>6, <1>7, <1>8, ByALastRule, SMTT(30) DEF Speakable
<1>10. QED
  BY <1>1, <1>9

(* Plain words and a number, in either order.                              *)
LEMMA NumberAfterSays ==
  ASSUME NEW T, NEW words, Speakable(T, words), NEW s, s = NumberAfter(words)
  PROVE  /\ s \in Seq(T) /\ Sound(s, {"num"}) /\ Len(s) = Len(words) + 1 /\ s[1] = words[1]
         /\ s[Len(words) + 1] = Amount(7) /\ Reads(<<Text, Num>>, s, words)
<1>1. words \in Seq(T) /\ Plain(words) /\ Amount(7) \in T
  BY DEF Speakable
<1>2. PICK n \in Nat : n = Len(words) /\ n >= 1
  BY <1>1, PlainWords
<1>3. s \in Seq(T) /\ Around(s, words, 0, 1) /\ s[n + 1] = Amount(7)
  BY <1>1, <1>2, NumberLast DEF NumberAfter
<1>4. Len(s) = n + 1 /\ \A i \in 1..n : s[i] = words[i]
  BY <1>2, <1>3 DEF Around
<1>5. Made(s, {"num"})
  <2>1. \A i \in 1..0 : s[i].w \in {"num"}
    OBVIOUS
  <2>2. \A i \in 1..1 : s[0 + Len(words) + i].w \in {"num"}
    BY <1>2, <1>3, Opens
  <2>3. QED
    BY <1>1, <1>3, <2>1, <2>2, MadeOf
<1>6. Sound(s, {"num"})
  BY <1>5 DEF Sound
<1>7. Reads(<<Text, Num>>, s, words)
  BY <1>1, <1>2, <1>3, PlainWords, ReadNumberLast
<1>8. QED
  BY <1>2, <1>3, <1>4, <1>6, <1>7

LEMMA NumberBeforeSays ==
  ASSUME NEW T, NEW words, Speakable(T, words), NEW s, s = NumberBefore(words)
  PROVE  /\ s \in Seq(T) /\ Sound(s, {"num"}) /\ Len(s) = Len(words) + 1 /\ s[1] = Amount(7)
         /\ s[2] = words[1] /\ Reads(<<Num, Text>>, s, words)
<1>1. words \in Seq(T) /\ Plain(words) /\ Amount(7) \in T
  BY DEF Speakable
<1>2. PICK n \in Nat : n = Len(words) /\ n >= 1
  BY <1>1, PlainWords
<1>3. s \in Seq(T) /\ Around(s, words, 1, 0) /\ s[1] = Amount(7)
  BY <1>1, <1>2, NumberFirst DEF NumberBefore
<1>4. Len(s) = n + 1 /\ \A i \in 1..n : s[1 + i] = words[i]
  BY <1>2, <1>3 DEF Around
<1>5. Made(s, {"num"})
  <2>1. \A i \in 1..1 : s[i].w \in {"num"}
    BY <1>3, Opens
  <2>2. \A i \in 1..0 : s[1 + Len(words) + i].w \in {"num"}
    OBVIOUS
  <2>3. QED
    BY <1>1, <1>3, <2>1, <2>2, MadeOf
<1>6. Sound(s, {"num"})
  BY <1>5 DEF Sound
<1>7. Reads(<<Num, Text>>, s, words)
  BY <1>1, <1>2, <1>3, PlainWords, ReadNumberFirst
<1>8. s[2] = words[1]
  <2>1. 1 \in 1..n /\ 1 + 1 = 2
    BY <1>2
  <2>2. QED
    BY <1>4, <2>1
<1>9. QED
  BY <1>2, <1>3, <1>4, <1>6, <1>7, <1>8

(* "7 salary" and "salary 7" have a rule of their own, which names what it *)
(* pays for itself.                                                        *)
LEMMA PairFits ==
  ASSUME NEW a, NEW b, ~IsOpen(a), ~IsOpen(b), NEW s
  PROVE  /\ Fits(<<a, b>>, s) <=> Len(s) = 2 /\ s[1].w \in a /\ s[2].w \in b
         /\ Captured(<<a, b>>, s) = <<>>
         /\ a = Num /\ b # Num => AmountOf(<<a, b>>, s) = s[1].n
         /\ a # Num /\ b = Num => AmountOf(<<a, b>>, s) = s[2].n
<1>1. PICK pattern : pattern = <<a, b>>
  OBVIOUS
<1>2. /\ APattern(pattern)
      /\ Len(pattern) = 2
      /\ DOMAIN pattern = 1..2
      /\ pattern[1] = a
      /\ pattern[2] = b
  BY <1>1, Elements
<1>3. ~HasOpen(pattern)
  BY <1>2 DEF HasOpen
<1>4. \A k \in 1..2 : Place(pattern, s, k) = k /\ ~IsOpen(pattern[k])
  BY <1>2, <1>3 DEF Place
<1>5. Fits(pattern, s) <=> Len(s) = 2 /\ s[1].w \in a /\ s[2].w \in b
  BY <1>2, <1>3, <1>4 DEF Fits
<1>6. Captured(pattern, s) = <<>>
  BY <1>3 DEF Captured
<1>7. ASSUME a = Num, b # Num PROVE AmountOf(pattern, s) = s[1].n
  <2>1. 1 \in 1..Len(pattern) /\ pattern[1] = Num /\ \A j \in 1..Len(pattern) : j # 1 => pattern[j] # Num
    BY <1>2, <1>7
  <2>2. QED
    BY <1>2, <1>4, <2>1, AmountAt
<1>8. ASSUME a # Num, b = Num PROVE AmountOf(pattern, s) = s[2].n
  <2>1. 2 \in 1..Len(pattern) /\ pattern[2] = Num /\ \A j \in 1..Len(pattern) : j # 2 => pattern[j] # Num
    BY <1>2, <1>8
  <2>2. QED
    BY <1>2, <1>4, <2>1, AmountAt
<1>9. QED
  BY <1>1, <1>5, <1>6, <1>7, <1>8

LEMMA SalaryFits ==
  /\ Salary.whole = TRUE /\ DOMAIN Salary.patterns = {1, 2}
  /\ Salary.patterns[1] = <<Num, {"salary"}>> /\ Salary.patterns[2] = <<{"salary"}, Num>>
  /\ Salary.category = "or salary" /\ Salary.intent = "CREATE_INCOME"
  /\ \A s : /\ Fits(<<Num, {"salary"}>>, s) <=> Len(s) = 2 /\ s[1].w = "num" /\ s[2].w = "salary"
            /\ Fits(<<{"salary"}, Num>>, s) <=> Len(s) = 2 /\ s[1].w = "salary" /\ s[2].w = "num"
            /\ Captured(<<Num, {"salary"}>>, s) = <<>> /\ Captured(<<{"salary"}, Num>>, s) = <<>>
            /\ AmountOf(<<Num, {"salary"}>>, s) = s[1].n /\ AmountOf(<<{"salary"}, Num>>, s) = s[2].n
<1>1. Salary.patterns = << <<Num, {"salary"}>>, <<{"salary"}, Num>> >> /\ Salary.whole = TRUE
      /\ Salary.category = "or salary" /\ Salary.intent = "CREATE_INCOME"
  BY DEF Salary, Rule
<1>2. DOMAIN Salary.patterns = {1, 2} /\ Salary.patterns[1] = <<Num, {"salary"}>>
      /\ Salary.patterns[2] = <<{"salary"}, Num>>
  <2>1. Salary.patterns = << <<Num, {"salary"}>>, <<{"salary"}, Num>> >>
    BY <1>1
  <2>2. QED
    BY <2>1
<1>3. PICK word : word = {"salary"}
  OBVIOUS
<1>4. ~IsOpen(Num) /\ ~IsOpen(word) /\ word # Num /\ \A c : (c \in Num <=> c = "num") /\ (c \in word <=> c = "salary")
  BY <1>3 DEF IsOpen, Text, Rest, Num
<1>5. \A s : /\ Fits(<<Num, word>>, s) <=> Len(s) = 2 /\ s[1].w = "num" /\ s[2].w = "salary"
             /\ Fits(<<word, Num>>, s) <=> Len(s) = 2 /\ s[1].w = "salary" /\ s[2].w = "num"
             /\ Captured(<<Num, word>>, s) = <<>> /\ Captured(<<word, Num>>, s) = <<>>
             /\ AmountOf(<<Num, word>>, s) = s[1].n /\ AmountOf(<<word, Num>>, s) = s[2].n
  BY <1>4, PairFits
<1>6. QED
  BY <1>1, <1>2, <1>3, <1>5

(* A message of the one word "salary".                                     *)
JustSalary(words) == Len(words) = 1 /\ words[1].w = "salary"

LEMMA NoSalary ==
  ASSUME NEW s, ~(Len(s) = 2 /\ ((s[1].w = "num" /\ s[2].w = "salary") \/ (s[1].w = "salary" /\ s[2].w = "num")))
  PROVE  ~Applies(Salary, s)
<1>1. ~Fits(<<Num, {"salary"}>>, s) /\ ~Fits(<<{"salary"}, Num>>, s)
  BY SalaryFits
<1>2. Matching(Salary, s) = {}
  BY <1>1, SalaryFits DEF Matching, CanMatch
<1>3. QED
  BY <1>2 DEF Applies

LEMMA SaysSalary ==
  ASSUME NEW T, NEW words, Speakable(T, words), JustSalary(words)
  PROVE  /\ Parse(NumberAfter(words)) = Meant(Salary, <<>>)
         /\ Parse(NumberBefore(words)) = Meant(Salary, <<>>)
<1>0. \A s : Made(s, {"num"}) /\ s \in Seq(T) =>
        \A j \in 1..18 : j < 15 => ~Applies(SpeechRules[j], s)
  <2>1. \A j \in 1..18 : j < 15 => j # 15 /\ {"num"} \cap NamedBy[j] = {}
    BY DEF NamedBy
  <2>2. QED
    BY <2>1, SilentButSalary
<1>00. Salary = SpeechRules[15] /\ Salary.intent \notin {"UNKNOWN", "BY_CATEGORY"}
       /\ \A s : Accepts(Salary, <<>>, s)
  BY SpeechOrder, SalaryFits, Accepting
<1>01. NotOfMessage(Salary)
  BY DEF NotOfMessage, Salary, Rule
<1>000. PICK places : places = DOMAIN Salary.patterns /\ places = {1, 2}
  BY SalaryFits, Zenon
<1>1. Parse(NumberAfter(words)) = Meant(Salary, <<>>)
  <2>1. PICK s : s = NumberAfter(words)
    OBVIOUS
  <2>2. /\ s \in Seq(T) /\ Sound(s, {"num"}) /\ Len(s) = 2
        /\ s[1].w = "salary" /\ s[2].w = "num" /\ s[2].n = 7
    <3>1. Len(words) = 1 /\ words[1].w = "salary"
      BY DEF JustSalary
    <3>2. /\ s \in Seq(T) /\ Sound(s, {"num"}) /\ Len(s) = Len(words) + 1
          /\ s[1] = words[1] /\ s[Len(words) + 1] = Amount(7)
      BY <2>1, NumberAfterSays
    <3>3. Len(s) = 2 /\ s[2] = Amount(7)
      BY <3>1, <3>2
    <3>4. QED
      BY <3>1, <3>2, <3>3, Opens
  <2>3. ~Fits(<<Num, {"salary"}>>, s) /\ Reads(<<{"salary"}, Num>>, s, <<>>)
    BY <2>2, SalaryFits DEF Reads
  <2>4. PICK p : p = 2
    OBVIOUS
  <2>5. /\ p \in DOMAIN Salary.patterns /\ DOMAIN Salary.patterns \subseteq Nat
        /\ CanMatch(Salary, Salary.patterns[p], s) /\ Covered(Salary, Salary.patterns[p], s) = s
        /\ Reads(Salary.patterns[p], s, <<>>)
        /\ \A r \in DOMAIN Salary.patterns : r < p => ~CanMatch(Salary, Salary.patterns[r], s)
    <3>1. p \in DOMAIN Salary.patterns /\ DOMAIN Salary.patterns \subseteq Nat
      BY <1>000, <2>4
    <3>2. Reads(Salary.patterns[p], s, <<>>)
      BY <2>3, <2>4, SalaryFits
    <3>3. CanMatch(Salary, Salary.patterns[p], s) /\ Covered(Salary, Salary.patterns[p], s) = s
      BY <3>2, SalaryFits DEF CanMatch, Covered, Reads
    <3>4. \A r \in DOMAIN Salary.patterns : r < p => r = 1
      BY <1>000, <2>4
    <3>5. QED
      BY <2>3, <3>1, <3>2, <3>3, <3>4, SalaryFits DEF CanMatch
  <2>6. Applies(Salary, s) /\ CommandOf(Salary, s) = Meant(Salary, <<>>)
    BY <1>00, <1>01, <2>5, Answers
  <2>7. Parse(s) = Meant(Salary, <<>>)
    BY <1>0, <1>00, <2>2, <2>6, ByASentence, SMTT(30) DEF Sound, Speakable
  <2>8. QED
    BY <2>1, <2>7
<1>2. Parse(NumberBefore(words)) = Meant(Salary, <<>>)
  <2>1. PICK s : s = NumberBefore(words)
    OBVIOUS
  <2>2. /\ s \in Seq(T) /\ Sound(s, {"num"}) /\ Len(s) = 2
        /\ s[1].w = "num" /\ s[1].n = 7 /\ s[2].w = "salary"
    <3>1. Len(words) = 1 /\ words[1].w = "salary"
      BY DEF JustSalary
    <3>2. /\ s \in Seq(T) /\ Sound(s, {"num"}) /\ Len(s) = Len(words) + 1
          /\ s[1] = Amount(7) /\ s[2] = words[1]
      BY <2>1, NumberBeforeSays
    <3>3. Len(s) = 2 /\ s[1] = Amount(7)
      BY <3>1, <3>2
    <3>4. QED
      BY <3>1, <3>2, <3>3, Opens
  <2>3. Reads(<<Num, {"salary"}>>, s, <<>>)
    BY <2>2, SalaryFits DEF Reads
  <2>4. PICK p : p = 1
    OBVIOUS
  <2>5. /\ p \in DOMAIN Salary.patterns /\ DOMAIN Salary.patterns \subseteq Nat
        /\ CanMatch(Salary, Salary.patterns[p], s) /\ Covered(Salary, Salary.patterns[p], s) = s
        /\ Reads(Salary.patterns[p], s, <<>>)
        /\ \A r \in DOMAIN Salary.patterns : r < p => ~CanMatch(Salary, Salary.patterns[r], s)
    <3>1. p \in DOMAIN Salary.patterns /\ DOMAIN Salary.patterns \subseteq Nat
      BY <1>000, <2>4
    <3>2. Reads(Salary.patterns[p], s, <<>>)
      BY <2>3, <2>4, SalaryFits
    <3>3. CanMatch(Salary, Salary.patterns[p], s) /\ Covered(Salary, Salary.patterns[p], s) = s
      BY <3>2, SalaryFits DEF CanMatch, Covered, Reads
    <3>4. \A r \in DOMAIN Salary.patterns : r < p => FALSE
      BY <1>000, <2>4
    <3>5. QED
      BY <2>3, <3>1, <3>2, <3>3, <3>4, SalaryFits DEF CanMatch
  <2>6. Applies(Salary, s) /\ CommandOf(Salary, s) = Meant(Salary, <<>>)
    BY <1>00, <1>01, <2>5, Answers
  <2>7. Parse(s) = Meant(Salary, <<>>)
    BY <1>0, <1>00, <2>2, <2>6, ByASentence, SMTT(30) DEF Sound, Speakable
  <2>8. QED
    BY <2>1, <2>7
<1>3. QED
  BY <1>1, <1>2

(* A rule that reads a sentence and does not want its words.               *)
LEMMA Refuses ==
  ASSUME NEW rule, NEW pattern, rule.patterns = <<pattern>>, rule.whole = TRUE, NEW s, NEW words,
         Reads(pattern, s, words), ~Accepts(rule, words, s)
  PROVE  ~Applies(rule, s)
<1>1. DOMAIN rule.patterns = {1} /\ rule.patterns[1] = pattern
  OBVIOUS
<1>2. Matching(rule, s) \subseteq {1}
  BY <1>1 DEF Matching
<1>3. ASSUME Matching(rule, s) = {1} PROVE ~Applies(rule, s)
  <2>1. Min(Matching(rule, s)) = 1
    BY <1>3 DEF Min
  <2>2. PatternFor(rule, s) = pattern
    BY <1>1, <2>1 DEF PatternFor
  <2>3. CapturedBy(rule, pattern, s) = words
    BY DEF CapturedBy, Covered, Reads
  <2>4. QED
    BY <2>2, <2>3 DEF Applies
<1>4. QED
  BY <1>2, <1>3 DEF Applies

(* Plain words and a number are no sentence, and no budget or goal.        *)
LEMMA NoSentence ==
  ASSUME NEW T, NEW s \in Seq(T), Sound(s, {"num"}), ~Applies(Salary, s)
  PROVE  /\ \A j \in 1..18 : ~Applies(SpeechRules[j], s)
         /\ \A j \in 1..11 : ~Applies(LastRules[j], s)
<1>1. Made(s, {"num"})
  BY DEF Sound
<1>2. \A j \in 1..18 : ~Applies(SpeechRules[j], s)
  <2>1. \A j \in 1..18 : j # 15 => {"num"} \cap NamedBy[j] = {}
    BY SMTT(30) DEF NamedBy
  <2>2. \A j \in 1..18 : j # 15 => ~Applies(SpeechRules[j], s)
    BY <1>1, <2>1, SilentButSalary
  <2>3. ~Applies(SpeechRules[15], s)
    BY SpeechOrder
  <2>4. QED
    BY <2>2, <2>3
<1>3. \A j \in 1..11 : ~Applies(LastRules[j], s)
  <2>1. \A j \in 1..7 : ~Applies(LastRules[j], s)
    BY <1>1, NoTalk
  <2>2. /\ ~Applies(BudgetLead, s)
        /\ ~Applies(BudgetTrail, s)
        /\ ~Applies(SavingsLead, s)
        /\ ~Applies(SavingsTrail, s)
    BY <1>1, Unmoved
  <2>3. QED
    BY <2>1, <2>2, LastOrder
<1>4. QED
  BY <1>2, <1>3

(* "80 taxi" and "taxi 80": the shorthands.                                *)
LEMMA SaysNumberBefore ==
  ASSUME NEW T, NEW words, Speakable(T, words), ~JustSalary(words)
  PROVE  Parse(NumberBefore(words)) = Meant(Shorthand, words)
<1>1. PICK s : s = NumberBefore(words)
  OBVIOUS
<1>2. /\ s \in Seq(T)
      /\ Sound(s, {"num"})
      /\ Len(s) = Len(words) + 1
      /\ s[1].w = "num"
      /\ s[2] = words[1]
      /\ Reads(<<Num, Text>>, s, words)
  BY <1>1, NumberBeforeSays, Opens
<1>3. ~Applies(Salary, s)
  <2>1. PICK n \in Nat : n = Len(words)
    BY DEF Speakable
  <2>2. ~(Len(s) = 2 /\ s[2].w = "salary")
    <3>1. ~(n = 1 /\ words[1].w = "salary") /\ Len(s) = n + 1
      BY <1>2, <2>1 DEF JustSalary
    <3>2. Len(s) = 2 => n = 1
      <4>1. \A m \in Nat : m + 1 = 2 => m = 1
        OBVIOUS
      <4>2. QED
        BY <2>1, <3>1, <4>1
    <3>3. QED
      BY <1>2, <3>1, <3>2
  <2>3. s[1].w # "salary"
    BY <1>2
  <2>4. QED
    BY <2>2, <2>3, NoSalary
<1>4. Applies(Shorthand, s) /\ CommandOf(Shorthand, s) = Meant(Shorthand, words)
  <2>1. /\ Shorthand.patterns = << <<Num, Text>> >>
        /\ Shorthand.whole = TRUE
        /\ Shorthand.category = "wanted"
    BY DEF Shorthand, Rule
  <2>2. Accepts(Shorthand, words, s)
    BY <2>1, Accepting
  <2>3. QED
    BY <1>2, <2>1, <2>2, WholeRule DEF NotOfMessage
<1>5. /\ \A j \in 1..18 : ~Applies(SpeechRules[j], s)
      /\ \A j \in 1..14 : j < 12 => ~Applies(LastRules[j], s)
  BY <1>2, <1>3, NoSentence
<1>6. Shorthand = LastRules[12]
  BY LastOrder
<1>7. Parse(s) = Meant(Shorthand, words)
  BY <1>2, <1>4, <1>5, <1>6, ByALastRule, SMTT(30) DEF Speakable
<1>8. QED
  BY <1>1, <1>7

LEMMA SaysNumberAfter ==
  ASSUME NEW T, NEW words, Speakable(T, words), ~JustSalary(words)
  PROVE  Parse(NumberAfter(words)) =
           IF CategoryOf(words) = "none" THEN Meant(PersonDebt, words) ELSE Meant(CategoryFirst, words)
<1>1. PICK s : s = NumberAfter(words)
  OBVIOUS
<1>0. /\ Len(words) \in Nat /\ Len(words) >= 1
      /\ \A i \in 1..Len(words) : words[i].w \in {"taxi", "salary", "name"}
  BY PlainWords DEF Speakable
<1>2. /\ s \in Seq(T) /\ Sound(s, {"num"}) /\ Len(s) = Len(words) + 1 /\ s[1] = words[1]
      /\ Reads(<<Text, Num>>, s, words)
  BY <1>1, NumberAfterSays
<1>3. s[1].w \in {"taxi", "salary", "name"}
  BY <1>0, <1>2
<1>4. ~Applies(Salary, s)
  <2>1. ~(Len(s) = 2 /\ s[1].w = "salary")
    <3>1. PICK n \in Nat : n = Len(words)
      BY <1>0
    <3>2. ~(n = 1 /\ words[1].w = "salary") /\ Len(s) = n + 1
      BY <1>2, <3>1 DEF JustSalary
    <3>3. Len(s) = 2 => n = 1
      <4>1. \A m \in Nat : m + 1 = 2 => m = 1
        OBVIOUS
      <4>2. QED
        BY <3>1, <3>2, <4>1
    <3>4. QED
      BY <1>2, <3>2, <3>3
  <2>2. s[1].w # "num"
    BY <1>3
  <2>3. QED
    BY <2>1, <2>2, NoSalary
<1>5. /\ \A j \in 1..18 : ~Applies(SpeechRules[j], s)
      /\ \A j \in 1..11 : ~Applies(LastRules[j], s)
  BY <1>2, <1>4, NoSentence
<1>6. ~Applies(Shorthand, s)
  <2>1. ~IsOpen(Num) /\ s[1].w \notin Num
    BY <1>3 DEF IsOpen, Text, Rest, Num
  <2>2. ~Fits(<<Num, Text>>, s)
    BY <2>1, NeedsLeading
  <2>3. Shorthand.patterns = << <<Num, Text>> >> /\ Shorthand.whole = TRUE
    BY DEF Shorthand, Rule
  <2>4. QED
    BY <2>2, <2>3, Misfit
<1>7. /\ CategoryFirst.patterns = << <<Text, Num>> >>
      /\ CategoryFirst.whole = TRUE
      /\ CategoryFirst.category = "required"
  BY DEF CategoryFirst, Rule
<1>8. CASE CategoryOf(words) # "none"
  <2>1. Accepts(CategoryFirst, words, s)
    BY <1>7, <1>8, Accepting
  <2>2. Applies(CategoryFirst, s) /\ CommandOf(CategoryFirst, s) = Meant(CategoryFirst, words)
    BY <1>2, <1>7, <2>1, WholeRule DEF NotOfMessage
  <2>3. \A j \in 1..14 : j < 13 => ~Applies(LastRules[j], s)
    BY <1>5, <1>6, LastOrder
  <2>4. CategoryFirst = LastRules[13]
    BY LastOrder
  <2>5. Parse(s) = Meant(CategoryFirst, words)
    BY <1>2, <1>5, <2>2, <2>3, <2>4, ByALastRule, SMTT(30) DEF Speakable
  <2>6. QED
    BY <1>1, <1>8, <2>5
<1>9. CASE CategoryOf(words) = "none"
  <2>1. /\ PersonDebt.patterns = << <<Text, Num>>, <<Text, Num, {"debt"}>> >>
        /\ PersonDebt.whole = TRUE
        /\ PersonDebt.category = "person"
    BY DEF PersonDebt, Rule
  <2>2. Accepts(PersonDebt, words, s)
    <3>1. \A i \in DOMAIN words : words[i].w # "num"
      BY <1>0 DEF Speakable
    <3>2. words[1].w \notin {"i", "pay", "spent"}
      BY <1>0
    <3>3. QED
      BY <1>9, <2>1, <3>1, <3>2 DEF Accepts
  <2>3. Applies(PersonDebt, s) /\ CommandOf(PersonDebt, s) = Meant(PersonDebt, words)
    BY <1>2, <2>1, <2>2, WholeRuleFirst DEF NotOfMessage
  <2>4. ~Applies(CategoryFirst, s)
    <3>1. ~Accepts(CategoryFirst, words, s)
      BY <1>7, <1>9 DEF Accepts
    <3>2. QED
      BY <1>2, <1>7, <3>1, Refuses
  <2>5. \A j \in 1..14 : j < 14 => ~Applies(LastRules[j], s)
    BY <1>5, <1>6, <2>4, LastOrder
  <2>6. PersonDebt = LastRules[14]
    BY LastOrder, SMTT(30)
  <2>7. Parse(s) = Meant(PersonDebt, words)
    BY <1>2, <1>5, <2>3, <2>5, <2>6, ByALastRule, SMTT(30) DEF Speakable
  <2>8. QED
    BY <1>1, <1>9, <2>7
<1>10. QED
  BY <1>8, <1>9

(* What the rules mean by it.                                              *)
LEMMA OrderDoesNotMatter ==
  ASSUME NEW T, NEW words, Speakable(T, words)
  PROVE  OrdersAgree(words)
<1>1. OrdersAgree(words) <=> SameCommand(words, Parse(NumberAfter(words)), Parse(NumberBefore(words)))
  BY DEF OrdersAgree, NumberAfter, NumberBefore, Seven
<1>2. CASE JustSalary(words)
  <2>1. CategoryOf(words) = "salary"
    <3>1. 1 \in DOMAIN words /\ \A i \in DOMAIN words : words[i].w = "salary"
      BY <1>2 DEF JustSalary, Speakable
    <3>2. QED
      BY <3>1 DEF CategoryOf
  <2>2. CategoryOf(<<>>) = "none"
    BY DEF CategoryOf
  <2>3. CategoryFor(Salary, "none") = "salary"
    BY SalaryFits DEF CategoryFor, TakesCategory
  <2>4. Meant(Salary, <<>>).intent = "CREATE_INCOME" /\ Meant(Salary, <<>>).conf = Salary.sure
    BY <2>2, <2>3, SalaryFits DEF Meant, Command
  <2>5. Salary.sure = 82
    BY DEF Salary, Rule
  <2>6. SameCommand(words, Meant(Salary, <<>>), Meant(Salary, <<>>))
    BY <2>1, <2>4, <2>5 DEF SameCommand, IntentFor
  <2>7. QED
    BY <1>1, <1>2, <2>6, SaysSalary
<1>3. CASE ~JustSalary(words) /\ CategoryOf(words) = "none"
  <2>1. Parse(NumberAfter(words)) = Meant(PersonDebt, words)
    BY <1>3, SaysNumberAfter
  <2>2. Parse(NumberBefore(words)) = Meant(Shorthand, words)
    BY <1>3, SaysNumberBefore
  <2>3. Meant(PersonDebt, words).intent = "CREATE_DEBT"
    BY DEF Meant, Command, PersonDebt, Rule
  <2>4. Shorthand.category = "wanted" /\ Shorthand.intent = "BY_CATEGORY"
    BY DEF Shorthand, Rule
  <2>5. CategoryFor(Shorthand, CategoryOf(words)) = "none"
    BY <1>3, <2>4 DEF CategoryFor
  <2>6. Meant(Shorthand, words).intent = "CREATE_EXPENSE" /\ Meant(Shorthand, words).missing = TRUE
    BY <2>4, <2>5 DEF Meant, Command, IntentFor
  <2>7. QED
    BY <1>1, <1>3, <2>1, <2>2, <2>3, <2>6 DEF SameCommand
<1>4. CASE ~JustSalary(words) /\ CategoryOf(words) # "none"
  <2>1. Parse(NumberAfter(words)) = Meant(CategoryFirst, words)
    BY <1>4, SaysNumberAfter
  <2>2. Parse(NumberBefore(words)) = Meant(Shorthand, words)
    BY <1>4, SaysNumberBefore
  <2>3. /\ Shorthand.intent = "BY_CATEGORY" /\ Shorthand.sure = 75
        /\ CategoryFirst.intent = "BY_CATEGORY" /\ CategoryFirst.sure = 75
        /\ Shorthand.category \in TakesCategory /\ CategoryFirst.category \in TakesCategory
    BY DEF Shorthand, CategoryFirst, Rule, TakesCategory
  <2>4. \A rule : rule.category \in TakesCategory => CategoryFor(rule, CategoryOf(words)) = CategoryOf(words)
    <3>1. PICK named : named = CategoryOf(words) /\ named # "none"
      BY <1>4
    <3>2. \A rule : rule.category \in TakesCategory => CategoryFor(rule, named) = named
      BY <3>1 DEF CategoryFor
    <3>3. QED
      BY <3>1, <3>2
  <2>5. \A rule : rule.category \in TakesCategory =>
                  /\ rule.intent = "BY_CATEGORY" => Meant(rule, words).intent = IntentFor(CategoryOf(words))
                  /\ Meant(rule, words).category = CategoryOf(words)
                  /\ Meant(rule, words).conf = rule.sure
    BY <1>4, <2>4 DEF Meant, Command
  <2>6. QED
    BY <1>1, <1>4, <2>1, <2>2, <2>3, <2>5 DEF SameCommand
<1>5. QED
  BY <1>2, <1>3, <1>4

(* What the commands of two rules have in common.                          *)
LEMMA CategoriesNamed == ASSUME NEW words PROVE CategoryOf(words) \in {"salary", "taxi", "none"}
BY DEF CategoryOf

LEMMA MeantFields ==
  ASSUME NEW rule, NEW words, rule.intent # "BY_CATEGORY"
  PROVE  /\ Meant(rule, words).intent = rule.intent /\ Meant(rule, words).amount = 7
         /\ Meant(rule, words).category = CategoryFor(rule, CategoryOf(words))
         /\ Meant(rule, words).missing = (rule.category = "wanted" /\ CategoryFor(rule, CategoryOf(words)) = "none")
BY DEF Meant, Command

(* Rules of the same intent that want the same of the category.            *)
LEMMA SameRule ==
  ASSUME NEW am, NEW en, NEW words, am.intent = en.intent, am.intent # "BY_CATEGORY",
         \/ am.category = en.category
         \/ am.category = "ignored" /\ en.category = "refused"
         \/ am.category = "refused" /\ en.category = "ignored"
         \/ am.category = "or other" /\ en.category = "or salary"
  PROVE  SameMeaning(Meant(am, words), Meant(en, words))
<1>1. PICK named : named = CategoryOf(words) /\ named \in {"salary", "taxi", "none"}
  BY CategoriesNamed
<1>2. \A rule : CategoryFor(rule, named) =
        IF rule.category \in TakesCategory /\ named # "none" THEN named
        ELSE IF rule.category = "or salary" THEN "salary"
        ELSE IF rule.category = "or other" THEN "other-income" ELSE "none"
  BY DEF CategoryFor
<1>3. PICK a, e : a = Meant(am, words) /\ e = Meant(en, words)
  OBVIOUS
<1>4. /\ a.intent = am.intent /\ a.amount = 7 /\ a.category = CategoryFor(am, named)
      /\ a.missing = (am.category = "wanted" /\ a.category = "none")
  BY <1>1, <1>3, MeantFields, ZenonT(60)
<1>5. /\ e.intent = en.intent /\ e.amount = 7 /\ e.category = CategoryFor(en, named)
      /\ e.missing = (en.category = "wanted" /\ e.category = "none")
  <2>1. PICK rule : rule = en
    OBVIOUS
  <2>2. rule.intent # "BY_CATEGORY" /\ e = Meant(rule, words)
    BY <1>3, <2>1
  <2>3. /\ e.intent = rule.intent /\ e.amount = 7 /\ e.category = CategoryFor(rule, named)
        /\ e.missing = (rule.category = "wanted" /\ CategoryFor(rule, named) = "none")
    BY <1>1, <2>2, MeantFields
  <2>4. QED
    BY <2>1, <2>3
<1>6. a.category = e.category \/ (a.category = "other-income" /\ e.category = "salary")
  BY <1>2, <1>4, <1>5 DEF TakesCategory
<1>7. a.missing = e.missing
  BY <1>2, <1>4, <1>5 DEF TakesCategory
<1>8. SameMeaning(a, e)
  BY <1>4, <1>5, <1>6, <1>7 DEF SameMeaning
<1>9. QED
  BY <1>3, <1>8

LEMMA RulesAreTwins ==
  ASSUME NEW words
  PROVE  /\ SameMeaning(Meant(PaidMe, words), Meant(DebtPaidByPerson, words))
         /\ SameMeaning(Meant(PaidThem, words), Meant(DebtPaidToPerson, words))
         /\ SameMeaning(Meant(IOweAm, words), Meant(IOwe, words))
         /\ SameMeaning(Meant(AmSpent, words), Meant(Spent, words))
         /\ SameMeaning(Meant(AmIncome, words), Meant(Income, words))
         /\ SameMeaning(Meant(OwesMe, words), Meant(OwedToMe, words))
         /\ SameMeaning(Meant(AmBudgetLead, words), Meant(BudgetLead, words))
         /\ SameMeaning(Meant(AmBudgetTrail, words), Meant(BudgetTrail, words))
         /\ SameMeaning(Meant(AmSaveLead, words), Meant(SavingsLead, words))
         /\ SameMeaning(Meant(AmSaveTrail, words), Meant(SavingsTrail, words))
<1>1. SameMeaning(Meant(PaidMe, words), Meant(DebtPaidByPerson, words))
  <2>1. PICK am, en : am = PaidMe /\ en = DebtPaidByPerson
    OBVIOUS
  <2>2. /\ am.intent = en.intent /\ am.intent # "BY_CATEGORY"
        /\ \/ am.category = en.category
           \/ am.category = "ignored" /\ en.category = "refused"
           \/ am.category = "refused" /\ en.category = "ignored"
           \/ am.category = "or other" /\ en.category = "or salary"
    BY <2>1 DEF PaidMe, DebtPaidByPerson, Rule
  <2>3. QED
    BY <2>1, <2>2, SameRule
<1>2. SameMeaning(Meant(PaidThem, words), Meant(DebtPaidToPerson, words))
  <2>1. PICK am, en : am = PaidThem /\ en = DebtPaidToPerson
    OBVIOUS
  <2>2. /\ am.intent = en.intent /\ am.intent # "BY_CATEGORY"
        /\ \/ am.category = en.category
           \/ am.category = "ignored" /\ en.category = "refused"
           \/ am.category = "refused" /\ en.category = "ignored"
           \/ am.category = "or other" /\ en.category = "or salary"
    BY <2>1 DEF PaidThem, DebtPaidToPerson, Rule
  <2>3. QED
    BY <2>1, <2>2, SameRule
<1>3. SameMeaning(Meant(IOweAm, words), Meant(IOwe, words))
  <2>1. PICK am, en : am = IOweAm /\ en = IOwe
    OBVIOUS
  <2>2. /\ am.intent = en.intent /\ am.intent # "BY_CATEGORY"
        /\ \/ am.category = en.category
           \/ am.category = "ignored" /\ en.category = "refused"
           \/ am.category = "refused" /\ en.category = "ignored"
           \/ am.category = "or other" /\ en.category = "or salary"
    BY <2>1 DEF IOweAm, IOwe, Rule
  <2>3. QED
    BY <2>1, <2>2, SameRule
<1>4. SameMeaning(Meant(AmSpent, words), Meant(Spent, words))
  <2>1. PICK am, en : am = AmSpent /\ en = Spent
    OBVIOUS
  <2>2. /\ am.intent = en.intent /\ am.intent # "BY_CATEGORY"
        /\ \/ am.category = en.category
           \/ am.category = "ignored" /\ en.category = "refused"
           \/ am.category = "refused" /\ en.category = "ignored"
           \/ am.category = "or other" /\ en.category = "or salary"
    BY <2>1 DEF AmSpent, Spent, Rule
  <2>3. QED
    BY <2>1, <2>2, SameRule
<1>5. SameMeaning(Meant(AmIncome, words), Meant(Income, words))
  <2>1. PICK am, en : am = AmIncome /\ en = Income
    OBVIOUS
  <2>2. /\ am.intent = en.intent /\ am.intent # "BY_CATEGORY"
        /\ \/ am.category = en.category
           \/ am.category = "ignored" /\ en.category = "refused"
           \/ am.category = "refused" /\ en.category = "ignored"
           \/ am.category = "or other" /\ en.category = "or salary"
    BY <2>1 DEF AmIncome, Income, Rule
  <2>3. QED
    BY <2>1, <2>2, SameRule
<1>6. SameMeaning(Meant(OwesMe, words), Meant(OwedToMe, words))
  <2>1. PICK am, en : am = OwesMe /\ en = OwedToMe
    OBVIOUS
  <2>2. /\ am.intent = en.intent /\ am.intent # "BY_CATEGORY"
        /\ \/ am.category = en.category
           \/ am.category = "ignored" /\ en.category = "refused"
           \/ am.category = "refused" /\ en.category = "ignored"
           \/ am.category = "or other" /\ en.category = "or salary"
    BY <2>1 DEF OwesMe, OwedToMe, Rule
  <2>3. QED
    BY <2>1, <2>2, SameRule
<1>7. SameMeaning(Meant(AmBudgetLead, words), Meant(BudgetLead, words))
  <2>1. PICK am, en : am = AmBudgetLead /\ en = BudgetLead
    OBVIOUS
  <2>2. /\ am.intent = en.intent /\ am.intent # "BY_CATEGORY"
        /\ \/ am.category = en.category
           \/ am.category = "ignored" /\ en.category = "refused"
           \/ am.category = "refused" /\ en.category = "ignored"
           \/ am.category = "or other" /\ en.category = "or salary"
    BY <2>1 DEF AmBudgetLead, BudgetLead, Rule
  <2>3. QED
    BY <2>1, <2>2, SameRule
<1>8. SameMeaning(Meant(AmBudgetTrail, words), Meant(BudgetTrail, words))
  <2>1. PICK am, en : am = AmBudgetTrail /\ en = BudgetTrail
    OBVIOUS
  <2>2. /\ am.intent = en.intent /\ am.intent # "BY_CATEGORY"
        /\ \/ am.category = en.category
           \/ am.category = "ignored" /\ en.category = "refused"
           \/ am.category = "refused" /\ en.category = "ignored"
           \/ am.category = "or other" /\ en.category = "or salary"
    BY <2>1 DEF AmBudgetTrail, BudgetTrail, Rule
  <2>3. QED
    BY <2>1, <2>2, SameRule
<1>9. SameMeaning(Meant(AmSaveLead, words), Meant(SavingsLead, words))
  <2>1. PICK am, en : am = AmSaveLead /\ en = SavingsLead
    OBVIOUS
  <2>2. /\ am.intent = en.intent /\ am.intent # "BY_CATEGORY"
        /\ \/ am.category = en.category
           \/ am.category = "ignored" /\ en.category = "refused"
           \/ am.category = "refused" /\ en.category = "ignored"
           \/ am.category = "or other" /\ en.category = "or salary"
    BY <2>1 DEF AmSaveLead, SavingsLead, Rule
  <2>3. QED
    BY <2>1, <2>2, SameRule
<1>10. SameMeaning(Meant(AmSaveTrail, words), Meant(SavingsTrail, words))
  <2>1. PICK am, en : am = AmSaveTrail /\ en = SavingsTrail
    OBVIOUS
  <2>2. /\ am.intent = en.intent /\ am.intent # "BY_CATEGORY"
        /\ \/ am.category = en.category
           \/ am.category = "ignored" /\ en.category = "refused"
           \/ am.category = "refused" /\ en.category = "ignored"
           \/ am.category = "or other" /\ en.category = "or salary"
    BY <2>1 DEF AmSaveTrail, SavingsTrail, Rule
  <2>3. QED
    BY <2>1, <2>2, SameRule
<1>11. QED
  BY <1>1, <1>2, <1>3, <1>4, <1>5, <1>6, <1>7, <1>8, <1>9, <1>10

(* The pairs of Twins, one by one.                                         *)
LEMMA SentencesAreTwins ==
  ASSUME NEW T, NEW words, Speakable(T, words), NEW twin \in Twins(words)
  PROVE  SameMeaning(Parse(twin[1]), Parse(twin[2]))
<1>1. /\ CategoryOf(words) = "none" =>
           /\ SameMeaning(Parse(WordsThen(words, "KEFELE")), Parse(WordsThen(words, "paid")))
           /\ SameMeaning(Parse(WordsThen(words, "KEFELKU")), Parse(WordsAfter("paid", words)))
           /\ SameMeaning(Parse(WordsThen(words, "ALEBIGN")), Parse(WordsAfterTwo("i", "owe", words)))
      /\ SameMeaning(Parse(ThenWords("AWETAHU", words)), Parse(ThenWords("spent", words)))
      /\ SameMeaning(Parse(ThenWords("TEQEBELKU", words)), Parse(ThenWords("got", words)))
      /\ SameMeaning(Parse(WordsThen(words, "ABEDEREGN")), Parse(WordsThenTwo(words, "owes", "me")))
      /\ SameMeaning(Parse(ThenWords("BAJET", words)), Parse(ThenWords("budget", words)))
      /\ SameMeaning(Parse(WordsThen(words, "BAJET")), Parse(WordsThen(words, "budget")))
      /\ SameMeaning(Parse(ThenWords("QUTABA", words)), Parse(ThenWords("save", words)))
      /\ SameMeaning(Parse(WordsThen(words, "QUTABA")), Parse(WordsThen(words, "save")))
  <2>1. CategoryOf(words) = "none" => SameMeaning(Parse(WordsThen(words, "KEFELE")), Parse(WordsThen(words, "paid")))
    BY RulesAreTwins, SaysPaidMe, SaysDebtPaidByPerson
  <2>2. CategoryOf(words) = "none" => SameMeaning(Parse(WordsThen(words, "KEFELKU")), Parse(WordsAfter("paid", words)))
    BY RulesAreTwins, SaysPaidThem, SaysDebtPaidToPerson
  <2>3. CategoryOf(words) = "none" => SameMeaning(Parse(WordsThen(words, "ALEBIGN")), Parse(WordsAfterTwo("i", "owe", words)))
    BY RulesAreTwins, SaysIOweAm, SaysIOwe
  <2>4. SameMeaning(Parse(ThenWords("AWETAHU", words)), Parse(ThenWords("spent", words)))
    BY RulesAreTwins, SaysAmSpent, SaysSpent
  <2>5. SameMeaning(Parse(ThenWords("TEQEBELKU", words)), Parse(ThenWords("got", words)))
    BY RulesAreTwins, SaysAmIncome, SaysIncome
  <2>6. SameMeaning(Parse(WordsThen(words, "ABEDEREGN")), Parse(WordsThenTwo(words, "owes", "me")))
    BY RulesAreTwins, SaysOwesMe, SaysOwedToMe
  <2>7. SameMeaning(Parse(ThenWords("BAJET", words)), Parse(ThenWords("budget", words)))
    BY RulesAreTwins, SaysAmBudgetLead, SaysBudgetLead
  <2>8. SameMeaning(Parse(WordsThen(words, "BAJET")), Parse(WordsThen(words, "budget")))
    BY RulesAreTwins, SaysAmBudgetTrail, SaysBudgetTrail
  <2>9. SameMeaning(Parse(ThenWords("QUTABA", words)), Parse(ThenWords("save", words)))
    BY RulesAreTwins, SaysAmSaveLead, SaysSavingsLead
  <2>10. SameMeaning(Parse(WordsThen(words, "QUTABA")), Parse(WordsThen(words, "save")))
    BY RulesAreTwins, SaysAmSaveTrail, SaysSavingsTrail, SMTT(30)
  <2>11. QED
    BY <2>1, <2>2, <2>3, <2>4, <2>5, <2>6, <2>7, <2>8, <2>9, <2>10
<1>2. \/ twin = <<ThenWords("AWETAHU", words), ThenWords("spent", words)>>
      \/ twin = <<ThenWords("TEQEBELKU", words), ThenWords("got", words)>>
      \/ twin = <<WordsThen(words, "ABEDEREGN"), WordsThenTwo(words, "owes", "me")>>
      \/ twin = <<ThenWords("BAJET", words), ThenWords("budget", words)>>
      \/ twin = <<WordsThen(words, "BAJET"), WordsThen(words, "budget")>>
      \/ twin = <<ThenWords("QUTABA", words), ThenWords("save", words)>>
      \/ twin = <<WordsThen(words, "QUTABA"), WordsThen(words, "save")>>
      \/ /\ CategoryOf(words) = "none"
         /\ \/ twin = <<WordsThen(words, "KEFELE"), WordsThen(words, "paid")>>
            \/ twin = <<WordsThen(words, "KEFELKU"), WordsAfter("paid", words)>>
            \/ twin = <<WordsThen(words, "ALEBIGN"), WordsAfterTwo("i", "owe", words)>>
  BY ZenonT(60) DEF Twins, WordsThen, ThenWords, WordsAfter, WordsThenTwo, WordsAfterTwo, Saying, Seven
<1>3. QED
  BY <1>1, <1>2

(* All that the plain words of a message can be written with.              *)
AllWords == Vocabulary \cup {Amount(7)} \cup {Word(c) : c \in Keywords}

LEMMA SentencesOfAMessage ==
  ASSUME NEW words \in Seq(Vocabulary) PROVE
    Plain(words) => /\ OrdersAgree(words)
                    /\ \A twin \in Twins(words) : SameMeaning(Parse(twin[1]), Parse(twin[2]))
<1> SUFFICES ASSUME Plain(words)
             PROVE  /\ OrdersAgree(words)
                    /\ \A twin \in Twins(words) : SameMeaning(Parse(twin[1]), Parse(twin[2]))
  OBVIOUS
<1>1. \A token \in AllWords : token.n \in Nat /\ (IsSpoken(token) => token.n > 0)
  <2>1. \A token \in Vocabulary : token.n \in Nat /\ (IsSpoken(token) => token.n > 0)
    BY VocabularyAssumption
  <2>2. Amount(7).n \in Nat /\ ~IsSpoken(Amount(7))
    BY DEF Amount, IsSpoken
  <2>3. \A c \in Keywords : Word(c).n \in Nat /\ ~IsSpoken(Word(c))
    BY DEF Word, IsSpoken, Keywords
  <2>4. QED
    BY <2>1, <2>2, <2>3 DEF AllWords
<1>2. words \in Seq(AllWords)
  <2>1. Vocabulary \subseteq AllWords
    BY DEF AllWords
  <2>2. \A i \in 1..Len(words) : words[i] \in AllWords
    BY <2>1
  <2>3. QED
    BY <2>2
<1>3. Amount(7) \in AllWords /\ \A c \in Keywords : Word(c) \in AllWords
  BY DEF AllWords
<1>4. Speakable(AllWords, words)
  BY <1>1, <1>2, <1>3 DEF Speakable, Numbered
<1>5. QED
  BY <1>4, OrderDoesNotMatter, SentencesAreTwins

(* However many plain words a message has: a number among them means the   *)
(* same in front and behind, and the ten pairs of sentences agree.         *)
THEOREM SentencesMeanTheSame == ParserSpec => []SentencesAgree
<1>1. ParserInv => SentencesAgree
  BY SentencesOfAMessage DEF ParserInv, SentencesAgree
<1>2. QED
  BY <1>1, ParserKeepsWords, PTL
=============================================================================
