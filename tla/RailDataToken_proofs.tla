------------------------ MODULE RailDataToken_proofs ------------------------
(***************************************************************************)
(* Token requests keep their budget over every span of the window, and     *)
(* after a refused one the client sends none for the pause.                *)
(***************************************************************************)
EXTENDS RailDataToken, TLAPS, FiniteSetTheorems, WellFoundedInduction

(* A call that is in progress began when the client was not suspended, no  *)
(* longer than Timeout ago; and the suspension that a refusal left ends    *)
(* a pause after the call that was refused began.                          *)
TimeInv ==
  /\ now \in Nat /\ at \in Nat /\ suspended \in Nat /\ failed \in Nat
  /\ at <= now
  /\ call # "none" => now <= at + Timeout /\ suspended <= at
  /\ failed # 0 => failed + Pause <= suspended + Timeout

(* The suspension of a start is over.                                      *)
LEMMA TimeInit == Init => TimeInv
  BY TokenAssumption DEF Init, TimeInv

(* Each step keeps the invariant: only Begin starts a call, under the      *)
(* guard on the suspension, and only a refusal suspends.                   *)
LEMMA TimeStep == TimeInv /\ [Next]_vars => TimeInv'
<1> SUFFICES ASSUME TimeInv, [Next]_vars PROVE TimeInv'
  OBVIOUS
<1> USE TokenAssumption DEF TimeInv
<1>1. CASE Tick
  BY <1>1 DEF Tick
<1>2. CASE Begin
  BY <1>2 DEF Begin
<1>3. CASE CheckBudget
  BY <1>3 DEF CheckBudget
<1>4. CASE Record
  BY <1>4 DEF Record
<1>5. CASE GetToken
  BY <1>5 DEF GetToken
<1>6. CASE GetTokenFails
  <2>1. /\ now' = now /\ at' = at /\ call' = "none"
        /\ suspended' = at + Pause /\ failed' = now
        /\ now <= at + Timeout
    BY <1>6 DEF GetTokenFails
  <2>2. failed' + Pause <= suspended' + Timeout
    BY <2>1
  <2> QED
    BY <2>1, <2>2
<1>7. CASE Schedule
  BY <1>7 DEF Schedule
<1>8. CASE Reject
  BY <1>8 DEF Reject
<1>9. CASE Restart
  BY <1>9 DEF Restart
<1>10. CASE UNCHANGED vars
  BY <1>10 DEF vars
<1> QED
  BY <1>1, <1>2, <1>3, <1>4, <1>5, <1>6, <1>7, <1>8, <1>9, <1>10 DEF Next

(* A request is sent by a call that began when the suspension was over.    *)
LEMMA AskedAfterPause ==
  TimeInv /\ [Next]_vars =>
    (asked' # asked /\ failed # 0 => now + Timeout >= failed + Pause)
<1> SUFFICES ASSUME TimeInv, [Next]_vars, asked' # asked, failed # 0
             PROVE now + Timeout >= failed + Pause
  OBVIOUS
<1>1. call = "get"
  BY DEF Next, vars, Tick, Begin, CheckBudget, Record, GetToken,
         GetTokenFails, Schedule, Reject, Restart
<1>2. suspended <= at /\ at <= now /\ failed + Pause <= suspended + Timeout
  BY <1>1 DEF TimeInv
<1> QED
  BY <1>2, TokenAssumption DEF TimeInv

(* One refused request per pause, for every budget, window, reuse time,    *)
(* pause and length of a call (TOKEN_FAILURE_PAUSE).                       *)
THEOREM PauseAlwaysKept == Spec => PauseKept
<1>1. Init => TimeInv
  BY TimeInit
<1>2. TimeInv /\ [Next]_vars => TimeInv'
  BY TimeStep
<1>3. TimeInv /\ [Next]_vars =>
        [asked' # asked /\ failed # 0 => now + Timeout >= failed + Pause]_vars
  BY AskedAfterPause
<1> QED
  BY <1>1, <1>2, <1>3, PTL DEF Spec, PauseKept

-----------------------------------------------------------------------------
(* The budget                                                              *)

InOrder(times) == \A i, j \in DOMAIN times : i <= j => times[i] <= times[j]

(* Requests that are counted: in order, of calls up to the last, and no    *)
(* more than the budget.                                                   *)
Counting(requests) ==
  /\ requests \in Seq(Nat \ {0}) /\ InOrder(requests)
  /\ \A i \in DOMAIN requests : requests[i] <= at
  /\ Len(requests) <= Budget

(* Every request received has a counted one, the last the last and so on   *)
(* backwards, that is no more than Timeout older; or it is so old that the *)
(* window has passed.                                                      *)
Covers(requests) ==
  \A k \in DOMAIN asked :
    LET i == k + Len(requests) - Len(asked)
    IN  IF i >= 1 THEN asked[k] <= requests[i] + Timeout
                  ELSE asked[k] + Window <= now + Timeout

Without(requests) == SubSeq(requests, 1, Len(requests) - 1)

(* One that is counted but not yet received is the last of the list, in    *)
(* memory and on disk, and the others cover what was received.             *)
PendingInv ==
  /\ call = "record" => Len(memory.requests) < Budget
  /\ call = "get" =>
       /\ memory.requests # << >> /\ disk.requests = memory.requests
       /\ memory.requests[Len(memory.requests)] = at
       /\ Covers(Without(memory.requests))

CountInv ==
  /\ now > 0
  /\ call # "none" => at > 0
  /\ Counting(memory.requests) /\ Counting(disk.requests)
  /\ InOrder(asked)
  /\ \A k \in DOMAIN asked : asked[k] <= now
  /\ Covers(memory.requests) /\ Covers(disk.requests)
  /\ PendingInv

Inv == TypeOK /\ TimeInv /\ (~SavesFail => CountInv /\ BudgetKept)
-----------------------------------------------------------------------------
(* Type correctness                                                        *)

LEMMA CountedType ==
  ASSUME NEW requests \in Seq(Nat), NEW t \in Nat
  PROVE  Counted(requests, t) \in Seq(Nat)
<1> DEFINE cutoff == IF t > Window THEN t - Window ELSE 0
           old == {i \in DOMAIN requests : requests[i] <= cutoff}
<1>1. old \subseteq 1 .. Len(requests) /\ Len(requests) \in Nat
  OBVIOUS
<1>2. Cardinality(old) \in Nat
  <2> HIDE DEF old
  <2>1. IsFiniteSet(1 .. Len(requests))
    BY <1>1, FS_Interval
  <2>2. IsFiniteSet(old)
    BY <1>1, <2>1, FS_Subset
  <2> QED
    BY <2>2, FS_CardinalityType
<1>3. Counted(requests, t) = SubSeq(requests, Cardinality(old) + 1, Len(requests))
  BY DEF Counted
<1> HIDE DEF old
<1> QED
  BY <1>1, <1>2, <1>3

LEMMA TypeInit == Init => TypeOK
<1> SUFFICES ASSUME Init PROVE TypeOK
  OBVIOUS
<1>1. replaced \in BOOLEAN
  BY Zenon DEF Init
<1>2. NoToken \in TokenState
  BY DEF NoToken, TokenState
<1> QED
  BY <1>1, <1>2 DEF Init, TypeOK

LEMMA TypeStep == TypeOK /\ [Next]_vars => TypeOK'
<1> SUFFICES ASSUME TypeOK, [Next]_vars PROVE TypeOK'
  OBVIOUS
<1> USE TokenAssumption DEF TypeOK
<1>1. CASE Tick
  BY <1>1 DEF Tick
<1>2. CASE Begin
  <2>1. replaced' \in BOOLEAN
    BY <1>2, Zenon DEF Begin
  <2> QED
    BY <1>2, <2>1 DEF Begin
<1>3. CASE CheckBudget
  <2>1. Counted(memory.requests, at) \in Seq(Nat)
    BY CountedType DEF TokenState
  <2>2. memory' \in TokenState
    BY <1>3, <2>1 DEF CheckBudget, TokenState
  <2> QED
    BY <1>3, <2>2 DEF CheckBudget
<1>4. CASE Record
  <2>1. Append(memory.requests, at) \in Seq(Nat)
    BY DEF TokenState
  <2>2. memory' \in TokenState
    BY <1>4, <2>1 DEF Record, TokenState
  <2> QED
    BY <1>4, <2>2 DEF Record, Save
<1>5. CASE GetToken
  <2>1. memory' = [memory EXCEPT !.issued = at] /\ at \in Nat
    BY <1>5 DEF GetToken
  <2>2. memory' \in TokenState
    BY <2>1 DEF TokenState
  <2> QED
    <3>1. disk' \in TokenState
      BY <1>5, <2>2 DEF GetToken, Save
    <3>2. asked' = Append(asked, now)
      BY <1>5 DEF GetToken
    <3>3. asked' \in Seq(Nat)
      BY <3>2
    <3> QED
      BY <1>5, <2>2, <3>1, <3>3 DEF GetToken
<1>6. CASE GetTokenFails
  BY <1>6 DEF GetTokenFails
<1>7. CASE Schedule
  BY <1>7 DEF Schedule
<1>8. CASE Reject
  <2>1. memory' \in TokenState
    BY <1>8 DEF Reject, TokenState
  <2>2. replaced' \in BOOLEAN
    BY <1>8, Zenon DEF Reject
  <2> QED
    BY <1>8, <2>1, <2>2 DEF Reject, Save
<1>9. CASE Restart
  BY <1>9 DEF Restart
<1>10. CASE UNCHANGED vars
  BY <1>10 DEF vars
<1> QED
  BY <1>1, <1>2, <1>3, <1>4, <1>5, <1>6, <1>7, <1>8, <1>9, <1>10 DEF Next

(* Memory, file and history stay in their domains.                         *)
THEOREM TypeCorrect == Spec => []TypeOK
  BY TypeInit, TypeStep, PTL DEF Spec

-----------------------------------------------------------------------------
(* Lists of requests                                                       *)

(* A set of numbers has a least one.                                       *)
LEMMA LeastOf ==
  ASSUME NEW S \in SUBSET Nat, S # {}
  PROVE  \E m \in S : \A n \in S : m <= n
<1> DEFINE R == OpToRel(<, Nat)
<1>1. IsWellFoundedOn(R, Nat)
  BY NatLessThanWellFounded
<1>2. \A x, y \in Nat : <<y, x>> \in R <=> y < x
  BY DEF OpToRel
<1> HIDE DEF R
<1>3. PICK x \in S : \A y \in S : ~(<<y, x>> \in R)
  BY <1>1, WFMin
<1>4. ASSUME NEW y \in S PROVE x <= y
  <2>1. x \in Nat /\ y \in Nat /\ ~(y < x)
    BY <1>2, <1>3
  <2> QED
    BY <2>1
<1> QED
  BY <1>4

(* What prune takes away is a first part of the list, all of it too old    *)
(* for the window.                                                         *)
LEMMA CountedIsEnd ==
  ASSUME NEW requests \in Seq(Nat \ {0}), InOrder(requests), NEW t \in Nat
  PROVE  \E n \in 0 .. Len(requests) :
           /\ Counted(requests, t) = SubSeq(requests, n + 1, Len(requests))
           /\ \A i \in 1 .. n : requests[i] + Window <= t
<1> DEFINE cutoff == IF t > Window THEN t - Window ELSE 0
           old == {i \in DOMAIN requests : requests[i] <= cutoff}
           young == {i \in 1 .. Len(requests) : requests[i] > cutoff}
           \* the first that stays, or the place after the last
           first == young \cup {Len(requests) + 1}
<1>1. cutoff \in Nat /\ \A r \in Nat \ {0} : r <= cutoff => r + Window <= t
  BY TokenAssumption
<1>2. DOMAIN requests = 1 .. Len(requests) /\ Len(requests) \in Nat
      /\ \A i \in DOMAIN requests : requests[i] \in Nat \ {0}
  OBVIOUS
<1> HIDE DEF cutoff
<1>3. first \in SUBSET Nat /\ first # {}
  BY <1>2
<1>4. PICK m \in first : \A n \in first : m <= n
  BY <1>3, LeastOf
<1>5. m \in 1 .. Len(requests) + 1 /\ m \in Nat
  BY <1>2, <1>4
<1>6. \A i \in 1 .. Len(requests) : i < m => requests[i] <= cutoff
  <2> SUFFICES ASSUME NEW i \in 1 .. Len(requests), i < m PROVE requests[i] <= cutoff
    OBVIOUS
  <2>1. i \notin young
    BY <1>2, <1>4, <1>5
  <2>2. ~(requests[i] > cutoff)
    BY <2>1
  <2> QED
    BY <1>1, <1>2, <2>2
<1>7. \A i \in 1 .. Len(requests) : i >= m => requests[i] > cutoff
  <2> SUFFICES ASSUME NEW i \in 1 .. Len(requests), i >= m PROVE requests[i] > cutoff
    OBVIOUS
  <2>1. m \in young
    BY <1>2, <1>4, <1>5
  <2>2. requests[m] > cutoff /\ requests[m] <= requests[i]
    BY <1>2, <2>1 DEF InOrder
  <2> QED
    BY <1>1, <1>2, <2>1, <2>2
<1>8. old = 1 .. (m - 1)
  <2>1. \A i \in 1 .. Len(requests) : requests[i] <= cutoff <=> i < m
    BY <1>1, <1>2, <1>5, <1>6, <1>7
  <2> QED
    BY <1>2, <1>5, <2>1
<1>9. Cardinality(old) = m - 1
  <2>1. 1 \in Int /\ m - 1 \in Int
    BY <1>5
  <2>2. Cardinality(1 .. (m - 1)) = IF 1 > m - 1 THEN 0 ELSE m - 1 - 1 + 1
    BY <2>1, FS_Interval
  <2> HIDE DEF old
  <2> QED
    BY <1>5, <1>8, <2>2
<1>10. Counted(requests, t) = SubSeq(requests, Cardinality(old) + 1, Len(requests))
  BY DEF Counted, cutoff
<1>11. \A i \in 1 .. (m - 1) : requests[i] + Window <= t
  BY <1>1, <1>2, <1>5, <1>6
<1> HIDE DEF old, young, first
<1> QED
  BY <1>5, <1>9, <1>10, <1>11
(* What still counts covers the requests received, since what goes is too  *)
(* old for the window.                                                     *)
LEMMA CoversCounted ==
  ASSUME NEW requests, Counting(requests), Covers(requests), TimeInv, asked \in Seq(Nat)
  PROVE  /\ Counting(Counted(requests, at)) /\ Covers(Counted(requests, at))
<1>1. requests \in Seq(Nat \ {0}) /\ InOrder(requests) /\ Len(requests) <= Budget
      /\ \A i \in DOMAIN requests : requests[i] <= at
  BY DEF Counting
<1>2. at \in Nat /\ now \in Nat /\ at <= now
  BY DEF TimeInv
<1>3. PICK n \in 0 .. Len(requests) :
        /\ Counted(requests, at) = SubSeq(requests, n + 1, Len(requests))
        /\ \A i \in 1 .. n : requests[i] + Window <= at
  BY <1>1, <1>2, CountedIsEnd
<1> DEFINE left == SubSeq(requests, n + 1, Len(requests))
<1>4. /\ left \in Seq(Nat \ {0}) /\ Len(left) = Len(requests) - n
      /\ \A i \in 1 .. Len(left) : left[i] = requests[i + n]
      /\ Len(requests) \in Nat /\ DOMAIN requests = 1 .. Len(requests)
      /\ DOMAIN left = 1 .. Len(left)
  BY <1>1
<1> HIDE DEF left
<1>5. Counting(left)
  <2>1. \A i \in 1 .. Len(left) : i + n \in DOMAIN requests /\ left[i] = requests[i + n]
    <3> DEFINE size == Len(requests)
               rest == Len(left)
    <3>1. size \in Nat /\ n \in 0 .. size /\ rest = size - n
          /\ DOMAIN requests = 1 .. size
          /\ \A i \in 1 .. rest : left[i] = requests[i + n]
      BY <1>4
    <3> HIDE DEF size, rest
    <3>2. \A i \in 1 .. rest : i + n \in 1 .. size
      BY <3>1
    <3> QED
      BY <3>1, <3>2 DEF rest
  <2>2. InOrder(left)
    <3> SUFFICES ASSUME NEW i \in 1 .. Len(left), NEW j \in 1 .. Len(left), i <= j
                 PROVE  left[i] <= left[j]
      BY <1>4 DEF InOrder
    <3>1. i + n <= j + n
      BY <1>4
    <3> QED
      BY <1>1, <2>1, <3>1 DEF InOrder
  <2>3. \A i \in DOMAIN left : left[i] <= at
    BY <1>1, <1>4, <2>1
  <2> QED
    BY <1>1, <1>4, <2>2, <2>3, TokenAssumption DEF Counting
<1>6. Covers(left)
  <2> SUFFICES ASSUME NEW k \in DOMAIN asked
               PROVE  LET i == k + Len(left) - Len(asked)
                      IN  IF i >= 1 THEN asked[k] <= left[i] + Timeout
                                    ELSE asked[k] + Window <= now + Timeout
    BY DEF Covers
  <2> DEFINE i == k + Len(requests) - Len(asked)
  <2>1. asked[k] \in Nat /\ k \in 1 .. Len(asked) /\ Len(asked) \in Nat
    OBVIOUS
  <2>2. i \in Int /\ i <= Len(requests)
    BY <1>4, <2>1
  <2>3. IF i >= 1 THEN asked[k] <= requests[i] + Timeout
                  ELSE asked[k] + Window <= now + Timeout
    BY DEF Covers
  <2>4. k + Len(left) - Len(asked) = i - n
    BY <1>4, <2>1
  <2> HIDE DEF i
  <2>5. CASE i - n >= 1
    <3>1. i - n \in 1 .. Len(left) /\ i >= 1
      BY <1>4, <2>2, <2>5
    <3>2. (i - n) + n = i
      BY <2>2
    <3>3. left[i - n] = requests[i]
      BY <1>4, <3>1, <3>2
    <3> QED
      BY <2>3, <2>4, <2>5, <3>1, <3>3
  <2>6. CASE i - n < 1 /\ i >= 1
    <3>1. requests[i] + Window <= at /\ requests[i] \in Nat
      BY <1>1, <1>3, <1>4, <2>2, <2>6
    <3>2. asked[k] <= requests[i] + Timeout
      BY <2>3, <2>6
    <3>3. asked[k] + Window <= now + Timeout
      BY <1>2, <2>1, <3>1, <3>2, TokenAssumption
    <3> QED
      BY <1>4, <2>2, <2>4, <2>6, <3>3
  <2>7. CASE i < 1
    BY <1>4, <2>2, <2>3, <2>4, <2>7
  <2> QED
    BY <1>4, <2>2, <2>5, <2>6, <2>7
<1> QED
  BY <1>3, <1>5, <1>6 DEF left

(* A list with one more request covers at least as much, and what covered  *)
(* before is the list without it.                                          *)
LEMMA CoversRecorded ==
  ASSUME NEW requests, Counting(requests), Covers(requests), TimeInv,
         asked \in Seq(Nat), InOrder(asked), \A k \in DOMAIN asked : asked[k] <= now,
         call # "none", at > 0, Len(requests) < Budget
  PROVE  LET more == Append(requests, at)
         IN  /\ Counting(more) /\ Covers(more) /\ Without(more) = requests
             /\ more # << >> /\ more[Len(more)] = at
<1> DEFINE more == Append(requests, at)
<1>1. /\ requests \in Seq(Nat \ {0}) /\ InOrder(requests)
      /\ \A i \in DOMAIN requests : requests[i] <= at
  BY DEF Counting
<1>2. at \in Nat \ {0} /\ now \in Nat /\ now <= at + Timeout
  BY DEF TimeInv
<1>3. /\ more \in Seq(Nat \ {0}) /\ Len(more) = Len(requests) + 1
      /\ \A i \in 1 .. Len(requests) : more[i] = requests[i]
      /\ more[Len(requests) + 1] = at
      /\ Len(requests) \in Nat /\ DOMAIN requests = 1 .. Len(requests)
      /\ DOMAIN more = 1 .. Len(requests) + 1
  BY <1>1, <1>2
<1>4. Without(more) = requests
  BY <1>1, <1>2 DEF Without
<1> HIDE DEF more
<1>5. Counting(more)
  <2>1. ASSUME NEW i \in DOMAIN more PROVE more[i] <= at
    <3>1. CASE i = Len(requests) + 1
      BY <1>2, <1>3, <3>1
    <3>2. CASE i \in DOMAIN requests
      BY <1>1, <1>3, <3>2
    <3> QED
      BY <1>3, <3>1, <3>2
  <2>2. InOrder(more)
    <3> SUFFICES ASSUME NEW i \in DOMAIN more, NEW j \in DOMAIN more, i <= j
                 PROVE  more[i] <= more[j]
      BY DEF InOrder
    <3>1. CASE j = Len(requests) + 1
      BY <1>3, <2>1, <3>1
    <3>2. CASE j # Len(requests) + 1
      <4>1. i \in DOMAIN requests /\ j \in DOMAIN requests
        BY <1>3, <3>2
      <4> QED
        BY <1>1, <1>3, <4>1 DEF InOrder
    <3> QED
      BY <3>1, <3>2
  <2> QED
    BY <1>3, <2>1, <2>2, TokenAssumption DEF Counting
<1>6. Covers(more)
  <2> SUFFICES ASSUME NEW k \in DOMAIN asked
               PROVE  LET i == k + Len(more) - Len(asked)
                      IN  IF i >= 1 THEN asked[k] <= more[i] + Timeout
                                    ELSE asked[k] + Window <= now + Timeout
    BY DEF Covers
  <2> DEFINE i == k + Len(requests) - Len(asked)
  <2>1. /\ asked[k] \in Nat /\ k \in 1 .. Len(asked) /\ Len(asked) \in Nat
        /\ DOMAIN asked = 1 .. Len(asked) /\ asked[k] <= now
    OBVIOUS
  <2>2. i \in Int /\ i <= Len(requests) /\ k + Len(more) - Len(asked) = i + 1
    BY <1>3, <2>1
  <2>3. CASE i = Len(requests)
    BY <1>2, <1>3, <2>1, <2>2, <2>3, TokenAssumption
  <2>4. CASE i < Len(requests) /\ i >= 0
    <3>1. k + 1 \in DOMAIN asked /\ asked[k] <= asked[k + 1] /\ asked[k + 1] \in Nat
      BY <1>3, <2>1, <2>4 DEF InOrder
    <3>2. (k + 1) + Len(requests) - Len(asked) = i + 1
      BY <1>3, <2>1
    <3>3. asked[k + 1] <= requests[i + 1] + Timeout
      BY <2>2, <2>4, <3>1, <3>2 DEF Covers
    <3> HIDE DEF i
    <3>4. i + 1 \in 1 .. Len(requests)
      BY <1>3, <2>2, <2>4
    <3>5. more[i + 1] = requests[i + 1] /\ requests[i + 1] \in Nat
      BY <1>1, <1>3, <3>4
    <3> QED
      BY <2>1, <2>2, <2>4, <3>1, <3>3, <3>5, TokenAssumption
  <2>5. CASE i < 0
    <3>1. asked[k] + Window <= now + Timeout
      BY <1>3, <2>1, <2>2, <2>5 DEF Covers
    <3> HIDE DEF i
    <3> QED
      BY <2>2, <2>5, <3>1
  <2> QED
    BY <1>3, <2>2, <2>3, <2>4, <2>5
<1> QED
  BY <1>3, <1>4, <1>5, <1>6 DEF more
(* A list covers from then on what it covered: time only helps.            *)
LEMMA CoversLater ==
  ASSUME NEW requests \in Seq(Nat \ {0}), Covers(requests), asked' = asked,
         asked \in Seq(Nat), now \in Nat, now' \in Nat, now' >= now
  PROVE  Covers(requests)'
<1> SUFFICES ASSUME NEW k \in DOMAIN asked
             PROVE  LET i == k + Len(requests) - Len(asked)
                    IN  IF i >= 1 THEN asked[k] <= requests[i] + Timeout
                                  ELSE asked[k] + Window <= now' + Timeout
  BY DEF Covers
<1>1. asked[k] \in Nat
  OBVIOUS
<1>2. LET i == k + Len(requests) - Len(asked)
      IN  IF i >= 1 THEN asked[k] <= requests[i] + Timeout
                    ELSE asked[k] + Window <= now + Timeout
  BY DEF Covers
<1> QED
  BY <1>1, <1>2, TokenAssumption

(* A request that is received is covered by the last one counted, and has  *)
(* the budget's distance from the one that many before it.                 *)
LEMMA CoversAsked ==
  ASSUME NEW requests, Counting(requests), requests # << >>,
         requests[Len(requests)] = at, Covers(Without(requests)), TimeInv,
         call # "none", asked \in Seq(Nat), asked' = Append(asked, now), now' = now,
         InOrder(asked), \A k \in DOMAIN asked : asked[k] <= now
  PROVE  /\ Covers(requests)'
         /\ asked' \in Seq(Nat) /\ InOrder(asked')
         /\ \A k \in DOMAIN asked' : asked'[k] <= now'
         /\ BudgetKept => BudgetKept'
<1>1. /\ requests \in Seq(Nat \ {0}) /\ Len(requests) \in Nat \ {0}
      /\ Len(requests) <= Budget
  BY DEF Counting
<1>2. now \in Nat /\ at \in Nat /\ now <= at + Timeout
  BY DEF TimeInv
<1>3. /\ asked' \in Seq(Nat) /\ Len(asked') = Len(asked) + 1 /\ Len(asked) \in Nat
      /\ DOMAIN asked = 1 .. Len(asked) /\ DOMAIN asked' = 1 .. Len(asked) + 1
      /\ \A k \in DOMAIN asked : asked'[k] = asked[k] /\ asked[k] \in Nat
      /\ asked'[Len(asked) + 1] = now
  BY <1>2
<1>4. \A k \in DOMAIN asked' : asked'[k] <= now'
  BY <1>2, <1>3
<1>5. InOrder(asked')
  <2> SUFFICES ASSUME NEW i \in DOMAIN asked', NEW j \in DOMAIN asked', i <= j
               PROVE  asked'[i] <= asked'[j]
    BY DEF InOrder
  <2>1. CASE j = Len(asked) + 1
    BY <1>3, <1>4, <2>1
  <2>2. CASE j # Len(asked) + 1
    <3>1. i \in DOMAIN asked /\ j \in DOMAIN asked
      BY <1>3, <2>2
    <3> QED
      BY <1>3, <3>1 DEF InOrder
  <2> QED
    BY <2>1, <2>2
<1> DEFINE fewer == Without(requests)
<1>6. /\ Len(fewer) = Len(requests) - 1
      /\ \A i \in 1 .. Len(requests) - 1 : fewer[i] = requests[i]
  <2> DEFINE n == Len(requests) - 1
  <2>1. n \in Nat /\ n <= Len(requests)
    BY <1>1
  <2>2. fewer = SubSeq(requests, 1, n)
    BY DEF Without
  <2> HIDE DEF n, fewer
  <2>3. Len(fewer) = n
    BY <1>1, <2>1, <2>2
  <2>4. \A i \in 1 .. n : fewer[i] = requests[i]
    BY <1>1, <2>1, <2>2
  <2> QED
    BY <2>3, <2>4 DEF n
<1>7. \A k \in DOMAIN asked :
        LET i == k + Len(fewer) - Len(asked)
        IN  IF i >= 1 THEN asked[k] <= fewer[i] + Timeout
                      ELSE asked[k] + Window <= now + Timeout
  BY DEF Covers
<1> HIDE DEF fewer
<1>8. Covers(requests)'
  <2> SUFFICES ASSUME NEW k \in DOMAIN asked'
               PROVE  LET i == k + Len(requests) - Len(asked')
                      IN  IF i >= 1 THEN asked'[k] <= requests[i] + Timeout
                                    ELSE asked'[k] + Window <= now' + Timeout
    BY DEF Covers
  <2>1. CASE k = Len(asked) + 1
    <3>1. k + Len(requests) - Len(asked') = Len(requests)
      BY <1>1, <1>3, <2>1
    <3> QED
      BY <1>1, <1>2, <1>3, <2>1, <3>1
  <2>2. CASE k # Len(asked) + 1
    <3>1. k \in DOMAIN asked /\ asked'[k] = asked[k]
      BY <1>3, <2>2
    <3> DEFINE i == k + Len(fewer) - Len(asked)
    <3>2. k + Len(requests) - Len(asked') = i /\ i \in Int /\ i < Len(requests)
      BY <1>1, <1>3, <1>6, <3>1
    <3>3. IF i >= 1 THEN asked[k] <= fewer[i] + Timeout
                    ELSE asked[k] + Window <= now + Timeout
      BY <1>7, <3>1
    <3> HIDE DEF i
    <3>4. i >= 1 => fewer[i] = requests[i]
      BY <1>1, <1>6, <3>2
    <3> QED
      BY <3>1, <3>2, <3>3, <3>4
  <2> QED
    BY <2>1, <2>2
<1>9. ASSUME BudgetKept PROVE BudgetKept'
  <2> SUFFICES ASSUME ~SavesFail, NEW k \in DOMAIN asked', k + Budget \in DOMAIN asked'
               PROVE  asked'[k] + Window <= asked'[k + Budget] + Timeout
    BY DEF BudgetKept
  <2>1. Budget \in Nat \ {0} /\ k \in Nat
    BY <1>1, <1>3, TokenAssumption
  <2>2. CASE k + Budget = Len(asked) + 1
    <3>1. k \in DOMAIN asked /\ asked'[k] = asked[k]
      BY <1>3, <2>1, <2>2
    <3>2. ~(k + Len(fewer) - Len(asked) >= 1)
      BY <1>1, <1>3, <1>6, <2>1, <2>2
    <3>3. asked[k] + Window <= now + Timeout
      BY <1>7, <3>1, <3>2
    <3> QED
      BY <1>3, <2>2, <3>1, <3>3
  <2>3. CASE k + Budget # Len(asked) + 1
    <3>1. k \in DOMAIN asked /\ k + Budget \in DOMAIN asked
      BY <1>3, <2>1, <2>3
    <3> QED
      BY <1>3, <1>9, <3>1 DEF BudgetKept
  <2> QED
    BY <2>2, <2>3
<1> QED
  BY <1>3, <1>4, <1>5, <1>8, <1>9
-----------------------------------------------------------------------------
(* Steps, while the file can be written                                    *)

LEMMA CountInit == Init => CountInv /\ BudgetKept
  BY TokenAssumption
     DEF Init, CountInv, NoToken, Counting, InOrder, Covers, PendingInv, BudgetKept

(* Steps that leave both lists and the history alone.                      *)
LEMMA QuietStep ==
  ASSUME TypeOK, TimeInv, TimeInv', CountInv, BudgetKept,
         memory'.requests \in {memory.requests, disk.requests},
         disk'.requests \in {disk.requests, memory'.requests},
         asked' = asked, now' >= now, at' >= at,
         call' \notin {"record", "get"}, call' # "none" => at' > 0
  PROVE  CountInv' /\ BudgetKept'
<1>1. /\ now \in Nat /\ now' \in Nat /\ at \in Nat /\ at' \in Nat
      /\ asked \in Seq(Nat) /\ now' > 0
  BY DEF TypeOK, TimeInv, CountInv
<1>2. ASSUME NEW requests \in {memory.requests, disk.requests}
      PROVE  Counting(requests)' /\ Covers(requests)'
  <2>1. Counting(requests) /\ Covers(requests) /\ requests \in Seq(Nat \ {0})
    BY <1>2 DEF CountInv, Counting
  <2>2. Covers(requests)'
    BY <1>1, <2>1, CoversLater
  <2>3. \A i \in DOMAIN requests : requests[i] \in Nat
    BY <2>1
  <2>4. Counting(requests)'
    BY <1>1, <2>1, <2>3 DEF Counting, InOrder
  <2> QED
    BY <2>2, <2>4
<1>3. disk'.requests \in {memory.requests, disk.requests}
  OBVIOUS
<1>4. /\ Counting(memory.requests)' /\ Covers(memory.requests)'
      /\ Counting(disk.requests)' /\ Covers(disk.requests)'
  BY <1>2, <1>3 DEF Counting, Covers
<1>5. /\ InOrder(asked)' /\ \A k \in DOMAIN asked' : asked'[k] <= now'
  BY <1>1 DEF CountInv, InOrder
<1>6. BudgetKept'
  BY DEF BudgetKept
<1> QED
  BY <1>1, <1>4, <1>5, <1>6 DEF CountInv, PendingInv

(* The file is written whenever it is tried.                               *)
LEMMA Saved == ASSUME ~SavesFail, NEW state, Save(state) PROVE disk' = state
  BY DEF Save

LEMMA CountStep ==
  ASSUME ~SavesFail, TypeOK, TimeInv, TimeInv', CountInv, BudgetKept, [Next]_vars
  PROVE  CountInv' /\ BudgetKept'
<1>1. memory \in TokenState /\ disk \in TokenState /\ asked \in Seq(Nat)
      /\ now \in Nat /\ at \in Nat
  BY DEF TypeOK
<1>2. CASE Tick
  <2>1. /\ now' = now + 1 /\ UNCHANGED <<memory, disk, call, at, asked>>
    BY <1>2 DEF Tick
  <2>2. CASE call \in {"record", "get"}
    <3>1. /\ memory.requests \in Seq(Nat \ {0}) /\ disk.requests \in Seq(Nat \ {0})
          /\ Covers(memory.requests) /\ Covers(disk.requests)
      BY DEF CountInv, Counting
    <3>2. Covers(memory.requests)' /\ Covers(disk.requests)'
      <4>1. now' \in Nat /\ now' >= now
        BY <1>1, <2>1
      <4>2. ASSUME NEW r \in Seq(Nat \ {0}), Covers(r) PROVE Covers(r)'
        BY <1>1, <2>1, <4>1, <4>2, CoversLater
      <4> QED
        BY <2>1, <3>1, <4>2 DEF Covers
    <3>3. call = "get" => Covers(Without(memory.requests))'
      <4> SUFFICES ASSUME call = "get" PROVE Covers(Without(memory.requests))'
        OBVIOUS
      <4> DEFINE fewer == Without(memory.requests)
      <4>1. now' \in Nat /\ now' >= now
        BY <1>1, <2>1
      <4>2. Len(memory.requests) \in Nat \ {0} /\ Covers(fewer)
        BY <3>1 DEF CountInv, PendingInv
      <4>3. fewer \in Seq(Nat \ {0})
        BY <3>1, <4>2 DEF Without
      <4>4. fewer' = fewer
        BY <2>1 DEF Without
      <4> HIDE DEF fewer
      <4>5. ASSUME NEW r \in Seq(Nat \ {0}), Covers(r) PROVE Covers(r)'
        BY <1>1, <2>1, <4>1, <4>5, CoversLater
      <4>6. Covers(fewer)'
        BY <4>2, <4>3, <4>4, <4>5 DEF Covers
      <4> QED
        BY <4>6 DEF fewer
    <3>4. InOrder(asked)' /\ \A k \in DOMAIN asked' : asked'[k] <= now'
      BY <1>1, <2>1 DEF CountInv, InOrder
    <3>5. PendingInv'
      BY <2>1, <3>3 DEF CountInv, PendingInv
    <3> QED
      BY <1>1, <2>1, <3>2, <3>4, <3>5 DEF CountInv, Counting, BudgetKept
  <2>3. CASE call \notin {"record", "get"}
    <3>1. now' >= now /\ at' >= at /\ (call' # "none" => at' > 0)
      BY <1>1, <2>1 DEF CountInv
    <3> QED
      BY <2>1, <2>3, <3>1, QuietStep
  <2> QED
    BY <2>2, <2>3
<1>3. CASE Begin
  <2>1. /\ at' = now /\ now' = now /\ at <= now /\ now > 0
        /\ call' \in {"schedule", "token"} /\ UNCHANGED <<memory, disk, asked>>
    BY <1>3 DEF Begin, CountInv, TimeInv
  <2>2. now' >= now /\ at' >= at /\ at' > 0
    BY <1>1, <2>1
  <2> QED
    BY <2>1, <2>2, QuietStep
<1>4. CASE CheckBudget
  <2> DEFINE counted == Counted(memory.requests, at)
  <2>1. /\ memory'.requests = counted /\ UNCHANGED <<now, disk, at, asked>>
        /\ call' = IF Len(counted) < Budget THEN "record" ELSE "none"
        /\ call = "token"
    BY <1>1, <1>4 DEF CheckBudget, TokenState
  <2>2. Counting(memory.requests) /\ Covers(memory.requests)
    BY DEF CountInv
  <2>3. Counting(counted) /\ Covers(counted)
    BY <1>1, <2>2, CoversCounted
  <2> HIDE DEF counted
  <2>4. Counting(memory.requests)' /\ Covers(memory.requests)'
    BY <2>1, <2>3 DEF Counting, Covers
  <2>5. Counting(disk.requests)' /\ Covers(disk.requests)'
    BY <2>1 DEF CountInv, Counting, Covers
  <2>6. PendingInv'
    BY <2>1 DEF PendingInv
  <2> QED
    BY <2>1, <2>4, <2>5, <2>6 DEF CountInv, BudgetKept
<1>5. CASE Record
  <2> DEFINE more == Append(memory.requests, at)
  <2>1. /\ memory'.requests = more /\ disk'.requests = more
        /\ UNCHANGED <<now, at, asked>> /\ call' = "get" /\ call = "record"
    BY <1>1, <1>5, Saved DEF Record, TokenState
  <2>2. /\ Counting(memory.requests) /\ Covers(memory.requests) /\ at > 0
        /\ Len(memory.requests) < Budget /\ InOrder(asked)
        /\ \A k \in DOMAIN asked : asked[k] <= now
    BY <2>1 DEF CountInv, PendingInv
  <2>3. /\ Counting(more) /\ Covers(more) /\ Without(more) = memory.requests
        /\ more # << >> /\ more[Len(more)] = at
    BY <1>1, <2>1, <2>2, CoversRecorded
  <2> HIDE DEF more
  <2>4. Counting(memory.requests)' /\ Covers(memory.requests)'
        /\ Counting(disk.requests)' /\ Covers(disk.requests)'
    BY <2>1, <2>3 DEF Counting, Covers
  <2>5. Covers(Without(memory.requests))'
    <3>1. Without(memory.requests)' = memory.requests
      BY <2>1, <2>3 DEF Without
    <3> QED
      BY <2>1, <2>2, <3>1 DEF Covers
  <2>6. PendingInv'
    BY <2>1, <2>3, <2>5 DEF PendingInv
  <2> QED
    BY <2>1, <2>4, <2>6 DEF CountInv, BudgetKept
<1>6. CASE GetToken \/ GetTokenFails
  <2>1. /\ memory'.requests = memory.requests /\ disk'.requests = disk.requests
        /\ now' = now /\ at' = at /\ asked' = Append(asked, now)
        /\ call = "get" /\ call' \in {"schedule", "none"}
    <3>1. CASE GetToken
      <4>1. memory'.requests = memory.requests /\ disk' = memory'
        BY <1>1, <3>1, Saved DEF GetToken, TokenState
      <4> QED
        BY <3>1, <4>1 DEF GetToken, CountInv, PendingInv
    <3>2. CASE GetTokenFails
      BY <3>2 DEF GetTokenFails
    <3> QED
      BY <1>6, <3>1, <3>2
  <2>2. /\ Counting(memory.requests) /\ memory.requests # << >>
        /\ memory.requests[Len(memory.requests)] = at
        /\ disk.requests = memory.requests
        /\ Covers(Without(memory.requests)) /\ InOrder(asked)
        /\ \A k \in DOMAIN asked : asked[k] <= now
    BY <2>1 DEF CountInv, PendingInv
  <2>3. ASSUME NEW r, r = memory.requests PROVE Covers(r)'
    BY <1>1, <2>1, <2>2, <2>3, CoversAsked
  <2>4. /\ InOrder(asked') /\ \A k \in DOMAIN asked' : asked'[k] <= now'
        /\ BudgetKept'
    BY <1>1, <2>1, <2>2, CoversAsked
  <2>5. Covers(memory.requests)' /\ Covers(disk.requests)'
    BY <2>1, <2>2, <2>3 DEF Covers
  <2>6. Counting(memory.requests)' /\ Counting(disk.requests)'
    BY <2>1, <2>2 DEF Counting
  <2>7. PendingInv'
    BY <2>1 DEF PendingInv
  <2> QED
    BY <2>1, <2>4, <2>5, <2>6, <2>7 DEF CountInv
<1>7. CASE Schedule
  <2>1. call' = "none" /\ UNCHANGED <<now, memory, disk, at, asked>>
    BY <1>7 DEF Schedule
  <2>2. now' >= now /\ at' >= at
    BY <1>1, <2>1
  <2> QED
    BY <2>1, <2>2, QuietStep
<1>8. CASE Reject
  <2>1. /\ memory'.requests = memory.requests /\ disk'.requests = memory'.requests
        /\ call' = "token" /\ at > 0 /\ UNCHANGED <<now, at, asked>>
    BY <1>1, <1>8, Saved DEF Reject, TokenState, CountInv
  <2>2. now' >= now /\ at' >= at /\ at' > 0
    BY <1>1, <2>1
  <2> QED
    BY <2>1, <2>2, QuietStep
<1>9. CASE Restart
  <2>1. memory' = disk /\ call' = "none" /\ UNCHANGED <<now, disk, at, asked>>
    BY <1>9 DEF Restart
  <2>2. now' >= now /\ at' >= at
    BY <1>1, <2>1
  <2> QED
    BY <2>1, <2>2, QuietStep
<1>10. CASE UNCHANGED vars
  <2>1. UNCHANGED <<now, memory, disk, call, at, asked>>
    BY <1>10 DEF vars
  <2> QED
    BY <2>1 DEF CountInv, Counting, InOrder, Covers, PendingInv, Without, BudgetKept
<1> QED
  BY <1>2, <1>3, <1>4, <1>5, <1>6, <1>7, <1>8, <1>9, <1>10 DEF Next

(* The budget holds over every span of the window, for every budget,       *)
(* window and length of a call, whatever fails and restarts in between, as *)
(* long as the file can be written (TOKEN_BUDGET, TOKEN_BUDGET_WINDOW).    *)
THEOREM BudgetAlwaysKept == Spec => []BudgetKept
<1>1. Init => Inv
  BY TypeInit, TimeInit, CountInit DEF Inv
<1>2. Inv /\ [Next]_vars => Inv'
  BY TypeStep, TimeStep, CountStep DEF Inv
<1>3. Inv => BudgetKept
  BY DEF Inv, BudgetKept
<1> QED
  BY <1>1, <1>2, <1>3, PTL DEF Spec
=============================================================================
