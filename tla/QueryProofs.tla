------------------------------ MODULE QueryProofs -----------------------------
(***************************************************************************)
(* What Query guarantees for every number of workers, every quota, every   *)
(* calendar and every set of faults.                                       *)
(***************************************************************************)
EXTENDS Query, FiniteSetTheorems, TLAPS

USE WorkersAssumption, LimitAssumption, CalendarAssumption, QueryBoundsAssumption,
    QueryFaultsAssumption

(***************************************************************************)
(* Windows and sets                                                        *)
(***************************************************************************)

\* A day falls in a window no later than itself, and later days in no earlier window.
LEMMA MonthOf ==
  ASSUME NEW d \in Nat
  PROVE  /\ d \div DaysPerMonth \in Nat
         /\ d \div DaysPerMonth <= d
         /\ d \div DaysPerMonth <= (d + 1) \div DaysPerMonth
BY SMTT(30)

LEMMA StampBounds ==
  ASSUME NEW p \in Periods, NEW d \in Days
  PROVE  Stamp(p, d) \in Days /\ Stamp(p, d) <= Stamp(p, d + 1)
<1>1. d \in Nat /\ d <= LastDay
  BY DEF Days
<1>2. QED
  BY <1>1, MonthOf DEF Stamp, Days

\* A set of workers that gains or loses one.
LEMMA Grows ==
  ASSUME NEW S \in SUBSET Workers, NEW w \in Workers, NEW T, T \subseteq S \cup {w}
  PROVE  /\ Cardinality(S) \in Nat /\ Cardinality(T) \in Nat
         /\ Cardinality(T) <= Cardinality(S) + 1
         /\ T \subseteq S => Cardinality(T) <= Cardinality(S)
         /\ Cardinality(S) <= Cardinality(Workers)
<1>1. IsFiniteSet(S) /\ Cardinality(S) <= Cardinality(Workers)
  BY FS_Subset
<1> DEFINE U == S \cup {w}
<1>2. IsFiniteSet(U) /\ Cardinality(U) <= Cardinality(S) + 1
  <2>1. Cardinality(S) \in Nat
    BY <1>1, FS_CardinalityType
  <2>2. IsFiniteSet(U) /\ Cardinality(U) = IF w \in S THEN Cardinality(S) ELSE Cardinality(S) + 1
    BY <1>1, FS_AddElement
  <2>3. QED
    BY <2>1, <2>2
<1>3. IsFiniteSet(T) /\ Cardinality(T) <= Cardinality(U)
  BY <1>2, FS_Subset
<1>4. T \subseteq S => Cardinality(T) <= Cardinality(S)
  BY <1>1, FS_Subset
<1>5. Cardinality(S) \in Nat /\ Cardinality(T) \in Nat /\ Cardinality(U) \in Nat
  BY <1>1, <1>2, <1>3, FS_CardinalityType
<1>6. QED
  BY <1>1, <1>2, <1>3, <1>4, <1>5

LEMMA Shrinks ==
  ASSUME NEW S \in SUBSET Workers, NEW w \in S, NEW T, T \subseteq S \ {w}
  PROVE  Cardinality(S) \in Nat /\ Cardinality(T) \in Nat /\ Cardinality(T) + 1 <= Cardinality(S)
<1>1. IsFiniteSet(S)
  BY FS_Subset
<1>2. IsFiniteSet(S \ {w}) /\ Cardinality(S \ {w}) = Cardinality(S) - 1
  BY <1>1, FS_RemoveElement
<1>3. IsFiniteSet(T) /\ Cardinality(T) <= Cardinality(S \ {w})
  BY <1>2, FS_Subset
<1>4. Cardinality(S) \in Nat /\ Cardinality(T) \in Nat /\ Cardinality(S \ {w}) \in Nat
  BY <1>1, <1>2, <1>3, FS_CardinalityType
<1>5. QED
  BY <1>2, <1>3, <1>4

(***************************************************************************)
(* The types                                                               *)
(***************************************************************************)

\* A worker that leaves its request is as it was before it.
WorkerTypeOK ==
  /\ pc \in [Workers -> Pcs]
  /\ at \in [Workers -> Periods]
  /\ window \in [Workers -> Days]
  /\ denied \in [Workers -> SUBSET (Periods \cup {"rate"})]
  /\ context \in [Workers -> BOOLEAN] /\ produced \in [Workers -> BOOLEAN]
  /\ outcome \in [Workers -> Outcomes]

LEMMA LeaveType ==
  ASSUME WorkerTypeOK, NEW w \in Workers, Leave(w)
  PROVE  WorkerTypeOK'
<1>1. 0 \in Days
  BY DEF Days
<1>2. QED
  BY <1>1 DEF WorkerTypeOK, Leave, Pcs, Periods, Outcomes

LEMMA TypeRequest ==
  ASSUME TypeOK, NEW w \in Workers,
         \/ Arrive(w) \/ Gate(w) \/ Respond429(w) \/ Respond400(w)
         \/ Seed(w) \/ Bump(w) \/ Skip(w)
  PROVE  TypeOK'
<1> USE DEF TypeOK, Pcs, Periods, Outcomes, cacheVars, ledgerVars, NextPeriod
<1>1. CASE Arrive(w)
  BY <1>1 DEF Arrive
<1>2. CASE Gate(w)
  BY <1>2 DEF Gate, FailsOpen
<1>3. CASE Respond429(w) \/ Respond400(w)
  BY <1>3, LeaveType DEF Respond429, Respond400, WorkerTypeOK
<1>4. CASE Seed(w)
  <2>1. Stamp(at[w], today) \in Days
    BY StampBounds
  <2>2. count' \in [Periods -> [Days -> Nat \cup {Missing}]]
    BY <1>4, <2>1, SMTT(30) DEF Seed, Seeded
  <2>3. QED
    BY <1>4, <2>1, <2>2 DEF Seed
<1>5. CASE Bump(w)
  BY <1>5, SMTT(30) DEF Bump, Missing
<1>6. CASE Skip(w)
  BY <1>6 DEF Skip, FailsOpen
<1>7. QED
  BY <1>1, <1>2, <1>3, <1>4, <1>5, <1>6

LEMMA TypeAnswer ==
  ASSUME TypeOK, NEW w \in Workers,
         \/ Retrieve(w) \/ RetrieveFails(w) \/ NeverStarted(w) \/ Emit(w) \/ EndAnswer(w)
         \/ Disconnect(w) \/ Close(w) \/ Killed(w)
  PROVE  TypeOK'
<1> USE DEF TypeOK, Pcs, Periods, Outcomes, cacheVars, ledgerVars
<1>1. CASE Retrieve(w)
  BY <1>1 DEF Retrieve
<1>2. CASE RetrieveFails(w) \/ NeverStarted(w)
  BY <1>2, LeaveType DEF RetrieveFails, NeverStarted, WorkerTypeOK
<1>3. CASE Emit(w)
  BY <1>3 DEF Emit
<1>4. CASE EndAnswer(w)
  BY <1>4 DEF EndAnswer, Terminal
<1>5. CASE Disconnect(w)
  BY <1>5 DEF Disconnect
<1>6. CASE Close(w)
  BY <1>6, LeaveType DEF Close, WorkerTypeOK
<1>7. CASE Killed(w)
  BY <1>7, LeaveType DEF Killed, WorkerTypeOK
<1>8. QED
  BY <1>1, <1>2, <1>3, <1>4, <1>5, <1>6, <1>7

LEMMA TypeInit == Init => TypeOK
BY DEF Init, TypeOK, Days, Pcs, Periods, Outcomes

LEMMA TypeStep == TypeOK /\ [Next]_vars => TypeOK'
<1> SUFFICES ASSUME TypeOK, [Next]_vars PROVE TypeOK'
  OBVIOUS
<1>1. ASSUME NEW w \in Workers, Step(w) PROVE TypeOK'
  BY <1>1, TypeRequest, TypeAnswer DEF Step
<1>2. CASE NextDay
  BY <1>2 DEF TypeOK, NextDay, Days, cacheVars, workerVars, ledgerVars
<1>3. ASSUME NEW p \in Periods, NEW s \in Days, Expire(p, s) PROVE TypeOK'
  BY <1>3 DEF TypeOK, Expire, workerVars, ledgerVars
<1>4. CASE UNCHANGED vars
  BY <1>4 DEF TypeOK, vars, cacheVars, workerVars, ledgerVars
<1>5. QED
  BY <1>1, <1>2, <1>3, <1>4 DEF Next

(***************************************************************************)
(* Every variable keeps its type: a worker computes only stamps of windows *)
(* that exist, and a counter holds a number or is missing.                 *)
(***************************************************************************)
THEOREM QueryTypeCorrect == Spec => []TypeOK
BY TypeInit, TypeStep, PTL DEF Spec

-----------------------------------------------------------------------------
(***************************************************************************)
(* The counters.  A window that has not begun holds nothing, and a worker  *)
(* between the two commands of record counts into a window that has.       *)
(***************************************************************************)
FutureUntouched ==
  \A p \in Periods, s \in Days :
    s > Stamp(p, today) => count[p][s] = Missing /\ recorded[p][s] = 0
BumpsBegunWindow == \A w \in Workers : pc[w] = "bump" => window[w] <= Stamp(at[w], today)

CountsInv == TypeOK /\ CountsKept /\ FutureUntouched /\ BumpsBegunWindow

\* The current window of each period, which only a new day changes.
LEMMA CurrentWindow ==
  ASSUME TypeOK
  PROVE  /\ Days \subseteq Nat
         /\ \A p \in Periods : Stamp(p, today) \in Days
         /\ today' = today => \A p \in Periods : Stamp(p, today)' = Stamp(p, today)
<1>1. Days \subseteq Nat
  BY DEF Days
<1>2. \A p \in Periods : Stamp(p, today) \in Days
  BY StampBounds DEF TypeOK
<1>3. today' = today => \A p \in Periods : Stamp(p, today)' = Stamp(p, today)
  BY DEF Stamp
<1>4. QED
  BY <1>1, <1>2, <1>3

\* Seeding does not change what a counter is read as.
LEMMA SeedReadsTheSame ==
  ASSUME TypeOK, NEW p \in Periods, NEW s \in Days, count' = Seeded(p, s)
  PROVE  \A q \in Periods, t \in Days : Count(q, t)' = Count(q, t)
BY DEF TypeOK, Seeded, Count, Missing

LEMMA CountsInit == Init => CountsInv
<1> SUFFICES ASSUME Init PROVE CountsInv
  OBVIOUS
<1>1. TypeOK /\ \A p \in Periods : Stamp(p, today) \in Days
  BY TypeInit, CurrentWindow
<1>2. \A p \in Periods, s \in Days : count[p][s] = Missing /\ recorded[p][s] = 0
  BY DEF Init
<1>3. QED
  BY <1>1, <1>2 DEF Init, CountsInv, CountsKept, FutureUntouched, BumpsBegunWindow, Count

LEMMA CountsSeed ==
  ASSUME CountsInv, TypeOK', NEW w \in Workers, Seed(w)
  PROVE  CountsInv'
<1> DEFINE p == at[w]
           s == Stamp(p, today)
<1>1. p \in Periods /\ s \in Days /\ today' = today /\ recorded' = recorded
  BY StampBounds DEF CountsInv, TypeOK, Seed
<1>2. CASE Limit[p] = 0
  <2>1. count' = count /\ (\A u \in Workers : pc'[u] = "bump" => pc[u] = "bump" /\ at'[u] = at[u])
        /\ window' = window
    BY <1>2 DEF Seed, NextPeriod, CountsInv, TypeOK
  <2>2. QED
    BY <1>1, <2>1 DEF CountsInv, CountsKept, FutureUntouched, BumpsBegunWindow, Count, Stamp
<1>3. CASE Limit[p] # 0
  <2>1. /\ count' = Seeded(p, s) /\ window' = [window EXCEPT ![w] = s]
        /\ pc' = [pc EXCEPT ![w] = "bump"] /\ at' = at
    BY <1>3 DEF Seed
  <2>2. CountsKept'
    BY <1>1, <2>1, SeedReadsTheSame, StampBounds DEF CountsInv, CountsKept, TypeOK, Stamp
  <2>3. FutureUntouched'
    BY <1>1, <2>1, CurrentWindow DEF CountsInv, FutureUntouched, TypeOK, Seeded
  <2>4. BumpsBegunWindow'
    BY <1>1, <2>1, CurrentWindow DEF CountsInv, BumpsBegunWindow, TypeOK
  <2>5. QED
    BY <2>2, <2>3, <2>4 DEF CountsInv
<1>4. QED
  BY <1>2, <1>3

LEMMA CountsBump ==
  ASSUME CountsInv, TypeOK', NEW w \in Workers, Bump(w)
  PROVE  CountsInv'
<1> DEFINE p == at[w]
           s == window[w]
<1>1. /\ p \in Periods /\ s \in Days /\ today' = today /\ window' = window
      /\ s <= Stamp(p, today)
      /\ count' = [count EXCEPT ![p][s] = IF @ = Missing THEN 1 ELSE @ + 1]
      /\ recorded' = [recorded EXCEPT ![p][s] = @ + 1]
  BY DEF CountsInv, TypeOK, Bump, BumpsBegunWindow
<1>2. /\ \A q \in Periods, t \in Days : (q # p \/ t # s) =>
           count'[q][t] = count[q][t] /\ recorded'[q][t] = recorded[q][t]
      /\ count'[p][s] = IF count[p][s] = Missing THEN 1 ELSE count[p][s] + 1
      /\ recorded'[p][s] = recorded[p][s] + 1
  BY <1>1 DEF CountsInv, TypeOK
<1>3. CountsKept'
  <2> SUFFICES ASSUME NEW q \in Periods
               PROVE  Count(q, Stamp(q, today))' = recorded'[q][Stamp(q, today)]
    BY <1>1 DEF CountsKept, Stamp
  <2>1. Stamp(q, today) \in Days /\ count[p][s] \in Nat \cup {Missing}
    BY <1>1, StampBounds DEF CountsInv, TypeOK
  <2>2. Count(q, Stamp(q, today)) = recorded[q][Stamp(q, today)]
    BY DEF CountsInv, CountsKept
  <2>3. Stamp(q, today)' = Stamp(q, today)
    BY <1>1 DEF Stamp
  <2>4. CASE q = p /\ Stamp(q, today) = s
    BY <1>2, <2>1, <2>2, <2>3, <2>4 DEF Count, Missing
  <2>5. CASE q # p \/ Stamp(q, today) # s
    BY <1>2, <2>1, <2>2, <2>3, <2>5 DEF Count
  <2>6. QED
    BY <2>4, <2>5
<1>4. FutureUntouched'
  <2> SUFFICES ASSUME NEW q \in Periods, NEW t \in Days, t > Stamp(q, today)
               PROVE  count'[q][t] = Missing /\ recorded'[q][t] = 0
    BY <1>1 DEF FutureUntouched, Stamp
  <2>1. q # p \/ t # s
    BY <1>1, CurrentWindow DEF CountsInv
  <2>2. QED
    BY <1>2, <2>1 DEF CountsInv, FutureUntouched
<1>5. BumpsBegunWindow'
  BY <1>1 DEF CountsInv, BumpsBegunWindow, Bump, NextPeriod, TypeOK, Stamp
<1>6. QED
  BY <1>3, <1>4, <1>5 DEF CountsInv

\* Every other step of a worker leaves the counters and the workers between the two
\* commands alone.
LEMMA CountsOther ==
  ASSUME CountsInv, TypeOK', UNCHANGED <<today, count, recorded>>,
         \A u \in Workers : pc'[u] = "bump" =>
           pc[u] = "bump" /\ at'[u] = at[u] /\ window'[u] = window[u]
  PROVE  CountsInv'
BY DEF CountsInv, CountsKept, FutureUntouched, BumpsBegunWindow, Count, Stamp

LEMMA CountsNextDay ==
  ASSUME CountsInv, TypeOK', NextDay
  PROVE  CountsInv'
<1>1. /\ today' = today + 1 /\ today \in Days /\ today + 1 \in Days
      /\ UNCHANGED <<count, recorded, pc, at, window>>
  BY DEF CountsInv, TypeOK, NextDay, cacheVars, workerVars, Days
<1>2. ASSUME NEW p \in Periods
      PROVE  /\ Stamp(p, today) \in Days /\ Stamp(p, today + 1) \in Days
             /\ Stamp(p, today) <= Stamp(p, today + 1) /\ Stamp(p, today)' = Stamp(p, today + 1)
  BY <1>1, StampBounds DEF Stamp
<1>3. CountsKept'
  <2> SUFFICES ASSUME NEW p \in Periods
               PROVE  Count(p, Stamp(p, today + 1)) = recorded[p][Stamp(p, today + 1)]
    BY <1>1, <1>2 DEF CountsKept, Count, Stamp
  <2>1. CASE Stamp(p, today + 1) = Stamp(p, today)
    BY <2>1 DEF CountsInv, CountsKept
  <2>2. CASE Stamp(p, today + 1) > Stamp(p, today)
    BY <1>2, <2>2 DEF CountsInv, FutureUntouched, Count
  <2>3. QED
    BY <1>2, <2>1, <2>2 DEF Days
<1>4. FutureUntouched'
  BY <1>1, <1>2 DEF CountsInv, FutureUntouched, Days
<1>5. BumpsBegunWindow'
  BY <1>1, <1>2 DEF CountsInv, BumpsBegunWindow, TypeOK, Days
<1>6. QED
  BY <1>3, <1>4, <1>5 DEF CountsInv

LEMMA CountsExpire ==
  ASSUME CountsInv, TypeOK', NEW p \in Periods, NEW s \in Days, Expire(p, s)
  PROVE  CountsInv'
<1>1. /\ UNCHANGED <<today, recorded, pc, at, window>> /\ s < Stamp(p, today)
      /\ count' = [count EXCEPT ![p][s] = Missing]
  BY DEF Expire, workerVars
<1>2. \A q \in Periods, t \in Days : (q # p \/ t # s) => count'[q][t] = count[q][t]
  BY <1>1 DEF CountsInv, TypeOK
<1>3. CountsKept'
  BY <1>1, <1>2, CurrentWindow DEF CountsInv, CountsKept, Count
<1>4. FutureUntouched' /\ BumpsBegunWindow'
  BY <1>1 DEF CountsInv, TypeOK, FutureUntouched, BumpsBegunWindow, Stamp
<1>5. QED
  BY <1>3, <1>4 DEF CountsInv

LEMMA CountsStep == CountsInv /\ [Next]_vars => CountsInv'
<1> SUFFICES ASSUME CountsInv, [Next]_vars, TypeOK' PROVE CountsInv'
  BY TypeStep DEF CountsInv
<1>1. ASSUME NEW w \in Workers, Step(w) PROVE CountsInv'
  <2>1. CASE Seed(w) \/ Bump(w)
    BY <2>1, CountsSeed, CountsBump
  <2>2. CASE Arrive(w) \/ Gate(w) \/ Skip(w) \/ Retrieve(w) \/ Emit(w) \/ EndAnswer(w) \/ Disconnect(w)
    <3>1. /\ UNCHANGED <<today, count, recorded, window>>
          /\ \A u \in Workers : pc'[u] = "bump" => pc[u] = "bump" /\ at'[u] = at[u]
      BY <2>2 DEF Arrive, Gate, Skip, Retrieve, Emit, EndAnswer, Disconnect, NextPeriod, cacheVars,
         CountsInv, TypeOK
    <3>2. QED
      BY <3>1, CountsOther
  <2>3. CASE Respond429(w) \/ Respond400(w) \/ RetrieveFails(w) \/ NeverStarted(w) \/ Close(w) \/ Killed(w)
    <3>1. UNCHANGED <<today, count, recorded>> /\ Leave(w)
      BY <2>3 DEF Respond429, Respond400, RetrieveFails, NeverStarted, Close, Killed, cacheVars
    <3>2. \A u \in Workers : pc'[u] = "bump" =>
            pc[u] = "bump" /\ at'[u] = at[u] /\ window'[u] = window[u]
      BY <3>1 DEF Leave, CountsInv, TypeOK
    <3>3. QED
      BY <3>1, <3>2, CountsOther
  <2>4. QED
    BY <1>1, <2>1, <2>2, <2>3 DEF Step
<1>2. CASE NextDay
  BY <1>2, CountsNextDay
<1>3. ASSUME NEW p \in Periods, NEW s \in Days, Expire(p, s) PROVE CountsInv'
  BY <1>3, CountsExpire
<1>4. CASE UNCHANGED vars
  BY <1>4, CountsOther DEF vars, cacheVars, workerVars
<1>5. QED
  BY <1>1, <1>2, <1>3, <1>4 DEF Next

LEMMA CountsInvariant == Spec => []CountsInv
BY CountsInit, CountsStep, PTL DEF Spec

(***************************************************************************)
(* While its window lasts, a counter holds exactly the units recorded in   *)
(* it, however seeding, counting, expiry and new days interleave.          *)
(***************************************************************************)
THEOREM CountersKeepWhatWasRecorded == Spec => []CountsKept
<1>1. CountsInv => CountsKept
  BY DEF CountsInv
<1>2. QED
  BY <1>1, CountsInvariant, PTL

(***************************************************************************)
(* A quota denies a request only in a window in which accepted questions   *)
(* took that many units.                                                   *)
(***************************************************************************)
THEOREM OnlyAUsedQuotaDenies == Spec => DeniedOnlyWhenUsed
<1> DEFINE Used == \A w \in Workers, p \in Periods : p \in denied'[w] \ denied[w] =>
                     recorded[p][Stamp(p, today)] >= Limit[p]
<1>1. CountsInv /\ [Next]_vars => [Used]_vars
  <2> SUFFICES ASSUME CountsInv, Next, NEW w \in Workers, NEW p \in Periods, p \in denied'[w] \ denied[w]
               PROVE  recorded[p][Stamp(p, today)] >= Limit[p]
    BY DEF Used
  <2>1. PICK u \in Workers : Step(u)
    BY DEF Next, NextDay, Expire, workerVars
  <2>2. Arrive(u) \/ Gate(u)
    BY <2>1 DEF Step, CountsInv, TypeOK, Respond429, Respond400, Seed, Bump, Skip, Retrieve,
       RetrieveFails, NeverStarted, Emit, EndAnswer, Disconnect, Close, Killed, Leave
  <2>3. ~Arrive(u)
    BY DEF Arrive, Periods, CountsInv, TypeOK
  <2>4. Exhausted(p, Stamp(p, today))
    <3>1. denied \in [Workers -> SUBSET (Periods \cup {"rate"})]
      BY DEF CountsInv, TypeOK
    <3>2. \/ denied' = denied
          \/ /\ Exhausted(at[u], Stamp(at[u], today))
             /\ denied' = [denied EXCEPT ![u] = denied[u] \cup {at[u]}]
      BY <2>2, <2>3, <3>1 DEF Gate
    <3>3. p = at[u]
      BY <3>1, <3>2
    <3> QED
      BY <3>2, <3>3
  <2>5. QED
    BY <2>4 DEF Exhausted, CountsInv, CountsKept
<1>2. QED
  BY <1>1, CountsInvariant, PTL DEF Spec, DeniedOnlyWhenUsed

(***************************************************************************)
(* The requests under way.  A request may record a period once it passed   *)
(* its gate and no throttle denied it; it counts into the window it        *)
(* computed or, before that, into the current one.  While a window has     *)
(* room, all workers may pass its gate; after that only a command that     *)
(* failed open lets one through.                                           *)
(***************************************************************************)
MayRecord(p, w) ==
  /\ denied[w] = {}
  /\ \/ pc[w] = "gate" /\ at[w] = "month" /\ p = "day"
     \/ pc[w] = "view"
     \/ pc[w] \in {"record", "bump"} /\ (at[w] = p \/ p = "month")

RecordsInto(p, w) ==
  IF pc[w] = "bump" /\ at[w] = p THEN window[w] ELSE Stamp(p, today)

UnderWay(p, s) == {w \in Workers : MayRecord(p, w) /\ RecordsInto(p, w) = s}

GatesInOrder ==
  \A w \in Workers :
    /\ pc[w] \in {"idle", "view", "retrieve", "stream", "close"} => at[w] = "day"
    /\ pc[w] \in {"record", "bump"} => denied[w] = {}
RoomForUnderWay ==
  \A p \in Periods, s \in Days : Limit[p] > 0 =>
    recorded[p][s] + Cardinality(UnderWay(p, s)) <= Limit[p] + Cardinality(Workers) - 1 + outages

OvershootInv == CountsInv /\ GatesInOrder /\ RoomForUnderWay

(***************************************************************************)
(* The ledger: text leaves only an open stream.                            *)
(***************************************************************************)
TextInStream ==
  \A w \in Workers : pc[w] \notin {"stream", "close"} => ~context[w] /\ ~produced[w]

LedgerInv == TypeOK /\ TextInStream /\ LedgerBalances

\* The answers in the open streams whose text is the model's.
Uncharged == {w \in Workers : context[w] /\ produced[w]}

LEMMA LedgerRequest ==
  ASSUME LedgerInv, TypeOK', NEW w \in Workers,
         \/ Arrive(w) \/ Gate(w) \/ Respond429(w) \/ Respond400(w) \/ Seed(w) \/ Bump(w)
         \/ Skip(w) \/ Retrieve(w) \/ RetrieveFails(w) \/ NeverStarted(w) \/ EndAnswer(w) \/ Disconnect(w)
  PROVE  LedgerInv'
<1> USE DEF LedgerInv, TypeOK
<1>1. UNCHANGED ledgerVars
  BY DEF Arrive, Gate, Respond429, Respond400, Seed, Bump, Skip, Retrieve, RetrieveFails,
     NeverStarted, EndAnswer, Disconnect
<1>2. TextInStream' /\ Uncharged' = Uncharged
  <2>1. CASE Arrive(w) \/ Gate(w) \/ Seed(w) \/ Bump(w) \/ Skip(w) \/ EndAnswer(w) \/ Disconnect(w)
    <3>1. UNCHANGED <<context, produced>>
      BY <2>1 DEF Arrive, Gate, Seed, Bump, Skip, EndAnswer, Disconnect
    <3>2. \A u \in Workers : pc[u] \in {"stream", "close"} => pc'[u] \in {"stream", "close"}
      BY <2>1 DEF Arrive, Gate, Seed, Bump, Skip, EndAnswer, Disconnect, Recording, NextPeriod
    <3>3. QED
      BY <3>1, <3>2 DEF TextInStream, Uncharged
  <2>2. CASE Retrieve(w)
    BY <2>2 DEF Retrieve, TextInStream, Uncharged
  <2>3. CASE Respond429(w) \/ Respond400(w) \/ RetrieveFails(w) \/ NeverStarted(w)
    <3>1. Leave(w) /\ ~produced[w]
      BY <2>3 DEF Respond429, Respond400, RetrieveFails, NeverStarted, TextInStream
    <3>2. /\ context' = [context EXCEPT ![w] = FALSE] /\ produced' = [produced EXCEPT ![w] = FALSE]
          /\ pc' = [pc EXCEPT ![w] = "idle"]
      BY <3>1 DEF Leave
    <3>3. TextInStream'
      BY <3>2 DEF TextInStream
    <3>4. Uncharged' = Uncharged
      BY <3>1, <3>2 DEF Uncharged
    <3>5. QED
      BY <3>3, <3>4
  <2>4. QED
    BY <2>1, <2>2, <2>3
<1>3. QED
  BY <1>1, <1>2 DEF ledgerVars, LedgerBalances, Uncharged

LEMMA LedgerEmit ==
  ASSUME LedgerInv, TypeOK', NEW w \in Workers, Emit(w)
  PROVE  LedgerInv'
<1> USE DEF LedgerInv, TypeOK
<1>1. IsFiniteSet(Uncharged)
  BY FS_Subset DEF Uncharged
<1>2. w \notin Uncharged /\ Uncharged' = IF context[w] THEN Uncharged \cup {w} ELSE Uncharged
  BY DEF Emit, Uncharged
<1>3. Cardinality(Uncharged') = IF context[w] THEN Cardinality(Uncharged) + 1 ELSE Cardinality(Uncharged)
  BY <1>1, <1>2, FS_AddElement
<1>4. Cardinality(Uncharged) \in Nat
  BY <1>1, FS_CardinalityType
<1>5. LedgerBalances'
  BY <1>3, <1>4 DEF Emit, LedgerBalances, Uncharged
<1>6. TextInStream'
  BY DEF Emit, TextInStream
<1>7. QED
  BY <1>5, <1>6

\* A worker that leaves takes its own answer, if it has one, off the open ones.
LEMMA LedgerLeave ==
  ASSUME LedgerInv, TypeOK', NEW w \in Workers, Leave(w), spoken' = spoken,
         rows' + lost' = IF Spent(w) THEN rows + lost + 1 ELSE rows + lost
  PROVE  LedgerInv'
<1>1. IsFiniteSet(Uncharged)
  BY FS_Subset DEF Uncharged
<1>2. (w \in Uncharged <=> Spent(w)) /\ Uncharged' = Uncharged \ {w}
  BY DEF Leave, Uncharged, Spent, LedgerInv, TypeOK
<1>3. Cardinality(Uncharged') = IF Spent(w) THEN Cardinality(Uncharged) - 1 ELSE Cardinality(Uncharged)
  BY <1>1, <1>2, FS_RemoveElement
<1>4. Cardinality(Uncharged) \in Nat /\ spoken = rows + lost + Cardinality(Uncharged)
  BY <1>1, FS_CardinalityType DEF LedgerBalances, Uncharged, LedgerInv
<1>5. rows \in Nat /\ lost \in Nat /\ rows' \in Nat /\ lost' \in Nat
  BY DEF LedgerInv, TypeOK
<1>6. spoken' = rows' + lost' + Cardinality(Uncharged')
  <2>1. CASE Spent(w)
    <3>1. /\ rows' + lost' = rows + lost + 1
          /\ Cardinality(Uncharged') = Cardinality(Uncharged) - 1
      BY <1>3, <2>1
    <3>2. Cardinality(Uncharged') + 1 = Cardinality(Uncharged) /\ Cardinality(Uncharged') \in Int
      BY <1>4, <3>1
    <3>3. spoken' = rows + lost + (Cardinality(Uncharged') + 1)
      BY <1>4, <3>2
    <3>4. spoken' = (rows + lost + 1) + Cardinality(Uncharged')
      BY <1>5, <3>2, <3>3
    <3>5. QED
      BY <3>1, <3>4
  <2>2. CASE ~Spent(w)
    BY <1>3, <1>4, <1>5, <2>2
  <2>3. QED
    BY <2>1, <2>2
<1>7. LedgerBalances' /\ TextInStream'
  BY <1>6 DEF LedgerBalances, Uncharged, Leave, TextInStream, LedgerInv, TypeOK
<1>8. QED
  BY <1>7 DEF LedgerInv

LEMMA LedgerStep == LedgerInv /\ [Next]_vars => LedgerInv'
<1> SUFFICES ASSUME LedgerInv, [Next]_vars, TypeOK' PROVE LedgerInv'
  BY TypeStep DEF LedgerInv
<1>1. ASSUME NEW w \in Workers, Step(w) PROVE LedgerInv'
  <2>1. CASE Close(w)
    <3>1. rows' + lost' = IF Spent(w) THEN rows + lost + 1 ELSE rows + lost
      <4>1. CASE Spent(w)
        <5>1. (rows' = rows + 1 /\ lost' = lost) \/ (lost' = lost + 1 /\ rows' = rows)
          BY <2>1, <4>1 DEF Close
        <5>2. rows \in Nat /\ lost \in Nat
          BY DEF LedgerInv, TypeOK
        <5>3. QED
          BY <4>1, <5>1, <5>2
      <4>2. CASE ~Spent(w)
        BY <2>1, <4>2 DEF Close, LedgerInv, TypeOK
      <4>3. QED
        BY <4>1, <4>2
    <3>2. QED
      BY <2>1, <3>1, LedgerLeave DEF Close
  <2>2. CASE Killed(w)
    <3>1. Spent(w) => pc[w] \in {"stream", "close"}
      BY DEF Spent, LedgerInv, TextInStream
    <3>2. rows' + lost' = IF Spent(w) THEN rows + lost + 1 ELSE rows + lost
      BY <2>2, <3>1 DEF Killed, LedgerInv, TypeOK
    <3>3. QED
      BY <2>2, <3>2, LedgerLeave DEF Killed
  <2>3. QED
    BY <1>1, <2>1, <2>2, LedgerRequest, LedgerEmit DEF Step
<1>2. CASE NextDay \/ (\E p \in Periods, s \in Days : Expire(p, s)) \/ UNCHANGED vars
  <2>1. UNCHANGED <<pc, context, produced, spoken, rows, lost>>
    BY <1>2 DEF NextDay, Expire, vars, workerVars, ledgerVars
  <2>2. QED
    BY <2>1 DEF LedgerInv, TextInStream, LedgerBalances
<1>3. QED
  BY <1>1, <1>2 DEF Next

(***************************************************************************)
(* Every answer whose text came from the model is charged exactly once,    *)
(* lost with its worker or with the usage table, or still on its stream:   *)
(* for every way a stream may end.                                         *)
(***************************************************************************)
THEOREM AnswersAreChargedOnce == Spec => []LedgerBalances
<1>1. Init => LedgerInv
  <2> SUFFICES ASSUME Init PROVE LedgerInv
    OBVIOUS
  <2>1. TypeOK /\ TextInStream /\ Uncharged = {}
    BY TypeInit DEF Init, TextInStream, Uncharged
  <2>2. Cardinality(Uncharged) = 0
    BY <2>1, FS_EmptySet
  <2>3. QED
    BY <2>1, <2>2 DEF Init, LedgerInv, LedgerBalances, Uncharged
<1>2. LedgerInv => LedgerBalances
  BY DEF LedgerInv
<1>3. QED
  BY <1>1, <1>2, LedgerStep, PTL DEF Spec

LEMMA GatesStep ==
  ASSUME TypeOK, GatesInOrder, [Next]_vars
  PROVE  GatesInOrder'
<1> USE DEF TypeOK, GatesInOrder, NextPeriod, Recording
<1>1. ASSUME NEW w \in Workers, Step(w) PROVE GatesInOrder'
  <2>1. CASE Arrive(w) \/ Gate(w) \/ Seed(w) \/ Bump(w) \/ Skip(w)
    BY <2>1 DEF Arrive, Gate, Seed, Bump, Skip, Periods
  <2>2. CASE Retrieve(w) \/ Emit(w) \/ EndAnswer(w) \/ Disconnect(w)
    BY <2>2 DEF Retrieve, Emit, EndAnswer, Disconnect
  <2>3. CASE Respond429(w) \/ Respond400(w) \/ RetrieveFails(w) \/ NeverStarted(w) \/ Close(w) \/ Killed(w)
    BY <2>3 DEF Respond429, Respond400, RetrieveFails, NeverStarted, Close, Killed, Leave
  <2>4. QED
    BY <1>1, <2>1, <2>2, <2>3 DEF Step
<1>2. CASE NextDay \/ (\E p \in Periods, s \in Days : Expire(p, s)) \/ UNCHANGED vars
  BY <1>2 DEF NextDay, Expire, vars, workerVars
<1>3. QED
  BY <1>1, <1>2 DEF Next

\* A step of one worker moves only that worker into or out of the requests under way.
LEMMA OthersUnderWay ==
  ASSUME NEW w \in Workers, UNCHANGED today,
         \A u \in Workers \ {w} :
           /\ pc'[u] = pc[u] /\ at'[u] = at[u]
           /\ window'[u] = window[u] /\ denied'[u] = denied[u],
         NEW p \in Periods, NEW s \in Days
  PROVE  /\ UnderWay(p, s)' \subseteq UnderWay(p, s) \cup {w}
         /\ w \notin UnderWay(p, s)' => UnderWay(p, s)' \subseteq UnderWay(p, s) \ {w}
BY DEF UnderWay, MayRecord, RecordsInto, Stamp

\* A step that brings no request under way and records nothing keeps the room.
LEMMA NoneNewUnderWay ==
  ASSUME OvershootInv, TypeOK', recorded' = recorded, outages' >= outages,
         NEW p \in Periods, NEW s \in Days, Limit[p] > 0, UnderWay(p, s)' \subseteq UnderWay(p, s)
  PROVE  recorded'[p][s] + Cardinality(UnderWay(p, s)')
           <= Limit[p] + Cardinality(Workers) - 1 + outages'
<1> DEFINE S == UnderWay(p, s)
           T == UnderWay(p, s)'
<1>1. IsFiniteSet(S) /\ IsFiniteSet(T) /\ Cardinality(T) <= Cardinality(S)
  BY FS_Subset DEF UnderWay
<1>2. Cardinality(S) \in Nat /\ Cardinality(T) \in Nat /\ Cardinality(Workers) \in Nat
  BY <1>1, FS_CardinalityType
<1>3. recorded[p][s] + Cardinality(S) <= Limit[p] + Cardinality(Workers) - 1 + outages
  BY DEF OvershootInv, RoomForUnderWay
<1>4. /\ recorded[p][s] \in Nat /\ Limit[p] \in Nat /\ outages \in Nat /\ outages' \in Nat
      /\ recorded'[p][s] = recorded[p][s]
  BY DEF OvershootInv, CountsInv, TypeOK
<1> HIDE DEF S, T
<1>5. recorded[p][s] + Cardinality(T) <= Limit[p] + Cardinality(Workers) - 1 + outages'
  BY <1>1, <1>2, <1>3, <1>4
<1>6. QED
  BY <1>4, <1>5 DEF T

LEMMA RoomGate ==
  ASSUME OvershootInv, TypeOK', NEW w \in Workers, Gate(w)
  PROVE  RoomForUnderWay'
<1> SUFFICES ASSUME NEW p \in Periods, NEW s \in Days, Limit[p] > 0
             PROVE  recorded'[p][s] + Cardinality(UnderWay(p, s)')
                      <= Limit[p] + Cardinality(Workers) - 1 + outages'
  BY DEF RoomForUnderWay
<1>1. /\ UNCHANGED <<today, recorded, window>>
      /\ \A u \in Workers \ {w} : pc'[u] = pc[u] /\ at'[u] = at[u] /\ denied'[u] = denied[u]
      /\ outages' \in {outages, outages + 1} /\ outages \in Nat
  BY DEF Gate, FailsOpen, NextPeriod, OvershootInv, CountsInv, TypeOK
<1>2. CASE UnderWay(p, s)' \subseteq UnderWay(p, s)
  <2>1. outages' >= outages
    BY <1>1
  <2>2. QED
    BY <1>1, <1>2, <2>1, NoneNewUnderWay
<1>3. CASE w \in UnderWay(p, s)' /\ w \notin UnderWay(p, s)
  <2>1. p = at[w] /\ s = Stamp(p, today)
    <3>1. pc[w] = "gate" /\ denied'[w] = {} /\ denied[w] = {} /\ pc'[w] \in {"gate", "view"}
      BY <1>3 DEF Gate, UnderWay, MayRecord, NextPeriod, OvershootInv, CountsInv, TypeOK
    <3>2. s = Stamp(p, today)
      BY <1>1, <1>3, <3>1 DEF UnderWay, RecordsInto, Stamp
    <3>3. CASE at[w] = "day"
      <4>1. pc'[w] = "gate" /\ at'[w] = "month"
        BY <3>3 DEF Gate, NextPeriod, OvershootInv, CountsInv, TypeOK
      <4>2. QED
        BY <1>3, <3>2, <3>3, <4>1 DEF UnderWay, MayRecord
    <3>4. CASE at[w] = "month"
      <4>1. MayRecord("day", w) /\ RecordsInto(p, w) = Stamp(p, today)
        BY <3>1, <3>4 DEF MayRecord, RecordsInto
      <4>2. p # "day"
        BY <1>3, <3>2, <4>1 DEF UnderWay
      <4>3. QED
        BY <3>2, <3>4, <4>2 DEF Periods
    <3>5. QED
      BY <3>3, <3>4 DEF Periods, OvershootInv, CountsInv, TypeOK
  <2>2. /\ Cardinality(UnderWay(p, s)) \in Nat /\ Cardinality(UnderWay(p, s)') \in Nat
        /\ Cardinality(UnderWay(p, s)') <= Cardinality(UnderWay(p, s)) + 1
        /\ Cardinality(UnderWay(p, s)') <= Cardinality(Workers)
        /\ Cardinality(Workers) \in Nat
    <3>1. UnderWay(p, s)' \subseteq UnderWay(p, s) \cup {w}
      BY <1>1, OthersUnderWay
    <3>2. UnderWay(p, s) \in SUBSET Workers /\ UnderWay(p, s)' \in SUBSET Workers
      BY DEF UnderWay
    <3>3. Cardinality(UnderWay(p, s)') <= Cardinality(Workers)
      BY <3>2, Grows
    <3>4. QED
      BY <3>1, <3>2, <3>3, Grows, FS_CardinalityType
  <2>3. /\ recorded[p][s] \in Nat /\ recorded'[p][s] = recorded[p][s] /\ Limit[p] \in Nat
        /\ recorded[p][s] + Cardinality(UnderWay(p, s)) <= Limit[p] + Cardinality(Workers) - 1 + outages
    BY <1>1 DEF OvershootInv, RoomForUnderWay, CountsInv, TypeOK
  <2>4. CASE outages' = outages + 1
    BY <1>1, <2>2, <2>3, <2>4
  <2>5. CASE outages' = outages
    <3>1. ~Exhausted(p, s)
      <4>1. pc[w] = "gate" /\ denied'[w] = {} /\ ~(outages' = outages + 1)
        BY <1>1, <1>3, <2>5 DEF Gate, UnderWay, MayRecord
      <4>2. denied' = [denied EXCEPT ![w] = IF Exhausted(at[w], Stamp(at[w], today))
                                             THEN @ \cup {at[w]} ELSE @]
        BY <4>1 DEF Gate, FailsOpen
      <4>3. QED
        BY <2>1, <4>1, <4>2 DEF OvershootInv, CountsInv, TypeOK
    <3>2. Count(p, s) = recorded[p][s]
      BY <2>1 DEF OvershootInv, CountsInv, CountsKept
    <3>3. recorded[p][s] < Limit[p]
      BY <2>3, <3>1, <3>2 DEF Exhausted
    <3>4. QED
      BY <1>1, <2>2, <2>3, <2>5, <3>3
  <2>6. QED
    BY <1>1, <2>4, <2>5
<1>4. QED
  BY <1>1, <1>2, <1>3, OthersUnderWay

LEMMA RoomBump ==
  ASSUME OvershootInv, TypeOK', NEW w \in Workers, Bump(w)
  PROVE  RoomForUnderWay'
<1> SUFFICES ASSUME NEW p \in Periods, NEW s \in Days, Limit[p] > 0
             PROVE  recorded'[p][s] + Cardinality(UnderWay(p, s)')
                      <= Limit[p] + Cardinality(Workers) - 1 + outages'
  BY DEF RoomForUnderWay
<1>1. /\ UNCHANGED <<today, outages, window, denied>> /\ pc[w] = "bump" /\ denied[w] = {}
      /\ \A u \in Workers \ {w} : pc'[u] = pc[u] /\ at'[u] = at[u]
      /\ recorded' = [recorded EXCEPT ![at[w]][window[w]] = @ + 1]
      /\ at[w] \in Periods /\ window[w] \in Days
  BY DEF Bump, NextPeriod, OvershootInv, GatesInOrder, CountsInv, TypeOK
<1>2. /\ at[w] = "day" => pc'[w] = "record" /\ at'[w] = "month"
      /\ at[w] = "month" => pc'[w] = "retrieve"
  BY DEF Bump, NextPeriod, OvershootInv, CountsInv, TypeOK
<1>3. recorded[p][s] \in Nat /\ Limit[p] \in Nat /\ outages \in Nat
      /\ recorded[p][s] + Cardinality(UnderWay(p, s)) <= Limit[p] + Cardinality(Workers) - 1 + outages
  BY DEF OvershootInv, RoomForUnderWay, CountsInv, TypeOK
<1>4. CASE p = at[w] /\ s = window[w]
  <2>1. w \in UnderWay(p, s)
    BY <1>1, <1>4 DEF UnderWay, MayRecord, RecordsInto
  <2>2. w \notin UnderWay(p, s)'
    BY <1>2, <1>4 DEF UnderWay, MayRecord, Periods
  <2>3. UnderWay(p, s)' \subseteq UnderWay(p, s) \ {w}
    BY <1>1, <2>2, OthersUnderWay
  <2>4. UnderWay(p, s) \in SUBSET Workers
    BY DEF UnderWay
  <2>5. /\ Cardinality(UnderWay(p, s)) \in Nat /\ Cardinality(UnderWay(p, s)') \in Nat
        /\ Cardinality(UnderWay(p, s)') + 1 <= Cardinality(UnderWay(p, s))
    BY <2>1, <2>3, <2>4, Shrinks
  <2>6. recorded'[p][s] = recorded[p][s] + 1
    BY <1>1, <1>4 DEF OvershootInv, CountsInv, TypeOK
  <2>7. Cardinality(Workers) \in Nat
    BY FS_CardinalityType
  <2>8. QED
    BY <1>1, <1>3, <2>5, <2>6, <2>7
<1>5. CASE ~(p = at[w] /\ s = window[w])
  <2>1. recorded'[p][s] = recorded[p][s]
    BY <1>1, <1>5 DEF OvershootInv, CountsInv, TypeOK
  <2>2. w \in UnderWay(p, s)' => w \in UnderWay(p, s)
    <3>1. ASSUME w \in UnderWay(p, s)' PROVE at[w] = "day" /\ p = "month" /\ s = Stamp(p, today)
      BY <1>1, <1>2, <3>1 DEF UnderWay, MayRecord, RecordsInto, Periods, Stamp
    <3>2. QED
      BY <1>1, <3>1 DEF UnderWay, MayRecord, RecordsInto
  <2>3. UnderWay(p, s)' \subseteq UnderWay(p, s)
    BY <1>1, <2>2, OthersUnderWay
  <2>4. UnderWay(p, s) \in SUBSET Workers
    BY DEF UnderWay
  <2>5. /\ Cardinality(UnderWay(p, s)) \in Nat /\ Cardinality(UnderWay(p, s)') \in Nat
        /\ Cardinality(UnderWay(p, s)') <= Cardinality(UnderWay(p, s))
    BY <2>3, <2>4, Grows
  <2>6. Cardinality(Workers) \in Nat
    BY FS_CardinalityType
  <2>7. QED
    BY <1>1, <1>3, <2>1, <2>5, <2>6
<1>6. QED
  BY <1>4, <1>5

LEMMA RoomOther ==
  ASSUME OvershootInv, TypeOK', NEW w \in Workers,
         \/ Arrive(w) \/ Respond429(w) \/ Respond400(w) \/ Seed(w) \/ Skip(w) \/ Retrieve(w)
         \/ RetrieveFails(w) \/ NeverStarted(w) \/ Emit(w) \/ EndAnswer(w) \/ Disconnect(w)
         \/ Close(w) \/ Killed(w)
  PROVE  RoomForUnderWay'
<1> USE DEF OvershootInv, CountsInv, TypeOK
<1>1. /\ UNCHANGED <<today, recorded>> /\ outages' \in {outages, outages + 1} /\ outages \in Nat
  BY DEF Arrive, Respond429, Respond400, Seed, Skip, FailsOpen, Retrieve, RetrieveFails,
     NeverStarted, Emit, EndAnswer, Disconnect, Close, Killed, cacheVars
<1>2. \A u \in Workers \ {w} : /\ pc'[u] = pc[u] /\ at'[u] = at[u]
                               /\ window'[u] = window[u] /\ denied'[u] = denied[u]
  <2>1. CASE Arrive(w) \/ Seed(w) \/ Skip(w)
    BY <2>1 DEF Arrive, Seed, Skip, NextPeriod
  <2>2. CASE Retrieve(w) \/ Emit(w) \/ EndAnswer(w) \/ Disconnect(w)
    BY <2>2 DEF Retrieve, Emit, EndAnswer, Disconnect
  <2>3. CASE Respond429(w) \/ Respond400(w) \/ RetrieveFails(w) \/ NeverStarted(w) \/ Close(w) \/ Killed(w)
    BY <2>3 DEF Respond429, Respond400, RetrieveFails, NeverStarted, Close, Killed, Leave
  <2>4. QED
    BY <2>1, <2>2, <2>3
<1>3. ASSUME NEW p \in Periods, NEW s \in Days, w \in UnderWay(p, s)', Limit[p] > 0
      PROVE  w \in UnderWay(p, s)
  <2>1. CASE Arrive(w)
    BY <1>3, <2>1 DEF Arrive, UnderWay, MayRecord, GatesInOrder
  <2>2. CASE Retrieve(w) \/ Emit(w) \/ EndAnswer(w) \/ Disconnect(w)
    BY <1>3, <2>2 DEF Retrieve, Emit, EndAnswer, Disconnect, UnderWay, MayRecord
  <2>3. CASE Respond429(w) \/ Respond400(w) \/ RetrieveFails(w) \/ NeverStarted(w) \/ Close(w) \/ Killed(w)
    BY <1>3, <2>3 DEF Respond429, Respond400, RetrieveFails, NeverStarted, Close, Killed, Leave,
       UnderWay, MayRecord
  <2>4. CASE Seed(w) \/ Skip(w)
    <3>1. /\ denied' = denied /\ denied[w] = {} /\ pc[w] \in {"view", "record", "bump"}
          /\ pc[w] = "view" => at[w] = "day"
      BY <2>4 DEF Seed, Skip, Recording, GatesInOrder
    <3>2. CASE pc'[w] # "bump"
      <4>1. p = "month" /\ at[w] = "day" /\ s = Stamp(p, today)
        BY <1>1, <1>3, <2>4, <3>1, <3>2 DEF Seed, Skip, NextPeriod, UnderWay, MayRecord, RecordsInto, Periods, Stamp
      <4>2. QED
        BY <3>1, <4>1 DEF UnderWay, MayRecord, RecordsInto
    <3>3. CASE pc'[w] = "bump"
      <4>1. /\ Seed(w) /\ at' = at /\ window'[w] = Stamp(at[w], today)
            /\ pc[w] \in {"view", "record"}
        BY <2>4, <3>3 DEF Seed, Skip, NextPeriod, Recording
      <4>2. (at[w] = p \/ p = "month") /\ s = Stamp(p, today)
        BY <1>1, <1>3, <3>3, <4>1 DEF UnderWay, MayRecord, RecordsInto, Stamp
      <4>3. QED
        BY <3>1, <4>1, <4>2 DEF UnderWay, MayRecord, RecordsInto
    <3>4. QED
      BY <3>2, <3>3
  <2>5. QED
    BY <2>1, <2>2, <2>3, <2>4
<1>4. ASSUME NEW p \in Periods, NEW s \in Days, Limit[p] > 0
      PROVE  recorded'[p][s] + Cardinality(UnderWay(p, s)')
               <= Limit[p] + Cardinality(Workers) - 1 + outages'
  <2> HIDE DEF OvershootInv, CountsInv, TypeOK
  <2>1. UnderWay(p, s)' \subseteq UnderWay(p, s)
    <3>1. w \in UnderWay(p, s)' => w \in UnderWay(p, s)
      BY <1>3, <1>4
    <3>2. /\ UnderWay(p, s)' \subseteq UnderWay(p, s) \cup {w}
          /\ w \notin UnderWay(p, s)' => UnderWay(p, s)' \subseteq UnderWay(p, s) \ {w}
      <4>1. UNCHANGED today
        BY <1>1
      <4>2. QED
        BY <1>2, <4>1, OthersUnderWay
    <3>3. QED
      BY <3>1, <3>2
  <2>2. outages' >= outages
    BY <1>1
  <2>3. QED
    BY <1>1, <1>4, <2>1, <2>2, NoneNewUnderWay
<1>5. QED
  BY <1>4 DEF RoomForUnderWay

LEMMA RoomNextDay ==
  ASSUME OvershootInv, TypeOK', NextDay
  PROVE  RoomForUnderWay'
<1> SUFFICES ASSUME NEW p \in Periods, NEW s \in Days, Limit[p] > 0
             PROVE  recorded'[p][s] + Cardinality(UnderWay(p, s)')
                      <= Limit[p] + Cardinality(Workers) - 1 + outages'
  BY DEF RoomForUnderWay
<1>1. /\ today' = today + 1 /\ today \in Days
      /\ UNCHANGED <<recorded, outages, pc, at, window, denied>>
  BY DEF NextDay, cacheVars, workerVars, OvershootInv, CountsInv, TypeOK
<1>2. /\ Stamp(p, today) \in Nat /\ Stamp(p, today) <= Stamp(p, today)' /\ Stamp(p, today)' \in Nat
  <2>1. today' \in Days /\ today + 1 \in Days
    BY <1>1 DEF TypeOK
  <2>2. Stamp(p, today)' = Stamp(p, today + 1)
    BY <1>1 DEF Stamp
  <2>3. Days \subseteq Nat
    BY DEF Days
  <2>4. QED
    BY <1>1, <2>1, <2>2, <2>3, StampBounds
<1>3. CASE s = Stamp(p, today)' /\ s # Stamp(p, today)
  <2>1. recorded[p][s] = 0
    BY <1>2, <1>3 DEF OvershootInv, CountsInv, FutureUntouched
  <2>2. UnderWay(p, s)' \in SUBSET Workers
    BY DEF UnderWay
  <2>3. /\ Cardinality(UnderWay(p, s)') \in Nat /\ Cardinality(Workers) \in Nat
        /\ Cardinality(UnderWay(p, s)') <= Cardinality(Workers)
    BY <2>2, FS_Subset, FS_CardinalityType
  <2>4. outages' \in Nat /\ Limit[p] \in Nat /\ recorded'[p][s] = 0
    BY <1>1, <2>1 DEF TypeOK
  <2>5. QED
    BY <2>3, <2>4
<1>4. CASE ~(s = Stamp(p, today)' /\ s # Stamp(p, today))
  <2>1. UnderWay(p, s)' \subseteq UnderWay(p, s)
    BY <1>1, <1>4 DEF UnderWay, MayRecord, RecordsInto
  <2>2. outages' >= outages
    BY <1>1 DEF TypeOK
  <2>3. QED
    BY <1>1, <2>1, <2>2, NoneNewUnderWay
<1>5. QED
  BY <1>3, <1>4

LEMMA OvershootStep == OvershootInv /\ [Next]_vars => OvershootInv'
<1> SUFFICES ASSUME OvershootInv, [Next]_vars, TypeOK' PROVE RoomForUnderWay'
  BY CountsStep, GatesStep DEF OvershootInv, CountsInv
<1>1. ASSUME NEW w \in Workers, Step(w) PROVE RoomForUnderWay'
  BY <1>1, RoomGate, RoomBump, RoomOther DEF Step
<1>2. CASE NextDay
  BY <1>2, RoomNextDay
<1>3. CASE (\E p \in Periods, s \in Days : Expire(p, s)) \/ UNCHANGED vars
  <2>1. UNCHANGED <<today, recorded, outages, pc, at, window, denied>>
    BY <1>3 DEF Expire, vars, cacheVars, workerVars
  <2>2. \A p \in Periods, s \in Days : UnderWay(p, s)' = UnderWay(p, s)
    BY <2>1 DEF UnderWay, MayRecord, RecordsInto, Stamp
  <2>3. QED
    BY <2>1, <2>2 DEF OvershootInv, RoomForUnderWay
<1>4. QED
  BY <1>1, <1>2, <1>3 DEF Next

(***************************************************************************)
(* A window is overrun by at most the other workers and the commands that  *)
(* failed open, for every number of workers, every quota and however       *)
(* windows roll over between the gate and the record of a request.         *)
(***************************************************************************)
THEOREM QuotaIsNearlyKept == Spec => []OvershootBounded
<1>1. Init => OvershootInv
  <2> SUFFICES ASSUME Init PROVE GatesInOrder /\ RoomForUnderWay
    BY CountsInit DEF OvershootInv
  <2>1. GatesInOrder /\ TypeOK /\ \A p \in Periods, s \in Days : UnderWay(p, s) = {} /\ recorded[p][s] = 0
    BY TypeInit DEF Init, GatesInOrder, UnderWay, MayRecord
  <2>2. Cardinality({}) = 0 /\ Cardinality(Workers) \in Nat
    BY FS_EmptySet, FS_CardinalityType
  <2>3. ASSUME NEW p \in Periods, NEW s \in Days, Limit[p] > 0
        PROVE  recorded[p][s] + Cardinality(UnderWay(p, s))
                 <= Limit[p] + Cardinality(Workers) - 1 + outages
    <3>1. Cardinality(UnderWay(p, s)) = 0 /\ recorded[p][s] = 0
      BY <2>1, <2>2
    <3>2. Limit[p] \in Nat /\ outages \in Nat
      BY <2>1 DEF TypeOK
    <3>3. QED
      BY <2>2, <2>3, <3>1, <3>2
  <2>4. QED
    BY <2>1, <2>3 DEF RoomForUnderWay
<1>2. OvershootInv => OvershootBounded
  <2> SUFFICES ASSUME OvershootInv, NEW p \in Periods, NEW s \in Days, Limit[p] > 0
               PROVE  recorded[p][s] <= Limit[p] + Cardinality(Workers) - 1 + outages
    BY DEF OvershootBounded
  <2>1. UnderWay(p, s) \in SUBSET Workers
    BY DEF UnderWay
  <2>2. Cardinality(UnderWay(p, s)) \in Nat /\ Cardinality(Workers) \in Nat
    BY <2>1, FS_Subset, FS_CardinalityType
  <2>3. /\ recorded[p][s] \in Nat /\ Limit[p] \in Nat /\ outages \in Nat
        /\ recorded[p][s] + Cardinality(UnderWay(p, s)) <= Limit[p] + Cardinality(Workers) - 1 + outages
    BY DEF OvershootInv, RoomForUnderWay, CountsInv, TypeOK
  <2>4. QED
    BY <2>2, <2>3
<1>3. QED
  BY <1>1, <1>2, OvershootStep, PTL DEF Spec
=============================================================================
