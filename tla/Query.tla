-------------------------------- MODULE Query --------------------------------
(***************************************************************************)
(* The query endpoint: workers pass the throttles of a tenant, take a unit *)
(* of its daily and monthly quotas from counters in the cache, retrieve,   *)
(* stream an answer and charge for it.                                     *)
(*                                                                         *)
(* A step is one command to the cache or one exchange with the client, so  *)
(* the workers of a tenant interleave between the gate of a quota, the     *)
(* seeding of its counter and its increment.  A counter is keyed by its    *)
(* window and lives a minute past it.                                      *)
(***************************************************************************)
EXTENDS Integers, FiniteSets

CONSTANTS
  Workers,        \* threads that serve the queries of one tenant
  Limit,          \* the quota of each period; 0 means no quota
  DaysPerMonth,   \* days in a month of the model
  LastDay,        \* bound: the last day
  MaxOutages,     \* bound: commands the cache fails to answer
  MaxQueries,     \* bound: queries that arrive
  Faults          \* the kinds of fault the environment may produce

Periods == {"day", "month"}
Days == 0 .. LastDay

(***************************************************************************)
(* cache       a command to the counters fails                             *)
(* retrieval   the search of the tenant's chunks raises                    *)
(* accounting  the usage row cannot be written                             *)
(* model       the model fails, before or after its first token            *)
(* worker      the process dies                                            *)
(***************************************************************************)
FaultKinds == {"cache", "retrieval", "accounting", "model", "worker"}

ASSUME WorkersAssumption == IsFiniteSet(Workers)
ASSUME LimitAssumption == Limit \in [Periods -> Nat]
ASSUME CalendarAssumption == DaysPerMonth \in Nat \ {0} /\ LastDay \in Nat
ASSUME QueryBoundsAssumption == MaxOutages \in Nat /\ MaxQueries \in Nat
ASSUME QueryFaultsAssumption == Faults \subseteq FaultKinds

VARIABLES
  today,                \* the clock
  count,                \* the counters in the cache, by period and stamp
  pc, at, window,       \* a worker: its step, the period it handles, the stamp record computed
  denied,               \* did a throttle deny its request, and which
  context, produced,    \* did retrieval find sources, did a token leave the stream
  outcome,              \* how the stream ended
  recorded,             \* history: the units accepted questions took of each window
  outages,              \* history: commands the cache did not answer
  queries,              \* history: the queries that arrived
  spoken, rows, lost    \* history: answers the model started, usage rows, charges lost

cacheVars == <<count, recorded, outages>>
workerVars == <<pc, at, window, denied, context, produced, outcome>>
ledgerVars == <<spoken, rows, lost>>
vars == <<today, cacheVars, workerVars, queries, ledgerVars>>

Missing == -1
Pcs == {"idle", "gate", "view", "record", "bump", "retrieve", "stream", "close"}
Outcomes == {"incomplete", "answered", "refused", "failed", "disconnected", "error"}

TypeOK ==
  /\ today \in Days
  /\ count \in [Periods -> [Days -> Nat \cup {Missing}]]
  /\ recorded \in [Periods -> [Days -> Nat]]
  /\ outages \in Nat /\ queries \in Nat /\ spoken \in Nat /\ rows \in Nat /\ lost \in Nat
  /\ pc \in [Workers -> Pcs]
  /\ at \in [Workers -> Periods]
  /\ window \in [Workers -> Days]
  /\ denied \in [Workers -> SUBSET (Periods \cup {"rate"})]
  /\ context \in [Workers -> BOOLEAN] /\ produced \in [Workers -> BOOLEAN]
  /\ outcome \in [Workers -> Outcomes]

Init ==
  /\ today = 0
  /\ count = [p \in Periods |-> [s \in Days |-> Missing]]
  /\ recorded = [p \in Periods |-> [s \in Days |-> 0]]
  /\ outages = 0 /\ queries = 0 /\ spoken = 0 /\ rows = 0 /\ lost = 0
  /\ pc = [w \in Workers |-> "idle"]
  /\ at = [w \in Workers |-> "day"]
  /\ window = [w \in Workers |-> 0]
  /\ denied = [w \in Workers |-> {}]
  /\ context = [w \in Workers |-> FALSE] /\ produced = [w \in Workers |-> FALSE]
  /\ outcome = [w \in Workers |-> "incomplete"]

(***************************************************************************)
(* The quotas                                                              *)
(***************************************************************************)

\* The stamp of the window of period p that day d falls in.
Stamp(p, d) == IF p = "day" THEN d ELSE d \div DaysPerMonth

\* What the cache holds for a key, 0 when it has none.
Count(p, s) == IF count[p][s] = Missing THEN 0 ELSE count[p][s]

\* Variant: one request more.
ExhaustedAbove(p, s) == Limit[p] > 0 /\ Count(p, s) > Limit[p]
Exhausted(p, s) == Limit[p] > 0 /\ Count(p, s) >= Limit[p]

\* A cache that does not answer: the throttle lets the request through.
FailsOpen == "cache" \in Faults /\ outages < MaxOutages /\ outages' = outages + 1

\* Go on from period at[w] to the next one, or to the step named done.
NextPeriod(w, loop, done) ==
  IF at[w] = "day"
    THEN at' = [at EXCEPT ![w] = "month"] /\ pc' = [pc EXCEPT ![w] = loop]
    ELSE at' = [at EXCEPT ![w] = "day"] /\ pc' = [pc EXCEPT ![w] = done]

\* The worker is done with its request.
Leave(w) ==
  /\ pc' = [pc EXCEPT ![w] = "idle"]
  /\ at' = [at EXCEPT ![w] = "day"]
  /\ window' = [window EXCEPT ![w] = 0]
  /\ denied' = [denied EXCEPT ![w] = {}]
  /\ context' = [context EXCEPT ![w] = FALSE]
  /\ produced' = [produced EXCEPT ![w] = FALSE]
  /\ outcome' = [outcome EXCEPT ![w] = "incomplete"]

\* A query arrives; the sliding window of the burst rate is the framework's, and
\* its throttle too lets the request through when the cache does not answer.
Arrive(w) ==
  /\ pc[w] = "idle" /\ queries < MaxQueries
  /\ queries' = queries + 1
  /\ \E burst \in SUBSET {"rate"} : denied' = [denied EXCEPT ![w] = burst]
  /\ pc' = [pc EXCEPT ![w] = "gate"]
  /\ UNCHANGED <<today, cacheVars, at, window, context, produced, outcome, ledgerVars>>

\* Variant: counting where it gates charges for requests that another throttle denies.
GateCounts(w) ==
  /\ pc[w] = "gate"
  /\ LET s == Stamp(at[w], today) IN
       IF Exhausted(at[w], s)
         THEN denied' = [denied EXCEPT ![w] = @ \cup {at[w]}] /\ UNCHANGED count
         ELSE count' = [count EXCEPT ![at[w]][s] = Count(at[w], s) + 1] /\ UNCHANGED denied
  /\ NextPeriod(w, "gate", "view")
  /\ UNCHANGED <<today, queries, recorded, outages, window, context, produced, outcome, ledgerVars>>

\* The gates run one after the other, whatever an earlier throttle said, and
\* change no counter.
Gate(w) ==
  /\ pc[w] = "gate"
  /\ \/ /\ denied' = [denied EXCEPT ![w] =
             IF Exhausted(at[w], Stamp(at[w], today)) THEN @ \cup {at[w]} ELSE @]
        /\ UNCHANGED outages
     \/ Limit[at[w]] > 0 /\ FailsOpen /\ UNCHANGED denied
  /\ NextPeriod(w, "gate", "view")
  /\ UNCHANGED <<today, queries, count, recorded, window, context, produced, outcome, ledgerVars>>

\* The framework raises 429 when a throttle denied; the view answers 400 to an
\* empty question.
Respond429(w) ==
  /\ pc[w] = "view" /\ denied[w] # {}
  /\ Leave(w)
  /\ UNCHANGED <<today, queries, cacheVars, ledgerVars>>

Respond400(w) ==
  /\ pc[w] = "view" /\ denied[w] = {}
  /\ Leave(w)
  /\ UNCHANGED <<today, queries, cacheVars, ledgerVars>>

\* A question that stands is charged to the quotas in turn.
Recording(w) == pc[w] = "record" \/ (pc[w] = "view" /\ denied[w] = {})

\* Variant: set in place of add.
SeedOverwrites(p, s) == [count EXCEPT ![p][s] = 0]

\* cache.add: seed the counter of the window only when it is not there.
Seeded(p, s) == [count EXCEPT ![p][s] = IF @ = Missing THEN 0 ELSE @]

\* The worker keeps the stamp it computed; a quota of 0 counts nothing.
Seed(w) ==
  /\ Recording(w)
  /\ IF Limit[at[w]] = 0
       THEN NextPeriod(w, "record", "retrieve") /\ UNCHANGED <<count, window>>
       ELSE LET s == Stamp(at[w], today) IN
            /\ window' = [window EXCEPT ![w] = s]
            /\ count' = Seeded(at[w], s)
            /\ pc' = [pc EXCEPT ![w] = "bump"]
            /\ UNCHANGED at
  /\ UNCHANGED <<today, queries, recorded, outages, denied, context, produced, outcome, ledgerVars>>

\* cache.incr, and cache.set to 1 when the key expired since it was seeded.
Bump(w) ==
  /\ pc[w] = "bump"
  /\ count' = [count EXCEPT ![at[w]][window[w]] = IF @ = Missing THEN 1 ELSE @ + 1]
  /\ recorded' = [recorded EXCEPT ![at[w]][window[w]] = @ + 1]
  /\ NextPeriod(w, "record", "retrieve")
  /\ UNCHANGED <<today, queries, outages, window, denied, context, produced, outcome, ledgerVars>>

\* record skips a quota whose counter cannot be reached, seeded or not.
Skip(w) ==
  /\ (Recording(w) \/ pc[w] = "bump") /\ Limit[at[w]] > 0
  /\ FailsOpen
  /\ NextPeriod(w, "record", "retrieve")
  /\ UNCHANGED <<today, queries, count, recorded, window, denied, context, produced, outcome, ledgerVars>>

(***************************************************************************)
(* The answer                                                              *)
(***************************************************************************)

Retrieve(w) ==
  /\ pc[w] = "retrieve"
  /\ \E found \in BOOLEAN : context' = [context EXCEPT ![w] = found]
  /\ pc' = [pc EXCEPT ![w] = "stream"]
  /\ UNCHANGED <<today, queries, cacheVars, at, window, denied, produced, outcome, ledgerVars>>

\* A search that raises is a 500; the units it took stay spent.
RetrieveFails(w) ==
  /\ pc[w] = "retrieve" /\ "retrieval" \in Faults
  /\ Leave(w)
  /\ UNCHANGED <<today, queries, cacheVars, ledgerVars>>

\* The client is gone before its first frame: a generator that never started runs
\* no finally.
NeverStarted(w) ==
  /\ pc[w] = "stream" /\ ~produced[w]
  /\ Leave(w)
  /\ UNCHANGED <<today, queries, cacheVars, ledgerVars>>

\* A token frame: the model's first text, or the refusal when nothing was found.
Emit(w) ==
  /\ pc[w] = "stream" /\ ~produced[w]
  /\ produced' = [produced EXCEPT ![w] = TRUE]
  /\ spoken' = IF context[w] THEN spoken + 1 ELSE spoken
  /\ UNCHANGED <<today, queries, cacheVars, pc, at, window, denied, context, outcome, rows, lost>>

\* Variant: the frame and the outcome are mixed up.
TerminalUnnamed(w) == {IF context[w] THEN "answered" ELSE "citations"}

\* The terminal frame: citations after the model's text or the refusal, an error
\* when the model failed.
Terminal(w) ==
  IF context[w] THEN {"answered"} \cup (IF "model" \in Faults THEN {"failed"} ELSE {})
  ELSE IF produced[w] THEN {"refused"} ELSE {}

\* The terminal frame is the last; a client that hangs up on it closes the
\* generator there.
EndAnswer(w) ==
  /\ pc[w] = "stream" /\ Terminal(w) # {}
  /\ \E end \in Terminal(w) \cup {"disconnected"} : outcome' = [outcome EXCEPT ![w] = end]
  /\ pc' = [pc EXCEPT ![w] = "close"]
  /\ UNCHANGED <<today, queries, cacheVars, at, window, denied, context, produced, ledgerVars>>

\* The client hangs up on a token frame, or the worker is told to stop.
Disconnect(w) ==
  /\ pc[w] = "stream" /\ produced[w]
  /\ \E end \in {"disconnected", "error"} : outcome' = [outcome EXCEPT ![w] = end]
  /\ pc' = [pc EXCEPT ![w] = "close"]
  /\ UNCHANGED <<today, queries, cacheVars, at, window, denied, context, produced, ledgerVars>>

\* Variant: a refusal is charged too.
SpentOnAnyText(w) == produced[w]

\* The finally charges for what the model produced: a refusal's text is not the
\* model's.
Spent(w) == context[w] /\ produced[w]

\* The finally of the stream: one usage row if the model's text was sent; a row
\* that cannot be written is logged and the answer stands.
Close(w) ==
  /\ pc[w] = "close"
  /\ \/ rows' = (IF Spent(w) THEN rows + 1 ELSE rows) /\ UNCHANGED lost
     \/ "accounting" \in Faults /\ Spent(w) /\ lost' = lost + 1 /\ UNCHANGED rows
  /\ Leave(w)
  /\ UNCHANGED <<today, queries, cacheVars, spoken>>

\* The process dies: no finally runs.
Killed(w) ==
  /\ "worker" \in Faults /\ pc[w] # "idle"
  /\ lost' = IF pc[w] \in {"stream", "close"} /\ Spent(w) THEN lost + 1 ELSE lost
  /\ Leave(w)
  /\ UNCHANGED <<today, queries, cacheVars, spoken, rows>>

(***************************************************************************)
(* The clock and the cache                                                 *)
(***************************************************************************)

NextDay ==
  /\ today < LastDay
  /\ today' = today + 1
  /\ UNCHANGED <<cacheVars, workerVars, queries, ledgerVars>>

\* A counter expires a minute past its window, never in it.
Expire(p, s) ==
  /\ count[p][s] # Missing /\ s < Stamp(p, today)
  /\ count' = [count EXCEPT ![p][s] = Missing]
  /\ UNCHANGED <<today, queries, recorded, outages, workerVars, ledgerVars>>

Step(w) ==
  \/ Arrive(w) \/ Gate(w) \/ Respond429(w) \/ Respond400(w)
  \/ Seed(w) \/ Bump(w) \/ Skip(w) \/ Retrieve(w)
  \/ RetrieveFails(w) \/ NeverStarted(w)
  \/ Emit(w) \/ EndAnswer(w) \/ Disconnect(w) \/ Close(w)
  \/ Killed(w)

Next ==
  \/ \E w \in Workers : Step(w)
  \/ NextDay
  \/ \E p \in Periods, s \in Days : Expire(p, s)

Spec == Init /\ [][Next]_vars

(***************************************************************************)
(* Properties                                                              *)
(***************************************************************************)

\* Concurrent queries may pass a gate on one count before any of them records: a
\* window is overrun by at most the other workers and the commands that failed
\* open (the comment in throttling.py says "one or two").
OvershootBounded ==
  \A p \in Periods, s \in Days : Limit[p] > 0 =>
    recorded[p][s] <= Limit[p] + Cardinality(Workers) - 1 + outages

\* Seeding and incrementing are two commands, and keys expire: while its window
\* lasts, a counter holds exactly the units recorded in it.
CountsKept ==
  \A p \in Periods : Count(p, Stamp(p, today)) = recorded[p][Stamp(p, today)]

\* A tenant is denied only for a window whose quota its accepted questions used up:
\* requests answered 429 or 400 never lock it out, and a new day or month starts
\* with the whole quota.
DeniedOnlyWhenUsed ==
  [][\A w \in Workers, p \in Periods : p \in denied'[w] \ denied[w] =>
       recorded[p][Stamp(p, today)] >= Limit[p]]_vars

\* Every answer whose text came from the model is charged once, however its stream
\* ended, and nothing else is: a row, an open stream or a charge that was lost.
LedgerBalances ==
  spoken = rows + lost
           + Cardinality({w \in Workers : context[w] /\ produced[w]})
=============================================================================
