----------------------------- MODULE UsageReport -----------------------------
(***************************************************************************)
(* What a tenant's usage cost: the price of a record, the summary of a     *)
(* range of instants and the series of a range of days.                    *)
(*                                                                         *)
(* Time is counted in ticks, the finest instants the database keeps, and   *)
(* TicksPerDay of them make a UTC day.  A query parameter is [kind, at]:   *)
(* absent, malformed, a bare date (at is its day) or an instant.  Money is *)
(* in the micro-dollars a cost is quantized to, prices in PriceUnit-ths of *)
(* a dollar per million tokens.                                            *)
(***************************************************************************)
EXTENDS Integers, Sequences, SequencesExt, FiniteSetsExt

CONSTANTS
  TicksPerDay,
  DefaultDays,  \* the days a range covers by default
  MaxDays,      \* the longest series reported
  PriceUnit,
  Prices        \* of each model priced by name: <<input, output>>, and of "default"

ASSUME UsageReportBounds == {TicksPerDay, DefaultDays, MaxDays, PriceUnit} \subseteq Nat \ {0}
ASSUME UsageReportPrices == "default" \in DOMAIN Prices /\ \A model \in DOMAIN Prices : Prices[model] \in Nat \X Nat

DayOf(instant) == instant \div TicksPerDay
Midnight(day) == day * TicksPerDay
LastInstant(day) == Midnight(day + 1) - 1

\* The quotient rounded to the nearest, a half to the even one.
Rounded(n, d) ==
  LET q == n \div d
      twice == 2 * (n % d)
  IN IF twice > d \/ (twice = d /\ q % 2 = 1) THEN q + 1 ELSE q

PricesFor(model) == IF model \in DOMAIN Prices THEN Prices[model] ELSE Prices["default"]

EstimatedCost(input, output, model) ==
  Rounded(input * PricesFor(model)[1] + output * PricesFor(model)[2], PriceUnit)

\* The row of one answer: its cost is fixed when it is written.
UsageRecord(now, input, output, model) ==
  [at |-> now, tokens |-> input + output, cost |-> EstimatedCost(input, output, model)]
-----------------------------------------------------------------------------
\* The sum of a column over the rows at some positions.
Total(column, at) ==
  FoldLeft(LAMBDA n, x : n + x, 0, [i \in DOMAIN column |-> IF i \in at THEN column[i] ELSE 0])

Sums(records, at) == [requests |-> Cardinality(at),
                      tokens |-> Total([i \in DOMAIN records |-> records[i].tokens], at),
                      cost |-> Total([i \in DOMAIN records |-> records[i].cost], at)]

BadRequest == [status |-> 400]

\* A bare date is the first instant of its day, or the last where it ends a range.
ParseInstant(param, endOfDay) ==
  IF param.kind = "date" THEN IF endOfDay THEN LastInstant(param.at) ELSE Midnight(param.at)
  ELSE param.at

UsageSummary(records, start, end) ==
  Sums(records, {i \in DOMAIN records : start <= records[i].at /\ records[i].at <= end})

UsageView(records, now, startParam, endParam) ==
  LET end == IF endParam.kind = "absent" THEN now ELSE ParseInstant(endParam, TRUE)
      start == IF startParam.kind = "absent" THEN end - Midnight(DefaultDays)
               ELSE ParseInstant(startParam, FALSE)
  IN IF "malformed" \in {startParam.kind, endParam.kind} THEN BadRequest
     ELSE IF startParam.kind # "absent" /\ start > end THEN BadRequest
     ELSE [status |-> 200, start |-> start, end |-> end, totals |-> UsageSummary(records, start, end)]
-----------------------------------------------------------------------------
\* Variant: the series reads the rows up to the midnight its last day begins with.
DailyRowsToMidnight(records, first, last) ==
  [day \in first .. last |->
     Sums(records, {i \in DOMAIN records : /\ Midnight(first) <= records[i].at /\ records[i].at < Midnight(last)
                                            /\ DayOf(records[i].at) = day})]

\* The sums of each UTC day from the midnight of first up to, not including, that after last.
DailyRows(records, first, last) ==
  [day \in first .. last |->
     Sums(records, {i \in DOMAIN records : /\ Midnight(first) <= records[i].at /\ records[i].at < Midnight(last + 1)
                                            /\ DayOf(records[i].at) = day})]

\* Every day of the range in order, and totals that are the sum of the days.
UsageByDay(records, first, last) ==
  LET byDay == DailyRows(records, first, last)
      count == 1 .. last - first + 1
      day(n) == byDay[first + n - 1]
  IN [days |-> [n \in count |-> [date |-> first + n - 1, requests |-> day(n).requests,
                                 tokens |-> day(n).tokens, cost |-> day(n).cost]],
      totals |-> [requests |-> Total([n \in count |-> day(n).requests], count),
                  tokens |-> Total([n \in count |-> day(n).tokens], count),
                  cost |-> Total([n \in count |-> day(n).cost], count)]]

UsageDailyView(records, now, startParam, endParam) ==
  LET today == DayOf(now)
      end == IF endParam.kind = "absent" THEN today ELSE endParam.at
      first == IF startParam.kind = "absent" THEN end - (DefaultDays - 1) ELSE startParam.at
      last == Min({end, today})
  IN IF ~({startParam.kind, endParam.kind} \subseteq {"absent", "date"}) THEN BadRequest
     ELSE IF first > today \/ first > end \/ last - first + 1 > MaxDays THEN BadRequest
     ELSE [status |-> 200, start |-> first, end |-> last,
           days |-> UsageByDay(records, first, last).days, totals |-> UsageByDay(records, first, last).totals]
=============================================================================
