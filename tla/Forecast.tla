------------------------------ MODULE Forecast ------------------------------
(***************************************************************************)
(* The projection of account balances through scheduled transactions       *)
(* (lib/analytics.mjs).                                                    *)
(*                                                                         *)
(* A schedule has its account, amount, frequency, the dates of its first   *)
(* and next occurrence, the other account of a transfer (None otherwise)   *)
(* and its subtransactions; deleted schedules are dropped first.           *)
(***************************************************************************)
EXTENDS Calendar

CONSTANT None

-----------------------------------------------------------------------------
(* The dates on which a schedule occurs.                                   *)

DayFrequencies == [daily |-> 1, weekly |-> 7, everyOtherWeek |-> 14, every4Weeks |-> 28]

MonthFrequencies ==
    [monthly |-> 1, everyOtherMonth |-> 2, every3Months |-> 3, every4Months |-> 4,
     twiceAYear |-> 6, yearly |-> 12, everyOtherYear |-> 24]

\* The frequencies whose dates can be told from what YNAB exposes.
Supported(s) ==
    \/ s.frequency \in {"never"} \cup DOMAIN DayFrequencies \cup DOMAIN MonthFrequencies
    \/ s.frequency = "twiceAMonth" /\ DayOf(s.first) <= 15

\* From the first date after asOf, were next overdue, in steps of days.
DayDates(s, asOf, through) ==
    LET step == DayFrequencies[s.frequency]
        start == IF s.next <= asOf THEN s.next + (((asOf - s.next) \div step) + 1) * step ELSE s.next
    IN  {start + k * step : k \in 0..((through - start) \div step)}

\* next itself, then the first occurrence's day of every so many months.
MonthDates(s) ==
    LET step == MonthFrequencies[s.frequency]
    IN  {IF k = 0 THEN s.next ELSE CalendarMonthDate(MonthOf(s.next) + k * step, DayOf(s.first)) : k \in 0..379}

TwiceAMonthDates(s, asOf) ==
    LET month == MonthOf(Max({asOf, s.next}))
    IN  {s.next} \cup {CalendarMonthDate(month + k, DayOf(s.first) + half) : k \in 0..13, half \in {0, 15}}

\* scheduledOccurrenceDates.
Occurrences(s, asOf, through) ==
    {d \in CASE s.frequency = "never" -> {s.next}
             [] s.frequency \in DOMAIN DayFrequencies -> DayDates(s, asOf, through)
             [] s.frequency \in DOMAIN MonthFrequencies -> MonthDates(s)
             [] s.frequency = "twiceAMonth" -> TwiceAMonthDates(s, asOf) :
     d > asOf /\ d >= s.next /\ d <= through}

-----------------------------------------------------------------------------
(* forecastScheduledBalances: balance gives the open accounts and what     *)
(* they hold.                                                              *)

InOrder(dates) ==
    [i \in 1..Cardinality(dates) |-> CHOOSE d \in dates : Cardinality({e \in dates : e < d}) = i - 1]

Legs(s) ==
    IF s.split = <<>> THEN <<[to |-> s.to, amount |-> s.amount]>>
    ELSE SelectSeq(s.split, LAMBDA part : ~part.deleted)

Total(parts) == FoldLeft(LAMBDA sum, part : sum + part.amount, 0, parts)

\* A schedule that contributes; the others are reported as omitted.
Projected(s, balance) ==
    /\ s.account \in DOMAIN balance /\ Supported(s)
    /\ s.split # <<>> => Total(Legs(s)) = s.amount

\* A transfer's leg on each of its dates, schedules in their order.
TransferLegs(schedules, balance, asOf, through) ==
    LET LegsOf(s) ==
          LET dates == InOrder(Occurrences(s, asOf, through))
              transfers == SelectSeq(Legs(s), LAMBDA leg : leg.to # None)
          IN  FlattenSeq([k \in DOMAIN dates |-> [i \in DOMAIN transfers |->
                  [date |-> dates[k], account |-> s.account, to |-> transfers[i].to, amount |-> transfers[i].amount]]])
        projected == SelectSeq(schedules, LAMBDA s : Projected(s, balance))
    IN  FlattenSeq([i \in DOMAIN projected |-> LegsOf(projected[i])])

Reciprocal(leg, other) ==
    /\ other.date = leg.date /\ other.account = leg.to
    /\ other.to = leg.account /\ other.amount = -leg.amount

\* Mutant: one counterpart is enough for several legs.
PairWithAny(legs, result, i) ==
    LET leg == legs[i]
        others == {j \in (i + 1)..Len(legs) : Reciprocal(leg, legs[j])}
    IN  IF i \in result.paired THEN result
        ELSE IF others # {} THEN [result EXCEPT !.paired = @ \cup {Min(others)}]
        ELSE [result EXCEPT !.derived = Append(@, [date |-> leg.date, account |-> leg.to, amount |-> -leg.amount])]

\* Each leg takes the first later counterpart that no leg has taken; the
\* others have an effect on the destination derived from them.
Pair(legs, result, i) ==
    LET leg == legs[i]
        others == {j \in (i + 1)..Len(legs) \ result.paired : Reciprocal(leg, legs[j])}
    IN  IF i \in result.paired THEN result
        ELSE IF others # {} THEN [result EXCEPT !.paired = @ \cup {Min(others)}]
        ELSE [result EXCEPT !.derived = Append(@, [date |-> leg.date, account |-> leg.to, amount |-> -leg.amount])]

Derived(legs) ==
    FoldLeft(LAMBDA result, i : Pair(legs, result, i), [paired |-> {}, derived |-> <<>>],
             [i \in DOMAIN legs |-> i]).derived

OwnEvents(s, asOf, through) ==
    LET dates == InOrder(Occurrences(s, asOf, through))
    IN  [k \in DOMAIN dates |-> [date |-> dates[k], account |-> s.account, amount |-> s.amount]]

Events(schedules, balance, asOf, through) ==
    LET projected == SelectSeq(schedules, LAMBDA s : Projected(s, balance))
    IN  FlattenSeq([i \in DOMAIN projected |-> OwnEvents(projected[i], asOf, through)])
        \o Derived(TransferLegs(schedules, balance, asOf, through))

\* The end-of-day balance after each date with events, and the first lowest.
Account(account, events, start, asOf) ==
    LET own == SelectSeq(events, LAMBDA e : e.account = account)
        dates == InOrder({own[i].date : i \in DOMAIN own})
        Day(result, date) ==
          LET after == result.ending + Total(SelectSeq(own, LAMBDA e : e.date = date))
          IN  [ending |-> after,
               minimum |-> Min({after, result.minimum}),
               minimumDate |-> IF after < result.minimum THEN date ELSE result.minimumDate]
    IN  FoldLeft(Day, [ending |-> start, minimum |-> start, minimumDate |-> asOf], dates)

Forecast(schedules, balance, asOf, through) ==
    LET events == Events(schedules, balance, asOf, through)
        legs == TransferLegs(schedules, balance, asOf, through)
    IN  [accounts |-> [a \in DOMAIN balance |-> Account(a, events, balance[a], asOf)],
         complete |-> /\ \A i \in DOMAIN schedules :
                            Projected(schedules[i], balance) /\ schedules[i].next > asOf
                      /\ \A i \in DOMAIN legs : legs[i].to \in DOMAIN balance]
=============================================================================
