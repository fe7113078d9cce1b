--------------------------- MODULE MCSecurityDrift ---------------------------
(***************************************************************************)
(* SecurityDrift on small instances: two ports, hysteresis of two scans    *)
(* (the default of the configuration) and one scan that misses ports.      *)
(*                                                                         *)
(* The schedule of the scans is checked on a calendar with two minutes in  *)
(* an hour, two hours in a day, three days in a week, two days in a month  *)
(* and two months in a year, where every second year has a leap day.       *)
(***************************************************************************)
EXTENDS SecurityDrift, TLC

Cron == INSTANCE CronSchedule

ASSUME FieldsAllow ==
  LET parts == {Cron!Any} \cup {Cron!Value(n) : n \in 0..5}
                 \cup {Cron!Step(from, by) : from \in 0..5, by \in 0..3}
  IN \A p, q \in parts : Cron!FieldAllows({p, q}, 1, 4)

\* The months and days of two years.
Dates == << <<1, 1>>, <<1, 2>>, <<2, 1>>, <<2, 2>>, <<2, 3>>, <<1, 1>>, <<1, 2>>, <<2, 1>>, <<2, 2>> >>
LeapDay == 3
LongestYear == 5 * 4

Calendar ==
  [t \in 0..120 |->
     LET days == t \div 4
         date == Dates[(days % 9) + 1]
     IN [minute |-> t % 2, hour |-> (t \div 2) % 2, day |-> date[2], month |-> date[1],
         weekday |-> days % 3]]

\* The clock is set forward by an hour, and back.
Shifted == [t \in 0..118 |-> Calendar[IF t \in 11..42 THEN t + 2 ELSE t]]

Specs ==
  [minute : SUBSET (0..1) \ {{}}, hour : SUBSET (0..1) \ {{}}, day : SUBSET (1..3) \ {{}},
   month : SUBSET (1..2) \ {{}}, weekday : SUBSET (0..2) \ {{}}]

ASSUME ScheduleKept ==
  \A spec \in Specs, clock \in {Calendar, Shifted}, start \in {0, 7}, took \in [1..3 -> {0, 3}] :
    Cron!ScansWhenDue(spec, clock, LongestYear, start, took)

\* Whatever time of a day that every year has, and whatever the weekday.
ASSUME ScheduleLives ==
  \A spec \in Specs, start \in 0..19, took \in [1..3 -> {0, 3}] :
    spec.weekday = 0..2 /\ spec.day # {LeapDay}
      => Cron!NeverEnds(spec, Calendar, LongestYear, start, took)

=============================================================================
