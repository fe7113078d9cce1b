------------------------------ MODULE CronSchedule ------------------------------
(***************************************************************************)
(* When the scans of a target run: internal/hub/cron.go, and               *)
(* Hub.runSecurityScanSchedule.  Time is counted in minutes.  What the     *)
(* local clock says of a minute is an argument, so that on a small         *)
(* instance months and years may be short, and clocks be set forward or    *)
(* back.                                                                   *)
(***************************************************************************)
EXTENDS Integers, Sequences, FiniteSetsExt

Fields == {"minute", "hour", "day", "month", "weekday"}

\* A part of a field: "*", a number, or the numbers in steps from a first one.
Any == [kind |-> "any"]
Value(n) == [kind |-> "value", n |-> n]
Step(from, by) == [kind |-> "step", from |-> from, by |-> by]

\* The first number of a step is not compared with the range.
Valid(part, min, max) ==
  CASE part.kind = "any" -> TRUE
    [] part.kind = "value" -> part.n \in min..max
    [] part.kind = "step" -> part.by > 0

Values(part, min, max) ==
  CASE part.kind = "any" -> min..max
    [] part.kind = "value" -> {part.n}
    [] part.kind = "step" -> {i \in part.from..max : (i - part.from) % part.by = 0}

\* A field is a set of parts, which is an error or allows these values.
FieldValid(parts, min, max) == \A p \in parts : Valid(p, min, max)
ParseCronField(parts, min, max) == UNION {Values(p, min, max) : p \in parts}

\* The days of the month and those of the week must both allow a minute.
Matches(spec, says) == \A f \in Fields : says[f] \in spec[f]

Never == -1

\* The minutes after this one are tried in their order, as far as the limit.
NextCronTime(spec, clock, limit, after) ==
  LET search[t \in after..(after + limit)] ==
        IF t = after + limit THEN Never
        ELSE IF Matches(spec, clock[t + 1]) THEN t + 1 ELSE search[t + 1]
  IN search[after]

\* The scans begin at the start, and then at the first time after the end of the
\* one before; when no time is found, none follows.
Scans(spec, clock, limit, start, took) ==
  LET begins[i \in 1..(Len(took) + 1)] ==
        IF i = 1 THEN start
        ELSE IF begins[i - 1] = Never THEN Never
        ELSE NextCronTime(spec, clock, limit, begins[i - 1] + took[i - 1])
  IN begins

-----------------------------------------------------------------------------
\* What a schedule is for, to be checked on bounded inputs.

\* cron.go:12, "Supports: numbers, *, */N, and comma-separated lists": a field that
\* is accepted allows something, and nothing out of range, if its steps begin
\* in range.
FieldAllows(parts, min, max) ==
  FieldValid(parts, min, max) /\ (\A p \in parts : p.kind = "step" => p.from \in min..max)
    => LET set == ParseCronField(parts, min, max)
       IN set \subseteq min..max /\ (parts # {} => set # {})

\* Until the last of these scans ends or the schedule does, a scan begins at every
\* minute the expression allows but those in which one is under way, and at no
\* other; and the schedule ends only when the next is too far away.
ScansWhenDue(spec, clock, limit, start, took) ==
  LET begins == Scans(spec, clock, limit, start, took)
      done == {i \in DOMAIN took : begins[i] # Never}
      until == Max({begins[i] + took[i] : i \in done})
      busy == UNION {begins[i]..(begins[i] + took[i]) : i \in done}
      due == {t \in start..until : Matches(spec, clock[t])}
  IN /\ due \subseteq busy
     /\ \A i \in DOMAIN begins \ {1} : begins[i] # Never =>
          /\ Matches(spec, clock[begins[i]])
          /\ begins[i] > begins[i - 1] + took[i - 1]
     /\ Never \in {begins[i] : i \in DOMAIN begins} =>
          \A t \in (until + 1)..(until + limit) : ~Matches(spec, clock[t])


\* cron.go:43, "Search up to 366 days ahead": with no gap longer than that, there
\* is always a next scan.
NeverEnds(spec, clock, limit, start, took) ==
  Never \notin {Scans(spec, clock, limit, start, took)[i] : i \in 1..(Len(took) + 1)}

=============================================================================
