----------------------------- MODULE ScheduleRules -----------------------------
(***************************************************************************)
(* When a schedule of a node is due: novbot-core/src/schedule.rs.  Times   *)
(* are seconds since 1970; a cron expression is a sequence of five fields, *)
(* a field is the set of its comma-separated parts.                        *)
(***************************************************************************)
EXTENDS Integers, Sequences

\* The parts of a field: `*` alone, */n, lo-hi, start/n, n, and what no rule reads.
Star == [kind |-> "star"]
Every(n) == [kind |-> "every", step |-> n]
Span(lo, hi) == [kind |-> "range", lo |-> lo, hi |-> hi]
From(start, n) == [kind |-> "from", start |-> start, step |-> n]
One(n) == [kind |-> "one", value |-> n]
Unread == [kind |-> "unread"]

PartMatches(p, value, min, max) ==
    CASE p.kind = "every" -> p.step > 0 /\ value >= min /\ (value - min) % p.step = 0
      [] p.kind = "range" -> p.lo <= value /\ value <= p.hi
      [] p.kind = "from" -> /\ p.step > 0 /\ value >= p.start /\ value <= max
                            /\ (value - p.start) % p.step = 0
      [] p.kind = "one" -> p.value = value
      [] OTHER -> FALSE

\* A star is one only if it is the whole field.
FieldMatch(field, value, min, max) ==
    field = {Star} \/ \E p \in field : PartMatches(p, value, min, max)

\* The civil date of a day counted from 0000-03-01, by Hinnant's algorithm.
CivilFromDays(z) ==
    LET era == z \div 146097
        doe == z - era * 146097
        yoe == (doe - doe \div 1460 + doe \div 36524 - doe \div 146096) \div 365
        doy == doe - (365 * yoe + yoe \div 4 - yoe \div 100)
        mp == (5 * doy + 2) \div 153
    IN  [day |-> doy - (153 * mp + 2) \div 5 + 1, month |-> IF mp < 10 THEN mp + 3 ELSE mp - 9]

UtcParts(secs) ==
    LET days == secs \div 86400
        date == CivilFromDays(days + 719468)
    IN  [minute |-> (secs % 3600) \div 60, hour |-> (secs % 86400) \div 3600,
         day |-> date.day, month |-> date.month, weekday |-> (days + 4) % 7]

CronMatches(cron, secs) ==
    LET utc == UtcParts(secs)
    IN  /\ Len(cron) = 5
        /\ FieldMatch(cron[1], utc.minute, 0, 59)
        /\ FieldMatch(cron[2], utc.hour, 0, 23)
        /\ FieldMatch(cron[3], utc.day, 1, 31)
        /\ FieldMatch(cron[4], utc.month, 1, 12)
        /\ FieldMatch(cron[5], utc.weekday, 0, 6)

Minute(secs) == secs \div 60

\* A schedule names a spec and has an interval, a cron expression or both.  The
\* time of a spec that has not run is 0, so that it is due at once.
Never == 0
NoInterval == -1
NoCron == <<>>

IntervalDue(s, last, now) ==
    /\ s.interval # NoInterval
    /\ now - last >= IF s.interval = 0 THEN 1 ELSE s.interval

\* Mutant: a minute ago, instead of in another minute.
CronDueAfter(s, last, now) ==
    CronMatches(s.cron, now) /\ now - last >= 60

\* Mutant: as often as it is looked at.
CronDueAlways(s, last, now) == CronMatches(s.cron, now)

CronDue(s, last, now) ==
    CronMatches(s.cron, now) /\ (Minute(now) > Minute(last) \/ last = Never)

ScheduleDue(s, last, now) == IntervalDue(s, last, now) \/ CronDue(s, last, now)
=============================================================================
