------------------------------ MODULE Schedule ------------------------------
(***************************************************************************)
(* When a job runs and how long a retry waits: the arithmetic of the        *)
(* engine's schedules on durations of a fixed width.  Instants are          *)
(* integers; a duration saturates where the code saturates it and wraps     *)
(* where the code multiplies without a check.                               *)
(***************************************************************************)
EXTENDS Integers, Sequences

CONSTANTS MaxDuration,      \* the largest duration: 2^63 - 1 in the program
          MaxCounter,       \* the largest counter: 2^32 - 1 in the program
          NanosPerMilli     \* duration units per wire millisecond

ScheduleKinds == {"OneShot", "FixedInterval", "Unknown"}

\* The widest interval that fits a duration.
maxIntervalMillis == MaxDuration \div NanosPerMilli

\* A product of durations wraps; a difference of instants saturates.
Wrapped(d) == ((d + MaxDuration + 1) % (2 * MaxDuration + 2)) - MaxDuration - 1
Sub(t, u) == IF t - u > MaxDuration THEN MaxDuration
             ELSE IF t - u < -MaxDuration - 1 THEN -MaxDuration - 1 ELSE t - u
WrappedCounter(n) == n % (MaxCounter + 1)

millisDuration(millis) ==
    IF millis > maxIntervalMillis THEN MaxDuration ELSE millis * NanosPerMilli

occurrenceCount(periods) == IF periods < 0 THEN 0 ELSE periods

\* A fixed interval of zero is no schedule.
HasInterval(spec) == spec.kind = "FixedInterval" /\ spec.interval # 0
scheduleInterval(spec) == millisDuration(spec.interval)

\* The Go remainder of a duration that is not negative.
scheduleContains(spec, occurrence) ==
    \/ spec.kind = "OneShot" /\ occurrence = spec.start
    \/ /\ HasInterval(spec)
       /\ occurrence >= spec.start
       /\ Sub(occurrence, spec.start) % scheduleInterval(spec) = 0

None == [exists |-> FALSE, at |-> 0]
Some(t) == [exists |-> TRUE, at |-> t]

\* The first occurrence after an instant.
nextOccurrence(spec, after) ==
    LET interval == scheduleInterval(spec)
        periods == (Sub(after, spec.start) \div interval) + 1
    IN  CASE spec.kind = "OneShot" ->
                IF spec.start > after THEN Some(spec.start) ELSE None
          [] HasInterval(spec) ->
                IF spec.start > after THEN Some(spec.start)
                ELSE Some(spec.start + Wrapped(periods * interval))
          [] OTHER -> None

Missed(list, skipped) == [list |-> list, skipped |-> skipped]

\* Broken variant: the walk back stops only at the start of the schedule.
WalkBackWhole(start, last, interval, maxCount, oldest) == (last - start) \div interval + 1

\* How many occurrences the walk back from the last one collects: down to the
\* start, to the count and to the age that are allowed.
WalkBack(start, last, interval, maxCount, oldest) ==
    LET stops(n) == \/ last - n * interval < start
                    \/ maxCount > 0 /\ n >= maxCount
                    \/ oldest.exists /\ last - n * interval < oldest.at
    IN  CHOOSE n \in 0 .. (last - start) \div interval + 1 :
            stops(n) /\ \A m \in 0 .. n - 1 : ~stops(m)

\* The occurrences up to an instant, oldest first, no more than maxCount and
\* none older than maxAge (0 is no limit), and how many were passed over.
missedOccurrences(spec, until, maxCount, maxAge) ==
    LET interval == scheduleInterval(spec)
        elapsed == Sub(until, spec.start)
        total == occurrenceCount(elapsed \div interval) + 1
        last == spec.start + (elapsed - (elapsed % interval))
        oldest == IF maxAge > 0 THEN Some(until - maxAge) ELSE None
        count == WalkBack(spec.start, last, interval, maxCount, oldest)
    IN  CASE spec.start > until -> Missed(<<>>, 0)
          [] spec.start <= until /\ spec.kind = "OneShot" ->
                IF maxAge > 0 /\ elapsed > maxAge THEN Missed(<<>>, 1)
                ELSE Missed(<<spec.start>>, 0)
          [] spec.start <= until /\ HasInterval(spec) ->
                Missed([i \in 1 .. count |-> last - (count - i) * interval], total - count)
          [] OTHER -> Missed(<<>>, 0)

\* The caps a job's backfill runs under: its own, never beyond the engine's.
\* The count and age of the job are 0 when it states none.
MaxBackfillCount(own, capped) ==
    IF own = 0 \/ (capped > 0 /\ own > capped) THEN capped ELSE own
MaxBackfillAge(own, capped) ==
    LET age == millisDuration(own)
    IN  IF age <= 0 \/ (capped > 0 /\ age > capped) THEN capped ELSE age

-----------------------------------------------------------------------------
(* Retries.  A multiplier is a whole number here; one the code cannot use   *)
(* (at most 1, or not a number) is 0.                                       *)

DefaultMaxRetries == 3
DefaultRetryMultiplier == 2

maxFunctionAttempts(spec) ==
    CASE spec.policy = "None" -> 1
      [] spec.policy \in {"Immediate", "Fixed", "Exponential"} -> WrappedCounter(spec.retries + 1)
      [] OTHER -> DefaultMaxRetries + 1

\* A delay is computed as a float and is never beyond the largest one allowed.
AtMost(scaled, maxDelay) == IF scaled > maxDelay THEN maxDelay ELSE scaled

retryDelay(spec, consumed, cfg) ==
    LET initial == IF millisDuration(spec.initial) <= 0 THEN cfg.initial
                   ELSE millisDuration(spec.initial)
        maxDelay == IF millisDuration(spec.max) <= 0 THEN cfg.max
                    ELSE millisDuration(spec.max)
        multiplier == IF spec.multiplier <= 1 THEN DefaultRetryMultiplier
                      ELSE spec.multiplier
        exponent == IF consumed - 1 < 0 THEN 0 ELSE consumed - 1
    IN  CASE spec.policy \in {"Immediate", "None"} -> 0
          [] spec.policy = "Fixed" -> initial
          [] spec.policy \in {"Inherit", "Exponential"} ->
                AtMost(initial * multiplier ^ exponent, maxDelay)
          [] OTHER -> initial

=============================================================================
