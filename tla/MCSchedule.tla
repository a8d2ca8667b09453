----------------------------- MODULE MCSchedule -----------------------------
(***************************************************************************)
(* The arithmetic of Schedule against its meaning, over every small         *)
(* schedule, instant and limit.  Durations are four bits and a sign wide,   *)
(* so that saturation and wrap-around are among the cases.                  *)
(***************************************************************************)
EXTENDS Schedule, FiniteSets

CONSTANTS
    Starts, Intervals,   \* of the schedules, intervals in milliseconds
    Instants,            \* at which they are asked
    Counts, Ages,        \* limits of a backfill, 0 is none
    Delays, Multipliers, Consumed \* of the retry policies

VARIABLE question   \* what Schedule is asked, [about |-> "nothing"] at first

NoQuestion == [about |-> "nothing"]

ScheduleQuestions ==
    [about : {"schedule"}, kind : ScheduleKinds, start : Starts, interval : Intervals,
     now : Instants, maxCount : Counts, maxAge : Ages]
RetryQuestions ==
    [about : {"retry"}, policy : {"Inherit", "None", "Immediate", "Fixed", "Exponential"},
     initial : Delays, max : Delays, multiplier : Multipliers, consumed : Consumed,
     retries : {0, 1, MaxCounter - 1, MaxCounter}]

\* The engine's own delays, in force where a policy states none.
EngineDelays == [initial |-> 3, max |-> 9]

QuestionInit == question = NoQuestion
Ask == question = NoQuestion /\ question' \in ScheduleQuestions \cup RetryQuestions

-----------------------------------------------------------------------------
(* The meaning, without the arithmetic. *)

\* The effective interval: a count too large for a duration is the longest one.
Interval(q) == CHOOSE d \in 0 .. MaxDuration :
                  \/ d = q.interval * NanosPerMilli
                  \/ d = MaxDuration /\ q.interval * NanosPerMilli > MaxDuration

\* The instants up to a horizon at which the schedule fires.
Firings(q, horizon) ==
    {t \in q.start .. horizon :
        \/ q.kind = "OneShot" /\ t = q.start
        \/ /\ q.kind = "FixedInterval" /\ q.interval # 0
           /\ \E n \in 0 .. horizon - q.start : t = q.start + n * Interval(q)}

Earliest(S) == CHOOSE t \in S : \A u \in S : t <= u

\* The next occurrence is the first firing after the instant, and there is none
\* only when the schedule never fires again; the arithmetic may wrap once the
\* schedule's age and interval do not fit a duration together.
NextIsFirst(q) ==
    LET later == {t \in Firings(q, q.start + q.now + 2 * MaxDuration) : t > q.now}
    IN  q.now - q.start + Interval(q) <= MaxDuration =>
            nextOccurrence(q, q.now) = IF later = {} THEN None ELSE Some(Earliest(later))

\* The missed occurrences are the latest firings within both limits, in order;
\* what was left out is counted, so nothing is lost without a trace.
MissedAccounted(q) ==
    LET fired == Firings(q, q.now)
        young == {t \in fired : q.maxAge = 0 \/ t >= q.now - q.maxAge}
        kept == {t \in young : \/ q.maxCount = 0
                               \/ Cardinality({u \in young : u > t}) < q.maxCount}
        missed == missedOccurrences(q, q.now, q.maxCount, q.maxAge)
    IN  q.now - q.start <= MaxDuration =>
            /\ {missed.list[i] : i \in DOMAIN missed.list} = kept
            /\ \A i, j \in DOMAIN missed.list : i < j => missed.list[i] < missed.list[j]
            /\ missed.skipped = Cardinality(fired) - Len(missed.list)

\* A schedule contains exactly its firings.
ContainsFirings(q) ==
    q.now - q.start <= MaxDuration => (scheduleContains(q, q.now) <=> q.now \in Firings(q, q.now))

\* A later retry never waits less, a growing delay never exceeds its cap, and
\* the attempts are one more than the retries, unless that wraps to none.
RetriesBackOff(q) ==
    LET cap == IF q.max = 0 THEN EngineDelays.max ELSE millisDuration(q.max)
    IN  /\ retryDelay(q, q.consumed, EngineDelays) <= retryDelay(q, q.consumed + 1, EngineDelays)
        /\ q.policy \in {"Inherit", "Exponential"} => retryDelay(q, q.consumed, EngineDelays) <= cap
        /\ q.policy \in {"Immediate", "Fixed", "Exponential"} =>
              maxFunctionAttempts(q) = IF q.retries = MaxCounter THEN 0 ELSE q.retries + 1
        /\ q.policy \in {"Inherit", "None"} => maxFunctionAttempts(q) >= 1

\* The schedules mean what they say: next and missed occurrences, membership and
\* retry delays agree with their definitions for every schedule, instant and
\* limit, up to the width of a duration.
ScheduleExact ==
    /\ question.about = "schedule" =>
          NextIsFirst(question) /\ MissedAccounted(question) /\ ContainsFirings(question)
    /\ question.about = "retry" => RetriesBackOff(question)

=============================================================================
