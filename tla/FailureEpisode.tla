--------------------------- MODULE FailureEpisode ---------------------------
(***************************************************************************)
(* base/src/logger/episode.rs: what is logged of a run of failures, the    *)
(* first at once, then a summary per interval, and the recovery.           *)
(*                                                                         *)
(* The caller passes the time, so it may go back (elapsed is then zero).   *)
(* The u64 counters saturate at CounterMax.                                *)
(***************************************************************************)
EXTENDS Integers

CONSTANTS SummaryInterval,  \* summary_interval
          CounterMax,       \* u64::MAX
          MaxTime, MaxFailures,   \* bounds
          Never             \* no time: Option::None

\* FailureEpisode::new asserts the first.
EpisodeAssumption ==
    /\ SummaryInterval \in Nat \ {0}
    /\ CounterMax \in Nat \ {0}
    /\ MaxTime \in Nat /\ MaxFailures \in Nat
    /\ Never \notin Nat

VARIABLES
    startedAt, lastSummaryAt,
    total, suppressedTotal, suppressedSince,
    decision,    \* what the last call returned, and the numbers in it
    failures,    \* failures recorded in the episode so far
    summaries,   \* summaries given in it
    covered      \* failures the start and the summaries account for

episodeVars == <<startedAt, lastSummaryAt, total, suppressedTotal, suppressedSince,
                 decision, failures, summaries, covered>>

SaturatingAdd(n, k) == IF n + k < CounterMax THEN n + k ELSE CounterMax

Elapsed(now, earlier) == IF now > earlier THEN now - earlier ELSE 0

Reset ==
    /\ startedAt' = Never /\ lastSummaryAt' = Never
    /\ total' = 0 /\ suppressedTotal' = 0 /\ suppressedSince' = 0
    /\ failures' = 0 /\ summaries' = 0 /\ covered' = 0

EpisodeInit ==
    /\ startedAt = Never /\ lastSummaryAt = Never
    /\ total = 0 /\ suppressedTotal = 0 /\ suppressedSince = 0
    /\ failures = 0 /\ summaries = 0 /\ covered = 0
    /\ decision = [is |-> "healthy"]

\* record_failure: the first of an episode ...
StartEpisode(now) ==
    /\ startedAt = Never
    /\ startedAt' = now /\ lastSummaryAt' = now
    /\ total' = 1
    /\ decision' = [is |-> "started"]
    /\ failures' = 1 /\ covered' = 1
    /\ UNCHANGED <<suppressedTotal, suppressedSince, summaries>>

SummaryDue(now) == Elapsed(now, lastSummaryAt) >= SummaryInterval

\* Mutant of Summarize: what was suppressed is told again next time.
SummarizeAgain(now) ==
    /\ startedAt # Never /\ failures < MaxFailures /\ SummaryDue(now)
    /\ total' = SaturatingAdd(total, 1)
    /\ lastSummaryAt' = now
    /\ decision' = [is |-> "summary", total |-> total', suppressed |-> suppressedSince,
                    sinceLast |-> SaturatingAdd(suppressedSince, 1)]
    /\ failures' = failures + 1 /\ summaries' = summaries + 1
    /\ covered' = covered + decision'.sinceLast
    /\ UNCHANGED <<startedAt, suppressedTotal, suppressedSince>>

\* ... one after the interval, which accounts for those before it ...
Summarize(now) ==
    /\ startedAt # Never /\ failures < MaxFailures /\ SummaryDue(now)
    /\ total' = SaturatingAdd(total, 1)
    /\ suppressedSince' = 0
    /\ lastSummaryAt' = now
    /\ decision' = [is |-> "summary", total |-> total', suppressed |-> suppressedSince,
                    sinceLast |-> SaturatingAdd(suppressedSince, 1)]
    /\ failures' = failures + 1 /\ summaries' = summaries + 1
    /\ covered' = covered + decision'.sinceLast
    /\ UNCHANGED <<startedAt, suppressedTotal>>

\* ... or one within it.
Suppress(now) ==
    /\ startedAt # Never /\ failures < MaxFailures /\ ~SummaryDue(now)
    /\ total' = SaturatingAdd(total, 1)
    /\ suppressedTotal' = SaturatingAdd(suppressedTotal, 1)
    /\ suppressedSince' = SaturatingAdd(suppressedSince, 1)
    /\ decision' = [is |-> "suppressed"]
    /\ failures' = failures + 1
    /\ UNCHANGED <<startedAt, lastSummaryAt, summaries, covered>>

RecordSuccess ==
    \/ /\ startedAt = Never
       /\ decision' = [is |-> "healthy"]
       /\ UNCHANGED <<startedAt, lastSummaryAt, total, suppressedTotal, suppressedSince,
                      failures, summaries, covered>>
    \/ /\ startedAt # Never
       /\ decision' = [is |-> "recovered", total |-> total, suppressed |-> suppressedTotal]
       /\ Reset

\* reset, called by itself, drops the episode without a word.
Forget == Reset /\ UNCHANGED decision

EpisodeNext ==
    \/ \E now \in 0..MaxTime : StartEpisode(now) \/ Summarize(now) \/ Suppress(now)
    \/ RecordSuccess \/ Forget

EpisodeSpec == EpisodeInit /\ [][EpisodeNext]_episodeVars

----------------------------------------------------------------------------
\* Every failure of an episode is told exactly once and none is invented,
\* whatever the clock does: the start and the summaries account for all but
\* the ones suppressed since, the totals that a recovery will report are the
\* failures recorded and the ones that got no line of their own, and counters
\* at their limit stay there.
EveryFailureCounted ==
    /\ startedAt = Never => failures = 0 /\ total = 0 /\ suppressedTotal = 0 /\ suppressedSince = 0
    /\ total = SaturatingAdd(failures, 0)
    /\ startedAt # Never =>
          /\ suppressedTotal = SaturatingAdd(failures - 1 - summaries, 0)
          /\ failures < CounterMax => covered + suppressedSince = failures
          /\ suppressedSince <= suppressedTotal
=============================================================================
