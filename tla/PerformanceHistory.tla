------------------------- MODULE PerformanceHistory -------------------------
(***************************************************************************)
(* How PerformanceAnalysisService (application/services/                   *)
(* performance_analysis_service.rs) turns samples into what is decided by  *)
(* in AdaptiveStreaming.  There are four windows of the latest samples; a  *)
(* report is made from whole windows, the context for priorities partly    *)
(* from the last sample of one.                                            *)
(*                                                                         *)
(* A sample leaves its window when enough samples of its kind have come    *)
(* after it, and no other way: history_retention_duration is never read.   *)
(* Fractions are compared, not rounded.  Left out: to whom a sample        *)
(* belongs, memory and connections, and the texts of reports.              *)
(***************************************************************************)
EXTENDS Naturals, FiniteSets, SequencesExt

CONSTANTS
  Window,      \* sample_window_size, 100 by default
  FewSamples,  \* 10: fewer make a recommendation less sure
  Latencies,
  Transfers,   \* records of bits and time, which may be zero
  Cpus,
  Batches      \* sequences of frames with a priority and a size

VARIABLES
  latencies, transfers, errors, resources,  \* MetricsHistory
  ever  \* history: how many errors there were, counted up to Window

vars == << latencies, transfers, errors, resources, ever >>

Sum(s) == FoldSeq(LAMBDA x, y : x + y, 0, s)

-----------------------------------------------------------------------------
(* Recording *)

Init ==
  /\ latencies = << >> /\ transfers = << >>
  /\ errors = << >> /\ resources = << >>
  /\ ever = 0

\* add_latency_sample and its like
Push(window, sample) ==
  Append(IF Len(window) >= Window THEN Tail(window) ELSE window, sample)

RecordLatency ==
  /\ \E latency \in Latencies : latencies' = Push(latencies, latency)
  /\ UNCHANGED << transfers, errors, resources, ever >>

RecordThroughput ==
  /\ \E transfer \in Transfers : transfers' = Push(transfers, transfer)
  /\ UNCHANGED << latencies, errors, resources, ever >>

RecordError ==
  /\ errors' = Push(errors, "error")
  /\ ever' = IF ever < Window THEN ever + 1 ELSE ever
  /\ UNCHANGED << latencies, transfers, resources >>

RecordResourceUsage ==
  /\ \E cpu \in Cpus : resources' = Push(resources, cpu)
  /\ UNCHANGED << latencies, transfers, errors, ever >>

\* StreamOrchestrator::record_performance_metrics, under one lock
RecordPerformanceMetrics ==
  /\ \E latency \in Latencies : latencies' = Push(latencies, latency)
  /\ \E transfer \in Transfers : transfers' = Push(transfers, transfer)
  /\ UNCHANGED << errors, resources, ever >>

Next ==
  \/ RecordLatency \/ RecordThroughput \/ RecordError \/ RecordResourceUsage
  \/ RecordPerformanceMetrics

Spec == Init /\ [][Next]_vars

-----------------------------------------------------------------------------
(* Analysing *)

Ratio(n, d)  == [n |-> n, d |-> d]
AtMost(x, y) == x.n * y.d <= y.n * x.d

\* analyze_latency_metrics: a percentile of sorted samples
Percentile(sorted, p) == sorted[(p * Len(sorted)) \div 100 + 1]

\* Mutant: the windows are taken to be full.
AverageOfFull(s) == Ratio(Sum(s), Window)

\* calculate_latency_statistics, and the averages of the reports
Average(s) == Ratio(Sum(s), Len(s))

LatencyAnalysis ==
  LET sorted == SortSeq(latencies, <)
  IN  [average |-> Average(latencies), min |-> Head(sorted), max |-> Last(sorted),
       p50 |-> Percentile(sorted, 50), p95 |-> Percentile(sorted, 95),
       p99 |-> Percentile(sorted, 99)]

\* Throughput is zero when no time has passed.
Mbps(bits, time) == IF time > 0 THEN Ratio(bits, time) ELSE Ratio(0, 1)

\* calculate_throughput_statistics and analyze_throughput_metrics
CurrentMbps == Mbps(Last(transfers).bits, Last(transfers).time)

AverageMbps ==
  Mbps(Sum([i \in DOMAIN transfers |-> transfers[i].bits]),
       Sum([i \in DOMAIN transfers |-> transfers[i].time]))

Operations == Len(latencies) + Len(transfers)

\* calculate_error_statistics, for the context: errors per operation ...
ContextRate == IF Operations > 0 THEN Ratio(Len(errors), Operations) ELSE Ratio(0, 1)

\* ... and analyze_error_metrics, for the report: errors per sample
ReportRate ==
  IF errors = << >> THEN Ratio(0, 1) ELSE Ratio(Len(errors), Len(errors) + Operations)

\* analyze_resource_metrics for the report, calculate_resource_statistics for
\* the context: both go by the last sample, and the average is only shown.
CurrentCpu == Last(resources)
AverageCpu == Average(resources)

\* calculate_recommendation_confidence, in percent
Confidence ==
  ((IF AtMost(ContextRate, Ratio(1, 10)) THEN 100 ELSE 60)
     * (IF Len(latencies) < FewSamples THEN 70 ELSE 100)) \div 100

\* Mutant: the middle one as they come.
MedianUnsorted(sizes) == IF sizes = << >> THEN 0 ELSE sizes[Len(sizes) \div 2 + 1]

\* The greater one of two in the middle
Median(sizes) ==
  IF sizes = << >> THEN 0 ELSE SortSeq(sizes, <)[Len(sizes) \div 2 + 1]

\* calculate_distribution_efficiency: five levels are all there are
DistributionEfficiency(distribution, total) ==
  IF total = 0 \/ Cardinality(DOMAIN distribution) >= 5 THEN Ratio(1, 1)
  ELSE Ratio(Cardinality(DOMAIN distribution), 5)

\* analyze_frame_distribution, for frames with a priority and a size
FrameDistribution(frames) ==
  LET sizes == [i \in DOMAIN frames |-> frames[i].size]
      distribution == [p \in {f.priority : f \in ToSet(frames)} |->
                         Cardinality({i \in DOMAIN frames : frames[i].priority = p})]
  IN  [total |-> Len(frames), bytes |-> Sum(sizes), median |-> Median(sizes),
       average |-> IF frames = << >> THEN Ratio(0, 1) ELSE Average(sizes),
       priorities |-> distribution,
       efficiency |-> DistributionEfficiency(distribution, Len(frames))]

-----------------------------------------------------------------------------
(* Properties *)

TypeOK ==
  /\ latencies \in Seq(Latencies) /\ transfers \in Seq(Transfers) /\ resources \in Seq(Cpus)
  /\ {Len(latencies), Len(transfers), Len(resources)} \subseteq 0 .. Window
  /\ Len(errors) = ever
  /\ Confidence \in {42, 60, 70, 100}

\* For a score of samples as for a full window, there is a sample where a
\* percentile is looked up, at least so many percent are no greater, and no
\* more than so many less.
PercentilesAreRight ==
  latencies = << >> /\ ever = 0 =>   \* it is the same in every state
  \A n \in (1 .. 21) \cup {99, 100}, p \in {50, 95, 99} :
    LET found == Percentile([i \in 1 .. n |-> i], p)
    IN  100 * found >= p * n /\ 100 * (found - 1) <= p * n

\* Averages lie between what they are the averages of; that of the throughput
\* only while every transfer took some time: the bits of one that took none
\* are counted and inflate it.  Where the report takes an average and the
\* context the last sample, they agree at least on the first.
AveragesAreBetween ==
  /\ Len(transfers) = 1 => AverageMbps = CurrentMbps
  /\ Len(resources) = 1 => AverageCpu = Ratio(CurrentCpu, 1)
  /\ latencies # << >> =>
       LET a == LatencyAnalysis
       IN  /\ AtMost(Ratio(a.min, 1), a.average) /\ AtMost(a.average, Ratio(a.max, 1))
           /\ a.p50 <= a.p95 /\ a.p95 <= a.p99 /\ a.p99 <= a.max
  /\ resources # << >> =>
       \E low, high \in ToSet(resources) :
         AtMost(Ratio(low, 1), AverageCpu) /\ AtMost(AverageCpu, Ratio(high, 1))
  /\ transfers # << >> /\ (\A t \in ToSet(transfers) : t.time > 0) =>
       /\ \E t \in ToSet(transfers) : AtMost(Ratio(t.bits, t.time), AverageMbps)
       /\ \E t \in ToSet(transfers) : AtMost(AverageMbps, Ratio(t.bits, t.time))

\* What the report calls an alarming error rate, more than a tenth, is more
\* than that for the context as well, which raises thresholds; unless no
\* operation was ever recorded, when the context has no errors at all.
AlarmsAreShared ==
  Operations > 0 /\ ~AtMost(ReportRate, Ratio(1, 10)) => ~AtMost(ContextRate, Ratio(1, 10))

\* Errors are forgotten for newer errors only.  After a window full of them
\* no success brings the rate below a half, or a third in the report, again:
\* thresholds stay raised for good.
ErrorsAreNotOutlived ==
  ever = Window =>
    /\ Operations > 0 => AtMost(Ratio(1, 2), ContextRate)
    /\ AtMost(Ratio(1, 3), ReportRate)

\* What is said of a batch does not hang on the order of its frames.  Half of
\* them are no larger than the median and half no smaller; they are counted
\* once each; and the batch is as efficient as any only with five priorities.
BatchesAreToldRight ==
  latencies = << >> /\ ever = 0 =>   \* it is the same in every state
  \A frames \in Batches \ {<< >>} :
    LET told == FrameDistribution(frames)
        Share(Small(_)) == 2 * Cardinality({i \in DOMAIN frames : Small(frames[i].size)})
        size(p) == told.priorities[p]
    IN  /\ FrameDistribution(Reverse(frames)) = told
        /\ Share(LAMBDA s : s <= told.median) >= told.total
        /\ Share(LAMBDA s : s >= told.median) >= told.total
        /\ \E f, g \in ToSet(frames) : /\ AtMost(Ratio(f.size, 1), told.average)
                                      /\ AtMost(told.average, Ratio(g.size, 1))
        /\ MapThenSumSet(size, DOMAIN told.priorities) = told.total
        /\ told.efficiency = Ratio(1, 1) <=> Cardinality(DOMAIN told.priorities) >= 5

HistoryIsTold ==
  /\ PercentilesAreRight /\ AveragesAreBetween /\ BatchesAreToldRight
  /\ AlarmsAreShared /\ ErrorsAreNotOutlived
=============================================================================
