-------------------------- MODULE AdaptiveStreaming --------------------------
(***************************************************************************)
(* StreamOrchestrator (application/services/stream_orchestrator.rs) and    *)
(* the services it asks: prioritisation, optimisation, performance         *)
(* analysis.  They turn measurements into the two numbers of a command     *)
(* that generates frames, the priority below which nothing is sent and the *)
(* most frames to send, and into adjustments of a session's threshold.  An *)
(* older StreamingService (application/services/streaming_service.rs) does *)
(* the same with rules of its own, on the same sessions.                   *)
(*                                                                         *)
(* Latency is in milliseconds, bandwidth in tenths of Mbps, the error rate *)
(* per mille, CPU use in percent: every comparison of the code falls       *)
(* between two of the values used.  Fractions are exact here, and rounded  *)
(* down where the code casts to usize; estimates count in ten-thousandths.   *)
(* How samples are averaged into a context is in PerformanceHistory; p99   *)
(* latency is taken to be twice the average.                               *)
(***************************************************************************)
EXTENDS Naturals, Sequences, FiniteSetsExt, SequencesExt

CONSTANTS
  Latency, Bandwidth, ErrorRate, Cpu, Streams,
  CustomPlans,  \* strategies registered before the service is shared
  Batches       \* sequences of frames that commands may have generated

VARIABLES
  context,    \* PerformanceContext, or the metrics, as measured last
  strategy,   \* PrioritizationService::strategy
  adjusting,  \* auto_adjust_priorities: what is still to be applied, in order
  threshold   \* the session's threshold, 0 before it is ever adjusted

vars == << context, strategy, adjusting, threshold >>

Context == [latency : Latency, bandwidth : Bandwidth, errors : ErrorRate, cpu : Cpu]

\* Priority, and its arithmetic in u8 without zero.
Critical == 100
High     == 80
Medium   == 50
Low      == 25

Raise(p, delta) == Min({p + delta, 255})
Lower(p, delta) == IF p > delta THEN p - delta ELSE 1

-----------------------------------------------------------------------------
(* PrioritizationService *)

Conservative(x) ==
  LET base == IF x.errors > 20 \/ x.latency > 500 THEN Critical ELSE High
  IN  IF x.cpu > 70 THEN Raise(base, 10) ELSE base

Balanced(x) ==
  LET base == IF x.latency > 1000 THEN High ELSE IF x.latency < 100 THEN Low ELSE Medium
      sent == IF x.bandwidth < 10 THEN Raise(base, 20)
              ELSE IF x.bandwidth > 100 THEN Lower(base, 10) ELSE base
  IN  IF x.errors > 50 THEN Raise(sent, 30) ELSE sent

Aggressive(x) ==
  LET base == IF x.errors > 100 \/ x.latency > 2000 THEN High
              ELSE IF x.errors > 50 THEN Medium ELSE Low
  IN  IF x.bandwidth < 5 THEN Raise(base, 40) ELSE base

\* Custom rules, with the default thresholds.
Rules == [latency |-> 500, bandwidth |-> 50, errors |-> 30, boost |-> 20, reduction |-> 10]

Custom(x) ==
  LET boosts == (IF x.latency > Rules.latency THEN 1 ELSE 0)
                  + (IF x.bandwidth < Rules.bandwidth THEN 1 ELSE 0)
                  + (IF x.errors > Rules.errors THEN 1 ELSE 0)
      boosted == Raise(Medium, boosts * Rules.boost)
      excellent == /\ 2 * x.latency < Rules.latency
                   /\ x.bandwidth > 2 * Rules.bandwidth
                   /\ 2 * x.errors < Rules.errors
  IN  IF excellent THEN Lower(boosted, Rules.reduction) ELSE boosted

Strategy == {"Conservative", "Balanced", "Aggressive", "Custom"}

\* Mutant: good bandwidth is credited once more, and an error rate that is
\* no longer alarming then weighs less than none.
AdaptivePriorityTwice(s, x) ==
  CASE s = "Conservative" -> Conservative(x)
    [] s = "Balanced"     -> IF x.bandwidth > 100 /\ x.errors > 20
                             THEN Lower(Balanced(x), 10) ELSE Balanced(x)
    [] s = "Aggressive"   -> Aggressive(x)
    [] s = "Custom"       -> Custom(x)

\* calculate_adaptive_priority
AdaptivePriority(s, x) ==
  CASE s = "Conservative" -> Conservative(x)
    [] s = "Balanced"     -> Balanced(x)
    [] s = "Aggressive"   -> Aggressive(x)
    [] s = "Custom"       -> Custom(x)

\* calculate_global_priority: no stream at all counts as more than fifty.
GlobalPriority(s, x, streams) ==
  Raise(AdaptivePriority(s, x),
        CASE streams \in 1 .. 3   -> 0
          [] streams \in 4 .. 10  -> 10
          [] streams \in 11 .. 50 -> 20
          [] OTHER                -> 30)

\* The three analyses, in the order in which they are made and applied.
LatencyAdjustment(x) ==
  IF x.latency > 1500 THEN << [threshold |-> Critical] >>
  ELSE IF x.latency < 100 THEN << [threshold |-> Low] >> ELSE << >>

ThroughputAdjustment(x) ==
  IF x.bandwidth < 10 /\ x.errors < 20 THEN << [threshold |-> Low] >>
  ELSE IF x.bandwidth > 500 THEN << [threshold |-> Medium] >> ELSE << >>

ErrorAdjustment(x) ==
  IF x.errors > 100 THEN << [threshold |-> Critical] >>
  ELSE IF x.errors < 1 THEN << [threshold |-> Low] >> ELSE << >>

\* Mutant: the errors are looked at first.
AdjustmentsErrorsFirst(x) ==
  ErrorAdjustment(x) \o LatencyAdjustment(x) \o ThroughputAdjustment(x)

Adjustments(x) == LatencyAdjustment(x) \o ThroughputAdjustment(x) \o ErrorAdjustment(x)

-----------------------------------------------------------------------------
(* PerformanceAnalysisService *)

\* calculate_optimal_batch_size, of a base size of ten
OptimalBatch(x) ==
  LET latency   == IF x.latency < 50 THEN 8 ELSE IF x.latency > 500 THEN 15 ELSE 10
      bandwidth == Min({Max({2 * x.bandwidth, 50}), 200})
      cpu       == IF x.cpu > 80 THEN 7 ELSE 10
      errors    == IF x.errors > 50 THEN 8 ELSE 10
      size      == (10 * latency * bandwidth * cpu * errors) \div 100000
  IN  Min({Max({size, 1}), 1000})

\* calculate_performance_score
Score(x) ==
  LET points ==
        (IF x.latency > 1000 THEN 30 ELSE IF x.latency > 500 THEN 15 ELSE 0)
          + (IF x.bandwidth < 10 THEN 20 ELSE IF x.bandwidth < 50 THEN 10 ELSE 0)
          + (IF x.errors > 100 THEN 40 ELSE IF x.errors > 50 THEN 20 ELSE 0)
          + (IF x.cpu > 90 THEN 15 ELSE IF x.cpu > 80 THEN 5 ELSE 0)
  IN  IF points > 100 THEN 0 ELSE 100 - points

\* identify_performance_issues, with the default thresholds
Issues(x) ==
  (IF x.latency > 2000 THEN {"High Latency"} ELSE {})
    \cup (IF x.bandwidth < 10 THEN {"Low Throughput"} ELSE {})
    \cup (IF x.errors > 100 THEN {"High Error Rate"} ELSE {})
    \cup (IF x.cpu > 90 THEN {"High CPU Usage"} ELSE {})

\* generate_recommendations: nothing is recommended against a busy processor.
Remedies(issues) ==
  (IF "High Latency" \in issues THEN {"Priority Optimization"} ELSE {})
    \cup (IF "Low Throughput" \in issues THEN {"Batch Optimization"} ELSE {})
    \cup (IF "High Error Rate" \in issues THEN {"Reliability Improvement"} ELSE {})

\* analyze_performance
Report(x) == [score |-> Score(x), issues |-> Issues(x), remedies |-> Remedies(Issues(x))]

-----------------------------------------------------------------------------
(* OptimizationService *)

\* OptimizationStrategy: what to send, in frames of at most so many KB and
\* batches of so many, and the latency and throughput aimed at
Plan(threshold0, size, batch, compress, adaptive, latency, bandwidth) ==
  [threshold |-> threshold0, size |-> size, batch |-> batch, compress |-> compress,
   adaptive |-> adaptive, latency |-> latency, bandwidth |-> bandwidth]

UseCases ==
  [RealTimeDashboard |-> Plan(High, 16, 5, FALSE, TRUE, 100, 50),
   BulkDataTransfer  |-> Plan(Medium, 256, 20, TRUE, FALSE, 1000, 500),
   MobileApp         |-> Plan(High, 8, 3, TRUE, TRUE, 300, 20),
   ProgressiveWebApp |-> Plan(Critical, 32, 8, TRUE, TRUE, 200, 100),
   IoTDevice         |-> Plan(Critical, 4, 2, TRUE, FALSE, 500, 10),
   LiveStreaming     |-> Plan(High, 64, 10, TRUE, TRUE, 500, 200)]

BuiltIn == Range(UseCases)

\* get_strategy_for_use_case: a name nobody registered is an error, and there
\* is no command then.
Plans == BuiltIn \cup CustomPlans

\* Mutant: batches grow with the latency.
OptimizedBackwards(u, x) ==
  [u EXCEPT
    !.threshold = IF x.errors > 50 THEN Raise(@, 20)
                  ELSE IF x.errors < 10 /\ x.latency < 100 THEN Lower(@, 10) ELSE @,
    !.batch     = IF x.latency > 1000 THEN (13 * @) \div 10 ELSE @]

\* Mutant: the threshold is lowered while the latency is still alarming for a
\* dashboard.
OptimizedEarly(u, x) ==
  [u EXCEPT !.threshold = IF x.errors > 50 THEN Raise(@, 20)
                          ELSE IF x.errors < 10 /\ x.latency < 1000 THEN Lower(@, 10) ELSE @]

\* optimize_strategy_for_context
Optimized(u, x) ==
  [u EXCEPT
    !.threshold = IF x.errors > 50 THEN Raise(@, 20)
                  ELSE IF x.errors < 10 /\ x.latency < 100 THEN Lower(@, 10) ELSE @,
    !.batch     = IF x.latency > 1000 THEN (7 * @) \div 10
                  ELSE IF x.latency < 100 /\ x.bandwidth > 100 THEN (13 * @) \div 10 ELSE @,
    !.size      = IF x.bandwidth < 20 THEN (8 * @) \div 10
                  ELSE IF x.bandwidth > 200 THEN (12 * @) \div 10 ELSE @,
    !.compress  = @ \/ x.bandwidth < 50,
    !.adaptive  = @ /\ x.cpu <= 80]

\* recommend_strategy_adjustments
Recommended(u, x) ==
  (IF 2 * x.latency > 3 * u.latency THEN {"PriorityIncrease"} ELSE {})
    \cup (IF 10 * x.bandwidth < 7 * u.bandwidth THEN {"BatchSizeIncrease"} ELSE {})
    \cup (IF x.errors > 50 THEN {"QualityReduction"} ELSE {})
    \cup (IF x.cpu > 80 THEN {"CompressionDisable"} ELSE {})

\* calculate_optimization_metrics, five estimates of a strategy in a context:
Whole == 10000

\* the batch and the frame size of a strategy as parts of a whole
BatchPart(u, whole) == (Whole * Min({u.batch, whole})) \div whole
SizePart(u)         == (Whole * Min({u.size, 1024})) \div 1024

\* estimate_latency_improvement
LatencyGain(u, x) ==
  LET gain == (3 * ((Whole * u.threshold) \div 255)
                + 2 * (Whole - BatchPart(u, 50)) + 2 * (Whole - SizePart(u))) \div 10
  IN  Min({IF x.latency > u.latency THEN (3 * gain) \div 2 ELSE gain, Whole})

\* estimate_throughput_improvement
ThroughputGain(u, x) ==
  LET gain == (4 * BatchPart(u, 50) + (IF u.compress THEN 2 * Whole ELSE 0)
                + 3 * SizePart(u)) \div 10
  IN  Min({IF x.bandwidth < u.bandwidth THEN (13 * gain) \div 10 ELSE gain, Whole})

\* calculate_resource_utilization
Utilization(u, x) ==
  LET used  == 100 * x.cpu + (IF u.compress THEN 1000 ELSE 0) + (IF u.adaptive THEN 500 ELSE 0)
      saved == BatchPart(u, 20) \div 10
  IN  IF used > saved THEN Min({used - saved, Whole}) ELSE 0

\* The average of ratings of frames, no more than a whole
Rated(fs, Rating(_)) ==
  IF fs = << >> THEN 0
  ELSE Min({FoldSeq(LAMBDA f, sum : Rating(f) + sum, 0, fs) \div Len(fs), Whole})

\* calculate_efficiency_score: close to the threshold and of the right size
Efficiency(u, fs) ==
  LET Distance(f) == IF f.priority > u.threshold THEN f.priority - u.threshold
                     ELSE u.threshold - f.priority
      Fit(f)      == IF f.size <= u.size THEN Whole ELSE (Whole * u.size) \div f.size
  IN  Rated(fs, LAMBDA f : (Whole - (Whole * Distance(f)) \div 255 + Fit(f)) \div 2)

\* Mutant: a frame that is too large is no good at all.
QualityOfFitting(u, fs) ==
  Rated(fs, LAMBDA f : IF f.size > u.size THEN 0
                       ELSE IF f.priority >= u.threshold THEN 11000 ELSE 10000)

\* calculate_quality_score
Quality(u, fs) ==
  Rated(fs, LAMBDA f : (IF f.size > u.size THEN 8 ELSE 10)
                         * (IF f.priority >= u.threshold THEN 1100 ELSE 1000))

-----------------------------------------------------------------------------
(* StreamingService *)

\* calculate_adaptive_priority follows the rules of the balanced strategy.
StreamingPriority(x) == Balanced(x)

\* get_adaptation_reason: without any, the conditions are called optimal.
Reasons(x) ==
  (IF x.latency > 1000 THEN {"High latency detected"} ELSE {})
    \cup (IF x.bandwidth < 10 THEN {"Limited bandwidth"} ELSE {})
    \cup (IF x.errors > 50 THEN {"High error rate"} ELSE {})
    \cup (IF x.cpu > 80 THEN {"High CPU usage"} ELSE {})

\* calculate_optimal_batch_size has no bounds: it may be zero.
StreamingBatch(x) ==
  LET latency   == IF x.latency < 50 THEN 5 ELSE IF x.latency > 500 THEN 20 ELSE 10
      bandwidth == Min({Max({2 * x.bandwidth, 20}), 300})
      cpu       == IF x.cpu > 80 THEN 7 ELSE 10
  IN  (10 * latency * bandwidth * cpu) \div 10000

\* The three analyses of auto_adjust_priorities
StreamingAdjustments(x) ==
  (CASE x.latency > 2000 -> << [threshold |-> Critical] >>
     [] x.latency < 50 /\ x.bandwidth > 50 -> << [threshold |-> Low] >>
     [] OTHER -> << >>)
    \o (IF x.bandwidth < 5 THEN << [threshold |-> High] >> ELSE << >>)
    \o (IF x.errors > 100 THEN << [threshold |-> Critical] >> ELSE << >>)

\* Its own strategies, which no context changes, are the first four of
\* OptimizationService without compression and targets.
CommonUseCases == {"RealTimeDashboard", "BulkDataTransfer", "MobileApp", "ProgressiveWebApp"}

\* calculate_global_priority_threshold and calculate_total_frame_budget
CrossStream(x) ==
  [threshold |-> Raise(StreamingPriority(x), 10), frames |-> (3 * StreamingBatch(x)) \div 2]

\* generate_adaptive_frames, generate_cross_stream_optimized_frames and
\* optimize_for_use_case
StreamingCommands(x) ==
  {[threshold |-> StreamingPriority(x), frames |-> StreamingBatch(x)], CrossStream(x)}
    \cup {[threshold |-> UseCases[u].threshold, frames |-> UseCases[u].batch] :
            u \in CommonUseCases}

-----------------------------------------------------------------------------
(* StreamOrchestrator *)

\* The defaults of PerformanceContext and of the service.
Init ==
  /\ context = [latency |-> 100, bandwidth |-> 100, errors |-> 10, cpu |-> 50]
  /\ strategy = "Balanced"
  /\ adjusting = << >>
  /\ threshold = 0

\* The metrics are passed by value: what is measured while adjustments are
\* applied changes nothing, and is left out.
Measure ==
  /\ adjusting = << >> /\ threshold = 0   \* bound: one round of adjustments
  /\ \/ \E value \in Latency : context' = [context EXCEPT !.latency = value]
     \/ \E value \in Bandwidth : context' = [context EXCEPT !.bandwidth = value]
     \/ \E value \in ErrorRate : context' = [context EXCEPT !.errors = value]
     \/ \E value \in Cpu : context' = [context EXCEPT !.cpu = value]
  /\ UNCHANGED << strategy, adjusting, threshold >>

\* update_strategy takes &mut self: the service is not in use.
UpdateStrategy ==
  /\ adjusting = << >> /\ threshold = 0   \* bound
  /\ \E s \in Strategy : strategy' = s
  /\ UNCHANGED << context, adjusting, threshold >>

\* auto_adjust_priorities: analyse once ...
AutoAdjust ==
  /\ adjusting = << >>
  /\ adjusting' = Adjustments(context)
  /\ UNCHANGED << context, strategy, threshold >>

\* StreamingService analyses between its commands, the same metrics.
StreamingAutoAdjust ==
  /\ adjusting = << >>
  /\ adjusting' = StreamingAdjustments(context)
  /\ UNCHANGED << context, strategy, threshold >>

\* ... then one command after another; each replaces the threshold ...
Adjust ==
  /\ adjusting # << >>
  /\ threshold' = Head(adjusting).threshold
  /\ adjusting' = Tail(adjusting)
  /\ UNCHANGED << context, strategy >>

\* ... until one fails.
AdjustFails ==
  /\ adjusting # << >>
  /\ adjusting' = << >>
  /\ UNCHANGED << context, strategy, threshold >>

\* The commands that generate frames, each a function of what was measured:
\* generate_adaptive_frames, generate_cross_stream_optimized_frames ...
Commands(s, x) ==
  {[threshold |-> AdaptivePriority(s, x), frames |-> OptimalBatch(x)]}
    \cup {[threshold |-> GlobalPriority(s, x, n), frames |-> (3 * OptimalBatch(x)) \div 2] :
            n \in Streams}

\* ... and optimize_for_use_case, with the strategy applied to the context
UseCaseCommand(u, x) ==
  [threshold |-> Optimized(u, x).threshold, frames |-> Optimized(u, x).batch]

Next ==
  Measure \/ UpdateStrategy \/ AutoAdjust \/ StreamingAutoAdjust \/ Adjust \/ AdjustFails

Spec == Init /\ [][Next]_vars

-----------------------------------------------------------------------------
(* Properties *)

\* Nothing that is calculated depends on the threshold of a session, and every
\* context is met before one is set: there the calculations are judged.
Fresh == threshold = 0 /\ adjusting = << >>

\* The orchestrator's commands pass the validation that command_handlers.rs
\* offers and nobody calls: some frames, and no more than a thousand.  Those of
\* StreamingService may ask for none when the processor is busy, and those of a
\* strategy registered with a batch of one when the latency is high.
TypeOK ==
  /\ context \in Context
  /\ strategy \in Strategy
  /\ Len(adjusting) <= 3
  /\ threshold \in {0, Low, Medium, High, Critical}
  /\ Fresh =>
       /\ Commands(strategy, context) \cup {UseCaseCommand(u, context) : u \in BuiltIn}
            \subseteq [threshold : 1 .. 255, frames : 1 .. 1000]
       /\ StreamingCommands(context) \subseteq [threshold : 1 .. 255, frames : 0 .. 90]
       /\ context.cpu <= 80 => StreamingBatch(context) > 0

Worse(x, y) ==
  /\ x.latency >= y.latency /\ x.bandwidth <= y.bandwidth
  /\ x.errors >= y.errors /\ x.cpu >= y.cpu

\* One step worse in one respect.
WorseThan(x) ==
  {y \in UNION {{[x EXCEPT !.latency = v] : v \in Latency},
                {[x EXCEPT !.bandwidth = v] : v \in Bandwidth},
                {[x EXCEPT !.errors = v] : v \in ErrorRate},
                {[x EXCEPT !.cpu = v] : v \in Cpu}} : Worse(y, x)}

\* When anything gets worse and nothing better, no strategy becomes less
\* selective about what it sends, on its own or for several streams or for
\* a use case, and what the strategy of a use case is expected to gain grows
\* with the need; the score does not rise, and nothing that was recommended is
\* withdrawn.  Rules that overwrite, add to and cap one another must not undo
\* each other.
WorseMeansStricter ==
  Fresh =>
  \A y \in WorseThan(context) :
    /\ AdaptivePriority(strategy, y) >= AdaptivePriority(strategy, context)
    /\ \A u \in Plans :
         LET before == Optimized(u, context)
             after  == Optimized(u, y)
         IN  /\ after.threshold >= before.threshold
             /\ LatencyGain(after, y) >= LatencyGain(before, context)
             /\ Recommended(u, context) \subseteq Recommended(u, y)
    /\ Report(y).score <= Report(context).score
    /\ Report(context).remedies \subseteq Report(y).remedies
    /\ Reasons(context) \subseteq Reasons(y)

\* Adjustments overwrite each other and the last one stands.  An alarming
\* error rate has the last word in both services; what an alarming latency
\* asks for may be undone by a throughput that is low as well.
AlarmsStand ==
  context.errors > 100 /\ adjusting # << >> => Last(adjusting).threshold = Critical

\* The services advise on the same measurements and do not contradict each
\* other.  For the strategies they come with: a threshold that should be
\* raised is not being lowered for the same context; an analysis that asks for
\* higher priorities is joined by the recommendations for every strategy, and
\* one that asks for larger batches by those for every strategy but the one
\* that aims no higher than the alarm, for IoT devices.  A threshold above
\* the default is never explained by optimal conditions.
AdviceAgrees ==
  Fresh =>
  /\ \A u \in BuiltIn :
       LET advice   == Recommended(u, context)
           remedies == Report(context).remedies
       IN  /\ "PriorityIncrease" \in advice => Optimized(u, context).threshold >= u.threshold
           /\ "Priority Optimization" \in remedies => "PriorityIncrease" \in advice
           /\ "Batch Optimization" \in remedies /\ u # UseCases.IoTDevice
                => "BatchSizeIncrease" \in advice
  /\ StreamingPriority(context) > Medium => Reasons(context) # {}

\* Estimates are shares of a whole, and a batch of nothing but frames that the
\* strategy's own threshold let through is rated well, however large they are.
EstimatesAreShares ==
  Fresh =>
  \A u \in Plans :
    LET plan == Optimized(u, context)
    IN  /\ {LatencyGain(plan, context), ThroughputGain(plan, context),
            Utilization(plan, context)} \subseteq 0 .. Whole
        /\ \A fs \in Batches :
             /\ Efficiency(plan, fs) \in 0 .. Whole
             /\ fs # << >> /\ (\A f \in ToSet(fs) : f.priority >= plan.threshold)
                  => Quality(plan, fs) >= 8800
=============================================================================
