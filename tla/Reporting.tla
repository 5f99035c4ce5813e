------------------------------ MODULE Reporting ------------------------------
(***************************************************************************)
(* The metrics collector as the callers of the services report to it: the  *)
(* part of Services that is proved about in a module of its own.           *)
(***************************************************************************)
EXTENDS Naturals, Sequences, FiniteSets

CONSTANTS
  Caller,       \* who reports
  SessionId, StreamId,
  Settings, Durations, SeriesLimit, SeriesDrain,
  MaxCounted    \* bound: frames counted

\* Those who report, and the sessions they report, can be counted.
ASSUME ReportersAssumption == IsFiniteSet(Caller) /\ IsFiniteSet(SessionId)

\* Both collectors are in use, in either order; an identifier names a session
\* or a stream.
ASSUME MetricsAssumption ==
  /\ IsFiniteSet(StreamId) /\ SessionId \cap StreamId = {}
  /\ \A s \in Settings :
       s.collectors \in {<< "memory", "prometheus" >>, << "prometheus", "memory" >>}
  /\ Durations \subseteq Nat

VARIABLES
  setting, gauges, sessionMetrics, streamMetrics, series, vectors,
  reportTask, sessionsBegun, sessionsEnded, timings

metricVars == << setting, gauges, sessionMetrics, streamMetrics, series, vectors,
                 reportTask, sessionsBegun, sessionsEnded, timings >>

Metrics == INSTANCE MetricsCollector WITH
  Reporter <- Caller, DrainSize <- SeriesDrain, MaxFrames <- MaxCounted,
  sessions <- sessionMetrics, streams <- streamMetrics, task <- reportTask,
  metrics <- gauges, begun <- sessionsBegun, ended <- sessionsEnded
=============================================================================
