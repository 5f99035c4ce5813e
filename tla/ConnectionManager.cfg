\* Three clients compete for two places, and two monitors sweep the table, so
\* that one works off a stale list while the other closes and clients
\* register again.
\* No symmetry: IdleConnectionsAreClosed is a liveness property.
CONSTANTS
  SessionId = {a, b, c}
  MaxConnections = 2
  Monitor = {m1, m2}
SPECIFICATION FairSpec
INVARIANTS
  TypeOK
  OnlyRacingTrafficIsCutOff
PROPERTIES
  ClosedUntilRegistered
  IdleConnectionsAreClosed
