\* Three stream identifiers against a limit of two, so that the limit is met
\* while an identifier is still free.  Every run is finite, since a stream
\* raises at most three events.
\* No symmetry: FollowsLifecycle is a temporal property.
CONSTANTS
  StreamId = {s1, s2, s3}
  MaxConcurrentStreams = 2
  NoStream = NoStream
SPECIFICATION Spec
INVARIANTS
  TypeOK
  SessionConsistent
  EventsTellTheSession
PROPERTY
  FollowsLifecycle
\* A closed session may well have nothing left to do.
CHECK_DEADLOCK FALSE
