\* Two clients on one session, two stream identifiers against a limit of one:
\* handlers overtake each other at every await, saves discard saves, and an
\* identifier is free when the limit is met.
CONSTANTS
  StreamId = {s1, s2}
  MaxConcurrentStreams = 1
  NoStream = NoStream
  NoSession = NoSession
  Client = {c1, c2}
  MaxCopies = 1
SPECIFICATION Spec
INVARIANTS
  TypeOK
  NoTornSession
  NoTornHistory
  CausesPublishedFirst
  LastWriterPublishesAll
PROPERTY
  SerialUntilOverwrite
SYMMETRY Symmetry
