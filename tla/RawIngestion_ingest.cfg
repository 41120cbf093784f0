\* A request whose body the Kafka client refuses, two datagrams for a queue of
\* one, a connection of two lines.
SPECIFICATION FairSpec
CONSTANTS
  h1 = h1
  u1 = u1
  u2 = u2
  s1 = s1
  s2 = s2
  HttpEvents = {h1}
  UdpEvents = {u1, u2}
  Stream <- TwoLines
  Oversized = {h1}
  UdpQueueSize = 1
  UdpWorkers = 1
  BatchLimit = 2
  MaxFaults = 2
INVARIANTS
  EvidenceFirst
  AnswerIsDurable
  DuplicatesExplained
PROPERTIES
  ImplementsDurableIngestion
  EventuallyReplayed
CHECK_DEADLOCK FALSE
