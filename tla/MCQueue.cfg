\* Safety and refinement of one queue of three slots.
SPECIFICATION FairSpec
CONSTANTS
  producer = producer
  worker = worker
  consumer = consumer
  a = a
  b = b
  NoItem = NoItem
  NoCall = NoCall
  Tasks = {producer, worker, consumer}
  Items = {a, b}
  Capacity = 3
  Offers <- MCOffers
INVARIANTS
  NoLostWake
PROPERTIES
  AtomicSpec
  CallersServed
