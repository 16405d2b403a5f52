\* Two tasks, three locks, two slots.
SPECIFICATION Spec
CONSTANTS
  t1 = t1
  t2 = t2
  l1 = l1
  l2 = l2
  l3 = l3
  Tasks = {t1, t2}
  Locks = {l1, l2, l3}
  NoTask = NoTask
  NoLock = NoLock
  Slots = 2
  MaxDepth = 2
SYMMETRY Symmetry
INVARIANTS
  Exclusive
  HeldIsBacked
