\* Two producers, two consumers, two items each: consumers that are notified, that
\* wake spuriously and that take an item another was woken for.
SPECIFICATION Spec
CONSTANTS
  p1 = p1
  p2 = p2
  w1 = w1
  w2 = w2
  Producers = {p1, p2}
  Consumers = {w1, w2}
  NoThread = NoThread
  NoItem = NoItem
  MaxItems = 2
INVARIANTS TypeOK NoLostWakeup
PROPERTIES ImplementsFifo EveryItemTaken
