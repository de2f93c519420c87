CONSTANTS
  Threads = {h1, h2}
  NoThread = NoThread
  Publisher = Publisher
  MaxVersion = 4
SPECIFICATION Spec
INVARIANTS
  SeenMeansServed
  Freshness
PROPERTIES
  NeverBackwards
  AccessEnds
