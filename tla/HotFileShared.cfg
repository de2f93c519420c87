CONSTANTS
  Threads = {h1}
  NoThread = NoThread
  Publisher = Publisher
  MaxVersion = 3
SPECIFICATION SharedSpec
INVARIANTS
  SeenMeansServed
