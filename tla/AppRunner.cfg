SPECIFICATION RunnerSpec
CONSTANTS
  Handles = {h1, h2}
  Listeners = {l1, l2}
  Null = Null
INVARIANTS
  RunnerTypeOK
  LibraryNeverMisused
  OwnsWhatIsLive
  LastErrorIsOfLastRun
  GivenBackAfterRun
  ListenerAlive
PROPERTY StopEndsRun
