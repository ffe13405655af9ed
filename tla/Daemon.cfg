\* A monitor and a user, two starts of the daemon, one change of a backend or file.
CONSTANTS
  ModelIds = {"eva-lite", "default", "fast", "deep"}
  Files = {"gguf"}
  None = None  Unreadable = Unreadable
  Lines <- SomeLines
  Client = {"monitor", "user"}
  RequestsOf <- SomeRequests
  Things = {"fast", "gguf"}
  AtFirst <- Calm
  Limit = 2
  MaxStarts = 2
  MaxChanges = 1
SPECIFICATION Spec
INVARIANTS StartsWhole AnswersAreTrue
PROPERTY EveryClientIsServed
CHECK_DEADLOCK FALSE
