SPECIFICATION Spec
CONSTANTS
  dag = dag
  seq = seq
  Requests = {dag, seq}
  Dags = {dag}
  Plan <- Plans
  Deps <- Graph
  Risky <- Dangerous
  MaxRetries = 2
  RetryLimit <- Limits
  MaxConcurrent = 1
INVARIANTS DependenciesFirst NothingRunnableIsLeft DoneIsFinal
PROPERTIES RequestsEnd
CHECK_DEADLOCK FALSE
