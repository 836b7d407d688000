SPECIFICATION Spec
CONSTANTS
  Depth = 3
  Statuses = {200, 404, 500}
  Settings <- StoresIDs
  MaxSpans = 5
  MaxTrips = 2
  MaxHandlers = 3
  Requests = {r1, r2}
  Fields = {"tenant_id", "user_id", "note"}
  Raws = {"low", "b", "long"}
  Limit = 1
  MaxTotalSize = 5
  Goroutines = {g1, g2}
  Names = {"error.code"}
  ErrorNames = {"error.code", "error.why"}
  Values = {1, 2}
  MaxEvents = 3
  MaxCalls = 3
  Signals = {"traces", "metrics", "logs"}
  Unset = Unset
  Bad = Bad
  Hosts = {"option", "env", "traces", "file", "localhost:4317", "localhost:4318", "devtools",
           "datadog", "honeycomb", "grafana", "logfire", "langfuse", "posthog"}
  Scenarios <- AllScenarios
\* Each fails; TLC stops at the first, so take that one out to see the next.
INVARIANTS
  OutcomeIsTheResult
  CodeBeatsTheEnvironment
  DevtoolsChangesDefaults
CHECK_DEADLOCK FALSE
