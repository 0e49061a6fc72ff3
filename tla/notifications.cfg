SPECIFICATION Spec
CONSTANTS
    Streams = {s1, s2}
    Hubs = {"sse", "message"}
    DropsEmpty = {"message"}
    Workers = {w}
    Callers = {c}
    Pushers = {w, c}
    Cap = 1
    Kinds = {"like", "follow", "own"}
    Sends = {"message", "mention"}
    MaxEvents = 1
    MaxCalls = 2
    MaxFailures = 1
CONSTRAINT MentionsApart
SYMMETRY Symmetry
INVARIANTS RegistryExact PushVisitsEach CounterExact NeverLeftNegative OneRowPerEvent NoEventDropped
CHECK_DEADLOCK FALSE
