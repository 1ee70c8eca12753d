\* A workflow of two steps in the editor and the Library, over a file or Relay.
SPECIFICATION Spec
CONSTANTS
    Caller = {"editor", "lib", "run"}
    StepId = {s1, s2}
    Recorded = {s2}
    Mapped = {s1}
    Binding <- Bindings3
    Profile = {"p"}
    UrlProfile = "p"
    Elsewhere = {"runtime", "recorded"}
    MaxCalls = 2
    MaxFaults = 1
    MaxActs = 2
INVARIANTS SavesAreHonest EditsAreKept ChoicesAtRestAreKept ProfileIsTheOneAsked
CHECK_DEADLOCK FALSE
