\* A binding chosen in the Library while a refused save waits for the latest version.
SPECIFICATION Spec
CONSTANTS
    Caller = {"editor", "lib", "run"}
    StepId = {s1, s2}
    Recorded = {s2}
    Mapped = {s1}
    Binding <- Bindings3
    Profile = {"p"}
    UrlProfile = "p"
    Elsewhere = {"runtime", "recorded"}
    MaxCalls = 2
    MaxFaults = 1
    MaxActs = 2
PROPERTY UnsavedChoicesStay
CHECK_DEADLOCK FALSE
