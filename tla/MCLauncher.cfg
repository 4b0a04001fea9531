CONSTANTS
    other = other
    native = native
    slashed = slashed
    found = found
    Dlls <- InjectedPaths
    AutoDll = found
    DebugNamed <- DebugPaths
    ForwardSlashed <- SlashedPaths
    Short <- ShortPaths
    MaxArgs = 2
SPECIFICATION LiveSpec
CHECK_DEADLOCK FALSE
INVARIANT PathHierarchy
INVARIANT DebuggerInjected
INVARIANT DanglesOnlyMoved
PROPERTY EventsAnswered
