SPECIFICATION AttachSpec
CONSTANTS
    llcstat = llcstat
    timers = timers
    onMiss = onMiss
    onReference = onReference
    onStart = onStart
    onExpire = onExpire
    c1 = c1
    c2 = c2
    c3 = c3
    Lists <- MCLists
    ProgramsOf <- MCProgramsOf
    PerfPrograms = {onMiss, onReference}
    Cpus = {c1, c2, c3}
CHECK_DEADLOCK FALSE
INVARIANTS AttachTypeOK AttachedRuns AttachedOnce
