SPECIFICATION SinkSpec
CONSTANTS
    foo = foo
    bar = bar
    skipped = skipped
    undecodable = undecodable
    EventLabels = {foo, bar}
    Skipped = skipped
    Undecodable = undecodable
    Kinds = {foo, undecodable}
    RingSize = 2
    MaxEvents = 4
    MaxFlushes = 1
INVARIANTS DecodeFailureIsSurvived
