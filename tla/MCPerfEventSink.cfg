SPECIFICATION SinkFairSpec
CONSTANTS
    foo = foo
    bar = bar
    skipped = skipped
    undecodable = undecodable
    EventLabels = {foo, bar}
    Skipped = skipped
    Undecodable = undecodable
    Kinds = {foo, bar, skipped}
    RingSize = 2
    MaxEvents = 4
    MaxFlushes = 1
INVARIANTS SinkTypeOK EveryEventAccounted CountedWasWritten
PROPERTIES ScrapesGrow EventsSettle
