SPECIFICATION FairSpec
CONSTANTS
    i1 = i1
    i2 = i2
    i3 = i3
    sshd = sshd
    cron = cron
    d1 = d1
    d2 = d2
    Decoders = {d1, d2}
    Ids = {i1, i2, i3}
    Paths <- MCPaths
    PathOf <- MCPathOf
    Unknown = Unknown
INVARIANTS TypeOK OneInDecoder LivingIsKnown
PROPERTIES PathIsKept DecodingEnds
