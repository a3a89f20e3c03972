SPECIFICATION FairReceiptsSpec
CONSTANTS
    group = group
    lid = lid
    phone = phone
    s1 = s1
    s2 = s2
    m1 = m1
    m2 = m2
    m3 = m3
    Msgs = {m1, m2, m3}
    Jids = {group, lid, phone}
    Senders = {s1, s2}
    KeyOf <- MCKeyOf
    Resolve <- MCResolve
    Repliers = {r1}
    ChannelCapacity = 2
    MaxSwitches = 3
INVARIANTS
    ReceiptsTrue
    FlushCovers
PROPERTY EventuallyAttempted
CHECK_DEADLOCK FALSE
