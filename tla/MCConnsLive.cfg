CONSTANTS
    MaxFds = 2
    RT = {t1}
    ListenBacklog = 1
    MaxUnread = 2
    PipeCapacity = 1
    WorkCapacity = 1
SPECIFICATION FairSpec
PROPERTIES
    DataIsRead
    GoneIsReadForever
