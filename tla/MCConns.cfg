CONSTANTS
    MaxFds = 3
    RT = {t1, t2}
    ListenBacklog = 2
    MaxUnread = 1
    PipeCapacity = 1
    WorkCapacity = 1
SPECIFICATION Spec
SYMMETRY Symmetry
INVARIANTS
    TypeOK
    DescriptorHeldOnce
