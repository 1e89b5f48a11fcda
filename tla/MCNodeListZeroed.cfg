CONSTANTS
    Writers = {w1}
    Readers = {r1}
    SNs = {s1, s2}
    MaxNodes = 2
    Builds = {FALSE}
SPECIFICATION Spec
INVARIANT
    NonInitializedUnused
