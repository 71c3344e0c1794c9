SPECIFICATION FairSpec
CONSTANTS
    A = A
    B = B
    C = C
    l1 = l1
    l2 = l2
    l3 = l3
    l4 = l4
    Pools = {A, B, C}
    Lanes = {l1, l2, l3, l4}
    Primary = A
    NoLane = NoLane
    MaxHops = 1
    Configs <- AnyConfig
    Members <- MCMembers
    Exclusions <- MCExclusions
    Tagged <- MCTagged
    ContextMax <- MCContextMax
INVARIANTS RepeatOnlyLast Compliant
PROPERTIES AlwaysAnswered
