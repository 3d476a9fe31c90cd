\* Two automatic calls and a bgdial; the peers may keep the room going.
SPECIFICATION FairSpec
CONSTANTS
    AutoCalls = {o1, o2}
    Dialed = {d1}
INVARIANT
    TypeOK
PROPERTIES
    WindDownEnds
    AbandonedCallsEnd
