\* Silence, quiet and loud frames and comfort noise, on both sides of the
\* levels, with every command at any time.
SPECIFICATION FairSpec
CONSTANTS
    Scores = {0, 250, 1400}
    Cng = Cng
    EnergyLevels = {0, 300}
    AgcLevels = {0, 50, 1100}
    MuteDetect = TRUE
    Hangover = 3
    Hangunder = 2
    DiffLevel = 400
    AgcPeriod = 2
    NtLimit = 2
    MaxItt = 2
INVARIANT
    TypeOK
PROPERTIES
    NotCutOff
    TalkingEnds
