\* Two members, one of whom must not hear the other, and two files whose last
\* frames are short; with and without wasted bandwidth.
SPECIFICATION MixSpec
CONSTANTS
    Members = {1, 2}
    FrameLen = 2
    Samples <- MCSamples
    Lo <- MCLo
    Hi = 2
    Padding = 2
    FileLens = {0, 1, 2}
    Noise <- MCNoise
    Deaf = {1, 2}
    Wasting = {1}
    Unheard <- MCUnheard
INVARIANTS
    MixTypeOK
    HearsTheOthersWhileRunning
\* Mixing goes on for ever; the members may all stop.
CHECK_DEADLOCK FALSE
