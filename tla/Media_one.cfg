SPECIFICATION FairSpec
CONSTANTS
    N = 3
    Audio = {1, 3}
    AutoPromote = TRUE
    DrainLimit = 2
    AudioLimit = 1
    MaxInterrupts = 1
INVARIANTS
    AssetsHaveFiles
    BodyIffTranscribed
PROPERTIES
    EveryDownloadSettles
    EveryVoiceIsHeard
