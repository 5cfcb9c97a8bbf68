SPECIFICATION FairSpec
CONSTANTS
    mother = mother
    sister = sister
    resume = resume
    marksheet = marksheet
    NoResource = NoResource
    NoText = NoText
    N = 2
    Chats = {mother}
    Trusted = {mother}
    Resources = {resume}
    Texts <- TalkTexts
    Environments <- AllEnvironments
    BatchLimit = 1
    MaxInterrupts = 1
    MaxSwitches = 1
INVARIANTS
    QueuedTextIsFinished
    ResolvedHasItsFile
PROPERTIES
    EveryMessageIsTaken
    EveryRunEnds
    MessageSpec
