SPECIFICATION Spec
CONSTANTS
    mother = mother
    sister = sister
    resume = resume
    marksheet = marksheet
    NoResource = NoResource
    NoText = NoText
    N = 3
    Chats = {mother, sister}
    Trusted = {mother, sister}
    Resources = {resume, marksheet}
    Texts <- PickTexts
    Environments <- AllEnvironments
    BatchLimit = 2
    MaxInterrupts = 0
    MaxSwitches = 0
INVARIANTS
    FilesAreProposedAndConfirmed
    OneAnswerPerMessage
    OneFilePerProposal
SYMMETRY FileSymmetry
