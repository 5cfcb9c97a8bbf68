SPECIFICATION Spec
CONSTANTS
    mother = mother
    sister = sister
    resume = resume
    marksheet = marksheet
    NoResource = NoResource
    NoText = NoText
    N = 2
    Chats = {mother}
    Trusted = {mother}
    Resources = {resume}
    Texts <- FileTexts
    Environments <- AllEnvironments
    BatchLimit = 2
    MaxInterrupts = 0
    MaxSwitches = 1
PROPERTIES
    DeniedNeverQueues
