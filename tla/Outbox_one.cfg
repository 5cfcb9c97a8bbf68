SPECIFICATION FairSpec
CONSTANTS
    prompt = prompt
    file = file
    reply = reply
    proposal = proposal
    answer = answer
    mother = mother
    sister = sister
    w1 = w1
    w2 = w2
    NoJob = NoJob
    Jobs = {prompt, file}
    Drafts = {proposal}
    Chats = {mother}
    KindOf <- MCKindOf
    DraftOf <- MCDraftOf
    ChatOf <- MCChatOf
    Allowlisted = {mother}
    Trusted = {mother}
    Workers = {w1}
    MaxFailures = 1
    MaxAborts = 1
    MaxSwitches = 2
INVARIANTS
    TypeOK
    InterruptedIsNotRetried
    LedgersAgree
    NoOvertaking
PROPERTIES
    LifecycleSpec
    EveryJobSettles
    QueueDrains
CHECK_DEADLOCK FALSE
