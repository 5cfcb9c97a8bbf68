SPECIFICATION Spec
CONSTANTS
    prompt = prompt
    file = file
    reply = reply
    proposal = proposal
    answer = answer
    mother = mother
    sister = sister
    w1 = w1
    w2 = w2
    NoJob = NoJob
    Jobs = {prompt}
    Drafts = {proposal}
    Chats = {mother}
    KindOf <- MCKindOf
    DraftOf <- MCDraftOf
    ChatOf <- MCChatOf
    Allowlisted = {mother}
    Trusted = {mother}
    Workers = {w1, w2}
    MaxFailures = 1
    MaxAborts = 1
    MaxSwitches = 1
INVARIANTS
    JournaledBeforeSend
    PauseBound
CHECK_DEADLOCK FALSE
