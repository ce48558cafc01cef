SPECIFICATION RunnerFairSpec
CONSTANTS
    w1 = w1
    Workers <- MCWorkers
    Server = TRUE
    Cloudflare = TRUE
    MailTries = 2
    LetterLooks = 2
    Canaries = 2
    MaxBoxes = 2
    MaxLetters = 2
    MaxFaults = 1
    Count = 2
    Target = 1
    SlotRetries = 1
    MaxInterrupts = 0
CHECK_DEADLOCK FALSE
INVARIANTS
    RunnerIInv
    CountedIsReal
    CreatedIsCounted
PROPERTIES
    RunEnds
