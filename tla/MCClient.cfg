SPECIFICATION Spec
CONSTANTS
    w1 = w1
    w2 = w2
    Workers <- MCWorkers
    Server = FALSE
    Cloudflare = FALSE
    MailTries = 1
    LetterLooks = 1
    Canaries = 1
    MaxBoxes = 3
    MaxLetters = 1
    MaxFaults = 1
    Count = 3
    Target = 1
    SlotRetries = 1
    MaxInterrupts = 1
SYMMETRY Interchangeable
CHECK_DEADLOCK FALSE
INVARIANTS
    OvershootBounded
    EverySlotCounted
    AccountsWrittenDown
