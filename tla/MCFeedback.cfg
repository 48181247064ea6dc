CONSTANTS
    n1 = n1
    n2 = n2
    Ids = {n1, n2}
    Cut <- MCCut
    Senders = {s1}
    Answers = {a1, a2}
    Feed = feed
    Phone = phone
    Route <- MCRoute
    Voice <- MCVoice
    Ends <- MCEnds
    Tested = {}
    Limit = 1
    AckLimit = 1
    MaxEvents = 3
SYMMETRY MCSymmetry
SPECIFICATION Spec
INVARIANTS
    AckVisible
    CountsAgree
CHECK_DEADLOCK FALSE
