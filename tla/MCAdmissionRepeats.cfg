SPECIFICATION Spec
CONSTANTS
    r1 = r1
    r2 = r2
    r3 = r3
    r4 = r4
    r5 = r5
    Requests = {r1, r2, r3, r4}
    Fingerprint <- MCRepeats
    Flow <- MCFlow
    Forced <- MCForceNot
    DedupWindow <- MCShorter
    Cooldown <- MCCooldownNone
    History <- MCHistory
    Stamps <- MCStamps
    NotificationKeys = {"x", "y"}
    StampLimit = 1
    Snoozers <- MCNobody
    SnoozeTime = 2
    Casts <- MCAll
    MaxTime = 2
    MaxGen = 1
CHECK_DEADLOCK FALSE
INVARIANTS
    RepeatsApart
