SPECIFICATION Spec
CONSTANTS
    r1 = r1
    r2 = r2
    r3 = r3
    r4 = r4
    r5 = r5
    Requests = {r1, r2, r3, r4, r5}
    Fingerprint <- MCFingerprint
    Flow <- MCFlow
    Forced <- MCForce
    DedupWindow <- MCDedupWindow
    Cooldown <- MCCooldown
    History <- MCHistory
    Stamps <- MCStamps
    NotificationKeys = {"x", "y"}
    StampLimit = 1
    Snoozers = {"f"}
    SnoozeTime = 2
    Casts <- MCCasts
    MaxTime = 3
    MaxGen = 2
CHECK_DEADLOCK FALSE
INVARIANTS
    TypeOK
    DuplicatesApart
    CooldownHeld
    SnoozeKept
PROPERTIES
    FileAdvances
