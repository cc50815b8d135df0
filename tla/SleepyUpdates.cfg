CONSTANTS
    tank = tank
    shell = shell
    tankAI = tankAI
    tankGun = tankGun
    tankTracker = tankTracker
    shellTimer = shellTimer
    Modules = {tankAI, tankGun, tankTracker, shellTimer}
    Objects = {tank, shell}
    Owner <- MCOwner
    Phase <- MCPhase
    Delays = {1, 2}
    Forever = 3
    MaxFrame = 2
    None = None
SPECIFICATION FairSpec
CHECK_DEADLOCK FALSE
INVARIANTS TypeOK IndexMatches HeapOrdered CurrentIsRoot OnTime
PROPERTIES CallsInOrder Timetable EveryLoopEnds
