SPECIFICATION LiveSpec
CONSTANT MaxNest = 2
INVARIANTS TypeOK ScratchReady TimerNotLost
PROPERTIES LeavesAsEntered TimerDelivered
