SPECIFICATION FairSpec
CONSTANTS
    main = main
    t1 = t1
    Thread = {main, t1}
    Main = main
    MaxTime = 2
    MaxTasks = 3
    NoTask = NoTask
    NoCall = NoCall
INVARIANTS
    TypeOK
    EveryTaskHasOneFate
    EnqueuedInOrder
PROPERTIES
    TasksRun
