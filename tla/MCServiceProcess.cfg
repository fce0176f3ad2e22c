CONSTANTS
    r1 = r1
    r2 = r2
    r3 = r3
    t1 = t1
    Runtimes = {r1, r2, r3}
    Main = Main
    Tasks = {t1}
    BlockingTasks = {t1}
    Orders <- MCOrders
    None = None
    Commands = {1, 2}
    Users = {1, 2}
    Root = 1
    MaxServices = 3
    MaxCommands = 3
    StopTimeout = 3
    AppTimeout = 2
    Absent = Absent
SPECIFICATION ProcessSpec
INVARIANTS
    StagesInOrder OneDaemon KilledOnlyWhenHung
PROPERTIES
    ShutdownCompletes StopEnds
CHECK_DEADLOCK FALSE
