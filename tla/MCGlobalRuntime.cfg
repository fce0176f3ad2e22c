CONSTANTS
    r1 = r1
    r2 = r2
    t1 = t1
    t2 = t2
    Runtimes = {r1, r2}
    Main = Main
    Tasks = {t1, t2}
    BlockingTasks = {t2}
    Orders <- MCOrders
    None = None
SPECIFICATION Spec
INVARIANTS ReportsAccountForAll GracefulMeansQuiescent FailureIsReported EveryRuntimeStaged
CHECK_DEADLOCK FALSE
