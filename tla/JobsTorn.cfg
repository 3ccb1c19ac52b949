SPECIFICATION Spec
CONSTANTS
    Names = {"j1", "j2"}
    Threads = {w}
    Servers = {"s1", "s2", "s3"}
    Paths = {"a", "b", "x", "y", "z"}
    Main = main
    NoJob = NoJob
    Given <- TwoJobs
INVARIANT LookupIsWhole
