SPECIFICATION Spec
CONSTANTS
    vm = vm
    ct = ct
    host = host
    Ids = {vm, ct}
    Skipped = {host}
    Cts = {ct}
    ClientStarts = TRUE
    BackupIds <- AllIds
    Snapshot <- VmAndCt
INVARIANTS
    TypeOK
    ListedIdsArchived
    HealthyRunArchives
PROPERTIES
    OldArchiveOutlivesDownload
    NewArchiveIsFresh
