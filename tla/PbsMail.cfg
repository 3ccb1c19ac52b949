SPECIFICATION Spec
CONSTANTS
    vm = vm
    ct = ct
    host = host
    Ids = {vm}
    Skipped = {host}
    Cts = {}
    ClientStarts = TRUE
    BackupIds <- OneVm
    Snapshot <- VmOnly
INVARIANT MailTellsTruth
