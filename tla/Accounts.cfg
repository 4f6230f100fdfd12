\* Two accounts, both on the longest list; lists change between starts.
SPECIFICATION Spec
CONSTANTS
    ada = ada
    sam = sam
    Users = {ada, sam}
    Lists <- AnyList
    MaxInflight = 2
    MaxAudit = 3
INVARIANTS TypeOK AdminsFollowList LogExplainsAccount
PROPERTIES PhonelessOnlyByOwnRequest LockoutOnlyByRace
