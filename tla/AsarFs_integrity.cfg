\* Archives that are replaced while they are read, with the integrity fuse on.
SPECIFICATION FairSpec
CONSTANTS
  Archives <- MCArchives
  Entries <- MCEntries
  Root = ""
  Versions = {"v1", "v2"}
  Kind <- MCKind
  Target <- MCTarget
  Integrity = TRUE
  Calls = {c1}
  MaxChanges = 2
CHECK_DEADLOCK FALSE
INVARIANTS AnswersLinearize OnlyVerifiedBytes ViewsAgree
PROPERTIES ArchiveStays EveryCallAnswered
