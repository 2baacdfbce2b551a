\* One stack and one more, created on its context or forked from it; three edits.
SPECIFICATION FairSpec
CONSTANTS
  Stacks = {main, other}
  Main = main
  Decls <- Declarations
  Mentions <- Program
  Optional = {"shadow"}
  Segments <- Stores
  Literals = {"size"}
  Scalar = {"size"}
  Coarse = {"view"}
  Unnamed = {"names"}
  Slow = {"table"}
  Raises <- Failing
  Body = "draw"
  Captures = {"all"}
  Snapshots = TRUE
  Bounded = FALSE
  Edited = {"size", "table", "draw", "shadow"}
  MaxEdits = 3
INVARIANTS TypeOK SkipShowsPresent SharingExact
PROPERTIES RebuildComes
