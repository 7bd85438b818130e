\* Up to two old drafts of every shape, two overlapping jobs, two creations, and a
\* person who submits, reviews and archives while the chain has one version.
SPECIFICATION FairSpec
CONSTANTS
  Runs = {r1, r2}
  Appenders = {a1, a2}
  Editors = {e1}
  NoOne = NoOne
  MaxInFlight = 4
  EditedUpTo = 1
  MaxVersion = 3
CONSTANT Legacies <- UpToTwo
CONSTANT Statuses <- DraftOnly
INVARIANTS TypeOK ArchivingIsUndone
PROPERTY ChainOnlyGrows
PROPERTY TamperingStaysVisible
PROPERTY ResealedIfIntact
PROPERTY TransactionsEnd
CHECK_DEADLOCK FALSE
