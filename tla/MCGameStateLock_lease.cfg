SPECIFICATION FairSpec
CONSTANTS
  Handler = {h1, h2, h3}
  Insistent = {h1, h3}
  Refresher = {h3}
  Existing = FALSE
  MayOverrun = TRUE
  NoHandler = NoHandler
INVARIANTS
  TypeOK
  NoLostUpdate
  Exclusion
PROPERTY
  HandlersReturn
