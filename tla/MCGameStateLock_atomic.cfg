SPECIFICATION Spec
CONSTANTS
  Handler = {h1, h2, h3, h4}
  Insistent = {h1, h3}
  Refresher = {h3}
  Existing = TRUE
  MayOverrun = FALSE
  NoHandler = NoHandler
PROPERTY
  AtomicSpec
