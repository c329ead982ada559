-------------------------- MODULE MCGameStateLock --------------------------
\* Small instances of GameStateLock: three or four handlers, two of which
\* insist on the lock, and one of these is a message refresh.
EXTENDS GameStateLock
=============================================================================
