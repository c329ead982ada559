-------------------------- MODULE MCGameLifecycle --------------------------
\* Small instances of GameLifecycle: one text and one voice channel, two or
\* three commands, a worker for each game that can be started or resumed.
EXTENDS GameLifecycle, TLC

CommandsAlike == Permutations(Command)
=============================================================================
