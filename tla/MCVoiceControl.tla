--------------------------- MODULE MCVoiceControl ---------------------------
\* Small instances of VoiceControl: two players, each in any voice channel.
EXTENDS VoiceControl, TLC

UsersAlike == Permutations(User)
=============================================================================
