----------------------------- MODULE GameRules -----------------------------
(***************************************************************************)
(* The rules of the game the bot knows: phases, who is muted and deafened  *)
(* in which (the default rules), and how the capture's messages change     *)
(* what the bot knows of the players.  Players are identified with the     *)
(* Discord users linked to them.                                           *)
(***************************************************************************)

Phase == {"LOBBY", "TASKS", "DISCUSS", "MENU", "GAMEOVER"}

VoiceState == [mute : BOOLEAN, deaf : BOOLEAN]
Off == [mute |-> FALSE, deaf |-> FALSE]

\* GetVoiceState under MakeMuteAndDeafenRules.  There are no rules for MENU and
\* GAMEOVER, and what Go's maps do not hold reads as false.
VoiceRule(isAlive, isTracked, phase) ==
  [mute |-> isTracked /\ phase = (IF isAlive THEN "TASKS" ELSE "DISCUSS"),
   deaf |-> isTracked /\ isAlive /\ phase = "TASKS"]

\* UpdatePhase: who is alive when the phase goes from old to new.
AliveAfter(old, new, players, alive) ==
  IF new = "LOBBY" \/ (new = "TASKS" /\ old = "LOBBY") THEN players ELSE alive

\* UpdatePlayer: nobody is dead in the lobby, and an exiled player always is.
Dead(phase, isDead, exiled) == exiled \/ (isDead /\ phase # "LOBBY")

\* processTransition's choice of who is dealt with first.
Priority(old, new) ==
  CASE new = "TASKS" /\ old # "LOBBY" -> "alive"
    [] new = "DISCUSS" -> "dead"
    [] OTHER -> "none"
=============================================================================
