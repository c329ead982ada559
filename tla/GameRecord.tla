----------------------------- MODULE GameRecord -----------------------------
(***************************************************************************)
(* What the handlers of a game expect of its record: each handler's update *)
(* is applied in one step, at most once, and on top of all the others.     *)
(***************************************************************************)
CONSTANT Handler  \* invocations of the bot's handlers on this game

VARIABLE content  \* the updates the record contains

Init == content = {}

Apply(h) ==
  /\ h \notin content
  /\ content' = content \cup {h}

Next == \E h \in Handler : Apply(h)

Spec == Init /\ [][Next]_content
=============================================================================
