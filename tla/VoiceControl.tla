---------------------------- MODULE VoiceControl ----------------------------
(***************************************************************************)
(* How one running game keeps its players muted and deafened: the worker   *)
(* that handles the capture's jobs one after another, the handlers of      *)
(* Discord's voice events, and /pause.                                     *)
(*                                                                         *)
(* The record says what each user should be (ShouldBeMute, ShouldBeDeaf).  *)
(* handleTrackedMembers compares that with the rules under the record's    *)
(* lock, records the new wishes, gives the lock back, waits for the delay  *)
(* of the phase, and only then asks Discord, on what it read before.  What *)
(* is done under the record's lock is one action (see GameStateLock).      *)
(*                                                                         *)
(* All users are linked to the player of their name whenever there is one, *)
(* and MuteSpectator is off, as it is by default.                          *)
(***************************************************************************)
EXTENDS GameRules, FiniteSets, Naturals

CONSTANTS
  User,            \* the members of the guild who play
  UnmuteDead,      \* the setting UnmuteDeadDuringTasks
  MayPause,        \* whether somebody uses /pause
  MaxEvents,       \* bound: nobody moves while so many events are pending
  MayFail          \* whether Discord may refuse a request

ASSUME VoiceAssumption ==
  MaxEvents \in Nat /\ UnmuteDead \in BOOLEAN /\ MayPause \in BOOLEAN /\ MayFail \in BOOLEAN

VARIABLES
  phase, players, alive,  \* GameData: the phase, and who plays and is alive
  running,   \* dgs.Running
  should,    \* ShouldBeMute and ShouldBeDeaf of each user
  place,     \* "tracked", "other" or no voice channel: "out"
  actual,    \* each user's voice state on Discord's server
  events,    \* voice events of the tracked channel that no handler has seen
  worker,    \* "idle", "decide", "lock", "wait" or "apply"
  priority,  \* who the worker deals with first
  first,     \* whom it will ask Discord for first,
  rest,      \* and whom after that,
  want,      \* and for what
  ranWhenRead, \* dgs.Running as the worker read it
  voiceLock, \* who holds the lock of voice changes: "worker", "other" or "free"
  override,  \* whom /pause is about to unmute
  missed     \* history: users who were refused, paused, exiled, unmuted without the
             \* record knowing, not listened to, or asked for what is out of date

record == <<phase, players, alive, running, should>>
discord == <<place, actual, events>>
batch == <<priority, first, rest, want, ranWhenRead>>
vars == <<record, discord, worker, batch, voiceLock, override, missed>>

Event == [user : User, state : VoiceState]

Init ==
  /\ phase = "MENU"
  /\ players = {} /\ alive = {}
  /\ running = TRUE
  /\ should = [u \in User |-> Off]
  /\ place \in [User -> {"tracked", "other", "out"}]
  /\ actual = [u \in User |-> Off]
  /\ events = {}
  /\ worker = "idle"
  /\ priority = "none" /\ first = {} /\ rest = {}
  /\ want = [u \in User |-> Off]
  /\ ranWhenRead = TRUE
  /\ voiceLock = "free"
  /\ override = {}
  /\ missed = {}

Tracked(u) == place[u] = "tracked" /\ u \in players
Rule(u) == VoiceRule(u \in alive, Tracked(u), phase)

\* Discord tells the bot of every change; only those of the tracked channel
\* lead to the game.
Told(u, v, p) == IF p = "tracked" THEN {[user |-> u, state |-> v]} ELSE {}

\* ApplyMuteDeaf: Discord refuses for a user in no voice channel.
Applied(u, v) ==
  /\ place[u] # "out"
  /\ actual' = [actual EXCEPT ![u] = v]
  /\ events' = events \cup Told(u, v, place[u])

Refused(u) ==
  /\ MayFail \/ place[u] = "out"
  /\ UNCHANGED <<actual, events>>

-----------------------------------------------------------------------------
(* The capture's jobs *)

\* processTransition, up to the release of the record's lock.  On the way back
\* to the menu applyToAll follows, otherwise handleTrackedMembers.
Transition(new) ==
  /\ worker = "idle"
  /\ new # phase
  /\ phase' = new
  /\ alive' = AliveAfter(phase, new, players, alive)
  /\ priority' = Priority(phase, new)
  /\ IF new = "MENU"
     THEN /\ worker' = "apply"
          /\ rest' = {u \in User : Tracked(u)}
          /\ missed' = missed \cup rest'
          /\ ranWhenRead' = TRUE
     ELSE worker' = "decide" /\ UNCHANGED <<rest, missed, ranWhenRead>>
  /\ UNCHANGED <<players, running, should, discord, first, want, voiceLock, override>>

\* processPlayer for a player who joins, dies, is exiled or changes.
PlayerJob(u, isDead, exiled, joined) ==
  LET dead == Dead(phase, isDead, exiled)
      updated == u \notin players \/ (u \in alive) = dead
      handled == \/ joined
                 \/ updated /\ u \notin players /\ ~exiled
                 \/ updated /\ u \in players /\ phase # "TASKS" /\ ~exiled
                 \/ updated /\ u \in players /\ phase = "TASKS" /\ (UnmuteDead \/ exiled)
  IN
  /\ worker = "idle"
  /\ ~(joined /\ exiled)
  /\ players' = players \cup {u}
  /\ alive' = IF dead THEN alive \ {u} ELSE alive \cup {u}
  /\ worker' = IF handled THEN "decide" ELSE "idle"
  /\ priority' = "none"
  /\ missed' = IF exiled /\ ~handled THEN missed \cup {u} ELSE missed
  /\ UNCHANGED <<phase, running, should, discord, first, rest, want, ranWhenRead,
                 voiceLock, override>>

\* Mutant: a player who leaves stays among the living.
LeftJobKeepsAlive(u) ==
  /\ worker = "idle"
  /\ Applied(u, Off) \/ Refused(u)
  /\ missed' = missed \cup {u}
  /\ players' = players \ {u}
  /\ worker' = "decide"
  /\ UNCHANGED <<phase, alive, running, should, place, batch, voiceLock, override>>

\* processPlayer for a player who leaves: applyToSingle unmutes the user, which
\* the record does not say, and the player is forgotten.
LeftJob(u) ==
  /\ worker = "idle"
  /\ Applied(u, Off) \/ Refused(u)
  /\ missed' = missed \cup {u}
  /\ players' = players \ {u}
  /\ alive' = alive \ {u}
  /\ worker' = "decide"
  /\ priority' = "none"
  /\ UNCHANGED <<phase, running, should, place, first, rest, want, ranWhenRead,
                 voiceLock, override>>

\* ConnectionJob
ConnectionJob ==
  /\ worker = "idle"
  /\ worker' = "decide"
  /\ priority' = "none"
  /\ UNCHANGED <<record, discord, first, rest, want, ranWhenRead, voiceLock, override, missed>>

-----------------------------------------------------------------------------
(* handleTrackedMembers *)

\* Mutant: the priorities are swapped.
UrgentSwapped(u) ==
  \/ priority = "alive" /\ u \notin alive
  \/ priority = "dead" /\ u \in alive

Urgent(u) ==
  \/ priority = "alive" /\ u \in alive
  \/ priority = "dead" /\ u \notin alive

\* Mutant: those without priority are dropped.
DecideUrgentOnly ==
  LET wrong == {u \in players : place[u] # "out" /\ Rule(u) # should[u]} IN
  /\ worker = "decide"
  /\ first' = {u \in wrong : Urgent(u)}
  /\ rest' = IF first' = {} THEN wrong ELSE {}
  /\ want' = [u \in User |-> IF u \in wrong THEN Rule(u) ELSE Off]
  /\ should' = [u \in User |-> IF u \in wrong THEN Rule(u) ELSE should[u]]
  /\ ranWhenRead' = running
  /\ worker' = "lock"
  /\ UNCHANGED <<phase, players, alive, running, discord, priority, voiceLock, override, missed>>

\* Mutant: the record is not told of the new wishes.
DecideUnrecorded ==
  LET wrong == {u \in players : place[u] # "out" /\ Rule(u) # should[u]} IN
  /\ worker = "decide"
  /\ first' = {u \in wrong : Urgent(u)}
  /\ rest' = wrong \ first'
  /\ want' = [u \in User |-> IF u \in wrong THEN Rule(u) ELSE Off]
  /\ ranWhenRead' = running
  /\ worker' = "lock"
  /\ UNCHANGED <<record, discord, priority, voiceLock, override, missed>>

\* Under the record's lock: who is not what the rules say, and the new wishes.
Decide ==
  LET wrong == {u \in players : place[u] # "out" /\ Rule(u) # should[u]} IN
  /\ worker = "decide"
  /\ first' = {u \in wrong : Urgent(u)}
  /\ rest' = wrong \ first'
  /\ want' = [u \in User |-> IF u \in wrong THEN Rule(u) ELSE Off]
  /\ should' = [u \in User |-> IF u \in wrong THEN Rule(u) ELSE should[u]]
  /\ ranWhenRead' = running
  /\ worker' = "lock"
  /\ UNCHANGED <<phase, players, alive, running, discord, priority, voiceLock, override, missed>>

\* LockVoiceChanges for delay + 1 seconds; without it the worker goes on.
LockVoice ==
  /\ worker = "lock"
  /\ voiceLock' = IF voiceLock = "free" THEN "worker" ELSE "other"
  /\ worker' = "wait"
  /\ UNCHANGED <<record, discord, batch, override, missed>>

\* Mutant: a batch read while the game was paused is applied all the same.
WaitWhilePaused ==
  /\ worker = "wait"
  /\ worker' = IF first \cup rest # {} THEN "apply" ELSE "idle"
  /\ priority' = IF first \cup rest # {} THEN priority ELSE "none"
  /\ UNCHANGED <<record, discord, first, rest, want, ranWhenRead, voiceLock, override, missed>>

\* The delay is over.  When the game was paused nobody is asked for anything;
\* the voice lock is kept until its time is up.
Wait ==
  /\ worker = "wait"
  /\ IF ranWhenRead /\ first \cup rest # {}
     THEN worker' = "apply" /\ UNCHANGED <<batch, voiceLock, missed>>
     ELSE /\ worker' = "idle"
          /\ missed' = missed \cup first \cup rest
          /\ first' = {} /\ rest' = {}
          /\ want' = [u \in User |-> Off]
          /\ priority' = "none"
          /\ UNCHANGED ranWhenRead
          /\ voiceLock' = IF voiceLock = "worker" THEN "other" ELSE voiceLock
  /\ UNCHANGED <<record, discord, override>>

\* ModifyUsers: the requests of one batch are carried out in any order, and all
\* of the first before the rest.
Ask(u) ==
  /\ worker = "apply"
  /\ u \in first \/ (first = {} /\ u \in rest)
  /\ \/ /\ Applied(u, want[u])
        /\ missed' = IF want[u] = should[u] /\ want[u] = Rule(u)
                     THEN missed \ {u} ELSE missed
     \/ Refused(u) /\ missed' = missed \cup {u}
  /\ first' = first \ {u}
  /\ rest' = rest \ {u}
  /\ want' = [want EXCEPT ![u] = Off]
  /\ UNCHANGED <<record, place, worker, priority, ranWhenRead, voiceLock, override>>

\* The last request is answered and the voice lock released.
Finish ==
  /\ worker = "apply"
  /\ first \cup rest = {}
  /\ worker' = "idle"
  /\ priority' = "none"
  /\ voiceLock' = IF voiceLock = "worker" THEN "free" ELSE voiceLock
  /\ UNCHANGED <<record, discord, first, rest, want, ranWhenRead, override, missed>>

\* The voice lock lives a second longer than the delay.
Lapse ==
  /\ voiceLock = "other" \/ (voiceLock = "worker" /\ worker # "wait")
  /\ voiceLock' = "free"
  /\ UNCHANGED <<record, discord, worker, batch, override, missed>>

-----------------------------------------------------------------------------
(* Users *)

Move(u, p) ==
  /\ p # place[u]
  /\ Cardinality(events) < MaxEvents
  /\ place' = [place EXCEPT ![u] = p]
  /\ events' = events \cup Told(u, actual[u], p)
  /\ missed' = IF u \in first \cup rest THEN missed \cup {u} ELSE missed
  /\ UNCHANGED <<record, actual, worker, batch, voiceLock, override>>

\* handleVoiceStateChange, which takes the user to be where the event says.
\* The request is made before the record is written and released, so the whole
\* is one action; unless it makes a request it keeps the voice lock.
VoiceEvent(e) ==
  LET u == e.user
      rule == VoiceRule(u \in alive, u \in players, phase)
      wrong == u \in players /\ rule # should[u] /\ rule # e.state
  IN
  /\ e \in events
  /\ voiceLock = "free"
  /\ should' = IF wrong THEN [should EXCEPT ![u] = rule] ELSE should
  /\ voiceLock' = IF wrong /\ running THEN "free" ELSE "other"
  /\ \/ /\ wrong /\ running /\ place[u] # "out"
        /\ actual' = [actual EXCEPT ![u] = rule]
        /\ events' = (events \ {e}) \cup Told(u, rule, place[u])
        /\ missed' = IF u \in first \cup rest THEN missed \cup {u} ELSE missed \ {u}
     \/ /\ wrong /\ (~running \/ MayFail \/ place[u] = "out")
        /\ events' = events \ {e}
        /\ missed' = missed \cup {u}
        /\ UNCHANGED actual
     \/ /\ ~wrong
        /\ events' = events \ {e}
        /\ UNCHANGED <<actual, missed>>
  /\ UNCHANGED <<phase, players, alive, running, place, worker, batch, override>>

\* The voice lock is not to be had: the handler returns, and the event is lost.
LoseEvent(e) ==
  /\ e \in events
  /\ voiceLock # "free"
  /\ events' = events \ {e}
  /\ missed' = missed \cup {e.user}
  /\ UNCHANGED <<record, place, actual, worker, batch, voiceLock, override>>

\* /pause toggles Running, and then unmutes everybody who is tracked.
Pause ==
  /\ MayPause
  /\ override = {}
  /\ running' = ~running
  /\ override' = IF running THEN {u \in User : Tracked(u)} ELSE {}
  /\ missed' = missed \cup override'
  /\ UNCHANGED <<phase, players, alive, should, discord, worker, batch, voiceLock>>

Override(u) ==
  /\ u \in override
  /\ Applied(u, Off) \/ Refused(u)
  /\ override' = override \ {u}
  /\ missed' = missed \cup {u}
  /\ UNCHANGED <<record, place, worker, batch, voiceLock>>

Next ==
  \/ \E p \in Phase : Transition(p)
  \/ \E u \in User, isDead, exiled, joined \in BOOLEAN : PlayerJob(u, isDead, exiled, joined)
  \/ \E u \in User : LeftJob(u) \/ Ask(u) \/ Override(u)
  \/ ConnectionJob \/ Decide \/ LockVoice \/ Wait \/ Finish \/ Lapse
  \/ \E u \in User, p \in {"tracked", "other", "out"} : Move(u, p)
  \/ \E e \in events : VoiceEvent(e) \/ LoseEvent(e)
  \/ Pause

Spec == Init /\ [][Next]_vars

-----------------------------------------------------------------------------
(* Properties *)

\* Every variable has its type.
TypeOK ==
  /\ phase \in Phase
  /\ alive \subseteq players /\ players \subseteq User
  /\ running \in BOOLEAN /\ ranWhenRead \in BOOLEAN
  /\ voiceLock \in {"free", "worker", "other"}
  /\ should \in [User -> VoiceState]
  /\ place \in [User -> {"tracked", "other", "out"}]
  /\ actual \in [User -> VoiceState]
  /\ events \subseteq Event
  /\ worker \in {"idle", "decide", "lock", "wait", "apply"}
  /\ priority \in {"alive", "dead", "none"}
  /\ first \subseteq User /\ rest \subseteq User
  /\ want \in [User -> VoiceState]
  /\ override \subseteq User /\ missed \subseteq User

\* Once the worker has asked for all it wants, every user is what the record
\* says, unless missed says why not: the comparisons to come start from what is
\* true on Discord's server (voice.go:138-163), whatever pauses, refusals and
\* voice events came between.
NoDrift ==
  first \cup rest = {} =>
    \A u \in User \ missed : actual[u] = should[u]

\* Users whose arrival or change has still to be dealt with.
Arriving == {e.user : e \in events}

\* When the worker rests, every player in the tracked channel is muted and
\* deafened as the rules of the phase say (voice.go:138-163); during the tasks
\* also as they were before they died or came back, since that must not show
\* (eventHandler.go:377-383).  It is so in every order of jobs, delays and
\* voice events; excepted are those whose arrival has still to be dealt with,
\* and those whom missed names.
RulesApplied ==
  worker = "idle" =>
    \A u \in User \ missed :
      Tracked(u) /\ u \notin Arriving =>
        \/ actual[u] = Rule(u)
        \/ phase = "TASKS" /\ actual[u] = VoiceRule(u \notin alive, TRUE, phase)

\* At the change to TASKS or to DISCUSS no dead player becomes audible to the
\* living, and no living player begins to hear, while the others still can
\* hear or be heard: the batch with priority is through (voice.go:184-211).
DeadStayUnheard ==
  [][\A a, d \in User :
       /\ worker = "apply" /\ priority # "none"
       /\ {a, d} \cap (missed' \cup Arriving) = {}
       /\ Tracked(a) /\ Tracked(d) /\ a \in alive /\ d \notin alive
       /\ ~actual'[a].deaf /\ ~actual'[d].mute
       => ~actual[a].deaf /\ ~actual[d].mute]_vars

\* A paused game mutes nobody, except through the batch the worker had read
\* before the pause: what handleTrackedMembers and handleVoiceStateChange read
\* after it says so (slash_commands.go:439-445, voice.go:178).
OnlyOldBatchMutes ==
  [][~running /\ ~(ranWhenRead /\ worker = "apply") =>
       \A u \in User : actual'[u].mute => actual[u].mute]_vars

\* README.md: after /pause the bot does not "automute anyone until unpaused".
NoMuteWhilePaused ==
  [][~running /\ ~running' =>
       \A u \in User : actual'[u].mute => actual[u].mute]_vars
=============================================================================
