--------------------------- MODULE GameLifecycle ---------------------------
(***************************************************************************)
(* The life of a guild's games: /new, /end, /pause and the like, the       *)
(* worker subscribed to each game's capture jobs, its timeout, the process *)
(* restart, and the records and pointers they share in Redis.              *)
(*                                                                         *)
(* A game's record is stored under its connect code.  Slash commands find  *)
(* it by a pointer from their text channel, voice events by one from the   *)
(* voice channel, capture jobs by one from the connect code itself.        *)
(*                                                                         *)
(* A process is an invocation of a slash command or of newGuild, or a      *)
(* subscription worker.  Each step between two accesses to Redis that      *)
(* others can observe is an action.  GameStateLock deals with bodies that  *)
(* outlast their lease; here a lease lapses only when its holder is        *)
(* blocked, has returned without releasing, or has died.                   *)
(* The time to live of records and pointers (900 s, renewed by every       *)
(* write) is left out.                                                     *)
(***************************************************************************)
EXTENDS Naturals, FiniteSets

CONSTANTS
  Command,     \* invocations of slash commands
  Greeting,    \* invocations of newGuild, at least one per start of the bot
  Worker,      \* subscription workers (SubscribeToGameByConnectCode)
  Code,        \* connect codes, each generated at most once
  NoCode,      \* the empty connect code
  Text, Voice, \* the guild's text and voice channels
  None,        \* the empty string: no pointer, no channel, no process
  NoRecord,    \* redis.Nil
  Ops,         \* the commands users issue
  MayTimeOut,  \* whether a worker's capture timer may fire
  MaxNew,      \* bound: how many of the commands are /new
  MaxRestarts  \* bound: how often the bot restarts

ASSUME LifecycleAssumption ==
  /\ Command \cap Worker = {}
  /\ Greeting \cap (Command \cup Worker) = {}
  /\ NoCode \notin Code
  /\ None \notin Command \cup Greeting \cup Worker \cup Code \cup {NoCode} \cup Text \cup Voice
  /\ Ops \subseteq {"new", "end", "touch", "refresh"}
  /\ MayTimeOut \in BOOLEAN
  /\ MaxNew \in Nat /\ MaxRestarts \in Nat

VARIABLES
  data,     \* data[k]: the record stored under connect code k
  codePtr,  \* the codes that have a connect code pointer
  textPtr,  \* textPtr[t]: the record key that t's pointer holds
  voicePtr, \* voicePtr[v]: likewise for a voice channel
  lock,     \* lock[k]: who holds "<key>:lock"; lock[None] is ":lock"
  games,    \* the guild's sorted set of active games
  chan,     \* EndGameChannels[c]: the worker that receives from it
  pc,       \* the step each process is at
  task,     \* what each process is doing
  req,      \* the request (connect code, text channel) it looks games up by
  name,     \* the key whose lock it asks for
  copy,     \* its copy of the record
  peer,     \* the worker it sends on a kill channel to
  used,     \* the connect codes that have been generated
  todo,     \* the old games each newGuild has loaded and not resubscribed to
  doubled,  \* history: the games newGuild loaded while they were in service
  strayed,  \* history: the games written back under a lock not their own
  restarts  \* how often the bot has restarted

store == <<data, codePtr, textPtr, voicePtr>>
shared == <<store, lock, strayed>>
frame == <<name, copy, peer>>
local == <<task, req, frame>>
session == <<games, chan, used, todo, doubled, restarts>>
vars == <<store, lock, strayed, session, pc, local>>

Proc == Command \cup Greeting \cup Worker
Key == Code \cup {NoCode}

Steps == {"ready", "look", "next", "resolve", "obtain", "body", "send", "sent", "pointers",
          "stored", "activated", "idle", "timedOut", "deleteLock", "delete", "done", "gone", "dead"}
Tasks == {"none", "new", "start", "end", "touch", "refresh", "job", "force", "greet"}

Record == [code : Key, text : Text \cup {None}, voice : Voice \cup {None},
           msg : BOOLEAN]
Request == [code : Key, text : Text \cup {None}]

\* A record is never redis.Nil.
ASSUME RecordAssumption == NoRecord \notin Record

\* NewDiscordGameState for a request; msg is GameStateMsg.MessageID # "".
FreshRecord(r) == [code |-> r.code, text |-> r.text, voice |-> None, msg |-> FALSE]
EmptyRecord == FreshRecord([code |-> NoCode, text |-> None])

\* GameStateMessage.Exists
Shown(r) == r.msg /\ r.text # None

Init ==
  /\ data = [k \in Key |-> NoRecord]
  /\ codePtr = {}
  /\ textPtr = [t \in Text |-> None]
  /\ voicePtr = [v \in Voice |-> None]
  /\ lock = [k \in Key \cup {None} |-> None]
  /\ games = {}
  /\ chan = [c \in Code |-> None]
  /\ pc = [p \in Proc |-> "ready"]
  /\ task = [p \in Proc |-> "none"]
  /\ req = [p \in Proc |-> [code |-> NoCode, text |-> None]]
  /\ name = [p \in Proc |-> None]
  /\ copy = [p \in Proc |-> EmptyRecord]
  /\ peer = [p \in Proc |-> None]
  /\ used = {}
  /\ todo = [g \in Greeting |-> {}]
  /\ doubled = {}
  /\ strayed = {}
  /\ restarts = 0

Goto(p, step) == pc' = [pc EXCEPT ![p] = step]
Begin(p, t) == task' = [task EXCEPT ![p] = t]

\* P's processes leave the function and forget what they looked up.
Forget(P) ==
  /\ name' = [p \in Proc |-> IF p \in P THEN None ELSE name[p]]
  /\ copy' = [p \in Proc |-> IF p \in P THEN EmptyRecord ELSE copy[p]]
  /\ peer' = [p \in Proc |-> IF p \in P THEN None ELSE peer[p]]

Leave(p, step) == Goto(p, step) /\ Forget({p}) /\ UNCHANGED <<task, req>>

-----------------------------------------------------------------------------
(* The record store *)

\* getDiscordGameStateKey: the first of the three pointers that is set.
Resolved(c, t, v) ==
  IF c \in codePtr THEN c
  ELSE IF t # None /\ textPtr[t] # None THEN textPtr[t]
  ELSE IF v # None THEN voicePtr[v]
  ELSE None

KeyOf(r) == Resolved(r.code, r.text, None)

\* getDiscordGameState with createOnNil FALSE.
Lookup(r) == IF KeyOf(r) = None THEN NoRecord ELSE data[KeyOf(r)]

\* SetDiscordGameState stores nothing for a state with neither key nor code.
Storable(r) == r.code # NoCode \/ Resolved(r.code, r.text, r.voice) # None

PutData(r) == data' = IF Storable(r) THEN [data EXCEPT ![r.code] = r] ELSE data

PutPointers(r) ==
  /\ codePtr' = codePtr \cup ({r.code} \ {NoCode})
  /\ voicePtr' = [v \in Voice |-> IF v = r.voice THEN r.code ELSE voicePtr[v]]
  /\ textPtr' = [t \in Text |-> IF t = r.text THEN r.code ELSE textPtr[t]]

Unlocked(p, k) == IF lock[k] = p THEN [lock EXCEPT ![k] = None] ELSE lock

\* GetDiscordGameStateAndLock: the key is resolved first...
Resolve(p) ==
  /\ pc[p] = "resolve"
  /\ name' = [name EXCEPT ![p] = KeyOf(req[p])]
  /\ Goto(p, "obtain")
  /\ UNCHANGED <<shared, session, task, req, copy, peer>>

\* ...then its lock obtained, and the record read by a second resolution.
\* Without one a new state is stored and given pointers (createOnNil).
Fetch(p) ==
  /\ pc[p] = "obtain"
  /\ lock[name[p]] = None
  /\ lock' = [lock EXCEPT ![name[p]] = p]
  /\ LET r == IF Lookup(req[p]) # NoRecord THEN Lookup(req[p])
              ELSE FreshRecord(req[p])
     IN /\ copy' = [copy EXCEPT ![p] = r]
        /\ IF Lookup(req[p]) = NoRecord /\ Storable(r)
           THEN PutData(r) /\ PutPointers(r)
           ELSE UNCHANGED store
  /\ Goto(p, "body")
  /\ UNCHANGED <<strayed, session, task, req, name, peer>>

\* Loops of the form "for lock == nil"; the other callers give up.
Insists(p) == task[p] \in {"job", "force", "greet", "refresh"}

NotObtained(p) ==
  /\ pc[p] = "obtain"
  /\ lock[name[p]] # None
  /\ Leave(p, IF Insists(p) THEN "resolve" ELSE "done")
  /\ UNCHANGED <<shared, session>>

\* SetDiscordGameState up to the release, and the pointers after it.
Commit(p, r) ==
  /\ PutData(r)
  /\ strayed' = strayed \cup (({r.code} \cap {copy[p].code}) \ {name[p]})
  /\ lock' = Unlocked(p, name[p])
  /\ copy' = [copy EXCEPT ![p] = r]
  /\ Goto(p, IF Storable(r) THEN "pointers" ELSE "stored")
  /\ UNCHANGED <<codePtr, textPtr, voicePtr>>

Pointers(p) ==
  /\ pc[p] = "pointers"
  /\ PutPointers(copy[p])
  /\ Goto(p, "stored")
  /\ UNCHANGED <<data, lock, strayed, session, local>>

\* SetDiscordGameState(nil, lock)
ReleaseOnly(p) ==
  /\ lock' = Unlocked(p, name[p])
  /\ Leave(p, "done")
  /\ UNCHANGED <<store, strayed, session>>

-----------------------------------------------------------------------------
(* Slash commands *)

\* A command arrives in a text channel.  /end starts with a read-only look.
Issue(p, op, t) ==
  /\ pc[p] = "ready"
  /\ op = "new" => Cardinality({q \in Command : task[q] \in {"new", "start"}}) < MaxNew
  /\ Begin(p, op)
  /\ req' = [req EXCEPT ![p] = [code |-> NoCode, text |-> t]]
  /\ Goto(p, IF op = "end" THEN "look" ELSE "resolve")
  /\ UNCHANGED <<shared, session, name, copy, peer>>

\* A game that is on the board is killed through its channel, if it has one.
KillOrGoOn(p, r) ==
  LET w == IF r.code \in Code THEN chan[r.code] ELSE None IN
  /\ peer' = [peer EXCEPT ![p] = w]
  /\ Goto(p, IF w = None THEN "sent" ELSE "send")

NewOverShown(p) ==
  /\ task[p] = "new" /\ pc[p] = "body"
  /\ Shown(copy[p])
  /\ KillOrGoOn(p, copy[p])
  /\ UNCHANGED <<shared, session, task, req, name, copy>>

\* The send on the unbuffered channel meets the worker in its select.
Send(p) ==
  /\ pc[p] = "send"
  /\ pc[peer[p]] = "idle"
  /\ pc' = [pc EXCEPT ![p] = "sent", ![peer[p]] = "resolve"]
  /\ task' = [task EXCEPT ![peer[p]] = "force"]
  /\ UNCHANGED <<shared, session, req, name, copy, peer>>

\* Mutant: the entry is blanked, not deleted.
DropEntryBlank(c) == chan' = [d \in Code |-> IF d = c THEN NoCode ELSE chan[d]]

\* delete(bot.EndGameChannels, dgs.ConnectCode)
DropEntry(c) == chan' = [d \in Code |-> IF d = c THEN None ELSE chan[d]]

\* Mutant: generateConnectCode always gives the same code.
NewCodeAgain(p, r) ==
  LET c == CHOOSE d \in Code : TRUE IN
  /\ used' = used \cup {c}
  /\ Commit(p, [r EXCEPT !.code = c])

\* newGame sets a fresh code, after a Reset if there was a game; then Set.
\* Which one is the same to all.
NewCode(p, r) ==
  /\ Code # used
  /\ LET c == CHOOSE d \in Code : d \notin used IN
     /\ used' = used \cup {c}
     /\ Commit(p, [r EXCEPT !.code = c])

NewAfterKill(p) ==
  /\ task[p] = "new" /\ pc[p] = "sent"
  /\ DropEntry(copy[p].code)
  /\ NewCode(p, EmptyRecord)
  /\ UNCHANGED <<games, todo, doubled, restarts, task, req, name, peer>>

NewWithoutGame(p) ==
  /\ task[p] = "new" /\ pc[p] = "body"
  /\ ~Shown(copy[p])
  /\ NewCode(p, copy[p])
  /\ UNCHANGED <<games, chan, todo, doubled, restarts, task, req, name, peer>>

\* Too many active games for the free tier: NewLockout.
NewLockout(p) ==
  /\ task[p] = "new" /\ pc[p] = "body"
  /\ ~Shown(copy[p])
  /\ ReleaseOnly(p)

\* Mutant: /new leaves it to the first job to call RefreshActiveGame.
ActivateLater(p) ==
  /\ task[p] = "new" /\ pc[p] = "stored"
  /\ Goto(p, "activated")
  /\ UNCHANGED <<shared, session, local>>

\* RefreshActiveGame
Activate(p) ==
  /\ task[p] = "new" /\ pc[p] = "stored"
  /\ games' = games \cup {copy[p].code}
  /\ Goto(p, "activated")
  /\ UNCHANGED <<shared, chan, used, todo, doubled, restarts, local>>

\* The next goroutine, and the processes when p starts it for code c.
NextWorker == CHOOSE w \in Worker : pc[w] = "ready"

StartWorker(p, w, c, step) ==
  /\ w \in Worker /\ pc[w] = "ready"
  /\ pc' = [pc EXCEPT ![w] = "idle", ![p] = step]
  /\ req' = [req EXCEPT ![w] = [code |-> c, text |-> None],
                        ![p].code = c]

\* go Subscribe...; EndGameChannels[code] = killChan; handleGameStartMessage.
Launch(p) ==
  /\ task[p] = "new" /\ pc[p] = "activated"
  /\ StartWorker(p, NextWorker, copy[p].code, "resolve")
  /\ chan' = [chan EXCEPT ![copy[p].code] = NextWorker]
  /\ Begin(p, "start")
  /\ UNCHANGED <<shared, games, used, todo, doubled, restarts, name, copy, peer>>

\* handleGameStartMessage's body: the game gets its voice channel and, if
\* Discord takes it, its message.
ShowGame(p) ==
  /\ task[p] = "start" /\ pc[p] = "body"
  /\ \E v \in Voice, posted \in BOOLEAN :
       Commit(p, [copy[p] EXCEPT !.voice = v, !.msg = posted,
                    !.text = IF posted THEN req[p].text ELSE None])
  /\ UNCHANGED <<session, task, req, name, peer>>

\* /pause, /link, /unlink and the buttons change a game that is on the board.
TouchShown(p) ==
  /\ task[p] = "touch" /\ pc[p] = "body"
  /\ Shown(copy[p])
  /\ Commit(p, copy[p])
  /\ UNCHANGED <<session, task, req, name, peer>>

TouchNothing(p) ==
  /\ task[p] = "touch" /\ pc[p] = "body"
  /\ ReleaseOnly(p)

\* RefreshGameStateMessage: the message is made anew...
RefreshShown(p) ==
  /\ task[p] = "refresh" /\ pc[p] = "body"
  /\ Shown(copy[p])
  /\ Commit(p, copy[p])
  /\ UNCHANGED <<session, task, req, name, peer>>

\* ...or the function returns at once, without handing back the lock.
RefreshNothing(p) ==
  /\ task[p] = "refresh" /\ pc[p] = "body"
  /\ ~Shown(copy[p])
  /\ Leave(p, "done")
  /\ UNCHANGED <<shared, session>>

\* /end and the stop button: GetReadOnlyDiscordGameState.
EndLook(p) ==
  /\ pc[p] = "look"
  /\ LET r == Lookup(req[p]) IN
     IF r # NoRecord /\ Shown(r)
     THEN /\ KillOrGoOn(p, r)
          /\ copy' = [copy EXCEPT ![p] = r]
          /\ UNCHANGED <<task, req, name>>
     ELSE Leave(p, "done")
  /\ UNCHANGED <<shared, session>>

\* The entry is deleted and applyToAll(false, false) unmutes the players.
EndUnmute(p) ==
  /\ task[p] = "end" /\ pc[p] = "sent"
  /\ DropEntry(copy[p].code)
  /\ Leave(p, "done")
  /\ UNCHANGED <<shared, games, used, todo, doubled, restarts>>

-----------------------------------------------------------------------------
(* Subscription workers *)

Working(w) == pc[w] \notin {"ready", "gone", "dead"}

\* A notification: a popped job updates the game under its lock.
TakeJob(w) ==
  /\ w \in Worker /\ pc[w] = "idle"
  /\ Begin(w, "job")
  /\ Goto(w, "resolve")
  /\ games' = games \cup {req[w].code}
  /\ UNCHANGED <<shared, chan, used, todo, doubled, restarts, req, name, copy, peer>>

DoJob(w) ==
  /\ task[w] = "job" /\ pc[w] = "body"
  /\ Commit(w, [copy[w] EXCEPT !.code = req[w].code])
  /\ UNCHANGED <<session, task, req, name, peer>>

JobDone(w) ==
  /\ task[w] = "job" /\ pc[w] = "stored"
  /\ Leave(w, "idle")
  /\ UNCHANGED <<shared, session>>

\* p has set up c, or is about to: all this takes less than captureTimeout.
SettingUp(p, c) ==
  \/ req[p].code = c /\ pc[p] \notin {"done", "dead", "next"}
  \/ task[p] = "new" /\ copy[p].code = c /\ pc[p] \in {"pointers", "stored", "activated"}

\* The timer fires captureTimeout after the worker's last notification.
Timeout(w) ==
  /\ MayTimeOut
  /\ w \in Worker /\ pc[w] = "idle"
  /\ \A p \in Command \cup Greeting : ~SettingUp(p, req[w].code)
  /\ Goto(w, "timedOut")
  /\ UNCHANGED <<shared, session, local>>

DropOwnEntry(w) ==
  /\ pc[w] = "timedOut"
  /\ DropEntry(req[w].code)
  /\ Begin(w, "force")
  /\ Goto(w, "resolve")
  /\ UNCHANGED <<shared, games, used, todo, doubled, restarts, req, name, copy, peer>>

\* forceEndGame: the message is deleted and its fields are reset; Set.
ForceReset(w) ==
  /\ task[w] = "force" /\ pc[w] = "body"
  /\ Commit(w, [copy[w] EXCEPT !.text = None, !.msg = FALSE])
  /\ UNCHANGED <<session, task, req, name, peer>>

\* Mutant: forceEndGame leaves the game among the active ones.
RemoveNoGame(w) ==
  /\ task[w] = "force" /\ pc[w] = "stored"
  /\ Goto(w, "deleteLock")
  /\ UNCHANGED <<shared, session, local>>

\* RemoveOldGame; DeleteDiscordGameState reads the record again.
RemoveOldGame(w) ==
  /\ task[w] = "force" /\ pc[w] = "stored"
  /\ games' = games \ {copy[w].code}
  /\ LET r == Lookup([code |-> copy[w].code, text |-> None]) IN
     IF r = NoRecord
     THEN Leave(w, "gone")
     ELSE /\ Goto(w, "deleteLock")
          /\ copy' = [copy EXCEPT ![w] = r]
          /\ UNCHANGED <<task, req, name, peer>>
  /\ UNCHANGED <<shared, chan, used, todo, doubled, restarts>>

\* "Could not obtain lock!" is logged, and the deletion goes ahead.
LockToDelete(w) ==
  /\ pc[w] = "deleteLock"
  /\ lock' = IF lock[copy[w].code] = None
             THEN [lock EXCEPT ![copy[w].code] = w] ELSE lock
  /\ Goto(w, "delete")
  /\ UNCHANGED <<store, strayed, session, local>>

\* The pointers that the record names, and the record, are deleted.
Delete(w) ==
  /\ pc[w] = "delete"
  /\ textPtr' = [t \in Text |-> IF t = copy[w].text THEN None ELSE textPtr[t]]
  /\ voicePtr' = [v \in Voice |-> IF v = copy[w].voice THEN None ELSE voicePtr[v]]
  /\ codePtr' = codePtr \ {copy[w].code}
  /\ data' = [data EXCEPT ![copy[w].code] = NoRecord]
  /\ lock' = Unlocked(w, copy[w].code)
  /\ Leave(w, "gone")
  /\ UNCHANGED <<strayed, session>>

-----------------------------------------------------------------------------
(* Restart *)

\* The process dies with all its goroutines; Redis keeps records and leases.
Crash ==
  /\ restarts < MaxRestarts
  /\ restarts' = restarts + 1
  /\ pc' = [p \in Proc |-> IF pc[p] \in {"ready", "done", "gone"} THEN pc[p] ELSE "dead"]
  /\ chan' = [c \in Code |-> None]
  /\ Forget({p \in Proc : pc'[p] = "dead"})
  /\ UNCHANGED <<shared, games, used, todo, doubled, task, req>>

\* A worker of the game is running or about to be started.
InService(c) ==
  \/ \E w \in Worker : Working(w) /\ req[w].code = c
  \/ \E p \in Command : task[p] = "new" /\ pc[p] = "activated" /\ copy[p].code = c
  \/ \E g \in Greeting : pc[g] # "dead" /\ c \in todo[g]

\* newGuild: the bot has connected, or connected again, to the guild, and has
\* dealt with its emojis.  An invocation is kept for each restart to come.
LoadAllActiveGames(g) ==
  /\ pc[g] = "ready"
  /\ Cardinality({h \in Greeting : pc[h] = "ready"}) > MaxRestarts - restarts
  /\ todo' = [todo EXCEPT ![g] = games]
  /\ doubled' = doubled \cup {c \in games : InService(c)}
  /\ Begin(g, "greet")
  /\ Goto(g, "next")
  /\ UNCHANGED <<shared, games, chan, used, restarts, req, name, copy, peer>>

NextGame(g) ==
  /\ pc[g] = "next"
  /\ \E c \in todo[g] : req' = [req EXCEPT ![g].code = c]
  /\ Goto(g, "resolve")
  /\ UNCHANGED <<shared, session, task, name, copy, peer>>

NoMoreGames(g) ==
  /\ pc[g] = "next"
  /\ todo[g] = {}
  /\ Leave(g, "done")
  /\ UNCHANGED <<shared, session>>

\* A worker is started, and Set writes the record and releases.
Resubscribe(g) ==
  /\ task[g] = "greet" /\ pc[g] = "body"
  /\ PutData(copy[g])
  /\ lock' = Unlocked(g, name[g])
  /\ StartWorker(g, NextWorker, copy[g].code, "pointers")
  /\ peer' = [peer EXCEPT ![g] = NextWorker]
  /\ UNCHANGED <<codePtr, textPtr, voicePtr, strayed, session, task, name, copy>>

\* Mutant: the loop comes back to the game it has just resubscribed to.
RegisterAgain(g) ==
  /\ task[g] = "greet" /\ pc[g] = "stored"
  /\ chan' = [chan EXCEPT ![copy[g].code] = peer[g]]
  /\ Leave(g, "next")
  /\ UNCHANGED <<shared, games, used, todo, doubled, restarts>>

Register(g) ==
  /\ task[g] = "greet" /\ pc[g] = "stored"
  /\ chan' = [chan EXCEPT ![copy[g].code] = peer[g]]
  /\ todo' = [todo EXCEPT ![g] = @ \ {copy[g].code}]
  /\ Leave(g, "next")
  /\ UNCHANGED <<shared, games, used, doubled, restarts>>

Return(p) ==
  /\ task[p] \in {"start", "touch", "refresh"} /\ pc[p] = "stored"
  /\ Leave(p, "done")
  /\ UNCHANGED <<shared, session>>

-----------------------------------------------------------------------------
Inside == {"body", "delete"}

\* Mutant: locks have no time to live.
ExpireNever(k) == FALSE /\ UNCHANGED vars

\* A lock's time is up: its holder is blocked, has left it behind or is dead.
Expire(k) ==
  /\ lock[k] # None
  /\ pc[lock[k]] \notin Inside
  /\ lock' = [lock EXCEPT ![k] = None]
  /\ UNCHANGED <<store, strayed, session, pc, local>>

\* What a process does once it has begun.
Step(p) ==
  \/ Resolve(p) \/ Fetch(p) \/ NotObtained(p) \/ Pointers(p) \/ Return(p)
  \/ NewOverShown(p) \/ NewAfterKill(p) \/ NewWithoutGame(p) \/ NewLockout(p)
  \/ Activate(p) \/ Launch(p) \/ ShowGame(p)
  \/ TouchShown(p) \/ TouchNothing(p) \/ RefreshShown(p) \/ RefreshNothing(p)
  \/ EndLook(p) \/ EndUnmute(p)
  \/ DoJob(p) \/ JobDone(p)
  \/ DropOwnEntry(p) \/ ForceReset(p) \/ RemoveOldGame(p) \/ LockToDelete(p)
  \/ Delete(p)
  \/ NextGame(p) \/ NoMoreGames(p) \/ Resubscribe(p) \/ Register(p)

Next ==
  \/ \E p \in Command, op \in Ops, t \in Text : Issue(p, op, t)
  \/ \E g \in Greeting : LoadAllActiveGames(g)
  \/ \E p \in Command : Send(p)
  \/ \E p \in Proc : Step(p)
  \/ \E w \in Worker : TakeJob(w) \/ Timeout(w)
  \/ \E k \in Key \cup {None} : Expire(k)
  \/ Crash

Spec == Init /\ [][Next]_vars

\* Goroutines are scheduled, the bot connects when it has started, leases
\* expire, and select does not pass over a pending send for ever.  Users,
\* captures and timers owe nothing.
FairSpec ==
  /\ Spec
  /\ \A p \in Proc : WF_vars(Step(p))
  /\ \A p \in Command : SF_vars(Send(p))
  /\ WF_vars(\E g \in Greeting : LoadAllActiveGames(g))
  /\ \A k \in Key \cup {None} : WF_vars(Expire(k))

-----------------------------------------------------------------------------
(* Properties *)

\* Every variable has its type.
TypeOK ==
  /\ data \in [Key -> Record \cup {NoRecord}]
  /\ codePtr \subseteq Code
  /\ textPtr \in [Text -> Key \cup {None}]
  /\ voicePtr \in [Voice -> Key \cup {None}]
  /\ lock \in [Key \cup {None} -> Proc \cup {None}]
  /\ games \subseteq Code
  /\ chan \in [Code -> Worker \cup {None}]
  /\ pc \in [Proc -> Steps]
  /\ task \in [Proc -> Tasks]
  /\ req \in [Proc -> Request]
  /\ name \in [Proc -> Key \cup {None}]
  /\ copy \in [Proc -> Record]
  /\ peer \in [Proc -> Worker \cup {None}]
  /\ used \subseteq Code /\ doubled \subseteq Code /\ strayed \subseteq Key
  /\ todo \in [Greeting -> SUBSET Code]
  /\ restarts \in 0 .. MaxRestarts

\* As long as a worker serves a game, the game's record is there and is found
\* by its connect code: no command or other worker takes it away.
ServedGameFound ==
  \A w \in Worker : Working(w) /\ req[w].code \notin doubled =>
    req[w].code \in codePtr /\ data[req[w].code] # NoRecord

\* Once a worker has ended its game the game stays ended: no late handler
\* brings back its place among the active games, or its record, but for a
\* handler that resolved no key or another one, and so held another lock.
EndedGameStaysEnded ==
  \A w \in Worker : pc[w] = "gone" /\ req[w].code \notin doubled =>
    /\ req[w].code \notin games
    /\ req[w].code \in strayed \/ data[req[w].code] = NoRecord

\* A game with a message on the board is in the guild's set of active games, in
\* every state a crash may leave: newGuild will find it (bot.go:209-213).  What
\* fails it is a handler that writes an ended game back under another lock.
ShownGameActive ==
  \A c \in Code :
    data[c] # NoRecord /\ Shown(data[c]) => c \in games \/ c \in strayed

\* No two workers serve one game, so its jobs are handled one after another,
\* unless newGuild loaded it while it was in service (bot.go:209-223).
OneWorkerPerGame ==
  \A v, w \in Worker :
    v # w /\ Working(v) /\ Working(w) /\ req[v].code = req[w].code =>
      req[v].code \in doubled

\* Every command returns, but for /refresh, which insists on its lock, and the
\* sender whose worker somebody else has killed.  The lease frees /new from the
\* worker that wants the lock /new holds while it sends to it (bot.go:379-382).
CommandsReturn ==
  \A p \in Command :
    pc[p] # "ready" /\ task[p] # "refresh" ~>
      \/ pc[p] \in {"done", "dead"}
      \/ pc[p] = "send" /\ pc[peer[p]] \in {"gone", "dead"}

\* After a restart every game on the board gets a worker, or is over, unless it
\* has been written back under another lock.
ShownGameServed ==
  \A c \in Code :
    data[c] # NoRecord /\ Shown(data[c]) ~>
      \/ \E w \in Worker : Working(w) /\ req[w].code = c
      \/ data[c] = NoRecord \/ c \in strayed

\* README.md: /stop "Unmutes all and resets state", so a kill is delivered.
StopUnmutes ==
  \A p \in Command :
    task[p] = "end" /\ pc[p] = "send" ~> pc[p] \in {"sent", "dead"}

\* redis.go: "delete all the pointers to the underlying -actual- discord data".
NoDanglingPointer ==
  \A w \in Worker : pc[w] = "gone" =>
    \A t \in Text : textPtr[t] # req[w].code
=============================================================================
