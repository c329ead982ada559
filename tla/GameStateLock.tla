--------------------------- MODULE GameStateLock ---------------------------
(***************************************************************************)
(* The lease that guards one game record in Redis (bot/redis.go), and the  *)
(* read-modify-write every handler of the bot performs under it:           *)
(*                                                                         *)
(*   GetDiscordGameStateAndLock  resolve the record's key, obtain          *)
(*                               "<key>:lock" for LockTimeoutMs, then read *)
(*                               the record, creating it if there is none; *)
(*   the handler's body          changes its own copy;                     *)
(*   SetDiscordGameState         writes the copy back, then releases.      *)
(*                                                                         *)
(* A Handler is one invocation (of a slash command, of a capture job, of a *)
(* voice event), in whichever goroutine or shard.  What a handler changes  *)
(* is its update: the record is abstracted to the set of the updates it    *)
(* contains, so an update that was written and is no longer there is lost. *)
(* The lease is the only exclusion, and nothing checks that it is still    *)
(* held, or that it is the right one, when the copy is written.            *)
(***************************************************************************)
EXTENDS Naturals

CONSTANTS
  Handler,    \* invocations of the bot's handlers on this game
  Insistent,  \* those that call GetDiscordGameStateAndLock until they get it
  Refresher,  \* those that run RefreshGameStateMessage
  Existing,   \* whether the game's record must exist to begin with
  MayOverrun, \* whether a handler's body may outlast its lease
  NoHandler   \* nobody holds a lock

ASSUME HandlerAssumption ==
  /\ Insistent \subseteq Handler
  /\ Refresher \subseteq Handler
  /\ Existing \in BOOLEAN
  /\ MayOverrun \in BOOLEAN
  /\ NoHandler \notin Handler

VARIABLES
  lock,      \* lock[n]: the handler whose token the lock named n holds
  present,   \* whether there is a record, and a pointer to it
  record,    \* the updates it contains, {} when there is none
  pc,        \* where each handler is
  name,      \* the name of the lock each handler asks for
  copy,      \* the record as each handler read it
  committed, \* history: the handlers whose write-back has been done
  astray,    \* history: the handlers that do not hold the record's own lock
  strayWrite \* history: the handlers astray that wrote the record

vars == <<lock, present, record, pc, name, copy, committed, astray, strayWrite>>

\* "<key>:lock" with the record's key, and ":lock" when no key was found.
Keyed == "<key>:lock"
Nameless == ":lock"
LockName == {Keyed, Nameless}

\* Between obtaining the lock and handing it back.
Inside == {"locked", "creating", "working", "committed"}
Returned == {"done", "gaveUp"}
Steps == {"start", "resolved"} \cup Inside \cup Returned

Init ==
  /\ lock = [n \in LockName |-> NoHandler]
  /\ present \in BOOLEAN
  /\ Existing => present
  /\ record = {}
  /\ pc = [h \in Handler |-> "start"]
  /\ name = [h \in Handler |-> Keyed]
  /\ copy = [h \in Handler |-> {}]
  /\ committed = {}
  /\ astray = {}
  /\ strayWrite = {}

Goto(h, step) == pc' = [pc EXCEPT ![h] = step]

-----------------------------------------------------------------------------
(* GetDiscordGameStateAndLock *)

\* getDiscordGameStateKey, before the lock is held: without a pointer the key
\* is "", and so the lock is not the one other handlers will use.
Resolve(h) ==
  /\ pc[h] = "start"
  /\ name' = [name EXCEPT ![h] = IF present THEN Keyed ELSE Nameless]
  /\ astray' = IF present THEN astray ELSE astray \cup {h}
  /\ Goto(h, "resolved")
  /\ UNCHANGED <<lock, present, record, copy, committed, strayWrite>>

\* Mutant: the token is stored whether or not the key is free.
ObtainAnyway(h) ==
  /\ pc[h] = "resolved"
  /\ lock' = [lock EXCEPT ![name[h]] = h]
  /\ Goto(h, "locked")
  /\ UNCHANGED <<present, record, name, copy, committed, astray, strayWrite>>

\* redislock stores a token of its own under the key if the key is free.
Obtain(h) ==
  /\ pc[h] = "resolved"
  /\ lock[name[h]] = NoHandler
  /\ lock' = [lock EXCEPT ![name[h]] = h]
  /\ Goto(h, "locked")
  /\ UNCHANGED <<present, record, name, copy, committed, astray, strayWrite>>

\* Every retry found the lock taken.  An insistent caller starts over, from
\* the resolution of the key; another returns without the record.
NotObtained(h) ==
  /\ pc[h] = "resolved"
  /\ lock[name[h]] # NoHandler
  /\ IF h \in Insistent
     THEN Goto(h, "start") /\ astray' = astray \ {h}
     ELSE Goto(h, "gaveUp") /\ UNCHANGED astray
  /\ UNCHANGED <<lock, present, record, name, copy, committed, strayWrite>>

\* getDiscordGameState resolves the key again: the record is there.
Read(h) ==
  /\ pc[h] = "locked"
  /\ present
  /\ copy' = [copy EXCEPT ![h] = record]
  /\ Goto(h, "working")
  /\ UNCHANGED <<lock, present, record, name, committed, astray, strayWrite>>

\* getDiscordGameState: Get answers redis.Nil, so a fresh state will be stored.
ReadNothing(h) ==
  /\ pc[h] = "locked"
  /\ ~present
  /\ Goto(h, "creating")
  /\ UNCHANGED <<lock, present, record, name, copy, committed, astray, strayWrite>>

\* A write of the data key, whoever holds its lock by now.
Write(h, r) ==
  /\ present' = TRUE
  /\ record' = r
  /\ strayWrite' = strayWrite \cup ({h} \cap astray)

\* createOnNil: NewDiscordGameState is stored with no lock in hand to check.
Create(h) ==
  /\ pc[h] = "creating"
  /\ Write(h, {})
  /\ copy' = [copy EXCEPT ![h] = {}]
  /\ Goto(h, "working")
  /\ UNCHANGED <<lock, name, committed, astray>>

-----------------------------------------------------------------------------
(* SetDiscordGameState *)

\* The whole copy is written back over whatever is stored.
Commit(h) ==
  /\ pc[h] = "working"
  /\ Write(h, copy[h] \cup {h})
  /\ committed' = committed \cup {h}
  /\ Goto(h, "committed")
  /\ UNCHANGED <<lock, name, copy, astray>>

\* Mutants: the key is deleted whoever's token it holds, and is left with a
\* blank token.
UnlockAny(h) == lock' = [lock EXCEPT ![name[h]] = NoHandler]
UnlockBlank(h) == lock' = [lock EXCEPT ![name[h]] = IF @ = h THEN "" ELSE @]

\* Lock.Release deletes the key only while it still holds the caller's token.
Unlock(h) ==
  lock' = [lock EXCEPT ![name[h]] = IF @ = h THEN NoHandler ELSE @]

Release(h) ==
  /\ pc[h] = "committed"
  /\ Unlock(h)
  /\ Goto(h, "done")
  /\ UNCHANGED <<present, record, name, copy, committed, astray, strayWrite>>

\* SetDiscordGameState(nil, lock): the handler changed nothing.
ReleaseOnly(h) ==
  /\ pc[h] = "working"
  /\ Unlock(h)
  /\ Goto(h, "done")
  /\ UNCHANGED <<present, record, name, copy, committed, astray, strayWrite>>

\* RefreshGameStateMessage returns early when the game has no message, and
\* leaves the lock behind.
ReturnLocked(h) ==
  /\ pc[h] = "working"
  /\ h \in Refresher
  /\ Goto(h, "done")
  /\ UNCHANGED <<lock, present, record, name, copy, committed, astray, strayWrite>>

-----------------------------------------------------------------------------
(* The lease's time to live *)

\* Mutant: the lock is set without a time to live.
ExpireNever(n) == FALSE /\ UNCHANGED vars

\* Redis drops a lock LockTimeoutMs after it was set.  MayOverrun says whether
\* that can be before its holder is through.
Expire(n) ==
  /\ lock[n] # NoHandler
  /\ MayOverrun \/ pc[lock[n]] \notin Inside
  /\ astray' = astray \cup (IF pc[lock[n]] \in Inside THEN {lock[n]} ELSE {})
  /\ lock' = [lock EXCEPT ![n] = NoHandler]
  /\ UNCHANGED <<present, record, pc, name, copy, committed, strayWrite>>

\* All handlers have returned and the locks are free: nothing is left to do.
Idle ==
  /\ \A h \in Handler : pc[h] \in Returned
  /\ \A n \in LockName : lock[n] = NoHandler
  /\ UNCHANGED vars

HandlerStep(h) ==
  \/ Resolve(h) \/ Obtain(h) \/ NotObtained(h)
  \/ Read(h) \/ ReadNothing(h) \/ Create(h)
  \/ Commit(h) \/ Release(h) \/ ReleaseOnly(h) \/ ReturnLocked(h)

Next ==
  \/ \E h \in Handler : HandlerStep(h)
  \/ \E n \in LockName : Expire(n)
  \/ Idle

Spec == Init /\ [][Next]_vars

\* Goroutines are scheduled, and Redis expires its keys.
FairSpec ==
  /\ Spec
  /\ \A h \in Handler : WF_vars(HandlerStep(h))
  /\ \A n \in LockName : WF_vars(Expire(n))

-----------------------------------------------------------------------------
(* Properties *)

\* Every variable has its type.
TypeOK ==
  /\ lock \in [LockName -> Handler \cup {NoHandler}]
  /\ present \in BOOLEAN
  /\ record \subseteq Handler
  /\ pc \in [Handler -> Steps]
  /\ name \in [Handler -> LockName]
  /\ copy \in [Handler -> SUBSET Handler]
  /\ committed \subseteq Handler
  /\ astray \subseteq Handler
  /\ strayWrite \subseteq Handler

\* An update that was written back is in the record for good, unless a handler
\* astray wrote: one whose lease had lapsed, or that had resolved no key and
\* held ":lock".  The token that Release compares and the read under the lock
\* leave no other way to lose an update (redis.go:133-229).
NoLostUpdate == strayWrite = {} => committed \subseteq record

\* Two handlers are between obtaining and releasing only when one of them is
\* astray: its lease has lapsed, or it took the lock of no key.
Exclusion ==
  \A g, h \in Handler :
    /\ g # h
    /\ pc[g] \in Inside
    /\ pc[h] \in Inside
    => g \in astray \/ h \in astray

\* Every handler returns: a lock that RefreshGameStateMessage left behind is
\* freed by the time to live of its key, and by nothing else.
HandlersReturn == \A h \in Handler : <>(pc[h] \in Returned)

\* The atomic record this protocol is meant to provide (see GameRecord), which
\* it does for a record that exists while every body is shorter than its lease.
Atomic == INSTANCE GameRecord WITH content <- record
AtomicSpec == Atomic!Spec
=============================================================================
