------------------------------ MODULE Linking ------------------------------
(***************************************************************************)
(* Which Discord user plays which player: the links in the record of one   *)
(* game (bot/userDataSet.go, bot.go), made by name, by command, or from    *)
(* the guild's cache of names in Redis (bot/redis.go).  The cache has two  *)
(* entries for every link, read and written one after the other; the       *)
(* record's lock does not cover it, for the guild may have other games.    *)
(* A player is its name in the game, and stands for its colour too.        *)
(***************************************************************************)
EXTENDS FiniteSets, Naturals

CONSTANTS LinkUsers, Players,
          Namesakes,      \* pairs of a user and the player of the same name or nickname
          LinkCommands,   \* uses of /link, its buttons, /unlink and /privacy opt-out
          MaxCacheFaults  \* bound on commands of Redis that fail, and on deaths of the process

ASSUME LinkAssumption == Namesakes \subseteq LinkUsers \X Players /\ MaxCacheFaults \in Nat

UnlinkedPlayerName == "UNLINKED"
Elsewhere == "elsewhere"

VARIABLES userData,   \* of the record: the users, each with a player's name
          playerData, \* the players the capture has told of
          byUser, byName,  \* the cache
          linkCmd,    \* [pc, user, player, here, names, users]; names and users are
              \* what it has read of the two entries
          recordLock, \* {c}: the command that holds the record; else {}
          tied,       \* tied[u]: the player that a command has linked u to
          tangled,    \* commands overlapped in the cache, or Redis or the process failed
          halfKnown,  \* users whose own entry may miss a name: see NamesKnown
          cacheFaults
linkVars == <<userData, playerData, byUser, byName, linkCmd, recordLock, tied,
              tangled, halfKnown, cacheFaults>>
cacheVars == <<byUser, byName>>
recordVars == <<userData, playerData, recordLock, tied>>
ghostVars == <<tangled, halfKnown, cacheFaults>>

NewCommand == [pc |-> "new", user |-> Elsewhere, player |-> Elsewhere, here |-> FALSE,
               names |-> {}, users |-> {}]

LinkInit ==
  /\ userData = [u \in {} |-> UnlinkedPlayerName] /\ playerData = {}
  /\ byUser = [u \in LinkUsers |-> {}] /\ byName = [p \in Players |-> {}]
  /\ linkCmd = [c \in LinkCommands |-> NewCommand] /\ recordLock = {}
  /\ tied = [u \in LinkUsers |-> UnlinkedPlayerName] /\ tangled = FALSE
  /\ halfKnown = {} /\ cacheFaults = 0

-----------------------------------------------------------------------------
WithLink(ud, u, p) == [ud EXCEPT ![u] = p]

AttemptPairingByMatchingNames(ud, p) ==
  {WithLink(ud, u, p) : u \in {u \in DOMAIN ud : <<u, p>> \in Namesakes}}

\* Mutant: also a user who is paired already.
PairAnew(ud, p, ids) == {WithLink(ud, u, p) : u \in ids \cap DOMAIN ud}
\* Which of several it finds depends on the order of a Go map.
AttemptPairingByUserIDs(ud, p, ids) ==
  {IF ud[u] = UnlinkedPlayerName THEN WithLink(ud, u, p) ELSE ud : u \in ids \cap DOMAIN ud}

OrSame(s, ud) == IF s = {} THEN {ud} ELSE s
Pairings(ud, p, ids) ==
  LET named == AttemptPairingByMatchingNames(ud, p) IN
  IF named # {} THEN named ELSE OrSame(AttemptPairingByUserIDs(ud, p, ids), ud)

ClearPlayerDataByPlayerName(ud, p) ==
  OrSame({WithLink(ud, u, UnlinkedPlayerName) : u \in {u \in DOMAIN ud : ud[u] = p}}, ud)

\* Links that another than a command has changed are not tied any more.
Untie(leaving) ==
  tied' = [u \in LinkUsers |->
    IF \/ u \in DOMAIN userData /\ userData[u] = leaving
       \/ \E p \in Players : <<u, p>> \in Namesakes /\ u \in DOMAIN userData' /\ userData'[u] = p
    THEN UnlinkedPlayerName ELSE tied[u]]

\* checkCacheAndAddUser: a user comes into the voice channel.
AddUser(u) ==
  /\ recordLock = {} /\ u \notin DOMAIN userData
  /\ userData' = [v \in DOMAIN userData \cup {u} |->
                    IF v = u THEN UnlinkedPlayerName ELSE userData[v]]
  /\ UNCHANGED <<playerData, cacheVars, linkCmd, recordLock, tied, ghostVars>>

\* processPlayer, for a player who joins or of whom something is new; the HGET may fail.
PlayerSeen(p) ==
  /\ recordLock = {} /\ playerData' = playerData \cup {p}
  /\ userData' \in Pairings(userData, p, byName[p]) \cup Pairings(userData, p, {})
  /\ Untie(Elsewhere)
  /\ UNCHANGED <<cacheVars, linkCmd, recordLock, ghostVars>>

\* A player who has left is paired once more and then forgotten; only one who
\* disconnects is unlinked first.
PlayerGone(p, disconnected) ==
  /\ recordLock = {} /\ p \in playerData /\ playerData' = playerData \ {p}
  /\ \E ud \in IF disconnected THEN ClearPlayerDataByPlayerName(userData, p) ELSE {userData} :
       userData' \in Pairings(ud, p, byName[p]) \cup Pairings(ud, p, {})
  /\ Untie(IF disconnected THEN p ELSE Elsewhere)
  /\ UNCHANGED <<cacheVars, linkCmd, recordLock, ghostVars>>

-----------------------------------------------------------------------------
AtStep(c, pc) == linkCmd[c].pc = pc
UnderWay(c) == linkCmd[c].pc \notin {"new", "done"}
InCache == {c \in LinkCommands : UnderWay(c)}
Begins(c, cmd) == AtStep(c, "new") /\ linkCmd' = [linkCmd EXCEPT ![c] = cmd]
Steps(c, from, to) == AtStep(c, from) /\ linkCmd' = [linkCmd EXCEPT ![c].pc = to]
\* One for u begins: two commands, or more, are in the cache at one time.
Meets(u) ==
  /\ tangled' = (tangled \/ InCache # {})
  /\ halfKnown' = halfKnown \cup
       IF InCache = {} THEN {} ELSE {u} \cup {linkCmd[o].user : o \in InCache}

\* A command of Redis is carried out; or it fails, or the process does.
Works == UNCHANGED ghostVars
Fails(whom) ==
  /\ cacheFaults < MaxCacheFaults /\ cacheFaults' = cacheFaults + 1
  /\ tangled' = TRUE /\ halfKnown' = halfKnown \cup whom

\* /link and its buttons: of this game, under its lock, or of another game.
LinkHere(c, u, p) ==
  /\ recordLock = {} /\ u \in DOMAIN userData /\ p \in playerData
  /\ Begins(c, [NewCommand EXCEPT !.pc = "readUser", !.user = u, !.player = p, !.here = TRUE])
  /\ recordLock' = {c} /\ Meets(u)
  /\ UNCHANGED <<userData, playerData, cacheVars, tied, cacheFaults>>
LinkElsewhere(c, u, p) ==
  /\ Begins(c, [NewCommand EXCEPT !.pc = "readUser", !.user = u, !.player = p])
  /\ Meets(u)
  /\ UNCHANGED <<recordVars, cacheVars, cacheFaults>>

\* HGETs of the user's entry and of a name's: the command goes on after one that
\* fails, as if the entry were empty.
ReadUser(c, from, to) ==
  LET u == linkCmd[c].user IN
  /\ AtStep(c, from)
  /\ \/ linkCmd' = [linkCmd EXCEPT ![c].pc = to, ![c].names = byUser[u]] /\ Works
     \/ linkCmd' = [linkCmd EXCEPT ![c].pc = to, ![c].names = {}] /\ Fails({u})
  /\ UNCHANGED <<recordVars, cacheVars>>
ReadName(c, p, from, to) ==
  /\ AtStep(c, from)
  /\ \/ /\ linkCmd' = [linkCmd EXCEPT ![c].pc = to, ![c].player = p, ![c].users = byName[p]]
        /\ Works
     \/ /\ linkCmd' = [linkCmd EXCEPT ![c].pc = to, ![c].player = p, ![c].users = {}]
        /\ Fails({})
  /\ UNCHANGED <<recordVars, cacheVars>>

\* HSETs: one that fails may have been carried out all the same.
WriteUser(c, failed) ==
  LET u == linkCmd[c].user
      written == [byUser EXCEPT ![u] = linkCmd[c].names \cup {linkCmd[c].player}] IN
  /\ \/ Steps(c, "writeUser", "readName") /\ byUser' = written /\ Works
     \/ Steps(c, "writeUser", failed) /\ byUser' \in {byUser, written} /\ Fails({})
  /\ UNCHANGED <<recordVars, byName>>
WriteName(c) ==
  LET p == linkCmd[c].player
      written == [byName EXCEPT ![p] = linkCmd[c].users \cup {linkCmd[c].user}] IN
  /\ Steps(c, "writeName", "save")
  /\ \/ byName' = written /\ Works
     \/ byName' \in {byName, written} /\ Fails({})
  /\ UNCHANGED <<recordVars, byUser>>

\* AddUsernameLink: twice appendToHashedEntry, an HGET and an HSET.  Nothing is
\* written under the name after the user's own entry failed; linkPlayer logs it.
AppendRead(c) ==
  \/ ReadUser(c, "readUser", "writeUser")
  \/ ReadName(c, linkCmd[c].player, "readName", "writeName")
\* Mutant: that error is logged where it occurs, and the name is written.
AppendRegardless(c) == WriteUser(c, "readName") \/ WriteName(c)
AppendWrite(c) == WriteUser(c, "save") \/ WriteName(c)

\* linkOrUnlinkAndRespond: unlinked and paired, and the record is saved.
SaveLink(c) ==
  LET u == linkCmd[c].user p == linkCmd[c].player IN
  /\ Steps(c, "save", "done")
  /\ recordLock' = recordLock \ {c}
  /\ IF linkCmd[c].here
     THEN /\ userData' \in
               AttemptPairingByUserIDs(WithLink(userData, u, UnlinkedPlayerName), p, {u})
          /\ tied' = [tied EXCEPT ![u] = p]
     ELSE UNCHANGED <<userData, tied>>
  /\ UNCHANGED <<playerData, cacheVars, ghostVars>>

\* /unlink, and the button for it: the cache keeps the name.
Unlink(c, u) ==
  /\ recordLock = {} /\ u \in DOMAIN userData
  /\ Steps(c, "new", "done")
  /\ userData' = WithLink(userData, u, UnlinkedPlayerName)
  /\ tied' = [tied EXCEPT ![u] = UnlinkedPlayerName]
  /\ UNCHANGED <<playerData, cacheVars, recordLock, ghostVars>>

-----------------------------------------------------------------------------
\* /privacy opt-out: DeleteLinksByUserID, name by name.
ForgetUser(c, u) ==
  /\ Begins(c, [NewCommand EXCEPT !.pc = "names", !.user = u])
  /\ Meets(u)
  /\ UNCHANGED <<recordVars, cacheVars, cacheFaults>>
ReadNames(c) == ReadUser(c, "names", "forget")

\* deleteHashSubEntry: HGET of one of the names, and HSET; an error is only logged.
EraseName(c) ==
  LET u == linkCmd[c].user p == linkCmd[c].player
      written == [byName EXCEPT ![p] = linkCmd[c].users \ {u}] IN
  /\ AtStep(c, "erase")
  /\ linkCmd' = [linkCmd EXCEPT ![c].pc = "forget", ![c].names = @ \ {p}]
  /\ \/ byName' = written /\ Works
     \/ byName' \in {byName, written} /\ Fails({u})
  /\ UNCHANGED <<recordVars, byUser>>
ForgetName(c) ==
  \/ \E p \in linkCmd[c].names : ReadName(c, p, "forget", "erase")
  \/ EraseName(c)

\* HDEL of the user's entry, when all names are done; it too may fail.
ForgetNames(c) ==
  LET written == [byUser EXCEPT ![linkCmd[c].user] = {}] IN
  /\ linkCmd[c].names = {} /\ Steps(c, "forget", "done")
  /\ \/ byUser' = written /\ Works
     \/ byUser' \in {byUser, written} /\ Fails({})
  /\ UNCHANGED <<recordVars, byName>>

\* The process ends amid its commands; the lock of the record lapses.
ProcessDies ==
  /\ InCache # {}
  /\ linkCmd' = [c \in LinkCommands |->
                   [linkCmd[c] EXCEPT !.pc = IF c \in InCache THEN "done" ELSE @]]
  /\ recordLock' = {} /\ Fails({})
  /\ UNCHANGED <<userData, playerData, tied, cacheVars>>

\* The cache is a week old: both directions are in one hash.  What the commands
\* under way have read of it is older.
CacheLapses ==
  /\ byUser # [u \in LinkUsers |-> {}] \/ byName # [p \in Players |-> {}]
  /\ byUser' = [u \in LinkUsers |-> {}] /\ byName' = [p \in Players |-> {}]
  /\ tangled' = (InCache # {})
  /\ halfKnown' = UNION {{linkCmd[c].user} \cup linkCmd[c].users : c \in InCache}
  /\ UNCHANGED <<recordVars, linkCmd, cacheFaults>>

LinkNext ==
  \/ \E u \in LinkUsers : AddUser(u)
  \/ \E p \in Players : PlayerSeen(p) \/ \E d \in BOOLEAN : PlayerGone(p, d)
  \/ \E c \in LinkCommands :
       \/ \E u \in LinkUsers, p \in Players : LinkHere(c, u, p) \/ LinkElsewhere(c, u, p)
       \/ AppendRead(c) \/ AppendWrite(c) \/ SaveLink(c)
       \/ \E u \in LinkUsers : Unlink(c, u) \/ ForgetUser(c, u)
       \/ ReadNames(c) \/ ForgetName(c) \/ ForgetNames(c)
  \/ ProcessDies \/ CacheLapses

-----------------------------------------------------------------------------
LinkTypeOK ==
  /\ DOMAIN userData \subseteq LinkUsers /\ playerData \subseteq Players
  /\ \A u \in DOMAIN userData : userData[u] \in Players \cup {UnlinkedPlayerName}
  /\ byUser \in [LinkUsers -> SUBSET Players] /\ byName \in [Players -> SUBSET LinkUsers]
  /\ recordLock \subseteq LinkCommands /\ halfKnown \subseteq LinkUsers

(* userDataSet.go:40-52, redis.go:368-393: a /link stands.  Nothing that   *)
(* the cache says takes the user away from the player - only a command, a  *)
(* player of his own name, or the player's disconnection does.             *)
LinksStand ==
  \A u \in LinkUsers : tied[u] # UnlinkedPlayerName => userData[u] = tied[u]

\* The cache lists u under p only if u's own entry has p.
NamesKnown(u, p) == u \in byName[p] => p \in byUser[u] \/ u \in halfKnown

(* redis.go:368-425: /privacy opt-out finds, in the user's own entry,      *)
(* every name under which the cache would pair him again, although any     *)
(* HSET or HDEL of a /link or of an opt-out may fail and the process may   *)
(* die between them: the user's entry is written first and deleted last.   *)
(* Not so for a user whose own entry could not be read, after which it is  *)
(* written or deleted as if it had been empty, for whom an opt-out could   *)
(* not erase a name and deleted the entry regardless, or whose commands    *)
(* overlapped or outlived the cache.  And at rest, while nothing of the    *)
(* kind has happened since the cache began, the cache has every name that  *)
(* the user's entry has, so that he is paired again by each.               *)
CacheMutual ==
  /\ \A u \in LinkUsers, p \in Players : NamesKnown(u, p)
  /\ tangled \/ InCache # {} \/
       \A u \in LinkUsers, p \in Players : p \in byUser[u] => u \in byName[p]
=============================================================================
