------------------------------ MODULE Database ------------------------------
(***************************************************************************)
(* The tables of matches in Postgres (storage/postgres.sql) with the       *)
(* statements of pkg/storage/postgres.go that write them, and the opting   *)
(* in and out of data collection.  A statement is atomic; what a function  *)
(* does in several statements is done in several steps, for there is no    *)
(* transaction.  There is one guild; times, colours and names of players   *)
(* are left out.                                                           *)
(***************************************************************************)
EXTENDS Naturals, FiniteSets

CONSTANTS Users, MaxGames, OptCommands

Anonymous == "NULL"
ASSUME DatabaseAssumption == MaxGames \in Nat /\ Anonymous \notin Users

Crewmate == "crewmate"
Impostor == "impostor"
Roles == {Crewmate, Impostor}
\* Results: Humans* (0, 1, 6), Impostor* (2..5), Unknown (7); a match not over has -1.
Results == {Crewmate, Impostor, "unknown"}
Open == "open"
GameIDs == 1..MaxGames

VARIABLES users,      \* users[u]: "absent", or the flag opt as "in" or "out"
          games,      \* games[m]: "absent", Open or the result
          lastGame,   \* the bigserial of games
          usersGames, \* rows [user, game, role, won, opt]; opt: users[u] at the insertion
          gameEvents, \* rows [user, game, late, opt], as a set; late: filed under a match
              \* that was over before the event
          optCmd,     \* a /privacy opt-in or opt-out on its way: [user, opt, pc]
          halfOut     \* users whose last opt-out failed after the flag was set
dbVars == <<users, games, lastGame, usersGames, gameEvents, optCmd, halfOut>>
tables == <<users, games, lastGame, usersGames, gameEvents>>

NoCommand == [user |-> Anonymous, opt |-> "in", pc |-> "idle"]

DbInit ==
  /\ users = [u \in Users |-> "absent"]
  /\ games = [m \in GameIDs |-> "absent"] /\ lastGame = 0
  /\ usersGames = {} /\ gameEvents = {}
  /\ optCmd = [c \in OptCommands |-> NoCommand] /\ halfOut = {}

-----------------------------------------------------------------------------
\* A user that is inserted has opted in.
EnsuredUser(u) == IF users[u] = "absent" THEN "in" ELSE users[u]
ensureUserExists(u) == users' = [users EXCEPT ![u] = EnsuredUser(u)]

insertGame ==
  /\ lastGame < MaxGames
  /\ lastGame' = lastGame + 1
  /\ games' = [games EXCEPT ![lastGame + 1] = Open]

\* UPDATE of a row that is gone changes nothing.
updateGame(m, result) ==
  games' = [g \in GameIDs |-> IF g = m /\ games[g] # "absent" THEN result ELSE games[g]]

\* The foreign keys: the match must exist, and the user not be in it yet.
CanInsertPlayer(u, m) ==
  /\ m \in GameIDs /\ games[m] # "absent"
  /\ ~\E r \in usersGames : r.user = u /\ r.game = m
insertPlayer(u, m, role, won) ==
  usersGames' = IF CanInsertPlayer(u, m)
                THEN usersGames \cup {[user |-> u, game |-> m, role |-> role, won |-> won,
                                       opt |-> users[u]]}
                ELSE usersGames

OptOf(u) == IF u \in Users THEN users[u] ELSE Anonymous
AddEvent(e, m) ==
  gameEvents' = IF m \in GameIDs /\ games[m] # "absent"
                THEN gameEvents \cup {[user |-> e.user, game |-> m, late |-> m <= e.after,
                                       opt |-> OptOf(e.user)]}
                ELSE gameEvents

-----------------------------------------------------------------------------
CommandAt(c, pc) == optCmd[c].pc = pc
Goto(c, pc) == optCmd' = [optCmd EXCEPT ![c].pc = pc]

\* ensureUserExists, then the check of the flag, for a command of u.
OptBegin(c, u, opt) ==
  /\ CommandAt(c, "idle") /\ optCmd[c] = NoCommand
  /\ ensureUserExists(u)
  /\ optCmd' = [optCmd EXCEPT ![c] =
       [user |-> u, opt |-> opt, pc |-> IF EnsuredUser(u) = opt THEN "done" ELSE "set"]]
  /\ UNCHANGED <<games, lastGame, usersGames, gameEvents, halfOut>>

EventsWithout(u) == {[e EXCEPT !.user = IF @ = u THEN Anonymous ELSE @] : e \in gameEvents}
RowsWithout(u) == {r \in usersGames : r.user # u}

\* Mutant: the rows are erased before the flag is set.
OptSetLast(c) ==
  \/ /\ CommandAt(c, "set") /\ optCmd[c].opt = "out"
     /\ usersGames' = RowsWithout(optCmd[c].user)
     /\ gameEvents' = EventsWithout(optCmd[c].user)
     /\ Goto(c, "flag")
     /\ UNCHANGED <<users, games, lastGame, halfOut>>
  \/ /\ \/ CommandAt(c, "flag")
        \/ CommandAt(c, "set") /\ optCmd[c].opt = "in"
     /\ users' = [users EXCEPT ![optCmd[c].user] = optCmd[c].opt]
     /\ Goto(c, "done")
     /\ UNCHANGED <<games, lastGame, usersGames, gameEvents, halfOut>>

OptSet(c) ==
  /\ CommandAt(c, "set")
  /\ users' = [users EXCEPT ![optCmd[c].user] = optCmd[c].opt]
  /\ halfOut' = halfOut \ {optCmd[c].user}
  /\ Goto(c, IF optCmd[c].opt = "out" THEN "events" ELSE "done")
  /\ UNCHANGED <<games, lastGame, usersGames, gameEvents>>

EraseEvents(c) ==
  /\ CommandAt(c, "events")
  /\ gameEvents' = EventsWithout(optCmd[c].user)
  /\ Goto(c, "rows")
  /\ UNCHANGED <<users, games, lastGame, usersGames, halfOut>>

EraseRows(c) ==
  /\ CommandAt(c, "rows")
  /\ usersGames' = RowsWithout(optCmd[c].user)
  /\ Goto(c, "done")
  /\ UNCHANGED <<users, games, lastGame, gameEvents, halfOut>>

\* A statement fails, or the process ends: the command ends there, and the
\* next opt-out finds the flag set and returns an error.
OptFails(c) ==
  /\ optCmd[c].pc \in {"events", "rows"}
  /\ halfOut' = halfOut \cup {optCmd[c].user}
  /\ Goto(c, "done")
  /\ UNCHANGED tables

DeleteAllGamesForUser(u) ==
  /\ RowsWithout(u) # usersGames
  /\ usersGames' = RowsWithout(u)
  /\ UNCHANGED <<users, games, lastGame, gameEvents, optCmd, halfOut>>

\* ON DELETE CASCADE takes the players and the events along.
DeleteAllGamesForServer ==
  /\ \E m \in GameIDs : games[m] # "absent"
  /\ games' = [m \in GameIDs |-> "absent"]
  /\ usersGames' = {} /\ gameEvents' = {}
  /\ UNCHANGED <<users, lastGame, optCmd, halfOut>>

Privacy ==
  \/ \E c \in OptCommands :
       \/ \E u \in Users, opt \in {"in", "out"} : OptBegin(c, u, opt)
       \/ OptSet(c) \/ EraseEvents(c) \/ EraseRows(c) \/ OptFails(c)
  \/ \E u \in Users : DeleteAllGamesForUser(u)
  \/ DeleteAllGamesForServer

-----------------------------------------------------------------------------
DbTypeOK ==
  /\ users \in [Users -> {"absent", "in", "out"}]
  /\ games \in [GameIDs -> Results \cup {"absent", Open}]
  /\ usersGames \subseteq [user : Users, game : GameIDs, role : Roles, won : BOOLEAN,
                           opt : {"in", "out"}]
  /\ \A e \in gameEvents : e.user \in Users \cup {Anonymous} /\ e.game \in GameIDs

OptingOut(u) == \E c \in OptCommands :
  optCmd[c].user = u /\ optCmd[c].opt = "out" /\ optCmd[c].pc # "done"

(* postgres.go:113-140, PRIVACY.md:26: whoever has opted out, by a command *)
(* that ran to its end, has nothing left that was recorded before - also   *)
(* when a match was being recorded at the time.                            *)
OptedOutErased ==
  \A u \in Users : users[u] = "out" /\ ~OptingOut(u) /\ u \notin halfOut =>
    /\ \A r \in usersGames : r.user = u => r.opt = "out"
    /\ \A e \in gameEvents : e.user = u => e.opt = "out"

(* PRIVACY.md:10: "Users can opt-out of data collection at any time".      *)
OptedOutNotRecorded ==
  /\ \A r \in usersGames : r.opt # "out"
  /\ \A e \in gameEvents : e.user # Anonymous => e.opt # "out"
=============================================================================
