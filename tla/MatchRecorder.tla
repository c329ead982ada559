--------------------------- MODULE MatchRecorder ---------------------------
(***************************************************************************)
(* How the worker of one game (bot/eventHandler.go) records its matches:   *)
(* the record's MatchID is set when tasks begin and reset when the game is *)
(* over, and two kinds of goroutines write to the database meanwhile - one *)
(* for each job, which reads MatchID when it comes to run, and one for     *)
(* each match that ends, with a copy of the record.  Other handlers of the *)
(* game may write the record back as they read it (module GameStateLock).  *)
(***************************************************************************)
EXTENDS Database

CONSTANTS MaxJobs, MaxRestarts,
          PlayerNames,
          FoldTwins,  \* pairs {a, b} of names that strings.EqualFold takes for one
          NameTwins,  \* pairs that GetByName takes for one: but for case and blanks
          GameOvers   \* ends of matches: what the capture reports, [result, infos], and
              \* whom the record links and knows then, [link, known]

UnlinkedName == "UNLINKED"   \* UnlinkedPlayerName
PlayerInfo == [name : PlayerNames, impostor : BOOLEAN]

ASSUME RecorderAssumption ==
  /\ MaxJobs \in Nat /\ MaxRestarts \in Nat
  /\ GameOvers \subseteq [result : Results, infos : SUBSET PlayerInfo,
                          link : [Users -> PlayerNames \cup {UnlinkedName}],
                          known : SUBSET PlayerNames]

NoMatch == 0   \* MatchID -1 or 0, MatchStartUnix -1: nothing is recorded
StateJobs == {"lobby", "tasks", "malformed"}

VARIABLES matchID,     \* of the record in Redis
          phase,       \* of the record: "menu", "lobby" or "tasks" (tasks and discussion)
          jobs,        \* jobs popped so far
          resetting,   \* a game-over job has spawned its dump, not yet reset the record
          goroutines,  \* event goroutines: [id, user, after, match]; match Unread at first
          dumps,       \* dump goroutines: [match, result, infos, data, todo, started]; data[u]:
              \* the name in GameData of the player found for u
          copy,        \* {m}: another handler has read m, to write it back; else {}
          announced,   \* announced[m]: the winners in the summary of match m, and the users of
              \* whom it could not tell: [winners, unlisted, unclear]
          lastOver,    \* the latest match whose end has reset the record
          disturbed,   \* a copy older than the record was written back, or the process died
          restarts
recVars == <<matchID, phase, jobs, resetting, goroutines, dumps, copy, announced, lastOver,
             disturbed, restarts>>

Unread == 0
NoSummary == [winners |-> {}, unlisted |-> {}, unclear |-> {}]

RecInit ==
  /\ DbInit
  /\ matchID = NoMatch /\ phase \in {"menu", "lobby"} /\ jobs = 0 /\ resetting = FALSE
  /\ goroutines = {} /\ dumps = {} /\ copy = {}
  /\ announced = [m \in GameIDs |-> NoSummary] /\ lastOver = 0 /\ disturbed = FALSE /\ restarts = 0

-----------------------------------------------------------------------------
\* Every job but a ConnectionJob starts a goroutine, a malformed one too: the
\* break leaves the switch only.
Spawn(u) ==
  /\ jobs < MaxJobs /\ jobs' = jobs + 1
  /\ goroutines' = goroutines \cup {[id |-> jobs, user |-> u, after |-> lastOver, match |-> Unread]}

\* StateJob TASKS.  From LOBBY a match starts; its row may fail to be made, and
\* the record then has MatchID 0, which nobody records under.
StartMatch(created) ==
  IF created
  THEN insertGame /\ matchID' = lastGame + 1
  ELSE matchID' = NoMatch /\ UNCHANGED <<games, lastGame>>

StateJob(kind, created) ==
  /\ ~resetting
  /\ Spawn(Anonymous)
  /\ phase' = IF kind = "malformed" THEN phase ELSE kind
  /\ IF phase = "lobby" /\ kind = "tasks"
     THEN StartMatch(created)
     ELSE UNCHANGED <<matchID, games, lastGame>>
  /\ UNCHANGED <<users, usersGames, gameEvents, optCmd, halfOut, resetting, dumps, copy,
                 announced, lastOver, disturbed, restarts>>

\* PlayerJob, which names the user it has been paired with.
PlayerJob(u) ==
  /\ ~resetting
  /\ Spawn(u)
  /\ UNCHANGED <<dbVars, matchID, phase, resetting, dumps, copy, announced, lastOver, disturbed, restarts>>

ImpostorsWon(d) == d.result = Impostor

\* getWinners, for the summary: by the names that the capture lists, exactly.
Winners(over) ==
  {u \in Users : /\ over.link[u] # UnlinkedName
                 /\ \E v \in over.infos : /\ v.name = over.link[u]
                                          /\ v.impostor <=> ImpostorsWon(over)}

\* dumpGameToPostgres looks each linked user's player up in GameData, and skips
\* those that it does not find.  Which of several it finds is a Go map's order.
SameName(a, b) == a = b \/ {a, b} \in NameTwins
EqualFold(a, b) == a = b \/ {a, b} \in FoldTwins
GetByName(known, name) == {n \in known : SameName(n, name)}
Lookups(over) ==
  LET found == {u \in Users : /\ over.link[u] # UnlinkedName
                              /\ GetByName(over.known, over.link[u]) # {}} IN
  {data \in [found -> over.known] : \A u \in found : data[u] \in GetByName(over.known, over.link[u])}

\* Whose player the end does not list, and whose name is not his player's alone.
Unlisted(over) == {u \in Users : ~\E v \in over.infos : v.name = over.link[u]}
Unclear(over) ==
  {u \in Users :
     \/ \E n \in over.known \cup {v.name : v \in over.infos} :
          n # over.link[u] /\ (SameName(n, over.link[u]) \/ EqualFold(n, over.link[u]))
     \/ \E v, w \in over.infos : v.name = over.link[u] /\ w.name = v.name /\ v # w}

\* GameOverJob: summary and dump get the record as it is read here.
GameOverJob(over) ==
  /\ ~resetting
  /\ Spawn(Anonymous)
  /\ resetting' = TRUE
  /\ IF matchID = NoMatch THEN UNCHANGED <<dumps, announced>>
     ELSE /\ \E data \in Lookups(over) :
               dumps' = dumps \cup
                 {[match |-> matchID, result |-> over.result, infos |-> over.infos,
                   data |-> data, todo |-> DOMAIN data, started |-> FALSE]}
          /\ announced' = [announced EXCEPT ![matchID] =
               [winners |-> Winners(over),
                unlisted |-> Unlisted(over), unclear |-> Unclear(over)]]
  /\ UNCHANGED <<dbVars, matchID, phase, copy, lastOver, disturbed, restarts>>

\* Mutant: the record keeps its MatchID.
ResetNothing ==
  /\ resetting
  /\ lastOver' = IF matchID > lastOver THEN matchID ELSE lastOver
  /\ resetting' = FALSE
  /\ UNCHANGED <<dbVars, matchID, phase, jobs, goroutines, dumps, copy, announced, disturbed, restarts>>

\* The end of the GameOverJob, under the lock.
ResetMatch ==
  /\ resetting
  /\ matchID' = NoMatch
  /\ lastOver' = IF matchID > lastOver THEN matchID ELSE lastOver
  /\ resetting' = FALSE
  /\ UNCHANGED <<dbVars, phase, jobs, goroutines, dumps, copy, announced, disturbed, restarts>>

-----------------------------------------------------------------------------
\* The goroutine of a job: it reads the record, and files its event if a match is on.
ReadMatch(e) ==
  /\ e.match = Unread
  /\ goroutines' = (goroutines \ {e}) \cup
       (IF matchID = NoMatch THEN {} ELSE {[e EXCEPT !.match = matchID]})
  /\ UNCHANGED <<dbVars, matchID, phase, jobs, resetting, dumps, copy, announced, lastOver, disturbed, restarts>>

FileEvent(e) ==
  /\ e.match # Unread
  /\ AddEvent(e, e.match)
  /\ goroutines' = goroutines \ {e}
  /\ UNCHANGED <<users, games, lastGame, usersGames, optCmd, halfOut, matchID, phase, jobs,
                 resetting, dumps, copy, announced, lastOver, disturbed, restarts>>

-----------------------------------------------------------------------------
\* A crewmate, unless an impostor of the name that GameData has is listed.
RoleIn(d, u) ==
  IF \E v \in d.infos : v.impostor /\ EqualFold(v.name, d.data[u]) THEN Impostor ELSE Crewmate
\* Mutant: won is not set anew for each player.
WonOrBefore(d, u) == d.todo # DOMAIN d.data \/ (ImpostorsWon(d) <=> RoleIn(d, u) = Impostor)
WonIn(d, u) == IF RoleIn(d, u) = Impostor THEN ImpostorsWon(d) ELSE ~ImpostorsWon(d)

\* dumpGameToPostgres: all users found are ensured and their rows made up first
\* (todo holds those without), then the match is ended, then the rows inserted.
EnsureUser(d) ==
  /\ ~d.started
  /\ \E u \in d.todo :
       /\ ensureUserExists(u)
       /\ dumps' = (dumps \ {d}) \cup {[d EXCEPT !.todo = @ \ {u}]}
  /\ UNCHANGED <<games, lastGame, usersGames, gameEvents, optCmd, halfOut,
                 matchID, phase, jobs, resetting, goroutines, copy, announced, lastOver, disturbed, restarts>>

EndMatch(d) ==
  /\ ~d.started /\ d.todo = {}
  /\ updateGame(d.match, d.result)
  /\ dumps' = (dumps \ {d}) \cup
       (IF DOMAIN d.data = {} THEN {} ELSE {[d EXCEPT !.started = TRUE, !.todo = DOMAIN d.data]})
  /\ UNCHANGED <<users, lastGame, usersGames, gameEvents, optCmd, halfOut,
                 matchID, phase, jobs, resetting, goroutines, copy, announced, lastOver, disturbed, restarts>>

RecordPlayer(d) ==
  /\ d.started
  /\ \E u \in d.todo :
       /\ insertPlayer(u, d.match, RoleIn(d, u), WonIn(d, u))
       /\ dumps' = (dumps \ {d}) \cup
            (IF d.todo = {u} THEN {} ELSE {[d EXCEPT !.todo = @ \ {u}]})
  /\ UNCHANGED <<users, games, lastGame, gameEvents, optCmd, halfOut,
                 matchID, phase, jobs, resetting, goroutines, copy, announced, lastOver, disturbed, restarts>>

-----------------------------------------------------------------------------
\* Another handler of the game between its read and its write.
OtherReads ==
  /\ copy = {}
  /\ copy' = {matchID}
  /\ UNCHANGED <<dbVars, matchID, phase, jobs, resetting, goroutines, dumps, announced, lastOver, disturbed, restarts>>

OtherWrites ==
  /\ copy # {}
  /\ matchID' \in copy /\ copy' = {}
  /\ disturbed' = (disturbed \/ copy # {matchID})
  /\ UNCHANGED <<dbVars, phase, jobs, resetting, goroutines, dumps, announced, lastOver, restarts>>

\* The process ends with its goroutines; the record stays.
Restart ==
  /\ restarts < MaxRestarts /\ restarts' = restarts + 1
  /\ resetting' = FALSE /\ goroutines' = {} /\ dumps' = {} /\ copy' = {}
  /\ disturbed' = (disturbed \/ resetting)
  /\ optCmd' = [c \in OptCommands |-> IF optCmd[c] = NoCommand THEN NoCommand
                                      ELSE [optCmd[c] EXCEPT !.pc = "done"]]
  /\ halfOut' = halfOut \cup {optCmd[c].user : c \in {c \in OptCommands :
                                                  optCmd[c].pc \in {"events", "rows"}}}
  /\ UNCHANGED <<tables, matchID, phase, jobs, announced, lastOver>>

PrivacyStep == Privacy /\ UNCHANGED recVars

RecNext ==
  \/ \E k \in StateJobs, created \in BOOLEAN : StateJob(k, created)
  \/ \E u \in Users : PlayerJob(u)
  \/ \E over \in GameOvers : GameOverJob(over)
  \/ ResetMatch
  \/ \E e \in goroutines : ReadMatch(e) \/ FileEvent(e)
  \/ \E d \in dumps : EnsureUser(d) \/ EndMatch(d) \/ RecordPlayer(d)
  \/ OtherReads \/ OtherWrites \/ Restart
  \/ PrivacyStep

-----------------------------------------------------------------------------
RecTypeOK ==
  /\ DbTypeOK
  /\ matchID \in GameIDs \cup {NoMatch} /\ phase \in {"menu", "lobby", "tasks"}
  /\ \A d \in dumps : d.match \in GameIDs /\ d.todo \subseteq DOMAIN d.data /\ DOMAIN d.data \subseteq Users
  /\ \A e \in goroutines : e.match \in GameIDs \cup {Unread}

(* eventHandler.go:220-242: an event may be filed under a match that began *)
(* after its job, for MatchID is read late, but never under one that was   *)
(* over before - unless a stale record was written back, or the process    *)
(* died between a dump and the reset.                                      *)
EventsInTime == disturbed \/ \A e \in gameEvents : ~e.late

(* eventHandler.go:203-215: the result of a match that is over stays, also *)
(* when the capture reports the end twice, with the same reservation.      *)
ResultStands ==
  [][\A m \in GameIDs : games[m] \in Results /\ ~disturbed =>
                          games'[m] \in {games[m], "absent"}]_<<games, disturbed>>

\* What a row of a user says, set against the summary.
AsAnnounced(a, u, role, won) ==
  \/ u \in a.unclear
  \/ /\ u \in a.winners => won
     /\ won => u \in a.winners \/ (u \in a.unlisted /\ role = Crewmate)

(* eventHandler.go:275-303, 539-574: getWinners and dumpGameToPostgres     *)
(* each work out who has won, the one by the exact names that the capture  *)
(* lists, the other by what GameData has, with everybody a crewmate who is *)
(* not found among the impostors.  Whoever is announced has won in the     *)
(* statistics.  Whoever has won there is announced, but for a user whose   *)
(* player the end does not list: he counts as a crewmate, and wins with    *)
(* them.  Names that differ in case or blanks only are excepted, for of    *)
(* these the two may take different players.                               *)
WinnersAgree ==
  disturbed \/ \A r \in usersGames : AsAnnounced(announced[r.game], r.user, r.role, r.won)
=============================================================================
