---------------------------- MODULE Match_proofs ----------------------------
(***************************************************************************)
(* The theorems of Database and MatchRecorder, and of the statistics that  *)
(* are read off their tables: what is recorded of matches, for any users,  *)
(* matches, jobs and restarts.  What every state satisfies is in Ensured,  *)
(* Unborn, OneRow and Erased; what only the undisturbed ones do, in        *)
(* Undisturbed.  ViewInv is about the /stats in progress.                  *)
(***************************************************************************)
EXTENDS Statistics, FiniteSetTheorems, SequenceTheorems, TLAPS

RecSpec == RecInit /\ [][RecNext]_<<dbVars, recVars>>

Someone == Users \cup {Anonymous}
Rows == [user : Users, game : GameIDs, role : Roles, won : BOOLEAN, opt : {"in", "out"}]
Events == [user : Someone, game : GameIDs, late : BOOLEAN, opt : {"absent", "in", "out", Anonymous}]
OptRecords == [user : Someone, opt : {"in", "out"}, pc : {"idle", "set", "events", "rows", "done"}]
Goroutines == [id : Nat, user : Someone, after : Nat, match : GameIDs \cup {Unread}]
FoundPlayers == UNION {[found -> PlayerNames] : found \in SUBSET Users}
DumpRecords == [match : GameIDs, result : Results, infos : SUBSET PlayerInfo, data : FoundPlayers,
                todo : SUBSET Users, started : BOOLEAN]
Dumps == {d \in DumpRecords : d.todo \subseteq DOMAIN d.data}
Summaries == [winners : SUBSET Users, unlisted : SUBSET Users, unclear : SUBSET Users]

DbTypes ==
  /\ users \in [Users -> {"absent", "in", "out"}]
  /\ games \in [GameIDs -> Results \cup {"absent", Open}] /\ lastGame \in 0..MaxGames
  /\ usersGames \subseteq Rows /\ IsFiniteSet(usersGames)
  /\ gameEvents \subseteq Events
  /\ optCmd \in [OptCommands -> OptRecords]

WorkTypes ==
  /\ matchID \in 0..lastGame /\ copy \subseteq 0..lastGame /\ lastOver \in 0..lastGame
  /\ phase \in {"menu", "lobby", "tasks"} /\ jobs \in Nat
  /\ resetting \in BOOLEAN /\ disturbed \in BOOLEAN
  /\ goroutines \subseteq Goroutines /\ dumps \subseteq Dumps
  /\ announced \in [GameIDs -> Summaries]

\* A dump has made sure of the users it is done with before it inserts their rows.
Ensured ==
  \A d \in dumps : \A u \in DOMAIN d.data : d.started \/ u \notin d.todo => users[u] # "absent"

\* Matches still to come have no row.
Unborn == \A m \in GameIDs : m > lastGame => games[m] = "absent"

\* The primary key of users_games.
OneRow == \A r, s \in usersGames : r.user = s.user /\ r.game = s.game => r = s

\* An opt-out of u that has still to erase.
Erasing(u, pcs) ==
  \E c \in OptCommands : optCmd[c].user = u /\ optCmd[c].opt = "out" /\ optCmd[c].pc \in pcs
EventsErased(u) == \A e \in gameEvents : e.user = u => e.opt = "out"
RowsErased(u) == \A r \in usersGames : r.user = u => r.opt = "out"

\* Of a user who is out everything is erased, or a command will do it, or it has failed.
Erased ==
  \A u \in Users : users[u] = "out" /\ u \notin halfOut =>
    /\ EventsErased(u) \/ Erasing(u, {"events"})
    /\ RowsErased(u) \/ Erasing(u, {"events", "rows"})

\* A match that is recorded under is not over.
OnMatch == matchID # NoMatch => matchID > lastOver

\* An event belongs after the matches that were over at its job.
InTime ==
  /\ \A e \in goroutines : e.after <= lastOver /\ (e.match # Unread => e.match > e.after)
  /\ \A e \in gameEvents : ~e.late

\* What has been dumped, or is about to be, is over or being reset.
Past(m) == m <= lastOver \/ (resetting /\ m = matchID)
Played ==
  /\ \A d \in dumps : Past(d.match)
  /\ \A r \in usersGames : Past(r.game)
  /\ \A m \in GameIDs : games[m] \in Results => Past(m)

\* A match has one dump, which gives it its result.
OneDump ==
  /\ \A d, e \in dumps : d.match = e.match => d = e
  /\ \A d \in dumps : ~d.started => games[d.match] \notin Results

\* Summary, dump and rows say the same.
DumpAgrees(a, d) == \A u \in DOMAIN d.data : AsAnnounced(a, u, RoleIn(d, u), WonIn(d, u))
Agreed ==
  /\ \A d \in dumps : DumpAgrees(announced[d.match], d)
  /\ \A r \in usersGames : AsAnnounced(announced[r.game], r.user, r.role, r.won)

\* Players of one role win or lose together.
Sides ==
  /\ \A r \in usersGames, d \in dumps :
       r.game = d.match => (r.won <=> (r.role = Impostor <=> ImpostorsWon(d)))
  /\ \A r, s \in usersGames : r.game = s.game /\ r.role = s.role => (r.won <=> s.won)

Undisturbed == OnMatch /\ InTime /\ Played /\ OneDump /\ Agreed /\ Sides
RecInv == /\ DbTypes /\ WorkTypes /\ Ensured /\ Unborn /\ OneRow /\ Erased
          /\ disturbed \/ Undisturbed

-----------------------------------------------------------------------------
(* What the steps do to dumps, rows and events *)

\* What a dump says, whatever it has still to do.
SameMatch(n, d) == n.match = d.match /\ n.result = d.result /\ n.infos = d.infos /\ n.data = d.data

LEMMA FoundUsers == \A data \in FoundPlayers : DOMAIN data \subseteq Users
BY DEF FoundPlayers

LEMMA DumpMoves ==
  ASSUME NEW d \in Dumps, NEW n \in DumpRecords, n.todo \subseteq DOMAIN d.data, SameMatch(n, d)
  PROVE  n \in Dumps
BY DEF Dumps, SameMatch

LEMMA DumpShape ==
  ASSUME NEW d \in Dumps
  PROVE  /\ d.match \in GameIDs /\ d.result \in Results /\ d.started \in BOOLEAN
         /\ d.todo \subseteq DOMAIN d.data /\ DOMAIN d.data \subseteq Users
BY FoundUsers DEF Dumps, DumpRecords

LEMMA EnsureEffect ==
  ASSUME WorkTypes, NEW d \in dumps, EnsureUser(d)
  PROVE  \E u \in d.todo, n \in Dumps :
           /\ SameMatch(n, d) /\ n.started = FALSE /\ n.todo = d.todo \ {u}
           /\ dumps' = (dumps \ {d}) \cup {n} /\ ensureUserExists(u)
<1>0. d \in Dumps BY DEF WorkTypes
<1>1. PICK u \in d.todo :
        ensureUserExists(u) /\ dumps' = (dumps \ {d}) \cup {[d EXCEPT !.todo = d.todo \ {u}]}
  BY DEF EnsureUser
<1>2. PICK n : n = [d EXCEPT !.todo = d.todo \ {u}] OBVIOUS
<1>3. d.started = FALSE BY <1>0, DumpShape DEF EnsureUser
<1>4. n \in DumpRecords /\ SameMatch(n, d) /\ n.todo = d.todo \ {u} /\ n.started = FALSE
  BY <1>0, <1>2, <1>3 DEF Dumps, DumpRecords, SameMatch
<1>5. n \in Dumps BY <1>0, <1>4, DumpMoves, DumpShape
<1> QED BY <1>1, <1>2, <1>4, <1>5

LEMMA EndEffect ==
  ASSUME WorkTypes, NEW d \in dumps, EndMatch(d)
  PROVE  \E n \in Dumps :
           /\ SameMatch(n, d) /\ n.started = TRUE
           /\ dumps' \subseteq (dumps \ {d}) \cup {n}
<1>0. d \in Dumps BY DEF WorkTypes
<1>1. PICK n : n = [d EXCEPT !.started = TRUE, !.todo = DOMAIN d.data] OBVIOUS
<1>2. n \in DumpRecords /\ SameMatch(n, d) /\ n.todo = DOMAIN d.data /\ n.started = TRUE
  BY <1>0, <1>1, DumpShape DEF Dumps, DumpRecords, SameMatch
<1>3. dumps' \subseteq (dumps \ {d}) \cup {n} BY <1>1 DEF EndMatch
<1>4. n \in Dumps BY <1>0, <1>2, DumpMoves
<1> QED BY <1>2, <1>3, <1>4

\* The rows of a dump are of its match, and say of each user what it says.
RowOf(r, d, u) ==
  /\ r.user = u /\ r.game = d.match /\ r.role = RoleIn(d, u) /\ r.won = WonIn(d, u)
  /\ r.opt = users[u]

LEMMA RecordEffect ==
  ASSUME DbTypes, WorkTypes, Ensured, NEW d \in dumps, RecordPlayer(d)
  PROVE  \E u \in DOMAIN d.data, n \in Dumps, r \in Rows :
           /\ SameMatch(n, d) /\ n.started = TRUE
           /\ dumps' \subseteq (dumps \ {d}) \cup {n}
           /\ RowOf(r, d, u)
           /\ \/ usersGames' = usersGames
              \/ CanInsertPlayer(u, d.match) /\ usersGames' = usersGames \cup {r}
<1>0. d \in Dumps BY DEF WorkTypes
<1>1. PICK u \in d.todo :
        /\ insertPlayer(u, d.match, RoleIn(d, u), WonIn(d, u))
        /\ dumps' = (dumps \ {d}) \cup (IF d.todo = {u} THEN {} ELSE {[d EXCEPT !.todo = d.todo \ {u}]})
  BY DEF RecordPlayer
<1>2. u \in DOMAIN d.data /\ u \in Users /\ d.match \in GameIDs BY <1>0, DumpShape
<1>3. PICK n : n = [d EXCEPT !.todo = d.todo \ {u}] OBVIOUS
<1>4. d.started = TRUE BY <1>0, DumpShape DEF RecordPlayer
<1>5. n \in Dumps /\ SameMatch(n, d) /\ n.started = TRUE
  <2>1. n \in DumpRecords /\ SameMatch(n, d) /\ n.todo = d.todo \ {u} /\ n.started = TRUE
    BY <1>0, <1>3, <1>4 DEF Dumps, DumpRecords, SameMatch
  <2> QED BY <1>0, <2>1, DumpMoves, DumpShape
<1>6. dumps' \subseteq (dumps \ {d}) \cup {n} BY <1>1, <1>3
<1>7. PICK r : r = [user |-> u, game |-> d.match, role |-> RoleIn(d, u), won |-> WonIn(d, u),
                    opt |-> users[u]]
  OBVIOUS
<1>8. RoleIn(d, u) \in Roles BY DEF RoleIn, Roles
<1>9. WonIn(d, u) \in BOOLEAN BY DEF WonIn, ImpostorsWon
<1>10. users[u] \in {"in", "out"} BY <1>2, <1>4 DEF Ensured, DbTypes
<1>11. r \in Rows /\ RowOf(r, d, u)
  BY <1>2, <1>7, <1>8, <1>9, <1>10 DEF Rows, RowOf
<1>12. \/ usersGames' = usersGames
       \/ CanInsertPlayer(u, d.match) /\ usersGames' = usersGames \cup {r}
  BY <1>1, <1>7 DEF insertPlayer
<1> QED BY <1>2, <1>5, <1>6, <1>11, <1>12

LEMMA SpawnEffect ==
  ASSUME WorkTypes, NEW u \in Someone, Spawn(u)
  PROVE  \E n \in Goroutines :
           /\ n.after = lastOver /\ n.match = Unread
           /\ goroutines' = goroutines \cup {n} /\ jobs' \in Nat
<1>1. PICK n : n = [id |-> jobs, user |-> u, after |-> lastOver, match |-> Unread] OBVIOUS
<1>2. n \in Goroutines /\ n.after = lastOver /\ n.match = Unread
  BY <1>1 DEF WorkTypes, Goroutines
<1> QED BY <1>1, <1>2 DEF Spawn, WorkTypes

LEMMA ReadEffect ==
  ASSUME DbTypes, WorkTypes, NEW e \in goroutines, ReadMatch(e)
  PROVE  \/ goroutines' = goroutines \ {e}
         \/ \E n \in Goroutines :
              /\ n.after = e.after /\ n.match = matchID /\ matchID # NoMatch
              /\ goroutines' = (goroutines \ {e}) \cup {n}
<1>1. CASE matchID = NoMatch BY <1>1 DEF ReadMatch
<1>2. CASE matchID # NoMatch
  <2>1. PICK n : n = [e EXCEPT !.match = matchID] OBVIOUS
  <2>2. matchID \in GameIDs
    BY <1>2, DatabaseAssumption DEF WorkTypes, DbTypes, NoMatch, GameIDs
  <2>3. n \in Goroutines /\ n.after = e.after /\ n.match = matchID
    BY <2>1, <2>2 DEF WorkTypes, Goroutines
  <2> QED BY <1>2, <2>1, <2>3 DEF ReadMatch
<1> QED BY <1>1, <1>2

LEMMA FileEffect ==
  ASSUME DbTypes, WorkTypes, NEW e \in goroutines, FileEvent(e)
  PROVE  \/ gameEvents' = gameEvents
         \/ \E n \in Events :
              /\ n.user = e.user /\ n.late = (e.match <= e.after) /\ n.opt = OptOf(e.user)
              /\ gameEvents' = gameEvents \cup {n}
<1>0. e \in Goroutines BY DEF WorkTypes
<1>1. PICK n : n = [user |-> e.user, game |-> e.match, late |-> e.match <= e.after, opt |-> OptOf(e.user)]
  OBVIOUS
<1>2. OptOf(e.user) \in {"absent", "in", "out", Anonymous} BY DEF OptOf, DbTypes
<1>3. (e.match <= e.after) \in BOOLEAN BY <1>0 DEF Goroutines, Unread, GameIDs
<1>4. CASE e.match \in GameIDs /\ games[e.match] # "absent"
  <2>1. n \in Events BY <1>0, <1>1, <1>2, <1>3, <1>4 DEF Events, Goroutines
  <2>2. gameEvents' = gameEvents \cup {n} BY <1>1, <1>4 DEF FileEvent, AddEvent
  <2> QED BY <1>1, <2>1, <2>2
<1>5. CASE ~(e.match \in GameIDs /\ games[e.match] # "absent")
  BY <1>5 DEF FileEvent, AddEvent
<1> QED BY <1>4, <1>5

\* What is erased leaves nothing of the user's, and of others what there was.
LEMMA EventsWithoutEffect ==
  ASSUME gameEvents \subseteq Events, NEW u \in Someone
  PROVE  /\ EventsWithout(u) \subseteq Events
         /\ \A n \in EventsWithout(u) : \E e \in gameEvents :
              /\ n.late = e.late /\ n.opt = e.opt
              /\ n.user = Anonymous \/ (n.user = e.user /\ n.user # u)
<1> SUFFICES ASSUME NEW n \in EventsWithout(u)
             PROVE  /\ n \in Events
                    /\ \E e \in gameEvents :
                         /\ n.late = e.late /\ n.opt = e.opt
                         /\ n.user = Anonymous \/ (n.user = e.user /\ n.user # u)
  OBVIOUS
<1>1. PICK e \in gameEvents : n = [e EXCEPT !.user = IF e.user = u THEN Anonymous ELSE e.user]
  BY DEF EventsWithout
<1>2. e \in Events OBVIOUS
<1>3. n \in Events /\ n.late = e.late /\ n.opt = e.opt
      /\ n.user = IF e.user = u THEN Anonymous ELSE e.user
  BY <1>1, <1>2 DEF Events, Someone
<1> QED BY <1>3

LEMMA StateEffect ==
  ASSUME WorkTypes, NEW k \in StateJobs, NEW created \in BOOLEAN, StateJob(k, created)
  PROVE  /\ ~resetting /\ phase' \in {"menu", "lobby", "tasks"}
         /\ \E n \in Goroutines :
              /\ n.after = lastOver /\ n.match = Unread
              /\ goroutines' = goroutines \cup {n} /\ jobs' \in Nat
         /\ \/ matchID' \in {matchID, NoMatch} /\ UNCHANGED <<games, lastGame>>
            \/ insertGame /\ matchID' = lastGame + 1
<1>1. ~resetting /\ Spawn(Anonymous) BY DEF StateJob
<1>2. phase' \in {"menu", "lobby", "tasks"} BY DEF StateJob, StateJobs, WorkTypes
<1>3. \/ matchID' \in {matchID, NoMatch} /\ UNCHANGED <<games, lastGame>>
      \/ insertGame /\ matchID' = lastGame + 1
  BY DEF StateJob, StartMatch
<1> QED BY <1>1, <1>2, <1>3, SpawnEffect DEF Someone

\* What getWinners and dumpGameToPostgres have in common: of a user whose name is
\* his player's alone, the player in GameData is the one that is listed.
LEMMA LookupIsPlayer ==
  ASSUME NEW over \in GameOvers, NEW data \in Lookups(over), NEW u \in DOMAIN data, u \notin Unclear(over)
  PROVE  /\ u \in Users /\ over.link[u] # UnlinkedName /\ data[u] = over.link[u]
         /\ \A v \in over.infos : EqualFold(v.name, data[u]) <=> v.name = over.link[u]
         /\ \A v, w \in over.infos : v.name = over.link[u] /\ w.name = over.link[u] => v = w
<1>1. /\ u \in Users /\ over.link[u] # UnlinkedName
      /\ data[u] \in over.known /\ SameName(data[u], over.link[u])
  BY DEF Lookups, GetByName
<1>2. \A n \in over.known \cup {v.name : v \in over.infos} :
        SameName(n, over.link[u]) \/ EqualFold(n, over.link[u]) => n = over.link[u]
  BY <1>1 DEF Unclear
<1>3. data[u] = over.link[u] BY <1>1, <1>2
<1>4. \A v \in over.infos : EqualFold(v.name, data[u]) <=> v.name = over.link[u]
  BY <1>2, <1>3 DEF EqualFold
<1>5. \A v, w \in over.infos : v.name = over.link[u] /\ w.name = over.link[u] => v = w
  BY <1>1 DEF Unclear
<1> QED BY <1>1, <1>3, <1>4, <1>5

LEMMA SummaryAgrees ==
  ASSUME NEW over \in GameOvers, NEW data \in Lookups(over), NEW d,
         d.infos = over.infos, d.result = over.result, d.data = data,
         NEW a, a.winners = Winners(over), a.unlisted = Unlisted(over), a.unclear = Unclear(over)
  PROVE  DumpAgrees(a, d)
<1> SUFFICES ASSUME NEW u \in DOMAIN data, u \notin Unclear(over)
             PROVE  /\ u \in Winners(over) => WonIn(d, u)
                    /\ WonIn(d, u) => \/ u \in Winners(over)
                                      \/ u \in Unlisted(over) /\ RoleIn(d, u) = Crewmate
  BY DEF DumpAgrees, AsAnnounced
<1>0. ImpostorsWon(d) <=> ImpostorsWon(over) BY DEF ImpostorsWon
<1>1. /\ u \in Users /\ over.link[u] # UnlinkedName
      /\ \A v \in over.infos : EqualFold(v.name, d.data[u]) <=> v.name = over.link[u]
      /\ \A v, w \in over.infos : v.name = over.link[u] /\ w.name = over.link[u] => v = w
  BY LookupIsPlayer
<1>2. RoleIn(d, u) = Impostor <=> \E v \in over.infos : v.impostor /\ v.name = over.link[u]
  BY <1>1 DEF RoleIn, Impostor, Crewmate
<1>3. u \in Winners(over) <=>
        \E v \in over.infos : v.name = over.link[u] /\ (v.impostor <=> ImpostorsWon(over))
  BY <1>1 DEF Winners
<1>4. CASE u \in Unlisted(over)
  <2>1. \A v \in over.infos : v.name # over.link[u] BY <1>4 DEF Unlisted
  <2>2. RoleIn(d, u) = Crewmate BY <1>2, <2>1 DEF RoleIn
  <2> QED BY <1>3, <1>4, <2>1, <2>2
<1>5. CASE u \notin Unlisted(over)
  <2>1. PICK v \in over.infos : v.name = over.link[u] BY <1>1, <1>5 DEF Unlisted
  <2>2. \A w \in over.infos : w.name = over.link[u] => w = v BY <1>1, <2>1
  <2>3. RoleIn(d, u) = Impostor <=> v.impostor BY <1>2, <2>1, <2>2
  <2>4. u \in Winners(over) <=> (v.impostor <=> ImpostorsWon(over)) BY <1>3, <2>1, <2>2
  <2> QED BY <1>0, <2>3, <2>4 DEF WonIn
<1> QED BY <1>4, <1>5

LEMMA LookupsFound ==
  ASSUME NEW over \in GameOvers, NEW data \in Lookups(over)
  PROVE  data \in FoundPlayers /\ over.result \in Results /\ over.infos \in SUBSET PlayerInfo
<1>1. /\ over.result \in Results /\ over.infos \in SUBSET PlayerInfo
      /\ over.known \in SUBSET PlayerNames
  BY RecorderAssumption
<1>2. PICK found \in SUBSET Users : data \in [found -> over.known] BY DEF Lookups
<1>3. data \in [found -> PlayerNames] BY <1>1, <1>2
<1> QED BY <1>1, <1>2, <1>3 DEF FoundPlayers

LEMMA OverEffect ==
  ASSUME DbTypes, WorkTypes, NEW over \in GameOvers, GameOverJob(over)
  PROVE  /\ ~resetting /\ resetting' = TRUE
         /\ \E n \in Goroutines :
              /\ n.after = lastOver /\ n.match = Unread
              /\ goroutines' = goroutines \cup {n} /\ jobs' \in Nat
         /\ \/ matchID = NoMatch /\ dumps' = dumps /\ announced' = announced
            \/ \E n \in Dumps :
                 /\ matchID # NoMatch /\ n.match = matchID /\ n.started = FALSE /\ n.todo = DOMAIN n.data
                 /\ dumps' = dumps \cup {n}
                 /\ announced' \in [GameIDs -> Summaries]
                 /\ DumpAgrees(announced'[matchID], n)
                 /\ \A m \in GameIDs : m # matchID => announced'[m] = announced[m]
<1>1. ~resetting /\ resetting' = TRUE /\ Spawn(Anonymous) BY DEF GameOverJob
<1>2. CASE matchID = NoMatch BY <1>1, <1>2, SpawnEffect DEF GameOverJob, Someone
<1>3. CASE matchID # NoMatch
  <2>1. PICK data \in Lookups(over) :
          dumps' = dumps \cup {[match |-> matchID, result |-> over.result, infos |-> over.infos,
                                data |-> data, todo |-> DOMAIN data, started |-> FALSE]}
    BY <1>3 DEF GameOverJob
  <2>2. matchID \in GameIDs
    BY <1>3, DatabaseAssumption DEF WorkTypes, DbTypes, NoMatch, GameIDs
  <2>3. PICK n : n = [match |-> matchID, result |-> over.result, infos |-> over.infos,
                      data |-> data, todo |-> DOMAIN data, started |-> FALSE]
    OBVIOUS
  <2>4. /\ n.match = matchID /\ n.started = FALSE /\ n.todo = DOMAIN n.data
        /\ n.result = over.result /\ n.infos = over.infos /\ n.data = data
    BY <2>3
  <2>5. n \in Dumps
    <3>1. data \in FoundPlayers /\ over.result \in Results /\ over.infos \in SUBSET PlayerInfo
      BY LookupsFound
    <3>2. DOMAIN data \in SUBSET Users BY <3>1, FoundUsers
    <3> QED BY <2>2, <2>3, <2>4, <3>1, <3>2 DEF Dumps, DumpRecords
  <2>6. PICK a : a = [winners |-> Winners(over), unlisted |-> Unlisted(over), unclear |-> Unclear(over)]
    OBVIOUS
  <2>7. /\ a \in Summaries
        /\ a.winners = Winners(over) /\ a.unlisted = Unlisted(over) /\ a.unclear = Unclear(over)
    BY <2>6 DEF Summaries, Winners, Unlisted, Unclear
  <2>8. announced' = [announced EXCEPT ![matchID] = a] BY <1>3, <2>6 DEF GameOverJob
  <2>9. /\ announced' \in [GameIDs -> Summaries] /\ announced'[matchID] = a
        /\ \A m \in GameIDs : m # matchID => announced'[m] = announced[m]
    BY <2>2, <2>7, <2>8 DEF WorkTypes
  <2>10. DumpAgrees(announced'[matchID], n) BY <2>4, <2>7, <2>9, SummaryAgrees
  <2> QED BY <1>1, <1>3, <2>1, <2>3, <2>4, <2>5, <2>9, <2>10, SpawnEffect DEF Someone
<1> QED BY <1>2, <1>3

LEMMA OptEffect ==
  ASSUME DbTypes, NEW c \in OptCommands
  PROVE  /\ \A pc \in {"done", "rows", "events"} : Goto(c, pc) =>
              /\ optCmd' \in [OptCommands -> OptRecords]
              /\ optCmd'[c].user = optCmd[c].user /\ optCmd'[c].opt = optCmd[c].opt /\ optCmd'[c].pc = pc
              /\ \A o \in OptCommands : o # c => optCmd'[o] = optCmd[o]
         /\ \A u \in Users, opt \in {"in", "out"} : OptBegin(c, u, opt) =>
              /\ optCmd[c].pc = "idle" /\ optCmd' \in [OptCommands -> OptRecords]
              /\ \A o \in OptCommands : o # c => optCmd'[o] = optCmd[o]
<1>1. ASSUME NEW pc \in {"done", "rows", "events"}, Goto(c, pc)
      PROVE  /\ optCmd' \in [OptCommands -> OptRecords]
             /\ optCmd'[c].user = optCmd[c].user /\ optCmd'[c].opt = optCmd[c].opt /\ optCmd'[c].pc = pc
             /\ \A o \in OptCommands : o # c => optCmd'[o] = optCmd[o]
  BY <1>1 DEF DbTypes, Goto, OptRecords
<1>2. ASSUME NEW u \in Users, NEW opt \in {"in", "out"}, OptBegin(c, u, opt)
      PROVE  /\ optCmd[c].pc = "idle" /\ optCmd' \in [OptCommands -> OptRecords]
             /\ \A o \in OptCommands : o # c => optCmd'[o] = optCmd[o]
  BY <1>2 DEF DbTypes, OptBegin, CommandAt, OptRecords, Someone
<1> QED BY <1>1, <1>2

LEMMA RestartEffect ==
  ASSUME DbTypes, Restart
  PROVE  /\ optCmd' \in [OptCommands -> OptRecords]
         /\ \A c \in OptCommands : optCmd'[c].pc \notin {"set", "events", "rows"}
         /\ \A c \in OptCommands : optCmd[c].pc \in {"events", "rows"} => optCmd[c].user \in halfOut'
         /\ halfOut \subseteq halfOut'
<1>1. ASSUME NEW c \in OptCommands
      PROVE  optCmd'[c] \in OptRecords /\ optCmd'[c].pc \in {"idle", "done"}
  <2>1. CASE optCmd[c] = NoCommand BY <2>1 DEF DbTypes, Restart, NoCommand
  <2>2. CASE optCmd[c] # NoCommand
    <3>1. optCmd'[c] = [optCmd[c] EXCEPT !.pc = "done"] BY <2>2 DEF Restart
    <3> QED BY <3>1 DEF DbTypes, OptRecords
  <2> QED BY <2>1, <2>2
<1>2. optCmd' \in [OptCommands -> OptRecords] BY <1>1 DEF Restart
<1> QED BY <1>1, <1>2 DEF Restart

LEMMA EnsuredType ==
  ASSUME DbTypes, NEW u, ensureUserExists(u)
  PROVE  /\ users' \in [Users -> {"absent", "in", "out"}]
         /\ \A v \in Users : /\ users[v] # "absent" => users'[v] = users[v]
                             /\ users'[v] = "out" => users[v] = "out"
                             /\ v = u => users'[v] # "absent"
BY DEF DbTypes, ensureUserExists, EnsuredUser

-----------------------------------------------------------------------------
(* Types *)

LEMMA RowsWithoutFinite ==
  ASSUME DbTypes, NEW u
  PROVE  RowsWithout(u) \subseteq Rows /\ IsFiniteSet(RowsWithout(u))
<1>1. RowsWithout(u) \subseteq usersGames BY DEF RowsWithout
<1> QED BY <1>1, FS_Subset DEF DbTypes

LEMMA TypesKept ==
  ASSUME RecInv, [RecNext]_<<dbVars, recVars>>
  PROVE  DbTypes' /\ WorkTypes'
<1> USE DEF RecInv, DbTypes, WorkTypes
<1>1. ASSUME NEW k \in StateJobs, NEW created \in BOOLEAN, StateJob(k, created)
      PROVE  DbTypes' /\ WorkTypes'
  <2>1. CASE matchID' \in {matchID, NoMatch} /\ UNCHANGED <<games, lastGame>>
    BY <1>1, <2>1, StateEffect DEF StateJob, NoMatch
  <2>2. CASE insertGame /\ matchID' = lastGame + 1
    <3>1. lastGame' \in 0..MaxGames /\ lastGame' = lastGame + 1
      BY <2>2, DatabaseAssumption DEF insertGame
    <3>2. games' \in [GameIDs -> Results \cup {"absent", Open}] BY <2>2 DEF insertGame
    <3>3. /\ matchID' \in 0..lastGame' /\ copy \subseteq 0..lastGame' /\ lastOver \in 0..lastGame'
      BY <2>2, <3>1
    <3> QED BY <1>1, <3>1, <3>2, <3>3, StateEffect DEF StateJob
  <2> QED BY <1>1, <2>1, <2>2, StateEffect
<1>2. ASSUME NEW u \in Users, PlayerJob(u) PROVE DbTypes' /\ WorkTypes'
  BY <1>2, SpawnEffect DEF PlayerJob, dbVars, Someone
<1>3. ASSUME NEW over \in GameOvers, GameOverJob(over) PROVE DbTypes' /\ WorkTypes'
  BY <1>3, OverEffect DEF GameOverJob, dbVars
<1>4. CASE ResetMatch
  <2>1. lastOver' \in 0..lastGame /\ matchID' \in 0..lastGame
    BY <1>4, DatabaseAssumption DEF ResetMatch, NoMatch
  <2> QED BY <1>4, <2>1 DEF ResetMatch, dbVars
<1>5. ASSUME NEW e \in goroutines, ReadMatch(e) PROVE DbTypes' /\ WorkTypes'
  BY <1>5, ReadEffect DEF ReadMatch, dbVars
<1>6. ASSUME NEW e \in goroutines, FileEvent(e) PROVE DbTypes' /\ WorkTypes'
  BY <1>6, FileEffect DEF FileEvent
<1>7. ASSUME NEW d \in dumps, EnsureUser(d) PROVE DbTypes' /\ WorkTypes'
  <2>1. PICK u \in d.todo, n \in Dumps : dumps' = (dumps \ {d}) \cup {n} /\ ensureUserExists(u)
    BY <1>7, EnsureEffect
  <2>2. users' \in [Users -> {"absent", "in", "out"}] BY <2>1, EnsuredType
  <2> QED BY <1>7, <2>1, <2>2 DEF EnsureUser
<1>8. ASSUME NEW d \in dumps, EndMatch(d) PROVE DbTypes' /\ WorkTypes'
  <2>1. games' \in [GameIDs -> Results \cup {"absent", Open}] BY <1>8, DumpShape DEF EndMatch, updateGame
  <2> QED BY <1>8, <2>1, EndEffect DEF EndMatch
<1>9. ASSUME NEW d \in dumps, RecordPlayer(d) PROVE DbTypes' /\ WorkTypes'
  <2>1. PICK u \in DOMAIN d.data, n \in Dumps, r \in Rows :
           /\ dumps' \subseteq (dumps \ {d}) \cup {n}
           /\ usersGames' = usersGames \/ usersGames' = usersGames \cup {r}
    BY <1>9, RecordEffect
  <2>2. usersGames' \subseteq Rows /\ IsFiniteSet(usersGames') BY <2>1, FS_AddElement
  <2> QED BY <1>9, <2>1, <2>2 DEF RecordPlayer
<1>10. CASE OtherReads
  BY <1>10 DEF OtherReads, dbVars
<1>11. CASE OtherWrites
  <2>1. disturbed' \in BOOLEAN BY <1>11 DEF OtherWrites
  <2> QED BY <1>11, <2>1 DEF OtherWrites, dbVars
<1>12. CASE Restart
  <2>1. disturbed' \in BOOLEAN BY <1>12 DEF Restart
  <2> QED BY <1>12, <2>1, RestartEffect DEF Restart, tables
<1>13. ASSUME NEW c \in OptCommands, NEW u \in Users, NEW opt \in {"in", "out"},
              OptBegin(c, u, opt), UNCHANGED recVars
       PROVE  DbTypes' /\ WorkTypes'
  BY <1>13, OptEffect, EnsuredType DEF OptBegin, recVars
<1>14. ASSUME NEW c \in OptCommands, OptSet(c), UNCHANGED recVars PROVE DbTypes' /\ WorkTypes'
  <2>1. users' \in [Users -> {"absent", "in", "out"}] BY <1>14 DEF OptSet, OptRecords
  <2>2. optCmd' \in [OptCommands -> OptRecords] BY <1>14, OptEffect DEF OptSet
  <2> QED BY <1>14, <2>1, <2>2 DEF OptSet, recVars
<1>15. ASSUME NEW c \in OptCommands, EraseEvents(c), UNCHANGED recVars PROVE DbTypes' /\ WorkTypes'
  <2>1. optCmd[c].user \in Someone BY DEF OptRecords
  <2> QED BY <1>15, <2>1, OptEffect, EventsWithoutEffect DEF EraseEvents, recVars
<1>16. ASSUME NEW c \in OptCommands, EraseRows(c), UNCHANGED recVars PROVE DbTypes' /\ WorkTypes'
  BY <1>16, OptEffect, RowsWithoutFinite DEF EraseRows, recVars
<1>17. ASSUME NEW c \in OptCommands, OptFails(c), UNCHANGED recVars PROVE DbTypes' /\ WorkTypes'
  BY <1>17, OptEffect DEF OptFails, tables, recVars
<1>18. ASSUME NEW u \in Users, DeleteAllGamesForUser(u), UNCHANGED recVars PROVE DbTypes' /\ WorkTypes'
  BY <1>18, RowsWithoutFinite DEF DeleteAllGamesForUser, recVars
<1>19. ASSUME DeleteAllGamesForServer, UNCHANGED recVars PROVE DbTypes' /\ WorkTypes'
  BY <1>19, FS_EmptySet DEF DeleteAllGamesForServer, recVars
<1>20. CASE UNCHANGED <<dbVars, recVars>>
  BY <1>20 DEF dbVars, recVars
<1> QED
  BY <1>1, <1>2, <1>3, <1>4, <1>5, <1>6, <1>7, <1>8, <1>9, <1>10, <1>11, <1>12, <1>13, <1>14, <1>15,
     <1>16, <1>17, <1>18, <1>19, <1>20 DEF RecNext, PrivacyStep, Privacy

-----------------------------------------------------------------------------
(* The tables *)

\* But for the erasing of a /privacy, what makes a user's rows and events does
\* so with the flag that the user has.
TablesFacts == Ensured /\ Unborn /\ OneRow /\ Erased

LEMMA UsersEnsured ==
  ASSUME DbTypes, TablesFacts, NEW u, ensureUserExists(u),
         UNCHANGED <<usersGames, gameEvents, optCmd, halfOut>>
  PROVE  Erased'
BY EnsuredType DEF TablesFacts, Erased, EventsErased, RowsErased, Erasing

LEMMA TablesKept ==
  ASSUME RecInv, [RecNext]_<<dbVars, recVars>>
  PROVE  Ensured' /\ Unborn' /\ OneRow' /\ Erased'
<1> USE DEF RecInv
<1>1. ASSUME NEW k \in StateJobs, NEW created \in BOOLEAN, StateJob(k, created)
      PROVE  Ensured' /\ Unborn' /\ OneRow' /\ Erased'
  <2>1. UNCHANGED <<users, usersGames, gameEvents, optCmd, halfOut, dumps>> BY <1>1 DEF StateJob
  <2>2. Unborn'
    <3>1. CASE UNCHANGED <<games, lastGame>> BY <3>1 DEF Unborn
    <3>2. CASE insertGame BY <3>2 DEF insertGame, Unborn, DbTypes, GameIDs
    <3> QED BY <1>1, <3>1, <3>2, StateEffect
  <2> QED BY <2>1, <2>2 DEF Ensured, OneRow, Erased, EventsErased, RowsErased, Erasing
<1>2. ASSUME NEW over \in GameOvers, GameOverJob(over)
      PROVE  Ensured' /\ Unborn' /\ OneRow' /\ Erased'
  <2>1. UNCHANGED dbVars BY <1>2 DEF GameOverJob
  <2>2. Ensured' BY <1>2, <2>1, OverEffect DEF Ensured, dbVars
  <2> QED BY <2>1, <2>2 DEF dbVars, Unborn, OneRow, Erased, EventsErased, RowsErased, Erasing
<1>3. ASSUME NEW e \in goroutines, FileEvent(e)
      PROVE  Ensured' /\ Unborn' /\ OneRow' /\ Erased'
  <2>1. UNCHANGED <<users, games, lastGame, usersGames, optCmd, halfOut, dumps>> BY <1>3 DEF FileEvent
  <2>2. ASSUME NEW u \in Users, users[u] = "out", EventsErased(u) PROVE EventsErased(u)'
    <3>1. CASE gameEvents' = gameEvents BY <2>2, <3>1 DEF EventsErased
    <3>2. ASSUME NEW n \in Events, n.user = e.user, n.opt = OptOf(e.user), gameEvents' = gameEvents \cup {n}
          PROVE  EventsErased(u)'
      <4>1. n.user = u => n.opt = "out" BY <2>2, <3>2 DEF OptOf
      <4> QED BY <2>2, <3>2, <4>1 DEF EventsErased
    <3> QED BY <1>3, <3>1, <3>2, FileEffect
  <2> QED BY <2>1, <2>2 DEF Ensured, Unborn, OneRow, Erased, RowsErased, Erasing
<1>4. ASSUME NEW d \in dumps, EnsureUser(d)
      PROVE  Ensured' /\ Unborn' /\ OneRow' /\ Erased'
  <2>1. PICK u \in d.todo, n \in Dumps :
          /\ SameMatch(n, d) /\ n.started = FALSE /\ n.todo = d.todo \ {u}
          /\ dumps' = (dumps \ {d}) \cup {n} /\ ensureUserExists(u)
    BY <1>4, EnsureEffect
  <2>2. UNCHANGED <<games, lastGame, usersGames, gameEvents, optCmd, halfOut>> BY <1>4 DEF EnsureUser
  <2>3. \A v \in Users : (users[v] # "absent" => users'[v] # "absent") /\ (v = u => users'[v] # "absent")
    BY <2>1, EnsuredType
  <2>4. ~d.started BY <1>4 DEF EnsureUser
  <2>5. Ensured' BY <2>1, <2>3, <2>4, DumpShape DEF Ensured, SameMatch, WorkTypes
  <2>6. Erased' BY <2>1, <2>2, UsersEnsured DEF TablesFacts, Erasing
  <2> QED BY <2>2, <2>5, <2>6 DEF Unborn, OneRow
<1>5. ASSUME NEW d \in dumps, EndMatch(d)
      PROVE  Ensured' /\ Unborn' /\ OneRow' /\ Erased'
  <2>1. PICK n \in Dumps : SameMatch(n, d) /\ dumps' \subseteq (dumps \ {d}) \cup {n} BY <1>5, EndEffect
  <2>2. UNCHANGED <<users, lastGame, usersGames, gameEvents, optCmd, halfOut>> BY <1>5 DEF EndMatch
  <2>3. d.todo = {} BY <1>5 DEF EndMatch
  <2>4. Ensured' BY <2>1, <2>2, <2>3 DEF Ensured, SameMatch
  <2>5. Unborn' BY <1>5, <2>2 DEF EndMatch, updateGame, Unborn
  <2> QED BY <2>2, <2>4, <2>5 DEF OneRow, Erased, EventsErased, RowsErased, Erasing
<1>6. ASSUME NEW d \in dumps, RecordPlayer(d)
      PROVE  Ensured' /\ Unborn' /\ OneRow' /\ Erased'
  <2>1. PICK u \in DOMAIN d.data, n \in Dumps, r \in Rows :
           /\ SameMatch(n, d) /\ n.started = TRUE /\ dumps' \subseteq (dumps \ {d}) \cup {n}
           /\ RowOf(r, d, u)
           /\ \/ usersGames' = usersGames
              \/ CanInsertPlayer(u, d.match) /\ usersGames' = usersGames \cup {r}
    BY <1>6, RecordEffect
  <2>2. UNCHANGED <<users, games, lastGame, gameEvents, optCmd, halfOut>> BY <1>6 DEF RecordPlayer
  <2>3. d.started BY <1>6 DEF RecordPlayer
  <2>4. Ensured' BY <2>1, <2>2, <2>3 DEF Ensured, SameMatch
  <2>5. OneRow' BY <2>1 DEF OneRow, CanInsertPlayer, RowOf
  <2>6. ASSUME NEW v \in Users, users[v] = "out", RowsErased(v) PROVE RowsErased(v)'
    BY <2>1, <2>6 DEF RowsErased, RowOf
  <2> QED BY <2>2, <2>4, <2>5, <2>6 DEF Unborn, Erased, EventsErased, Erasing
<1>7. CASE Restart
  <2>1. UNCHANGED tables /\ dumps' = {} BY <1>7 DEF Restart
  <2>2. ASSUME NEW u \in Users, users[u] = "out", u \notin halfOut' PROVE EventsErased(u) /\ RowsErased(u)
    <3>1. u \notin halfOut /\ ~Erasing(u, {"events", "rows"})
      BY <1>7, <2>2, RestartEffect DEF Erasing
    <3>2. ~Erasing(u, {"events"}) BY <3>1 DEF Erasing
    <3> QED BY <2>2, <3>1, <3>2 DEF Erased
  <2> QED BY <2>1, <2>2 DEF tables, Ensured, Unborn, OneRow, Erased, EventsErased, RowsErased
<1>8. ASSUME NEW c \in OptCommands, NEW u \in Users, NEW opt \in {"in", "out"},
             OptBegin(c, u, opt), UNCHANGED recVars
      PROVE  Ensured' /\ Unborn' /\ OneRow' /\ Erased'
  <2>1. UNCHANGED <<games, lastGame, usersGames, gameEvents, halfOut, dumps>> /\ ensureUserExists(u)
    BY <1>8 DEF OptBegin, recVars
  <2>2. \A v \in Users : users[v] # "absent" => users'[v] # "absent" BY <2>1, EnsuredType
  <2>3. Ensured' BY <2>1, <2>2, DumpShape DEF Ensured, WorkTypes
  <2>4. ASSUME NEW v \in Users, users'[v] = "out", v \notin halfOut
        PROVE  /\ EventsErased(v) \/ Erasing(v, {"events"})'
               /\ RowsErased(v) \/ Erasing(v, {"events", "rows"})'
    <3>1. users[v] = "out" BY <2>1, <2>4, EnsuredType
    <3>2. optCmd[c].pc = "idle" /\ \A o \in OptCommands : o # c => optCmd'[o] = optCmd[o]
      BY <1>8, OptEffect
    <3> QED BY <2>4, <3>1, <3>2 DEF Erased, Erasing
  <2> QED BY <2>1, <2>3, <2>4 DEF Unborn, OneRow, Erased, EventsErased, RowsErased
<1>9. ASSUME NEW c \in OptCommands, OptSet(c), UNCHANGED recVars
      PROVE  Ensured' /\ Unborn' /\ OneRow' /\ Erased'
  <2>1. UNCHANGED <<games, lastGame, usersGames, gameEvents, dumps>> BY <1>9 DEF OptSet, recVars
  <2>2. users' = [users EXCEPT ![optCmd[c].user] = optCmd[c].opt] /\ halfOut' = halfOut \ {optCmd[c].user}
    BY <1>9 DEF OptSet
  <2>3. \A v \in Users : users'[v] = users[v] \/ (v = optCmd[c].user /\ users'[v] = optCmd[c].opt)
    BY <2>2 DEF DbTypes
  <2>4. Ensured' BY <2>1, <2>3, DumpShape DEF Ensured, WorkTypes, DbTypes, OptRecords
  <2>5. /\ optCmd[c].pc = "set"
        /\ optCmd'[c].user = optCmd[c].user /\ optCmd'[c].opt = optCmd[c].opt
        /\ optCmd[c].opt = "out" => optCmd'[c].pc = "events"
        /\ \A o \in OptCommands : o # c => optCmd'[o] = optCmd[o]
    BY <1>9, OptEffect DEF OptSet, CommandAt
  <2>6. ASSUME NEW v \in Users, users'[v] = "out", v \notin halfOut'
        PROVE  /\ EventsErased(v) \/ Erasing(v, {"events"})'
               /\ RowsErased(v) \/ Erasing(v, {"events", "rows"})'
    <3>1. CASE v = optCmd[c].user
      <4>1. optCmd[c].opt = "out" BY <2>2, <2>6, <3>1 DEF DbTypes
      <4> QED BY <2>5, <3>1, <4>1 DEF Erasing
    <3>2. CASE v # optCmd[c].user
      <4>1. users[v] = "out" /\ v \notin halfOut BY <2>2, <2>3, <2>6, <3>2
      <4> QED BY <2>5, <4>1 DEF Erased, Erasing
    <3> QED BY <3>1, <3>2
  <2> QED BY <2>1, <2>4, <2>6 DEF Unborn, OneRow, Erased, EventsErased, RowsErased
<1>10. ASSUME NEW c \in OptCommands, EraseEvents(c), UNCHANGED recVars
       PROVE  Ensured' /\ Unborn' /\ OneRow' /\ Erased'
  <2>1. UNCHANGED <<users, games, lastGame, usersGames, halfOut, dumps>> BY <1>10 DEF EraseEvents, recVars
  <2>2. optCmd[c].user \in Someone /\ optCmd[c].pc = "events"
    BY <1>10 DEF DbTypes, OptRecords, EraseEvents, CommandAt
  <2>3. \A n \in gameEvents' : \E e \in gameEvents :
          /\ n.opt = e.opt
          /\ n.user = Anonymous \/ (n.user = e.user /\ n.user # optCmd[c].user)
    BY <1>10, <2>2, EventsWithoutEffect DEF EraseEvents, DbTypes
  <2>4. /\ optCmd'[c].user = optCmd[c].user /\ optCmd'[c].opt = optCmd[c].opt /\ optCmd'[c].pc = "rows"
        /\ \A o \in OptCommands : o # c => optCmd'[o] = optCmd[o]
    BY <1>10, OptEffect DEF EraseEvents
  <2>5. ASSUME NEW v \in Users, users[v] = "out", v \notin halfOut
        PROVE  /\ EventsErased(v)' \/ Erasing(v, {"events"})'
               /\ RowsErased(v) \/ Erasing(v, {"events", "rows"})'
    <3>1. CASE v = optCmd[c].user
      <4>1. EventsErased(v)' BY <2>3, <3>1, DatabaseAssumption DEF EventsErased
      <4>2. Erasing(v, {"events", "rows"}) => Erasing(v, {"events", "rows"})'
        BY <2>4 DEF Erasing
      <4> QED BY <2>5, <4>1, <4>2 DEF Erased
    <3>2. CASE v # optCmd[c].user
      <4>1. EventsErased(v) => EventsErased(v)' BY <2>3, <3>2, DatabaseAssumption DEF EventsErased
      <4>2. \A pcs : Erasing(v, pcs) => Erasing(v, pcs)' BY <2>4, <3>2 DEF Erasing
      <4> QED BY <2>5, <4>1, <4>2 DEF Erased
    <3> QED BY <3>1, <3>2
  <2> QED BY <2>1, <2>5 DEF Ensured, Unborn, OneRow, Erased, RowsErased
<1>11. ASSUME NEW c \in OptCommands, EraseRows(c), UNCHANGED recVars
       PROVE  Ensured' /\ Unborn' /\ OneRow' /\ Erased'
  <2>1. UNCHANGED <<users, games, lastGame, gameEvents, halfOut, dumps>> BY <1>11 DEF EraseRows, recVars
  <2>2. usersGames' = RowsWithout(optCmd[c].user) /\ optCmd[c].pc = "rows"
    BY <1>11 DEF EraseRows, CommandAt
  <2>3. /\ optCmd'[c].pc = "done"
        /\ \A o \in OptCommands : o # c => optCmd'[o] = optCmd[o]
    BY <1>11, OptEffect DEF EraseRows
  <2>4. ASSUME NEW v \in Users, users[v] = "out", v \notin halfOut
        PROVE  /\ EventsErased(v) \/ Erasing(v, {"events"})'
               /\ RowsErased(v)' \/ Erasing(v, {"events", "rows"})'
    <3>1. Erasing(v, {"events"}) => Erasing(v, {"events"})' BY <2>2, <2>3 DEF Erasing
    <3>2. CASE v = optCmd[c].user
      <4>1. RowsErased(v)' BY <2>2, <3>2 DEF RowsErased, RowsWithout
      <4> QED BY <2>4, <3>1, <4>1 DEF Erased
    <3>3. CASE v # optCmd[c].user
      <4>1. RowsErased(v) => RowsErased(v)' BY <2>2 DEF RowsErased, RowsWithout
      <4>2. \A pcs : Erasing(v, pcs) => Erasing(v, pcs)' BY <2>3, <3>3 DEF Erasing
      <4> QED BY <2>4, <4>1, <4>2 DEF Erased
    <3> QED BY <3>2, <3>3
  <2>5. OneRow' BY <2>2 DEF OneRow, RowsWithout
  <2> QED BY <2>1, <2>4, <2>5 DEF Ensured, Unborn, Erased, EventsErased
<1>12. ASSUME NEW c \in OptCommands, OptFails(c), UNCHANGED recVars
       PROVE  Ensured' /\ Unborn' /\ OneRow' /\ Erased'
  <2>1. UNCHANGED tables /\ dumps' = dumps /\ halfOut' = halfOut \cup {optCmd[c].user}
    BY <1>12 DEF OptFails, recVars
  <2>2. \A o \in OptCommands : o # c => optCmd'[o] = optCmd[o] BY <1>12, OptEffect DEF OptFails
  <2>3. ASSUME NEW v \in Users, v # optCmd[c].user, NEW pcs, Erasing(v, pcs) PROVE Erasing(v, pcs)'
    BY <2>2, <2>3 DEF Erasing
  <2> QED BY <2>1, <2>3 DEF tables, Ensured, Unborn, OneRow, Erased, EventsErased, RowsErased
<1>13. ASSUME NEW u \in Users, DeleteAllGamesForUser(u), UNCHANGED recVars
       PROVE  Ensured' /\ Unborn' /\ OneRow' /\ Erased'
  <2>1. usersGames' \subseteq usersGames BY <1>13 DEF DeleteAllGamesForUser, RowsWithout
  <2>2. UNCHANGED <<users, games, lastGame, gameEvents, optCmd, halfOut, dumps>>
    BY <1>13 DEF DeleteAllGamesForUser, recVars
  <2>3. OneRow' BY <2>1 DEF OneRow
  <2>4. \A v : RowsErased(v) => RowsErased(v)' BY <2>1 DEF RowsErased
  <2> QED BY <2>2, <2>3, <2>4 DEF Ensured, Unborn, Erased, EventsErased, Erasing
<1>14. ASSUME DeleteAllGamesForServer, UNCHANGED recVars
       PROVE  Ensured' /\ Unborn' /\ OneRow' /\ Erased'
  BY <1>14 DEF DeleteAllGamesForServer, recVars, Ensured, Unborn, OneRow, Erased, EventsErased, RowsErased
<1>15. ASSUME UNCHANGED <<dbVars, dumps>> PROVE Ensured' /\ Unborn' /\ OneRow' /\ Erased'
  BY <1>15 DEF dbVars, Ensured, Unborn, OneRow, Erased, EventsErased, RowsErased, Erasing
<1>16. ASSUME \/ \E u \in Users : PlayerJob(u)
              \/ ResetMatch \/ OtherReads \/ OtherWrites
              \/ \E e \in goroutines : ReadMatch(e)
              \/ UNCHANGED <<dbVars, recVars>>
       PROVE  Ensured' /\ Unborn' /\ OneRow' /\ Erased'
  <2>1. UNCHANGED <<dbVars, dumps>>
    BY <1>16 DEF PlayerJob, ResetMatch, OtherReads, OtherWrites, ReadMatch, recVars
  <2> QED BY <2>1, <1>15
<1> QED
  BY <1>1, <1>2, <1>3, <1>4, <1>5, <1>6, <1>7, <1>8, <1>9, <1>10, <1>11, <1>12, <1>13, <1>14,
     <1>16 DEF RecNext, PrivacyStep, Privacy

-----------------------------------------------------------------------------
(* The match that is recorded *)

\* A job, or a goroutine's event, that changes nothing of the record or the dumps.
LEMMA UndisturbedFrame ==
  ASSUME WorkTypes, Undisturbed, UNCHANGED <<matchID, lastOver, resetting, goroutines, dumps, announced>>,
         usersGames' \subseteq usersGames,
         \A m \in GameIDs : games'[m] \in {games[m], "absent", Open},
         \A e \in gameEvents' : ~e.late
  PROVE  Undisturbed'
<1>1. OnMatch' BY DEF Undisturbed, OnMatch
<1>2. InTime' BY DEF Undisturbed, InTime
<1>3. \A m \in GameIDs : games'[m] \in Results => games[m] \in Results
  BY DEF Results, Open, Crewmate, Impostor
<1>4. Played' BY <1>3 DEF Undisturbed, Played, Past
<1>5. OneDump' BY <1>3, DumpShape DEF Undisturbed, OneDump, WorkTypes
<1>6. Agreed' /\ Sides' BY DEF Undisturbed, Agreed, Sides
<1> QED BY <1>1, <1>2, <1>4, <1>5, <1>6 DEF Undisturbed

\* Only StateJob, ResetMatch and OtherWrites change MatchID.
LEMMA SpawnKeeps ==
  ASSUME WorkTypes, Undisturbed, ~resetting, UNCHANGED <<lastOver, usersGames, gameEvents>>,
         NEW n \in Goroutines, n.after = lastOver, n.match = Unread, goroutines' = goroutines \cup {n}
  PROVE  InTime'
BY DEF Undisturbed, InTime, WorkTypes, Goroutines

LEMMA StateUndisturbed ==
  ASSUME DbTypes, WorkTypes, Undisturbed,
         NEW k \in StateJobs, NEW created \in BOOLEAN, StateJob(k, created)
  PROVE  Undisturbed'
<1> USE DEF Undisturbed
<1>1. UNCHANGED <<usersGames, gameEvents, dumps, announced, resetting, lastOver>> /\ ~resetting
  BY StateEffect DEF StateJob
<1>2. InTime' BY <1>1, StateEffect, SpawnKeeps
<1>3. OnMatch'
  <2>1. CASE matchID' \in {matchID, NoMatch} BY <1>1, <2>1 DEF OnMatch
  <2>2. CASE matchID' = lastGame + 1 BY <1>1, <2>2, DatabaseAssumption DEF OnMatch, WorkTypes, DbTypes
  <2> QED BY <2>1, <2>2, StateEffect
<1>4. \A m \in GameIDs : games'[m] \in Results => games[m] \in Results
  <2>1. CASE UNCHANGED <<games, lastGame>> BY <2>1
  <2>2. CASE insertGame BY <2>2 DEF insertGame, DbTypes, Results, Open, Crewmate, Impostor
  <2> QED BY <2>1, <2>2, StateEffect
<1>5. Played' BY <1>1, <1>4 DEF Played, Past
<1>6. OneDump' BY <1>1, <1>4, DumpShape DEF OneDump, WorkTypes
<1> QED BY <1>1, <1>2, <1>3, <1>5, <1>6 DEF Agreed, Sides

LEMMA OverUndisturbed ==
  ASSUME DbTypes, WorkTypes, Undisturbed, NEW over \in GameOvers, GameOverJob(over)
  PROVE  Undisturbed'
<1> USE DEF Undisturbed
<1>1. UNCHANGED <<games, usersGames, gameEvents, matchID, lastOver>> /\ ~resetting /\ resetting' = TRUE
  BY OverEffect DEF GameOverJob, dbVars
<1>2. InTime' BY <1>1, OverEffect, SpawnKeeps
<1>3. OnMatch' BY <1>1 DEF OnMatch
<1>4. \A m : Past(m) => m <= lastOver /\ Past(m)' BY <1>1 DEF Past
<1>5. CASE dumps' = dumps /\ announced' = announced
  BY <1>1, <1>2, <1>3, <1>4, <1>5 DEF Played, OneDump, Agreed, Sides
<1>6. ASSUME NEW n \in Dumps, matchID # NoMatch, n.match = matchID, n.started = FALSE,
             dumps' = dumps \cup {n}, DumpAgrees(announced'[matchID], n),
             \A m \in GameIDs : m # matchID => announced'[m] = announced[m]
      PROVE  Undisturbed'
  <2>1. matchID > lastOver BY <1>6 DEF OnMatch
  <2>2. matchID \in Nat /\ lastOver \in Nat BY DatabaseAssumption DEF WorkTypes, DbTypes
  <2>3. \A m : Past(m) => m # matchID BY <1>4, <2>1, <2>2
  <2>4. /\ \A d \in dumps : d.match # matchID /\ d.match \in GameIDs
        /\ \A r \in usersGames : r.game # matchID /\ r.game \in GameIDs
        /\ games[matchID] \notin Results
    BY <1>6, <2>3, DumpShape DEF Played, WorkTypes, DbTypes, Rows
  <2>5. Past(matchID)' BY <1>1 DEF Past
  <2>6. Played' BY <1>1, <1>4, <1>6, <2>5 DEF Played
  <2>7. OneDump' BY <1>1, <1>6, <2>4 DEF OneDump
  <2>8. Agreed'
    <3>1. \A d \in dumps : announced'[d.match] = announced[d.match] BY <1>6, <2>4
    <3>2. \A r \in usersGames : announced'[r.game] = announced[r.game] BY <1>6, <2>4
    <3>3. \A d \in dumps' : DumpAgrees(announced'[d.match], d) BY <1>6, <3>1 DEF Agreed
    <3>4. \A r \in usersGames : AsAnnounced(announced'[r.game], r.user, r.role, r.won)
      BY <3>2 DEF Agreed
    <3> QED BY <1>1, <3>3, <3>4 DEF Agreed, DumpAgrees, AsAnnounced, RoleIn, WonIn, ImpostorsWon
  <2>9. Sides' BY <1>1, <1>6, <2>4 DEF Sides
  <2> QED BY <1>2, <1>3, <2>6, <2>7, <2>8, <2>9
<1> QED BY <1>5, <1>6, OverEffect

LEMMA ResetUndisturbed ==
  ASSUME DbTypes, WorkTypes, Undisturbed, ResetMatch
  PROVE  Undisturbed'
<1> USE DEF Undisturbed
<1>1. /\ UNCHANGED <<games, usersGames, gameEvents, goroutines, dumps, announced>>
      /\ matchID' = NoMatch /\ lastOver' = IF matchID > lastOver THEN matchID ELSE lastOver
  BY DEF ResetMatch, dbVars
<1>2. matchID \in Nat /\ lastOver \in Nat BY DatabaseAssumption DEF WorkTypes, DbTypes
<1>3. ASSUME NEW m \in GameIDs, Past(m) PROVE Past(m)'
  <2>1. m <= lastOver' BY <1>1, <1>2, <1>3 DEF Past, GameIDs
  <2> QED BY <2>1 DEF Past
<1>4. OnMatch' BY <1>1 DEF OnMatch
<1>5. InTime'
  <2>1. \A e \in goroutines : e.after \in Nat BY DEF WorkTypes, Goroutines
  <2> QED BY <1>1, <1>2, <2>1 DEF InTime
<1>6. Played' BY <1>1, <1>3, DumpShape DEF Played, WorkTypes, DbTypes, Rows
<1> QED BY <1>1, <1>4, <1>5, <1>6 DEF OneDump, Agreed, Sides

LEMMA GoroutineUndisturbed ==
  ASSUME DbTypes, WorkTypes, Undisturbed, NEW e \in goroutines, ReadMatch(e) \/ FileEvent(e)
  PROVE  Undisturbed'
<1> USE DEF Undisturbed
<1>1. UNCHANGED <<games, usersGames, matchID, lastOver, resetting, dumps, announced>>
  BY DEF ReadMatch, FileEvent, dbVars
<1>2. OnMatch' BY <1>1 DEF OnMatch
<1>3. InTime'
  <2>1. CASE ReadMatch(e)
    <3>1. gameEvents' = gameEvents BY <2>1 DEF ReadMatch, dbVars
    <3>2. CASE goroutines' = goroutines \ {e} BY <1>1, <3>1, <3>2 DEF InTime
    <3>3. ASSUME NEW n \in Goroutines, n.after = e.after, n.match = matchID, matchID # NoMatch,
                 goroutines' = (goroutines \ {e}) \cup {n}
          PROVE  InTime'
      <4>1. e.after <= lastOver /\ matchID > lastOver BY <3>3 DEF InTime, OnMatch
      <4>2. e.after \in Nat /\ matchID \in Nat /\ lastOver \in Nat
        BY DatabaseAssumption DEF WorkTypes, DbTypes, Goroutines
      <4>3. n.after <= lastOver /\ n.match > n.after BY <3>3, <4>1, <4>2
      <4> QED BY <1>1, <3>1, <3>3, <4>3 DEF InTime
    <3> QED BY <2>1, <3>2, <3>3, ReadEffect
  <2>2. CASE FileEvent(e)
    <3>1. goroutines' \subseteq goroutines /\ e.match # Unread BY <2>2 DEF FileEvent
    <3>2. ~(e.match <= e.after)
      <4>1. e.match > e.after BY <3>1 DEF InTime
      <4> QED BY <4>1 DEF WorkTypes, Goroutines, GameIDs, Unread
    <3>3. \A n \in gameEvents' : ~n.late BY <2>2, <3>2, FileEffect DEF InTime
    <3> QED BY <1>1, <3>1, <3>3 DEF InTime
  <2> QED BY <2>1, <2>2
<1> QED BY <1>1, <1>2, <1>3 DEF Played, Past, OneDump, Agreed, Sides

LEMMA SameAgrees ==
  ASSUME NEW n, NEW d, SameMatch(n, d), NEW a, DumpAgrees(a, d)
  PROVE  DumpAgrees(a, n)
BY DEF SameMatch, DumpAgrees, RoleIn, WonIn, ImpostorsWon

\* A step of a dump that leaves the rows alone.
LEMMA DumpUndisturbed ==
  ASSUME DbTypes, WorkTypes, Undisturbed, NEW d \in dumps, EnsureUser(d) \/ EndMatch(d)
  PROVE  Undisturbed'
<1> USE DEF Undisturbed
<1>1. UNCHANGED <<usersGames, gameEvents, goroutines, matchID, lastOver, resetting, announced>>
  BY DEF EnsureUser, EndMatch
<1>2. OnMatch' /\ InTime' BY <1>1 DEF OnMatch, InTime
<1>3. \A m : Past(m)' <=> Past(m) BY <1>1 DEF Past
<1>4. PICK n \in Dumps : SameMatch(n, d) /\ dumps' \subseteq (dumps \ {d}) \cup {n}
                          /\ (n.started = FALSE => EnsureUser(d))
  BY EnsureEffect, EndEffect
<1>5. \A m \in GameIDs : games'[m] \in Results => games[m] \in Results \/ (EndMatch(d) /\ m = d.match)
  BY DEF EnsureUser, EndMatch, updateGame
<1>6. Past(d.match) BY DEF Played
<1>7. Played' BY <1>1, <1>3, <1>4, <1>5, <1>6 DEF Played, SameMatch
<1>8. OneDump'
  <2>1. ASSUME NEW a \in dumps', NEW b \in dumps', a.match = b.match PROVE a = b
    BY <2>1, <1>4 DEF OneDump, SameMatch
  <2>2. ASSUME NEW a \in dumps', ~a.started PROVE games'[a.match] \notin Results
    <3>1. CASE a = n
      <4>1. EnsureUser(d) BY <2>2, <3>1, <1>4 DEF Dumps
      <4>2. games' = games /\ ~d.started BY <4>1 DEF EnsureUser
      <4> QED BY <3>1, <4>2, <1>4 DEF OneDump, SameMatch
    <3>2. CASE a \in dumps \ {d}
      <4>1. a.match # d.match /\ a.match \in GameIDs BY <3>2, DumpShape DEF OneDump, WorkTypes
      <4> QED BY <2>2, <3>2, <4>1, <1>5 DEF OneDump
    <3> QED BY <3>1, <3>2, <1>4
  <2> QED BY <2>1, <2>2 DEF OneDump
<1>9. Agreed' BY <1>1, <1>4, SameAgrees DEF Agreed, SameMatch
<1>10. Sides' BY <1>1, <1>4 DEF Sides, SameMatch, ImpostorsWon
<1> QED BY <1>2, <1>7, <1>8, <1>9, <1>10

\* A row says what the summary says, and what the role has come to.
LEMMA RowIsRight ==
  ASSUME NEW d \in dumps, NEW u \in DOMAIN d.data, NEW r, RowOf(r, d, u)
  PROVE  /\ \A a : DumpAgrees(a, d) => AsAnnounced(a, r.user, r.role, r.won)
         /\ r.won <=> (r.role = Impostor <=> ImpostorsWon(d))
<1>1. r.user = u /\ r.role = RoleIn(d, u) /\ r.won = WonIn(d, u) BY DEF RowOf
<1>2. \A a : DumpAgrees(a, d) => AsAnnounced(a, r.user, r.role, r.won) BY <1>1 DEF DumpAgrees
<1>3. WonIn(d, u) <=> (RoleIn(d, u) = Impostor <=> ImpostorsWon(d)) BY DEF WonIn
<1> QED BY <1>1, <1>2, <1>3

LEMMA RecordUndisturbed ==
  ASSUME DbTypes, WorkTypes, Ensured, Undisturbed, NEW d \in dumps, RecordPlayer(d)
  PROVE  Undisturbed'
<1> USE DEF Undisturbed
<1>1. UNCHANGED <<games, gameEvents, goroutines, matchID, lastOver, resetting, announced>>
  BY DEF RecordPlayer
<1>2. OnMatch' /\ InTime' BY <1>1 DEF OnMatch, InTime
<1>3. \A m : Past(m)' <=> Past(m) BY <1>1 DEF Past
<1>4. PICK u \in DOMAIN d.data, n \in Dumps, r \in Rows :
         /\ SameMatch(n, d) /\ n.started = TRUE
         /\ dumps' \subseteq (dumps \ {d}) \cup {n}
         /\ RowOf(r, d, u)
         /\ usersGames' = usersGames \/ usersGames' = usersGames \cup {r}
  BY RecordEffect
<1>5. r.game = d.match BY <1>4 DEF RowOf
<1>6. /\ AsAnnounced(announced[d.match], r.user, r.role, r.won)
      /\ r.won <=> (r.role = Impostor <=> ImpostorsWon(d))
  BY <1>4, RowIsRight DEF Agreed
<1>7. Played' BY <1>1, <1>3, <1>4, <1>5 DEF Played, SameMatch
<1>8. OneDump' BY <1>1, <1>4 DEF OneDump, SameMatch
<1>9. Agreed' BY <1>1, <1>4, <1>5, <1>6, SameAgrees DEF Agreed, SameMatch
<1>10. ASSUME NEW s \in usersGames', NEW e \in dumps', s.game = e.match
       PROVE  s.won <=> (s.role = Impostor <=> ImpostorsWon(e))
  <2>1. PICK f \in dumps : SameMatch(e, f) BY <1>4 DEF SameMatch
  <2>2. ImpostorsWon(e) <=> ImpostorsWon(f) BY <2>1 DEF SameMatch, ImpostorsWon
  <2>3. s.game = f.match BY <1>10, <2>1 DEF SameMatch
  <2>4. CASE s \in usersGames BY <2>2, <2>3, <2>4 DEF Sides
  <2>5. CASE s = r
    <3>1. f = d BY <2>3, <2>5, <1>5 DEF OneDump
    <3> QED BY <2>2, <2>5, <3>1, <1>6
  <2> QED BY <2>4, <2>5, <1>4
<1>11. ASSUME NEW s \in usersGames', NEW t \in usersGames', s.game = t.game, s.role = t.role
       PROVE  s.won <=> t.won
  <2>1. ASSUME NEW x \in usersGames, x.game = r.game, x.role = r.role PROVE x.won <=> r.won
    <3>1. x.won <=> (x.role = Impostor <=> ImpostorsWon(d)) BY <2>1, <1>5 DEF Sides
    <3> QED BY <2>1, <3>1, <1>6
  <2> QED BY <1>4, <1>11, <2>1 DEF Sides
<1>12. Sides' BY <1>10, <1>11 DEF Sides
<1> QED BY <1>2, <1>7, <1>8, <1>9, <1>12

LEMMA DisturbedStays ==
  ASSUME WorkTypes, [RecNext]_<<dbVars, recVars>>, disturbed
  PROVE  disturbed'
BY DEF RecNext, StateJob, PlayerJob, GameOverJob, ResetMatch, ReadMatch, FileEvent, EnsureUser, EndMatch,
   RecordPlayer, OtherReads, OtherWrites, Restart, PrivacyStep, recVars

LEMMA UndisturbedKept ==
  ASSUME RecInv, ~disturbed', [RecNext]_<<dbVars, recVars>>
  PROVE  Undisturbed'
<1>1. DbTypes /\ WorkTypes /\ Ensured /\ Undisturbed BY DisturbedStays DEF RecInv
<1> USE <1>1
<1>2. ASSUME NEW k \in StateJobs, NEW created \in BOOLEAN, StateJob(k, created) PROVE Undisturbed'
  BY <1>2, StateUndisturbed
<1>3. ASSUME NEW over \in GameOvers, GameOverJob(over) PROVE Undisturbed' BY <1>3, OverUndisturbed
<1>4. CASE ResetMatch BY <1>4, ResetUndisturbed
<1>5. ASSUME NEW e \in goroutines, ReadMatch(e) \/ FileEvent(e) PROVE Undisturbed'
  BY <1>5, GoroutineUndisturbed
<1>6. ASSUME NEW d \in dumps, EnsureUser(d) \/ EndMatch(d) PROVE Undisturbed' BY <1>6, DumpUndisturbed
<1>7. ASSUME NEW d \in dumps, RecordPlayer(d) PROVE Undisturbed' BY <1>7, RecordUndisturbed
<1>8. ASSUME NEW u \in Users, PlayerJob(u) PROVE Undisturbed'
  <2>1. UNCHANGED <<games, usersGames, gameEvents, matchID, lastOver, resetting, dumps, announced>> /\ ~resetting
    BY <1>8 DEF PlayerJob, dbVars
  <2>2. InTime' BY <1>8, <2>1, SpawnEffect, SpawnKeeps DEF PlayerJob, Someone
  <2> QED BY <2>1, <2>2 DEF Undisturbed, OnMatch, Played, Past, OneDump, Agreed, Sides
<1>9. CASE Restart
  <2>1. /\ UNCHANGED <<games, usersGames, gameEvents, matchID, lastOver, announced>>
        /\ goroutines' = {} /\ dumps' = {} /\ ~resetting
    BY <1>9 DEF Restart, tables
  <2>2. \A m : Past(m) => Past(m)' BY <2>1 DEF Past
  <2> QED BY <2>1, <2>2 DEF Undisturbed, OnMatch, InTime, Played, OneDump, Agreed, Sides
<1>10. ASSUME NEW c \in OptCommands, EraseEvents(c), UNCHANGED recVars PROVE Undisturbed'
  <2>1. optCmd[c].user \in Someone BY DEF DbTypes, OptRecords
  <2>2. \A n \in gameEvents' : ~n.late
    BY <1>10, <2>1, EventsWithoutEffect DEF EraseEvents, DbTypes, Undisturbed, InTime
  <2> QED BY <1>10, <2>2, UndisturbedFrame DEF EraseEvents, recVars
<1>11. ASSUME \/ OtherReads \/ OtherWrites \/ UNCHANGED <<dbVars, recVars>>
              \/ /\ UNCHANGED recVars
                 /\ \/ \E c \in OptCommands : \/ \E u \in Users, opt \in {"in", "out"} : OptBegin(c, u, opt)
                                              \/ OptSet(c) \/ EraseRows(c) \/ OptFails(c)
                    \/ \E u \in Users : DeleteAllGamesForUser(u)
                    \/ DeleteAllGamesForServer
       PROVE  Undisturbed'
  <2>1. UNCHANGED <<matchID, lastOver, resetting, goroutines, dumps, announced>>
    <3>1. CASE OtherWrites
      <4>1. matchID' \in copy /\ UNCHANGED <<lastOver, resetting, goroutines, dumps, announced>>
            /\ (copy # {matchID} => disturbed')
        BY <3>1 DEF OtherWrites
      <4>2. copy = {matchID} BY <4>1
      <4> QED BY <4>1, <4>2
    <3> QED BY <1>11, <3>1 DEF OtherReads, recVars
  <2>2. usersGames' \subseteq usersGames /\ gameEvents' \subseteq gameEvents
    BY <1>11 DEF OtherReads, OtherWrites, dbVars, OptBegin, OptSet, EraseRows, OptFails, tables,
       DeleteAllGamesForUser, DeleteAllGamesForServer, RowsWithout
  <2>3. \A m \in GameIDs : games'[m] \in {games[m], "absent", Open}
    BY <1>11 DEF OtherReads, OtherWrites, dbVars, OptBegin, OptSet, EraseRows, OptFails, tables,
       DeleteAllGamesForUser, DeleteAllGamesForServer
  <2> QED BY <2>1, <2>2, <2>3, UndisturbedFrame DEF Undisturbed, InTime
<1> QED
  BY <1>2, <1>3, <1>4, <1>5, <1>6, <1>7, <1>8, <1>9, <1>10, <1>11 DEF RecNext, PrivacyStep, Privacy

-----------------------------------------------------------------------------
(* The theorems *)

LEMMA RecStarts == RecInit => RecInv
<1> SUFFICES ASSUME RecInit PROVE RecInv OBVIOUS
<1>1. DbTypes
  BY FS_EmptySet, DatabaseAssumption DEF RecInit, DbInit, DbTypes, NoCommand, OptRecords, Someone
<1>2. WorkTypes
  <2>1. lastGame = 0 /\ matchID = 0 /\ lastOver = 0 /\ 0 \in 0..lastGame BY DEF RecInit, DbInit, NoMatch
  <2>2. phase \in {"menu", "lobby", "tasks"} /\ jobs \in Nat /\ resetting \in BOOLEAN /\ disturbed \in BOOLEAN
    BY DEF RecInit
  <2>3. copy \subseteq 0..lastGame /\ goroutines \subseteq Goroutines /\ dumps \subseteq Dumps
    BY DEF RecInit
  <2>4. announced \in [GameIDs -> Summaries] BY DEF RecInit, Summaries, NoSummary
  <2> QED BY <2>1, <2>2, <2>3, <2>4 DEF WorkTypes
<1>3. Ensured /\ Unborn /\ OneRow /\ Erased
  BY DEF RecInit, DbInit, Ensured, Unborn, OneRow, Erased
<1>4. Undisturbed
  <2>1. \A m \in GameIDs : games[m] \notin Results
    BY DEF RecInit, DbInit, Results, Crewmate, Impostor
  <2> QED BY <2>1 DEF RecInit, DbInit, Undisturbed, OnMatch, InTime, Played, OneDump, Agreed, Sides
<1> QED BY <1>1, <1>2, <1>3, <1>4 DEF RecInv

LEMMA RecSteps == RecInv /\ [RecNext]_<<dbVars, recVars>> => RecInv'
BY TypesKept, TablesKept, UndisturbedKept DEF RecInv

LEMMA RecInvariant == RecSpec => []RecInv
BY RecStarts, RecSteps, PTL DEF RecSpec

\* The tables and the recording keep their types (postgres.go, gameState.go).
THEOREM RecTypeCorrect == RecSpec => []RecTypeOK
<1>1. RecInv => RecTypeOK
  <2> SUFFICES ASSUME RecInv PROVE RecTypeOK OBVIOUS
  <2>1. DbTypeOK
    <3>1. usersGames \subseteq Rows /\ gameEvents \subseteq Events BY DEF RecInv, DbTypes
    <3>2. \A e \in gameEvents : e.user \in Users \cup {Anonymous} /\ e.game \in GameIDs
      BY <3>1 DEF Events, Someone
    <3> QED BY <3>1, <3>2 DEF RecInv, DbTypes, DbTypeOK, Rows
  <2>2. matchID \in GameIDs \cup {NoMatch}
    <3>1. MaxGames \in Nat /\ lastGame \in 0..MaxGames /\ matchID \in 0..lastGame
      BY DatabaseAssumption DEF RecInv, DbTypes, WorkTypes
    <3> QED BY <3>1 DEF GameIDs, NoMatch
  <2>3. \A d \in dumps : d.match \in GameIDs /\ d.todo \subseteq DOMAIN d.data /\ DOMAIN d.data \subseteq Users
    BY DumpShape DEF RecInv, WorkTypes
  <2>4. \A e \in goroutines : e.match \in GameIDs \cup {Unread}
    BY DEF RecInv, WorkTypes, Goroutines
  <2> QED BY <2>1, <2>2, <2>3, <2>4 DEF RecInv, WorkTypes, RecTypeOK
<1> QED BY <1>1, RecInvariant, PTL

(* postgres.go:113-140: however the steps of opt-ins, opt-outs, dumps and  *)
(* events interleave, for any users and any number of commands: whoever    *)
(* has opted out by a command that ran to its end has nothing left that    *)
(* was recorded before.                                                    *)
THEOREM OptOutErases == RecSpec => []OptedOutErased
<1>1. RecInv => OptedOutErased
  BY DEF RecInv, Erased, OptedOutErased, OptingOut, Erasing, EventsErased, RowsErased
<1> QED BY <1>1, RecInvariant, PTL

(* eventHandler.go:220-242: no event is filed under a match that was       *)
(* over before its job, unless the record was disturbed.                   *)
THEOREM EventsBelong == RecSpec => []EventsInTime
<1>1. RecInv => EventsInTime BY DEF RecInv, Undisturbed, InTime, EventsInTime
<1> QED BY <1>1, RecInvariant, PTL

(* eventHandler.go:203-215: the result of a match that is over stays, for  *)
(* each match is dumped once, until its row is cleared or the record was   *)
(* disturbed.                                                              *)
THEOREM ResultsStand == RecSpec => ResultStands
<1>1. RecInv /\ [RecNext]_<<dbVars, recVars>> =>
        [\A m \in GameIDs : games[m] \in Results /\ ~disturbed =>
                              games'[m] \in {games[m], "absent"}]_<<games, disturbed>>
  <2> SUFFICES ASSUME RecInv, RecNext, NEW m \in GameIDs, games[m] \in Results, ~disturbed
               PROVE  games'[m] \in {games[m], "absent"}
    BY DEF dbVars, recVars
  <2>1. DbTypes /\ WorkTypes /\ Unborn /\ OneDump BY DEF RecInv, Undisturbed
  <2>2. games[m] \notin {"absent", Open} BY DEF Results, Open, Crewmate, Impostor
  <2>3. ASSUME NEW k \in StateJobs, NEW created \in BOOLEAN, StateJob(k, created)
        PROVE  games'[m] \in {games[m], "absent"}
    <3>1. CASE insertGame
      <4>1. m # lastGame + 1 BY <2>1, <2>2, DatabaseAssumption DEF Unborn, DbTypes, GameIDs
      <4> QED BY <2>1, <3>1, <4>1 DEF insertGame, DbTypes
    <3> QED BY <2>1, <2>3, <3>1, StateEffect
  <2>4. ASSUME NEW d \in dumps, EndMatch(d) PROVE games'[m] \in {games[m], "absent"}
    <3>1. m # d.match BY <2>1, <2>4 DEF OneDump, EndMatch
    <3> QED BY <2>4, <3>1 DEF EndMatch, updateGame
  <2>5. CASE \/ \E u \in Users : PlayerJob(u)
             \/ \E over \in GameOvers : GameOverJob(over)
             \/ ResetMatch \/ OtherReads \/ OtherWrites \/ Restart
             \/ \E e \in goroutines : ReadMatch(e) \/ FileEvent(e)
             \/ \E d \in dumps : EnsureUser(d) \/ RecordPlayer(d)
    BY <2>5 DEF PlayerJob, GameOverJob, ResetMatch, OtherReads, OtherWrites, Restart, ReadMatch, FileEvent,
       EnsureUser, RecordPlayer, dbVars, tables
  <2>6. CASE Privacy
    BY <2>6 DEF Privacy, OptBegin, OptSet, EraseEvents, EraseRows, OptFails, DeleteAllGamesForUser,
       DeleteAllGamesForServer, tables
  <2> QED BY <2>3, <2>4, <2>5, <2>6 DEF RecNext, PrivacyStep
<1> QED BY <1>1, RecInvariant, PTL DEF RecSpec, ResultStands

(* eventHandler.go:275-303, 539-574: whoever the summary of a match names  *)
(* as a winner has won it in the tables, and whoever has won there is      *)
(* named, or his player is not listed at the end and he counts as a        *)
(* crewmate.  For any lists, roles and spellings that the capture reports, *)
(* but for names that are taken for each other, and unless the record was  *)
(* disturbed.                                                              *)
THEOREM WinnersAreOne == RecSpec => []WinnersAgree
<1>1. RecInv => WinnersAgree BY DEF RecInv, Undisturbed, Agreed, WinnersAgree
<1> QED BY <1>1, RecInvariant, PTL

-----------------------------------------------------------------------------
(* Teammates *)

\* The matches that u and v played in one role, and of rows or won rows of u
\* there are as many.
Shared(u, v, role) == {r.game : r \in Together(u, v, role)}
SharedWon(u, v, role) == {r.game : r \in WonRows(Together(u, v, role))}

LEMMA GamesOfRows ==
  ASSUME DbTypes, OneRow, NEW u, NEW rows \in SUBSET RowsOf(u)
  PROVE  Cardinality({r.game : r \in rows}) = Cardinality(rows)
<1> DEFINE S == {r.game : r \in rows}
           f == [r \in rows |-> r.game]
<1>1. IsFiniteSet(rows) BY FS_Subset DEF DbTypes, RowsOf
<1>2. f \in [rows -> S] OBVIOUS
<1>3. \A r, s \in rows : f[r] = f[s] => r = s BY DEF OneRow, RowsOf
<1>4. \A g \in S : \E r \in rows : f[r] = g OBVIOUS
<1> HIDE DEF S, f
<1>5. ExistsBijection(rows, S)
  <2>1. f \in Injection(rows, S) BY <1>2, <1>3 DEF Injection, IsInjective
  <2>2. f \in Surjection(rows, S) BY <1>2, <1>4 DEF Surjection
  <2> QED BY <2>1, <2>2 DEF ExistsBijection, Bijection
<1>6. Cardinality(S) = Cardinality(rows) BY <1>1, <1>5, FS_Bijection
<1> QED BY <1>6 DEF S

LEMMA SameGames ==
  ASSUME DbTypes, Sides, NEW u \in Users, NEW v \in Users, NEW role
  PROVE  Shared(u, v, role) \subseteq Shared(v, u, role) /\ SharedWon(u, v, role) \subseteq SharedWon(v, u, role)
<1>1. ASSUME NEW r \in Together(u, v, role)
      PROVE  \E s \in Together(v, u, role) : s.game = r.game /\ (r.won => s.won)
  <2>1. r \in usersGames /\ r.user = u /\ r.role = role BY DEF Together, AsRole, RowsOf
  <2>2. PICK s \in usersGames : s.user = v /\ s.role = role /\ s.game = r.game
    BY DEF Together, AsRole, RowsOf
  <2>3. s \in Together(v, u, role) BY <2>1, <2>2 DEF Together, AsRole, RowsOf
  <2>4. r.won <=> s.won BY <2>1, <2>2 DEF Sides
  <2> QED BY <2>2, <2>3, <2>4
<1>2. Shared(u, v, role) \subseteq Shared(v, u, role) BY <1>1 DEF Shared
<1>3. SharedWon(u, v, role) \subseteq SharedWon(v, u, role) BY <1>1 DEF SharedWon, WonRows
<1> QED BY <1>2, <1>3

\* Two players of one role have as many matches, and as many wins, together
\* whoever of them is asked for.
LEMMA SameCounts ==
  ASSUME DbTypes, OneRow, Sides, NEW u \in Users, NEW v \in Users, NEW role
  PROVE  /\ Cardinality(Together(u, v, role)) = Cardinality(Together(v, u, role))
         /\ Cardinality(WonRows(Together(u, v, role))) = Cardinality(WonRows(Together(v, u, role)))
<1>1. Shared(u, v, role) = Shared(v, u, role) /\ SharedWon(u, v, role) = SharedWon(v, u, role)
  <2>1. Shared(u, v, role) \subseteq Shared(v, u, role) /\ SharedWon(u, v, role) \subseteq SharedWon(v, u, role)
    BY SameGames
  <2>2. Shared(v, u, role) \subseteq Shared(u, v, role) /\ SharedWon(v, u, role) \subseteq SharedWon(u, v, role)
    BY SameGames
  <2> QED BY <2>1, <2>2
<1>2. ASSUME NEW x \in Users, NEW y \in Users
      PROVE  /\ Cardinality(Shared(x, y, role)) = Cardinality(Together(x, y, role))
             /\ Cardinality(SharedWon(x, y, role)) = Cardinality(WonRows(Together(x, y, role)))
  <2>1. Together(x, y, role) \in SUBSET RowsOf(x) BY DEF Together, AsRole
  <2>2. WonRows(Together(x, y, role)) \in SUBSET RowsOf(x) BY <2>1 DEF WonRows
  <2>3. Cardinality({r.game : r \in Together(x, y, role)}) = Cardinality(Together(x, y, role))
    BY <2>1, GamesOfRows
  <2>4. Cardinality({r.game : r \in WonRows(Together(x, y, role))}) = Cardinality(WonRows(Together(x, y, role)))
    BY <2>2, GamesOfRows
  <2> QED BY <2>3, <2>4 DEF Shared, SharedWon
<1> QED BY <1>1, <1>2

(* stats.go:505-548: a pair of teammates has one row on the leaderboard of *)
(* a role, unless the record was disturbed: the query joins it from both   *)
(* sides, and DISTINCT leaves one since both have the same counts.         *)
THEOREM PairsAreOne == RecSpec => []OneRowPerPair
<1>1. RecInv => OneRowPerPair
  <2> SUFFICES ASSUME RecInv, ~disturbed, NEW role \in Roles,
                      NEW s \in TeammatesForServerByRole(role, LeaderboardMin),
                      NEW t \in TeammatesForServerByRole(role, LeaderboardMin), s.pair = t.pair
               PROVE  s = t
    BY DEF OneRowPerPair
  <2>1. DbTypes /\ OneRow /\ Sides BY DEF RecInv, Undisturbed
  <2>2. ASSUME NEW x \in TeammatesForServerByRole(role, LeaderboardMin)
        PROVE  \E u, v \in Users :
                 x = [pair |-> {u, v}, win |-> Cardinality(WonRows(Together(u, v, role))),
                      total |-> Cardinality(Together(u, v, role))]
    <3>1. PICK u \in Users : x \in {[pair |-> {y.user, y.mate}, win |-> y.win, total |-> y.total] :
                                      y \in TeammatesByRole(u, role, LeaderboardMin)}
      BY DEF TeammatesForServerByRole
    <3>2. PICK y \in TeammatesByRole(u, role, LeaderboardMin) :
            x = [pair |-> {y.user, y.mate}, win |-> y.win, total |-> y.total]
      BY <3>1
    <3>3. PICK v \in Users :
            y = [user |-> u, mate |-> v, win |-> Cardinality(WonRows(Together(u, v, role))),
                 total |-> Cardinality(Together(u, v, role))]
      BY DEF TeammatesByRole
    <3> QED BY <3>2, <3>3
  <2>3. PICK u, v \in Users :
          s = [pair |-> {u, v}, win |-> Cardinality(WonRows(Together(u, v, role))),
               total |-> Cardinality(Together(u, v, role))]
    BY <2>2
  <2>4. PICK a, b \in Users :
          t = [pair |-> {a, b}, win |-> Cardinality(WonRows(Together(a, b, role))),
               total |-> Cardinality(Together(a, b, role))]
    BY <2>2
  <2>5. (a = u /\ b = v) \/ (a = v /\ b = u) BY <2>3, <2>4
  <2>6. CASE a = u /\ b = v BY <2>3, <2>4, <2>6
  <2>7. CASE a = v /\ b = u BY <2>1, <2>3, <2>4, <2>7, SameCounts
  <2> QED BY <2>5, <2>6, <2>7
<1> QED BY <1>1, RecInvariant, PTL
-----------------------------------------------------------------------------
(* What one /stats shows *)

StatSpec == RecInit /\ StatInit /\ [][StatNext]_<<dbVars, recVars, statVars>>

Queries == {"games", "wins", "crewGames", "crewWins", "impGames", "impWins",
            "played", "crewWon", "impWon", "mostGames", "ranking", "crewRanking", "impRanking"}

\* Which queries are asked before which.
Before == {<<"games", "crewGames">>, <<"games", "impGames">>, <<"wins", "crewWins">>,
           <<"crewGames", "crewWins">>, <<"impGames", "impWins">>,
           <<"played", "crewWon">>, <<"played", "impWon">>}

\* One of the first n queries still to be asked is p.
AskedAmong(p, n) == \E i \in 1..n : view.asked[i] = p

ViewTypes ==
  /\ view = [of |-> view.of, asked |-> view.asked, got |-> view.got]
  /\ view.asked \in Seq(Queries)
  /\ DOMAIN view.got \subseteq Queries

\* A query that has been asked, or comes next, follows those that go before it.
InOrder ==
  \A b \in Before :
    /\ b[2] \in DOMAIN view.got => b[1] \in DOMAIN view.got
    /\ \A j \in 1..Len(view.asked) :
         view.asked[j] = b[2] => b[1] \in DOMAIN view.got \/ AskedAmong(b[1], j - 1)

\* What has been answered is what the query would answer still.
UpToDate ==
  ~viewDirty => \A q \in DOMAIN view.got : view.got[q] = Answer(q, view.of)

ViewInv == ViewTypes /\ InOrder /\ UpToDate
LEMMA RecMeanwhile ==
  ASSUME [StatNext]_<<dbVars, recVars, statVars>>
  PROVE  [RecNext]_<<dbVars, recVars>>
BY DEF StatNext, StatsBegin, AskNext, StatsShown, RecordMeanwhile

\* A query answers the same as long as the rows and the results are the same.
LEMMA SameAnswers ==
  ASSUME usersGames' = usersGames, games' = games, NEW q, NEW u
  PROVE  Answer(q, u)' = Answer(q, u)
BY DEF Answer, NumGamesPlayedByUserOnServer, NumWinsOnServer, NumGamesAsRoleOnServer,
       NumWinsAsRoleOnServer, NumGamesPlayedOnGuild, NumGamesWonAsRoleOnServer,
       TotalGamesRankingForServer, TotalWinRankingForServer, TotalWinRankingForServerByRole,
       RowsOf, WonRows, AsRole, Ranking

\* Queries of the same length that agree in each place are the same.
LEMMA SameQueries ==
  ASSUME NEW s \in Seq(Queries), NEW t \in Seq(Queries), NEW n,
         Len(s) = n, Len(t) = n, \A i \in 1..n : s[i] = t[i]
  PROVE  s = t
BY SeqEqual

\* Without premium the first queries only.
LEMMA FirstQueries ==
  /\ SubSeq(UserQueries, 1, 2) = <<"games", "wins">>
  /\ SubSeq(GuildQueries, 1, 3) = <<"played", "crewWon", "impWon">>
<1>1. SubSeq(UserQueries, 1, 2) = <<"games", "wins">>
  <2>1. PICK t : t = <<"games", "wins">> OBVIOUS
  <2>2. t \in Seq(Queries) /\ Len(t) = 2 BY <2>1 DEF Queries
  <2>3. \A i \in 1..2 : UserQueries[i] \in Queries /\ UserQueries[i] = t[i] BY <2>1 DEF UserQueries, Queries
  <2>4. PICK s : s = SubSeq(UserQueries, 1, 2) OBVIOUS
  <2>5. s \in Seq(Queries) /\ Len(s) = 2 /\ \A i \in 1..2 : s[i] = UserQueries[i]
    BY <2>3, <2>4, SubSeqProperties
  <2>6. \A i \in 1..2 : s[i] = t[i] BY <2>3, <2>5
  <2>7. s = t BY <2>2, <2>5, <2>6, SameQueries
  <2> QED BY <2>1, <2>4, <2>7
<1>2. SubSeq(GuildQueries, 1, 3) = <<"played", "crewWon", "impWon">>
  <2>1. PICK t : t = <<"played", "crewWon", "impWon">> OBVIOUS
  <2>2. t \in Seq(Queries) /\ Len(t) = 3 BY <2>1 DEF Queries
  <2>3. \A i \in 1..3 : GuildQueries[i] \in Queries /\ GuildQueries[i] = t[i] BY <2>1 DEF GuildQueries, Queries
  <2>4. PICK s : s = SubSeq(GuildQueries, 1, 3) OBVIOUS
  <2>5. s \in Seq(Queries) /\ Len(s) = 3 /\ \A i \in 1..3 : s[i] = GuildQueries[i]
    BY <2>3, <2>4, SubSeqProperties
  <2>6. \A i \in 1..3 : s[i] = t[i] BY <2>3, <2>5
  <2>7. s = t BY <2>2, <2>5, <2>6, SameQueries
  <2> QED BY <2>1, <2>4, <2>7
<1> QED BY <1>1, <1>2

\* The sequences of queries that a command begins with.
LEMMA BeginEffect ==
  ASSUME NEW who, NEW prem \in BOOLEAN, StatsBegin(who, prem)
  PROVE  /\ view = NoView /\ view' = [of |-> who, asked |-> view'.asked, got |-> NoView.got]
         /\ view'.asked \in {UserQueries, <<"games", "wins">>, GuildQueries, <<"played", "crewWon", "impWon">>}
<1>1. SubSeq(UserQueries, 1, 2) = <<"games", "wins">> BY FirstQueries
<1>2. SubSeq(GuildQueries, 1, 3) = <<"played", "crewWon", "impWon">> BY FirstQueries
<1>3. PICK asked : asked = IF who \in Users THEN (IF prem THEN UserQueries ELSE SubSeq(UserQueries, 1, 2))
                                           ELSE (IF prem THEN GuildQueries ELSE SubSeq(GuildQueries, 1, 3))
  OBVIOUS
<1>4. view' = [NoView EXCEPT !.of = who, !.asked = asked] BY <1>3 DEF StatsBegin
<1>5. view' = [of |-> who, asked |-> asked, got |-> NoView.got] BY <1>4 DEF NoView
<1> QED BY <1>1, <1>2, <1>3, <1>5 DEF StatsBegin

LEMMA BeginKeeps ==
  ASSUME NEW who, NEW prem \in BOOLEAN, StatsBegin(who, prem)
  PROVE  ViewInv'
<1>1. PICK s : s = view'.asked OBVIOUS
<1>2. view' = [of |-> who, asked |-> s, got |-> NoView.got] BY <1>1, BeginEffect
<1>3. s \in {UserQueries, <<"games", "wins">>, GuildQueries, <<"played", "crewWon", "impWon">>}
  BY <1>1, BeginEffect
<1>4. view'.asked = s /\ view'.of = who /\ DOMAIN view'.got = {} BY <1>2 DEF NoView
<1>5. s \in Seq(Queries)
  <2>1. UserQueries \in Seq(Queries) BY DEF UserQueries, Queries
  <2>2. GuildQueries \in Seq(Queries) BY DEF GuildQueries, Queries
  <2>3. <<"games", "wins">> \in Seq(Queries) BY DEF Queries
  <2>4. <<"played", "crewWon", "impWon">> \in Seq(Queries) BY DEF Queries
  <2> QED BY <1>3, <2>1, <2>2, <2>3, <2>4
<1>6. \A b \in Before, j \in 1..Len(s) : s[j] = b[2] => \E i \in 1..(j - 1) : s[i] = b[1]
  <2>1. CASE s = UserQueries BY <2>1 DEF UserQueries, Before
  <2>2. CASE s = <<"games", "wins">> BY <2>2 DEF Before
  <2>3. CASE s = GuildQueries BY <2>3 DEF GuildQueries, Before
  <2>4. CASE s = <<"played", "crewWon", "impWon">> BY <2>4 DEF Before
  <2> QED BY <1>3, <2>1, <2>2, <2>3, <2>4
<1>7. ViewTypes' BY <1>2, <1>4, <1>5 DEF ViewTypes
<1>8. InOrder' BY <1>4, <1>6 DEF InOrder, AskedAmong
<1>9. UpToDate' BY <1>4 DEF UpToDate
<1> QED BY <1>7, <1>8, <1>9 DEF ViewInv

\* What AskNext does to the view.
LEMMA AskEffect ==
  ASSUME ViewTypes, AskNext
  PROVE  \E q \in Queries :
           /\ view.asked # <<>> /\ q = Head(view.asked)
           /\ view' = [of |-> view.of, asked |-> Tail(view.asked), got |-> view'.got]
           /\ DOMAIN view'.got = DOMAIN view.got \cup {q}
           /\ view'.got[q] = IF Skipped(q) THEN 0 ELSE Answer(q, view.of)
           /\ \A k \in DOMAIN view.got : k # q => view'.got[k] = view.got[k]
<1>1. PICK q : q = Head(view.asked) OBVIOUS
<1>2. PICK got : got = [k \in DOMAIN view.got \cup {q} |->
                          IF k # q THEN view.got[k] ELSE IF Skipped(q) THEN 0 ELSE Answer(q, view.of)]
  OBVIOUS
<1>3. view' = [view EXCEPT !.asked = Tail(view.asked), !.got = got] BY <1>1, <1>2 DEF AskNext
<1>4. view' = [of |-> view.of, asked |-> Tail(view.asked), got |-> got]
  BY <1>3 DEF ViewTypes
<1>5. view.asked # <<>> /\ view.asked \in Seq(Queries) BY DEF AskNext, ViewTypes
<1>6. q \in Queries BY <1>1, <1>5, HeadTailProperties
<1> QED BY <1>1, <1>2, <1>4, <1>5, <1>6
LEMMA FinishedFinite ==
  /\ IsFiniteSet(GameIDs)
  /\ IsFiniteSet({m \in GameIDs : games[m] \in Results})
<1>1. IsFiniteSet(GameIDs) BY FS_Interval, DatabaseAssumption DEF GameIDs
<1> QED BY <1>1, FS_Subset

\* Who skips a query knows that its answer is 0.
LEMMA SkippedAreNone ==
  ASSUME DbTypes, UpToDate, ~viewDirty, NEW q, Skipped(q),
         \A b \in Before : q = b[2] => b[1] \in DOMAIN view.got
  PROVE  Answer(q, view.of) = 0
<1> DEFINE u == view.of
<1>1. IsFiniteSet(RowsOf(u)) /\ \A role : IsFiniteSet(AsRole(RowsOf(u), role))
  BY FS_Subset DEF DbTypes, RowsOf, AsRole
<1>2. ASSUME NEW role, Cardinality(AsRole(RowsOf(u), role)) = 0
      PROVE  Cardinality(AsRole(WonRows(RowsOf(u)), role)) = 0
  <2>1. AsRole(RowsOf(u), role) = {} BY <1>1, <1>2, FS_EmptySet
  <2>2. AsRole(WonRows(RowsOf(u)), role) = {} BY <2>1 DEF AsRole, WonRows
  <2> QED BY <2>2, FS_EmptySet
<1>3. CASE q = "crewWins" /\ view.got["crewGames"] = 0
  <2>1. <<"crewGames", "crewWins">> \in Before BY DEF Before
  <2>2. view.got["crewGames"] = Answer("crewGames", u) BY <1>3, <2>1 DEF UpToDate
  <2>3. Cardinality(AsRole(RowsOf(u), Crewmate)) = 0
    BY <1>3, <2>2 DEF Answer, NumGamesAsRoleOnServer
  <2>4. Answer(q, u) = Cardinality(AsRole(WonRows(RowsOf(u)), Crewmate))
    BY <1>3 DEF Answer, NumWinsAsRoleOnServer
  <2> QED BY <1>2, <2>3, <2>4
<1>4. CASE q = "impWins" /\ view.got["impGames"] = 0
  <2>1. <<"impGames", "impWins">> \in Before BY DEF Before
  <2>2. view.got["impGames"] = Answer("impGames", u) BY <1>4, <2>1 DEF UpToDate
  <2>3. Cardinality(AsRole(RowsOf(u), Impostor)) = 0
    BY <1>4, <2>2 DEF Answer, NumGamesAsRoleOnServer
  <2>4. Answer(q, u) = Cardinality(AsRole(WonRows(RowsOf(u)), Impostor))
    BY <1>4 DEF Answer, NumWinsAsRoleOnServer
  <2> QED BY <1>2, <2>3, <2>4
<1>5. CASE q \in {"crewWon", "impWon"} /\ view.got["played"] = 0
  <2>1. <<"played", "crewWon">> \in Before /\ <<"played", "impWon">> \in Before BY DEF Before
  <2>2. view.got["played"] = Answer("played", u) BY <1>5, <2>1 DEF UpToDate
  <2>3. Cardinality({m \in GameIDs : games[m] \in Results}) = 0
    BY <1>5, <2>2 DEF Answer, NumGamesPlayedOnGuild
  <2>4. {m \in GameIDs : games[m] \in Results} = {} BY <2>3, FinishedFinite, FS_EmptySet
  <2>5. \A role \in Roles : {m \in GameIDs : games[m] = role} = {} BY <2>4 DEF Roles, Results
  <2>6. \A role \in Roles : NumGamesWonAsRoleOnServer(role) = 0
    BY <2>5, FS_EmptySet DEF NumGamesWonAsRoleOnServer
  <2>7. NumGamesWonAsRoleOnServer(Crewmate) = 0 /\ NumGamesWonAsRoleOnServer(Impostor) = 0
    BY <2>6 DEF Roles
  <2>8. CASE q = "crewWon" BY <2>7, <2>8 DEF Answer
  <2>9. CASE q = "impWon" BY <2>7, <2>9 DEF Answer
  <2> QED BY <1>5, <2>8, <2>9
<1> QED BY <1>3, <1>4, <1>5 DEF Skipped

LEMMA AskKeeps ==
  ASSUME DbTypes, ViewInv, AskNext
  PROVE  ViewInv'
<1>0. ViewTypes /\ InOrder /\ UpToDate BY DEF ViewInv
<1>1. PICK q \in Queries :
        /\ view.asked # <<>> /\ q = Head(view.asked)
        /\ view' = [of |-> view.of, asked |-> Tail(view.asked), got |-> view'.got]
        /\ DOMAIN view'.got = DOMAIN view.got \cup {q}
        /\ view'.got[q] = IF Skipped(q) THEN 0 ELSE Answer(q, view.of)
        /\ \A k \in DOMAIN view.got : k # q => view'.got[k] = view.got[k]
  BY <1>0, AskEffect
<1>2. PICK s, t, got : s = view.asked /\ t = Tail(s) /\ got = view'.got OBVIOUS
<1>3. view' = [of |-> view.of, asked |-> t, got |-> got] BY <1>1, <1>2
<1>4. view'.of = view.of /\ view'.asked = t /\ view'.got = got BY <1>3
<1>5. s \in Seq(Queries) /\ s # <<>> BY <1>0, <1>1, <1>2 DEF ViewTypes
<1>6. t \in Seq(Queries) /\ Len(t) = Len(s) - 1 /\ \A i \in 1..Len(t) : t[i] = s[i + 1]
  BY <1>2, <1>5, HeadTailProperties
<1>7. q = s[1] /\ Len(s) \in Nat /\ Len(s) > 0 BY <1>1, <1>2, <1>5
<1>8. ViewTypes' BY <1>0, <1>1, <1>2, <1>3, <1>4, <1>6 DEF ViewTypes
<1>9. ASSUME NEW b \in Before, q = b[2] PROVE b[1] \in DOMAIN view.got
  <2>1. s[1] = b[2] /\ 1 \in 1..Len(s) BY <1>7, <1>9
  <2>2. b[1] \in DOMAIN view.got \/ AskedAmong(b[1], 1 - 1) BY <1>0, <1>2, <2>1 DEF InOrder
  <2> QED BY <2>2 DEF AskedAmong
<1>10. InOrder'
  <2> SUFFICES ASSUME NEW b \in Before
               PROVE  /\ b[2] \in DOMAIN got => b[1] \in DOMAIN got
                      /\ \A j \in 1..Len(t) :
                           t[j] = b[2] => b[1] \in DOMAIN got \/ \E i \in 1..(j - 1) : t[i] = b[1]
    BY <1>4 DEF InOrder, AskedAmong
  <2>1. b[2] \in DOMAIN got => b[1] \in DOMAIN got
    BY <1>0, <1>1, <1>2, <1>9 DEF InOrder
  <2>2. ASSUME NEW j \in 1..Len(t), t[j] = b[2], b[1] \notin DOMAIN got
        PROVE  \E i \in 1..(j - 1) : t[i] = b[1]
    <3>1. s[j + 1] = b[2] /\ j + 1 \in 1..Len(s) BY <1>6, <1>7, <2>2
    <3>2. b[1] \notin DOMAIN view.got /\ b[1] # s[1] BY <1>1, <1>2, <1>7, <2>2
    <3>3. AskedAmong(b[1], (j + 1) - 1) BY <1>0, <1>2, <3>1, <3>2 DEF InOrder
    <3>4. PICK i \in 1..j : s[i] = b[1] BY <1>2, <3>3 DEF AskedAmong
    <3>5. i # 1 BY <3>2, <3>4
    <3>6. i - 1 \in 1..(j - 1) /\ i - 1 \in 1..Len(t) /\ (i - 1) + 1 = i BY <3>5, <1>6, <1>7
    <3>7. t[i - 1] = b[1] BY <1>6, <3>4, <3>6
    <3> QED BY <3>6, <3>7
  <2> QED BY <2>1, <2>2
<1>11. UpToDate'
  <2> SUFFICES ASSUME ~viewDirty, NEW k \in DOMAIN got PROVE got[k] = Answer(k, view.of)'
    BY <1>4 DEF UpToDate, AskNext
  <2>1. usersGames' = usersGames /\ games' = games BY DEF AskNext, dbVars
  <2>2. PICK u : u = view.of OBVIOUS
  <2>3. Answer(k, u)' = Answer(k, u) BY <2>1, SameAnswers
  <2>4. view'.of = u BY <1>4, <2>2
  <2>5. got[k] = Answer(k, u)
    <3>1. CASE k # q BY <1>0, <1>1, <1>2, <2>2, <3>1 DEF UpToDate
    <3>2. CASE k = q /\ ~Skipped(q) BY <1>1, <1>2, <2>2, <3>2
    <3>3. CASE k = q /\ Skipped(q)
      <4>1. Answer(q, view.of) = 0 BY <1>0, <1>9, <3>3, SkippedAreNone
      <4> QED BY <1>1, <1>2, <2>2, <3>3, <4>1
    <3> QED BY <3>1, <3>2, <3>3
  <2> QED BY <2>2, <2>3, <2>4, <2>5
<1> QED BY <1>8, <1>10, <1>11 DEF ViewInv

LEMMA ViewSteps ==
  ASSUME DbTypes, ViewInv, [StatNext]_<<dbVars, recVars, statVars>>
  PROVE  ViewInv'
<1>1. ASSUME NEW who \in Users \cup {"guild"}, NEW prem \in BOOLEAN, StatsBegin(who, prem)
      PROVE  ViewInv'
  BY <1>1, BeginKeeps
<1>2. CASE AskNext BY <1>2, AskKeeps
<1>3. CASE StatsShown
  <2>1. view' = NoView BY <1>3 DEF StatsShown
  <2>2. ViewTypes' BY <2>1 DEF ViewTypes, NoView
  <2>3. InOrder' BY <2>1 DEF InOrder, NoView
  <2>4. UpToDate' BY <2>1 DEF UpToDate, NoView
  <2> QED BY <2>2, <2>3, <2>4 DEF ViewInv
<1>4. ASSUME view' = view,
             viewDirty' \/ view = NoView \/ (~viewDirty /\ usersGames' = usersGames /\ games' = games)
      PROVE  ViewInv'
  <2>1. ViewTypes' /\ InOrder' BY <1>4 DEF ViewInv, ViewTypes, InOrder, AskedAmong
  <2>2. UpToDate'
    <3> SUFFICES ASSUME ~viewDirty', NEW q \in DOMAIN view.got
                 PROVE  view.got[q] = Answer(q, view.of)'
      BY <1>4 DEF UpToDate
    <3>1. view # NoView BY DEF NoView
    <3>2. ~viewDirty /\ usersGames' = usersGames /\ games' = games BY <1>4, <3>1
    <3>3. PICK u : u = view.of OBVIOUS
    <3>4. Answer(q, u)' = Answer(q, u) BY <3>2, SameAnswers
    <3>5. view.got[q] = Answer(q, u) BY <3>2, <3>3 DEF ViewInv, UpToDate
    <3> QED BY <1>4, <3>3, <3>4, <3>5
  <2> QED BY <2>1, <2>2 DEF ViewInv
<1>5. CASE RecordMeanwhile BY <1>5, <1>4 DEF RecordMeanwhile
<1>6. CASE UNCHANGED <<dbVars, recVars, statVars>>
  BY <1>6, <1>4 DEF dbVars, statVars
<1> QED BY <1>1, <1>2, <1>3, <1>5, <1>6 DEF StatNext
-----------------------------------------------------------------------------
(* The sums *)

\* Of finitely many rows, those of the two roles are all.
LEMMA RolesSplit ==
  ASSUME NEW rows \in SUBSET Rows, IsFiniteSet(rows)
  PROVE  /\ Cardinality(rows) \in Nat
         /\ \A role \in Roles : Cardinality(AsRole(rows, role)) \in Nat
         /\ Cardinality(AsRole(rows, Crewmate)) + Cardinality(AsRole(rows, Impostor)) = Cardinality(rows)
<1>1. PICK C, I : C = AsRole(rows, Crewmate) /\ I = AsRole(rows, Impostor) OBVIOUS
<1>2. C \cup I = rows BY <1>1 DEF AsRole, Rows, Roles
<1>3. C \cap I = {} BY <1>1 DEF AsRole, Crewmate, Impostor
<1>4. IsFiniteSet(C) /\ IsFiniteSet(I) BY <1>2, FS_Subset
<1>5. Cardinality(C \cup I) = Cardinality(C) + Cardinality(I) - Cardinality(C \cap I)
  BY <1>4, FS_Union
<1>6. Cardinality(C \cap I) = 0 BY <1>3, FS_EmptySet
<1>7. Cardinality(C) \in Nat /\ Cardinality(I) \in Nat /\ Cardinality(rows) \in Nat
  BY <1>4, FS_CardinalityType
<1>8. Cardinality(C \cup I) = Cardinality(rows) BY <1>2
<1>9. Cardinality(rows) = Cardinality(C) + Cardinality(I) BY <1>5, <1>6, <1>7, <1>8
<1> QED BY <1>1, <1>7, <1>9 DEF Roles

LEMMA WinsAreGames ==
  ASSUME NEW rows, IsFiniteSet(rows)
  PROVE  IsFiniteSet(WonRows(rows)) /\ Cardinality(WonRows(rows)) <= Cardinality(rows)
BY FS_Subset DEF WonRows

\* The matches that either role has won are among those that are over.
LEMMA MatchesSplit ==
  NumGamesWonAsRoleOnServer(Crewmate) + NumGamesWonAsRoleOnServer(Impostor) <= NumGamesPlayedOnGuild
<1>1. PICK C, I, P : /\ C = {m \in GameIDs : games[m] = Crewmate}
                     /\ I = {m \in GameIDs : games[m] = Impostor}
                     /\ P = {m \in GameIDs : games[m] \in Results}
  OBVIOUS
<1>2. C \cup I \subseteq P /\ C \cap I = {} BY <1>1 DEF Results, Crewmate, Impostor
<1>3. IsFiniteSet(P) BY <1>1, FinishedFinite
<1>4. IsFiniteSet(C) /\ IsFiniteSet(I) BY <1>2, <1>3, FS_Subset
<1>5. Cardinality(C \cup I) = Cardinality(C) + Cardinality(I) - Cardinality(C \cap I)
  BY <1>4, FS_Union
<1>6. Cardinality(C \cap I) = 0 BY <1>2, FS_EmptySet
<1>7. Cardinality(C) \in Nat /\ Cardinality(I) \in Nat /\ Cardinality(P) \in Nat
  BY <1>3, <1>4, FS_CardinalityType
<1>8. Cardinality(C \cup I) <= Cardinality(P) BY <1>2, <1>3, FS_Subset
<1>9. Cardinality(C) + Cardinality(I) <= Cardinality(P) BY <1>5, <1>6, <1>7, <1>8
<1> QED BY <1>1, <1>9 DEF NumGamesWonAsRoleOnServer, NumGamesPlayedOnGuild

RowsBy(rows, u) == {r \in rows : r.user = u}

\* What a ranking says of a user: how many rows it has, how many of them are won.
Standing(rows, u) ==
  [user |-> u, win |-> Cardinality(RowsBy(WonRows(rows), u)), total |-> Cardinality(RowsBy(rows, u))]

LEMMA RankingIs ==
  ASSUME NEW rows
  PROVE  Ranking(rows) = {Standing(rows, u) : u \in {r.user : r \in rows}}
BY DEF Ranking, Standing, RowsBy

LEMMA WinsOfRanking ==
  ASSUME NEW q, NEW rows, view.got[q] = Ranking(rows), NEW u
  PROVE  Wins(q, u) = <<Cardinality(RowsBy(WonRows(rows), u)), Cardinality(RowsBy(rows, u))>>
<1>1. PICK found : found = {r \in Ranking(rows) : r.user = u} OBVIOUS
<1>2. Wins(q, u) = IF found = {} THEN <<0, 0>>
                   ELSE LET r == CHOOSE r \in found : TRUE IN <<r.win, r.total>>
  BY <1>1 DEF Wins
<1>3. \A v : Standing(rows, v).user = v BY DEF Standing
<1>4. CASE u \in {r.user : r \in rows}
  <2>1. found = {Standing(rows, u)} BY <1>1, <1>3, <1>4, RankingIs
  <2>2. (CHOOSE r \in found : TRUE) = Standing(rows, u) BY <2>1
  <2>3. Wins(q, u) = <<Standing(rows, u).win, Standing(rows, u).total>> BY <1>2, <2>1, <2>2
  <2> QED BY <2>3 DEF Standing
<1>5. CASE u \notin {r.user : r \in rows}
  <2>1. found = {} BY <1>1, <1>3, <1>5, RankingIs
  <2>2. RowsBy(rows, u) = {} /\ RowsBy(WonRows(rows), u) = {} BY <1>5 DEF RowsBy, WonRows
  <2>3. Wins(q, u) = <<0, 0>> BY <1>2, <2>1
  <2> QED BY <2>2, <2>3, FS_EmptySet
<1> QED BY <1>4, <1>5

LEMMA RankingsAddUp ==
  ASSUME DbTypes, NEW u,
         view.got["ranking"] = TotalWinRankingForServer,
         view.got["crewRanking"] = TotalWinRankingForServerByRole(Crewmate),
         view.got["impRanking"] = TotalWinRankingForServerByRole(Impostor)
  PROVE  Wins("ranking", u) = Plus(Wins("crewRanking", u), Wins("impRanking", u))
<1>1. PICK R, W : R = RowsBy(usersGames, u) /\ W = RowsBy(WonRows(usersGames), u) OBVIOUS
<1>2. R \in SUBSET Rows /\ W \in SUBSET Rows /\ IsFiniteSet(R) /\ IsFiniteSet(W)
  BY <1>1, FS_Subset DEF DbTypes, RowsBy, WonRows
<1>3. /\ Cardinality(AsRole(R, Crewmate)) + Cardinality(AsRole(R, Impostor)) = Cardinality(R)
      /\ Cardinality(AsRole(W, Crewmate)) + Cardinality(AsRole(W, Impostor)) = Cardinality(W)
  BY <1>2, RolesSplit
<1>4. \A role : /\ RowsBy(AsRole(usersGames, role), u) = AsRole(R, role)
                /\ RowsBy(WonRows(AsRole(usersGames, role)), u) = AsRole(W, role)
  BY <1>1 DEF RowsBy, AsRole, WonRows
<1>5. Wins("ranking", u) = <<Cardinality(W), Cardinality(R)>>
  BY <1>1, WinsOfRanking DEF TotalWinRankingForServer
<1>6. Wins("crewRanking", u) = <<Cardinality(AsRole(W, Crewmate)), Cardinality(AsRole(R, Crewmate))>>
  BY <1>4, WinsOfRanking DEF TotalWinRankingForServerByRole
<1>7. Wins("impRanking", u) = <<Cardinality(AsRole(W, Impostor)), Cardinality(AsRole(R, Impostor))>>
  BY <1>4, WinsOfRanking DEF TotalWinRankingForServerByRole
<1> QED BY <1>3, <1>5, <1>6, <1>7 DEF Plus

(* stats.go: what one /stats shows adds up, unless a match was recorded or *)
(* cleared between two of its queries: wins are among games, the two roles *)
(* make the total, and the leaderboards agree.                             *)
THEOREM StatsAddUp == StatSpec => []ShownStatsAddUp
<1>1. DbTypes /\ ViewInv => ShownStatsAddUp
  <2> SUFFICES ASSUME DbTypes, ViewInv, ~viewDirty PROVE ShownStatsAddUp
    BY DEF ShownStatsAddUp
  <2>1. \A q \in DOMAIN view.got : view.got[q] = Answer(q, view.of) BY DEF ViewInv, UpToDate
  <2>2. \A b \in Before : b[2] \in DOMAIN view.got => b[1] \in DOMAIN view.got
    BY DEF ViewInv, InOrder
  <2>3. PICK u : u = view.of OBVIOUS
  <2>4. RowsOf(u) \in SUBSET Rows /\ IsFiniteSet(RowsOf(u)) BY FS_Subset DEF DbTypes, RowsOf
  <2>5. WonRows(RowsOf(u)) \in SUBSET Rows /\ IsFiniteSet(WonRows(RowsOf(u)))
    BY <2>4, WinsAreGames DEF WonRows
  <2>6. Has({"games", "wins"}) => view.got["wins"] <= view.got["games"]
    <3> SUFFICES ASSUME Has({"games", "wins"}) PROVE view.got["wins"] <= view.got["games"]
      OBVIOUS
    <3>1. view.got["wins"] = Answer("wins", u) /\ view.got["games"] = Answer("games", u)
      BY <2>1, <2>3 DEF Has
    <3>2. Answer("wins", u) = Cardinality(WonRows(RowsOf(u))) BY DEF Answer, NumWinsOnServer
    <3>3. Answer("games", u) = Cardinality(RowsOf(u)) BY DEF Answer, NumGamesPlayedByUserOnServer
    <3> QED BY <2>4, <3>1, <3>2, <3>3, WinsAreGames
  <2>7. Has({"crewGames", "impGames"}) =>
          view.got["crewGames"] + view.got["impGames"] = view.got["games"]
    <3> SUFFICES ASSUME Has({"crewGames", "impGames"})
                 PROVE  view.got["crewGames"] + view.got["impGames"] = view.got["games"]
      OBVIOUS
    <3>1. <<"games", "crewGames">> \in Before BY DEF Before
    <3>2. /\ view.got["games"] = Answer("games", u)
          /\ view.got["crewGames"] = Answer("crewGames", u) /\ view.got["impGames"] = Answer("impGames", u)
      BY <2>1, <2>2, <2>3, <3>1 DEF Has
    <3>3. Answer("crewGames", u) = Cardinality(AsRole(RowsOf(u), Crewmate))
      BY DEF Answer, NumGamesAsRoleOnServer
    <3>4. Answer("impGames", u) = Cardinality(AsRole(RowsOf(u), Impostor))
      BY DEF Answer, NumGamesAsRoleOnServer
    <3>5. Answer("games", u) = Cardinality(RowsOf(u)) BY DEF Answer, NumGamesPlayedByUserOnServer
    <3> QED BY <2>4, <3>2, <3>3, <3>4, <3>5, RolesSplit
  <2>8. Has({"crewWins", "impWins"}) =>
          view.got["crewWins"] + view.got["impWins"] = view.got["wins"]
    <3> SUFFICES ASSUME Has({"crewWins", "impWins"})
                 PROVE  view.got["crewWins"] + view.got["impWins"] = view.got["wins"]
      OBVIOUS
    <3>1. <<"wins", "crewWins">> \in Before BY DEF Before
    <3>2. /\ view.got["wins"] = Answer("wins", u)
          /\ view.got["crewWins"] = Answer("crewWins", u) /\ view.got["impWins"] = Answer("impWins", u)
      BY <2>1, <2>2, <2>3, <3>1 DEF Has
    <3>3. Answer("crewWins", u) = Cardinality(AsRole(WonRows(RowsOf(u)), Crewmate))
      BY DEF Answer, NumWinsAsRoleOnServer
    <3>4. Answer("impWins", u) = Cardinality(AsRole(WonRows(RowsOf(u)), Impostor))
      BY DEF Answer, NumWinsAsRoleOnServer
    <3>5. Answer("wins", u) = Cardinality(WonRows(RowsOf(u))) BY DEF Answer, NumWinsOnServer
    <3> QED BY <2>5, <3>2, <3>3, <3>4, <3>5, RolesSplit
  <2>9. Has({"crewWon", "impWon"}) =>
          view.got["crewWon"] + view.got["impWon"] <= view.got["played"]
    <3> SUFFICES ASSUME Has({"crewWon", "impWon"})
                 PROVE  view.got["crewWon"] + view.got["impWon"] <= view.got["played"]
      OBVIOUS
    <3>1. <<"played", "crewWon">> \in Before BY DEF Before
    <3>2. /\ view.got["played"] = Answer("played", u)
          /\ view.got["crewWon"] = Answer("crewWon", u) /\ view.got["impWon"] = Answer("impWon", u)
      BY <2>1, <2>2, <2>3, <3>1 DEF Has
    <3>3. Answer("crewWon", u) = NumGamesWonAsRoleOnServer(Crewmate) BY DEF Answer
    <3>4. Answer("impWon", u) = NumGamesWonAsRoleOnServer(Impostor) BY DEF Answer
    <3>5. Answer("played", u) = NumGamesPlayedOnGuild BY DEF Answer
    <3> QED BY <3>2, <3>3, <3>4, <3>5, MatchesSplit
  <2>10. Has({"ranking", "mostGames"}) =>
           view.got["mostGames"] = {<<r.user, r.total>> : r \in view.got["ranking"]}
    <3> SUFFICES ASSUME Has({"ranking", "mostGames"})
                 PROVE  view.got["mostGames"] = {<<r.user, r.total>> : r \in view.got["ranking"]}
      OBVIOUS
    <3>1. view.got["ranking"] = Answer("ranking", u) /\ view.got["mostGames"] = Answer("mostGames", u)
      BY <2>1, <2>3 DEF Has
    <3>2. Answer("ranking", u) = Ranking(usersGames) BY DEF Answer, TotalWinRankingForServer
    <3>3. Answer("mostGames", u) = {<<r.user, r.total>> : r \in Ranking(usersGames)}
      BY DEF Answer, TotalGamesRankingForServer
    <3> QED BY <3>1, <3>2, <3>3
  <2>11. Has({"ranking", "crewRanking", "impRanking"}) =>
           \A v \in Users : Wins("ranking", v) = Plus(Wins("crewRanking", v), Wins("impRanking", v))
    <3> SUFFICES ASSUME Has({"ranking", "crewRanking", "impRanking"}), NEW v \in Users
                 PROVE  Wins("ranking", v) = Plus(Wins("crewRanking", v), Wins("impRanking", v))
      OBVIOUS
    <3>1. /\ view.got["ranking"] = Answer("ranking", u)
          /\ view.got["crewRanking"] = Answer("crewRanking", u)
          /\ view.got["impRanking"] = Answer("impRanking", u)
      BY <2>1, <2>3 DEF Has
    <3>2. Answer("ranking", u) = TotalWinRankingForServer BY DEF Answer
    <3>3. Answer("crewRanking", u) = TotalWinRankingForServerByRole(Crewmate) BY DEF Answer
    <3>4. Answer("impRanking", u) = TotalWinRankingForServerByRole(Impostor) BY DEF Answer
    <3> QED BY <3>1, <3>2, <3>3, <3>4, RankingsAddUp
  <2> QED BY <2>6, <2>7, <2>8, <2>9, <2>10, <2>11 DEF ShownStatsAddUp
<1>2. StatInit => ViewInv
  <2> SUFFICES ASSUME view = NoView PROVE ViewInv BY DEF StatInit
  <2>1. ViewTypes BY DEF ViewTypes, NoView
  <2>2. InOrder BY DEF InOrder, NoView
  <2>3. UpToDate BY DEF UpToDate, NoView
  <2> QED BY <2>1, <2>2, <2>3 DEF ViewInv
<1>3. RecInv => DbTypes BY DEF RecInv
<1>4. StatSpec => []RecInv
  <2>1. StatSpec => RecSpec
    BY RecMeanwhile, PTL DEF StatSpec, RecSpec
  <2> QED BY <2>1, RecInvariant, PTL
<1>5. RecInv /\ ViewInv /\ [StatNext]_<<dbVars, recVars, statVars>> => ViewInv'
  BY <1>3, ViewSteps
<1> QED BY <1>1, <1>2, <1>3, <1>4, <1>5, PTL DEF StatSpec
=============================================================================
