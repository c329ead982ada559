----------------------------- MODULE Statistics -----------------------------
(***************************************************************************)
(* The queries of pkg/storage/stats.go over the tables of Database, and    *)
(* the /stats command of bot/stats.go, which asks them one after another   *)
(* while matches are recorded and cleared.  The rates shown are quotients  *)
(* of the counts here; ORDER BY and LIMIT choose among rows and are left   *)
(* out, as are the names shown for users.                                  *)
(***************************************************************************)
EXTENDS MatchRecorder, Sequences

CONSTANTS MaxViews, LeaderboardMin

VARIABLES view,      \* the /stats in progress: [of, asked, got]
          viewDirty, \* rows or results have changed since it began
          views
statVars == <<view, viewDirty, views>>

NoView == [of |-> "nobody", asked |-> <<>>, got |-> [q \in {} |-> 0]]

StatInit == view = NoView /\ viewDirty = FALSE /\ views = 0

-----------------------------------------------------------------------------
RowsOf(u) == {r \in usersGames : r.user = u}
WonRows(rows) == {r \in rows : r.won}
AsRole(rows, role) == {r \in rows : r.role = role}

NumGamesPlayedByUserOnServer(u) == Cardinality(RowsOf(u))
\* Mutant: the user is not looked at.
NumWinsOfAll(u) == Cardinality(WonRows(usersGames))
NumWinsOnServer(u) == Cardinality(WonRows(RowsOf(u)))
NumGamesAsRoleOnServer(u, role) == Cardinality(AsRole(RowsOf(u), role))
NumWinsAsRoleOnServer(u, role) == Cardinality(AsRole(WonRows(RowsOf(u)), role))

NumGamesPlayedOnGuild == Cardinality({m \in GameIDs : games[m] \in Results})
NumGamesWonAsRoleOnServer(role) == Cardinality({m \in GameIDs : games[m] = role})

\* A leaderboard has a row for every user in the table.
Ranking(rows) ==
  {[user |-> u, win |-> Cardinality({r \in WonRows(rows) : r.user = u}),
    total |-> Cardinality({r \in rows : r.user = u})] : u \in {r.user : r \in rows}}
TotalWinRankingForServer == Ranking(usersGames)
TotalWinRankingForServerByRole(role) == Ranking(AsRole(usersGames, role))
TotalGamesRankingForServer == {<<r.user, r.total>> : r \in Ranking(usersGames)}

\* users_games joined with itself: matches that u and v played in one role.
Together(u, v, role) ==
  {r \in AsRole(RowsOf(u), role) : \E s \in AsRole(RowsOf(v), role) : s.game = r.game}

\* BestTeammateByRole and WorstTeammateByRole: the teammates of u, HAVING a minimum.
TeammatesByRole(u, role, min) ==
  {[user |-> u, mate |-> v, win |-> Cardinality(WonRows(Together(u, v, role))),
    total |-> Cardinality(Together(u, v, role))] :
     v \in {v \in Users \ {u} : /\ Together(u, v, role) # {}
                                /\ Cardinality(Together(u, v, role)) >= min}}

\* The same for the server: grouped by the ordered pair, shown as an unordered
\* one, DISTINCT.
TeammatesForServerByRole(role, min) ==
  UNION {{[pair |-> {t.user, t.mate}, win |-> t.win, total |-> t.total] :
            t \in TeammatesByRole(u, role, min)} : u \in Users}

-----------------------------------------------------------------------------
UserQueries == <<"games", "wins", "crewGames", "crewWins", "impGames", "impWins">>
GuildQueries == <<"played", "crewWon", "impWon", "mostGames", "ranking", "crewRanking", "impRanking">>

Answer(q, u) ==
  CASE q = "games" -> NumGamesPlayedByUserOnServer(u)
    [] q = "wins" -> NumWinsOnServer(u)
    [] q = "crewGames" -> NumGamesAsRoleOnServer(u, Crewmate)
    [] q = "crewWins" -> NumWinsAsRoleOnServer(u, Crewmate)
    [] q = "impGames" -> NumGamesAsRoleOnServer(u, Impostor)
    [] q = "impWins" -> NumWinsAsRoleOnServer(u, Impostor)
    [] q = "played" -> NumGamesPlayedOnGuild
    [] q = "crewWon" -> NumGamesWonAsRoleOnServer(Crewmate)
    [] q = "impWon" -> NumGamesWonAsRoleOnServer(Impostor)
    [] q = "mostGames" -> TotalGamesRankingForServer
    [] q = "ranking" -> TotalWinRankingForServer
    [] q = "crewRanking" -> TotalWinRankingForServerByRole(Crewmate)
    [] q = "impRanking" -> TotalWinRankingForServerByRole(Impostor)

\* UserStatsEmbed for a member, GuildStatsEmbed for the server; the queries after
\* the second, or the third, only with premium.
StatsBegin(who, prem) ==
  /\ view = NoView /\ views < MaxViews /\ views' = views + 1
  /\ view' = [NoView EXCEPT !.of = who,
       !.asked = IF who \in Users THEN (IF prem THEN UserQueries ELSE SubSeq(UserQueries, 1, 2))
                                  ELSE (IF prem THEN GuildQueries ELSE SubSeq(GuildQueries, 1, 3))]
  /\ viewDirty' = FALSE
  /\ UNCHANGED <<dbVars, recVars>>

\* Wins in a role are asked for only after games in it, and the guild's wins
\* only after a match.
Skipped(q) ==
  \/ q = "crewWins" /\ view.got["crewGames"] = 0
  \/ q = "impWins" /\ view.got["impGames"] = 0
  \/ q \in {"crewWon", "impWon"} /\ view.got["played"] = 0

AskNext ==
  /\ view.asked # <<>>
  /\ LET q == Head(view.asked) IN
     view' = [view EXCEPT !.asked = Tail(@),
                !.got = [k \in DOMAIN @ \cup {q} |->
                           IF k # q THEN @[k] ELSE IF Skipped(q) THEN 0 ELSE Answer(q, view.of)]]
  /\ UNCHANGED <<dbVars, recVars, viewDirty, views>>

StatsShown ==
  /\ view # NoView /\ view.asked = <<>>
  /\ view' = NoView
  /\ UNCHANGED <<dbVars, recVars, viewDirty, views>>

\* Everything else goes on meanwhile.
RecordMeanwhile ==
  /\ RecNext
  /\ viewDirty' = (view # NoView /\ (viewDirty \/ usersGames' # usersGames \/ games' # games))
  /\ UNCHANGED <<view, views>>

StatNext ==
  \/ \E who \in Users \cup {"guild"}, prem \in BOOLEAN : StatsBegin(who, prem)
  \/ AskNext \/ StatsShown
  \/ RecordMeanwhile

-----------------------------------------------------------------------------
Has(qs) == qs \subseteq DOMAIN view.got
\* What a ranking says of u.
Wins(q, u) == LET rows == {r \in view.got[q] : r.user = u} IN
  IF rows = {} THEN <<0, 0>> ELSE LET r == CHOOSE r \in rows : TRUE IN <<r.win, r.total>>
Plus(a, b) == <<a[1] + b[1], a[2] + b[2]>>

(* What one /stats shows belongs together (bot/stats.go:20-21, 146-184,    *)
(* 567-569, 604-668): no more wins than games, the roles add up, the       *)
(* matches won are among those played - unless a match was recorded or     *)
(* cleared between two of its queries, when a winrate can exceed 100%.     *)
ShownStatsAddUp ==
  ~viewDirty =>
    /\ Has({"games", "wins"}) => view.got["wins"] <= view.got["games"]
    /\ Has({"crewGames", "impGames"}) =>
         view.got["crewGames"] + view.got["impGames"] = view.got["games"]
    /\ Has({"crewWins", "impWins"}) =>
         view.got["crewWins"] + view.got["impWins"] = view.got["wins"]
    /\ Has({"crewWon", "impWon"}) =>
         view.got["crewWon"] + view.got["impWon"] <= view.got["played"]
    /\ Has({"ranking", "mostGames"}) =>
         view.got["mostGames"] = {<<r.user, r.total>> : r \in view.got["ranking"]}
    /\ Has({"ranking", "crewRanking", "impRanking"}) =>
         \A u \in Users : Wins("ranking", u) = Plus(Wins("crewRanking", u), Wins("impRanking", u))

(* stats.go:505-548: DISTINCT leaves one row of a pair of teammates, for   *)
(* the two orders of the pair give the same row - because players of one   *)
(* role win or lose a match together, which holds as long as no match is   *)
(* recorded twice with different results.                                  *)
OneRowPerPair ==
  disturbed \/ \A role \in Roles :
    \A s, t \in TeammatesForServerByRole(role, LeaderboardMin) : s.pair = t.pair => s = t
=============================================================================
