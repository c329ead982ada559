---------------------------- MODULE MCComponents ----------------------------
\* Small instances of the components around a game.  They share no variable, so
\* one scene after another is explored in which one of them is at work and the
\* others rest: the sum of the components, not their product.  A scene has
\* bounds of its own, which say what does not happen in it.
EXTENDS JobQueue, Statistics, GuildSettings, Requests, PremiumTransfer,
        TokenProvider, StatusMessage, Linking

CONSTANTS Scenes, u1, u2, u3, p1, p2, g3, n1, n2, n3, n4

VARIABLE scene

MatchScenes == {"match", "privacy", "stats"}
TokenScenes == {"capture", "bots", "limit"}

matchVars == <<dbVars, recVars, statVars>>

\* Ends of matches: the crew wins, and a user's player is not listed; an impostor wins
\* who is nobody's player; a user does; names that are much alike, and a user has left.
Over(result, infos, known) ==
  [result |-> result, infos |-> infos, known |-> known,
   link |-> [u \in Users |-> IF u = u1 THEN n1 ELSE n2]]
Info(crew, impostors) == [name : crew, impostor : {FALSE}] \cup [name : impostors, impostor : {TRUE}]
CrewWins == Over(Crewmate, Info({n1}, {}), {n1, n2})
OthersWin == Over(Impostor, Info({n1, n2}, {}), {n1, n2})
UserWins == Over(Impostor, Info({n2}, {n1}), {n1, n2})
TwinsWin == Over(Impostor, Info({n1}, {n4}), {n1, n3})
GameOverKinds == {CrewWins, OthersWin, UserWins, TwinsWin}
CaseOrBlanks == {{n1, n3}, {n1, n4}, {n3, n4}}
CaseOnly == {{n1, n4}}
OnePair == {<<"LOBBY", "TASKS">>}
BothShards == {<<"i1", "s1">>, <<"i1", "s2">>, <<"i2", "s1">>}
FourRequests == {<<"b1", u1>>, <<"b1", u2>>, <<"b1", u3>>, <<"b2", u1>>}
OneNamesake == {<<u1, p1>>}

\* What does not vary where a component rests.
Init ==
  /\ scene \in Scenes
  /\ JobInit /\ RecInit /\ StatInit /\ SettingInit /\ RequestInit /\ PremiumInit
  /\ TokenInit /\ StatusInit /\ LinkInit
  /\ scene \notin MatchScenes => phase = "lobby"
  /\ scene # "settings" => stored = Nothing /\ ~hadPremium
  /\ \A g \in Guilds : scene # "premium" \/ g = g3 => tier[g] = "Free"
  /\ limit["b1"] = (IF scene \in {"bots", "limit"} THEN 1 ELSE 0) /\ limit["b2"] = 0
  /\ scene # "message" => record.connected

-----------------------------------------------------------------------------
\* Matches are played and recorded, and other handlers write copies back.
OnlyAnonymous == \A e \in goroutines' : e.user = Anonymous
EndsAs(m, over) ==
  \E d \in dumps' : d.match = m /\ d.result = over.result /\ d.infos = over.infos
InMatch ==
  /\ optCmd' = optCmd /\ usersGames \subseteq usersGames'
  /\ \A g \in GameIDs : games[g] # "absent" => games'[g] # "absent"
  /\ OnlyAnonymous
  /\ jobs' > 3 => ~disturbed'
  /\ \A m \in GameIDs : ~EndsAs(m, OthersWin)
InPrivacy ==
  /\ copy' = {} /\ restarts' = 0 /\ lastGame' < 2 /\ jobs' <= 3
  /\ ~EndsAs(1, CrewWins) /\ ~EndsAs(1, TwinsWin)
InStats ==
  /\ copy' = {} /\ restarts' = 0 /\ optCmd' = optCmd /\ OnlyAnonymous
  /\ goroutines # {} => goroutines' # goroutines
  /\ resetting /\ goroutines = {} => ~resetting'
  /\ ~EndsAs(1, CrewWins) /\ ~EndsAs(2, OthersWin) /\ \A m \in GameIDs : ~EndsAs(m, TwinsWin)
  /\ jobs' # jobs => dumps = {} /\ (phase' # phase \/ resetting')
  /\ views' # views => usersGames # {} /\ view'.of # u2 /\ Len(view'.asked) > 3
MatchStep ==
  /\ scene \in MatchScenes /\ StatNext
  /\ Cardinality(goroutines') <= 1
  /\ CASE scene = "match" -> InMatch /\ views' = 0
       [] scene = "privacy" -> InPrivacy /\ views' = 0
       [] scene = "stats" -> InStats

Queued(S) == \A r \in S : request'[r].pc = "queued"
\* The capture; one bot after another; the limit of the tier.
InCapture ==
  /\ Queued({<<"b1", u3>>})
  /\ request'[<<"b1", u2>>].pc # "queued" => second' = 0 /\ ~botsDied'
InBots == ~botsDied' /\ second' = 0 /\ Queued({<<"b1", u2>>, <<"b1", u3>>})
InLimit ==
  /\ ~botsDied' /\ second' = 0 /\ Queued({<<"b2", u1>>})
  /\ \A k \in Keys : ~blackout'[k] /\ count'[k] >= count[k]
TokenStep ==
  /\ scene \in TokenScenes /\ TokenNext
  /\ CASE scene = "capture" -> InCapture
       [] scene = "bots" -> InBots
       [] scene = "limit" -> InLimit

\* Downloads are for themselves; so are three editors.
RequestStep ==
  /\ scene = "requests" /\ RequestNext
  /\ asked'["i2"] # "other"
  /\ dialogs' # {} => \A d \in Deliveries : stage'[d] = "new"
StatusStep ==
  /\ scene = "message" /\ StatusNext
  /\ Cardinality(hourOld') <= 1
  /\ refusals' > 0 \/ hourOld' # {} => \E h \in Editors : editor'[h].pc = "new"

\* The second user comes first, and the second player stays; the second command
\* is of another game; commands do not overlap where Redis or the process fails,
\* and all are there by then.
LinkStep ==
  /\ scene = "links" /\ LinkNext
  /\ playerData \cap {p2} \subseteq playerData' /\ ~linkCmd'["c2"].here
  /\ u1 \in DOMAIN userData' => u2 \in DOMAIN userData'
  /\ cacheFaults' > 0 => /\ ~(UnderWay("c1")' /\ UnderWay("c2")')
                         /\ DOMAIN userData' = LinkUsers /\ playerData' = Players

JobScene ==
  /\ scene = "jobs" /\ JobNext
  /\ UNCHANGED <<scene, matchVars, settingVars, requestVars, premiumVars, tokenVars, statusVars, linkVars>>
MatchScene ==
  /\ MatchStep
  /\ UNCHANGED <<scene, jobVars, settingVars, requestVars, premiumVars, tokenVars, statusVars, linkVars>>
SettingScene ==
  /\ scene = "settings" /\ SettingNext
  /\ UNCHANGED <<scene, jobVars, matchVars, requestVars, premiumVars, tokenVars, statusVars, linkVars>>
RequestScene ==
  /\ RequestStep
  /\ UNCHANGED <<scene, jobVars, matchVars, settingVars, premiumVars, tokenVars, statusVars, linkVars>>
PremiumScene ==
  /\ scene = "premium" /\ PremiumNext
  /\ UNCHANGED <<scene, jobVars, matchVars, settingVars, requestVars, tokenVars, statusVars, linkVars>>
TokenScene ==
  /\ TokenStep
  /\ UNCHANGED <<scene, jobVars, matchVars, settingVars, requestVars, premiumVars, statusVars, linkVars>>
MessageScene ==
  /\ StatusStep
  /\ UNCHANGED <<scene, jobVars, matchVars, settingVars, requestVars, premiumVars, tokenVars, linkVars>>
LinkScene ==
  /\ LinkStep
  /\ UNCHANGED <<scene, jobVars, matchVars, settingVars, requestVars, premiumVars, tokenVars, statusVars>>

Next == JobScene \/ MatchScene \/ SettingScene \/ RequestScene
        \/ PremiumScene \/ TokenScene \/ MessageScene \/ LinkScene

allVars == <<scene, jobVars, matchVars, settingVars, requestVars, premiumVars, tokenVars,
             statusVars, linkVars>>
Spec == Init /\ [][Next]_allVars

\* The state of the component at work tells the states of a scene apart.
AtWork == <<scene, CASE scene = "jobs" -> jobVars
                     [] scene \in MatchScenes -> matchVars
                     [] scene = "settings" -> settingVars
                     [] scene = "requests" -> requestVars
                     [] scene = "premium" -> premiumVars
                     [] scene \in TokenScenes -> tokenVars
                     [] scene = "message" -> statusVars
                     [] scene = "links" -> linkVars>>

\* Each component keeps its types: those of its variables in its module.
TypesOK ==
  /\ scene = "jobs" => JobTypeOK
  /\ scene \in MatchScenes => RecTypeOK
  /\ scene = "settings" => SettingsTypeOK
  /\ scene \in TokenScenes => TokenTypeOK
  /\ scene = "message" => StatusTypeOK
  /\ scene = "links" => LinkTypeOK
=============================================================================
