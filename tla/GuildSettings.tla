--------------------------- MODULE GuildSettings ---------------------------
(***************************************************************************)
(* The settings of one guild: a JSON record under one key in Redis         *)
(* (storage/redis.go), read by every command before its permissions are    *)
(* checked, changed by /settings (bot/setting_handler.go, bot/setting/),   *)
(* and written back whole, with no lock.                                   *)
(***************************************************************************)
EXTENDS GameRules, Integers, Sequences

CONSTANTS Members, Owner,   \* of the guild
          Moderators,       \* members with the role Mods
          Languages, Channels,
          DelayPhases,      \* pairs of phases whose delay is changed
          SettingCommands,  \* uses of /settings
          MaxReadFaults     \* bound on GETs and first SETs that fail, and on times the guild goes away

Mods == "mods"
SettingPhases == {"LOBBY", "TASKS", "DISCUSS"}

ASSUME SettingsAssumption ==
  /\ Moderators \subseteq Members /\ DelayPhases \subseteq SettingPhases \X SettingPhases
  /\ MaxReadFaults \in Nat

MakeMuteAndDeafenRules ==
  [d \in {"muted", "deafened"}, p \in SettingPhases, a \in {"alive", "dead"} |->
     LET r == VoiceRule(a = "alive", TRUE, p) IN IF d = "muted" THEN r.mute ELSE r.deaf]

MakeDefaultDelays ==
  [q \in SettingPhases \X SettingPhases |->
     CASE q[1] # "TASKS" /\ q[2] = "TASKS" -> 7
       [] q = <<"TASKS", "LOBBY">> -> 1
       [] q = <<"DISCUSS", "LOBBY">> -> 6
       [] OTHER -> 0]

FreeSettings == {"language", "voice-rules", "admin-user-ids", "operator-roles", "unmute-dead",
                 "map-version", "delays"}
PremiumSettings == {"match-summary-duration", "match-summary-channel", "auto-refresh",
                    "leaderboard-mention", "leaderboard-size", "leaderboard-min",
                    "mute-spectators", "display-room-code"}
SettingNames == FreeSettings \cup PremiumSettings

Default(n) ==
  CASE n = "language" -> "en"
    [] n = "voice-rules" -> MakeMuteAndDeafenRules
    [] n \in {"admin-user-ids", "operator-roles"} -> {}
    [] n \in {"unmute-dead", "map-version", "auto-refresh", "mute-spectators"} -> FALSE
    [] n = "delays" -> MakeDefaultDelays
    [] n = "match-summary-duration" -> 0
    [] n = "match-summary-channel" -> ""
    [] n = "leaderboard-mention" -> TRUE
    [] n \in {"leaderboard-size", "leaderboard-min"} -> 3
    [] n = "display-room-code" -> "always"
MakeGuildSettings == [n \in SettingNames |-> Default(n)]

-----------------------------------------------------------------------------
\* What Discord lets users enter for a setting; of numbers, the ends of the range.
Flag == {<<>>, <<"true">>, <<"false">>}
Ids(s) == {<<"view">>, <<"clear">>} \cup {<<i>> : i \in s}
OneOf(s) == {<<>>} \cup {<<v>> : v \in s}

FreeArguments(name) ==
  CASE name = "language" -> OneOf(Languages)
    [] name = "voice-rules" ->
         LET rule == {<<d, p[2], a>> : d \in {"muted", "deafened"}, p \in DelayPhases, a \in {"alive", "dead"}}
         IN rule \cup {Append(r, v) : r \in rule, v \in {"true", "false"}}
    [] name = "admin-user-ids" -> Ids(Members)
    [] name = "operator-roles" -> Ids({Mods})
    [] name \in {"unmute-dead", "map-version"} -> Flag
    [] name = "delays" -> DelayPhases \cup {Append(q, n) : q \in DelayPhases, n \in {0, 10}}

PremiumArguments(name) ==
  CASE name = "match-summary-duration" -> OneOf({-1, 60})
    [] name = "match-summary-channel" -> OneOf(Channels)
    [] name \in {"auto-refresh", "leaderboard-mention", "mute-spectators"} -> Flag
    [] name = "leaderboard-size" -> OneOf({1, 10})
    [] name = "leaderboard-min" -> OneOf({1, 100})
    [] name = "display-room-code" -> OneOf({"always", "spoiler", "never"})

-----------------------------------------------------------------------------
\* The functions of package setting give the settings to store, as a set: it is
\* empty for a view and for what they refuse, and nothing is stored then.
Put(s, name, v) == {[s EXCEPT ![name] = v]}
Asked(s, name, args, allowed(_), v(_)) ==
  IF args # <<>> /\ allowed(args[1]) THEN Put(s, name, v(args[1])) ELSE {}
Same(x) == x
IsTrue(x) == x = "true"
\* A flag that has the value already is refused.
Switch(s, name, args) ==
  Asked(s, name, args, LAMBDA x : x \in {"true", "false"} /\ s[name] # IsTrue(x), IsTrue)
IdList(s, name, args) ==
  IF args \in {<<>>, <<"view">>} THEN {}
  ELSE IF args = <<"clear">> THEN Put(s, name, {})
  ELSE IF args[1] \in s[name] THEN {} ELSE Put(s, name, s[name] \cup {args[1]})

FnLanguage(s, args) == Asked(s, "language", args, LAMBDA x : x \in Languages, Same)
FnAdminUserIDs(s, args) == IdList(s, "admin-user-ids", args)
FnPermissionRoleIDs(s, args) == IdList(s, "operator-roles", args)
FnUnmuteDeadDuringTasks(s, args) == Switch(s, "unmute-dead", args)
FnMapVersion(s, args) == Asked(s, "map-version", args, LAMBDA x : TRUE, IsTrue)
FnDelays(s, args) ==
  IF Len(args) = 3 /\ args[3] >= 0
  THEN Put(s, "delays", [s["delays"] EXCEPT ![<<args[1], args[2]>>] = args[3]]) ELSE {}
FnVoiceRules(s, args) ==
  IF Len(args) = 4 /\ s["voice-rules"][<<args[1], args[2], args[3]>>] # IsTrue(args[4])
  THEN Put(s, "voice-rules",
           [s["voice-rules"] EXCEPT ![<<args[1], args[2], args[3]>>] = IsTrue(args[4])])
  ELSE {}
FnMatchSummary(s, args) == Asked(s, "match-summary-duration", args, LAMBDA n : n \in -1..60, Same)
FnMatchSummaryChannel(s, args) == Asked(s, "match-summary-channel", args, LAMBDA x : x \in Channels, Same)
FnAutoRefresh(s, args) == Switch(s, "auto-refresh", args)
FnLeaderboardNameMention(s, args) == Asked(s, "leaderboard-mention", args, LAMBDA x : TRUE, IsTrue)
\* Mutant: the place in a list that is counted from 0.
FnLeaderboardSizeLess(s, args) ==
  Asked(s, "leaderboard-size", args, LAMBDA n : n \in 1..10, LAMBDA n : n - 1)
FnLeaderboardSize(s, args) == Asked(s, "leaderboard-size", args, LAMBDA n : n \in 1..10, Same)
FnLeaderboardMin(s, args) == Asked(s, "leaderboard-min", args, LAMBDA n : n \in 1..100, Same)
FnMuteSpectators(s, args) == Switch(s, "mute-spectators", args)
FnDisplayRoomCode(s, args) ==
  Asked(s, "display-room-code", args, LAMBDA x : x \in {"always", "spoiler", "never"}, Same)

FreeSetting(s, name, args) ==
  CASE name = "language" -> FnLanguage(s, args)
    [] name = "admin-user-ids" -> FnAdminUserIDs(s, args)
    [] name = "operator-roles" -> FnPermissionRoleIDs(s, args)
    [] name = "unmute-dead" -> FnUnmuteDeadDuringTasks(s, args)
    [] name = "map-version" -> FnMapVersion(s, args)
    [] name = "delays" -> FnDelays(s, args)
    [] name = "voice-rules" -> FnVoiceRules(s, args)
    [] OTHER -> {}
PaidSetting(s, name, args) ==
  CASE name = "match-summary-duration" -> FnMatchSummary(s, args)
    [] name = "match-summary-channel" -> FnMatchSummaryChannel(s, args)
    [] name = "auto-refresh" -> FnAutoRefresh(s, args)
    [] name = "leaderboard-mention" -> FnLeaderboardNameMention(s, args)
    [] name = "leaderboard-size" -> FnLeaderboardSize(s, args)
    [] name = "leaderboard-min" -> FnLeaderboardMin(s, args)
    [] name = "mute-spectators" -> FnMuteSpectators(s, args)
    [] name = "display-room-code" -> FnDisplayRoomCode(s, args)
    [] OTHER -> {}

\* Mutant: one case comes without the test of premium.
HandleFreeMention(s, name, args, prem) ==
  IF name = "reset" THEN {MakeGuildSettings}
  ELSE FreeSetting(s, name, args) \cup
         IF prem \/ name = "leaderboard-mention" THEN PaidSetting(s, name, args) ELSE {}
HandleSettingsCommand(s, name, args, prem) ==
  IF name = "reset" THEN {MakeGuildSettings}
  ELSE FreeSetting(s, name, args) \cup IF prem THEN PaidSetting(s, name, args) ELSE {}

HasAdminPerms(s, u) == u \in s["admin-user-ids"]
HasRolePerms(s, u) == u \in Moderators /\ Mods \in s["operator-roles"]
Unrestricted(s) == s["admin-user-ids"] = {} /\ s["operator-roles"] = {}
IsAdmin(s, u) ==
  \/ u = Owner \/ Unrestricted(s)
  \/ IF s["admin-user-ids"] = {} THEN HasRolePerms(s, u) ELSE HasAdminPerms(s, u)
IsPermissioned(s, u) ==
  u = Owner \/ Unrestricted(s) \/ s["operator-roles"] = {} \/ HasRolePerms(s, u)

-----------------------------------------------------------------------------
VARIABLES stored,      \* the record in Redis, or Nothing
          command,     \* command[c]: [pc, sett]; sett is what it has read
          since,       \* since[c]: the settings that others have changed since c read
          meant,       \* the settings, if each accepted command had changed its own alone
          lost,        \* the settings in which stored may differ from that
          hadPremium,  \* the guild or the user has had premium
          faultsSeen
settingVars == <<stored, command, since, meant, lost, hadPremium, faultsSeen>>

Nothing == [n \in {} |-> 0]
Current(s) == IF s = Nothing THEN MakeGuildSettings ELSE s
Differing(s, t) == {n \in SettingNames : Current(s)[n] # Current(t)[n]}

SettingInit ==
  /\ stored \in {Nothing, MakeGuildSettings}
  /\ command = [c \in SettingCommands |-> [pc |-> "new", sett |-> Nothing]]
  /\ since = [c \in SettingCommands |-> {}]
  /\ meant = MakeGuildSettings /\ lost = {} /\ hadPremium \in BOOLEAN /\ faultsSeen = 0

SettingAt(c, pc) == command[c].pc = pc
Becomes(c, pc, s) == command' = [command EXCEPT ![c] = [pc |-> pc, sett |-> s]]
AnotherFault == faultsSeen < MaxReadFaults /\ faultsSeen' = faultsSeen + 1

\* GetGuildSettings: of a guild without settings the defaults, to be stored.
GetGuildSettings(c) ==
  /\ SettingAt(c, "new")
  /\ Becomes(c, IF stored = Nothing THEN "default" ELSE "handle", Current(stored))
  /\ since' = [since EXCEPT ![c] = {}]
  /\ UNCHANGED <<stored, meant, lost, hadPremium, faultsSeen>>

\* A GET that fails gives the defaults too; they are not stored.
GetGuildSettingsFails(c) ==
  /\ SettingAt(c, "new") /\ AnotherFault
  /\ Becomes(c, "handle", MakeGuildSettings)
  /\ since' = [since EXCEPT ![c] = Differing(stored, Nothing)]
  /\ UNCHANGED <<stored, meant, lost, hadPremium>>

Overwrite(c, s) ==
  /\ stored' = s
  /\ since' = [o \in SettingCommands |->
       IF o = c THEN {} ELSE since[o] \cup Differing(stored, s)]

\* Mutant: a field without a place in the JSON.
SetWithoutChannel(c, s) ==
  Overwrite(c, [s EXCEPT !["match-summary-channel"] = ""]) /\ lost' = lost \cup since[c]

\* SET of the whole record: what others have changed since the read is undone.
SetGuildSettings(c, s) == Overwrite(c, s) /\ lost' = lost \cup since[c]

StoreDefaults(c) ==
  /\ SettingAt(c, "default")
  /\ SetGuildSettings(c, command[c].sett)
  /\ Becomes(c, "handle", command[c].sett)
  /\ UNCHANGED <<meant, hadPremium, faultsSeen>>

\* A SET that fails is only logged: the command goes on with the defaults.
StoreDefaultsFails(c) ==
  /\ SettingAt(c, "default") /\ AnotherFault
  /\ Becomes(c, "handle", command[c].sett)
  /\ UNCHANGED <<stored, since, meant, lost, hadPremium>>

\* A view or a refusal, or an accepted setting of which the SET fails, as if it stood.
AnswerOnly(c) ==
  /\ SettingAt(c, "handle") /\ Becomes(c, "done", Nothing)
  /\ UNCHANGED <<stored, since, meant, lost, hadPremium, faultsSeen>>

\* /settings by u, an admin as far as c has read.
HandleSettings(c, u, name, args, prem) ==
  /\ SettingAt(c, "handle") /\ Becomes(c, "done", Nothing)
  /\ IsAdmin(command[c].sett, u)
  /\ \E s \in HandleSettingsCommand(command[c].sett, name, args, prem) : SetGuildSettings(c, s)
  /\ LET asMeant == HandleSettingsCommand(meant, name, args, prem) IN
     IF asMeant = {} THEN UNCHANGED meant ELSE meant' \in asMeant
  /\ UNCHANGED <<hadPremium, faultsSeen>>

\* leaveGuild; Discord sends the same event for a guild that is out of reach.
LeaveGuild ==
  /\ stored # Nothing /\ AnotherFault
  /\ stored' = Nothing /\ meant' = MakeGuildSettings /\ lost' = {}
  /\ since' = [c \in SettingCommands |-> since[c] \cup Differing(stored, Nothing)]
  /\ UNCHANGED <<command, hadPremium>>

Invocations ==
  (UNION {{<<n, args>> : args \in FreeArguments(n)} : n \in FreeSettings})
  \cup (UNION {{<<n, args>> : args \in PremiumArguments(n)} : n \in PremiumSettings})
  \cup {<<"reset", <<>>>>}

SettingNext ==
  \/ \E c \in SettingCommands :
       \/ GetGuildSettings(c) \/ GetGuildSettingsFails(c)
       \/ StoreDefaults(c) \/ StoreDefaultsFails(c) \/ AnswerOnly(c)
       \/ \E u \in Members, prem \in {FALSE, hadPremium}, i \in Invocations :
            HandleSettings(c, u, i[1], i[2], prem)
  \/ LeaveGuild

-----------------------------------------------------------------------------
InRange(s) ==
  /\ DOMAIN s = SettingNames
  /\ s["leaderboard-size"] \in 1..10 /\ s["leaderboard-min"] \in 1..100
  /\ s["match-summary-duration"] \in -1..60
  /\ \A q \in SettingPhases \X SettingPhases : s["delays"][q] \in 0..10
  /\ s["admin-user-ids"] \subseteq Members /\ s["operator-roles"] \subseteq {Mods}

SettingsTypeOK ==
  /\ InRange(Current(stored)) /\ InRange(meant) /\ lost \subseteq SettingNames
  /\ \A c \in SettingCommands : InRange(Current(command[c].sett)) /\ since[c] \subseteq SettingNames

(* setting_handler.go:89-94, storage/redis.go:45-84: what an accepted       *)
(* /settings has stored stays set, until another sets it - unless a command   *)
(* that had read the record before, or instead of it the defaults, writes  *)
(* it back; and that undoes only what has been changed since.              *)
OnlyOverlapsLose == \A n \in SettingNames \ lost : Current(stored)[n] = meant[n]

(* settings.go:110-418, setting_handler.go:32-71: the settings that are    *)
(* listed as premium keep their defaults in a guild that never had it,     *)
(* whatever is reset, undone or lost: the list and the handler's tests     *)
(* agree.                                                                  *)
PremiumSettingsPaid ==
  hadPremium \/ \A n \in PremiumSettings : Current(stored)[n] = MakeGuildSettings[n]
=============================================================================
