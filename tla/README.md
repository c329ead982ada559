# A TLA+ model of AutoMuteUs

AutoMuteUs is a Discord bot that mutes and deafens the players of an Among Us
match according to the phase of the game. A capture client watches the game and
pushes jobs into Redis; the bot pops them, keeps one record per game in Redis,
and asks Discord to change the voice state of the players. Many goroutines, of
several shards and across restarts, work on the same records, with a lease of
250 ms as the only exclusion. Around the games there are matches recorded in
Postgres, settings, premium, rate limits and a cache of names, most of them
shared with no lock at all. These modules model that.

## The system

| Component | State | Operations | Hard parts | What makes it correct |
|---|---|---|---|---|
| Record store and lease, `bot/redis.go` | `GameState` as JSON under the connect code; pointers to it from connect code, text and voice channel; `<key>:lock`; the guild's sorted set of active games | `GetDiscordGameStateAndLock`, `SetDiscordGameState`, `RefreshActiveGame`, `RemoveOldGame`, `LoadAllActiveGames`, `DeleteDiscordGameState` | a lease that lapses under its holder; a lock named before it is held; pointers written after the release | no lost update; a served game is found; a deleted one is gone |
| Game lifecycle, `bot/bot.go`, `slash_commands.go`, `message_handlers.go` | `EndGameChannels` in memory | `/start` (new), `/stop` (end), `/refresh`, `/pause`, `/link`, buttons, `forceEndGame`, `newGuild` | sends on unbuffered channels, one of them under the lock; restart at any point | commands return; a game on the board has exactly one worker |
| Subscription worker, `bot/eventHandler.go` | a timer, a pub/sub subscription | connection, lobby, state, player and game-over jobs; timeout; kill | kill, timeout and job at once | jobs are handled one after another; an ended game stays ended |
| Voice control, `bot/voice.go`, `message_handlers.go` | `ShouldBeMute`/`ShouldBeDeaf` of each user in the record; the lock of voice changes | `handleTrackedMembers`, `applyToAll`, `applyToSingle`, `handleVoiceStateChange` | a delay of seconds between reading the record and acting on it; refused and lost requests | the rules of the phase hold; the dead are not given away |
| Rules and capture data, `pkg/game`, `pkg/amongus` | phase, players, who is alive | `UpdatePhase`, `UpdatePlayer`, `GetVoiceState` | who is revived when | part of voice control |
| Linking, `userDataSet.go`, `discordGameState.go`, `redis.go` | user to player in the record; a cache of names for the guild, in two directions | pairing by name or cache, `/link`, `/unlink`, erasure by `/privacy opt-out` | two users of one name; the cache has no lock and is written entry by entry | a link stands; the cache finds every name of a user |
| Status message, `gameStateMessage.go` | message id; `DeferredEdits` in memory | create, delete, deferred edit, refresh | edits and refreshes pass each other; a refresh wants the lock its caller holds | one message, which shows the record |
| Token provider, `bot/tokenprovider` | counters, and blacklisting by them, per bot and capture in Redis | `ModifyUsers` with 8 workers | check-then-act on limits; late answers; INCR and EXPIRE apart | limits hold; a failing bot is spared, and not for ever |
| Job queue, `pkg/task` | a list and a notification channel per game | `PushJob`, `PopJob`, `Subscribe` | lost notifications | no job waits unseen; no list stays for ever |
| Match recording, `eventHandler.go`, `pkg/storage/postgres.go` | MatchID in the record; tables of users, matches, players, events | start, event, result; opting in and out, clearing | the match id is read late, by goroutines; no transactions | an event belongs to its match, a result stands, an opt-out erases |
| Statistics, `bot/stats.go`, `pkg/storage/stats.go` | none of its own | `/stats` of a member and of the server | many queries over tables that change | figures shown together belong together |
| Guild settings, `pkg/settings`, `storage/redis.go`, `bot/setting` | one JSON record per guild | `/settings`, 15 settings and a reset; reading with defaults | read-modify-write without a lock; failing reads give defaults | a setting stays set; premium settings are paid for |
| Requests, `common/redis.go`, `slash_commands.go` | keys with a time to live per user, command, interaction, guild | soft ban, interaction lock, rate limits, download cooldown | check before mark; a lock given back | an interaction runs once, runs keep their distance |
| Premium, `pkg/premium`, `pkg/storage/premium.go` | tier, transfer and inheritance of guilds | transfer, revert, gold sub-servers | two updates without a transaction | premium is neither lost nor doubled, inheritance has no cycle |
| API, export, texts, start-up, identify lock | see "Not modelled" | | | |

Commands, voice events and workers interact through the record and its lock,
commands and workers also through the kill channels, workers and the capture
through the job queue, and all of them with Discord through `ModifyUsers`.
Workers write the tables that `/stats` reads and `/privacy` erases; every
command reads the guild's settings before anything else.
`PROJECT.json` lists under "hazards" each place where these interactions can go
wrong, and the properties that look at it.

## Modules

### GameRecord, GameStateLock, GameStateLock_proofs

`GameRecord` is the abstract promise: each handler's update is applied in one
step to the record as it then is.

`GameStateLock` is the protocol of `bot/redis.go`. A handler resolves the key
(`Resolve`), obtains the lock named by it (`Obtain`, `NotObtained`), resolves
again and reads (`Read`, or `ReadNothing` and `Create`), works, writes its
whole copy back (`Commit`) and releases (`Release`). `ReleaseOnly` is
`SetDiscordGameState(nil, lock)`, and `ReturnLocked` is the early return of
`RefreshGameStateMessage`. The record is the set of the updates it contains,
which is all that "lost update" needs. `lock` maps the two names a lock of one
game can have, `<key>:lock` and `:lock`, to the token stored there. `Expire` is
the time to live; the constant `MayOverrun` says whether it may strike a
handler at work. The history variable `astray` collects the handlers that do not hold the
record's own lock, either because their lease has lapsed or because they had
resolved no key; `strayWrite` those of them that wrote the record.

### GameLifecycle, GameLifecycle_steps, GameLifecycle_proofs

The same store in less detail, with the keys, the pointers, the set of active
games, the kill channels and every process that creates, changes, ends or
resubscribes to a game. `pc` and `task` say where a process is; steps between
two accesses to Redis that others can observe are actions:

| Code | Actions |
|---|---|
| `GetDiscordGameStateAndLock` | `Resolve`, `Fetch`, `NotObtained` |
| `SetDiscordGameState` | `Commit` (inside the action of the caller), `Pointers`, `ReleaseOnly` |
| `/start` | `Issue`, `NewOverShown`, `Send`, `NewAfterKill` or `NewWithoutGame` or `NewLockout`, `Activate`, `Launch`, then `handleGameStartMessage`: `ShowGame` |
| `/stop` and its button | `Issue`, `EndLook`, `Send`, `EndUnmute` |
| `/pause`, `/link`, `/unlink`, colour buttons | `Issue`, `TouchShown` or `TouchNothing` ("touch") |
| `/refresh` | `Issue`, `RefreshShown` or `RefreshNothing` |
| worker's `select` | `TakeJob`, `DoJob`, `JobDone`; `Timeout`, `DropOwnEntry`; the receiving side of `Send` |
| `forceEndGame`, `DeleteDiscordGameState` | `ForceReset`, `RemoveOldGame`, `LockToDelete`, `Delete` |
| restart, `newGuild` | `Crash`, `LoadAllActiveGames`, `NextGame`, `Resubscribe`, `Register`, `NoMoreGames` |

Reductions: the six tries of `GetDiscordGameStateAndLockRetries` and the ten
looks of `GetReadOnlyDiscordGameState` are one attempt that may fail. Leases
lapse only under a holder that is blocked, has returned or is dead: those
that lapse under a working holder are GameStateLock's subject. The connect code
a `/start` gets is the next unused one, since codes differ in nothing else. The
entry that a timed-out worker deletes from the map is deleted before
`forceEndGame`'s first access to Redis. `SettingUp` states that a game is set
up in less time than the capture timeout (minutes). Records live for 900 s from
their last write; that is left out. The premium check of `/start` is the
choice between `NewWithoutGame` and `NewLockout`.

### GameRules, VoiceControl, VoiceControl_proofs

`GameRules` holds the pure part: `VoiceRule` (the default rules), `AliveAfter`,
`Dead`, `Priority`. `VoiceControl` is one game: the worker's jobs
(`Transition`, `PlayerJob`, `LeftJob`, `ConnectionJob`), the steps of
`handleTrackedMembers` (`Decide` under the record's lock, `LockVoice`, `Wait`,
`Ask` for each user, `Finish`), voice events (`VoiceEvent`, `LoseEvent`),
`/pause` (`Pause`, `Override`), and what users do (`Move`). Both what the record
says (`should`) and what is so on Discord's server (`actual`) are variables: the
distance between them is the point. `missed` is a history variable. It names
the users the bot has not served, by its design or by bad luck: a request was
refused; the game was paused when the batch was due; a user was unmuted by
`applyToAll` or `applyToSingle`, which do not touch the record; a voice event
found the voice lock taken and was dropped; a user moved while a request about
the old place was on its way, or the worker's request overtook a newer one of a
voice event; or a player was exiled ("don't apply a mute to this player"). A request
that is carried out and agrees with record and rules takes the user off
`missed` again.

Reductions: work under the record's lock is one action (GameStateLock is about
when it is not). Users are linked to the player of the same name. `MuteSpectator` is off, the
voice rules are the default ones. A request of one batch is carried out in any
order relative to the others of the same batch (`ModifyUsers` has eight
workers), but once only.

### JobQueue (proofs in Limits_proofs)

The list is its length; a push is three actions (`PushJob`, `Notify`,
`ExpireNew`), for RPUSH, PUBLISH and EXPIRE are three commands. The worker is
subscribed or not (`Subscribe`, `PopperReplaced`), takes a notification
(`TakeNotice`) and pops until the list is empty (`PopJob`, `HandleJob`,
`Drained`) or an error ends the loop (`PopFails`), the job still in the list or,
if its answer was lost or is no JSON, gone. An RPUSH that fails is taken for a push
onto a new list (`PushFails`); a PUBLISH or an EXPIRE that fails, or that the
broker does not live to send, is `PushBroken`.

### Database, MatchRecorder, Statistics (proofs in Match_proofs)

`Database` has the four tables, with an operator for each statement and the
foreign keys as guards, and `/privacy` and the clearing of statistics as
processes over them, a step for each statement. A row remembers the opt flag
its user had when it was inserted. `MatchRecorder` extends it with one game:
`StateJob`, `PlayerJob` and `GameOverJob` each spawn the goroutine that reads
MatchID when it comes to run (`ReadMatch`) and files its event later
(`FileEvent`); a finished match spawns a dump (`EnsureUser`, `EndMatch`,
`RecordPlayer`, in the order of the statements) while the worker goes on to
reset the record (`ResetMatch`). A `GameOverJob` has what the capture lists at the
end, names with an impostor flag, and whom the record knows: each user's player by
name, and the names of GameData. The summary takes its winners from the list, by
exact names (`Winners`); the dump looks each player up in GameData, but for case
and blanks (`Lookups`), skips whom it does not find, and takes for an impostor
whoever is listed as one but for case (`RoleIn`), for a crewmate anybody else, who
then wins when the impostors do not (`WonIn`). What Go and Unicode
take for one name is given by two constants, `NameTwins` and `FoldTwins`. `OtherReads` and `OtherWrites` are any other
handler that writes the record back as it read it; `Restart` kills all
goroutines and keeps record and tables. `Statistics` extends that with the
queries as set expressions over the tables and one `/stats` that asks them one
by one (`AskNext`) while everything else goes on.

Reductions: connect codes, times and colours are left out; a match has a
crewmate, an impostor or an unknown result; a match whose row could not be made,
and so has no dump, has no summary here, and any other has one, whatever the guild
has set. Of the statements only the insertion of a
match may fail, for a dump that stops halfway is what `Restart`
does. The leaderboard's minimum, its length and the order of its rows choose
among rows and are left out.

### GuildSettings (proofs in Guild_proofs)

The record is a function from the 15 settings to values. Each `Fn...` operator
is the function of that name in `bot/setting`: it gives the settings to store,
or none when it only shows or refuses. `FreeArguments` and `PremiumArguments`
are what Discord lets a user enter, of numbers the two ends. A command reads
(`GetGuildSettings`, with `StoreDefaults` for a new guild, which may fail, or
`GetGuildSettingsFails`), is checked (`IsAdmin`) and writes all of it
(`HandleSettings`); `LeaveGuild` deletes the record. A SET that fails is only
logged and the user told that all went well, so `AnswerOnly` stands for it too, and
`OnlyOverlapsLose` is about what was stored. `meant` is what the record
would be if each command had changed its own setting alone, and `lost` the
settings in which an overlap excuses a difference.

### Requests (proofs in Limits_proofs)

What stands before a command, with each access to Redis as an action: soft ban
and interaction lock, general limit, the command's own limit, violation and
count, mark, carrying out. Time is in seconds, and keys carry the second at
which they lapse. `AskForDownload` and `ConfirmDownload` are `/download` and its
button, which sets the cooldown that only the former checks. All keys are one
user's, so there is one user.

### PremiumTransfer (proofs in Guild_proofs)

`Start` reads both guilds and checks, `SetInherits` and `SetTransferred` are the
two updates, in the order of the code, and `OperationDies` ends an operation
between them. `Source` follows the links as `getGuildPremiumStatus` does, to its
depth of three. `Outside` is the payment service. The code refuses to transfer
the premium of one server, its own official one, named by its id; here that is a
server like any other, so what holds of more transfers is shown. `troubled` collects the guilds
of operations that died halfway or overlapped on a guild. `NoCycle` says that no set
of guilds inherits only among itself, which is that the links have no cycle of any
length.

### TokenProvider (proofs in Limits_proofs)

Requests go from queue to worker (`Take`), through the bots in any order
(`TryBot`: INCR and the test; `ExpireKey`: the EXPIRE after it), the capture
(`TryCapture`, `PublishTask`, `CaptureAnswers`, `AckTimeout`) and the primary bot
(`Primary`). `BotFails` and a missing answer lead to `Blacklist`. Keys lapse
(`KeyLapses`), the process may die (`BotsDie`). `blackout` says that the five
minutes of a blacklisting are not over, whatever the key says.

### StatusMessage (proofs in Guild_proofs)

What a message says is a number, greater for what is newer. Handlers change the
record and save before they dispatch (`ChangeAndSave`) or, as `processPlayer`
does, dispatch a copy and save after it (`ChangeAndHold`, `Save`). A dispatch is
a deferred edit (`DispatchEdit`, then `TakeEdit` two seconds later and
`EditShown` or `EditRefused`) or, for a message over an hour old, a refresh
(`DispatchRefresh`, `RefreshBegin`, `RefreshReplace`), for which a holder waits
until its own lease has lapsed (`LeaseLapses`).

### Linking (proofs in Guild_proofs)

`Pairings` are the outcomes of `processPlayer`'s pairing, by name first and then
by the cached ids; where Go iterates over a map, any of them. A command that
links takes four accesses to the cache before it changes the record (`SaveLink`):
HGET and HSET of the user's entry (`ReadUser`, `WriteUser`), then of the name's
(`ReadName`, `WriteName`), in `AppendRead` and `AppendWrite`. `LinkElsewhere` is a
command of another game of the guild. An opt-out reads the names of a user
(`ReadNames`), erases him from them one by one with an HGET and an HSET each, in
the order of a Go map (`ForgetName`), and then deletes the user's entry
(`ForgetNames`). Each of these may fail, a write also after it was carried out
(`Fails`), and the process may die between any two (`ProcessDies`). The code
goes on after a failing HGET as if the entry were empty, ends the `AddUsernameLink`
after a failing first HSET but not the command, and deletes the user's entry even
though a name could not be erased. `halfKnown` has the users for whom this may have
lost a name, `tangled` says that anything failed or overlapped since the cache
began; both begin anew with the cache (`CacheLapses`). The EXPIRE after each HSET
does not fail here.

### MCComponents

These components share no variable. `MCComponents` puts them side by side, and
the variable `scene` says which of them is at work: the state space is the sum
of theirs and not the product, and the VIEW leaves out those at rest. Three of
the scenes are of MatchRecorder (`match`, `privacy`, `stats`) and three of
TokenProvider (`capture`, `bots`, `limit`); each bounds what is not its subject,
in `InMatch`, `InPrivacy`, `InStats`, `InCapture`, `InBots` and `InLimit`.

## Runs

Bounds are constants of the modules, named there.

| Run | Instance | Shows |
|---|---|---|
| `lock_lease` | 3 handlers, 1 insistent and refreshing, record present or absent at first, leases lapse | `NoLostUpdate`, `Exclusion`, `HandlersReturn`. An absent record, a leaked lock and a lapsed lease all occur; three handlers are one holder, one astray and one victim |
| `lock_atomic` | 4 handlers, record present, no overrun | `AtomicSpec`: refinement of `GameRecord` |
| `life_commands` | 3 commands of new/end/touch, 2 new games, timeouts, symmetry on commands | `ServedGameFound`, `EndedGameStaysEnded`, `ShownGameActive` |
| `life_returns` | 2 commands of all four kinds, 2 new games | `CommandsReturn`, a liveness property |
| `life_restart` | 2 commands, 1 game, 1 restart, 1 `newGuild` | `OneWorkerPerGame`, `ShownGameServed` |
| `voice_rules` | 2 users, symmetric, nobody moves while an event is pending | `RulesApplied`, `DeadStayUnheard` |
| `voice_override` | 1 user, up to 3 pending events before a move, pause and refusals | `NoDrift`, `OnlyOldBatchMutes` |
| `comp_scenes` | twelve scenes, see below | 22 invariants and `ResultStands` |
| `life_stop`, `life_pointers`, `voice_pause`, `comp_optout` | | the findings below |

Two commands are enough for the conflicts of the lifecycle, since each is a
conflict of two processes over one game, with its worker as the third; the third command
in `life_commands` lets a game be replaced while an older one is being ended.
Two users are one with priority and one without. Deadlock is not checked in the
lifecycle, which may come to rest when every command has been issued, and is
checked everywhere else.

The scenes of `comp_scenes`:

| Scene | Instance | Properties |
|---|---|---|
| `jobs` | 3 pushes, 2 failing commands, broken-off pushes or replaced workers | `NoStrandedJob`, `ListWillExpire` |
| `match` | 2 users, 2 matches, 5 jobs, of players' jobs none, 1 restart, stale copies (with up to 3 jobs); at the end of a match a user's player is not listed, is the impostor, is a crewmate among others, or has a name like the impostor's | `EventsInTime`, `ResultStands`, `WinnersAgree` |
| `privacy` | 1 match, 3 jobs, players' jobs too, an opt-in or opt-out and clearing at any time | `OptedOutErased` |
| `stats` | 2 matches with players of both roles, one `/stats` with all its queries, clearing at any time | `ShownStatsAddUp`, `OneRowPerPair` |
| `settings` | 2 members, an owner and a moderator, 2 commands of every setting and argument, 1 failing read, failing first SET or departure | `OnlyOverlapsLose`, `PremiumSettingsPaid` |
| `requests` | 2 interactions, one sent to 2 shards, 3 ticks of the clock, limits scaled down; downloads alone | `RunsApart`, `HandledOnce`, `SoftbanJust` |
| `premium` | 3 guilds, one with any tier at first, 2 operations, 2 purchases or expiries | `PremiumKept`, `NoCycle` |
| `capture` | 3 requests of 2 calls, no secondary bot, 2 seconds, process may die | `AcksBelong`, `BlacklistHolds` |
| `bots` | 2 requests of 2 calls, 3 bots | `BlacklistHolds` |
| `limit` | 3 requests of a call limited to 1 bot, 2 workers, no errors | `LimitNearlyKept` |
| `message` | 3 editors, 3 messages, 1 refusal or an hour that passes (with 2 editors) | `MessageShowsRecord`, `OneMessage` |
| `links` | 2 users, 2 players, 1 namesake, 2 commands of which one is of another game, 1 failing command of Redis or death of the process (where users and players are all there, and commands come one after the other) | `LinksStand`, `CacheMutual` |

Overlaps in these components are of two actors over one key, so two commands,
calls or operations are enough, with a third party where an exception needs one:
the third editor, the third guild in a chain, the second match after a late
event. Two increments reach the counters' maximum of 2, and the limits in
seconds are scaled down so that each can pass within the clock's bound.

The properties carry their exceptions in their text, and each exception is a
thing the code does, which the run reaches (without it TLC reports a violation): `doubled` in `OneWorkerPerGame` and elsewhere stands for games that
`newGuild` loads while they are in service, since it runs at every reconnection;
`strayed` in `EndedGameStaysEnded`, `ShownGameActive` and `ShownGameServed` for a
write under the lock of no key or of another (the proof of `ShownGameActive`
came upon it: such a write can bring back, with its message, a game that
`forceEndGame` is deleting); a blocked sender in `CommandsReturn` for the channel nobody receives
from any more; `missed` in the voice properties is explained above. In the
components they are `missed` and `failed` (a lost notification, a failing pop),
`halfOut` (an opt-out that died after its flag was set, which no later one
repairs), `disturbed` (a stale record written back, or a death before the
reset), `viewDirty` (a match recorded between two queries), `lost`, `raced` and
`lapsed`, `troubled`, `shortened` (a blacklisting that an older EXPIRE cut to
five seconds), `outdated` and `astray`, `untimed` (an EXPIRE that was left out),
and for the cache of names `halfKnown` and `tangled`; in `WinnersAgree` it is names
that are alike, and a player who is not listed. What `LimitNearlyKept`
says is itself such an exception: the tier's limit is exceeded, by one bot for
each other worker at most.

### Findings

- `StopUnmutes` (README.md:92 of the bot): a second `/stop`, or a `/stop` after a
  timeout, waits for ever on the kill channel of a worker that is gone.
- `NoDanglingPointer` (`bot/redis.go:330`): the text channel's pointer is not
  deleted with the game, since `forceEndGame` has already blanked the channel.
- `NoMuteWhilePaused` (README.md:91): a batch read before `/pause` and delayed is
  carried out after it. `OnlyOldBatchMutes` shows that nothing else is.
- `OptedOutNotRecorded` (PRIVACY.md:10): a user who has opted out is recorded in
  the next match, since nothing that records looks at the flag. `OptedOutErased`
  shows that what was recorded before is gone.

Met on the way, and not the subject of a property: the leaderboards are titled
"n+ Games" and list only players with more than n (`bot/stats.go:627`); what
`bot/stats.go:202` builds is never shown, and `:304` tests another list than it
shows; a dispatch by `processPlayer` for a message over an hour old waits for
the lock its own caller holds, and the caller then saves the old message id
(`astray`); a departure is also announced for a guild that is only out of reach,
and deletes its settings (`bot.go:242`).

### Fairness

`HandlersReturn`, `CommandsReturn` and `ShownGameServed` assume that goroutines
run (weak fairness of each process's steps), that Redis expires keys (weak
fairness of `Expire`), and that a restarted bot receives its guilds (weak
fairness of `LoadAllActiveGames`). `Send` is strongly fair: Go's `select`
chooses at random among the ready cases, so a worker whose jobs never
end still comes to take the kill. Nothing is assumed of users, captures or
timers. VoiceControl and the components of MCComponents state safety only: what
they wait for is a user, a capture or a timer, of which nothing is assumed.

## Proofs

TLAPS checks each theorem for every value of the constants, from the named
assumptions of the modules alone (`HandlerAssumption`, `LifecycleAssumption`,
`RecordAssumption`, `VoiceAssumption`, `RequestAssumption`, `TokenAssumption`,
`LinkAssumption`, `StatusAssumption`, `SettingsAssumption`, `PremiumAssumption`,
`DatabaseAssumption`, `RecorderAssumption`, `FaultsAssumption`). They say that
kinds of processes and of names are disjoint, that bounds are numbers, and that
Redis, Discord and the capture deliver values of the right form; TLC evaluates
them in every run. A bound of a run (pushes, jobs, messages, commands) is one of
these constants, so a theorem is about any number of them. None of the invariants
is inductive as it stands, and each section says what had to be added.

### The record and its lease: GameStateLock_proofs

Any set of handlers, any of them insistent or refreshing.

- `TypeCorrect`: `Spec => []TypeOK`.
- `UpdatesSurvive`: `Spec => []NoLostUpdate`.
- `LeaseExcludes`: `Spec => []Exclusion`.
- `ImplementsAtomicRecord`: `Spec => AtomicSpec`, if the record exists and no
  body outlasts its lease.

`NoLostUpdate` does not say whose copy is written back. The
inductive invariant adds `OnTrack` (a handler that is not astray and is inside
holds the record's lock, and works on an existing record) and `FreshCopy` (as
long as nobody astray has written, the copy such a handler works on is the
record). From `OnTrack` follows `OneInside`, at most one handler inside is not
astray, which is `Exclusion` and also the crux of `Commit`: no other handler's
copy becomes out of date. For the refinement, `Atomicity` adds that under the
two assumptions nobody is ever astray and that the record is just what has been
committed, so that each commit adds its own update.

### The lifecycle: GameLifecycle_steps, GameLifecycle_proofs

Any commands, workers, codes, channels, restarts and incarnations of `newGuild`.

- `TypeCorrect`: `Spec => []TypeOK`.
- `OneWorker`: `Spec => []OneWorkerPerGame`.
- `ServedGame`: `Spec => []ServedGameFound`.
- `ShownGame`: `Spec => []ShownGameActive`.
- `EndedGame`: `Spec => []EndedGameStaysEnded`.
- `EndedGameRests`: `Spec => []EndedGameUnserved`, which no run states: once the
  worker of a game has ended it, no worker serves it again.

`GameLifecycle_steps` has `ShapeInv`: the types, what a process of each kind
holds at each step of its task (`CommandFits`, `WorkerFits`, `GreetingFits`),
and that a record lies under its own code (`DataOK`). It also says of each step
what it leaves alone (`OthersKept`) and which of a few kinds it is (`StepKinds`),
so that the later proofs do not go through all the actions again. On it rest, one
after the other:

- `Generated` and `ServiceInv`. A code is given out once. Of a game that was not
  loaded while in service there is at most one claimant (`OneClaim`): a worker, a
  `newGuild` that is going to start one, or a `/start` between giving the code
  and starting the worker. `Unlisted` and `Removed` say when the game is not
  among the active ones, where a `newGuild` could find it for a second claim.
- `Found`: whoever claims a game, and has not deleted it, has its record and the
  pointer of its code.
- `HoldInv` and `EarlyInv`: who is in a body has the lock it asked for; a kill
  channel is the game's own worker's; in a game's first steps nobody has seen it
  on the board or ends it.
- `OverClosed`: a game that is over (no pointer, not listed, or past the reset
  of `forceEndGame`) has no shown record, and nobody who holds its lock carries one.
- `EndedGone`: so nothing brings it back after `Delete`, but for a write astray.

### Voice: VoiceControl_proofs

Any users, moves, refusals, pauses and settings of `UnmuteDeadDuringTasks`.

- `TypeCorrect`: `Spec => []TypeOK`; `Drift`: `Spec => []NoDrift`; `Rules`:
  `Spec => []RulesApplied`; `PausedMutes`: `Spec => []OnlyOldBatchMutes`;
  `DeadUnheard`: `Spec => DeadStayUnheard`, an action property.

The invariant relates Discord's server, the record, and the batch of the worker:
who is not in the batch is what the record says (`InStep`), the batch asks for
what the record still says (`Wanted`), and the record says what the rules of the
phase say (`RuleKept`), but for users missed, for those with a voice event to
come (`Pending`) and, during tasks, for those who died and are to be hidden
(`Hidden`). `Ordered` says that a batch with priority is one of the phase it is
for, and who is to be asked for first, from which `DeadUnheard` follows.

### Jobs and limits: Limits_proofs

`JobQueue`, for any set of pushes and any number of faults:

- `JobTypeCorrect`: `JobSpec => []JobTypeOK`; `WakeUps`: `JobSpec =>
  []NoStrandedJob`; `ListsExpire`: `JobSpec => []ListWillExpire`.

A worker in its `select` is not all: one that has not subscribed yet must find the
same (`NoneStranded`). That a list will expire is inductive only with "the push
that made it has still to send its EXPIRE, or has left it out".

`Requests`, for any interactions, deliveries, times and limits:

- `RunsKeptApart`: `RequestSpec => []RunsApart`; `InteractionOnce`:
  `RequestSpec => []HandledOnce`; `SoftbansJust`: `RequestSpec => []SoftbanJust`.

A delivery past the lock holds it until it lapses (`Held`); each run has marked
both limits (`Marked`); and a delivery that has passed a check comes after the
limits of all the runs, unless one was marked after its check (`PastChecks`). For
the soft ban, the last who violated is still to count, as long as there are too
many violations and no ban (`CountDue`). `Cooled` keeps downloads apart.

`TokenProvider`, for any bots, calls, requests, limits and number of workers:

- `TokenTypeCorrect`: `TokenSpec => []TokenTypeOK`; `Blacklists`: `TokenSpec =>
  []BlacklistHolds`; `LimitsNearlyKept`: `TokenSpec => []LimitNearlyKept`;
  `Acknowledgements`: `TokenSpec => []AcksBelong`.

A blacklisted key stays at its maximum (`Blacked`), because an EXPIRE still to
come for it is known to have been overtaken (`Renewals`); a counter without
expiry is still to be given one (`Lapses`). `WithinLimit` is the potential that
bounds the tokens: those used, and the requests that may record another
(`MayRecord`), are together at most the limit plus the other workers. Answers belong to
their requests since a name is published once and answered once (`Published`,
`AnsweredOnce`).

### Names, message, settings, premium: Guild_proofs

- `LinkTypeCorrect`, `StatusTypeCorrect`, `SettingsTypeCorrect`: the types of the
  three. For the settings these are the ranges that functions and command options
  enforce (`InRange`), of what is stored and of what any command holds. `RangeInv`
  says so setting by setting (`Admissible`), `HandlerLegal` that no accepted
  `/settings` leaves a range. It needs that delays are between phases
  (`SettingsAssumption`), for `FnDelays` refuses any other
  (`setting/delays.go:24-34`).
- `Linked`: `LinkSpec => []LinksStand`; `CacheAgrees`: `LinkSpec => []CacheMutual`.
  `Tied` says that a link made by a command is in the record. Of the cache's two
  directions, the first must survive failures and deaths (`KnownFacts`): what a
  command has read of a name's entry, and is going to write back, is in the users'
  own entries too, and what it has read of its user's entry is all of it, or he is
  marked (`Kept`); whoever meets another in the cache is marked (`Met`). It rests on
  the order of the writes, the user's entry first and deleted last. The other
  direction holds undisturbed (`CacheFacts`): one command is at work (`Alone`), and
  `Progress` says, for each of its steps, which entry lags behind.
- `MessageIsOne`: `StatusSpec => []OneMessage`; `MessageIsRight`: `StatusSpec =>
  []MessageShowsRecord`. What the message is to say is ahead of the record while a holder
  who has dispatched has still to save (`Due`); it is shown, or deferred with a
  worker that will find it (`Awake`, `WillSay`), or somebody is about to see to it
  (`Owed`). `HeldCopy`, `SavedCopy` and `OneEdit` say why no older text follows.
- `SettingsStay`: `SettingSpec => []OnlyOverlapsLose`; `PremiumIsPaid`:
  `SettingSpec => []PremiumSettingsPaid`. What a command has read is what is
  stored, but for the settings changed since (`ReadSettings`), and what a
  setting's function writes depends on no other setting (`FreeAlike`,
  `PaidAlike`, `HandlerAlike`, for all 15 functions). Without premium not even a
  command at work carries a premium setting (`Unpaid`).
- `SettingsAtomic`: `SettingSpec /\ []OneAtATime => AtomicSettings`, a refinement
  which no run checks. The read, the change and the write of `/settings` have no
  lock; while commands do not overlap, no read fails and the guild stays, what
  the guild has (`Settings`, the defaults where nothing is stored) is one atomic
  record all the same, changed only by an accepted `/settings` of an admin of that
  moment. What a command holds is current then (`HoldCurrent`). `SettingsStay` says
  what remains of it when commands do overlap.
- `PremiumStays`: `PremiumSpec => []PremiumKept`; `NoCycles`: `PremiumSpec =>
  []NoCycle`, for any guilds, operations and purchases (which come between
  operations, not during one). A link is made to a guild that has premium and
  inherits from nobody (`Downwards`), so it closes no cycle. Operations that meet on
  a guild trouble theirs (`Meeting`), nobody relies on what an operation is going to
  overwrite (`Unrelied`), and how the links to an untroubled guild and from it
  belong together is said for each state of an operation (`Orderly`): such a guild
  is one link from where it has its premium, which `Source` reaches.
- `TransfersRevert`: `PremiumSpec => []TransfersMirrored`, which no run states: to
  a guild that is not troubled and at rest, the two columns that no transaction
  ties together say the same, so what was transferred can be reverted; a gold
  sub-server never can.

### Matches: Match_proofs

Any users, matches, jobs, restarts, opt-outs and outcomes the capture may report;
`RecSpec` is recording, privacy commands, clearing and restarts together.

- `RecTypeCorrect`: `RecSpec => []RecTypeOK`, the tables and the recorder's state.
- `OptOutErases`: `RecSpec => []OptedOutErased`. Of a user who is out, rows and
  events from before are gone, or a command has still to erase them (`Erased`), or
  has failed on the way; new ones are recorded with the flag the user has then.
- `EventsBelong`: `RecSpec => []EventsInTime`; `ResultsStand`: `RecSpec =>
  ResultStands`, an action property; `WinnersAreOne`: `RecSpec => []WinnersAgree`.
  They hold as long as the record is undisturbed, and so does what they rest on:
  the match that is recorded under is not over (`OnMatch`), what was dumped is
  over or being reset (`Played`), and a match has one dump (`OneDump`) that has
  what the summary had (`Agreed`). That the two computations agree then is a matter
  of names: unless another is like it, the name that the dump finds in GameData
  is the one in the record (`LookupIsPlayer`), and so the listed impostor that it
  finds, or does not, is the one that the summary finds (`SummaryAgrees`).
- `PairsAreOne`: `RecSpec => []OneRowPerPair`. In addition players of one role
  win or lose a match together (`Sides`) and have one row each (`OneRow`, the
  primary key), so that both orders of a pair count the same matches. This is a
  bijection between finite sets of rows, over any tables.
- `StatsAddUp`: `StatSpec => []ShownStatsAddUp`, where `StatSpec` has the queries of
  `/stats` besides. What has been answered is what the query would answer still
  (`UpToDate`), as long as no row or result has changed; the queries come in an
  order (`InOrder`), so that one that is skipped is known to have the answer 0.
  The sums are those of disjoint finite sets of rows and matches (`RolesSplit`,
  `MatchesSplit`, `WinsOfRanking`).

### The components together: Components_proofs

- `ScenesAreComponents`: `Spec` of MCComponents implies the specification of each of
  the nine components. The scenes restrict the steps and never add one, and who is
  not at work stutters; so every theorem above holds of what these runs explore.
- `TypesHold`: `Spec => []TypesOK`, from the type theorems of the components.

### Only model-checked

- Liveness: `HandlersReturn`, `CommandsReturn`, `ShownGameServed`. The prover
  does neither fairness nor ENABLED.
- What a run's bounds are for: that the interesting cases do occur. A theorem holds
  of a model in which nothing happens, too.

## Plan

1. Done: GameRecord, GameStateLock and its proofs, GameLifecycle, GameRules,
   VoiceControl; JobQueue, Database, MatchRecorder, Statistics, GuildSettings,
   Requests, PremiumTransfer, TokenProvider, StatusMessage, Linking.
2. Done: proofs of GameLifecycle, VoiceControl, JobQueue, Requests,
   TokenProvider, Linking, StatusMessage, GuildSettings, PremiumTransfer,
   MatchRecorder and Statistics.
3. Done: the types of all components, and `TypesOK` of MCComponents from them. Every
   safety property of a passing run is stated by a theorem. Left is what the prover
   does not reach: the three liveness properties.

## Not modelled

- The wording and layout of messages, commands and settings (`responses.go`,
  `command/`, `locale`, `emoji.go`): no state; what settings admit is in
  GuildSettings, and which figures `/stats` shows in Statistics.
- The further premium statistics of a member (colours, names, deaths, who kills
  whom) and the embed of one match: single reads like those of Statistics.
- `bot/api.go`, `/metrics` and the export as CSV: read-only; `docs.go` is generated.
- Start-up: flags, shards, registration of commands, opening of sessions, and
  the lock that spaces their identify calls (`pkg/token`), which only delays.
- `verify.go`, which asks Discord which secondary bots are in a guild and lets
  those beyond the tier's number leave it: the membership it reads is Discord's.
- Statements of a dump that fail one by one (an error is logged, or ends it as a
  restart does), and a user's own premium from votes.
- Redis, redislock, Postgres and discordgo are modelled from how the bot uses
  them; a Go map accessed without its lock is a fault of the runtime that has no
  successor state.
