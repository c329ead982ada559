SPECIFICATION Spec
CHECK_DEADLOCK FALSE
VIEW AtWork
CONSTANTS
  Scenes = {"jobs", "match", "privacy", "stats", "settings", "requests", "premium",
            "capture", "bots", "limit", "message", "links"}
  u1 = u1
  u2 = u2
  u3 = u3
  p1 = p1
  p2 = p2
  g3 = g3
  n1 = n1
  n2 = n2
  n3 = n3
  n4 = n4
  Pushers = {p1, p2, u1}
  MaxFaults = 2
  Users = {u1, u2}
  MaxGames = 2
  OptCommands = {c1}
  MaxJobs = 5
  MaxRestarts = 1
  PlayerNames = {n1, n2, n3, n4}
  FoldTwins <- CaseOnly
  NameTwins <- CaseOrBlanks
  GameOvers <- GameOverKinds
  MaxViews = 1
  LeaderboardMin = 1
  Members = {u1, u2}
  Owner = u1
  Moderators = {u2}
  Languages = {"en", "fr"}
  Channels = {"ch"}
  DelayPhases <- OnePair
  SettingCommands = {c1, c2}
  MaxReadFaults = 1
  Interactions = {"i1", "i2"}
  Deliveries <- BothShards
  MaxNow = 4
  SoftbanThreshold = 1
  SoftbanExpiration = 1
  SoftbanDuration = 2
  SnowflakeLock = 2
  GuildDownloadCooldown = 2
  Guilds = {g1, g2, g3}
  Operations = {o1, o2}
  MaxOutside = 2
  Bots = {t1, t2, t3}
  BotRequests <- FourRequests
  Limits = {0, 1}
  MaxPer5Seconds = 2
  Workers = 2
  MaxSeconds = 1
  Editors = {h1, h2, h3}
  MaxMessages = 3
  MaxRefusals = 1
  LinkUsers = {u1, u2}
  Players = {p1, p2}
  LinkCommands = {"c1", "c2"}
  Namesakes <- OneNamesake
  MaxCacheFaults = 1
INVARIANTS
  TypesOK
  NoStrandedJob
  ListWillExpire
  OptedOutErased
  EventsInTime
  WinnersAgree
  ShownStatsAddUp
  OneRowPerPair
  OnlyOverlapsLose
  PremiumSettingsPaid
  RunsApart
  HandledOnce
  SoftbanJust
  PremiumKept
  NoCycle
  BlacklistHolds
  LimitNearlyKept
  AcksBelong
  MessageShowsRecord
  OneMessage
  LinksStand
  CacheMutual
PROPERTIES
  ResultStands
