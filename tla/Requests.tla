------------------------------ MODULE Requests ------------------------------
(***************************************************************************)
(* What stands before every command and button (bot/slash_commands.go):    *)
(* the soft ban, the lock that leaves an interaction to one shard, and the *)
(* rate limits of common/redis.go; and the download of a guild's data with *)
(* its cooldown.  Each access to Redis is a step of its own.  The keys are *)
(* one user's, so there is one user; time goes in seconds.  What else a    *)
(* command does, or refuses for lack of permissions, is in other modules.  *)
(***************************************************************************)
EXTENDS Naturals, FiniteSets

CONSTANTS Interactions,
          Deliveries,        \* pairs of an interaction and a shard that receives it
          MaxNow,            \* bound on time
          \* those of common/redis.go and redis.go, which may be scaled down:
          SoftbanThreshold, SoftbanExpiration, SoftbanDuration, SnowflakeLock, GuildDownloadCooldown

Free == <<>>

ASSUME RequestAssumption ==
  /\ {MaxNow, SoftbanThreshold, SoftbanExpiration, SoftbanDuration, SnowflakeLock,
      GuildDownloadCooldown} \subseteq Nat
  /\ \A d \in Deliveries : d # Free /\ d[1] \in Interactions

\* The commands that the limits tell apart: /start and the others.
CommandNames == {"new", "other"}
Ttl(name) == IF name = "new" THEN 3 ELSE 1

VARIABLES now,
          asked,       \* asked[i]: the command
          stage,       \* stage[d]
          stampOf,     \* stampOf[d]: the second of d's violation
          general, specific,  \* until when the user is limited, and for which command
          exceeded,    \* the members of the set of violations: seconds
          banned,      \* until when the user is ignored; 0 for never
          snowflake,   \* snowflake[i]: [by, until]; by is Free or a delivery
          lapsed,      \* interactions whose lock ran out under its holder
          runs,        \* commands that were carried out: [of, at, raced]
          raced,       \* deliveries that another one has marked the limit past
          dialogs,     \* when confirmations were asked for
          cooldown,    \* until when the guild cannot download
          downloads    \* downloads: [at, opened]
requestVars == <<now, asked, stage, stampOf, general, specific, exceeded, banned, snowflake, lapsed,
                 runs, raced, dialogs, cooldown, downloads>>
limitVars == <<general, specific, exceeded, banned, stampOf>>
runVars == <<runs, raced>>
downloadVars == <<dialogs, cooldown, downloads>>

Unseen == "unseen"

RequestInit ==
  /\ now = 1 /\ asked = [i \in Interactions |-> Unseen]
  /\ stage = [d \in Deliveries |-> "new"] /\ stampOf = [d \in Deliveries |-> 0]
  /\ general = 0 /\ specific = [n \in CommandNames |-> 0] /\ exceeded = {} /\ banned = 0
  /\ snowflake = [i \in Interactions |-> [by |-> Free, until |-> 0]] /\ lapsed = {}
  /\ runs = {} /\ raced = {} /\ dialogs = {} /\ cooldown = 0 /\ downloads = {}

Name(d) == asked[d[1]]
Moves(d, from, to) ==
  /\ stage[d] = from /\ stage' = [stage EXCEPT ![d] = to]
  /\ UNCHANGED now

-----------------------------------------------------------------------------
Obtains(d, to) ==
  /\ Moves(d, "new", to)
  /\ UNCHANGED <<asked, limitVars, lapsed, runVars, downloadVars>>

\* Mutant: the lock is not asked for.
LockAnyway(d) == now >= banned /\ Obtains(d, "general") /\ UNCHANGED snowflake

\* IsUserBanned, then Obtain without a retry.
LockSnowflake(d) ==
  /\ now >= banned /\ snowflake[d[1]].by = Free
  /\ Obtains(d, "general")
  /\ snowflake' = [snowflake EXCEPT ![d[1]] = [by |-> d, until |-> now + SnowflakeLock]]

\* The user is ignored, or another shard has the interaction.
Ignored(d) ==
  /\ now < banned \/ snowflake[d[1]].by # Free
  /\ Obtains(d, "done") /\ UNCHANGED snowflake

IsUserRateLimitedGeneral(d) ==
  /\ Moves(d, "general", IF now < general THEN "exceed" ELSE "specific")
  /\ UNCHANGED <<asked, limitVars, snowflake, lapsed, runVars, downloadVars>>

\* Which command it is matters from here on.
IsUserRateLimitedSpecific(d) ==
  /\ asked' \in {[asked EXCEPT ![d[1]] = n] :
                  n \in IF Name(d) = Unseen THEN CommandNames ELSE {Name(d)}}
  /\ Moves(d, "specific", IF now < specific[asked'[d[1]]] THEN "exceed" ELSE "mark")
  /\ UNCHANGED <<limitVars, snowflake, lapsed, runVars, downloadVars>>

ReleaseSnowflake(d) ==
  snowflake' = IF snowflake[d[1]].by = d
               THEN [snowflake EXCEPT ![d[1]] = [by |-> Free, until |-> 0]] ELSE snowflake

\* IncrementRateLimitExceed: ZADD of the second, then ZCOUNT.
Exceed(d) ==
  /\ Moves(d, "exceed", "count")
  /\ exceeded' = exceeded \cup {now}
  /\ stampOf' = [stampOf EXCEPT ![d] = now]
  /\ UNCHANGED <<asked, general, specific, banned, snowflake, lapsed, runVars, downloadVars>>

Counted(d) == {t \in exceeded : t + SoftbanExpiration >= now /\ t <= stampOf[d]}
Ban(d, deserved) ==
  /\ Moves(d, "count", "done")
  /\ ReleaseSnowflake(d)
  /\ banned' = IF deserved THEN now + SoftbanDuration ELSE banned
  /\ UNCHANGED <<asked, general, specific, exceeded, stampOf, lapsed, runVars, downloadVars>>
\* Mutant: the threshold itself is enough.
BanSooner(d) == Ban(d, Cardinality(Counted(d)) >= SoftbanThreshold)
BanIfExceeded(d) == Ban(d, Cardinality(Counted(d)) > SoftbanThreshold)

Passing == {d \in Deliveries : stage[d] \in {"specific", "mark"}}

\* Mutant: /start has no limit of its own.
MarkGeneral(d) ==
  /\ Moves(d, "mark", "run")
  /\ general' = now + 1
  /\ runs' = runs \cup {[of |-> d, at |-> now, raced |-> d \in raced]}
  /\ raced' = raced \cup (Passing \ {d})
  /\ UNCHANGED <<asked, specific, exceeded, banned, stampOf, snowflake, lapsed, downloadVars>>

MarkUserRateLimit(d) ==
  /\ Moves(d, "mark", "run")
  /\ general' = now + 1 /\ specific' = [specific EXCEPT ![Name(d)] = now + Ttl(Name(d))]
  /\ runs' = runs \cup {[of |-> d, at |-> now, raced |-> d \in raced]}
  /\ raced' = raced \cup (Passing \ {d})
  /\ UNCHANGED <<asked, exceeded, banned, stampOf, snowflake, lapsed, downloadVars>>

\* The command is carried out, and the handler ends.
Perform(d) ==
  /\ Moves(d, "run", "done")
  /\ ReleaseSnowflake(d)
  /\ UNCHANGED <<asked, limitVars, lapsed, runVars, downloadVars>>

\* A second goes by, and Redis drops the locks that have run out.
Tick ==
  /\ now < MaxNow /\ now' = now + 1
  /\ LET out == {i \in Interactions : snowflake[i].by # Free /\ snowflake[i].until <= now + 1} IN
     /\ snowflake' = [i \in Interactions |-> IF i \in out THEN [by |-> Free, until |-> 0] ELSE snowflake[i]]
     /\ lapsed' = lapsed \cup out
  /\ UNCHANGED <<asked, stage, limitVars, runVars, downloadVars>>

-----------------------------------------------------------------------------
OnlyDownloads == UNCHANGED <<now, asked, stage, limitVars, snowflake, lapsed, runVars>>

\* /download of one category, by any admin of the gold guild: it asks for a confirmation.
AskForDownload ==
  /\ now >= cooldown
  /\ dialogs' = dialogs \cup {now}
  /\ UNCHANGED <<cooldown, downloads>> /\ OnlyDownloads

\* Its button, unless the query fails.  It goes away with the answer, which
\* another click may overtake.
ConfirmDownload ==
  /\ cooldown' = now + GuildDownloadCooldown
  /\ \E o \in dialogs : downloads' = downloads \cup {[at |-> now, opened |-> o]}
  /\ UNCHANGED dialogs /\ OnlyDownloads

RequestNext ==
  \/ \E d \in Deliveries :
       \/ LockSnowflake(d) \/ Ignored(d) \/ IsUserRateLimitedGeneral(d)
       \/ IsUserRateLimitedSpecific(d) \/ Exceed(d) \/ BanIfExceeded(d) \/ MarkUserRateLimit(d)
       \/ Perform(d)
  \/ AskForDownload \/ ConfirmDownload
  \/ Tick

RequestSpec == RequestInit /\ [][RequestNext]_requestVars

-----------------------------------------------------------------------------
Near(r, s, span) == r # s /\ r.at <= s.at /\ s.at < r.at + span

(* slash_commands.go:228-286, 676-684, 1072-1079: limits are checked       *)
(* before they are marked.  Two commands of a user are carried out in one  *)
(* second, or two /start within three, only if one passed the check before *)
(* the other was marked; and a guild downloads again within the cooldown   *)
(* only from a dialog that was open before.                                *)
RunsApart ==
  /\ \A r, s \in runs :
       Near(r, s, IF Name(r.of) = Name(s.of) THEN Ttl(Name(r.of)) ELSE 1) => r.raced \/ s.raced
  /\ \A a, b \in downloads :
       a.at < b.at /\ b.at < a.at + GuildDownloadCooldown => b.opened <= a.at

(* slash_commands.go:215-222: "lock this particular interaction message so *)
(* no other shard tries to process it".  The lock is given back when the   *)
(* handler ends, and the second shard may come later: then the rate limit  *)
(* stops it, unless it comes later still, or the lock ran out before.      *)
HandledOnce ==
  \A r, s \in runs :
    r.of[1] = s.of[1] /\ Near(r, s, Ttl(Name(r.of))) => r.of[1] \in lapsed

(* common/redis.go:60-87: the user is ignored after violations in more     *)
(* seconds than the threshold, however many there are in each second, and  *)
(* not before.                                                             *)
SoftbanJust ==
  /\ banned # 0 => Cardinality(exceeded) > SoftbanThreshold
  /\ (\A d \in Deliveries : stage[d] # "count") /\
       Cardinality({t \in exceeded : t + SoftbanExpiration >= now}) > SoftbanThreshold
     => banned # 0
=============================================================================
