--------------------------- MODULE Limits_proofs ---------------------------
(***************************************************************************)
(* The theorems of what is kept in Redis by several commands: of JobQueue  *)
(* (the jobs of a game), Requests (the limits of users) and TokenProvider  *)
(* (the limits of bots).  What was tested may no longer be true when it is *)
(* acted on: the invariants say what is known at each of the steps.        *)
(***************************************************************************)
EXTENDS JobQueue, Requests, TokenProvider, FiniteSetTheorems, TLAPS

-----------------------------------------------------------------------------
(* The jobs of a game, for any pushes of the broker and any number of      *)
(* failing commands, broken-off pushes and replaced workers: types         *)

\* In every execution the variables have their types.
THEOREM JobTypeCorrect == JobSpec => []JobTypeOK
<1> DEFINE Flags == hasTTL \in BOOLEAN /\ missed \in BOOLEAN /\ failed \in BOOLEAN /\ untimed \in BOOLEAN
           Counts == listLen \in Nat /\ notices \in Nat /\ faults \in Nat
           Pushing == /\ push \in [Pushers -> {"push", "notify", "expire", "done"}]
                      /\ newList \in [Pushers -> BOOLEAN]
           Worker == popper \in {"starting", "idle", "draining", "handling"}
<1>1. JobInit => JobTypeOK
  <2>1. JobInit => Flags
    BY Zenon DEF JobInit
  <2>2. JobInit => Counts /\ Pushing /\ Worker
    BY DEF JobInit
  <2> QED
    BY <2>1, <2>2 DEF JobTypeOK
<1>2. JobTypeOK /\ [JobNext]_jobVars => JobTypeOK'
  <2> SUFFICES ASSUME JobTypeOK, [JobNext]_jobVars PROVE JobTypeOK'
    OBVIOUS
  <2> USE DEF JobTypeOK
  <2>1. ASSUME NEW p \in Pushers, PushJob(p) PROVE JobTypeOK'
    BY <2>1 DEF PushJob, PushTo
  <2>2. ASSUME NEW p \in Pushers, Notify(p) PROVE JobTypeOK'
    <3>1. Flags'
      BY <2>2, Zenon DEF Notify, Publish
    <3>2. Counts' /\ Pushing' /\ Worker'
      BY <2>2 DEF Notify, Publish
    <3> QED
      BY <3>1, <3>2
  <2>3. ASSUME NEW p \in Pushers, ExpireNew(p) PROVE JobTypeOK'
    BY <2>3 DEF ExpireNew
  <2>4. CASE ListExpires \/ \E p \in Pushers : PushBroken(p)
    <3>1. Flags'
      BY <2>4, Zenon DEF ListExpires, PushBroken
    <3>2. Counts' /\ Pushing' /\ Worker'
      BY <2>4 DEF ListExpires, PushBroken
    <3> QED
      BY <3>1, <3>2
  <2>5. CASE Subscribe \/ TakeNotice \/ PopJob \/ HandleJob \/ Drained
    <3> USE DEF Subscribe, TakeNotice, PopJob, PopOne, HandleJob, Drained, PopperMoves
    <3>1. Flags'
      BY <2>5, Zenon
    <3>2. Counts' /\ Pushing' /\ Worker'
      BY <2>5
    <3> QED
      BY <3>1, <3>2
  <2>6. CASE PopFails \/ PopperReplaced
    <3> USE DEF PopFails, PopOne, PopperReplaced
    <3>1. Flags'
      BY <2>6, Zenon
    <3>2. Counts' /\ Pushing' /\ Worker'
      BY <2>6
    <3> QED
      BY <3>1, <3>2
  <2>7. CASE UNCHANGED jobVars
    BY <2>7 DEF jobVars
  <2>8. ASSUME NEW p \in Pushers, PushFails(p) PROVE JobTypeOK'
    <3>1. Flags'
      BY <2>8, Zenon DEF PushFails
    <3>2. Counts' /\ Pushing' /\ Worker'
      BY <2>8 DEF PushFails
    <3> QED
      BY <3>1, <3>2
  <2> QED
    BY <2>1, <2>2, <2>3, <2>4, <2>5, <2>6, <2>7, <2>8 DEF JobNext
<1> QED
  BY <1>1, <1>2, PTL DEF JobSpec

-----------------------------------------------------------------------------
(* No lost wake-up *)

ToNotify == \E p \in Pushers : push[p] = "notify"

\* What NoStrandedJob says of a worker that waits also holds of one that has
\* not subscribed yet, and has no notification: it is what the worker finds
\* when it has subscribed.
NoneStranded ==
  /\ popper = "starting" => notices = 0
  /\ listLen > 0 /\ popper \in {"starting", "idle"} /\ notices = 0 =>
       missed \/ failed \/ ToNotify

\* A push leaves a notification to come, a notification reaches the worker or
\* is missed, and a worker goes back to its select only when the list is empty
\* or LPOP has failed.
LEMMA NextNoneStranded ==
  ASSUME JobTypeOK, NoneStranded, [JobNext]_jobVars
  PROVE  NoneStranded'
<1> USE DEF JobTypeOK, NoneStranded, ToNotify
<1>1. ASSUME NEW p \in Pushers, PushJob(p) PROVE NoneStranded'
  <2>1. push'[p] = "notify"
    BY <1>1 DEF PushJob, PushTo
  <2> QED
    BY <1>1, <2>1 DEF PushJob, PushTo
<1>2. ASSUME NEW p \in Pushers, Notify(p) PROVE NoneStranded'
  BY <1>2 DEF Notify, Publish
<1>3. ASSUME NEW p \in Pushers, ExpireNew(p) PROVE NoneStranded'
  <2>1. ToNotify => ToNotify'
    BY <1>3 DEF ExpireNew
  <2> QED
    BY <1>3, <2>1 DEF ExpireNew
<1>4. CASE ListExpires
  BY <1>4 DEF ListExpires
<1>5. CASE Subscribe \/ TakeNotice \/ PopJob \/ HandleJob \/ Drained
  BY <1>5 DEF Subscribe, TakeNotice, PopJob, PopOne, HandleJob, Drained, PopperMoves
<1>6. CASE PopFails \/ PopperReplaced
  BY <1>6 DEF PopFails, PopOne, PopperReplaced
<1>7. CASE UNCHANGED jobVars
  BY <1>7 DEF jobVars
<1>8. ASSUME NEW p \in Pushers, PushBroken(p) PROVE NoneStranded'
  <2>1. CASE push[p] = "notify"
    BY <1>8, <2>1, Zenon DEF PushBroken
  <2>2. CASE push[p] = "expire"
    <3>1. ToNotify => ToNotify'
      BY <1>8, <2>2 DEF PushBroken
    <3> QED
      BY <1>8, <3>1 DEF PushBroken
  <2> QED
    BY <1>8, <2>1, <2>2 DEF PushBroken
<1>9. ASSUME NEW p \in Pushers, PushFails(p) PROVE NoneStranded'
  <2>1. ToNotify => ToNotify'
    BY <1>9 DEF PushFails
  <2> QED
    BY <1>9, <2>1 DEF PushFails
<1> QED
  BY <1>1, <1>2, <1>3, <1>4, <1>5, <1>6, <1>7, <1>8, <1>9 DEF JobNext

\* For any pushes: jobs wait beside an idle worker only with a notification in
\* its channel or to come, or after one was missed or never sent or a pop has
\* failed.
THEOREM WakeUps == JobSpec => []NoStrandedJob
<1>1. JobInit => NoneStranded
  BY DEF JobInit, NoneStranded
<1>2. JobTypeOK /\ NoneStranded /\ [JobNext]_jobVars => NoneStranded'
  BY NextNoneStranded
<1>3. NoneStranded => NoStrandedJob
  BY DEF NoneStranded, NoStrandedJob, ToNotify
<1> QED
  BY <1>1, <1>2, <1>3, JobTypeCorrect, PTL DEF JobSpec

-----------------------------------------------------------------------------
(* The time to live of the list *)

\* ListWillExpire is inductive: only the first push onto an empty list finds it
\* new, and only an EXPIRE on a list that is there sets its time to live.
LEMMA NextListWillExpire ==
  ASSUME JobTypeOK, ListWillExpire, [JobNext]_jobVars
  PROVE  ListWillExpire'
<1> USE DEF JobTypeOK, ListWillExpire
<1>1. ASSUME NEW p \in Pushers, PushJob(p) PROVE ListWillExpire'
  <2>1. CASE listLen = 0
    <3>1. listLen + 1 < 2
      BY <2>1
    <3>2. newList'[p] /\ push'[p] = "notify"
      BY <1>1, <3>1, Zenon DEF PushJob, PushTo
    <3> QED
      BY <3>2
  <2>2. CASE listLen > 0
    BY <1>1, <2>2 DEF PushJob, PushTo
  <2> QED
    BY <2>1, <2>2
<1>2. ASSUME NEW p \in Pushers, Notify(p) PROVE ListWillExpire'
  BY <1>2 DEF Notify, Publish
<1>3. ASSUME NEW p \in Pushers, ExpireNew(p) PROVE ListWillExpire'
  BY <1>3 DEF ExpireNew
<1>4. CASE ListExpires
  BY <1>4 DEF ListExpires
<1>5. CASE Subscribe \/ TakeNotice \/ PopJob \/ HandleJob \/ Drained
  BY <1>5 DEF Subscribe, TakeNotice, PopJob, PopOne, HandleJob, Drained, PopperMoves
<1>6. CASE PopFails \/ PopperReplaced
  BY <1>6 DEF PopFails, PopOne, PopperReplaced
<1>7. CASE UNCHANGED jobVars
  BY <1>7 DEF jobVars
<1>8. ASSUME NEW p \in Pushers, PushBroken(p) PROVE ListWillExpire'
  <2>1. CASE newList[p] /\ push'[p] = "done"
    BY <1>8, <2>1, Zenon DEF PushBroken
  <2>2. CASE newList[p] /\ push'[p] = "expire"
    <3>1. newList'[p] /\ push'[p] \in {"notify", "expire"}
      BY <1>8, <2>2 DEF PushBroken
    <3> QED
      BY <3>1
  <2>3. CASE ~newList[p]
    BY <1>8, <2>3 DEF PushBroken
  <2>4. push'[p] \in {"done", "expire"}
    BY <1>8 DEF PushBroken
  <2> QED
    BY <2>1, <2>2, <2>3, <2>4
<1>9. ASSUME NEW p \in Pushers, PushFails(p) PROVE ListWillExpire'
  <2>1. newList'[p] /\ push'[p] = "expire"
    BY <1>9 DEF PushFails
  <2> QED
    BY <2>1
<1> QED
  BY <1>1, <1>2, <1>3, <1>4, <1>5, <1>6, <1>7, <1>8, <1>9 DEF JobNext

\* For any pushes, in whatever order their RPUSH, PUBLISH and EXPIRE come: a
\* list has a time to live, or is about to be given one, or an EXPIRE was left
\* out since it was last empty.
THEOREM ListsExpire == JobSpec => []ListWillExpire
<1>1. JobInit => ListWillExpire
  BY DEF JobInit, ListWillExpire
<1>2. JobTypeOK /\ ListWillExpire /\ [JobNext]_jobVars => ListWillExpire'
  BY NextListWillExpire
<1> QED
  BY <1>1, <1>2, JobTypeCorrect, PTL DEF JobSpec

-----------------------------------------------------------------------------
(* Requests: types *)

Stages == {"new", "general", "specific", "exceed", "count", "mark", "run", "done"}

RequestTypes ==
  /\ now \in Nat /\ now >= 1
  /\ asked \in [Interactions -> CommandNames \cup {Unseen}]
  /\ stage \in [Deliveries -> Stages]
  /\ stampOf \in [Deliveries -> Nat]
  /\ general \in Nat /\ specific \in [CommandNames -> Nat]
  /\ exceeded \subseteq 1..now /\ banned \in Nat
  /\ snowflake \in [Interactions -> [by : Deliveries \cup {Free}, until : Nat]]
  /\ runs \subseteq [of : Deliveries, at : Nat, raced : BOOLEAN]
  /\ dialogs \subseteq 0..now /\ cooldown \in Nat
  /\ downloads \subseteq [at : 0..now, opened : Nat]

-----------------------------------------------------------------------------
(* The lock of an interaction *)

\* Who is past the lock holds it, until it runs out.
PastLock == {"general", "specific", "exceed", "count", "mark", "run"}
Held == \A d \in Deliveries :
          stage[d] \in PastLock /\ d[1] \notin lapsed => snowflake[d[1]].by = d

(* The marks *)

\* From the check of the command's own limit on, it is known which command it is.
Named == \A d \in Deliveries : stage[d] \in {"mark", "run"} => Name(d) \in CommandNames

\* Every run has marked both limits, which are never set back.
Marked ==
  \A r \in runs :
    /\ r.at <= now
    /\ r.at + 1 <= general
    /\ Name(r.of) \in CommandNames
    /\ r.at + Ttl(Name(r.of)) <= specific[Name(r.of)]

\* A delivery that has passed a check comes after the limits of the runs ...
Late(d, r) ==
  /\ stage[d] \in {"specific", "mark"} => r.at + 1 <= now
  /\ stage[d] = "mark" /\ Name(r.of) = Name(d) => r.at + Ttl(Name(d)) <= now

\* ... unless a run was marked after the check, by which the lock of the
\* interaction, while it lasts, keeps out the runs of the same one.
PastChecks ==
  \A d \in Deliveries, r \in runs :
    d \notin raced \/ (r.of[1] = d[1] /\ d[1] \notin lapsed) => Late(d, r)

(* Violations *)

\* The violations that count at a time.
Recent(n) == {t \in exceeded : t + SoftbanExpiration >= n}

\* Too many of them have led to a ban, or the last who violated has still to count.
CountDue ==
  \/ banned # 0
  \/ Cardinality(Recent(now)) <= SoftbanThreshold
  \/ \E d \in Deliveries : stage[d] = "count" /\ \A t \in exceeded : t <= stampOf[d]

BanDeserved == banned # 0 => Cardinality(exceeded) > SoftbanThreshold

(* Downloads *)

\* A dialog was opened before a download, or after its cooldown.
Cooled ==
  /\ \A b \in downloads : b.opened <= b.at /\ b.opened \in dialogs
  /\ \A a \in downloads : a.at + GuildDownloadCooldown <= cooldown
  /\ \A o \in dialogs, a \in downloads : o <= a.at \/ o >= a.at + GuildDownloadCooldown

RequestInv == /\ RequestTypes
              /\ Held /\ Named /\ Marked /\ PastChecks /\ RunsApart /\ HandledOnce
              /\ CountDue /\ BanDeserved /\ Cooled

-----------------------------------------------------------------------------
(* What the steps of a delivery do *)

\* A step of a delivery moves it alone and takes no time.
LEMMA MovesEffect ==
  ASSUME RequestTypes, NEW d \in Deliveries, NEW from, NEW to \in Stages, Moves(d, from, to)
  PROVE  /\ stage[d] = from /\ stage' = [stage EXCEPT ![d] = to]
         /\ stage' \in [Deliveries -> Stages] /\ stage'[d] = to
         /\ \A x \in Deliveries \ {d} : stage'[x] = stage[x]
         /\ now' = now
BY DEF RequestTypes, Moves

\* The lock of an interaction is given back by the one who holds it.
LEMMA ReleaseEffect ==
  ASSUME RequestTypes, NEW d \in Deliveries, ReleaseSnowflake(d)
  PROVE  /\ snowflake' \in [Interactions -> [by : Deliveries \cup {Free}, until : Nat]]
         /\ \A i \in Interactions : snowflake[i].by # d => snowflake'[i] = snowflake[i]
<1>1. d[1] \in Interactions BY RequestAssumption
<1>2. [by |-> Free, until |-> 0] \in [by : Deliveries \cup {Free}, until : Nat] OBVIOUS
<1> QED BY <1>1, <1>2 DEF ReleaseSnowflake, RequestTypes

\* Which command it is does not change once it is known.
LEMMA SpecificEffect ==
  ASSUME RequestTypes, NEW d \in Deliveries, IsUserRateLimitedSpecific(d)
  PROVE  /\ asked' \in [Interactions -> CommandNames \cup {Unseen}]
         /\ Name(d)' \in CommandNames
         /\ \A x \in Deliveries : Name(x) \in CommandNames => Name(x)' = Name(x)
         /\ \/ Moves(d, "specific", "exceed")
            \/ Moves(d, "specific", "mark") /\ specific[Name(d)'] <= now
<1>0. d[1] \in Interactions /\ \A x \in Deliveries : x[1] \in Interactions
  BY RequestAssumption
<1>1. PICK n \in IF Name(d) = Unseen THEN CommandNames ELSE {Name(d)} :
        asked' = [asked EXCEPT ![d[1]] = n]
  BY DEF IsUserRateLimitedSpecific
<1>2. n \in CommandNames BY <1>0, <1>1 DEF RequestTypes, Name
<1>3. asked' \in [Interactions -> CommandNames \cup {Unseen}] /\ asked'[d[1]] = n
  BY <1>0, <1>1, <1>2 DEF RequestTypes
<1>4. Name(d)' = n BY <1>3 DEF Name
<1>5. ASSUME NEW x \in Deliveries, Name(x) \in CommandNames PROVE Name(x)' = Name(x)
  <2>1. CASE x[1] = d[1]
    <3>1. Name(d) # Unseen BY <1>5, <2>1 DEF Name, CommandNames, Unseen
    <3> QED BY <1>1, <1>3, <2>1, <3>1 DEF Name
  <2>2. CASE x[1] # d[1] BY <1>0, <1>1, <2>2 DEF Name, RequestTypes
  <2> QED BY <2>1, <2>2
<1>6. now \in Nat /\ specific[n] \in Nat BY <1>2 DEF RequestTypes
<1>7. \/ Moves(d, "specific", "exceed")
      \/ Moves(d, "specific", "mark") /\ specific[n] <= now
  BY <1>3, <1>6 DEF IsUserRateLimitedSpecific
<1> QED BY <1>2, <1>3, <1>4, <1>5, <1>7

\* One of the commands is marked, and everybody past a check is told.
LEMMA MarkEffect ==
  ASSUME RequestTypes, Named, NEW d \in Deliveries, MarkUserRateLimit(d)
  PROVE  /\ Moves(d, "mark", "run")
         /\ Name(d) \in CommandNames
         /\ Ttl(Name(d)) \in Nat /\ Ttl(Name(d)) >= 1
         /\ general' = now + 1
         /\ specific' = [specific EXCEPT ![Name(d)] = now + Ttl(Name(d))]
         /\ runs' = runs \cup {[of |-> d, at |-> now, raced |-> d \in raced]}
         /\ raced' = raced \cup (Passing \ {d})
         /\ asked' = asked /\ lapsed' = lapsed
<1>1. Moves(d, "mark", "run") BY DEF MarkUserRateLimit
<1>2. Name(d) \in CommandNames BY <1>1 DEF Named, Moves
<1> QED BY <1>1, <1>2 DEF MarkUserRateLimit, Ttl

LEMMA RaceFlag == ASSUME NEW d PROVE (d \in raced) \in BOOLEAN
OBVIOUS

LEMMA RequestTypeStep ==
  ASSUME RequestTypes, Named, [RequestNext]_requestVars PROVE RequestTypes'
<1> USE RequestAssumption
<1>1. ASSUME NEW d \in Deliveries, LockSnowflake(d) \/ Ignored(d) PROVE RequestTypes'
  <2>1. PICK to \in {"general", "done"} : Moves(d, "new", to)
    BY <1>1 DEF LockSnowflake, Ignored, Obtains
  <2>2. stage' \in [Deliveries -> Stages] /\ now' = now
    BY <2>1, MovesEffect DEF Stages
  <2>3. [by |-> d, until |-> now + SnowflakeLock] \in [by : Deliveries \cup {Free}, until : Nat]
    BY DEF RequestTypes
  <2>4. snowflake' \in [Interactions -> [by : Deliveries \cup {Free}, until : Nat]]
    BY <1>1, <2>3 DEF LockSnowflake, Ignored, RequestTypes
  <2> QED BY <1>1, <2>2, <2>4
      DEF LockSnowflake, Ignored, Obtains, RequestTypes, limitVars, runVars, downloadVars
<1>2. ASSUME NEW d \in Deliveries, IsUserRateLimitedGeneral(d) PROVE RequestTypes'
  <2>1. PICK to \in {"exceed", "specific"} : Moves(d, "general", to)
    BY <1>2 DEF IsUserRateLimitedGeneral
  <2>2. stage' \in [Deliveries -> Stages] /\ now' = now
    BY <2>1, MovesEffect DEF Stages
  <2> QED BY <1>2, <2>2
      DEF IsUserRateLimitedGeneral, RequestTypes, limitVars, runVars, downloadVars
<1>3. ASSUME NEW d \in Deliveries, IsUserRateLimitedSpecific(d) PROVE RequestTypes'
  <2>1. PICK to \in {"exceed", "mark"} : Moves(d, "specific", to)
    BY <1>3, SpecificEffect
  <2>2. stage' \in [Deliveries -> Stages] /\ now' = now
    BY <2>1, MovesEffect DEF Stages
  <2>3. asked' \in [Interactions -> CommandNames \cup {Unseen}] BY <1>3, SpecificEffect
  <2> QED BY <1>3, <2>2, <2>3
      DEF IsUserRateLimitedSpecific, RequestTypes, limitVars, runVars, downloadVars
<1>4. ASSUME NEW d \in Deliveries, Exceed(d) PROVE RequestTypes'
  <2>1. stage' \in [Deliveries -> Stages] /\ now' = now
    BY <1>4, MovesEffect DEF Stages, Exceed
  <2>2. exceeded' \subseteq 1..now
    <3>1. now \in 1..now /\ exceeded \subseteq 1..now BY DEF RequestTypes
    <3>2. exceeded' = exceeded \cup {now} BY <1>4 DEF Exceed
    <3> QED BY <3>1, <3>2
  <2>3. stampOf' \in [Deliveries -> Nat] BY <1>4 DEF Exceed, RequestTypes
  <2> QED BY <1>4, <2>1, <2>2, <2>3 DEF Exceed, RequestTypes, runVars, downloadVars
<1>5. ASSUME NEW d \in Deliveries, BanIfExceeded(d) PROVE RequestTypes'
  <2>1. stage' \in [Deliveries -> Stages] /\ now' = now
    BY <1>5, MovesEffect DEF Stages, BanIfExceeded, Ban
  <2>2. snowflake' \in [Interactions -> [by : Deliveries \cup {Free}, until : Nat]]
    BY <1>5, ReleaseEffect DEF BanIfExceeded, Ban
  <2> QED BY <1>5, <2>1, <2>2 DEF BanIfExceeded, Ban, RequestTypes, runVars, downloadVars
<1>6. ASSUME NEW d \in Deliveries, MarkUserRateLimit(d) PROVE RequestTypes'
  <2>1. stage' \in [Deliveries -> Stages] /\ now' = now
    BY <1>6, MovesEffect DEF Stages, MarkUserRateLimit
  <2>2. PICK f \in BOOLEAN : f = (d \in raced) BY RaceFlag
  <2>3. runs' \subseteq [of : Deliveries, at : Nat, raced : BOOLEAN]
    <3>1. runs' = runs \cup {[of |-> d, at |-> now, raced |-> f]} BY <1>6, <2>2, MarkEffect
    <3> QED BY <3>1 DEF RequestTypes
  <2>4. general' \in Nat /\ specific' \in [CommandNames -> Nat]
    BY <1>6, MarkEffect DEF RequestTypes
  <2> QED BY <1>6, <2>1, <2>3, <2>4 DEF MarkUserRateLimit, RequestTypes, downloadVars
<1>7. ASSUME NEW d \in Deliveries, Perform(d) PROVE RequestTypes'
  <2>1. stage' \in [Deliveries -> Stages] /\ now' = now
    BY <1>7, MovesEffect DEF Stages, Perform
  <2>2. snowflake' \in [Interactions -> [by : Deliveries \cup {Free}, until : Nat]]
    BY <1>7, ReleaseEffect DEF Perform
  <2> QED BY <1>7, <2>1, <2>2 DEF Perform, RequestTypes, limitVars, runVars, downloadVars
<1>8. ASSUME AskForDownload \/ ConfirmDownload PROVE RequestTypes'
  <2>1. dialogs' \subseteq 0..now
    <3>1. now \in 0..now /\ dialogs \subseteq 0..now BY DEF RequestTypes
    <3>2. dialogs' = dialogs \cup {now} \/ dialogs' = dialogs
      BY <1>8 DEF AskForDownload, ConfirmDownload
    <3> QED BY <3>1, <3>2
  <2>2. cooldown' \in Nat BY <1>8 DEF AskForDownload, ConfirmDownload, RequestTypes
  <2>3. downloads' \subseteq [at : 0..now, opened : Nat]
    BY <1>8 DEF AskForDownload, ConfirmDownload, RequestTypes
  <2>4. OnlyDownloads BY <1>8 DEF AskForDownload, ConfirmDownload
  <2> QED BY <2>1, <2>2, <2>3, <2>4 DEF OnlyDownloads, RequestTypes, limitVars, runVars
<1>9. ASSUME Tick PROVE RequestTypes'
  <2>1. [by |-> Free, until |-> 0] \in [by : Deliveries \cup {Free}, until : Nat] OBVIOUS
  <2>2. snowflake' \in [Interactions -> [by : Deliveries \cup {Free}, until : Nat]]
    BY <1>9, <2>1 DEF Tick, RequestTypes
  <2>3. now' = now + 1 /\ now' \in Nat /\ 1..now \subseteq 1..now' /\ 0..now \subseteq 0..now'
    BY <1>9 DEF Tick, RequestTypes
  <2> QED BY <1>9, <2>2, <2>3 DEF Tick, RequestTypes, limitVars, runVars, downloadVars
<1>10. ASSUME UNCHANGED requestVars PROVE RequestTypes'
  BY <1>10 DEF requestVars, RequestTypes
<1> QED BY <1>1, <1>2, <1>3, <1>4, <1>5, <1>6, <1>7, <1>8, <1>9, <1>10 DEF RequestNext

-----------------------------------------------------------------------------
(* The lock and the marks *)

LEMMA HeldStep ==
  ASSUME RequestTypes, Named, Held, [RequestNext]_requestVars PROVE Held'
<1> USE RequestAssumption
<1> SUFFICES ASSUME NEW x \in Deliveries, stage'[x] \in PastLock, x[1] \notin lapsed'
             PROVE  snowflake'[x[1]].by = x
  BY DEF Held
<1>0. x[1] \in Interactions /\ (stage[x] \in PastLock /\ x[1] \notin lapsed => snowflake[x[1]].by = x)
  BY DEF Held
<1>1. ASSUME NEW d \in Deliveries, LockSnowflake(d) PROVE snowflake'[x[1]].by = x
  <2>1. Moves(d, "new", "general") /\ snowflake[d[1]].by = Free /\ lapsed' = lapsed
        /\ snowflake' = [snowflake EXCEPT ![d[1]] = [by |-> d, until |-> now + SnowflakeLock]]
    BY <1>1 DEF LockSnowflake, Obtains
  <2>2. CASE x = d BY <1>0, <2>1, <2>2 DEF RequestTypes
  <2>3. CASE x # d
    <3>1. snowflake[x[1]].by = x BY <1>0, <2>1, <2>3, MovesEffect DEF Stages
    <3>2. x[1] # d[1] BY <2>1, <3>1
    <3> QED BY <1>0, <2>1, <3>1, <3>2 DEF RequestTypes
  <2> QED BY <2>2, <2>3
<1>2. ASSUME NEW d \in Deliveries, NEW from \in PastLock, NEW to \in Stages, Moves(d, from, to),
             lapsed' = lapsed, snowflake' = snowflake
      PROVE  snowflake'[x[1]].by = x
  BY <1>0, <1>2, MovesEffect
<1>3. ASSUME NEW d \in Deliveries, Ignored(d) PROVE snowflake'[x[1]].by = x
  <2>1. Moves(d, "new", "done") /\ snowflake' = snowflake /\ lapsed' = lapsed
    BY <1>3 DEF Ignored, Obtains
  <2> QED BY <1>0, <2>1, MovesEffect DEF Stages, PastLock
<1>4. ASSUME NEW d \in Deliveries, BanIfExceeded(d) \/ Perform(d) PROVE snowflake'[x[1]].by = x
  <2>1. PICK from \in PastLock : Moves(d, from, "done")
    BY <1>4 DEF BanIfExceeded, Ban, Perform, PastLock
  <2>2. ReleaseSnowflake(d) /\ lapsed' = lapsed BY <1>4 DEF BanIfExceeded, Ban, Perform
  <2>3. x # d /\ stage'[x] = stage[x] BY <2>1, MovesEffect DEF Stages, PastLock
  <2>4. snowflake[x[1]].by = x BY <1>0, <2>2, <2>3
  <2> QED BY <1>0, <2>2, <2>3, <2>4, ReleaseEffect
<1>5. ASSUME NEW d \in Deliveries, IsUserRateLimitedGeneral(d) PROVE snowflake'[x[1]].by = x
  <2>1. PICK to \in Stages : Moves(d, "general", to)
    BY <1>5 DEF IsUserRateLimitedGeneral, Stages
  <2> QED BY <1>2, <1>5, <2>1 DEF IsUserRateLimitedGeneral, PastLock
<1>6. ASSUME NEW d \in Deliveries, IsUserRateLimitedSpecific(d) PROVE snowflake'[x[1]].by = x
  <2>1. PICK to \in Stages : Moves(d, "specific", to) BY <1>6, SpecificEffect DEF Stages
  <2> QED BY <1>2, <1>6, <2>1 DEF IsUserRateLimitedSpecific, PastLock
<1>7. ASSUME NEW d \in Deliveries, Exceed(d) PROVE snowflake'[x[1]].by = x
  BY <1>2, <1>7 DEF Exceed, PastLock, Stages
<1>8. ASSUME NEW d \in Deliveries, MarkUserRateLimit(d) PROVE snowflake'[x[1]].by = x
  BY <1>2, <1>8 DEF MarkUserRateLimit, PastLock, Stages
<1>9. ASSUME AskForDownload \/ ConfirmDownload \/ UNCHANGED requestVars
      PROVE  snowflake'[x[1]].by = x
  BY <1>0, <1>9 DEF AskForDownload, ConfirmDownload, OnlyDownloads, requestVars
<1>10. ASSUME Tick PROVE snowflake'[x[1]].by = x
  BY <1>0, <1>10 DEF Tick, RequestTypes
<1> QED BY <1>1, <1>3, <1>4, <1>5, <1>6, <1>7, <1>8, <1>9, <1>10 DEF RequestNext

\* A step that neither runs a command nor checks a limit.
Aside ==
  /\ \A x \in Deliveries : stage'[x] \in {"specific", "mark", "run"} => stage'[x] = stage[x]
  /\ asked' = asked /\ runs' = runs /\ raced' = raced
  /\ general' = general /\ specific' = specific
  /\ lapsed \subseteq lapsed' /\ now <= now'

LEMMA QuietSteps ==
  ASSUME RequestTypes, Named, [RequestNext]_requestVars
  PROVE  \/ Aside
         \/ \E d \in Deliveries : \/ IsUserRateLimitedGeneral(d)
                                  \/ IsUserRateLimitedSpecific(d)
                                  \/ MarkUserRateLimit(d)
<1>1. ASSUME NEW d \in Deliveries, LockSnowflake(d) \/ Ignored(d) PROVE Aside
  <2>1. PICK to \in {"general", "done"} : Moves(d, "new", to)
    BY <1>1 DEF LockSnowflake, Ignored, Obtains
  <2>2. \A x \in Deliveries \ {d} : stage'[x] = stage[x] BY <2>1, MovesEffect DEF Stages
  <2>3. stage'[d] = to /\ now' = now BY <2>1, MovesEffect DEF Stages
  <2> QED BY <1>1, <2>2, <2>3
      DEF LockSnowflake, Ignored, Obtains, limitVars, runVars, Aside, RequestTypes
<1>2. ASSUME NEW d \in Deliveries, Exceed(d) \/ BanIfExceeded(d) \/ Perform(d) PROVE Aside
  <2>1. PICK from \in Stages, to \in {"count", "done"} : Moves(d, from, to)
    BY <1>2 DEF Exceed, BanIfExceeded, Ban, Perform, Stages
  <2>2. \A x \in Deliveries \ {d} : stage'[x] = stage[x] BY <2>1, MovesEffect DEF Stages
  <2>3. stage'[d] = to /\ now' = now BY <2>1, MovesEffect DEF Stages
  <2> QED BY <1>2, <2>2, <2>3
      DEF Exceed, BanIfExceeded, Ban, Perform, limitVars, runVars, Aside, RequestTypes
<1>3. ASSUME AskForDownload \/ ConfirmDownload \/ UNCHANGED requestVars PROVE Aside
  BY <1>3 DEF AskForDownload, ConfirmDownload, OnlyDownloads, requestVars,
              limitVars, runVars, Aside, RequestTypes
<1>4. ASSUME Tick PROVE Aside
  BY <1>4 DEF Tick, limitVars, runVars, Aside, RequestTypes
<1> QED BY <1>1, <1>2, <1>3, <1>4 DEF RequestNext

LEMMA NamedStep ==
  ASSUME RequestTypes, Named, [RequestNext]_requestVars PROVE Named'
<1>1. CASE Aside BY <1>1 DEF Aside, Named, Name
<1>2. ASSUME NEW d \in Deliveries, IsUserRateLimitedGeneral(d) PROVE Named'
  <2>1. PICK to \in {"exceed", "specific"} : Moves(d, "general", to)
    BY <1>2 DEF IsUserRateLimitedGeneral
  <2>2. asked' = asked BY <1>2 DEF IsUserRateLimitedGeneral
  <2> QED BY <2>1, <2>2, MovesEffect DEF Named, Name, Stages
<1>3. ASSUME NEW d \in Deliveries, IsUserRateLimitedSpecific(d) PROVE Named'
  <2>1. PICK to \in {"exceed", "mark"} : Moves(d, "specific", to) BY <1>3, SpecificEffect
  <2>2. \A x \in Deliveries : Name(x) \in CommandNames => Name(x)' = Name(x)
    BY <1>3, SpecificEffect
  <2>3. Name(d)' \in CommandNames BY <1>3, SpecificEffect
  <2>4. \A x \in Deliveries \ {d} : stage'[x] = stage[x] BY <2>1, MovesEffect DEF Stages
  <2>5. \A x \in Deliveries : stage'[x] \in {"mark", "run"} => Name(x)' \in CommandNames
    BY <2>2, <2>3, <2>4 DEF Named
  <2> QED BY <2>5 DEF Named, Name
<1>4. ASSUME NEW d \in Deliveries, MarkUserRateLimit(d) PROVE Named'
  <2>1. Moves(d, "mark", "run") /\ asked' = asked BY <1>4, MarkEffect
  <2> QED BY <2>1, MovesEffect DEF Named, Name, Stages
<1> QED BY <1>1, <1>2, <1>3, <1>4, QuietSteps

LEMMA MarkedStep ==
  ASSUME RequestTypes, Named, Marked, [RequestNext]_requestVars PROVE Marked'
<1>1. CASE Aside
  <2>1. now' \in Nat BY RequestTypeStep DEF RequestTypes
  <2> QED BY <1>1, <2>1 DEF Aside, Marked, Name, RequestTypes
<1>2. ASSUME NEW d \in Deliveries, IsUserRateLimitedGeneral(d) PROVE Marked'
  <2>1. now' = now BY <1>2 DEF IsUserRateLimitedGeneral, Moves
  <2> QED BY <1>2, <2>1 DEF IsUserRateLimitedGeneral, Marked, Name, limitVars, runVars
<1>3. ASSUME NEW d \in Deliveries, IsUserRateLimitedSpecific(d) PROVE Marked'
  <2>1. \A x \in Deliveries : Name(x) \in CommandNames => Name(x)' = Name(x)
    BY <1>3, SpecificEffect
  <2>2. now' = now /\ runs' = runs /\ general' = general /\ specific' = specific
    BY <1>3 DEF IsUserRateLimitedSpecific, Moves, limitVars, runVars
  <2>3. \A r \in runs : r.of \in Deliveries BY DEF RequestTypes
  <2>4. \A r \in runs : Name(r.of)' = Name(r.of) BY <2>1, <2>3 DEF Marked
  <2> QED BY <2>2, <2>4 DEF Marked, Name
<1>4. ASSUME NEW d \in Deliveries, MarkUserRateLimit(d) PROVE Marked'
  <2> SUFFICES ASSUME NEW r \in runs'
               PROVE  /\ r.at <= now' /\ r.at + 1 <= general'
                      /\ Name(r.of)' \in CommandNames
                      /\ r.at + Ttl(Name(r.of)') <= specific'[Name(r.of)']
    BY DEF Marked, Name
  <2>1. /\ now' = now /\ now \in Nat /\ general \in Nat /\ specific \in [CommandNames -> Nat]
        /\ general' = now + 1
        /\ specific' = [specific EXCEPT ![Name(d)] = now + Ttl(Name(d))]
        /\ Name(d) \in CommandNames /\ \A n \in CommandNames : Ttl(n) \in Nat
    BY <1>4, MarkEffect DEF Moves, RequestTypes, Ttl
  <2>2. Name(r.of)' = Name(r.of) BY <1>4, MarkEffect DEF Name
  <2>3. CASE r \in runs
    <3>1. /\ r.at \in Nat /\ r.at <= now /\ Name(r.of) \in CommandNames
          /\ r.at + Ttl(Name(r.of)) <= specific[Name(r.of)]
      BY <2>3 DEF Marked, RequestTypes
    <3>2. CASE Name(r.of) = Name(d) BY <2>1, <2>2, <3>1, <3>2
    <3>3. CASE Name(r.of) # Name(d) BY <2>1, <2>2, <3>1, <3>3
    <3> QED BY <3>2, <3>3
  <2>4. CASE r \notin runs
    <3>1. r.of = d /\ r.at = now BY <1>4, <2>4, MarkEffect
    <3> QED BY <2>1, <2>2, <3>1
  <2> QED BY <2>3, <2>4
<1> QED BY <1>1, <1>2, <1>3, <1>4, QuietSteps

LEMMA CheckedStep ==
  ASSUME RequestTypes, Held, Named, Marked, PastChecks, [RequestNext]_requestVars PROVE PastChecks'
<1> SUFFICES ASSUME NEW x \in Deliveries, NEW r \in runs',
                    x \notin raced' \/ (r.of[1] = x[1] /\ x[1] \notin lapsed')
             PROVE  Late(x, r)'
  BY DEF PastChecks
<1>0. r \in runs => r.of \in Deliveries /\ r.at \in Nat BY DEF RequestTypes
<1>1. CASE Aside
  <2>1. r \in runs /\ (x \notin raced \/ (r.of[1] = x[1] /\ x[1] \notin lapsed))
    BY <1>1 DEF Aside
  <2>2. Late(x, r) BY <2>1 DEF PastChecks
  <2>3. now \in Nat /\ now' \in Nat /\ Name(x)' = Name(x) /\ Name(r.of)' = Name(r.of)
    BY <1>1, RequestTypeStep DEF RequestTypes, Aside, Name
  <2>4. stage'[x] = "mark" => Ttl(Name(x)) \in Nat BY <1>1 DEF Ttl
  <2> QED BY <1>0, <1>1, <2>1, <2>2, <2>3, <2>4 DEF Aside, Late
<1>2. ASSUME NEW d \in Deliveries, IsUserRateLimitedGeneral(d) PROVE Late(x, r)'
  <2>1. PICK to \in {"exceed", "specific"} :
          Moves(d, "general", to) /\ (to = "specific" => general <= now)
    BY <1>2 DEF IsUserRateLimitedGeneral, RequestTypes
  <2>2. asked' = asked /\ runs' = runs /\ raced' = raced /\ lapsed' = lapsed /\ now' = now
    BY <1>2, <2>1, MovesEffect DEF IsUserRateLimitedGeneral, limitVars, runVars, Stages
  <2>3. CASE x = d
    <3>1. stage'[x] = to BY <2>1, <2>3, MovesEffect DEF Stages
    <3>2. to = "specific" => r.at + 1 <= now BY <1>0, <2>1, <2>2 DEF Marked, RequestTypes
    <3> QED BY <2>2, <3>1, <3>2 DEF Late
  <2>4. CASE x # d
    <3>1. stage'[x] = stage[x] BY <2>1, <2>4, MovesEffect DEF Stages
    <3> QED BY <2>2, <3>1 DEF Late, PastChecks, Name
  <2> QED BY <2>3, <2>4
<1>3. ASSUME NEW d \in Deliveries, IsUserRateLimitedSpecific(d) PROVE Late(x, r)'
  <2>1. PICK to \in {"exceed", "mark"} :
          Moves(d, "specific", to) /\ (to = "mark" => specific[Name(d)'] <= now)
    BY <1>3, SpecificEffect
  <2>2. runs' = runs /\ raced' = raced /\ lapsed' = lapsed /\ now' = now
    BY <1>3, <2>1, MovesEffect DEF IsUserRateLimitedSpecific, limitVars, runVars, Stages
  <2>3. Late(x, r) /\ Name(r.of) \in CommandNames BY <2>2 DEF PastChecks, Marked
  <2>4. Name(r.of)' = Name(r.of) BY <1>0, <1>3, <2>2, <2>3, SpecificEffect
  <2>5. CASE x = d
    <3>1. stage[x] = "specific" /\ stage'[x] = to BY <2>1, <2>5, MovesEffect DEF Stages
    <3>2. r.at + Ttl(Name(r.of)) <= specific[Name(r.of)] BY <2>2 DEF Marked
    <3>3. specific[Name(r.of)] \in Nat /\ Ttl(Name(r.of)) \in Nat
      BY <2>3 DEF RequestTypes, Ttl
    <3>4. to = "mark" /\ Name(r.of) = Name(d)' => r.at + Ttl(Name(r.of)) <= now
      BY <1>0, <2>1, <2>2, <3>2, <3>3 DEF RequestTypes
    <3> QED BY <2>2, <2>3, <2>4, <2>5, <3>1, <3>4 DEF Late
  <2>6. CASE x # d
    <3>1. stage'[x] = stage[x] BY <2>1, <2>6, MovesEffect DEF Stages
    <3>2. stage[x] = "mark" => Name(x)' = Name(x) BY <1>3, SpecificEffect DEF Named
    <3> QED BY <2>2, <2>3, <2>4, <3>1, <3>2 DEF Late
  <2> QED BY <2>5, <2>6
<1>4. ASSUME NEW d \in Deliveries, MarkUserRateLimit(d) PROVE Late(x, r)'
  <2>1. Moves(d, "mark", "run") /\ asked' = asked /\ lapsed' = lapsed
        /\ raced' = raced \cup (Passing \ {d}) /\ now' = now
    BY <1>4, MarkEffect, MovesEffect DEF Stages
  <2>2. CASE x = d
    <3>1. stage'[x] = "run" BY <2>1, <2>2, MovesEffect DEF Stages
    <3> QED BY <3>1 DEF Late
  <2>3. CASE x # d
    <3>1. stage'[x] = stage[x] BY <2>1, <2>3, MovesEffect DEF Stages
    <3>2. CASE r \in runs
      BY <2>1, <3>1, <3>2 DEF Late, PastChecks, Name
    <3>3. CASE r \notin runs /\ stage[x] \in {"specific", "mark"}
      <4>1. r.of = d BY <1>4, <3>3, MarkEffect
      <4>2. x \in raced' BY <2>1, <2>3, <3>3 DEF Passing
      <4>3. d[1] = x[1] /\ x[1] \notin lapsed BY <2>1, <4>1, <4>2
      <4>4. snowflake[x[1]].by = x BY <3>3, <4>3 DEF Held, PastLock
      <4>5. stage[d] = "mark" BY <2>1, MovesEffect DEF Stages
      <4>6. snowflake[x[1]].by = d BY <4>3, <4>5 DEF Held, PastLock
      <4> QED BY <2>3, <4>4, <4>6
    <3>4. CASE stage[x] \notin {"specific", "mark"} BY <3>1, <3>4 DEF Late
    <3> QED BY <3>2, <3>3, <3>4
  <2> QED BY <2>2, <2>3
<1> QED BY <1>1, <1>2, <1>3, <1>4, QuietSteps

\* Two runs of which the one was marked before the other passed are apart.
LEMMA ApartFromEarlier ==
  ASSUME RequestTypes, Named, Marked, NEW d \in Deliveries, MarkUserRateLimit(d),
         NEW r \in runs, Late(d, r),
         NEW s, s.of = d, s.at = now,
         NEW span \in {1, Ttl(Name(d))}, span # 1 => Name(r.of) = Name(d)
  PROVE  ~Near(r, s, span) /\ ~Near(s, r, span)
<1>1. stage[d] = "mark" /\ now \in Nat /\ r.at \in Nat /\ r.at <= now
      /\ Ttl(Name(d)) \in Nat /\ Ttl(Name(d)) >= 1
  BY MarkEffect, MovesEffect DEF RequestTypes, Marked, Stages
<1>2. r.at + 1 <= now BY <1>1 DEF Late
<1>3. r.at + span <= now
  <2>1. CASE span = 1 BY <1>2, <2>1
  <2>2. CASE span # 1 BY <1>1, <2>2 DEF Late
  <2> QED BY <2>1, <2>2
<1> QED BY <1>1, <1>2, <1>3 DEF Near

\* Who runs keeps its name, so that runs compare as before.
LEMMA RunNames ==
  ASSUME RequestTypes, Named, Marked, [RequestNext]_requestVars, NEW r \in runs
  PROVE  Name(r.of)' = Name(r.of)
<1>1. r.of \in Deliveries /\ Name(r.of) \in CommandNames BY DEF RequestTypes, Marked
<1>2. CASE Aside BY <1>2 DEF Aside, Name
<1>3. ASSUME NEW d \in Deliveries, IsUserRateLimitedGeneral(d) PROVE Name(r.of)' = Name(r.of)
  BY <1>3 DEF IsUserRateLimitedGeneral, Name
<1>4. ASSUME NEW d \in Deliveries, IsUserRateLimitedSpecific(d) PROVE Name(r.of)' = Name(r.of)
  BY <1>1, <1>4, SpecificEffect
<1>5. ASSUME NEW d \in Deliveries, MarkUserRateLimit(d) PROVE Name(r.of)' = Name(r.of)
  BY <1>5, MarkEffect DEF Name
<1> QED BY <1>2, <1>3, <1>4, <1>5, QuietSteps

\* A step that adds a run is the marking of a delivery.
LEMMA NewRun ==
  ASSUME RequestTypes, Named, [RequestNext]_requestVars, NEW r \in runs', r \notin runs
  PROVE  \E d \in Deliveries : /\ MarkUserRateLimit(d)
                               /\ r = [of |-> d, at |-> now, raced |-> d \in raced]
<1>1. ~Aside BY DEF Aside
<1>2. \A d \in Deliveries : ~IsUserRateLimitedGeneral(d) /\ ~IsUserRateLimitedSpecific(d)
  BY DEF IsUserRateLimitedGeneral, IsUserRateLimitedSpecific, runVars
<1>3. PICK d \in Deliveries : MarkUserRateLimit(d) BY <1>1, <1>2, QuietSteps
<1> QED BY <1>3, MarkEffect

RunSpan(r, s) == IF Name(r.of) = Name(s.of) THEN Ttl(Name(r.of)) ELSE 1

LEMMA RunsApartStep ==
  ASSUME RequestTypes, Named, Marked, PastChecks, RunsApart, [RequestNext]_requestVars,
         NEW r \in runs', NEW s \in runs', Near(r, s, RunSpan(r, s)')
  PROVE  r.raced \/ s.raced
<1>1. CASE r \in runs /\ s \in runs
  <2>1. RunSpan(r, s)' = RunSpan(r, s) BY <1>1, RunNames DEF RunSpan
  <2> QED BY <1>1, <2>1 DEF RunsApart, RunSpan
<1>2. CASE r \in runs /\ s \notin runs
  <2>1. PICK d \in Deliveries :
          MarkUserRateLimit(d) /\ s = [of |-> d, at |-> now, raced |-> d \in raced]
    BY <1>2, NewRun
  <2>2. s.of = d /\ s.at = now /\ s.raced = (d \in raced) BY <2>1
  <2>3. Name(r.of)' = Name(r.of) /\ Name(d)' = Name(d) BY <2>1, MarkEffect DEF Name
  <2>4. RunSpan(r, s)' = IF Name(r.of) = Name(d) THEN Ttl(Name(d)) ELSE 1
    BY <2>2, <2>3 DEF RunSpan
  <2>5. ~Late(d, r) BY <1>2, <2>1, <2>2, <2>4, ApartFromEarlier
  <2>6. d \in raced BY <1>2, <2>5 DEF PastChecks
  <2> QED BY <2>2, <2>6
<1>3. CASE r \notin runs /\ s \in runs
  <2>1. PICK d \in Deliveries :
          MarkUserRateLimit(d) /\ r = [of |-> d, at |-> now, raced |-> d \in raced]
    BY <1>3, NewRun
  <2>2. r.of = d /\ r.at = now /\ r.raced = (d \in raced) BY <2>1
  <2>3. Name(s.of)' = Name(s.of) /\ Name(d)' = Name(d) BY <2>1, MarkEffect DEF Name
  <2>4. RunSpan(r, s)' = IF Name(s.of) = Name(d) THEN Ttl(Name(d)) ELSE 1
    BY <2>2, <2>3 DEF RunSpan
  <2>5. ~Late(d, s) BY <1>3, <2>1, <2>2, <2>4, ApartFromEarlier
  <2>6. d \in raced BY <1>3, <2>5 DEF PastChecks
  <2> QED BY <2>2, <2>6
<1>4. CASE r \notin runs /\ s \notin runs
  <2>1. PICK d \in Deliveries :
          MarkUserRateLimit(d) /\ r = [of |-> d, at |-> now, raced |-> d \in raced]
    BY <1>4, NewRun
  <2>2. runs' = runs \cup {r} BY <2>1, MarkEffect
  <2>3. r = s BY <1>4, <2>2
  <2> QED BY <2>3 DEF Near
<1> QED BY <1>1, <1>2, <1>3, <1>4

LEMMA HandledOnceStep ==
  ASSUME RequestTypes, Named, Marked, PastChecks, HandledOnce, [RequestNext]_requestVars
  PROVE  HandledOnce'
<1> SUFFICES ASSUME NEW r \in runs', NEW s \in runs', r.of[1] = s.of[1],
                    Near(r, s, Ttl(Name(r.of)'))
             PROVE  r.of[1] \in lapsed'
  BY DEF HandledOnce, Name
<1>0. lapsed \subseteq lapsed'
  BY QuietSteps, MarkEffect
     DEF Aside, IsUserRateLimitedGeneral, IsUserRateLimitedSpecific
<1>1. CASE r \in runs /\ s \in runs
  <2>1. Name(r.of)' = Name(r.of) BY <1>1, RunNames
  <2> QED BY <1>0, <1>1, <2>1 DEF HandledOnce
<1>2. CASE r \in runs /\ s \notin runs
  <2>1. PICK d \in Deliveries :
          MarkUserRateLimit(d) /\ s = [of |-> d, at |-> now, raced |-> d \in raced]
    BY <1>2, NewRun
  <2>2. s.of = d /\ s.at = now BY <2>1
  <2>3. Name(r.of)' = Name(d) /\ Name(r.of) = Name(d) BY <2>1, <2>2, MarkEffect DEF Name
  <2>4. ~Late(d, r) BY <1>2, <2>1, <2>2, <2>3, ApartFromEarlier
  <2> QED BY <1>0, <1>2, <2>2, <2>4 DEF PastChecks
<1>3. CASE r \notin runs /\ s \in runs
  <2>1. PICK d \in Deliveries :
          MarkUserRateLimit(d) /\ r = [of |-> d, at |-> now, raced |-> d \in raced]
    BY <1>3, NewRun
  <2>2. r.of = d /\ r.at = now BY <2>1
  <2>3. Name(r.of)' = Name(d) /\ Name(s.of) = Name(d) BY <2>1, <2>2, MarkEffect DEF Name
  <2>4. ~Late(d, s) BY <1>3, <2>1, <2>2, <2>3, ApartFromEarlier
  <2> QED BY <1>0, <1>3, <2>2, <2>4 DEF PastChecks
<1>4. CASE r \notin runs /\ s \notin runs
  <2>1. PICK d \in Deliveries :
          MarkUserRateLimit(d) /\ r = [of |-> d, at |-> now, raced |-> d \in raced]
    BY <1>4, NewRun
  <2>2. runs' = runs \cup {r} BY <2>1, MarkEffect
  <2>3. r = s BY <1>4, <2>2
  <2> QED BY <2>3 DEF Near
<1> QED BY <1>1, <1>2, <1>3, <1>4

-----------------------------------------------------------------------------
(* Violations *)

\* Sets of past seconds are finite.
LEMMA SecondsFinite ==
  ASSUME NEW n \in Nat, NEW S \in SUBSET (1..n), NEW T \in SUBSET S
  PROVE  /\ IsFiniteSet(S) /\ IsFiniteSet(T)
         /\ Cardinality(S) \in Nat /\ Cardinality(T) \in Nat
         /\ Cardinality(T) <= Cardinality(S)
<1>1. IsFiniteSet(S) BY FS_BoundedSetOfNaturals
<1> QED BY <1>1, FS_Subset, FS_CardinalityType

\* A step that touches no violation, ban or count.
Harmless ==
  /\ exceeded' = exceeded /\ banned' = banned /\ stampOf' = stampOf /\ now <= now'
  /\ \A x \in Deliveries : stage[x] = "count" => stage'[x] = "count"

LEMMA HarmlessSteps ==
  ASSUME RequestTypes, Named, [RequestNext]_requestVars
  PROVE  Harmless \/ \E d \in Deliveries : Exceed(d) \/ BanIfExceeded(d)
<1>1. ASSUME NEW d \in Deliveries, LockSnowflake(d) \/ Ignored(d) \/ IsUserRateLimitedGeneral(d)
                                   \/ MarkUserRateLimit(d) \/ Perform(d)
      PROVE  Harmless
  <2>1. PICK from \in Stages \ {"count"}, to \in Stages : Moves(d, from, to)
    BY <1>1 DEF LockSnowflake, Ignored, Obtains, IsUserRateLimitedGeneral, MarkUserRateLimit,
                Perform, Stages
  <2>2. \A x \in Deliveries : stage[x] = "count" => stage'[x] = "count"
    BY <2>1, MovesEffect
  <2>3. now <= now' BY <2>1, MovesEffect DEF RequestTypes
  <2> QED BY <1>1, <2>2, <2>3
      DEF LockSnowflake, Ignored, Obtains, IsUserRateLimitedGeneral, MarkUserRateLimit,
          Perform, limitVars, Harmless
<1>2. ASSUME NEW d \in Deliveries, IsUserRateLimitedSpecific(d) PROVE Harmless
  <2>1. PICK to \in Stages : Moves(d, "specific", to) BY <1>2, SpecificEffect DEF Stages
  <2>2. \A x \in Deliveries : stage[x] = "count" => stage'[x] = "count"
    BY <2>1, MovesEffect
  <2>3. now <= now' BY <2>1, MovesEffect DEF RequestTypes
  <2> QED BY <1>2, <2>2, <2>3 DEF IsUserRateLimitedSpecific, limitVars, Harmless
<1>3. ASSUME AskForDownload \/ ConfirmDownload \/ Tick \/ UNCHANGED requestVars PROVE Harmless
  BY <1>3 DEF AskForDownload, ConfirmDownload, Tick, OnlyDownloads, requestVars, limitVars,
              Harmless, RequestTypes
<1> QED BY <1>1, <1>2, <1>3 DEF RequestNext

\* Recent violations are among all, and become fewer with time.
LEMMA RecentFewer ==
  ASSUME RequestTypes, NEW m \in Nat, NEW n \in Nat, m <= n
  PROVE  /\ Recent(n) \subseteq Recent(m) /\ Recent(m) \subseteq exceeded
         /\ Cardinality(Recent(n)) \in Nat /\ Cardinality(Recent(m)) \in Nat
         /\ Cardinality(exceeded) \in Nat
         /\ Cardinality(Recent(n)) <= Cardinality(Recent(m))
<1>1. Recent(m) \subseteq exceeded BY DEF Recent
<1>2. Recent(n) \subseteq Recent(m)
  <2>1. \A t \in exceeded : t \in Nat BY DEF RequestTypes
  <2>2. \A t \in Nat : t + SoftbanExpiration >= n => t + SoftbanExpiration >= m
    BY RequestAssumption
  <2> QED BY <2>1, <2>2 DEF Recent
<1>3. now \in Nat /\ exceeded \subseteq 1..now BY DEF RequestTypes
<1>4. Recent(m) \subseteq 1..now BY <1>1, <1>3
<1> QED BY <1>1, <1>2, <1>3, <1>4, SecondsFinite

LEMMA BanStep ==
  ASSUME RequestTypes, Named, CountDue, BanDeserved, [RequestNext]_requestVars
  PROVE  CountDue' /\ BanDeserved'
<1> USE RequestAssumption
<1>0. now \in Nat /\ now' \in Nat /\ banned \in Nat /\ RequestTypes'
  BY RequestTypeStep DEF RequestTypes
<1>1. CASE Harmless
  <2>1. Recent(now)' = Recent(now') BY <1>1 DEF Harmless, Recent
  <2>2. Cardinality(Recent(now')) <= Cardinality(Recent(now))
        /\ Cardinality(Recent(now')) \in Nat /\ Cardinality(Recent(now)) \in Nat
    BY <1>0, <1>1, RecentFewer DEF Harmless
  <2>3. CountDue'
    <3>1. CASE banned # 0 BY <1>1, <3>1 DEF Harmless, CountDue
    <3>2. CASE Cardinality(Recent(now)) <= SoftbanThreshold
      BY <2>1, <2>2, <3>2 DEF CountDue
    <3>3. CASE \E d \in Deliveries : stage[d] = "count" /\ \A t \in exceeded : t <= stampOf[d]
      BY <1>1, <3>3 DEF Harmless, CountDue
    <3> QED BY <3>1, <3>2, <3>3 DEF CountDue
  <2> QED BY <1>1, <2>3 DEF Harmless, BanDeserved
<1>2. ASSUME NEW d \in Deliveries, Exceed(d) PROVE CountDue' /\ BanDeserved'
  <2>1. stage'[d] = "count" /\ stampOf'[d] = now /\ exceeded' = exceeded \cup {now}
        /\ banned' = banned /\ now' = now
    BY <1>2, MovesEffect DEF Exceed, Stages, RequestTypes
  <2>2. \A t \in exceeded' : t <= stampOf'[d] BY <1>0, <2>1 DEF RequestTypes
  <2>3. CountDue' BY <2>1, <2>2 DEF CountDue
  <2>4. now \in Nat /\ exceeded' \in SUBSET (1..now) /\ exceeded \in SUBSET exceeded'
    BY <1>0, <2>1 DEF RequestTypes
  <2>5. Cardinality(exceeded) <= Cardinality(exceeded')
        /\ Cardinality(exceeded) \in Nat /\ Cardinality(exceeded') \in Nat
    BY <2>4, SecondsFinite
  <2> QED BY <2>1, <2>3, <2>5 DEF BanDeserved
<1>3. ASSUME NEW d \in Deliveries, BanIfExceeded(d) PROVE CountDue' /\ BanDeserved'
  <2>1. /\ Moves(d, "count", "done") /\ exceeded' = exceeded /\ stampOf' = stampOf
        /\ banned' = IF Cardinality(Counted(d)) > SoftbanThreshold
                     THEN now + SoftbanDuration ELSE banned
    BY <1>3 DEF BanIfExceeded, Ban
  <2>2. /\ now' = now /\ \A x \in Deliveries \ {d} : stage'[x] = stage[x]
    BY <2>1, MovesEffect DEF Stages
  <2>3. Counted(d) \subseteq Recent(now) /\ Recent(now) \subseteq exceeded
    BY DEF Counted, Recent
  <2>4. now \in Nat /\ exceeded \in SUBSET (1..now) BY <1>0 DEF RequestTypes
  <2>5. Counted(d) \in SUBSET exceeded BY <2>3
  <2>6. /\ Cardinality(Counted(d)) <= Cardinality(exceeded)
        /\ Cardinality(Counted(d)) \in Nat /\ Cardinality(exceeded) \in Nat
    BY <2>4, <2>5, SecondsFinite
  <2>7. now + SoftbanDuration # 0 BY DEF RequestTypes
  <2>8. CASE Cardinality(Counted(d)) > SoftbanThreshold
    <3>1. banned' # 0 BY <2>1, <2>7, <2>8
    <3>2. Cardinality(exceeded') > SoftbanThreshold BY <2>1, <2>6, <2>8
    <3> QED BY <3>1, <3>2 DEF CountDue, BanDeserved
  <2>9. CASE ~(Cardinality(Counted(d)) > SoftbanThreshold)
    <3>1. banned' = banned BY <2>1, <2>9
    <3>2. Recent(now)' = Recent(now) BY <2>1, <2>2 DEF Recent
    <3>3. CASE banned # 0 \/ Cardinality(Recent(now)) <= SoftbanThreshold
      BY <2>1, <3>1, <3>2, <3>3 DEF CountDue, BanDeserved
    <3>4. ASSUME NEW x \in Deliveries, stage[x] = "count", \A t \in exceeded : t <= stampOf[x]
          PROVE  CountDue' /\ BanDeserved'
      <4>1. CASE x # d
        <5>1. CountDue' BY <2>1, <2>2, <3>4, <4>1 DEF CountDue
        <5> QED BY <2>1, <3>1, <5>1 DEF BanDeserved
      <4>2. CASE x = d
        <5>1. Counted(d) = Recent(now) BY <3>4, <4>2 DEF Counted, Recent
        <5>2. Cardinality(Recent(now)') <= SoftbanThreshold BY <2>6, <2>9, <3>2, <5>1
        <5> QED BY <2>1, <3>1, <5>2 DEF CountDue, BanDeserved
      <4> QED BY <4>1, <4>2
    <3> QED BY <3>3, <3>4 DEF CountDue
  <2> QED BY <2>8, <2>9
<1> QED BY <1>1, <1>2, <1>3, HarmlessSteps

-----------------------------------------------------------------------------
(* Downloads *)

LEMMA CooledStep ==
  ASSUME RequestTypes, Named, Cooled, [RequestNext]_requestVars PROVE Cooled'
<1>0. /\ now \in Nat /\ cooldown \in Nat /\ dialogs \subseteq 0..now
      /\ \A a \in downloads : a.at \in 0..now /\ a.opened \in Nat
      /\ GuildDownloadCooldown \in Nat
  BY RequestAssumption DEF RequestTypes
<1>1. CASE UNCHANGED downloadVars BY <1>1 DEF downloadVars, Cooled
<1>2. ASSUME AskForDownload PROVE Cooled'
  <2>1. now >= cooldown /\ dialogs' = dialogs \cup {now} /\ cooldown' = cooldown
        /\ downloads' = downloads
    BY <1>2 DEF AskForDownload
  <2>2. \A a \in downloads : now >= a.at + GuildDownloadCooldown
    BY <1>0, <2>1 DEF Cooled
  <2> QED BY <2>1, <2>2 DEF Cooled
<1>3. ASSUME ConfirmDownload PROVE Cooled'
  <2>1. PICK o \in dialogs : downloads' = downloads \cup {[at |-> now, opened |-> o]}
    BY <1>3 DEF ConfirmDownload
  <2>2. cooldown' = now + GuildDownloadCooldown /\ dialogs' = dialogs
    BY <1>3 DEF ConfirmDownload
  <2>3. \A a \in downloads : a.at + GuildDownloadCooldown <= cooldown' BY <1>0, <2>2
  <2>4. \A q \in dialogs : q <= now BY <1>0
  <2> QED BY <1>0, <2>1, <2>2, <2>3, <2>4 DEF Cooled
<1> QED BY <1>1, <1>2, <1>3
    DEF RequestNext, LockSnowflake, Ignored, Obtains, IsUserRateLimitedGeneral,
        IsUserRateLimitedSpecific, Exceed, BanIfExceeded, Ban, MarkUserRateLimit, Perform, Tick,
        requestVars, downloadVars

\* What Cooled says of two downloads.
LEMMA DownloadsApart ==
  ASSUME RequestTypes', Cooled', NEW a \in downloads', NEW b \in downloads',
         a.at < b.at, b.at < a.at + GuildDownloadCooldown
  PROVE  b.opened <= a.at
<1>1. a.at \in Nat /\ b.at \in Nat /\ b.opened \in Nat BY DEF RequestTypes
<1>2. b.opened <= b.at /\ (b.opened <= a.at \/ b.opened >= a.at + GuildDownloadCooldown)
  BY DEF Cooled
<1> QED BY <1>1, <1>2, RequestAssumption

-----------------------------------------------------------------------------
(* The invariant of the requests and what follows from it *)

LEMMA RequestInvInit == RequestInit => RequestInv
<1> SUFFICES ASSUME RequestInit PROVE RequestInv OBVIOUS
<1> USE RequestAssumption
<1>1. RequestTypes
  <2>1. [by |-> Free, until |-> 0] \in [by : Deliveries \cup {Free}, until : Nat] OBVIOUS
  <2> QED BY <2>1 DEF RequestInit, RequestTypes, Stages, CommandNames
<1>2. Held /\ Named /\ Marked /\ PastChecks
  BY DEF RequestInit, Held, Named, Marked, PastChecks, PastLock
<1>3. RunsApart /\ HandledOnce BY DEF RequestInit, RunsApart, HandledOnce
<1>4. CountDue
  <2>1. Recent(now) = {} BY DEF RequestInit, Recent
  <2>2. Cardinality({}) = 0 BY FS_EmptySet
  <2> QED BY <2>1, <2>2 DEF CountDue
<1>5. BanDeserved /\ Cooled BY DEF RequestInit, BanDeserved, Cooled
<1> QED BY <1>1, <1>2, <1>3, <1>4, <1>5 DEF RequestInv

LEMMA RequestInvStep == RequestInv /\ [RequestNext]_requestVars => RequestInv'
<1> SUFFICES ASSUME RequestInv, [RequestNext]_requestVars PROVE RequestInv' OBVIOUS
<1>1. RequestTypes' BY RequestTypeStep DEF RequestInv
<1>2. Held' BY HeldStep DEF RequestInv
<1>3. Named' BY NamedStep DEF RequestInv
<1>4. Marked' BY MarkedStep DEF RequestInv
<1>5. PastChecks' BY CheckedStep DEF RequestInv
<1>6. HandledOnce' BY HandledOnceStep DEF RequestInv
<1>7. CountDue' /\ BanDeserved' BY BanStep DEF RequestInv
<1>8. Cooled' BY CooledStep DEF RequestInv
<1>9. RunsApart'
  <2>1. ASSUME NEW r \in runs', NEW s \in runs', Near(r, s, RunSpan(r, s)')
        PROVE  r.raced \/ s.raced
    BY <2>1, RunsApartStep DEF RequestInv
  <2>2. \A a, b \in downloads' :
          a.at < b.at /\ b.at < a.at + GuildDownloadCooldown => b.opened <= a.at
    BY <1>1, <1>8, DownloadsApart
  <2> QED BY <2>1, <2>2 DEF RunsApart, RunSpan
<1> QED BY <1>1, <1>2, <1>3, <1>4, <1>5, <1>6, <1>7, <1>8, <1>9 DEF RequestInv

LEMMA RequestInvariant == RequestSpec => []RequestInv
BY RequestInvInit, RequestInvStep, PTL DEF RequestSpec

\* Of two commands of a user that are carried out within the limit, one passed
\* the check before the other was marked; and a guild downloads again within the
\* cooldown only from a dialog opened before (slash_commands.go:228-286).
THEOREM RunsKeptApart == RequestSpec => []RunsApart
<1>1. RequestInv => RunsApart BY DEF RequestInv
<1> QED BY <1>1, RequestInvariant, PTL

\* However many shards receive an interaction, none carries it out again within
\* the limit of its command, unless its lock ran out (slash_commands.go:215-222).
THEOREM InteractionOnce == RequestSpec => []HandledOnce
<1>1. RequestInv => HandledOnce BY DEF RequestInv
<1> QED BY <1>1, RequestInvariant, PTL

\* A user is banned after violations in more seconds than the threshold, and
\* then without exception once the violations have counted (redis.go:60-87).
THEOREM SoftbansJust == RequestSpec => []SoftbanJust
<1>1. RequestInv => SoftbanJust
  <2> SUFFICES ASSUME RequestInv PROVE SoftbanJust OBVIOUS
  <2>1. RequestTypes /\ CountDue /\ BanDeserved /\ now \in Nat
    BY DEF RequestInv, RequestTypes
  <2>2. Cardinality(Recent(now)) \in Nat BY <2>1, RecentFewer
  <2>3. (\A d \in Deliveries : stage[d] # "count") /\ Cardinality(Recent(now)) > SoftbanThreshold
          => banned # 0
    BY <2>1, <2>2, RequestAssumption DEF CountDue
  <2> QED BY <2>1, <2>3 DEF SoftbanJust, BanDeserved, Recent
<1> QED BY <1>1, RequestInvariant, PTL

-----------------------------------------------------------------------------
(* The token provider: types *)

RequestRecord ==
  [pc : Taken \cup {"queued", "done"}, key : Keys, allowed : SUBSET Bots, named : 0..MaxSeconds]

TokenTypes ==
  /\ count \in [Keys -> 0..MaxPer5Seconds] /\ ttl \in [Keys -> {"none", "5s", "5min"}]
  /\ request \in [BotRequests -> RequestRecord]
  /\ limit \in [Calls -> Nat] /\ tokensUsed \in [Calls -> SUBSET Bots]
  /\ doneBy \in [BotRequests -> {"nobody", "worker", Capture, "official", "failed"}]
  /\ tasks \subseteq BotRequests /\ carriedOut \subseteq BotRequests
  /\ second \in 0..MaxSeconds
  /\ blackout \in [Keys -> BOOLEAN]
  /\ overtaken \subseteq BotRequests /\ shortened \subseteq Keys

\* A request is at a step of a bot with a bot's key, and at one of the capture
\* with the capture's.
KeyFits ==
  \A r \in BotRequests :
    /\ request[r].pc \in {"apply", "record"} => IsBot(request[r].key)
    /\ request[r].pc \in {"publish", "wait"} => ~IsBot(request[r].key)

(* Blacklists *)

\* An EXPIRE still to come for a blacklisted key is known to have been overtaken,
\* since nobody is let through by the key's counter afterwards.
Renewals ==
  \A r \in BotRequests :
    At(r, "expire") /\ blackout[request[r].key] /\ request[r].key \notin shortened
      => r \in overtaken

\* A blacklisted key stays at its maximum for the five minutes.
Blacked ==
  \A k \in Keys \ shortened :
    blackout[k] => count[k] = MaxPer5Seconds /\ ttl[k] = "5min"

\* A counter without expiry is still to be given one.
Lapses ==
  \A k \in Keys : count[k] > 0 /\ ttl[k] = "none" =>
    botsDied \/ \E r \in BotRequests : At(r, "expire") /\ request[r].key = k

(* Limits *)

\* A request can only record a token that the call has used before.
Confined(r) ==
  /\ request[r].allowed \subseteq tokensUsed[r[1]]
  /\ request[r].pc \in {"expire", "apply", "record"} /\ IsBot(request[r].key)
       => request[r].key \in tokensUsed[r[1]]

\* The requests of a call that may record another token.
MayRecord(b) == {r \in BotRequests : r[1] = b /\ request[r].pc \in Taken /\ ~Confined(r)}

WithinLimit ==
  \A b \in Calls : limit[b] > 0 =>
    Cardinality(tokensUsed[b]) + Cardinality(MayRecord(b)) <= limit[b] + Workers - 1

(* Answers *)

\* A published request has its name for good.
Published ==
  \A r \in tasks \cup carriedOut :
    request[r].pc \in {"wait", "blacklist", "primary", "done"} /\ ~IsBot(request[r].key)

AnsweredOnce == \A r \in BotRequests : doneBy[r] # "nobody" => request[r].pc = "done"

TokenInv == /\ TokenTypes /\ KeyFits
            /\ Renewals /\ Blacked /\ Lapses
            /\ WithinLimit
            /\ Published /\ AnsweredOnce /\ AcksBelong

-----------------------------------------------------------------------------
(* What the steps of a request do *)

\* A step that moves one request.
LEMMA PassesEffect ==
  ASSUME TokenTypes, NEW r \in BotRequests, NEW from,
         NEW to \in Taken \cup {"queued", "done"}, Passes(r, from, to)
  PROVE  /\ request' \in [BotRequests -> RequestRecord]
         /\ \A q \in BotRequests \ {r} : request'[q] = request[q]
         /\ request[r].pc = from /\ request'[r].pc = to
         /\ request'[r].key = request[r].key /\ request'[r].allowed = request[r].allowed
         /\ request'[r].named = request[r].named
BY DEF TokenTypes, Passes, At, RequestRecord

\* A worker takes a request, which it confines to the tokens used once the limit
\* of its call is reached.
LEMMA TakeEffect ==
  ASSUME TokenTypes, NEW r \in BotRequests, Take(r)
  PROVE  /\ request' \in [BotRequests -> RequestRecord]
         /\ \A q \in BotRequests \ {r} : request'[q] = request[q]
         /\ request[r].pc = "queued" /\ request'[r].pc \in {"secondary", "capture"}
         /\ request'[r].allowed = IF Full(r[1]) THEN tokensUsed[r[1]] ELSE Bots
         /\ request'[r].named = request[r].named
<1>1. r[1] \in Calls BY DEF Calls
<1>2. tokensUsed[r[1]] \in SUBSET Bots BY <1>1 DEF TokenTypes
<1>3. PICK S \in SUBSET Bots : S = IF Full(r[1]) THEN tokensUsed[r[1]] ELSE Bots
  BY <1>2
<1>4. PICK to \in {"secondary", "capture"} :
        request' = [request EXCEPT ![r].pc = to, ![r].allowed = S]
  BY <1>3 DEF Take
<1>5. request[r] \in RequestRecord BY DEF TokenTypes
<1>6. PICK n : n = [request[r] EXCEPT !.pc = to, !.allowed = S] OBVIOUS
<1>7. n \in RequestRecord /\ n.pc = to /\ n.allowed = S /\ n.named = request[r].named
  BY <1>5, <1>6 DEF RequestRecord, Taken
<1>8. request' = [request EXCEPT ![r] = n] BY <1>4, <1>5, <1>6 DEF TokenTypes, RequestRecord
<1>9. request[r].pc = "queued" BY DEF Take, At
<1> QED BY <1>3, <1>7, <1>8, <1>9 DEF TokenTypes

\* An INCR lets the request through, to the EXPIRE, if the count is below the maximum.
LEMMA IncrEffect ==
  ASSUME TokenTypes, NEW r \in BotRequests, NEW k \in Keys, Incr(r, k)
  PROVE  /\ request' \in [BotRequests -> RequestRecord]
         /\ \A q \in BotRequests \ {r} : request'[q] = request[q]
         /\ request'[r].key = k /\ request'[r].allowed = request[r].allowed \ {k}
         /\ request'[r].named = request[r].named
         /\ \/ request'[r].pc = "expire" /\ count[k] + 1 < MaxPer5Seconds
            \/ request'[r].pc \in {"secondary", "primary"} /\ count[k] + 1 >= MaxPer5Seconds
         /\ count' \in [Keys -> 0..MaxPer5Seconds]
         /\ \A j \in Keys \ {k} : count'[j] = count[j]
         /\ count'[k] = IF count[k] < MaxPer5Seconds THEN count[k] + 1 ELSE count[k]
<1> USE TokenAssumption
<1>1. count[k] \in 0..MaxPer5Seconds BY DEF TokenTypes
<1>2. PICK to \in {"expire", "secondary", "primary"} :
        /\ to = IF Usable(k) THEN "expire" ELSE IF IsBot(k) THEN "secondary" ELSE "primary"
        /\ to = "expire" <=> count[k] + 1 < MaxPer5Seconds
  BY DEF Usable
<1>3. request[r] \in RequestRecord BY DEF TokenTypes
<1>4. PICK n : n = [request[r] EXCEPT !.key = k, !.allowed = @ \ {k}, !.pc = to] OBVIOUS
<1>5. /\ n \in RequestRecord
      /\ n.key = k /\ n.allowed = request[r].allowed \ {k}
      /\ n.named = request[r].named /\ n.pc = to
  BY <1>3, <1>4 DEF RequestRecord, Taken
<1>6. request' = [request EXCEPT ![r] = n]
  <2>1. request' = [request EXCEPT ![r].key = k, ![r].allowed = @ \ {k}, ![r].pc = to]
    BY <1>2 DEF Incr, AfterIncr
  <2> QED BY <1>3, <1>4, <2>1 DEF TokenTypes, RequestRecord
<1>7. /\ request' \in [BotRequests -> RequestRecord] /\ request'[r] = n
      /\ \A q \in BotRequests \ {r} : request'[q] = request[q]
  BY <1>5, <1>6 DEF TokenTypes
<1>8. /\ count' \in [Keys -> 0..MaxPer5Seconds]
      /\ \A j \in Keys \ {k} : count'[j] = count[j]
      /\ count'[k] = IF count[k] < MaxPer5Seconds THEN count[k] + 1 ELSE count[k]
  BY <1>1 DEF Incr, TokenTypes
<1>9. count[k] + 1 < MaxPer5Seconds \/ count[k] + 1 >= MaxPer5Seconds BY <1>1
<1> QED BY <1>2, <1>5, <1>7, <1>8, <1>9

\* A request is published under the second.
LEMMA PublishEffect ==
  ASSUME TokenTypes, NEW r \in BotRequests, PublishTask(r)
  PROVE  /\ request' \in [BotRequests -> RequestRecord]
         /\ \A q \in BotRequests \ {r} : request'[q] = request[q]
         /\ request[r].pc = "publish" /\ request'[r].pc = "wait"
         /\ request'[r].key = request[r].key /\ request'[r].allowed = request[r].allowed
BY DEF TokenTypes, PublishTask, At, RequestRecord, Taken

\* The answer to a task ends the waiting of the requests of its name.
LEMMA AnswerEffect ==
  ASSUME TokenTypes, NEW r \in BotRequests, NEW ok \in BOOLEAN, CaptureAnswers(r, ok)
  PROVE  /\ request' \in [BotRequests -> RequestRecord]
         /\ \A q \in BotRequests :
              /\ request'[q].key = request[q].key
              /\ request'[q].allowed = request[q].allowed
              /\ request'[q].named = request[q].named
              /\ \/ request'[q].pc = request[q].pc /\ doneBy'[q] = doneBy[q]
                 \/ /\ request[q].pc = "wait" /\ TaskID(q) = TaskID(r)
                    /\ \/ ok /\ request'[q].pc = "done" /\ doneBy'[q] = Capture
                       \/ ~ok /\ request'[q].pc = "blacklist" /\ doneBy'[q] = doneBy[q]
         /\ doneBy' \in [BotRequests -> {"nobody", "worker", Capture, "official", "failed"}]
<1>1. PICK W : W = {q \in BotRequests : At(q, "wait") /\ TaskID(q) = TaskID(r)} OBVIOUS
<1>2. request' = [q \in BotRequests |->
                    IF q \in W THEN [request[q] EXCEPT !.pc = IF ok THEN "done" ELSE "blacklist"]
                               ELSE request[q]]
      /\ doneBy' = [q \in BotRequests |-> IF q \in W /\ ok THEN Capture ELSE doneBy[q]]
  BY <1>1 DEF CaptureAnswers
<1>3. \A q \in BotRequests : request[q] \in RequestRecord BY DEF TokenTypes
<1>4. request' \in [BotRequests -> RequestRecord]
  BY <1>2, <1>3 DEF RequestRecord, Taken
<1>5. ASSUME NEW q \in BotRequests
      PROVE  /\ request'[q].key = request[q].key
             /\ request'[q].allowed = request[q].allowed
             /\ request'[q].named = request[q].named
             /\ \/ request'[q].pc = request[q].pc /\ doneBy'[q] = doneBy[q]
                \/ /\ request[q].pc = "wait" /\ TaskID(q) = TaskID(r)
                   /\ \/ ok /\ request'[q].pc = "done" /\ doneBy'[q] = Capture
                      \/ ~ok /\ request'[q].pc = "blacklist" /\ doneBy'[q] = doneBy[q]
  <2>1. CASE q \in W
    <3>1. request[q].pc = "wait" /\ TaskID(q) = TaskID(r) BY <1>1, <2>1 DEF At
    <3>2. request'[q] = [request[q] EXCEPT !.pc = IF ok THEN "done" ELSE "blacklist"]
      BY <1>2, <2>1
    <3>3. doneBy'[q] = IF ok THEN Capture ELSE doneBy[q] BY <1>2, <2>1
    <3> QED BY <1>3, <3>1, <3>2, <3>3 DEF RequestRecord
  <2>2. CASE q \notin W
    <3>1. request'[q] = request[q] /\ doneBy'[q] = doneBy[q] BY <1>2, <2>2
    <3> QED BY <3>1
  <2> QED BY <2>1, <2>2
<1>6. doneBy' \in [BotRequests -> {"nobody", "worker", Capture, "official", "failed"}]
  BY <1>2 DEF TokenTypes
<1> QED BY <1>4, <1>5, <1>6

LEMMA DieEffect ==
  ASSUME TokenTypes, BotsDie
  PROVE  /\ request' \in [BotRequests -> RequestRecord]
         /\ \A q \in BotRequests :
              /\ request'[q].key = request[q].key
              /\ request'[q].allowed = request[q].allowed
              /\ request'[q].named = request[q].named
              /\ request'[q].pc = IF request[q].pc \in Taken THEN "done" ELSE request[q].pc
<1>1. \A q \in BotRequests : request[q] \in RequestRecord BY DEF TokenTypes
<1> QED BY <1>1 DEF BotsDie, RequestRecord, Taken

\* The steps that only move a request on.
PlainMove(r, from, to) ==
  /\ Passes(r, from, to)
  /\ <<from, to>> \in {<<"secondary", "capture">>, <<"apply", "record">>, <<"apply", "blacklist">>,
                       <<"publish", "primary">>, <<"wait", "blacklist">>}
  /\ UNCHANGED <<keyVars, tokensUsed, doneBy, taskVars, otherVars>>

LEMMA PlainMoves ==
  ASSUME NEW r \in BotRequests,
         NoBotLeft(r) \/ BotApplies(r) \/ BotFails(r) \/ PublishFails(r) \/ AckTimeout(r)
  PROVE  \E from, to \in Taken : PlainMove(r, from, to)
<1>1. NoBotLeft(r) => PlainMove(r, "secondary", "capture") BY DEF NoBotLeft, PlainMove
<1>2. BotApplies(r) => PlainMove(r, "apply", "record") BY DEF BotApplies, PlainMove
<1>3. BotFails(r) => PlainMove(r, "apply", "blacklist") BY DEF BotFails, PlainMove
<1>4. PublishFails(r) => PlainMove(r, "publish", "primary") BY DEF PublishFails, PlainMove
<1>5. AckTimeout(r) => PlainMove(r, "wait", "blacklist") BY DEF AckTimeout, PlainMove
<1> QED BY <1>1, <1>2, <1>3, <1>4, <1>5 DEF Taken

LEMMA TokenSteps ==
  ASSUME [TokenNext]_tokenVars
  PROVE  \/ \E r \in BotRequests :
              \/ Take(r) \/ TryBot(r) \/ TryCapture(r) \/ ExpireKey(r) \/ Blacklist(r)
              \/ RecordToken(r) \/ PublishTask(r) \/ Primary(r)
              \/ \E from, to \in Taken : PlainMove(r, from, to)
              \/ \E ok \in BOOLEAN : CaptureAnswers(r, ok)
         \/ \E k \in Keys : KeyLapses(k) \/ BlackoutOver(k)
         \/ NextSecond \/ BotsDie
         \/ UNCHANGED tokenVars
BY PlainMoves DEF TokenNext

\* One blackout set or lifted.
LEMMA BlackoutType ==
  ASSUME TokenTypes, NEW k \in Keys, NEW f, f \in BOOLEAN, blackout' = [blackout EXCEPT ![k] = f]
  PROVE  blackout' \in [Keys -> BOOLEAN]
BY DEF TokenTypes

LEMMA TokenTypeStep ==
  ASSUME TokenTypes, KeyFits, [TokenNext]_tokenVars PROVE TokenTypes'
<1> USE TokenAssumption
<1>0. \A r \in BotRequests : request[r].key \in Keys /\ request[r] \in RequestRecord
  BY DEF TokenTypes, RequestRecord
<1>1. ASSUME NEW r \in BotRequests, Take(r) PROVE TokenTypes'
  <2>1. request' \in [BotRequests -> RequestRecord] BY <1>1, TakeEffect
  <2> QED BY <1>1, <2>1 DEF Take, TokenTypes, keyVars, taskVars, otherVars
<1>2. ASSUME NEW r \in BotRequests, NEW k \in Keys, Incr(r, k),
             UNCHANGED <<tokensUsed, doneBy, taskVars, otherVars>>
      PROVE TokenTypes'
  <2>1. request' \in [BotRequests -> RequestRecord] /\ count' \in [Keys -> 0..MaxPer5Seconds]
    BY <1>2, IncrEffect
  <2> QED BY <1>2, <2>1 DEF Incr, TokenTypes, taskVars, otherVars
<1>3. ASSUME NEW r \in BotRequests, TryBot(r) PROVE TokenTypes'
  <2>1. PICK k \in request[r].allowed : Incr(r, k) BY <1>3 DEF TryBot
  <2>2. k \in Keys BY <1>0, <2>1 DEF RequestRecord, Keys
  <2> QED BY <1>2, <1>3, <2>1, <2>2 DEF TryBot
<1>4. ASSUME NEW r \in BotRequests, TryCapture(r) PROVE TokenTypes'
  BY <1>2, <1>4 DEF TryCapture, Keys
<1>5. ASSUME NEW r \in BotRequests, ExpireKey(r) PROVE TokenTypes'
  <2>1. request' \in [BotRequests -> RequestRecord]
    <3>1. PICK to \in Taken : Passes(r, "expire", to) BY <1>5 DEF ExpireKey, Taken
    <3> QED BY <3>1, PassesEffect
  <2>2. PICK k \in Keys : k = request[r].key BY <1>0
  <2>3. PICK v \in {"none", "5s"} : ttl' = [ttl EXCEPT ![k] = v]
    BY <1>5, <2>2 DEF ExpireKey
  <2>4. ttl' \in [Keys -> {"none", "5s", "5min"}] BY <2>2, <2>3 DEF TokenTypes
  <2>5. shortened' \subseteq Keys /\ overtaken' \subseteq BotRequests
    BY <1>5, <2>2 DEF ExpireKey, TokenTypes
  <2> QED BY <1>5, <2>1, <2>4, <2>5 DEF ExpireKey, TokenTypes, taskVars, otherVars
<1>6. ASSUME NEW r \in BotRequests, Blacklist(r) PROVE TokenTypes'
  <2>1. request' \in [BotRequests -> RequestRecord]
    <3>1. PICK to \in Taken : Passes(r, "blacklist", to) BY <1>6 DEF Blacklist, Taken
    <3> QED BY <3>1, PassesEffect
  <2>2. PICK k \in Keys : k = request[r].key BY <1>0
  <2>3. count' \in [Keys -> 0..MaxPer5Seconds] BY <1>6, <2>2 DEF Blacklist, TokenTypes
  <2>4. ttl' \in [Keys -> {"none", "5s", "5min"}] BY <1>6, <2>2 DEF Blacklist, TokenTypes
  <2>5. blackout' \in [Keys -> BOOLEAN] BY <1>6, <2>2 DEF Blacklist, TokenTypes
  <2>6. shortened' \subseteq Keys /\ overtaken' \subseteq BotRequests
    BY <1>6, <2>2 DEF Blacklist, TokenTypes
  <2> QED BY <1>6, <2>1, <2>3, <2>4, <2>5, <2>6 DEF Blacklist, TokenTypes, taskVars, otherVars
<1>7. ASSUME NEW r \in BotRequests, RecordToken(r) PROVE TokenTypes'
  <2>1. Passes(r, "record", "done") BY <1>7 DEF RecordToken, Done
  <2>2. request' \in [BotRequests -> RequestRecord] /\ request[r].pc = "record"
    BY <2>1, PassesEffect
  <2>3. request[r].key \in Bots BY <1>0, <2>2 DEF KeyFits, IsBot, Keys
  <2>4. tokensUsed' \in [Calls -> SUBSET Bots] BY <1>7, <2>3 DEF RecordToken, TokenTypes
  <2>5. doneBy' \in [BotRequests -> {"nobody", "worker", Capture, "official", "failed"}]
    BY <1>7 DEF RecordToken, Done, TokenTypes
  <2> QED BY <1>7, <2>2, <2>4, <2>5 DEF RecordToken, TokenTypes, keyVars, taskVars, otherVars
<1>8. ASSUME NEW r \in BotRequests, PublishTask(r) PROVE TokenTypes'
  <2>1. request' \in [BotRequests -> RequestRecord] BY <1>8, PublishEffect
  <2> QED BY <1>8, <2>1 DEF PublishTask, TokenTypes, keyVars, otherVars
<1>9. ASSUME NEW r \in BotRequests, Primary(r) PROVE TokenTypes'
  <2>1. PICK by \in {"official", "failed"} : Done(r, "primary", by) BY <1>9 DEF Primary
  <2>2. request' \in [BotRequests -> RequestRecord] BY <2>1, PassesEffect DEF Done
  <2>3. doneBy' \in [BotRequests -> {"nobody", "worker", Capture, "official", "failed"}]
    BY <2>1 DEF Done, TokenTypes
  <2> QED BY <1>9, <2>2, <2>3 DEF Primary, TokenTypes, keyVars, taskVars, otherVars
<1>10. ASSUME NEW r \in BotRequests, NEW from \in Taken, NEW to \in Taken, PlainMove(r, from, to)
       PROVE TokenTypes'
  <2>1. request' \in [BotRequests -> RequestRecord] BY <1>10, PassesEffect DEF PlainMove
  <2> QED BY <1>10, <2>1 DEF PlainMove, TokenTypes, keyVars, taskVars, otherVars
<1>11. ASSUME NEW r \in BotRequests, NEW ok \in BOOLEAN, CaptureAnswers(r, ok) PROVE TokenTypes'
  <2>1. request' \in [BotRequests -> RequestRecord]
        /\ doneBy' \in [BotRequests -> {"nobody", "worker", Capture, "official", "failed"}]
    BY <1>11, AnswerEffect
  <2>2. tasks' \subseteq BotRequests /\ carriedOut' \subseteq BotRequests
    BY <1>11 DEF CaptureAnswers, TokenTypes
  <2> QED BY <1>11, <2>1, <2>2 DEF CaptureAnswers, TokenTypes, keyVars, otherVars
<1>12. ASSUME NEW k \in Keys, KeyLapses(k) PROVE TokenTypes'
  <2>1. PICK f \in BOOLEAN : f = (blackout[k] /\ ttl[k] # "5min") OBVIOUS
  <2>2. blackout' = [blackout EXCEPT ![k] = f] BY <1>12, <2>1 DEF KeyLapses
  <2>3. blackout' \in [Keys -> BOOLEAN] BY <2>2, BlackoutType
  <2>4. count' \in [Keys -> 0..MaxPer5Seconds] BY <1>12 DEF KeyLapses, TokenTypes
  <2> QED BY <1>12, <2>3, <2>4 DEF KeyLapses, TokenTypes, taskVars, otherVars
<1>13. ASSUME NEW k \in Keys, BlackoutOver(k) PROVE TokenTypes'
  BY <1>13 DEF BlackoutOver, TokenTypes, taskVars, otherVars
<1>14. ASSUME NextSecond PROVE TokenTypes'
  BY <1>14 DEF NextSecond, TokenTypes, keyVars, taskVars
<1>15. ASSUME BotsDie PROVE TokenTypes'
  <2>1. request' \in [BotRequests -> RequestRecord] BY <1>15, DieEffect
  <2> QED BY <1>15, <2>1 DEF BotsDie, TokenTypes, taskVars
<1>16. ASSUME UNCHANGED tokenVars PROVE TokenTypes'
  BY <1>16 DEF tokenVars, TokenTypes
<1> QED
  BY <1>1, <1>3, <1>4, <1>5, <1>6, <1>7, <1>8, <1>9, <1>10, <1>11, <1>12, <1>13, <1>14,
     <1>15, <1>16, TokenSteps

-----------------------------------------------------------------------------
(* Keys *)

\* A step that touches no counter and leaves the requests at EXPIRE there.
Keyless ==
  /\ UNCHANGED keyVars /\ botsDied' = botsDied
  /\ \A q \in BotRequests :
       /\ request'[q].pc = "expire" <=> request[q].pc = "expire"
       /\ request[q].pc = "expire" => request'[q].key = request[q].key

\* The steps that do touch one.
KeyStep ==
  \/ \E r \in BotRequests : (\E k \in Keys : Incr(r, k) /\ botsDied' = botsDied
                                             /\ request[r].pc \in {"secondary", "capture"})
                            \/ ExpireKey(r) \/ Blacklist(r)
  \/ \E k \in Keys : KeyLapses(k) \/ BlackoutOver(k)
  \/ BotsDie

LEMMA KeylessSteps ==
  ASSUME TokenTypes, [TokenNext]_tokenVars PROVE Keyless \/ KeyStep
<1>0. \A q \in BotRequests : request[q].allowed \subseteq Keys
  BY DEF TokenTypes, RequestRecord, Keys
<1>1. ASSUME NEW r \in BotRequests, Take(r) PROVE Keyless
  BY <1>1, TakeEffect DEF Take, Keyless, otherVars
<1>2. ASSUME NEW r \in BotRequests, TryBot(r) \/ TryCapture(r) PROVE KeyStep
  BY <1>0, <1>2 DEF TryBot, TryCapture, KeyStep, Keys, At, otherVars
<1>3. ASSUME NEW r \in BotRequests, RecordToken(r) PROVE Keyless
  <2>1. Passes(r, "record", "done") BY <1>3 DEF RecordToken, Done
  <2> QED BY <1>3, <2>1, PassesEffect DEF RecordToken, Keyless, otherVars
<1>4. ASSUME NEW r \in BotRequests, PublishTask(r) PROVE Keyless
  BY <1>4, PublishEffect DEF PublishTask, Keyless, otherVars
<1>5. ASSUME NEW r \in BotRequests, Primary(r) PROVE Keyless
  <2>1. Passes(r, "primary", "done") BY <1>5 DEF Primary, Done
  <2> QED BY <1>5, <2>1, PassesEffect DEF Primary, Keyless, otherVars
<1>6. ASSUME NEW r \in BotRequests, NEW from \in Taken, NEW to \in Taken, PlainMove(r, from, to)
      PROVE Keyless
  BY <1>6, PassesEffect DEF PlainMove, Keyless, otherVars
<1>7. ASSUME NEW r \in BotRequests, NEW ok \in BOOLEAN, CaptureAnswers(r, ok) PROVE Keyless
  BY <1>7, AnswerEffect DEF CaptureAnswers, Keyless, otherVars
<1>8. ASSUME NextSecond \/ UNCHANGED tokenVars PROVE Keyless
  BY <1>8 DEF NextSecond, Keyless, keyVars, tokenVars
<1> QED BY <1>1, <1>2, <1>3, <1>4, <1>5, <1>6, <1>7, <1>8, TokenSteps DEF KeyStep

LEMMA KeyStepKeeps ==
  ASSUME TokenTypes, Renewals, Blacked, Lapses, KeyStep
  PROVE  Renewals' /\ Blacked' /\ Lapses'
<1> USE TokenAssumption
<1>0. \A q \in BotRequests : request[q].key \in Keys BY DEF TokenTypes, RequestRecord
<1>1. ASSUME NEW r \in BotRequests, NEW k \in Keys, Incr(r, k), botsDied' = botsDied,
             request[r].pc \in {"secondary", "capture"}
      PROVE  Renewals' /\ Blacked' /\ Lapses'
  <2>1. ttl' = ttl /\ blackout' = blackout /\ overtaken' = overtaken /\ shortened' = shortened
    BY <1>1 DEF Incr
  <2>2. \A q \in BotRequests \ {r} : request'[q] = request[q] BY <1>1, IncrEffect
  <2>3. /\ request'[r].key = k
        /\ \/ request'[r].pc = "expire" /\ count[k] + 1 < MaxPer5Seconds
           \/ request'[r].pc \in {"secondary", "primary"} /\ count[k] + 1 >= MaxPer5Seconds
    BY <1>1, IncrEffect
  <2>4. /\ \A j \in Keys \ {k} : count'[j] = count[j]
        /\ count'[k] = IF count[k] < MaxPer5Seconds THEN count[k] + 1 ELSE count[k]
    BY <1>1, IncrEffect
  <2>5. count[k] \in 0..MaxPer5Seconds BY DEF TokenTypes
  <2>6. Renewals'
    <3> SUFFICES ASSUME NEW q \in BotRequests, request'[q].pc = "expire",
                        blackout[request'[q].key], request'[q].key \notin shortened
                 PROVE  q \in overtaken
      BY <2>1 DEF Renewals, At
    <3>1. CASE q # r BY <2>2, <3>1 DEF Renewals, At
    <3>2. CASE q = r
      <4>1. count[k] + 1 < MaxPer5Seconds /\ blackout[k] /\ k \notin shortened
        BY <2>3, <3>2
      <4> QED BY <2>5, <4>1 DEF Blacked
    <3> QED BY <3>1, <3>2
  <2>7. Blacked'
    <3> SUFFICES ASSUME NEW j \in Keys \ shortened, blackout[j]
                 PROVE  count'[j] = MaxPer5Seconds /\ ttl[j] = "5min"
      BY <2>1 DEF Blacked
    <3>1. count[j] = MaxPer5Seconds /\ ttl[j] = "5min" BY DEF Blacked
    <3> QED BY <2>4, <3>1
  <2>8. Lapses'
    <3> SUFFICES ASSUME NEW j \in Keys, count'[j] > 0, ttl[j] = "none", ~botsDied
                 PROVE  \E q \in BotRequests : request'[q].pc = "expire" /\ request'[q].key = j
      BY <1>1, <2>1 DEF Lapses, At
    <3>1. CASE count[j] > 0
      <4>1. PICK q \in BotRequests : request[q].pc = "expire" /\ request[q].key = j
        BY <3>1 DEF Lapses, At
      <4>2. q # r BY <1>1, <4>1
      <4> QED BY <2>2, <4>1, <4>2
    <3>2. CASE ~(count[j] > 0)
      <4>1. j = k BY <2>4, <3>2
      <4>2. count[k] = 0 BY <2>5, <3>2, <4>1
      <4> QED BY <2>3, <4>1, <4>2
    <3> QED BY <3>1, <3>2
  <2> QED BY <2>6, <2>7, <2>8
<1>2. ASSUME NEW r \in BotRequests, ExpireKey(r) PROVE Renewals' /\ Blacked' /\ Lapses'
  <2>1. PICK to \in {"apply", "publish"} : Passes(r, "expire", to) BY <1>2 DEF ExpireKey
  <2>2. PICK k \in Keys : k = request[r].key BY <1>0
  <2>3. /\ ttl' = [ttl EXCEPT ![k] = IF count[k] = 0 THEN "none" ELSE "5s"]
        /\ shortened' = IF r \in overtaken /\ blackout[k] THEN shortened \cup {k} ELSE shortened
        /\ overtaken' = overtaken \ {r} /\ count' = count /\ blackout' = blackout
        /\ botsDied' = botsDied
    BY <1>2, <2>2 DEF ExpireKey, otherVars
  <2>4. /\ \A q \in BotRequests \ {r} : request'[q] = request[q]
        /\ request[r].pc = "expire" /\ request'[r].pc # "expire"
    BY <2>1, PassesEffect DEF Taken
  <2>5. Renewals' BY <2>3, <2>4 DEF Renewals, At
  <2>6. blackout[k] /\ k \notin shortened => r \in overtaken
    BY <2>2, <2>4 DEF Renewals, At
  <2>7. Blacked' BY <2>2, <2>3, <2>6 DEF Blacked, TokenTypes
  <2>8. Lapses'
    <3> SUFFICES ASSUME NEW j \in Keys, count[j] > 0, ttl'[j] = "none", ~botsDied
                 PROVE  \E q \in BotRequests : request'[q].pc = "expire" /\ request'[q].key = j
      BY <2>3 DEF Lapses, At
    <3>1. j # k BY <2>3 DEF TokenTypes
    <3>2. ttl[j] = "none" BY <2>3, <3>1 DEF TokenTypes
    <3>3. PICK q \in BotRequests : request[q].pc = "expire" /\ request[q].key = j
      BY <3>2 DEF Lapses, At
    <3> QED BY <2>2, <2>4, <3>1, <3>3
  <2> QED BY <2>5, <2>7, <2>8
<1>3. ASSUME NEW r \in BotRequests, Blacklist(r) PROVE Renewals' /\ Blacked' /\ Lapses'
  <2>1. PICK to \in {"capture", "primary"} : Passes(r, "blacklist", to) BY <1>3 DEF Blacklist
  <2>2. PICK k \in Keys : k = request[r].key BY <1>0
  <2>3. /\ count' = [count EXCEPT ![k] = MaxPer5Seconds] /\ ttl' = [ttl EXCEPT ![k] = "5min"]
        /\ blackout' = [blackout EXCEPT ![k] = TRUE] /\ shortened' = shortened \ {k}
        /\ overtaken' = overtaken \cup
             {q \in BotRequests : At(q, "expire") /\ request[q].key = k}
        /\ botsDied' = botsDied
    BY <1>3, <2>2 DEF Blacklist, otherVars
  <2>4. /\ \A q \in BotRequests \ {r} : request'[q] = request[q]
        /\ request[r].pc = "blacklist" /\ request'[r].pc # "expire"
    BY <2>1, PassesEffect DEF Taken
  <2>5. /\ \A j \in Keys \ {k} : /\ count'[j] = count[j] /\ ttl'[j] = ttl[j]
                                 /\ blackout'[j] = blackout[j]
                                 /\ j \in shortened' <=> j \in shortened
        /\ count'[k] = MaxPer5Seconds /\ ttl'[k] = "5min"
    BY <2>3 DEF TokenTypes
  <2>6. Renewals'
    <3> SUFFICES ASSUME NEW q \in BotRequests, request'[q].pc = "expire",
                        blackout'[request'[q].key], request'[q].key \notin shortened'
                 PROVE  q \in overtaken'
      BY DEF Renewals, At
    <3>1. request'[q] = request[q] /\ request[q].key \in Keys BY <1>0, <2>4
    <3>2. CASE request[q].key = k BY <2>3, <3>1, <3>2 DEF At
    <3>3. CASE request[q].key # k BY <2>3, <2>5, <3>1, <3>3 DEF Renewals, At
    <3> QED BY <3>2, <3>3
  <2>7. Blacked' BY <2>5 DEF Blacked
  <2>8. Lapses'
    <3> SUFFICES ASSUME NEW j \in Keys, count'[j] > 0, ttl'[j] = "none", ~botsDied
                 PROVE  \E q \in BotRequests : request'[q].pc = "expire" /\ request'[q].key = j
      BY <2>3 DEF Lapses, At
    <3>1. j # k BY <2>5
    <3>2. PICK q \in BotRequests : request[q].pc = "expire" /\ request[q].key = j
      BY <2>5, <3>1 DEF Lapses, At
    <3>3. q # r BY <2>4, <3>2
    <3> QED BY <2>4, <3>2, <3>3
  <2> QED BY <2>6, <2>7, <2>8
<1>4. ASSUME NEW k \in Keys, KeyLapses(k) PROVE Renewals' /\ Blacked' /\ Lapses'
  <2>1. /\ count' = [count EXCEPT ![k] = 0] /\ ttl' = [ttl EXCEPT ![k] = "none"]
        /\ blackout' = [blackout EXCEPT ![k] = blackout[k] /\ ttl[k] # "5min"]
        /\ request' = request /\ overtaken' = overtaken /\ shortened' = shortened
        /\ botsDied' = botsDied
    BY <1>4 DEF KeyLapses, otherVars
  <2>2. /\ \A j \in Keys \ {k} : /\ count'[j] = count[j] /\ ttl'[j] = ttl[j]
                                 /\ blackout'[j] = blackout[j]
        /\ count'[k] = 0
        /\ blackout'[k] => blackout[k] /\ ttl[k] # "5min"
    BY <2>1 DEF TokenTypes
  <2>3. \A j \in Keys : blackout'[j] => blackout[j] BY <2>2
  <2>4. Renewals' BY <1>0, <2>1, <2>3 DEF Renewals, At
  <2>5. Blacked' BY <2>1, <2>2 DEF Blacked
  <2>6. Lapses' BY <2>1, <2>2 DEF Lapses, At
  <2> QED BY <2>4, <2>5, <2>6
<1>5. ASSUME NEW k \in Keys, BlackoutOver(k) PROVE Renewals' /\ Blacked' /\ Lapses'
  <2>1. /\ blackout' = [blackout EXCEPT ![k] = FALSE]
        /\ count' = count /\ ttl' = ttl /\ request' = request /\ overtaken' = overtaken
        /\ shortened' = shortened /\ botsDied' = botsDied
    BY <1>5 DEF BlackoutOver, otherVars
  <2>2. \A j \in Keys : blackout'[j] => blackout[j] BY <2>1 DEF TokenTypes
  <2> QED BY <1>0, <2>1, <2>2 DEF Renewals, Blacked, Lapses, At
<1>6. ASSUME BotsDie PROVE Renewals' /\ Blacked' /\ Lapses'
  <2>1. \A q \in BotRequests : request'[q].pc # "expire" BY <1>6, DieEffect DEF Taken
  <2> QED BY <1>6, <2>1 DEF BotsDie, Renewals, Blacked, Lapses, At
<1> QED BY <1>1, <1>2, <1>3, <1>4, <1>5, <1>6 DEF KeyStep

LEMMA KeysStep ==
  ASSUME TokenTypes, Renewals, Blacked, Lapses, [TokenNext]_tokenVars
  PROVE  Renewals' /\ Blacked' /\ Lapses'
<1>1. CASE Keyless
  BY <1>1 DEF Keyless, keyVars, Renewals, Blacked, Lapses, At
<1>2. CASE KeyStep BY <1>2, KeyStepKeeps
<1> QED BY <1>1, <1>2, KeylessSteps

-----------------------------------------------------------------------------
(* Answers *)

LEMMA KeyFitsStep ==
  ASSUME TokenTypes, KeyFits, [TokenNext]_tokenVars PROVE KeyFits'
<1> SUFFICES ASSUME NEW q \in BotRequests
             PROVE  /\ request'[q].pc \in {"apply", "record"} => IsBot(request'[q].key)
                    /\ request'[q].pc \in {"publish", "wait"} => ~IsBot(request'[q].key)
  BY DEF KeyFits
<1>0. /\ request[q].pc \in {"apply", "record"} => IsBot(request[q].key)
      /\ request[q].pc \in {"publish", "wait"} => ~IsBot(request[q].key)
  BY DEF KeyFits
<1> DEFINE Fits == /\ request'[q].pc \in {"apply", "record"} => IsBot(request'[q].key)
                   /\ request'[q].pc \in {"publish", "wait"} => ~IsBot(request'[q].key)
<1>1. ASSUME request'[q] = request[q] PROVE Fits BY <1>0, <1>1
<1>2. ASSUME NEW r \in BotRequests, Take(r) PROVE Fits BY <1>0, <1>2, TakeEffect
<1>3. ASSUME NEW r \in BotRequests, NEW k \in Keys, Incr(r, k) PROVE Fits
  BY <1>0, <1>3, IncrEffect
<1>4. ASSUME NEW r \in BotRequests, ExpireKey(r) PROVE Fits
  <2>1. PICK to \in Taken :
          Passes(r, "expire", to) /\ to = IF IsBot(request[r].key) THEN "apply" ELSE "publish"
    BY <1>4 DEF ExpireKey, Taken
  <2> QED BY <1>0, <2>1, PassesEffect
<1>5. ASSUME NEW r \in BotRequests, Blacklist(r) PROVE Fits
  <2>1. PICK to \in {"capture", "primary"} : Passes(r, "blacklist", to) BY <1>5 DEF Blacklist
  <2> QED BY <1>0, <2>1, PassesEffect DEF Taken
<1>6. ASSUME NEW r \in BotRequests, RecordToken(r) \/ Primary(r) PROVE Fits
  <2>1. PICK from : Passes(r, from, "done") BY <1>6 DEF RecordToken, Primary, Done
  <2> QED BY <1>0, <2>1, PassesEffect
<1>7. ASSUME NEW r \in BotRequests, PublishTask(r) PROVE Fits
  BY <1>0, <1>7, PublishEffect
<1>8. ASSUME NEW r \in BotRequests, NEW from \in Taken, NEW to \in Taken, PlainMove(r, from, to)
      PROVE Fits
  BY <1>0, <1>8, PassesEffect DEF PlainMove
<1>9. ASSUME NEW r \in BotRequests, NEW ok \in BOOLEAN, CaptureAnswers(r, ok) PROVE Fits
  BY <1>0, <1>9, AnswerEffect
<1>10. ASSUME BotsDie PROVE Fits BY <1>0, <1>10, DieEffect
<1>11. ASSUME NEW r \in BotRequests, TryBot(r) \/ TryCapture(r) PROVE Fits
  <2>1. request[r].allowed \subseteq Keys BY DEF TokenTypes, RequestRecord, Keys
  <2> QED BY <1>3, <1>11, <2>1 DEF TryBot, TryCapture, Keys
<1>12. ASSUME (\E k \in Keys : KeyLapses(k) \/ BlackoutOver(k)) \/ NextSecond
              \/ UNCHANGED tokenVars
       PROVE Fits
  BY <1>1, <1>12 DEF KeyLapses, BlackoutOver, NextSecond, tokenVars
<1> QED BY <1>2, <1>4, <1>5, <1>6, <1>7, <1>8, <1>9, <1>10, <1>11, <1>12, TokenSteps

\* Steps of one request that publish nothing and do not end it as the capture's.
LEMMA OneEnds ==
  ASSUME TokenTypes, KeyFits, Published, AnsweredOnce, AcksBelong,
         NEW r \in BotRequests, UNCHANGED taskVars,
         \A q \in BotRequests \ {r} : request'[q] = request[q],
         request'[r].named = request[r].named,
         request[r].pc \in {"wait", "blacklist", "primary", "done"} =>
           /\ request'[r].pc \in {"wait", "blacklist", "primary", "done"} \/ IsBot(request[r].key)
           /\ request'[r].key = request[r].key,
         request[r].pc # "done",
         \/ doneBy' = doneBy
         \/ request'[r].pc = "done" /\ \E by : by # Capture /\ doneBy' = [doneBy EXCEPT ![r] = by]
  PROVE  Published' /\ AnsweredOnce' /\ AcksBelong'
<1>1. \A q \in BotRequests : request'[q].named = request[q].named OBVIOUS
<1>2. \A q \in BotRequests : doneBy'[q] = Capture => doneBy[q] = Capture
  BY DEF TokenTypes
<1>3. tasks' = tasks /\ carriedOut' = carriedOut /\ tasks \cup carriedOut \subseteq BotRequests
  BY DEF taskVars, TokenTypes
<1>4. Published' BY <1>3 DEF Published
<1>5. AnsweredOnce' BY DEF AnsweredOnce, TokenTypes
<1>6. AcksBelong' BY <1>1, <1>2, <1>3 DEF AcksBelong
<1> QED BY <1>4, <1>5, <1>6

LEMMA AnswersStep ==
  ASSUME TokenTypes, KeyFits, Published, AnsweredOnce, AcksBelong, [TokenNext]_tokenVars
  PROVE  Published' /\ AnsweredOnce' /\ AcksBelong'
<1> DEFINE Goal == Published' /\ AnsweredOnce' /\ AcksBelong'
<1>1. ASSUME NEW r \in BotRequests, Take(r) PROVE Goal
  <2>1. UNCHANGED taskVars /\ doneBy' = doneBy BY <1>1 DEF Take
  <2> QED BY <1>1, <2>1, TakeEffect, OneEnds
<1>2. ASSUME NEW r \in BotRequests, TryBot(r) \/ TryCapture(r) PROVE Goal
  <2>1. request[r].allowed \subseteq Keys BY DEF TokenTypes, RequestRecord, Keys
  <2>2. PICK k \in Keys : Incr(r, k) BY <1>2, <2>1 DEF TryBot, TryCapture, Keys
  <2>3. request[r].pc \in {"secondary", "capture"} /\ UNCHANGED taskVars /\ doneBy' = doneBy
    BY <1>2 DEF TryBot, TryCapture, At
  <2> QED BY <2>2, <2>3, IncrEffect, OneEnds
<1>3. ASSUME NEW r \in BotRequests, ExpireKey(r) PROVE Goal
  <2>1. PICK to \in Taken : Passes(r, "expire", to) BY <1>3 DEF ExpireKey, Taken
  <2>2. UNCHANGED taskVars /\ doneBy' = doneBy BY <1>3 DEF ExpireKey
  <2> QED BY <2>1, <2>2, PassesEffect, OneEnds
<1>4. ASSUME NEW r \in BotRequests, Blacklist(r) PROVE Goal
  <2>1. PICK to \in Taken :
          Passes(r, "blacklist", to) /\ to = IF IsBot(request[r].key) THEN "capture" ELSE "primary"
    BY <1>4 DEF Blacklist, Taken
  <2>2. UNCHANGED taskVars /\ doneBy' = doneBy BY <1>4 DEF Blacklist
  <2> QED BY <2>1, <2>2, PassesEffect, OneEnds
<1>5. ASSUME NEW r \in BotRequests, RecordToken(r) PROVE Goal
  <2>1. Passes(r, "record", "done") /\ doneBy' = [doneBy EXCEPT ![r] = "worker"]
        /\ UNCHANGED taskVars
    BY <1>5 DEF RecordToken, Done
  <2>2. "worker" # Capture BY DEF Capture
  <2> QED BY <2>1, <2>2, PassesEffect, OneEnds, ZenonT(60)
<1>6. ASSUME NEW r \in BotRequests, Primary(r) PROVE Goal
  <2>1. PICK by \in {"official", "failed"} :
          Passes(r, "primary", "done") /\ doneBy' = [doneBy EXCEPT ![r] = by]
          /\ UNCHANGED taskVars
    BY <1>6 DEF Primary, Done
  <2>2. by # Capture BY DEF Capture
  <2> QED BY <2>1, <2>2, PassesEffect, OneEnds, ZenonT(60)
<1>7. ASSUME NEW r \in BotRequests, NEW from \in Taken, NEW to \in Taken, PlainMove(r, from, to)
      PROVE Goal
  <2>1. Passes(r, from, to) /\ UNCHANGED taskVars /\ doneBy' = doneBy
        /\ (from \in {"wait", "blacklist", "primary", "done"} =>
              to \in {"wait", "blacklist", "primary", "done"})
        /\ from # "done"
    BY <1>7 DEF PlainMove
  <2> QED BY <2>1, PassesEffect, OneEnds
<1>8. ASSUME NEW r \in BotRequests, PublishTask(r) PROVE Goal
  <2>1. /\ \A q \in BotRequests \ {r} : request'[q] = request[q]
        /\ request[r].pc = "publish" /\ request'[r].pc = "wait"
        /\ request'[r].key = request[r].key
    BY <1>8, PublishEffect
  <2>2. tasks' = tasks \cup {r} /\ carriedOut' = carriedOut /\ doneBy' = doneBy
        /\ tasks \cup carriedOut \subseteq BotRequests
    BY <1>8 DEF PublishTask, TokenTypes
  <2>3. ~IsBot(request[r].key) BY <2>1 DEF KeyFits
  <2>4. r \notin carriedOut /\ doneBy[r] = "nobody" BY <2>1 DEF Published, AnsweredOnce
  <2>5. Published' BY <2>1, <2>2, <2>3 DEF Published
  <2>6. AnsweredOnce' BY <2>1, <2>2, <2>4 DEF AnsweredOnce
  <2>7. "nobody" # Capture BY DEF Capture
  <2>8. AcksBelong' BY <2>1, <2>2, <2>4, <2>7 DEF AcksBelong
  <2> QED BY <2>5, <2>6, <2>8
<1>9. ASSUME NEW r \in BotRequests, NEW ok \in BOOLEAN, CaptureAnswers(r, ok) PROVE Goal
  <2>1. r \in tasks /\ tasks' \subseteq tasks /\ carriedOut \subseteq carriedOut'
        /\ carriedOut' \subseteq carriedOut \cup {r} /\ (ok => r \in carriedOut')
        /\ tasks \cup carriedOut \subseteq BotRequests
    BY <1>9 DEF CaptureAnswers, TokenTypes
  <2>2. \A q \in BotRequests :
          /\ request'[q].key = request[q].key /\ request'[q].named = request[q].named
          /\ \/ request'[q].pc = request[q].pc /\ doneBy'[q] = doneBy[q]
             \/ /\ request[q].pc = "wait" /\ TaskID(q) = TaskID(r)
                /\ \/ ok /\ request'[q].pc = "done" /\ doneBy'[q] = Capture
                   \/ ~ok /\ request'[q].pc = "blacklist" /\ doneBy'[q] = doneBy[q]
    BY <1>9, AnswerEffect
  <2>3. Published' BY <2>1, <2>2 DEF Published
  <2>4. AnsweredOnce' BY <2>2 DEF AnsweredOnce
  <2>5. AcksBelong'
    <3> SUFFICES ASSUME NEW q \in BotRequests, doneBy'[q] = Capture
                 PROVE  \E x \in carriedOut' : x[2] = q[2] /\ request'[x].named = request'[q].named
      BY DEF AcksBelong
    <3>1. CASE doneBy[q] = Capture
      <4>1. PICK x \in carriedOut : x[2] = q[2] /\ request[x].named = request[q].named
        BY <3>1 DEF AcksBelong
      <4> QED BY <2>1, <2>2, <4>1
    <3>2. CASE doneBy[q] # Capture
      <4>1. ok /\ TaskID(q) = TaskID(r) BY <2>2, <3>2
      <4>2. q[2] = r[2] /\ request[q].named = request[r].named BY <4>1 DEF TaskID
      <4> QED BY <2>1, <2>2, <4>1, <4>2
    <3> QED BY <3>1, <3>2
  <2> QED BY <2>3, <2>4, <2>5
<1>10. ASSUME BotsDie PROVE Goal
  <2>1. \A q \in BotRequests :
          /\ request'[q].key = request[q].key /\ request'[q].named = request[q].named
          /\ request'[q].pc = IF request[q].pc \in Taken THEN "done" ELSE request[q].pc
    BY <1>10, DieEffect
  <2>2. UNCHANGED taskVars /\ doneBy' = doneBy /\ tasks \cup carriedOut \subseteq BotRequests
    BY <1>10 DEF BotsDie, TokenTypes
  <2>3. Published' BY <2>1, <2>2 DEF Published, taskVars, Taken
  <2>4. AnsweredOnce' BY <2>1, <2>2 DEF AnsweredOnce, Taken
  <2>5. AcksBelong' BY <2>1, <2>2 DEF AcksBelong, taskVars
  <2> QED BY <2>3, <2>4, <2>5
<1>11. ASSUME (\E k \in Keys : KeyLapses(k) \/ BlackoutOver(k)) \/ NextSecond
              \/ UNCHANGED tokenVars
       PROVE Goal
  <2>1. UNCHANGED <<request, tasks, carriedOut, doneBy>>
    BY <1>11 DEF KeyLapses, BlackoutOver, NextSecond, tokenVars, taskVars
  <2> QED BY <2>1 DEF Published, AnsweredOnce, AcksBelong
<1> QED BY <1>1, <1>2, <1>3, <1>4, <1>5, <1>6, <1>7, <1>8, <1>9, <1>10, <1>11, TokenSteps

-----------------------------------------------------------------------------
(* Limits *)

LEMMA OpenFinite ==
  ASSUME TokenTypes, NEW b \in Calls, NEW S \in SUBSET BotRequests
  PROVE  /\ IsFiniteSet(S) /\ Cardinality(S) \in Nat
         /\ IsFiniteSet(tokensUsed[b]) /\ Cardinality(tokensUsed[b]) \in Nat
         /\ limit[b] \in Nat
<1>1. tokensUsed[b] \in SUBSET Bots /\ limit[b] \in Nat BY DEF TokenTypes
<1> QED BY <1>1, TokenAssumption, FS_Subset, FS_CardinalityType

\* With the same tokens, no more requests that may record another.
LEMMA FewerOpen ==
  ASSUME TokenTypes, WithinLimit, limit' = limit, tokensUsed' = tokensUsed,
         \A q \in BotRequests :
           request'[q].pc \in Taken /\ ~Confined(q)' => request[q].pc \in Taken /\ ~Confined(q)
  PROVE  WithinLimit'
<1> SUFFICES ASSUME NEW b \in Calls, limit[b] > 0
             PROVE  Cardinality(tokensUsed[b]) + Cardinality(MayRecord(b)') <= limit[b] + Workers - 1
  BY DEF WithinLimit
<1>1. MayRecord(b)' \in SUBSET MayRecord(b) /\ MayRecord(b) \in SUBSET BotRequests BY DEF MayRecord
<1>2. IsFiniteSet(MayRecord(b)) /\ Cardinality(MayRecord(b)) \in Nat BY <1>1, OpenFinite
<1>3. Cardinality(MayRecord(b)') <= Cardinality(MayRecord(b)) /\ Cardinality(MayRecord(b)') \in Nat
  BY <1>1, <1>2, FS_Subset, FS_CardinalityType
<1>4. Cardinality(tokensUsed[b]) + Cardinality(MayRecord(b)) <= limit[b] + Workers - 1
  BY DEF WithinLimit
<1>5. limit[b] \in Nat /\ Cardinality(tokensUsed[b]) \in Nat /\ Workers \in Nat
  BY <1>1, OpenFinite, TokenAssumption
<1> QED BY <1>2, <1>3, <1>4, <1>5

\* A worker that finds the limit not yet reached: all workers together can
\* record one token each.
LEMMA LimitTake ==
  ASSUME TokenTypes, WithinLimit, NEW r \in BotRequests, Take(r)
  PROVE  WithinLimit'
<1>1. /\ \A q \in BotRequests \ {r} : request'[q] = request[q]
      /\ request[r].pc = "queued" /\ request'[r].pc \in {"secondary", "capture"}
      /\ request'[r].allowed = IF Full(r[1]) THEN tokensUsed[r[1]] ELSE Bots
  BY TakeEffect
<1>2. limit' = limit /\ tokensUsed' = tokensUsed BY DEF Take, otherVars
<1>3. \A q \in BotRequests \ {r} : Confined(q)' <=> Confined(q) BY <1>1, <1>2 DEF Confined
<1>4. CASE Full(r[1])
  <2>1. Confined(r)' BY <1>1, <1>2, <1>4 DEF Confined
  <2> QED BY <1>1, <1>2, <1>3, <2>1, FewerOpen
<1>5. CASE ~Full(r[1])
  <2> SUFFICES ASSUME NEW b \in Calls, limit[b] > 0
               PROVE  Cardinality(tokensUsed[b]) + Cardinality(MayRecord(b)') <= limit[b] + Workers - 1
    BY <1>2 DEF WithinLimit
  <2>1. limit[b] \in Nat /\ Cardinality(tokensUsed[b]) \in Nat /\ Workers \in Nat
        /\ Cardinality(MayRecord(b)) \in Nat /\ Cardinality(MayRecord(b)') \in Nat
    <3>1. MayRecord(b) \in SUBSET BotRequests /\ MayRecord(b)' \in SUBSET BotRequests BY DEF MayRecord
    <3> QED BY <3>1, OpenFinite, TokenAssumption
  <2>2. CASE b = r[1]
    <3>1. PICK T : T = {q \in BotRequests : q[1] = b /\ request[q].pc \in Taken} OBVIOUS
    <3>2. Cardinality(T) < Workers BY <2>2, <3>1 DEF Take
    <3>3. T \in SUBSET BotRequests /\ r \notin T BY <1>1, <3>1 DEF Taken
    <3>4. IsFiniteSet(T) /\ Cardinality(T) \in Nat BY <3>3, OpenFinite
    <3>5. IsFiniteSet(T \cup {r}) /\ Cardinality(T \cup {r}) = Cardinality(T) + 1
      BY <3>3, <3>4, FS_AddElement
    <3>6. MayRecord(b)' \in SUBSET (T \cup {r}) BY <1>1, <3>1 DEF MayRecord
    <3>7. Cardinality(MayRecord(b)') <= Cardinality(T) + 1 BY <3>5, <3>6, FS_Subset
    <3>8. Cardinality(tokensUsed[b]) < limit[b] BY <1>5, <2>1, <2>2 DEF Full
    <3> QED BY <2>1, <3>2, <3>4, <3>7, <3>8
  <2>3. CASE b # r[1]
    <3>1. MayRecord(b)' = MayRecord(b) BY <1>1, <1>3, <2>3 DEF MayRecord
    <3> QED BY <3>1 DEF WithinLimit
  <2> QED BY <2>2, <2>3
<1> QED BY <1>4, <1>5

\* A token is recorded that was used before, or by one of the open requests.
LEMMA LimitRecord ==
  ASSUME TokenTypes, KeyFits, WithinLimit, NEW r \in BotRequests, RecordToken(r)
  PROVE  WithinLimit'
<1>1. Passes(r, "record", "done") /\ limit' = limit
      /\ tokensUsed' = [tokensUsed EXCEPT ![r[1]] = @ \cup {request[r].key}]
  BY DEF RecordToken, Done, otherVars
<1>2. /\ \A q \in BotRequests \ {r} : request'[q] = request[q]
      /\ request[r].pc = "record" /\ request'[r].pc = "done"
  BY <1>1, PassesEffect
<1>3. r[1] \in Calls BY DEF Calls
<1>4. PICK k : k = request[r].key OBVIOUS
<1>5. IsBot(k) BY <1>2, <1>4 DEF KeyFits
<1>6. \A b \in Calls : tokensUsed'[b] = IF b = r[1] THEN tokensUsed[b] \cup {k} ELSE tokensUsed[b]
  BY <1>1, <1>3, <1>4 DEF TokenTypes
<1>7. \A q \in BotRequests : q[1] \in Calls BY DEF Calls
<1>8. \A q \in BotRequests \ {r} : Confined(q) => Confined(q)'
  <2>1. \A b \in Calls : tokensUsed[b] \subseteq tokensUsed'[b] BY <1>6
  <2> QED BY <1>2, <1>7, <2>1 DEF Confined
<1> SUFFICES ASSUME NEW b \in Calls, limit[b] > 0
             PROVE  Cardinality(tokensUsed'[b]) + Cardinality(MayRecord(b)') <= limit[b] + Workers - 1
  BY <1>1 DEF WithinLimit
<1>9. MayRecord(b) \in SUBSET BotRequests /\ MayRecord(b)' \in SUBSET (MayRecord(b) \ {r})
  BY <1>2, <1>8 DEF MayRecord, Taken
<1>10. IsFiniteSet(MayRecord(b)) /\ Cardinality(MayRecord(b)) \in Nat
       /\ IsFiniteSet(tokensUsed[b]) /\ Cardinality(tokensUsed[b]) \in Nat
       /\ limit[b] \in Nat /\ Workers \in Nat
  BY <1>9, OpenFinite, TokenAssumption
<1>11. Cardinality(tokensUsed[b]) + Cardinality(MayRecord(b)) <= limit[b] + Workers - 1
  BY DEF WithinLimit
<1>12. IsFiniteSet(MayRecord(b) \ {r})
       /\ Cardinality(MayRecord(b) \ {r}) = IF r \in MayRecord(b) THEN Cardinality(MayRecord(b)) - 1
                                       ELSE Cardinality(MayRecord(b))
  BY <1>10, FS_RemoveElement
<1>13. Cardinality(MayRecord(b)') <= Cardinality(MayRecord(b) \ {r})
       /\ Cardinality(MayRecord(b)') \in Nat /\ Cardinality(MayRecord(b) \ {r}) \in Nat
  BY <1>9, <1>12, FS_Subset, FS_CardinalityType
<1>14. CASE b = r[1] /\ ~Confined(r)
  <2>1. r \in MayRecord(b) BY <1>2, <1>14 DEF MayRecord, Taken
  <2>2. Cardinality(tokensUsed[b] \cup {k}) <= Cardinality(tokensUsed[b]) + 1
        /\ Cardinality(tokensUsed[b] \cup {k}) \in Nat
    <3>1. Cardinality(tokensUsed[b] \cup {k}) =
            IF k \in tokensUsed[b] THEN Cardinality(tokensUsed[b]) ELSE Cardinality(tokensUsed[b]) + 1
      BY <1>10, FS_AddElement
    <3> QED BY <1>10, <3>1
  <2>3. tokensUsed'[b] = tokensUsed[b] \cup {k} BY <1>6, <1>14
  <2> QED BY <1>10, <1>11, <1>12, <1>13, <2>1, <2>2, <2>3
<1>15. CASE b # r[1] \/ Confined(r)
  <2>1. tokensUsed'[b] = tokensUsed[b]
    <3>1. CASE b # r[1] BY <1>6, <3>1
    <3>2. CASE b = r[1] /\ Confined(r)
      <4>1. k \in tokensUsed[b] BY <1>2, <1>4, <1>5, <3>2 DEF Confined
      <4> QED BY <1>6, <3>2, <4>1
    <3> QED BY <1>15, <3>1, <3>2
  <2> QED BY <1>10, <1>11, <1>12, <1>13, <2>1
<1> QED BY <1>14, <1>15

LEMMA WithinLimitStep ==
  ASSUME TokenTypes, KeyFits, WithinLimit, [TokenNext]_tokenVars
  PROVE  WithinLimit'
<1>1. ASSUME NEW r \in BotRequests, TryBot(r) \/ TryCapture(r) PROVE WithinLimit'
  <2>1. request[r].allowed \subseteq Bots BY DEF TokenTypes, RequestRecord
  <2>2. PICK k \in Keys : Incr(r, k) /\ (k \in request[r].allowed \/ ~IsBot(k))
    BY <1>1, <2>1 DEF TryBot, TryCapture, Keys, IsBot
  <2>3. request[r].pc \in Taken /\ limit' = limit /\ tokensUsed' = tokensUsed
    BY <1>1 DEF TryBot, TryCapture, At, otherVars, Taken
  <2>4. /\ \A q \in BotRequests \ {r} : request'[q] = request[q]
        /\ request'[r].key = k /\ request'[r].allowed = request[r].allowed \ {k}
    BY <2>2, IncrEffect
  <2>5. \A q \in BotRequests : Confined(q) => Confined(q)' BY <2>2, <2>3, <2>4 DEF Confined
  <2> QED BY <2>3, <2>4, <2>5, FewerOpen
<1>2. ASSUME NEW r \in BotRequests, NEW from \in Taken, NEW to \in Taken \cup {"done"},
             Passes(r, from, to), limit' = limit, tokensUsed' = tokensUsed,
             to \in {"expire", "apply", "record"} => from \in {"expire", "apply", "record"}
      PROVE  WithinLimit'
  <2>1. /\ \A q \in BotRequests \ {r} : request'[q] = request[q]
        /\ request[r].pc = from /\ request'[r].pc = to
        /\ request'[r].key = request[r].key /\ request'[r].allowed = request[r].allowed
    BY <1>2, PassesEffect
  <2>2. \A q \in BotRequests : Confined(q) => Confined(q)' BY <1>2, <2>1 DEF Confined
  <2> QED BY <1>2, <2>1, <2>2, FewerOpen
<1>3. ASSUME NEW r \in BotRequests, ExpireKey(r) PROVE WithinLimit'
  <2>1. PICK to \in {"apply", "publish"} : Passes(r, "expire", to) BY <1>3 DEF ExpireKey
  <2>2. limit' = limit /\ tokensUsed' = tokensUsed BY <1>3 DEF ExpireKey, otherVars
  <2> QED BY <1>2, <2>1, <2>2 DEF Taken
<1>4. ASSUME NEW r \in BotRequests, Blacklist(r) PROVE WithinLimit'
  <2>1. PICK to \in {"capture", "primary"} : Passes(r, "blacklist", to) BY <1>4 DEF Blacklist
  <2>2. limit' = limit /\ tokensUsed' = tokensUsed BY <1>4 DEF Blacklist, otherVars
  <2> QED BY <1>2, <2>1, <2>2 DEF Taken
<1>5. ASSUME NEW r \in BotRequests, Primary(r) PROVE WithinLimit'
  <2>1. Passes(r, "primary", "done") BY <1>5 DEF Primary, Done
  <2>2. limit' = limit /\ tokensUsed' = tokensUsed BY <1>5 DEF Primary, otherVars
  <2> QED BY <1>2, <2>1, <2>2 DEF Taken
<1>6. ASSUME NEW r \in BotRequests, NEW from \in Taken, NEW to \in Taken, PlainMove(r, from, to)
      PROVE  WithinLimit'
  <2>1. Passes(r, from, to) /\ limit' = limit /\ tokensUsed' = tokensUsed
        /\ (to \in {"expire", "apply", "record"} => from \in {"expire", "apply", "record"})
    BY <1>6 DEF PlainMove, otherVars
  <2> QED BY <1>2, <2>1
<1>7. ASSUME NEW r \in BotRequests, PublishTask(r) PROVE WithinLimit'
  <2>1. /\ \A q \in BotRequests \ {r} : request'[q] = request[q]
        /\ request[r].pc = "publish" /\ request'[r].pc = "wait"
        /\ request'[r].allowed = request[r].allowed
    BY <1>7, PublishEffect
  <2>2. limit' = limit /\ tokensUsed' = tokensUsed BY <1>7 DEF PublishTask, otherVars
  <2>3. \A q \in BotRequests : Confined(q) => Confined(q)' BY <2>1, <2>2 DEF Confined
  <2> QED BY <2>1, <2>2, <2>3, FewerOpen DEF Taken
<1>8. ASSUME NEW r \in BotRequests, NEW ok \in BOOLEAN, CaptureAnswers(r, ok) PROVE WithinLimit'
  <2>1. \A q \in BotRequests :
          /\ request'[q].key = request[q].key /\ request'[q].allowed = request[q].allowed
          /\ \/ request'[q].pc = request[q].pc
             \/ request[q].pc = "wait" /\ request'[q].pc \in {"done", "blacklist"}
    BY <1>8, AnswerEffect
  <2>2. limit' = limit /\ tokensUsed' = tokensUsed BY <1>8 DEF CaptureAnswers, otherVars
  <2>3. \A q \in BotRequests : Confined(q) => Confined(q)' BY <2>1, <2>2 DEF Confined
  <2> QED BY <2>1, <2>2, <2>3, FewerOpen DEF Taken
<1>9. ASSUME BotsDie PROVE WithinLimit'
  <2>1. \A q \in BotRequests : request'[q].pc \notin Taken BY <1>9, DieEffect DEF Taken
  <2>2. limit' = limit /\ tokensUsed' = tokensUsed BY <1>9 DEF BotsDie
  <2> QED BY <2>1, <2>2, FewerOpen
<1>10. ASSUME (\E k \in Keys : KeyLapses(k) \/ BlackoutOver(k)) \/ NextSecond
              \/ UNCHANGED tokenVars
       PROVE WithinLimit'
  <2>1. UNCHANGED <<request, tokensUsed, limit>>
    BY <1>10 DEF KeyLapses, BlackoutOver, NextSecond, tokenVars, otherVars
  <2> QED BY <2>1 DEF WithinLimit, MayRecord, Confined
<1> QED BY <1>1, <1>3, <1>4, <1>5, <1>6, <1>7, <1>8, <1>9, <1>10, LimitTake, LimitRecord,
           TokenSteps

-----------------------------------------------------------------------------
(* The invariant of the token provider and what follows from it *)

LEMMA TokenInvInit == TokenInit => TokenInv
<1> SUFFICES ASSUME TokenInit PROVE TokenInv OBVIOUS
<1> USE TokenAssumption
<1>1. TokenTypes
  <2>1. [pc |-> "queued", key |-> Capture, allowed |-> {}, named |-> 0] \in RequestRecord
    BY DEF RequestRecord, Keys, Capture
  <2>2. request \in [BotRequests -> RequestRecord] BY <2>1 DEF TokenInit
  <2>3. limit \in [Calls -> Nat] BY DEF TokenInit
  <2>4. doneBy \in [BotRequests -> {"nobody", "worker", Capture, "official", "failed"}]
    BY DEF TokenInit
  <2>5. count \in [Keys -> 0..MaxPer5Seconds] /\ second \in 0..MaxSeconds BY DEF TokenInit
  <2> QED BY <2>2, <2>3, <2>4, <2>5 DEF TokenInit, TokenTypes
<1>2. KeyFits /\ Renewals /\ Blacked /\ Lapses
  BY DEF TokenInit, KeyFits, Renewals, Blacked, Lapses, At
<1>3. WithinLimit
  <2> SUFFICES ASSUME NEW b \in Calls, limit[b] > 0
               PROVE  Cardinality(tokensUsed[b]) + Cardinality(MayRecord(b)) <= limit[b] + Workers - 1
    BY DEF WithinLimit
  <2>1. tokensUsed[b] = {} /\ MayRecord(b) = {} BY DEF TokenInit, MayRecord, Taken
  <2>2. limit[b] \in Nat BY <1>1 DEF TokenTypes
  <2> QED BY <2>1, <2>2, FS_EmptySet
<1>4. Published /\ AnsweredOnce /\ AcksBelong
  BY DEF TokenInit, Published, AnsweredOnce, AcksBelong, Capture
<1> QED BY <1>1, <1>2, <1>3, <1>4 DEF TokenInv

LEMMA TokenInvStep == TokenInv /\ [TokenNext]_tokenVars => TokenInv'
<1> SUFFICES ASSUME TokenInv, [TokenNext]_tokenVars PROVE TokenInv' OBVIOUS
<1>1. TokenTypes' BY TokenTypeStep DEF TokenInv
<1>2. KeyFits' BY KeyFitsStep DEF TokenInv
<1>3. Renewals' /\ Blacked' /\ Lapses' BY KeysStep DEF TokenInv
<1>4. WithinLimit' BY WithinLimitStep DEF TokenInv
<1>5. Published' /\ AnsweredOnce' /\ AcksBelong' BY AnswersStep DEF TokenInv
<1> QED BY <1>1, <1>2, <1>3, <1>4, <1>5 DEF TokenInv

LEMMA TokenInvariant == TokenSpec => []TokenInv
BY TokenInvInit, TokenInvStep, PTL DEF TokenSpec

\* The counters and the requests keep their types (provider.go).
THEOREM TokenTypeCorrect == TokenSpec => []TokenTypeOK
<1>1. TokenInv => TokenTypeOK BY DEF TokenInv, TokenTypes, RequestRecord, TokenTypeOK
<1> QED BY <1>1, TokenInvariant, PTL

\* A bot or capture that failed is left alone for the five minutes, and none is
\* given up for ever, but for the EXPIREs that come between (provider.go:122-149).
THEOREM Blacklists == TokenSpec => []BlacklistHolds
<1>1. TokenInv => BlacklistHolds
  BY TokenAssumption DEF TokenInv, Blacked, Lapses, BlacklistHolds
<1> QED BY <1>1, TokenInvariant, PTL

\* The workers of a call together exceed the limit of its tier by no more than
\* one token for each other worker (provider.go:21-28, 186-223).
THEOREM LimitsNearlyKept == TokenSpec => []LimitNearlyKept
<1>1. TokenInv => LimitNearlyKept
  <2> SUFFICES ASSUME TokenInv, NEW b \in Calls, limit[b] > 0
               PROVE  Cardinality(tokensUsed[b]) <= limit[b] + Workers - 1
    BY DEF LimitNearlyKept
  <2>1. MayRecord(b) \in SUBSET BotRequests BY DEF MayRecord
  <2>2. Cardinality(MayRecord(b)) \in Nat /\ Cardinality(tokensUsed[b]) \in Nat /\ limit[b] \in Nat
    BY <2>1, OpenFinite DEF TokenInv
  <2>3. Cardinality(tokensUsed[b]) + Cardinality(MayRecord(b)) <= limit[b] + Workers - 1
    BY DEF TokenInv, WithinLimit
  <2> QED BY <2>2, <2>3, TokenAssumption
<1> QED BY <1>1, TokenInvariant, PTL

\* What counts as done by the capture was done by it, for this request or for
\* one that shares its name (modify.go:60-75, task/modify.go:32-43).
THEOREM Acknowledgements == TokenSpec => []AcksBelong
<1>1. TokenInv => AcksBelong BY DEF TokenInv
<1> QED BY <1>1, TokenInvariant, PTL
=============================================================================
