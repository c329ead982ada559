--------------------------- MODULE TokenProvider ---------------------------
(***************************************************************************)
(* How ModifyUsers (bot/tokenprovider/) has users of one guild muted and   *)
(* deafened: by a secondary bot, else by the capture client of the game,   *)
(* else by the primary bot.  Workers share the counters of the bots and of *)
(* the capture in Redis, by which each is spared or, after an error, left  *)
(* alone for five minutes.  The calls may overlap.  The lock of the tokens *)
(* used only delays a worker, and is left out.                             *)
(***************************************************************************)
EXTENDS Naturals, FiniteSets

CONSTANTS Bots,         \* secondary bots with a session
          BotRequests,  \* pairs of a call of ModifyUsers and a user
          Limits,       \* PremiumBotConstraints of the tiers
          MaxPer5Seconds, Workers,
          MaxSeconds    \* bound on time, by which tasks are named

ASSUME TokenAssumption ==
  /\ Limits \subseteq Nat /\ MaxSeconds \in Nat /\ Workers \in Nat \ {0}
  /\ MaxPer5Seconds \in Nat \ {0, 1}
  /\ IsFiniteSet(Bots) /\ IsFiniteSet(BotRequests)

Capture == "capture"   \* counted under the connect code
Keys == Bots \cup {Capture}

VARIABLES count,      \* count[k]: INCRs since the key was made; 0 without a key
          ttl,        \* ttl[k]: "none", "5s" or "5min"
          request,    \* request[r]: [pc, key, allowed, named]
          limit,      \* limit[b]: that of the tier b came with
          tokensUsed, \* tokensUsed[b]: uniqueTokensUsed of the call b
          doneBy,     \* doneBy[r]: which of the counts r was added to, or "nobody"
          tasks,      \* requests published to the capture and not yet answered
          carriedOut, \* requests the capture has carried out
          second, blackout,  \* blackout[k]: k was blacklisted, and the five minutes are not over
          overtaken,  \* requests counted before their key was blacklisted, EXPIRE still to come
          shortened,  \* keys whose blackout such an EXPIRE has shortened
          botsDied
tokenVars == <<count, ttl, request, limit, tokensUsed, doneBy, tasks, carriedOut, second,
               blackout, overtaken, shortened, botsDied>>
keyVars == <<count, ttl, blackout, overtaken, shortened>>
taskVars == <<tasks, carriedOut>>
otherVars == <<second, botsDied, limit>>

Calls == {r[1] : r \in BotRequests}
Taken == {"secondary", "expire", "apply", "blacklist", "record", "capture", "publish", "wait", "primary"}

TokenInit ==
  /\ count = [k \in Keys |-> 0] /\ ttl = [k \in Keys |-> "none"]
  /\ request = [r \in BotRequests |-> [pc |-> "queued", key |-> Capture, allowed |-> {}, named |-> 0]]
  /\ limit \in [Calls -> Limits]
  /\ tokensUsed = [b \in Calls |-> {}] /\ doneBy = [r \in BotRequests |-> "nobody"]
  /\ tasks = {} /\ carriedOut = {} /\ second = 0
  /\ blackout = [k \in Keys |-> FALSE] /\ overtaken = {} /\ shortened = {} /\ botsDied = FALSE

At(r, pc) == request[r].pc = pc
Passes(r, from, to) == At(r, from) /\ request' = [request EXCEPT ![r].pc = to]
IsBot(k) == k # Capture

-----------------------------------------------------------------------------
Full(b) == Cardinality(tokensUsed[b]) >= limit[b]
\* Mutant: one token too many.
TakeAnother(r) ==
  /\ Cardinality({q \in BotRequests : q[1] = r[1] /\ request[q].pc \in Taken}) < Workers
  /\ At(r, "queued")
  /\ request' = [request EXCEPT ![r].pc = IF limit[r[1]] > 0 THEN "secondary" ELSE "capture",
       ![r].allowed = IF Cardinality(tokensUsed[r[1]]) > limit[r[1]] THEN tokensUsed[r[1]] ELSE Bots]
  /\ UNCHANGED <<keyVars, tokensUsed, doneBy, taskVars, otherVars>>

\* A worker takes a request: with the limit reached, for the tokens used already.
Take(r) ==
  /\ Cardinality({q \in BotRequests : q[1] = r[1] /\ request[q].pc \in Taken}) < Workers
  /\ At(r, "queued")
  /\ request' = [request EXCEPT ![r].pc = IF limit[r[1]] > 0 THEN "secondary" ELSE "capture",
       ![r].allowed = IF Full(r[1]) THEN tokensUsed[r[1]] ELSE Bots]
  /\ UNCHANGED <<keyVars, tokensUsed, doneBy, taskVars, otherVars>>

Usable(k) == count[k] + 1 < MaxPer5Seconds
\* The next step after the INCR of k: the next bot, or the primary bot, if it is at its maximum.
AfterIncr(r, k, next) ==
  request' = [request EXCEPT ![r].key = k, ![r].allowed = @ \ {k},
                ![r].pc = IF Usable(k) THEN next ELSE IF IsBot(k) THEN "secondary" ELSE "primary"]

\* Mutant: the expiry is renewed whatever the count.
IncrRenewing(r, k) ==
  /\ count' = [count EXCEPT ![k] = @ + 1] /\ ttl' = [ttl EXCEPT ![k] = "5s"]
  /\ AfterIncr(r, k, IF IsBot(k) THEN "apply" ELSE "publish")
  /\ UNCHANGED <<blackout, overtaken, shortened>>

\* IncrAndTestGuildTokenComboLock, up to the test.  Counts above the maximum are alike.
Incr(r, k) ==
  /\ count' = [count EXCEPT ![k] = IF @ < MaxPer5Seconds THEN @ + 1 ELSE @]
  /\ AfterIncr(r, k, "expire")
  /\ UNCHANGED <<ttl, blackout, overtaken, shortened>>

\* getSession: the bots in the order of a Go map.
TryBot(r) ==
  /\ At(r, "secondary") /\ \E k \in request[r].allowed : Incr(r, k)
  /\ UNCHANGED <<tokensUsed, doneBy, taskVars, otherVars>>
NoBotLeft(r) ==
  /\ request[r].allowed = {} /\ Passes(r, "secondary", "capture")
  /\ UNCHANGED <<keyVars, tokensUsed, doneBy, taskVars, otherVars>>
TryCapture(r) ==
  /\ At(r, "capture") /\ Incr(r, Capture)
  /\ UNCHANGED <<tokensUsed, doneBy, taskVars, otherVars>>

\* EXPIRE, whatever the key is by now.
ExpireKey(r) ==
  /\ Passes(r, "expire", IF IsBot(request[r].key) THEN "apply" ELSE "publish")
  /\ LET k == request[r].key IN
     /\ ttl' = [ttl EXCEPT ![k] = IF count[k] = 0 THEN "none" ELSE "5s"]
     /\ shortened' = IF r \in overtaken /\ blackout[k] THEN shortened \cup {k} ELSE shortened
  /\ overtaken' = overtaken \ {r}
  /\ UNCHANGED <<count, blackout, tokensUsed, doneBy, taskVars, otherVars>>

-----------------------------------------------------------------------------
BotApplies(r) ==
  /\ Passes(r, "apply", "record")
  /\ UNCHANGED <<keyVars, tokensUsed, doneBy, taskVars, otherVars>>
BotFails(r) ==
  /\ Passes(r, "apply", "blacklist")
  /\ UNCHANGED <<keyVars, tokensUsed, doneBy, taskVars, otherVars>>

\* BlacklistTokenForDuration; then the next way is tried.
Blacklist(r) ==
  LET k == request[r].key IN
  /\ Passes(r, "blacklist", IF IsBot(k) THEN "capture" ELSE "primary")
  /\ count' = [count EXCEPT ![k] = MaxPer5Seconds] /\ ttl' = [ttl EXCEPT ![k] = "5min"]
  /\ blackout' = [blackout EXCEPT ![k] = TRUE] /\ shortened' = shortened \ {k}
  /\ overtaken' = overtaken \cup {q \in BotRequests : At(q, "expire") /\ request[q].key = k}
  /\ UNCHANGED <<tokensUsed, doneBy, taskVars, otherVars>>

Done(r, from, by) == Passes(r, from, "done") /\ doneBy' = [doneBy EXCEPT ![r] = by]

RecordToken(r) ==
  /\ Done(r, "record", "worker")
  /\ tokensUsed' = [tokensUsed EXCEPT ![r[1]] = @ \cup {request[r].key}]
  /\ UNCHANGED <<keyVars, taskVars, otherVars>>

\* Mutant: a task is named by the second alone.
TaskIDShort(r) == <<request[r].named>>
TaskID(r) == <<r[2], request[r].named>>

\* NewModifyTask: subscribed to the task's name, and published.
PublishTask(r) ==
  /\ At(r, "publish")
  /\ request' = [request EXCEPT ![r].pc = "wait", ![r].named = second]
  /\ tasks' = tasks \cup {r}
  /\ UNCHANGED <<keyVars, tokensUsed, doneBy, carriedOut, otherVars>>
PublishFails(r) ==
  /\ Passes(r, "publish", "primary")
  /\ UNCHANGED <<keyVars, tokensUsed, doneBy, taskVars, otherVars>>

\* The capture works off a task, perhaps late; everyone who waits for a task of
\* that name takes its answer.
CaptureAnswers(r, ok) ==
  /\ r \in tasks /\ tasks' = tasks \ {r}
  /\ carriedOut' = IF ok THEN carriedOut \cup {r} ELSE carriedOut
  /\ LET waiting == {q \in BotRequests : At(q, "wait") /\ TaskID(q) = TaskID(r)} IN
     /\ request' = [q \in BotRequests |->
          IF q \in waiting THEN [request[q] EXCEPT !.pc = IF ok THEN "done" ELSE "blacklist"]
                           ELSE request[q]]
     /\ doneBy' = [q \in BotRequests |-> IF q \in waiting /\ ok THEN Capture ELSE doneBy[q]]
  /\ UNCHANGED <<keyVars, tokensUsed, otherVars>>
AckTimeout(r) ==
  /\ Passes(r, "wait", "blacklist")
  /\ UNCHANGED <<keyVars, tokensUsed, doneBy, taskVars, otherVars>>

Primary(r) ==
  /\ \E by \in {"official", "failed"} : Done(r, "primary", by)
  /\ UNCHANGED <<keyVars, tokensUsed, taskVars, otherVars>>

-----------------------------------------------------------------------------
\* Redis drops a key whose time is over.
KeyLapses(k) ==
  /\ ttl[k] # "none"
  /\ count' = [count EXCEPT ![k] = 0] /\ ttl' = [ttl EXCEPT ![k] = "none"]
  /\ blackout' = [blackout EXCEPT ![k] = @ /\ ttl[k] # "5min"]
  /\ UNCHANGED <<request, tokensUsed, doneBy, taskVars, otherVars, overtaken, shortened>>
BlackoutOver(k) ==
  /\ blackout[k] /\ ttl[k] # "5min" /\ blackout' = [blackout EXCEPT ![k] = FALSE]
  /\ UNCHANGED <<count, ttl, request, tokensUsed, doneBy, taskVars, otherVars, overtaken, shortened>>
NextSecond ==
  /\ second < MaxSeconds /\ second' = second + 1
  /\ UNCHANGED <<keyVars, request, tokensUsed, doneBy, taskVars, botsDied, limit>>
\* The process ends; the counters stay in Redis.
BotsDie ==
  /\ ~botsDied /\ botsDied' = TRUE
  /\ request' = [r \in BotRequests |->
       IF request[r].pc \in Taken THEN [request[r] EXCEPT !.pc = "done"] ELSE request[r]]
  /\ overtaken' = {}
  /\ UNCHANGED <<count, ttl, blackout, shortened, tokensUsed, doneBy, taskVars, second, limit>>

TokenNext ==
  \/ \E r \in BotRequests :
       \/ Take(r) \/ TryBot(r) \/ NoBotLeft(r) \/ TryCapture(r) \/ ExpireKey(r)
       \/ BotApplies(r) \/ BotFails(r) \/ Blacklist(r) \/ RecordToken(r)
       \/ PublishTask(r) \/ PublishFails(r) \/ AckTimeout(r) \/ Primary(r)
       \/ \E ok \in BOOLEAN : CaptureAnswers(r, ok)
  \/ \E k \in Keys : KeyLapses(k) \/ BlackoutOver(k)
  \/ NextSecond \/ BotsDie

TokenSpec == TokenInit /\ [][TokenNext]_tokenVars

-----------------------------------------------------------------------------
TokenTypeOK ==
  /\ count \in [Keys -> 0..MaxPer5Seconds] /\ ttl \in [Keys -> {"none", "5s", "5min"}]
  /\ \A r \in BotRequests : request[r].pc \in Taken \cup {"queued", "done"} /\ request[r].key \in Keys
  /\ tokensUsed \in [Calls -> SUBSET Bots] /\ tasks \subseteq BotRequests
  /\ carriedOut \subseteq BotRequests

(* provider.go:122-149: "we want to preserve any existing blacklist        *)
(* expiries".  A bot or capture that failed is left alone for the five     *)
(* minutes, whatever is tried meanwhile - unless a request counted before  *)
(* the failure renews the expiry after it.  And though INCR and EXPIRE are *)
(* two commands, and EXPIRE is left out at the maximum, none is given up   *)
(* for ever: a counter at its maximum lapses, or will once an EXPIRE that  *)
(* is under way has come - unless the process ended in between.            *)
BlacklistHolds ==
  /\ \A k \in Keys \ shortened : blackout[k] => count[k] = MaxPer5Seconds /\ ttl[k] = "5min"
  /\ \A k \in Keys : count[k] = MaxPer5Seconds /\ ttl[k] = "none" =>
       botsDied \/ \E r \in BotRequests : At(r, "expire") /\ request[r].key = k

(* provider.go:21-28, 186-223: the limit of the tier is looked at before   *)
(* an attempt and the token added after it, so that the workers together   *)
(* exceed it, but by no more than one token for each other worker.         *)
LimitNearlyKept ==
  \A b \in Calls : limit[b] > 0 => Cardinality(tokensUsed[b]) <= limit[b] + Workers - 1

(* modify.go:60-75, task/modify.go:32-43: what counts as done by the       *)
(* capture the capture has done - or another request for the same user in  *)
(* the same second, whose name the task shares.                            *)
AcksBelong ==
  \A r \in BotRequests : doneBy[r] = Capture =>
    \E q \in carriedOut : q[2] = r[2] /\ request[q].named = request[r].named
=============================================================================
