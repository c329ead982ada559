------------------------------ MODULE JobQueue ------------------------------
(***************************************************************************)
(* The job list of one game in Redis (pkg/task/jobs.go) between the broker *)
(* that pushes the capture's jobs and the subscription worker that pops    *)
(* them (bot/eventHandler.go).  A push is three commands (RPUSH, PUBLISH,  *)
(* and EXPIRE on a list that was new), and a notification reaches only a   *)
(* worker that is subscribed when it is published.  What the jobs say does *)
(* not matter here: the list is its length.                                *)
(***************************************************************************)
EXTENDS Naturals

CONSTANTS Pushers,    \* pushes of the broker, one job each
          MaxFaults   \* bound on failing commands, broken-off pushes and replaced workers

ASSUME FaultsAssumption == MaxFaults \in Nat

VARIABLES listLen,    \* LLEN of the list
          hasTTL,     \* the list has a time to live
          push,       \* push[p]: the next command of p, or "done"
          newList,    \* newList[p]: RPUSH told p that the list was new (count < 2)
          popper,     \* the worker: "starting", "idle" (in select), "draining" or "handling"
          notices,    \* notifications in the channel of the subscription
          missed,     \* a notification was lost since the list was last drained
          failed,     \* an LPOP has failed since then
          untimed,    \* a push has left out its EXPIRE since the list was last empty
          faults
jobVars == <<listLen, hasTTL, push, newList, popper, notices, missed, failed, untimed, faults>>

JobInit ==
  /\ listLen = 0 /\ hasTTL = FALSE
  /\ push = [p \in Pushers |-> "push"] /\ newList = [p \in Pushers |-> FALSE]
  /\ popper = "starting" /\ notices = 0
  /\ missed = FALSE /\ failed = FALSE /\ untimed = FALSE /\ faults = 0

-----------------------------------------------------------------------------
\* RPUSH, which returns the length of the list.
PushTo(p, next, below) ==
  /\ push[p] = "push"
  /\ listLen' = listLen + 1
  /\ newList' = [newList EXCEPT ![p] = listLen + 1 < below]
  /\ push' = [push EXCEPT ![p] = next]
  /\ UNCHANGED <<hasTTL, popper, notices, missed, failed, untimed, faults>>

\* Mutant: count < 1.
PushNeverNew(p) == PushTo(p, "notify", 1)

\* PUBLISH: lost when nobody is subscribed.
Publish(p, from, next) ==
  /\ push[p] = from
  /\ push' = [push EXCEPT ![p] = next]
  /\ IF popper = "starting" THEN missed' = TRUE /\ UNCHANGED notices
                            ELSE notices' = notices + 1 /\ UNCHANGED missed
  /\ UNCHANGED <<listLen, hasTTL, newList, popper, failed, untimed, faults>>

\* Mutant: the notification goes out before the job is on the list.
PushNotified(p) ==
  \/ Publish(p, "push", "rpush")
  \/ /\ push[p] = "rpush"
     /\ listLen' = listLen + 1 /\ push' = [push EXCEPT ![p] = "done"]
     /\ UNCHANGED <<hasTTL, newList, popper, notices, missed, failed, untimed, faults>>

PushJob(p) == PushTo(p, "notify", 2)

\* An RPUSH that fails gives the count 0: no notification, but an EXPIRE.
PushFails(p) ==
  /\ push[p] = "push" /\ push' = [push EXCEPT ![p] = "expire"]
  /\ newList' = [newList EXCEPT ![p] = TRUE]
  /\ faults < MaxFaults /\ faults' = faults + 1
  /\ UNCHANGED <<listLen, hasTTL, popper, notices, missed, failed, untimed>>

Notify(p) == Publish(p, "notify", IF newList[p] THEN "expire" ELSE "done")

\* EXPIRE acts on whatever list is there by now.
ExpireNew(p) ==
  /\ push[p] = "expire"
  /\ hasTTL' = (listLen > 0)
  /\ push' = [push EXCEPT ![p] = "done"]
  /\ UNCHANGED <<listLen, newList, popper, notices, missed, failed, untimed, faults>>

\* The hour is over: Redis drops the list.
ListExpires ==
  /\ hasTTL
  /\ listLen' = 0 /\ hasTTL' = FALSE /\ untimed' = FALSE
  /\ UNCHANGED <<push, newList, popper, notices, missed, failed, faults>>

\* A PUBLISH or an EXPIRE fails, which nobody looks at, or the broker's process
\* ends between the two.
PushBroken(p) ==
  /\ push[p] \in {"notify", "expire"}
  /\ faults < MaxFaults /\ faults' = faults + 1
  /\ \E next \in {"done"} \cup IF push[p] = "notify" /\ newList[p] THEN {"expire"} ELSE {} :
       /\ push' = [push EXCEPT ![p] = next]
       /\ untimed' = (untimed \/ (newList[p] /\ next = "done"))
  /\ missed' = (missed \/ push[p] = "notify")
  /\ UNCHANGED <<listLen, hasTTL, newList, popper, notices, failed>>

-----------------------------------------------------------------------------
PopperMoves(from, to) ==
  /\ popper = from /\ popper' = to
  /\ UNCHANGED <<push, newList, faults>>

Subscribe ==
  PopperMoves("starting", "idle") /\ UNCHANGED <<listLen, hasTTL, notices, missed, failed, untimed>>

TakeNotice ==
  /\ PopperMoves("idle", "draining")
  /\ notices > 0 /\ notices' = notices - 1
  /\ UNCHANGED <<listLen, hasTTL, missed, failed, untimed>>

\* LPOP; Redis removes a list that has become empty, and its time to live.
PopOne ==
  /\ listLen > 0 /\ listLen' = listLen - 1
  /\ hasTTL' = (hasTTL /\ listLen > 1) /\ untimed' = (untimed /\ listLen > 1)

PopJob ==
  /\ PopperMoves("draining", "handling") /\ PopOne
  /\ UNCHANGED <<notices, missed, failed>>

\* The job has been handled, whatever came of it: the loop pops on.
HandleJob ==
  PopperMoves("handling", "draining") /\ UNCHANGED <<listLen, hasTTL, notices, missed, failed, untimed>>

\* redis.Nil: back to the select.
Drained ==
  /\ PopperMoves("draining", "idle")
  /\ listLen = 0
  /\ missed' = FALSE /\ failed' = FALSE
  /\ UNCHANGED <<listLen, hasTTL, notices, untimed>>

\* Any other error ends the loop: of LPOP, with all jobs still on the list, or
\* with one gone that is never handled, its answer lost or no JSON.
PopFails ==
  /\ popper = "draining" /\ popper' = "idle"
  /\ faults < MaxFaults /\ faults' = faults + 1
  /\ failed' = TRUE
  /\ PopOne \/ UNCHANGED <<listLen, hasTTL, untimed>>
  /\ UNCHANGED <<push, newList, notices, missed>>

\* The process ends; newGuild starts a worker for the same connect code.
PopperReplaced ==
  /\ popper # "starting" /\ popper' = "starting"
  /\ faults < MaxFaults /\ faults' = faults + 1
  /\ notices' = 0 /\ missed' = TRUE
  /\ UNCHANGED <<listLen, hasTTL, push, newList, failed, untimed>>

JobNext ==
  \/ \E p \in Pushers : PushJob(p) \/ PushFails(p) \/ Notify(p) \/ ExpireNew(p) \/ PushBroken(p)
  \/ ListExpires
  \/ Subscribe \/ TakeNotice \/ PopJob \/ HandleJob \/ Drained
  \/ PopFails \/ PopperReplaced

JobSpec == JobInit /\ [][JobNext]_jobVars

-----------------------------------------------------------------------------
JobTypeOK ==
  /\ listLen \in Nat /\ hasTTL \in BOOLEAN
  /\ push \in [Pushers -> {"push", "notify", "expire", "done"}]
  /\ newList \in [Pushers -> BOOLEAN]
  /\ popper \in {"starting", "idle", "draining", "handling"}
  /\ notices \in Nat /\ missed \in BOOLEAN /\ failed \in BOOLEAN /\ untimed \in BOOLEAN
  /\ faults \in Nat

(* No lost wake-up (jobs.go:40-43, eventHandler.go:42-55): a worker that   *)
(* waits in its select while there are jobs has a notification in its      *)
(* channel or to come, unless one was published with nobody subscribed or  *)
(* not at all, or an error ended the drain.                                *)
NoStrandedJob ==
  listLen > 0 /\ popper = "idle" /\ notices = 0 =>
    missed \/ failed \/ \E p \in Pushers : push[p] = "notify"

(* A list that nobody pops does not stay in Redis for ever                 *)
(* (jobs.go:45-49): it has a time to live, or a push that found it new is  *)
(* still to set one - also when the list is emptied and filled again while *)
(* an EXPIRE is under way; an EXPIRE that failed, or that the broker did   *)
(* not live to send, is made up for only when the list has been empty.     *)
ListWillExpire ==
  listLen > 0 /\ ~hasTTL =>
    untimed \/ \E p \in Pushers : newList[p] /\ push[p] \in {"notify", "expire"}
=============================================================================
