------------------------ MODULE GameLifecycle_steps ------------------------
(***************************************************************************)
(* What the steps of GameLifecycle do: they keep the types, the shape of   *)
(* each process (what it holds at each step of its task) and the key of    *)
(* each record, and every step is one of a few kinds, of which lemmas say  *)
(* what they change.  GameLifecycle_proofs builds on this.                 *)
(***************************************************************************)
EXTENDS GameLifecycle, TLAPS

USE DEF Proc, Key

Fetching == {"resolve", "obtain", "body", "pointers", "stored"}
Resolving == {"resolve", "obtain", "body"}

CommandFits(p) ==
  /\ task[p] \in {"none", "new", "start", "end", "touch", "refresh"}
  /\ task[p] = "none" => pc[p] = "ready"
  /\ task[p] = "new" => pc[p] \in Fetching \cup {"send", "sent", "activated", "done", "dead"}
  /\ task[p] \in {"start", "touch", "refresh"} => pc[p] \in Fetching \cup {"done", "dead"}
  /\ task[p] = "end" => pc[p] \in {"look", "send", "sent", "done", "dead"}
  /\ IF task[p] = "start" THEN req[p].code \in Code ELSE req[p].code = NoCode
  /\ pc[p] = "send" => peer[p] \in Worker
  /\ task[p] = "new" /\ pc[p] \in {"pointers", "stored", "activated"} => copy[p].code \in Code
CommandOK == \A p \in Command : CommandFits(p)

WorkerFits(w) ==
  /\ task[w] \in {"none", "job", "force"}
  /\ pc[w] \in Fetching \cup {"ready", "idle", "timedOut", "deleteLock", "delete", "gone", "dead"}
  /\ pc[w] \in Fetching => task[w] \in {"job", "force"}
  /\ pc[w] \in {"deleteLock", "delete", "gone"} => task[w] = "force"
  /\ pc[w] = "ready" => task[w] = "none" /\ req[w].code = NoCode
  /\ pc[w] # "ready" => req[w].code \in Code
  /\ req[w].text = None
  /\ pc[w] \in {"obtain", "body"} => name[w] \in {req[w].code, None}
  /\ pc[w] \in {"body", "pointers", "stored", "deleteLock", "delete"} => copy[w].code = req[w].code
WorkerOK == \A w \in Worker : WorkerFits(w)

GreetingFits(g) ==
  /\ task[g] \in {"none", "greet"}
  /\ pc[g] \in Fetching \cup {"ready", "next", "done", "dead"}
  /\ pc[g] \in Fetching \cup {"next"} => task[g] = "greet"
  /\ pc[g] \in Fetching => req[g].code \in Code \cap todo[g]
  /\ req[g].text = None
  /\ pc[g] \in {"obtain", "body"} => name[g] \in {req[g].code, None}
  /\ pc[g] \in {"body", "pointers", "stored"} => copy[g].code = req[g].code
  /\ pc[g] \in {"pointers", "stored"} =>
       peer[g] \in Worker /\ pc[peer[g]] # "ready" /\ req[peer[g]].code = req[g].code
  /\ pc[g] \in {"ready", "done"} => todo[g] = {}
GreetingOK == \A g \in Greeting : GreetingFits(g)

DataOK == \A k \in Key : data[k] # NoRecord => data[k].code = k

LEMMA FreshRecordType ==
  ASSUME NEW r \in Request
  PROVE  FreshRecord(r) \in Record
BY Zenon DEF FreshRecord, Record, Request

LEMMA EmptyRecordType == EmptyRecord \in Record
<1>1. [code |-> NoCode, text |-> None] \in Request
  BY DEF Request
<1> QED
  BY <1>1, FreshRecordType DEF EmptyRecord

LEMMA RecodedType ==
  ASSUME NEW r \in Record, NEW c \in Key
  PROVE  [r EXCEPT !.code = c] \in Record
BY DEF Record

\* Records, with any set of values in their flag.
LEMMA ReplacedType ==
  ASSUME NEW C, NEW T, NEW V, NEW M,
         NEW r \in [code : C, text : T, voice : V, msg : M],
         NEW v \in V, NEW t \in T, NEW m \in M
  PROVE  /\ [r EXCEPT !.voice = v, !.msg = m, !.text = t]
              \in [code : C, text : T, voice : V, msg : M]
         /\ [r EXCEPT !.text = t, !.msg = m]
              \in [code : C, text : T, voice : V, msg : M]
OBVIOUS

LEMMA BlankedType ==
  ASSUME NEW r \in Record
  PROVE  [r EXCEPT !.text = None, !.msg = FALSE] \in Record
<1>1. None \in Text \cup {None} /\ FALSE \in BOOLEAN
  BY Zenon
<1>2. r.voice \in Voice \cup {None}
  BY DEF Record
<1> QED
  BY <1>1, <1>2, ReplacedType, Zenon DEF Record

LEMMA PostedType ==
  ASSUME NEW r \in Record, NEW v \in Voice, NEW t \in Text \cup {None}, NEW m \in BOOLEAN
  PROVE  [r EXCEPT !.voice = v, !.msg = m, !.text = t] \in Record
<1>1. v \in Voice \cup {None}
  OBVIOUS
<1> QED
  BY <1>1, ReplacedType, Zenon DEF Record

LEMMA ResolvedType ==
  ASSUME TypeOK, NEW r \in Request
  PROVE  /\ KeyOf(r) \in Key \cup {None}
         /\ Lookup(r) \in Record \cup {NoRecord}
<1>1. KeyOf(r) \in Key \cup {None}
  BY DEF TypeOK, Request, KeyOf, Resolved
<1> QED
  BY <1>1, LifecycleAssumption DEF Lookup, TypeOK

LEMMA StoreTypes ==
  ASSUME TypeOK, NEW r \in Record
  PROVE  /\ PutData(r) => data' \in [Key -> Record \cup {NoRecord}]
         /\ PutPointers(r) => /\ codePtr' \subseteq Code
                              /\ textPtr' \in [Text -> Key \cup {None}]
                              /\ voicePtr' \in [Voice -> Key \cup {None}]
<1>1. r.code \in Key
  BY DEF Record
<1>2. PutData(r) => data' \in [Key -> Record \cup {NoRecord}]
  BY <1>1 DEF TypeOK, PutData
<1>3. PutPointers(r) => /\ codePtr' \subseteq Code
                        /\ textPtr' \in [Text -> Key \cup {None}]
                        /\ voicePtr' \in [Voice -> Key \cup {None}]
  BY <1>1 DEF TypeOK, PutPointers
<1> QED
  BY <1>2, <1>3

LEMMA UnlockedType ==
  ASSUME TypeOK, NEW p \in Proc, NEW k \in Key \cup {None}
  PROVE  Unlocked(p, k) \in [Key \cup {None} -> Proc \cup {None}]
BY DEF TypeOK, Unlocked

LEMMA ForgetTypes ==
  ASSUME TypeOK, NEW P, Forget(P)
  PROVE  /\ name' \in [Proc -> Key \cup {None}]
         /\ copy' \in [Proc -> Record]
         /\ peer' \in [Proc -> Worker \cup {None}]
BY EmptyRecordType DEF TypeOK, Forget

LEMMA LeaveTypes ==
  ASSUME TypeOK, NEW p \in Proc, NEW s \in Steps, Leave(p, s)
  PROVE  /\ pc' \in [Proc -> Steps]
         /\ UNCHANGED <<task, req>>
         /\ name' \in [Proc -> Key \cup {None}]
         /\ copy' \in [Proc -> Record]
         /\ peer' \in [Proc -> Worker \cup {None}]
<1>1. Forget({p})
  BY DEF Leave
<1> QED
  BY <1>1, ForgetTypes DEF Leave, Goto, TypeOK

LEMMA CommitTypes ==
  ASSUME TypeOK, NEW p \in Proc, NEW r \in Record, Commit(p, r)
  PROVE  /\ data' \in [Key -> Record \cup {NoRecord}]
         /\ strayed' \subseteq Key
         /\ lock' \in [Key \cup {None} -> Proc \cup {None}]
         /\ copy' \in [Proc -> Record]
         /\ pc' \in [Proc -> Steps]
         /\ UNCHANGED <<codePtr, textPtr, voicePtr>>
<1>1. name[p] \in Key \cup {None}
  BY DEF TypeOK
<1>2. lock' \in [Key \cup {None} -> Proc \cup {None}]
  BY <1>1, UnlockedType DEF Commit
<1>3. r.code \in Key
  BY DEF Record
<1>4. pc' \in [Proc -> Steps]
  BY DEF Commit, Goto, TypeOK, Steps
<1>5. data' \in [Key -> Record \cup {NoRecord}]
  BY StoreTypes DEF Commit
<1> QED
  BY <1>2, <1>3, <1>4, <1>5 DEF Commit, TypeOK

LEMMA StartWorkerTypes ==
  ASSUME TypeOK, NEW p \in Proc, NEW w \in Worker, NEW c \in Key, NEW s \in Steps,
         StartWorker(p, w, c, s), p # w
  PROVE  /\ pc' \in [Proc -> Steps]
         /\ req' \in [Proc -> Request]
         /\ pc'[p] = s /\ pc'[w] = "idle"
         /\ req'[p].code = c /\ req'[p].text = req[p].text
         /\ req'[w].code = c /\ req'[w].text = None
         /\ \A q \in Proc : q \notin {p, w} => pc'[q] = pc[q] /\ req'[q] = req[q]
<1>1. [code |-> c, text |-> None] \in Request /\ [req[p] EXCEPT !.code = c] \in Request
  BY DEF Request, TypeOK
<1>2. req \in [Proc -> Request]
  BY DEF TypeOK
<1>3. req' = [q \in Proc |-> IF q = p THEN [req[p] EXCEPT !.code = c]
                             ELSE IF q = w THEN [code |-> c, text |-> None]
                             ELSE req[q]]
  BY <1>2 DEF StartWorker
<1>4. pc' \in [Proc -> Steps] /\ pc'[p] = s /\ pc'[w] = "idle"
  BY DEF StartWorker, TypeOK, Steps
<1>5. \A q \in Proc : q \notin {p, w} => pc'[q] = pc[q]
  BY DEF StartWorker, TypeOK
<1>6. [req[p] EXCEPT !.code = c].code = c /\ [req[p] EXCEPT !.code = c].text = req[p].text
  BY <1>2 DEF Request
<1> QED
  BY <1>1, <1>2, <1>3, <1>4, <1>5, <1>6

\* The code that generateConnectCode gives is a new one.
LEMMA NewCodeIsFresh ==
  ASSUME TypeOK, NEW p \in Proc, NEW r, NewCode(p, r)
  PROVE  \E c \in Code \ used :
           used' = used \cup {c} /\ Commit(p, [r EXCEPT !.code = c])
<1>1. Code # used /\ used \subseteq Code
  BY DEF NewCode, TypeOK
<1>2. \E c \in Code : c \notin used
  BY <1>1
<1> DEFINE c == CHOOSE d \in Code : d \notin used
<1>3. c \in Code \ used
  BY <1>2
<1>4. used' = used \cup {c} /\ Commit(p, [r EXCEPT !.code = c])
  BY DEF NewCode
<1> QED
  BY <1>3, <1>4

\* Every step of a process keeps the types.
LEMMA StepTypes ==
  ASSUME TypeOK, CommandOK, WorkerOK, GreetingOK, NEW p \in Proc, Step(p)
  PROVE  TypeOK'
<1> USE LifecycleAssumption DEF TypeOK, Goto, Begin, store, shared, frame, local, session
<1>1. CASE Resolve(p)
  BY <1>1, ResolvedType DEF Resolve, Steps
<1>2. CASE Fetch(p)
  <2> DEFINE r == IF Lookup(req[p]) # NoRecord THEN Lookup(req[p])
                  ELSE FreshRecord(req[p])
  <2>1. r \in Record /\ FreshRecord(req[p]) \in Record
    BY ResolvedType, FreshRecordType
  <2>2. /\ data' \in [Key -> Record \cup {NoRecord}]
        /\ codePtr' \subseteq Code
        /\ textPtr' \in [Text -> Key \cup {None}]
        /\ voicePtr' \in [Voice -> Key \cup {None}]
    <3>1. \/ PutData(r) /\ PutPointers(r)
          \/ UNCHANGED store
      BY <1>2, Zenon DEF Fetch
    <3> QED
      BY <3>1, <2>1, StoreTypes
  <2>3. copy' = [copy EXCEPT ![p] = r]
    BY <1>2, Zenon DEF Fetch
  <2> QED
    BY <1>2, <2>1, <2>2, <2>3 DEF Fetch, Steps
<1>3. CASE NotObtained(p)
  BY <1>3, LeaveTypes DEF NotObtained, Steps
<1>4. CASE Pointers(p)
  BY <1>4, StoreTypes DEF Pointers, Steps
<1>5. CASE Return(p) \/ RefreshNothing(p) \/ JobDone(p) \/ NoMoreGames(p)
  BY <1>5, LeaveTypes DEF Return, RefreshNothing, JobDone, NoMoreGames, Steps
<1>6. CASE NewOverShown(p)
  BY <1>6 DEF NewOverShown, KillOrGoOn, Steps
<1>7. ASSUME NEW r \in Record, NewCode(p, r), UNCHANGED <<games, todo, doubled, restarts, task, req, name, peer>>,
             chan' \in [Code -> Worker \cup {None}]
      PROVE  TypeOK'
  <2>1. PICK c \in Code \ used : used' = used \cup {c} /\ Commit(p, [r EXCEPT !.code = c])
    BY <1>7, NewCodeIsFresh
  <2>2. [r EXCEPT !.code = c] \in Record
    BY RecodedType
  <2> QED
    BY <1>7, <2>1, <2>2, CommitTypes
<1>8. CASE NewAfterKill(p)
  <2>1. chan' \in [Code -> Worker \cup {None}]
    BY <1>8 DEF NewAfterKill, DropEntry
  <2> QED
    BY <1>8, <2>1, <1>7, EmptyRecordType DEF NewAfterKill
<1>9. CASE NewWithoutGame(p)
  BY <1>9, <1>7 DEF NewWithoutGame
<1>10. CASE NewLockout(p) \/ TouchNothing(p)
  <2>1. ReleaseOnly(p)
    BY <1>10 DEF NewLockout, TouchNothing
  <2>2. name[p] \in Key \cup {None}
    OBVIOUS
  <2>3. lock' \in [Key \cup {None} -> Proc \cup {None}]
    BY <2>1, <2>2, UnlockedType DEF ReleaseOnly
  <2> QED
    BY <2>1, <2>3, LeaveTypes DEF ReleaseOnly, Steps
<1>11. CASE Activate(p)
  <2>1. copy[p].code \in Code
    BY <1>11 DEF Activate, CommandOK, CommandFits, WorkerOK, WorkerFits, GreetingOK, GreetingFits, Tasks
  <2> QED
    BY <1>11, <2>1 DEF Activate, Steps
<1>12. CASE Launch(p)
  <2>1. copy[p].code \in Code /\ NextWorker \in Worker
    BY <1>12 DEF Launch, StartWorker, CommandOK, CommandFits, WorkerOK, WorkerFits, GreetingOK, GreetingFits, Tasks
  <2>2. req' \in [Proc -> Request]
    BY <1>12, <2>1, StartWorkerTypes DEF Launch, Steps, CommandOK, CommandFits, WorkerOK, WorkerFits
  <2>3. pc' \in [Proc -> Steps] /\ task' \in [Proc -> Tasks] /\ chan' \in [Code -> Worker \cup {None}]
    BY <1>12, <2>1 DEF Launch, StartWorker, Steps, Tasks
  <2> QED
    BY <1>12, <2>2, <2>3 DEF Launch
<1>13. ASSUME NEW r \in Record, Commit(p, r), UNCHANGED <<session, task, req, name, peer>>
       PROVE  TypeOK'
  BY <1>13, CommitTypes
<1>14. CASE ShowGame(p)
  <2>1. PICK v \in Voice, posted \in BOOLEAN :
           Commit(p, [copy[p] EXCEPT !.voice = v, !.msg = posted,
                        !.text = IF posted THEN req[p].text ELSE None])
    BY <1>14, Zenon DEF ShowGame
  <2> DEFINE t == IF posted THEN req[p].text ELSE None
  <2>2. t \in Text \cup {None}
    BY DEF Request
  <2>3. [copy[p] EXCEPT !.voice = v, !.msg = posted, !.text = t] \in Record
    BY <2>2, PostedType
  <2> QED
    BY <1>14, <1>13, <2>1, <2>3, Zenon DEF ShowGame
<1>15. CASE TouchShown(p) \/ RefreshShown(p)
  BY <1>15, <1>13 DEF TouchShown, RefreshShown
<1>16. CASE DoJob(p)
  <2>1. [copy[p] EXCEPT !.code = req[p].code] \in Record
    BY RecodedType DEF Request
  <2> QED
    BY <1>16, <2>1, <1>13 DEF DoJob
<1>17. CASE ForceReset(p)
  BY <1>17, <1>13, BlankedType, Zenon DEF ForceReset
<1>18. CASE EndLook(p)
  <2>1. CASE Leave(p, "done")
    BY <1>18, <2>1, LeaveTypes DEF EndLook, Steps
  <2>2. CASE ~Leave(p, "done")
    BY <1>18, <2>2, ResolvedType DEF EndLook, KillOrGoOn, Steps
  <2> QED
    BY <2>1, <2>2
<1>19. CASE EndUnmute(p)
  BY <1>19, LeaveTypes DEF EndUnmute, DropEntry, Steps
<1>20. CASE DropOwnEntry(p)
  BY <1>20 DEF DropOwnEntry, DropEntry, Steps, Tasks
<1>21. CASE RemoveOldGame(p)
  <2> DEFINE r == Lookup([code |-> copy[p].code, text |-> None])
  <2>1. r \in Record \cup {NoRecord}
    <3>1. [code |-> copy[p].code, text |-> None] \in Request
      BY DEF Request, Record
    <3> QED
      BY <3>1, ResolvedType
  <2>2. CASE r = NoRecord
    BY <1>21, <2>2, LeaveTypes DEF RemoveOldGame, Steps
  <2>3. CASE r # NoRecord
    BY <1>21, <2>1, <2>3 DEF RemoveOldGame, Steps
  <2> QED
    BY <2>2, <2>3
<1>22. CASE LockToDelete(p)
  BY <1>22 DEF LockToDelete, Steps
<1>23. CASE Delete(p)
  <2>1. copy[p].code \in Key
    BY DEF Record
  <2>2. lock' \in [Key \cup {None} -> Proc \cup {None}]
    BY <1>23, <2>1, UnlockedType DEF Delete
  <2>3. data' \in [Key -> Record \cup {NoRecord}] /\ codePtr' \subseteq Code
    BY <1>23 DEF Delete
  <2>4. textPtr' \in [Text -> Key \cup {None}] /\ voicePtr' \in [Voice -> Key \cup {None}]
    BY <1>23 DEF Delete
  <2> QED
    BY <1>23, <2>2, <2>3, <2>4, LeaveTypes DEF Delete, Steps
<1>24. CASE NextGame(p)
  <2>1. p \in Greeting
    BY <1>24 DEF NextGame, CommandOK, CommandFits, WorkerOK, WorkerFits, Fetching, Tasks
  <2> QED
    BY <1>24, <2>1, SMTT(30) DEF NextGame, Steps, Request
<1>25. CASE Resubscribe(p)
  <2>1. p \in Greeting /\ NextWorker \in Worker
    BY <1>25 DEF Resubscribe, StartWorker, CommandOK, CommandFits, WorkerOK, WorkerFits
  <2>2. copy[p].code \in Key /\ copy[p] \in Record
    BY DEF Record
  <2>3. data' \in [Key -> Record \cup {NoRecord}]
    BY <1>25, <2>2, StoreTypes DEF Resubscribe
  <2>4. lock' \in [Key \cup {None} -> Proc \cup {None}]
    BY <1>25, UnlockedType DEF Resubscribe
  <2>5. req' \in [Proc -> Request] /\ pc' \in [Proc -> Steps]
    BY <1>25, <2>1, <2>2, StartWorkerTypes DEF Resubscribe, Steps
  <2> QED
    BY <1>25, <2>1, <2>3, <2>4, <2>5 DEF Resubscribe
<1>26. CASE Register(p)
  <2>1. p \in Greeting /\ peer[p] \in Worker
    BY <1>26 DEF Register, CommandOK, CommandFits, WorkerOK, WorkerFits, GreetingOK, GreetingFits
  <2>2. chan' \in [Code -> Worker \cup {None}] /\ todo' \in [Greeting -> SUBSET Code]
    BY <1>26, <2>1 DEF Register
  <2> QED
    BY <1>26, <2>2, LeaveTypes DEF Register, Steps
<1> QED
  BY <1>1, <1>2, <1>3, <1>4, <1>5, <1>6, <1>8, <1>9, <1>10, <1>11, <1>12, <1>14,
     <1>15, <1>16, <1>17, <1>18, <1>19, <1>20, <1>21, <1>22, <1>23, <1>24, <1>25,
     <1>26 DEF Step

LEMMA NextTypes ==
  ASSUME TypeOK, CommandOK, WorkerOK, GreetingOK, [Next]_vars
  PROVE  TypeOK'
<1> USE LifecycleAssumption DEF TypeOK, Goto, Begin, store, shared, frame, local, session
<1>1. ASSUME NEW p \in Command, NEW op \in Ops, NEW t \in Text, Issue(p, op, t)
      PROVE  TypeOK'
  <2>1. [code |-> NoCode, text |-> t] \in Request
    BY DEF Request
  <2> QED
    BY <1>1, <2>1 DEF Issue, Steps, Tasks
<1>2. ASSUME NEW g \in Greeting, LoadAllActiveGames(g)
      PROVE  TypeOK'
  BY <1>2 DEF LoadAllActiveGames, Steps, Tasks
<1>3. ASSUME NEW p \in Command, Send(p)
      PROVE  TypeOK'
  BY <1>3 DEF Send, Steps, Tasks
<1>4. ASSUME NEW p \in Proc, Step(p)
      PROVE  TypeOK'
  BY <1>4, StepTypes
<1>5. ASSUME NEW w \in Worker, TakeJob(w)
      PROVE  TypeOK'
  BY <1>5 DEF TakeJob, Steps, Tasks, WorkerOK, WorkerFits
<1>6. ASSUME NEW w \in Worker, Timeout(w)
      PROVE  TypeOK'
  BY <1>6 DEF Timeout, Steps
<1>7. ASSUME NEW k \in Key \cup {None}, Expire(k)
      PROVE  TypeOK'
  BY <1>7 DEF Expire
<1>8. CASE Crash
  <2>1. restarts' \in 0 .. MaxRestarts
    BY <1>8 DEF Crash
  <2>2. pc' \in [Proc -> Steps] /\ chan' \in [Code -> Worker \cup {None}]
    BY <1>8 DEF Crash, Steps
  <2> QED
    BY <1>8, <2>1, <2>2, ForgetTypes DEF Crash
<1>9. CASE UNCHANGED vars
  BY <1>9 DEF vars
<1> QED
  BY <1>1, <1>2, <1>3, <1>4, <1>5, <1>6, <1>7, <1>8, <1>9 DEF Next

\* What Launch and Resubscribe do to each process.
LEMMA LaunchEffect ==
  ASSUME TypeOK, CommandOK, WorkerOK, GreetingOK, NEW p \in Proc, Launch(p)
  PROVE  /\ p \in Command /\ copy[p].code \in Code
         /\ NextWorker \in Worker /\ NextWorker # p /\ pc[NextWorker] = "ready"
         /\ pc'[p] = "resolve" /\ pc'[NextWorker] = "idle"
         /\ task'[p] = "start"
         /\ req'[p].code = copy[p].code
         /\ req'[NextWorker].code = copy[p].code /\ req'[NextWorker].text = None
         /\ \A q \in Proc : q \notin {p, NextWorker} => pc'[q] = pc[q] /\ req'[q] = req[q]
         /\ \A q \in Proc : q # p => task'[q] = task[q]
         /\ UNCHANGED <<name, copy, peer, todo>>
<1>1. /\ p \in Command /\ NextWorker \in Worker /\ copy[p].code \in Code
      /\ NextWorker # p /\ pc[NextWorker] = "ready"
  BY LifecycleAssumption
     DEF Launch, StartWorker, CommandOK, CommandFits, WorkerOK, WorkerFits, GreetingOK, GreetingFits, TypeOK
<1>2. StartWorker(p, NextWorker, copy[p].code, "resolve")
  BY DEF Launch
<1>3. "resolve" \in Steps /\ copy[p].code \in Key
  BY <1>1 DEF Steps
<1>4. /\ task'[p] = "start"
      /\ \A q \in Proc : q # p => task'[q] = task[q]
      /\ UNCHANGED <<name, copy, peer, todo>>
  BY DEF Launch, Begin, TypeOK
<1> QED
  BY <1>1, <1>2, <1>3, <1>4, StartWorkerTypes

LEMMA ResubscribeEffect ==
  ASSUME TypeOK, CommandOK, WorkerOK, GreetingOK, NEW g \in Proc, Resubscribe(g)
  PROVE  /\ g \in Greeting /\ copy[g].code \in Code
         /\ copy[g].code = req[g].code /\ copy[g].code \in todo[g]
         /\ NextWorker \in Worker /\ NextWorker # g /\ pc[NextWorker] = "ready"
         /\ pc'[g] = "pointers" /\ pc'[NextWorker] = "idle"
         /\ peer'[g] = NextWorker
         /\ req'[g].code = req[g].code /\ req'[g].text = req[g].text
         /\ req'[NextWorker].code = copy[g].code /\ req'[NextWorker].text = None
         /\ \A q \in Proc : q \notin {g, NextWorker} => pc'[q] = pc[q] /\ req'[q] = req[q]
         /\ \A q \in Proc : q # g => peer'[q] = peer[q]
         /\ UNCHANGED <<task, name, copy, todo>>
<1>1. /\ g \in Greeting /\ NextWorker \in Worker /\ copy[g].code \in Code
      /\ NextWorker # g /\ pc[NextWorker] = "ready"
      /\ copy[g].code = req[g].code /\ copy[g].code \in todo[g]
  BY LifecycleAssumption
     DEF Resubscribe, StartWorker, CommandOK, CommandFits, WorkerOK, WorkerFits, GreetingOK, GreetingFits, Fetching, TypeOK
<1>2. StartWorker(g, NextWorker, copy[g].code, "pointers")
  BY DEF Resubscribe
<1>3. "pointers" \in Steps /\ copy[g].code \in Key
  BY <1>1 DEF Steps
<1>4. /\ peer'[g] = NextWorker
      /\ \A q \in Proc : q # g => peer'[q] = peer[q]
      /\ UNCHANGED <<task, name, copy, todo>>
  BY DEF Resubscribe, session, TypeOK
<1> QED
  BY <1>1, <1>2, <1>3, <1>4, StartWorkerTypes

\* p writes back its copy, changed to r.
WritesBack(p, r) ==
  /\ Commit(p, r)
  /\ UNCHANGED <<session, task, req, name, peer>>
  /\ pc[p] = "body" /\ task[p] \in {"start", "touch", "refresh", "job", "force"}
  /\ r.code = copy[p].code
  /\ Shown(r) => task[p] = "start" \/ Shown(copy[p])
  /\ task[p] \in {"touch", "refresh"} => Shown(copy[p])
  /\ task[p] = "force" => ~Shown(r)

LEMMA WriteBackEffect ==
  ASSUME TypeOK, WorkerOK, CommandOK, GreetingOK, NEW p \in Proc,
         ShowGame(p) \/ TouchShown(p) \/ RefreshShown(p) \/ DoJob(p) \/ ForceReset(p)
  PROVE  \E r \in Record : WritesBack(p, r)
<1> USE DEF WritesBack, Shown
<1>0. copy[p] \in Record /\ req[p] \in Request
  BY DEF TypeOK
<1>1. CASE ShowGame(p)
  <2>1. PICK v \in Voice, posted \in BOOLEAN :
           Commit(p, [copy[p] EXCEPT !.voice = v, !.msg = posted,
                        !.text = IF posted THEN req[p].text ELSE None])
    BY <1>1, Zenon DEF ShowGame
  <2> DEFINE t == IF posted THEN req[p].text ELSE None
             r == [copy[p] EXCEPT !.voice = v, !.msg = posted, !.text = t]
  <2>2. t \in Text \cup {None}
    BY <1>0 DEF Request
  <2>3. r \in Record
    BY <1>0, <2>2, PostedType
  <2>4. r.code = copy[p].code
    BY <1>0 DEF Record
  <2>5. task[p] = "start" /\ pc[p] = "body" /\ UNCHANGED <<session, task, req, name, peer>>
    BY <1>1 DEF ShowGame
  <2> QED
    BY <2>1, <2>3, <2>4, <2>5, Zenon
<1>2. CASE TouchShown(p) \/ RefreshShown(p)
  BY <1>0, <1>2 DEF TouchShown, RefreshShown
<1>3. CASE DoJob(p)
  <2>1. p \in Worker /\ copy[p].code = req[p].code
    BY <1>3 DEF DoJob, CommandOK, CommandFits, WorkerOK, WorkerFits, GreetingOK, GreetingFits
  <2>2. [copy[p] EXCEPT !.code = req[p].code] = copy[p]
    BY <1>0, <2>1 DEF Record
  <2> QED
    BY <1>0, <1>3, <2>2 DEF DoJob
<1>4. CASE ForceReset(p)
  <2> DEFINE r == [copy[p] EXCEPT !.text = None, !.msg = FALSE]
  <2>1. r \in Record
    BY <1>0, BlankedType, Zenon
  <2>2. r.code = copy[p].code /\ r.text = None
    BY <1>0 DEF Record
  <2>3. Commit(p, r) /\ task[p] = "force" /\ pc[p] = "body" /\ UNCHANGED <<session, task, req, name, peer>>
    BY <1>4 DEF ForceReset
  <2> QED
    BY <2>1, <2>2, <2>3
<1> QED
  BY <1>1, <1>2, <1>3, <1>4

\* But for the worker that Launch and Resubscribe start, a process changes
\* nothing of the others.
OthersKept(p) ==
  /\ \A q \in Proc \ {p} :
       /\ pc'[q] = pc[q] /\ task'[q] = task[q] /\ req'[q] = req[q]
       /\ name'[q] = name[q] /\ copy'[q] = copy[q] /\ peer'[q] = peer[q]
  /\ \A g \in Greeting \ {p} : todo'[g] = todo[g]

LEMMA StepKeepsOthers ==
  ASSUME TypeOK, NEW p \in Proc, Step(p)
  PROVE  Launch(p) \/ Resubscribe(p) \/ OthersKept(p)
<1> USE LifecycleAssumption
    DEF Goto, Begin, store, shared, frame, local, session, TypeOK, Leave, Forget, OthersKept
<1>1. CASE Resolve(p) \/ NotObtained(p) \/ Pointers(p) \/ Return(p)
  BY <1>1 DEF Resolve, NotObtained, Pointers, Return
<1>2. CASE Fetch(p)
  BY <1>2 DEF Fetch
<1>3. CASE NewAfterKill(p) \/ NewWithoutGame(p)
  BY <1>3 DEF NewAfterKill, NewWithoutGame, NewCode, Commit
<1>4. CASE NewOverShown(p) \/ NewLockout(p) \/ Activate(p)
  BY <1>4 DEF NewOverShown, KillOrGoOn, NewLockout, ReleaseOnly, Activate
<1>5. CASE ShowGame(p) \/ TouchShown(p) \/ RefreshShown(p) \/ DoJob(p) \/ ForceReset(p)
  BY <1>5 DEF ShowGame, TouchShown, RefreshShown, DoJob, ForceReset, Commit
<1>6. CASE TouchNothing(p) \/ RefreshNothing(p) \/ EndUnmute(p) \/ JobDone(p)
  BY <1>6 DEF TouchNothing, ReleaseOnly, RefreshNothing, EndUnmute, JobDone
<1>7. CASE EndLook(p)
  BY <1>7 DEF EndLook, KillOrGoOn
<1>8. CASE DropOwnEntry(p) \/ RemoveOldGame(p) \/ LockToDelete(p) \/ Delete(p)
  BY <1>8 DEF DropOwnEntry, RemoveOldGame, LockToDelete, Delete
<1>9. CASE NextGame(p) \/ NoMoreGames(p) \/ Register(p)
  BY <1>9 DEF NextGame, NoMoreGames, Register
<1> QED
  BY <1>1, <1>2, <1>3, <1>4, <1>5, <1>6, <1>7, <1>8, <1>9 DEF Step

Fits(p) ==
  /\ p \in Command => CommandFits(p)
  /\ p \in Worker => WorkerFits(p)
  /\ p \in Greeting => GreetingFits(p)

\* What a lookup finds has the code of the key it was found by; without a text
\* channel that is the code asked for.
LEMMA LookupFinds ==
  ASSUME TypeOK, DataOK, NEW r \in Request
  PROVE  /\ Lookup(r) # NoRecord => /\ KeyOf(r) \in Key /\ Lookup(r) = data[KeyOf(r)]
                                    /\ Lookup(r).code = KeyOf(r)
         /\ r.code \in codePtr => KeyOf(r) = r.code
         /\ r.text = None => KeyOf(r) \in {r.code, None}
         /\ FreshRecord(r).code = r.code /\ ~Shown(FreshRecord(r))
<1>1. KeyOf(r) \in Key \cup {None}
  BY ResolvedType
<1>2. Lookup(r) # NoRecord => KeyOf(r) \in Key /\ Lookup(r) = data[KeyOf(r)]
  BY <1>1 DEF Lookup
<1>3. Lookup(r) # NoRecord => Lookup(r).code = KeyOf(r)
  BY <1>2 DEF DataOK
<1>4. /\ r.code \in codePtr => KeyOf(r) = r.code
      /\ r.text = None => KeyOf(r) \in {r.code, None}
  BY DEF KeyOf, Resolved
<1>5. FreshRecord(r).code = r.code /\ ~Shown(FreshRecord(r))
  BY DEF FreshRecord, Shown
<1> QED
  BY <1>2, <1>3, <1>4, <1>5

LEMMA FetchEffect ==
  ASSUME TypeOK, DataOK, NEW p \in Proc, Fetch(p)
  PROVE  /\ pc[p] = "obtain" /\ pc'[p] = "body"
         /\ lock[name[p]] = None /\ lock' = [lock EXCEPT ![name[p]] = p]
         /\ req[p].text = None => copy'[p].code = req[p].code
         /\ \/ /\ Lookup(req[p]) # NoRecord
               /\ copy'[p] = Lookup(req[p]) /\ copy'[p].code = KeyOf(req[p])
               /\ UNCHANGED store
            \/ /\ Lookup(req[p]) = NoRecord
               /\ copy'[p] = FreshRecord(req[p]) /\ copy'[p].code = req[p].code
               /\ ~Shown(copy'[p])
               /\ \/ PutData(copy'[p]) /\ PutPointers(copy'[p])
                  \/ ~Storable(copy'[p]) /\ UNCHANGED store
         /\ UNCHANGED <<strayed, session, task, req, name, peer>>
<1>1. req[p] \in Request /\ copy \in [Proc -> Record] /\ pc \in [Proc -> Steps]
  BY DEF TypeOK
<1>2. CASE Lookup(req[p]) # NoRecord
  <2>1. copy'[p] = Lookup(req[p]) /\ UNCHANGED store
    BY <1>1, <1>2 DEF Fetch
  <2>2. copy'[p].code = KeyOf(req[p]) /\ KeyOf(req[p]) \in Key
    BY <1>1, <1>2, <2>1, LookupFinds
  <2>3. req[p].text = None => KeyOf(req[p]) = req[p].code
    BY <1>1, <2>2, LookupFinds, LifecycleAssumption
  <2> QED
    BY <1>1, <1>2, <2>1, <2>2, <2>3 DEF Fetch, Goto
<1>3. CASE Lookup(req[p]) = NoRecord
  <2>1. copy'[p] = FreshRecord(req[p])
    BY <1>1, <1>3 DEF Fetch
  <2>2. \/ PutData(copy'[p]) /\ PutPointers(copy'[p])
        \/ ~Storable(copy'[p]) /\ UNCHANGED store
    BY <1>3, <2>1 DEF Fetch
  <2> QED
    BY <1>1, <1>3, <2>1, <2>2, LookupFinds DEF Fetch, Goto
<1> QED
  BY <1>2, <1>3

LEMMA RemoveEffect ==
  ASSUME TypeOK, DataOK, WorkerOK, CommandOK, GreetingOK, NEW w \in Proc, RemoveOldGame(w)
  PROVE  /\ w \in Worker /\ copy[w].code = req[w].code
         /\ task[w] = "force" /\ pc[w] = "stored"
         /\ games' = games \ {req[w].code}
         /\ \/ /\ Lookup([code |-> req[w].code, text |-> None]) = NoRecord
               /\ Leave(w, "gone")
            \/ /\ copy'[w] = data[req[w].code] /\ copy'[w].code = req[w].code
               /\ data[req[w].code] # NoRecord
               /\ pc'[w] = "deleteLock"
               /\ UNCHANGED <<task, req, name, peer>>
         /\ UNCHANGED <<shared, chan, used, todo, doubled, restarts>>
<1> DEFINE q == [code |-> req[w].code, text |-> None]
<1>1. w \in Worker /\ copy[w].code = req[w].code /\ task[w] = "force" /\ pc[w] = "stored"
  BY DEF RemoveOldGame, CommandOK, CommandFits, WorkerOK, WorkerFits, GreetingOK, GreetingFits, Fetching
<1>2. copy \in [Proc -> Record] /\ pc \in [Proc -> Steps]
  BY DEF TypeOK
<1>3. q \in Request /\ q.code = req[w].code /\ q.text = None
  BY DEF TypeOK, Request
<1>4. games' = games \ {req[w].code} /\ UNCHANGED <<shared, chan, used, todo, doubled, restarts>>
  BY <1>1 DEF RemoveOldGame
<1>5. CASE Lookup(q) = NoRecord
  BY <1>1, <1>4, <1>5 DEF RemoveOldGame
<1>6. CASE Lookup(q) # NoRecord
  <2>1. KeyOf(q) \in Key /\ Lookup(q) = data[KeyOf(q)] /\ KeyOf(q) = req[w].code /\ Lookup(q).code = KeyOf(q)
    BY <1>3, <1>6, LookupFinds, LifecycleAssumption
  <2>2. copy'[w] = Lookup(q) /\ pc'[w] = "deleteLock" /\ UNCHANGED <<task, req, name, peer>>
    BY <1>1, <1>2, <1>6 DEF RemoveOldGame, Goto
  <2> QED
    BY <1>1, <1>4, <1>6, <2>1, <2>2
<1> QED
  BY <1>5, <1>6

LEMMA StepFits ==
  ASSUME TypeOK, DataOK, CommandOK, WorkerOK, GreetingOK,
         NEW p \in Proc, Fits(p), Step(p), ~Launch(p), ~Resubscribe(p)
  PROVE  Fits(p)' /\ pc'[p] # "ready" /\ (p \in Worker => req'[p] = req[p])
<1>1. CASE Fetch(p)
  BY <1>1, FetchEffect, LifecycleAssumption
     DEF session, Fits, CommandFits, WorkerFits, GreetingFits, Fetching, TypeOK, Request
<1>2. ASSUME NEW r \in Record, WritesBack(p, r) PROVE Fits(p)' /\ pc'[p] # "ready" /\ (p \in Worker => req'[p] = req[p])
  BY <1>2 DEF WritesBack, Commit, Goto, session, TypeOK, Fits, CommandFits, WorkerFits, GreetingFits, Fetching
<1>3. CASE RemoveOldGame(p)
  <2>1. p \in Worker /\ WorkerFits(p) /\ task[p] = "force" /\ pc[p] = "stored"
    BY <1>3, RemoveEffect DEF Fits
  <2>2. CASE Leave(p, "gone")
    BY <2>1, <2>2, LifecycleAssumption DEF Leave, Goto, Forget, TypeOK, Fits, WorkerFits, Fetching
  <2>3. CASE ~Leave(p, "gone")
    <3>1. copy'[p].code = req[p].code /\ pc'[p] = "deleteLock" /\ UNCHANGED <<task, req, name, peer>>
      BY <1>3, <2>3, RemoveEffect
    <3> QED
      BY <2>1, <3>1, LifecycleAssumption DEF Fits, WorkerFits, Fetching
  <2> QED
    BY <2>2, <2>3
<1>4. CASE Resolve(p)
  <2>1. name'[p] = KeyOf(req[p]) /\ (req[p].text = None => name'[p] \in {req[p].code, None})
    BY <1>4, LookupFinds DEF Resolve, TypeOK
  <2> QED
    BY <1>4, <2>1 DEF Resolve, Goto, session, TypeOK, Fits, CommandFits, WorkerFits, GreetingFits, Fetching
<1> USE LifecycleAssumption
    DEF Goto, Begin, store, shared, frame, local, session, TypeOK, Leave, Forget,
        Fits, CommandFits, WorkerFits, GreetingFits, Fetching
<1>5. CASE NotObtained(p)
  BY <1>5 DEF NotObtained, Insists
<1>55. CASE Pointers(p)
  BY <1>55 DEF Pointers
<1>56. CASE Return(p)
  BY <1>56 DEF Return
<1>6. CASE NewOverShown(p) \/ NewLockout(p) \/ Activate(p)
  BY <1>6 DEF NewOverShown, KillOrGoOn, NewLockout, ReleaseOnly, Activate
<1>8. CASE TouchNothing(p) \/ RefreshNothing(p) \/ EndUnmute(p) \/ JobDone(p)
  BY <1>8 DEF TouchNothing, ReleaseOnly, RefreshNothing, EndUnmute, JobDone
<1>9. CASE EndLook(p)
  BY <1>9 DEF EndLook, KillOrGoOn
<1>10. CASE DropOwnEntry(p) \/ LockToDelete(p) \/ Delete(p)
  BY <1>10 DEF DropOwnEntry, RemoveOldGame, LockToDelete, Delete
<1>11. CASE NextGame(p)
  <2>1. p \in Greeting
    BY <1>11 DEF NextGame
  <2>2. PICK c \in todo[p] : req' = [req EXCEPT ![p].code = c]
    BY <1>11 DEF NextGame
  <2>3. c \in Code /\ req'[p].code = c /\ req'[p].text = None
    BY <2>1, <2>2 DEF Request
  <2> QED
    BY <1>11, <2>1, <2>2, <2>3 DEF NextGame
<1>12. CASE NoMoreGames(p)
  BY <1>12 DEF NoMoreGames
<1>13. CASE Register(p)
  BY <1>13 DEF Register
<1>14. CASE NewAfterKill(p) \/ NewWithoutGame(p)
  <2>1. PICK r \in Record : NewCode(p, r) /\ task[p] = "new" /\ UNCHANGED <<todo, task, req, name, peer>>
    BY <1>14, EmptyRecordType DEF NewAfterKill, NewWithoutGame
  <2>2. PICK c \in Code \ used : Commit(p, [r EXCEPT !.code = c])
    BY <2>1, NewCodeIsFresh
  <2>3. [r EXCEPT !.code = c].code = c
    BY DEF Record
  <2> QED
    BY <2>1, <2>2, <2>3 DEF Commit
<1> QED
  BY <1>1, <1>2, <1>3, <1>4, <1>5, <1>55, <1>56, <1>6, <1>8, <1>9, <1>10, <1>11, <1>12,
     <1>13, <1>14, WriteBackEffect DEF Step

ProcsOK == CommandOK /\ WorkerOK /\ GreetingOK

LEMMA FitsOK == ProcsOK <=> \A p \in Proc : Fits(p)
BY LifecycleAssumption DEF ProcsOK, Fits, CommandOK, WorkerOK, GreetingOK

LEMMA FitsOKNext == (\A p \in Proc : Fits(p)') => ProcsOK'
BY LifecycleAssumption DEF ProcsOK, Fits, CommandOK, WorkerOK, GreetingOK

\* The processes other than p still fit when they are kept.
LEMMA OthersFit ==
  ASSUME TypeOK, ProcsOK, NEW p \in Proc, OthersKept(p),
         pc'[p] # "ready", p \in Worker => req'[p] = req[p],
         NEW q \in Proc, q # p
  PROVE  Fits(q)'
<1>1. /\ pc'[q] = pc[q] /\ task'[q] = task[q] /\ req'[q] = req[q]
      /\ name'[q] = name[q] /\ copy'[q] = copy[q] /\ peer'[q] = peer[q]
      /\ (q \in Greeting => todo'[q] = todo[q])
  BY DEF OthersKept
<1>2. \A w \in Worker : pc[w] # "ready" => pc'[w] # "ready" /\ req'[w] = req[w]
  BY DEF OthersKept
<1>3. Fits(q)
  BY FitsOK
<1> QED
  BY <1>1, <1>2, <1>3 DEF Fits, CommandFits, WorkerFits, GreetingFits

LEMMA StepProcsOK ==
  ASSUME TypeOK, DataOK, ProcsOK, NEW p \in Proc, Step(p)
  PROVE  ProcsOK'
<1>0. CommandOK /\ WorkerOK /\ GreetingOK
  BY DEF ProcsOK
<1>1. CASE Launch(p)
  <2>1. ASSUME NEW q \in Proc PROVE Fits(q)'
    <3>1. Fits(q)
      BY FitsOK
    <3>2. CASE q = p
      <4>1. q \in Command /\ task'[q] = "start" /\ pc'[q] = "resolve" /\ req'[q].code \in Code
        BY <1>0, <1>1, <3>2, LaunchEffect
      <4> QED
        BY <4>1, LifecycleAssumption DEF Fits, CommandFits, Fetching
    <3>3. CASE q = NextWorker
      <4>1. /\ q \in Worker /\ pc[q] = "ready" /\ pc'[q] = "idle" /\ task'[q] = task[q]
            /\ req'[q].code \in Code /\ req'[q].text = None
        BY <1>0, <1>1, <3>3, LaunchEffect
      <4> QED
        BY <3>1, <4>1, LifecycleAssumption DEF Fits, WorkerFits, Fetching
    <3>4. CASE q # p /\ q # NextWorker
      BY <1>0, <1>1, <3>1, <3>4, LaunchEffect, LifecycleAssumption
         DEF Fits, CommandFits, WorkerFits, GreetingFits
    <3> QED
      BY <3>2, <3>3, <3>4
  <2> QED
    BY <2>1, FitsOKNext
<1>2. CASE Resubscribe(p)
  <2>1. ASSUME NEW q \in Proc PROVE Fits(q)'
    <3>1. Fits(q)
      BY FitsOK
    <3>2. CASE q = p
      <4>1. /\ q \in Greeting /\ copy[q].code = req[q].code /\ req'[q].code = req[q].code /\ req'[q].text = req[q].text
            /\ peer'[q] \in Worker /\ pc'[peer'[q]] = "idle" /\ req'[peer'[q]].code = req[q].code
            /\ pc'[q] = "pointers" /\ pc[q] = "body"
            /\ UNCHANGED <<task, name, copy, todo>>
        BY <1>0, <1>2, <3>2, ResubscribeEffect DEF Resubscribe
      <4> QED
        BY <3>1, <4>1, LifecycleAssumption DEF Fits, GreetingFits, Fetching
    <3>3. CASE q = NextWorker
      <4>1. /\ q \in Worker /\ pc[q] = "ready" /\ pc'[q] = "idle" /\ task'[q] = task[q]
            /\ req'[q].code \in Code /\ req'[q].text = None
        BY <1>0, <1>2, <3>3, ResubscribeEffect
      <4> QED
        BY <3>1, <4>1, LifecycleAssumption DEF Fits, WorkerFits, Fetching
    <3>4. CASE q # p /\ q # NextWorker
      <4>1. /\ pc'[q] = pc[q] /\ task'[q] = task[q] /\ req'[q] = req[q]
            /\ name'[q] = name[q] /\ copy'[q] = copy[q] /\ peer'[q] = peer[q]
            /\ todo' = todo
            /\ \A w \in Worker : pc[w] # "ready" => pc'[w] = pc[w] /\ req'[w] = req[w]
        BY <1>0, <1>2, <3>4, ResubscribeEffect, LifecycleAssumption
      <4> QED
        BY <3>1, <4>1, LifecycleAssumption DEF Fits, CommandFits, WorkerFits, GreetingFits
    <3> QED
      BY <3>2, <3>3, <3>4
  <2> QED
    BY <2>1, FitsOKNext
<1>3. CASE ~Launch(p) /\ ~Resubscribe(p)
  <2>1. OthersKept(p)
    BY <1>3, StepKeepsOthers
  <2>2. Fits(p)
    BY FitsOK
  <2>3. Fits(p)' /\ pc'[p] # "ready" /\ (p \in Worker => req'[p] = req[p])
    BY <1>0, <1>3, <2>2, StepFits
  <2>4. \A q \in Proc : Fits(q)'
    BY <2>1, <2>3, OthersFit
  <2> QED
    BY <2>4, FitsOKNext
<1> QED
  BY <1>1, <1>2, <1>3

\* The worker that a kill reaches was waiting in its select.
LEMMA SendEffect ==
  ASSUME TypeOK, ProcsOK, NEW p \in Command, Send(p)
  PROVE  /\ peer[p] \in Worker /\ peer[p] # p /\ pc[p] = "send" /\ pc[peer[p]] = "idle"
         /\ pc'[p] = "sent" /\ pc'[peer[p]] = "resolve" /\ task'[peer[p]] = "force"
         /\ \A q \in Proc : q \notin {p, peer[p]} => pc'[q] = pc[q]
         /\ \A q \in Proc : q # peer[p] => task'[q] = task[q]
         /\ UNCHANGED <<shared, session, req, name, copy, peer>>
<1>1. pc[p] = "send" /\ pc[peer[p]] = "idle" /\ UNCHANGED <<shared, session, req, name, copy, peer>>
  BY DEF Send
<1>2. peer[p] \in Worker
  BY <1>1 DEF ProcsOK, CommandOK, CommandFits
<1> QED
  BY <1>1, <1>2, LifecycleAssumption DEF Send, TypeOK

LEMMA NextProcsOK ==
  ASSUME TypeOK, DataOK, ProcsOK, [Next]_vars
  PROVE  ProcsOK'
<1>0. CommandOK /\ WorkerOK /\ GreetingOK
  BY DEF ProcsOK
<1>1. ASSUME NEW p \in Command, NEW op \in Ops, NEW t \in Text, Issue(p, op, t)
      PROVE  ProcsOK'
  <2>1. OthersKept(p) /\ pc'[p] # "ready"
    BY <1>1, LifecycleAssumption DEF Issue, Goto, Begin, session, TypeOK, OthersKept
  <2>2. Fits(p)'
    <3>1. op \in {"new", "end", "touch", "refresh"}
      BY LifecycleAssumption
    <3> QED
      BY <1>1, <3>1, LifecycleAssumption DEF Issue, Goto, Begin, session, TypeOK, Fits, CommandFits, Fetching
  <2> QED
    BY <2>1, <2>2, OthersFit, FitsOKNext, LifecycleAssumption
<1>2. ASSUME NEW g \in Greeting, LoadAllActiveGames(g)
      PROVE  ProcsOK'
  <2>1. OthersKept(g) /\ pc'[g] # "ready"
    BY <1>2 DEF LoadAllActiveGames, Goto, Begin, TypeOK, OthersKept
  <2>2. Fits(g)'
    BY <1>0, <1>2, LifecycleAssumption DEF LoadAllActiveGames, Goto, Begin, TypeOK, Fits, GreetingOK, GreetingFits, Fetching
  <2> QED
    BY <2>1, <2>2, OthersFit, FitsOKNext, LifecycleAssumption
<1>3. ASSUME NEW p \in Command, Send(p)
      PROVE  ProcsOK'
  <2>1. ASSUME NEW q \in Proc PROVE Fits(q)'
    <3>1. Fits(q) /\ todo' = todo /\ UNCHANGED <<req, name, copy, peer>>
      BY <1>3, FitsOK, SendEffect DEF session
    <3>2. CASE q \in Command
      BY <1>3, <3>1, <3>2, SendEffect, LifecycleAssumption DEF Fits, CommandFits, Fetching
    <3>3. CASE q \in Worker
      BY <1>3, <3>1, <3>3, SendEffect, LifecycleAssumption DEF Fits, WorkerFits, Fetching
    <3>4. CASE q \in Greeting
      BY <1>3, <3>1, <3>4, SendEffect, LifecycleAssumption DEF Fits, GreetingFits, Fetching
    <3> QED
      BY <3>2, <3>3, <3>4
  <2> QED
    BY <2>1, FitsOKNext
<1>4. ASSUME NEW p \in Proc, Step(p)
      PROVE  ProcsOK'
  BY <1>4, StepProcsOK
<1>5. ASSUME NEW w \in Worker, TakeJob(w) \/ Timeout(w)
      PROVE  ProcsOK'
  <2>1. OthersKept(w) /\ pc'[w] # "ready" /\ req' = req
    BY <1>5 DEF TakeJob, Timeout, Goto, Begin, TypeOK, OthersKept, shared, session, local, frame
  <2>2. Fits(w)'
    BY <1>0, <1>5, LifecycleAssumption DEF TakeJob, Timeout, Goto, Begin, TypeOK, Fits, WorkerOK, WorkerFits, Fetching, local, frame
  <2> QED
    BY <2>1, <2>2, OthersFit, FitsOKNext
<1>7. ASSUME NEW k \in Key \cup {None}, Expire(k)
      PROVE  ProcsOK'
  <2>1. UNCHANGED <<session, pc, local>>
    BY <1>7 DEF Expire
  <2> QED
    BY <1>0, <2>1 DEF ProcsOK, CommandOK, WorkerOK, GreetingOK, CommandFits, WorkerFits, GreetingFits, session, local, frame
<1>8. CASE Crash
  BY <1>0, <1>8 DEF Crash, Forget, ProcsOK, CommandOK, WorkerOK, GreetingOK, CommandFits, WorkerFits, GreetingFits, Fetching
<1>9. CASE UNCHANGED vars
  BY <1>0, <1>9 DEF vars, ProcsOK, CommandOK, WorkerOK, GreetingOK, CommandFits, WorkerFits, GreetingFits, session, local, frame
<1> QED
  BY <1>1, <1>2, <1>3, <1>4, <1>5, <1>7, <1>8, <1>9 DEF Next

LEMMA NextDataOK ==
  ASSUME TypeOK, DataOK, ProcsOK, [Next]_vars
  PROVE  DataOK'
<1>0. CommandOK /\ WorkerOK /\ GreetingOK /\ data \in [Key -> Record \cup {NoRecord}]
  BY DEF ProcsOK, TypeOK
<1>1. ASSUME NEW r \in Record, PutData(r) PROVE DataOK'
  BY <1>0, <1>1 DEF PutData, DataOK
<1>2. CASE UNCHANGED data
  BY <1>2 DEF DataOK
<1>3. ASSUME NEW p \in Proc, Step(p) PROVE DataOK'
  <2>1. CASE Fetch(p)
    <3>1. CASE Lookup(req[p]) # NoRecord
      BY <1>2, <2>1, <3>1 DEF Fetch, store
    <3>2. CASE Lookup(req[p]) = NoRecord
      <4>1. FreshRecord(req[p]) \in Record
        BY FreshRecordType DEF TypeOK
      <4> QED
        BY <1>1, <1>2, <2>1, <3>2, <4>1 DEF Fetch, store
    <3> QED
      BY <3>1, <3>2
  <2>2. ASSUME NEW r \in Record, WritesBack(p, r) PROVE DataOK'
    BY <1>1, <2>2 DEF WritesBack, Commit
  <2>3. CASE NewAfterKill(p) \/ NewWithoutGame(p)
    <3>1. PICK r \in Record : NewCode(p, r)
      BY <2>3, EmptyRecordType DEF NewAfterKill, NewWithoutGame, TypeOK
    <3>2. PICK c \in Code \ used : Commit(p, [r EXCEPT !.code = c])
      BY <3>1, NewCodeIsFresh
    <3>3. [r EXCEPT !.code = c] \in Record
      BY RecodedType
    <3> QED
      BY <1>1, <3>2, <3>3 DEF Commit
  <2>4. CASE Resubscribe(p)
    BY <1>1, <2>4 DEF Resubscribe, TypeOK
  <2>5. CASE Delete(p)
    BY <1>0, <2>5 DEF Delete, DataOK
  <2> QED
    BY <1>0, <1>2, <1>3, <2>1, <2>2, <2>3, <2>4, <2>5, WriteBackEffect
       DEF Step, Resolve, NotObtained, Pointers, Return, NewOverShown, NewLockout, Activate, Launch,
           TouchNothing, ReleaseOnly, RefreshNothing, EndLook, EndUnmute, JobDone, DropOwnEntry,
           RemoveOldGame, LockToDelete, NextGame, NoMoreGames, Register, shared, store
<1>4. ASSUME NEW p \in Command, NEW op \in Ops, NEW t \in Text, Issue(p, op, t) PROVE UNCHANGED data
  BY <1>4 DEF Issue, shared, store
<1>5. ASSUME NEW g \in Greeting, LoadAllActiveGames(g) PROVE UNCHANGED data
  BY <1>5 DEF LoadAllActiveGames, shared, store
<1>6. ASSUME NEW p \in Command, Send(p) PROVE UNCHANGED data
  BY <1>6 DEF Send, shared, store
<1>7. ASSUME NEW w \in Worker, TakeJob(w) \/ Timeout(w) PROVE UNCHANGED data
  BY <1>7 DEF TakeJob, Timeout, shared, store
<1>8. ASSUME NEW k \in Key \cup {None}, Expire(k) PROVE UNCHANGED data
  BY <1>8 DEF Expire, store
<1>9. CASE Crash \/ UNCHANGED vars
  BY <1>2, <1>9 DEF Crash, vars, shared, store
<1> QED
  BY <1>2, <1>3, <1>4, <1>5, <1>6, <1>7, <1>8, <1>9 DEF Next

\* In every execution the variables have their types, and each process is at a
\* step of the function it is in.
ShapeInv == TypeOK /\ ProcsOK /\ DataOK

LEMMA ShapeHolds == Spec => []ShapeInv
<1>1. Init => ShapeInv
  <2> SUFFICES ASSUME Init PROVE ShapeInv
    OBVIOUS
  <2>1. TypeOK
    <3>1. [code |-> NoCode, text |-> None] \in Request
      BY DEF Request
    <3> QED
      BY <3>1, EmptyRecordType, LifecycleAssumption DEF Init, TypeOK, Steps, Tasks
  <2>2. ASSUME NEW p \in Proc PROVE Fits(p)
    BY LifecycleAssumption DEF Init, Fits, CommandFits, WorkerFits, GreetingFits, Fetching
  <2>3. DataOK
    BY DEF Init, DataOK
  <2> QED
    BY <2>1, <2>2, <2>3, FitsOK DEF ShapeInv
<1>2. ShapeInv /\ [Next]_vars => ShapeInv'
  BY NextTypes, NextProcsOK, NextDataOK DEF ShapeInv, ProcsOK
<1> QED
  BY <1>1, <1>2, PTL DEF Spec

-----------------------------------------------------------------------------
LEMMA EmptyRecordIs == EmptyRecord.code = NoCode /\ ~Shown(EmptyRecord)
BY DEF EmptyRecord, FreshRecord, Shown

\* p moves on: the records, the pointers and the sets of games stay.
Moves(p) ==
  /\ UNCHANGED <<store, strayed, games, used, todo, doubled, req>>
  /\ copy'[p] \in {copy[p], EmptyRecord}

MovingStep(p) ==
  \/ Resolve(p) \/ NotObtained(p) \/ Return(p) \/ NewOverShown(p) \/ NewLockout(p)
  \/ TouchNothing(p) \/ RefreshNothing(p) \/ EndUnmute(p) \/ JobDone(p)
  \/ DropOwnEntry(p) \/ LockToDelete(p) \/ NoMoreGames(p)

LEMMA MovingStepMoves ==
  ASSUME TypeOK, NEW p \in Proc, MovingStep(p)
  PROVE  Moves(p)
BY DEF MovingStep, Moves, Resolve, NotObtained, Return, NewOverShown, NewLockout, TouchNothing,
       ReleaseOnly, RefreshNothing, EndUnmute, JobDone, DropOwnEntry, LockToDelete, NoMoreGames,
       Leave, Forget, TypeOK, shared, session, local, frame

LEMMA MovingStepControl ==
  ASSUME TypeOK, ProcsOK, NEW p \in Proc, MovingStep(p)
  PROVE  /\ pc[p] \notin {"ready", "dead", "gone", "idle", "pointers"}
         /\ pc'[p] \in {"resolve", "obtain", "done", "send", "sent", "idle", "delete"}
         /\ pc'[p] = "delete" => pc[p] = "deleteLock"
         /\ pc[p] = "stored" => p \notin Greeting
         /\ task'[p] = task[p] \/ (pc[p] = "timedOut" /\ task'[p] = "force")
<1>0. Fits(p) /\ pc \in [Proc -> Steps] /\ task \in [Proc -> Tasks]
  BY FitsOK DEF TypeOK
<1> USE <1>0, LifecycleAssumption
    DEF Leave, Goto, Begin, local, Fits, CommandFits, WorkerFits, GreetingFits, Fetching
<1>1. CASE Resolve(p) \/ NotObtained(p) \/ NoMoreGames(p)
  BY <1>1 DEF Resolve, NotObtained, NoMoreGames
<1>2. CASE Return(p) \/ JobDone(p)
  BY <1>2 DEF Return, JobDone
<1>3. CASE NewOverShown(p) \/ NewLockout(p) \/ TouchNothing(p) \/ RefreshNothing(p)
  BY <1>3 DEF NewOverShown, KillOrGoOn, NewLockout, TouchNothing, RefreshNothing, ReleaseOnly
<1>4. CASE EndUnmute(p) \/ DropOwnEntry(p) \/ LockToDelete(p)
  BY <1>4 DEF EndUnmute, DropOwnEntry, LockToDelete
<1> QED
  BY <1>1, <1>2, <1>3, <1>4 DEF MovingStep

\* /new writes a record with a fresh code.
Renews(p, r, c) ==
  /\ task[p] = "new" /\ pc[p] \in {"sent", "body"}
  /\ c \in Code \ used
  /\ r \in Record /\ r.code = c /\ ~Shown(r)
  /\ used' = used \cup {c}
  /\ Commit(p, r)
  /\ UNCHANGED <<games, todo, doubled, restarts, task, req, name, peer>>
  /\ \A d \in Code : chan'[d] \in {chan[d], None}

LEMMA NewEffect ==
  ASSUME TypeOK, NEW p \in Proc, NewAfterKill(p) \/ NewWithoutGame(p)
  PROVE  \E r, c : Renews(p, r, c)
<1>1. ASSUME NEW s \in Record, ~Shown(s), NewCode(p, s)
      PROVE  \E c \in Code \ used : \E r \in Record :
               r.code = c /\ ~Shown(r) /\ used' = used \cup {c} /\ Commit(p, r)
  <2>1. PICK c \in Code \ used : used' = used \cup {c} /\ Commit(p, [s EXCEPT !.code = c])
    BY <1>1, NewCodeIsFresh
  <2> DEFINE r == [s EXCEPT !.code = c]
  <2>2. r \in Record /\ r.code = c /\ r.msg = s.msg /\ r.text = s.text
    BY RecodedType DEF Record
  <2> QED
    BY <1>1, <2>1, <2>2 DEF Shown
<1>2. PICK s \in Record : ~Shown(s) /\ NewCode(p, s)
  BY EmptyRecordType, EmptyRecordIs DEF NewAfterKill, NewWithoutGame, TypeOK
<1>3. /\ task[p] = "new" /\ pc[p] \in {"sent", "body"}
      /\ UNCHANGED <<games, todo, doubled, restarts, task, req, name, peer>>
      /\ \A d \in Code : chan'[d] \in {chan[d], None}
  BY DEF NewAfterKill, NewWithoutGame, DropEntry, TypeOK
<1>4. PICK c \in Code \ used, r \in Record :
        r.code = c /\ ~Shown(r) /\ used' = used \cup {c} /\ Commit(p, r)
  BY <1>1, <1>2
<1> QED
  BY <1>3, <1>4 DEF Renews

\* Everything a step of a process can be.
LEMMA StepKinds ==
  ASSUME TypeOK, ProcsOK, NEW p \in Proc, Step(p)
  PROVE  \/ MovingStep(p) \/ Fetch(p) \/ Pointers(p) \/ Activate(p) \/ EndLook(p)
         \/ \E r \in Record : WritesBack(p, r)
         \/ \E r, c : Renews(p, r, c)
         \/ Launch(p) \/ Resubscribe(p) \/ Register(p) \/ NextGame(p)
         \/ RemoveOldGame(p) \/ Delete(p)
BY WriteBackEffect, NewEffect DEF Step, MovingStep, ProcsOK

-----------------------------------------------------------------------------
\* Whatever bears a code bears one that has been generated.
Generated ==
  /\ \A k \in Key : data[k] # NoRecord => k \in used \cup {NoCode}
  /\ games \subseteq used /\ doubled \subseteq used
  /\ \A g \in Greeting : todo[g] \subseteq used
  /\ \A p \in Proc : req[p].code \in used \cup {NoCode}
  /\ \A p \in Proc : copy[p].code \in used \cup {NoCode}

LEMMA StepGenerated ==
  ASSUME ShapeInv, Generated, NEW p \in Proc, Step(p)
  PROVE  Generated'
<1>0. TypeOK /\ ProcsOK /\ DataOK /\ CommandOK /\ WorkerOK /\ GreetingOK
  BY DEF ShapeInv, ProcsOK
<1>1. ASSUME OthersKept(p), used \subseteq used', req'[p].code \in used' \cup {NoCode},
             copy'[p].code \in used' \cup {NoCode},
             games' \subseteq used', UNCHANGED doubled, 
             \A g \in Greeting : todo'[g] \subseteq used',
             \A k \in Key : data'[k] # NoRecord => k \in used' \cup {NoCode}
      PROVE  Generated'
  BY <1>1 DEF Generated, OthersKept
<1> USE <1>0
<1>2. ASSUME NEW r \in Record, PutData(r), r.code \in used' \cup {NoCode}, used \subseteq used'
      PROVE  \A k \in Key : data'[k] # NoRecord => k \in used' \cup {NoCode}
  BY <1>2 DEF PutData, Generated, TypeOK
<1>3. CASE Launch(p)
  <2>1. \A q \in Proc : req'[q].code \in used \cup {NoCode}
    BY <1>3, LaunchEffect DEF Generated
  <2> QED
    BY <1>3, <2>1, LaunchEffect DEF Launch, Generated, shared, store
<1>4. CASE Resubscribe(p)
  <2>1. \A q \in Proc : req'[q].code \in used \cup {NoCode}
    BY <1>4, ResubscribeEffect DEF Generated
  <2>2. UNCHANGED <<games, used, todo, doubled, copy>> /\ PutData(copy[p])
    BY <1>4 DEF Resubscribe, session
  <2>3. \A k \in Key : data'[k] # NoRecord => k \in used' \cup {NoCode}
    BY <1>2, <2>2 DEF Generated, TypeOK
  <2> QED
    BY <2>1, <2>2, <2>3 DEF Generated
<1>5. CASE ~Launch(p) /\ ~Resubscribe(p)
  <2>0. OthersKept(p)
    BY <1>5, StepKeepsOthers
  <2>1. CASE MovingStep(p)
    BY <1>1, <2>0, <2>1, MovingStepMoves, EmptyRecordIs DEF Moves, Generated, store
  <2>2. CASE Fetch(p)
    <3>1. UNCHANGED <<session, req>>
      BY <2>2 DEF Fetch
    <3>2. copy'[p].code \in used \cup {NoCode}
      BY <2>2, FetchEffect, LookupFinds DEF Generated, TypeOK
    <3>3. \A k \in Key : data'[k] # NoRecord => k \in used \cup {NoCode}
      <4>1. copy'[p] \in Record
        BY NextTypes DEF TypeOK, Next, ProcsOK
      <4>2. PutData(copy'[p]) \/ UNCHANGED data
        BY <2>2, FetchEffect DEF store
      <4> QED
        BY <1>2, <3>1, <3>2, <4>1, <4>2 DEF Generated, session
    <3> QED
      BY <1>1, <2>0, <3>1, <3>2, <3>3 DEF Generated, session
  <2>3. CASE Pointers(p)
    BY <1>1, <2>0, <2>3 DEF Pointers, Generated, session, local, frame
  <2>4. CASE Activate(p)
    <3>1. copy[p].code \in used
      BY <2>4, LifecycleAssumption DEF Activate, CommandOK, CommandFits, WorkerOK, WorkerFits, GreetingOK, GreetingFits, Generated
    <3> QED
      BY <1>1, <2>0, <2>4, <3>1 DEF Activate, Generated, shared, store, local, frame
  <2>5. CASE EndLook(p)
    <3>1. \/ copy'[p] = Lookup(req[p]) /\ Lookup(req[p]) # NoRecord
          \/ copy'[p] = EmptyRecord
      BY <2>5 DEF EndLook, Leave, Forget, TypeOK
    <3>2. copy'[p].code \in used \cup {NoCode}
      BY <3>1, LookupFinds, EmptyRecordIs DEF Generated, TypeOK
    <3> QED
      BY <1>1, <2>0, <2>5, <3>2 DEF EndLook, Leave, Generated, shared, store, session
  <2>6. ASSUME NEW r \in Record, WritesBack(p, r) PROVE Generated'
    <3>1. PutData(r) /\ UNCHANGED <<session, req>> /\ copy'[p] = r /\ r.code \in used \cup {NoCode}
      BY <2>6 DEF WritesBack, Commit, TypeOK, Generated
    <3> QED
      BY <1>1, <1>2, <2>0, <3>1 DEF Generated, session
  <2>7. ASSUME NEW r, NEW c, Renews(p, r, c) PROVE Generated'
    <3>1. PutData(r) /\ UNCHANGED <<games, todo, doubled, req>> /\ copy'[p] = r /\ r.code = c /\ used' = used \cup {c} /\ r \in Record
      BY <2>7 DEF Renews, Commit, TypeOK
    <3> QED
      BY <1>1, <1>2, <2>0, <3>1 DEF Generated
  <2>8. CASE Register(p)
    BY <1>1, <2>0, <2>8, EmptyRecordIs DEF Register, Leave, Forget, Generated, shared, store, TypeOK
  <2>9. CASE NextGame(p)
    <3>1. p \in Greeting
      BY <2>9, LifecycleAssumption DEF NextGame, CommandOK, CommandFits, WorkerOK, WorkerFits, Fetching
    <3>2. req'[p].code \in used
      BY <2>9, <3>1 DEF NextGame, Generated, TypeOK, Request
    <3> QED
      BY <1>1, <2>0, <2>9, <3>2 DEF NextGame, Generated, shared, session, store
  <2>10. CASE RemoveOldGame(p)
    <3>1. copy'[p].code \in used \cup {NoCode}
      BY <2>10, RemoveEffect, EmptyRecordIs, ZenonT(60) DEF Leave, Forget, Generated, TypeOK
    <3>2. req' = req
      BY <2>10, RemoveEffect DEF Leave
    <3> QED
      BY <1>1, <2>0, <2>10, <3>1, <3>2, RemoveEffect DEF Generated, shared, store
  <2>11. CASE Delete(p)
    BY <1>1, <2>0, <2>11, EmptyRecordIs DEF Delete, Leave, Forget, Generated, session, TypeOK
  <2> QED
    BY <1>5, <2>1, <2>2, <2>3, <2>4, <2>5, <2>6, <2>7, <2>8, <2>9, <2>10, <2>11, StepKinds
<1> QED
  BY <1>3, <1>4, <1>5

LEMMA NextGenerated ==
  ASSUME ShapeInv, Generated, [Next]_vars
  PROVE  Generated'
<1>0. TypeOK /\ ProcsOK /\ WorkerOK
  BY DEF ShapeInv, ProcsOK
<1>1. ASSUME NEW p \in Command, NEW op \in Ops, NEW t \in Text, Issue(p, op, t)
      PROVE  Generated'
  BY <1>0, <1>1 DEF Issue, Generated, shared, store, session, TypeOK
<1>2. ASSUME NEW g \in Greeting, LoadAllActiveGames(g)
      PROVE  Generated'
  BY <1>0, <1>2 DEF LoadAllActiveGames, Generated, shared, store, TypeOK
<1>3. ASSUME NEW p \in Command, Send(p)
      PROVE  Generated'
  BY <1>3 DEF Send, Generated, shared, store, session
<1>4. ASSUME NEW p \in Proc, Step(p)
      PROVE  Generated'
  BY <1>4, StepGenerated
<1>5. ASSUME NEW w \in Worker, TakeJob(w) \/ Timeout(w)
      PROVE  Generated'
  <2>1. req[w].code \in used
    BY <1>0, <1>5, LifecycleAssumption DEF TakeJob, Timeout, WorkerOK, WorkerFits, Generated
  <2> QED
    BY <1>5, <2>1 DEF TakeJob, Timeout, Generated, shared, store, session, local, frame
<1>6. ASSUME NEW k \in Key \cup {None}, Expire(k)
      PROVE  Generated'
  BY <1>6 DEF Expire, Generated, store, session, local, frame
<1>7. CASE Crash
  BY <1>7, EmptyRecordIs DEF Crash, Forget, Generated, shared, store
<1>8. CASE UNCHANGED vars
  BY <1>8 DEF vars, Generated, store, session, local, frame
<1> QED
  BY <1>1, <1>2, <1>3, <1>4, <1>5, <1>6, <1>7, <1>8 DEF Next
=============================================================================
