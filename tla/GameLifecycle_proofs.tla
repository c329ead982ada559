----------------------- MODULE GameLifecycle_proofs -----------------------
(***************************************************************************)
(* Theorems about GameLifecycle, for any number of commands, workers,      *)
(* codes, channels and restarts.                                           *)
(***************************************************************************)
EXTENDS GameLifecycle_steps

USE DEF Proc, Key

\* Every variable keeps its type.
THEOREM TypeCorrect == Spec => []TypeOK
<1>1. ShapeInv => TypeOK
  BY DEF ShapeInv
<1> QED
  BY <1>1, ShapeHolds, PTL

-----------------------------------------------------------------------------
(* One worker per game *)

\* p is a /new that has given its game code c and has not started its worker.
Preparing(p, c) ==
  /\ p \in Command /\ task[p] = "new"
  /\ pc[p] \in {"pointers", "stored", "activated"}
  /\ copy[p].code = c

\* x serves game c, is gone from it, or owes it a worker.
Claims(x, c) ==
  \/ x \in Worker /\ pc[x] \notin {"ready", "dead"} /\ req[x].code = c
  \/ /\ x \in Greeting /\ pc[x] # "dead" /\ c \in todo[x]
     /\ ~(pc[x] \in {"pointers", "stored"} /\ req[x].code = c)
  \/ Preparing(x, c)

\* The heart of the matter: a game not loaded while in service has one claimant.
OneClaim ==
  \A c \in Code \ doubled : \A x, y \in Proc : Claims(x, c) /\ Claims(y, c) => x = y

\* RefreshActiveGame is still to come.
Unlisted ==
  \A c \in Code, p \in Command :
    Preparing(p, c) /\ pc[p] # "activated" => c \notin games /\ c \notin doubled

\* RemoveOldGame has been.
Removed ==
  \A w \in Worker :
    pc[w] \in {"deleteLock", "delete", "gone"} /\ req[w].code \notin doubled =>
      req[w].code \notin games

ServiceInv == OneClaim /\ Unlisted /\ Removed

\* But for /new giving out a code and a worker being started, a step makes no
\* new claim.
LEMMA ClaimsShrink ==
  ASSUME ShapeInv, NEW p \in Proc, Step(p), ~Launch(p), ~Resubscribe(p),
         \A r, d : ~Renews(p, r, d),
         NEW x \in Proc, NEW c \in Code, Claims(x, c)'
  PROVE  Claims(x, c)
<1>0. TypeOK /\ ProcsOK /\ DataOK /\ CommandOK /\ WorkerOK /\ GreetingOK
  BY DEF ShapeInv, ProcsOK
<1>00. OthersKept(p) /\ Fits(p)
  BY <1>0, StepKeepsOthers, FitsOK
<1> USE <1>0, LifecycleAssumption DEF Claims, Preparing
<1>1. CASE x # p
  BY <1>00, <1>1 DEF OthersKept
<1>2. CASE x = p
  <2> USE <1>00, <1>2 DEF Fits
  <2>2. CASE MovingStep(p)
    BY <2>2, MovingStepMoves, MovingStepControl DEF Moves
  <2>3. CASE Fetch(p)
    BY <2>3, FetchEffect DEF session
  <2>4. CASE Pointers(p)
    BY <2>4 DEF Pointers, Goto, TypeOK, session, local, frame
  <2>5. CASE Activate(p)
    BY <2>5 DEF Activate, Goto, TypeOK, local, frame, WorkerFits, GreetingFits
  <2>6. CASE EndLook(p)
    <3>1. p \in Command /\ pc'[p] \in {"send", "sent", "done"}
      BY <2>6 DEF EndLook, KillOrGoOn, Leave, Goto, TypeOK, WorkerFits, GreetingFits, Fetching
    <3> QED
      BY <3>1
  <2>7. ASSUME NEW r \in Record, WritesBack(p, r) PROVE Claims(x, c)
    BY <2>7 DEF WritesBack, WorkerFits, GreetingFits, CommandFits, session
  <2>8. CASE Register(p)
    <3>1. p \in Greeting /\ copy[p].code = req[p].code /\ pc[p] = "stored" /\ pc'[p] = "next"
      BY <2>8 DEF Register, Leave, Goto, TypeOK, WorkerFits, CommandFits, GreetingFits
    <3>2. todo'[p] = todo[p] \ {req[p].code} /\ req' = req
      BY <2>8, <3>1 DEF Register, Leave, TypeOK
    <3> QED
      BY <3>1, <3>2
  <2>9. CASE NextGame(p)
    BY <2>9 DEF NextGame, Goto, TypeOK, session, WorkerFits, CommandFits, GreetingFits, Fetching
  <2>10. CASE RemoveOldGame(p)
    BY <2>10, RemoveEffect DEF Leave, Goto, TypeOK
  <2>11. CASE Delete(p)
    <3>1. p \in Worker /\ pc[p] = "delete" /\ req' = req
      BY <2>11 DEF Delete, Leave, CommandFits, GreetingFits, Fetching
    <3> QED
      BY <3>1
  <2> QED
    BY <2>2, <2>3, <2>4, <2>5, <2>6, <2>7, <2>8, <2>9, <2>10, <2>11, StepKinds
<1> QED
  BY <1>1, <1>2

\* Only RefreshActiveGame adds to the games, and only RemoveOldGame takes away.
LEMMA StepGames ==
  ASSUME TypeOK, DataOK, ProcsOK, NEW p \in Proc, Step(p)
  PROVE  /\ UNCHANGED <<doubled, restarts>>
         /\ \/ games' = games
            \/ Activate(p) /\ games' = games \cup {copy[p].code}
            \/ RemoveOldGame(p) /\ games' = games \ {req[p].code}
<1>1. CASE Fetch(p)
  BY <1>1, FetchEffect DEF session
<1>2. CASE RemoveOldGame(p)
  BY <1>2, RemoveEffect DEF ProcsOK
<1>3. ASSUME NEW r, WritesBack(p, r) PROVE UNCHANGED <<games, doubled, restarts>>
  BY <1>3 DEF WritesBack, session
<1>4. ASSUME NEW r, NEW c, Renews(p, r, c) PROVE UNCHANGED <<games, doubled, restarts>>
  BY <1>4 DEF Renews
<1>5. CASE MovingStep(p)
  BY <1>5 DEF MovingStep, Resolve, NotObtained, Return, NewOverShown, NewLockout, TouchNothing,
     ReleaseOnly, RefreshNothing, EndUnmute, JobDone, DropOwnEntry, LockToDelete, NoMoreGames, session
<1> QED
  BY <1>1, <1>2, <1>3, <1>4, <1>5, StepKinds
     DEF Pointers, Activate, EndLook, Launch, Resubscribe, Register, NextGame, Delete, session

LEMMA StepServiceInv ==
  ASSUME ShapeInv, Generated, ServiceInv, NEW p \in Proc, Step(p)
  PROVE  ServiceInv'
<1>0. TypeOK /\ ProcsOK /\ DataOK /\ CommandOK /\ WorkerOK /\ GreetingOK /\ OneClaim /\ Unlisted /\ Removed
  BY DEF ShapeInv, ProcsOK, ServiceInv
<1> USE <1>0
<1>1. ASSUME doubled' = doubled, \A x \in Proc, c \in Code : Claims(x, c)' => Claims(x, c)
      PROVE  OneClaim'
  BY <1>1 DEF OneClaim
<1>2. CASE Launch(p)
  <2>0. PICK c, w : c = copy[p].code /\ w = NextWorker
    OBVIOUS
  <2>1. task[p] = "new" /\ pc[p] = "activated" /\ UNCHANGED <<games, doubled>>
    BY <1>2 DEF Launch
  <2>2. Claims(p, c) /\ c \in Code
    BY <1>2, <2>1, LaunchEffect, <2>0 DEF Claims, Preparing
  <2>3. ASSUME NEW x \in Proc, NEW d \in Code, Claims(x, d)'
        PROVE  Claims(x, d) \/ (x = w /\ d = c)
    BY <1>2, <2>3, LaunchEffect, <2>0, LifecycleAssumption DEF Claims, Preparing
  <2>4. ~Claims(p, c)'
    BY <1>2, LaunchEffect, <2>0, LifecycleAssumption DEF Claims, Preparing
  <2>5. OneClaim'
    BY <2>1, <2>2, <2>3, <2>4 DEF OneClaim
  <2>6. Unlisted'
    BY <1>2, <2>1, LaunchEffect, <2>0, LifecycleAssumption DEF Unlisted, Preparing
  <2>7. Removed'
    BY <1>2, <2>1, LaunchEffect, <2>0, LifecycleAssumption DEF Removed
  <2> QED
    BY <2>5, <2>6, <2>7 DEF ServiceInv
<1>3. CASE Resubscribe(p)
  <2>0. PICK c, w : c = copy[p].code /\ w = NextWorker
    OBVIOUS
  <2>1. pc[p] = "body" /\ UNCHANGED <<games, doubled, todo>>
    BY <1>3 DEF Resubscribe, session
  <2>2. Claims(p, c) /\ c \in Code
    BY <1>3, <2>1, ResubscribeEffect, <2>0 DEF Claims
  <2>3. ASSUME NEW x \in Proc, NEW d \in Code, Claims(x, d)'
        PROVE  Claims(x, d) \/ (x = w /\ d = c)
    BY <1>3, <2>1, <2>3, ResubscribeEffect, <2>0, LifecycleAssumption DEF Claims, Preparing
  <2>4. ~Claims(p, c)'
    BY <1>3, ResubscribeEffect, <2>0, LifecycleAssumption DEF Claims, Preparing
  <2>5. OneClaim'
    BY <2>1, <2>2, <2>3, <2>4 DEF OneClaim
  <2>6. Unlisted'
    BY <1>3, <2>1, ResubscribeEffect, <2>0, LifecycleAssumption DEF Unlisted, Preparing
  <2>7. Removed'
    BY <1>3, <2>1, ResubscribeEffect, <2>0, LifecycleAssumption DEF Removed
  <2> QED
    BY <2>5, <2>6, <2>7 DEF ServiceInv
<1>4. ASSUME NEW r, NEW c, Renews(p, r, c) PROVE ServiceInv'
  <2>0. OthersKept(p)
    BY <1>4, StepKeepsOthers DEF Renews, Launch, Resubscribe
  <2>1. c \in Code /\ c \notin used /\ UNCHANGED <<games, doubled, todo, task, req>> /\ task[p] = "new" /\ p \in Command
    BY <1>4, LifecycleAssumption DEF Renews, WorkerOK, WorkerFits, GreetingOK, GreetingFits
  <2>2. copy'[p].code = c
    BY <1>4 DEF Renews, Commit, TypeOK
  <2>3. \A x \in Proc : ~Claims(x, c)
    BY <2>1, LifecycleAssumption DEF Claims, Preparing, Generated
  <2>4. ASSUME NEW x \in Proc, NEW d \in Code, Claims(x, d)'
        PROVE  Claims(x, d) \/ (x = p /\ d = c)
    BY <2>0, <2>1, <2>2, <2>4, LifecycleAssumption DEF Claims, Preparing, OthersKept
  <2>5. OneClaim'
    BY <2>1, <2>3, <2>4 DEF OneClaim
  <2>6. Unlisted'
    BY <2>0, <2>1, <2>2, LifecycleAssumption DEF Unlisted, Preparing, OthersKept, Generated
  <2>7. Removed'
    BY <2>0, <2>1, LifecycleAssumption DEF Removed, OthersKept
  <2> QED
    BY <2>5, <2>6, <2>7 DEF ServiceInv
<1>5. CASE ~Launch(p) /\ ~Resubscribe(p) /\ \A r, d : ~Renews(p, r, d)
  <2>0. OthersKept(p)
    BY <1>5, StepKeepsOthers
  <2>1. doubled' = doubled
    BY StepGames
  <2>2. OneClaim'
    BY <1>1, <1>5, <2>1, ClaimsShrink
  <2>3. Unlisted'
    <3> SUFFICES ASSUME NEW c \in Code, NEW q \in Command, Preparing(q, c)', pc'[q] # "activated"
                 PROVE  c \notin games' /\ c \notin doubled'
      BY DEF Unlisted
    <3>1. Preparing(q, c)
      BY <1>5, ClaimsShrink, LifecycleAssumption DEF Claims
    <3>2. pc[q] # "activated"
      <4>1. CASE q = p
        <5>1. task[p] = "new" /\ pc'[p] \in {"pointers", "stored"}
          BY <3>1, <4>1 DEF Preparing
        <5>2. ~MovingStep(p)
          BY <5>1, MovingStepControl
        <5> QED
          BY <1>5, <4>1, <5>1, <5>2, StepKinds
             DEF Fetch, Pointers, Activate, EndLook, WritesBack, Register, NextGame, RemoveOldGame, Delete
      <4>2. CASE q # p
        BY <2>0, <4>2 DEF OthersKept
      <4> QED
        BY <4>1, <4>2
    <3>3. c \notin games /\ c \notin doubled
      BY <3>1, <3>2 DEF Unlisted
    <3>4. ~(Activate(p) /\ copy[p].code = c)
      <4> SUFFICES ASSUME Activate(p), copy[p].code = c PROVE FALSE
        OBVIOUS
      <4>1. Claims(p, c)
        BY LifecycleAssumption DEF Activate, Claims, Preparing, WorkerOK, WorkerFits, GreetingOK, GreetingFits
      <4>2. p = q
        BY <3>1, <3>3, <4>1 DEF OneClaim, Claims
      <4> QED
        BY <4>2 DEF Activate, Goto, TypeOK
    <3> QED
      BY <2>1, <3>3, <3>4, StepGames
  <2>4. Removed'
    <3> SUFFICES ASSUME NEW w \in Worker, pc'[w] \in {"deleteLock", "delete", "gone"},
                        req'[w].code \notin doubled'
                 PROVE  req'[w].code \notin games'
      BY DEF Removed
    <3>1. CASE w = p /\ RemoveOldGame(p)
      BY <2>1, <3>1, RemoveEffect DEF Leave, Goto
    <3>2. CASE ~(w = p /\ RemoveOldGame(p))
      <4>1. req'[w] = req[w] /\ pc[w] \in {"deleteLock", "delete", "gone"}
        <5>1. CASE w # p
          BY <2>0, <5>1 DEF OthersKept
        <5>2. CASE w = p
          <6>1. req'[w] = req[w]
            BY <1>5, <5>2, StepFits, FitsOK
          <6>2. CASE MovingStep(p)
            BY <5>2, <6>1, <6>2, MovingStepControl
          <6>3. CASE Delete(p)
            BY <5>2, <6>1, <6>3 DEF Delete
          <6>4. WorkerFits(p)
            BY <5>2 DEF WorkerOK
          <6>5. CASE Fetch(p) \/ Pointers(p)
            BY <5>2, <6>5, FetchEffect DEF Pointers, Goto, TypeOK
          <6>6. ASSUME NEW r \in Record, WritesBack(p, r) PROVE FALSE
            BY <5>2, <6>6 DEF WritesBack, Commit, Goto, TypeOK
          <6>7. ~Activate(p) /\ ~EndLook(p) /\ ~Register(p) /\ ~NextGame(p)
            BY <6>4 DEF Activate, EndLook, Register, NextGame, WorkerFits, Fetching
          <6> QED
            BY <1>5, <3>2, <5>2, <6>1, <6>2, <6>3, <6>5, <6>6, <6>7, StepKinds
        <5> QED
          BY <5>1, <5>2
      <4>2. req[w].code \notin games /\ req[w].code \notin doubled
        BY <2>1, <4>1 DEF Removed
      <4>3. ~(Activate(p) /\ copy[p].code = req[w].code)
        <5> SUFFICES ASSUME Activate(p), copy[p].code = req[w].code PROVE FALSE
          OBVIOUS
        <5>1. Claims(p, req[w].code) /\ Claims(w, req[w].code) /\ req[w].code \in Code /\ p # w
          BY <4>1, LifecycleAssumption DEF Activate, Claims, Preparing, WorkerOK, WorkerFits, GreetingOK, GreetingFits
        <5> QED
          BY <4>2, <5>1 DEF OneClaim
      <4> QED
        BY <4>1, <4>2, <4>3, StepGames
    <3> QED
      BY <3>1, <3>2
  <2> QED
    BY <2>2, <2>3, <2>4 DEF ServiceInv
<1> QED
  BY <1>2, <1>3, <1>4, <1>5

LEMMA NextServiceInv ==
  ASSUME ShapeInv, Generated, ServiceInv, [Next]_vars
  PROVE  ServiceInv'
<1>0. TypeOK /\ ProcsOK /\ DataOK /\ CommandOK /\ WorkerOK /\ GreetingOK /\ OneClaim /\ Unlisted /\ Removed
  BY DEF ShapeInv, ProcsOK, ServiceInv
<1> USE <1>0, LifecycleAssumption
\* Steps that make no claim, list no game and end none.
<1>1. ASSUME \A x \in Proc, c \in Code : Claims(x, c)' => Claims(x, c),
             UNCHANGED <<games, doubled>>,
             \A p \in Command, c \in Code :
               Preparing(p, c)' /\ pc'[p] # "activated" => pc[p] # "activated",
             \A w \in Worker :
               pc'[w] \in {"deleteLock", "delete", "gone"} => pc'[w] = pc[w] /\ req'[w] = req[w]
      PROVE  ServiceInv'
  <2>1. OneClaim'
    BY <1>1 DEF OneClaim
  <2>2. Unlisted'
    BY <1>1 DEF Unlisted, Claims, Preparing
  <2>3. Removed'
    BY <1>1 DEF Removed
  <2> QED
    BY <2>1, <2>2, <2>3 DEF ServiceInv
<1>2. ASSUME NEW p \in Command, NEW op \in Ops, NEW t \in Text, Issue(p, op, t)
      PROVE  ServiceInv'
  BY <1>1, <1>2 DEF Issue, Goto, Begin, TypeOK, session, Claims, Preparing
<1>3. ASSUME NEW g \in Greeting, LoadAllActiveGames(g)
      PROVE  ServiceInv'
  <2>1. /\ todo' = [todo EXCEPT ![g] = games]
        /\ doubled' = doubled \cup {c \in games : InService(c)}
        /\ pc' = [pc EXCEPT ![g] = "next"] /\ task' = [task EXCEPT ![g] = "greet"]
        /\ UNCHANGED <<games, req, name, copy, peer>>
    BY <1>3 DEF LoadAllActiveGames, Goto, Begin
  <2>2. ASSUME NEW x \in Proc, NEW c \in Code, Claims(x, c)', x # g
        PROVE  Claims(x, c)
    BY <2>1, <2>2 DEF Claims, Preparing, TypeOK
  <2>3. ASSUME NEW c \in Code, Claims(g, c)' PROVE c \in games
    BY <2>1, <2>3 DEF Claims, Preparing, TypeOK
  <2>4. ASSUME NEW c \in games, c \notin doubled', NEW x \in Proc, x # g PROVE ~Claims(x, c)
    <3>1. c \in Code /\ c \notin doubled /\ ~InService(c)
      BY <2>1, <2>4 DEF TypeOK
    <3>2. ~(x \in Worker /\ pc[x] \notin {"ready", "dead"} /\ req[x].code = c)
      BY <2>4, <3>1 DEF InService, Working, Removed
    <3>3. ~(x \in Greeting /\ pc[x] # "dead" /\ c \in todo[x])
      BY <3>1 DEF InService
    <3>4. ~Preparing(x, c)
      BY <2>4, <3>1 DEF InService, Preparing, Unlisted
    <3> QED
      BY <3>2, <3>3, <3>4 DEF Claims
  <2>5. OneClaim'
    BY <2>1, <2>2, <2>3, <2>4 DEF OneClaim
  <2>6. Unlisted'
    <3> SUFFICES ASSUME NEW c \in Code, NEW q \in Command, Preparing(q, c)', pc'[q] # "activated"
                 PROVE  c \notin games' /\ c \notin doubled'
      BY DEF Unlisted
    <3>1. Preparing(q, c) /\ pc[q] # "activated"
      BY <2>1 DEF Preparing, TypeOK
    <3> QED
      BY <2>1, <3>1 DEF Unlisted
  <2>7. Removed'
    <3> SUFFICES ASSUME NEW w \in Worker, pc'[w] \in {"deleteLock", "delete", "gone"},
                        req'[w].code \notin doubled'
                 PROVE  req'[w].code \notin games'
      BY DEF Removed
    <3>1. pc[w] \in {"deleteLock", "delete", "gone"}
      BY <2>1 DEF TypeOK
    <3> QED
      BY <2>1, <3>1 DEF Removed
  <2> QED
    BY <2>5, <2>6, <2>7 DEF ServiceInv
<1>4. ASSUME NEW p \in Command, Send(p)
      PROVE  ServiceInv'
  BY <1>1, <1>4, SendEffect DEF session, Claims, Preparing
<1>5. ASSUME NEW p \in Proc, Step(p)
      PROVE  ServiceInv'
  BY <1>5, StepServiceInv
<1>6. ASSUME NEW w \in Worker, TakeJob(w)
      PROVE  ServiceInv'
  <2>1. /\ pc[w] = "idle" /\ pc' = [pc EXCEPT ![w] = "resolve"] /\ task' = [task EXCEPT ![w] = "job"]
        /\ games' = games \cup {req[w].code} /\ UNCHANGED <<doubled, todo, req, name, copy, peer>>
    BY <1>6 DEF TakeJob, Goto, Begin
  <2>2. Claims(w, req[w].code) /\ req[w].code \in Code
    BY <2>1 DEF Claims, WorkerOK, WorkerFits
  <2>3. \A x \in Proc, c \in Code : Claims(x, c)' => Claims(x, c)
    BY <2>1 DEF Claims, Preparing, TypeOK
  <2>4. OneClaim'
    BY <2>1, <2>3 DEF OneClaim
  <2>5. Unlisted'
    <3> SUFFICES ASSUME NEW c \in Code, NEW q \in Command, Preparing(q, c)', pc'[q] # "activated"
                 PROVE  c \notin games' /\ c \notin doubled'
      BY DEF Unlisted
    <3>1. Preparing(q, c) /\ pc[q] # "activated"
      BY <2>1 DEF Preparing, TypeOK
    <3>2. c \notin games /\ c \notin doubled
      BY <3>1 DEF Unlisted
    <3>3. req[w].code # c
      BY <2>2, <3>1, <3>2 DEF OneClaim, Claims
    <3> QED
      BY <2>1, <3>2, <3>3
  <2>6. Removed'
    <3> SUFFICES ASSUME NEW v \in Worker, pc'[v] \in {"deleteLock", "delete", "gone"},
                        req'[v].code \notin doubled'
                 PROVE  req'[v].code \notin games'
      BY DEF Removed
    <3>1. v # w /\ pc[v] \in {"deleteLock", "delete", "gone"}
      BY <2>1 DEF TypeOK
    <3>2. req[v].code \notin games /\ req[v].code \notin doubled
      BY <2>1, <3>1 DEF Removed
    <3>3. Claims(v, req[v].code)
      BY <3>1 DEF Claims
    <3>4. req[v].code # req[w].code
      BY <2>2, <3>1, <3>2, <3>3 DEF OneClaim
    <3> QED
      BY <2>1, <3>2, <3>4
  <2> QED
    BY <2>4, <2>5, <2>6 DEF ServiceInv
<1>7. ASSUME NEW w \in Worker, Timeout(w)
      PROVE  ServiceInv'
  BY <1>1, <1>7 DEF Timeout, Goto, TypeOK, shared, session, local, frame, Claims, Preparing
<1>8. ASSUME NEW k \in Key \cup {None}, Expire(k)
      PROVE  ServiceInv'
  BY <1>1, <1>8 DEF Expire, store, session, local, frame, Claims, Preparing
<1>9. CASE Crash
  BY <1>1, <1>9 DEF Crash, Forget, Claims, Preparing
<1>10. CASE UNCHANGED vars
  BY <1>1, <1>10 DEF vars, store, session, local, frame, Claims, Preparing
<1> QED
  BY <1>2, <1>3, <1>4, <1>5, <1>6, <1>7, <1>8, <1>9, <1>10 DEF Next

LEMMA ServiceHolds == Spec => [](ShapeInv /\ Generated /\ ServiceInv)
<1>1. Init => Generated /\ ServiceInv
  <2>1. Init => Generated
    BY EmptyRecordIs DEF Init, Generated
  <2>2. Init => ServiceInv
    BY LifecycleAssumption DEF Init, ServiceInv, OneClaim, Claims, Preparing, Unlisted, Removed
  <2> QED
    BY <2>1, <2>2
<1>2. ShapeInv /\ ShapeInv' /\ Generated /\ ServiceInv /\ [Next]_vars => (Generated /\ ServiceInv)'
  BY NextGenerated, NextServiceInv
<1> QED
  BY <1>1, <1>2, ShapeHolds, PTL DEF Spec

\* No two workers serve one game that newGuild did not load while it was served.
THEOREM OneWorker == Spec => []OneWorkerPerGame
<1>1. ShapeInv /\ ServiceInv => OneWorkerPerGame
  <2> SUFFICES ASSUME ShapeInv, ServiceInv, NEW v \in Worker, NEW w \in Worker,
                      v # w, Working(v), Working(w), req[v].code = req[w].code
               PROVE  req[v].code \in doubled
    BY DEF OneWorkerPerGame
  <2>1. req[v].code \in Code
    BY DEF ShapeInv, ProcsOK, WorkerOK, WorkerFits, Working
  <2>2. Claims(v, req[v].code) /\ Claims(w, req[v].code)
    BY DEF Claims, Working
  <2> QED
    BY <2>1, <2>2 DEF ServiceInv, OneClaim
<1> QED
  BY <1>1, ServiceHolds, PTL

\* Nor does any once the worker of the game has ended it: neither a /new that is
\* still under way nor a newGuild that has read the active games before starts
\* another (bot.go:209-269).
EndedGameUnserved ==
  \A v, w \in Worker :
    pc[v] = "gone" /\ Working(w) /\ req[v].code = req[w].code => req[v].code \in doubled

THEOREM EndedGameRests == Spec => []EndedGameUnserved
<1>1. ShapeInv /\ ServiceInv => EndedGameUnserved
  <2> SUFFICES ASSUME ShapeInv, ServiceInv, NEW v \in Worker, NEW w \in Worker,
                      pc[v] = "gone", Working(w), req[v].code = req[w].code
               PROVE  req[v].code \in doubled
    BY DEF EndedGameUnserved
  <2>1. v # w /\ req[v].code \in Code
    BY DEF ShapeInv, ProcsOK, WorkerOK, WorkerFits, Working
  <2>2. Claims(v, req[v].code) /\ Claims(w, req[v].code)
    BY DEF Claims, Working
  <2> QED
    BY <2>1, <2>2 DEF ServiceInv, OneClaim
<1> QED
  BY <1>1, ServiceHolds, PTL

-----------------------------------------------------------------------------
(* A served game is found *)

\* No step but Delete takes a record or a connect code pointer away.
LEMMA StepStore ==
  ASSUME ShapeInv, NEW p \in Proc, Step(p), NEW c \in Code,
         ~(Delete(p) /\ copy[p].code = c)
  PROVE  /\ c \in codePtr => c \in codePtr'
         /\ data[c] # NoRecord => data'[c] # NoRecord
<1>0. TypeOK /\ ProcsOK /\ DataOK /\ CommandOK /\ WorkerOK /\ GreetingOK
  BY DEF ShapeInv, ProcsOK
<1>1. ASSUME NEW r \in Record, PutData(r)
      PROVE  data[c] # NoRecord => data'[c] # NoRecord
  BY <1>0, <1>1, RecordAssumption DEF PutData, TypeOK
<1>2. ASSUME NEW r, PutPointers(r)
      PROVE  codePtr \subseteq codePtr'
  BY <1>2 DEF PutPointers
<1>3. CASE MovingStep(p)
  BY <1>0, <1>3, MovingStepMoves DEF Moves, store
<1>4. CASE Fetch(p)
  <2>1. copy'[p] \in Record
    BY <1>0, StepTypes DEF TypeOK
  <2> QED
    BY <1>0, <1>1, <1>2, <1>4, <2>1, FetchEffect DEF store
<1>5. ASSUME NEW r \in Record, Commit(p, r)
      PROVE  /\ c \in codePtr => c \in codePtr'
             /\ data[c] # NoRecord => data'[c] # NoRecord
  BY <1>1, <1>5 DEF Commit
<1>6. CASE Delete(p)
  BY <1>0, <1>6 DEF Delete, TypeOK
<1>7. CASE Pointers(p)
  BY <1>2, <1>7 DEF Pointers
<1>8. CASE Resubscribe(p)
  BY <1>0, <1>1, <1>8 DEF Resubscribe, TypeOK
<1>9. CASE RemoveOldGame(p)
  BY <1>0, <1>9, RemoveEffect DEF shared, store
<1> QED
  BY <1>0, <1>3, <1>4, <1>5, <1>6, <1>7, <1>8, <1>9, StepKinds
     DEF WritesBack, Renews, Activate, EndLook, Launch, Register, NextGame, shared, store

\* x's claim to game c is one for which the record must be there.
HasRecord(x, c) ==
  /\ Claims(x, c)
  /\ pc[x] # "gone"
  /\ x \in Greeting => pc[x] = "body" /\ req[x].code = c

\* The record and its code's pointer are there; /new stores the pointer last.
RecordFound(x, c) ==
  /\ data[c] # NoRecord
  /\ c \in codePtr \/ (x \in Command /\ pc[x] = "pointers")

Found == \A c \in Code \ doubled, x \in Proc : HasRecord(x, c) => RecordFound(x, c)

LEMMA StepFound ==
  ASSUME ShapeInv, ServiceInv, Found, NEW p \in Proc, Step(p)
  PROVE  Found'
<1>0. TypeOK /\ ProcsOK /\ DataOK /\ CommandOK /\ WorkerOK /\ GreetingOK /\ OneClaim
  BY DEF ShapeInv, ProcsOK, ServiceInv
<1> USE <1>0, LifecycleAssumption
<1> SUFFICES ASSUME NEW c \in Code, c \notin doubled', NEW x \in Proc, HasRecord(x, c)'
             PROVE  RecordFound(x, c)'
  BY DEF Found
<1>1. c \notin doubled
  BY StepGames
\* A claim with a record that was there already...
<1>2. ASSUME HasRecord(x, c) PROVE RecordFound(x, c)'
  <2>1. RecordFound(x, c)
    BY <1>1, <1>2 DEF Found
  <2>2. ~(Delete(p) /\ copy[p].code = c)
    <3> SUFFICES ASSUME Delete(p), copy[p].code = c PROVE FALSE
      OBVIOUS
    <3>1. p \in Worker /\ pc[p] = "delete" /\ pc'[p] = "gone" /\ req[p].code = c
      BY DEF Delete, Leave, Goto, TypeOK, CommandOK, CommandFits, WorkerOK, WorkerFits,
             GreetingOK, GreetingFits, Fetching
    <3>2. Claims(p, c) /\ Claims(x, c)
      BY <1>2, <3>1 DEF Claims, HasRecord
    <3>3. x = p
      BY <1>1, <3>2 DEF OneClaim
    <3> QED
      BY <3>1, <3>3 DEF HasRecord
  <2>3. CASE x \in Command /\ pc[x] = "pointers" /\ c \notin codePtr
    <3>1. CASE x # p
      <4>1. pc'[x] = "pointers"
        BY <2>3, <3>1, StepKeepsOthers, LaunchEffect, ResubscribeEffect DEF OthersKept
      <4> QED
        BY <2>1, <2>2, <2>3, <4>1, StepStore DEF RecordFound
    <3>2. CASE x = p
      <4>1. copy[p].code = c /\ task[p] = "new"
        BY <1>2, <2>3, <3>2 DEF HasRecord, Claims, Preparing
      <4>2. ~MovingStep(p) /\ ~Fetch(p)
        BY <2>3, <3>2, MovingStepControl DEF Fetch
      <4>3. Pointers(p)
        BY <2>3, <3>2, <4>1, <4>2, StepKinds
           DEF Activate, EndLook, WritesBack, Renews, Launch, Resubscribe, Register, NextGame, RemoveOldGame, Delete
      <4>4. c \in codePtr'
        BY <4>1, <4>3 DEF Pointers, PutPointers
      <4> QED
        BY <2>1, <2>2, <4>4, StepStore DEF RecordFound
    <3> QED
      BY <3>1, <3>2
  <2> QED
    BY <2>1, <2>2, <2>3, StepStore DEF RecordFound
\* ...or one that the step makes.
<1>3. CASE Launch(p)
  <2>1. CASE x = NextWorker
    <3>1. copy[p].code = c /\ Preparing(p, c) /\ pc[p] = "activated" /\ p \in Command
      BY <1>3, <2>1, LaunchEffect DEF HasRecord, Claims, Preparing, Launch
    <3>2. HasRecord(p, c)
      BY <3>1 DEF HasRecord, Claims
    <3>3. data[c] # NoRecord /\ c \in codePtr
      BY <1>1, <3>1, <3>2 DEF Found, RecordFound
    <3> QED
      BY <1>3, <3>3 DEF RecordFound, Launch, shared, store
  <2>2. CASE x # NextWorker
    <3>1. x # p
      BY <1>3, LaunchEffect DEF HasRecord, Claims, Preparing
    <3>2. HasRecord(x, c)
      BY <1>3, <2>2, <3>1, LaunchEffect DEF HasRecord, Claims, Preparing
    <3> QED
      BY <1>2, <3>2
  <2> QED
    BY <2>1, <2>2
<1>4. CASE Resubscribe(p)
  <2>1. CASE x = NextWorker
    <3>0. p \in Greeting /\ pc[p] = "body" /\ req[p].code = copy[p].code /\ copy[p].code \in todo[p]
      BY <1>4, ResubscribeEffect DEF Resubscribe
    <3>00. copy[p].code = c
      BY <1>4, <2>1, ResubscribeEffect DEF HasRecord, Claims, Preparing
    <3>1. req[p].code = c /\ HasRecord(p, c) /\ pc[p] = "body" /\ p \in Greeting /\ copy[p].code = c
      BY <3>0, <3>00 DEF HasRecord, Claims
    <3>2. data[c] # NoRecord /\ c \in codePtr
      BY <1>1, <3>1 DEF Found, RecordFound
    <3>3. data'[c] # NoRecord
      BY <1>4, <3>1, <3>2, StepStore DEF Delete, Resubscribe
    <3> QED
      BY <1>4, <3>2, <3>3 DEF RecordFound, Resubscribe
  <2>2. CASE x # NextWorker
    <3>1. x # p
      BY <1>4, ResubscribeEffect DEF HasRecord
    <3>2. HasRecord(x, c)
      BY <1>4, <2>2, <3>1, ResubscribeEffect DEF HasRecord, Claims, Preparing
    <3> QED
      BY <1>2, <3>2
  <2> QED
    BY <2>1, <2>2
<1>5. ASSUME NEW r, NEW d, Renews(p, r, d) PROVE RecordFound(x, c)'
  <2>1. p \in Command /\ OthersKept(p)
    BY <1>5, StepKeepsOthers DEF Renews, Launch, Resubscribe, WorkerOK, WorkerFits, GreetingOK, GreetingFits
  <2>2. CASE x = p
    <3>1. copy'[p] = r /\ c = r.code /\ r \in Record /\ Storable(r) /\ PutData(r) /\ pc'[p] = "pointers"
      BY <1>5, <2>1, <2>2
         DEF Renews, Commit, HasRecord, Claims, Preparing, TypeOK, Goto, Storable
    <3> QED
      BY <2>1, <2>2, <3>1, RecordAssumption DEF RecordFound, PutData, TypeOK
  <2>3. CASE x # p
    <3>1. HasRecord(x, c)
      BY <2>1, <2>3 DEF OthersKept, HasRecord, Claims, Preparing
    <3> QED
      BY <1>2, <3>1
  <2> QED
    BY <2>2, <2>3
<1>6. CASE ~Launch(p) /\ ~Resubscribe(p) /\ \A r, d : ~Renews(p, r, d)
  <2>1. OthersKept(p) /\ Claims(x, c)
    BY <1>6, StepKeepsOthers, ClaimsShrink DEF HasRecord
  <2>2. CASE x # p
    <3>1. HasRecord(x, c)
      BY <2>1, <2>2 DEF OthersKept, HasRecord
    <3> QED
      BY <1>2, <3>1
  <2>3. CASE x = p /\ p \notin Greeting
    <3>1. pc[p] # "gone"
      <4>1. CASE p \in Command
        BY <4>1 DEF CommandOK, CommandFits, Fetching, TypeOK, Tasks
      <4>2. CASE p \in Worker
        <5> SUFFICES ASSUME pc[p] = "gone" PROVE FALSE
          OBVIOUS
        <5>1. ~MovingStep(p)
          BY MovingStepControl
        <5> QED
          BY <1>6, <5>1, StepKinds
             DEF Fetch, Pointers, Activate, EndLook, WritesBack, Register, NextGame, RemoveOldGame, Delete
      <4> QED
        BY <2>3, <4>1, <4>2
    <3>2. HasRecord(x, c)
      BY <2>1, <2>3, <3>1 DEF HasRecord
    <3> QED
      BY <1>2, <3>2
  <2>4. CASE x = p /\ p \in Greeting
    <3>1. pc'[p] = "body" /\ req'[p].code = c
      BY <2>4 DEF HasRecord
    <3>2. ~MovingStep(p)
      BY <3>1, MovingStepControl
    <3>20. \A r : ~WritesBack(p, r)
      BY <3>1 DEF WritesBack, Commit, Goto, TypeOK
    <3>21. ~EndLook(p) /\ ~Activate(p) /\ ~RemoveOldGame(p)
      BY <2>4, LifecycleAssumption
         DEF EndLook, Activate, RemoveOldGame, GreetingOK, GreetingFits, Fetching
    <3>22. ~Pointers(p) /\ ~Register(p) /\ ~NextGame(p) /\ ~Delete(p)
      BY <3>1 DEF Pointers, Register, NextGame, Delete, Leave, Goto, TypeOK
    <3>3. Fetch(p)
      BY <1>6, <3>2, <3>20, <3>21, <3>22, StepKinds
    <3>4. pc[p] = "obtain" /\ req[p].code = c /\ req[p].text = None /\ req[p] \in Request
      BY <2>4, <3>1, <3>3, FetchEffect DEF GreetingOK, GreetingFits, TypeOK
    <3>5. CASE Lookup(req[p]) # NoRecord
      <4>1. KeyOf(req[p]) = c /\ data[c] # NoRecord
        BY <3>4, <3>5, LookupFinds
      <4>2. c \in codePtr
        BY <3>4, <4>1 DEF KeyOf, Resolved
      <4> QED
        BY <3>3, <3>5, <4>1, <4>2, FetchEffect DEF RecordFound, store
    <3>6. CASE Lookup(req[p]) = NoRecord
      <4>1. copy'[p] \in Record /\ copy'[p].code = c /\ Storable(copy'[p])
        BY <3>3, <3>4, <3>6, FetchEffect, StepTypes DEF TypeOK, Storable
      <4>2. PutData(copy'[p]) /\ PutPointers(copy'[p])
        BY <3>3, <3>6, <4>1, FetchEffect
      <4> QED
        BY <4>1, <4>2, RecordAssumption DEF RecordFound, PutData, PutPointers, TypeOK
    <3> QED
      BY <3>5, <3>6
  <2> QED
    BY <2>2, <2>3, <2>4
<1> QED
  BY <1>3, <1>4, <1>5, <1>6

LEMMA NextFound ==
  ASSUME ShapeInv, ServiceInv, Found, [Next]_vars
  PROVE  Found'
<1>0. TypeOK /\ ProcsOK /\ DataOK /\ CommandOK /\ WorkerOK /\ GreetingOK /\ OneClaim
  BY DEF ShapeInv, ProcsOK, ServiceInv
<1> USE <1>0, LifecycleAssumption DEF HasRecord, Claims, Preparing
<1>1. ASSUME UNCHANGED store, doubled \subseteq doubled',
             \A x \in Proc, c \in Code :
               HasRecord(x, c)' => HasRecord(x, c) /\ (pc[x] = "pointers" => pc'[x] = pc[x])
      PROVE  Found'
  BY <1>1 DEF Found, RecordFound, store
<1>2. ASSUME NEW p \in Command, NEW op \in Ops, NEW t \in Text, Issue(p, op, t)
      PROVE  Found'
  BY <1>1, <1>2 DEF Issue, Goto, Begin, TypeOK, shared, session
<1>3. ASSUME NEW g \in Greeting, LoadAllActiveGames(g)
      PROVE  Found'
  BY <1>1, <1>3 DEF LoadAllActiveGames, Goto, Begin, TypeOK, shared
<1>4. ASSUME NEW p \in Command, Send(p)
      PROVE  Found'
  BY <1>1, <1>4, SendEffect DEF shared, session
<1>5. ASSUME NEW p \in Proc, Step(p)
      PROVE  Found'
  BY <1>5, StepFound
<1>6. ASSUME NEW w \in Worker, TakeJob(w)
      PROVE  Found'
  BY <1>1, <1>6 DEF TakeJob, Goto, Begin, TypeOK, shared
<1>7. ASSUME NEW w \in Worker, Timeout(w)
      PROVE  Found'
  BY <1>1, <1>7 DEF Timeout, Goto, TypeOK, shared, session, local, frame
<1>8. ASSUME NEW k \in Key \cup {None}, Expire(k)
      PROVE  Found'
  BY <1>1, <1>8 DEF Expire, session, local, frame
<1>9. CASE Crash
  BY <1>1, <1>9 DEF Crash, Forget, shared, TypeOK
<1>10. CASE UNCHANGED vars
  BY <1>1, <1>10 DEF vars, session, local, frame
<1> QED
  BY <1>2, <1>3, <1>4, <1>5, <1>6, <1>7, <1>8, <1>9, <1>10 DEF Next

LEMMA FoundHolds == Spec => []Found
<1>1. Init => Found
  BY LifecycleAssumption DEF Init, Found, HasRecord, Claims, Preparing
<1>2. ShapeInv /\ ServiceInv /\ Found /\ [Next]_vars => Found'
  BY NextFound
<1> QED
  BY <1>1, <1>2, ServiceHolds, PTL DEF Spec

\* A game with a worker has its record, and its code's pointer to it.
THEOREM ServedGame == Spec => []ServedGameFound
<1>1. ShapeInv /\ Found => ServedGameFound
  <2> SUFFICES ASSUME ShapeInv, Found, NEW w \in Worker, Working(w), req[w].code \notin doubled
               PROVE  req[w].code \in codePtr /\ data[req[w].code] # NoRecord
    BY DEF ServedGameFound
  <2>1. req[w].code \in Code
    BY DEF ShapeInv, ProcsOK, WorkerOK, WorkerFits, Working
  <2>2. HasRecord(w, req[w].code)
    BY LifecycleAssumption DEF HasRecord, Claims, Working
  <2> QED
    BY <2>1, <2>2, LifecycleAssumption DEF Found, RecordFound
<1> QED
  BY <1>1, FoundHolds, ServiceHolds, PTL

-----------------------------------------------------------------------------
(* Locks and kill channels *)

\* A worker that has been started keeps its game.
LEMMA StepKeepsWorkers ==
  ASSUME ShapeInv, NEW p \in Proc, Step(p), NEW w \in Worker, pc[w] # "ready"
  PROVE  pc'[w] # "ready" /\ req'[w] = req[w]
<1>0. TypeOK /\ ProcsOK /\ DataOK /\ CommandOK /\ WorkerOK /\ GreetingOK
  BY DEF ShapeInv, ProcsOK
<1>1. CASE Launch(p)
  BY <1>0, <1>1, LaunchEffect, LifecycleAssumption
<1>2. CASE Resubscribe(p)
  BY <1>0, <1>2, ResubscribeEffect, LifecycleAssumption
<1>3. CASE ~Launch(p) /\ ~Resubscribe(p)
  BY <1>0, <1>3, StepKeepsOthers, StepFits, FitsOK DEF OthersKept
<1> QED
  BY <1>1, <1>2, <1>3

\* A lock is taken when it is free and handed back by its holder.
LEMMA StepLock ==
  ASSUME ShapeInv, NEW p \in Proc, Step(p), NEW k \in Key \cup {None}
  PROVE  \/ lock'[k] = lock[k]
         \/ lock[k] = p /\ lock'[k] = None
         \/ lock[k] = None /\ lock'[k] = p
<1>0. TypeOK /\ ProcsOK /\ DataOK /\ CommandOK /\ WorkerOK /\ GreetingOK
  BY DEF ShapeInv, ProcsOK
<1>1. ASSUME NEW j, lock' = Unlocked(p, j)
      PROVE  \/ lock'[k] = lock[k]
             \/ lock[k] = p /\ lock'[k] = None
  BY <1>0, <1>1 DEF Unlocked, TypeOK
<1>2. CASE Fetch(p) \/ LockToDelete(p)
  BY <1>0, <1>2 DEF Fetch, LockToDelete, TypeOK
<1>3. CASE NewLockout(p) \/ TouchNothing(p) \/ Resubscribe(p) \/ Delete(p)
  BY <1>1, <1>3 DEF NewLockout, TouchNothing, ReleaseOnly, Resubscribe, Delete
<1>4. ASSUME NEW r, WritesBack(p, r) \/ \E c : Renews(p, r, c)
      PROVE  \/ lock'[k] = lock[k]
             \/ lock[k] = p /\ lock'[k] = None
  BY <1>1, <1>4 DEF WritesBack, Renews, Commit
<1>5. CASE MovingStep(p)
  BY <1>2, <1>3, <1>5
     DEF MovingStep, Resolve, NotObtained, Return, NewOverShown, RefreshNothing, EndUnmute, JobDone,
         DropOwnEntry, NoMoreGames, shared
<1> QED
  BY <1>0, <1>2, <1>3, <1>4, <1>5, StepKinds
     DEF Pointers, Activate, EndLook, Launch, Register, NextGame, RemoveOldGame, shared

\* A channel is registered by Launch and by Register only.
LEMMA StepChan ==
  ASSUME ShapeInv, NEW p \in Proc, Step(p), NEW c \in Code
  PROVE  \/ chan'[c] \in {chan[c], None}
         \/ /\ Launch(p) \/ Register(p)
            /\ chan'[c] \in Worker /\ pc'[chan'[c]] # "ready" /\ req'[chan'[c]].code = c
<1>0. TypeOK /\ ProcsOK /\ DataOK /\ CommandOK /\ WorkerOK /\ GreetingOK
  BY DEF ShapeInv, ProcsOK
<1>1. ASSUME NEW d, DropEntry(d)
      PROVE  chan'[c] \in {chan[c], None}
  BY <1>1 DEF DropEntry
<1>2. CASE MovingStep(p)
  BY <1>1, <1>2
     DEF MovingStep, Resolve, NotObtained, Return, NewOverShown, NewLockout, TouchNothing,
         ReleaseOnly, RefreshNothing, EndUnmute, JobDone, DropOwnEntry, LockToDelete, NoMoreGames, session
<1>3. CASE Launch(p)
  <2>1. CASE c = copy[p].code
    BY <1>0, <1>3, <2>1, LaunchEffect DEF Launch, TypeOK
  <2>2. CASE c # copy[p].code
    BY <1>0, <1>3, <2>2 DEF Launch, TypeOK
  <2> QED
    BY <2>1, <2>2
<1>4. CASE Register(p)
  <2>1. CASE c = copy[p].code
    <3>1. p \in Greeting /\ pc[p] = "stored" /\ copy[p].code = req[p].code
      BY <1>0, <1>4, LifecycleAssumption
         DEF Register, CommandOK, CommandFits, WorkerOK, WorkerFits, GreetingOK, GreetingFits
    <3>2. peer[p] \in Worker /\ pc[peer[p]] # "ready" /\ req[peer[p]].code = c
      BY <1>0, <2>1, <3>1 DEF GreetingOK, GreetingFits
    <3>3. chan'[c] = peer[p]
      BY <1>0, <1>4, <2>1 DEF Register, TypeOK
    <3> QED
      BY <1>4, <3>2, <3>3, StepKeepsWorkers
  <2>2. CASE c # copy[p].code
    BY <1>0, <1>4, <2>2 DEF Register, TypeOK
  <2> QED
    BY <2>1, <2>2
<1>5. CASE Fetch(p)
  BY <1>5 DEF Fetch, session
<1>6. ASSUME NEW r, WritesBack(p, r) \/ \E d : Renews(p, r, d)
      PROVE  chan'[c] \in {chan[c], None}
  BY <1>6 DEF WritesBack, Renews, session
<1> QED
  BY <1>0, <1>2, <1>3, <1>4, <1>5, <1>6, StepKinds
     DEF Pointers, Activate, EndLook, Resubscribe, NextGame, RemoveOldGame, Delete, session

\* Whoever is in the body has the lock it asked for, EndGameChannels has the
\* game's own worker, and a sender has seen that worker's game on the board.
LockHeld == \A p \in Proc : pc[p] = "body" => lock[name[p]] = p

ChanOK == \A c \in Code : chan[c] # None => pc[chan[c]] # "ready" /\ req[chan[c]].code = c

SendOK ==
  \A p \in Command : pc[p] = "send" =>
    /\ Shown(copy[p])
    /\ pc[peer[p]] # "ready" /\ req[peer[p]].code = copy[p].code

HoldInv == LockHeld /\ ChanOK /\ SendOK

LEMMA StepHoldInv ==
  ASSUME ShapeInv, HoldInv, NEW p \in Proc, Step(p)
  PROVE  HoldInv'
<1>0. TypeOK /\ ProcsOK /\ DataOK /\ CommandOK /\ WorkerOK /\ GreetingOK
  BY DEF ShapeInv, ProcsOK
<1>00. LockHeld /\ ChanOK /\ SendOK
  BY DEF HoldInv
<1>1. LockHeld'
  <2> SUFFICES ASSUME NEW q \in Proc, pc'[q] = "body" PROVE lock'[name'[q]] = q
    BY DEF LockHeld
  <2>1. CASE q # p
    <3>1. pc[q] = "body" /\ name'[q] = name[q]
      BY <1>0, <2>1, StepKeepsOthers, LaunchEffect, ResubscribeEffect DEF OthersKept
    <3>2. name[q] \in Key \cup {None} /\ lock[name[q]] = q /\ q # None
      BY <1>0, <1>00, <3>1, LifecycleAssumption DEF TypeOK, LockHeld
    <3> QED
      BY <2>1, <3>1, <3>2, StepLock
  <2>2. CASE q = p
    <3>1. ~MovingStep(p) /\ ~Launch(p) /\ ~Resubscribe(p)
      BY <1>0, <2>2, MovingStepControl, LaunchEffect, ResubscribeEffect
    <3>2. ASSUME NEW r, WritesBack(p, r) \/ \E c : Renews(p, r, c) PROVE FALSE
      BY <1>0, <2>2, <3>2 DEF WritesBack, Renews, Commit, Goto, TypeOK
    <3>3. ~Pointers(p) /\ ~Activate(p) /\ ~EndLook(p)
      BY <1>0, <2>2 DEF Pointers, Activate, EndLook, KillOrGoOn, Leave, Goto, TypeOK
    <3>4. ~Register(p) /\ ~NextGame(p) /\ ~RemoveOldGame(p) /\ ~Delete(p)
      BY <1>0, <2>2 DEF Register, NextGame, RemoveOldGame, Delete, Leave, Goto, TypeOK
    <3>5. Fetch(p)
      BY <1>0, <3>1, <3>2, <3>3, <3>4, StepKinds
    <3>6. lock' = [lock EXCEPT ![name[p]] = p] /\ name' = name /\ name[p] \in Key \cup {None}
      BY <1>0, <3>5, FetchEffect DEF TypeOK
    <3> QED
      BY <1>0, <2>2, <3>6 DEF TypeOK
  <2> QED
    BY <2>1, <2>2
<1>2. ChanOK'
  <2> SUFFICES ASSUME NEW c \in Code, chan'[c] # None
               PROVE  pc'[chan'[c]] # "ready" /\ req'[chan'[c]].code = c
    BY DEF ChanOK
  <2>1. CASE chan'[c] = chan[c]
    <3>1. chan[c] \in Worker /\ pc[chan[c]] # "ready" /\ req[chan[c]].code = c
      BY <1>0, <1>00, <2>1 DEF ChanOK, TypeOK
    <3> QED
      BY <2>1, <3>1, StepKeepsWorkers
  <2>2. CASE chan'[c] # chan[c]
    BY <2>2, StepChan
  <2> QED
    BY <2>1, <2>2
<1>3. SendOK'
  <2> SUFFICES ASSUME NEW q \in Command, pc'[q] = "send"
               PROVE  /\ Shown(copy'[q])
                      /\ pc'[peer'[q]] # "ready" /\ req'[peer'[q]].code = copy'[q].code
    BY DEF SendOK, Shown
  <2>1. CASE q # p
    <3>1. pc[q] = "send" /\ copy'[q] = copy[q] /\ peer'[q] = peer[q]
      <4>1. CASE Launch(p)
        BY <1>0, <2>1, <4>1, LaunchEffect DEF Launch
      <4>2. CASE Resubscribe(p)
        BY <1>0, <2>1, <4>2, ResubscribeEffect, LifecycleAssumption
      <4> QED
        BY <1>0, <2>1, <4>1, <4>2, StepKeepsOthers DEF OthersKept
    <3>2. peer[q] \in Worker /\ pc[peer[q]] # "ready"
      BY <1>0, <1>00, <3>1 DEF CommandOK, CommandFits, SendOK
    <3> QED
      BY <1>00, <3>1, <3>2, StepKeepsWorkers DEF SendOK
  <2>2. CASE q = p
    <3>1. NewOverShown(p) \/ EndLook(p)
      <4>1. CASE MovingStep(p)
        <5>1. ~Resolve(p) /\ ~Return(p) /\ ~NewLockout(p) /\ ~TouchNothing(p) /\ ~RefreshNothing(p)
          BY <1>0, <2>2 DEF Resolve, Return, NewLockout, TouchNothing, ReleaseOnly, RefreshNothing,
             Leave, Goto, TypeOK
        <5>2. ~NotObtained(p) /\ ~EndUnmute(p) /\ ~JobDone(p)
          BY <1>0, <2>2 DEF NotObtained, EndUnmute, JobDone, Leave, Goto, TypeOK
        <5>3. ~DropOwnEntry(p) /\ ~LockToDelete(p) /\ ~NoMoreGames(p)
          BY <1>0, <2>2 DEF DropOwnEntry, LockToDelete, NoMoreGames, Leave, Goto, TypeOK
        <5> QED
          BY <4>1, <5>1, <5>2, <5>3 DEF MovingStep
      <4>2. ASSUME NEW r, WritesBack(p, r) \/ \E c : Renews(p, r, c) PROVE FALSE
        BY <1>0, <2>2, <4>2 DEF WritesBack, Renews, Commit, Goto, TypeOK
      <4>3. ~Pointers(p) /\ ~Activate(p) /\ ~Fetch(p)
        BY <1>0, <2>2 DEF Pointers, Activate, Fetch, Goto, TypeOK
      <4>4. ~Register(p) /\ ~NextGame(p) /\ ~RemoveOldGame(p) /\ ~Delete(p)
        BY <1>0, <2>2 DEF Register, NextGame, RemoveOldGame, Delete, Leave, Goto, TypeOK
      <4>5. ~Launch(p) /\ ~Resubscribe(p)
        BY <1>0, <2>2, LaunchEffect, ResubscribeEffect
      <4> QED
        BY <1>0, <4>1, <4>2, <4>3, <4>4, <4>5, StepKinds
    <3>2. /\ Shown(copy'[p]) /\ copy'[p].code \in Code
          /\ chan[copy'[p].code] # None /\ peer'[p] = chan[copy'[p].code]
          /\ UNCHANGED req /\ \A w \in Worker : pc'[w] = pc[w]
      <4>1. CASE NewOverShown(p)
        BY <1>0, <2>2, <4>1, LifecycleAssumption DEF NewOverShown, KillOrGoOn, Goto, TypeOK
      <4>2. CASE EndLook(p)
        <5>1. ~Leave(p, "done")
          BY <1>0, <2>2 DEF Leave, Goto, TypeOK
        <5> QED
          BY <1>0, <2>2, <4>2, <5>1, LifecycleAssumption DEF EndLook, KillOrGoOn, Goto, TypeOK
      <4> QED
        BY <3>1, <4>1, <4>2
    <3>3. chan[copy'[p].code] \in Worker
      BY <1>0, <3>2 DEF TypeOK
    <3> QED
      BY <1>00, <2>2, <3>2, <3>3 DEF ChanOK
  <2> QED
    BY <2>1, <2>2
<1> QED
  BY <1>1, <1>2, <1>3 DEF HoldInv

LEMMA NextHoldInv ==
  ASSUME ShapeInv, HoldInv, [Next]_vars
  PROVE  HoldInv'
<1>0. TypeOK /\ ProcsOK /\ DataOK /\ CommandOK /\ WorkerOK /\ GreetingOK /\ LockHeld /\ ChanOK /\ SendOK
  BY DEF ShapeInv, ProcsOK, HoldInv
<1> USE <1>0, LifecycleAssumption
<1>1. ASSUME UNCHANGED <<name, copy, peer, chan, lock>>,
             \A q \in Proc : pc'[q] \in {"body", "send"} => pc[q] = pc'[q],
             \A w \in Worker : pc[w] # "ready" => pc'[w] # "ready" /\ req'[w] = req[w]
      PROVE  HoldInv'
  <2>1. LockHeld'
    BY <1>1 DEF LockHeld
  <2>2. ChanOK'
    BY <1>1 DEF ChanOK, TypeOK
  <2>3. SendOK'
    BY <1>1 DEF SendOK, CommandOK, CommandFits
  <2> QED
    BY <2>1, <2>2, <2>3 DEF HoldInv
<1>2. ASSUME NEW p \in Command, NEW op \in Ops, NEW t \in Text, Issue(p, op, t)
      PROVE  HoldInv'
  BY <1>1, <1>2 DEF Issue, Goto, TypeOK, shared, session
<1>3. ASSUME NEW g \in Greeting, LoadAllActiveGames(g)
      PROVE  HoldInv'
  BY <1>1, <1>3 DEF LoadAllActiveGames, Goto, TypeOK, shared
<1>4. ASSUME NEW p \in Command, Send(p)
      PROVE  HoldInv'
  BY <1>1, <1>4, SendEffect DEF shared, session
<1>5. ASSUME NEW p \in Proc, Step(p)
      PROVE  HoldInv'
  BY <1>5, StepHoldInv
<1>6. ASSUME NEW w \in Worker, TakeJob(w)
      PROVE  HoldInv'
  BY <1>1, <1>6 DEF TakeJob, Goto, TypeOK, shared
<1>7. ASSUME NEW w \in Worker, Timeout(w)
      PROVE  HoldInv'
  BY <1>1, <1>7 DEF Timeout, Goto, TypeOK, shared, session, local, frame
<1>8. ASSUME NEW k \in Key \cup {None}, Expire(k)
      PROVE  HoldInv'
  <2>1. UNCHANGED <<pc, name, copy, peer, chan, req>>
    BY <1>8 DEF Expire, session, local, frame
  <2>2. LockHeld'
    BY <1>8, <2>1 DEF LockHeld, Expire, TypeOK, Inside
  <2>3. ChanOK' /\ SendOK'
    BY <2>1 DEF ChanOK, SendOK, Shown
  <2> QED
    BY <2>2, <2>3 DEF HoldInv
<1>9. CASE Crash
  <2>1. /\ \A q \in Proc : pc'[q] \notin {"body", "send"}
        /\ \A c \in Code : chan'[c] = None
    BY <1>9 DEF Crash
  <2> QED
    BY <2>1 DEF HoldInv, LockHeld, ChanOK, SendOK
<1>10. CASE UNCHANGED vars
  BY <1>1, <1>10 DEF vars, session, local, frame
<1> QED
  BY <1>2, <1>3, <1>4, <1>5, <1>6, <1>7, <1>8, <1>9, <1>10 DEF Next

LEMMA HoldHolds == Spec => []HoldInv
<1>1. Init => HoldInv
  BY DEF Init, HoldInv, LockHeld, ChanOK, SendOK
<1>2. ShapeInv /\ HoldInv /\ [Next]_vars => HoldInv'
  BY NextHoldInv
<1> QED
  BY <1>1, <1>2, ShapeHolds, PTL DEF Spec

-----------------------------------------------------------------------------
(* Until /new has shown its game, nobody else touches it *)

\* A record on the board under code c was there before, or p wrote it: it shows
\* the game for the first time, or writes a shown copy back.
LEMMA StepShown ==
  ASSUME ShapeInv, NEW p \in Proc, Step(p), NEW c \in Code,
         data'[c] # NoRecord, Shown(data'[c])
  PROVE  \/ data[c] # NoRecord /\ Shown(data[c])
         \/ /\ pc[p] = "body" /\ copy[p].code = c
            /\ task[p] = "start" \/ Shown(copy[p])
            /\ p \in Greeting \/ c \in strayed' \/ name[p] = c
<1>0. TypeOK /\ ProcsOK /\ DataOK /\ CommandOK /\ WorkerOK /\ GreetingOK
  BY DEF ShapeInv, ProcsOK
<1> USE <1>0
<1>1. ASSUME NEW r \in Record, PutData(r), data'[c] # data[c]
      PROVE  r.code = c /\ data'[c] = r
  BY <1>1 DEF PutData, TypeOK
<1>2. CASE data'[c] = data[c]
  BY <1>2
<1>3. CASE data'[c] # data[c]
  <2>1. ~MovingStep(p)
    BY <1>3, MovingStepMoves DEF Moves, store
  <2>2. ASSUME Fetch(p) PROVE FALSE
    <3>1. copy'[p] \in Record /\ ~Shown(copy'[p]) /\ PutData(copy'[p])
      BY <1>3, <2>2, FetchEffect, StepTypes DEF TypeOK, store
    <3> QED
      BY <1>1, <1>3, <3>1
  <2>3. ASSUME NEW r, NEW d, Renews(p, r, d) PROVE FALSE
    BY <1>1, <1>3, <2>3 DEF Renews, Commit
  <2>4. ASSUME Delete(p) PROVE FALSE
    BY <1>3, <2>4, RecordAssumption DEF Delete, TypeOK
  <2>5. ~RemoveOldGame(p)
    BY <1>3, RemoveEffect DEF shared, store
  <2>6. ASSUME NEW r \in Record, WritesBack(p, r)
        PROVE  /\ pc[p] = "body" /\ copy[p].code = c
               /\ task[p] = "start" \/ Shown(copy[p])
               /\ c \in strayed' \/ name[p] = c
    <3>1. r.code = c /\ data'[c] = r
      BY <1>1, <1>3, <2>6 DEF WritesBack, Commit
    <3> QED
      BY <2>6, <3>1 DEF WritesBack, Commit
  <2>7. CASE Resubscribe(p)
    <3>1. PutData(copy[p]) /\ copy[p] \in Record /\ pc[p] = "body"
      BY <2>7 DEF Resubscribe, TypeOK
    <3>2. copy[p].code = c /\ data'[c] = copy[p]
      BY <1>1, <1>3, <3>1
    <3> QED
      BY <2>7, <3>1, <3>2, ResubscribeEffect
  <2> QED
    BY <1>3, <2>1, <2>2, <2>3, <2>4, <2>5, <2>6, <2>7, StepKinds
       DEF Pointers, Activate, EndLook, Launch, Register, NextGame, shared, store
<1> QED
  BY <1>2, <1>3

\* The same of the copies that processes hold.
LEMMA StepCopy ==
  ASSUME ShapeInv, NEW p \in Proc, Step(p), NEW c \in Code, NEW q \in Proc,
         copy'[q].code = c, Shown(copy'[q])
  PROVE  \/ copy'[q] = copy[q]
         \/ data[c] # NoRecord /\ Shown(data[c])
         \/ /\ pc[p] = "body" /\ copy[p].code = c
            /\ task[p] = "start" \/ Shown(copy[p])
<1>0. TypeOK /\ ProcsOK /\ DataOK /\ CommandOK /\ WorkerOK /\ GreetingOK
  BY DEF ShapeInv, ProcsOK
<1> USE <1>0
<1>1. CASE q # p
  <2>1. CASE Launch(p) \/ Resubscribe(p)
    BY <2>1 DEF Launch, Resubscribe
  <2> QED
    BY <1>1, <2>1, StepKeepsOthers DEF OthersKept
<1>2. CASE q = p
  <2>1. CASE MovingStep(p)
    BY <1>2, <2>1, MovingStepMoves, EmptyRecordIs DEF Moves, Shown
  <2>2. CASE Fetch(p)
    <3>1. copy'[p] = Lookup(req[p]) /\ Lookup(req[p]) # NoRecord
      BY <1>2, <2>2, FetchEffect
    <3> QED
      BY <1>2, <3>1, LookupFinds DEF TypeOK
  <2>3. CASE EndLook(p)
    <3>1. CASE Leave(p, "done")
      BY <1>2, <3>1, EmptyRecordIs DEF Leave, Forget, Shown
    <3>2. CASE ~Leave(p, "done")
      <4>1. copy'[p] = Lookup(req[p]) /\ Lookup(req[p]) # NoRecord
        BY <2>3, <3>2 DEF EndLook, TypeOK
      <4> QED
        BY <1>2, <4>1, LookupFinds DEF TypeOK
    <3> QED
      BY <3>1, <3>2
  <2>4. ASSUME NEW r, WritesBack(p, r), copy'[q] # copy[q]
        PROVE  /\ pc[p] = "body" /\ copy[p].code = c
               /\ task[p] = "start" \/ Shown(copy[p])
    BY <1>2, <2>4 DEF WritesBack, Commit, TypeOK
  <2>5. ASSUME NEW r, NEW d, Renews(p, r, d) PROVE FALSE
    BY <1>2, <2>5 DEF Renews, Commit, TypeOK
  <2>6. CASE RemoveOldGame(p)
    <3>1. CASE Leave(p, "gone")
      BY <1>2, <3>1, EmptyRecordIs DEF Leave, Forget, Shown
    <3>2. CASE ~Leave(p, "gone")
      BY <1>2, <2>6, <3>2, RemoveEffect
    <3> QED
      BY <3>1, <3>2
  <2>7. CASE Register(p) \/ Delete(p)
    BY <1>2, <2>7, EmptyRecordIs DEF Register, Delete, Leave, Forget, Shown
  <2> QED
    BY <2>1, <2>2, <2>3, <2>4, <2>5, <2>6, <2>7, StepKinds
       DEF Pointers, Activate, Launch, Resubscribe, NextGame, local, frame
<1> QED
  BY <1>1, <1>2

\* handleGameStartMessage has not had its game's record yet, or is in the body.
Starting(p, c) ==
  p \in Command /\ task[p] = "start" /\ pc[p] \in Resolving /\ req[p].code = c

Early(p, c) == Preparing(p, c) \/ Starting(p, c)

\* One /new at most looks after a game's first steps, and they are quiet.
EarlyUnique == \A c \in Code, p, q \in Command : Early(p, c) /\ Early(q, c) => p = q

\* The record is there, nobody has seen it on the board, nobody ends the game.
Quiet(p, c) ==
  /\ data[c] # NoRecord /\ ~Shown(data[c])
  /\ c \in codePtr \/ pc[p] = "pointers"
  /\ c \in games \/ pc[p] \in {"pointers", "stored"}
  /\ \A q \in Proc : copy[q].code = c => ~Shown(copy[q])
  /\ \A w \in Worker : req[w].code = c => task[w] # "force" /\ pc[w] # "timedOut"
  /\ pc[p] \in {"obtain", "body"} => name[p] = c
  /\ pc[p] = "body" => copy[p].code = c

EarlyQuiet == \A c \in Code, p \in Command : Early(p, c) => Quiet(p, c)

EarlyInv == EarlyUnique /\ EarlyQuiet

LEMMA EarlyUsed ==
  ASSUME Generated, NEW p \in Command, NEW c \in Code, Early(p, c)
  PROVE  c \in used
BY LifecycleAssumption DEF Generated, Early, Preparing, Starting

\* From the body handleGameStartMessage can only go on.
LEMMA StartInBody ==
  ASSUME ShapeInv, NEW p \in Proc, Step(p), task[p] = "start", pc[p] = "body", NEW c
  PROVE  ~Early(p, c)'
<1>0. TypeOK /\ ProcsOK /\ DataOK
  BY DEF ShapeInv, ProcsOK
<1>1. ShowGame(p)
  <2>1. ~MovingStep(p)
    BY DEF MovingStep, Resolve, NotObtained, Return, NewOverShown, NewLockout, TouchNothing,
       RefreshNothing, EndUnmute, JobDone, DropOwnEntry, LockToDelete, NoMoreGames
  <2> QED
    BY <2>1
       DEF Step, MovingStep, Fetch, Pointers, NewAfterKill, NewWithoutGame, Activate, Launch, TouchShown,
           RefreshShown, EndLook, DoJob, ForceReset, RemoveOldGame, Delete, NextGame, Resubscribe, Register
<1>2. task'[p] = "start" /\ pc'[p] \in {"pointers", "stored"}
  BY <1>0, <1>1 DEF ShowGame, Commit, Goto, TypeOK
<1> QED
  BY <1>2 DEF Early, Preparing, Starting, Resolving

LEMMA EarlyShrinks ==
  ASSUME ShapeInv, NEW p \in Proc, Step(p), NEW x \in Command, NEW c \in Code, Early(x, c)'
  PROVE  Early(x, c) \/ (x = p /\ \E r : Renews(p, r, c))
<1>0. TypeOK /\ ProcsOK /\ DataOK /\ CommandOK /\ WorkerOK /\ GreetingOK
  BY DEF ShapeInv, ProcsOK
<1> USE <1>0, LifecycleAssumption DEF Early, Preparing, Starting, Resolving
<1>1. CASE x # p
  <2>1. CASE Launch(p)
    BY <1>1, <2>1, LaunchEffect DEF Launch
  <2>2. CASE Resubscribe(p)
    BY <1>1, <2>2, ResubscribeEffect
  <2> QED
    BY <1>1, <2>1, <2>2, StepKeepsOthers DEF OthersKept
<1>2. CASE x = p
  <2>1. CASE MovingStep(p)
    <3>1. ~Return(p) /\ ~NotObtained(p)
      BY <1>2 DEF Return, NotObtained, Leave, Goto, Insists, TypeOK, local
    <3>2. Starting(p, c)' /\ task[p] = "start" /\ req[p].code = c
      BY <1>2, <2>1, MovingStepControl, MovingStepMoves DEF Moves
    <3>3. Resolve(p)
      BY <2>1, <3>1, <3>2, <1>2
         DEF MovingStep, NewOverShown, NewLockout, TouchNothing, RefreshNothing, EndUnmute, JobDone,
             DropOwnEntry, LockToDelete, NoMoreGames, CommandFits, CommandOK, Fetching
    <3> QED
      BY <1>2, <3>2, <3>3 DEF Resolve
  <2>2. CASE Fetch(p)
    BY <1>2, <2>2, FetchEffect
  <2>3. CASE Pointers(p) \/ Activate(p)
    BY <1>2, <2>3 DEF Pointers, Activate, Goto, TypeOK, session, local, frame
  <2>4. CASE EndLook(p)
    BY <1>2, <2>4 DEF EndLook, KillOrGoOn, Leave, Goto, TypeOK
  <2>5. ASSUME NEW r, WritesBack(p, r) PROVE FALSE
    BY <1>2, <2>5 DEF WritesBack, Commit, Goto, TypeOK
  <2>6. ASSUME NEW r, NEW d, Renews(p, r, d) PROVE d = c
    BY <1>2, <2>6 DEF Renews, Commit, Goto, TypeOK
  <2>7. CASE Launch(p)
    BY <1>2, <2>7, LaunchEffect DEF Launch
  <2>8. ~Resubscribe(p) /\ ~Register(p) /\ ~NextGame(p) /\ ~RemoveOldGame(p) /\ ~Delete(p)
    BY <1>2, ResubscribeEffect, RemoveEffect
       DEF Register, NextGame, Delete, CommandOK, CommandFits, Fetching
  <2> QED
    BY <1>2, <2>1, <2>2, <2>3, <2>4, <2>5, <2>6, <2>7, <2>8, StepKinds
<1> QED
  BY <1>1, <1>2

\* Only a worker whose timer has fired sets out by itself to end its game.
LEMMA StepWorker ==
  ASSUME ShapeInv, NEW p \in Proc, Step(p), NEW w \in Worker
  PROVE  /\ pc'[w] = "timedOut" => pc[w] = "timedOut" /\ w # p
         /\ task'[w] = "force" => task[w] = "force" \/ pc[w] = "timedOut"
         /\ task'[w] = "force" \/ pc'[w] = "timedOut" => req'[w] = req[w]
<1>0. TypeOK /\ ProcsOK /\ DataOK /\ CommandOK /\ WorkerOK /\ GreetingOK
  BY DEF ShapeInv, ProcsOK
<1> USE <1>0, LifecycleAssumption
<1>1. CASE w # p
  <2>1. CASE Launch(p)
    BY <1>1, <2>1, LaunchEffect, ZenonT(60) DEF Launch, Begin, TypeOK, WorkerOK, WorkerFits
  <2>2. CASE Resubscribe(p)
    BY <1>1, <2>2, ResubscribeEffect DEF WorkerOK, WorkerFits
  <2> QED
    BY <1>1, <2>1, <2>2, StepKeepsOthers DEF OthersKept
<1>2. CASE w = p
  <2>1. ~Launch(p) /\ ~Resubscribe(p)
    BY <1>2, LaunchEffect, ResubscribeEffect
  <2>2. req'[p] = req[p]
    BY <1>2, <2>1, StepFits, FitsOK
  <2>3. CASE MovingStep(p)
    BY <1>2, <2>2, <2>3, MovingStepControl
  <2>4. CASE Fetch(p)
    BY <1>2, <2>2, <2>4, FetchEffect
  <2>5. ASSUME NEW r, WritesBack(p, r)
        PROVE  pc'[p] # "timedOut" /\ task'[p] = task[p]
    BY <2>5 DEF WritesBack, Commit, Goto, TypeOK
  <2>6. ASSUME NEW r, NEW d, Renews(p, r, d) PROVE FALSE
    BY <1>2, <2>6 DEF Renews, WorkerOK, WorkerFits
  <2>7. CASE RemoveOldGame(p)
    <3>1. task' = task /\ (Leave(p, "gone") \/ pc'[p] = "deleteLock")
      BY <2>7, RemoveEffect DEF Leave
    <3>2. pc'[p] \in {"gone", "deleteLock"}
      BY <3>1 DEF Leave, Goto, TypeOK
    <3> QED
      BY <1>2, <2>2, <3>1, <3>2
  <2>8. ~Activate(p) /\ ~EndLook(p) /\ ~Register(p) /\ ~NextGame(p)
    BY <1>2 DEF Activate, EndLook, Register, NextGame, WorkerOK, WorkerFits, Fetching
  <2>9. CASE Pointers(p) \/ Delete(p)
    BY <1>2, <2>2, <2>9 DEF Pointers, Delete, Leave, Goto, TypeOK, local
  <2> QED
    BY <1>2, <2>1, <2>2, <2>3, <2>4, <2>5, <2>6, <2>7, <2>8, <2>9, StepKinds
<1> QED
  BY <1>1, <1>2

\* Renews gives a code nobody has seen.
LEMMA RenewsQuiet ==
  ASSUME ShapeInv, Generated, NEW p \in Proc, Step(p), NEW r, NEW c, Renews(p, r, c)
  PROVE  Quiet(p, c)'
<1>0. TypeOK /\ ProcsOK /\ DataOK /\ CommandOK /\ WorkerOK /\ GreetingOK
  BY DEF ShapeInv, ProcsOK
<1> USE <1>0, LifecycleAssumption
<1>1. /\ c \in Code /\ c \notin used /\ r \in Record /\ r.code = c /\ ~Shown(r)
      /\ PutData(r) /\ Storable(r) /\ copy'[p] = r /\ pc'[p] = "pointers"
      /\ UNCHANGED <<task, req>>
  BY DEF Renews, Commit, Goto, TypeOK, Storable
<1>2. data'[c] # NoRecord /\ ~Shown(data'[c])
  BY <1>1, RecordAssumption DEF PutData, TypeOK
<1>3. p \in Command
  BY DEF Renews, WorkerOK, WorkerFits, GreetingOK, GreetingFits
<1>4. OthersKept(p)
  BY StepKeepsOthers DEF Renews, Launch, Resubscribe
<1>5. \A q \in Proc : copy'[q].code = c => ~Shown(copy'[q])
  BY <1>1, <1>4 DEF OthersKept, Generated
<1>6. \A w \in Worker : req'[w].code # c
  BY <1>1 DEF Generated
<1> QED
  BY <1>1, <1>2, <1>5, <1>6 DEF Quiet, Shown

LEMMA StepQuiet ==
  ASSUME ShapeInv, Generated, EarlyInv, NEW p \in Proc, Step(p),
         NEW x \in Command, NEW c \in Code, Early(x, c), Early(x, c)'
  PROVE  Quiet(x, c)'
<1>0. TypeOK /\ ProcsOK /\ DataOK /\ CommandOK /\ WorkerOK /\ GreetingOK
  BY DEF ShapeInv, ProcsOK
<1> USE <1>0, LifecycleAssumption
<1>1. Quiet(x, c)
  BY DEF EarlyInv, EarlyQuiet
<1>2. ~(pc[p] = "body" /\ copy[p].code = c /\ (task[p] = "start" \/ Shown(copy[p])))
  <2> SUFFICES ASSUME pc[p] = "body", copy[p].code = c, task[p] = "start" PROVE FALSE
    BY <1>1 DEF Quiet
  <2>1. p \in Command /\ req[p].code \in Code
    BY DEF CommandOK, CommandFits, WorkerOK, WorkerFits, GreetingOK, GreetingFits
  <2>2. Early(p, req[p].code)
    BY <2>1 DEF Early, Starting, Resolving
  <2>3. req[p].code = c
    BY <2>1, <2>2 DEF EarlyInv, EarlyQuiet, Quiet
  <2>4. p = x
    BY <2>1, <2>2, <2>3 DEF EarlyInv, EarlyUnique
  <2> QED
    BY <2>4, StartInBody
<1>3. x = p \/ (pc'[x] = pc[x] /\ task'[x] = task[x] /\ req'[x] = req[x] /\ name'[x] = name[x] /\ copy'[x] = copy[x])
  <2>1. CASE Launch(p)
    BY <2>1, LaunchEffect DEF Launch
  <2>2. CASE Resubscribe(p)
    BY <2>2, ResubscribeEffect
  <2> QED
    BY <2>1, <2>2, StepKeepsOthers DEF OthersKept
<1>4. /\ c \in codePtr => c \in codePtr'
      /\ data'[c] # NoRecord /\ ~Shown(data'[c])
  <2>1. ~(Delete(p) /\ copy[p].code = c)
    <3> SUFFICES ASSUME Delete(p), copy[p].code = c PROVE FALSE
      OBVIOUS
    <3>1. p \in Worker /\ task[p] = "force" /\ req[p].code = c
      BY DEF Delete, CommandOK, CommandFits, WorkerOK, WorkerFits, GreetingOK, GreetingFits, Fetching
    <3> QED
      BY <1>1, <3>1 DEF Quiet
  <2>2. data[c] # NoRecord /\ ~Shown(data[c])
    BY <1>1 DEF Quiet
  <2>3. (c \in codePtr => c \in codePtr') /\ data'[c] # NoRecord
    BY <2>1, <2>2, StepStore
  <2>4. ~Shown(data'[c])
    BY <1>2, <2>2, <2>3, StepShown
  <2> QED
    BY <2>3, <2>4
<1>5. ASSUME x = p, ~Starting(p, c)
      PROVE  /\ pc[p] = "pointers" => Pointers(p)
             /\ pc[p] = "stored" => Activate(p)
             /\ pc'[p] \notin {"obtain", "body"}
             /\ copy[p].code = c
  <2>1. task[p] = "new" /\ pc[p] \in {"pointers", "stored", "activated"} /\ copy[p].code = c
    BY <1>5 DEF Early, Preparing
  <2>2. ~MovingStep(p) /\ ~Fetch(p)
    <3>1. ASSUME MovingStep(p) PROVE FALSE
      <4>1. pc'[p] \in {"resolve", "obtain", "done", "send", "sent", "idle", "delete"} /\ task'[p] = "new"
        BY <2>1, <3>1, MovingStepControl
      <4> QED
        BY <1>5, <4>1 DEF Early, Preparing, Starting
    <3> QED
      BY <2>1, <3>1 DEF Fetch
  <2>3. ASSUME NEW r, WritesBack(p, r) \/ \E d : Renews(p, r, d) PROVE FALSE
    BY <2>1, <2>3 DEF WritesBack, Renews
  <2>4. ~EndLook(p) /\ ~Resubscribe(p) /\ ~Register(p) /\ ~NextGame(p) /\ ~RemoveOldGame(p) /\ ~Delete(p)
    BY <2>1 DEF EndLook, Resubscribe, Register, NextGame, RemoveOldGame, Delete
  <2>5. Pointers(p) \/ Activate(p) \/ Launch(p)
    BY <2>2, <2>3, <2>4, StepKinds
  <2> QED
    BY <2>1, <2>5, LaunchEffect DEF Pointers, Activate, Launch, Goto, TypeOK
<1>6. c \in codePtr' \/ pc'[x] = "pointers"
  <2>1. CASE c \in codePtr
    BY <1>4, <2>1
  <2>2. CASE c \notin codePtr
    <3>1. pc[x] = "pointers"
      BY <1>1, <2>2 DEF Quiet
    <3>2. CASE x = p
      <4>1. Pointers(p) /\ copy[p].code = c
        BY <1>5, <3>1, <3>2 DEF Starting, Resolving
      <4> QED
        BY <4>1 DEF Pointers, PutPointers
    <3> QED
      BY <1>3, <3>1, <3>2
  <2> QED
    BY <2>1, <2>2
<1>7. c \in games' \/ pc'[x] \in {"pointers", "stored"}
  <2>1. CASE c \in games
    <3>1. ~(RemoveOldGame(p) /\ req[p].code = c)
      BY <1>1, RemoveEffect DEF Quiet
    <3> QED
      BY <2>1, <3>1, StepGames
  <2>2. CASE c \notin games
    <3>1. pc[x] \in {"pointers", "stored"}
      BY <1>1, <2>2 DEF Quiet
    <3>2. CASE x = p
      <4>1. copy[p].code = c /\ (Pointers(p) \/ Activate(p))
        BY <1>5, <3>1, <3>2 DEF Starting, Resolving
      <4> QED
        BY <3>2, <4>1 DEF Pointers, Activate, Goto, TypeOK
    <3> QED
      BY <1>3, <3>1, <3>2
  <2> QED
    BY <2>1, <2>2
<1>8. \A q \in Proc : copy'[q].code = c => ~Shown(copy'[q])
  BY <1>1, <1>2, StepCopy DEF Quiet
<1>9. \A w \in Worker : req'[w].code = c => task'[w] # "force" /\ pc'[w] # "timedOut"
  BY <1>1, StepWorker DEF Quiet
<1>10. /\ pc'[x] \in {"obtain", "body"} => name'[x] = c
       /\ pc'[x] = "body" => copy'[x].code = c
  <2>1. CASE x # p
    BY <1>1, <1>3, <2>1 DEF Quiet
  <2>2. CASE x = p /\ ~Starting(p, c)
    BY <1>5, <2>2
  <2>3. CASE x = p /\ Starting(p, c)
    <3>1. c \in codePtr /\ req[p].code = c /\ req[p] \in Request
      BY <1>1, <2>3 DEF Quiet, Starting, Resolving, TypeOK
    <3>2. KeyOf(req[p]) = c /\ Lookup(req[p]) = data[c] /\ Lookup(req[p]) # NoRecord
      BY <1>1, <3>1, LookupFinds DEF Lookup, Quiet
    <3>3. CASE pc[p] = "obtain"
      <4>1. CASE Fetch(p)
        BY <1>1, <2>3, <3>2, <3>3, <4>1, FetchEffect DEF Quiet
      <4>2. CASE ~Fetch(p)
        <5>1. ~Resolve(p) /\ ~Pointers(p) /\ ~Return(p)
          BY <3>3 DEF Resolve, Pointers, Return
        <5>2. pc'[p] \notin {"obtain", "body"} \/ MovingStep(p)
          BY <2>3, <3>3, <4>2, StepKinds
             DEF Starting, Pointers, Activate, EndLook, WritesBack, Renews, Launch, Resubscribe, Register,
                 NextGame, RemoveOldGame, Delete
        <5>3. ASSUME MovingStep(p) PROVE NotObtained(p)
          BY <2>3, <3>3, <5>1, <5>3
             DEF MovingStep, Starting, NewOverShown, NewLockout, TouchNothing, RefreshNothing, EndUnmute, JobDone,
                 DropOwnEntry, LockToDelete, NoMoreGames
        <5>4. NotObtained(p) => pc'[p] \in {"resolve", "done"}
          BY DEF NotObtained, Leave, Goto, TypeOK
        <5> QED
          BY <2>3, <5>2, <5>3, <5>4
      <4> QED
        BY <4>1, <4>2
    <3>4. CASE pc[p] = "resolve"
      <4>1. MovingStep(p)
        BY <2>3, <3>4, StepKinds
           DEF Starting, Fetch, Pointers, Activate, EndLook, WritesBack, Renews, Launch, Resubscribe, Register,
               NextGame, RemoveOldGame, Delete
      <4>2. Resolve(p)
        BY <2>3, <3>4, <4>1
           DEF MovingStep, Starting, NotObtained, Return, NewOverShown, NewLockout, TouchNothing,
               RefreshNothing, EndUnmute, JobDone, DropOwnEntry, LockToDelete, NoMoreGames
      <4> QED
        BY <2>3, <3>2, <4>2 DEF Resolve, Goto, TypeOK
    <3>5. pc[p] # "body"
      BY <2>3, StartInBody DEF Starting
    <3> QED
      BY <2>3, <3>3, <3>4, <3>5 DEF Starting, Resolving
  <2> QED
    BY <2>1, <2>2, <2>3
<1> QED
  BY <1>4, <1>6, <1>7, <1>8, <1>9, <1>10 DEF Quiet, Shown

LEMMA StepEarlyInv ==
  ASSUME ShapeInv, Generated, EarlyInv, NEW p \in Proc, Step(p)
  PROVE  EarlyInv'
<1>1. ASSUME NEW x \in Command, NEW c \in Code, Early(x, c)' PROVE Quiet(x, c)'
  <2>1. CASE Early(x, c)
    BY <1>1, <2>1, StepQuiet
  <2>2. CASE x = p /\ \E r : Renews(p, r, c)
    BY <2>2, RenewsQuiet
  <2> QED
    BY <1>1, <2>1, <2>2, EarlyShrinks
<1>2. ASSUME NEW c \in Code, NEW x \in Command, NEW y \in Command, Early(x, c)', Early(y, c)'
      PROVE  x = y
  <2>1. Early(x, c) \/ (x = p /\ c \notin used)
    BY <1>2, EarlyShrinks DEF Renews
  <2>2. Early(y, c) \/ (y = p /\ c \notin used)
    BY <1>2, EarlyShrinks DEF Renews
  <2> QED
    BY <2>1, <2>2, EarlyUsed DEF EarlyInv, EarlyUnique
<1> QED
  BY <1>1, <1>2 DEF EarlyInv, EarlyUnique, EarlyQuiet

LEMMA NextEarlyInv ==
  ASSUME ShapeInv, Generated, HoldInv, EarlyInv, [Next]_vars
  PROVE  EarlyInv'
<1>0. TypeOK /\ ProcsOK /\ DataOK /\ CommandOK /\ WorkerOK /\ GreetingOK /\ EarlyUnique /\ EarlyQuiet
  BY DEF ShapeInv, ProcsOK, EarlyInv
<1> USE <1>0, LifecycleAssumption
<1>1. ASSUME UNCHANGED store, games \subseteq games',
             \A q \in Proc : copy'[q] \in {copy[q], EmptyRecord},
             \A x \in Command, c \in Code : Early(x, c)' =>
               /\ Early(x, c)
               /\ pc'[x] = pc[x] /\ name'[x] = name[x] /\ copy'[x] = copy[x]
               /\ \A w \in Worker : req'[w].code = c /\ (task'[w] = "force" \/ pc'[w] = "timedOut") =>
                    req[w].code = c /\ (task[w] = "force" \/ pc[w] = "timedOut")
      PROVE  EarlyInv'
  <2>1. EarlyUnique'
    BY <1>1 DEF EarlyUnique
  <2>2. ASSUME NEW x \in Command, NEW c \in Code, Early(x, c)' PROVE Quiet(x, c)'
    <3>1. Quiet(x, c)
      BY <1>1, <2>2 DEF EarlyQuiet
    <3>2. \A q \in Proc : copy'[q].code = c => ~Shown(copy'[q])
      BY <1>1, <3>1, EmptyRecordIs DEF Quiet
    <3> QED
      BY <1>1, <2>2, <3>1, <3>2 DEF Quiet, Shown, store
  <2> QED
    BY <2>1, <2>2 DEF EarlyInv, EarlyQuiet
<1>2. ASSUME NEW p \in Command, NEW op \in Ops, NEW t \in Text, Issue(p, op, t)
      PROVE  EarlyInv'
  <2>1. \A c \in Code : ~Early(p, c)'
    BY <1>2 DEF Issue, Goto, Begin, TypeOK, Early, Preparing, Starting
  <2> QED
    BY <1>1, <1>2, <2>1 DEF Issue, Goto, Begin, TypeOK, shared, session, Early, Preparing, Starting
<1>3. ASSUME NEW g \in Greeting, LoadAllActiveGames(g)
      PROVE  EarlyInv'
  BY <1>1, <1>3 DEF LoadAllActiveGames, Goto, Begin, TypeOK, shared, Early, Preparing, Starting
<1>4. ASSUME NEW p \in Command, Send(p)
      PROVE  EarlyInv'
  <2>1. ASSUME NEW x \in Command, NEW c \in Code, Early(x, c)' PROVE Early(x, c) /\ x # p /\ pc'[x] = pc[x]
    BY <1>4, <2>1, SendEffect DEF Early, Preparing, Starting, Resolving, session
  <2>2. Shown(copy[p]) /\ req[peer[p]].code = copy[p].code
    BY <1>4, SendEffect DEF HoldInv, SendOK
  <2>3. ASSUME NEW x \in Command, NEW c \in Code, Early(x, c)' PROVE req[peer[p]].code # c
    BY <2>1, <2>2, <2>3 DEF EarlyQuiet, Quiet
  <2> QED
    BY <1>1, <1>4, <2>1, <2>3, SendEffect DEF shared, session
<1>5. ASSUME NEW p \in Proc, Step(p)
      PROVE  EarlyInv'
  BY <1>5, StepEarlyInv
<1>6. ASSUME NEW w \in Worker, TakeJob(w)
      PROVE  EarlyInv'
  BY <1>1, <1>6 DEF TakeJob, Goto, Begin, TypeOK, shared, Early, Preparing, Starting
<1>7. ASSUME NEW w \in Worker, Timeout(w)
      PROVE  EarlyInv'
  <2>1. ASSUME NEW x \in Command, NEW c \in Code, Early(x, c) PROVE req[w].code # c
    BY <1>7, <2>1 DEF Timeout, SettingUp, Early, Preparing, Starting, Resolving
  <2>2. ASSUME NEW x \in Command, NEW c \in Code, Early(x, c)' PROVE Early(x, c)
    BY <1>7, <2>2 DEF Timeout, Goto, TypeOK, session, local, frame, Early, Preparing, Starting
  <2> QED
    BY <1>1, <1>7, <2>1, <2>2 DEF Timeout, Goto, TypeOK, shared, session, local, frame
<1>8. ASSUME NEW k \in Key \cup {None}, Expire(k)
      PROVE  EarlyInv'
  BY <1>1, <1>8 DEF Expire, session, local, frame, Early, Preparing, Starting
<1>9. CASE Crash
  BY <1>1, <1>9 DEF Crash, Forget, shared, TypeOK, Early, Preparing, Starting, Resolving
<1>10. CASE UNCHANGED vars
  BY <1>1, <1>10 DEF vars, session, local, frame, Early, Preparing, Starting
<1> QED
  BY <1>2, <1>3, <1>4, <1>5, <1>6, <1>7, <1>8, <1>9, <1>10 DEF Next

LEMMA EarlyHolds == Spec => []EarlyInv
<1>1. Init => EarlyInv
  BY DEF Init, EarlyInv, EarlyUnique, EarlyQuiet, Early, Preparing, Starting
<1>2. ShapeInv /\ Generated /\ HoldInv /\ EarlyInv /\ [Next]_vars => EarlyInv'
  BY NextEarlyInv
<1> QED
  BY <1>1, <1>2, ServiceHolds, HoldHolds, PTL DEF Spec

-----------------------------------------------------------------------------
(* A game that is over is off the board, and stays off *)

\* /new has stored the game, and not listed it yet.
Fresh(c) == \E p \in Command : Preparing(p, c) /\ pc[p] # "activated"

\* forceEndGame has reset the record.
Ended(w) ==
  \/ pc[w] \in {"deleteLock", "delete", "gone"}
  \/ task[w] = "force" /\ pc[w] \in {"pointers", "stored"}

\* newGuild found no pointer and asks for, or has, another key's lock.
Astray(g, c) == pc[g] \in {"obtain", "body"} /\ req[g].code = c /\ name[g] # c

\* From then on nobody can find the game's shown record under the game's lock.
Over(c) ==
  \/ c \notin codePtr
  \/ c \notin games
  \/ \E w \in Worker : Ended(w) /\ req[w].code = c
  \/ \E g \in Greeting : Astray(g, c)

Closed(c) ==
  /\ \A p \in Command : ~Early(p, c)
  /\ data[c] # NoRecord => ~Shown(data[c])
  /\ \A p \in Proc :
       pc[p] = "body" /\ copy[p].code = c /\ (name[p] = c \/ p \in Greeting) => ~Shown(copy[p])

\* A game is over only when it is closed, or fresh.
OverClosed == \A c \in (used \cap Code) \ strayed : Over(c) => Fresh(c) \/ Closed(c)

\* A game that is closed stays closed, unless it is written back astray.
LEMMA StepClosed ==
  ASSUME ShapeInv, Generated, EarlyInv, NEW p \in Proc, Step(p),
         NEW c \in Code, c \in used, c \notin strayed', Closed(c)
  PROVE  Closed(c)'
<1>0. TypeOK /\ ProcsOK /\ DataOK /\ CommandOK /\ WorkerOK /\ GreetingOK
  BY DEF ShapeInv, ProcsOK
<1> USE <1>0, LifecycleAssumption
<1>1. ~(pc[p] = "body" /\ copy[p].code = c /\ (name[p] = c \/ p \in Greeting)
        /\ (task[p] = "start" \/ Shown(copy[p])))
  <2> SUFFICES ASSUME pc[p] = "body", copy[p].code = c, name[p] = c \/ p \in Greeting, task[p] = "start"
               PROVE  FALSE
    BY DEF Closed
  <2>1. p \in Command /\ req[p].code \in Code
    BY DEF CommandOK, CommandFits, WorkerOK, WorkerFits, GreetingOK, GreetingFits
  <2>2. Early(p, req[p].code)
    BY <2>1 DEF Early, Starting, Resolving
  <2>3. req[p].code = c
    BY <2>1, <2>2 DEF EarlyInv, EarlyQuiet, Quiet
  <2> QED
    BY <2>1, <2>2, <2>3 DEF Closed
<1>2. ASSUME NEW q \in Command PROVE ~Early(q, c)'
  BY EarlyShrinks DEF Closed, Renews
<1>3. data'[c] # NoRecord => ~Shown(data'[c])
  BY <1>1, StepShown DEF Closed
<1>4. ASSUME NEW q \in Proc, pc'[q] = "body", copy'[q].code = c, name'[q] = c \/ q \in Greeting,
             Shown(copy'[q])
      PROVE  FALSE
  <2>1. CASE q # p
    <3>1. pc[q] = "body" /\ name'[q] = name[q] /\ copy'[q] = copy[q]
      BY <1>4, <2>1, StepKeepsOthers, LaunchEffect, ResubscribeEffect DEF OthersKept, Launch
    <3> QED
      BY <1>4, <3>1 DEF Closed
  <2>2. CASE q = p
    <3>1. ~MovingStep(p) /\ ~Launch(p) /\ ~Resubscribe(p)
      BY <1>4, <2>2, MovingStepControl, LaunchEffect, ResubscribeEffect
    <3>2. ASSUME NEW r, WritesBack(p, r) \/ \E d : Renews(p, r, d) PROVE FALSE
      BY <1>4, <2>2, <3>2 DEF WritesBack, Renews, Commit, Goto, TypeOK
    <3>3. ~Pointers(p) /\ ~Activate(p) /\ ~EndLook(p)
      BY <1>4, <2>2 DEF Pointers, Activate, EndLook, KillOrGoOn, Leave, Goto, TypeOK
    <3>4. ~Register(p) /\ ~NextGame(p) /\ ~RemoveOldGame(p) /\ ~Delete(p)
      BY <1>4, <2>2 DEF Register, NextGame, RemoveOldGame, Delete, Leave, Goto, TypeOK
    <3>5. Fetch(p)
      BY <3>1, <3>2, <3>3, <3>4, StepKinds
    <3>6. copy'[p] = Lookup(req[p]) /\ Lookup(req[p]) # NoRecord
      BY <1>4, <2>2, <3>5, FetchEffect
    <3>7. copy'[p] = data[c] /\ data[c] # NoRecord
      BY <1>4, <2>2, <3>6, LookupFinds DEF TypeOK
    <3> QED
      BY <1>4, <2>2, <3>7 DEF Closed
  <2> QED
    BY <2>1, <2>2
<1> QED
  BY <1>2, <1>3, <1>4 DEF Closed, Shown

\* A game that RefreshActiveGame lists is not over.
LEMMA StepFresh ==
  ASSUME ShapeInv, Generated, ServiceInv, EarlyInv, NEW p \in Proc, Step(p),
         NEW c \in Code, Fresh(c), Over(c)'
  PROVE  Fresh(c)'
<1>0. TypeOK /\ ProcsOK /\ DataOK /\ CommandOK /\ WorkerOK /\ GreetingOK
  BY DEF ShapeInv, ProcsOK
<1> USE <1>0, LifecycleAssumption
<1>1. PICK q \in Command : Preparing(q, c) /\ pc[q] # "activated"
  BY DEF Fresh
<1>2. CASE q # p
  <2>1. CASE Launch(p)
    <3>1. q # NextWorker /\ copy' = copy
      BY <2>1, LaunchEffect DEF Launch
    <3>2. pc'[q] = pc[q] /\ task'[q] = task[q]
      BY <1>2, <2>1, <3>1, LaunchEffect DEF Launch, Begin, TypeOK
    <3> QED
      BY <1>1, <3>1, <3>2 DEF Fresh, Preparing
  <2>2. CASE Resubscribe(p)
    BY <1>1, <1>2, <2>2, ResubscribeEffect DEF Fresh, Preparing
  <2>3. CASE OthersKept(p)
    BY <1>1, <1>2, <2>3 DEF Fresh, Preparing, OthersKept
  <2> QED
    BY <2>1, <2>2, <2>3, StepKeepsOthers
<1>3. CASE q = p /\ Pointers(p)
  BY <1>1, <1>3 DEF Pointers, Goto, TypeOK, Fresh, Preparing, local, frame
<1>4. CASE q = p /\ Activate(p)
  <2>1. /\ pc[p] = "stored" /\ copy[p].code = c /\ pc'[p] = "activated"
        /\ c \in games' /\ UNCHANGED <<codePtr, task, req, name>>
        /\ \A x \in Proc : x # p => pc'[x] = pc[x]
    BY <1>1, <1>4 DEF Activate, Goto, TypeOK, Preparing, shared, store, local, frame
  <2>2. c \in codePtr
    BY <1>1, <1>4, <2>1 DEF EarlyInv, EarlyQuiet, Early, Quiet
  <2>3. c \notin doubled /\ Claims(p, c)
    BY <1>1, <1>4 DEF ServiceInv, Unlisted, Claims
  <2>4. ASSUME NEW w \in Worker, Ended(w)', req'[w].code = c PROVE FALSE
    <3>1. Ended(w) /\ req[w].code = c /\ w # p
      BY <1>1, <1>4, <2>1, <2>4 DEF Ended
    <3>2. Claims(w, c)
      BY <3>1 DEF Claims, Ended
    <3> QED
      BY <2>3, <3>1, <3>2 DEF ServiceInv, OneClaim
  <2>5. ASSUME NEW g \in Greeting, Astray(g, c)' PROVE FALSE
    <3>1. Astray(g, c) /\ g # p
      BY <1>1, <1>4, <2>1, <2>5 DEF Astray
    <3>2. Claims(g, c)
      BY <3>1 DEF Claims, Astray, GreetingOK, GreetingFits, Fetching
    <3> QED
      BY <2>3, <3>1, <3>2 DEF ServiceInv, OneClaim
  <2> QED
    BY <2>1, <2>2, <2>4, <2>5 DEF Over
<1>5. CASE q = p /\ ~Pointers(p) /\ ~Activate(p)
  <2>1. task[p] = "new" /\ pc[p] \in {"pointers", "stored"}
    BY <1>1, <1>5 DEF Preparing
  <2>2. MovingStep(p)
    BY <1>5, <2>1, StepKinds
       DEF Fetch, EndLook, WritesBack, Renews, Launch, Resubscribe, Register, NextGame, RemoveOldGame, Delete
  <2> QED
    BY <2>1, <2>2
       DEF MovingStep, Resolve, NotObtained, Return, NewOverShown, NewLockout, TouchNothing, RefreshNothing,
           EndUnmute, JobDone, DropOwnEntry, LockToDelete, NoMoreGames
<1> QED
  BY <1>2, <1>3, <1>4, <1>5

\* A game that becomes over by a step is closed by it.
LEMMA StepOver ==
  ASSUME ShapeInv, Generated, HoldInv, EarlyInv, NEW p \in Proc, Step(p),
         NEW c \in Code, c \in used, c \notin strayed', ~Over(c), Over(c)'
  PROVE  Closed(c)'
<1>0. TypeOK /\ ProcsOK /\ DataOK /\ CommandOK /\ WorkerOK /\ GreetingOK
  BY DEF ShapeInv, ProcsOK
<1> USE <1>0, LifecycleAssumption
<1>1. /\ c \in codePtr /\ c \in games
      /\ \A w \in Worker : Ended(w) => req[w].code # c
      /\ \A g \in Greeting : ~Astray(g, c)
  BY DEF Over
<1>2. c \in codePtr'
  <2>1. ~(Delete(p) /\ copy[p].code = c)
    <3> SUFFICES ASSUME Delete(p), copy[p].code = c PROVE FALSE
      OBVIOUS
    <3>1. p \in Worker /\ pc[p] = "delete" /\ req[p].code = c
      BY DEF Delete, CommandOK, CommandFits, WorkerOK, WorkerFits, GreetingOK, GreetingFits, Fetching
    <3> QED
      BY <1>1, <3>1 DEF Ended
  <2> QED
    BY <1>1, <2>1, StepStore
<1>3. c \in games'
  <2>1. ~(RemoveOldGame(p) /\ req[p].code = c)
    BY <1>1, RemoveEffect DEF Ended
  <2> QED
    BY <1>1, <2>1, StepGames
<1>4. ASSUME NEW g \in Greeting, Astray(g, c)' PROVE FALSE
  <2>1. CASE g # p
    <3>1. CASE OthersKept(p)
      BY <1>1, <1>4, <2>1, <3>1 DEF OthersKept, Astray
    <3>2. CASE Launch(p)
      BY <1>1, <1>4, <2>1, <3>2, LaunchEffect DEF Launch, Astray
    <3>3. CASE Resubscribe(p)
      BY <1>1, <1>4, <2>1, <3>3, ResubscribeEffect DEF Astray
    <3> QED
      BY <3>1, <3>2, <3>3, StepKeepsOthers
  <2>2. CASE g = p
    <3>1. pc'[p] \in {"obtain", "body"} /\ req'[p].code = c /\ name'[p] # c
      BY <1>4, <2>2 DEF Astray
    <3>2. ~Launch(p) /\ ~Resubscribe(p)
      BY <3>1, LaunchEffect, ResubscribeEffect
    <3>3. ASSUME NEW r, WritesBack(p, r) \/ \E d : Renews(p, r, d) PROVE FALSE
      BY <3>1, <3>3 DEF WritesBack, Renews, Commit, Goto, TypeOK
    <3>4. ~Pointers(p) /\ ~Activate(p) /\ ~EndLook(p)
      BY <3>1 DEF Pointers, Activate, EndLook, KillOrGoOn, Leave, Goto, TypeOK
    <3>5. ~Register(p) /\ ~NextGame(p) /\ ~RemoveOldGame(p) /\ ~Delete(p)
      BY <3>1 DEF Register, NextGame, RemoveOldGame, Delete, Leave, Goto, TypeOK
    <3>6. ~Fetch(p)
      BY <1>1, <2>2, <3>1, FetchEffect DEF Astray
    <3>7. MovingStep(p)
      BY <3>2, <3>3, <3>4, <3>5, <3>6, StepKinds
    <3>8. ~Return(p) /\ ~NewOverShown(p) /\ ~NewLockout(p) /\ ~TouchNothing(p) /\ ~RefreshNothing(p)
      BY <3>1 DEF Return, NewOverShown, KillOrGoOn, NewLockout, TouchNothing, ReleaseOnly, RefreshNothing,
         Leave, Goto, TypeOK
    <3>9. ~NotObtained(p) /\ ~EndUnmute(p) /\ ~JobDone(p)
      BY <3>1 DEF NotObtained, EndUnmute, JobDone, Leave, Goto, TypeOK
    <3>10. ~DropOwnEntry(p) /\ ~LockToDelete(p) /\ ~NoMoreGames(p)
      BY <3>1 DEF DropOwnEntry, LockToDelete, NoMoreGames, Leave, Goto, TypeOK
    <3>11. Resolve(p)
      BY <3>7, <3>8, <3>9, <3>10 DEF MovingStep
    <3>12. name'[p] = KeyOf(req[p]) /\ req[p].code = c /\ req[p] \in Request
      BY <3>1, <3>11 DEF Resolve, TypeOK
    <3> QED
      BY <1>1, <3>1, <3>12, LookupFinds
  <2> QED
    BY <2>1, <2>2
<1>5. PICK w \in Worker : Ended(w)' /\ req'[w].code = c
  BY <1>2, <1>3, <1>4 DEF Over
<1>6. w = p
  <2> SUFFICES ASSUME w # p PROVE FALSE
    OBVIOUS
  <2>1. CASE OthersKept(p)
    BY <1>1, <1>5, <2>1 DEF OthersKept, Ended
  <2>2. CASE Launch(p)
    <3>1. w # NextWorker
      BY <1>5, <2>2, LaunchEffect DEF Ended
    <3> QED
      BY <1>1, <1>5, <2>2, <3>1, LaunchEffect DEF Launch, Begin, Ended, TypeOK
  <2>3. CASE Resubscribe(p)
    <3>1. w # NextWorker
      BY <1>5, <2>3, ResubscribeEffect DEF Ended
    <3> QED
      BY <1>1, <1>5, <2>3, <3>1, ResubscribeEffect DEF Ended
  <2> QED
    BY <2>1, <2>2, <2>3, StepKeepsOthers
<1>7. req[p].code = c /\ ~Ended(p) /\ WorkerFits(p)
  <2>1. ~Launch(p) /\ ~Resubscribe(p)
    BY <1>6, LaunchEffect, ResubscribeEffect
  <2>2. req'[p] = req[p]
    BY <1>6, <2>1, StepFits, FitsOK
  <2> QED
    BY <1>1, <1>5, <1>6, <2>2 DEF WorkerOK
<1>8. PICK r \in Record : WritesBack(p, r) /\ task[p] = "force"
  <2>1. ~Launch(p) /\ ~Resubscribe(p) /\ ~RemoveOldGame(p)
    BY <1>6, <1>7, LaunchEffect, ResubscribeEffect, RemoveEffect DEF Ended
  <2>2. ~MovingStep(p)
    BY <1>5, <1>6, <1>7, MovingStepControl DEF Ended
  <2>3. ~Fetch(p) /\ ~Delete(p)
    BY <1>5, <1>6, <1>7, FetchEffect DEF Ended, Delete
  <2>4. ~Pointers(p)
    BY <1>5, <1>6, <1>7 DEF Ended, Pointers, Goto, TypeOK, local
  <2>5. ~Activate(p) /\ ~EndLook(p) /\ ~Register(p) /\ ~NextGame(p)
    BY <1>7 DEF Activate, EndLook, Register, NextGame, WorkerFits, Fetching
  <2>6. ASSUME NEW r, NEW d, Renews(p, r, d) PROVE FALSE
    BY <1>7, <2>6 DEF Renews, WorkerFits
  <2>7. PICK r \in Record : WritesBack(p, r)
    BY <2>1, <2>2, <2>3, <2>4, <2>5, <2>6, StepKinds
  <2>8. pc'[p] \in {"pointers", "stored"} /\ task'[p] = task[p]
    BY <2>7 DEF WritesBack, Commit, Goto, TypeOK
  <2> QED
    BY <1>5, <1>6, <2>7, <2>8 DEF Ended
<1>9. /\ pc[p] = "body" /\ copy[p].code = c /\ r.code = c /\ ~Shown(r)
      /\ name[p] = c /\ lock[c] = p /\ data'[c] = r /\ pc'[p] # "body"
  <2>1. pc[p] = "body" /\ copy[p].code = c /\ r.code = c /\ ~Shown(r)
    BY <1>7, <1>8 DEF WritesBack, WorkerFits
  <2>2. name[p] = c
    BY <1>8, <2>1 DEF WritesBack, Commit
  <2>3. lock[c] = p
    BY <2>1, <2>2 DEF HoldInv, LockHeld
  <2>4. data'[c] = r
    BY <1>8, <2>1 DEF WritesBack, Commit, PutData, Storable, TypeOK
  <2>5. pc'[p] # "body"
    BY <1>8 DEF WritesBack, Commit, Goto, TypeOK
  <2> QED
    BY <2>1, <2>2, <2>3, <2>4, <2>5
<1>10. ASSUME NEW q \in Command PROVE ~Early(q, c)'
  <2> SUFFICES ASSUME Early(q, c)' PROVE FALSE
    OBVIOUS
  <2>1. Early(q, c)
    BY EarlyShrinks DEF Renews
  <2> QED
    BY <1>6, <1>7, <1>8, <2>1 DEF EarlyInv, EarlyQuiet, Quiet
<1>11. ASSUME NEW q \in Proc, pc'[q] = "body", copy'[q].code = c, name'[q] = c \/ q \in Greeting
       PROVE  FALSE
  <2>1. q # p
    BY <1>9, <1>11
  <2>2. pc[q] = "body" /\ name[q] = name'[q] /\ copy[q] = copy'[q]
    BY <1>8, <2>1, <1>11, StepKeepsOthers DEF OthersKept, WritesBack, Launch, Resubscribe
  <2>3. name[q] # c
    BY <1>9, <2>1, <2>2 DEF HoldInv, LockHeld
  <2>4. q \in Greeting /\ req[q].code = c
    BY <1>11, <2>2, <2>3 DEF GreetingOK, GreetingFits
  <2> QED
    BY <1>1, <2>2, <2>3, <2>4 DEF Astray
<1> QED
  BY <1>9, <1>10, <1>11 DEF Closed, Shown

\* The history of games written back astray only grows.
LEMMA StepStrayed ==
  ASSUME ShapeInv, NEW p \in Proc, Step(p)
  PROVE  strayed \subseteq strayed'
<1>0. TypeOK /\ ProcsOK /\ DataOK /\ WorkerOK /\ CommandOK /\ GreetingOK
  BY DEF ShapeInv, ProcsOK
<1>1. CASE MovingStep(p)
  BY <1>0, <1>1, MovingStepMoves DEF Moves
<1>2. CASE Fetch(p)
  BY <1>0, <1>2, FetchEffect
<1>3. CASE RemoveOldGame(p)
  BY <1>0, <1>3, RemoveEffect DEF shared
<1> QED
  BY <1>0, <1>1, <1>2, <1>3, StepKinds
     DEF Pointers, Activate, EndLook, WritesBack, Renews, Commit, Launch, Resubscribe, Register, NextGame,
         Delete, shared

LEMMA StepOverClosed ==
  ASSUME ShapeInv, Generated, ServiceInv, HoldInv, EarlyInv, OverClosed, NEW p \in Proc, Step(p)
  PROVE  OverClosed'
<1>0. TypeOK /\ ProcsOK /\ DataOK /\ CommandOK /\ WorkerOK /\ GreetingOK
  BY DEF ShapeInv, ProcsOK
<1> USE <1>0, LifecycleAssumption
<1> SUFFICES ASSUME NEW c \in Code, c \in used', c \notin strayed', Over(c)'
             PROVE  Fresh(c)' \/ Closed(c)'
  BY DEF OverClosed
<1>1. c \notin strayed
  BY StepStrayed
<1>2. CASE c \in used
  <2>1. CASE Over(c)
    <3>1. Fresh(c) \/ Closed(c)
      BY <1>1, <1>2, <2>1 DEF OverClosed
    <3> QED
      BY <1>2, <3>1, StepFresh, StepClosed
  <2> QED
    BY <1>2, <2>1, StepOver
<1>3. CASE c \notin used
  <2>1. PICK r, d : Renews(p, r, d)
    <3>1. CASE MovingStep(p)
      BY <1>3, <3>1, MovingStepMoves DEF Moves
    <3>2. CASE Fetch(p)
      BY <1>3, <3>2, FetchEffect DEF session
    <3>3. CASE RemoveOldGame(p)
      BY <1>3, <3>3, RemoveEffect
    <3>4. ~\E r \in Record : WritesBack(p, r)
      BY <1>3 DEF WritesBack, session
    <3> QED
      BY <1>3, <3>1, <3>2, <3>3, <3>4, StepKinds
         DEF Pointers, Activate, EndLook, Launch, Resubscribe, Register, NextGame, Delete, session
  <2>2. d = c /\ p \in Command
    BY <1>3, <2>1 DEF Renews, WorkerOK, WorkerFits, GreetingOK, GreetingFits
  <2>3. Storable(r) /\ copy'[p].code = c /\ pc'[p] = "pointers" /\ task'[p] = "new"
    BY <2>1, <2>2 DEF Renews, Commit, Goto, TypeOK, Storable
  <2> QED
    BY <2>2, <2>3 DEF Fresh, Preparing
<1> QED
  BY <1>2, <1>3

LEMMA NextOverClosed ==
  ASSUME ShapeInv, Generated, ServiceInv, HoldInv, EarlyInv, OverClosed, [Next]_vars
  PROVE  OverClosed'
<1>0. TypeOK /\ ProcsOK /\ DataOK /\ CommandOK /\ WorkerOK /\ GreetingOK
  BY DEF ShapeInv, ProcsOK
<1> USE <1>0, LifecycleAssumption
<1>1. ASSUME UNCHANGED <<store, strayed, used, name, copy>>, games \subseteq games',
             \A w \in Worker : Ended(w)' => Ended(w) /\ req'[w] = req[w],
             \A q \in Proc : pc'[q] \in {"obtain", "body"} => pc'[q] = pc[q] /\ req'[q] = req[q],
             \A q \in Command, c \in Code :
               /\ Early(q, c)' => Early(q, c)
               /\ Preparing(q, c) => Preparing(q, c)' /\ pc'[q] = pc[q]
      PROVE  OverClosed'
  <2> SUFFICES ASSUME NEW c \in Code, c \in used, c \notin strayed, Over(c)'
               PROVE  Fresh(c)' \/ Closed(c)'
    BY <1>1 DEF OverClosed
  <2>1. Over(c)
    BY <1>1 DEF Over, Astray, store
  <2>2. CASE Fresh(c)
    BY <1>1, <2>2 DEF Fresh
  <2>3. CASE Closed(c)
    BY <1>1, <2>3 DEF Closed, Shown, store
  <2> QED
    BY <2>1, <2>2, <2>3 DEF OverClosed
<1>2. ASSUME NEW p \in Command, NEW op \in Ops, NEW t \in Text, Issue(p, op, t)
      PROVE  OverClosed'
  <2>1. pc[p] = "ready" /\ pc'[p] \in {"look", "resolve"} /\ task'[p] # "start"
    BY <1>2 DEF Issue, Goto, Begin, TypeOK
  <2>2. \A q \in Proc : q # p => pc'[q] = pc[q] /\ task'[q] = task[q] /\ req'[q] = req[q]
    BY <1>2 DEF Issue, Goto, Begin, TypeOK
  <2> QED
    BY <1>1, <1>2, <2>1, <2>2 DEF Issue, shared, session, Ended, Early, Preparing, Starting
<1>3. ASSUME NEW g \in Greeting, LoadAllActiveGames(g)
      PROVE  OverClosed'
  <2>1. pc'[g] = "next" /\ \A q \in Proc : q # g => pc'[q] = pc[q] /\ task'[q] = task[q]
    BY <1>3 DEF LoadAllActiveGames, Goto, Begin, TypeOK
  <2> QED
    BY <1>1, <1>3, <2>1 DEF LoadAllActiveGames, shared, Ended, Early, Preparing, Starting
<1>4. ASSUME NEW p \in Command, Send(p)
      PROVE  OverClosed'
  BY <1>1, <1>4, SendEffect DEF shared, session, Ended, Early, Preparing, Starting, Resolving
<1>5. ASSUME NEW p \in Proc, Step(p)
      PROVE  OverClosed'
  BY <1>5, StepOverClosed
<1>6. ASSUME NEW w \in Worker, TakeJob(w)
      PROVE  OverClosed'
  <2>1. pc[w] = "idle" /\ pc'[w] = "resolve" /\ \A q \in Proc : q # w => pc'[q] = pc[q] /\ task'[q] = task[q]
    BY <1>6 DEF TakeJob, Goto, Begin, TypeOK
  <2> QED
    BY <1>1, <1>6, <2>1 DEF TakeJob, shared, Ended, Early, Preparing, Starting
<1>7. ASSUME NEW w \in Worker, Timeout(w)
      PROVE  OverClosed'
  <2>1. pc[w] = "idle" /\ pc'[w] = "timedOut" /\ \A q \in Proc : q # w => pc'[q] = pc[q]
    BY <1>7 DEF Timeout, Goto, TypeOK
  <2> QED
    BY <1>1, <1>7, <2>1 DEF Timeout, shared, session, local, frame, Ended, Early, Preparing, Starting
<1>8. ASSUME NEW k \in Key \cup {None}, Expire(k)
      PROVE  OverClosed'
  BY <1>1, <1>8 DEF Expire, session, local, frame, Ended, Early, Preparing, Starting
<1>9. CASE Crash
  <2>1. /\ UNCHANGED <<shared, games, used, task, req>>
        /\ \A q \in Proc : /\ pc'[q] \in {"ready", "done", "gone", "dead"}
                           /\ pc'[q] = "gone" => pc[q] = "gone"
    BY <1>9 DEF Crash
  <2> SUFFICES ASSUME NEW c \in Code, c \in used, c \notin strayed, Over(c)'
               PROVE  Closed(c)'
    BY <2>1 DEF OverClosed, shared
  <2>2. Over(c)
    BY <2>1 DEF Over, Astray, Ended, shared, store
  <2>3. \A q \in Command : ~Early(q, c)'
    BY <2>1 DEF Early, Preparing, Starting, Resolving
  <2>4. data[c] # NoRecord => ~Shown(data[c])
    <3>1. CASE Closed(c)
      BY <3>1 DEF Closed
    <3>2. CASE Fresh(c)
      BY <3>2 DEF Fresh, EarlyInv, EarlyQuiet, Early, Quiet
    <3> QED
      BY <2>2, <3>1, <3>2 DEF OverClosed
  <2> QED
    BY <2>1, <2>3, <2>4 DEF Closed, Shown, shared, store
<1>10. CASE UNCHANGED vars
  BY <1>1, <1>10 DEF vars, session, local, frame, Ended, Early, Preparing, Starting
<1> QED
  BY <1>2, <1>3, <1>4, <1>5, <1>6, <1>7, <1>8, <1>9, <1>10 DEF Next

LEMMA OverHolds == Spec => []OverClosed
<1>1. Init => OverClosed
  BY DEF Init, OverClosed
<1>2. ShapeInv /\ Generated /\ ServiceInv /\ HoldInv /\ EarlyInv /\ OverClosed /\ [Next]_vars => OverClosed'
  BY NextOverClosed
<1> QED
  BY <1>1, <1>2, ServiceHolds, HoldHolds, EarlyHolds, PTL DEF Spec

\* What is on the board is among the active games, or written back astray.
THEOREM ShownGame == Spec => []ShownGameActive
<1>1. ShapeInv /\ Generated /\ EarlyInv /\ OverClosed => ShownGameActive
  <2> SUFFICES ASSUME ShapeInv, Generated, EarlyInv, OverClosed,
                      NEW c \in Code, data[c] # NoRecord, Shown(data[c]), c \notin games, c \notin strayed
               PROVE  FALSE
    BY DEF ShownGameActive
  <2>1. c \in used
    BY LifecycleAssumption DEF Generated
  <2>2. Fresh(c) \/ Closed(c)
    BY <2>1 DEF OverClosed, Over
  <2> QED
    BY <2>2 DEF Fresh, Closed, EarlyInv, EarlyQuiet, Early, Quiet
<1> QED
  BY <1>1, ServiceHolds, EarlyHolds, OverHolds, PTL

-----------------------------------------------------------------------------
(* An ended game stays ended *)

\* Delete takes the record away, and after OverClosed nobody can put it back.
EndedGone ==
  \A w \in Worker :
    pc[w] = "gone" /\ req[w].code \notin doubled =>
      req[w].code \in strayed \/ data[req[w].code] = NoRecord

LEMMA StepEndedGone ==
  ASSUME ShapeInv, Generated, ServiceInv, Found, EarlyInv, OverClosed, EndedGone, NEW p \in Proc, Step(p)
  PROVE  EndedGone'
<1>0. TypeOK /\ ProcsOK /\ DataOK /\ CommandOK /\ WorkerOK /\ GreetingOK
  BY DEF ShapeInv, ProcsOK
<1> USE <1>0, LifecycleAssumption
<1> SUFFICES ASSUME NEW w \in Worker, NEW c, c = req'[w].code, pc'[w] = "gone",
                    c \notin doubled', c \notin strayed'
             PROVE  data'[c] = NoRecord
  BY DEF EndedGone
<1>1. req'[w] = req[w] /\ pc[w] # "ready" /\ (w # p => pc'[w] = pc[w])
  <2>1. CASE Launch(p)
    <3>1. w # NextWorker /\ w # p
      BY <2>1, LaunchEffect
    <3> QED
      BY <2>1, <3>1, LaunchEffect
  <2>2. CASE Resubscribe(p)
    <3>1. w # NextWorker /\ w # p
      BY <2>2, ResubscribeEffect
    <3> QED
      BY <2>2, <3>1, ResubscribeEffect
  <2>3. CASE ~Launch(p) /\ ~Resubscribe(p)
    <3>1. OthersKept(p)
      BY <2>3, StepKeepsOthers
    <3>2. CASE w # p
      BY <3>1, <3>2 DEF OthersKept
    <3>3. CASE w = p
      <4>1. req'[p] = req[p]
        BY <2>3, <3>3, StepFits, FitsOK
      <4>2. pc[p] # "ready"
        BY <2>3, <3>3, MovingStepControl, FetchEffect, RemoveEffect, StepKinds
           DEF Pointers, Activate, EndLook, WritesBack, Renews, Register, NextGame, Delete
      <4> QED
        BY <3>3, <4>1, <4>2
    <3> QED
      BY <3>2, <3>3
  <2> QED
    BY <2>1, <2>2, <2>3
<1>2. c = req[w].code /\ c \in Code /\ c \in used /\ c \notin doubled /\ (pc[w] # "dead" => Claims(w, c))
  BY <1>1, StepGames DEF WorkerOK, WorkerFits, Generated, Claims
<1>3. CASE pc[w] = "gone"
  <2>1. c = req[w].code /\ c \in Code /\ c \in used /\ c \notin doubled /\ Claims(w, c)
    BY <1>2, <1>3
  <2>2. strayed \subseteq strayed'
    BY StepStrayed
  <2>3. data[c] = NoRecord /\ c \notin strayed
    BY <1>3, <2>1, <2>2 DEF EndedGone
  <2>4. Closed(c)
    <3>1. Over(c)
      BY <1>3, <2>1 DEF Over, Ended
    <3>2. ~Fresh(c)
      <4> SUFFICES ASSUME Fresh(c) PROVE FALSE
        OBVIOUS
      <4>1. PICK q \in Command : Preparing(q, c)
        BY DEF Fresh
      <4>2. Claims(q, c) /\ q # w
        BY <4>1 DEF Claims
      <4> QED
        BY <2>1, <4>2 DEF ServiceInv, OneClaim
    <3> QED
      BY <2>1, <2>3, <3>1, <3>2 DEF OverClosed
  <2>5. ASSUME NEW q \in Proc, q # w, pc[q] \in {"obtain", "body"}, req[q].code = c
        PROVE  q \in Command /\ task[q] # "start"
    <3>1. q \notin Worker /\ q \notin Greeting
      <4>1. q \in Worker \cup Greeting => Claims(q, c)
        BY <2>5 DEF Claims, GreetingOK, GreetingFits, Fetching
      <4> QED
        BY <2>1, <2>5, <4>1 DEF ServiceInv, OneClaim
    <3>2. ~Early(q, c)
      BY <2>4, <3>1 DEF Closed
    <3> QED
      BY <2>5, <3>1, <3>2 DEF Early, Starting, Resolving
  <2> SUFFICES ASSUME data'[c] # data[c] PROVE FALSE
    BY <2>3
  <2>6. ASSUME NEW r \in Record, PutData(r) PROVE r.code = c
    BY <2>1, <2>6 DEF PutData, TypeOK
  <2>7. ~MovingStep(p)
    BY MovingStepMoves DEF Moves, store
  <2>8. ASSUME Fetch(p) PROVE FALSE
    <3>1. copy'[p] \in Record /\ PutData(copy'[p]) /\ copy'[p].code = req[p].code /\ pc[p] = "obtain"
      BY <2>8, FetchEffect, StepTypes DEF TypeOK, store
    <3>2. req[p].code = c /\ p # w
      BY <1>3, <2>6, <3>1
    <3>3. p \in Command /\ task[p] # "start"
      BY <2>5, <3>1, <3>2
    <3> QED
      BY <2>1, <3>2, <3>3 DEF CommandOK, CommandFits
  <2>9. ASSUME NEW r \in Record, WritesBack(p, r) PROVE FALSE
    <3>1. pc[p] = "body" /\ p # w /\ r.code = c /\ copy[p].code = c /\ name[p] = c
      BY <1>3, <2>6, <2>9 DEF WritesBack, Commit
    <3>2. ~Shown(copy[p])
      BY <2>4, <3>1 DEF Closed
    <3>3. task[p] \in {"start", "job", "force"}
      BY <2>9, <3>2 DEF WritesBack
    <3>4. CASE task[p] = "start"
      <4>1. p \in Command /\ req[p].code \in Code
        BY <3>4 DEF CommandOK, CommandFits, WorkerOK, WorkerFits, GreetingOK, GreetingFits
      <4>2. Early(p, req[p].code)
        BY <3>1, <3>4, <4>1 DEF Early, Starting, Resolving
      <4>3. req[p].code = c
        BY <3>1, <4>1, <4>2 DEF EarlyInv, EarlyQuiet, Quiet
      <4> QED
        BY <2>4, <4>1, <4>2, <4>3 DEF Closed
    <3>5. CASE task[p] # "start"
      <4>1. p \in Worker /\ req[p].code = c
        BY <3>1, <3>3, <3>5 DEF CommandOK, CommandFits, WorkerOK, WorkerFits, GreetingOK, GreetingFits
      <4> QED
        BY <2>5, <3>1, <4>1
    <3> QED
      BY <3>4, <3>5
  <2>10. ASSUME NEW r, NEW d, Renews(p, r, d) PROVE FALSE
    BY <2>1, <2>6, <2>10 DEF Renews, Commit
  <2>11. ASSUME Resubscribe(p) PROVE FALSE
    <3>1. copy[p].code = req[p].code /\ pc[p] = "body" /\ p \in Greeting /\ copy[p] \in Record /\ PutData(copy[p])
      BY <2>11, ResubscribeEffect DEF Resubscribe, TypeOK
    <3> QED
      BY <2>5, <2>6, <3>1
  <2>12. ~RemoveOldGame(p) /\ ~Delete(p)
    BY <2>1, <2>3, RemoveEffect DEF shared, store, Delete, TypeOK
  <2> QED
    BY <2>7, <2>8, <2>9, <2>10, <2>11, <2>12, StepKinds
       DEF Pointers, Activate, EndLook, Launch, Register, NextGame, shared, store
<1>4. CASE pc[w] # "gone"
  <2>1. w = p /\ WorkerFits(p)
    BY <1>1, <1>4 DEF WorkerOK
  <2>2. RemoveOldGame(p) \/ Delete(p)
    <3>1. ~MovingStep(p) /\ ~Fetch(p)
      BY <2>1, MovingStepControl, FetchEffect
    <3>2. ASSUME NEW r, WritesBack(p, r) \/ \E d : Renews(p, r, d) PROVE FALSE
      BY <2>1, <3>2 DEF WritesBack, Renews, Commit, Goto, TypeOK
    <3>3. ~Pointers(p) /\ ~Activate(p) /\ ~EndLook(p) /\ ~Register(p) /\ ~NextGame(p)
      BY <2>1 DEF Pointers, Goto, TypeOK, Activate, EndLook, Register, NextGame, WorkerFits, Fetching
    <3>4. ~Launch(p) /\ ~Resubscribe(p)
      BY <2>1, LaunchEffect, ResubscribeEffect
    <3> QED
      BY <3>1, <3>2, <3>3, <3>4, StepKinds
  <2>3. c = req[p].code /\ c \in Code /\ c \in used /\ c \notin doubled /\ Claims(p, c) /\ copy[p].code = c
    BY <1>2, <2>1, <2>2 DEF RemoveOldGame, Delete, WorkerFits
  <2>4. CASE RemoveOldGame(p)
    <3>1. HasRecord(p, c)
      BY <1>4, <2>1, <2>3 DEF HasRecord
    <3>2. c \in codePtr /\ data[c] # NoRecord
      BY <2>1, <2>3, <3>1 DEF Found, RecordFound
    <3>3. [code |-> c, text |-> None] \in Request /\ [code |-> c, text |-> None].code = c
      BY <2>3 DEF Request
    <3>4. KeyOf([code |-> c, text |-> None]) = c
      BY <3>2, <3>3, LookupFinds
    <3>5. Lookup([code |-> c, text |-> None]) # NoRecord
      BY <2>3, <3>2, <3>4 DEF Lookup
    <3>6. pc'[p] = "deleteLock"
      BY <2>3, <2>4, <3>5, RemoveEffect
    <3> QED
      BY <2>1, <3>6
  <2>5. CASE Delete(p)
    BY <2>3, <2>5 DEF Delete, TypeOK
  <2> QED
    BY <2>2, <2>4, <2>5
<1> QED
  BY <1>3, <1>4

LEMMA NextEndedGone ==
  ASSUME ShapeInv, Generated, ServiceInv, Found, EarlyInv, OverClosed, EndedGone, [Next]_vars
  PROVE  EndedGone'
<1>0. TypeOK /\ ProcsOK
  BY DEF ShapeInv
<1> USE <1>0, LifecycleAssumption
<1>1. ASSUME UNCHANGED <<store, strayed>>, doubled \subseteq doubled',
             \A w \in Worker : pc'[w] = "gone" => pc[w] = "gone" /\ req'[w] = req[w]
      PROVE  EndedGone'
  BY <1>1 DEF EndedGone, store
<1>2. ASSUME NEW p \in Command, NEW op \in Ops, NEW t \in Text, Issue(p, op, t)
      PROVE  EndedGone'
  BY <1>1, <1>2 DEF Issue, Goto, TypeOK, shared, session
<1>3. ASSUME NEW g \in Greeting, LoadAllActiveGames(g)
      PROVE  EndedGone'
  BY <1>1, <1>3 DEF LoadAllActiveGames, Goto, TypeOK, shared
<1>4. ASSUME NEW p \in Command, Send(p)
      PROVE  EndedGone'
  BY <1>1, <1>4, SendEffect DEF shared, session
<1>5. ASSUME NEW p \in Proc, Step(p)
      PROVE  EndedGone'
  BY <1>5, StepEndedGone
<1>6. ASSUME NEW w \in Worker, TakeJob(w)
      PROVE  EndedGone'
  BY <1>1, <1>6 DEF TakeJob, Goto, TypeOK, shared
<1>7. ASSUME NEW w \in Worker, Timeout(w)
      PROVE  EndedGone'
  BY <1>1, <1>7 DEF Timeout, Goto, TypeOK, shared, session, local
<1>8. ASSUME NEW k \in Key \cup {None}, Expire(k)
      PROVE  EndedGone'
  BY <1>1, <1>8 DEF Expire, session, local
<1>9. CASE Crash
  BY <1>1, <1>9 DEF Crash, shared
<1>10. CASE UNCHANGED vars
  BY <1>1, <1>10 DEF vars, session, local
<1> QED
  BY <1>2, <1>3, <1>4, <1>5, <1>6, <1>7, <1>8, <1>9, <1>10 DEF Next

LEMMA EndedGoneHolds == Spec => []EndedGone
<1>1. Init => EndedGone
  BY DEF Init, EndedGone
<1>2. /\ ShapeInv /\ Generated /\ ServiceInv /\ Found /\ EarlyInv /\ OverClosed /\ EndedGone
      /\ [Next]_vars
      => EndedGone'
  BY NextEndedGone
<1> QED
  BY <1>1, <1>2, ServiceHolds, FoundHolds, EarlyHolds, OverHolds, PTL DEF Spec

\* Nothing brings an ended game back, but a write under a lock not its own.
THEOREM EndedGame == Spec => []EndedGameStaysEnded
<1>1. ServiceInv /\ EndedGone => EndedGameStaysEnded
  BY DEF ServiceInv, Removed, EndedGone, EndedGameStaysEnded
<1> QED
  BY <1>1, ServiceHolds, EndedGoneHolds, PTL
=============================================================================
