------------------------ MODULE GameStateLock_proofs ------------------------
(***************************************************************************)
(* Proofs about the lease of a game record, for any set of handlers.       *)
(***************************************************************************)
EXTENDS GameStateLock, TLAPS

\* In every execution the variables have their types: the locks hold handlers'
\* tokens, and the record and the copies hold handlers' updates.
THEOREM TypeCorrect == Spec => []TypeOK
<1>1. Init => TypeOK
  BY HandlerAssumption DEF Init, TypeOK, LockName, Steps, Inside, Returned
<1>2. TypeOK /\ [Next]_vars => TypeOK'
  <2> SUFFICES ASSUME TypeOK, [Next]_vars PROVE TypeOK'
    OBVIOUS
  <2> USE DEF TypeOK, Goto, Write, Unlock, Steps, Inside, Returned, LockName
  <2>1. ASSUME NEW h \in Handler, Resolve(h) PROVE TypeOK'
    BY <2>1 DEF Resolve
  <2>2. ASSUME NEW h \in Handler, Obtain(h) PROVE TypeOK'
    BY <2>2 DEF Obtain
  <2>3. ASSUME NEW h \in Handler, NotObtained(h) PROVE TypeOK'
    BY <2>3 DEF NotObtained
  <2>4. ASSUME NEW h \in Handler, Read(h) PROVE TypeOK'
    BY <2>4 DEF Read
  <2>5. ASSUME NEW h \in Handler, ReadNothing(h) PROVE TypeOK'
    BY <2>5 DEF ReadNothing
  <2>6. ASSUME NEW h \in Handler, Create(h) PROVE TypeOK'
    BY <2>6 DEF Create
  <2>7. ASSUME NEW h \in Handler, Commit(h) PROVE TypeOK'
    BY <2>7 DEF Commit
  <2>8. ASSUME NEW h \in Handler, Release(h) PROVE TypeOK'
    BY <2>8 DEF Release
  <2>9. ASSUME NEW h \in Handler, ReleaseOnly(h) PROVE TypeOK'
    BY <2>9 DEF ReleaseOnly
  <2>10. ASSUME NEW h \in Handler, ReturnLocked(h) PROVE TypeOK'
    BY <2>10 DEF ReturnLocked
  <2>11. ASSUME NEW n \in LockName, Expire(n) PROVE TypeOK'
    BY <2>11, HandlerAssumption DEF Expire
  <2>12. CASE Idle \/ UNCHANGED vars
    BY <2>12 DEF Idle, vars
  <2> QED
    BY <2>1, <2>2, <2>3, <2>4, <2>5, <2>6, <2>7, <2>8, <2>9, <2>10, <2>11,
       <2>12 DEF Next, HandlerStep
<1> QED
  BY <1>1, <1>2, PTL DEF Spec

-----------------------------------------------------------------------------
(* The inductive invariant *)

Asking == {"resolved"} \cup Inside

\* A handler that is not astray resolved the key of an existing record, and
\* from obtaining its lock to releasing it holds that lock.
OnTrack ==
  \A h \in Handler :
    h \notin astray =>
      /\ pc[h] \in Asking => present /\ name[h] = Keyed
      /\ pc[h] \in Inside => lock[Keyed] = h
      /\ pc[h] # "creating"

\* While nobody wrote astray, the copy a handler works on is the record.
FreshCopy ==
  strayWrite = {} =>
    \A h \in Handler :
      h \notin astray /\ pc[h] = "working" => copy[h] = record

IInv == TypeOK /\ OnTrack /\ FreshCopy /\ NoLostUpdate

\* Between obtaining and releasing (GetDiscordGameStateAndLock to
\* SetDiscordGameState) there is one handler at most that is not astray: the
\* record's lock holds one token.
LEMMA OneInside ==
  ASSUME OnTrack, NEW g \in Handler, NEW h \in Handler,
         g \notin astray, h \notin astray, pc[g] \in Inside, pc[h] \in Inside
  PROVE  g = h
BY DEF OnTrack

\* The inductive invariant holds before any handler has begun.
LEMMA InitIInv == Init => IInv
<1> SUFFICES ASSUME Init PROVE OnTrack /\ FreshCopy /\ NoLostUpdate
  BY HandlerAssumption
     DEF IInv, Init, TypeOK, LockName, Steps, Inside, Returned
<1> QED
  BY DEF Init, OnTrack, FreshCopy, NoLostUpdate, Asking, Inside

\* No step takes the record's lock away from a handler that is not astray after
\* it, nor lets such a handler find no record: redislock sets the key only if it
\* is free and deletes it only for its owner, and Expire makes its victim astray.
LEMMA NextOnTrack ==
  ASSUME TypeOK, OnTrack, [Next]_vars
  PROVE  OnTrack'
<1> USE DEF TypeOK, OnTrack, Goto, Unlock, Asking, Inside, LockName
<1>1. ASSUME NEW h \in Handler, Resolve(h) PROVE OnTrack'
  BY <1>1 DEF Resolve
<1>2. ASSUME NEW h \in Handler, Obtain(h) PROVE OnTrack'
  BY <1>2, HandlerAssumption DEF Obtain
<1>3. ASSUME NEW h \in Handler, NotObtained(h) PROVE OnTrack'
  BY <1>3 DEF NotObtained
<1>4. ASSUME NEW h \in Handler, Read(h) PROVE OnTrack'
  BY <1>4 DEF Read
<1>5. ASSUME NEW h \in Handler, ReadNothing(h) PROVE OnTrack'
  BY <1>5 DEF ReadNothing
<1>6. ASSUME NEW h \in Handler, Create(h) PROVE OnTrack'
  BY <1>6 DEF Create, Write
<1>7. ASSUME NEW h \in Handler, Commit(h) PROVE OnTrack'
  BY <1>7 DEF Commit, Write
<1>8. ASSUME NEW h \in Handler, Release(h) PROVE OnTrack'
  BY <1>8 DEF Release
<1>9. ASSUME NEW h \in Handler, ReleaseOnly(h) PROVE OnTrack'
  BY <1>9 DEF ReleaseOnly
<1>10. ASSUME NEW h \in Handler, ReturnLocked(h) PROVE OnTrack'
  BY <1>10 DEF ReturnLocked
<1>11. ASSUME NEW n \in LockName, Expire(n) PROVE OnTrack'
  BY <1>11 DEF Expire
<1>12. CASE Idle \/ UNCHANGED vars
  BY <1>12 DEF Idle, vars
<1> QED
  BY <1>1, <1>2, <1>3, <1>4, <1>5, <1>6, <1>7, <1>8, <1>9, <1>10, <1>11,
     <1>12 DEF Next, HandlerStep

\* No step makes the copy of a handler at work out of date or drops an update,
\* as long as nobody astray has written.  The steps that write nothing leave
\* the record alone; the write-back is by the one handler inside (OneInside).
LEMMA NextRecord ==
  ASSUME IInv, [Next]_vars
  PROVE  FreshCopy' /\ NoLostUpdate'
<1> DEFINE Goal == FreshCopy' /\ NoLostUpdate'
<1> USE DEF IInv, TypeOK, FreshCopy, NoLostUpdate, Goto
<1>1. ASSUME NEW h \in Handler, Resolve(h) PROVE Goal
  BY <1>1 DEF Resolve
<1>2. ASSUME NEW h \in Handler, Obtain(h) PROVE Goal
  BY <1>2 DEF Obtain
<1>3. ASSUME NEW h \in Handler, NotObtained(h) PROVE Goal
  BY <1>3 DEF NotObtained
<1>4. ASSUME NEW h \in Handler, Read(h) PROVE Goal
  BY <1>4 DEF Read
<1>5. ASSUME NEW h \in Handler, ReadNothing(h) PROVE Goal
  BY <1>5 DEF ReadNothing
<1>6. ASSUME NEW h \in Handler, Create(h) PROVE Goal
  \* Who creates is astray, so from here on strayWrite is not empty.
  <2>1. h \in astray
    BY <1>6 DEF Create, OnTrack
  <2> QED
    BY <1>6, <2>1 DEF Create, Write
<1>7. ASSUME NEW h \in Handler, Commit(h) PROVE Goal
  <2>1. CASE h \in astray
    BY <1>7, <2>1 DEF Commit, Write
  <2>2. CASE h \notin astray /\ strayWrite = {}
    <3>1. record' = record \cup {h}
      BY <1>7, <2>2 DEF Commit, Write
    <3>2. NoLostUpdate'
      BY <1>7, <2>2, <3>1 DEF Commit
    <3>3. ASSUME NEW g \in Handler, g \notin astray, pc'[g] = "working"
          PROVE  FALSE
      <4>1. g # h /\ pc[g] \in Inside
        BY <1>7, <3>3 DEF Commit, Inside
      <4>2. pc[h] \in Inside
        BY <1>7 DEF Commit, Inside
      <4> QED
        BY <2>2, <3>3, <4>1, <4>2, OneInside
    <3>4. astray' = astray
      BY <1>7 DEF Commit
    <3> QED
      BY <3>2, <3>3, <3>4
  <2>3. CASE strayWrite # {}
    BY <1>7, <2>3 DEF Commit, Write
  <2> QED
    BY <2>1, <2>2, <2>3
<1>8. ASSUME NEW h \in Handler, Release(h) PROVE Goal
  BY <1>8 DEF Release
<1>9. ASSUME NEW h \in Handler, ReleaseOnly(h) PROVE Goal
  BY <1>9 DEF ReleaseOnly
<1>10. ASSUME NEW h \in Handler, ReturnLocked(h) PROVE Goal
  BY <1>10 DEF ReturnLocked
<1>11. ASSUME NEW n \in LockName, Expire(n) PROVE Goal
  BY <1>11 DEF Expire
<1>12. CASE Idle \/ UNCHANGED vars
  BY <1>12 DEF Idle, vars
<1> QED
  BY <1>1, <1>2, <1>3, <1>4, <1>5, <1>6, <1>7, <1>8, <1>9, <1>10, <1>11,
     <1>12 DEF Next, HandlerStep

\* The inductive invariant holds in every state of every execution.
LEMMA Invariance == Spec => []IInv
<1>1. TypeOK /\ OnTrack /\ FreshCopy /\ NoLostUpdate /\ [Next]_vars
      => OnTrack' /\ FreshCopy' /\ NoLostUpdate'
  BY NextOnTrack, NextRecord DEF IInv
<1>2. Init => OnTrack /\ FreshCopy /\ NoLostUpdate
  BY InitIInv DEF IInv
<1> QED
  BY <1>1, <1>2, TypeCorrect, PTL DEF Spec, IInv

\* For any handlers, however long their bodies take and whether or not the
\* record exists: an update is lost only through a write by a handler astray.
THEOREM UpdatesSurvive == Spec => []NoLostUpdate
BY Invariance, PTL DEF IInv

\* For any handlers: two of them are between GetDiscordGameStateAndLock and
\* SetDiscordGameState together only when one of them is astray.
THEOREM LeaseExcludes == Spec => []Exclusion
<1>1. IInv => Exclusion
  BY OneInside DEF IInv, Exclusion
<1> QED
  BY <1>1, Invariance, PTL

-----------------------------------------------------------------------------
(* The atomic record *)

\* For a record that exists and bodies shorter than the lease nobody is ever
\* astray, and the record contains just what has been written back, each
\* update by a handler that is past its write.
Atomicity ==
  /\ present
  /\ astray = {}
  /\ strayWrite = {}
  /\ record = committed
  /\ \A h \in committed : pc[h] \in {"committed", "done"}

\* Under those two assumptions every step keeps Atomicity, and is an atomic
\* update of the record or leaves it alone.
LEMMA NextAtomicity ==
  ASSUME Existing = TRUE, MayOverrun = FALSE, IInv, Atomicity, [Next]_vars
  PROVE  Atomicity' /\ [Atomic!Next]_record
<1> DEFINE Goal == Atomicity' /\ [Atomic!Next]_record
<1> USE DEF IInv, TypeOK, Atomicity, Goto
<1>1. ASSUME NEW h \in Handler, Resolve(h) PROVE Goal
  BY <1>1 DEF Resolve
<1>2. ASSUME NEW h \in Handler, Obtain(h) PROVE Goal
  BY <1>2 DEF Obtain
<1>3. ASSUME NEW h \in Handler, NotObtained(h) PROVE Goal
  BY <1>3 DEF NotObtained
<1>4. ASSUME NEW h \in Handler, Read(h) PROVE Goal
  BY <1>4 DEF Read
<1>5. ASSUME NEW h \in Handler, ReadNothing(h) PROVE Goal
  BY <1>5 DEF ReadNothing
<1>6. ASSUME NEW h \in Handler, Create(h) PROVE Goal
  BY <1>6 DEF Create, OnTrack
<1>7. ASSUME NEW h \in Handler, Commit(h) PROVE Goal
  <2>1. h \notin record
    BY <1>7 DEF Commit
  <2>2. record' = record \cup {h}
    BY <1>7 DEF Commit, Write, FreshCopy
  <2>3. [Atomic!Next]_record
    BY <2>1, <2>2 DEF Atomic!Next, Atomic!Apply
  <2> QED
    BY <1>7, <2>2, <2>3 DEF Commit, Write
<1>8. ASSUME NEW h \in Handler, Release(h) PROVE Goal
  BY <1>8 DEF Release
<1>9. ASSUME NEW h \in Handler, ReleaseOnly(h) PROVE Goal
  BY <1>9 DEF ReleaseOnly
<1>10. ASSUME NEW h \in Handler, ReturnLocked(h) PROVE Goal
  BY <1>10 DEF ReturnLocked
<1>11. ASSUME NEW n \in LockName, Expire(n) PROVE Goal
  BY <1>11 DEF Expire
<1>12. CASE Idle \/ UNCHANGED vars
  BY <1>12 DEF Idle, vars
<1> QED
  BY <1>1, <1>2, <1>3, <1>4, <1>5, <1>6, <1>7, <1>8, <1>9, <1>10, <1>11,
     <1>12 DEF Next, HandlerStep

\* The locked read-modify-write is an atomic update of an existing record as
\* long as no body outlasts its lease.
THEOREM ImplementsAtomicRecord ==
  ASSUME Existing = TRUE, MayOverrun = FALSE
  PROVE  Spec => AtomicSpec
<1>1. Init => Atomicity /\ Atomic!Init
  BY DEF Init, Atomicity, Atomic!Init
<1>2. IInv /\ Atomicity /\ [Next]_vars => Atomicity' /\ [Atomic!Next]_record
  BY NextAtomicity
<1> QED
  BY <1>1, <1>2, Invariance, PTL DEF Spec, AtomicSpec, Atomic!Spec
=============================================================================
