------------------------ MODULE VoiceControl_proofs ------------------------
(***************************************************************************)
(* The theorems of VoiceControl.  The invariant relates three places that  *)
(* say what a user is or should be: Discord's server (actual), the record  *)
(* (should), and the batch the worker carries from what it read (want).    *)
(***************************************************************************)
EXTENDS VoiceControl, TLAPS

\* A worker that rests, or is about to read the record, carries nothing.
Resting == worker \in {"idle", "decide"} => first \cup rest = {}

\* A batch asks for what the record says still.
Wanted == \A u \in (first \cup rest) \ missed : want[u] = should[u]

\* Who is not in the batch is already what the record says.
InStep == \A u \in User \ (missed \cup first \cup rest) : actual[u] = should[u]

\* A batch is asked for only when the game ran as it was read.
ReadRunning == worker = "apply" => ranWhenRead

\* The record follows the rules, but for what has still to come: a user whose
\* arrival waits to be handled, and during the tasks one who died or came back.
Pending(u) == \E e \in events : e.user = u /\ e.state = should[u]
Hidden(u) == /\ worker = "idle"
             /\ phase = "TASKS"
             /\ should[u] = VoiceRule(u \notin alive, TRUE, phase)
ByRule(u) == should[u] = Rule(u) \/ Hidden(u) \/ Pending(u)
RuleKept == worker # "decide" => \A u \in User \ missed : Tracked(u) => ByRule(u)

\* A batch with priority is one of the phase it is for, in the right order.
Ordered ==
  priority # "none" =>
    /\ worker # "idle"
    /\ phase = IF priority = "alive" THEN "TASKS" ELSE "DISCUSS"
    /\ \A u \in first : Urgent(u)
    /\ \A u \in rest : ~Urgent(u)

Inv == /\ TypeOK
       /\ Resting /\ Wanted /\ InStep /\ ReadRunning
       /\ RuleKept /\ Ordered

-----------------------------------------------------------------------------
(* Types *)

\* A rule is a state that a user can be in.
LEMMA RuleType == ASSUME NEW a, NEW t, NEW p
                  PROVE  VoiceRule(a, t, p) \in VoiceState
<1> DEFINE m == t /\ p = (IF a THEN "TASKS" ELSE "DISCUSS")
           d == t /\ a /\ p = "TASKS"
<1>1. m \in BOOLEAN /\ d \in BOOLEAN OBVIOUS
<1>2. VoiceRule(a, t, p) = [mute |-> m, deaf |-> d] BY DEF VoiceRule
<1> HIDE DEF m, d
<1>3. [mute |-> m, deaf |-> d] \in [mute : BOOLEAN, deaf : BOOLEAN] BY <1>1
<1> QED BY <1>2, <1>3 DEF VoiceState

LEMMA OffType == Off \in VoiceState
BY DEF Off, VoiceState

\* What becomes of the types where Discord is asked, and where it answers no.
LEMMA AppliedType ==
  ASSUME TypeOK, NEW u \in User, NEW v \in VoiceState, Applied(u, v) \/ Refused(u)
  PROVE  actual' \in [User -> VoiceState] /\ events' \subseteq Event
BY DEF TypeOK, Applied, Refused, Told, Event

\* Every step keeps every variable in its type.
LEMMA TypeStep == TypeOK /\ [Next]_vars => TypeOK'
<1> SUFFICES ASSUME TypeOK, [Next]_vars PROVE TypeOK' OBVIOUS
<1> USE VoiceAssumption, OffType
<1>1. ASSUME NEW p \in Phase, Transition(p) PROVE TypeOK'
  <2>1. Priority(phase, p) \in {"alive", "dead", "none"} BY DEF Priority
  <2>2. AliveAfter(phase, p, players, alive) \subseteq players
    BY DEF TypeOK, AliveAfter
  <2>3. rest' \subseteq User /\ missed' \subseteq User
        /\ worker' \in {"decide", "apply"} /\ ranWhenRead' \in BOOLEAN
    BY <1>1 DEF Transition, TypeOK
  <2> QED BY <1>1, <2>1, <2>2, <2>3 DEF Transition, TypeOK, discord
<1>2. ASSUME NEW u \in User, NEW isDead \in BOOLEAN, NEW exiled \in BOOLEAN,
             NEW joined \in BOOLEAN, PlayerJob(u, isDead, exiled, joined)
      PROVE TypeOK'
  BY <1>2 DEF PlayerJob, TypeOK, discord
<1>3. ASSUME NEW u \in User, LeftJob(u) PROVE TypeOK'
  <2>1. actual' \in [User -> VoiceState] /\ events' \subseteq Event
    BY <1>3, AppliedType DEF LeftJob
  <2> QED BY <1>3, <2>1 DEF LeftJob, TypeOK
<1>4. ASSUME NEW u \in User, Ask(u) PROVE TypeOK'
  <2>1. want[u] \in VoiceState BY DEF TypeOK
  <2>2. Applied(u, want[u]) \/ Refused(u) BY <1>4 DEF Ask
  <2>3. actual' \in [User -> VoiceState] /\ events' \subseteq Event
    BY <2>1, <2>2, AppliedType
  <2>4. missed' \subseteq User BY <1>4 DEF Ask, TypeOK
  <2> QED BY <1>4, <2>3, <2>4 DEF Ask, TypeOK, record
<1>5. ASSUME NEW u \in User, Override(u) PROVE TypeOK'
  <2>1. actual' \in [User -> VoiceState] /\ events' \subseteq Event
    BY <1>5, AppliedType DEF Override
  <2> QED BY <1>5, <2>1 DEF Override, TypeOK, record, batch
<1>6. ASSUME ConnectionJob PROVE TypeOK'
  BY <1>6 DEF ConnectionJob, TypeOK, record, discord
<1>7. ASSUME Decide PROVE TypeOK'
  <2>1. PICK W : W = {u \in players : place[u] # "out" /\ Rule(u) # should[u]} OBVIOUS
  <2>2. W \subseteq User BY <2>1 DEF TypeOK
  <2>3. \A u \in User : Rule(u) \in VoiceState BY RuleType DEF Rule
  <2>4. want' \in [User -> VoiceState] /\ should' \in [User -> VoiceState]
    <3>1. want' = [u \in User |-> IF u \in W THEN Rule(u) ELSE Off] BY <1>7, <2>1 DEF Decide
    <3>2. should' = [u \in User |-> IF u \in W THEN Rule(u) ELSE should[u]]
      BY <1>7, <2>1 DEF Decide
    <3> QED BY <3>1, <3>2, <2>3 DEF TypeOK
  <2>5. first' \subseteq W /\ rest' \subseteq W BY <1>7, <2>1 DEF Decide
  <2> QED BY <1>7, <2>2, <2>4, <2>5 DEF Decide, TypeOK, discord
<1>8. ASSUME LockVoice PROVE TypeOK'
  BY <1>8 DEF LockVoice, TypeOK, record, discord, batch
<1>9. ASSUME Wait PROVE TypeOK'
  BY <1>9 DEF Wait, TypeOK, record, discord, batch
<1>10. ASSUME Finish PROVE TypeOK'
  BY <1>10 DEF Finish, TypeOK, record, discord
<1>11. ASSUME Lapse PROVE TypeOK'
  BY <1>11 DEF Lapse, TypeOK, record, discord, batch
<1>12. ASSUME NEW u \in User, NEW p \in {"tracked", "other", "out"}, Move(u, p) PROVE TypeOK'
  <2>1. events' \subseteq Event BY <1>12 DEF Move, Told, TypeOK, Event
  <2> QED BY <1>12, <2>1 DEF Move, TypeOK, record, batch
<1>13. ASSUME NEW e \in events, VoiceEvent(e) PROVE TypeOK'
  <2>1. e.user \in User BY DEF TypeOK, Event
  <2>2. PICK r : r = VoiceRule(e.user \in alive, e.user \in players, phase) OBVIOUS
  <2>3. r \in VoiceState BY <2>2, RuleType
  <2>4. should' \in {should, [should EXCEPT ![e.user] = r]} BY <1>13, <2>2 DEF VoiceEvent
  <2>5. actual' \in {actual, [actual EXCEPT ![e.user] = r]} BY <1>13, <2>2 DEF VoiceEvent
  <2>6. events' \subseteq events \cup {[user |-> e.user, state |-> r]}
    BY <1>13, <2>2 DEF VoiceEvent, Told
  <2>7. events' \subseteq Event BY <2>1, <2>3, <2>6 DEF TypeOK, Event
  <2>8. missed' \subseteq User BY <1>13, <2>1 DEF VoiceEvent, TypeOK
  <2>9. voiceLock' \in {"free", "other"} BY <1>13 DEF VoiceEvent
  <2> QED BY <1>13, <2>3, <2>4, <2>5, <2>7, <2>8, <2>9 DEF VoiceEvent, TypeOK, batch
<1>14. ASSUME NEW e \in events, LoseEvent(e) PROVE TypeOK'
  BY <1>14 DEF LoseEvent, TypeOK, record, batch, Event
<1>15. ASSUME Pause PROVE TypeOK'
  BY <1>15 DEF Pause, TypeOK, discord, batch
<1>16. ASSUME UNCHANGED vars PROVE TypeOK'
  BY <1>16 DEF vars, TypeOK, record, discord, batch
<1> QED
  BY <1>1, <1>2, <1>3, <1>4, <1>5, <1>6, <1>7, <1>8, <1>9, <1>10, <1>11, <1>12, <1>13,
     <1>14, <1>15, <1>16 DEF Next

\* The record holds types from the start, and so at all times.
THEOREM TypeCorrect == Spec => []TypeOK
<1>1. Init => TypeOK
  BY OffType DEF Init, TypeOK, Phase
<1> QED BY <1>1, TypeStep, PTL DEF Spec

-----------------------------------------------------------------------------
(* The batch and Discord *)

LEMMA RestingStep == TypeOK /\ Resting /\ [Next]_vars => Resting'
<1> SUFFICES ASSUME TypeOK, Resting, [Next]_vars PROVE Resting' OBVIOUS
<1> USE DEF Resting
<1>1. ASSUME NEW p \in Phase, Transition(p) PROVE Resting'
  BY <1>1 DEF Transition
<1>2. ASSUME NEW u \in User, NEW isDead \in BOOLEAN, NEW exiled \in BOOLEAN,
             NEW joined \in BOOLEAN, PlayerJob(u, isDead, exiled, joined)
      PROVE Resting'
  BY <1>2 DEF PlayerJob
<1>3. ASSUME NEW u \in User, LeftJob(u) \/ Ask(u) \/ Override(u) PROVE Resting'
  BY <1>3 DEF LeftJob, Ask, Override, batch
<1>4. ASSUME ConnectionJob \/ Decide \/ LockVoice \/ Wait \/ Finish \/ Lapse PROVE Resting'
  BY <1>4 DEF ConnectionJob, Decide, LockVoice, Wait, Finish, Lapse, batch
<1>5. ASSUME NEW u \in User, NEW p \in {"tracked", "other", "out"}, Move(u, p) PROVE Resting'
  BY <1>5 DEF Move, batch
<1>6. ASSUME NEW e \in events, VoiceEvent(e) \/ LoseEvent(e) PROVE Resting'
  BY <1>6 DEF VoiceEvent, LoseEvent, batch
<1>7. ASSUME Pause PROVE Resting'
  BY <1>7 DEF Pause, batch
<1>8. ASSUME UNCHANGED vars PROVE Resting'
  BY <1>8 DEF vars, batch
<1> QED BY <1>1, <1>2, <1>3, <1>4, <1>5, <1>6, <1>7, <1>8 DEF Next

LEMMA ReadRunningStep == ReadRunning /\ [Next]_vars => ReadRunning'
<1> SUFFICES ASSUME ReadRunning, [Next]_vars PROVE ReadRunning' OBVIOUS
<1> USE DEF ReadRunning
<1>1. ASSUME NEW p \in Phase, Transition(p) PROVE ReadRunning'
  BY <1>1 DEF Transition
<1>2. ASSUME NEW u \in User, NEW isDead \in BOOLEAN, NEW exiled \in BOOLEAN,
             NEW joined \in BOOLEAN, PlayerJob(u, isDead, exiled, joined)
      PROVE ReadRunning'
  BY <1>2 DEF PlayerJob
<1>3. ASSUME NEW u \in User, LeftJob(u) \/ Ask(u) \/ Override(u) PROVE ReadRunning'
  BY <1>3 DEF LeftJob, Ask, Override, batch
<1>4. ASSUME ConnectionJob \/ Decide \/ LockVoice \/ Wait \/ Finish \/ Lapse PROVE ReadRunning'
  BY <1>4 DEF ConnectionJob, Decide, LockVoice, Wait, Finish, Lapse, batch
<1>5. ASSUME NEW u \in User, NEW p \in {"tracked", "other", "out"}, Move(u, p)
      PROVE ReadRunning'
  BY <1>5 DEF Move, batch
<1>6. ASSUME NEW e \in events, VoiceEvent(e) \/ LoseEvent(e) PROVE ReadRunning'
  BY <1>6 DEF VoiceEvent, LoseEvent, batch
<1>7. ASSUME Pause PROVE ReadRunning'
  BY <1>7 DEF Pause, batch
<1>8. ASSUME UNCHANGED vars PROVE ReadRunning'
  BY <1>8 DEF vars, batch
<1> QED BY <1>1, <1>2, <1>3, <1>4, <1>5, <1>6, <1>7, <1>8 DEF Next

\* An answer of Discord is about one user.
LEMMA OthersUntold ==
  ASSUME TypeOK, NEW u \in User, NEW v, Applied(u, v) \/ Refused(u)
  PROVE  /\ \A x \in User \ {u} : actual'[x] = actual[x]
         /\ actual'[u] \in {actual[u], v}
         /\ events \subseteq events'
BY DEF TypeOK, Applied, Refused, Told

\* What VoiceEvent does to the user of the event, and that it spares the others.
LEMMA EventEffect ==
  ASSUME TypeOK, NEW e \in events, VoiceEvent(e)
  PROVE  /\ e.user \in User
         /\ \A x \in User \ {e.user} : /\ actual'[x] = actual[x]
                                       /\ should'[x] = should[x]
                                       /\ x \in missed' <=> x \in missed
         /\ events \ {e} \subseteq events'
         /\ \/ e.user \in missed'
            \/ /\ e.user \notin first \cup rest
               /\ e.user \in players
               /\ running
               /\ should'[e.user] = VoiceRule(e.user \in alive, TRUE, phase)
               /\ actual'[e.user] = should'[e.user]
            \/ /\ actual'[e.user] = actual[e.user]
               /\ should'[e.user] = should[e.user]
               /\ e.user \in missed' <=> e.user \in missed
               /\ e.user \in players =>
                    VoiceRule(e.user \in alive, TRUE, phase) \in {should[e.user], e.state}
<1>1. e.user \in User BY DEF TypeOK, Event
<1>2. PICK r : r = VoiceRule(e.user \in alive, e.user \in players, phase) OBVIOUS
<1>3. PICK wrong : wrong = (e.user \in players /\ r # should[e.user] /\ r # e.state) OBVIOUS
<1>4. e.user \in players => r = VoiceRule(e.user \in alive, TRUE, phase)
  <2>1. ASSUME e.user \in players PROVE (e.user \in players) = TRUE BY <2>1
  <2> QED BY <1>2, <2>1
<1>5. should' = IF wrong THEN [should EXCEPT ![e.user] = r] ELSE should
  BY <1>2, <1>3 DEF VoiceEvent
<1>6. \/ /\ wrong /\ running
         /\ actual' = [actual EXCEPT ![e.user] = r]
         /\ events' = (events \ {e}) \cup Told(e.user, r, place[e.user])
         /\ missed' = IF e.user \in first \cup rest
                      THEN missed \cup {e.user} ELSE missed \ {e.user}
      \/ /\ wrong
         /\ events' = events \ {e}
         /\ missed' = missed \cup {e.user}
         /\ UNCHANGED actual
      \/ /\ ~wrong
         /\ events' = events \ {e}
         /\ UNCHANGED <<actual, missed>>
  BY <1>2, <1>3 DEF VoiceEvent
<1> QED BY <1>1, <1>3, <1>4, <1>5, <1>6 DEF TypeOK

\* What one request of the batch does: who is not missed afterwards was asked
\* for what the record says.
LEMMA AskEffect ==
  ASSUME TypeOK, Wanted, NEW u \in User, Ask(u)
  PROVE  /\ \A x \in User \ {u} : /\ actual'[x] = actual[x]
                                  /\ want'[x] = want[x]
                                  /\ x \in missed' <=> x \in missed
         /\ events \subseteq events'
         /\ first' = first \ {u} /\ rest' = rest \ {u}
         /\ u \notin missed' => actual'[u] = should[u]
         /\ u \in missed /\ u \notin missed' => should[u] = Rule(u)
<1>1. Applied(u, want[u]) \/ Refused(u) BY DEF Ask
<1>2. \A x \in User \ {u} : actual'[x] = actual[x]
  BY <1>1, OthersUntold
<1>3. events \subseteq events' BY <1>1, OthersUntold
<1>4. ASSUME u \notin missed'
      PROVE  actual'[u] = should[u] /\ (u \in missed => should[u] = Rule(u))
  <2>1. Applied(u, want[u])
        /\ missed' = IF want[u] = should[u] /\ want[u] = Rule(u) THEN missed \ {u} ELSE missed
    BY <1>4 DEF Ask
  <2>2. actual'[u] = want[u] BY <2>1 DEF Applied, TypeOK
  <2>3. u \in missed => want[u] = should[u] /\ want[u] = Rule(u) BY <1>4, <2>1
  <2>4. u \notin missed => want[u] = should[u] BY DEF Ask, Wanted
  <2> QED BY <2>2, <2>3, <2>4
<1>5. \A x \in User \ {u} : want'[x] = want[x] /\ (x \in missed' <=> x \in missed)
  BY DEF Ask, TypeOK
<1> QED BY <1>2, <1>3, <1>4, <1>5 DEF Ask

LEMMA WantedStep == TypeOK /\ Resting /\ Wanted /\ [Next]_vars => Wanted'
<1> SUFFICES ASSUME TypeOK, Resting, Wanted, [Next]_vars,
                    NEW x \in (first' \cup rest') \ missed'
             PROVE  want'[x] = should'[x]
  BY DEF Wanted
<1> USE DEF Wanted, Resting
<1>1. ASSUME NEW p \in Phase, Transition(p) PROVE want'[x] = should'[x]
  BY <1>1 DEF Transition
<1>2. ASSUME NEW u \in User, NEW isDead \in BOOLEAN, NEW exiled \in BOOLEAN,
             NEW joined \in BOOLEAN, PlayerJob(u, isDead, exiled, joined)
      PROVE want'[x] = should'[x]
  BY <1>2 DEF PlayerJob
<1>3. ASSUME NEW u \in User, LeftJob(u) PROVE want'[x] = should'[x]
  BY <1>3 DEF LeftJob
<1>4. ASSUME NEW u \in User, Ask(u) PROVE want'[x] = should'[x]
  <2>1. x # u /\ x \in User /\ x \in first \cup rest /\ x \notin missed
    BY <1>4, AskEffect DEF TypeOK
  <2>2. want'[x] = want[x] /\ should' = should BY <1>4, <2>1, AskEffect DEF Ask, record
  <2> QED BY <2>1, <2>2
<1>5. ASSUME NEW u \in User, Override(u) PROVE want'[x] = should'[x]
  BY <1>5 DEF Override, record, batch
<1>6. ASSUME Decide PROVE want'[x] = should'[x]
  <2>1. PICK W : W = {u \in players : place[u] # "out" /\ Rule(u) # should[u]} OBVIOUS
  <2>2. x \in W BY <1>6, <2>1 DEF Decide
  <2>3. x \in User BY <2>1, <2>2 DEF TypeOK
  <2>4. want' = [u \in User |-> IF u \in W THEN Rule(u) ELSE Off] BY <1>6, <2>1 DEF Decide
  <2>5. should' = [u \in User |-> IF u \in W THEN Rule(u) ELSE should[u]]
    BY <1>6, <2>1 DEF Decide
  <2> QED BY <2>2, <2>3, <2>4, <2>5
<1>7. ASSUME ConnectionJob \/ LockVoice \/ Finish \/ Lapse PROVE want'[x] = should'[x]
  BY <1>7 DEF ConnectionJob, LockVoice, Finish, Lapse, record, batch
<1>8. ASSUME Wait PROVE want'[x] = should'[x]
  BY <1>8 DEF Wait, record, batch
<1>9. ASSUME NEW u \in User, NEW p \in {"tracked", "other", "out"}, Move(u, p)
      PROVE want'[x] = should'[x]
  BY <1>9 DEF Move, record, batch
<1>10. ASSUME NEW e \in events, VoiceEvent(e) PROVE want'[x] = should'[x]
  <2>1. x \in User /\ x \in first \cup rest /\ want' = want
    BY <1>10 DEF VoiceEvent, batch, TypeOK
  <2>2. should'[x] = should[x] /\ x \notin missed BY <1>10, <2>1, EventEffect
  <2> QED BY <2>1, <2>2
<1>11. ASSUME NEW e \in events, LoseEvent(e) PROVE want'[x] = should'[x]
  BY <1>11 DEF LoseEvent, record, batch
<1>12. ASSUME Pause PROVE want'[x] = should'[x]
  BY <1>12 DEF Pause, batch
<1>13. ASSUME UNCHANGED vars PROVE want'[x] = should'[x]
  BY <1>13 DEF vars, record, batch
<1> QED BY <1>1, <1>2, <1>3, <1>4, <1>5, <1>6, <1>7, <1>8, <1>9, <1>10, <1>11, <1>12,
           <1>13 DEF Next

LEMMA InStepStep == TypeOK /\ Resting /\ Wanted /\ InStep /\ [Next]_vars => InStep'
<1> SUFFICES ASSUME TypeOK, Resting, Wanted, InStep, [Next]_vars,
                    NEW x \in User, x \notin missed' \cup first' \cup rest'
             PROVE  actual'[x] = should'[x]
  BY DEF InStep
<1> USE DEF InStep, Resting
<1>1. ASSUME NEW p \in Phase, Transition(p) PROVE actual'[x] = should'[x]
  BY <1>1 DEF Transition, discord
<1>2. ASSUME NEW u \in User, NEW isDead \in BOOLEAN, NEW exiled \in BOOLEAN,
             NEW joined \in BOOLEAN, PlayerJob(u, isDead, exiled, joined)
      PROVE actual'[x] = should'[x]
  BY <1>2 DEF PlayerJob, discord
<1>3. ASSUME NEW u \in User, LeftJob(u) \/ Override(u) PROVE actual'[x] = should'[x]
  <2>1. Applied(u, Off) \/ Refused(u) BY <1>3 DEF LeftJob, Override
  <2>2. missed' = missed \cup {u} /\ first' = first /\ rest' = rest /\ should' = should
    BY <1>3 DEF LeftJob, Override, record, batch
  <2>3. actual'[x] = actual[x] BY <2>1, <2>2, OthersUntold
  <2> QED BY <2>2, <2>3
<1>4. ASSUME NEW u \in User, Ask(u) PROVE actual'[x] = should'[x]
  <2>1. should' = should BY <1>4 DEF Ask, record
  <2>2. CASE x = u BY <1>4, <2>1, <2>2, AskEffect
  <2>3. CASE x # u
    <3>1. x \notin missed \cup first \cup rest BY <1>4, <2>3, AskEffect
    <3>2. actual'[x] = actual[x] BY <1>4, <2>3, AskEffect
    <3> QED BY <2>1, <3>1, <3>2
  <2> QED BY <2>2, <2>3
<1>5. ASSUME Decide PROVE actual'[x] = should'[x]
  <2>1. PICK W : W = {u \in players : place[u] # "out" /\ Rule(u) # should[u]} OBVIOUS
  <2>2. x \notin W BY <1>5, <2>1 DEF Decide
  <2>3. should'[x] = should[x] BY <1>5, <2>1, <2>2 DEF Decide
  <2>4. x \notin missed \cup first \cup rest /\ actual' = actual
    BY <1>5 DEF Decide, discord
  <2> QED BY <2>3, <2>4
<1>6. ASSUME ConnectionJob \/ LockVoice \/ Finish \/ Lapse PROVE actual'[x] = should'[x]
  BY <1>6 DEF ConnectionJob, LockVoice, Finish, Lapse, record, discord, batch
<1>7. ASSUME Wait PROVE actual'[x] = should'[x]
  BY <1>7 DEF Wait, record, discord, batch
<1>8. ASSUME NEW u \in User, NEW p \in {"tracked", "other", "out"}, Move(u, p)
      PROVE actual'[x] = should'[x]
  BY <1>8 DEF Move, record, batch
<1>9. ASSUME NEW e \in events, VoiceEvent(e) PROVE actual'[x] = should'[x]
  <2>1. first' = first /\ rest' = rest BY <1>9 DEF VoiceEvent, batch
  <2> QED BY <1>9, <2>1, EventEffect
<1>10. ASSUME NEW e \in events, LoseEvent(e) PROVE actual'[x] = should'[x]
  BY <1>10 DEF LoseEvent, record, batch
<1>11. ASSUME Pause PROVE actual'[x] = should'[x]
  BY <1>11 DEF Pause, batch, discord
<1>12. ASSUME UNCHANGED vars PROVE actual'[x] = should'[x]
  BY <1>12 DEF vars, record, batch, discord
<1> QED BY <1>1, <1>2, <1>3, <1>4, <1>5, <1>6, <1>7, <1>8, <1>9, <1>10, <1>11, <1>12 DEF Next

LEMMA OrderedStep == TypeOK /\ Resting /\ Ordered /\ [Next]_vars => Ordered'
<1> SUFFICES ASSUME TypeOK, Resting, Ordered, [Next]_vars, priority' # "none"
             PROVE  /\ worker' # "idle"
                    /\ phase' = IF priority' = "alive" THEN "TASKS" ELSE "DISCUSS"
                    /\ \A u \in first' : Urgent(u)'
                    /\ \A u \in rest' : ~Urgent(u)'
  BY DEF Ordered
<1> USE DEF Ordered, Resting, Urgent
<1>1. ASSUME NEW p \in Phase, Transition(p) PROVE Ordered'
  BY <1>1 DEF Transition, Priority
<1>2. ASSUME NEW u \in User, NEW isDead \in BOOLEAN, NEW exiled \in BOOLEAN,
             NEW joined \in BOOLEAN, PlayerJob(u, isDead, exiled, joined)
      PROVE Ordered'
  BY <1>2 DEF PlayerJob
<1>3. ASSUME NEW u \in User, LeftJob(u) PROVE Ordered'
  BY <1>3 DEF LeftJob
<1>4. ASSUME NEW u \in User, Ask(u) \/ Override(u) PROVE Ordered'
  BY <1>4 DEF Ask, Override, record, batch
<1>5. ASSUME ConnectionJob \/ LockVoice \/ Wait \/ Finish \/ Lapse PROVE Ordered'
  BY <1>5 DEF ConnectionJob, LockVoice, Wait, Finish, Lapse, record, batch
<1>6. ASSUME Decide PROVE Ordered'
  BY <1>6 DEF Decide
<1>7. ASSUME NEW u \in User, NEW p \in {"tracked", "other", "out"}, Move(u, p) PROVE Ordered'
  BY <1>7 DEF Move, record, batch
<1>8. ASSUME NEW e \in events, VoiceEvent(e) \/ LoseEvent(e) PROVE Ordered'
  BY <1>8 DEF VoiceEvent, LoseEvent, record, batch
<1>9. ASSUME Pause PROVE Ordered'
  BY <1>9 DEF Pause, batch
<1>10. ASSUME UNCHANGED vars PROVE Ordered'
  BY <1>10 DEF vars, record, batch
<1>11. Ordered' BY <1>1, <1>2, <1>3, <1>4, <1>5, <1>6, <1>7, <1>8, <1>9, <1>10 DEF Next
<1> QED BY <1>11

-----------------------------------------------------------------------------
(* The rules *)

\* Who is alive when processPlayer leaves the worker at rest: only during the
\* tasks has somebody changed whom it does not count as missed.
LEMMA UnhandledPlayer ==
  ASSUME TypeOK, NEW u \in User, NEW isDead \in BOOLEAN, NEW exiled \in BOOLEAN,
         NEW joined \in BOOLEAN, PlayerJob(u, isDead, exiled, joined),
         worker' # "decide", u \notin missed'
  PROVE  /\ u \in players
         /\ \/ u \in alive' <=> u \in alive
            \/ phase = "TASKS" /\ (u \in alive' <=> u \notin alive)
<1>1. PICK dead : dead = Dead(phase, isDead, exiled) OBVIOUS
<1>2. PICK updated : updated = (u \notin players \/ (u \in alive) = dead) OBVIOUS
<1>3. dead \in BOOLEAN BY <1>1 DEF Dead
<1>4. alive' = IF dead THEN alive \ {u} ELSE alive \cup {u} BY <1>1 DEF PlayerJob
<1>5. /\ ~joined
      /\ ~(updated /\ u \notin players /\ ~exiled)
      /\ ~(updated /\ u \in players /\ phase # "TASKS" /\ ~exiled)
      /\ missed' = IF exiled THEN missed \cup {u} ELSE missed
  BY <1>1, <1>2 DEF PlayerJob
<1>6. ~exiled BY <1>5
<1>7. u \in players BY <1>2, <1>5, <1>6
<1>8. CASE updated
  <2>1. phase = "TASKS" BY <1>5, <1>6, <1>7, <1>8
  <2>2. (u \in alive) = dead BY <1>2, <1>7, <1>8
  <2> QED BY <1>3, <1>4, <1>7, <2>1, <2>2
<1>9. CASE ~updated
  <2>1. (u \in alive) # dead BY <1>2, <1>9
  <2> QED BY <1>3, <1>4, <1>7, <2>1
<1> QED BY <1>8, <1>9

LEMMA TrackedRule ==
  ASSUME NEW u \in User, Tracked(u)
  PROVE  Rule(u) = VoiceRule(u \in alive, TRUE, phase)
<1>1. Tracked(u) = TRUE BY DEF Tracked
<1> QED BY <1>1 DEF Rule

LEMMA TrackedRulePrime ==
  ASSUME NEW u \in User, Tracked(u)'
  PROVE  Rule(u)' = VoiceRule(u \in alive', TRUE, phase')
<1>1. Tracked(u)' = TRUE BY DEF Tracked
<1> QED BY <1>1 DEF Rule

\* A user stays under the rules when nothing but the events and the worker
\* changes, no event is lost and the worker does not leave its rest.
LEMMA ByRuleKept ==
  ASSUME NEW x \in User, ByRule(x), Tracked(x), Tracked(x)',
         worker = "idle" => worker' = "idle",
         phase' = phase, x \in alive' <=> x \in alive, should'[x] = should[x],
         \A e \in events : e.user = x => e \in events'
  PROVE  ByRule(x)'
<1>1. Rule(x)' = Rule(x)
  <2>0. (x \in alive') = (x \in alive) OBVIOUS
  <2>1. VoiceRule(x \in alive', TRUE, phase) = VoiceRule(x \in alive, TRUE, phase)
    BY <2>0
  <2> QED BY <2>1, TrackedRule, TrackedRulePrime
<1>2. CASE should[x] = Rule(x) BY <1>1, <1>2 DEF ByRule
<1>3. CASE Hidden(x)
  <2>0. (x \notin alive') = (x \notin alive) OBVIOUS
  <2>1. VoiceRule(x \notin alive', TRUE, phase) = VoiceRule(x \notin alive, TRUE, phase)
    BY <2>0
  <2> QED BY <1>3, <2>1 DEF ByRule, Hidden
<1>4. CASE Pending(x) BY <1>4 DEF ByRule, Pending
<1> QED BY <1>2, <1>3, <1>4 DEF ByRule

LEMMA RuleKeptStep ==
  TypeOK /\ Resting /\ Wanted /\ InStep /\ RuleKept /\ [Next]_vars => RuleKept'
<1> SUFFICES ASSUME TypeOK, Resting, Wanted, InStep, RuleKept, [Next]_vars,
                    worker' # "decide", NEW x \in User, x \notin missed', Tracked(x)'
             PROVE  ByRule(x)'
  BY DEF RuleKept
<1>0. worker # "decide" /\ x \notin missed /\ Tracked(x) => ByRule(x) BY DEF RuleKept
<1>1. ASSUME NEW p \in Phase, Transition(p) PROVE ByRule(x)'
  BY <1>1 DEF Transition, Tracked, discord
<1>2. ASSUME NEW u \in User, NEW isDead \in BOOLEAN, NEW exiled \in BOOLEAN,
             NEW joined \in BOOLEAN, PlayerJob(u, isDead, exiled, joined)
      PROVE ByRule(x)'
  <2>1. /\ worker = "idle" /\ worker' = "idle" /\ x \notin missed
        /\ phase' = phase /\ should' = should /\ events' = events /\ place' = place
    BY <1>2 DEF PlayerJob, discord
  <2>2. CASE x # u
    <3>1. Tracked(x) BY <1>2, <2>1, <2>2 DEF PlayerJob, Tracked
    <3>2. x \in alive' <=> x \in alive BY <1>2, <2>2 DEF PlayerJob
    <3> QED BY <1>0, <2>1, <3>1, <3>2, ByRuleKept
  <2>3. CASE x = u
    <3>1. /\ u \in players
          /\ \/ u \in alive' <=> u \in alive
             \/ phase = "TASKS" /\ (u \in alive' <=> u \notin alive)
      BY <1>2, <2>3, UnhandledPlayer
    <3>2. Tracked(x) BY <2>1, <2>3, <3>1 DEF Tracked
    <3>3. ByRule(x) BY <1>0, <2>1, <3>2
    <3>4. CASE u \in alive' <=> u \in alive
      BY <2>1, <2>3, <3>2, <3>3, <3>4, ByRuleKept
    <3>5. CASE phase = "TASKS" /\ (u \in alive' <=> u \notin alive)
      <4>1. VoiceRule(x \notin alive', TRUE, phase) = VoiceRule(x \in alive, TRUE, phase)
        <5>1. (x \notin alive') = (x \in alive) BY <2>3, <3>5
        <5> QED BY <5>1
      <4>2. VoiceRule(x \in alive', TRUE, phase) = VoiceRule(x \notin alive, TRUE, phase)
        <5>1. (x \in alive') = (x \notin alive) BY <2>3, <3>5
        <5> QED BY <5>1
      <4>3. CASE should[x] = Rule(x)
        <5>1. should'[x] = VoiceRule(x \notin alive', TRUE, phase')
          BY <2>1, <3>2, <4>1, <4>3, TrackedRule
        <5> QED BY <2>1, <3>5, <5>1 DEF ByRule, Hidden
      <4>4. CASE Hidden(x)
        <5>1. should'[x] = VoiceRule(x \in alive', TRUE, phase')
          BY <2>1, <4>2, <4>4 DEF Hidden
        <5> QED BY <5>1, TrackedRulePrime DEF ByRule
      <4>5. CASE Pending(x) BY <2>1, <4>5 DEF ByRule, Pending
      <4> QED BY <3>3, <4>3, <4>4, <4>5 DEF ByRule
    <3> QED BY <3>1, <3>4, <3>5
  <2> QED BY <2>2, <2>3
<1>3. ASSUME NEW u \in User, LeftJob(u) PROVE ByRule(x)'
  BY <1>3 DEF LeftJob
<1>4. ASSUME NEW u \in User, Ask(u) PROVE ByRule(x)'
  <2>1. worker = "apply" /\ worker' = worker /\ place' = place
        /\ phase' = phase /\ players' = players /\ alive' = alive /\ should' = should
    BY <1>4 DEF Ask, record
  <2>2. Tracked(x) BY <2>1 DEF Tracked
  <2>3. ByRule(x)
    <3>1. CASE x \notin missed BY <1>0, <2>1, <2>2, <3>1
    <3>2. CASE x \in missed
      <4>1. x = u BY <1>4, <3>2, AskEffect
      <4> QED BY <1>4, <3>2, <4>1, AskEffect DEF ByRule
    <3> QED BY <3>1, <3>2
  <2>4. events \subseteq events' BY <1>4, AskEffect
  <2> QED BY <2>1, <2>2, <2>3, <2>4, ByRuleKept
<1>5. ASSUME NEW u \in User, Override(u) PROVE ByRule(x)'
  <2>1. worker' = worker /\ place' = place /\ phase' = phase /\ players' = players
        /\ alive' = alive /\ should' = should /\ x \notin missed
    BY <1>5 DEF Override, record
  <2>2. events \subseteq events' BY <1>5, OthersUntold DEF Override
  <2> QED BY <1>0, <2>1, <2>2, ByRuleKept DEF Tracked
<1>6. ASSUME Decide PROVE ByRule(x)'
  <2>1. PICK W : W = {u \in players : place[u] # "out" /\ Rule(u) # should[u]} OBVIOUS
  <2>2. Tracked(x) /\ Rule(x)' = Rule(x)
    BY <1>6 DEF Decide, Tracked, Rule, discord
  <2>3. x \in W <=> Rule(x) # should[x] BY <2>1, <2>2 DEF Tracked
  <2>4. should' = [u \in User |-> IF u \in W THEN Rule(u) ELSE should[u]]
    BY <1>6, <2>1 DEF Decide
  <2>5. should'[x] = Rule(x)' BY <2>2, <2>3, <2>4
  <2> QED BY <2>5 DEF ByRule
<1>7. ASSUME ConnectionJob PROVE ByRule(x)'
  BY <1>7 DEF ConnectionJob
<1>8. ASSUME LockVoice \/ Wait \/ Finish \/ Lapse \/ UNCHANGED vars PROVE ByRule(x)'
  <2>1. /\ worker # "decide" /\ (worker = "idle" => worker' = "idle")
        /\ place' = place /\ phase' = phase /\ players' = players
        /\ alive' = alive /\ should' = should /\ events' = events /\ x \notin missed
    BY <1>8 DEF LockVoice, Wait, Finish, Lapse, record, discord, vars
  <2> QED BY <1>0, <2>1, ByRuleKept DEF Tracked
<1>9. ASSUME NEW u \in User, NEW p \in {"tracked", "other", "out"}, Move(u, p)
      PROVE ByRule(x)'
  <2>1. /\ worker' = worker /\ phase' = phase /\ players' = players /\ alive' = alive
        /\ should' = should /\ events \subseteq events' /\ x \notin missed
    BY <1>9 DEF Move, record
  <2>2. CASE x # u
    <3>1. place'[x] = place[x] BY <1>9, <2>2 DEF Move, TypeOK
    <3> QED BY <1>0, <2>1, <3>1, ByRuleKept DEF Tracked
  <2>3. CASE x = u
    <3>1. p = "tracked" BY <1>9, <2>3 DEF Move, TypeOK, Tracked
    <3>2. [user |-> x, state |-> actual[x]] \in events' BY <1>9, <2>3, <3>1 DEF Move, Told
    <3>3. x \notin first \cup rest BY <1>9, <2>3 DEF Move
    <3>4. actual[x] = should'[x] BY <2>1, <3>3 DEF InStep
    <3> QED BY <3>2, <3>4 DEF ByRule, Pending
  <2> QED BY <2>2, <2>3
<1>10. ASSUME NEW e \in events, VoiceEvent(e) PROVE ByRule(x)'
  <2>1. worker' = worker /\ phase' = phase /\ players' = players /\ alive' = alive
        /\ place' = place
    BY <1>10 DEF VoiceEvent
  <2>2. Tracked(x) /\ Rule(x) = VoiceRule(x \in alive, TRUE, phase) /\ Rule(x)' = Rule(x)
    BY <2>1, TrackedRule DEF Tracked, Rule
  <2>3. CASE x # e.user
    <3>1. x \notin missed /\ should'[x] = should[x] BY <1>10, <2>3, EventEffect
    <3>2. \A f \in events : f.user = x => f \in events' BY <1>10, <2>3, EventEffect
    <3> QED BY <1>0, <2>1, <2>2, <3>1, <3>2, ByRuleKept
  <2>4. CASE x = e.user
    <3>1. CASE should'[x] = VoiceRule(x \in alive, TRUE, phase)
      BY <2>2, <3>1 DEF ByRule
    <3>2. CASE should'[x] # VoiceRule(x \in alive, TRUE, phase)
      <4>1. /\ should'[x] = should[x] /\ x \notin missed
            /\ VoiceRule(x \in alive, TRUE, phase) \in {should[x], e.state}
        BY <1>10, <2>2, <2>4, <3>2, EventEffect DEF Tracked
      <4>2. e.state # should[x] BY <3>2, <4>1
      <4>3. ByRule(x) BY <1>0, <2>1, <2>2, <4>1
      <4>4. CASE should[x] = Rule(x) BY <2>2, <4>1, <4>4 DEF ByRule
      <4>5. CASE Hidden(x) BY <2>1, <4>1, <4>5 DEF ByRule, Hidden
      <4>6. CASE Pending(x)
        <5>1. PICK f \in events : f.user = x /\ f.state = should[x] BY <4>6 DEF Pending
        <5>2. f \in events' BY <1>10, <4>2, <5>1, EventEffect
        <5> QED BY <4>1, <5>1, <5>2 DEF ByRule, Pending
      <4> QED BY <4>3, <4>4, <4>5, <4>6 DEF ByRule
    <3> QED BY <3>1, <3>2
  <2> QED BY <2>3, <2>4
<1>11. ASSUME NEW e \in events, LoseEvent(e) PROVE ByRule(x)'
  <2>1. /\ worker' = worker /\ phase' = phase /\ players' = players /\ alive' = alive
        /\ should' = should /\ place' = place /\ x \notin missed /\ x # e.user
        /\ events' = events \ {e}
    BY <1>11 DEF LoseEvent, record
  <2> QED BY <1>0, <2>1, ByRuleKept DEF Tracked
<1>12. ASSUME Pause PROVE ByRule(x)'
  <2>1. /\ worker' = worker /\ phase' = phase /\ players' = players /\ alive' = alive
        /\ should' = should /\ place' = place /\ x \notin missed /\ events' = events
    BY <1>12 DEF Pause, discord
  <2> QED BY <1>0, <2>1, ByRuleKept DEF Tracked
<1> QED BY <1>1, <1>2, <1>3, <1>4, <1>5, <1>6, <1>7, <1>8, <1>9, <1>10, <1>11, <1>12 DEF Next

-----------------------------------------------------------------------------
(* The invariant and what follows from it *)

LEMMA InvInit == Init => Inv
<1> SUFFICES ASSUME Init PROVE Inv OBVIOUS
<1>1. TypeOK BY OffType DEF Init, TypeOK, Phase
<1>2. Resting /\ Wanted /\ InStep /\ ReadRunning /\ RuleKept /\ Ordered
  BY DEF Init, Resting, Wanted, InStep, ReadRunning, RuleKept, Ordered, Tracked
<1> QED BY <1>1, <1>2 DEF Inv

LEMMA InvStep == Inv /\ [Next]_vars => Inv'
<1> SUFFICES ASSUME Inv, [Next]_vars PROVE Inv' OBVIOUS
<1>1. TypeOK' BY TypeStep DEF Inv
<1>2. Resting' BY RestingStep DEF Inv
<1>3. Wanted' BY WantedStep DEF Inv
<1>4. InStep' BY InStepStep DEF Inv
<1>5. ReadRunning' BY ReadRunningStep DEF Inv
<1>6. RuleKept' BY RuleKeptStep DEF Inv
<1>7. Ordered' BY OrderedStep DEF Inv
<1> QED BY <1>1, <1>2, <1>3, <1>4, <1>5, <1>6, <1>7 DEF Inv

LEMMA Invariant == Spec => []Inv
BY InvInit, InvStep, PTL DEF Spec

\* With nothing left to ask for, Discord says of every user what the record
\* says, unless missed names the user: nobody's wish was dropped between the
\* comparison in handleTrackedMembers and the requests (voice.go:138-163).
THEOREM Drift == Spec => []NoDrift
<1>1. Inv => NoDrift BY DEF Inv, NoDrift, InStep
<1> QED BY <1>1, Invariant, PTL

\* A resting worker leaves every tracked player as the rules of the phase say,
\* in every order of jobs, delays and voice events (voice.go:138-163).
THEOREM Rules == Spec => []RulesApplied
<1>1. Inv => RulesApplied
  <2> SUFFICES ASSUME Inv, worker = "idle", NEW u \in User \ missed,
                      Tracked(u), u \notin Arriving
               PROVE  \/ actual[u] = Rule(u)
                      \/ phase = "TASKS" /\ actual[u] = VoiceRule(u \notin alive, TRUE, phase)
    BY DEF RulesApplied
  <2>1. actual[u] = should[u] BY DEF Inv, Resting, InStep
  <2>2. ByRule(u) BY DEF Inv, RuleKept
  <2>3. ~Pending(u) BY DEF Pending, Arriving
  <2> QED BY <2>1, <2>2, <2>3 DEF ByRule, Hidden
<1> QED BY <1>1, Invariant, PTL

\* In a paused game nobody becomes muted but through a batch that was read
\* before: every other step either sees that the game is paused or unmutes
\* (slash_commands.go:439-445, voice.go:178).
THEOREM PausedMutes == Spec => OnlyOldBatchMutes
<1>1. Inv /\ [Next]_vars =>
        [~running /\ ~(ranWhenRead /\ worker = "apply") =>
           \A u \in User : actual'[u].mute => actual[u].mute]_vars
  <2> SUFFICES ASSUME Inv, Next, ~running, ~(ranWhenRead /\ worker = "apply"),
                      NEW x \in User
               PROVE  actual'[x].mute => actual[x].mute
    OBVIOUS
  <2>0. TypeOK /\ worker # "apply" BY DEF Inv, ReadRunning
  <2>1. ASSUME NEW u \in User, LeftJob(u) \/ Override(u) PROVE actual'[x].mute => actual[x].mute
    <3>1. Applied(u, Off) \/ Refused(u) BY <2>1 DEF LeftJob, Override
    <3>2. actual'[x] \in {actual[x], Off} BY <2>0, <3>1, OthersUntold
    <3>3. Off.mute = FALSE BY DEF Off
    <3> QED BY <3>2, <3>3
  <2>2. ASSUME NEW e \in events, VoiceEvent(e) PROVE actual'[x].mute => actual[x].mute
    BY <2>2 DEF VoiceEvent
  <2>3. ASSUME ~(\E u \in User : LeftJob(u) \/ Override(u)), ~(\E e \in events : VoiceEvent(e))
        PROVE  actual' = actual
    <3>1. ASSUME NEW p \in Phase, Transition(p) PROVE actual' = actual
      BY <3>1 DEF Transition, discord
    <3>2. ASSUME NEW u \in User, NEW isDead \in BOOLEAN, NEW exiled \in BOOLEAN,
                 NEW joined \in BOOLEAN, PlayerJob(u, isDead, exiled, joined)
          PROVE actual' = actual
      BY <3>2 DEF PlayerJob, discord
    <3>3. \A u \in User : ~Ask(u) BY <2>0 DEF Ask
    <3>4. ASSUME ConnectionJob \/ Decide \/ LockVoice \/ Wait \/ Finish \/ Lapse \/ Pause
          PROVE actual' = actual
      BY <3>4 DEF ConnectionJob, Decide, LockVoice, Wait, Finish, Lapse, Pause, discord
    <3>5. ASSUME NEW u \in User, NEW p \in {"tracked", "other", "out"}, Move(u, p)
          PROVE actual' = actual
      BY <3>5 DEF Move
    <3>6. ASSUME NEW e \in events, LoseEvent(e) PROVE actual' = actual
      BY <3>6 DEF LoseEvent
    <3> QED BY <2>3, <3>1, <3>2, <3>3, <3>4, <3>5, <3>6 DEF Next
  <2> QED BY <2>1, <2>2, <2>3
<1> QED BY <1>1, Invariant, PTL DEF Spec, OnlyOldBatchMutes

-----------------------------------------------------------------------------
(* The order of a batch *)

\* What the worker records for a tracked user while it applies a batch is the
\* rule of the phase, when nothing about the user is still to come.
LEMMA RecordedRule ==
  ASSUME Inv, worker = "apply", NEW u \in User \ missed, Tracked(u), u \notin Arriving
  PROVE  should[u] = VoiceRule(u \in alive, TRUE, phase)
<1>1. ByRule(u) BY DEF Inv, RuleKept
<1>2. ~Pending(u) BY DEF Pending, Arriving
<1>3. ~Hidden(u) BY DEF Hidden
<1> QED BY <1>1, <1>2, <1>3, TrackedRule DEF ByRule

\* The user whom a batch asks for is left as the rules say, and so, during the
\* requests without priority, is everybody who has priority.
LEMMA AskedByRule ==
  ASSUME Inv, NEW x \in User, Ask(x), x \notin missed', Tracked(x), x \notin Arriving
  PROVE  actual'[x] = VoiceRule(x \in alive, TRUE, phase)
<1>1. TypeOK /\ Wanted /\ worker = "apply" BY DEF Inv, Ask
<1>2. actual'[x] = should[x] BY <1>1, AskEffect
<1>3. CASE x \in missed BY <1>1, <1>2, <1>3, AskEffect, TrackedRule
<1>4. CASE x \notin missed BY <1>1, <1>2, <1>4, RecordedRule
<1> QED BY <1>3, <1>4

LEMMA ServedByRule ==
  ASSUME Inv, NEW x \in User, Ask(x), ~Urgent(x), priority # "none",
         NEW y \in User \ {x}, Urgent(y), y \notin missed', Tracked(y), y \notin Arriving
  PROVE  actual'[y] = VoiceRule(y \in alive, TRUE, phase)
<1>1. TypeOK /\ Wanted /\ InStep /\ Ordered /\ worker = "apply" BY DEF Inv, Ask
<1>2. first = {} /\ y \notin rest BY <1>1 DEF Ordered, Ask
<1>3. y \notin missed /\ actual'[y] = actual[y] BY <1>1, AskEffect
<1>4. actual[y] = should[y] BY <1>1, <1>2, <1>3 DEF InStep
<1> QED BY <1>1, <1>3, <1>4, RecordedRule

\* What the rules make of the living and the dead in the phases with priority.
LEMMA RuleOf ==
  ASSUME NEW u \in User
  PROVE  /\ phase = "TASKS" =>
              (VoiceRule(u \in alive, TRUE, phase)).deaf = (u \in alive)
         /\ phase = "DISCUSS" =>
              (VoiceRule(u \in alive, TRUE, phase)).mute = (u \notin alive)
BY DEF VoiceRule

\* At the change to TASKS the living are deafened before a dead player is
\* unmuted, and at the change to DISCUSS the dead are muted before a living
\* player hears: no request in between makes one audible to the other
\* (voice.go:184-211).
THEOREM DeadUnheard == Spec => DeadStayUnheard
<1>1. ASSUME Inv, [Next]_vars, NEW a \in User, NEW d \in User,
             worker = "apply", priority # "none",
             {a, d} \cap (missed' \cup Arriving) = {},
             Tracked(a), Tracked(d), a \in alive, d \notin alive,
             ~actual'[a].deaf, ~actual'[d].mute
      PROVE  ~actual[a].deaf /\ ~actual[d].mute
  <2>0. /\ TypeOK /\ Ordered /\ a # d
        /\ a \notin missed' /\ d \notin missed' /\ a \notin Arriving /\ d \notin Arriving
    BY <1>1 DEF Inv
  <2>1. phase = "TASKS" \/ phase = "DISCUSS" BY <1>1, <2>0 DEF Ordered
  <2>2. CASE \E x \in User : Ask(x)
    <3>1. PICK x \in User : Ask(x) BY <2>2
    <3>2. CASE x \notin {a, d}
      BY <1>1, <2>0, <3>1, <3>2, AskEffect DEF Inv
    <3>3. CASE priority = "alive"
      <4>1. phase = "TASKS" /\ Urgent(a) /\ ~Urgent(d)
        BY <1>1, <2>0, <3>3 DEF Ordered, Urgent
      <4>2. actual'[a] # VoiceRule(a \in alive, TRUE, phase)
        BY <1>1, <4>1, RuleOf
      <4>3. x # a BY <1>1, <2>0, <3>1, <4>2, AskedByRule
      <4>4. x # d BY <1>1, <2>0, <3>1, <4>1, <4>2, ServedByRule
      <4> QED BY <3>2, <4>3, <4>4
    <3>4. CASE priority = "dead"
      <4>1. phase = "DISCUSS" /\ Urgent(d) /\ ~Urgent(a)
        BY <1>1, <2>0, <3>4 DEF Ordered, Urgent
      <4>2. actual'[d] # VoiceRule(d \in alive, TRUE, phase)
        BY <1>1, <4>1, RuleOf
      <4>3. x # d BY <1>1, <2>0, <3>1, <4>2, AskedByRule
      <4>4. x # a BY <1>1, <2>0, <3>1, <4>1, <4>2, ServedByRule
      <4> QED BY <3>2, <4>3, <4>4
    <3> QED BY <1>1, <2>0, <3>3, <3>4 DEF TypeOK
  <2>3. ASSUME NEW u \in User, Override(u)
        PROVE  ~actual[a].deaf /\ ~actual[d].mute
    <3>1. u \notin {a, d} BY <2>0, <2>3 DEF Override
    <3> QED BY <1>1, <2>0, <2>3, <3>1, OthersUntold DEF Override
  <2>4. ASSUME NEW e \in events, VoiceEvent(e)
        PROVE  ~actual[a].deaf /\ ~actual[d].mute
    <3>1. e.user \notin {a, d} BY <2>0 DEF Arriving
    <3> QED BY <1>1, <2>0, <2>4, <3>1, EventEffect
  <2>5. ASSUME ~(\E u \in User : Ask(u) \/ Override(u)), ~(\E e \in events : VoiceEvent(e))
        PROVE  actual' = actual
    <3>1. \A p \in Phase : ~Transition(p) BY <1>1 DEF Transition
    <3>2. \A u \in User, isDead, exiled, joined \in BOOLEAN :
            ~PlayerJob(u, isDead, exiled, joined)
      BY <1>1 DEF PlayerJob
    <3>3. \A u \in User : ~LeftJob(u) BY <1>1 DEF LeftJob
    <3>4. ASSUME ConnectionJob \/ Decide \/ LockVoice \/ Wait \/ Finish \/ Lapse \/ Pause
          PROVE actual' = actual
      BY <3>4 DEF ConnectionJob, Decide, LockVoice, Wait, Finish, Lapse, Pause, discord
    <3>5. ASSUME NEW u \in User, NEW p \in {"tracked", "other", "out"}, Move(u, p)
          PROVE actual' = actual
      BY <3>5 DEF Move
    <3>6. ASSUME NEW e \in events, LoseEvent(e) PROVE actual' = actual
      BY <3>6 DEF LoseEvent
    <3>7. ASSUME UNCHANGED vars PROVE actual' = actual BY <3>7 DEF vars, discord
    <3> QED BY <1>1, <2>5, <3>1, <3>2, <3>3, <3>4, <3>5, <3>6, <3>7 DEF Next
  <2> QED BY <1>1, <2>2, <2>3, <2>4, <2>5
<1>2. Inv /\ [Next]_vars =>
        [\A a, d \in User :
           /\ worker = "apply" /\ priority # "none"
           /\ {a, d} \cap (missed' \cup Arriving) = {}
           /\ Tracked(a) /\ Tracked(d) /\ a \in alive /\ d \notin alive
           /\ ~actual'[a].deaf /\ ~actual'[d].mute
           => ~actual[a].deaf /\ ~actual[d].mute]_vars
  BY <1>1
<1> QED BY <1>2, Invariant, PTL DEF Spec, DeadStayUnheard
=============================================================================
