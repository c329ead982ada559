--------------------------- MODULE StatusMessage ---------------------------
(***************************************************************************)
(* The status message of one game on Discord (bot/gameStateMessage.go): it *)
(* is edited two seconds late, so that edits in between are one, and made  *)
(* anew by a refresh - also when it is over an hour old.  What it says is  *)
(* a number, greater for what is newer.  The record's lock is a lease, as  *)
(* in module GameStateLock, but lapses only where its holder waits for it  *)
(* itself.  Changes that the message is not to show, and parts that fail   *)
(* to be drawn, are left out.                                              *)
(***************************************************************************)
EXTENDS Naturals, FiniteSets

CONSTANTS Editors,      \* handlers of jobs, commands and buttons, each for once
          MaxMessages, MaxRefusals

ASSUME StatusAssumption == MaxMessages \in Nat \ {0} /\ MaxRefusals \in Nat

Messages == 1..MaxMessages
NoMessage == 0
NoEdit == 0

VARIABLES record,    \* [says, msg, connected]: the record, msg is NoMessage without a game
          editor,    \* [pc, copy]: a handler with the record as it has read and changed it
          holder,    \* {h}: who holds the record's lock; else {}
          lastMsg,   \* messages sent so far
          shown,     \* shown[m]: [says, buttons, there], on Discord
          hourOld,   \* messages that are over an hour old
          deferred,  \* DeferredEdits, by message
          editing,   \* deferredEditWorkers: [msg, says, id]; says is NoEdit while they sleep
          workers,   \* deferredEditWorkers started so far
          outdated,  \* an older copy was dispatched last, or an edit took over two seconds
          astray,    \* a copy was saved after its lease
          refusals, refused   \* requests that Discord refused
statusVars == <<record, editor, holder, lastMsg, shown, hourOld, deferred, editing, workers,
                outdated, astray, refusals, refused>>
faultVars == <<outdated, astray, refusals, refused>>
editVars == <<deferred, editing, workers>>

Said(says, buttons) == [says |-> says, buttons |-> buttons, there |-> TRUE]

StatusInit ==
  /\ \E connected \in BOOLEAN :
       /\ record = [says |-> 1, msg |-> 1, connected |-> connected]
       /\ shown = [m \in Messages |-> [Said(1, connected) EXCEPT !.there = m = 1]]
  /\ editor = [h \in Editors |-> [pc |-> "new", copy |-> record]]
  /\ holder = {} /\ lastMsg = 1 /\ hourOld = {}
  /\ deferred = [m \in Messages |-> NoEdit] /\ editing = {} /\ workers = 0
  /\ outdated = FALSE /\ astray = FALSE /\ refusals = 0 /\ refused = FALSE

-----------------------------------------------------------------------------
EditorAt(h, pc) == editor[h].pc = pc
EditorGoes(h, from, to) == EditorAt(h, from) /\ editor' = [editor EXCEPT ![h].pc = to]

\* The record as h has changed it; a change of the connection asks for a refresh.
Changed(toggled) == [record EXCEPT !.says = @ + 1, !.connected = IF toggled THEN ~@ ELSE @]

\* Commands, buttons, transitions, ConnectionJob and LobbyJob save before they dispatch.
ChangeAndSave(h, toggled) ==
  /\ EditorAt(h, "new") /\ holder = {} /\ record.msg # NoMessage
  /\ record' = Changed(toggled)
  /\ editor' = [editor EXCEPT ![h] = [pc |-> IF toggled THEN "refresh" ELSE "dispatch", copy |-> record']]
  /\ UNCHANGED <<holder, lastMsg, shown, hourOld, editVars, faultVars>>

\* processPlayer dispatches while it holds the record, and saves after it.
ChangeAndHold(h) ==
  /\ EditorAt(h, "new") /\ holder = {} /\ holder' = {h} /\ record.msg # NoMessage
  /\ editor' = [editor EXCEPT ![h] = [pc |-> "dispatch", copy |-> Changed(FALSE)]]
  /\ UNCHANGED <<record, lastMsg, shown, hourOld, editVars, faultVars>>

\* /refresh, and AutoRefresh.
AskForRefresh(h) ==
  /\ EditorGoes(h, "new", "refresh")
  /\ UNCHANGED <<record, holder, lastMsg, shown, hourOld, editVars, faultVars>>

\* What follows a dispatch or a refresh: a holder saves.
After(h) == IF editor[h].pc = "dispatch" /\ h \in holder THEN "save" ELSE "done"

\* A newer copy has been saved, or dispatched by a holder that is to save it.
Older(h) ==
  \E says \in {record.says} \cup {editor[g].copy.says : g \in {g \in holder : EditorAt(g, "save")}} :
    says > editor[h].copy.says
Sleeping(m) == [msg |-> m, says |-> NoEdit, id |-> workers]
\* Mutant: an edit that is waiting is kept.
DispatchFirst(h) ==
  LET m == editor[h].copy.msg IN
  /\ m \notin hourOld /\ EditorGoes(h, "dispatch", After(h))
  /\ IF deferred[m] = NoEdit
     THEN /\ editing' = editing \cup {Sleeping(m)} /\ workers' = workers + 1
          /\ deferred' = [deferred EXCEPT ![m] = editor[h].copy.says]
     ELSE UNCHANGED editVars
  /\ outdated' = (outdated \/ Older(h))
  /\ UNCHANGED <<record, holder, lastMsg, shown, hourOld, astray, refusals, refused>>

\* dispatchEdit, of the copy.
DispatchEdit(h) ==
  LET m == editor[h].copy.msg IN
  /\ m \notin hourOld /\ EditorGoes(h, "dispatch", After(h))
  /\ deferred' = [deferred EXCEPT ![m] = editor[h].copy.says]
  /\ IF deferred[m] = NoEdit
     THEN editing' = editing \cup {Sleeping(m)} /\ workers' = workers + 1
     ELSE UNCHANGED <<editing, workers>>
  /\ outdated' = (outdated \/ Older(h))
  /\ UNCHANGED <<record, holder, lastMsg, shown, hourOld, astray, refusals, refused>>

\* shouldRefresh; a holder waits for its own lease to lapse.
DispatchRefresh(h) ==
  /\ editor[h].copy.msg \in hourOld /\ EditorGoes(h, "dispatch", "refresh")
  /\ UNCHANGED <<record, holder, lastMsg, shown, hourOld, editVars, faultVars>>
LeaseLapses(h) ==
  /\ EditorAt(h, "refresh") /\ h \in holder /\ holder' = {}
  /\ editor' = [editor EXCEPT ![h].pc = "refreshAndSave"]
  /\ UNCHANGED <<record, lastMsg, shown, hourOld, editVars, faultVars>>

Save(h) ==
  /\ EditorGoes(h, "save", "done")
  /\ record' = editor[h].copy /\ holder' = holder \ {h}
  /\ astray' = (astray \/ h \notin holder)
  /\ UNCHANGED <<lastMsg, shown, hourOld, editVars, outdated, refusals, refused>>

-----------------------------------------------------------------------------
\* RefreshGameStateMessage: the lock, and RemovePendingDGSEdit; without a message
\* it is over (and the lock lapses).
RefreshBegin(h) ==
  /\ \E pc \in {"refresh", "refreshAndSave"} :
       EditorGoes(h, pc, IF record.msg = NoMessage THEN (IF pc = "refresh" THEN "done" ELSE "save")
                         ELSE IF pc = "refresh" THEN "replace" ELSE "replaceAndSave")
  /\ holder = {} /\ holder' = IF record.msg = NoMessage THEN {} ELSE {h}
  /\ deferred' = IF record.msg = NoMessage THEN deferred ELSE [deferred EXCEPT ![record.msg] = NoEdit]
  /\ UNCHANGED <<record, lastMsg, shown, hourOld, editing, workers, faultVars>>

\* Discord deletes m and shows a new message, each unless it refuses to.
Replace(m, deleted, created) ==
  /\ lastMsg < MaxMessages
  /\ LET without == IF m = NoMessage \/ ~deleted THEN shown ELSE [shown EXCEPT ![m].there = FALSE] IN
     shown' = IF created THEN [without EXCEPT ![lastMsg + 1] = Said(record.says, record.connected)]
                         ELSE without
  /\ lastMsg' = IF created THEN lastMsg + 1 ELSE lastMsg
  /\ refused' = (refused \/ ~deleted \/ ~created)
  /\ refusals' = IF deleted /\ created THEN refusals ELSE refusals + 1
  /\ refusals' <= MaxRefusals

\* Mutant: the old message is not deleted.
RefreshAdd(h, deleted, created) ==
  /\ \/ EditorGoes(h, "replace", "done") \/ EditorGoes(h, "replaceAndSave", "save")
  /\ Replace(NoMessage, deleted, created)
  /\ record' = IF created THEN [record EXCEPT !.msg = lastMsg + 1] ELSE record
  /\ holder' = {}
  /\ UNCHANGED <<hourOld, editVars, outdated, astray>>

RefreshReplace(h, deleted, created) ==
  /\ \/ EditorGoes(h, "replace", "done") \/ EditorGoes(h, "replaceAndSave", "save")
  /\ Replace(record.msg, deleted, created)
  /\ record' = IF created THEN [record EXCEPT !.msg = lastMsg + 1] ELSE record
  /\ holder' = {}
  /\ UNCHANGED <<hourOld, editVars, outdated, astray>>

\* handleGameStartMessage and forceEndGame forget the message, deleted or not.
StartGame(h, deleted, created) ==
  /\ holder = {} /\ EditorGoes(h, "new", "done")
  /\ Replace(record.msg, deleted, created)
  /\ record' = [record EXCEPT !.msg = IF created THEN lastMsg + 1 ELSE NoMessage]
  /\ UNCHANGED <<holder, hourOld, editVars, outdated, astray>>
EndGame(h) ==
  /\ holder = {} /\ EditorGoes(h, "new", "done") /\ record.msg # NoMessage
  /\ shown' = [shown EXCEPT ![record.msg].there = FALSE]
  /\ record' = [record EXCEPT !.msg = NoMessage]
  /\ UNCHANGED <<holder, lastMsg, hourOld, editVars, faultVars>>

-----------------------------------------------------------------------------
\* deferredEditWorker: two seconds are over.
TakeEdit(w) ==
  /\ w.says = NoEdit
  /\ editing' = (editing \ {w}) \cup
       (IF deferred[w.msg] = NoEdit THEN {} ELSE {[w EXCEPT !.says = deferred[w.msg]]})
  /\ deferred' = [deferred EXCEPT ![w.msg] = NoEdit]
  /\ outdated' = \/ outdated
                 \/ deferred[w.msg] # NoEdit /\ \E v \in editing : v.msg = w.msg /\ v.says # NoEdit
  /\ UNCHANGED <<record, editor, holder, lastMsg, shown, hourOld, workers, astray, refusals, refused>>

EditShown(w) ==
  /\ w.says # NoEdit /\ editing' = editing \ {w}
  /\ shown' = [shown EXCEPT ![w.msg].says = w.says]
  /\ UNCHANGED <<record, editor, holder, lastMsg, hourOld, deferred, workers, faultVars>>
EditRefused(w) ==
  /\ w.says # NoEdit /\ editing' = editing \ {w}
  /\ refusals < MaxRefusals /\ refusals' = refusals + 1 /\ refused' = TRUE
  /\ UNCHANGED <<record, editor, holder, lastMsg, shown, hourOld, deferred, workers, outdated, astray>>

HourPasses(m) ==
  /\ m <= lastMsg /\ m \notin hourOld /\ hourOld' = hourOld \cup {m}
  /\ UNCHANGED <<record, editor, holder, lastMsg, shown, editVars, faultVars>>

StatusNext ==
  \/ \E h \in Editors :
       \/ \E toggled \in BOOLEAN : ChangeAndSave(h, toggled)
       \/ ChangeAndHold(h) \/ AskForRefresh(h)
       \/ DispatchEdit(h) \/ DispatchRefresh(h) \/ LeaseLapses(h) \/ Save(h) \/ RefreshBegin(h)
       \/ \E deleted, created \in BOOLEAN :
            RefreshReplace(h, deleted, created) \/ StartGame(h, deleted, created)
       \/ EndGame(h)
  \/ \E w \in editing : TakeEdit(w) \/ EditShown(w) \/ EditRefused(w)
  \/ \E m \in Messages : HourPasses(m)

-----------------------------------------------------------------------------
StatusTypeOK ==
  /\ record.says \in Nat /\ record.msg \in Messages \cup {NoMessage} /\ record.connected \in BOOLEAN
  /\ holder \subseteq Editors /\ Cardinality(holder) <= 1
  /\ lastMsg \in Messages /\ \A w \in editing : w.msg \in Messages

Quiet == editing = {} /\ holder = {} /\ \A h \in Editors : editor[h].pc \in {"new", "done"}

(* gameStateMessage.go:117-169, bot.go:278-305: when nothing is under way  *)
(* the message says what the record says, and has buttons if the capture   *)
(* is connected - unless Discord refused, a copy older than the record was *)
(* dispatched (after a delay of seconds), an edit took longer than two, or *)
(* a holder of the lock outlived its lease.                                *)
MessageShowsRecord ==
  Quiet /\ record.msg # NoMessage /\ ~refused /\ ~outdated /\ ~astray =>
    shown[record.msg] = Said(record.says, record.connected)

(* bot.go:278-305: the game has one status message on Discord, and none    *)
(* when it is over, with the same reservations but for edits.              *)
OneMessage ==
  Quiet /\ ~refused /\ ~astray =>
    {m \in Messages : shown[m].there} = {record.msg} \ {NoMessage}
=============================================================================
