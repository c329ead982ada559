---------------------------- MODULE Guild_proofs ----------------------------
(***************************************************************************)
(* The theorems of Linking, StatusMessage, GuildSettings and               *)
(* PremiumTransfer: what a guild keeps beside its matches.                 *)
(***************************************************************************)
EXTENDS Linking, StatusMessage, GuildSettings, PremiumTransfer, FiniteSetTheorems, TLAPS

-----------------------------------------------------------------------------
(* Linking *)

PairPcs == {"readUser", "writeUser", "readName", "writeName", "save"}
CachePcs == PairPcs \cup {"names", "forget", "erase"}
LinkRequests == [pc : CachePcs \cup {"new", "done"}, user : LinkUsers \cup {Elsewhere},
                 player : Players \cup {Elsewhere}, here : BOOLEAN,
                 names : SUBSET Players, users : SUBSET LinkUsers]

Links == Players \cup {UnlinkedPlayerName}

\* What a command has of its own at each of its steps.
Meaningful(cmd) ==
  /\ cmd.pc \in CachePcs => cmd.user \in LinkUsers
  /\ cmd.pc \in PairPcs \cup {"erase"} => cmd.player \in Players

LinkTypes ==
  /\ LinkTypeOK
  /\ userData \in [DOMAIN userData -> Links] /\ tied \in [LinkUsers -> Links]
  /\ tangled \in BOOLEAN
  /\ linkCmd \in [LinkCommands -> LinkRequests]
  /\ \A c \in LinkCommands : Meaningful(linkCmd[c])

\* Who links in this game's record holds it, with the user in it.
Here == \A c \in LinkCommands : linkCmd[c].pc \in PairPcs /\ linkCmd[c].here =>
          recordLock = {c} /\ linkCmd[c].user \in DOMAIN userData

Tied == \A u \in LinkUsers : tied[u] # UnlinkedPlayerName =>
          u \in DOMAIN userData /\ userData[u] = tied[u]

\* The first direction: what the commands at work have read, and will write, is
\* known of as well.
KnownBy(u, p) == p \in byUser[u] \/ u \in halfKnown
AllKnown == \A u \in LinkUsers, p \in Players : NamesKnown(u, p)
Kept(c) ==
  LET u == linkCmd[c].user p == linkCmd[c].player IN
  /\ linkCmd[c].pc = "writeUser" => byUser[u] \subseteq linkCmd[c].names \/ u \in halfKnown
  /\ linkCmd[c].pc \in {"readName", "writeName"} => KnownBy(u, p)
  /\ linkCmd[c].pc \in {"writeName", "erase"} => \A w \in linkCmd[c].users : KnownBy(w, p)
  /\ linkCmd[c].pc \in {"forget", "erase"} =>
       \A q \in Players : u \in byName[q] => q \in linkCmd[c].names \/ u \in halfKnown
Met == \A c, o \in LinkCommands : UnderWay(c) /\ UnderWay(o) /\ c # o => linkCmd[c].user \in halfKnown
KnownFacts == AllKnown /\ Met /\ \A c \in LinkCommands : UnderWay(c) => Kept(c)

\* The other direction: whoever is at work on the cache is alone.
Alone == tangled \/ \A c, o \in LinkCommands : UnderWay(c) /\ UnderWay(o) => c = o
Mutual == \A u \in LinkUsers, p \in Players : p \in byUser[u] => u \in byName[p]
Settled == tangled \/ InCache # {} \/ Mutual

\* How far the command at work has brought the cache.
Progress(c) ==
  LET u == linkCmd[c].user p == linkCmd[c].player IN
  /\ linkCmd[c].pc \in {"readUser", "writeUser", "save", "names"} => Mutual
  /\ linkCmd[c].pc = "writeUser" => linkCmd[c].names = byUser[u]
  /\ linkCmd[c].pc \in {"readName", "writeName"} =>
       \A v \in LinkUsers, q \in Players : v # u \/ q # p => (q \in byUser[v] => v \in byName[q])
  /\ linkCmd[c].pc \in {"writeName", "erase"} => linkCmd[c].users = byName[p]
  /\ linkCmd[c].pc \in {"forget", "erase"} =>
       \A v \in LinkUsers, q \in Players : v # u => (q \in byUser[v] => v \in byName[q])
AtWorkOnCache == tangled \/ \A c \in LinkCommands : UnderWay(c) => Progress(c)
CacheFacts == Alone /\ AtWorkOnCache /\ Settled

LinkInv == LinkTypes /\ Here /\ Tied /\ KnownFacts /\ CacheFacts
LinkSpec == LinkInit /\ [][LinkNext]_linkVars

-----------------------------------------------------------------------------
(* What pairing and unlinking do to a record *)

LEMMA Pairs ==
  ASSUME NEW D \in SUBSET LinkUsers, NEW ud \in [D -> Links], NEW p \in Players, NEW ids,
         NEW new \in Pairings(ud, p, ids)
  PROVE  /\ new \in [D -> Links]
         /\ \A u \in D : new[u] = ud[u] \/ (new[u] = p /\ (ud[u] = UnlinkedPlayerName \/ <<u, p>> \in Namesakes))
<1>1. CASE new \in AttemptPairingByMatchingNames(ud, p)
  <2>1. PICK u \in D : <<u, p>> \in Namesakes /\ new = [ud EXCEPT ![u] = p]
    BY <1>1 DEF AttemptPairingByMatchingNames, WithLink
  <2> QED BY <2>1 DEF Links
<1>2. CASE new \in AttemptPairingByUserIDs(ud, p, ids)
  <2>1. PICK u \in D : new = IF ud[u] = UnlinkedPlayerName THEN [ud EXCEPT ![u] = p] ELSE ud
    BY <1>2 DEF AttemptPairingByUserIDs, WithLink
  <2> QED BY <2>1 DEF Links
<1>3. CASE new = ud
  BY <1>3
<1> QED BY <1>1, <1>2, <1>3 DEF Pairings, OrSame

LEMMA Clears ==
  ASSUME NEW D \in SUBSET LinkUsers, NEW ud \in [D -> Links], NEW p \in Players,
         NEW new \in ClearPlayerDataByPlayerName(ud, p)
  PROVE  /\ new \in [D -> Links]
         /\ \A u \in D : new[u] = ud[u] \/ (new[u] = UnlinkedPlayerName /\ ud[u] = p)
<1>1. CASE new = ud
  BY <1>1
<1>2. CASE \E u \in D : ud[u] = p /\ new = [ud EXCEPT ![u] = UnlinkedPlayerName]
  BY <1>2 DEF Links
<1> QED BY <1>1, <1>2 DEF ClearPlayerDataByPlayerName, OrSame, WithLink

\* The capture changes only links that it unties.
LEMMA CaptureUnties ==
  ASSUME LinkTypes, Tied, NEW leaving, NEW p \in Players, Untie(leaving),
         DOMAIN userData' = DOMAIN userData,
         \A u \in DOMAIN userData :
           \/ userData'[u] = userData[u] \/ userData[u] = leaving
           \/ userData'[u] = p /\ (userData[u] = UnlinkedPlayerName \/ <<u, p>> \in Namesakes)
  PROVE  Tied' /\ tied' \in [LinkUsers -> Links]
<1>1. tied' \in [LinkUsers -> Links]
  BY DEF Untie, LinkTypes, Links
<1>2. ASSUME NEW u \in LinkUsers, tied'[u] # UnlinkedPlayerName
      PROVE  u \in DOMAIN userData' /\ userData'[u] = tied'[u]
  <2>1. /\ tied'[u] = tied[u]
        /\ ~(u \in DOMAIN userData /\ userData[u] = leaving)
        /\ ~(<<u, p>> \in Namesakes /\ u \in DOMAIN userData' /\ userData'[u] = p)
    BY <1>2 DEF Untie
  <2>2. u \in DOMAIN userData /\ userData[u] = tied[u]
    BY <1>2, <2>1 DEF Tied
  <2> QED BY <1>2, <2>1, <2>2
<1> QED BY <1>1, <1>2 DEF Tied

-----------------------------------------------------------------------------
(* What a step means for the cache *)

\* Steps that leave the cache and the commands at work on it alone.
LEMMA AsideOfCache ==
  ASSUME KnownFacts, CacheFacts, UNCHANGED <<cacheVars, tangled, halfKnown>>,
         \A o \in LinkCommands : UnderWay(o)' <=> UnderWay(o),
         \A o \in LinkCommands : UnderWay(o) => linkCmd'[o] = linkCmd[o]
  PROVE  KnownFacts' /\ CacheFacts'
<1>1. Alone'
  BY DEF CacheFacts, Alone
<1>2. (Mutual' <=> Mutual) /\ AllKnown' /\ Met'
  BY DEF Mutual, cacheVars, KnownFacts, AllKnown, NamesKnown, Met
<1>3. ASSUME NEW o \in LinkCommands, UnderWay(o)', ~tangled'
      PROVE  Progress(o)'
  <2>1. Progress(o) /\ linkCmd'[o] = linkCmd[o]
    BY <1>3 DEF CacheFacts, AtWorkOnCache
  <2> QED BY <1>2, <2>1 DEF Progress, cacheVars
<1>4. Settled'
  BY <1>2 DEF CacheFacts, Settled, InCache
<1>5. ASSUME NEW o \in LinkCommands, UnderWay(o)'
      PROVE  Kept(o)'
  <2>1. Kept(o) /\ linkCmd'[o] = linkCmd[o]
    BY <1>5 DEF KnownFacts
  <2> QED BY <2>1 DEF Kept, KnownBy, cacheVars
<1> QED BY <1>1, <1>2, <1>3, <1>4, <1>5 DEF KnownFacts, CacheFacts, AtWorkOnCache

\* A command that begins.
LEMMA BeginsOnCache ==
  ASSUME LinkTypes, KnownFacts, CacheFacts, NEW c \in LinkCommands, NEW u \in LinkUsers,
         AtStep(c, "new"), Meets(u), UNCHANGED cacheVars,
         linkCmd'[c].pc \in {"readUser", "names"}, linkCmd'[c].user = u,
         \A o \in LinkCommands \ {c} : linkCmd'[o] = linkCmd[o]
  PROVE  KnownFacts' /\ CacheFacts' /\ halfKnown' \subseteq LinkUsers /\ tangled' \in BOOLEAN
<1>1. /\ halfKnown \subseteq halfKnown' /\ ~UnderWay(c)
      /\ \A o \in LinkCommands \ {c} : UnderWay(o) => {u, linkCmd[o].user} \subseteq halfKnown'
      /\ \A o \in LinkCommands \ {c} : UnderWay(o)' <=> UnderWay(o)
  BY DEF Meets, InCache, AtStep, UnderWay
<1>2. halfKnown' \subseteq LinkUsers /\ tangled' \in BOOLEAN
  <2>1. \A o \in LinkCommands : UnderWay(o) => linkCmd[o].user \in LinkUsers
    BY DEF LinkTypes, Meaningful, UnderWay, LinkRequests
  <2> QED BY <2>1 DEF Meets, InCache, LinkTypes, LinkTypeOK
<1>3. KnownFacts'
  <2>1. AllKnown'
    BY <1>1 DEF KnownFacts, AllKnown, NamesKnown, cacheVars
  <2>2. Met'
    BY <1>1 DEF KnownFacts, Met
  <2>3. Kept(c)'
    BY DEF Kept
  <2>4. ASSUME NEW o \in LinkCommands \ {c}, UnderWay(o)' PROVE Kept(o)'
    <3>1. Kept(o) /\ linkCmd'[o] = linkCmd[o]
      BY <1>1, <2>4 DEF KnownFacts
    <3> QED BY <1>1, <3>1 DEF Kept, KnownBy, cacheVars
  <2> QED BY <2>1, <2>2, <2>3, <2>4 DEF KnownFacts
<1>4. CacheFacts'
  <2> SUFFICES ASSUME ~tangled' PROVE CacheFacts'
    BY DEF CacheFacts, Alone, AtWorkOnCache, Settled
  <2>1. ~tangled /\ \A o \in LinkCommands : ~UnderWay(o)
    BY <1>1 DEF Meets, InCache
  <2>2. \A o \in LinkCommands : UnderWay(o)' => o = c
    BY <1>1, <2>1
  <2>3. Mutual'
    BY <2>1 DEF CacheFacts, Settled, InCache, Mutual, cacheVars
  <2>4. Progress(c)'
    BY <2>3 DEF Progress
  <2> QED BY <2>2, <2>3, <2>4 DEF CacheFacts, Alone, AtWorkOnCache, Settled, InCache
<1> QED BY <1>2, <1>3, <1>4

\* A command at work takes a step: only what it has done of its own counts, and
\* the user's own entry is changed by no other than its user's commands.
LEMMA WorksOnCache ==
  ASSUME KnownFacts, CacheFacts, NEW c \in LinkCommands, UnderWay(c), tangled => tangled',
         halfKnown \subseteq halfKnown',
         linkCmd'[c].user = linkCmd[c].user,
         \A o \in LinkCommands \ {c} : linkCmd'[o] = linkCmd[o] /\ linkCmd[o].users \subseteq LinkUsers,
         \A w \in LinkUsers \ {linkCmd[c].user} : byUser'[w] = byUser[w],
         AllKnown', UnderWay(c)' => Kept(c)',
         ~tangled /\ ~tangled' /\ Progress(c) => (IF UnderWay(c)' THEN Progress(c)' ELSE Mutual')
  PROVE  KnownFacts' /\ CacheFacts'
<1>1. \A o \in LinkCommands \ {c} : UnderWay(o)' <=> UnderWay(o)
  BY DEF UnderWay
<1>2. KnownFacts'
  <2>1. Met'
    BY <1>1 DEF KnownFacts, Met
  <2>2. ASSUME NEW o \in LinkCommands \ {c}, UnderWay(o)' PROVE Kept(o)'
    <3>1. Kept(o) /\ linkCmd'[o] = linkCmd[o] /\ linkCmd[o].users \subseteq LinkUsers
      BY <1>1, <2>2 DEF KnownFacts
    <3>2. linkCmd[o].user \in halfKnown' /\ linkCmd[c].user \in halfKnown'
      BY <1>1, <2>2 DEF KnownFacts, Met
    <3>3. \A w \in linkCmd[o].users : KnownBy(w, linkCmd[o].player) => KnownBy(w, linkCmd[o].player)'
      BY <3>1, <3>2 DEF KnownBy
    <3> QED BY <3>1, <3>2, <3>3 DEF Kept, KnownBy
  <2> QED BY <2>1, <2>2 DEF KnownFacts
<1>3. CacheFacts'
  <2> SUFFICES ASSUME ~tangled' PROVE CacheFacts'
    BY DEF CacheFacts, Alone, AtWorkOnCache, Settled
  <2>1. \A o \in LinkCommands : UnderWay(o) => o = c
    BY DEF CacheFacts, Alone
  <2>2. \A o \in LinkCommands : UnderWay(o)' => o = c
    BY <1>1, <2>1
  <2>3. Progress(c)
    BY DEF CacheFacts, AtWorkOnCache
  <2>4. IF UnderWay(c)' THEN Progress(c)' ELSE Mutual'
    BY <2>3
  <2> QED BY <2>2, <2>4 DEF CacheFacts, Alone, AtWorkOnCache, Settled, InCache
<1> QED BY <1>2, <1>3

-----------------------------------------------------------------------------
(* The steps *)

LEMMA LinkStarts == LinkInit => LinkInv
<1> SUFFICES ASSUME LinkInit PROVE LinkInv
  OBVIOUS
<1> USE DEF LinkInit
<1>1. LinkTypes
  <2>1. NewCommand \in LinkRequests /\ Meaningful(NewCommand)
    BY DEF NewCommand, LinkRequests, Meaningful, CachePcs, PairPcs
  <2> QED BY <2>1 DEF LinkTypes, LinkTypeOK, Links
<1>2. \A c \in LinkCommands : linkCmd[c].pc = "new"
  BY DEF NewCommand
<1>3. Here /\ Tied
  BY <1>2 DEF Here, Tied, PairPcs
<1>4. CacheFacts
  BY <1>2 DEF CacheFacts, Alone, AtWorkOnCache, Settled, InCache, Mutual, UnderWay
<1>5. KnownFacts
  BY <1>2 DEF KnownFacts, AllKnown, NamesKnown, Met, UnderWay
<1> QED BY <1>1, <1>3, <1>4, <1>5 DEF LinkInv

LEMMA AddUserStep == ASSUME LinkInv, NEW u \in LinkUsers, AddUser(u) PROVE LinkInv'
<1> USE DEF AddUser, LinkInv
<1>1. LinkTypes'
  BY DEF LinkTypes, LinkTypeOK, Links, cacheVars, ghostVars
<1>2. Here' /\ Tied'
  BY DEF Here, Tied, LinkTypes, LinkTypeOK
<1>3. KnownFacts' /\ CacheFacts'
  BY AsideOfCache DEF UnderWay, ghostVars
<1> QED BY <1>1, <1>2, <1>3

\* What the capture tells comes between the commands of this game.
LEMMA CaptureStep ==
  ASSUME LinkInv, recordLock = {}, UNCHANGED <<cacheVars, linkCmd, recordLock, ghostVars>>,
         playerData' \subseteq Players, userData' \in [DOMAIN userData -> Links],
         tied' \in [LinkUsers -> Links], Tied'
  PROVE  LinkInv'
<1> USE DEF LinkInv
<1>1. LinkTypes'
  BY DEF LinkTypes, LinkTypeOK, Links, cacheVars, ghostVars
<1>2. Here'
  BY DEF Here
<1>3. KnownFacts' /\ CacheFacts'
  BY AsideOfCache DEF UnderWay, ghostVars
<1> QED BY <1>1, <1>2, <1>3

LEMMA PlayerSeenStep == ASSUME LinkInv, NEW p \in Players, PlayerSeen(p) PROVE LinkInv'
<1> USE DEF PlayerSeen
<1>1. PICK ids : userData' \in Pairings(userData, p, ids)
  OBVIOUS
<1>2. DOMAIN userData \in SUBSET LinkUsers /\ userData \in [DOMAIN userData -> Links]
  BY DEF LinkInv, LinkTypes, LinkTypeOK
<1>3. /\ userData' \in [DOMAIN userData -> Links]
      /\ \A u \in DOMAIN userData :
           \/ userData'[u] = userData[u]
           \/ userData'[u] = p /\ (userData[u] = UnlinkedPlayerName \/ <<u, p>> \in Namesakes)
  BY <1>1, <1>2, Pairs
<1>4. Tied' /\ tied' \in [LinkUsers -> Links]
  BY <1>3, CaptureUnties DEF LinkInv
<1>5. playerData' \subseteq Players
  BY DEF LinkInv, LinkTypes, LinkTypeOK
<1> QED BY <1>3, <1>4, <1>5, CaptureStep

LEMMA PlayerGoneStep ==
  ASSUME LinkInv, NEW p \in Players, NEW d \in BOOLEAN, PlayerGone(p, d) PROVE LinkInv'
<1> USE DEF PlayerGone
<1> DEFINE leaving == IF d THEN p ELSE Elsewhere
<1>1. PICK ud \in IF d THEN ClearPlayerDataByPlayerName(userData, p) ELSE {userData} :
        userData' \in Pairings(ud, p, byName[p]) \cup Pairings(ud, p, {})
  OBVIOUS
<1>2. DOMAIN userData \in SUBSET LinkUsers /\ userData \in [DOMAIN userData -> Links]
  BY DEF LinkInv, LinkTypes, LinkTypeOK
<1>3. /\ ud \in [DOMAIN userData -> Links]
      /\ \A u \in DOMAIN userData :
           ud[u] = userData[u] \/ (ud[u] = UnlinkedPlayerName /\ userData[u] = leaving)
  BY <1>1, <1>2, Clears
<1>4. /\ userData' \in [DOMAIN userData -> Links]
      /\ \A u \in DOMAIN userData :
           \/ userData'[u] = ud[u]
           \/ userData'[u] = p /\ (ud[u] = UnlinkedPlayerName \/ <<u, p>> \in Namesakes)
  <2>1. PICK ids : userData' \in Pairings(ud, p, ids)
    BY <1>1
  <2> QED BY <1>2, <1>3, <2>1, Pairs
<1>5. Untie(leaving)
  OBVIOUS
<1>6. \A u \in DOMAIN userData :
        \/ userData'[u] = userData[u] \/ userData[u] = leaving
        \/ userData'[u] = p /\ (userData[u] = UnlinkedPlayerName \/ <<u, p>> \in Namesakes)
  BY <1>3, <1>4
<1> HIDE DEF leaving
<1>7. Tied' /\ tied' \in [LinkUsers -> Links]
  BY <1>4, <1>5, <1>6, CaptureUnties DEF LinkInv
<1>8. playerData' \subseteq Players
  BY DEF LinkInv, LinkTypes, LinkTypeOK
<1> QED BY <1>4, <1>7, <1>8, CaptureStep

\* What a command's own step changes of it is known.
LEMMA CommandGoes ==
  ASSUME LinkTypes, NEW c \in LinkCommands, NEW cmd \in LinkRequests, Meaningful(cmd),
         linkCmd' = [linkCmd EXCEPT ![c] = cmd]
  PROVE  /\ linkCmd' \in [LinkCommands -> LinkRequests]
         /\ \A o \in LinkCommands : Meaningful(linkCmd'[o])
         /\ linkCmd'[c] = cmd
         /\ \A o \in LinkCommands \ {c} : linkCmd'[o] = linkCmd[o]
BY DEF LinkTypes

\* A command goes to another step with what it has read; whom it is for stays.
Goes(c, to, player, names, users) ==
  /\ linkCmd' \in [LinkCommands -> LinkRequests] /\ \A o \in LinkCommands : Meaningful(linkCmd'[o])
  /\ linkCmd'[c].pc = to /\ linkCmd'[c].player = player
  /\ linkCmd'[c].names = names /\ linkCmd'[c].users = users
  /\ linkCmd'[c].user = linkCmd[c].user /\ linkCmd'[c].here = linkCmd[c].here
  /\ \A o \in LinkCommands \ {c} : linkCmd'[o] = linkCmd[o]

LEMMA GoesOn ==
  ASSUME LinkTypes, NEW c \in LinkCommands, NEW to \in CachePcs \cup {"done"},
         NEW player \in Players \cup {Elsewhere}, NEW names \in SUBSET Players,
         NEW users \in SUBSET LinkUsers,
         to \in CachePcs => linkCmd[c].pc \in CachePcs,
         to \in PairPcs \cup {"erase"} => player \in Players,
         linkCmd' = [linkCmd EXCEPT ![c] =
           [linkCmd[c] EXCEPT !.pc = to, !.player = player, !.names = names, !.users = users]]
  PROVE  Goes(c, to, player, names, users)
<1>1. PICK cmd : cmd = [linkCmd[c] EXCEPT !.pc = to, !.player = player, !.names = names, !.users = users]
  OBVIOUS
<1>2. linkCmd[c] \in LinkRequests /\ Meaningful(linkCmd[c])
  BY DEF LinkTypes
<1>3. /\ cmd \in LinkRequests /\ cmd.pc = to /\ cmd.player = player
      /\ cmd.names = names /\ cmd.users = users
      /\ cmd.user = linkCmd[c].user /\ cmd.here = linkCmd[c].here
  BY <1>1, <1>2 DEF LinkRequests
<1>4. Meaningful(cmd)
  BY <1>2, <1>3 DEF Meaningful
<1>5. linkCmd' = [linkCmd EXCEPT ![c] = cmd]
  BY <1>1
<1>6. /\ linkCmd' \in [LinkCommands -> LinkRequests]
      /\ \A o \in LinkCommands : Meaningful(linkCmd'[o])
      /\ linkCmd'[c] = cmd
      /\ \A o \in LinkCommands \ {c} : linkCmd'[o] = linkCmd[o]
  BY <1>3, <1>4, <1>5, CommandGoes
<1> QED BY <1>3, <1>6 DEF Goes

\* Here and Tied, when the record is not touched.
LEMMA RecordKept ==
  ASSUME LinkInv, NEW c \in LinkCommands, UNCHANGED <<userData, tied, recordLock>>,
         \A o \in LinkCommands \ {c} : linkCmd'[o] = linkCmd[o],
         linkCmd'[c].pc \in PairPcs /\ linkCmd'[c].here =>
           linkCmd[c].pc \in PairPcs /\ linkCmd[c].here /\ linkCmd'[c].user = linkCmd[c].user
  PROVE  Here' /\ Tied'
BY DEF LinkInv, Here, Tied

LEMMA LinkHereStep ==
  ASSUME LinkInv, NEW c \in LinkCommands, NEW u \in LinkUsers, NEW p \in Players, LinkHere(c, u, p)
  PROVE  LinkInv'
<1> USE DEF LinkHere, LinkInv
<1>1. PICK cmd : cmd = [NewCommand EXCEPT !.pc = "readUser", !.user = u, !.player = p, !.here = TRUE]
  OBVIOUS
<1>2. /\ cmd \in LinkRequests /\ Meaningful(cmd)
      /\ cmd.pc = "readUser" /\ cmd.user = u
  BY <1>1 DEF NewCommand, LinkRequests, Meaningful, CachePcs, PairPcs
<1>3. linkCmd' = [linkCmd EXCEPT ![c] = cmd] /\ AtStep(c, "new")
  BY <1>1 DEF Begins
<1>4. /\ linkCmd' \in [LinkCommands -> LinkRequests]
      /\ \A o \in LinkCommands : Meaningful(linkCmd'[o])
      /\ linkCmd'[c] = cmd
      /\ \A o \in LinkCommands \ {c} : linkCmd'[o] = linkCmd[o]
  BY <1>2, <1>3, CommandGoes
<1>5. KnownFacts' /\ CacheFacts' /\ halfKnown' \subseteq LinkUsers /\ tangled' \in BOOLEAN
  BY <1>2, <1>3, <1>4, BeginsOnCache
<1>6. Here' /\ Tied'
  BY <1>2, <1>4 DEF Here, Tied
<1>7. LinkTypes'
  BY <1>4, <1>5 DEF LinkTypes, LinkTypeOK, Links, cacheVars, recordVars
<1> QED BY <1>5, <1>6, <1>7

LEMMA LinkElsewhereStep ==
  ASSUME LinkInv, NEW c \in LinkCommands, NEW u \in LinkUsers, NEW p \in Players,
         LinkElsewhere(c, u, p)
  PROVE  LinkInv'
<1> USE DEF LinkElsewhere, LinkInv
<1>1. PICK cmd : cmd = [NewCommand EXCEPT !.pc = "readUser", !.user = u, !.player = p]
  OBVIOUS
<1>2. /\ cmd \in LinkRequests /\ Meaningful(cmd)
      /\ cmd.pc = "readUser" /\ ~cmd.here /\ cmd.user = u
  BY <1>1 DEF NewCommand, LinkRequests, Meaningful, CachePcs, PairPcs
<1>3. linkCmd' = [linkCmd EXCEPT ![c] = cmd] /\ AtStep(c, "new")
  BY <1>1 DEF Begins
<1>4. /\ linkCmd' \in [LinkCommands -> LinkRequests]
      /\ \A o \in LinkCommands : Meaningful(linkCmd'[o])
      /\ linkCmd'[c] = cmd
      /\ \A o \in LinkCommands \ {c} : linkCmd'[o] = linkCmd[o]
  BY <1>2, <1>3, CommandGoes
<1>5. KnownFacts' /\ CacheFacts' /\ halfKnown' \subseteq LinkUsers /\ tangled' \in BOOLEAN
  BY <1>2, <1>3, <1>4, BeginsOnCache
<1>6. Here' /\ Tied'
  BY <1>2, <1>4, RecordKept DEF recordVars
<1>7. LinkTypes'
  BY <1>4, <1>5 DEF LinkTypes, LinkTypeOK, Links, cacheVars, recordVars
<1> QED BY <1>5, <1>6, <1>7

LEMMA ForgetUserStep ==
  ASSUME LinkInv, NEW c \in LinkCommands, NEW u \in LinkUsers, ForgetUser(c, u)
  PROVE  LinkInv'
<1> USE DEF ForgetUser, LinkInv
<1>1. PICK cmd : cmd = [NewCommand EXCEPT !.pc = "names", !.user = u]
  OBVIOUS
<1>2. /\ cmd \in LinkRequests /\ Meaningful(cmd)
      /\ cmd.pc = "names" /\ ~cmd.here /\ cmd.user = u
  BY <1>1 DEF NewCommand, LinkRequests, Meaningful, CachePcs, PairPcs
<1>3. linkCmd' = [linkCmd EXCEPT ![c] = cmd] /\ AtStep(c, "new")
  BY <1>1 DEF Begins
<1>4. /\ linkCmd' \in [LinkCommands -> LinkRequests]
      /\ \A o \in LinkCommands : Meaningful(linkCmd'[o])
      /\ linkCmd'[c] = cmd
      /\ \A o \in LinkCommands \ {c} : linkCmd'[o] = linkCmd[o]
  BY <1>2, <1>3, CommandGoes
<1>5. KnownFacts' /\ CacheFacts' /\ halfKnown' \subseteq LinkUsers /\ tangled' \in BOOLEAN
  BY <1>2, <1>3, <1>4, BeginsOnCache
<1>6. Here' /\ Tied'
  BY <1>2, <1>4, RecordKept DEF recordVars
<1>7. LinkTypes'
  BY <1>4, <1>5 DEF LinkTypes, LinkTypeOK, Links, cacheVars, recordVars
<1> QED BY <1>5, <1>6, <1>7

\* The steps that change neither what the command has read nor whom it is for.
LEMMA StepsOn ==
  ASSUME LinkTypes, NEW c \in LinkCommands, NEW from, NEW to \in CachePcs \cup {"done"},
         to \in CachePcs => from \in CachePcs,
         to \in PairPcs => from \in PairPcs, to # "erase", Steps(c, from, to)
  PROVE  /\ linkCmd[c].pc = from
         /\ Goes(c, to, linkCmd[c].player, linkCmd[c].names, linkCmd[c].users)
<1>1. linkCmd[c] \in LinkRequests /\ Meaningful(linkCmd[c]) /\ linkCmd[c].pc = from
  BY DEF LinkTypes, Steps, AtStep
<1>2. PICK player, names, users :
        player = linkCmd[c].player /\ names = linkCmd[c].names /\ users = linkCmd[c].users
  OBVIOUS
<1>3. [linkCmd[c] EXCEPT !.pc = to]
        = [linkCmd[c] EXCEPT !.pc = to, !.player = player, !.names = names, !.users = users]
  BY <1>1, <1>2 DEF LinkRequests
<1>4. linkCmd' = [linkCmd EXCEPT ![c] = [linkCmd[c] EXCEPT !.pc = to]]
  BY DEF Steps
<1>5. player \in Players \cup {Elsewhere} /\ names \in SUBSET Players /\ users \in SUBSET LinkUsers
  BY <1>1, <1>2 DEF LinkRequests
<1>6. to \in PairPcs \cup {"erase"} => player \in Players
  BY <1>1, <1>2 DEF Meaningful
<1>7. Goes(c, to, player, names, users)
  BY <1>1, <1>3, <1>4, <1>5, <1>6, GoesOn
<1> QED BY <1>1, <1>2, <1>7

\* What is marked stays marked.
Grows == /\ halfKnown \subseteq halfKnown' /\ halfKnown' \subseteq LinkUsers
         /\ tangled' \in BOOLEAN /\ (tangled => tangled')

LEMMA MarksGrow ==
  ASSUME LinkTypes, NEW whom \in SUBSET LinkUsers, Works \/ Fails(whom)
  PROVE  Grows /\ (Fails(whom) => tangled' /\ whom \subseteq halfKnown')
BY DEF LinkTypes, LinkTypeOK, Works, Fails, ghostVars, Grows

LEMMA ReadUserOn ==
  ASSUME LinkTypes, NEW c \in LinkCommands, NEW from \in CachePcs, NEW to \in CachePcs,
         to \in PairPcs => from \in PairPcs, to # "erase", ReadUser(c, from, to)
  PROVE  /\ linkCmd[c].pc = from /\ Grows /\ UNCHANGED <<recordVars, cacheVars>>
         /\ \E names \in SUBSET Players :
              /\ Goes(c, to, linkCmd[c].player, names, linkCmd[c].users)
              /\ \/ names = byUser[linkCmd[c].user]
                 \/ linkCmd[c].user \in halfKnown' /\ tangled'
<1>1. linkCmd[c] \in LinkRequests /\ Meaningful(linkCmd[c]) /\ linkCmd[c].pc = from
  BY DEF LinkTypes, ReadUser, AtStep
<1>2. PICK u, player, users :
        u = linkCmd[c].user /\ player = linkCmd[c].player /\ users = linkCmd[c].users
  OBVIOUS
<1>3. u \in LinkUsers /\ byUser[u] \in SUBSET Players
  BY <1>1, <1>2 DEF Meaningful, LinkTypes, LinkTypeOK
<1>4. player \in Players \cup {Elsewhere} /\ users \in SUBSET LinkUsers
  BY <1>1, <1>2 DEF LinkRequests
<1>5. to \in PairPcs \cup {"erase"} => player \in Players
  BY <1>1, <1>2 DEF Meaningful
<1>6. ASSUME NEW names \in SUBSET Players, linkCmd' = [linkCmd EXCEPT ![c].pc = to, ![c].names = names]
      PROVE  Goes(c, to, player, names, users)
  <2>1. [linkCmd[c] EXCEPT !.pc = to, !.names = names]
          = [linkCmd[c] EXCEPT !.pc = to, !.player = player, !.names = names, !.users = users]
    BY <1>1, <1>2 DEF LinkRequests
  <2>2. linkCmd' = [linkCmd EXCEPT ![c] = [linkCmd[c] EXCEPT !.pc = to, !.names = names]]
    BY <1>6 DEF LinkTypes
  <2> QED BY <1>1, <1>4, <1>5, <2>1, <2>2, GoesOn
<1>7. CASE linkCmd' = [linkCmd EXCEPT ![c].pc = to, ![c].names = byUser[u]] /\ Works
  <2>1. PICK names \in SUBSET Players : names = byUser[u]
    BY <1>3
  <2>2. Goes(c, to, player, names, users)
    BY <1>6, <1>7, <2>1
  <2>3. Grows
    BY <1>7, MarksGrow
  <2> QED BY <1>1, <1>2, <2>1, <2>2, <2>3 DEF ReadUser
<1>8. CASE linkCmd' = [linkCmd EXCEPT ![c].pc = to, ![c].names = {}] /\ Fails({u})
  <2>1. Goes(c, to, player, {}, users)
    BY <1>6, <1>8
  <2>2. Grows /\ tangled' /\ u \in halfKnown'
    BY <1>3, <1>8, MarksGrow
  <2> QED BY <1>1, <1>2, <2>1, <2>2 DEF ReadUser
<1> QED BY <1>2, <1>7, <1>8 DEF ReadUser

LEMMA ReadNameOn ==
  ASSUME LinkTypes, NEW c \in LinkCommands, NEW p \in Players, NEW from \in CachePcs,
         NEW to \in CachePcs, ReadName(c, p, from, to)
  PROVE  /\ linkCmd[c].pc = from /\ Grows /\ UNCHANGED <<recordVars, cacheVars>>
         /\ \E users \in SUBSET byName[p] :
              /\ Goes(c, to, p, linkCmd[c].names, users)
              /\ users = byName[p] \/ tangled'
<1>1. linkCmd[c] \in LinkRequests /\ linkCmd[c].pc = from
  BY DEF LinkTypes, ReadName, AtStep
<1>2. PICK names : names = linkCmd[c].names
  OBVIOUS
<1>3. names \in SUBSET Players /\ byName[p] \in SUBSET LinkUsers
  BY <1>1, <1>2 DEF LinkRequests, LinkTypes, LinkTypeOK
<1>4. ASSUME NEW users \in SUBSET LinkUsers,
             linkCmd' = [linkCmd EXCEPT ![c].pc = to, ![c].player = p, ![c].users = users]
      PROVE  Goes(c, to, p, names, users)
  <2>1. [linkCmd[c] EXCEPT !.pc = to, !.player = p, !.users = users]
          = [linkCmd[c] EXCEPT !.pc = to, !.player = p, !.names = names, !.users = users]
    BY <1>1, <1>2 DEF LinkRequests
  <2>2. linkCmd' = [linkCmd EXCEPT ![c] = [linkCmd[c] EXCEPT !.pc = to, !.player = p, !.users = users]]
    BY <1>4 DEF LinkTypes
  <2> QED BY <1>1, <1>3, <2>1, <2>2, GoesOn
<1>5. CASE linkCmd' = [linkCmd EXCEPT ![c].pc = to, ![c].player = p, ![c].users = byName[p]] /\ Works
  <2>1. PICK users \in SUBSET LinkUsers : users = byName[p]
    BY <1>3
  <2>2. Goes(c, to, p, names, users)
    BY <1>4, <1>5, <2>1
  <2>3. Grows
    BY <1>5, MarksGrow
  <2> QED BY <1>1, <1>2, <2>1, <2>2, <2>3 DEF ReadName
<1>6. CASE linkCmd' = [linkCmd EXCEPT ![c].pc = to, ![c].player = p, ![c].users = {}] /\ Fails({})
  <2>1. Goes(c, to, p, names, {})
    BY <1>4, <1>6
  <2>2. Grows /\ tangled'
    BY <1>6, MarksGrow
  <2> QED BY <1>1, <1>2, <2>1, <2>2 DEF ReadName
<1> QED BY <1>5, <1>6 DEF ReadName

\* A step of a command in the cache, from what it changes.
LEMMA CacheStep ==
  ASSUME LinkInv, NEW c \in LinkCommands, NEW to \in CachePcs \cup {"done"}, NEW player, NEW names, NEW users,
         UnderWay(c), Goes(c, to, player, names, users), Grows,
         to \in PairPcs => linkCmd[c].pc \in PairPcs,
         UNCHANGED recordVars,
         byUser' \in [LinkUsers -> SUBSET Players], byName' \in [Players -> SUBSET LinkUsers],
         \A w \in LinkUsers \ {linkCmd[c].user} : byUser'[w] = byUser[w],
         AllKnown', UnderWay(c)' => Kept(c)',
         ~tangled /\ ~tangled' /\ Progress(c) => (IF UnderWay(c)' THEN Progress(c)' ELSE Mutual')
  PROVE  LinkInv'
<1> USE DEF LinkInv
<1>1. LinkTypes'
  BY DEF LinkTypes, LinkTypeOK, recordVars, Goes, Grows
<1>2. Here' /\ Tied'
  BY RecordKept DEF recordVars, PairPcs, Goes
<1>3. \A o \in LinkCommands \ {c} : linkCmd'[o] = linkCmd[o] /\ linkCmd[o].users \subseteq LinkUsers
  BY DEF Goes, LinkTypes, LinkRequests
<1>4. /\ halfKnown \subseteq halfKnown' /\ linkCmd'[c].user = linkCmd[c].user
      /\ tangled => tangled'
  BY DEF Grows, Goes
<1>5. KnownFacts' /\ CacheFacts'
  BY <1>3, <1>4, WorksOnCache
<1> QED BY <1>1, <1>2, <1>5

\* A step that only reads: what is known stays known.
LEMMA ReadStep ==
  ASSUME LinkInv, NEW c \in LinkCommands, NEW to \in CachePcs, NEW player, NEW names, NEW users,
         UnderWay(c), Goes(c, to, player, names, users), Grows,
         to \in PairPcs => linkCmd[c].pc \in PairPcs,
         UNCHANGED <<recordVars, cacheVars>>, Kept(c)',
         ~tangled /\ ~tangled' /\ Progress(c) => Progress(c)'
  PROVE  LinkInv'
<1> USE DEF LinkInv
<1>1. UnderWay(c)'
  BY DEF Goes, UnderWay, CachePcs, PairPcs
<1>2. AllKnown'
  BY DEF KnownFacts, AllKnown, NamesKnown, cacheVars, Grows
<1>3. /\ byUser' \in [LinkUsers -> SUBSET Players] /\ byName' \in [Players -> SUBSET LinkUsers]
      /\ byUser' = byUser
  BY DEF LinkTypes, LinkTypeOK, cacheVars
<1> QED BY <1>1, <1>2, <1>3, CacheStep

LEMMA AppendReadStep ==
  ASSUME LinkInv, NEW c \in LinkCommands, AppendRead(c) PROVE LinkInv'
<1> USE DEF LinkInv
<1>1. CASE ReadUser(c, "readUser", "writeUser")
  <2>1. PICK names \in SUBSET Players :
          /\ linkCmd[c].pc = "readUser" /\ Grows /\ UNCHANGED <<recordVars, cacheVars>>
          /\ Goes(c, "writeUser", linkCmd[c].player, names, linkCmd[c].users)
          /\ \/ names = byUser[linkCmd[c].user]
             \/ linkCmd[c].user \in halfKnown' /\ tangled'
    BY <1>1, ReadUserOn DEF CachePcs, PairPcs
  <2>2. UnderWay(c)
    BY <2>1 DEF UnderWay
  <2>3. Kept(c)'
    BY <2>1 DEF Kept, Goes, cacheVars
  <2>4. ~tangled /\ ~tangled' /\ Progress(c) => Progress(c)'
    BY <2>1 DEF Progress, Mutual, cacheVars, Goes
  <2> QED BY <2>1, <2>2, <2>3, <2>4, ReadStep DEF CachePcs, PairPcs
<1>2. CASE ReadName(c, linkCmd[c].player, "readName", "writeName")
  <2>1. linkCmd[c].pc = "readName" /\ UnderWay(c)
    BY <1>2 DEF ReadName, AtStep, UnderWay
  <2>2. PICK p : p = linkCmd[c].player
    OBVIOUS
  <2>3. p \in Players
    BY <2>1, <2>2 DEF LinkTypes, Meaningful, PairPcs
  <2>4. PICK users \in SUBSET byName[p] :
          /\ Grows /\ UNCHANGED <<recordVars, cacheVars>>
          /\ Goes(c, "writeName", p, linkCmd[c].names, users)
          /\ users = byName[p] \/ tangled'
    BY <1>2, <2>2, <2>3, ReadNameOn DEF CachePcs, PairPcs
  <2>5. Kept(c)'
    <3>1. Kept(c) /\ AllKnown /\ byName[p] \subseteq LinkUsers
      BY <2>1, <2>3 DEF KnownFacts, LinkTypes, LinkTypeOK
    <3>2. \A w \in users : KnownBy(w, p)
      BY <2>3, <3>1 DEF AllKnown, NamesKnown, KnownBy
    <3>3. KnownBy(linkCmd[c].user, p)
      BY <2>1, <2>2, <3>1 DEF Kept
    <3>4. \A w : KnownBy(w, p) => KnownBy(w, p)'
      BY <2>4 DEF KnownBy, cacheVars, Grows
    <3> QED BY <2>4, <3>2, <3>3, <3>4 DEF Kept, Goes
  <2>6. ~tangled /\ ~tangled' /\ Progress(c) => Progress(c)'
    BY <2>1, <2>2, <2>4 DEF Progress, cacheVars, Goes
  <2> QED BY <2>1, <2>4, <2>5, <2>6, ReadStep DEF CachePcs, PairPcs
<1> QED BY <1>1, <1>2 DEF AppendRead

LEMMA ReadNamesStep ==
  ASSUME LinkInv, NEW c \in LinkCommands, ReadNames(c) PROVE LinkInv'
<1> USE DEF LinkInv
<1>1. PICK names \in SUBSET Players :
        /\ linkCmd[c].pc = "names" /\ Grows /\ UNCHANGED <<recordVars, cacheVars>>
        /\ Goes(c, "forget", linkCmd[c].player, names, linkCmd[c].users)
        /\ \/ names = byUser[linkCmd[c].user]
           \/ linkCmd[c].user \in halfKnown' /\ tangled'
  BY ReadUserOn DEF CachePcs, PairPcs, ReadNames
<1>2. UnderWay(c) /\ linkCmd[c].user \in LinkUsers
  BY <1>1 DEF UnderWay, LinkTypes, Meaningful, CachePcs
<1>3. Kept(c)'
  <2>1. \A q \in Players : linkCmd[c].user \in byName[q] => q \in names \/ linkCmd[c].user \in halfKnown'
    BY <1>1, <1>2 DEF KnownFacts, AllKnown, NamesKnown, Grows
  <2> QED BY <1>1, <2>1 DEF Kept, Goes, cacheVars
<1>4. ~tangled /\ ~tangled' /\ Progress(c) => Progress(c)'
  BY <1>1 DEF Progress, Mutual, cacheVars, Goes
<1> QED BY <1>1, <1>2, <1>3, <1>4, ReadStep DEF CachePcs, PairPcs

LEMMA WriteUserStep ==
  ASSUME LinkInv, NEW c \in LinkCommands, WriteUser(c, "save") PROVE LinkInv'
<1> USE DEF LinkInv
<1>1. PICK u, p, names, written :
        /\ u = linkCmd[c].user /\ p = linkCmd[c].player /\ names = linkCmd[c].names
        /\ written = [byUser EXCEPT ![u] = names \cup {p}]
  OBVIOUS
<1>2. PICK to \in {"readName", "save"} :
        /\ linkCmd[c].pc = "writeUser" /\ Goes(c, to, p, names, linkCmd[c].users) /\ Grows
        /\ \/ to = "readName" /\ byUser' = written
           \/ to = "save" /\ byUser' \in {byUser, written} /\ tangled'
        /\ UNCHANGED <<recordVars, byName>>
  <2>1. CASE Steps(c, "writeUser", "readName") /\ byUser' = written /\ Works
    BY <1>1, <2>1, StepsOn, MarksGrow DEF WriteUser, CachePcs, PairPcs
  <2>2. CASE Steps(c, "writeUser", "save") /\ byUser' \in {byUser, written} /\ Fails({})
    BY <1>1, <2>2, StepsOn, MarksGrow DEF WriteUser, CachePcs, PairPcs
  <2> QED BY <1>1, <2>1, <2>2 DEF WriteUser
<1>3. u \in LinkUsers /\ p \in Players /\ names \subseteq Players /\ UnderWay(c) /\ Kept(c)
  BY <1>1, <1>2 DEF LinkTypes, Meaningful, LinkRequests, CachePcs, PairPcs, UnderWay, KnownFacts
<1>4. /\ written \in [LinkUsers -> SUBSET Players] /\ written[u] = names \cup {p}
      /\ \A w \in LinkUsers \ {u} : written[w] = byUser[w]
  BY <1>1, <1>3 DEF LinkTypes, LinkTypeOK
<1>5. byUser' \in [LinkUsers -> SUBSET Players] /\ \A w \in LinkUsers \ {u} : byUser'[w] = byUser[w]
  BY <1>2, <1>4 DEF LinkTypes, LinkTypeOK
<1>6. byName' \in [Players -> SUBSET LinkUsers]
  BY <1>2 DEF LinkTypes, LinkTypeOK
<1>7. AllKnown'
  <2>1. u \in halfKnown' \/ byUser[u] \subseteq byUser'[u]
    BY <1>1, <1>2, <1>3, <1>4 DEF Kept, Grows
  <2> QED BY <1>2, <1>3, <1>5, <2>1 DEF KnownFacts, AllKnown, NamesKnown, Grows
<1>8. Kept(c)'
  BY <1>1, <1>2, <1>4 DEF Kept, KnownBy, Goes
<1>9. ~tangled /\ ~tangled' /\ Progress(c) => Progress(c)' /\ UnderWay(c)'
  <2> SUFFICES ASSUME ~tangled', Progress(c) PROVE Progress(c)' /\ UnderWay(c)'
    OBVIOUS
  <2>1. to = "readName" /\ byUser' = written /\ byName' = byName /\ Mutual /\ names = byUser[u]
    BY <1>1, <1>2 DEF Progress
  <2>2. \A v \in LinkUsers, q \in Players : v # u \/ q # p => (q \in byUser'[v] => v \in byName'[q])
    BY <1>3, <1>4, <2>1 DEF Mutual
  <2> QED BY <1>1, <1>2, <2>1, <2>2 DEF Progress, Goes, UnderWay
<1>10. to \in CachePcs /\ to \in PairPcs /\ linkCmd[c].pc \in PairPcs
  BY <1>2 DEF CachePcs, PairPcs
<1> QED BY <1>1, <1>2, <1>3, <1>5, <1>6, <1>7, <1>8, <1>9, <1>10, CacheStep

LEMMA WriteNameStep ==
  ASSUME LinkInv, NEW c \in LinkCommands, WriteName(c) PROVE LinkInv'
<1> USE DEF LinkInv
<1>1. PICK u, p, users, written :
        /\ u = linkCmd[c].user /\ p = linkCmd[c].player /\ users = linkCmd[c].users
        /\ written = [byName EXCEPT ![p] = users \cup {u}]
  OBVIOUS
<1>2. /\ linkCmd[c].pc = "writeName" /\ Goes(c, "save", p, linkCmd[c].names, users)
      /\ UNCHANGED <<recordVars, byUser>>
  BY <1>1, StepsOn DEF WriteName, CachePcs, PairPcs
<1>3. Grows /\ (byName' = written \/ (byName' = byName /\ tangled'))
  <2>1. CASE byName' = written /\ Works
    BY <2>1, MarksGrow
  <2>2. CASE byName' \in {byName, written} /\ Fails({})
    BY <2>2, MarksGrow
  <2> QED BY <1>1, <2>1, <2>2 DEF WriteName
<1>4. u \in LinkUsers /\ p \in Players /\ users \subseteq LinkUsers /\ UnderWay(c) /\ Kept(c)
  BY <1>1, <1>2 DEF LinkTypes, Meaningful, LinkRequests, CachePcs, PairPcs, UnderWay, KnownFacts
<1>5. /\ written \in [Players -> SUBSET LinkUsers] /\ written[p] = users \cup {u}
      /\ \A q \in Players \ {p} : written[q] = byName[q]
  BY <1>1, <1>4 DEF LinkTypes, LinkTypeOK
<1>6. /\ byName' \in [Players -> SUBSET LinkUsers] /\ byUser' \in [LinkUsers -> SUBSET Players]
      /\ byUser' = byUser
  BY <1>2, <1>3, <1>5 DEF LinkTypes, LinkTypeOK
<1>7. AllKnown'
  <2>1. \A w \in users \cup {u} : KnownBy(w, p)
    BY <1>1, <1>2, <1>4 DEF Kept
  <2>2. \A w \in LinkUsers, q \in Players : w \in byName'[q] => KnownBy(w, q)
    BY <1>3, <1>4, <1>5, <2>1 DEF KnownFacts, AllKnown, NamesKnown, KnownBy
  <2> QED BY <1>3, <1>6, <2>2 DEF AllKnown, NamesKnown, KnownBy, Grows
<1>8. Kept(c)'
  BY <1>2 DEF Kept, Goes
<1>9. ~tangled /\ ~tangled' /\ Progress(c) => Progress(c)' /\ UnderWay(c)'
  <2> SUFFICES ASSUME ~tangled', Progress(c) PROVE Progress(c)' /\ UnderWay(c)'
    OBVIOUS
  <2>1. /\ byName' = written /\ byUser' = byUser /\ users = byName[p]
        /\ \A v \in LinkUsers, q \in Players : v # u \/ q # p => (q \in byUser[v] => v \in byName[q])
    BY <1>1, <1>2, <1>3 DEF Progress
  <2>2. Mutual'
    BY <1>4, <1>5, <2>1 DEF Mutual
  <2> QED BY <1>2, <2>2 DEF Progress, Goes, UnderWay
<1>10. "save" \in CachePcs /\ "save" \in PairPcs /\ linkCmd[c].pc \in PairPcs
  BY <1>2 DEF CachePcs, PairPcs
<1> QED BY <1>2, <1>3, <1>4, <1>6, <1>7, <1>8, <1>9, <1>10, CacheStep

LEMMA AppendWriteStep ==
  ASSUME LinkInv, NEW c \in LinkCommands, AppendWrite(c) PROVE LinkInv'
BY WriteUserStep, WriteNameStep DEF AppendWrite

LEMMA SaveLinkStep ==
  ASSUME LinkInv, NEW c \in LinkCommands, SaveLink(c) PROVE LinkInv'
<1> USE DEF LinkInv
<1> DEFINE u == linkCmd[c].user  p == linkCmd[c].player
<1>1. /\ linkCmd[c].pc = "save" /\ Goes(c, "done", p, linkCmd[c].names, linkCmd[c].users)
      /\ recordLock' = recordLock \ {c} /\ UNCHANGED <<playerData, cacheVars, ghostVars>>
  BY StepsOn DEF SaveLink, CachePcs, PairPcs
<1>2. u \in LinkUsers /\ p \in Players
  BY <1>1 DEF LinkTypes, Meaningful, CachePcs, PairPcs
<1>3. /\ userData' \in [DOMAIN userData -> Links] /\ tied' \in [LinkUsers -> Links] /\ Tied'
  <2>1. CASE ~linkCmd[c].here
    BY <2>1 DEF SaveLink, LinkTypes, Tied
  <2>2. CASE linkCmd[c].here
    <3>1. PICK ud : ud = WithLink(userData, u, UnlinkedPlayerName)
      OBVIOUS
    <3>2. /\ userData' \in AttemptPairingByUserIDs(ud, p, {u})
          /\ tied' = [tied EXCEPT ![u] = p]
      BY <2>2, <3>1 DEF SaveLink
    <3>3. u \in DOMAIN userData /\ userData \in [DOMAIN userData -> Links]
      BY <1>1, <2>2 DEF Here, PairPcs, LinkTypes
    <3>4. ud \in [DOMAIN userData -> Links] /\ ud[u] = UnlinkedPlayerName
      BY <3>1, <3>3 DEF WithLink, Links
    <3>5. userData' = WithLink(ud, u, p)
      BY <3>2, <3>4 DEF AttemptPairingByUserIDs
    <3>6. /\ userData' \in [DOMAIN userData -> Links] /\ userData'[u] = p
          /\ \A v \in DOMAIN userData \ {u} : userData'[v] = userData[v]
      BY <1>2, <3>1, <3>3, <3>4, <3>5 DEF WithLink, Links
    <3>7. /\ tied' \in [LinkUsers -> Links] /\ tied'[u] = p
          /\ \A v \in LinkUsers \ {u} : tied'[v] = tied[v]
      BY <1>2, <3>2 DEF LinkTypes, Links
    <3> QED BY <1>2, <3>3, <3>6, <3>7 DEF Tied
  <2> QED BY <2>1, <2>2
<1>4. LinkTypes'
  BY <1>1, <1>3 DEF LinkTypes, LinkTypeOK, cacheVars, ghostVars, Goes, Links
<1>5. Here'
  BY <1>1, <1>3 DEF Here, Goes, PairPcs
<1>6. UnderWay(c) /\ ~UnderWay(c)'
  BY <1>1 DEF UnderWay, Goes
<1>7. ~tangled /\ ~tangled' /\ Progress(c) => Mutual'
  BY <1>1 DEF Progress, Mutual, cacheVars
<1>8. AllKnown'
  BY <1>1 DEF KnownFacts, AllKnown, NamesKnown, cacheVars, ghostVars
<1>9. \A o \in LinkCommands \ {c} : linkCmd'[o] = linkCmd[o] /\ linkCmd[o].users \subseteq LinkUsers
  BY <1>1 DEF Goes, LinkTypes, LinkRequests
<1>10. linkCmd'[c].user = linkCmd[c].user /\ UNCHANGED <<byUser, tangled, halfKnown>>
  BY <1>1 DEF Goes, cacheVars, ghostVars
<1>11. KnownFacts' /\ CacheFacts'
  BY <1>6, <1>7, <1>8, <1>9, <1>10, WorksOnCache
<1> QED BY <1>3, <1>4, <1>5, <1>11

LEMMA UnlinkStep ==
  ASSUME LinkInv, NEW c \in LinkCommands, NEW u \in LinkUsers, Unlink(c, u) PROVE LinkInv'
<1> USE DEF LinkInv
<1>1. /\ linkCmd[c].pc = "new"
      /\ Goes(c, "done", linkCmd[c].player, linkCmd[c].names, linkCmd[c].users)
      /\ UNCHANGED <<playerData, cacheVars, recordLock, ghostVars>>
  BY StepsOn DEF Unlink, CachePcs, PairPcs
<1>2. userData \in [DOMAIN userData -> Links] /\ u \in DOMAIN userData
  BY DEF Unlink, LinkTypes
<1>3. /\ userData' \in [DOMAIN userData -> Links]
      /\ \A v \in DOMAIN userData \ {u} : userData'[v] = userData[v]
  BY <1>2 DEF Unlink, WithLink, Links
<1>4. /\ tied' \in [LinkUsers -> Links] /\ tied'[u] = UnlinkedPlayerName
      /\ \A v \in LinkUsers \ {u} : tied'[v] = tied[v]
  BY DEF Unlink, LinkTypes, Links
<1>5. LinkTypes'
  BY <1>1, <1>3, <1>4 DEF LinkTypes, LinkTypeOK, cacheVars, ghostVars, Goes, Links
<1>6. Here' /\ Tied'
  BY <1>1, <1>3, <1>4 DEF Here, Tied, Goes, PairPcs
<1>7. \A o \in LinkCommands : (UnderWay(o)' <=> UnderWay(o)) /\ (UnderWay(o) => linkCmd'[o] = linkCmd[o])
  BY <1>1 DEF UnderWay, Goes
<1>8. KnownFacts' /\ CacheFacts'
  BY <1>1, <1>7, AsideOfCache DEF ghostVars
<1> QED BY <1>5, <1>6, <1>8

LEMMA ReadNameToErase ==
  ASSUME LinkInv, NEW c \in LinkCommands, NEW p \in linkCmd[c].names, ReadName(c, p, "forget", "erase")
  PROVE  LinkInv'
<1> USE DEF LinkInv
<1>1. linkCmd[c].pc = "forget" /\ UnderWay(c)
  BY DEF ReadName, AtStep, UnderWay
<1>2. p \in Players
  BY DEF LinkTypes, LinkRequests
<1>3. PICK users \in SUBSET byName[p] :
        /\ Grows /\ UNCHANGED <<recordVars, cacheVars>>
        /\ Goes(c, "erase", p, linkCmd[c].names, users)
        /\ users = byName[p] \/ tangled'
  BY <1>2, ReadNameOn DEF CachePcs, PairPcs
<1>4. Kept(c)'
  <2>1. Kept(c) /\ AllKnown /\ byName[p] \subseteq LinkUsers
    BY <1>1, <1>2 DEF KnownFacts, LinkTypes, LinkTypeOK
  <2>2. \A w \in users : KnownBy(w, p)
    BY <1>2, <2>1 DEF AllKnown, NamesKnown, KnownBy
  <2>3. \A w : KnownBy(w, p) => KnownBy(w, p)'
    BY <1>3 DEF KnownBy, cacheVars, Grows
  <2>4. \A q \in Players : linkCmd[c].user \in byName[q] =>
          q \in linkCmd[c].names \/ linkCmd[c].user \in halfKnown'
    BY <1>1, <1>3, <2>1 DEF Kept, Grows
  <2> QED BY <1>3, <2>2, <2>3, <2>4 DEF Kept, Goes, cacheVars
<1>5. ~tangled /\ ~tangled' /\ Progress(c) => Progress(c)'
  BY <1>1, <1>3 DEF Progress, cacheVars, Goes
<1> QED BY <1>1, <1>3, <1>4, <1>5, ReadStep DEF CachePcs, PairPcs

LEMMA EraseNameStep ==
  ASSUME LinkInv, NEW c \in LinkCommands, EraseName(c) PROVE LinkInv'
<1> USE DEF LinkInv
<1>1. PICK u, p, users, rest, written :
        /\ u = linkCmd[c].user /\ p = linkCmd[c].player /\ users = linkCmd[c].users
        /\ rest = linkCmd[c].names \ {p} /\ written = [byName EXCEPT ![p] = users \ {u}]
  OBVIOUS
<1>2. linkCmd[c].pc = "erase" /\ UnderWay(c) /\ Kept(c) /\ UNCHANGED <<recordVars, byUser>>
  BY DEF EraseName, AtStep, UnderWay, KnownFacts
<1>3. /\ linkCmd[c] \in LinkRequests /\ u \in LinkUsers /\ p \in Players
      /\ users \in SUBSET LinkUsers /\ rest \in SUBSET Players
  BY <1>1, <1>2 DEF LinkTypes, Meaningful, LinkRequests, CachePcs
<1>4. Goes(c, "forget", p, rest, users)
  <2>1. linkCmd' = [linkCmd EXCEPT ![c].pc = "forget", ![c].names = rest]
    BY <1>1 DEF EraseName
  <2>2. linkCmd' = [linkCmd EXCEPT ![c] = [linkCmd[c] EXCEPT !.pc = "forget", !.names = rest]]
    BY <2>1 DEF LinkTypes
  <2>3. [linkCmd[c] EXCEPT !.pc = "forget", !.names = rest]
          = [linkCmd[c] EXCEPT !.pc = "forget", !.player = p, !.names = rest, !.users = users]
    BY <1>1, <1>3 DEF LinkRequests
  <2> QED BY <1>2, <1>3, <2>2, <2>3, GoesOn DEF CachePcs, PairPcs
<1>5. Grows /\ (byName' = written \/ (byName' = byName /\ tangled' /\ u \in halfKnown'))
            /\ (tangled' \/ byName' = written)
  <2>1. CASE byName' = written /\ Works
    BY <2>1, MarksGrow
  <2>2. CASE byName' \in {byName, written} /\ Fails({u})
    BY <1>3, <2>2, MarksGrow
  <2> QED BY <1>1, <2>1, <2>2 DEF EraseName
<1>6. /\ written \in [Players -> SUBSET LinkUsers] /\ written[p] = users \ {u}
      /\ \A q \in Players \ {p} : written[q] = byName[q]
  BY <1>1, <1>3 DEF LinkTypes, LinkTypeOK
<1>7. /\ byName' \in [Players -> SUBSET LinkUsers] /\ byUser' \in [LinkUsers -> SUBSET Players]
      /\ byUser' = byUser
  BY <1>2, <1>5, <1>6 DEF LinkTypes, LinkTypeOK
<1>8. AllKnown'
  <2>1. \A w \in users : KnownBy(w, p)
    BY <1>1, <1>2 DEF Kept
  <2>2. \A w \in LinkUsers, q \in Players : w \in byName'[q] => KnownBy(w, q)
    BY <1>3, <1>5, <1>6, <2>1 DEF KnownFacts, AllKnown, NamesKnown, KnownBy
  <2> QED BY <1>5, <1>7, <2>2 DEF AllKnown, NamesKnown, KnownBy, Grows
<1>9. Kept(c)'
  <2>1. \A q \in Players : u \in byName[q] => q \in linkCmd[c].names \/ u \in halfKnown
    BY <1>1, <1>2 DEF Kept
  <2>2. \A q \in Players : u \in byName'[q] => q \in rest \/ u \in halfKnown'
    BY <1>1, <1>5, <1>6, <2>1 DEF Grows
  <2> QED BY <1>1, <1>4, <2>2 DEF Kept, Goes
<1>10. ~tangled /\ ~tangled' /\ Progress(c) => Progress(c)' /\ UnderWay(c)'
  <2> SUFFICES ASSUME ~tangled', Progress(c) PROVE Progress(c)' /\ UnderWay(c)'
    OBVIOUS
  <2>1. /\ byName' = written /\ byUser' = byUser /\ users = byName[p]
        /\ \A v \in LinkUsers, q \in Players : v # u => (q \in byUser[v] => v \in byName[q])
    BY <1>1, <1>2, <1>5, <1>7 DEF Progress
  <2>2. \A v \in LinkUsers, q \in Players : v # u => (q \in byUser'[v] => v \in byName'[q])
    BY <1>6, <2>1
  <2> QED BY <1>1, <1>4, <2>2 DEF Progress, Goes, UnderWay
<1>11. "forget" \in CachePcs /\ "forget" \notin PairPcs
  BY DEF CachePcs, PairPcs
<1> QED BY <1>2, <1>4, <1>5, <1>7, <1>8, <1>9, <1>10, <1>11, CacheStep

LEMMA ForgetNameStep ==
  ASSUME LinkInv, NEW c \in LinkCommands, ForgetName(c) PROVE LinkInv'
BY ReadNameToErase, EraseNameStep DEF ForgetName

LEMMA ForgetNamesStep ==
  ASSUME LinkInv, NEW c \in LinkCommands, ForgetNames(c) PROVE LinkInv'
<1> USE DEF LinkInv
<1>1. PICK u, written : u = linkCmd[c].user /\ written = [byUser EXCEPT ![u] = {}]
  OBVIOUS
<1>2. /\ linkCmd[c].pc = "forget"
      /\ Goes(c, "done", linkCmd[c].player, linkCmd[c].names, linkCmd[c].users)
      /\ linkCmd[c].names = {} /\ UNCHANGED <<recordVars, byName>>
  BY StepsOn DEF ForgetNames, CachePcs, PairPcs
<1>3. Grows /\ (byUser' = written \/ (byUser' = byUser /\ tangled'))
  <2>1. CASE byUser' = written /\ Works
    BY <2>1, MarksGrow
  <2>2. CASE byUser' \in {byUser, written} /\ Fails({})
    BY <2>2, MarksGrow
  <2> QED BY <1>1, <2>1, <2>2 DEF ForgetNames
<1>4. u \in LinkUsers /\ UnderWay(c) /\ ~UnderWay(c)' /\ Kept(c)
  BY <1>1, <1>2 DEF LinkTypes, Meaningful, CachePcs, UnderWay, Goes, KnownFacts
<1>5. /\ written \in [LinkUsers -> SUBSET Players] /\ written[u] = {}
      /\ \A v \in LinkUsers \ {u} : written[v] = byUser[v]
  BY <1>1, <1>4 DEF LinkTypes, LinkTypeOK
<1>6. /\ byUser' \in [LinkUsers -> SUBSET Players] /\ byName' \in [Players -> SUBSET LinkUsers]
      /\ byName' = byName /\ \A w \in LinkUsers \ {u} : byUser'[w] = byUser[w]
  BY <1>2, <1>3, <1>5 DEF LinkTypes, LinkTypeOK
<1>7. AllKnown'
  <2>1. \A q \in Players : u \in byName[q] => u \in halfKnown
    BY <1>1, <1>2, <1>4 DEF Kept
  <2> QED BY <1>3, <1>4, <1>6, <2>1 DEF KnownFacts, AllKnown, NamesKnown, Grows
<1>8. ~tangled /\ ~tangled' /\ Progress(c) => Mutual'
  <2> SUFFICES ASSUME ~tangled', Progress(c) PROVE Mutual'
    OBVIOUS
  <2>1. /\ byUser' = written
        /\ \A v \in LinkUsers, q \in Players : v # u => (q \in byUser[v] => v \in byName[q])
    BY <1>1, <1>2, <1>3 DEF Progress
  <2> QED BY <1>5, <1>6, <2>1 DEF Mutual
<1>9. "done" \notin PairPcs
  BY DEF PairPcs
<1> QED BY <1>1, <1>2, <1>3, <1>4, <1>6, <1>7, <1>8, <1>9, CacheStep

\* No command is under way after the process has died, and the cache is as it was.
LEMMA ProcessDiesStep == ASSUME LinkInv, ProcessDies PROVE LinkInv'
<1> USE DEF LinkInv
<1>1. /\ Grows /\ tangled' /\ UNCHANGED <<userData, playerData, tied, cacheVars>> /\ recordLock' = {}
  BY MarksGrow DEF ProcessDies
<1>2. ASSUME NEW c \in LinkCommands
      PROVE  /\ linkCmd'[c] \in LinkRequests /\ Meaningful(linkCmd'[c]) /\ linkCmd'[c].pc \in {"new", "done"}
  <2>1. PICK pc : /\ linkCmd'[c] = [linkCmd[c] EXCEPT !.pc = pc]
                  /\ pc = IF c \in InCache THEN "done" ELSE linkCmd[c].pc
    BY DEF ProcessDies
  <2>2. linkCmd[c] \in LinkRequests /\ pc \in {"new", "done"}
    BY <2>1 DEF InCache, UnderWay, LinkTypes
  <2> QED BY <2>1, <2>2 DEF LinkRequests, Meaningful, CachePcs, PairPcs
<1>3. linkCmd' \in [LinkCommands -> LinkRequests]
  <2>1. linkCmd' = [c \in LinkCommands |-> linkCmd'[c]]
    BY DEF ProcessDies
  <2> QED BY <1>2, <2>1
<1>4. LinkTypes'
  BY <1>1, <1>2, <1>3 DEF LinkTypes, LinkTypeOK, cacheVars, Grows, Links
<1>5. Here' /\ Tied'
  BY <1>1, <1>2 DEF Here, Tied, PairPcs
<1>6. KnownFacts'
  <2>1. AllKnown'
    BY <1>1 DEF KnownFacts, AllKnown, NamesKnown, cacheVars, Grows
  <2>2. \A c \in LinkCommands : ~UnderWay(c)'
    BY <1>2 DEF UnderWay
  <2> QED BY <2>1, <2>2 DEF KnownFacts, Met
<1>7. CacheFacts'
  BY <1>1 DEF CacheFacts, Alone, AtWorkOnCache, Settled
<1> QED BY <1>4, <1>5, <1>6, <1>7

LEMMA CacheLapsesStep == ASSUME LinkInv, CacheLapses PROVE LinkInv'
<1> USE DEF LinkInv
<1>1. /\ byUser' = [u \in LinkUsers |-> {}] /\ byName' = [p \in Players |-> {}]
      /\ UNCHANGED <<recordVars, linkCmd>>
  BY DEF CacheLapses
<1>2. \A c \in LinkCommands : c \in InCache <=> UnderWay(c)
  BY DEF InCache
<1>3. /\ tangled' = (InCache # {})
      /\ halfKnown' = UNION {{linkCmd[c].user} \cup linkCmd[c].users : c \in InCache}
  BY DEF CacheLapses
<1>4. (\A c \in LinkCommands : UnderWay(c)' <=> UnderWay(c)) /\ tangled' \in BOOLEAN
  BY <1>1, <1>3 DEF UnderWay
<1>5. \A c \in LinkCommands : UnderWay(c) =>
        tangled' /\ linkCmd[c].user \in halfKnown' /\ linkCmd[c].users \subseteq halfKnown'
  <2> SUFFICES ASSUME NEW c \in LinkCommands, UnderWay(c)
      PROVE  tangled' /\ linkCmd[c].user \in halfKnown' /\ linkCmd[c].users \subseteq halfKnown'
    OBVIOUS
  <2>1. c \in InCache
    BY <1>2
  <2> QED BY <1>3, <2>1
<1>6. halfKnown' \subseteq LinkUsers
  <2>1. \A c \in LinkCommands : UnderWay(c) => linkCmd[c].user \in LinkUsers /\ linkCmd[c].users \subseteq LinkUsers
    BY DEF LinkTypes, Meaningful, UnderWay, LinkRequests
  <2> QED BY <1>3, <2>1 DEF InCache
<1>7. LinkTypes'
  BY <1>1, <1>4, <1>6 DEF LinkTypes, LinkTypeOK, recordVars
<1>8. Here' /\ Tied'
  BY <1>1 DEF Here, Tied, recordVars
<1>9. KnownFacts'
  <2>1. AllKnown'
    BY <1>1 DEF AllKnown, NamesKnown
  <2>2. Met'
    BY <1>1, <1>4, <1>5 DEF Met
  <2>3. ASSUME NEW c \in LinkCommands, UnderWay(c)' PROVE Kept(c)'
    BY <1>1, <1>4, <1>5, <2>3 DEF Kept, KnownBy
  <2> QED BY <2>1, <2>2, <2>3 DEF KnownFacts
<1>10. CacheFacts'
  <2>1. Mutual'
    BY <1>1 DEF Mutual
  <2> QED BY <1>4, <1>5, <2>1 DEF CacheFacts, Alone, AtWorkOnCache, Settled, InCache
<1> QED BY <1>7, <1>8, <1>9, <1>10

LEMMA LinkIdles == ASSUME LinkInv, UNCHANGED linkVars PROVE LinkInv'
<1> USE DEF LinkInv, linkVars
<1>1. LinkTypes' /\ Here' /\ Tied'
  BY DEF LinkTypes, LinkTypeOK, Here, Tied
<1>2. KnownFacts' /\ CacheFacts'
  BY AsideOfCache DEF UnderWay, cacheVars
<1> QED BY <1>1, <1>2

LEMMA LinkSteps == LinkInv /\ [LinkNext]_linkVars => LinkInv'
BY AddUserStep, PlayerSeenStep, PlayerGoneStep, LinkHereStep, LinkElsewhereStep, AppendReadStep,
   AppendWriteStep, SaveLinkStep, UnlinkStep, ForgetUserStep, ReadNamesStep, ForgetNameStep,
   ForgetNamesStep, ProcessDiesStep, CacheLapsesStep, LinkIdles DEF LinkNext

LEMMA LinkInvariant == LinkSpec => []LinkInv
BY LinkStarts, LinkSteps, PTL DEF LinkSpec

\* The record of players, the cache and the lock keep their types.
THEOREM LinkTypeCorrect == LinkSpec => []LinkTypeOK
<1>1. LinkInv => LinkTypeOK BY DEF LinkInv, LinkTypes
<1> QED BY <1>1, LinkInvariant, PTL

(* userDataSet.go, bot.go: whatever the capture tells and the cache says,  *)
(* a user stays linked to the player that a /link has given him, until a   *)
(* command, a namesake or the player's disconnection takes him away.       *)
THEOREM Linked == LinkSpec => []LinksStand
<1>1. LinkInv => LinksStand
  BY DEF LinkInv, Tied, LinksStand
<1> QED BY <1>1, LinkInvariant, PTL

(* redis.go: whatever command of Redis fails and whenever the process dies,*)
(* the user's own entry has every name under which the guild's cache has   *)
(* him - unless that entry could not be read, a name could not be erased,  *)
(* or his commands met others or a new cache; and while nothing of all     *)
(* that has happened the names have him, too, at rest.                     *)
THEOREM CacheAgrees == LinkSpec => []CacheMutual
<1>1. LinkInv => CacheMutual
  BY DEF LinkInv, KnownFacts, AllKnown, CacheFacts, Settled, Mutual, CacheMutual
<1> QED BY <1>1, LinkInvariant, PTL

-----------------------------------------------------------------------------
(* The status message *)

StatusPcs == {"new", "dispatch", "refresh", "refreshAndSave", "save", "replace", "replaceAndSave", "done"}
StatusRecords == [says : Nat \ {0}, msg : Messages \cup {NoMessage}, connected : BOOLEAN]

StatusTypes ==
  /\ record \in StatusRecords /\ holder \subseteq Editors /\ lastMsg \in Messages
  /\ editor \in [Editors -> [pc : StatusPcs, copy : StatusRecords]]
  /\ shown \in [Messages -> [says : Nat, buttons : BOOLEAN, there : BOOLEAN]]
  /\ deferred \in [Messages -> Nat]
  /\ editing \subseteq [msg : Messages, says : Nat, id : Nat] /\ workers \in Nat
  /\ outdated \in BOOLEAN /\ astray \in BOOLEAN /\ refused \in BOOLEAN

\* One holds the record at a time, and only between these steps.
OneHolder ==
  /\ \A g, h \in holder : g = h
  /\ \A h \in holder : editor[h].pc \in {"dispatch", "refresh", "save", "replace", "replaceAndSave"}
  /\ \A h \in Editors : editor[h].pc \in {"replace", "replaceAndSave"} => h \in holder

\* Nobody has changed the record since its holder read it ...
HeldCopy ==
  astray \/ \A h \in holder : editor[h].pc \in {"dispatch", "refresh", "save"} =>
    /\ record.msg # NoMessage /\ editor[h].copy.msg = record.msg
    /\ editor[h].copy.says = record.says + 1 /\ editor[h].copy.connected = record.connected

\* ... and what others are to dispatch has been saved.
SavedCopy ==
  astray \/ \A h \in Editors \ holder : editor[h].pc = "dispatch" => editor[h].copy.says <= record.says

\* Of messages still to come nobody knows.
Known ==
  /\ record.msg <= lastMsg
  /\ \A h \in Editors : /\ editor[h].copy.msg <= lastMsg
                        /\ editor[h].pc = "dispatch" => editor[h].copy.msg # NoMessage
  /\ \A m \in Messages : m > lastMsg => deferred[m] = NoEdit
  /\ \A w \in editing : w.msg <= lastMsg

\* A deferred edit has a worker that will find it, and edits do not overtake.
Awake == \A m \in Messages : deferred[m] # NoEdit => \E w \in editing : w.msg = m /\ w.says = NoEdit
OneEdit ==
  outdated \/ \A v, w \in editing : v.msg = w.msg /\ v.says # NoEdit /\ w.says # NoEdit => v = w

OneThere == refused \/ astray \/ \A m \in Messages : shown[m].there <=> m = record.msg

Refreshing ==
  \E h \in Editors : editor[h].pc \in {"refresh", "refreshAndSave", "replace", "replaceAndSave"}

\* What the message is to say: a holder who has dispatched is ahead of the record.
ToSave == \E h \in holder : editor[h].pc = "save"
Due == IF ToSave THEN record.says + 1 ELSE record.says

\* Somebody is about to see to it.
Owed ==
  \/ Refreshing
  \/ \E h \in Editors :
       editor[h].pc = "dispatch" /\ editor[h].copy.msg = record.msg /\ editor[h].copy.says = Due

\* It is deferred, on its way, or shown.
Showing(m) == {w \in editing : w.msg = m /\ w.says # NoEdit}
WillSay(m, s) ==
  IF deferred[m] # NoEdit THEN deferred[m] = s
  ELSE IF Showing(m) # {} THEN \E w \in Showing(m) : w.says = s
  ELSE shown[m].says = s

Text ==
  refused \/ astray \/ outdated \/ record.msg = NoMessage \/ Owed \/ WillSay(record.msg, Due)
Buttons ==
  refused \/ astray \/ record.msg = NoMessage \/ Refreshing
  \/ shown[record.msg].buttons = record.connected

StatusInv ==
  /\ StatusTypes /\ OneHolder /\ HeldCopy /\ SavedCopy /\ Known /\ Awake /\ OneEdit
  /\ OneThere /\ Text /\ Buttons
StatusSpec == StatusInit /\ [][StatusNext]_statusVars

-----------------------------------------------------------------------------
(* What a step changes of an editor *)

EditorMoves(h, pc, copy) ==
  /\ editor' \in [Editors -> [pc : StatusPcs, copy : StatusRecords]]
  /\ editor'[h].pc = pc /\ editor'[h].copy = copy
  /\ \A g \in Editors \ {h} : editor'[g] = editor[g]

LEMMA EditorSet ==
  ASSUME StatusTypes, NEW h \in Editors, NEW pc \in StatusPcs, NEW copy \in StatusRecords,
         editor' = [editor EXCEPT ![h] = [pc |-> pc, copy |-> copy]]
  PROVE  EditorMoves(h, pc, copy)
BY DEF StatusTypes, EditorMoves

LEMMA EditorWent ==
  ASSUME StatusTypes, NEW h \in Editors, NEW pc \in StatusPcs, editor' = [editor EXCEPT ![h].pc = pc]
  PROVE  EditorMoves(h, pc, editor[h].copy)
<1>1. PICK e : e = [editor[h] EXCEPT !.pc = pc]
  OBVIOUS
<1>2. editor[h] \in [pc : StatusPcs, copy : StatusRecords]
  BY DEF StatusTypes
<1>3. e \in [pc : StatusPcs, copy : StatusRecords] /\ e.pc = pc /\ e.copy = editor[h].copy
  BY <1>1, <1>2
<1>4. editor' = [editor EXCEPT ![h] = e]
  BY <1>1
<1> QED BY <1>3, <1>4 DEF StatusTypes, EditorMoves

LEMMA ChangedParts ==
  ASSUME record \in StatusRecords, NEW toggled \in BOOLEAN
  PROVE  /\ Changed(toggled) \in StatusRecords
         /\ Changed(toggled).says = record.says + 1 /\ Changed(toggled).msg = record.msg
         /\ ~toggled => Changed(toggled).connected = record.connected
<1>1. PICK says, was, connected :
        says = record.says + 1 /\ was = record.connected /\ connected = IF toggled THEN ~was ELSE was
  OBVIOUS
<1>2. Changed(toggled) = [record EXCEPT !.says = says, !.connected = connected]
  BY <1>1 DEF Changed
<1>3. says \in Nat \ {0} /\ was \in BOOLEAN
  BY <1>1 DEF StatusRecords
<1>4. connected \in BOOLEAN
  BY <1>1, <1>3
<1>5. /\ Changed(toggled) \in StatusRecords /\ Changed(toggled).says = says
      /\ Changed(toggled).msg = record.msg /\ Changed(toggled).connected = connected
  BY <1>2, <1>3, <1>4 DEF StatusRecords
<1>6. ~toggled => connected = was
  BY <1>1
<1> QED BY <1>1, <1>5, <1>6

LEMMA EditorParts ==
  ASSUME StatusTypes, NEW h \in Editors
  PROVE  /\ editor[h].pc \in StatusPcs /\ editor[h].copy \in StatusRecords
         /\ editor[h].copy.says \in Nat \ {0} /\ editor[h].copy.msg \in Messages \cup {NoMessage}
         /\ record.says \in Nat \ {0} /\ record.msg \in Messages \cup {NoMessage}
         /\ record.connected \in BOOLEAN
BY DEF StatusTypes, StatusRecords

-----------------------------------------------------------------------------
(* The steps of editors *)

LEMMA StatusStarts == StatusInit => StatusInv
<1> SUFFICES ASSUME StatusInit PROVE StatusInv
  OBVIOUS
<1> USE DEF StatusInit
<1>1. PICK connected \in BOOLEAN :
        /\ record = [says |-> 1, msg |-> 1, connected |-> connected]
        /\ shown = [m \in Messages |-> [Said(1, connected) EXCEPT !.there = m = 1]]
  OBVIOUS
<1>2. 1 \in Messages
  BY StatusAssumption DEF Messages
<1>3. \A m \in Messages : /\ shown[m] \in [says : Nat, buttons : BOOLEAN, there : BOOLEAN]
                          /\ shown[m].says = 1 /\ shown[m].buttons = connected
                          /\ shown[m].there <=> m = 1
  BY <1>1 DEF Said
<1>4. StatusTypes
  <2>1. record \in StatusRecords
    BY <1>1, <1>2 DEF StatusRecords
  <2>2. shown \in [Messages -> [says : Nat, buttons : BOOLEAN, there : BOOLEAN]]
    BY <1>1, <1>3
  <2>3. editor \in [Editors -> [pc : StatusPcs, copy : StatusRecords]]
    BY <2>1 DEF StatusPcs
  <2> QED BY <1>2, <2>1, <2>2, <2>3 DEF StatusTypes, NoEdit
<1>5. OneHolder /\ HeldCopy /\ SavedCopy
  BY DEF OneHolder, HeldCopy, SavedCopy
<1>6. Known /\ Awake /\ OneEdit
  BY <1>1 DEF Known, Awake, OneEdit
<1>7. OneThere /\ Text /\ Buttons
  <2>1. Due = 1
    BY <1>1 DEF Due, ToSave
  <2> QED BY <1>1, <1>2, <1>3, <2>1 DEF OneThere, Text, Buttons, WillSay, Showing
<1> QED BY <1>4, <1>5, <1>6, <1>7 DEF StatusInv

\* Nothing new is known of messages by a step that deals with the copy of one.
LEMMA KnownStays ==
  ASSUME Known, NEW h \in Editors, NEW pc, NEW copy, EditorMoves(h, pc, copy),
         UNCHANGED <<lastMsg, deferred, editing>>, record'.msg \in {record.msg, copy.msg},
         copy.msg <= lastMsg, pc = "dispatch" => copy.msg # NoMessage
  PROVE  Known'
BY DEF Known, EditorMoves

LEMMA ChangeAndSaveStep ==
  ASSUME StatusInv, NEW h \in Editors, NEW toggled \in BOOLEAN, ChangeAndSave(h, toggled)
  PROVE  StatusInv'
<1> USE DEF ChangeAndSave, StatusInv
<1>0. PICK pc \in {"refresh", "dispatch"} : pc = IF toggled THEN "refresh" ELSE "dispatch"
  OBVIOUS
<1>1. PICK rec : pc = (IF toggled THEN "refresh" ELSE "dispatch") /\ rec = Changed(toggled)
  BY <1>0
<1>2. /\ rec \in StatusRecords /\ rec.says = record.says + 1 /\ rec.msg = record.msg
      /\ ~toggled => rec.connected = record.connected
  BY <1>1, ChangedParts DEF StatusTypes
<1>3. /\ record' = rec /\ holder = {} /\ holder' = {} /\ editor[h].pc = "new"
      /\ EditorMoves(h, pc, rec)
      /\ UNCHANGED <<lastMsg, shown, deferred, editing, workers, outdated, astray, refused>>
  BY <1>1, <1>2, EditorSet DEF editVars, faultVars, EditorAt, StatusPcs
<1>4. record.says \in Nat
  BY EditorParts
<1>5. StatusTypes'
  BY <1>2, <1>3 DEF StatusTypes, EditorMoves
<1>6. OneHolder' /\ HeldCopy'
  BY <1>1, <1>3 DEF OneHolder, HeldCopy, EditorMoves
<1>7. SavedCopy'
  <2>1. ASSUME NEW g \in Editors, g # h, ~astray, editor[g].pc = "dispatch"
        PROVE  editor[g].copy.says <= rec.says
    BY <1>2, <1>3, <1>4, <2>1, EditorParts DEF SavedCopy
  <2> QED BY <1>2, <1>3, <1>4, <2>1 DEF SavedCopy, EditorMoves
<1>13. Known'
  BY <1>2, <1>3, KnownStays DEF Known
<1>8. Awake' /\ OneEdit' /\ OneThere'
  BY <1>2, <1>3 DEF Awake, OneEdit, OneThere
<1>9. Refreshing => Refreshing'
  BY <1>3 DEF Refreshing, EditorMoves
<1>10. toggled => Refreshing'
  BY <1>1, <1>3 DEF Refreshing, EditorMoves
<1>11. Text'
  <2>1. Due' = rec.says
    BY <1>3 DEF Due, ToSave
  <2>2. ~toggled => Owed'
    BY <1>1, <1>2, <1>3, <2>1 DEF Owed, EditorMoves
  <2> QED BY <1>10, <2>2 DEF Text, Owed
<1>12. Buttons'
  BY <1>2, <1>3, <1>9, <1>10 DEF Buttons
<1> QED BY <1>5, <1>6, <1>7, <1>8, <1>11, <1>12, <1>13

\* Steps that change only an editor leave what the message will say alone.
LEMMA TextStays ==
  ASSUME Text, UNCHANGED <<record, shown, deferred, editing, refused, astray, outdated>>,
         Due' = Due, Owed => Owed'
  PROVE  Text'
BY DEF Text, WillSay, Showing

LEMMA ChangeAndHoldStep ==
  ASSUME StatusInv, NEW h \in Editors, ChangeAndHold(h) PROVE StatusInv'
<1> USE DEF ChangeAndHold, StatusInv
<1>1. PICK rec : rec = Changed(FALSE)
  OBVIOUS
<1>2. /\ rec \in StatusRecords /\ rec.says = record.says + 1 /\ rec.msg = record.msg
      /\ rec.connected = record.connected
  BY <1>1, ChangedParts DEF StatusTypes
<1>3. /\ holder = {} /\ holder' = {h} /\ editor[h].pc = "new" /\ record.msg # NoMessage
      /\ EditorMoves(h, "dispatch", rec)
      /\ UNCHANGED <<record, lastMsg, shown, deferred, editing, workers, outdated, astray, refused>>
  BY <1>1, <1>2, EditorSet DEF editVars, faultVars, EditorAt, StatusPcs
<1>4. StatusTypes'
  BY <1>3 DEF StatusTypes, EditorMoves
<1>5. OneHolder' /\ SavedCopy'
  BY <1>3 DEF OneHolder, SavedCopy, EditorMoves
<1>12. HeldCopy'
  BY <1>2, <1>3 DEF HeldCopy, EditorMoves
<1>13. Known'
  BY <1>2, <1>3, KnownStays DEF Known
<1>6. Awake' /\ OneEdit' /\ OneThere'
  BY <1>3 DEF Awake, OneEdit, OneThere
<1>7. Refreshing => Refreshing'
  BY <1>3 DEF Refreshing, EditorMoves
<1>8. Due' = Due
  BY <1>3 DEF Due, ToSave, EditorMoves
<1>9. Owed => Owed'
  BY <1>3, <1>7, <1>8 DEF Owed, EditorMoves
<1>10. Text'
  BY <1>3, <1>8, <1>9, TextStays
<1>11. Buttons'
  BY <1>3, <1>7 DEF Buttons
<1> QED BY <1>4, <1>5, <1>6, <1>10, <1>11, <1>12, <1>13

\* Who asks for a refresh vouches for all that the message is to say.
LEMMA RefreshVouches ==
  ASSUME StatusInv, NEW h \in Editors, NEW pc \in {"refresh", "refreshAndSave"},
         EditorMoves(h, pc, editor[h].copy), editor[h].pc \in {"new", "dispatch", "refresh"},
         holder' = holder \/ (h \in holder /\ holder' = {}),
         pc = "refreshAndSave" \/ editor[h].pc = "new" => h \notin holder',
         UNCHANGED <<record, lastMsg, shown, deferred, editing, workers, outdated, astray, refused>>
  PROVE  StatusInv'
<1> USE DEF StatusInv
<1>1. StatusTypes'
  BY DEF StatusTypes, EditorMoves
<1>2. OneHolder' /\ HeldCopy'
  <2>1. holder' \subseteq holder
    OBVIOUS
  <2>2. OneHolder'
    BY <2>1 DEF OneHolder, EditorMoves, StatusTypes
  <2>3. \A g \in holder' :
          /\ editor'[g].copy = editor[g].copy
          /\ editor'[g].pc = editor[g].pc \/ editor[g].pc \in {"dispatch", "refresh"}
    BY <2>1 DEF EditorMoves, StatusTypes
  <2>4. HeldCopy'
    BY <2>1, <2>3 DEF HeldCopy
  <2> QED BY <2>2, <2>4
<1>3. SavedCopy'
  BY DEF SavedCopy, EditorMoves, HeldCopy, OneHolder
<1>4. Known' /\ Awake' /\ OneEdit' /\ OneThere'
  <2>1. Known'
    BY KnownStays DEF Known
  <2> QED BY <2>1 DEF Awake, OneEdit, OneThere
<1>5. Refreshing'
  BY DEF Refreshing, EditorMoves
<1>6. Text' /\ Buttons'
  BY <1>5 DEF Text, Owed, Buttons
<1> QED BY <1>1, <1>2, <1>3, <1>4, <1>6

LEMMA RefreshAskedSteps ==
  ASSUME StatusInv, NEW h \in Editors, AskForRefresh(h) \/ DispatchRefresh(h) \/ LeaseLapses(h)
  PROVE  StatusInv'
<1>1. StatusTypes /\ OneHolder
  BY DEF StatusInv
<1>2. CASE AskForRefresh(h)
  <2>1. EditorMoves(h, "refresh", editor[h].copy) /\ editor[h].pc = "new"
    BY <1>1, <1>2, EditorWent DEF AskForRefresh, EditorGoes, EditorAt, StatusPcs
  <2>2. holder' = holder /\ h \notin holder
    BY <1>1, <1>2, <2>1 DEF AskForRefresh, OneHolder
  <2> QED BY <1>2, <2>1, <2>2, RefreshVouches DEF AskForRefresh, editVars, faultVars
<1>3. CASE DispatchRefresh(h)
  <2>1. EditorMoves(h, "refresh", editor[h].copy) /\ editor[h].pc = "dispatch"
    BY <1>1, <1>3, EditorWent DEF DispatchRefresh, EditorGoes, EditorAt, StatusPcs
  <2>2. holder' = holder
    BY <1>3 DEF DispatchRefresh
  <2> QED BY <1>3, <2>1, <2>2, RefreshVouches DEF DispatchRefresh, editVars, faultVars
<1>4. CASE LeaseLapses(h)
  <2>1. EditorMoves(h, "refreshAndSave", editor[h].copy) /\ editor[h].pc = "refresh"
    BY <1>1, <1>4, EditorWent DEF LeaseLapses, EditorAt, StatusPcs
  <2>2. h \in holder /\ holder' = {}
    BY <1>4 DEF LeaseLapses
  <2> QED BY <1>4, <2>1, <2>2, RefreshVouches DEF LeaseLapses, editVars, faultVars
<1> QED BY <1>2, <1>3, <1>4

LEMMA SaveStep ==
  ASSUME StatusInv, NEW h \in Editors, Save(h) PROVE StatusInv'
<1> USE DEF Save, StatusInv
<1>1. PICK copy : copy = editor[h].copy
  OBVIOUS
<1>2. /\ editor[h].pc = "save" /\ EditorMoves(h, "done", copy) /\ record' = copy
      /\ holder' = holder \ {h} /\ astray' = (astray \/ h \notin holder)
      /\ UNCHANGED <<lastMsg, shown, deferred, editing, workers, outdated, refused>>
  BY <1>1, EditorWent DEF EditorGoes, EditorAt, StatusPcs, editVars
<1>3. copy \in StatusRecords /\ copy.msg <= lastMsg
  BY <1>1, EditorParts DEF Known
<1>4. StatusTypes'
  BY <1>2, <1>3 DEF StatusTypes, EditorMoves
<1>5. OneHolder'
  BY <1>2 DEF OneHolder, EditorMoves, StatusTypes
<1>6. Known' /\ Awake' /\ OneEdit'
  <2>1. Known'
    BY <1>2, <1>3, KnownStays
  <2> QED BY <1>2, <2>1 DEF Awake, OneEdit
<1>7. CASE astray'
  BY <1>4, <1>5, <1>6, <1>7 DEF HeldCopy, SavedCopy, OneThere, Text, Buttons
<1>8. CASE ~astray'
  <2>1. ~astray /\ holder = {h} /\ holder' = {}
    BY <1>2, <1>8 DEF OneHolder
  <2>2. /\ record.msg # NoMessage /\ copy.msg = record.msg
        /\ copy.says = record.says + 1 /\ copy.connected = record.connected
    BY <1>1, <1>2, <2>1 DEF HeldCopy
  <2>3. HeldCopy'
    BY <2>1 DEF HeldCopy
  <2>4. SavedCopy'
    <3>1. ASSUME NEW g \in Editors, g # h, editor[g].pc = "dispatch"
          PROVE  editor[g].copy.says <= copy.says
      BY <2>1, <2>2, <3>1, EditorParts DEF SavedCopy
    <3> QED BY <1>2, <3>1 DEF SavedCopy, EditorMoves
  <2>5. OneThere'
    BY <1>2, <2>1, <2>2 DEF OneThere
  <2>6. Refreshing => Refreshing'
    BY <1>2 DEF Refreshing, EditorMoves
  <2>7. Due = record.says + 1 /\ Due' = copy.says
    BY <1>2, <2>1 DEF Due, ToSave
  <2>8. Owed => Owed'
    BY <1>2, <2>2, <2>6, <2>7 DEF Owed, EditorMoves
  <2>9. Text'
    BY <1>2, <2>1, <2>2, <2>7, <2>8 DEF Text, WillSay, Showing
  <2>10. Buttons'
    BY <1>2, <2>1, <2>2, <2>6 DEF Buttons
  <2> QED BY <1>4, <1>5, <1>6, <2>3, <2>4, <2>5, <2>9, <2>10
<1> QED BY <1>7, <1>8

\* Which edits there are after a dispatch.
LEMMA Dispatches ==
  ASSUME StatusTypes, NEW h \in Editors, DispatchEdit(h), editor[h].copy.msg \in Messages
  PROVE  /\ deferred' \in [Messages -> Nat] /\ deferred'[editor[h].copy.msg] = editor[h].copy.says
         /\ \A m \in Messages \ {editor[h].copy.msg} : deferred'[m] = deferred[m]
         /\ editing' \subseteq [msg : Messages, says : Nat, id : Nat] /\ editing \subseteq editing'
         /\ \A w \in editing' \ editing : w.msg = editor[h].copy.msg /\ w.says = NoEdit
         /\ deferred[editor[h].copy.msg] = NoEdit =>
              \E w \in editing' : w.msg = editor[h].copy.msg /\ w.says = NoEdit
         /\ workers' \in Nat
<1> DEFINE m == editor[h].copy.msg
<1>1. editor[h].copy.says \in Nat
  BY EditorParts
<1>2. deferred' = [deferred EXCEPT ![m] = editor[h].copy.says]
  BY DEF DispatchEdit
<1>3. /\ deferred' \in [Messages -> Nat] /\ deferred'[m] = editor[h].copy.says
      /\ \A n \in Messages \ {m} : deferred'[n] = deferred[n]
  BY <1>1, <1>2 DEF StatusTypes
<1>4. CASE deferred[m] = NoEdit
  <2>1. PICK w : w = Sleeping(m)
    OBVIOUS
  <2>2. w \in [msg : Messages, says : Nat, id : Nat] /\ w.msg = m /\ w.says = NoEdit
    BY <2>1 DEF Sleeping, StatusTypes, NoEdit
  <2>3. editing' = editing \cup {w} /\ workers' = workers + 1
    BY <1>4, <2>1 DEF DispatchEdit
  <2> QED BY <1>3, <2>2, <2>3 DEF StatusTypes
<1>5. CASE deferred[m] # NoEdit
  BY <1>3, <1>5 DEF DispatchEdit, StatusTypes
<1> QED BY <1>4, <1>5

LEMMA DispatchEditStep ==
  ASSUME StatusInv, NEW h \in Editors, DispatchEdit(h) PROVE StatusInv'
<1> USE DEF StatusInv
<1>1. PICK copy, m : copy = editor[h].copy /\ m = copy.msg
  OBVIOUS
<1>2. PICK pc \in {"save", "done"} : pc = After(h)
  BY DEF After
<1>3. /\ editor[h].pc = "dispatch" /\ EditorMoves(h, pc, copy)
      /\ pc = "save" <=> h \in holder
      /\ outdated' = (outdated \/ Older(h))
      /\ UNCHANGED <<record, holder, lastMsg, shown, astray, refused>>
  BY <1>1, <1>2, EditorWent DEF DispatchEdit, EditorGoes, EditorAt, After, StatusPcs
<1>4. copy.says \in Nat \ {0} /\ m \in Messages /\ m <= lastMsg /\ record.says \in Nat \ {0}
  BY <1>1, <1>3, EditorParts DEF Known
<1>5. /\ deferred' \in [Messages -> Nat] /\ deferred'[m] = copy.says
      /\ \A n \in Messages \ {m} : deferred'[n] = deferred[n]
      /\ editing' \subseteq [msg : Messages, says : Nat, id : Nat] /\ editing \subseteq editing'
      /\ \A w \in editing' \ editing : w.msg = m /\ w.says = NoEdit
      /\ deferred[m] = NoEdit => \E w \in editing' : w.msg = m /\ w.says = NoEdit
      /\ workers' \in Nat
  BY <1>1, <1>4, Dispatches
<1>6. outdated' \in BOOLEAN /\ (outdated => outdated')
  BY <1>3 DEF StatusTypes, Older
<1>7. StatusTypes'
  BY <1>3, <1>5, <1>6 DEF StatusTypes, EditorMoves
<1>16. \A g \in Editors :
        /\ editor'[g].copy = editor[g].copy
        /\ editor'[g].pc = "dispatch" => editor[g].pc = "dispatch"
  BY <1>1, <1>2, <1>3 DEF EditorMoves
<1>8. OneHolder' /\ HeldCopy' /\ SavedCopy'
  <2>1. \A g \in holder : g \in Editors /\ (editor'[g].pc = editor[g].pc \/ (editor'[g].pc = "save" /\ editor[g].pc = "dispatch"))
    BY <1>2, <1>3 DEF EditorMoves, StatusTypes
  <2>2. \A g \in Editors : editor'[g].pc \in {"replace", "replaceAndSave"} => editor'[g].pc = editor[g].pc
    BY <1>2, <1>3 DEF EditorMoves
  <2>3. OneHolder'
    BY <1>3, <2>1, <2>2 DEF OneHolder
  <2>4. HeldCopy'
    BY <1>3, <1>16, <2>1 DEF HeldCopy
  <2>5. SavedCopy'
    BY <1>3, <1>16 DEF SavedCopy
  <2> QED BY <2>3, <2>4, <2>5
<1>9. Known'
  <2>1. \A g \in Editors :
          /\ editor'[g].copy.msg <= lastMsg
          /\ editor'[g].pc = "dispatch" => editor'[g].copy.msg # NoMessage
    BY <1>16 DEF Known
  <2>2. \A n \in Messages : n > lastMsg => deferred'[n] = NoEdit
    <3> SUFFICES ASSUME NEW n \in Messages, n > lastMsg PROVE deferred'[n] = NoEdit
      OBVIOUS
    <3>1. n # m
      BY <1>4 DEF StatusTypes, Messages
    <3> QED BY <1>5, <3>1 DEF Known
  <2>3. \A w \in editing' : w.msg <= lastMsg
    BY <1>4, <1>5 DEF Known
  <2>4. record.msg <= lastMsg
    BY DEF Known
  <2>5. record' = record /\ lastMsg' = lastMsg
    BY <1>3
  <2> QED BY <2>1, <2>2, <2>3, <2>4, <2>5 DEF Known
<1>10. Awake'
  BY <1>4, <1>5 DEF Awake
<1>11. OneEdit'
  BY <1>5, <1>6 DEF OneEdit
<1>12. OneThere'
  BY <1>3 DEF OneThere
<1>13. Refreshing <=> Refreshing'
  BY <1>2, <1>3 DEF Refreshing, EditorMoves
<1>14. Buttons'
  BY <1>3, <1>13 DEF Buttons
<1>15. Text'
  <2> SUFFICES ASSUME ~refused, ~astray, ~outdated', record.msg # NoMessage, ~Owed'
      PROVE  WillSay(record.msg, Due)'
    BY <1>3 DEF Text
  <2>1. ~outdated /\ ~Older(h)
    BY <1>3, <1>6
  <2>2. CASE h \in holder
    <3>1. m = record.msg /\ copy.says = record.says + 1
      BY <1>1, <1>3, <2>2 DEF HeldCopy
    <3>2. Due' = record.says + 1
      BY <1>3, <2>2 DEF Due, ToSave, EditorMoves
    <3> QED BY <1>3, <1>4, <1>5, <3>1, <3>2 DEF WillSay, NoEdit
  <2>3. CASE h \notin holder
    <3>1. Due' = Due
      <4>1. \A g \in holder : editor'[g] = editor[g]
        BY <1>3, <2>3 DEF EditorMoves, StatusTypes
      <4>2. ToSave' <=> ToSave
        BY <1>3, <4>1 DEF ToSave
      <4> QED BY <1>3, <4>2 DEF Due
    <3>2. copy.says = Due
      <4>1. copy.says = record.says
        BY <1>1, <1>3, <1>4, <2>1, <2>3 DEF SavedCopy, Older
      <4>2. ~ToSave
        <5> SUFFICES ASSUME NEW g \in holder, editor[g].pc = "save" PROVE FALSE
          BY DEF ToSave
        <5>1. editor[g].copy.says = record.says + 1 /\ g \in Editors
          BY DEF HeldCopy, StatusTypes
        <5> QED BY <1>1, <1>4, <2>1, <4>1, <5>1 DEF Older, EditorAt
      <4> QED BY <4>1, <4>2 DEF Due
    <3>3. CASE m = record.msg
      BY <1>3, <1>4, <1>5, <3>1, <3>2, <3>3 DEF WillSay, NoEdit
    <3>4. CASE m # record.msg
      <4>1. Owed => Owed'
        BY <1>1, <1>3, <1>13, <3>1, <3>4 DEF Owed, EditorMoves
      <4>2. WillSay(record.msg, Due)
        BY <2>1, <4>1 DEF Text
      <4>3. Showing(record.msg)' = Showing(record.msg)
        BY <1>3, <1>5 DEF Showing
      <4>4. deferred'[record.msg] = deferred[record.msg]
        BY <1>5, <3>4, EditorParts
      <4> QED BY <1>3, <3>1, <4>2, <4>3, <4>4 DEF WillSay
    <3> QED BY <3>3, <3>4
  <2> QED BY <2>2, <2>3
<1> QED BY <1>7, <1>8, <1>9, <1>10, <1>11, <1>12, <1>14, <1>15

LEMMA RefreshBeginStep ==
  ASSUME StatusInv, NEW h \in Editors, RefreshBegin(h) PROVE StatusInv'
<1> USE DEF StatusInv
<1>1. PICK pc \in {"refresh", "refreshAndSave"}, to \in {"done", "save", "replace", "replaceAndSave"} :
        /\ EditorGoes(h, pc, to)
        /\ record.msg = NoMessage => to \in {"done", "save"}
        /\ record.msg # NoMessage => to \in {"replace", "replaceAndSave"}
  BY DEF RefreshBegin
<1>2. /\ editor[h].pc = pc /\ EditorMoves(h, to, editor[h].copy) /\ holder = {}
      /\ UNCHANGED <<record, lastMsg, shown, editing, workers, outdated, astray, refused>>
  BY <1>1, EditorWent DEF EditorGoes, EditorAt, StatusPcs, RefreshBegin, faultVars
<1>3. CASE record.msg = NoMessage
  <2>1. holder' = {} /\ deferred' = deferred
    BY <1>3 DEF RefreshBegin
  <2>2. StatusTypes'
    BY <1>2, <2>1 DEF StatusTypes, EditorMoves
  <2>3. OneHolder' /\ HeldCopy' /\ SavedCopy'
    BY <1>1, <1>2, <1>3, <2>1 DEF OneHolder, HeldCopy, SavedCopy, EditorMoves
  <2>4. Known'
    BY <1>1, <1>2, <1>3, <2>1, KnownStays DEF Known
  <2>5. Awake' /\ OneEdit' /\ OneThere'
    BY <1>2, <2>1 DEF Awake, OneEdit, OneThere
  <2>6. Text' /\ Buttons'
    BY <1>2, <1>3 DEF Text, Buttons
  <2> QED BY <2>2, <2>3, <2>4, <2>5, <2>6
<1>4. CASE record.msg # NoMessage
  <2>1. holder' = {h} /\ deferred' = [deferred EXCEPT ![record.msg] = NoEdit]
    BY <1>4 DEF RefreshBegin
  <2>2. /\ deferred' \in [Messages -> Nat]
        /\ \A m \in Messages : deferred'[m] \in {NoEdit, deferred[m]}
    BY <2>1 DEF StatusTypes, NoEdit
  <2>3. StatusTypes'
    BY <1>2, <2>1, <2>2 DEF StatusTypes, EditorMoves
  <2>4. OneHolder' /\ HeldCopy' /\ SavedCopy'
    BY <1>1, <1>2, <1>4, <2>1 DEF OneHolder, HeldCopy, SavedCopy, EditorMoves
  <2>5. Known'
    <3>1. \A g \in Editors : editor'[g].copy = editor[g].copy /\ (editor'[g].pc = "dispatch" => editor[g].pc = "dispatch")
      BY <1>1, <1>2, <1>4 DEF EditorMoves
    <3>2. \A m \in Messages : m > lastMsg => deferred'[m] = NoEdit
      BY <2>2 DEF Known
    <3> QED BY <1>2, <3>1, <3>2 DEF Known
  <2>6. Awake' /\ OneEdit' /\ OneThere'
    BY <1>2, <2>2 DEF Awake, OneEdit, OneThere
  <2>7. Refreshing'
    BY <1>1, <1>2, <1>4 DEF Refreshing, EditorMoves
  <2>8. Text' /\ Buttons'
    BY <2>7 DEF Text, Owed, Buttons
  <2> QED BY <2>3, <2>4, <2>5, <2>6, <2>8
<1> QED BY <1>3, <1>4

\* What Discord shows after a replacement, and for sure if it refused nothing.
LEMMA Replaces ==
  ASSUME StatusTypes, NEW deleted \in BOOLEAN, NEW created \in BOOLEAN,
         Replace(record.msg, deleted, created)
  PROVE  /\ shown' \in [Messages -> [says : Nat, buttons : BOOLEAN, there : BOOLEAN]]
         /\ lastMsg' \in Messages /\ lastMsg <= lastMsg'
         /\ created => lastMsg' = lastMsg + 1
         /\ refused' \in BOOLEAN /\ (refused => refused')
         /\ ~refused' =>
              /\ created
              /\ shown'[lastMsg'].says = record.says /\ shown'[lastMsg'].buttons = record.connected
              /\ shown'[lastMsg'].there
              /\ \A m \in Messages : m # lastMsg' /\ m # record.msg => shown'[m] = shown[m]
              /\ record.msg \in Messages /\ record.msg # lastMsg' => ~shown'[record.msg].there
<1> DEFINE Shown == [says : Nat, buttons : BOOLEAN, there : BOOLEAN]
<1>1. lastMsg < MaxMessages /\ lastMsg \in Messages /\ lastMsg + 1 \in Messages
  BY StatusAssumption DEF Replace, StatusTypes, Messages
<1>2. PICK without :
        /\ without = IF record.msg = NoMessage \/ ~deleted THEN shown ELSE [shown EXCEPT ![record.msg].there = FALSE]
        /\ shown' = IF created THEN [without EXCEPT ![lastMsg + 1] = Said(record.says, record.connected)]
                               ELSE without
  BY DEF Replace
<1>3. PICK said : said = Said(record.says, record.connected)
  OBVIOUS
<1>4. said \in Shown /\ said.says = record.says /\ said.buttons = record.connected /\ said.there
  BY <1>3 DEF Said, StatusTypes, StatusRecords
<1>5. /\ without \in [Messages -> Shown]
      /\ \A m \in Messages : m # record.msg => without[m] = shown[m]
      /\ record.msg \in Messages /\ deleted => ~without[record.msg].there
  <2>1. CASE record.msg = NoMessage \/ ~deleted
    BY <1>2, <2>1 DEF StatusTypes, Messages, NoMessage
  <2>2. CASE record.msg # NoMessage /\ deleted
    <3>1. record.msg \in Messages
      BY <2>2 DEF StatusTypes, StatusRecords
    <3>2. PICK was : was = [shown[record.msg] EXCEPT !.there = FALSE]
      OBVIOUS
    <3>3. was \in Shown /\ ~was.there
      BY <3>1, <3>2 DEF StatusTypes
    <3>4. without = [shown EXCEPT ![record.msg] = was]
      BY <1>2, <2>2, <3>2
    <3> QED BY <3>1, <3>3, <3>4 DEF StatusTypes
  <2> QED BY <2>1, <2>2
<1>6. /\ shown' \in [Messages -> Shown]
      /\ created => /\ shown'[lastMsg + 1] = said
                    /\ \A m \in Messages : m # lastMsg + 1 => shown'[m] = without[m]
  BY <1>1, <1>2, <1>3, <1>4, <1>5
<1>7. lastMsg' = (IF created THEN lastMsg + 1 ELSE lastMsg) /\ refused' = (refused \/ ~deleted \/ ~created)
  BY DEF Replace
<1>8. lastMsg' \in Messages /\ lastMsg <= lastMsg' /\ (created => lastMsg' = lastMsg + 1)
  BY <1>1, <1>7 DEF Messages
<1>9. refused' \in BOOLEAN /\ (refused => refused') /\ (~refused' => deleted /\ created)
  BY <1>7
<1>10. ~refused' =>
         /\ shown'[lastMsg'].says = record.says /\ shown'[lastMsg'].buttons = record.connected
         /\ shown'[lastMsg'].there
  BY <1>4, <1>6, <1>8, <1>9
<1>11. ~refused' =>
         /\ \A m \in Messages : m # lastMsg' /\ m # record.msg => shown'[m] = shown[m]
         /\ record.msg \in Messages /\ record.msg # lastMsg' => ~shown'[record.msg].there
  BY <1>5, <1>6, <1>8, <1>9
<1> QED BY <1>6, <1>8, <1>9, <1>10, <1>11

\* With a new message all is well again.
LEMMA NewMessage ==
  ASSUME StatusInv, NEW h \in Editors, NEW pc \in {"done", "save"}, NEW deleted \in BOOLEAN,
         NEW created \in BOOLEAN, NEW msg \in {record.msg, NoMessage},
         EditorMoves(h, pc, editor[h].copy), holder \subseteq {h}, holder' = {},
         Replace(record.msg, deleted, created),
         record' = [record EXCEPT !.msg = IF created THEN lastMsg + 1 ELSE msg],
         UNCHANGED <<deferred, editing, workers, outdated, astray>>
  PROVE  StatusInv'
<1> USE DEF StatusInv
<1>1. /\ shown' \in [Messages -> [says : Nat, buttons : BOOLEAN, there : BOOLEAN]]
      /\ lastMsg' \in Messages /\ lastMsg <= lastMsg'
      /\ created => lastMsg' = lastMsg + 1
      /\ refused' \in BOOLEAN /\ (refused => refused')
      /\ ~refused' =>
           /\ created
           /\ shown'[lastMsg'].says = record.says /\ shown'[lastMsg'].buttons = record.connected
           /\ shown'[lastMsg'].there
           /\ \A m \in Messages : m # lastMsg' /\ m # record.msg => shown'[m] = shown[m]
           /\ record.msg \in Messages /\ record.msg # lastMsg' => ~shown'[record.msg].there
  BY Replaces
<1>2. lastMsg \in Nat /\ lastMsg' \in Nat /\ record.msg <= lastMsg /\ record.msg \in Messages \cup {NoMessage}
      /\ record \in StatusRecords
  BY <1>1 DEF StatusTypes, StatusRecords, Messages, Known
<1>3. PICK new : new = (IF created THEN lastMsg + 1 ELSE msg)
  OBVIOUS
<1>4. new \in Messages \cup {NoMessage} /\ new <= lastMsg' /\ (created => new = lastMsg')
  BY <1>1, <1>2, <1>3 DEF Messages, NoMessage
<1>5. /\ record' \in StatusRecords /\ record'.msg = new /\ record'.says = record.says
      /\ record'.connected = record.connected
  BY <1>2, <1>3, <1>4 DEF StatusRecords
<1>6. StatusTypes'
  BY <1>1, <1>5 DEF StatusTypes, EditorMoves
<1>7. OneHolder' /\ HeldCopy'
  BY DEF OneHolder, HeldCopy, EditorMoves
<1>8. SavedCopy'
  <2>1. \A g \in Editors : editor'[g].pc = "dispatch" => g # h /\ editor'[g] = editor[g]
    BY DEF EditorMoves
  <2> QED BY <1>5, <2>1 DEF SavedCopy
<1>9. Known'
  <2>1. \A g \in Editors : editor'[g].copy = editor[g].copy /\ (editor'[g].pc = "dispatch" => editor[g].pc = "dispatch")
    BY DEF EditorMoves
  <2>2. \A g \in Editors : editor[g].copy.msg \in Nat
    BY EditorParts DEF Messages, NoMessage
  <2>3. \A g \in Editors : /\ editor'[g].copy.msg <= lastMsg'
                          /\ (editor'[g].pc = "dispatch" => editor'[g].copy.msg # NoMessage)
    BY <1>1, <1>2, <2>1, <2>2 DEF Known
  <2>4. \A m \in Messages : m > lastMsg' => deferred[m] = NoEdit
    BY <1>1, <1>2 DEF Known, Messages
  <2>5. \A w \in editing : w.msg <= lastMsg'
    BY <1>1, <1>2 DEF Known, Messages, StatusTypes
  <2> QED BY <1>4, <1>5, <2>3, <2>4, <2>5 DEF Known
<1>10. Awake' /\ OneEdit'
  BY DEF Awake, OneEdit
<1>11. OneThere'
  BY <1>1, <1>2, <1>4, <1>5 DEF OneThere
<1>12. Text'
  <2> SUFFICES ASSUME ~refused', ~astray, ~outdated PROVE WillSay(record.msg, Due)'
    BY DEF Text
  <2>1. Due' = record.says
    BY <1>5 DEF Due, ToSave
  <2>2. deferred[lastMsg'] = NoEdit /\ Showing(lastMsg') = {}
    BY <1>1, <1>2 DEF Known, Showing, Messages, StatusTypes
  <2> QED BY <1>1, <1>4, <1>5, <2>1, <2>2 DEF WillSay, Showing
<1>13. Buttons'
  BY <1>1, <1>4, <1>5 DEF Buttons
<1> QED BY <1>6, <1>7, <1>8, <1>9, <1>10, <1>11, <1>12, <1>13

LEMMA RefreshReplaceStep ==
  ASSUME StatusInv, NEW h \in Editors, NEW deleted \in BOOLEAN, NEW created \in BOOLEAN,
         RefreshReplace(h, deleted, created)
  PROVE  StatusInv'
<1>1. StatusTypes /\ OneHolder
  BY DEF StatusInv
<1>2. PICK pc \in {"done", "save"} :
        editor' = [editor EXCEPT ![h].pc = pc] /\ editor[h].pc \in {"replace", "replaceAndSave"}
  BY DEF RefreshReplace, EditorGoes, EditorAt
<1>3. EditorMoves(h, pc, editor[h].copy)
  BY <1>1, <1>2, EditorWent DEF StatusPcs
<1>4. holder \subseteq {h}
  BY <1>1, <1>2 DEF OneHolder
<1>5. PICK msg \in {record.msg, NoMessage} : msg = record.msg
  OBVIOUS
<1>6. record' = [record EXCEPT !.msg = IF created THEN lastMsg + 1 ELSE msg]
  BY <1>1, <1>5 DEF RefreshReplace, StatusTypes, StatusRecords
<1>7. /\ Replace(record.msg, deleted, created) /\ holder' = {}
      /\ UNCHANGED <<deferred, editing, workers, outdated, astray>>
  BY DEF RefreshReplace, editVars
<1> QED BY <1>3, <1>4, <1>6, <1>7, NewMessage

LEMMA StartGameStep ==
  ASSUME StatusInv, NEW h \in Editors, NEW deleted \in BOOLEAN, NEW created \in BOOLEAN,
         StartGame(h, deleted, created)
  PROVE  StatusInv'
<1>1. EditorMoves(h, "done", editor[h].copy)
  BY EditorWent DEF StartGame, EditorGoes, StatusInv, StatusPcs
<1>2. holder \subseteq {h} /\ holder' = {}
  BY DEF StartGame
<1>3. record' = [record EXCEPT !.msg = IF created THEN lastMsg + 1 ELSE NoMessage]
  BY DEF StartGame
<1>4. Replace(record.msg, deleted, created) /\ UNCHANGED <<deferred, editing, workers, outdated, astray>>
  BY DEF StartGame, editVars
<1> QED BY <1>1, <1>2, <1>3, <1>4, NewMessage

LEMMA EndGameStep ==
  ASSUME StatusInv, NEW h \in Editors, EndGame(h) PROVE StatusInv'
<1> USE DEF StatusInv
<1>1. /\ editor[h].pc = "new" /\ EditorMoves(h, "done", editor[h].copy)
      /\ holder = {} /\ record.msg # NoMessage
      /\ UNCHANGED <<holder, lastMsg, deferred, editing, workers, outdated, astray, refused>>
  BY EditorWent DEF EndGame, EditorGoes, EditorAt, StatusPcs, editVars, faultVars
<1>2. record' \in StatusRecords /\ record'.msg = NoMessage /\ record'.says = record.says
  BY DEF EndGame, StatusTypes, StatusRecords
<1>3. /\ shown' \in [Messages -> [says : Nat, buttons : BOOLEAN, there : BOOLEAN]]
      /\ ~shown'[record.msg].there
      /\ \A m \in Messages : m # record.msg => shown'[m] = shown[m]
  <2>1. record.msg \in Messages
    BY <1>1 DEF StatusTypes, StatusRecords
  <2>2. PICK was : was = [shown[record.msg] EXCEPT !.there = FALSE]
    OBVIOUS
  <2>3. was \in [says : Nat, buttons : BOOLEAN, there : BOOLEAN] /\ ~was.there
    BY <2>1, <2>2 DEF StatusTypes
  <2>4. shown' = [shown EXCEPT ![record.msg] = was]
    BY <2>2 DEF EndGame
  <2> QED BY <2>1, <2>3, <2>4 DEF StatusTypes
<1>4. StatusTypes'
  BY <1>1, <1>2, <1>3 DEF StatusTypes, EditorMoves
<1>5. OneHolder' /\ HeldCopy' /\ SavedCopy'
  BY <1>1, <1>2 DEF OneHolder, HeldCopy, SavedCopy, EditorMoves
<1>6. Known'
  <2>1. \A g \in Editors : editor'[g].copy = editor[g].copy /\ (editor'[g].pc = "dispatch" => editor[g].pc = "dispatch")
    BY <1>1 DEF EditorMoves
  <2>2. NoMessage <= lastMsg
    BY DEF StatusTypes, Messages, NoMessage
  <2> QED BY <1>1, <1>2, <2>1, <2>2 DEF Known
<1>7. Awake' /\ OneEdit'
  BY <1>1 DEF Awake, OneEdit
<1>8. OneThere'
  BY <1>1, <1>2, <1>3 DEF OneThere, Messages, NoMessage
<1>9. Text' /\ Buttons'
  BY <1>2 DEF Text, Buttons
<1> QED BY <1>4, <1>5, <1>6, <1>7, <1>8, <1>9

-----------------------------------------------------------------------------
(* The steps of edits *)

\* Edits do not touch the record, nor those who work on it.
LEMMA EditsApart ==
  ASSUME StatusInv, UNCHANGED <<record, editor, holder, lastMsg, astray>>
  PROVE  /\ OneHolder' /\ HeldCopy' /\ SavedCopy'
         /\ Due' = Due /\ (Owed' <=> Owed) /\ (Refreshing' <=> Refreshing)
<1>1. OneHolder' /\ HeldCopy' /\ SavedCopy' /\ (Refreshing' <=> Refreshing)
  BY DEF StatusInv, OneHolder, HeldCopy, SavedCopy, Refreshing
<1>2. Due' = Due
  BY DEF Due, ToSave
<1>3. Owed' <=> Owed
  BY <1>1, <1>2 DEF Owed
<1> QED BY <1>1, <1>2, <1>3

LEMMA TakeEditStep ==
  ASSUME StatusInv, NEW w \in editing, TakeEdit(w) PROVE StatusInv'
<1> USE DEF StatusInv
<1>1. /\ UNCHANGED <<record, editor, holder, lastMsg, shown, workers, astray, refused>>
      /\ w.says = NoEdit /\ deferred' = [deferred EXCEPT ![w.msg] = NoEdit]
      /\ w \in [msg : Messages, says : Nat, id : Nat] /\ w.msg <= lastMsg
  BY DEF TakeEdit, StatusTypes, Known
<1>2. /\ deferred' \in [Messages -> Nat] /\ deferred'[w.msg] = NoEdit
      /\ \A m \in Messages : m # w.msg => deferred'[m] = deferred[m]
  BY <1>1 DEF StatusTypes, NoEdit
<1>3. /\ OneHolder' /\ HeldCopy' /\ SavedCopy'
      /\ Due' = Due /\ (Owed' <=> Owed) /\ (Refreshing' <=> Refreshing)
  BY <1>1, EditsApart
<1>4. OneThere' /\ Buttons'
  BY <1>1, <1>3 DEF OneThere, Buttons
<1>5. CASE deferred[w.msg] = NoEdit
  <2>1. editing' = editing \ {w} /\ outdated' = outdated /\ deferred' = deferred
    BY <1>1, <1>5 DEF TakeEdit, StatusTypes
  <2>2. StatusTypes' /\ Known' /\ OneEdit'
    BY <1>1, <2>1 DEF StatusTypes, Known, OneEdit
  <2>3. Awake'
    BY <1>5, <2>1 DEF Awake
  <2>4. Showing(record.msg)' = Showing(record.msg)
    BY <1>1, <2>1 DEF Showing
  <2>5. Text'
    BY <1>1, <1>3, <2>1, <2>4 DEF Text, WillSay
  <2> QED BY <1>3, <1>4, <2>2, <2>3, <2>5
<1>6. CASE deferred[w.msg] # NoEdit
  <2>1. PICK n : n = [w EXCEPT !.says = deferred[w.msg]]
    OBVIOUS
  <2>2. /\ n \in [msg : Messages, says : Nat, id : Nat] /\ n.msg = w.msg
        /\ n.says = deferred[w.msg] /\ n.says # NoEdit
    BY <1>1, <1>6, <2>1 DEF StatusTypes
  <2>3. editing' = (editing \ {w}) \cup {n}
    BY <1>6, <2>1 DEF TakeEdit
  <2>4. outdated' = (outdated \/ \E v \in editing : v.msg = w.msg /\ v.says # NoEdit)
    BY <1>6 DEF TakeEdit
  <2>5. outdated' \in BOOLEAN
    BY <2>4
  <2>6. StatusTypes'
    BY <1>1, <1>2, <2>2, <2>3, <2>5 DEF StatusTypes
  <2>7. Known'
    BY <1>1, <1>2, <2>2, <2>3 DEF Known
  <2>8. Awake'
    <3> SUFFICES ASSUME NEW m \in Messages, deferred'[m] # NoEdit
        PROVE  \E v \in editing' : v.msg = m /\ v.says = NoEdit
      BY DEF Awake
    <3>1. m # w.msg /\ deferred[m] # NoEdit
      BY <1>2
    <3>2. PICK v \in editing : v.msg = m /\ v.says = NoEdit
      BY <3>1 DEF Awake
    <3> QED BY <2>3, <3>1, <3>2
  <2>9. OneEdit'
    <3> SUFFICES ASSUME ~outdated', NEW u \in editing', NEW v \in editing',
                        u.msg = v.msg, u.says # NoEdit, v.says # NoEdit
        PROVE  u = v
      BY DEF OneEdit
    <3>1. ~outdated /\ ~\E x \in editing : x.msg = w.msg /\ x.says # NoEdit
      BY <2>4
    <3> QED BY <2>2, <2>3, <3>1 DEF OneEdit
  <2>10. Text'
    <3> SUFFICES ASSUME ~refused, ~astray, ~outdated', record.msg # NoMessage, ~Owed
        PROVE  WillSay(record.msg, Due)'
      BY <1>1, <1>3 DEF Text
    <3>1. record.msg \in Messages /\ WillSay(record.msg, Due)
      BY <2>4 DEF Text, StatusTypes, StatusRecords
    <3>2. CASE w.msg = record.msg
      <4>1. n \in Showing(record.msg)' /\ n.says = Due
        BY <1>1, <1>6, <2>2, <2>3, <3>1, <3>2 DEF Showing, WillSay
      <4> QED BY <1>1, <1>2, <1>3, <3>2, <4>1 DEF WillSay
    <3>3. CASE w.msg # record.msg
      <4>1. Showing(record.msg)' = Showing(record.msg)
        BY <1>1, <2>2, <2>3, <3>3 DEF Showing
      <4>2. deferred'[record.msg] = deferred[record.msg]
        BY <1>2, <3>1, <3>3
      <4> QED BY <1>1, <1>3, <3>1, <4>1, <4>2 DEF WillSay
    <3> QED BY <3>2, <3>3
  <2> QED BY <1>3, <1>4, <2>6, <2>7, <2>8, <2>9, <2>10
<1> QED BY <1>5, <1>6

LEMMA EditShownStep ==
  ASSUME StatusInv, NEW w \in editing, EditShown(w) PROVE StatusInv'
<1> USE DEF StatusInv
<1>1. /\ UNCHANGED <<record, editor, holder, lastMsg, deferred, workers, outdated, astray, refused>>
      /\ w.says # NoEdit /\ editing' = editing \ {w}
      /\ shown' = [shown EXCEPT ![w.msg].says = w.says]
      /\ w \in [msg : Messages, says : Nat, id : Nat]
  BY DEF EditShown, StatusTypes, faultVars
<1>2. /\ shown' \in [Messages -> [says : Nat, buttons : BOOLEAN, there : BOOLEAN]]
      /\ shown'[w.msg].says = w.says
      /\ shown'[w.msg].buttons = shown[w.msg].buttons /\ shown'[w.msg].there = shown[w.msg].there
      /\ \A m \in Messages : m # w.msg => shown'[m] = shown[m]
  <2>1. PICK now : now = [shown[w.msg] EXCEPT !.says = w.says]
    OBVIOUS
  <2>2. /\ now \in [says : Nat, buttons : BOOLEAN, there : BOOLEAN] /\ now.says = w.says
        /\ now.buttons = shown[w.msg].buttons /\ now.there = shown[w.msg].there
    BY <1>1, <2>1 DEF StatusTypes
  <2>3. shown' = [shown EXCEPT ![w.msg] = now]
    BY <1>1, <2>1
  <2> QED BY <1>1, <2>2, <2>3 DEF StatusTypes
<1>3. /\ OneHolder' /\ HeldCopy' /\ SavedCopy'
      /\ Due' = Due /\ (Owed' <=> Owed) /\ (Refreshing' <=> Refreshing)
  BY <1>1, EditsApart
<1>4. StatusTypes' /\ Known' /\ Awake' /\ OneEdit'
  BY <1>1, <1>2 DEF StatusTypes, Known, Awake, OneEdit
<1>5. \A m \in Messages : shown'[m].there = shown[m].there /\ shown'[m].buttons = shown[m].buttons
  BY <1>1, <1>2
<1>6. OneThere'
  BY <1>1, <1>5 DEF OneThere
<1>7. record.msg \in Messages \cup {NoMessage}
  BY DEF StatusTypes, StatusRecords
<1>8. Buttons'
  BY <1>1, <1>3, <1>5, <1>7 DEF Buttons
<1>9. Text'
  <2> SUFFICES ASSUME ~refused, ~astray, ~outdated, record.msg # NoMessage, ~Owed
      PROVE  WillSay(record.msg, Due)'
    BY <1>1, <1>3 DEF Text
  <2>1. WillSay(record.msg, Due)
    BY DEF Text
  <2>2. CASE w.msg = record.msg
    <3>1. \A v \in Showing(record.msg) : v = w
      BY <1>1, <2>2 DEF OneEdit, Showing
    <3>2. w \in Showing(record.msg) /\ Showing(record.msg)' = {}
      BY <1>1, <2>2, <3>1 DEF Showing
    <3> QED BY <1>1, <1>2, <1>3, <2>1, <2>2, <3>1, <3>2 DEF WillSay
  <2>3. CASE w.msg # record.msg
    <3>1. Showing(record.msg)' = Showing(record.msg)
      BY <1>1, <2>3 DEF Showing
    <3> QED BY <1>1, <1>2, <1>3, <1>7, <2>1, <2>3, <3>1 DEF WillSay
  <2> QED BY <2>2, <2>3
<1> QED BY <1>3, <1>4, <1>6, <1>8, <1>9

LEMMA EditRefusedStep ==
  ASSUME StatusInv, NEW w \in editing, EditRefused(w) PROVE StatusInv'
<1> USE DEF StatusInv
<1>1. /\ UNCHANGED <<record, editor, holder, lastMsg, shown, deferred, workers, outdated, astray>>
      /\ w.says # NoEdit /\ editing' = editing \ {w} /\ refused' = TRUE
  BY DEF EditRefused
<1>2. OneHolder' /\ HeldCopy' /\ SavedCopy'
  BY <1>1, EditsApart
<1>3. StatusTypes' /\ Known' /\ Awake' /\ OneEdit'
  BY <1>1 DEF StatusTypes, Known, Awake, OneEdit
<1>4. OneThere' /\ Text' /\ Buttons'
  BY <1>1 DEF OneThere, Text, Buttons
<1> QED BY <1>2, <1>3, <1>4

\* An hour passes, or nothing.
LEMMA StatusIdles ==
  ASSUME StatusInv, UNCHANGED <<record, editor, holder, lastMsg, shown, editVars, outdated, astray, refused>>
  PROVE  StatusInv'
<1> USE DEF StatusInv, editVars
<1>1. /\ OneHolder' /\ HeldCopy' /\ SavedCopy'
      /\ Due' = Due /\ (Owed' <=> Owed) /\ (Refreshing' <=> Refreshing)
  BY EditsApart
<1>2. StatusTypes' /\ Known' /\ Awake' /\ OneEdit' /\ OneThere'
  BY DEF StatusTypes, Known, Awake, OneEdit, OneThere
<1>3. Text' /\ Buttons'
  BY <1>1, TextStays DEF Buttons
<1> QED BY <1>1, <1>2, <1>3

LEMMA StatusSteps == StatusInv /\ [StatusNext]_statusVars => StatusInv'
<1> SUFFICES ASSUME StatusInv, [StatusNext]_statusVars PROVE StatusInv'
  OBVIOUS
<1>1. ASSUME NEW m \in Messages, HourPasses(m) PROVE StatusInv'
  BY <1>1, StatusIdles DEF HourPasses, faultVars
<1>2. CASE UNCHANGED statusVars
  BY <1>2, StatusIdles DEF statusVars, editVars
<1> QED BY <1>1, <1>2, ChangeAndSaveStep, ChangeAndHoldStep, RefreshAskedSteps, SaveStep,
           DispatchEditStep, RefreshBeginStep, RefreshReplaceStep, StartGameStep, EndGameStep,
           TakeEditStep, EditShownStep, EditRefusedStep DEF StatusNext

LEMMA StatusInvariant == StatusSpec => []StatusInv
BY StatusStarts, StatusSteps, PTL DEF StatusSpec

\* Record, message and edits keep their types, and one handler at most holds the lock.
THEOREM StatusTypeCorrect == StatusSpec => []StatusTypeOK
<1>1. StatusInv => StatusTypeOK
  <2> SUFFICES ASSUME StatusInv PROVE StatusTypeOK OBVIOUS
  <2>1. Cardinality(holder) <= 1
    <3>1. \A g, h \in holder : g = h BY DEF StatusInv, OneHolder
    <3>2. CASE holder = {} BY <3>2, FS_EmptySet
    <3>3. CASE holder # {}
      <4>1. PICK h \in holder : holder = {h} BY <3>1, <3>3
      <4>2. Cardinality({h}) = 1 BY FS_Singleton
      <4> QED BY <4>1, <4>2
    <3> QED BY <3>2, <3>3
  <2>2. \A w \in editing : w.msg \in Messages BY DEF StatusInv, StatusTypes
  <2> QED BY <2>1, <2>2 DEF StatusInv, StatusTypes, StatusRecords, StatusTypeOK
<1> QED BY <1>1, StatusInvariant, PTL

(* bot.go: whatever refreshes, starts and ends meet, and whatever waits    *)
(* for an edit, the game has its one message, and none when it is over -   *)
(* while no lease lapses under its holder and Discord refuses nothing.     *)
THEOREM MessageIsOne == StatusSpec => []OneMessage
<1>1. StatusInv => OneMessage
  <2> SUFFICES ASSUME StatusInv, ~refused, ~astray
      PROVE  {m \in Messages : shown[m].there} = {record.msg} \ {NoMessage}
    BY DEF OneMessage
  <2>1. \A m \in Messages : shown[m].there <=> m = record.msg
    BY DEF StatusInv, OneThere
  <2>2. record.msg \in Messages \/ record.msg = NoMessage
    BY DEF StatusInv, StatusTypes, StatusRecords
  <2>3. NoMessage \notin Messages
    BY DEF NoMessage, Messages
  <2> QED BY <2>1, <2>2, <2>3
<1> QED BY <1>1, StatusInvariant, PTL

(* gameStateMessage.go: no edit is forgotten.  However many handlers       *)
(* dispatch edits and refreshes, what the message says in the end is what  *)
(* the record says, under the reservations that MessageShowsRecord names.  *)
THEOREM MessageIsRight == StatusSpec => []MessageShowsRecord
<1>1. StatusInv => MessageShowsRecord
  <2> SUFFICES ASSUME StatusInv, Quiet, record.msg # NoMessage, ~refused, ~outdated, ~astray
      PROVE  shown[record.msg] = Said(record.says, record.connected)
    BY DEF MessageShowsRecord
  <2>1. record.msg \in Messages /\ shown[record.msg] \in [says : Nat, buttons : BOOLEAN, there : BOOLEAN]
    BY DEF StatusInv, StatusTypes, StatusRecords
  <2>2. ~Owed /\ ~Refreshing /\ Due = record.says
    BY DEF Quiet, Owed, Refreshing, Due, ToSave
  <2>3. deferred[record.msg] = NoEdit /\ Showing(record.msg) = {}
    BY <2>1 DEF StatusInv, Awake, Quiet, Showing
  <2>4. shown[record.msg].says = record.says
    BY <2>2, <2>3 DEF StatusInv, Text, WillSay
  <2>5. shown[record.msg].buttons = record.connected
    BY <2>2 DEF StatusInv, Buttons
  <2>6. shown[record.msg].there = TRUE
    BY <2>1 DEF StatusInv, OneThere
  <2> QED BY <2>1, <2>4, <2>5, <2>6 DEF Said
<1> QED BY <1>1, StatusInvariant, PTL

-----------------------------------------------------------------------------
(* GuildSettings *)

SettingSpec == SettingInit /\ [][SettingNext]_settingVars

\* What a function of package setting makes of two records that agree on the setting.
Alike(A, B, s, t, name) ==
  \/ A = {} /\ B = {}
  \/ \E v : A = Put(s, name, v) /\ B = Put(t, name, v)

(* setting_handler.go:32-71: which value a use of /settings asks for, and  *)
(* whether it is refused, depends on no setting but its own.               *)
LEMMA FreeAlike ==
  ASSUME NEW s, NEW t, NEW name, NEW args, s[name] = t[name]
  PROVE  Alike(FreeSetting(s, name, args), FreeSetting(t, name, args), s, t, name)
<1>1. CASE name = "language"
  <2>1. FreeSetting(s, name, args) = FnLanguage(s, args) /\ FreeSetting(t, name, args) = FnLanguage(t, args)
    BY <1>1 DEF FreeSetting
  <2> QED BY <1>1, <2>1 DEF FnLanguage, Asked, Same, Alike
<1>2. CASE name = "admin-user-ids"
  <2>1. FreeSetting(s, name, args) = FnAdminUserIDs(s, args) /\ FreeSetting(t, name, args) = FnAdminUserIDs(t, args)
    BY <1>2 DEF FreeSetting
  <2> QED BY <1>2, <2>1 DEF FnAdminUserIDs, IdList, Alike
<1>3. CASE name = "operator-roles"
  <2>1. FreeSetting(s, name, args) = FnPermissionRoleIDs(s, args) /\ FreeSetting(t, name, args) = FnPermissionRoleIDs(t, args)
    BY <1>3 DEF FreeSetting
  <2> QED BY <1>3, <2>1 DEF FnPermissionRoleIDs, IdList, Alike
<1>4. CASE name = "unmute-dead"
  <2>1. FreeSetting(s, name, args) = FnUnmuteDeadDuringTasks(s, args) /\ FreeSetting(t, name, args) = FnUnmuteDeadDuringTasks(t, args)
    BY <1>4 DEF FreeSetting
  <2> QED BY <1>4, <2>1 DEF FnUnmuteDeadDuringTasks, Switch, Asked, Alike
<1>5. CASE name = "map-version"
  <2>1. FreeSetting(s, name, args) = FnMapVersion(s, args) /\ FreeSetting(t, name, args) = FnMapVersion(t, args)
    BY <1>5 DEF FreeSetting
  <2> QED BY <1>5, <2>1 DEF FnMapVersion, Asked, Alike
<1>6. CASE name = "delays"
  <2>1. FreeSetting(s, name, args) = FnDelays(s, args) /\ FreeSetting(t, name, args) = FnDelays(t, args)
    BY <1>6 DEF FreeSetting
  <2> QED BY <1>6, <2>1 DEF FnDelays, Alike
<1>7. CASE name = "voice-rules"
  <2>1. FreeSetting(s, name, args) = FnVoiceRules(s, args) /\ FreeSetting(t, name, args) = FnVoiceRules(t, args)
    BY <1>7 DEF FreeSetting
  <2> QED BY <1>7, <2>1 DEF FnVoiceRules, Alike
<1>8. CASE name \notin FreeSettings
  <2>1. FreeSetting(s, name, args) = {} /\ FreeSetting(t, name, args) = {}
    BY <1>8 DEF FreeSetting, FreeSettings
  <2> QED BY <2>1 DEF Alike
<1> QED BY <1>1, <1>2, <1>3, <1>4, <1>5, <1>6, <1>7, <1>8 DEF FreeSettings

(* The same of the premium settings. *)
LEMMA PaidAlike ==
  ASSUME NEW s, NEW t, NEW name, NEW args, s[name] = t[name]
  PROVE  Alike(PaidSetting(s, name, args), PaidSetting(t, name, args), s, t, name)
<1>1. CASE name = "match-summary-duration"
  <2>1. PaidSetting(s, name, args) = FnMatchSummary(s, args) /\ PaidSetting(t, name, args) = FnMatchSummary(t, args)
    BY <1>1 DEF PaidSetting
  <2> QED BY <1>1, <2>1 DEF FnMatchSummary, Asked, Same, Alike
<1>2. CASE name = "match-summary-channel"
  <2>1. PaidSetting(s, name, args) = FnMatchSummaryChannel(s, args) /\ PaidSetting(t, name, args) = FnMatchSummaryChannel(t, args)
    BY <1>2 DEF PaidSetting
  <2> QED BY <1>2, <2>1 DEF FnMatchSummaryChannel, Asked, Same, Alike
<1>3. CASE name = "auto-refresh"
  <2>1. PaidSetting(s, name, args) = FnAutoRefresh(s, args) /\ PaidSetting(t, name, args) = FnAutoRefresh(t, args)
    BY <1>3 DEF PaidSetting
  <2> QED BY <1>3, <2>1 DEF FnAutoRefresh, Switch, Asked, Alike
<1>4. CASE name = "leaderboard-mention"
  <2>1. PaidSetting(s, name, args) = FnLeaderboardNameMention(s, args) /\ PaidSetting(t, name, args) = FnLeaderboardNameMention(t, args)
    BY <1>4 DEF PaidSetting
  <2> QED BY <1>4, <2>1 DEF FnLeaderboardNameMention, Asked, Alike
<1>5. CASE name = "leaderboard-size"
  <2>1. PaidSetting(s, name, args) = FnLeaderboardSize(s, args) /\ PaidSetting(t, name, args) = FnLeaderboardSize(t, args)
    BY <1>5 DEF PaidSetting
  <2> QED BY <1>5, <2>1 DEF FnLeaderboardSize, Asked, Same, Alike
<1>6. CASE name = "leaderboard-min"
  <2>1. PaidSetting(s, name, args) = FnLeaderboardMin(s, args) /\ PaidSetting(t, name, args) = FnLeaderboardMin(t, args)
    BY <1>6 DEF PaidSetting
  <2> QED BY <1>6, <2>1 DEF FnLeaderboardMin, Asked, Same, Alike
<1>7. CASE name = "mute-spectators"
  <2>1. PaidSetting(s, name, args) = FnMuteSpectators(s, args) /\ PaidSetting(t, name, args) = FnMuteSpectators(t, args)
    BY <1>7 DEF PaidSetting
  <2> QED BY <1>7, <2>1 DEF FnMuteSpectators, Switch, Asked, Alike
<1>8. CASE name = "display-room-code"
  <2>1. PaidSetting(s, name, args) = FnDisplayRoomCode(s, args) /\ PaidSetting(t, name, args) = FnDisplayRoomCode(t, args)
    BY <1>8 DEF PaidSetting
  <2> QED BY <1>8, <2>1 DEF FnDisplayRoomCode, Asked, Same, Alike
<1>9. CASE name \notin PremiumSettings
  <2>1. PaidSetting(s, name, args) = {} /\ PaidSetting(t, name, args) = {}
    BY <1>9 DEF PaidSetting, PremiumSettings
  <2> QED BY <2>1 DEF Alike
<1> QED BY <1>1, <1>2, <1>3, <1>4, <1>5, <1>6, <1>7, <1>8, <1>9 DEF PremiumSettings

LEMMA OtherNames ==
  /\ FreeSettings \cap PremiumSettings = {} /\ "reset" \notin SettingNames
  /\ \A s, args, name : name \notin FreeSettings => FreeSetting(s, name, args) = {}
  /\ \A s, args, name : name \notin PremiumSettings => PaidSetting(s, name, args) = {}
<1>1. FreeSettings \cap PremiumSettings = {} /\ "reset" \notin SettingNames
  BY DEF FreeSettings, PremiumSettings, SettingNames
<1>2. ASSUME NEW s, NEW args, NEW name, name \notin FreeSettings PROVE FreeSetting(s, name, args) = {}
  BY <1>2 DEF FreeSetting, FreeSettings
<1>3. ASSUME NEW s, NEW args, NEW name, name \notin PremiumSettings PROVE PaidSetting(s, name, args) = {}
  BY <1>3 DEF PaidSetting, PremiumSettings
<1> QED BY <1>1, <1>2, <1>3

(* setting_handler.go:32-94: a use of /settings for another name than      *)
(* reset is refused for both of two records that agree on that setting, or *)
(* sets it to the same value in both.                                      *)
LEMMA HandlerAlike ==
  ASSUME NEW s, NEW t, NEW name \in SettingNames, NEW args, NEW prem \in BOOLEAN, s[name] = t[name]
  PROVE  Alike(HandleSettingsCommand(s, name, args, prem), HandleSettingsCommand(t, name, args, prem),
               s, t, name)
<1>1. name # "reset" BY OtherNames
<1>2. CASE name \in FreeSettings
  <2>1. name \notin PremiumSettings BY <1>2, OtherNames
  <2>2. /\ HandleSettingsCommand(s, name, args, prem) = FreeSetting(s, name, args)
        /\ HandleSettingsCommand(t, name, args, prem) = FreeSetting(t, name, args)
    BY <1>1, <2>1, OtherNames DEF HandleSettingsCommand
  <2> QED BY <2>2, FreeAlike
<1>3. CASE name \in PremiumSettings /\ prem
  <2>1. name \notin FreeSettings BY <1>3, OtherNames
  <2>2. /\ HandleSettingsCommand(s, name, args, prem) = PaidSetting(s, name, args)
        /\ HandleSettingsCommand(t, name, args, prem) = PaidSetting(t, name, args)
    BY <1>1, <1>3, <2>1, OtherNames DEF HandleSettingsCommand
  <2> QED BY <2>2, PaidAlike
<1>4. CASE name \in PremiumSettings /\ ~prem
  <2>1. name \notin FreeSettings BY <1>4, OtherNames
  <2>2. /\ HandleSettingsCommand(s, name, args, prem) = {}
        /\ HandleSettingsCommand(t, name, args, prem) = {}
    BY <1>1, <1>4, <2>1, OtherNames DEF HandleSettingsCommand
  <2> QED BY <2>2 DEF Alike
<1> QED BY <1>2, <1>3, <1>4 DEF SettingNames

(* What is stored is the record that was read with that setting changed; a *)
(* premium setting is changed with premium only.                           *)
LEMMA HandlerChangesOne ==
  ASSUME NEW s, NEW name \in SettingNames, NEW args, NEW prem \in BOOLEAN,
         NEW r \in HandleSettingsCommand(s, name, args, prem)
  PROVE  /\ \E v : r = [s EXCEPT ![name] = v]
         /\ prem \/ name \in FreeSettings
<1>1. \E v : r = [s EXCEPT ![name] = v]
  <2>1. Alike(HandleSettingsCommand(s, name, args, prem), HandleSettingsCommand(s, name, args, prem),
              s, s, name)
    BY HandlerAlike
  <2>2. PICK v : HandleSettingsCommand(s, name, args, prem) = Put(s, name, v) BY <2>1 DEF Alike
  <2> QED BY <2>2 DEF Put
<1>2. ASSUME ~prem, name \notin FreeSettings PROVE FALSE
  <2>1. name # "reset" BY OtherNames
  <2> QED BY <1>2, <2>1, OtherNames DEF HandleSettingsCommand
<1> QED BY <1>1, <1>2

LEMMA Reset ==
  ASSUME NEW s, NEW args, NEW prem
  PROVE  HandleSettingsCommand(s, "reset", args, prem) = {MakeGuildSettings}
BY DEF HandleSettingsCommand

LEMMA NamesOfInvocations ==
  ASSUME NEW i \in Invocations
  PROVE  i[1] \in SettingNames \/ i[1] = "reset"
<1> DEFINE free == UNION {{<<n, args>> : args \in FreeArguments(n)} : n \in FreeSettings}
           prem == UNION {{<<n, args>> : args \in PremiumArguments(n)} : n \in PremiumSettings}
           reset == <<"reset", <<>>>>
<1>1. i \in free \/ i \in prem \/ i = reset BY DEF Invocations
<1>2. i \in free \/ i \in prem => i[1] \in SettingNames BY DEF SettingNames
<1>3. reset[1] = "reset" OBVIOUS
<1> HIDE DEF free, prem, reset
<1> QED BY <1>1, <1>2, <1>3

\* A whole record of settings, and a command that holds one.
IsRecord(s) == s = [n \in SettingNames |-> s[n]]
Holding(c) == command[c].pc \in {"default", "handle"}

SettingTypes ==
  /\ stored = Nothing \/ IsRecord(stored)
  /\ IsRecord(meant) /\ lost \subseteq SettingNames /\ hadPremium \in BOOLEAN
  /\ DOMAIN command = SettingCommands /\ since \in [SettingCommands -> SUBSET SettingNames]

\* What a command has read is what is stored, but for what has been changed since.
ReadSettings ==
  \A c \in SettingCommands : Holding(c) =>
    /\ IsRecord(command[c].sett)
    /\ \A n \in SettingNames \ since[c] : command[c].sett[n] = Current(stored)[n]

\* Without premium neither what is stored nor what is going to be has a premium setting.
Unpaid ==
  hadPremium \/ \A n \in PremiumSettings :
    /\ Current(stored)[n] = MakeGuildSettings[n]
    /\ \A c \in SettingCommands : Holding(c) => command[c].sett[n] = MakeGuildSettings[n]

SettingInv == SettingTypes /\ ReadSettings /\ OnlyOverlapsLose /\ Unpaid

LEMMA Records ==
  /\ IsRecord(MakeGuildSettings)
  /\ Current(Nothing) = MakeGuildSettings
  /\ \A s : IsRecord(s) => Current(s) = s
<1>1. IsRecord(MakeGuildSettings) BY DEF IsRecord, MakeGuildSettings
<1>2. ASSUME NEW s, IsRecord(s) PROVE s # Nothing
  <2>1. "language" \in SettingNames BY DEF SettingNames, FreeSettings
  <2>2. DOMAIN s = SettingNames BY <1>2 DEF IsRecord
  <2>3. DOMAIN Nothing = {} BY DEF Nothing
  <2> QED BY <2>1, <2>2, <2>3
<1> QED BY <1>1, <1>2 DEF Current

LEMMA RecordChanged ==
  ASSUME NEW s, IsRecord(s), NEW name \in SettingNames, NEW v
  PROVE  /\ IsRecord([s EXCEPT ![name] = v])
         /\ \A n \in SettingNames : n # name => [s EXCEPT ![name] = v][n] = s[n]
         /\ [s EXCEPT ![name] = v][name] = v
BY DEF IsRecord

LEMMA SettingsAtInit == SettingInit => SettingInv
<1> SUFFICES ASSUME SettingInit PROVE SettingInv OBVIOUS
<1>1. SettingTypes BY Records DEF SettingInit, SettingTypes
<1>2. \A c \in SettingCommands : ~Holding(c) BY DEF SettingInit, Holding
<1>3. Current(stored) = MakeGuildSettings BY Records DEF SettingInit
<1>4. OnlyOverlapsLose BY <1>3 DEF OnlyOverlapsLose, SettingInit
<1> QED BY <1>1, <1>2, <1>3, <1>4 DEF SettingInv, ReadSettings, Unpaid

\* The step of one command: the others' are as they were.
LEMMA CommandMoves ==
  ASSUME SettingTypes, NEW c \in SettingCommands, NEW pc, NEW s, Becomes(c, pc, s)
  PROVE  /\ DOMAIN command' = SettingCommands
         /\ command'[c].pc = pc /\ command'[c].sett = s
         /\ \A o \in SettingCommands : o # c => command'[o] = command[o]
BY DEF SettingTypes, Becomes

LEMMA GetKeeps ==
  ASSUME SettingInv, NEW c \in SettingCommands, GetGuildSettings(c) \/ GetGuildSettingsFails(c)
  PROVE  SettingInv'
<1> USE DEF SettingInv
<1>1. PICK pc, s, ns :
        /\ ns \in SUBSET SettingNames /\ Becomes(c, pc, s) /\ since' = [since EXCEPT ![c] = ns]
        /\ IsRecord(s) /\ \A n \in SettingNames \ ns : s[n] = Current(stored)[n]
        /\ \A n \in SettingNames : s[n] \in {Current(stored)[n], MakeGuildSettings[n]}
  <2>1. CASE GetGuildSettings(c)
    <3>1. IsRecord(Current(stored)) BY Records DEF SettingTypes
    <3>2. PICK pc : Becomes(c, pc, Current(stored)) BY <2>1 DEF GetGuildSettings
    <3>3. since' = [since EXCEPT ![c] = {}] BY <2>1 DEF GetGuildSettings
    <3> WITNESS pc, Current(stored), {}
    <3> QED BY <3>1, <3>2, <3>3
  <2>2. CASE GetGuildSettingsFails(c)
    <3>1. Differing(stored, Nothing) \in SUBSET SettingNames BY DEF Differing
    <3>2. \A n \in SettingNames \ Differing(stored, Nothing) : MakeGuildSettings[n] = Current(stored)[n]
      BY Records DEF Differing
    <3> QED BY <2>2, <3>1, <3>2, Records DEF GetGuildSettingsFails
  <2> QED BY <2>1, <2>2
<1>2. UNCHANGED <<stored, meant, lost, hadPremium>> BY DEF GetGuildSettings, GetGuildSettingsFails
<1>3. /\ DOMAIN command' = SettingCommands /\ command'[c].sett = s
      /\ \A o \in SettingCommands : o # c => command'[o] = command[o]
  BY <1>1, CommandMoves
<1>4. /\ since' \in [SettingCommands -> SUBSET SettingNames] /\ since'[c] = ns
      /\ \A o \in SettingCommands : o # c => since'[o] = since[o]
  BY <1>1 DEF SettingTypes
<1>5. Current(stored)' = Current(stored) BY <1>2 DEF Current
<1>6. SettingTypes' BY <1>2, <1>3, <1>4 DEF SettingTypes, IsRecord
<1>7. ReadSettings'
  <2> SUFFICES ASSUME NEW o \in SettingCommands, Holding(o)'
               PROVE  /\ IsRecord(command'[o].sett)
                      /\ \A n \in SettingNames \ since'[o] : command'[o].sett[n] = Current(stored)[n]
    BY <1>5 DEF ReadSettings, IsRecord
  <2>1. CASE o = c BY <2>1, <1>1, <1>3, <1>4
  <2>2. CASE o # c
    <3>1. Holding(o) BY <2>2, <1>3 DEF Holding
    <3> QED BY <2>2, <3>1, <1>3, <1>4 DEF ReadSettings
  <2> QED BY <2>1, <2>2
<1>8. OnlyOverlapsLose' BY <1>2, <1>5 DEF OnlyOverlapsLose
<1>9. Unpaid'
  <2> SUFFICES ASSUME ~hadPremium, NEW n \in PremiumSettings
               PROVE  /\ Current(stored)[n] = MakeGuildSettings[n]
                      /\ \A o \in SettingCommands : Holding(o)' => command'[o].sett[n] = MakeGuildSettings[n]
    BY <1>2, <1>5 DEF Unpaid
  <2>1. Current(stored)[n] = MakeGuildSettings[n] BY DEF Unpaid
  <2>2. ASSUME NEW o \in SettingCommands, Holding(o)' PROVE command'[o].sett[n] = MakeGuildSettings[n]
    <3>1. CASE o = c BY <3>1, <2>1, <1>1, <1>3 DEF SettingNames
    <3>2. CASE o # c
      <4>1. Holding(o) BY <2>2, <3>2, <1>3 DEF Holding
      <4> QED BY <3>2, <4>1, <1>3 DEF Unpaid
    <3> QED BY <3>1, <3>2
  <2> QED BY <2>1, <2>2
<1> QED BY <1>6, <1>7, <1>8, <1>9

(* storage/redis.go:67-84: after the record was written the other commands *)
(* hold what is stored but for what they have counted since they read.     *)
LEMMA OverwriteKeeps ==
  ASSUME SettingTypes, ReadSettings, NEW c \in SettingCommands, NEW s, IsRecord(s), Overwrite(c, s)
  PROVE  /\ Current(stored)' = s /\ IsRecord(stored')
         /\ since' \in [SettingCommands -> SUBSET SettingNames]
         /\ \A o \in SettingCommands : o # c /\ Holding(o) =>
              \A n \in SettingNames \ since'[o] : command[o].sett[n] = s[n]
<1>1. Current(stored)' = s /\ IsRecord(stored') BY Records DEF Overwrite, Current
<1>2. Differing(stored, s) \in SUBSET SettingNames BY DEF Differing
<1>3. \A o \in SettingCommands : o # c => since'[o] = since[o] \cup Differing(stored, s)
  BY DEF Overwrite
<1>4. since' \in [SettingCommands -> SUBSET SettingNames] BY <1>2 DEF Overwrite, SettingTypes
<1>5. ASSUME NEW o \in SettingCommands, o # c, Holding(o), NEW n \in SettingNames \ since'[o]
      PROVE  command[o].sett[n] = s[n]
  <2>1. n \notin since[o] /\ n \notin Differing(stored, s) BY <1>3, <1>5
  <2>2. Current(stored)[n] = s[n] BY <2>1, Records DEF Differing
  <2> QED BY <2>1, <2>2, <1>5 DEF ReadSettings
<1> QED BY <1>1, <1>4, <1>5

LEMMA StoreDefaultsKeeps ==
  ASSUME SettingInv, NEW c \in SettingCommands, StoreDefaults(c)
  PROVE  SettingInv'
<1> DEFINE s == command[c].sett
<1> USE DEF SettingInv
<1>1. Holding(c) /\ IsRecord(s) /\ \A n \in SettingNames \ since[c] : s[n] = Current(stored)[n]
  BY DEF StoreDefaults, SettingAt, Holding, ReadSettings
<1>2. /\ Overwrite(c, s) /\ Becomes(c, "handle", s) /\ lost' = lost \cup since[c]
      /\ meant' = meant /\ hadPremium' = hadPremium
  BY DEF StoreDefaults, SetGuildSettings
<1> HIDE DEF s
<1>3. /\ Current(stored)' = s /\ IsRecord(stored') /\ since' \in [SettingCommands -> SUBSET SettingNames]
      /\ \A o \in SettingCommands : o # c /\ Holding(o) =>
           \A n \in SettingNames \ since'[o] : command[o].sett[n] = s[n]
  BY <1>1, <1>2, OverwriteKeeps
<1>4. /\ DOMAIN command' = SettingCommands /\ command'[c].sett = s
      /\ \A o \in SettingCommands : o # c => command'[o] = command[o]
  BY <1>2, CommandMoves
<1>5. SettingTypes' BY <1>2, <1>3, <1>4 DEF SettingTypes, IsRecord
<1>6. ReadSettings'
  <2> SUFFICES ASSUME NEW o \in SettingCommands, Holding(o)'
               PROVE  /\ IsRecord(command'[o].sett)
                      /\ \A n \in SettingNames \ since'[o] : command'[o].sett[n] = s[n]
    BY <1>3 DEF ReadSettings, IsRecord
  <2>1. CASE o = c BY <2>1, <1>1, <1>4
  <2>2. CASE o # c
    <3>1. Holding(o) BY <2>2, <1>4 DEF Holding
    <3> QED BY <2>2, <3>1, <1>3, <1>4 DEF ReadSettings
  <2> QED BY <2>1, <2>2
<1>7. OnlyOverlapsLose'
  <2> SUFFICES ASSUME NEW n \in SettingNames, n \notin lost, n \notin since[c] PROVE s[n] = meant[n]
    BY <1>2, <1>3 DEF OnlyOverlapsLose
  <2> QED BY <1>1 DEF OnlyOverlapsLose
<1>8. Unpaid'
  <2> SUFFICES ASSUME ~hadPremium, NEW n \in PremiumSettings
               PROVE  /\ s[n] = MakeGuildSettings[n]
                      /\ \A o \in SettingCommands : Holding(o)' => command'[o].sett[n] = MakeGuildSettings[n]
    BY <1>2, <1>3 DEF Unpaid
  <2>1. s[n] = MakeGuildSettings[n] BY <1>1 DEF Unpaid, s
  <2>2. ASSUME NEW o \in SettingCommands, Holding(o)' PROVE command'[o].sett[n] = MakeGuildSettings[n]
    <3>1. CASE o = c BY <3>1, <2>1, <1>4
    <3>2. CASE o # c
      <4>1. Holding(o) BY <2>2, <3>2, <1>4 DEF Holding
      <4> QED BY <3>2, <4>1, <1>4 DEF Unpaid
    <3> QED BY <3>1, <3>2
  <2> QED BY <2>1, <2>2
<1> QED BY <1>5, <1>6, <1>7, <1>8

LEMMA SettingsDone ==
  ASSUME SettingInv, NEW c \in SettingCommands, Becomes(c, "done", Nothing)
  PROVE  /\ DOMAIN command' = SettingCommands
         /\ \A o \in SettingCommands : Holding(o)' => o # c /\ Holding(o) /\ command'[o] = command[o]
<1>1. /\ DOMAIN command' = SettingCommands /\ command'[c].pc = "done"
      /\ \A o \in SettingCommands : o # c => command'[o] = command[o]
  BY CommandMoves DEF SettingInv
<1> QED BY <1>1 DEF Holding

LEMMA AnswerKeeps ==
  ASSUME SettingInv, NEW c \in SettingCommands, AnswerOnly(c)
  PROVE  SettingInv'
<1>1. /\ DOMAIN command' = SettingCommands
      /\ \A o \in SettingCommands : Holding(o)' => o # c /\ Holding(o) /\ command'[o] = command[o]
  BY SettingsDone DEF AnswerOnly
<1>2. UNCHANGED <<stored, since, meant, lost, hadPremium>> BY DEF AnswerOnly
<1>3. Current(stored)' = Current(stored) BY <1>2 DEF Current
<1>4. SettingTypes' BY <1>1, <1>2 DEF SettingInv, SettingTypes, IsRecord
<1>5. ReadSettings' BY <1>1, <1>2, <1>3 DEF SettingInv, ReadSettings, IsRecord
<1>6. OnlyOverlapsLose' BY <1>2, <1>3 DEF SettingInv, OnlyOverlapsLose
<1>7. Unpaid' BY <1>1, <1>2, <1>3 DEF SettingInv, Unpaid
<1> QED BY <1>4, <1>5, <1>6, <1>7 DEF SettingInv

LEMMA StoreDefaultsFailsKeeps ==
  ASSUME SettingInv, NEW c \in SettingCommands, StoreDefaultsFails(c)
  PROVE  SettingInv'
<1>1. /\ DOMAIN command' = SettingCommands /\ command'[c].sett = command[c].sett
      /\ \A o \in SettingCommands : o # c => command'[o] = command[o]
  BY CommandMoves DEF SettingInv, StoreDefaultsFails
<1>2. \A o \in SettingCommands : Holding(o)' => Holding(o) /\ command'[o].sett = command[o].sett
  BY <1>1 DEF Holding, StoreDefaultsFails, SettingAt
<1>3. UNCHANGED <<stored, since, meant, lost, hadPremium>> BY DEF StoreDefaultsFails
<1>4. Current(stored)' = Current(stored) BY <1>3 DEF Current
<1>5. SettingTypes' BY <1>1, <1>3 DEF SettingInv, SettingTypes, IsRecord
<1>6. ReadSettings' BY <1>2, <1>3, <1>4 DEF SettingInv, ReadSettings, IsRecord
<1>7. OnlyOverlapsLose' BY <1>3, <1>4 DEF SettingInv, OnlyOverlapsLose
<1>8. Unpaid' BY <1>2, <1>3, <1>4 DEF SettingInv, Unpaid
<1> QED BY <1>5, <1>6, <1>7, <1>8 DEF SettingInv

LEMMA HandleKeeps ==
  ASSUME SettingInv, NEW c \in SettingCommands, NEW u, NEW i \in Invocations,
         NEW prem \in {FALSE, hadPremium}, HandleSettings(c, u, i[1], i[2], prem)
  PROVE  SettingInv'
<1> DEFINE s == command[c].sett
           name == i[1]
           args == i[2]
<1> USE DEF SettingInv
<1>0. prem \in BOOLEAN /\ (prem => hadPremium)
  <2>1. hadPremium \in BOOLEAN BY DEF SettingTypes
  <2>2. prem = FALSE \/ prem = hadPremium OBVIOUS
  <2>3. CASE prem = FALSE BY <2>3
  <2>4. CASE prem = hadPremium BY <2>1, <2>4
  <2> QED BY <2>2, <2>3, <2>4
<1>1. IsRecord(s) /\ \A n \in SettingNames \ since[c] : s[n] = Current(stored)[n]
  BY DEF HandleSettings, SettingAt, Holding, ReadSettings
<1>2. PICK r \in HandleSettingsCommand(s, name, args, prem) :
        Overwrite(c, r) /\ lost' = lost \cup since[c]
  BY DEF HandleSettings, SetGuildSettings
<1>3. Becomes(c, "done", Nothing) /\ hadPremium' = hadPremium BY DEF HandleSettings
<1>4. LET asMeant == HandleSettingsCommand(meant, name, args, prem) IN
      IF asMeant = {} THEN meant' = meant ELSE meant' \in asMeant
  BY DEF HandleSettings
<1>5. ~hadPremium => \A n \in PremiumSettings : s[n] = MakeGuildSettings[n]
  BY DEF Unpaid, HandleSettings, SettingAt, Holding
<1>6. \A n \in SettingNames : n \notin lost' => s[n] = meant[n]
  BY <1>1, <1>2 DEF OnlyOverlapsLose
<1>7. name \in SettingNames \/ name = "reset" BY NamesOfInvocations
<1> HIDE DEF s, name, args
<1>8. /\ IsRecord(r) /\ IsRecord(meant')
      /\ \A n \in SettingNames : n \notin lost' => r[n] = meant'[n]
      /\ ~hadPremium => \A n \in PremiumSettings : r[n] = MakeGuildSettings[n]
  <2>1. CASE name = "reset"
    <3>1. r = MakeGuildSettings /\ meant' = MakeGuildSettings BY <2>1, <1>2, <1>4, Reset
    <3> QED BY <3>1, Records
  <2>2. CASE name \in SettingNames
    <3>1. PICK v : r = [s EXCEPT ![name] = v] BY <2>2, <1>0, <1>2, HandlerChangesOne
    <3>2. /\ IsRecord(r) /\ r[name] = v
          /\ \A n \in SettingNames : n # name => r[n] = s[n]
      <4>1. /\ IsRecord([s EXCEPT ![name] = v]) /\ [s EXCEPT ![name] = v][name] = v
            /\ \A n \in SettingNames : n # name => [s EXCEPT ![name] = v][n] = s[n]
        BY <2>2, <1>1, RecordChanged
      <4> QED BY <3>1, <4>1
    <3>3. /\ IsRecord(meant')
          /\ \A n \in SettingNames : n # name => meant'[n] = meant[n]
      <4>1. CASE HandleSettingsCommand(meant, name, args, prem) = {}
        BY <4>1, <1>4 DEF SettingTypes
      <4>2. CASE HandleSettingsCommand(meant, name, args, prem) # {}
        <5>1. PICK w : meant' = [meant EXCEPT ![name] = w]
          BY <4>2, <2>2, <1>0, <1>4, HandlerChangesOne
        <5>2. /\ IsRecord([meant EXCEPT ![name] = w])
              /\ \A n \in SettingNames : n # name => [meant EXCEPT ![name] = w][n] = meant[n]
          BY <2>2, RecordChanged DEF SettingTypes
        <5> QED BY <5>1, <5>2
      <4> QED BY <4>1, <4>2
    <3>4. ASSUME name \notin lost' PROVE r[name] = meant'[name]
      <4>1. s[name] = meant[name] BY <3>4, <2>2, <1>6
      <4>2. Alike(HandleSettingsCommand(s, name, args, prem),
                  HandleSettingsCommand(meant, name, args, prem), s, meant, name)
        BY <4>1, <2>2, <1>0, HandlerAlike
      <4>3. PICK w : /\ HandleSettingsCommand(s, name, args, prem) = Put(s, name, w)
                     /\ HandleSettingsCommand(meant, name, args, prem) = Put(meant, name, w)
        BY <4>2, <1>2 DEF Alike
      <4>4. r = [s EXCEPT ![name] = w] /\ meant' = [meant EXCEPT ![name] = w]
        BY <4>3, <1>2, <1>4 DEF Put
      <4> QED BY <4>4, <2>2, <1>1, RecordChanged, SMTT(30) DEF SettingTypes
    <3>5. ASSUME ~hadPremium, NEW n \in PremiumSettings PROVE r[n] = MakeGuildSettings[n]
      <4>1. name \in FreeSettings BY <3>5, <2>2, <1>0, <1>2, HandlerChangesOne
      <4>2. n # name /\ n \in SettingNames BY <4>1, OtherNames DEF SettingNames
      <4> QED BY <4>2, <3>2, <3>5, <1>5
    <3> QED BY <3>2, <3>3, <3>4, <3>5, <1>6
  <2> QED BY <2>1, <2>2, <1>7
<1>9. /\ Current(stored)' = r /\ IsRecord(stored') /\ since' \in [SettingCommands -> SUBSET SettingNames]
      /\ \A o \in SettingCommands : o # c /\ Holding(o) =>
           \A n \in SettingNames \ since'[o] : command[o].sett[n] = r[n]
  BY <1>2, <1>8, OverwriteKeeps
<1>10. /\ DOMAIN command' = SettingCommands
       /\ \A o \in SettingCommands : Holding(o)' => o # c /\ Holding(o) /\ command'[o] = command[o]
  BY <1>3, SettingsDone
<1>11. SettingTypes'
  <2>1. lost' \subseteq SettingNames BY <1>2 DEF SettingTypes
  <2> QED BY <2>1, <1>3, <1>8, <1>9, <1>10 DEF SettingTypes, IsRecord
<1>12. ReadSettings' BY <1>9, <1>10 DEF ReadSettings, IsRecord
<1>13. OnlyOverlapsLose' BY <1>8, <1>9 DEF OnlyOverlapsLose
<1>14. Unpaid' BY <1>3, <1>8, <1>9, <1>10 DEF Unpaid
<1> QED BY <1>11, <1>12, <1>13, <1>14

LEMMA LeaveKeeps ==
  ASSUME SettingInv, LeaveGuild
  PROVE  SettingInv'
<1> USE DEF SettingInv
<1>1. /\ stored' = Nothing /\ meant' = MakeGuildSettings /\ lost' = {}
      /\ command' = command /\ hadPremium' = hadPremium
      /\ since' = [c \in SettingCommands |-> since[c] \cup Differing(stored, Nothing)]
  BY DEF LeaveGuild
<1>2. Current(stored)' = MakeGuildSettings BY <1>1, Records DEF Current
<1>3. SettingTypes'
  <2>1. Differing(stored, Nothing) \subseteq SettingNames BY DEF Differing
  <2> QED BY <2>1, <1>1, Records DEF SettingTypes, IsRecord
<1>4. ReadSettings'
  <2> SUFFICES ASSUME NEW c \in SettingCommands, Holding(c), NEW n \in SettingNames \ since'[c]
               PROVE  command[c].sett[n] = MakeGuildSettings[n]
    BY <1>1, <1>2 DEF ReadSettings, Holding, IsRecord
  <2>1. n \notin since[c] /\ n \notin Differing(stored, Nothing) BY <1>1
  <2> QED BY <2>1, Records DEF ReadSettings, Differing
<1>5. OnlyOverlapsLose' BY <1>1, <1>2 DEF OnlyOverlapsLose
<1>6. Unpaid' BY <1>1, <1>2 DEF Unpaid, Holding
<1> QED BY <1>3, <1>4, <1>5, <1>6

LEMMA SettingsKept == SettingInv /\ [SettingNext]_settingVars => SettingInv'
<1> SUFFICES ASSUME SettingInv, [SettingNext]_settingVars PROVE SettingInv' OBVIOUS
<1>1. ASSUME NEW c \in SettingCommands, GetGuildSettings(c) \/ GetGuildSettingsFails(c)
      PROVE SettingInv' BY <1>1, GetKeeps
<1>2. ASSUME NEW c \in SettingCommands, StoreDefaults(c) \/ StoreDefaultsFails(c)
      PROVE SettingInv' BY <1>2, StoreDefaultsKeeps, StoreDefaultsFailsKeeps
<1>3. ASSUME NEW c \in SettingCommands, AnswerOnly(c) PROVE SettingInv' BY <1>3, AnswerKeeps
<1>4. ASSUME NEW c \in SettingCommands, NEW u \in Members, NEW prem \in {FALSE, hadPremium},
             NEW i \in Invocations, HandleSettings(c, u, i[1], i[2], prem)
      PROVE SettingInv' BY <1>4, HandleKeeps
<1>5. CASE LeaveGuild BY <1>5, LeaveKeeps
<1>6. CASE UNCHANGED settingVars
  BY <1>6 DEF settingVars, SettingInv, SettingTypes, ReadSettings, OnlyOverlapsLose, Unpaid, Holding,
     Current, IsRecord
<1> QED BY <1>1, <1>2, <1>3, <1>4, <1>5, <1>6 DEF SettingNext

-----------------------------------------------------------------------------
(* The ranges of the settings *)

DelayTables == [SettingPhases \X SettingPhases -> 0..10]
GuildRoles == {Mods}

\* What each setting may be.
Admissible(n, v) ==
  /\ n = "leaderboard-size" => v \in 1..10
  /\ n = "leaderboard-min" => v \in 1..100
  /\ n = "match-summary-duration" => v \in -1..60
  /\ n = "delays" => v \in DelayTables
  /\ n = "admin-user-ids" => v \subseteq Members
  /\ n = "operator-roles" => v \subseteq GuildRoles

Legal(s) == IsRecord(s) /\ \A n \in SettingNames : Admissible(n, s[n])

LegalOrNothing(s) == s = Nothing \/ Legal(s)

\* Every record that is stored or read is legal, and so is the one that is meant.
RangeInv ==
  /\ LegalOrNothing(stored) /\ Legal(meant)
  /\ \A c \in SettingCommands : LegalOrNothing(command[c].sett)

LEMMA DefaultsLegal == Legal(MakeGuildSettings)
<1> SUFFICES ASSUME NEW n \in SettingNames PROVE Admissible(n, MakeGuildSettings[n])
  BY Records DEF Legal
<1>1. MakeGuildSettings[n] = Default(n) BY DEF MakeGuildSettings
<1>2. CASE n = "delays"
  <2>1. \A q \in SettingPhases \X SettingPhases : MakeDefaultDelays[q] \in 0..10
    BY DEF MakeDefaultDelays
  <2>2. MakeDefaultDelays \in DelayTables
    BY <2>1 DEF MakeDefaultDelays, DelayTables
  <2>3. Default(n) = MakeDefaultDelays BY <1>2 DEF Default
  <2> QED BY <1>1, <1>2, <2>2, <2>3 DEF Admissible
<1>3. CASE n \in {"leaderboard-size", "leaderboard-min"}
  <2>1. Default(n) = 3 BY <1>3 DEF Default
  <2> QED BY <1>1, <1>3, <2>1 DEF Admissible
<1>4. CASE n = "match-summary-duration"
  <2>1. Default(n) = 0 BY <1>4 DEF Default
  <2> QED BY <1>1, <1>4, <2>1 DEF Admissible
<1>5. CASE n \in {"admin-user-ids", "operator-roles"}
  <2>1. Default(n) = {} BY <1>5 DEF Default
  <2> QED BY <1>1, <1>5, <2>1 DEF Admissible
<1> QED BY <1>2, <1>3, <1>4, <1>5 DEF Admissible

LEMMA LegalChange ==
  ASSUME NEW s, Legal(s), NEW name \in SettingNames, NEW v, Admissible(name, v)
  PROVE  Legal([s EXCEPT ![name] = v])
<1>1. /\ IsRecord([s EXCEPT ![name] = v]) /\ [s EXCEPT ![name] = v][name] = v
      /\ \A n \in SettingNames : n # name => [s EXCEPT ![name] = v][n] = s[n]
  BY RecordChanged DEF Legal
<1> QED BY <1>1 DEF Legal

\* What comes with a setting's name is what Discord lets users enter for it.
LEMMA ArgumentsOfInvocations ==
  ASSUME NEW i \in Invocations, i[1] \in FreeSettings
  PROVE  i[2] \in FreeArguments(i[1])
<1> DEFINE free == UNION {{<<n, args>> : args \in FreeArguments(n)} : n \in FreeSettings}
           prem == UNION {{<<n, args>> : args \in PremiumArguments(n)} : n \in PremiumSettings}
           reset == <<"reset", <<>>>>
<1>1. i \in free \/ i \in prem \/ i = reset BY DEF Invocations
<1>2. i \in prem => i[1] \in PremiumSettings OBVIOUS
<1>3. reset[1] = "reset" OBVIOUS
<1>4. i \in free => i[2] \in FreeArguments(i[1]) OBVIOUS
<1> HIDE DEF free, prem, reset
<1> QED BY <1>1, <1>2, <1>3, <1>4, OtherNames DEF SettingNames

\* A list of users or roles gets nobody but those the guild has.
LEMMA IdListAdds ==
  ASSUME NEW S, NEW s, NEW name \in DOMAIN s, s[name] \subseteq S, NEW args \in Ids(S),
         NEW r \in IdList(s, name, args)
  PROVE  r[name] \subseteq S
<1>1. args # <<"view">> /\ (args = <<"clear">> => r = [s EXCEPT ![name] = {}])
  BY DEF IdList, Put
<1>2. CASE args = <<"clear">> BY <1>1, <1>2
<1>3. CASE args # <<"clear">>
  <2>1. PICK u \in S : args = <<u>> BY <1>1, <1>3 DEF Ids
  <2>2. r = [s EXCEPT ![name] = s[name] \cup {u}]
    BY <1>1, <1>3, <2>1 DEF IdList, Put
  <2>3. s[name] \cup {u} \subseteq S OBVIOUS
  <2> QED BY <2>2, <2>3
<1> QED BY <1>2, <1>3

\* A delay is set between two phases, to what the list of the command allows.
LEMMA DelaysSet ==
  ASSUME NEW s, s["delays"] \in DelayTables,
         NEW args \in FreeArguments("delays"), NEW r \in FnDelays(s, args)
  PROVE  \E v \in DelayTables : r = [s EXCEPT !["delays"] = v]
<1>1. args \in DelayPhases \/ \E q \in DelayPhases, n \in {0, 10} : args = Append(q, n)
  <2>1. FreeArguments("delays") = DelayPhases \cup {Append(q, n) : q \in DelayPhases, n \in {0, 10}}
    BY DEF FreeArguments
  <2> QED BY <2>1
<1>2. Len(args) = 3 /\ r = [s EXCEPT !["delays"] = [s["delays"] EXCEPT ![<<args[1], args[2]>>] = args[3]]]
  BY DEF FnDelays, Put
<1>3. PICK q \in DelayPhases, n \in {0, 10} : args = Append(q, n)
  <2>1. ASSUME args \in DelayPhases PROVE FALSE
    <3>1. PICK a \in SettingPhases, b \in SettingPhases : args = <<a, b>>
      BY <2>1, SettingsAssumption
    <3>2. Len(<<a, b>>) = 2 OBVIOUS
    <3> QED BY <1>2, <3>1, <3>2
  <2> QED BY <1>1, <2>1
<1>4. args[3] \in 0..10
  <2>1. PICK a \in SettingPhases, b \in SettingPhases : q = <<a, b>> BY SettingsAssumption
  <2>2. Append(<<a, b>>, n)[3] = n OBVIOUS
  <2> QED BY <1>3, <2>1, <2>2
<1> DEFINE v == [s["delays"] EXCEPT ![<<args[1], args[2]>>] = args[3]]
<1>5. v \in DelayTables BY <1>4 DEF DelayTables
<1> QED BY <1>2, <1>5

(* setting/: whatever a member of the guild enters, a function of package  *)
(* setting makes a legal record of a legal one.                            *)
LEMMA HandlerLegal ==
  ASSUME NEW s, Legal(s), NEW i \in Invocations, NEW prem \in BOOLEAN,
         NEW r \in HandleSettingsCommand(s, i[1], i[2], prem)
  PROVE  Legal(r)
<1>1. CASE i[1] = "reset"
  <2>1. r = MakeGuildSettings BY <1>1, Reset
  <2> QED BY <2>1, DefaultsLegal
<1>2. CASE i[1] \in SettingNames
  <2> DEFINE name == i[1]
             args == i[2]
  <2>0. /\ name # "reset"
        /\ \A n \in SettingNames : Admissible(n, s[n])
    BY <1>2, OtherNames DEF Legal
  <2>1. r \in FreeSetting(s, name, args) \/ r \in PaidSetting(s, name, args)
    BY <2>0 DEF HandleSettingsCommand
  <2>2. name \in FreeSettings => args \in FreeArguments(name) BY ArgumentsOfInvocations
  <2> HIDE DEF name, args
  <2>4. name \in SettingNames BY <1>2 DEF name
  <2>3. PICK w : r = [s EXCEPT ![name] = w]
    <3>1. r \in HandleSettingsCommand(s, name, args, prem) BY DEF name, args
    <3> QED BY <2>4, <3>1, HandlerChangesOne
  <2>5. name \in FreeSettings => r \in FreeSetting(s, name, args) BY <2>1, OtherNames
  <2>6. name \in PremiumSettings => r \in PaidSetting(s, name, args) BY <2>1, OtherNames
  <2>7. \E v : Admissible(name, v) /\ r = [s EXCEPT ![name] = v]
    <3>1. CASE name = "leaderboard-size"
      <4>1. r \in FnLeaderboardSize(s, args) BY <2>6, <3>1 DEF PaidSetting, PremiumSettings
      <4>2. args[1] \in 1..10 /\ r = [s EXCEPT !["leaderboard-size"] = args[1]]
        BY <4>1 DEF FnLeaderboardSize, Asked, Put, Same
      <4> QED BY <3>1, <4>2 DEF Admissible
    <3>2. CASE name = "leaderboard-min"
      <4>1. r \in FnLeaderboardMin(s, args) BY <2>6, <3>2 DEF PaidSetting, PremiumSettings
      <4>2. args[1] \in 1..100 /\ r = [s EXCEPT !["leaderboard-min"] = args[1]]
        BY <4>1 DEF FnLeaderboardMin, Asked, Put, Same
      <4> QED BY <3>2, <4>2 DEF Admissible
    <3>3. CASE name = "match-summary-duration"
      <4>1. r \in FnMatchSummary(s, args) BY <2>6, <3>3 DEF PaidSetting, PremiumSettings
      <4>2. args[1] \in -1..60 /\ r = [s EXCEPT !["match-summary-duration"] = args[1]]
        BY <4>1 DEF FnMatchSummary, Asked, Put, Same
      <4> QED BY <3>3, <4>2 DEF Admissible
    <3>4. CASE name = "delays"
      <4>1. r \in FnDelays(s, args) BY <2>5, <3>4 DEF FreeSetting, FreeSettings
      <4>2. s["delays"] \in DelayTables
        BY <2>0, <2>4, <3>4 DEF Admissible
      <4>3. args \in FreeArguments("delays") BY <2>2, <3>4 DEF FreeSettings
      <4>4. PICK v \in DelayTables : r = [s EXCEPT !["delays"] = v]
        BY <4>1, <4>2, <4>3, DelaysSet
      <4>5. Admissible("delays", v) BY <4>4 DEF Admissible
      <4> QED BY <3>4, <4>4, <4>5
    <3>5. CASE name = "admin-user-ids"
      <4>1. r \in IdList(s, "admin-user-ids", args)
        BY <2>5, <3>5 DEF FreeSetting, FreeSettings, FnAdminUserIDs
      <4>2. s["admin-user-ids"] \subseteq Members BY <2>0, <2>4, <3>5 DEF Admissible
      <4>3. args \in Ids(Members)
        <5>1. FreeArguments("admin-user-ids") = Ids(Members) BY DEF FreeArguments
        <5> QED BY <2>2, <3>5, <5>1 DEF FreeSettings
      <4>4. "admin-user-ids" \in DOMAIN s BY <2>4, <3>5 DEF Legal, IsRecord
      <4>5. r["admin-user-ids"] \subseteq Members BY <4>1, <4>2, <4>3, <4>4, IdListAdds
      <4>6. r["admin-user-ids"] = w BY <2>3, <3>5, <4>4
      <4>7. Admissible("admin-user-ids", w) BY <4>5, <4>6 DEF Admissible
      <4> QED BY <2>3, <3>5, <4>7
    <3>6. CASE name = "operator-roles"
      <4>1. r \in IdList(s, "operator-roles", args)
        BY <2>5, <3>6 DEF FreeSetting, FreeSettings, FnPermissionRoleIDs
      <4>2. s["operator-roles"] \subseteq GuildRoles BY <2>0, <2>4, <3>6 DEF Admissible
      <4>3. args \in Ids(GuildRoles)
        <5>1. FreeArguments("operator-roles") = Ids(GuildRoles) BY DEF FreeArguments, GuildRoles
        <5> QED BY <2>2, <3>6, <5>1 DEF FreeSettings
      <4>4. "operator-roles" \in DOMAIN s BY <2>4, <3>6 DEF Legal, IsRecord
      <4>5. r["operator-roles"] \subseteq GuildRoles BY <4>1, <4>2, <4>3, <4>4, IdListAdds
      <4>6. r["operator-roles"] = w BY <2>3, <3>6, <4>4
      <4>7. Admissible("operator-roles", w) BY <4>5, <4>6 DEF Admissible
      <4> QED BY <2>3, <3>6, <4>7
    <3>7. CASE name \notin {"leaderboard-size", "leaderboard-min", "match-summary-duration", "delays",
                           "admin-user-ids", "operator-roles"}
      BY <2>3, <3>7 DEF Admissible
    <3> QED BY <3>1, <3>2, <3>3, <3>4, <3>5, <3>6, <3>7
  <2>8. PICK v : Admissible(name, v) /\ r = [s EXCEPT ![name] = v] BY <2>7
  <2>9. Legal([s EXCEPT ![name] = v]) BY <2>4, <2>8, LegalChange
  <2> QED BY <2>8, <2>9
<1> QED BY <1>1, <1>2, NamesOfInvocations

LEMMA NothingLegal == ASSUME NEW s, LegalOrNothing(s) PROVE Legal(Current(s))
BY DefaultsLegal DEF LegalOrNothing, Current

LEMMA RangeKept == SettingInv /\ RangeInv /\ [SettingNext]_settingVars => RangeInv'
<1> SUFFICES ASSUME SettingInv, RangeInv, [SettingNext]_settingVars PROVE RangeInv' OBVIOUS
<1> USE DEF RangeInv
<1>0. SettingTypes /\ Legal(Current(stored)) /\ hadPremium \in BOOLEAN
  BY NothingLegal DEF SettingInv, SettingTypes
<1>1. ASSUME NEW c \in SettingCommands, GetGuildSettings(c) \/ GetGuildSettingsFails(c) PROVE RangeInv'
  <2>1. PICK pc, s : Becomes(c, pc, s) /\ Legal(s)
    BY <1>0, <1>1, DefaultsLegal DEF GetGuildSettings, GetGuildSettingsFails
  <2>2. stored' = stored /\ meant' = meant BY <1>1 DEF GetGuildSettings, GetGuildSettingsFails
  <2>3. command'[c].sett = s /\ \A o \in SettingCommands : o # c => command'[o] = command[o]
    BY <1>0, <2>1, CommandMoves
  <2> QED BY <2>1, <2>2, <2>3 DEF LegalOrNothing
<1>2. ASSUME NEW c \in SettingCommands, StoreDefaults(c) \/ StoreDefaultsFails(c) PROVE RangeInv'
  <2>1. /\ stored' \in {stored, command[c].sett} /\ meant' = meant
        /\ Becomes(c, "handle", command[c].sett)
    BY <1>2 DEF StoreDefaults, StoreDefaultsFails, SetGuildSettings, Overwrite
  <2>2. command'[c].sett = command[c].sett /\ \A o \in SettingCommands : o # c => command'[o] = command[o]
    BY <1>0, <2>1, CommandMoves
  <2> QED BY <2>1, <2>2
<1>3. ASSUME NEW c \in SettingCommands, AnswerOnly(c) PROVE RangeInv'
  <2>1. Becomes(c, "done", Nothing) /\ stored' = stored /\ meant' = meant BY <1>3 DEF AnswerOnly
  <2>2. command'[c].sett = Nothing /\ \A o \in SettingCommands : o # c => command'[o] = command[o]
    BY <1>0, <2>1, CommandMoves
  <2> QED BY <2>1, <2>2 DEF LegalOrNothing
<1>4. ASSUME NEW c \in SettingCommands, NEW u \in Members, NEW prem \in {FALSE, hadPremium},
             NEW i \in Invocations, HandleSettings(c, u, i[1], i[2], prem)
      PROVE RangeInv'
  <2>0. prem \in BOOLEAN
    <3>1. prem = FALSE \/ prem = hadPremium OBVIOUS
    <3>2. CASE prem = FALSE BY <3>2
    <3>3. CASE prem = hadPremium BY <1>0, <3>3
    <3> QED BY <3>1, <3>2, <3>3
  <2>1. Holding(c) BY <1>4 DEF HandleSettings, SettingAt, Holding
  <2>2. Legal(command[c].sett)
    <3>1. IsRecord(command[c].sett) BY <2>1 DEF SettingInv, ReadSettings
    <3>2. Current(command[c].sett) = command[c].sett BY <3>1, Records
    <3>3. LegalOrNothing(command[c].sett) OBVIOUS
    <3>4. Legal(Current(command[c].sett)) BY <3>3, NothingLegal
    <3> QED BY <3>2, <3>4
  <2>3. PICK r \in HandleSettingsCommand(command[c].sett, i[1], i[2], prem) : stored' = r
    BY <1>4 DEF HandleSettings, SetGuildSettings, Overwrite
  <2>4. Legal(stored') BY <2>0, <2>2, <2>3, HandlerLegal
  <2>5. meant' = meant \/ meant' \in HandleSettingsCommand(meant, i[1], i[2], prem)
    BY <1>4 DEF HandleSettings
  <2>6. Legal(meant') BY <2>0, <2>5, HandlerLegal
  <2>7. Becomes(c, "done", Nothing) BY <1>4 DEF HandleSettings
  <2>8. command'[c].sett = Nothing /\ \A o \in SettingCommands : o # c => command'[o] = command[o]
    BY <1>0, <2>7, CommandMoves
  <2> QED BY <2>4, <2>6, <2>8 DEF LegalOrNothing
<1>5. CASE LeaveGuild BY <1>5, DefaultsLegal DEF LeaveGuild, LegalOrNothing
<1>6. CASE UNCHANGED settingVars BY <1>6 DEF settingVars
<1> QED BY <1>1, <1>2, <1>3, <1>4, <1>5, <1>6 DEF SettingNext

\* Whatever is entered, stored, lost and read again, every setting keeps its
\* range: the figures, the delays, and the lists of the guild's own members and
\* roles (setting/, storage/guildSettings.go).
THEOREM SettingsTypeCorrect == SettingSpec => []SettingsTypeOK
<1>1. SettingInit => RangeInv
  BY DefaultsLegal DEF SettingInit, RangeInv, LegalOrNothing
<1>2. SettingInv /\ RangeInv => SettingsTypeOK
  <2> SUFFICES ASSUME SettingInv, RangeInv PROVE SettingsTypeOK OBVIOUS
  <2>1. ASSUME NEW s, Legal(s) PROVE InRange(s)
    <3>1. DOMAIN s = SettingNames BY <2>1 DEF Legal, IsRecord
    <3>2. {"leaderboard-size", "leaderboard-min", "match-summary-duration", "delays", "admin-user-ids",
           "operator-roles"} \subseteq SettingNames
      BY DEF SettingNames, FreeSettings, PremiumSettings
    <3>3. /\ s["leaderboard-size"] \in 1..10 /\ s["leaderboard-min"] \in 1..100
          /\ s["match-summary-duration"] \in -1..60
          /\ s["delays"] \in DelayTables
          /\ s["admin-user-ids"] \subseteq Members /\ s["operator-roles"] \subseteq GuildRoles
      BY <2>1, <3>2 DEF Legal, Admissible
    <3> QED BY <3>1, <3>3 DEF InRange, DelayTables, GuildRoles
  <2>2. InRange(Current(stored)) /\ InRange(meant) BY <2>1, NothingLegal DEF RangeInv
  <2>3. \A c \in SettingCommands : InRange(Current(command[c].sett)) /\ since[c] \subseteq SettingNames
    BY <2>1, NothingLegal DEF RangeInv, SettingInv, SettingTypes
  <2> QED BY <2>2, <2>3 DEF SettingsTypeOK, SettingInv, SettingTypes
<1> QED BY SettingsAtInit, SettingsKept, <1>1, RangeKept, <1>2, PTL DEF SettingSpec

-----------------------------------------------------------------------------
(* What stays set *)

(* setting_handler.go:89-94: for any guild and any number of overlapping   *)
(* uses of /settings, reads that fail and times the guild goes away, what  *)
(* an accepted use has set stays set, but for what a record that was read  *)
(* before undoes.                                                          *)
THEOREM SettingsStay == SettingSpec => []OnlyOverlapsLose
<1>1. SettingInv => OnlyOverlapsLose BY DEF SettingInv
<1> QED BY SettingsAtInit, SettingsKept, <1>1, PTL DEF SettingSpec

(* setting_handler.go:32-71: and no order of them gives a guild without    *)
(* premium a premium setting.                                              *)
THEOREM PremiumIsPaid == SettingSpec => []PremiumSettingsPaid
<1>1. SettingInv => PremiumSettingsPaid BY DEF SettingInv, Unpaid, PremiumSettingsPaid
<1> QED BY SettingsAtInit, SettingsKept, <1>1, PTL DEF SettingSpec

-----------------------------------------------------------------------------
(* The settings as one atomic record *)

\* Commands come one at a time, no read fails and the guild stays.
OneAtATime ==
  faultsSeen = 0 /\ \A c, d \in SettingCommands : Holding(c) /\ Holding(d) => c = d

\* The settings a guild has, whether or not they are stored, and what an admin may do to them.
Settings == Current(stored)
AdminChanges ==
  \E u \in Members, i \in Invocations, prem \in {FALSE, hadPremium} :
    IsAdmin(Settings, u) /\ Settings' \in HandleSettingsCommand(Settings, i[1], i[2], prem)
AtomicSettings == Settings = MakeGuildSettings /\ [][AdminChanges]_Settings

\* What a command holds is what the guild has.
HoldCurrent == \A c \in SettingCommands : Holding(c) => since[c] = {}

LEMMA HeldIsCurrent ==
  ASSUME SettingInv, HoldCurrent, NEW c \in SettingCommands, Holding(c)
  PROVE  command[c].sett = Settings /\ IsRecord(Settings)
<1>1. IsRecord(Settings) BY Records DEF SettingInv, SettingTypes, Settings
<1>2. /\ IsRecord(command[c].sett)
      /\ \A n \in SettingNames : command[c].sett[n] = Settings[n]
  BY DEF SettingInv, ReadSettings, HoldCurrent, Settings
<1>3. /\ command[c].sett = [n \in SettingNames |-> command[c].sett[n]]
      /\ Settings = [n \in SettingNames |-> Settings[n]]
  BY <1>1, <1>2 DEF IsRecord
<1>4. [n \in SettingNames |-> command[c].sett[n]] = [n \in SettingNames |-> Settings[n]]
  BY <1>2
<1> QED BY <1>1, <1>3, <1>4

\* Who writes is the one who holds the settings, and begins with nothing changed since.
LEMMA OthersRest ==
  ASSUME SettingInv, HoldCurrent, OneAtATime, NEW c \in SettingCommands, Holding(c),
         NEW pc, NEW s, Becomes(c, pc, s), NEW t, Overwrite(c, t)
  PROVE  HoldCurrent'
<1>1. /\ since'[c] = {}
      /\ \A o \in SettingCommands : o # c => command'[o] = command[o]
  BY CommandMoves DEF Overwrite, SettingInv
<1>2. ASSUME NEW o \in SettingCommands, Holding(o)' PROVE since'[o] = {}
  <2>1. CASE o = c BY <2>1, <1>1
  <2>2. CASE o # c
    <3>1. Holding(o) BY <1>1, <1>2, <2>2 DEF Holding
    <3> QED BY <3>1, <2>2 DEF OneAtATime
  <2> QED BY <2>1, <2>2
<1> QED BY <1>2 DEF HoldCurrent

LEMMA ReadsUpToDate ==
  ASSUME SettingInv, HoldCurrent, NEW c \in SettingCommands, GetGuildSettings(c)
  PROVE  HoldCurrent' /\ Settings' = Settings
<1>1. stored' = stored /\ since' = [since EXCEPT ![c] = {}] BY DEF GetGuildSettings
<1>2. \A o \in SettingCommands : o # c => command'[o] = command[o]
  BY CommandMoves DEF GetGuildSettings, SettingInv
<1>3. /\ since'[c] = {}
      /\ \A o \in SettingCommands : o # c => since'[o] = since[o]
  BY <1>1 DEF SettingInv, SettingTypes
<1>4. HoldCurrent'
  <2> SUFFICES ASSUME NEW o \in SettingCommands, Holding(o)' PROVE since'[o] = {} BY DEF HoldCurrent
  <2>1. CASE o = c BY <2>1, <1>3
  <2>2. CASE o # c
    <3>1. Holding(o) BY <1>2, <2>2 DEF Holding
    <3> QED BY <3>1, <2>2, <1>3 DEF HoldCurrent
  <2> QED BY <2>1, <2>2
<1> QED BY <1>1, <1>4 DEF Settings

LEMMA DefaultsUpToDate ==
  ASSUME SettingInv, HoldCurrent, OneAtATime, NEW c \in SettingCommands, StoreDefaults(c)
  PROVE  HoldCurrent' /\ Settings' = Settings
<1>1. Holding(c) BY DEF StoreDefaults, SettingAt, Holding
<1>2. command[c].sett = Settings /\ IsRecord(Settings) BY <1>1, HeldIsCurrent
<1>3. Overwrite(c, command[c].sett) /\ Becomes(c, "handle", command[c].sett)
  BY DEF StoreDefaults, SetGuildSettings
<1>4. HoldCurrent' BY <1>1, <1>3, OthersRest
<1>5. stored' = Settings BY <1>2, <1>3 DEF Overwrite
<1>6. Current(stored') = Settings BY <1>2, <1>5, Records
<1> QED BY <1>4, <1>6 DEF Settings

LEMMA HandlesUpToDate ==
  ASSUME SettingInv, SettingInv', HoldCurrent, OneAtATime, NEW c \in SettingCommands, NEW u \in Members,
         NEW i \in Invocations, NEW prem \in {FALSE, hadPremium}, HandleSettings(c, u, i[1], i[2], prem)
  PROVE  HoldCurrent' /\ AdminChanges
<1>1. Holding(c) BY DEF HandleSettings, SettingAt, Holding
<1>2. command[c].sett = Settings BY <1>1, HeldIsCurrent
<1>3. PICK s \in HandleSettingsCommand(command[c].sett, i[1], i[2], prem) : Overwrite(c, s)
  BY DEF HandleSettings, SetGuildSettings
<1>4. Becomes(c, "done", Nothing) /\ IsAdmin(Settings, u) BY <1>2 DEF HandleSettings
<1>5. HoldCurrent' BY <1>1, <1>3, <1>4, OthersRest
<1>6. s \in HandleSettingsCommand(Settings, i[1], i[2], prem) BY <1>2, <1>3
<1>7. Settings' = s
  <2>1. stored' = s BY <1>3 DEF Overwrite
  <2>2. IsRecord(MakeGuildSettings) /\ IsRecord(Settings) BY Records, <1>1, HeldIsCurrent
  <2>3. IsRecord(s)
    <3>1. prem \in BOOLEAN BY DEF SettingInv, SettingTypes
    <3>2. CASE i[1] = "reset"
      <4>1. s = MakeGuildSettings BY <3>2, <1>6, Reset
      <4> QED BY <4>1, <2>2
    <3>3. CASE i[1] \in SettingNames
      <4>1. PICK v : s = [Settings EXCEPT ![i[1]] = v] BY <3>1, <3>3, <1>6, HandlerChangesOne
      <4>2. IsRecord([Settings EXCEPT ![i[1]] = v]) BY <3>3, <2>2, RecordChanged
      <4> QED BY <4>1, <4>2
    <3> QED BY <3>2, <3>3, NamesOfInvocations
  <2>4. Current(stored') = s BY <2>1, <2>3, Records
  <2> QED BY <2>4 DEF Settings
<1>8. AdminChanges BY <1>4, <1>6, <1>7 DEF AdminChanges
<1> QED BY <1>5, <1>8

LEMMA SettingsStepAtomic ==
  SettingInv /\ SettingInv' /\ HoldCurrent /\ OneAtATime /\ OneAtATime' /\ [SettingNext]_settingVars
    => HoldCurrent' /\ [AdminChanges]_Settings
<1> SUFFICES ASSUME SettingInv, SettingInv', HoldCurrent, OneAtATime, OneAtATime', [SettingNext]_settingVars
             PROVE  HoldCurrent' /\ (AdminChanges \/ Settings' = Settings)
  OBVIOUS
<1>1. ~AnotherFault BY DEF AnotherFault, OneAtATime
<1>2. ASSUME NEW c \in SettingCommands, GetGuildSettings(c) PROVE HoldCurrent' /\ Settings' = Settings
  BY <1>2, ReadsUpToDate
<1>3. ASSUME NEW c \in SettingCommands, StoreDefaults(c) PROVE HoldCurrent' /\ Settings' = Settings
  BY <1>3, DefaultsUpToDate
<1>4. ASSUME NEW c \in SettingCommands, AnswerOnly(c) PROVE HoldCurrent' /\ Settings' = Settings
  <2>1. \A o \in SettingCommands : Holding(o)' => Holding(o)
    BY <1>4, SettingsDone DEF AnswerOnly
  <2>2. since' = since /\ stored' = stored BY <1>4 DEF AnswerOnly
  <2> QED BY <2>1, <2>2 DEF HoldCurrent, Settings
<1>5. ASSUME NEW c \in SettingCommands, NEW u \in Members, NEW prem \in {FALSE, hadPremium},
             NEW i \in Invocations, HandleSettings(c, u, i[1], i[2], prem)
      PROVE  HoldCurrent' /\ AdminChanges
  BY <1>5, HandlesUpToDate
<1>6. ASSUME UNCHANGED settingVars PROVE HoldCurrent' /\ Settings' = Settings
  BY <1>6 DEF settingVars, HoldCurrent, Holding, Settings
<1>7. ASSUME NEW c \in SettingCommands, GetGuildSettingsFails(c) PROVE FALSE
  BY <1>1, <1>7 DEF GetGuildSettingsFails
<1>8. ASSUME LeaveGuild \/ \E c \in SettingCommands : StoreDefaultsFails(c) PROVE FALSE
  BY <1>1, <1>8 DEF LeaveGuild, StoreDefaultsFails
<1> QED BY <1>2, <1>3, <1>4, <1>5, <1>6, <1>7, <1>8 DEF SettingNext

(* setting_handler.go:89-94, storage/redis.go:45-84: the read, the change  *)
(* and the write of the whole record have no lock.  As long as commands do *)
(* not overlap, nothing fails and the guild stays, they are one atomic     *)
(* record all the same: it begins with the defaults, and each change is    *)
(* one accepted /settings of somebody whom the settings of that moment     *)
(* make an admin; that the defaults are stored meanwhile shows nowhere.    *)
THEOREM SettingsAtomic == SettingSpec /\ []OneAtATime => AtomicSettings
<1>1. SettingInit => HoldCurrent /\ Settings = MakeGuildSettings
  <2> SUFFICES ASSUME SettingInit PROVE HoldCurrent /\ Settings = MakeGuildSettings OBVIOUS
  <2>1. HoldCurrent BY DEF SettingInit, HoldCurrent
  <2>2. Settings = MakeGuildSettings BY Records DEF SettingInit, Settings
  <2> QED BY <2>1, <2>2
<1> QED BY <1>1, SettingsAtInit, SettingsKept, SettingsStepAtomic, PTL DEF SettingSpec, AtomicSettings

-----------------------------------------------------------------------------
(* PremiumTransfer *)

PremiumSpec == PremiumInit /\ [][PremiumNext]_premiumVars

MaybeGuild == Guilds \cup {NoGuild}
OperationRecords == [pc : {"idle", "dest", "origin", "done"}, kind : {"none", "transfer", "sub", "revert"},
                     origin : MaybeGuild, dest : MaybeGuild]

\* An operation under way is between two guilds, and only adding one has no second update.
Proper(op) == op.pc \in {"dest", "origin"} =>
  /\ op.origin \in Guilds /\ op.dest \in Guilds
  /\ op.kind \in {"transfer", "revert"} \/ (op.kind = "sub" /\ op.pc = "dest")

PremiumTypes ==
  /\ tier \in [Guilds -> Tiers] /\ paid \in [Guilds -> {"NULL", "active", "expired"}]
  /\ \A g \in Guilds : paid[g] = "active" => Active(g)
  /\ transferredTo \in [Guilds -> MaybeGuild] /\ inheritsFrom \in [Guilds -> MaybeGuild]
  /\ operation \in [Operations -> OperationRecords]
  /\ \A o \in Operations : Proper(operation[o])
  /\ troubled \subseteq Guilds

Gives(o) == operation[o].kind \in {"transfer", "sub"}

\* Premium goes from a guild that has it, and its own, to one that has none.
Downwards == \A o \in Under : Gives(o) =>
  /\ Active(operation[o].origin) /\ ~Active(operation[o].dest)
  /\ inheritsFrom[operation[o].origin] = NoGuild

\* Operations that meet on a guild trouble all of theirs.
Meeting == \A o, p \in Under : o # p /\ GuildsOf(operation[o]) \cap GuildsOf(operation[p]) # {} =>
  GuildsOf(operation[o]) \subseteq troubled

\* What an operation is going to overwrite nobody relies on.
Unrelied == \A o \in Under :
  /\ Gives(o) => /\ transferredTo[operation[o].origin] \in troubled \cup {NoGuild}
                 /\ transferredTo[operation[o].dest] \in troubled \cup {NoGuild}
  /\ ~Gives(o) => transferredTo[operation[o].origin] \in troubled \cup {NoGuild, operation[o].dest}

\* An operation that has updated its dest, and not yet its origin.
Halfway(kind, g, h) ==
  \E o \in Operations : operation[o] = [pc |-> "origin", kind |-> kind, origin |-> g, dest |-> h]

\* How the links to h and from it belong together, in each state of an operation.
Handed(h) == \A g \in Guilds : transferredTo[g] = h => inheritsFrom[h] = g \/ Halfway("revert", g, h)
Inherited(h) ==
  inheritsFrom[h] # NoGuild =>
    /\ transferredTo[h] = NoGuild
    /\ \/ h \in subs /\ \A g \in Guilds : transferredTo[g] # h
       \/ /\ h \notin subs /\ inheritsFrom[inheritsFrom[h]] = NoGuild
          /\ transferredTo[inheritsFrom[h]] = h \/ Halfway("transfer", inheritsFrom[h], h)
Receiving(h) == \A o \in Under : operation[o].dest = h =>
  /\ Gives(o) /\ OpAt(o, "dest") =>
       /\ inheritsFrom[h] = NoGuild /\ transferredTo[h] = NoGuild
       /\ transferredTo[operation[o].origin] = NoGuild
       /\ \A g \in Guilds : transferredTo[g] # h
  /\ Gives(o) /\ OpAt(o, "origin") =>
       /\ inheritsFrom[h] = operation[o].origin /\ transferredTo[operation[o].origin] = NoGuild
       /\ h \notin subs
  /\ ~Gives(o) /\ OpAt(o, "dest") =>
       inheritsFrom[h] = operation[o].origin /\ transferredTo[operation[o].origin] = h
  /\ ~Gives(o) /\ OpAt(o, "origin") =>
       inheritsFrom[h] = NoGuild /\ transferredTo[operation[o].origin] = h
Orderly == \A h \in Guilds \ troubled : Handed(h) /\ Inherited(h) /\ Receiving(h)

PremiumInv == PremiumTypes /\ Downwards /\ Meeting /\ Unrelied /\ Orderly /\ NoCycle

-----------------------------------------------------------------------------
(* What the steps do *)

LEMMA UnderIs == PremiumTypes => \A o \in Operations :
  /\ o \in Under <=> OpAt(o, "dest") \/ OpAt(o, "origin")
  /\ o \in Under => operation[o].origin \in Guilds /\ operation[o].dest \in Guilds
                    /\ GuildsOf(operation[o]) = {operation[o].origin, operation[o].dest}
                    /\ (Gives(o) \/ operation[o].kind = "revert")
                    /\ (OpAt(o, "origin") /\ Gives(o) => operation[o].kind = "transfer")
  /\ operation[o] = [pc |-> operation[o].pc, kind |-> operation[o].kind,
                     origin |-> operation[o].origin, dest |-> operation[o].dest]
BY DEF PremiumTypes, Proper, Under, OpAt, GuildsOf, Gives, OperationRecords

\* An operation moves on alone, and stays between its guilds.
LEMMA MovesOn ==
  ASSUME PremiumTypes, NEW o \in Under, NEW pc \in {"origin", "done"}, OpGoes(o, pc),
         pc = "origin" => operation[o].kind # "sub"
  PROVE  /\ operation' \in [Operations -> OperationRecords]
         /\ \A p \in Operations : Proper(operation'[p])
         /\ operation'[o].pc = pc /\ operation'[o].kind = operation[o].kind
         /\ operation'[o].origin = operation[o].origin /\ operation'[o].dest = operation[o].dest
         /\ \A p \in Operations \ {o} : operation'[p] = operation[p]
         /\ Under' \subseteq Under
<1>0. o \in Operations /\ operation[o].pc \in {"dest", "origin"} BY DEF Under
<1>1. /\ operation' \in [Operations -> OperationRecords]
      /\ operation'[o].pc = pc /\ operation'[o].kind = operation[o].kind
      /\ operation'[o].origin = operation[o].origin /\ operation'[o].dest = operation[o].dest
      /\ \A p \in Operations \ {o} : operation'[p] = operation[p]
  BY <1>0 DEF OpGoes, PremiumTypes, OperationRecords
<1>2. \A p \in Operations : Proper(operation'[p])
  <2> TAKE p \in Operations
  <2>1. CASE p = o BY <1>0, <1>1, <2>1 DEF PremiumTypes, Proper
  <2>2. CASE p # o BY <1>1, <2>2 DEF PremiumTypes
  <2> QED BY <2>1, <2>2
<1>3. Under' \subseteq Under BY <1>0, <1>1 DEF Under
<1> QED BY <1>1, <1>2, <1>3

LEMMA StartEffect ==
  ASSUME PremiumTypes, NEW o \in Operations, NEW kind \in {"transfer", "sub", "revert"},
         NEW a \in Guilds, NEW b \in Guilds, Start(o, kind, a, b)
  PROVE  /\ operation' \in [Operations -> OperationRecords]
         /\ \A p \in Operations : Proper(operation'[p])
         /\ operation'[o] = [pc |-> "dest", kind |-> kind, origin |-> a, dest |-> b]
         /\ \A p \in Operations \ {o} : operation'[p] = operation[p]
         /\ o \notin Under /\ Under' = Under \cup {o}
         /\ troubled \subseteq troubled' /\ troubled' \subseteq Guilds
         /\ \A p \in Under : GuildsOf(operation[p]) \cap {a, b} # {} =>
              GuildsOf(operation[p]) \cup {a, b} \subseteq troubled'
         /\ UNCHANGED <<accounts, transferredTo, inheritsFrom, subs>>
<1>0. UNCHANGED <<accounts, transferredTo, inheritsFrom, subs>> BY DEF Start
<1>1. /\ operation' \in [Operations -> OperationRecords]
      /\ operation'[o] = [pc |-> "dest", kind |-> kind, origin |-> a, dest |-> b]
      /\ \A p \in Operations \ {o} : operation'[p] = operation[p]
  BY DEF Start, PremiumTypes, OperationRecords, MaybeGuild
<1>2. \A p \in Operations : Proper(operation'[p])
  <2> TAKE p \in Operations
  <2>1. CASE p = o BY <1>1, <2>1 DEF Proper
  <2>2. CASE p # o BY <1>1, <2>2 DEF PremiumTypes
  <2> QED BY <2>1, <2>2
<1>3. o \notin Under /\ Under' = Under \cup {o} BY <1>1 DEF Start, OpAt, Under
<1>4. \A p \in Under : GuildsOf(operation[p]) \subseteq Guilds BY UnderIs DEF Under
<1>5. troubled \subseteq troubled' /\ troubled' \subseteq Guilds
  BY <1>4 DEF Start, PremiumTypes
<1>6. \A p \in Under : GuildsOf(operation[p]) \cap {a, b} # {} =>
        GuildsOf(operation[p]) \cup {a, b} \subseteq troubled'
  BY DEF Start
<1> QED BY <1>0, <1>1, <1>2, <1>3, <1>5, <1>6

\* The three ways to start, each with its check.
Checked(kind, a, b) ==
  IF kind = "revert" THEN CanRevertTransfer(a, b) ELSE CanTransfer(a, b)

LEMMA PremiumSteps ==
  ASSUME PremiumTypes, PremiumNext
  PROVE  \/ \E o \in Operations, kind \in {"transfer", "sub", "revert"}, a, b \in Guilds :
              Checked(kind, a, b) /\ Start(o, kind, a, b)
         \/ \E o \in Under : SetInherits(o) /\ OpAt(o, "dest")
         \/ \E o \in Under : SetTransferred(o) /\ OpAt(o, "origin")
         \/ \E o \in Under : OperationDies(o)
         \/ \E g \in Guilds, t \in Tiers, p \in {"active", "expired"} :
              Outside(g, t, p) /\ t # "Free"
<1>1. ASSUME NEW o \in Operations, NEW a \in Guilds, NEW b \in Guilds,
             TransferPremium(o, a, b) \/ AddGoldSubServer(o, a, b) \/ RevertPremiumTransfer(o, a, b)
      PROVE  \E kind \in {"transfer", "sub", "revert"} : Checked(kind, a, b) /\ Start(o, kind, a, b)
  BY <1>1 DEF TransferPremium, AddGoldSubServer, RevertPremiumTransfer, CanAddGoldSubServer, Checked
<1>2. ASSUME NEW o \in Operations, SetInherits(o) PROVE o \in Under /\ OpAt(o, "dest")
  BY <1>2 DEF SetInherits, Under, OpAt
<1>3. ASSUME NEW o \in Operations, SetTransferred(o) PROVE o \in Under /\ OpAt(o, "origin")
  BY <1>3 DEF SetTransferred, Under, OpAt
<1>4. ASSUME NEW g \in Guilds, paid[g] = "active", Outside(g, tier[g], "expired")
      PROVE  tier[g] \in Tiers /\ tier[g] # "Free"
  BY <1>4 DEF PremiumTypes, Active
<1>5. \A o \in Operations : OperationDies(o) => o \in Under BY DEF OperationDies
<1> QED BY <1>1, <1>2, <1>3, <1>4, <1>5 DEF PremiumNext

-----------------------------------------------------------------------------
(* Types, and what operations do not overwrite *)

LEMMA PremiumTypesKept == PremiumTypes /\ [PremiumNext]_premiumVars => PremiumTypes'
<1> SUFFICES ASSUME PremiumTypes, [PremiumNext]_premiumVars PROVE PremiumTypes' OBVIOUS
<1>1. ASSUME NEW o \in Operations, NEW kind \in {"transfer", "sub", "revert"},
             NEW a \in Guilds, NEW b \in Guilds, Start(o, kind, a, b)
      PROVE  PremiumTypes'
  BY <1>1, StartEffect DEF PremiumTypes, accounts, Active
<1>2. ASSUME NEW o \in Under, SetInherits(o), OpAt(o, "dest") PROVE PremiumTypes'
  <2>0. o \in Operations /\ operation[o].origin \in Guilds /\ operation[o].dest \in Guilds
    BY UnderIs DEF Under
  <2>1. inheritsFrom' \in [Guilds -> MaybeGuild]
    BY <1>2, <2>0 DEF SetInherits, PremiumTypes, MaybeGuild
  <2>2. PICK pc \in {"origin", "done"} : OpGoes(o, pc) /\ (pc = "origin" => operation[o].kind # "sub")
    BY <1>2 DEF SetInherits
  <2>3. operation' \in [Operations -> OperationRecords] /\ \A p \in Operations : Proper(operation'[p])
    BY <2>2, MovesOn
  <2> QED BY <1>2, <2>1, <2>3 DEF SetInherits, PremiumTypes, accounts, Active
<1>3. ASSUME NEW o \in Under, SetTransferred(o) PROVE PremiumTypes'
  <2>0. o \in Operations /\ operation[o].origin \in Guilds /\ operation[o].dest \in Guilds
    BY UnderIs DEF Under
  <2>1. transferredTo' \in [Guilds -> MaybeGuild]
    BY <1>3, <2>0 DEF SetTransferred, PremiumTypes, MaybeGuild
  <2>2. OpGoes(o, "done") BY <1>3 DEF SetTransferred
  <2>3. operation' \in [Operations -> OperationRecords] /\ \A p \in Operations : Proper(operation'[p])
    BY <2>2, MovesOn
  <2> QED BY <1>3, <2>1, <2>3 DEF SetTransferred, PremiumTypes, accounts, Active
<1>4. ASSUME NEW o \in Under, OperationDies(o) PROVE PremiumTypes'
  <2>1. OpGoes(o, "done") BY <1>4 DEF OperationDies
  <2>2. operation' \in [Operations -> OperationRecords] /\ \A p \in Operations : Proper(operation'[p])
    BY <2>1, MovesOn
  <2>3. GuildsOf(operation[o]) \subseteq Guilds BY UnderIs DEF Under
  <2> QED BY <1>4, <2>2, <2>3 DEF OperationDies, PremiumTypes, accounts, Active
<1>5. ASSUME NEW g \in Guilds, NEW t \in Tiers, NEW p \in {"active", "expired"}, Outside(g, t, p), t # "Free"
      PROVE  PremiumTypes'
  <2>1. tier' \in [Guilds -> Tiers] /\ paid' \in [Guilds -> {"NULL", "active", "expired"}]
    BY <1>5 DEF Outside, PremiumTypes
  <2>2. \A h \in Guilds : paid'[h] = "active" => paid'[h] = "active" /\ tier'[h] # "Free"
    BY <1>5 DEF Outside, PremiumTypes, Active
  <2> QED BY <1>5, <2>1, <2>2 DEF Outside, PremiumTypes, Active
<1>6. CASE UNCHANGED premiumVars BY <1>6 DEF premiumVars, PremiumTypes, Active
<1> QED BY <1>1, <1>2, <1>3, <1>4, <1>5, <1>6, PremiumSteps

\* The fields of operations that go on are as they were.
SameFields(p) == /\ operation'[p].kind = operation[p].kind
                 /\ operation'[p].origin = operation[p].origin /\ operation'[p].dest = operation[p].dest

\* What a second step does, and dying: operations move on or stop, none begins.
Continues ==
  /\ Under' \subseteq Under /\ \A p \in Under' : SameFields(p)
  /\ troubled \subseteq troubled' /\ UNCHANGED accounts

LEMMA StepContinues ==
  ASSUME PremiumTypes, NEW o \in Under, SetInherits(o) \/ SetTransferred(o) \/ OperationDies(o)
  PROVE  /\ Continues /\ o \in Operations
         /\ \A p \in Operations \ {o} : operation'[p] = operation[p]
         /\ SameFields(o)
<1>1. PICK pc \in {"origin", "done"} : OpGoes(o, pc) /\ (pc = "origin" => operation[o].kind # "sub")
  BY DEF SetInherits, SetTransferred, OperationDies
<1>2. UNCHANGED accounts /\ troubled \subseteq troubled'
  BY DEF SetInherits, SetTransferred, OperationDies
<1>3. o \in Operations /\ \A p \in Under' : p \in Operations BY DEF Under
<1>4. \A p \in Operations \ {o} : operation'[p] = operation[p] BY <1>1, MovesOn
<1>5. SameFields(o) /\ Under' \subseteq Under BY <1>1, MovesOn DEF SameFields
<1> QED BY <1>2, <1>3, <1>4, <1>5 DEF Continues, SameFields

LEMMA MeetingKept == PremiumTypes /\ Meeting /\ [PremiumNext]_premiumVars => Meeting'
<1> SUFFICES ASSUME PremiumTypes, Meeting, [PremiumNext]_premiumVars PROVE Meeting' OBVIOUS
<1>1. ASSUME NEW o \in Operations, NEW kind \in {"transfer", "sub", "revert"},
             NEW a \in Guilds, NEW b \in Guilds, Start(o, kind, a, b)
      PROVE  Meeting'
  <2>0. /\ operation'[o] = [pc |-> "dest", kind |-> kind, origin |-> a, dest |-> b]
        /\ \A p \in Operations \ {o} : operation'[p] = operation[p]
        /\ o \notin Under
    BY <1>1, StartEffect
  <2>1. GuildsOf(operation[o])' = {a, b} BY <2>0 DEF GuildsOf
  <2>2. \A p \in Under : p # o /\ GuildsOf(operation[p])' = GuildsOf(operation[p])
    BY <2>0 DEF GuildsOf, Under
  <2>3. \A p \in Under : GuildsOf(operation[p]) \cap {a, b} # {} =>
          GuildsOf(operation[p]) \cup {a, b} \subseteq troubled'
    BY <1>1 DEF Start
  <2>4. Under' = Under \cup {o} /\ troubled \subseteq troubled' BY <1>1, StartEffect
  <2> SUFFICES ASSUME NEW p \in Under', NEW q \in Under', p # q,
                      GuildsOf(operation[p])' \cap GuildsOf(operation[q])' # {}
               PROVE  GuildsOf(operation[p])' \subseteq troubled'
    BY DEF Meeting
  <2>5. CASE p = o BY <2>1, <2>2, <2>3, <2>4, <2>5
  <2>6. CASE q = o BY <2>1, <2>2, <2>3, <2>4, <2>6
  <2>7. CASE p # o /\ q # o BY <2>2, <2>4, <2>7 DEF Meeting
  <2> QED BY <2>5, <2>6, <2>7
<1>2. ASSUME Continues PROVE Meeting'
  BY <1>2 DEF Continues, SameFields, Meeting, GuildsOf
<1>3. CASE \E g \in Guilds, t \in Tiers, p \in {"active", "expired"} : Outside(g, t, p)
  BY <1>3 DEF Outside, Meeting, Under
<1>4. CASE UNCHANGED premiumVars BY <1>4 DEF premiumVars, Meeting, Under
<1> QED BY <1>1, <1>2, <1>3, <1>4, PremiumSteps, StepContinues

LEMMA DownwardsKept ==
  PremiumTypes /\ Downwards /\ [PremiumNext]_premiumVars => Downwards'
<1> SUFFICES ASSUME PremiumTypes, Downwards, [PremiumNext]_premiumVars PROVE Downwards' OBVIOUS
<1>1. ASSUME NEW o \in Operations, NEW kind \in {"transfer", "sub", "revert"},
             NEW a \in Guilds, NEW b \in Guilds, Checked(kind, a, b), Start(o, kind, a, b)
      PROVE  Downwards'
  <2>1. UNCHANGED <<tier, paid, inheritsFrom>> /\ Under' = Under \cup {o}
    BY <1>1, StartEffect DEF accounts
  <2>2. \A p \in Under : operation'[p] = operation[p] /\ p \in Operations
    BY <1>1, StartEffect DEF Under
  <2>3. kind # "revert" => Active(a) /\ ~Active(b) /\ inheritsFrom[a] = NoGuild
    BY <1>1 DEF Checked, CanTransfer, Active
  <2>4. operation'[o].kind = kind /\ operation'[o].origin = a /\ operation'[o].dest = b
    <3>1. operation'[o] = [pc |-> "dest", kind |-> kind, origin |-> a, dest |-> b]
      BY <1>1, StartEffect
    <3> QED BY <3>1
  <2> QED BY <2>1, <2>2, <2>3, <2>4 DEF Downwards, Gives, Active
<1>2. ASSUME Continues, UNCHANGED inheritsFrom PROVE Downwards'
  BY <1>2 DEF Continues, SameFields, Downwards, Gives, Active, accounts
<1>3. ASSUME NEW o \in Under, SetInherits(o), OpAt(o, "dest") PROVE Downwards'
  <2>1. Continues BY <1>3, StepContinues
  <2>2. \A p \in Under' : p \in Under /\ Gives(p)' = Gives(p)
         /\ operation'[p].origin = operation[p].origin /\ operation'[p].dest = operation[p].dest
         /\ operation[p].origin \in Guilds
    BY <2>1, UnderIs DEF Continues, SameFields, Gives, Under
  <2>3. \A g \in Guilds : inheritsFrom[g] = NoGuild /\ (Gives(o) => g # operation[o].dest) =>
          inheritsFrom'[g] = NoGuild
    BY <1>3, UnderIs DEF SetInherits, PremiumTypes, Gives, Under
  <2>4. \A p \in Under : Gives(p) /\ Gives(o) => operation[p].origin # operation[o].dest
    BY <1>3 DEF Downwards
  <2> QED BY <2>1, <2>2, <2>3, <2>4 DEF Downwards, Continues, Active, accounts
<1>4. CASE \E g \in Guilds, t \in Tiers, p \in {"active", "expired"} : Outside(g, t, p)
  BY <1>4 DEF Outside, Downwards, Under
<1>5. CASE UNCHANGED premiumVars BY <1>5 DEF premiumVars, Downwards, Under, Gives, Active
<1>6. \A o \in Under : SetTransferred(o) \/ OperationDies(o) => UNCHANGED inheritsFrom
  BY DEF SetTransferred, OperationDies
<1> QED BY <1>1, <1>2, <1>3, <1>4, <1>5, <1>6, PremiumSteps, StepContinues

\* A new link leads to a guild that inherits from nobody.
LEMMA NoCycleKept ==
  PremiumTypes /\ Downwards /\ NoCycle /\ [PremiumNext]_premiumVars => NoCycle'
<1> SUFFICES ASSUME PremiumTypes, Downwards, NoCycle, [PremiumNext]_premiumVars PROVE NoCycle' OBVIOUS
<1>1. ASSUME NEW o \in Under, SetInherits(o), OpAt(o, "dest") PROVE NoCycle'
  <2> DEFINE a == operation[o].origin
             b == operation[o].dest
  <2>1. a \in Guilds /\ b \in Guilds BY UnderIs DEF Under
  <2>2. inheritsFrom' = [inheritsFrom EXCEPT ![b] = IF Gives(o) THEN a ELSE NoGuild]
    BY <1>1, UnderIs DEF SetInherits, Gives, Under
  <2>3. Gives(o) => a # b /\ inheritsFrom[a] = NoGuild BY DEF Downwards
  <2> HIDE DEF a, b
  <2> SUFFICES ASSUME NEW S \in SUBSET Guilds, S # {} PROVE \E g \in S : inheritsFrom'[g] \notin S
    BY DEF NoCycle
  <2>4. CASE Gives(o) /\ a \in S
    BY <2>1, <2>2, <2>3, <2>4, PremiumAssumption DEF PremiumTypes
  <2>5. CASE b \in S /\ ~(Gives(o) /\ a \in S)
    BY <2>1, <2>2, <2>5, PremiumAssumption DEF PremiumTypes
  <2>6. CASE b \notin S /\ ~(Gives(o) /\ a \in S)
    <3>1. PICK g \in S : inheritsFrom[g] \notin S BY DEF NoCycle
    <3> QED BY <3>1, <2>2, <2>6 DEF PremiumTypes
  <2> QED BY <2>4, <2>5, <2>6
<1>2. CASE UNCHANGED inheritsFrom BY <1>2 DEF NoCycle
<1>3. ASSUME NEW o \in Operations, NEW kind \in {"transfer", "sub", "revert"},
             NEW a \in Guilds, NEW b \in Guilds, Start(o, kind, a, b)
      PROVE  UNCHANGED inheritsFrom
  BY <1>3 DEF Start
<1>4. \A o \in Under : SetTransferred(o) \/ OperationDies(o) => UNCHANGED inheritsFrom
  BY DEF SetTransferred, OperationDies
<1>5. \A g, t, p : Outside(g, t, p) => UNCHANGED inheritsFrom BY DEF Outside
<1>6. UNCHANGED premiumVars => UNCHANGED inheritsFrom BY DEF premiumVars
<1> QED BY <1>1, <1>2, <1>3, <1>4, <1>5, <1>6, PremiumSteps

LEMMA UnreliedKept ==
  PremiumTypes /\ Meeting /\ Unrelied /\ [PremiumNext]_premiumVars => Unrelied'
<1> SUFFICES ASSUME PremiumTypes, Meeting, Unrelied, [PremiumNext]_premiumVars PROVE Unrelied' OBVIOUS
<1>1. ASSUME NEW o \in Operations, NEW kind \in {"transfer", "sub", "revert"},
             NEW a \in Guilds, NEW b \in Guilds, Checked(kind, a, b), Start(o, kind, a, b)
      PROVE  Unrelied'
  <2>1. UNCHANGED transferredTo /\ Under' = Under \cup {o} /\ troubled \subseteq troubled'
    BY <1>1, StartEffect
  <2>2. \A p \in Under : operation'[p] = operation[p] /\ p \in Operations
    BY <1>1, StartEffect DEF Under
  <2>3. IF kind = "revert" THEN transferredTo[a] = b ELSE transferredTo[a] = NoGuild /\ transferredTo[b] = NoGuild
    BY <1>1 DEF Checked, CanTransfer, CanRevertTransfer
  <2>4. operation'[o].kind = kind /\ operation'[o].origin = a /\ operation'[o].dest = b
    <3>1. operation'[o] = [pc |-> "dest", kind |-> kind, origin |-> a, dest |-> b]
      BY <1>1, StartEffect
    <3> QED BY <3>1
  <2> QED BY <2>1, <2>2, <2>3, <2>4 DEF Unrelied, Gives
<1>2. ASSUME Continues, UNCHANGED transferredTo PROVE Unrelied'
  BY <1>2 DEF Continues, SameFields, Unrelied, Gives
<1>3. ASSUME NEW o \in Under, SetTransferred(o), OpAt(o, "origin") PROVE Unrelied'
  <2> DEFINE a == operation[o].origin
             b == operation[o].dest
  <2>1. a \in Guilds /\ b \in Guilds /\ GuildsOf(operation[o]) = {a, b} BY UnderIs DEF Under
  <2>2. transferredTo' = [transferredTo EXCEPT ![a] = IF Gives(o) THEN b ELSE NoGuild] /\ troubled' = troubled
    BY <1>3, UnderIs DEF SetTransferred, Gives, Under
  <2>3. o \notin Under' BY <1>3, MovesOn DEF SetTransferred, Under
  <2>4. Continues BY <1>3, StepContinues
  <2>5. ASSUME NEW p \in Under'
        PROVE  /\ p \in Under /\ Gives(p)' = Gives(p)
               /\ operation'[p].origin = operation[p].origin /\ operation'[p].dest = operation[p].dest
               /\ operation[p].origin \in Guilds /\ operation[p].dest \in Guilds
               /\ a \in {operation[p].origin, operation[p].dest} => b \in troubled
    <3>1. p \in Under /\ p # o /\ p \in Operations BY <2>3, <2>4 DEF Continues, Under
    <3>2. operation[p].origin \in Guilds /\ operation[p].dest \in Guilds
          /\ GuildsOf(operation[p]) = {operation[p].origin, operation[p].dest}
      BY <3>1, UnderIs
    <3>3. a \in {operation[p].origin, operation[p].dest} => b \in troubled
      BY <2>1, <3>1, <3>2 DEF Meeting
    <3> QED BY <2>4, <3>1, <3>2, <3>3 DEF Continues, SameFields, Gives
  <2>6. \A g \in Guilds : g # a => transferredTo'[g] = transferredTo[g]
    BY <2>2 DEF PremiumTypes
  <2>7. transferredTo'[a] \in {b, NoGuild} BY <2>1, <2>2 DEF PremiumTypes
  <2> HIDE DEF a, b
  <2> SUFFICES ASSUME NEW p \in Under'
               PROVE  /\ Gives(p) => /\ transferredTo'[operation[p].origin] \in troubled \cup {NoGuild}
                                     /\ transferredTo'[operation[p].dest] \in troubled \cup {NoGuild}
                      /\ ~Gives(p) => transferredTo'[operation[p].origin] \in troubled \cup {NoGuild, operation[p].dest}
    BY <2>2, <2>5 DEF Unrelied
  <2>8. p \in Under /\ operation[p].origin \in Guilds /\ operation[p].dest \in Guilds
        /\ (a \in {operation[p].origin, operation[p].dest} => b \in troubled)
    BY <2>5
  <2>9. ASSUME NEW g \in {operation[p].origin, operation[p].dest}
        PROVE  transferredTo'[g] \in troubled \cup {NoGuild} \/ transferredTo'[g] = transferredTo[g]
    BY <2>6, <2>7, <2>8
  <2> QED BY <2>8, <2>9 DEF Unrelied
<1>4. CASE \E g \in Guilds, t \in Tiers, p \in {"active", "expired"} : Outside(g, t, p)
  BY <1>4 DEF Outside, Unrelied, Under
<1>5. CASE UNCHANGED premiumVars BY <1>5 DEF premiumVars, Unrelied, Under, Gives
<1>6. \A o \in Under : SetInherits(o) \/ OperationDies(o) => UNCHANGED transferredTo
  BY DEF SetInherits, OperationDies
<1> QED BY <1>1, <1>2, <1>3, <1>4, <1>5, <1>6, PremiumSteps, StepContinues

-----------------------------------------------------------------------------
(* How links belong together *)

\* An operation that has an untroubled guild meets no other.
LEMMA AloneOnGuilds ==
  ASSUME PremiumTypes, Meeting, NEW o \in Under, NEW p \in Under, o # p,
         operation[o].origin \notin troubled \/ operation[o].dest \notin troubled
  PROVE  {operation[o].origin, operation[o].dest} \cap {operation[p].origin, operation[p].dest} = {}
<1>1. o \in Operations /\ p \in Operations BY DEF Under
<1>2. GuildsOf(operation[o]) = {operation[o].origin, operation[o].dest}
      /\ GuildsOf(operation[p]) = {operation[p].origin, operation[p].dest}
  BY <1>1, UnderIs
<1> QED BY <1>2 DEF Meeting

LEMMA HalfwayIs ==
  ASSUME PremiumTypes, NEW kind, NEW g, NEW h, Halfway(kind, g, h)
  PROVE  \E o \in Under : /\ OpAt(o, "origin") /\ operation[o].kind = kind
                          /\ operation[o].origin = g /\ operation[o].dest = h
<1>1. PICK o \in Operations : operation[o] = [pc |-> "origin", kind |-> kind, origin |-> g, dest |-> h]
  BY DEF Halfway
<1>2. OpAt(o, "origin") /\ operation[o].kind = kind /\ operation[o].origin = g /\ operation[o].dest = h
  BY <1>1 DEF OpAt
<1> QED BY <1>2 DEF Under, OpAt

\* It lasts while none but another operation moves.
LEMMA HalfwayStays ==
  ASSUME NEW o \in Operations, \A p \in Operations \ {o} : operation'[p] = operation[p],
         NEW kind, NEW g, NEW h, Halfway(kind, g, h),
         operation[o] # [pc |-> "origin", kind |-> kind, origin |-> g, dest |-> h]
  PROVE  Halfway(kind, g, h)'
<1>1. PICK p \in Operations : operation[p] = [pc |-> "origin", kind |-> kind, origin |-> g, dest |-> h]
  BY DEF Halfway
<1>2. operation'[p] = [pc |-> "origin", kind |-> kind, origin |-> g, dest |-> h] BY <1>1
<1> QED BY <1>2 DEF Halfway

LEMMA StartOrderly ==
  ASSUME PremiumTypes, Orderly, NEW o \in Operations, NEW kind \in {"transfer", "sub", "revert"},
         NEW a \in Guilds, NEW b \in Guilds, Checked(kind, a, b), Start(o, kind, a, b)
  PROVE  Orderly'
<1>1. operation'[o] = [pc |-> "dest", kind |-> kind, origin |-> a, dest |-> b]
  BY StartEffect
<1>2. /\ \A p \in Operations \ {o} : operation'[p] = operation[p]
      /\ o \notin Under /\ Under' = Under \cup {o} /\ troubled \subseteq troubled'
      /\ UNCHANGED <<transferredTo, inheritsFrom, subs>>
  BY StartEffect
<1>3. operation[o].pc = "idle" BY DEF Start, OpAt
<1> SUFFICES ASSUME NEW h \in Guilds, h \notin troubled' PROVE (Handed(h) /\ Inherited(h) /\ Receiving(h))'
  BY DEF Orderly
<1>4. Handed(h) /\ Inherited(h) /\ Receiving(h) BY <1>2 DEF Orderly
<1>5. ASSUME NEW k, NEW g, Halfway(k, g, h) PROVE Halfway(k, g, h)'
  <2>1. operation[o] # [pc |-> "origin", kind |-> k, origin |-> g, dest |-> h] BY <1>3
  <2>2. \A p \in Operations \ {o} : operation'[p] = operation[p] BY <1>2
  <2> QED BY <1>5, <2>1, <2>2, HalfwayStays
<1>6. Handed(h)' BY <1>2, <1>4, <1>5 DEF Handed
<1>7. Inherited(h)' BY <1>2, <1>4, <1>5 DEF Inherited
<1>8. Receiving(h)'
  <2> SUFFICES ASSUME NEW p \in Under', operation'[p].dest = h
               PROVE  /\ Gives(p)' /\ operation'[p].pc = "dest" =>
                           /\ inheritsFrom[h] = NoGuild /\ transferredTo[h] = NoGuild
                           /\ transferredTo[operation'[p].origin] = NoGuild
                           /\ \A g \in Guilds : transferredTo[g] # h
                      /\ Gives(p)' /\ operation'[p].pc = "origin" =>
                           /\ inheritsFrom[h] = operation'[p].origin
                           /\ transferredTo[operation'[p].origin] = NoGuild /\ h \notin subs
                      /\ ~Gives(p)' /\ operation'[p].pc = "dest" =>
                           inheritsFrom[h] = operation'[p].origin /\ transferredTo[operation'[p].origin] = h
                      /\ ~Gives(p)' /\ operation'[p].pc = "origin" =>
                           inheritsFrom[h] = NoGuild /\ transferredTo[operation'[p].origin] = h
    BY <1>2 DEF Receiving, OpAt
  <2>1. CASE p # o
    <3>1. p \in Under /\ operation'[p] = operation[p] BY <1>2, <2>1 DEF Under
    <3>2. Gives(p)' = Gives(p) BY <3>1 DEF Gives
    <3> QED BY <1>4, <3>1, <3>2 DEF Receiving, OpAt
  <2>2. CASE p = o
    <3>1. h = b /\ operation'[p].pc = "dest" /\ operation'[p].origin = a /\ operation'[p].kind = kind
      BY <1>1, <2>2
    <3>2. Gives(p)' <=> kind # "revert" BY <3>1 DEF Gives
    <3>3. CASE kind # "revert"
      <4>1. inheritsFrom[h] = NoGuild /\ transferredTo[h] = NoGuild /\ transferredTo[a] = NoGuild
        BY <3>1, <3>3 DEF Checked, CanTransfer
      <4>2. \A g \in Guilds : transferredTo[g] # h
        <5> SUFFICES ASSUME NEW g \in Guilds, transferredTo[g] = h PROVE FALSE OBVIOUS
        <5>1. Halfway("revert", g, h) BY <1>4, <4>1, PremiumAssumption DEF Handed
        <5>2. PICK q \in Under : operation[q].dest = h BY <5>1, HalfwayIs
        <5>3. GuildsOf(operation[q]) \cap {a, b} # {} BY <3>1, <5>2 DEF GuildsOf
        <5>4. b \in troubled' BY <5>2, <5>3 DEF Start
        <5> QED BY <3>1, <5>4
      <4> QED BY <3>1, <3>2, <3>3, <4>1, <4>2
    <3>4. CASE kind = "revert"
      <4>1. transferredTo[a] = b /\ inheritsFrom[b] = a BY <3>4 DEF Checked, CanRevertTransfer
      <4> QED BY <3>1, <3>2, <3>4, <4>1
    <3> QED BY <3>3, <3>4
  <2> QED BY <2>1, <2>2
<1> QED BY <1>6, <1>7, <1>8

LEMMA DiesOrderly ==
  ASSUME PremiumTypes, Orderly, NEW o \in Under, OperationDies(o)
  PROVE  Orderly'
<1>1. Continues /\ o \in Operations /\ \A p \in Operations \ {o} : operation'[p] = operation[p]
  BY StepContinues
<1>2. UNCHANGED <<transferredTo, inheritsFrom, subs>> BY DEF OperationDies
<1>3. operation[o].origin \in troubled' /\ operation[o].dest \in troubled' BY DEF OperationDies, GuildsOf
<1>4. o \notin Under' BY MovesOn DEF OperationDies, Under
<1> SUFFICES ASSUME NEW h \in Guilds, h \notin troubled' PROVE (Handed(h) /\ Inherited(h) /\ Receiving(h))'
  BY DEF Orderly
<1>5. Handed(h) /\ Inherited(h) /\ Receiving(h) BY <1>1 DEF Orderly, Continues
<1>6. ASSUME NEW k, NEW g, Halfway(k, g, h) PROVE Halfway(k, g, h)'
  <2>1. operation[o] # [pc |-> "origin", kind |-> k, origin |-> g, dest |-> h] BY <1>3
  <2> QED BY <1>1, <1>6, <2>1, HalfwayStays
<1>7. Handed(h)' BY <1>2, <1>5, <1>6 DEF Handed
<1>8. Inherited(h)' BY <1>2, <1>5, <1>6 DEF Inherited
<1>9. \A p \in Under' : p \in Under /\ operation'[p] = operation[p] BY <1>1, <1>4 DEF Continues, Under
<1>10. Receiving(h)' BY <1>2, <1>5, <1>9 DEF Receiving, OpAt, Gives
<1> QED BY <1>7, <1>8, <1>10

\* The first update gives the dest its link, or takes it away.
LEMMA InheritsEffect ==
  ASSUME PremiumTypes, NEW o \in Under, SetInherits(o), OpAt(o, "dest"),
         NEW x, x = operation[o].origin, NEW d, d = operation[o].dest
  PROVE  /\ o \in Operations /\ x \in Guilds /\ d \in Guilds
         /\ \A p \in Operations \ {o} : operation'[p] = operation[p]
         /\ operation'[o] = [operation[o] EXCEPT !.pc = IF operation[o].kind = "sub" THEN "done" ELSE "origin"]
         /\ Under' \subseteq Under /\ troubled' = troubled /\ transferredTo' = transferredTo
         /\ inheritsFrom'[d] = IF Gives(o) THEN x ELSE NoGuild
         /\ \A h \in Guilds \ {d} : inheritsFrom'[h] = inheritsFrom[h] /\ (h \in subs' <=> h \in subs)
         /\ d \in subs' <=> operation[o].kind = "sub"
<1>1. o \in Operations /\ x \in Guilds /\ d \in Guilds BY UnderIs DEF Under
<1>2. Gives(o) \/ operation[o].kind = "revert" BY UnderIs DEF Under
<1>3. /\ inheritsFrom'[d] = IF Gives(o) THEN x ELSE NoGuild
      /\ \A h \in Guilds \ {d} : inheritsFrom'[h] = inheritsFrom[h] /\ (h \in subs' <=> h \in subs)
      /\ d \in subs' <=> operation[o].kind = "sub"
  BY <1>1, <1>2 DEF SetInherits, PremiumTypes, Gives
<1>4. operation' = [operation EXCEPT ![o].pc = IF operation[o].kind = "sub" THEN "done" ELSE "origin"]
  BY DEF SetInherits, OpGoes
<1>5. /\ \A p \in Operations \ {o} : operation'[p] = operation[p]
      /\ operation'[o] = [operation[o] EXCEPT !.pc = IF operation[o].kind = "sub" THEN "done" ELSE "origin"]
  BY <1>1, <1>4 DEF PremiumTypes
<1>6. Under' \subseteq Under /\ troubled' = troubled /\ transferredTo' = transferredTo
  BY StepContinues DEF Continues, SetInherits
<1> QED BY <1>1, <1>3, <1>5, <1>6

LEMMA InheritsOrderly ==
  ASSUME PremiumTypes, Meeting, Downwards, Unrelied, Orderly,
         NEW o \in Under, SetInherits(o), OpAt(o, "dest")
  PROVE  Orderly'
<1>0. PICK x, d, kind :
        x = operation[o].origin /\ d = operation[o].dest /\ kind = operation[o].kind
  OBVIOUS
<1>1. /\ o \in Operations /\ x \in Guilds /\ d \in Guilds
      /\ \A p \in Operations \ {o} : operation'[p] = operation[p]
      /\ operation'[o] = [operation[o] EXCEPT !.pc = IF kind = "sub" THEN "done" ELSE "origin"]
      /\ Under' \subseteq Under /\ troubled' = troubled /\ transferredTo' = transferredTo
      /\ inheritsFrom'[d] = IF Gives(o) THEN x ELSE NoGuild
      /\ \A h \in Guilds \ {d} : inheritsFrom'[h] = inheritsFrom[h] /\ (h \in subs' <=> h \in subs)
      /\ d \in subs' <=> kind = "sub"
  BY <1>0, InheritsEffect
<1>2. /\ operation[o] = [pc |-> "dest", kind |-> kind, origin |-> x, dest |-> d]
      /\ Gives(o) \/ kind = "revert"
  BY <1>0, <1>1, UnderIs DEF OpAt
<1>3. kind # "sub" =>
        operation'[o] = [pc |-> "origin", kind |-> kind, origin |-> x, dest |-> d]
  BY <1>1, <1>2
<1>4. kind # "sub" => Halfway(kind, x, d)' BY <1>1, <1>3 DEF Halfway
<1>5. Gives(o) => inheritsFrom[x] = NoGuild /\ x # d BY <1>0 DEF Downwards
<1>6. \A k, g, h : Halfway(k, g, h) => Halfway(k, g, h)'
  <2> SUFFICES ASSUME NEW k, NEW g, NEW h, Halfway(k, g, h) PROVE Halfway(k, g, h)' OBVIOUS
  <2>1. operation[o] # [pc |-> "origin", kind |-> k, origin |-> g, dest |-> h] BY <1>2
  <2> QED BY <1>1, <2>1, HalfwayStays
<1>8. \A p \in Under \ {o} : operation[p].origin \notin troubled \/ operation[p].dest \notin troubled =>
        {x, d} \cap {operation[p].origin, operation[p].dest} = {}
  BY <1>0, AloneOnGuilds
<1>9. Gives(o) => transferredTo[d] \in troubled \cup {NoGuild} BY <1>0 DEF Unrelied
<1>10. d \notin troubled =>
         /\ Gives(o) => transferredTo[d] = NoGuild /\ transferredTo[x] = NoGuild
                        /\ \A g \in Guilds : transferredTo[g] # d
         /\ ~Gives(o) => inheritsFrom[d] = x /\ transferredTo[x] = d
  BY <1>0, <1>1 DEF Orderly, Receiving
<1> SUFFICES ASSUME NEW h \in Guilds, h \notin troubled PROVE (Handed(h) /\ Inherited(h) /\ Receiving(h))'
  BY <1>1 DEF Orderly
<1>12. Handed(h) /\ Inherited(h) /\ Receiving(h) BY DEF Orderly
<1>13. Handed(h)'
  <2> SUFFICES ASSUME NEW g \in Guilds, transferredTo[g] = h
               PROVE  inheritsFrom'[h] = g \/ Halfway("revert", g, h)'
    BY <1>1 DEF Handed
  <2>1. inheritsFrom[h] = g \/ Halfway("revert", g, h) BY <1>12 DEF Handed
  <2>2. CASE h # d BY <1>1, <1>6, <2>1, <2>2
  <2>3. CASE h = d
    <3>1. ~Gives(o) /\ inheritsFrom[d] = x BY <1>10, <2>3
    <3>2. kind = "revert" BY <1>2, <3>1
    <3> QED BY <1>4, <1>6, <2>1, <2>3, <3>1, <3>2
  <2> QED BY <2>2, <2>3
<1>14. Inherited(h)'
  <2> SUFFICES ASSUME NEW y, y = inheritsFrom'[h], y # NoGuild
               PROVE  /\ transferredTo[h] = NoGuild
                      /\ \/ h \in subs' /\ \A g \in Guilds : transferredTo[g] # h
                         \/ /\ h \notin subs' /\ inheritsFrom'[y] = NoGuild
                            /\ transferredTo[y] = h \/ Halfway("transfer", y, h)'
    BY <1>1 DEF Inherited, Halfway
  <2>1. CASE h = d
    <3>1. Gives(o) /\ y = x BY <1>1, <2>1
    <3>2. transferredTo[h] = NoGuild /\ \A g \in Guilds : transferredTo[g] # h BY <1>10, <2>1, <3>1
    <3>3. CASE kind = "sub" BY <1>1, <2>1, <3>2, <3>3
    <3>4. CASE kind # "sub"
      <4>1. kind = "transfer" BY <1>0, <1>2, <3>1, <3>4 DEF Gives
      <4>2. h \notin subs' BY <1>1, <2>1, <3>4
      <4>3. inheritsFrom'[x] = NoGuild BY <1>1, <1>5, <3>1
      <4>4. Halfway("transfer", x, h)' BY <1>4, <2>1, <4>1
      <4> QED BY <3>1, <3>2, <4>2, <4>3, <4>4
    <3> QED BY <3>3, <3>4
  <2>2. CASE h # d
    <3>1. inheritsFrom[h] = y /\ (h \in subs' <=> h \in subs) /\ y # NoGuild BY <1>1, <2>2
    <3>2. y \in Guilds BY <3>1 DEF PremiumTypes, MaybeGuild
    <3>3. transferredTo[h] = NoGuild BY <1>12, <3>1 DEF Inherited
    <3>4. CASE h \in subs BY <1>12, <3>1, <3>3, <3>4 DEF Inherited
    <3>5. CASE h \notin subs
      <4>1. inheritsFrom[y] = NoGuild /\ (transferredTo[y] = h \/ Halfway("transfer", y, h))
        BY <1>12, <3>1, <3>5 DEF Inherited
      <4>2. inheritsFrom'[y] = NoGuild
        <5>1. CASE y # d BY <1>1, <3>2, <4>1, <5>1
        <5>2. CASE y = d /\ ~Gives(o) BY <1>1, <5>2
        <5>3. CASE y = d /\ Gives(o)
          <6>1. transferredTo[y] # h BY <1>9, <5>3, PremiumAssumption
          <6>2. PICK q \in Under : /\ OpAt(q, "origin") /\ operation[q].origin = y /\ operation[q].dest = h
            BY <4>1, <6>1, HalfwayIs
          <6>3. q # o BY <6>2 DEF OpAt
          <6> QED BY <1>8, <5>3, <6>2, <6>3
        <5> QED BY <5>1, <5>2, <5>3
      <4>3. transferredTo[y] = h \/ Halfway("transfer", y, h)' BY <1>6, <4>1
      <4> QED BY <3>1, <3>3, <3>5, <4>2, <4>3
    <3> QED BY <3>4, <3>5
  <2> QED BY <2>1, <2>2
<1>15. Receiving(h)'
  <2> SUFFICES ASSUME NEW p \in Under', operation'[p].dest = h
               PROVE  /\ Gives(p)' /\ operation'[p].pc = "dest" =>
                           /\ inheritsFrom'[h] = NoGuild /\ transferredTo[h] = NoGuild
                           /\ transferredTo[operation'[p].origin] = NoGuild
                           /\ \A g \in Guilds : transferredTo[g] # h
                      /\ Gives(p)' /\ operation'[p].pc = "origin" =>
                           /\ inheritsFrom'[h] = operation'[p].origin
                           /\ transferredTo[operation'[p].origin] = NoGuild /\ h \notin subs'
                      /\ ~Gives(p)' /\ operation'[p].pc = "dest" =>
                           inheritsFrom'[h] = operation'[p].origin /\ transferredTo[operation'[p].origin] = h
                      /\ ~Gives(p)' /\ operation'[p].pc = "origin" =>
                           inheritsFrom'[h] = NoGuild /\ transferredTo[operation'[p].origin] = h
    BY <1>1 DEF Receiving, OpAt
  <2>0. p \in Under BY <1>1
  <2>1. CASE p = o
    <3>1. operation'[p].pc # "done" BY DEF Under
    <3>2. kind # "sub"
      <4>1. kind = "sub" => operation'[o].pc = "done" BY <1>1, <1>2
      <4> QED BY <2>1, <3>1, <4>1
    <3>3. operation'[p].pc = "origin" /\ operation'[p].origin = x /\ h = d /\ operation'[p].kind = kind
      BY <1>3, <2>1, <3>2
    <3>4. Gives(p)' = Gives(o) BY <1>0, <3>3 DEF Gives
    <3> QED BY <1>1, <1>10, <3>2, <3>3, <3>4
  <2>2. CASE p # o
    <3>1. operation'[p] = operation[p] BY <1>1, <2>0, <2>2 DEF Under
    <3>2. Gives(p)' = Gives(p) BY <3>1 DEF Gives
    <3>3. h # d BY <1>8, <2>0, <2>2, <3>1
    <3>4. inheritsFrom'[h] = inheritsFrom[h] /\ (h \in subs' <=> h \in subs) BY <1>1, <3>3
    <3> QED BY <1>12, <2>0, <3>1, <3>2, <3>4 DEF Receiving, OpAt
  <2> QED BY <2>1, <2>2
<1> QED BY <1>13, <1>14, <1>15

\* The second update gives the origin its link, or takes it away.
LEMMA TransferredEffect ==
  ASSUME PremiumTypes, NEW o \in Under, SetTransferred(o), OpAt(o, "origin"),
         NEW x, x = operation[o].origin, NEW d, d = operation[o].dest
  PROVE  /\ o \in Operations /\ x \in Guilds /\ d \in Guilds
         /\ \A p \in Operations \ {o} : operation'[p] = operation[p]
         /\ Under' \subseteq Under \ {o} /\ UNCHANGED <<troubled, inheritsFrom, subs>>
         /\ transferredTo'[x] = IF Gives(o) THEN d ELSE NoGuild
         /\ \A h \in Guilds \ {x} : transferredTo'[h] = transferredTo[h]
<1>1. o \in Operations /\ x \in Guilds /\ d \in Guilds BY UnderIs DEF Under
<1>2. Gives(o) \/ operation[o].kind = "revert" BY UnderIs DEF Under
<1>3. /\ transferredTo'[x] = IF Gives(o) THEN d ELSE NoGuild
      /\ \A h \in Guilds \ {x} : transferredTo'[h] = transferredTo[h]
  BY <1>1, <1>2 DEF SetTransferred, PremiumTypes, Gives
<1>4. \A p \in Operations \ {o} : operation'[p] = operation[p] BY StepContinues
<1>5. Under' \subseteq Under /\ o \notin Under' BY MovesOn DEF SetTransferred, Under
<1>6. UNCHANGED <<troubled, inheritsFrom, subs>> BY DEF SetTransferred
<1> QED BY <1>1, <1>3, <1>4, <1>5, <1>6

LEMMA TransferredOrderly ==
  ASSUME PremiumTypes, Meeting, Downwards, Unrelied, Orderly,
         NEW o \in Under, SetTransferred(o), OpAt(o, "origin")
  PROVE  Orderly'
<1>0. PICK x, d, kind :
        x = operation[o].origin /\ d = operation[o].dest /\ kind = operation[o].kind
  OBVIOUS
<1>1. /\ o \in Operations /\ x \in Guilds /\ d \in Guilds
      /\ \A p \in Operations \ {o} : operation'[p] = operation[p]
      /\ Under' \subseteq Under \ {o} /\ UNCHANGED <<troubled, inheritsFrom, subs>>
      /\ transferredTo'[x] = IF Gives(o) THEN d ELSE NoGuild
      /\ \A h \in Guilds \ {x} : transferredTo'[h] = transferredTo[h]
  BY <1>0, TransferredEffect
<1>2. /\ operation[o] = [pc |-> "origin", kind |-> kind, origin |-> x, dest |-> d]
      /\ Gives(o) => kind # "revert"
  BY <1>0, <1>1, UnderIs DEF OpAt, Gives
<1>3. Gives(o) => inheritsFrom[x] = NoGuild BY <1>0 DEF Downwards
<1>4. \A p \in Under \ {o} : operation[p].origin \notin troubled \/ operation[p].dest \notin troubled =>
        {x, d} \cap {operation[p].origin, operation[p].dest} = {}
  BY <1>0, AloneOnGuilds
<1>5. /\ Gives(o) => transferredTo[x] \in troubled \cup {NoGuild}
      /\ ~Gives(o) => transferredTo[x] \in troubled \cup {NoGuild, d}
  BY <1>0 DEF Unrelied
<1>6. d \notin troubled =>
         /\ Gives(o) => inheritsFrom[d] = x /\ d \notin subs
         /\ ~Gives(o) => inheritsFrom[d] = NoGuild
  BY <1>0, <1>1 DEF Orderly, Receiving
<1>7. \A k, g, h : Halfway(k, g, h) /\ (k # kind \/ g # x \/ h # d) => Halfway(k, g, h)'
  <2> SUFFICES ASSUME NEW k, NEW g, NEW h, Halfway(k, g, h), k # kind \/ g # x \/ h # d
               PROVE  Halfway(k, g, h)'
    OBVIOUS
  <2>1. operation[o] # [pc |-> "origin", kind |-> k, origin |-> g, dest |-> h] BY <1>2
  <2> QED BY <1>1, <2>1, HalfwayStays
<1> SUFFICES ASSUME NEW h \in Guilds, h \notin troubled PROVE (Handed(h) /\ Inherited(h) /\ Receiving(h))'
  BY <1>1 DEF Orderly
<1>8. Handed(h) /\ Inherited(h) /\ Receiving(h) BY DEF Orderly
<1>9. h # NoGuild BY PremiumAssumption
<1>10. Handed(h)'
  <2> SUFFICES ASSUME NEW g \in Guilds, transferredTo'[g] = h
               PROVE  inheritsFrom[h] = g \/ Halfway("revert", g, h)'
    BY <1>1 DEF Handed
  <2>1. CASE g = x
    <3>1. Gives(o) /\ h = d BY <1>1, <1>9, <2>1
    <3> QED BY <1>6, <2>1, <3>1
  <2>2. CASE g # x
    <3>1. inheritsFrom[h] = g \/ Halfway("revert", g, h) BY <1>1, <1>8, <2>2 DEF Handed
    <3> QED BY <1>7, <2>2, <3>1
  <2> QED BY <2>1, <2>2
<1>11. Inherited(h)'
  <2> SUFFICES ASSUME NEW y, y = inheritsFrom[h], y # NoGuild
               PROVE  /\ transferredTo'[h] = NoGuild
                      /\ \/ h \in subs /\ \A g \in Guilds : transferredTo'[g] # h
                         \/ /\ h \notin subs /\ inheritsFrom[y] = NoGuild
                            /\ transferredTo'[y] = h \/ Halfway("transfer", y, h)'
    BY <1>1 DEF Inherited, Halfway
  <2>0. y \in Guilds BY DEF PremiumTypes, MaybeGuild
  <2>1. transferredTo'[h] = NoGuild
    <3>1. transferredTo[h] = NoGuild BY <1>8 DEF Inherited
    <3> QED BY <1>1, <1>3, <3>1
  <2>2. CASE h \in subs
    <3>1. \A g \in Guilds : transferredTo[g] # h BY <1>8, <2>2 DEF Inherited
    <3>2. ~(Gives(o) /\ d = h) BY <1>6, <2>2
    <3> QED BY <1>1, <1>9, <2>1, <2>2, <3>1, <3>2
  <2>3. CASE h \notin subs
    <3>1. inheritsFrom[y] = NoGuild /\ (transferredTo[y] = h \/ Halfway("transfer", y, h))
      BY <1>8, <2>3 DEF Inherited
    <3>2. CASE transferredTo[y] = h
      <4>1. y # x BY <1>5, <1>6, <1>9, <3>2
      <4> QED BY <1>1, <2>0, <2>1, <2>3, <3>1, <3>2, <4>1
    <3>3. CASE Halfway("transfer", y, h) /\ ~("transfer" = kind /\ y = x /\ h = d)
      BY <1>7, <2>1, <2>3, <3>1, <3>3
    <3>4. CASE "transfer" = kind /\ y = x /\ h = d
      <4>1. Gives(o) BY <1>0, <3>4 DEF Gives
      <4>2. transferredTo'[y] = h BY <1>1, <3>4, <4>1
      <4> QED BY <2>1, <2>3, <3>1, <4>2
    <3> QED BY <3>1, <3>2, <3>3, <3>4
  <2> QED BY <2>2, <2>3
<1>12. Receiving(h)'
  <2>1. ASSUME NEW p \in Under', operation'[p].dest = h
        PROVE  /\ p \in Under /\ operation'[p] = operation[p] /\ Gives(p)' = Gives(p)
               /\ transferredTo'[operation[p].origin] = transferredTo[operation[p].origin]
    <3>1. p \in Under /\ p # o /\ p \in Operations BY <1>1, <2>1 DEF Under
    <3>2. operation'[p] = operation[p] BY <1>1, <3>1
    <3>3. operation[p].origin \in Guilds /\ operation[p].origin # x BY <1>4, <2>1, <3>1, <3>2, UnderIs
    <3> QED BY <1>1, <3>1, <3>2, <3>3 DEF Gives
  <2>2. ASSUME NEW p \in Under', operation'[p].dest = h
        PROVE  transferredTo'[h] = transferredTo[h] /\ \A g \in Guilds : transferredTo[g] # h => transferredTo'[g] # h
    <3>1. p \in Under /\ p # o /\ operation[p].dest = h BY <1>1, <2>1, <2>2
    <3>2. h # x /\ h # d BY <1>4, <3>1
    <3> QED BY <1>1, <1>9, <3>2
  <2> QED BY <1>1, <1>8, <2>1, <2>2 DEF Receiving, OpAt
<1> QED BY <1>10, <1>11, <1>12

LEMMA OrderlyKept ==
  PremiumTypes /\ Meeting /\ Downwards /\ Unrelied /\ Orderly /\ [PremiumNext]_premiumVars => Orderly'
<1> SUFFICES ASSUME PremiumTypes, Meeting, Downwards, Unrelied, Orderly, [PremiumNext]_premiumVars
             PROVE  Orderly'
  OBVIOUS
<1>1. CASE UNCHANGED <<transferredTo, inheritsFrom, operation, subs, troubled>>
  BY <1>1 DEF Orderly, Handed, Inherited, Receiving, Halfway, Under, OpAt, Gives
<1>2. UNCHANGED premiumVars \/ (\E g, t, p : Outside(g, t, p)) =>
        UNCHANGED <<transferredTo, inheritsFrom, operation, subs, troubled>>
  BY DEF premiumVars, Outside
<1> QED
  BY <1>1, <1>2, PremiumSteps, StartOrderly, DiesOrderly, InheritsOrderly, TransferredOrderly

-----------------------------------------------------------------------------
(* Premium is kept *)

LEMMA PremiumStarts == PremiumInit => PremiumInv
<1> SUFFICES ASSUME PremiumInit PROVE PremiumInv OBVIOUS
<1>1. \A o \in Operations : operation[o] = Idle BY DEF PremiumInit
<1>2. Under = {} BY <1>1 DEF Under, Idle
<1>3. PremiumTypes
  <2>1. operation \in [Operations -> OperationRecords] BY DEF PremiumInit, Idle, OperationRecords, MaybeGuild
  <2>2. \A o \in Operations : Proper(operation[o]) BY <1>1 DEF Proper, Idle
  <2>3. \A g \in Guilds : paid[g] = "active" => Active(g) BY DEF PremiumInit, Active
  <2>4. paid \in [Guilds -> {"NULL", "active", "expired"}] BY DEF PremiumInit
  <2> QED BY <2>1, <2>2, <2>3, <2>4 DEF PremiumInit, PremiumTypes, MaybeGuild
<1>4. \A g \in Guilds : transferredTo[g] = NoGuild /\ inheritsFrom[g] = NoGuild BY DEF PremiumInit
<1>5. Orderly BY <1>2, <1>4, PremiumAssumption DEF Orderly, Handed, Inherited, Receiving
<1>6. NoCycle BY <1>4, PremiumAssumption DEF NoCycle
<1> QED BY <1>2, <1>3, <1>5, <1>6 DEF PremiumInv, Downwards, Meeting, Unrelied

LEMMA PremiumInvariant == PremiumSpec => []PremiumInv
<1>1. PremiumInv /\ [PremiumNext]_premiumVars => PremiumInv'
  BY PremiumTypesKept, DownwardsKept, MeetingKept, UnreliedKept, OrderlyKept, NoCycleKept DEF PremiumInv
<1> QED BY PremiumStarts, <1>1, PTL DEF PremiumSpec

(* postgres.go:346-347: no operations, however they overlap or die, make   *)
(* guilds inherit in a cycle, since a link is made only to a guild that    *)
(* has premium and inherits from nobody.                                   *)
THEOREM NoCycles == PremiumSpec => []NoCycle
<1>1. PremiumInv => NoCycle BY DEF PremiumInv
<1> QED BY <1>1, PremiumInvariant, PTL

\* Where a guild has its premium from, when the one it inherits from does not.
LEMMA SourceIs ==
  ASSUME PremiumTypes, NEW h \in Guilds
  PROVE  /\ transferredTo[h] # NoGuild => Source[h] = NoGuild
         /\ transferredTo[h] = NoGuild =>
              /\ paid[h] = "active" => Source[h] = h
              /\ paid[h] # "active" /\ inheritsFrom[h] = NoGuild => Source[h] = NoGuild
              /\ paid[h] # "active" /\ inheritsFrom[h] \in Guilds
                   /\ (inheritsFrom[inheritsFrom[h]] = NoGuild \/ Active(inheritsFrom[h]))
                 => Source[h] = IF Active(inheritsFrom[h]) THEN inheritsFrom[h] ELSE NoGuild
<1> DEFINE none == [g \in Guilds |-> NoGuild]
           found == Follow(Follow(none))
<1>1. ASSUME NEW f, NEW g \in Guilds
      PROVE  Follow(f)[g] = IF paid[g] = "active" \/ inheritsFrom[g] = NoGuild
                            THEN (IF Active(g) THEN g ELSE NoGuild) ELSE f[inheritsFrom[g]]
  BY DEF Follow
<1>2. Source[h] = IF transferredTo[h] # NoGuild THEN NoGuild ELSE Follow(Follow(found))[h]
  BY DEF Source
<1> HIDE DEF found
<1>3. paid[h] = "active" <=> Active(h) BY DEF PremiumTypes, Active
<1>4. Follow(Follow(found))[h] = IF paid[h] = "active" \/ inheritsFrom[h] = NoGuild
        THEN (IF Active(h) THEN h ELSE NoGuild) ELSE Follow(found)[inheritsFrom[h]]
  BY <1>1
<1>5. ASSUME inheritsFrom[h] \in Guilds, inheritsFrom[inheritsFrom[h]] = NoGuild \/ Active(inheritsFrom[h])
      PROVE  Follow(found)[inheritsFrom[h]] = IF Active(inheritsFrom[h]) THEN inheritsFrom[h] ELSE NoGuild
  <2>1. Active(inheritsFrom[h]) => paid[inheritsFrom[h]] = "active" BY DEF Active
  <2> QED BY <1>1, <1>5, <2>1
<1> QED BY <1>2, <1>3, <1>4, <1>5, PremiumAssumption

(* premium.go:68-93, 115-135: what a guild has paid for is neither lost nor *)
(* doubled, for any guilds and transfers, sub-servers and reverts between   *)
(* them, except where an operation died halfway or met another.             *)
THEOREM PremiumStays == PremiumSpec => []PremiumKept
<1>1. PremiumInv => PremiumKept
  <2> SUFFICES ASSUME PremiumInv, NEW g \in Guilds, Active(g), AtRest(g),
                      NEW heirs, heirs = {h \in Guilds : Source[h] = g}
               PROVE  /\ \A h, k \in heirs \ subs : h \in troubled \/ k \in troubled \/ h = k
                      /\ heirs = {} => transferredTo[g] \in troubled \/ Active(transferredTo[g])
    BY DEF PremiumKept
  <2>0. PremiumTypes /\ Orderly /\ g # NoGuild BY PremiumAssumption DEF PremiumInv
  <2>1. paid[g] = "active" BY DEF Active
  <2>2. \A k, h : ~Halfway(k, g, h)
    <3> SUFFICES ASSUME NEW k, NEW h, Halfway(k, g, h) PROVE FALSE OBVIOUS
    <3>1. PICK o \in Under : operation[o].origin = g BY <2>0, HalfwayIs
    <3> QED BY <3>1 DEF AtRest, GuildsOf
  \* Who has it is the guild itself or the one it was transferred to.
  <2>3. ASSUME NEW h \in heirs \ subs, h \notin troubled
        PROVE  \/ h = g /\ transferredTo[g] = NoGuild
               \/ h # g /\ transferredTo[g] = h
    <3>1. h \in Guilds /\ Source[h] = g /\ Inherited(h) BY <2>0, <2>3 DEF Orderly
    <3>2. transferredTo[h] = NoGuild BY <2>0, <3>1, SourceIs
    <3>3. CASE h = g BY <3>2, <3>3
    <3>4. CASE h # g
      <4>1. paid[h] # "active" /\ inheritsFrom[h] # NoGuild BY <2>0, <3>1, <3>2, <3>4, SourceIs
      <4>2. inheritsFrom[h] \in Guilds BY <2>0, <3>1, <4>1 DEF PremiumTypes, MaybeGuild
      <4>3. /\ inheritsFrom[inheritsFrom[h]] = NoGuild
            /\ transferredTo[inheritsFrom[h]] = h \/ Halfway("transfer", inheritsFrom[h], h)
        BY <2>3, <3>1, <4>1 DEF Inherited
      <4>4. inheritsFrom[h] = g BY <2>0, <3>1, <3>2, <4>1, <4>2, <4>3, SourceIs
      <4> QED BY <2>2, <3>4, <4>3, <4>4
    <3> QED BY <3>3, <3>4
  <2>4. \A h, k \in heirs \ subs : h \in troubled \/ k \in troubled \/ h = k
    <3> SUFFICES ASSUME NEW h \in heirs \ subs, NEW k \in heirs \ subs, h \notin troubled, k \notin troubled
                 PROVE  h = k
      OBVIOUS
    <3>1. (h = g /\ transferredTo[g] = NoGuild) \/ (h # g /\ transferredTo[g] = h) BY <2>3
    <3>2. (k = g /\ transferredTo[g] = NoGuild) \/ (k # g /\ transferredTo[g] = k) BY <2>3
    <3>3. h # NoGuild /\ k # NoGuild BY PremiumAssumption
    <3> QED BY <3>1, <3>2, <3>3
  <2>5. ASSUME heirs = {}, transferredTo[g] \notin troubled PROVE Active(transferredTo[g])
    <3>1. Source[g] # g BY <2>5
    <3>2. transferredTo[g] # NoGuild BY <2>0, <2>1, <3>1, SourceIs
    <3>3. PICK d : d = transferredTo[g] OBVIOUS
    <3>4. d \in Guilds \ troubled BY <2>0, <2>5, <3>2, <3>3 DEF PremiumTypes, MaybeGuild
    <3>5. inheritsFrom[d] = g /\ transferredTo[d] = NoGuild
      <4>1. Handed(d) /\ Inherited(d) BY <2>0, <3>4 DEF Orderly
      <4>2. inheritsFrom[d] = g BY <2>2, <3>3, <4>1 DEF Handed
      <4> QED BY <2>0, <4>1, <4>2 DEF Inherited
    <3>6. Source[d] # g BY <2>5, <3>4
    <3>7. paid[d] = "active" BY <2>0, <3>4, <3>5, <3>6, SourceIs
    <3> QED BY <2>0, <3>3, <3>4, <3>7 DEF PremiumTypes
  <2> QED BY <2>4, <2>5
<1> QED BY <1>1, PremiumInvariant, PTL

(* premium.go:68-132: the two columns that a transfer sets one after the   *)
(* other say the same of every guild that no operation has left halfway or *)
(* met another on: a finished transfer can be reverted, and nothing else   *)
(* can; a gold sub-server never is.                                        *)
TransfersMirrored ==
  \A g, h \in Guilds : h \notin troubled =>
    /\ AtRest(h) /\ transferredTo[g] = h => CanRevertTransfer(g, h)
    /\ AtRest(h) /\ inheritsFrom[h] = g /\ h \notin subs => CanRevertTransfer(g, h)
    /\ h \in subs => ~CanRevertTransfer(g, h)

THEOREM TransfersRevert == PremiumSpec => []TransfersMirrored
<1>1. PremiumInv => TransfersMirrored
  <2> SUFFICES ASSUME PremiumInv, NEW g \in Guilds, NEW h \in Guilds, h \notin troubled
               PROVE  /\ AtRest(h) /\ transferredTo[g] = h => CanRevertTransfer(g, h)
                      /\ AtRest(h) /\ inheritsFrom[h] = g /\ h \notin subs => CanRevertTransfer(g, h)
                      /\ h \in subs => ~CanRevertTransfer(g, h)
    BY DEF TransfersMirrored
  <2>1. Handed(h) /\ Inherited(h) BY DEF PremiumInv, Orderly
  <2>2. g # NoGuild BY PremiumAssumption
  <2>3. ASSUME AtRest(h), NEW kind \in {"transfer", "revert"}, NEW k, Halfway(kind, k, h) PROVE FALSE
    <3>1. PICK o \in Operations :
            operation[o] = [pc |-> "origin", kind |-> kind, origin |-> k, dest |-> h]
      BY <2>3 DEF Halfway
    <3>2. o \in Under /\ h \in GuildsOf(operation[o]) BY <3>1 DEF Under, GuildsOf
    <3> QED BY <2>3, <3>2 DEF AtRest
  <2>4. ASSUME AtRest(h), transferredTo[g] = h PROVE CanRevertTransfer(g, h)
    BY <2>1, <2>3, <2>4 DEF Handed, CanRevertTransfer
  <2>5. ASSUME AtRest(h), inheritsFrom[h] = g, h \notin subs PROVE CanRevertTransfer(g, h)
    <3>1. transferredTo[g] = h \/ Halfway("transfer", g, h) BY <2>1, <2>2, <2>5 DEF Inherited
    <3> QED BY <3>1, <2>3, <2>5 DEF CanRevertTransfer
  <2>6. ASSUME h \in subs, CanRevertTransfer(g, h) PROVE FALSE
    BY <2>1, <2>2, <2>6 DEF Inherited, CanRevertTransfer
  <2> QED BY <2>4, <2>5, <2>6
<1> QED BY PremiumInvariant, <1>1, PTL
=============================================================================
