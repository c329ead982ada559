-------------------------- MODULE PremiumTransfer --------------------------
(***************************************************************************)
(* Premium of guilds (pkg/storage/premium.go, postgres.go): who has paid,  *)
(* and to whom it has been transferred or extended.  A transfer reads two  *)
(* rows and updates one after the other, with no transaction.  Purchases   *)
(* and expiry come from outside; a transfer takes no time next to them.    *)
(***************************************************************************)
EXTENDS Naturals, FiniteSets

CONSTANTS Guilds, Operations,  \* transfers, reverts and additions
          MaxOutside           \* bound on purchases and expiries

NoGuild == "NULL"
ASSUME PremiumAssumption == MaxOutside \in Nat /\ NoGuild \notin Guilds

Tiers == {"Free", "Silver", "Gold"}

VARIABLES tier,          \* guilds.premium
          paid,          \* guilds.tx_time_unix: "NULL", "active" (31 days) or "expired"
          transferredTo, inheritsFrom,
          operation,     \* [pc, kind, origin, dest]
          subs,          \* guilds that inherit as gold sub-servers
          troubled,      \* guilds of an operation that died halfway or met another
          outside
premiumVars == <<tier, paid, transferredTo, inheritsFrom, operation, subs, troubled, outside>>
accounts == <<tier, paid, outside>>

Idle == [pc |-> "idle", kind |-> "none", origin |-> NoGuild, dest |-> NoGuild]

PremiumInit ==
  /\ tier \in [Guilds -> Tiers]
  /\ paid = [g \in Guilds |-> IF tier[g] = "Free" THEN "NULL" ELSE "active"]
  /\ transferredTo = [g \in Guilds |-> NoGuild] /\ inheritsFrom = [g \in Guilds |-> NoGuild]
  /\ operation = [o \in Operations |-> Idle]
  /\ subs = {} /\ troubled = {} /\ outside = 0

-----------------------------------------------------------------------------
Active(g) == paid[g] = "active" /\ tier[g] # "Free"   \* ~IsExpired

\* Mutant: nobody looks whom the two inherit from.
CanTransferOn(origin, dest) ==
  /\ Active(origin)
  /\ IF paid[dest] = "NULL" THEN tier[dest] = "Free" ELSE ~Active(dest)

CanTransfer(origin, dest) ==
  /\ tier[origin] # "Free" /\ transferredTo[origin] = NoGuild /\ inheritsFrom[origin] = NoGuild
  /\ transferredTo[dest] = NoGuild /\ inheritsFrom[dest] = NoGuild
  /\ Active(origin)
  /\ IF paid[dest] = "NULL" THEN tier[dest] = "Free" ELSE ~Active(dest)

CanAddGoldSubServer(origin, dest) == tier[origin] = "Gold" /\ CanTransfer(origin, dest)

CanRevertTransfer(origin, dest) == transferredTo[origin] = dest /\ inheritsFrom[dest] = origin

\* One call of getGuildPremiumStatus: a guild has its own premium or what was
\* found of the guild it inherits from.
Follow(found) ==
  [g \in Guilds |-> IF paid[g] = "active" \/ inheritsFrom[g] = NoGuild
                    THEN (IF Active(g) THEN g ELSE NoGuild)
                    ELSE found[inheritsFrom[g]]]

\* getGuildPremiumStatus: the guild whose premium g has, following up to three links.
Source ==
  LET found == Follow(Follow(Follow(Follow([g \in Guilds |-> NoGuild]))))
  IN [g \in Guilds |-> IF transferredTo[g] # NoGuild THEN NoGuild ELSE found[g]]

-----------------------------------------------------------------------------
Under == {o \in Operations : operation[o].pc \in {"dest", "origin"}}
GuildsOf(op) == {op.origin, op.dest}
OpAt(o, pc) == operation[o].pc = pc
OpGoes(o, pc) == operation' = [operation EXCEPT ![o].pc = pc]

\* Both guilds are read, and the check is made.  Overlapping operations on one
\* guild are remembered as trouble.
Start(o, kind, origin, dest) ==
  /\ OpAt(o, "idle")
  /\ operation' = [operation EXCEPT ![o] = [pc |-> "dest", kind |-> kind, origin |-> origin, dest |-> dest]]
  /\ troubled' = troubled \cup
       UNION {GuildsOf(operation[p]) \cup {origin, dest} :
                p \in {p \in Under : GuildsOf(operation[p]) \cap {origin, dest} # {}}}
  /\ UNCHANGED <<accounts, transferredTo, inheritsFrom, subs>>

TransferPremium(o, origin, dest) == CanTransfer(origin, dest) /\ Start(o, "transfer", origin, dest)
AddGoldSubServer(o, origin, dest) == CanAddGoldSubServer(origin, dest) /\ Start(o, "sub", origin, dest)
RevertPremiumTransfer(o, origin, dest) == CanRevertTransfer(origin, dest) /\ Start(o, "revert", origin, dest)

\* setGuildInheritsFrom or setGuildInheritsNull
SetInherits(o) ==
  /\ OpAt(o, "dest")
  /\ LET op == operation[o] IN
     /\ inheritsFrom' = [inheritsFrom EXCEPT ![op.dest] = IF op.kind = "revert" THEN NoGuild ELSE op.origin]
     /\ subs' = IF op.kind = "sub" THEN subs \cup {op.dest} ELSE subs \ {op.dest}
     /\ OpGoes(o, IF op.kind = "sub" THEN "done" ELSE "origin")
  /\ UNCHANGED <<accounts, transferredTo, troubled>>

\* Mutant: the origin keeps what it has transferred.
SetTransferredNot(o) ==
  /\ OpAt(o, "origin") /\ OpGoes(o, "done")
  /\ UNCHANGED <<accounts, transferredTo, inheritsFrom, subs, troubled>>

\* setGuildTransferredTo or setGuildTransferredNull
SetTransferred(o) ==
  /\ OpAt(o, "origin") /\ OpGoes(o, "done")
  /\ LET op == operation[o] IN
     transferredTo' = [transferredTo EXCEPT ![op.origin] = IF op.kind = "revert" THEN NoGuild ELSE op.dest]
  /\ UNCHANGED <<accounts, inheritsFrom, subs, troubled>>

\* An UPDATE fails, or the process ends.
OperationDies(o) ==
  /\ o \in Under /\ OpGoes(o, "done")
  /\ troubled' = troubled \cup GuildsOf(operation[o])
  /\ UNCHANGED <<accounts, transferredTo, inheritsFrom, subs>>

\* The payment service: a purchase or a renewal, and the end of the 31 days.
Outside(g, t, p) ==
  /\ Under = {} /\ outside < MaxOutside /\ outside' = outside + 1
  /\ tier' = [tier EXCEPT ![g] = t] /\ paid' = [paid EXCEPT ![g] = p]
  /\ UNCHANGED <<transferredTo, inheritsFrom, operation, subs, troubled>>

PremiumNext ==
  \/ \E o \in Operations :
       \/ \E origin, dest \in Guilds :
            \/ TransferPremium(o, origin, dest) \/ AddGoldSubServer(o, origin, dest)
            \/ RevertPremiumTransfer(o, origin, dest)
       \/ SetInherits(o) \/ SetTransferred(o) \/ OperationDies(o)
  \/ \E g \in Guilds : \/ \E t \in Tiers \ {"Free"} : Outside(g, t, "active")
                       \/ paid[g] = "active" /\ Outside(g, tier[g], "expired")

-----------------------------------------------------------------------------
AtRest(g) == \A o \in Under : g \notin GuildsOf(operation[o])

(* premium.go:68-93, 115-135: what a guild has paid for is neither lost     *)
(* nor doubled.  One guild has it, itself or the one it was transferred    *)
(* to, and besides only gold sub-servers; nobody has it only when the      *)
(* heir has premium of its own.  Heirs of an operation that died halfway   *)
(* or overlapped another are excused: nothing repairs what it left.        *)
PremiumKept ==
  \A g \in Guilds : Active(g) /\ AtRest(g) =>
    LET heirs == {h \in Guilds : Source[h] = g} IN
    /\ \A h, k \in heirs \ subs : h \in troubled \/ k \in troubled \/ h = k
    /\ heirs = {} => transferredTo[g] \in troubled \/ Active(transferredTo[g])

(* postgres.go:346-347: "will need to be careful to avoid cyclic           *)
(* inheritance": no guild inherits from itself, over whatever others, even *)
(* after operations that overlapped or died.  Guilds that each inherit     *)
(* from another of them would be a cycle.                                  *)
NoCycle ==
  \A S \in SUBSET Guilds : S # {} => \E g \in S : inheritsFrom[g] \notin S
=============================================================================
