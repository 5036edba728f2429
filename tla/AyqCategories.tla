---------------------------- MODULE AyqCategories ----------------------------
(* Categories: the budget keeps them, and what is filed in them, by id; the   *)
(* store beside it keeps the rules and the planned records of a category by   *)
(* its name.  Each request reads, waits for the budget, and writes.           *)
EXTENDS Integers, FiniteSets, FiniteSetsExt

CONSTANTS
  Ids,           \* categories there may be
  Names,         \* what they may be called
  Groups,        \* the groups they are in
  IncomeGroups,  \* of these, the ones for money in
  Keys,          \* counterparties a rule may be about
  Entries,          \* transactions
  Records,       \* planned records
  Requests,      \* bound: requests under way at once
  MaxAsked,      \* bound: requests in all
  MaxDeaths,     \* bound: times AYQ dies
  Amount,        \* what each planned record takes in a month
  PlanAmount,    \* what a category that is planned for may take in it
  None

(* Assumed where the module is instantiated. *)
IncomeAreGroups == IncomeGroups \subseteq Groups
AmountsNat == Amount \in [Records -> Nat] /\ PlanAmount \in Nat
NoneIsNone == None \notin Ids \cup Names \cup Keys \cup [name : Names, group : Groups]
Assumed == IncomeAreGroups /\ AmountsNat /\ NoneIsNone

VARIABLES
  category,   \* the budget's categories: [name, group], or None
  income,     \* the ones with a mark of their own for money in
  forward,    \* category_mapping
  filed,      \* the category each transaction was filed in
  plan,       \* the categories an amount is planned for
  rules,      \* the store's rules, by name
  records,    \* the category of each planned record, by name
  meant,      \* history: the category its owner put it in
  doing,      \* what each request under way read, and what it does next
  asked, deaths

vars == <<category, income, forward, filed, plan, rules, records, meant, doing, asked, deaths>>

Alive == {c \in Ids : category[c] # None}
Named(name) == {c \in Alive : category[c].name = name}
Income(group) == group \in IncomeGroups
IsIncome(c) == c \in income
Idle == [at |-> "idle"]
Shown(r) == IF filed[r] # None /\ forward[filed[r]] \in Alive THEN forward[filed[r]] ELSE None

Init ==
  /\ \E c, d \in Ids, g, h \in Groups, n, m \in Names :
       /\ c # d /\ (g = h => n # m)
       /\ category = [i \in Ids |-> CASE i = c -> [name |-> n, group |-> g]
                                      [] i = d -> [name |-> m, group |-> h]
                                      [] OTHER -> None]
  /\ income = {c \in Alive : Income(category[c].group)}
  /\ forward = [c \in Ids |-> c]
  /\ filed = [r \in Entries |-> None]
  /\ plan = {}
  /\ rules = {}
  /\ records = [p \in Records |-> None] /\ meant = records
  /\ doing = [q \in Requests |-> Idle]
  /\ asked = 0 /\ deaths = 0

Begin(q) ==
  /\ doing[q] = Idle
  /\ asked < MaxAsked /\ asked' = asked + 1
  /\ UNCHANGED deaths

Now(q, step) == doing' = [doing EXCEPT ![q] = step]
Then(q, at) == Now(q, [doing[q] EXCEPT !.at = at])
Done(q) == Now(q, Idle)
Goes(q, at) == doing[q].at = at /\ UNCHANGED <<asked, deaths>>

-----------------------------------------------------------------------------
(* An id nothing has kept: the budget never gives one twice.                 *)
New(c) ==
  /\ \A d \in Ids : forward[d] = c <=> d = c
  /\ \A r \in Entries : filed[r] # c
  /\ \A p \in Records : meant[p] # c
  /\ c \notin plan
  /\ \A q \in Requests : doing[q] # Idle =>
       doing[q].id # c /\ (doing[q].at \in {"remove", "removing"} => doing[q].to # c)

(* ayqCreateCategory; the budget refuses a second one of a name in a group.  *)
(* Nothing is said of its kind, and unsaid means money out in any group      *)
(* (packages/loot-core/src/server/budget/app.ts:327).                        *)
Create(q, name, group) ==
  /\ Begin(q)
  /\ \A c \in Named(name) : category[c].group # group
  /\ \E c \in Ids \ Alive :
       /\ New(c)
       /\ category' = [category EXCEPT ![c] = [name |-> name, group |-> group]]
       /\ income' = income \ {c}
  /\ UNCHANGED <<forward, filed, plan, rules, records, meant, doing>>

(* ayqRenameCategory: what it was called is read, then the budget told, then *)
(* the rules that had that name are given the new one.                       *)
RenameRead(q, c, name) ==
  /\ Begin(q)
  /\ c \in Alive
  /\ Now(q, [at |-> "rename", id |-> c, was |-> category[c].name, name |-> name])
  /\ UNCHANGED <<category, income, forward, filed, plan, rules, records, meant>>

RenameBudget(q) ==
  /\ Goes(q, "rename")
  /\ category' = [c \in Ids |-> IF c = doing[q].id /\ c \in Alive
                                THEN [category[c] EXCEPT !.name = doing[q].name] ELSE category[c]]
  /\ Then(q, "renamed")
  /\ UNCHANGED <<income, forward, filed, plan, rules, records, meant>>

Renamed(rule, was, name) == IF rule.name = was THEN [rule EXCEPT !.name = name] ELSE rule

(* Mutant: the rules are left with the name they had. *)
RenameRulesNot(q) ==
  /\ Goes(q, "renamed")
  /\ Done(q)
  /\ UNCHANGED <<category, income, forward, filed, plan, rules, records, meant>>

RenameRules(q) ==
  /\ Goes(q, "renamed")
  /\ rules' = {Renamed(rule, doing[q].was, doing[q].name) : rule \in rules}
  /\ Done(q)
  /\ UNCHANGED <<category, income, forward, filed, plan, records, meant>>

(* ayqMoveCategory: the name it read travels with the update.                *)
MoveRead(q, c, group) ==
  /\ Begin(q)
  /\ c \in Alive /\ (IsIncome(c) <=> Income(group)) /\ category[c].group # group
  /\ Now(q, [at |-> "move", id |-> c, name |-> category[c].name, group |-> group])
  /\ UNCHANGED <<category, income, forward, filed, plan, rules, records, meant>>

MoveBudget(q) ==
  /\ Goes(q, "move")
  /\ category' = [c \in Ids |-> IF c = doing[q].id /\ c \in Alive
                                THEN [name |-> doing[q].name, group |-> doing[q].group] ELSE category[c]]
  /\ Done(q)
  /\ UNCHANGED <<income, forward, filed, plan, rules, records, meant>>

-----------------------------------------------------------------------------
(* ayqCategoryImpact, and the refusal without a destination: what still uses *)
(* it is counted now.                                                        *)
Unused(c) ==
  /\ \A r \in Entries : Shown(r) # c
  /\ \A rule \in rules : rule.name # category[c].name
  /\ \A p \in Records : records[p] # category[c].name
  /\ c \notin plan

RemoveCount(q, c, to) ==
  /\ Begin(q)
  /\ c \in Alive
  /\ to = "unsaid" => Unused(c)
  /\ Now(q, [at |-> "remove", id |-> c, name |-> category[c].name,
             income |-> IsIncome(c), to |-> to])
  /\ UNCHANGED <<category, income, forward, filed, plan, rules, records, meant>>

Target(q) == doing[q].to
ToCategory(q) == Target(q) \in Ids

(* Mutant: the two need not be of one kind. *)
AcceptsAny(q) == ToCategory(q) => Target(q) \in Alive /\ Target(q) # doing[q].id

Accepts(q) == ToCategory(q) =>
  /\ Target(q) \in Alive /\ Target(q) # doing[q].id
  /\ IsIncome(Target(q)) <=> doing[q].income

RemoveRefused(q) ==
  /\ Goes(q, "remove")
  /\ ~Accepts(q)
  /\ Done(q)
  /\ UNCHANGED <<category, income, forward, filed, plan, rules, records, meant>>

TargetName(q) == IF ToCategory(q) THEN category[Target(q)].name ELSE None

(* The rules of the name go to the destination's, or go.                     *)
Moved(q) ==
  LET mine == {rule \in rules : rule.name = doing[q].name}
      has == {rule.key : rule \in {other \in rules : other.name = TargetName(q)}}
  IN  (rules \ mine) \cup
      IF ToCategory(q)
      THEN {[rule EXCEPT !.name = TargetName(q)] : rule \in {one \in mine : one.key \notin has}}
      ELSE {}

(* ayqRemoveCategory: the store first, ...                                   *)
RemoveStore(q) ==
  /\ Goes(q, "remove")
  /\ Accepts(q)
  /\ rules' = Moved(q)
  /\ records' = [p \in Records |-> IF records[p] = doing[q].name THEN TargetName(q) ELSE records[p]]
  /\ meant' = [p \in Records |-> IF records[p] # doing[q].name THEN meant[p]
                                 ELSE IF ToCategory(q) THEN Target(q) ELSE None]
  /\ Then(q, "removing")
  /\ UNCHANGED <<category, income, forward, filed, plan>>

(* What the budget says of it: two categories of different kinds, there or   *)
(* removed, do not take over from one another.                               *)
Refuses(q) == ToCategory(q) /\ ~(IsIncome(Target(q)) <=> IsIncome(doing[q].id))

(* Mutant: what was forwarded to it before is left there. *)
ForwardedOnce(id, to) == [forward EXCEPT ![id] = to]

(* What was filed in it, or forwarded to it, goes where it goes.             *)
Forwarded(id, to) == [c \in Ids |-> IF c = id \/ forward[c] = id THEN to ELSE forward[c]]

(* ... then the budget, which moves what is filed there to the destination,  *)
(* and the amounts planned for an expense.                                   *)
RemoveBudget(q) ==
  /\ Goes(q, "removing")
  /\ Done(q)
  /\ LET id == doing[q].id IN
       IF Refuses(q) THEN UNCHANGED <<category, forward, plan>>
       ELSE /\ category' = [category EXCEPT ![id] = None]
            /\ IF ToCategory(q)
               THEN /\ forward' = Forwarded(id, Target(q))
                    /\ plan' = IF id \in plan /\ ~IsIncome(id)
                               THEN (plan \ {id}) \cup {Target(q)} ELSE plan
               ELSE UNCHANGED <<forward, plan>>
  /\ UNCHANGED <<income, filed, rules, records, meant>>

-----------------------------------------------------------------------------
(* transaction.categorise: the category is read, the transaction filed, and  *)
(* a rule remembered if one was asked for.                                   *)
CategoriseRead(q, c, r, k) ==
  /\ Begin(q)
  /\ c \in Alive
  /\ Now(q, [at |-> "categorise", id |-> c, name |-> category[c].name, row |-> r, key |-> k])
  /\ UNCHANGED <<category, income, forward, filed, plan, rules, records, meant>>

CategoriseFile(q) ==
  /\ Goes(q, "categorise")
  /\ filed' = [filed EXCEPT ![doing[q].row] = doing[q].id]
  /\ IF doing[q].key = None THEN Done(q) ELSE Then(q, "learn")
  /\ UNCHANGED <<category, income, forward, plan, rules, records, meant>>

(* ayqRememberRule: one key, one category.                                   *)
Remember(key, name) == {rule \in rules : rule.key # key} \cup {[key |-> key, name |-> name]}

Learn(q) ==
  /\ Goes(q, "learn")
  /\ rules' = Remember(doing[q].key, doing[q].name)
  /\ Done(q)
  /\ UNCHANGED <<category, income, forward, filed, plan, records, meant>>

(* ayqForgetRule; ayqSavePlan; an amount planned for a category.             *)
Forget(q, rule) ==
  /\ Begin(q)
  /\ rules' = rules \ {rule}
  /\ UNCHANGED <<category, income, forward, filed, plan, records, meant, doing>>

SavePlan(q, p, c) ==
  /\ Begin(q)
  /\ c \in Alive
  /\ records' = [records EXCEPT ![p] = category[c].name]
  /\ meant' = [meant EXCEPT ![p] = c]
  /\ UNCHANGED <<category, income, forward, filed, plan, rules, doing>>

SetAmount(q, c) ==
  /\ Begin(q)
  /\ c \in Alive \ plan
  /\ plan' = plan \cup {c}
  /\ UNCHANGED <<category, income, forward, filed, rules, records, meant, doing>>

Die ==
  /\ deaths < MaxDeaths /\ deaths' = deaths + 1
  /\ \E q \in Requests : doing[q] # Idle
  /\ doing' = [q \in Requests |-> Idle]
  /\ UNCHANGED <<category, income, forward, filed, plan, rules, records, meant, asked>>

Request(q) ==
  \/ \E name \in Names, group \in Groups : Create(q, name, group)
  \/ \E c \in Ids, name \in Names : RenameRead(q, c, name)
  \/ RenameBudget(q) \/ RenameRules(q)
  \/ \E c \in Ids, group \in Groups : MoveRead(q, c, group)
  \/ MoveBudget(q)
  \/ \E c \in Ids, to \in Ids \cup {"uncategorised", "unsaid"} : RemoveCount(q, c, to)
  \/ RemoveRefused(q) \/ RemoveStore(q) \/ RemoveBudget(q)
  \/ \E c \in Ids, r \in Entries, k \in Keys \cup {None} : CategoriseRead(q, c, r, k)
  \/ CategoriseFile(q) \/ Learn(q)
  \/ \E rule \in rules : Forget(q, rule)
  \/ \E p \in Records, c \in Ids : SavePlan(q, p, c)
  \/ \E c \in Ids : SetAmount(q, c)

Next == (\E q \in Requests : Request(q)) \/ Die

Spec == Init /\ [][Next]_vars

-----------------------------------------------------------------------------
Step ==
  {Idle}
  \cup [at : {"rename", "renamed"}, id : Ids, was : Names, name : Names]
  \cup [at : {"move"}, id : Ids, name : Names, group : Groups]
  \cup [at : {"remove", "removing"}, id : Ids, name : Names, income : BOOLEAN,
        to : Ids \cup {"uncategorised", "unsaid"}]
  \cup [at : {"categorise"}, id : Ids, name : Names, row : Entries, key : Keys \cup {None}]
  \cup [at : {"learn"}, id : Ids, name : Names, row : Entries, key : Keys]

TypeOK ==
  /\ category \in [Ids -> [name : Names, group : Groups] \cup {None}]
  /\ income \subseteq Ids
  /\ forward \in [Ids -> Ids]
  /\ filed \in [Entries -> Ids \cup {None}]
  /\ plan \subseteq Ids
  /\ rules \subseteq [key : Keys, name : Names]
  /\ records \in [Records -> Names \cup {None}]
  /\ meant \in [Records -> Ids \cup {None}]
  /\ doing \in [Requests -> Step]
  /\ asked \in Nat /\ deaths \in Nat

Quiet == \A q \in Requests : doing[q] = Idle

(* Every rule names a category there is, so that none silently stops, once   *)
(* the requests under way have ended (ayq-engine.ts:926-927).                *)
RulesLive == Quiet => \A rule \in rules : Named(rule.name) # {}

(* A counterparty has one rule at most, whatever requests cross.             *)
OneRuleEach == \A rule, other \in rules : rule.key = other.key => rule = other

(* A transaction counts as money in or as money out, by the group it is      *)
(* shown in, until it is filed again (ayq-categories.ts:91-94).              *)
RowsKeepSide == [][\A r \in Entries :
  (filed'[r] = filed[r] /\ Shown(r) # None /\ Shown(r)' # None) =>
    (Income(category[Shown(r)].group) <=> Income(category[Shown(r)].group)')]_vars

(* What the store has moved for a removal, the budget does not refuse to     *)
(* move, whatever happened in between (ayq-categories.ts:224-267).           *)
RemovalNotRefused == \A q \in Requests : doing[q].at = "removing" => ~Refuses(q)

(* A transaction loses its category only where its owner said so: by filing  *)
(* it, or by removing the category with what used it uncategorised           *)
(* (ayq-categories.ts:211-222), however often it was moved along.            *)
KeepsUnlessSaid == \A r \in Entries :
  (filed'[r] = filed[r] /\ Shown(r) # None /\ Shown(r)' = None) =>
    \E q \in Requests : doing[q].at = "removing" /\ doing[q].to = "uncategorised"

SaidSo == [][KeepsUnlessSaid]_vars

(* A counterparty that has a rule has one after what it files into was       *)
(* removed into another category (ayq-categories.ts:187-188, 237-239).       *)
RemovalKeepsRules == [][\A q \in Requests :
  (doing[q].at = "remove" /\ doing'[q].at = "removing" /\ ToCategory(q)) =>
    \A rule \in rules : \E other \in rules' : other.key = rule.key]_vars

(* When a category goes, no rule points at its name (ayq-categories.ts:      *)
(* 267-268), unless another has the name.                                    *)
NoRulePointsAtIt == [][\A c \in Alive : category'[c] = None =>
  \A rule \in rules' : rule.name = category[c].name => Named(rule.name) \ {c} # {}]_vars

(* What the forecast takes out of one month for a category: its planned      *)
(* records, and what of its plan the records of its name do not account for. *)
Total(ps) == FoldFunctionOnSet(+, 0, Amount, ps)
RecordsOf(c) == Total({p \in Records : meant[p] = c})
ByName(c) == Total({p \in Records : records[p] = category[c].name})
Larger(m, n) == IF m > n THEN m ELSE n
Counted(c) == RecordsOf(c) + (IF c \in plan THEN Larger(PlanAmount, ByName(c)) - ByName(c) ELSE 0)

(* The larger of the two, never their sum (ayq-forecast.ts:97-100).          *)
LargerNeverSum == Quiet => \A c \in Alive :
  Counted(c) <= Larger(RecordsOf(c), PlanAmount)
=============================================================================
