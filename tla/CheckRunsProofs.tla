-------------------------- MODULE CheckRunsProofs --------------------------
(***************************************************************************)
(* The safety of CheckRuns, for any account, regions and checks of the     *)
(* kind that IsCheck describes.                                            *)
(***************************************************************************)
EXTENDS CheckRuns, FiniteSetTheorems, SequenceTheorems, TLAPS

\* How an item that has not changed is to be judged.
truth ==
    [i \in Items |-> IF i \in steady.items /\ world[i] # Absent
                     THEN Verdict(world[i]) ELSE "unsure"]

\* The items that were never there.
never == {i \in Items : i \in steady.items /\ world[i] = Absent}

\* The items that a client that reads the first page comes to see.
OnFirstPage(i) ==
    Cardinality({j \in Items : Home[j] = Home[i] /\ j <= i}) <= PageSize
Due(i) == control.pages = "first" => OnFirstPage(i)

Inside == {"list", "items", "empty"}

\* The units that were left with a result.
Left == total.visited \ (total.failed \cup IF pc \in Inside THEN {here.unit} ELSE {})

OnPage == {here.page[n].item : n \in DOMAIN here.page}

\* The items of the unit that the check is done with.
Behind == {i \in Items : Home[i] = here.unit /\ i <= here.token} \ OnPage

Types ==
    /\ control \in Checks /\ account \in Accounts
    /\ requested \subseteq Regions /\ enabled \in [Accounts -> SUBSET Regions]
    /\ world \in [Items -> Things \cup {Absent}]
    /\ usage \in [Regions -> {"idle", "active", "unsupported"}]
    /\ changes \in 0..MaxChanges
    /\ steady \in [items : SUBSET Items, regions : SUBSET Regions]
    /\ pc \in {"claim", "begin", "units", "list", "items", "empty", "done"}
    /\ claimed \subseteq Regions /\ todo \subseteq Regions
    /\ here \in [unit : Regions, token : Items \cup {0}, more : BOOLEAN,
                 page : Seq([item : Items, said : DOMAIN control.judge]),
                 found : SUBSET Items, counted : Nat]
    /\ total \in [findings : SUBSET Items, noneFound : SUBSET Regions,
                  visited : SUBSET Regions, failed : SUBSET Regions,
                  lost : SUBSET Items, counted : Nat, good : BOOLEAN]
    /\ broken \in BOOLEAN

RegionsInv ==
    /\ todo \cup total.visited \subseteq Units \cap requested
    /\ todo \cap total.visited = {}
    /\ total.failed \cup total.noneFound \subseteq total.visited
    /\ pc \in {"claim", "begin"} => todo = {} /\ total.visited = {}
    /\ pc \in Inside => here.unit \in total.visited \ total.failed
    /\ pc = "units" => todo \cup total.visited # {}
    /\ pc = "begin" => control.units = "regions"
    /\ pc = "done" => todo = {}
    /\ control.units # "regions" => requested = Regions /\ claimed = {}
    /\ pc = "claim" => claimed = {}

CoverInv ==
    /\ pc \notin {"claim", "begin"} /\ todo \cup total.visited # {} =>
           Expected \subseteq todo \cup total.visited
    /\ control.units = "regions" =>
           (todo \cup total.visited) \cap steady.regions \subseteq enabled[account]
    /\ claimed # {} =>
           requested \cap enabled[Management] \cap steady.regions \subseteq claimed

AccountInv ==
    /\ \A i \in Items : usage[Home[i]] = "unsupported" => world[i] = Absent
    /\ control.empty = "probe" => \A u \in Regions : usage[u] # "unsupported"

EntryInv(entry) ==
    /\ Home[entry.item] = here.unit /\ entry.item <= here.token
    /\ \A k \in 1..(Len(entry.said) - 1) :
           control.judge[SubSeq(entry.said, 1, k)] = "more"
    /\ entry.item \in steady.items =>
           /\ world[entry.item] # Absent
           /\ entry.said = SubSeq(world[entry.item], 1, Len(entry.said))

PageInv ==
    /\ \A n \in DOMAIN here.page : EntryInv(here.page[n])
    /\ \A m, n \in DOMAIN here.page : here.page[m].item = here.page[n].item => m = n
    /\ pc \in {"list", "empty"} => here.page = << >>
    /\ pc = "empty" => ~here.more /\ here.counted = 0 /\ control.empty = "probe"

UnitInv ==
    /\ \A i \in Behind :
           /\ truth[i] = "bad" => i \in here.found \cup total.lost
           /\ truth[i] \in {"good", "bad"} => here.counted > 0
    /\ \A i \in here.found :
           Home[i] = here.unit /\ truth[i] \in {"bad", "unsure"} /\ i \notin never
    /\ here.counted <= Cardinality(Behind)
    /\ control.pages = "first" /\ control.empty # "nothing" /\ here.token # 0 =>
           here.page # << >> \/ here.counted > 0

ListedInv ==
    pc \in {"items", "empty"} /\ ~here.more =>
        \A i \in Items : Home[i] = here.unit /\ truth[i] # "unsure" =>
            here.token # 0 /\ (Due(i) => i <= here.token)

LeftInv ==
    /\ \A i \in Items : Home[i] \in Left /\ Due(i) =>
           /\ truth[i] = "bad" => i \in total.findings \cup total.lost
           /\ truth[i] \in {"good", "bad"} => total.counted > 0
    /\ control.empty = "probe" =>
           \A u \in Left \cap steady.regions :
               usage[u] = "active" => u \in total.noneFound \/ total.counted > 0
    /\ \A i \in Items : Home[i] \in total.noneFound => truth[i] \notin {"good", "bad"}
    /\ total.counted <= Cardinality({i \in Items : Home[i] \in Left})

RealInv ==
    \A i \in total.findings :
        /\ Home[i] \in total.visited
        /\ \/ truth[i] \in {"bad", "unsure"} /\ i \notin never
           \/ control.unread = "finding" /\ broken

GoodInv ==
    /\ total.good => \/ total.counted > 0 \/ total.failed # {}
                     \/ (pc \in Inside /\ here.counted > 0)
    /\ usage[here.unit] = "unsupported" => here.counted = 0 /\ pc \notin {"items", "empty"}

StatusInv ==
    /\ pc # "done" => status = "none"
    /\ pc = "done" =>
           \/ status = "error" /\ (broken \/ total.visited = {})
           \/ status = MarkNotInUse(Result) /\ total.visited # {}
    /\ total.failed \cup total.lost # {} => broken
    /\ broken => total.failed \cup total.lost # {} \/ (pc = "done" /\ status = "error")

CheckInv ==
    /\ Types /\ RegionsInv /\ CoverInv /\ AccountInv /\ PageInv /\ UnitInv
    /\ ListedInv /\ LeftInv /\ RealInv /\ GoodInv /\ StatusInv

USE RegionsAssumption, ItemsAssumption, HomeAssumption, AccountsAssumption,
    BoundsAssumption
-----------------------------------------------------------------------------
(* The operators of the model. *)

LEMMA LeastIsLeast ==
    ASSUME NEW T, T \subseteq Nat, T # {}
    PROVE  Least(T) \in T /\ \A m \in T : Least(T) <= m
<1>1. PICK n \in T : \A m \in T : <<m, n>> \notin OpToRel(<, Nat)
  BY WFMin, NatLessThanWellFounded
<1>2. ASSUME NEW m \in T PROVE n <= m
  <2>1. ~ (m < n)
    BY <1>1 DEF OpToRel
  <2> QED BY <2>1
<1> QED BY <1>2 DEF Least

LEMMA UnitsAreRegions ==
    /\ Least(Regions) \in Regions
    /\ Units \subseteq Regions
    /\ control.units # "regions" => Units = {Least(Regions)}
    /\ control.units = "regions" => Units = Regions
BY LeastIsLeast DEF Units

LEMMA TheCheck ==
    ASSUME Types
    PROVE  IsCheck(control)
BY ChecksAssumption DEF Types

\* The words of the account about an item are a conversation with the check.
LEMMA Conversations ==
    ASSUME Types, NEW said \in DOMAIN control.judge
    PROVE  /\ said \in Seq(Range(said)) /\ Len(said) \in Nat \ {0}
           /\ Len(said) <= Len(control.replies)
           /\ \A n \in 1..Len(said) : SubSeq(said, 1, n) \in DOMAIN control.judge
           /\ control.judge[said] \in {"more", "good", "bad", "skip", "odd"}
           /\ control.judge[said] = "more" =>
                  \A t \in Things : /\ Append(said, t[Len(said) + 1]) \in DOMAIN control.judge
                                    /\ Len(said) < Len(t)
BY TheCheck DEF IsCheck, Things

\* The first judgement that is not to ask on is the verdict.
LEMMA VerdictReached ==
    ASSUME Types, NEW thing \in Things, NEW n \in 1..Len(thing),
           \A k \in 1..(n - 1) : control.judge[SubSeq(thing, 1, k)] = "more",
           control.judge[SubSeq(thing, 1, n)] # "more"
    PROVE  Verdict(thing) = control.judge[SubSeq(thing, 1, n)]
<1> DEFINE asked == {k \in 1..Len(thing) : control.judge[SubSeq(thing, 1, k)] # "more"}
<1>1. Len(thing) \in Nat
  BY Conversations DEF Things
<1>2. n \in asked /\ asked \subseteq Nat
  BY <1>1
<1>3. \A k \in asked : n <= k
  <2> SUFFICES ASSUME NEW k \in asked, k < n PROVE FALSE
    BY <1>1
  <2>1. k \in 1..(n - 1)
    BY <1>1
  <2> QED BY <2>1
<1>4. Least(asked) = n
  <2>1. Least(asked) \in asked /\ Least(asked) <= n
    BY <1>2, LeastIsLeast
  <2>2. n <= Least(asked)
    BY <1>3, <2>1
  <2> QED BY <1>1, <2>1, <2>2
<1> QED BY <1>4 DEF Verdict

\* A check that has all the answers concludes.
LEMMA SomethingConcludes ==
    ASSUME Types, NEW thing \in Things
    PROVE  LET asked == {n \in 1..Len(thing) : control.judge[SubSeq(thing, 1, n)] # "more"}
           IN  /\ Len(thing) \in asked /\ asked \subseteq Nat /\ asked # {}
               /\ \A n \in 1..Len(thing) : SubSeq(thing, 1, n) \in DOMAIN control.judge
<1> DEFINE asked == {n \in 1..Len(thing) : control.judge[SubSeq(thing, 1, n)] # "more"}
<1>1. /\ thing \in Seq(Range(thing)) /\ Len(thing) \in Nat \ {0}
      /\ thing \in DOMAIN control.judge /\ Len(thing) <= Len(control.replies)
      /\ \A n \in 1..Len(thing) : SubSeq(thing, 1, n) \in DOMAIN control.judge
  BY Conversations DEF Things
<1>2. SubSeq(thing, 1, Len(thing)) = thing
  BY <1>1, SubSeqFull
<1>3. control.judge[thing] # "more"
  <2>1. control.judge[thing] = "more" => Len(thing) < Len(thing)
    BY <1>1, Conversations
  <2> QED BY <1>1, <2>1
<1>4. Len(thing) \in asked /\ asked \subseteq Nat
  <2>1. Len(thing) \in 1..Len(thing) /\ 1..Len(thing) \subseteq Nat
    BY <1>1
  <2>2. asked \subseteq 1..Len(thing)
    OBVIOUS
  <2>3. Len(thing) \in asked
    BY <1>2, <1>3, <2>1
  <2> QED BY <2>1, <2>2, <2>3
<1> HIDE DEF asked
<1>5. asked # {}
  BY <1>4
<1> QED BY <1>1, <1>4, <1>5 DEF asked

LEMMA VerdictIsAJudgement ==
    ASSUME Types, NEW thing \in Things
    PROVE  Verdict(thing) \in {"more", "good", "bad", "skip", "odd"}
<1> DEFINE asked == {n \in 1..Len(thing) : control.judge[SubSeq(thing, 1, n)] # "more"}
<1>1. /\ asked # {} /\ asked \subseteq Nat
      /\ \A n \in 1..Len(thing) : SubSeq(thing, 1, n) \in DOMAIN control.judge
  BY SomethingConcludes
<1>2. Least(asked) \in asked
  BY <1>1, LeastIsLeast
<1>3. SubSeq(thing, 1, Least(asked)) \in DOMAIN control.judge
  BY <1>1, <1>2
<1>4. control.judge[SubSeq(thing, 1, Least(asked))] \in {"more", "good", "bad", "skip", "odd"}
  BY <1>3, Conversations
<1> QED BY <1>4 DEF Verdict

\* Sorting lists each member once.
LEMMA SortedListsAll ==
    ASSUME NEW T, IsFiniteSet(T), T \subseteq Nat,
           NEW order \in [1..Cardinality(T) -> T],
           \A a, b \in DOMAIN order : a < b => order[a] < order[b]
    PROVE  /\ Cardinality(T) \in Nat
           /\ \A x \in T : \E k \in 1..Cardinality(T) : order[k] = x
           /\ \A a, b \in 1..Cardinality(T) : order[a] = order[b] => a = b
<1> DEFINE D == 1..Cardinality(T)
<1>1. Cardinality(T) \in Nat
  BY FS_CardinalityType
<1>2. \A a, b \in D : order[a] = order[b] => a = b
  <2> SUFFICES ASSUME NEW a \in D, NEW b \in D, order[a] = order[b], a # b PROVE FALSE
    OBVIOUS
  <2>1. a < b \/ b < a
    BY <1>1
  <2>2. order[a] \in Nat /\ order[b] \in Nat
    OBVIOUS
  <2> QED BY <2>1, <2>2
<1>3. order \in Injection(D, T)
  BY <1>2 DEF Injection, IsInjective
<1>4. Cardinality(D) = Cardinality(T)
  BY <1>1, FS_Interval
<1>5. order \in Surjection(D, T)
  BY <1>3, <1>4, FS_Injection
<1> QED BY <1>1, <1>2, <1>5 DEF Surjection

LEMMA SubsetsOfItems ==
    ASSUME NEW S, NEW T, S \subseteq T, T \subseteq Items
    PROVE  /\ IsFiniteSet(S) /\ IsFiniteSet(T)
           /\ Cardinality(S) \in Nat /\ Cardinality(T) \in Nat
           /\ Cardinality(S) <= Cardinality(T)
           /\ S # T => Cardinality(S) < Cardinality(T)
<1>1. IsFiniteSet(T)
  BY FS_Subset
<1>2. IsFiniteSet(S) /\ Cardinality(S) <= Cardinality(T)
      /\ (Cardinality(S) = Cardinality(T) => S = T)
  BY <1>1, FS_Subset
<1>3. Cardinality(S) \in Nat /\ Cardinality(T) \in Nat
  BY <1>1, <1>2, FS_CardinalityType
<1> QED BY <1>1, <1>2, <1>3
-----------------------------------------------------------------------------
(* What changes in the account is no longer known of; all else stays. *)

\* What the actions other than AccountChanges leave alone.
Still == UNCHANGED <<control, account, requested, account_vars>>

LEMMA StillTrue ==
    ASSUME Still
    PROVE  /\ truth' = truth /\ never' = never /\ Things' = Things /\ Units' = Units
           /\ Expected' = Expected
           /\ \A i \in Items : Due(i)' = Due(i)
BY DEF Still, account_vars, truth, never, Verdict, Things, Units, Expected, Due, OnFirstPage

LEMMA AccountMoves ==
    ASSUME Types, AccountChanges
    PROVE  /\ UNCHANGED <<control, account, requested, pc, claimed, todo, here, total,
                          status, broken>>
           /\ pc # "done" /\ changes' \in 0..MaxChanges
           /\ steady' \in [items : SUBSET Items, regions : SUBSET Regions]
           /\ world' \in [Items -> Things \cup {Absent}]
           /\ usage' \in [Regions -> {"idle", "active", "unsupported"}]
           /\ enabled' \in [Accounts -> SUBSET Regions]
           /\ steady'.items \subseteq steady.items
           /\ steady'.regions \subseteq steady.regions
           /\ \A i \in Items : \/ world'[i] = world[i]
                               \/ /\ i \notin steady'.items
                                  /\ usage[Home[i]] # "unsupported" /\ usage' = usage
           /\ \A u \in Regions : usage'[u] = usage[u]
                                 \/ /\ u \notin steady'.regions
                                    /\ control.empty = "probe"
                                    /\ usage'[u] \in {"idle", "active"}
           /\ \A u \in steady'.regions, a \in Accounts :
                  u \in enabled'[a] <=> u \in enabled[a]
<1>1. /\ UNCHANGED <<control, account, requested, pc, claimed, todo, here, total,
                     status, broken>>
      /\ pc # "done" /\ changes' \in 0..MaxChanges
  BY DEF AccountChanges, Types
<1>2. ASSUME NEW i \in Items, ItemChanges(i)
      PROVE  /\ steady' = [items |-> steady.items \ {i}, regions |-> steady.regions]
             /\ \E t \in Things \cup {Absent} : world' = [world EXCEPT ![i] = t]
             /\ usage[Home[i]] # "unsupported" /\ usage' = usage /\ enabled' = enabled
  BY <1>2 DEF ItemChanges, Types
<1>3. ASSUME NEW u \in Regions, RegionChanges(u)
      PROVE  /\ steady' = [items |-> steady.items, regions |-> steady.regions \ {u}]
             /\ world' = world
             /\ \/ /\ usage' = usage
                   /\ \E a \in Accounts : enabled' =
                          [enabled EXCEPT ![a] = IF u \in @ THEN @ \ {u} ELSE @ \cup {u}]
                \/ /\ enabled' = enabled /\ control.empty = "probe"
                   /\ usage' = [usage EXCEPT ![u] = IF @ = "idle" THEN "active" ELSE "idle"]
  BY <1>3 DEF RegionChanges, Types
<1>4. CASE \E i \in Items : ItemChanges(i)
  BY <1>1, <1>2, <1>4 DEF Types
<1>5. CASE \E u \in Regions : RegionChanges(u)
  <2>1. PICK u \in Regions : RegionChanges(u)
    BY <1>5
  <2>2. /\ steady' = [items |-> steady.items, regions |-> steady.regions \ {u}]
        /\ world' = world
    BY <1>3, <2>1
  <2>3. CASE /\ usage' = usage
             /\ \E a \in Accounts : enabled' =
                    [enabled EXCEPT ![a] = IF u \in @ THEN @ \ {u} ELSE @ \cup {u}]
    <3>1. PICK a \in Accounts : enabled' =
              [enabled EXCEPT ![a] = IF u \in @ THEN @ \ {u} ELSE @ \cup {u}]
      BY <2>3
    <3>2. \A x \in Accounts : enabled[x] \subseteq Regions
      BY DEF Types
    <3>3. \A x \in Accounts : enabled'[x] \subseteq Regions
      BY <3>1, <3>2 DEF Types
    <3>4. enabled' \in [Accounts -> SUBSET Regions]
      BY <3>1, <3>3 DEF Types
    <3>5. \A x \in Accounts, v \in Regions : v # u => (v \in enabled'[x] <=> v \in enabled[x])
      BY <3>1 DEF Types
    <3> QED BY <1>1, <2>2, <2>3, <3>4, <3>5 DEF Types
  <2>4. CASE /\ enabled' = enabled /\ control.empty = "probe"
             /\ usage' = [usage EXCEPT ![u] = IF @ = "idle" THEN "active" ELSE "idle"]
    BY <1>1, <2>2, <2>4 DEF Types
  <2> QED BY <1>3, <2>1, <2>3, <2>4
<1> QED BY <1>1, <1>4, <1>5 DEF AccountChanges

LEMMA TruthFades ==
    ASSUME Types, AccountChanges
    PROVE  /\ \A i \in Items : truth'[i] = truth[i] \/ truth'[i] = "unsure"
           /\ never' \subseteq never
           /\ Things' = Things /\ Units' = Units
           /\ Left' = Left /\ Behind' = Behind
           /\ \A i \in Items : Due(i)' = Due(i)
<1>1. control' = control /\ here' = here /\ total' = total /\ pc' = pc
  BY AccountMoves
<1>2. Things' = Things /\ Units' = Units /\ Left' = Left /\ Behind' = Behind
  BY <1>1 DEF Things, Units, Left, Behind, OnPage
<1>3. \A i \in Items : Due(i)' = Due(i)
  BY <1>1 DEF Due, OnFirstPage
<1>4. ASSUME NEW i \in Items
      PROVE  truth'[i] = truth[i] \/ truth'[i] = "unsure"
  <2>1. CASE i \in steady'.items
    <3>1. i \in steady.items /\ world'[i] = world[i]
      BY <2>1, AccountMoves
    <3>2. Verdict(world[i])' = Verdict(world[i])
      BY <1>1, <3>1 DEF Verdict
    <3> QED BY <2>1, <3>1, <3>2 DEF truth
  <2>2. CASE i \notin steady'.items
    BY <2>2 DEF truth
  <2> QED BY <2>1, <2>2
<1>5. never' \subseteq never
  BY AccountMoves DEF never
<1> QED BY <1>2, <1>3, <1>4, <1>5

LEMMA HereTyped ==
    ASSUME Types
    PROVE  /\ here.unit \in Regions /\ here.token \in Items \cup {0} /\ here.token \in Nat
           /\ here.more \in BOOLEAN /\ here.found \in SUBSET Items /\ here.counted \in Nat
           /\ here = [unit |-> here.unit, token |-> here.token, more |-> here.more,
                      page |-> here.page, found |-> here.found, counted |-> here.counted]
           /\ Items \subseteq Nat \ {0}
<1> DEFINE pages == Seq([item : Items, said : DOMAIN control.judge])
<1>1. here \in [unit : Regions, token : Items \cup {0}, more : BOOLEAN, page : pages,
                found : SUBSET Items, counted : Nat]
  BY DEF Types
<1> HIDE DEF pages
<1>2. /\ here.unit \in Regions /\ here.token \in Items \cup {0}
      /\ here.more \in BOOLEAN /\ here.found \in SUBSET Items /\ here.counted \in Nat
      /\ here = [unit |-> here.unit, token |-> here.token, more |-> here.more,
                 page |-> here.page, found |-> here.found, counted |-> here.counted]
  BY <1>1
<1>3. Items \subseteq Nat \ {0}
  OBVIOUS
<1>4. here.token \in Nat
  BY ONLY <1>2, <1>3
<1> QED BY <1>2, <1>3, <1>4

LEMMA PageEntries ==
    ASSUME Types
    PROVE  /\ here.page \in Seq([item : Items, said : DOMAIN control.judge])
           /\ DOMAIN here.page = 1..Len(here.page) /\ Len(here.page) \in Nat
           /\ \A n \in DOMAIN here.page : /\ here.page[n].item \in Items
                                         /\ here.page[n].said \in DOMAIN control.judge
<1> DEFINE entries == [item : Items, said : DOMAIN control.judge]
<1>1. here.page \in Seq(entries)
  BY DEF Types
<1> HIDE DEF entries
<1>2. \A n \in DOMAIN here.page : here.page[n] \in entries
  BY <1>1
<1>3. DOMAIN here.page = 1..Len(here.page) /\ Len(here.page) \in Nat
  BY <1>1
<1> QED BY <1>1, <1>2, <1>3 DEF entries

LEMMA AccountKeeps ==
    ASSUME CheckInv, AccountChanges
    PROVE  CheckInv'
<1> USE AccountMoves, TruthFades
<1>0. Types
  BY DEF CheckInv
<1>1. Types'
  <2>1. UNCHANGED <<control, account, requested, pc, claimed, todo, here, total, broken,
                    Things>>
    BY <1>0
  <2>2. /\ changes' \in 0..MaxChanges
        /\ steady' \in [items : SUBSET Items, regions : SUBSET Regions]
        /\ world' \in [Items -> Things \cup {Absent}]
        /\ usage' \in [Regions -> {"idle", "active", "unsupported"}]
        /\ enabled' \in [Accounts -> SUBSET Regions]
    BY <1>0
  <2> HIDE <1>0
  <2> QED BY <1>0, <2>1, <2>2 DEF Types
<1>2. RegionsInv'
  <2>1. UNCHANGED <<control, requested, pc, claimed, todo, here, total, Units>>
    BY <1>0
  <2> QED BY <2>1 DEF CheckInv, RegionsInv
<1>3. CoverInv'
  <2>1. /\ UNCHANGED <<control, account, requested, pc, claimed, todo, total, Units>>
        /\ account \in Accounts /\ steady'.regions \subseteq steady.regions
        /\ steady'.regions \subseteq Regions
        /\ \A u \in steady'.regions, a \in Accounts : u \in enabled'[a] <=> u \in enabled[a]
    BY <1>0 DEF Types
  <2>2. Expected' \subseteq Expected
    BY <2>1 DEF Expected
  <2> QED BY <2>1, <2>2 DEF CheckInv, CoverInv
<1>4. AccountInv'
  <2>1. control' = control
    BY <1>0
  <2>2. ASSUME NEW u \in Regions, control.empty = "probe" PROVE usage'[u] # "unsupported"
    BY <1>0, <2>2 DEF CheckInv, AccountInv
  <2>3. ASSUME NEW i \in Items, usage'[Home[i]] = "unsupported" PROVE world'[i] = Absent
    <3>1. usage'[Home[i]] = usage[Home[i]]
      BY <1>0, <2>3
    <3>2. world'[i] = world[i]
      BY <1>0, <2>3, <3>1
    <3> QED BY <2>3, <3>1, <3>2 DEF CheckInv, AccountInv
  <2> QED BY <2>1, <2>2, <2>3 DEF AccountInv
<1>5. PageInv'
  <2>1. UNCHANGED <<control, pc, here>>
    BY <1>0
  <2>2. \A n \in DOMAIN here.page : here.page[n].item \in Items
    BY <1>0, PageEntries
  <2>3. \A i \in Items : i \in steady'.items => i \in steady.items /\ world'[i] = world[i]
    BY <1>0
  <2>4. ASSUME NEW n \in DOMAIN here.page PROVE EntryInv(here.page[n])'
    <3>1. EntryInv(here.page[n])
      BY DEF CheckInv, PageInv
    <3> DEFINE entry == here.page[n]
    <3>2. entry' = entry /\ entry.item \in Items
      BY <2>1, <2>2
    <3>3. EntryInv(entry)
      BY <3>1
    <3> HIDE DEF entry
    <3>4. entry.item \in steady'.items => /\ entry.item \in steady.items
                                         /\ world'[entry.item] = world[entry.item]
      BY <2>3, <3>2
    <3>5. EntryInv(entry)'
      BY <2>1, <3>2, <3>3, <3>4 DEF EntryInv
    <3> QED BY <3>5 DEF entry
  <2> QED BY <2>1, <2>4 DEF CheckInv, PageInv
<1>6. UnitInv'
  <2>1. UNCHANGED <<control, here, total, Behind>>
    BY <1>0
  <2>2. /\ \A i \in Items : truth'[i] = truth[i] \/ truth'[i] = "unsure"
        /\ never' \subseteq never
    BY <1>0
  <2>3. Behind \subseteq Items /\ here.found \subseteq Items
    BY <1>0 DEF Behind, Types
  <2> QED BY <2>1, <2>2, <2>3 DEF CheckInv, UnitInv
<1>7. ListedInv'
  <2>1. UNCHANGED <<pc, here>> /\ \A i \in Items : Due(i)' = Due(i)
    BY <1>0
  <2>2. \A i \in Items : truth'[i] = truth[i] \/ truth'[i] = "unsure"
    BY <1>0
  <2> QED BY <2>1, <2>2 DEF CheckInv, ListedInv
<1>8. LeftInv'
  <2>1. /\ UNCHANGED <<control, total, Left>> /\ \A i \in Items : Due(i)' = Due(i)
        /\ steady'.regions \subseteq steady.regions /\ Left \subseteq Regions
        /\ \A u \in steady'.regions \cap Regions : usage'[u] = usage[u]
    BY <1>0 DEF Left, Types
  <2>2. \A i \in Items : truth'[i] = truth[i] \/ truth'[i] = "unsure"
    BY <1>0
  <2>3. /\ \A i \in Items : Home[i] \in Left /\ Due(i) =>
               /\ truth[i] = "bad" => i \in total.findings \cup total.lost
               /\ truth[i] \in {"good", "bad"} => total.counted > 0
        /\ control.empty = "probe" =>
               \A u \in Left \cap steady.regions :
                   usage[u] = "active" => u \in total.noneFound \/ total.counted > 0
        /\ \A i \in Items : Home[i] \in total.noneFound => truth[i] \notin {"good", "bad"}
        /\ total.counted <= Cardinality({i \in Items : Home[i] \in Left})
    BY DEF CheckInv, LeftInv
  <2>4. (\A i \in Items : Home[i] \in Left /\ Due(i) =>
               /\ truth[i] = "bad" => i \in total.findings \cup total.lost
               /\ truth[i] \in {"good", "bad"} => total.counted > 0)'
    BY <2>1, <2>2, <2>3
  <2>5. (control.empty = "probe" =>
               \A u \in Left \cap steady.regions :
                   usage[u] = "active" => u \in total.noneFound \/ total.counted > 0)'
    BY <2>1, <2>3
  <2>6. (\A i \in Items : Home[i] \in total.noneFound => truth[i] \notin {"good", "bad"})'
    BY <2>1, <2>2, <2>3
  <2>7. (total.counted <= Cardinality({i \in Items : Home[i] \in Left}))'
    BY <2>1, <2>3
  <2> QED BY <2>4, <2>5, <2>6, <2>7 DEF LeftInv
<1>9. RealInv'
  <2>1. UNCHANGED <<control, total, broken>> /\ total.findings \subseteq Items
    BY <1>0 DEF Types
  <2>2. /\ \A i \in Items : truth'[i] = truth[i] \/ truth'[i] = "unsure"
        /\ never' \subseteq never
    BY <1>0
  <2> QED BY <2>1, <2>2 DEF CheckInv, RealInv
<1>10. GoodInv' /\ StatusInv'
  <2>1. UNCHANGED <<control, pc, here, total, status, broken>> /\ pc # "done"
    BY <1>0
  <2>2. usage'[here.unit] = "unsupported" => usage[here.unit] = "unsupported"
    <3>1. here.unit \in Regions
      BY <1>0 DEF Types
    <3> QED BY <1>0, <3>1
  <2> QED BY <2>1, <2>2 DEF CheckInv, GoodInv, StatusInv
<1> QED BY <1>1, <1>2, <1>3, <1>4, <1>5, <1>6, <1>7, <1>8, <1>9, <1>10 DEF CheckInv
-----------------------------------------------------------------------------
(* Frames: what survives a step that leaves a part of the state alone. *)

LEMMA HereStays ==
    ASSUME CheckInv, Still, here' = here, total.lost \subseteq total'.lost
    PROVE  /\ AccountInv' /\ UnitInv'
           /\ (pc' \in {"list", "empty"} => here.page = << >>)
              /\ (pc' = "empty" => /\ ~here.more /\ here.counted = 0
                                  /\ control.empty = "probe") => PageInv'
           /\ pc' \notin {"items", "empty"} \/ pc \in {"items", "empty"} => ListedInv'
<1>1. UNCHANGED <<truth, never, control, world, usage, steady>>
  BY StillTrue DEF Still, account_vars
<1>2. AccountInv'
  BY <1>1 DEF CheckInv, AccountInv
<1>3. UnitInv'
  <2>1. Behind' = Behind
    BY DEF Behind, OnPage
  <2> QED BY <1>1, <2>1 DEF CheckInv, UnitInv
<1>4. ASSUME pc' \in {"list", "empty"} => here.page = << >>,
             pc' = "empty" => ~here.more /\ here.counted = 0 /\ control.empty = "probe"
      PROVE  PageInv'
  <2>1. \A n \in DOMAIN here.page : EntryInv(here.page[n])'
    BY <1>1 DEF CheckInv, PageInv, EntryInv
  <2>2. \A m, n \in DOMAIN here.page : here.page[m].item = here.page[n].item => m = n
    BY DEF CheckInv, PageInv
  <2> QED BY <1>1, <1>4, <2>1, <2>2 DEF PageInv
<1>5. ASSUME pc' \notin {"items", "empty"} \/ pc \in {"items", "empty"}
      PROVE  ListedInv'
  BY <1>1, <1>5, StillTrue DEF CheckInv, ListedInv
<1> QED BY <1>2, <1>3, <1>4, <1>5

LEMMA ResultsStay ==
    ASSUME CheckInv, Still, Left' = Left, total.lost \subseteq total'.lost,
           total.findings \subseteq total'.findings \/ Left = {},
           total'.noneFound = total.noneFound, total'.counted = total.counted
    PROVE  LeftInv'
<1>1. UNCHANGED <<truth, control, usage, steady>> /\ \A i \in Items : Due(i)' = Due(i)
  BY StillTrue DEF Still, account_vars
<1>2. /\ \A i \in Items : Home[i] \in Left /\ Due(i) =>
             /\ truth[i] = "bad" => i \in total.findings \cup total.lost
             /\ truth[i] \in {"good", "bad"} => total.counted > 0
      /\ control.empty = "probe" =>
             \A u \in Left \cap steady.regions :
                 usage[u] = "active" => u \in total.noneFound \/ total.counted > 0
      /\ \A i \in Items : Home[i] \in total.noneFound => truth[i] \notin {"good", "bad"}
      /\ total.counted <= Cardinality({i \in Items : Home[i] \in Left})
  BY DEF CheckInv, LeftInv
<1>3. (\A i \in Items : Home[i] \in Left /\ Due(i) =>
             /\ truth[i] = "bad" => i \in total.findings \cup total.lost
             /\ truth[i] \in {"good", "bad"} => total.counted > 0)'
  BY <1>1, <1>2
<1>4. (total.counted <= Cardinality({i \in Items : Home[i] \in Left}))'
  BY <1>2
<1> QED BY <1>1, <1>2, <1>3, <1>4 DEF LeftInv
-----------------------------------------------------------------------------
(* The regions are chosen, entered one by one, and the run is over. *)

LEMMA BeginKeeps ==
    ASSUME CheckInv, ClaimRegions \/ ListRegions \/ ListRegionsFails \/ EnterAccount
    PROVE  CheckInv'
<1>0. Types /\ RegionsInv /\ CoverInv /\ StatusInv
  BY DEF CheckInv
<1>1. /\ Still /\ UNCHANGED <<here, total>>
      /\ pc \in {"claim", "begin"} /\ pc' \in {"begin", "units", "done"}
  BY DEF ClaimRegions, ListRegions, ListRegionsFails, EnterAccount, Still, Stop
<1>2. total.visited = {} /\ total.failed = {} /\ todo = {} /\ total.noneFound = {}
  BY <1>0, <1>1 DEF RegionsInv
<1>3. /\ claimed' \subseteq Regions /\ todo' \subseteq Regions
      /\ todo' \subseteq Units \cap requested
      /\ broken' \in BOOLEAN /\ (broken => broken')
      /\ pc' = "begin" => control.units = "regions" /\ todo' = {}
      /\ pc' = "done" => todo' = {} /\ status' = "error"
      /\ pc' = "units" => todo' # {}
      /\ control.units # "regions" => claimed' = {}
      /\ pc' # "done" => status' = status /\ broken' = broken
      /\ todo' # {} => Expected \subseteq todo'
      /\ control.units = "regions" => todo' \subseteq enabled[account]
      /\ claimed' # {} => requested \cap enabled[Management] \cap steady.regions \subseteq claimed'
  <2>1. CASE ClaimRegions
    BY <1>0, <1>2, <2>1, UnitsAreRegions
       DEF ClaimRegions, Types, RegionsInv, IntersectRequestedRegions
  <2>2. CASE ListRegions
    BY <1>0, <1>2, <2>2, UnitsAreRegions
       DEF ListRegions, Types, RegionsInv, CoverInv, IntersectRequestedRegions, Stop, Expected
  <2>3. CASE ListRegionsFails
    BY <1>0, <1>2, <2>3, UnitsAreRegions DEF ListRegionsFails, Types, RegionsInv, CoverInv, Stop
  <2>4. CASE EnterAccount
    BY <1>0, <1>2, <2>4, UnitsAreRegions DEF EnterAccount, Types, RegionsInv, CoverInv, Expected
  <2> QED BY <2>1, <2>2, <2>3, <2>4
<1>4. UNCHANGED <<control, account, requested, enabled, world, usage, changes, steady,
                  Things, Units, Expected>>
  BY <1>1, StillTrue DEF Still, account_vars
<1>5. Types'
  BY <1>0, <1>1, <1>3, <1>4 DEF Types
<1>6. RegionsInv'
  BY <1>0, <1>1, <1>2, <1>3, <1>4 DEF RegionsInv, Inside
<1>7. CoverInv'
  BY <1>0, <1>1, <1>2, <1>3, <1>4 DEF CoverInv
<1>8. AccountInv' /\ UnitInv' /\ PageInv' /\ ListedInv'
  BY <1>1, HereStays
<1>9. LeftInv'
  <2>1. Left' = Left
    BY <1>1, <1>2 DEF Left
  <2> QED BY <1>1, <2>1, ResultsStay
<1>10. RealInv'
  BY <1>1, <1>3, StillTrue DEF CheckInv, RealInv, Still
<1>11. GoodInv'
  BY <1>1, <1>4 DEF CheckInv, GoodInv, Inside
<1>12. StatusInv'
  <2>1. broken' => total.failed \cup total.lost # {} \/ pc' = "done"
    BY <1>0, <1>1, <1>3 DEF StatusInv
  <2>2. total.failed \cup total.lost # {} => broken'
    BY <1>0, <1>3 DEF StatusInv
  <2>3. status = "none"
    BY <1>0, <1>1 DEF StatusInv
  <2> QED BY <1>1, <1>2, <1>3, <2>1, <2>2, <2>3 DEF StatusInv
<1> QED BY <1>5, <1>6, <1>7, <1>8, <1>9, <1>10, <1>11, <1>12 DEF CheckInv

LEMMA EnterKeeps ==
    ASSUME CheckInv, EnterUnit
    PROVE  CheckInv'
<1> DEFINE u == Least(todo)
<1>0. Types /\ RegionsInv /\ CoverInv /\ StatusInv
  BY DEF CheckInv
<1>1. u \in todo /\ todo \subseteq Regions
  BY <1>0, LeastIsLeast DEF EnterUnit, Types
<1> HIDE DEF u
<1>2. /\ Still /\ UNCHANGED <<claimed, status, broken>> /\ pc = "units" /\ pc' = "list"
      /\ here' = [Nowhere EXCEPT !.unit = u] /\ todo' = todo \ {u}
      /\ total' = [total EXCEPT !.visited = @ \cup {u}]
  BY DEF EnterUnit, Still, u
<1>3. /\ here' = [unit |-> u, token |-> 0, more |-> FALSE, page |-> << >>, found |-> {},
                  counted |-> 0]
  BY <1>2 DEF Nowhere
<1>4. /\ total'.visited = total.visited \cup {u} /\ total'.failed = total.failed
      /\ total'.findings = total.findings /\ total'.lost = total.lost
      /\ total'.noneFound = total.noneFound /\ total'.counted = total.counted
      /\ total'.good = total.good
      /\ total' \in [findings : SUBSET Items, noneFound : SUBSET Regions,
                     visited : SUBSET Regions, failed : SUBSET Regions,
                     lost : SUBSET Items, counted : Nat, good : BOOLEAN]
  BY <1>0, <1>1, <1>2 DEF Types
<1>5. UNCHANGED <<control, account, requested, enabled, world, usage, changes, steady,
                  Things, Units, Expected, truth, never>>
  BY <1>2, StillTrue DEF Still, account_vars
<1>6. Types'
  <2>1. << >> \in Seq([item : Items, said : DOMAIN control.judge])
    OBVIOUS
  <2>2. here' \in [unit : Regions, token : Items \cup {0}, more : BOOLEAN,
                   page : Seq([item : Items, said : DOMAIN control.judge]),
                   found : SUBSET Items, counted : Nat]
    BY <1>1, <1>3, <2>1
  <2>3. todo' \subseteq Regions
    BY <1>1, <1>2
  <2> QED BY <1>0, <1>2, <1>4, <1>5, <2>2, <2>3 DEF Types
<1>7. u \notin total.visited /\ u \notin total.failed
  BY <1>0, <1>1 DEF RegionsInv
<1>8. RegionsInv'
  BY <1>0, <1>1, <1>2, <1>3, <1>4, <1>5, <1>7 DEF RegionsInv, Inside
<1>9. CoverInv'
  <2>1. todo' \cup total'.visited = todo \cup total.visited
    BY <1>1, <1>2, <1>4
  <2> QED BY <1>0, <1>2, <1>5, <2>1 DEF CoverInv
<1>10. AccountInv'
  BY <1>5 DEF CheckInv, AccountInv
<1>11. PageInv'
  BY <1>2, <1>3 DEF PageInv
<1>12. UnitInv'
  <2>1. Behind' = {}
    BY <1>3 DEF Behind
  <2> QED BY <1>3, <2>1, FS_EmptySet DEF UnitInv
<1>13. ListedInv'
  BY <1>2 DEF ListedInv
<1>14. LeftInv'
  <2>1. Left' = Left
    BY <1>2, <1>3, <1>4, <1>7 DEF Left, Inside
  <2> QED BY <1>2, <1>4, <2>1, ResultsStay
<1>15. RealInv'
  BY <1>2, <1>4, <1>5 DEF CheckInv, RealInv
<1>16. GoodInv'
  BY <1>2, <1>3, <1>4 DEF CheckInv, GoodInv, Inside
<1>17. StatusInv'
  BY <1>0, <1>2, <1>4 DEF StatusInv
<1> QED BY <1>6, <1>8, <1>9, <1>10, <1>11, <1>12, <1>13, <1>14, <1>15, <1>16, <1>17 DEF CheckInv
-----------------------------------------------------------------------------
(* A call fails: the unit is given up, and with it, maybe, the run. *)

LEMMA FailsKeep ==
    ASSUME CheckInv, pc \in Inside, Fails, Still, UNCHANGED <<claimed, todo>>
    PROVE  CheckInv'
<1>0. Types /\ RegionsInv /\ CoverInv /\ StatusInv
  BY DEF CheckInv
<1>1. here.unit \in total.visited \ total.failed /\ here.unit \in Regions
  BY <1>0 DEF RegionsInv, Types
<1>2. /\ here' = here /\ broken' = TRUE
      /\ \/ pc' = "units" /\ status' = status /\ total'.findings = total.findings
         \/ /\ pc' = "done" /\ status' = "error" /\ control.onError # "unit"
            /\ total'.findings \subseteq here.found \cup Unread
      /\ total'.failed = total.failed \cup {here.unit}
      /\ total'.visited = total.visited /\ total'.lost = total.lost
      /\ total'.noneFound = total.noneFound /\ total'.counted = total.counted
      /\ total'.good = total.good
      /\ total' \in [findings : SUBSET Items, noneFound : SUBSET Regions,
                     visited : SUBSET Regions, failed : SUBSET Regions,
                     lost : SUBSET Items, counted : Nat, good : BOOLEAN]
  <2>1. /\ total' = [total EXCEPT !.failed = @ \cup {here.unit}]
           \/ \E f \in SUBSET Items :
                  /\ f \subseteq here.found \cup Unread
                  /\ total' = [total EXCEPT !.findings = f, !.failed = @ \cup {here.unit}]
                  /\ pc' = "done" /\ status' = "error" /\ control.onError # "unit"
        /\ here' = here /\ broken' = TRUE
    <3>1. Unread \subseteq Items /\ here.found \subseteq Items
      BY <1>0 DEF Unread, Types
    <3> QED BY <3>1 DEF Fails, EndUnit, EndRun, Stop
  <2>2. CASE pc' = "units" /\ total' = [total EXCEPT !.failed = @ \cup {here.unit}]
    BY <1>0, <1>1, <2>1, <2>2 DEF Types, Fails, EndUnit, EndRun, Stop
  <2>3. CASE pc' = "done"
    <3>1. PICK f \in SUBSET Items :
              /\ f \subseteq here.found \cup Unread
              /\ total' = [total EXCEPT !.findings = f, !.failed = @ \cup {here.unit}]
              /\ status' = "error" /\ control.onError # "unit"
      <4>1. Unread \subseteq Items /\ here.found \subseteq Items
        BY <1>0 DEF Unread, Types
      <4> QED BY <2>3, <4>1 DEF Fails, EndUnit, EndRun, Stop
    <3> QED BY <1>0, <1>1, <2>1, <2>3, <3>1 DEF Types
  <2> QED BY <2>2, <2>3 DEF Fails, EndUnit, EndRun, Stop
<1>3. UNCHANGED <<control, account, requested, enabled, world, usage, changes, steady,
                  Things, Units, Expected, truth, never, claimed, todo>>
  BY StillTrue DEF Still, account_vars
<1>4. ASSUME pc' = "done"
      PROVE  todo = {} /\ total.visited = {here.unit}
  <2>1. control.units # "regions"
    BY <1>0, <1>2, <1>4, TheCheck DEF IsCheck
  <2>2. todo \cup total.visited \subseteq {Least(Regions)}
    BY <1>0, <2>1, UnitsAreRegions DEF RegionsInv
  <2> QED BY <1>0, <1>1, <2>2 DEF RegionsInv
<1>5. Left' = Left /\ (pc' = "done" => Left = {})
  BY <1>1, <1>2, <1>4 DEF Left, Inside
<1>6. Types'
  BY <1>0, <1>2, <1>3 DEF Types
<1>7. RegionsInv'
  BY <1>0, <1>1, <1>2, <1>3, <1>4 DEF RegionsInv, Inside
<1>8. CoverInv'
  BY <1>0, <1>2, <1>3 DEF CoverInv, Inside
<1>9. AccountInv' /\ UnitInv' /\ PageInv' /\ ListedInv'
  BY <1>2, HereStays
<1>10. LeftInv'
  BY <1>2, <1>5, ResultsStay
<1>11. RealInv'
  <2>1. \A i \in total.findings \cup here.found \cup Unread :
            /\ Home[i] \in total.visited
            /\ \/ truth[i] \in {"bad", "unsure"} /\ i \notin never
               \/ control.unread = "finding"
    BY <1>1 DEF CheckInv, RealInv, UnitInv, Unread
  <2> QED BY <1>2, <1>3, <2>1 DEF RealInv
<1>12. GoodInv'
  BY <1>2, <1>3 DEF CheckInv, GoodInv
<1>13. StatusInv'
  BY <1>0, <1>2 DEF StatusInv, Inside
<1> QED BY <1>6, <1>7, <1>8, <1>9, <1>10, <1>11, <1>12, <1>13 DEF CheckInv
-----------------------------------------------------------------------------
(* Steps that only move on. *)

LEMMA UnsupportedKeeps ==
    ASSUME CheckInv, Unsupported
    PROVE  CheckInv'
<1>0. Types /\ RegionsInv /\ CoverInv /\ StatusInv
  BY DEF CheckInv
<1>1. /\ Still /\ UNCHANGED <<claimed, todo, here, total, status, broken>>
      /\ pc = "list" /\ pc' = "units" /\ usage[here.unit] = "unsupported"
  BY DEF Unsupported, Still
<1>2. UNCHANGED <<control, account, requested, enabled, world, usage, changes, steady,
                  Things, Units, Expected, truth, never>> /\ \A i \in Items : Due(i)' = Due(i)
  BY <1>1, StillTrue DEF Still, account_vars
<1>3. here.unit \in total.visited \ total.failed /\ here.unit \in Regions
  BY <1>0, <1>1 DEF RegionsInv, Inside, Types
<1>4. Left \subseteq Left' /\ Left' \subseteq Left \cup {here.unit}
  BY <1>1, <1>3 DEF Left, Inside
<1>5. \A i \in Items : Home[i] = here.unit => truth[i] = "unsure"
  BY <1>1 DEF CheckInv, AccountInv, truth
<1>6. Types' /\ RegionsInv' /\ CoverInv' /\ StatusInv' /\ RealInv'
  BY <1>0, <1>1, <1>2, <1>3
     DEF CheckInv, Types, RegionsInv, CoverInv, StatusInv, RealInv, Inside
<1>7. AccountInv' /\ UnitInv' /\ PageInv' /\ ListedInv'
  BY <1>1, HereStays
<1>8. LeftInv'
  <2>1. /\ \A i \in Items : Home[i] \in Left /\ Due(i) =>
               /\ truth[i] = "bad" => i \in total.findings \cup total.lost
               /\ truth[i] \in {"good", "bad"} => total.counted > 0
        /\ control.empty = "probe" =>
               \A u \in Left \cap steady.regions :
                   usage[u] = "active" => u \in total.noneFound \/ total.counted > 0
        /\ \A i \in Items : Home[i] \in total.noneFound => truth[i] \notin {"good", "bad"}
        /\ total.counted <= Cardinality({i \in Items : Home[i] \in Left})
    BY DEF CheckInv, LeftInv
  <2>2. (\A i \in Items : Home[i] \in Left /\ Due(i) =>
               /\ truth[i] = "bad" => i \in total.findings \cup total.lost
               /\ truth[i] \in {"good", "bad"} => total.counted > 0)'
    BY <1>1, <1>2, <1>4, <1>5, <2>1
  <2>3. (control.empty = "probe" =>
               \A u \in Left \cap steady.regions :
                   usage[u] = "active" => u \in total.noneFound \/ total.counted > 0)'
    BY <1>1, <1>2, <1>4, <2>1
  <2>4. (\A i \in Items : Home[i] \in total.noneFound => truth[i] \notin {"good", "bad"})'
    BY <1>1, <1>2, <2>1
  <2>5. (total.counted <= Cardinality({i \in Items : Home[i] \in Left}))'
    <3>1. Cardinality({i \in Items : Home[i] \in Left})
             <= Cardinality({i \in Items : Home[i] \in Left'})
          /\ Cardinality({i \in Items : Home[i] \in Left}) \in Nat
          /\ Cardinality({i \in Items : Home[i] \in Left'}) \in Nat
      BY <1>4, SubsetsOfItems
    <3>2. total.counted \in Nat
      BY <1>0 DEF Types
    <3> QED BY <1>1, <2>1, <3>1, <3>2
  <2> QED BY <2>2, <2>3, <2>4, <2>5 DEF LeftInv
<1>9. GoodInv'
  BY <1>0, <1>1, <1>2 DEF CheckInv, GoodInv, Types, Inside
<1> QED BY <1>6, <1>7, <1>8, <1>9 DEF CheckInv

LEMMA GoingOnKeeps ==
    ASSUME CheckInv, Still, pc = "items", here.page = << >>,
           UNCHANGED <<claimed, todo, here, total, status, broken>>,
           pc' = "list" \/ (pc' = "empty" /\ ~here.more /\ here.counted = 0 /\ control.empty = "probe")
    PROVE  CheckInv'
<1>0. Types /\ RegionsInv /\ CoverInv /\ StatusInv
  BY DEF CheckInv
<1>1. UNCHANGED <<control, account, requested, enabled, world, usage, changes, steady,
                  Things, Units, Expected, truth, never>>
  BY StillTrue DEF Still, account_vars
<1>2. Types' /\ RegionsInv' /\ CoverInv' /\ StatusInv' /\ RealInv'
  BY <1>0, <1>1 DEF CheckInv, Types, RegionsInv, CoverInv, StatusInv, RealInv, Inside
<1>3. AccountInv' /\ UnitInv' /\ PageInv' /\ ListedInv'
  BY HereStays
<1>4. LeftInv'
  <2>1. Left' = Left
    BY DEF Left, Inside
  <2> QED BY <2>1, ResultsStay
<1>5. GoodInv'
  BY <1>1 DEF CheckInv, GoodInv, Inside
<1> QED BY <1>2, <1>3, <1>4, <1>5 DEF CheckInv

LEMMA FinishKeeps ==
    ASSUME CheckInv, Finish
    PROVE  CheckInv'
<1>0. Types /\ RegionsInv /\ CoverInv /\ StatusInv
  BY DEF CheckInv
<1>1. /\ Still /\ UNCHANGED <<claimed, todo, here, total, broken>>
      /\ pc = "units" /\ pc' = "done" /\ todo = {} /\ status' = MarkNotInUse(Result)
  BY DEF Finish, Still, Stop
<1>2. UNCHANGED <<control, account, requested, enabled, world, usage, changes, steady,
                  Things, Units, Expected, truth, never>>
  BY <1>1, StillTrue DEF Still, account_vars
<1>3. Types' /\ RegionsInv' /\ CoverInv' /\ RealInv' /\ GoodInv'
  BY <1>0, <1>1, <1>2 DEF CheckInv, Types, RegionsInv, CoverInv, RealInv, GoodInv, Inside
<1>4. AccountInv' /\ UnitInv' /\ PageInv' /\ ListedInv'
  BY <1>1, HereStays
<1>5. LeftInv'
  <2>1. Left' = Left
    BY <1>1 DEF Left, Inside
  <2> QED BY <1>1, <2>1, ResultsStay
<1>6. StatusInv'
  <2>1. MarkNotInUse(Result)' = MarkNotInUse(Result)
    BY <1>1, <1>2 DEF MarkNotInUse, Result
  <2>2. total.visited # {}
    BY <1>0, <1>1 DEF RegionsInv
  <2> QED BY <1>0, <1>1, <2>1, <2>2 DEF StatusInv
<1> QED BY <1>3, <1>4, <1>5, <1>6 DEF CheckInv
-----------------------------------------------------------------------------
(* A unit is left with what was found in it. *)

LEMMA AddKeeps ==
    ASSUME CheckInv, Still, NEW isEmpty \in BOOLEAN,
           pc \in {"items", "empty"}, pc' = "units", here.page = << >>, ~here.more,
           total' = Add(here.unit, isEmpty),
           UNCHANGED <<claimed, todo, here, status, broken>>,
           isEmpty => here.counted = 0 /\ control.empty \in {"finding", "probe"},
           control.empty = "probe" => \/ here.counted > 0
                                      \/ usage[here.unit] = "active" => isEmpty
    PROVE  CheckInv'
<1>0. Types /\ RegionsInv /\ CoverInv /\ StatusInv
  BY DEF CheckInv
<1>1. /\ here.unit \in total.visited \ total.failed /\ here.unit \in Regions
      /\ here.counted \in Nat /\ total.counted \in Nat
  BY <1>0 DEF RegionsInv, Inside, Types
<1>2. /\ total'.findings = total.findings \cup here.found
      /\ total'.counted = total.counted + here.counted
      /\ total'.noneFound = total.noneFound \cup (IF isEmpty THEN {here.unit} ELSE {})
      /\ total'.visited = total.visited /\ total'.failed = total.failed
      /\ total'.lost = total.lost /\ total'.good = total.good
      /\ total' \in [findings : SUBSET Items, noneFound : SUBSET Regions,
                     visited : SUBSET Regions, failed : SUBSET Regions,
                     lost : SUBSET Items, counted : Nat, good : BOOLEAN]
  <2> DEFINE more == IF isEmpty THEN {here.unit} ELSE {}
  <2>1. total' = [total EXCEPT !.findings = @ \cup here.found, !.counted = @ + here.counted,
                               !.noneFound = @ \cup more]
    BY DEF Add
  <2>2. more \subseteq Regions
    BY <1>1
  <2> HIDE DEF more
  <2>3. here.found \subseteq Items
    BY <1>0 DEF Types
  <2>4. total \in [findings : SUBSET Items, noneFound : SUBSET Regions,
                   visited : SUBSET Regions, failed : SUBSET Regions,
                   lost : SUBSET Items, counted : Nat, good : BOOLEAN]
    BY <1>0 DEF Types
  <2>5. /\ total'.findings = total.findings \cup here.found
        /\ total'.counted = total.counted + here.counted
        /\ total'.noneFound = total.noneFound \cup more
        /\ total'.visited = total.visited /\ total'.failed = total.failed
        /\ total'.lost = total.lost /\ total'.good = total.good
        /\ total' = [findings |-> total.findings \cup here.found,
                     noneFound |-> total.noneFound \cup more, visited |-> total.visited,
                     failed |-> total.failed, lost |-> total.lost,
                     counted |-> total.counted + here.counted, good |-> total.good]
    BY <2>1, <2>4
  <2>6. total' \in [findings : SUBSET Items, noneFound : SUBSET Regions,
                    visited : SUBSET Regions, failed : SUBSET Regions,
                    lost : SUBSET Items, counted : Nat, good : BOOLEAN]
    <3>1. /\ total.findings \cup here.found \in SUBSET Items
          /\ total.noneFound \cup more \in SUBSET Regions
          /\ total.visited \in SUBSET Regions /\ total.failed \in SUBSET Regions
          /\ total.lost \in SUBSET Items /\ total.good \in BOOLEAN
      BY <2>2, <2>3, <2>4
    <3>2. total.counted + here.counted \in Nat
      BY <1>1
    <3> QED BY <2>5, <3>1, <3>2
  <2> QED BY <2>5, <2>6 DEF more
<1>3. UNCHANGED <<control, account, requested, enabled, world, usage, changes, steady,
                  Things, Units, Expected, truth, never>> /\ \A i \in Items : Due(i)' = Due(i)
  BY StillTrue DEF Still, account_vars
<1>4. Left' = Left \cup {here.unit} /\ here.unit \notin Left
  BY <1>1, <1>2 DEF Left, Inside
<1>5. /\ \A i \in Items : Home[i] = here.unit /\ i <= here.token => i \in Behind
      /\ Behind \subseteq Items /\ \A i \in Behind : Home[i] = here.unit
  BY DEF Behind, OnPage
\* Every steady item that is due was judged.
<1>6. \A i \in Items : Home[i] = here.unit /\ Due(i) =>
          /\ truth[i] = "bad" => i \in here.found \cup total.lost
          /\ truth[i] \in {"good", "bad"} => here.counted > 0
  BY <1>5 DEF CheckInv, ListedInv, UnitInv
<1>7. here.counted = 0 /\ control.empty \in {"finding", "probe"} =>
          \A i \in Items : Home[i] = here.unit => truth[i] \notin {"good", "bad"}
  <2> SUFFICES ASSUME here.counted = 0, control.empty \in {"finding", "probe"},
                      NEW i \in Items, Home[i] = here.unit, truth[i] \in {"good", "bad"}
               PROVE  FALSE
    OBVIOUS
  <2>1. CASE Due(i)
    BY <1>6, <2>1
  <2>2. CASE control.pages = "first"
    <3>1. here.token # 0
      BY DEF CheckInv, ListedInv
    <3> QED BY <2>2, <3>1 DEF CheckInv, UnitInv
  <2> QED BY <2>1, <2>2 DEF Due
<1>8. Types'
  BY <1>0, <1>2, <1>3 DEF Types
<1>9. RegionsInv'
  BY <1>0, <1>1, <1>2, <1>3 DEF RegionsInv, Inside
<1>10. CoverInv'
  BY <1>0, <1>2, <1>3 DEF CoverInv
<1>11. AccountInv' /\ UnitInv' /\ PageInv' /\ ListedInv'
  BY <1>2, HereStays
<1>12. LeftInv'
  <2>1. /\ \A i \in Items : Home[i] \in Left /\ Due(i) =>
               /\ truth[i] = "bad" => i \in total.findings \cup total.lost
               /\ truth[i] \in {"good", "bad"} => total.counted > 0
        /\ control.empty = "probe" =>
               \A u \in Left \cap steady.regions :
                   usage[u] = "active" => u \in total.noneFound \/ total.counted > 0
        /\ \A i \in Items : Home[i] \in total.noneFound => truth[i] \notin {"good", "bad"}
        /\ total.counted <= Cardinality({i \in Items : Home[i] \in Left})
    BY DEF CheckInv, LeftInv
  <2>2. (\A i \in Items : Home[i] \in Left /\ Due(i) =>
               /\ truth[i] = "bad" => i \in total.findings \cup total.lost
               /\ truth[i] \in {"good", "bad"} => total.counted > 0)'
    BY <1>1, <1>2, <1>3, <1>4, <1>6, <2>1
  <2>3. (control.empty = "probe" =>
               \A u \in Left \cap steady.regions :
                   usage[u] = "active" => u \in total.noneFound \/ total.counted > 0)'
    BY <1>1, <1>2, <1>3, <1>4, <2>1
  <2>4. (\A i \in Items : Home[i] \in total.noneFound => truth[i] \notin {"good", "bad"})'
    BY <1>2, <1>3, <1>7, <2>1
  <2>5. (total.counted <= Cardinality({i \in Items : Home[i] \in Left}))'
    <3> DEFINE before == {i \in Items : Home[i] \in Left}
               after == {i \in Items : Home[i] \in Left'}
    <3>1. Behind \cup before \subseteq after /\ Behind \cap before = {} /\ after \subseteq Items
      BY <1>4, <1>5
    <3> HIDE DEF before, after
    <3>2. /\ IsFiniteSet(before) /\ IsFiniteSet(Behind)
          /\ Cardinality(before) \in Nat /\ Cardinality(Behind) \in Nat
          /\ Cardinality(before \cup Behind) \in Nat /\ Cardinality(after) \in Nat
          /\ Cardinality(before \cup Behind) <= Cardinality(after)
      BY <3>1, SubsetsOfItems
    <3>3. Cardinality(before \cup Behind) = Cardinality(before) + Cardinality(Behind)
      <4>1. before \cap Behind = {}
        BY <3>1
      <4>2. Cardinality(before \cap Behind) = 0
        BY <4>1, FS_EmptySet
      <4>3. Cardinality(before \cup Behind)
               = Cardinality(before) + Cardinality(Behind) - Cardinality(before \cap Behind)
        BY <3>2, FS_Union
      <4> QED BY <3>2, <4>2, <4>3
    <3>4. total.counted <= Cardinality(before) /\ here.counted <= Cardinality(Behind)
      BY <2>1 DEF before, CheckInv, UnitInv
    <3>5. total.counted + here.counted <= Cardinality(after)
      BY <1>1, <3>2, <3>3, <3>4
    <3> QED BY <1>2, <3>5 DEF after
  <2> QED BY <2>2, <2>3, <2>4, <2>5 DEF LeftInv
<1>13. RealInv'
  BY <1>1, <1>2, <1>3 DEF CheckInv, RealInv, UnitInv
<1>14. GoodInv'
  <2>1. total.good => total.counted > 0 \/ total.failed # {} \/ here.counted > 0
    BY DEF CheckInv, GoodInv
  <2>2. total'.good => total'.counted > 0 \/ total'.failed # {}
    BY <1>1, <1>2, <2>1
  <2> QED BY <1>3, <2>2 DEF CheckInv, GoodInv
<1>15. StatusInv'
  BY <1>0, <1>2 DEF StatusInv
<1> QED BY <1>8, <1>9, <1>10, <1>11, <1>12, <1>13, <1>14, <1>15 DEF CheckInv

LEMMA LeaveKeeps ==
    ASSUME CheckInv, LeaveUnit
    PROVE  CheckInv'
<1>1. /\ Still /\ UNCHANGED <<claimed, todo, here, status, broken>>
      /\ pc = "items" /\ here.page = << >> /\ ~here.more /\ here.counted \in Nat
  BY DEF LeaveUnit, Still, CheckInv, Types
<1>2. CASE here.counted = 0 /\ control.empty = "probe"
  BY <1>1, <1>2, GoingOnKeeps DEF LeaveUnit
<1>3. CASE ~ (here.counted = 0 /\ control.empty = "probe")
  <2> DEFINE isEmpty == here.counted = 0 /\ control.empty = "finding"
  <2>1. pc' = "units" /\ total' = Add(here.unit, isEmpty)
    BY <1>3 DEF LeaveUnit
  <2>2. /\ isEmpty \in BOOLEAN
        /\ isEmpty => here.counted = 0 /\ control.empty \in {"finding", "probe"}
        /\ control.empty = "probe" => here.counted > 0
    BY <1>1, <1>3
  <2> HIDE DEF isEmpty
  <2> QED BY <1>1, <2>1, <2>2, AddKeeps
<1> QED BY <1>2, <1>3

LEMMA ProbeKeeps ==
    ASSUME CheckInv, Probe
    PROVE  CheckInv'
<1> DEFINE isEmpty == usage[here.unit] = "active"
<1>1. /\ Still /\ UNCHANGED <<claimed, todo, here, status, broken>>
      /\ pc = "empty" /\ pc' = "units" /\ total' = Add(here.unit, isEmpty)
  BY DEF Probe, Still
<1>2. here.page = << >> /\ ~here.more /\ here.counted = 0 /\ control.empty = "probe"
  BY <1>1 DEF CheckInv, PageInv
<1>3. isEmpty \in BOOLEAN /\ (usage[here.unit] = "active" => isEmpty)
  OBVIOUS
<1> HIDE DEF isEmpty
<1> QED BY <1>1, <1>2, <1>3, AddKeeps
-----------------------------------------------------------------------------
(* The first item of the page is dealt with. *)

LEMMA FirstEntry ==
    ASSUME CheckInv, here.page # << >>
    PROVE  /\ 1 \in DOMAIN here.page /\ Head(here.page) = here.page[1]
           /\ here.page[1].item \in Items /\ here.page[1].said \in DOMAIN control.judge
           /\ EntryInv(here.page[1])
           /\ Home[here.page[1].item] = here.unit
           /\ here.page[1].item <= here.token
           /\ Tail(here.page) \in Seq([item : Items, said : DOMAIN control.judge])
           /\ DOMAIN Tail(here.page) = 1..(Len(here.page) - 1)
           /\ \A n \in DOMAIN Tail(here.page) : /\ Tail(here.page)[n] = here.page[n + 1]
                                                /\ n + 1 \in DOMAIN here.page
<1> DEFINE entries == [item : Items, said : DOMAIN control.judge]
<1>1. Types
  BY DEF CheckInv
<1>2. /\ here.page \in Seq(entries) /\ DOMAIN here.page = 1..Len(here.page)
      /\ Len(here.page) \in Nat
      /\ \A n \in DOMAIN here.page : /\ here.page[n].item \in Items
                                    /\ here.page[n].said \in DOMAIN control.judge
  BY <1>1, PageEntries
<1> HIDE DEF entries
<1>3. Len(here.page) # 0 /\ Head(here.page) = here.page[1]
  BY <1>2
<1>4. 1 \in DOMAIN here.page
  BY <1>2, <1>3
<1>5. /\ Tail(here.page) \in Seq(entries) /\ Len(Tail(here.page)) = Len(here.page) - 1
      /\ \A n \in 1..Len(Tail(here.page)) : Tail(here.page)[n] = here.page[n + 1]
  BY <1>2, HeadTailProperties
<1>6. DOMAIN Tail(here.page) = 1..(Len(here.page) - 1)
  BY <1>5
<1>7. EntryInv(here.page[1])
  BY <1>4 DEF CheckInv, PageInv
<1>8. Home[here.page[1].item] = here.unit /\ here.page[1].item <= here.token
  BY <1>7 DEF EntryInv
<1> QED BY <1>2, <1>3, <1>4, <1>5, <1>6, <1>7, <1>8 DEF entries

FirstItem == here.page[1].item

\* All that changes when the first item of the page is passed over: whether it
\* is found, counted and lost.
PassedOver ==
    /\ here'.unit = here.unit /\ here'.token = here.token /\ here'.more = here.more
    /\ here'.page = Tail(here.page)
    /\ here.found \subseteq here'.found /\ here'.found \subseteq here.found \cup {FirstItem}
    /\ here'.counted \in {here.counted, here.counted + 1}
    /\ here' \in [unit : Regions, token : Items \cup {0}, more : BOOLEAN,
                  page : Seq([item : Items, said : DOMAIN control.judge]),
                  found : SUBSET Items, counted : Nat]
    /\ total'.findings = total.findings /\ total'.counted = total.counted
    /\ total'.noneFound = total.noneFound /\ total'.visited = total.visited
    /\ total'.failed = total.failed /\ total.lost \subseteq total'.lost
    /\ total' \in [findings : SUBSET Items, noneFound : SUBSET Regions,
                   visited : SUBSET Regions, failed : SUBSET Regions,
                   lost : SUBSET Items, counted : Nat, good : BOOLEAN]

LEMMA PassKeeps ==
    ASSUME CheckInv, Still, pc = "items", pc' = "items", here.page # << >>,
           UNCHANGED <<claimed, todo, status>>, PassedOver,
           FirstItem \in here'.found =>
               truth[FirstItem] \in {"bad", "unsure"} \/ FirstItem \in here.found,
           truth[FirstItem] = "bad" => FirstItem \in here'.found \cup total'.lost,
           truth[FirstItem] \in {"good", "bad"} => here'.counted > here.counted,
           control.pages = "first" /\ control.empty # "nothing" =>
               here'.counted > here.counted,
           total'.good => total.good \/ here'.counted > here.counted,
           broken' \in BOOLEAN, broken => broken',
           total'.lost # total.lost => broken', broken' => broken \/ total'.lost # {}
    PROVE  CheckInv'
<1> DEFINE i == here.page[1].item
<1>0. Types /\ RegionsInv /\ CoverInv /\ StatusInv
  BY DEF CheckInv
<1>1. /\ here'.unit = here.unit /\ here'.token = here.token /\ here'.more = here.more
      /\ here'.page = Tail(here.page) /\ here.counted \in Nat /\ here'.counted \in Nat
      /\ here'.counted >= here.counted /\ here'.counted <= here.counted + 1
      /\ here.found \subseteq here'.found /\ here'.found \subseteq here.found \cup {i}
      /\ here' \in [unit : Regions, token : Items \cup {0}, more : BOOLEAN,
                    page : Seq([item : Items, said : DOMAIN control.judge]),
                    found : SUBSET Items, counted : Nat]
  <2>1. here.counted \in Nat
    BY <1>0 DEF Types
  <2> QED BY <2>1 DEF PassedOver, FirstItem
<1>2. /\ total'.findings = total.findings /\ total'.counted = total.counted
      /\ total'.noneFound = total.noneFound /\ total'.visited = total.visited
      /\ total'.failed = total.failed /\ total.lost \subseteq total'.lost
      /\ total' \in [findings : SUBSET Items, noneFound : SUBSET Regions,
                     visited : SUBSET Regions, failed : SUBSET Regions,
                     lost : SUBSET Items, counted : Nat, good : BOOLEAN]
  BY DEF PassedOver
<1>a. /\ i \in here'.found => truth[i] \in {"bad", "unsure"} \/ i \in here.found
      /\ truth[i] = "bad" => i \in here'.found \cup total'.lost
      /\ truth[i] \in {"good", "bad"} => here'.counted > here.counted
  BY DEF FirstItem
<1>3. UNCHANGED <<control, account, requested, enabled, world, usage, changes, steady,
                  Things, Units, Expected, truth, never>> /\ \A j \in Items : Due(j)' = Due(j)
  BY StillTrue DEF Still, account_vars
<1>4. /\ i \in Items /\ Home[i] = here.unit /\ i <= here.token /\ 1 \in DOMAIN here.page
      /\ DOMAIN here.page = 1..Len(here.page) /\ Len(here.page) \in Nat
      /\ DOMAIN Tail(here.page) = 1..(Len(here.page) - 1)
      /\ \A n \in DOMAIN Tail(here.page) : /\ Tail(here.page)[n] = here.page[n + 1]
                                           /\ n + 1 \in DOMAIN here.page
      /\ here.counted \in Nat
  BY <1>0, FirstEntry, PageEntries DEF Types
<1>5. /\ \A n \in DOMAIN here.page : EntryInv(here.page[n])
      /\ \A m, n \in DOMAIN here.page : here.page[m].item = here.page[n].item => m = n
  BY DEF CheckInv, PageInv
<1>6. Behind' = Behind \cup {i} /\ i \notin Behind /\ Behind' \subseteq Items
  <2>1. OnPage = OnPage' \cup {i}
    <3>1. ASSUME NEW n \in DOMAIN here.page, n # 1
          PROVE  n - 1 \in DOMAIN Tail(here.page) /\ Tail(here.page)[n - 1] = here.page[n]
      BY <1>4, <3>1
    <3>2. OnPage' = {Tail(here.page)[n].item : n \in DOMAIN Tail(here.page)}
      BY <1>1 DEF OnPage
    <3>3. OnPage' \subseteq OnPage
      BY <1>4, <3>2 DEF OnPage
    <3>4. i \in OnPage
      BY <1>4 DEF OnPage
    <3>5. ASSUME NEW n \in DOMAIN here.page PROVE here.page[n].item \in OnPage' \cup {i}
      <4>1. CASE n = 1
        BY <4>1
      <4>2. CASE n # 1
        <5>1. n - 1 \in DOMAIN Tail(here.page) /\ Tail(here.page)[n - 1] = here.page[n]
          BY <3>1, <4>2
        <5> QED BY <3>2, <5>1
      <4> QED BY <4>1, <4>2
    <3>6. OnPage \subseteq OnPage' \cup {i}
      BY <3>5 DEF OnPage
    <3> QED BY <3>3, <3>4, <3>6
  <2>2. i \notin OnPage'
    <3> SUFFICES ASSUME NEW n \in DOMAIN Tail(here.page), Tail(here.page)[n].item = i
                 PROVE  FALSE
      BY <1>1 DEF OnPage
    <3>1. here.page[n + 1].item = here.page[1].item /\ n + 1 \in DOMAIN here.page
      BY <1>4
    <3>2. n + 1 = 1
      BY <1>4, <1>5, <3>1
    <3> QED BY <1>4, <3>2
  <2> QED BY <1>1, <1>4, <2>1, <2>2 DEF Behind
<1>7. Types'
  BY <1>0, <1>1, <1>2, <1>3 DEF Types
<1>8. RegionsInv'
  BY <1>0, <1>1, <1>2, <1>3 DEF RegionsInv, Inside
<1>9. CoverInv'
  BY <1>0, <1>2, <1>3 DEF CoverInv
<1>10. AccountInv'
  BY <1>3 DEF CheckInv, AccountInv
<1>11. PageInv'
  <2>1. ASSUME NEW n \in DOMAIN here'.page
        PROVE  EntryInv(here.page[n])'
    <3>1. EntryInv(here.page[n + 1]) /\ here'.page[n] = here.page[n + 1]
      BY <1>1, <1>4, <1>5
    <3> QED BY <1>1, <1>3, <3>1 DEF EntryInv
  <2>2. ASSUME NEW m \in DOMAIN Tail(here.page), NEW n \in DOMAIN Tail(here.page),
               Tail(here.page)[m].item = Tail(here.page)[n].item
        PROVE  m = n
    <3>1. m + 1 = n + 1
      BY <1>4, <1>5, <2>2
    <3> QED BY <1>4, <3>1
  <2> QED BY <1>1, <2>1, <2>2 DEF PageInv
<1>12. UnitInv'
  <2>1. /\ \A j \in Behind : /\ truth[j] = "bad" => j \in here.found \cup total.lost
                             /\ truth[j] \in {"good", "bad"} => here.counted > 0
        /\ \A j \in here.found :
               Home[j] = here.unit /\ truth[j] \in {"bad", "unsure"} /\ j \notin never
        /\ here.counted <= Cardinality(Behind)
    BY DEF CheckInv, UnitInv
  <2>2. Cardinality(Behind) < Cardinality(Behind') /\ Cardinality(Behind) \in Nat
        /\ Cardinality(Behind') \in Nat
    BY <1>6, SubsetsOfItems
  <2>3. here'.counted <= Cardinality(Behind') /\ (here.counted > 0 => here'.counted > 0)
        /\ (here'.counted > here.counted => here'.counted > 0)
    BY <1>1, <2>1, <2>2
  <2>4. \A j \in Behind' :
            /\ truth[j] = "bad" => j \in here'.found \cup total'.lost
            /\ truth[j] \in {"good", "bad"} => here'.counted > 0
    BY <1>2, <1>1, <1>a, <1>6, <2>1, <2>3
  <2>5. \A j \in here'.found :
            Home[j] = here'.unit /\ truth[j] \in {"bad", "unsure"} /\ j \notin never
    <3>1. i \notin never
      BY FirstEntry DEF never, EntryInv
    <3> QED BY <1>1, <1>a, <1>4, <2>1, <3>1
  <2>6. control.pages = "first" /\ control.empty # "nothing" => here'.counted > 0
    BY <2>3
  <2> QED BY <1>1, <1>3, <2>3, <2>4, <2>5, <2>6 DEF UnitInv
<1>13. ListedInv'
  BY <1>1, <1>3 DEF CheckInv, ListedInv
<1>14. LeftInv'
  <2>1. Left' = Left
    BY <1>1, <1>2 DEF Left, Inside
  <2> QED BY <1>2, <2>1, ResultsStay
<1>15. RealInv'
  BY <1>2, <1>3 DEF CheckInv, RealInv
<1>16. GoodInv'
  <2>1. here.counted > 0 => here'.counted > 0
    BY <1>1
  <2>2. here'.counted > here.counted => here'.counted > 0
    BY <1>1
  <2>3. usage[here.unit] # "unsupported"
    BY DEF CheckInv, GoodInv
  <2> QED BY <1>1, <1>2, <1>3, <2>1, <2>2, <2>3 DEF CheckInv, GoodInv, Inside
<1>17. StatusInv'
  BY <1>0, <1>2 DEF StatusInv
<1> QED BY <1>7, <1>8, <1>9, <1>10, <1>11, <1>12, <1>13, <1>14, <1>15, <1>16, <1>17 DEF CheckInv

\* What the check concludes of an item that has not changed is its verdict.
LEMMA HeadJudged ==
    ASSUME CheckInv, here.page # << >>, Judgement # "more"
    PROVE  truth[here.page[1].item] \in {Judgement, "unsure"}
<1> DEFINE i == here.page[1].item
           said == here.page[1].said
           thing == world[i]
<1>0. Types
  BY DEF CheckInv
<1>1. /\ i \in Items /\ said \in DOMAIN control.judge /\ EntryInv(here.page[1])
      /\ Judgement = control.judge[said]
  BY FirstEntry DEF Judgement
<1>2. /\ \A k \in 1..(Len(said) - 1) : control.judge[SubSeq(said, 1, k)] = "more"
      /\ i \in steady.items => thing # Absent /\ said = SubSeq(thing, 1, Len(said))
  BY <1>1 DEF EntryInv
<1> HIDE DEF i, said, thing
<1>3. CASE i \in steady.items
  <2>1. thing \in Things /\ thing # Absent
    <3>1. world[i] \in Things \cup {Absent}
      BY <1>0, <1>1 DEF Types
    <3> QED BY <1>2, <1>3, <3>1 DEF thing
  <2>2. /\ Len(said) \in Nat \ {0} /\ Len(said) <= Len(thing)
        /\ thing \in Seq(Range(thing)) /\ Len(thing) \in Nat
    BY <1>0, <1>1, <2>1, Conversations DEF Things
  <2>3. ASSUME NEW k \in 1..(Len(said) - 1)
        PROVE  control.judge[SubSeq(thing, 1, k)] = "more"
    <3>1. SubSeq(SubSeq(thing, 1, Len(said)), 1, k) = SubSeq(thing, 1, k)
      BY <2>2, SubSeqOfSubSeq
    <3> QED BY <1>2, <1>3, <3>1
  <2>4. Len(said) \in 1..Len(thing)
    BY <2>2
  <2>5. control.judge[SubSeq(thing, 1, Len(said))] = control.judge[said]
        /\ control.judge[SubSeq(thing, 1, Len(said))] # "more"
    BY <1>1, <1>2, <1>3
  <2>6. Verdict(thing) = control.judge[said]
    BY <1>0, <2>1, <2>3, <2>4, <2>5, VerdictReached
  <2> QED BY <1>1, <1>3, <2>1, <2>6 DEF truth, i, thing
<1>4. CASE i \notin steady.items
  BY <1>1, <1>4 DEF truth, i
<1> QED BY <1>3, <1>4 DEF i

\* An early finding of an item that has not changed is its verdict.
LEMMA EarlyIsBad ==
    ASSUME CheckInv, here.page # << >>, here.page[1].said \in control.early
    PROVE  truth[here.page[1].item] \in {"bad", "unsure"}
<1> DEFINE i == here.page[1].item
           said == here.page[1].said
           thing == world[i]
<1>0. Types
  BY DEF CheckInv
<1>1. i \in Items /\ said \in DOMAIN control.judge /\ EntryInv(here.page[1])
  BY FirstEntry
<1>2. /\ \A k \in 1..(Len(said) - 1) : control.judge[SubSeq(said, 1, k)] = "more"
      /\ i \in steady.items => thing # Absent /\ said = SubSeq(thing, 1, Len(said))
      /\ said \in control.early
  BY <1>1 DEF EntryInv
<1> HIDE DEF i, said, thing
<1>3. CASE i \in steady.items
  <2> DEFINE asked == {n \in 1..Len(thing) : control.judge[SubSeq(thing, 1, n)] # "more"}
             m == Least(asked)
             heard == SubSeq(thing, 1, m)
  <2>1. thing \in Things /\ thing # Absent
    <3>1. world[i] \in Things \cup {Absent}
      BY <1>0, <1>1 DEF Types
    <3> QED BY <1>2, <1>3, <3>1 DEF thing
  <2>2. /\ Len(said) \in Nat \ {0} /\ Len(said) <= Len(thing)
        /\ thing \in Seq(Range(thing)) /\ Len(thing) \in Nat
        /\ \A n \in 1..Len(thing) : SubSeq(thing, 1, n) \in DOMAIN control.judge
    BY <1>0, <1>1, <2>1, Conversations DEF Things
  <2>3. ASSUME NEW k \in 1..(Len(said) - 1)
        PROVE  control.judge[SubSeq(thing, 1, k)] = "more"
    <3>1. SubSeq(SubSeq(thing, 1, Len(said)), 1, k) = SubSeq(thing, 1, k)
      BY <2>2, SubSeqOfSubSeq
    <3> QED BY <1>2, <1>3, <3>1
  <2>4. m \in asked
    <3>1. Verdict(thing) = control.judge[heard]
      BY DEF Verdict
    <3>2. asked # {} /\ asked \subseteq Nat
      BY <1>0, <2>1, SomethingConcludes
    <3> QED BY <3>2, LeastIsLeast
  <2>5. m \in 1..Len(thing) /\ control.judge[heard] # "more"
    BY <2>4
  <2>6. Verdict(thing) = control.judge[heard]
    BY DEF Verdict
  <2> HIDE DEF asked, m
  <2>7. Len(said) <= m
    <3>1. CASE m < Len(said)
      <4>1. m \in 1..(Len(said) - 1)
        BY <2>2, <2>5, <3>1
      <4> QED BY <2>3, <2>5, <4>1
    <3> QED BY <2>2, <2>5, <3>1
  <2>8. heard \in DOMAIN control.judge /\ Len(heard) = m
    <3>1. Len(heard) = m
      BY <2>2, <2>5, SubSeqProperties
    <3> QED BY <2>2, <2>5, <3>1
  <2>9. SubSeq(heard, 1, Len(said)) = said
    <3>1. SubSeq(heard, 1, Len(said)) = SubSeq(thing, 1, Len(said))
      BY <2>2, <2>5, <2>7, SubSeqOfSubSeq
    <3> QED BY <1>2, <1>3, <3>1
  <2>10. control.judge[heard] \in {"more", "bad"}
    <3>1. \A w \in control.early : \A t \in DOMAIN control.judge :
              Len(w) <= Len(t) /\ SubSeq(t, 1, Len(w)) = w =>
                  control.judge[t] \in {"more", "bad"}
      BY <1>0, TheCheck DEF IsCheck
    <3> HIDE DEF heard
    <3> QED BY <1>2, <2>7, <2>8, <2>9, <3>1
  <2>11. Verdict(world[i]) = "bad"
    BY <2>5, <2>6, <2>10 DEF thing
  <2> QED BY <1>1, <2>11 DEF truth, i
<1>4. CASE i \notin steady.items
  BY <1>1, <1>4 DEF truth, i
<1> QED BY <1>3, <1>4 DEF i

LEMMA PassedFields ==
    ASSUME Types, FirstItem \in Items,
           Tail(here.page) \in Seq([item : Items, said : DOMAIN control.judge]),
           here' = [unit |-> here.unit, token |-> here.token, more |-> here.more,
                    page |-> Tail(here.page), found |-> here'.found,
                    counted |-> here'.counted],
           here.found \subseteq here'.found, here'.found \subseteq here.found \cup {FirstItem},
           here'.counted \in {here.counted, here.counted + 1},
           total' = [findings |-> total.findings, noneFound |-> total.noneFound,
                     visited |-> total.visited, failed |-> total.failed,
                     lost |-> total'.lost, counted |-> total.counted, good |-> total'.good],
           total.lost \subseteq total'.lost, total'.lost \subseteq total.lost \cup {FirstItem},
           total'.good \in BOOLEAN
    PROVE  PassedOver
<1> DEFINE pages == Seq([item : Items, said : DOMAIN control.judge])
<1>1. /\ here.unit \in Regions /\ here.token \in Items \cup {0} /\ here.more \in BOOLEAN
      /\ here.found \subseteq Items /\ here.counted \in Nat
      /\ total \in [findings : SUBSET Items, noneFound : SUBSET Regions,
                    visited : SUBSET Regions, failed : SUBSET Regions,
                    lost : SUBSET Items, counted : Nat, good : BOOLEAN]
      /\ Tail(here.page) \in pages
  BY DEF Types
<1> HIDE DEF pages
<1>2. /\ here'.unit = here.unit /\ here'.token = here.token /\ here'.more = here.more
      /\ here'.page = Tail(here.page)
  OBVIOUS
<1>3. here' \in [unit : Regions, token : Items \cup {0}, more : BOOLEAN, page : pages,
                found : SUBSET Items, counted : Nat]
  <2> DEFINE f == here'.found
             c == here'.counted
  <2>0. /\ c \in {here.counted, here.counted + 1} /\ FirstItem \in Items
        /\ f \subseteq here.found \cup {FirstItem}
    OBVIOUS
  <2>1. c \in Nat /\ f \in SUBSET Items
    BY ONLY <1>1, <2>0
  <2>2. here' = [unit |-> here.unit, token |-> here.token, more |-> here.more,
                 page |-> Tail(here.page), found |-> f, counted |-> c]
    OBVIOUS
  <2> HIDE DEF f, c
  <2> QED BY ONLY <1>1, <2>1, <2>2
<1>4. /\ total'.findings = total.findings /\ total'.counted = total.counted
      /\ total'.noneFound = total.noneFound /\ total'.visited = total.visited
      /\ total'.failed = total.failed
  OBVIOUS
<1>5. total' \in [findings : SUBSET Items, noneFound : SUBSET Regions,
                 visited : SUBSET Regions, failed : SUBSET Regions,
                 lost : SUBSET Items, counted : Nat, good : BOOLEAN]
  <2> DEFINE l == total'.lost
             g == total'.good
  <2>1. l \in SUBSET Items /\ g \in BOOLEAN
    BY <1>1
  <2>2. total' = [findings |-> total.findings, noneFound |-> total.noneFound,
                  visited |-> total.visited, failed |-> total.failed,
                  lost |-> l, counted |-> total.counted, good |-> g]
    OBVIOUS
  <2> HIDE DEF l, g
  <2> QED BY ONLY <1>1, <2>1, <2>2
<1> QED BY <1>2, <1>3, <1>4, <1>5 DEF PassedOver, pages

LEMMA NextItemKeeps ==
    ASSUME CheckInv, Still, pc = "items", here.page # << >>, NextItem,
           UNCHANGED <<claimed, todo>>
    PROVE  CheckInv'
<1> DEFINE pages == Seq([item : Items, said : DOMAIN control.judge])
           more == IF here.page[1].said \in control.early THEN {FirstItem} ELSE {}
<1>0. Types
  BY DEF CheckInv
<1>1. FirstItem \in Items /\ Head(here.page).item = FirstItem /\ Tail(here.page) \in pages
  BY FirstEntry DEF FirstItem
<1>2. /\ here \in [unit : Regions, token : Items \cup {0}, more : BOOLEAN, page : pages,
                   found : SUBSET Items, counted : Nat]
      /\ total \in [findings : SUBSET Items, noneFound : SUBSET Regions,
                    visited : SUBSET Regions, failed : SUBSET Regions,
                    lost : SUBSET Items, counted : Nat, good : BOOLEAN]
  BY <1>0 DEF Types
<1>3. /\ here' = [here EXCEPT !.page = Tail(@), !.counted = @ + 1, !.found = @ \cup more]
      /\ total' = [total EXCEPT !.lost = @ \cup {FirstItem}]
      /\ pc' = pc /\ status' = status /\ broken' = TRUE
  BY <1>1, FirstEntry DEF NextItem
<1>7. /\ more \subseteq {FirstItem}
      /\ FirstItem \in more => truth[FirstItem] \in {"bad", "unsure"}
  BY EarlyIsBad DEF FirstItem
<1> HIDE DEF pages, more
<1>4. /\ here' = [unit |-> here.unit, token |-> here.token, more |-> here.more,
                  page |-> Tail(here.page), found |-> here'.found,
                  counted |-> here'.counted]
      /\ here'.found = here.found \cup more /\ here'.counted = here.counted + 1
      /\ here.counted \in Nat
  BY <1>2, <1>3
<1>5. /\ total' = [findings |-> total.findings, noneFound |-> total.noneFound,
                   visited |-> total.visited, failed |-> total.failed,
                   lost |-> total'.lost, counted |-> total.counted, good |-> total'.good]
      /\ total'.lost = total.lost \cup {FirstItem}
      /\ total'.good = total.good /\ total'.good \in BOOLEAN
  BY <1>2, <1>3
<1>6. PassedOver
  BY <1>0, <1>1, <1>4, <1>5, <1>7, PassedFields DEF pages
<1> QED BY <1>3, <1>4, <1>5, <1>6, <1>7, PassKeeps

LEMMA JudgeKeeps ==
    ASSUME CheckInv, Judge
    PROVE  CheckInv'
<1> DEFINE pages == Seq([item : Items, said : DOMAIN control.judge])
           more == IF Judgement = "bad" THEN {FirstItem} ELSE {}
           count == IF Judgement # "skip" THEN 1 ELSE 0
<1>0. Types
  BY DEF CheckInv
<1>1. /\ Still /\ UNCHANGED <<claimed, todo, status, broken>>
      /\ pc = "items" /\ pc' = "items" /\ here.page # << >>
      /\ Judgement \in {"good", "bad", "skip"}
  BY DEF Judge, Still
<1>2. FirstItem \in Items /\ Head(here.page).item = FirstItem /\ Tail(here.page) \in pages
      /\ truth[FirstItem] \in {Judgement, "unsure"}
  BY <1>1, FirstEntry, HeadJudged DEF FirstItem
<1>3. /\ here \in [unit : Regions, token : Items \cup {0}, more : BOOLEAN, page : pages,
                   found : SUBSET Items, counted : Nat]
      /\ total \in [findings : SUBSET Items, noneFound : SUBSET Regions,
                    visited : SUBSET Regions, failed : SUBSET Regions,
                    lost : SUBSET Items, counted : Nat, good : BOOLEAN]
      /\ broken \in BOOLEAN
  BY <1>0 DEF Types
<1>4. /\ here' = [here EXCEPT !.page = Tail(@), !.found = @ \cup more, !.counted = @ + count]
      /\ total' = [total EXCEPT !.good = @ \/ Judgement = "good"]
  BY <1>2 DEF Judge, IsFinding, IsCounted
<1>5. count \in {0, 1} /\ (Judgement # "skip" => count = 1)
      /\ more \subseteq {FirstItem} /\ (FirstItem \in more <=> Judgement = "bad")
  OBVIOUS
<1> HIDE DEF pages, more, count
<1>6. /\ here' = [unit |-> here.unit, token |-> here.token, more |-> here.more,
                  page |-> Tail(here.page), found |-> here'.found,
                  counted |-> here'.counted]
      /\ here'.found = here.found \cup more /\ here'.counted = here.counted + count
      /\ here.counted \in Nat
  BY <1>3, <1>4
<1>7. /\ total' = [findings |-> total.findings, noneFound |-> total.noneFound,
                   visited |-> total.visited, failed |-> total.failed,
                   lost |-> total'.lost, counted |-> total.counted, good |-> total'.good]
      /\ total'.lost = total.lost /\ total'.good \in BOOLEAN
      /\ total'.good => total.good \/ Judgement = "good"
  BY <1>3, <1>4
<1>8. here'.counted \in {here.counted, here.counted + 1}
      /\ (Judgement # "skip" => here'.counted > here.counted)
  BY <1>5, <1>6
<1>9. PassedOver
  BY <1>0, <1>2, <1>5, <1>6, <1>7, <1>8, PassedFields DEF pages
<1>10. control.pages = "first" /\ control.empty # "nothing" => here'.counted > here.counted
  <2>1. here.page[1].said \in DOMAIN control.judge /\ Head(here.page) = here.page[1]
    BY <1>1, FirstEntry
  <2> QED BY <1>0, <1>8, <2>1, TheCheck DEF IsCheck, Judgement
<1> QED BY <1>1, <1>2, <1>3, <1>5, <1>6, <1>7, <1>8, <1>9, <1>10, PassKeeps
-----------------------------------------------------------------------------
(* The next call about the first item of the page. *)

LEMMA SaysMore ==
    ASSUME NEW said, said \in Seq(Range(said)), NEW answer
    PROVE  /\ Len(Append(said, answer)) = Len(said) + 1 /\ Len(said) \in Nat
           /\ \A k \in 1..Len(said) : SubSeq(Append(said, answer), 1, k) = SubSeq(said, 1, k)
           /\ SubSeq(said, 1, Len(said)) = said
<1> DEFINE S == Range(said) \cup {answer}
<1>1. said \in Seq(S) /\ answer \in S /\ Len(said) \in Nat
  <2>1. \A k \in 1..Len(said) : said[k] \in S
    BY DEF Range
  <2>2. said = [k \in 1..Len(said) |-> said[k]] /\ Len(said) \in Nat
    OBVIOUS
  <2> HIDE DEF S
  <2>3. said \in Seq(S)
    BY <2>1, <2>2
  <2> QED BY <2>2, <2>3 DEF S
<1> HIDE DEF S
<1>2. /\ Append(said, answer) = said \o <<answer>> /\ <<answer>> \in Seq(S)
      /\ Len(Append(said, answer)) = Len(said) + 1
  BY <1>1, AppendProperties, AppendIsConcat
<1>3. ASSUME NEW k \in 1..Len(said)
      PROVE  SubSeq(Append(said, answer), 1, k) = SubSeq(said, 1, k)
  <2>1. 1 \in 1..Len(said)
    BY <1>1
  <2> QED BY <1>1, <1>2, <2>1, SubSeqOfConcat1
<1> QED BY <1>1, <1>2, <1>3, SubSeqFull

LEMMA PrefixGrows ==
    ASSUME NEW t, t \in Seq(Range(t)), NEW n \in Nat, n < Len(t), n # 0
    PROVE  Append(SubSeq(t, 1, n), t[n + 1]) = SubSeq(t, 1, n + 1)
<1> DEFINE S == Range(t)
<1>1. t \in Seq(S) /\ Len(t) \in Nat
  OBVIOUS
<1>2. \A k \in 1..Len(t) : t[k] \in S
  BY <1>1 DEF Range
<1> HIDE DEF S
<1>3. SubSeq(t, 1, n) \in Seq(S) /\ t[n + 1] \in S
  BY <1>1, <1>2, SubSeqProperties
<1>4. SubSeq(t, 1, n + 1) = SubSeq(t, 1, n) \o <<t[n + 1]>>
  <2>1. 1 \in 1..Len(t) /\ n + 1 \in 1..Len(t)
    BY <1>1
  <2>2. SubSeq(t, 1, n + 1) = SubSeq(t, 1, (n + 1) - 1) \o <<t[n + 1]>>
    BY <1>1, <2>1, SubSeqRecursiveSecond
  <2> QED BY <2>2
<1> QED BY <1>3, <1>4, AppendIsConcat

LEMMA AskKeeps ==
    ASSUME CheckInv, Ask, world[FirstItem] # Absent
    PROVE  CheckInv'
<1> DEFINE i == here.page[1].item
           said == here.page[1].said
           answers == Append(said, world[i][Len(said) + 1])
           entries == [item : Items, said : DOMAIN control.judge]
<1>0. Types /\ RegionsInv /\ CoverInv /\ StatusInv
  BY DEF CheckInv
<1>1. /\ Still /\ UNCHANGED <<claimed, todo, total, status, broken>>
      /\ pc = "items" /\ pc' = "items" /\ here.page # << >> /\ Judgement = "more"
  BY FirstEntry DEF Ask, Still, FirstItem
<1>2. /\ i \in Items /\ said \in DOMAIN control.judge /\ EntryInv(here.page[1])
      /\ control.judge[said] = "more" /\ Head(here.page) = here.page[1]
      /\ here.page \in Seq(entries) /\ 1 \in DOMAIN here.page
      /\ DOMAIN here.page = 1..Len(here.page) /\ Len(here.page) \in Nat
  BY <1>0, <1>1, FirstEntry, PageEntries DEF Judgement
<1>3. world[i] \in Things
  BY <1>0, <1>2 DEF Types, FirstItem
<1>4. /\ answers \in DOMAIN control.judge /\ Len(said) < Len(world[i])
      /\ Len(said) \in Nat \ {0} /\ said \in Seq(Range(said))
      /\ world[i] \in Seq(Range(world[i])) /\ Len(world[i]) \in Nat
  BY <1>0, <1>2, <1>3, Conversations DEF Things
<1>5. here' = [here EXCEPT !.page[1].said = answers]
  BY <1>1, <1>2 DEF Ask, FirstItem
<1>6. UNCHANGED <<control, account, requested, enabled, world, usage, changes, steady,
                  Things, Units, Expected, truth, never>> /\ \A j \in Items : Due(j)' = Due(j)
  BY <1>1, StillTrue DEF Still, account_vars
<1>7. /\ Home[i] = here'.unit /\ i <= here'.token
      /\ \A k \in 1..(Len(answers) - 1) : control.judge[SubSeq(answers, 1, k)] = "more"
      /\ i \in steady.items => /\ world[i] # Absent
                               /\ answers = SubSeq(world[i], 1, Len(answers))
  <2>1. /\ Home[i] = here.unit /\ i <= here.token
        /\ \A k \in 1..(Len(said) - 1) : control.judge[SubSeq(said, 1, k)] = "more"
        /\ i \in steady.items => /\ world[i] # Absent
                                 /\ said = SubSeq(world[i], 1, Len(said))
    BY <1>2 DEF EntryInv
  <2>2. here'.unit = here.unit /\ here'.token = here.token
    BY <1>0, <1>5, HereTyped
  <2>3. /\ Len(answers) = Len(said) + 1
        /\ \A k \in 1..Len(said) : SubSeq(answers, 1, k) = SubSeq(said, 1, k)
        /\ SubSeq(said, 1, Len(said)) = said
    BY <1>4, SaysMore
  <2>4. ASSUME NEW k \in 1..(Len(answers) - 1)
        PROVE  control.judge[SubSeq(answers, 1, k)] = "more"
    <3>1. k \in 1..Len(said) /\ SubSeq(answers, 1, k) = SubSeq(said, 1, k)
      BY <1>4, <2>3
    <3>2. CASE k = Len(said)
      BY <1>2, <2>3, <3>1, <3>2
    <3>3. CASE k # Len(said)
      <4>1. k \in 1..(Len(said) - 1)
        BY <1>4, <3>1, <3>3
      <4> QED BY <2>1, <3>1, <4>1
    <3> QED BY <3>2, <3>3
  <2>5. ASSUME i \in steady.items
        PROVE  answers = SubSeq(world[i], 1, Len(answers))
    <3>1. Append(SubSeq(world[i], 1, Len(said)), world[i][Len(said) + 1])
             = SubSeq(world[i], 1, Len(said) + 1)
      BY <1>4, PrefixGrows
    <3> QED BY <2>1, <2>3, <2>5, <3>1
  <2> HIDE DEF answers, i
  <2> QED BY <2>1, <2>2, <2>4, <2>5
<1>8. /\ here'.unit = here.unit /\ here'.token = here.token /\ here'.more = here.more
      /\ here'.found = here.found /\ here'.counted = here.counted
      /\ here'.page = [here.page EXCEPT ![1] = [item |-> i, said |-> answers]]
      /\ here' \in [unit : Regions, token : Items \cup {0}, more : BOOLEAN,
                    page : Seq([item : Items, said : DOMAIN control.judge]),
                    found : SUBSET Items, counted : Nat]
  <2> DEFINE answered == [here.page EXCEPT ![1] = [item |-> i, said |-> answers]]
             pages == Seq(entries)
  <2>1. here.page[1] = [item |-> i, said |-> said]
    <3> HIDE DEF entries, i, said
    <3>1. here.page[1] \in entries
      BY <1>2
    <3> QED BY <3>1 DEF entries, i, said
  <2>2. [here.page EXCEPT ![1].said = answers] = answered
    <3>1. [here.page[1] EXCEPT !.said = answers] = [item |-> i, said |-> answers]
      <4> DEFINE first == here.page[1]
                 a == answers
      <4>1. first = [item |-> first.item, said |-> first.said]
        BY <2>1
      <4> HIDE DEF first, a
      <4>2. [first EXCEPT !.said = a] = [item |-> first.item, said |-> a]
        BY ONLY <4>1
      <4> QED BY <4>2 DEF first, a
    <3> QED BY <3>1
  <2>3. answered \in pages
    <3>1. [item |-> i, said |-> answers] \in entries
      BY <1>2, <1>4
    <3> HIDE DEF entries, answers
    <3> QED BY <1>2, <3>1
  <2>4. /\ here.unit \in Regions /\ here.token \in Items \cup {0} /\ here.more \in BOOLEAN
        /\ here.found \in SUBSET Items /\ here.counted \in Nat
        /\ here = [unit |-> here.unit, token |-> here.token, more |-> here.more,
                   page |-> here.page, found |-> here.found, counted |-> here.counted]
    BY <1>0 DEF Types
  <2>5. here' = [here EXCEPT !.page = [here.page EXCEPT ![1].said = answers]]
    BY <1>5
  <2> HIDE DEF answered, pages, answers, entries
  <2>6. here' = [unit |-> here.unit, token |-> here.token, more |-> here.more,
                 page |-> answered, found |-> here.found, counted |-> here.counted]
    BY <2>2, <2>4, <2>5
  <2> QED BY <2>3, <2>4, <2>6 DEF answered, pages, entries
<1> HIDE DEF entries, answers
<1>9. /\ DOMAIN here'.page = DOMAIN here.page
      /\ here'.page[1] = [item |-> i, said |-> answers]
      /\ \A n \in DOMAIN here.page : n # 1 => here'.page[n] = here.page[n]
      /\ \A n \in DOMAIN here.page : here'.page[n].item = here.page[n].item
  BY <1>2, <1>8
<1>10. Types'
  BY <1>0, <1>1, <1>6, <1>8 DEF Types
<1>11. RegionsInv' /\ CoverInv' /\ AccountInv'
  BY <1>0, <1>1, <1>6, <1>8 DEF CheckInv, RegionsInv, CoverInv, AccountInv, Inside
<1>12. PageInv'
  <2>1. ASSUME NEW n \in DOMAIN here.page PROVE EntryInv(here.page[n])'
    <3>1. CASE n = 1
      <4>1. here'.page[n].item = i /\ here'.page[n].said = answers
        BY <1>9, <3>1
      <4> HIDE DEF i
      <4> QED BY <1>6, <1>7, <4>1 DEF EntryInv
    <3>2. CASE n # 1
      <4>1. EntryInv(here.page[n]) /\ here'.page[n] = here.page[n]
        BY <1>9, <3>2 DEF CheckInv, PageInv
      <4> QED BY <1>6, <1>8, <4>1 DEF EntryInv
    <3> QED BY <3>1, <3>2
  <2>2. \A m, n \in DOMAIN here.page : here'.page[m].item = here'.page[n].item => m = n
    BY <1>9 DEF CheckInv, PageInv
  <2> QED BY <1>1, <1>9, <2>1, <2>2 DEF PageInv
<1>13. Behind' = Behind
  <2>1. OnPage' = OnPage
    BY <1>9 DEF OnPage
  <2> QED BY <1>8, <2>1 DEF Behind
<1>14. UnitInv'
  <2>1. here'.page # << >>
    BY <1>2, <1>9
  <2> QED BY <1>1, <1>6, <1>8, <1>13, <2>1 DEF CheckInv, UnitInv
<1>15. ListedInv'
  BY <1>1, <1>6, <1>8 DEF CheckInv, ListedInv
<1>16. LeftInv'
  <2>1. Left' = Left
    BY <1>1, <1>8 DEF Left
  <2> QED BY <1>1, <2>1, ResultsStay
<1>17. RealInv' /\ GoodInv' /\ StatusInv'
  <2>1. MarkNotInUse(Result)' = MarkNotInUse(Result)
    BY <1>1, <1>6 DEF MarkNotInUse, Result
  <2> QED BY <1>1, <1>6, <1>8, <2>1 DEF CheckInv, RealInv, GoodInv, StatusInv
<1> QED BY <1>10, <1>11, <1>12, <1>14, <1>15, <1>16, <1>17 DEF CheckInv
-----------------------------------------------------------------------------
(* A page of the list is read. *)

\* What the list still has to name, and what of it a page names.
Rest == Served(here.unit, here.token)
Page == {i \in Rest : control.pages \in {"every", "first"} =>
            Cardinality({j \in Rest : j < i}) < PageSize}

LEMMA PageIsAPrefix ==
    ASSUME Types
    PROVE  /\ Page \subseteq Rest /\ Rest \subseteq Items /\ IsFiniteSet(Page)
           /\ \A i \in Page, j \in Rest : j < i => j \in Page
           /\ Rest # {} => Page # {}
           /\ control.pages \notin {"every", "first"} => Page = Rest
           /\ control.pages = "first" => \A i \in Rest : OnFirstPage(i) => i \in Page
           /\ \A i \in Rest : /\ Home[i] = here.unit /\ world[i] # Absent
                              /\ i > here.token /\ world[i] \in Things
           /\ \A i \in Items : Home[i] = here.unit /\ world[i] # Absent =>
                  i <= here.token \/ i \in Rest
<1>1. Page \subseteq Rest /\ Rest \subseteq Items
  BY DEF Page, Rest, Served, Present
<1>2. IsFiniteSet(Page)
  BY <1>1, SubsetsOfItems
<1>3. here.token \in Nat /\ Items \subseteq Nat
  BY HereTyped
<1>4. /\ \A i \in Rest : /\ Home[i] = here.unit /\ world[i] # Absent
                         /\ i > here.token /\ world[i] \in Things
      /\ \A i \in Items : Home[i] = here.unit /\ world[i] # Absent =>
             i <= here.token \/ i \in Rest
  <2>1. \A i \in Rest : Home[i] = here.unit /\ world[i] # Absent /\ i > here.token
    BY DEF Rest, Served, Present
  <2>2. \A i \in Items : world[i] \in Things \cup {Absent}
    BY DEF Types
  <2>3. \A i \in Items : Home[i] = here.unit /\ world[i] # Absent =>
            i <= here.token \/ i \in Rest
    BY <1>3 DEF Rest, Served, Present
  <2> QED BY <1>1, <2>1, <2>2, <2>3
<1>5. ASSUME NEW i \in Page, NEW j \in Rest, j < i PROVE j \in Page
  <2>1. {k \in Rest : k < j} \subseteq {k \in Rest : k < i}
    <3> SUFFICES ASSUME NEW k \in Rest, k < j PROVE k < i
      OBVIOUS
    <3>1. k \in Nat /\ j \in Nat /\ i \in Nat
      BY <1>1, <1>3
    <3> QED BY <1>5, <3>1
  <2>2. {k \in Rest : k < i} \subseteq Items
    BY <1>1
  <2>3. /\ Cardinality({k \in Rest : k < j}) \in Nat /\ Cardinality({k \in Rest : k < i}) \in Nat
        /\ Cardinality({k \in Rest : k < j}) <= Cardinality({k \in Rest : k < i})
    BY <2>1, <2>2, SubsetsOfItems
  <2>4. control.pages \in {"every", "first"} => Cardinality({k \in Rest : k < i}) < PageSize
    BY DEF Page
  <2>5. control.pages \in {"every", "first"} => Cardinality({k \in Rest : k < j}) < PageSize
    BY <2>3, <2>4
  <2> QED BY <2>5 DEF Page
<1>6. ASSUME Rest # {} PROVE Page # {}
  <2>1. Least(Rest) \in Rest /\ \A j \in Rest : Least(Rest) <= j
    BY <1>1, <1>3, <1>6, LeastIsLeast
  <2>2. {j \in Rest : j < Least(Rest)} = {}
    <3> SUFFICES ASSUME NEW j \in Rest, j < Least(Rest) PROVE FALSE
      OBVIOUS
    <3>1. j \in Nat /\ Least(Rest) \in Nat /\ Least(Rest) <= j
      BY <1>1, <1>3, <2>1
    <3> QED BY <3>1
  <2>3. Cardinality({j \in Rest : j < Least(Rest)}) = 0
    BY <2>2, FS_EmptySet
  <2>4. Least(Rest) \in Page
    BY <2>1, <2>3 DEF Page
  <2> QED BY <2>4
<1>7. control.pages \notin {"every", "first"} => Page = Rest
  BY DEF Page
<1>8. ASSUME control.pages = "first", NEW i \in Rest, OnFirstPage(i) PROVE i \in Page
  <2> DEFINE before == {j \in Rest : j < i}
             upTo == {j \in Items : Home[j] = Home[i] /\ j <= i}
  <2>1. before \subseteq upTo /\ upTo \subseteq Items /\ i \in upTo /\ i \notin before
    <3>1. i \in Nat /\ i \in Items /\ Home[i] = here.unit
      BY <1>1, <1>3, <1>4
    <3>2. ASSUME NEW j \in Rest, j < i PROVE j \in upTo
      <4>1. j \in Nat /\ j \in Items /\ Home[j] = here.unit
        BY <1>1, <1>3, <1>4
      <4>2. j <= i /\ Home[j] = Home[i]
        BY <3>1, <3>2, <4>1
      <4> QED BY <4>1, <4>2
    <3>3. upTo \subseteq Items
      OBVIOUS
    <3>4. i \in upTo /\ i \notin before
      BY <3>1
    <3> HIDE DEF upTo
    <3> QED BY <3>2, <3>3, <3>4
  <2>2. Cardinality(upTo) <= PageSize
    BY <1>8 DEF OnFirstPage
  <2> HIDE DEF upTo, before
  <2>3. Cardinality(before) < Cardinality(upTo) /\ Cardinality(before) \in Nat
        /\ Cardinality(upTo) \in Nat
    BY <2>1, SubsetsOfItems
  <2>4. Cardinality(before) < PageSize
    BY <2>2, <2>3
  <2> QED BY <1>8, <2>4 DEF Page, before
<1> QED BY <1>1, <1>2, <1>4, <1>5, <1>6, <1>7, <1>8

LEMMA FirstWord ==
    ASSUME NEW t, t \in Seq(Range(t)), Len(t) \in Nat \ {0}
    PROVE  SubSeq(t, 1, 1) = <<t[1]>>
<1> DEFINE S == Range(t)
<1>1. t \in Seq(S) /\ 1 \in 1..Len(t)
  OBVIOUS
<1>2. t[1] \in S
  BY <1>1 DEF Range
<1> HIDE DEF S
<1>3. SubSeq(t, 1, 1) = SubSeq(t, 1, 1 - 1) \o <<t[1]>>
  BY <1>1, SubSeqRecursiveSecond
<1>4. SubSeq(t, 1, 1 - 1) = << >>
  BY SubSeqEmpty
<1>5. << >> \o <<t[1]>> = <<t[1]>>
  OBVIOUS
<1> QED BY <1>3, <1>4, <1>5

LEMMA ListKeeps ==
    ASSUME CheckInv, ListPage
    PROVE  CheckInv'
<1> DEFINE N == Cardinality(Page)
           Named(order) == [n \in 1..N |->
                               [item |-> order[n], said |-> <<world[order[n]][1]>>]]
           entries == [item : Items, said : DOMAIN control.judge]
<1>0. Types /\ RegionsInv /\ CoverInv /\ StatusInv
  BY DEF CheckInv
<1>1. /\ Still /\ UNCHANGED <<claimed, todo, total, status, broken>>
      /\ pc = "list" /\ pc' = "items" /\ usage[here.unit] # "unsupported"
  BY DEF ListPage, Still
<1>2. here.page = << >>
  BY <1>1 DEF CheckInv, PageInv
<1>3. PICK order \in [1..N -> Page] :
          /\ \A a, b \in DOMAIN order : a < b => order[a] < order[b]
          /\ here' = [here EXCEPT
                 !.page = [n \in DOMAIN order |->
                     [item |-> order[n], said |-> <<world[order[n]][1]>>]],
                 !.token = IF Page = {} THEN @ ELSE order[Len(order)],
                 !.more = control.pages = "every" /\ Rest # Page]
  BY DEF ListPage, Page, Rest
<1>4. /\ Page \subseteq Rest /\ Rest \subseteq Items /\ IsFiniteSet(Page)
      /\ \A i \in Page, j \in Rest : j < i => j \in Page
      /\ Rest # {} => Page # {}
      /\ control.pages \notin {"every", "first"} => Page = Rest
      /\ control.pages = "first" => \A i \in Rest : OnFirstPage(i) => i \in Page
      /\ \A i \in Rest : /\ Home[i] = here.unit /\ world[i] # Absent
                         /\ i > here.token /\ world[i] \in Things
      /\ \A i \in Items : Home[i] = here.unit /\ world[i] # Absent =>
             i <= here.token \/ i \in Rest
  BY <1>0, PageIsAPrefix
<1>5. /\ N \in Nat /\ DOMAIN order = 1..N
      /\ \A x \in Page : \E k \in 1..N : order[k] = x
      /\ \A a, b \in 1..N : order[a] = order[b] => a = b
  <2>1. Page \subseteq Nat /\ IsFiniteSet(Page) /\ order \in [1..Cardinality(Page) -> Page]
        /\ \A a, b \in DOMAIN order : a < b => order[a] < order[b]
    BY <1>0, <1>3, <1>4, HereTyped
  <2>2. /\ Cardinality(Page) \in Nat
        /\ \A x \in Page : \E k \in 1..Cardinality(Page) : order[k] = x
        /\ \A a, b \in 1..Cardinality(Page) : order[a] = order[b] => a = b
    BY <2>1, SortedListsAll
  <2> QED BY <2>2
<1>6. \A n \in 1..N : order[n] \in Page
  OBVIOUS
<1> DEFINE token == IF Page = {} THEN here.token ELSE order[N]
           more == control.pages = "every" /\ Rest # Page
\* The token names the last item of the page.
<1>7. /\ token \in Items \cup {0} /\ token >= here.token
      /\ \A x \in Page : x <= token
      /\ token # here.token => token \in Page
      /\ Page # {} => token # 0
  <2>1. CASE Page = {}
    <3>1. token = here.token
      BY <2>1
    <3> HIDE DEF token
    <3> QED BY <1>0, <2>1, <3>1, HereTyped
  <2>2. CASE Page # {}
    <3>1. N \in 1..N
      <4>1. PICK x \in Page : TRUE
        BY <2>2
      <4>2. PICK k \in 1..N : order[k] = x
        BY <1>5
      <4> QED BY <1>5, <4>2
    <3>2. order[N] \in Page /\ token = order[N]
      BY <1>6, <2>2, <3>1
    <3>3. ASSUME NEW x \in Page PROVE x <= order[N]
      <4>1. PICK k \in 1..N : order[k] = x
        BY <1>5
      <4>2. k = N \/ k < N
        BY <1>5
      <4>3. x \in Nat /\ order[N] \in Nat
        BY <1>4, <3>2
      <4> QED BY <1>3, <1>5, <3>1, <4>1, <4>2, <4>3
    <3>4. order[N] > here.token /\ order[N] \in Items /\ here.token \in Nat
      BY <1>0, <1>4, <3>2, HereTyped
    <3>5. order[N] \in Nat \ {0}
      BY <1>0, <3>4, HereTyped
    <3> HIDE DEF token, N
    <3> QED BY <3>2, <3>3, <3>4, <3>5
  <2> QED BY <2>1, <2>2
<1>8. Named(order) \in Seq(entries) /\ Len(order) = N
      /\ DOMAIN Named(order) = 1..N
      /\ \A n \in 1..N : /\ Named(order)[n].item = order[n]
                         /\ Named(order)[n].said = <<world[order[n]][1]>>
  <2>1. ASSUME NEW n \in 1..N
        PROVE  [item |-> order[n], said |-> <<world[order[n]][1]>>] \in entries
    <3>1. order[n] \in Items /\ world[order[n]] \in Things
      BY <1>4, <1>6
    <3> DEFINE t == world[order[n]]
    <3>2. t \in DOMAIN control.judge /\ t \in Things
      BY <3>1 DEF Things
    <3> HIDE DEF t
    <3>3. t \in Seq(Range(t)) /\ Len(t) \in Nat \ {0} /\ SubSeq(t, 1, 1) \in DOMAIN control.judge
      BY <1>0, <3>2, Conversations
    <3>4. SubSeq(t, 1, 1) = <<t[1]>>
      BY <3>3, FirstWord
    <3> QED BY <3>1, <3>3, <3>4 DEF t
  <2>2. Len(order) = N
    BY <1>3, <1>5
  <2> HIDE DEF entries
  <2>3. Named(order) \in Seq(entries)
    BY <1>5, <2>1
  <2> QED BY <2>2, <2>3
<1> DEFINE named == Named(order)
<1>9. /\ here'.unit = here.unit /\ here'.token = token /\ here'.more = more
      /\ here'.found = here.found /\ here'.counted = here.counted
      /\ here'.page = named
      /\ here' \in [unit : Regions, token : Items \cup {0}, more : BOOLEAN,
                    page : Seq([item : Items, said : DOMAIN control.judge]),
                    found : SUBSET Items, counted : Nat]
  <2> DEFINE pages == Seq(entries)
  <2>1. here' = [here EXCEPT !.page = named, !.token = token, !.more = more]
    BY <1>3, <1>5, <1>8
  <2>2. named \in pages /\ token \in Items \cup {0} /\ more \in BOOLEAN
    BY <1>7, <1>8
  <2>3. /\ here.unit \in Regions /\ here.found \in SUBSET Items /\ here.counted \in Nat
        /\ here = [unit |-> here.unit, token |-> here.token, more |-> here.more,
                   page |-> here.page, found |-> here.found, counted |-> here.counted]
    BY <1>0 DEF Types
  <2> HIDE DEF named, token, more, pages, entries
  <2>4. here' = [unit |-> here.unit, token |-> token, more |-> more,
                 page |-> named, found |-> here.found, counted |-> here.counted]
    BY <2>1, <2>3
  <2> QED BY <2>2, <2>3, <2>4 DEF pages, entries
<1>10. UNCHANGED <<control, account, requested, enabled, world, usage, changes, steady,
                   Things, Units, Expected, truth, never>> /\ \A j \in Items : Due(j)' = Due(j)
  BY <1>1, StillTrue DEF Still, account_vars
<1>11. /\ here.unit \in total.visited \ total.failed /\ here.unit \in Regions
       /\ here.token \in Nat /\ here.token \in Items \cup {0} /\ here.counted \in Nat
  BY <1>0, <1>1, HereTyped DEF RegionsInv, Inside
<1>12. DOMAIN named = 1..N /\ \A n \in 1..N : /\ named[n].item = order[n]
                                             /\ named[n].said = <<world[order[n]][1]>>
  BY <1>8
<1> HIDE DEF named, entries, more, token
<1>13. Types'
  BY <1>0, <1>1, <1>9, <1>10 DEF Types
<1>14. RegionsInv' /\ CoverInv' /\ AccountInv'
  BY <1>0, <1>1, <1>9, <1>10 DEF CheckInv, RegionsInv, CoverInv, AccountInv, Inside
<1>15. PageInv'
  <2>1. ASSUME NEW n \in 1..N PROVE EntryInv(here.page[n])'
    <3> DEFINE i == order[n]
               t == world[i]
               said == <<t[1]>>
    <3>1. i \in Page /\ i \in Items /\ Home[i] = here.unit /\ t # Absent /\ t \in Things
          /\ i <= token
      BY <1>4, <1>6, <1>7
    <3>2. here'.page[n].item = i /\ here'.page[n].said = said
      BY <1>9, <1>12
    <3>3. said = SubSeq(t, 1, 1) /\ Len(said) = 1
      <4> HIDE DEF t
      <4>1. t \in Seq(Range(t)) /\ Len(t) \in Nat \ {0}
        BY <1>0, <3>1, Conversations DEF Things
      <4> QED BY <4>1, FirstWord
    <3>4. 1..(Len(said) - 1) = {}
      BY <3>3
    <3> HIDE DEF i, said
    <3> QED BY <1>9, <1>10, <3>1, <3>2, <3>3, <3>4 DEF EntryInv
  <2>2. ASSUME NEW a \in 1..N, NEW b \in 1..N, named[a].item = named[b].item
        PROVE  a = b
    BY <1>5, <1>12, <2>2
  <2> QED BY <1>1, <1>9, <1>12, <2>1, <2>2 DEF PageInv
<1>16. Behind = {i \in Items : Home[i] = here.unit /\ i <= here.token}
  BY <1>2 DEF Behind, OnPage
<1>17. Behind' = {i \in Items : Home[i] = here.unit /\ i <= token} \ Page
  <2>1. OnPage' = {named[n].item : n \in 1..N}
    BY <1>9, <1>12 DEF OnPage
  <2>2. OnPage' = Page
    BY <1>5, <1>6, <1>12, <2>1
  <2> QED BY <1>9, <2>2 DEF Behind
<1>18. Behind \subseteq Behind' /\ Behind' \subseteq Items
  <2>1. ASSUME NEW i \in Behind PROVE i \in Behind'
    <3>1. i \in Items /\ Home[i] = here.unit /\ i <= here.token /\ i \in Nat /\ token \in Nat
      BY <1>7, <1>16
    <3>2. i <= token
      BY <1>7, <1>11, <3>1
    <3>3. i \notin Page
      <4>1. i \in Page => i > here.token
        BY <1>4
      <4> QED BY <1>11, <3>1, <4>1
    <3> QED BY <1>17, <3>1, <3>2, <3>3
  <2> QED BY <1>17, <2>1
\* What the token has passed without naming it was not there.
<1>19. ASSUME NEW i \in Behind', i \notin Behind PROVE truth[i] = "unsure"
  <2>1. i \in Items /\ Home[i] = here.unit /\ i <= token /\ i \notin Page
        /\ ~ (i <= here.token)
    BY <1>16, <1>17, <1>19
  <2>2. CASE world[i] # Absent
    <3>1. i \in Rest /\ token # here.token
      BY <1>4, <2>1, <2>2
    <3>2. token \in Page /\ i < token
      <4>1. token \in Page
        BY <1>7, <3>1
      <4>2. i # token /\ i \in Nat /\ token \in Nat
        BY <1>7, <2>1, <4>1
      <4> QED BY <2>1, <4>1, <4>2
    <3> QED BY <1>4, <2>1, <3>1, <3>2
  <2>3. CASE world[i] = Absent
    BY <2>1, <2>3 DEF truth
  <2> QED BY <2>2, <2>3
<1>20. UnitInv'
  <2>1. /\ \A j \in Behind : /\ truth[j] = "bad" => j \in here.found \cup total.lost
                             /\ truth[j] \in {"good", "bad"} => here.counted > 0
        /\ \A j \in here.found :
               Home[j] = here.unit /\ truth[j] \in {"bad", "unsure"} /\ j \notin never
        /\ here.counted <= Cardinality(Behind)
        /\ control.pages = "first" /\ control.empty # "nothing" /\ here.token # 0 =>
               here.counted > 0
    BY <1>2 DEF CheckInv, UnitInv
  <2>2. here.counted <= Cardinality(Behind')
    <3>1. /\ Cardinality(Behind) \in Nat /\ Cardinality(Behind') \in Nat
          /\ Cardinality(Behind) <= Cardinality(Behind')
      BY <1>18, SubsetsOfItems
    <3> QED BY <1>11, <2>1, <3>1
  <2>3. \A j \in Behind' : /\ truth[j] = "bad" => j \in here.found \cup total.lost
                           /\ truth[j] \in {"good", "bad"} => here.counted > 0
    BY <1>19, <2>1
  <2>4. control.pages = "first" /\ control.empty # "nothing" /\ token # 0 =>
            named # << >> \/ here.counted > 0
    <3>1. CASE token = here.token
      BY <2>1, <3>1
    <3>2. CASE token # here.token
      <4>1. PICK n \in 1..N : order[n] = token
        BY <1>5, <1>7, <3>2
      <4>2. DOMAIN named # {}
        BY <1>12, <4>1
      <4> QED BY <4>2
    <3> QED BY <3>1, <3>2
  <2> QED BY <1>1, <1>9, <1>10, <2>1, <2>2, <2>3, <2>4 DEF UnitInv
<1>21. ListedInv'
  <2>1. ASSUME ~more, NEW i \in Items, Home[i] = here.unit, truth[i] # "unsure"
        PROVE  token # 0 /\ (Due(i) => i <= token)
    <3>1. world[i] # Absent /\ i \in Nat \ {0} /\ token \in Nat
      <4>1. world[i] # Absent
        BY <2>1 DEF truth
      <4>2. token \in Items \cup {0} /\ Items \subseteq Nat \ {0}
        BY <1>0, <1>7, HereTyped
      <4> QED BY <4>1, <4>2
    <3>2. CASE i <= here.token
      <4>1. i <= token
        BY <1>7, <1>11, <3>1, <3>2
      <4> QED BY <3>1, <4>1
    <3>3. CASE ~ (i <= here.token)
      <4>1. i \in Rest
        BY <1>4, <2>1, <3>1, <3>3
      <4>2. token # 0
        BY <1>4, <1>7, <4>1
      <4>3. Due(i) => i \in Page
        <5>1. CASE control.pages = "first"
          BY <1>4, <4>1, <5>1 DEF Due
        <5>2. CASE control.pages # "first"
          <6>1. Rest = Page
            BY <1>4, <2>1, <5>2 DEF more
          <6> QED BY <4>1, <6>1
        <5> QED BY <5>1, <5>2
      <4> QED BY <1>7, <4>2, <4>3
    <3> QED BY <3>2, <3>3
  <2> QED BY <1>9, <1>10, <2>1 DEF ListedInv
<1>22. LeftInv'
  <2>1. Left' = Left
    BY <1>1, <1>9 DEF Left, Inside
  <2> QED BY <1>1, <2>1, ResultsStay
<1>23. RealInv' /\ GoodInv' /\ StatusInv'
  <2>1. MarkNotInUse(Result)' = MarkNotInUse(Result)
    BY <1>1, <1>10 DEF MarkNotInUse, Result
  <2> QED BY <1>1, <1>9, <1>10, <2>1 DEF CheckInv, RealInv, GoodInv, StatusInv, Inside
<1> QED BY <1>13, <1>14, <1>15, <1>20, <1>21, <1>22, <1>23 DEF CheckInv
-----------------------------------------------------------------------------
(* The invariant. *)

LEMMA InitHolds ==
    ASSUME Init
    PROVE  CheckInv
<1>1. /\ control \in Checks /\ account \in Accounts /\ requested \subseteq Regions
      /\ control.units # "regions" => requested = Regions
      /\ enabled \in [Accounts -> SUBSET Regions]
  BY DEF Init
<1>2. /\ usage \in [Regions -> {"idle", "active", "unsupported"}]
      /\ control.empty = "probe" => \A u \in Regions : usage[u] # "unsupported"
  BY DEF Init
<1>3. /\ world \in [Items -> Things \cup {Absent}]
      /\ \A i \in Items : usage[Home[i]] = "unsupported" => world[i] = Absent
  BY DEF Init
<1>4. /\ changes = 0 /\ steady = [items |-> Items, regions |-> Regions]
      /\ pc = "claim" /\ claimed = {} /\ todo = {}
      /\ here = [unit |-> Least(Regions), token |-> 0, more |-> FALSE, page |-> << >>,
                 found |-> {}, counted |-> 0]
      /\ total = [findings |-> {}, noneFound |-> {}, visited |-> {}, failed |-> {},
                  lost |-> {}, counted |-> 0, good |-> FALSE]
      /\ status = "none" /\ broken = FALSE
  BY DEF Init, Nowhere
<1>5. Types
  <2>1. << >> \in Seq([item : Items, said : DOMAIN control.judge])
    OBVIOUS
  <2>2. here \in [unit : Regions, token : Items \cup {0}, more : BOOLEAN,
                  page : Seq([item : Items, said : DOMAIN control.judge]),
                  found : SUBSET Items, counted : Nat]
    BY <1>4, <2>1, UnitsAreRegions
  <2>3. total \in [findings : SUBSET Items, noneFound : SUBSET Regions,
                   visited : SUBSET Regions, failed : SUBSET Regions,
                   lost : SUBSET Items, counted : Nat, good : BOOLEAN]
    BY <1>4
  <2>4. changes \in 0..MaxChanges
    BY <1>4
  <2>5. steady \in [items : SUBSET Items, regions : SUBSET Regions]
    BY <1>4
  <2>6. pc = "claim" /\ claimed \subseteq Regions /\ todo \subseteq Regions /\ broken \in BOOLEAN
    BY <1>4
  <2> HIDE <1>4
  <2> QED BY <1>1, <1>2, <1>3, <2>2, <2>3, <2>4, <2>5, <2>6 DEF Types
<1>6. RegionsInv /\ CoverInv /\ AccountInv /\ StatusInv
  BY <1>1, <1>2, <1>3, <1>4 DEF RegionsInv, CoverInv, AccountInv, StatusInv, Inside
<1>7. PageInv /\ ListedInv /\ RealInv /\ GoodInv
  BY <1>4 DEF PageInv, ListedInv, RealInv, GoodInv, Inside
<1>8. Behind = {}
  BY <1>4 DEF Behind
<1>9. UnitInv
  BY <1>4, <1>8, FS_EmptySet DEF UnitInv
<1>10. LeftInv
  <2>1. Left = {}
    BY <1>4 DEF Left
  <2>2. {i \in Items : Home[i] \in Left} = {}
    BY <2>1
  <2>3. Cardinality({i \in Items : Home[i] \in Left}) = 0
    BY <2>2, FS_EmptySet
  <2>4. total.counted = 0 /\ total.noneFound = {}
    BY <1>4
  <2> QED BY <2>1, <2>3, <2>4 DEF LeftInv
<1> QED BY <1>5, <1>6, <1>7, <1>9, <1>10 DEF CheckInv

LEMMA NextKeeps ==
    ASSUME CheckInv, [Next]_vars
    PROVE  CheckInv'
<1>1. CASE AccountChanges
  BY <1>1, AccountKeeps
<1>2. CASE ClaimRegions \/ ListRegions \/ ListRegionsFails \/ EnterAccount
  BY <1>2, BeginKeeps
<1>3. CASE EnterUnit
  BY <1>3, EnterKeeps
<1>4. CASE ListPage
  BY <1>4, ListKeeps
<1>5. CASE ListFails \/ ProbeFails
  <2>1. pc \in Inside /\ Fails /\ Still /\ UNCHANGED <<claimed, todo>>
    BY <1>5 DEF ListFails, ProbeFails, Inside, Still
  <2> QED BY <2>1, FailsKeep
<1>6. CASE Unsupported
  BY <1>6, UnsupportedKeeps
<1>7. CASE NextPage
  <2>1. /\ Still /\ pc = "items" /\ here.page = << >> /\ pc' = "list"
        /\ UNCHANGED <<claimed, todo, here, total, status, broken>>
    BY <1>7 DEF NextPage, Still
  <2> QED BY <2>1, GoingOnKeeps
<1>8. ASSUME pc = "items", here.page # << >>, ItemFails, Still, UNCHANGED <<claimed, todo>>
      PROVE  CheckInv'
  <2>1. CASE NextItem
    BY <1>8, <2>1, NextItemKeeps
  <2>2. CASE Fails
    <3>1. pc \in Inside
      BY <1>8 DEF Inside
    <3> QED BY <1>8, <2>2, <3>1, FailsKeep
  <2> QED BY <1>8, <2>1, <2>2 DEF ItemFails
<1>9. CASE Ask
  <2>1. /\ pc = "items" /\ here.page # << >> /\ Still /\ UNCHANGED <<claimed, todo>>
    BY <1>9 DEF Ask, Still
  <2>2. Head(here.page) = here.page[1]
    BY <2>1, FirstEntry
  <2>3. CASE world[FirstItem] = Absent
    <3>1. ItemFails
      BY <1>9, <2>2, <2>3 DEF Ask, FirstItem
    <3> QED BY <1>8, <2>1, <3>1
  <2>4. CASE world[FirstItem] # Absent
    BY <1>9, <2>4, AskKeeps
  <2> QED BY <2>3, <2>4
<1>10. CASE AskFails \/ Misread
  <2>1. pc = "items" /\ here.page # << >> /\ ItemFails /\ Still /\ UNCHANGED <<claimed, todo>>
    BY <1>10 DEF AskFails, Misread, Still
  <2> QED BY <1>8, <2>1
<1>11. CASE Judge
  BY <1>11, JudgeKeeps
<1>12. CASE LeaveUnit
  BY <1>12, LeaveKeeps
<1>13. CASE Probe
  BY <1>13, ProbeKeeps
<1>14. CASE Finish
  BY <1>14, FinishKeeps
<1>15. CASE Finished \/ UNCHANGED vars
  <2>1. UNCHANGED vars
    BY <1>15 DEF Finished
  <2>2. /\ Still /\ UNCHANGED <<truth, never, Things, Units, Expected>>
        /\ \A i \in Items : Due(i)' = Due(i)
    BY <2>1, StillTrue DEF vars, Still, account_vars
  <2>3. UNCHANGED <<Left, Behind>> /\ MarkNotInUse(Result)' = MarkNotInUse(Result)
    BY <2>1 DEF vars, Left, Behind, OnPage, MarkNotInUse, Result
  <2>4. Types' /\ RegionsInv' /\ CoverInv' /\ AccountInv'
    BY <2>1, <2>2 DEF vars, CheckInv, Types, RegionsInv, CoverInv, AccountInv
  <2>5. UnitInv' /\ PageInv' /\ ListedInv'
    <3>1. here' = here /\ pc' = pc /\ total' = total
      BY <2>1 DEF vars
    <3> QED BY <2>2, <3>1, HereStays DEF CheckInv, PageInv
  <2>6. LeftInv'
    <3>1. total' = total
      BY <2>1 DEF vars
    <3> QED BY <2>2, <2>3, <3>1, ResultsStay
  <2>7. RealInv' /\ GoodInv' /\ StatusInv'
    BY <2>1, <2>2, <2>3 DEF vars, CheckInv, RealInv, GoodInv, StatusInv
  <2> QED BY <2>4, <2>5, <2>6, <2>7 DEF CheckInv
<1> QED BY <1>1, <1>2, <1>3, <1>4, <1>5, <1>6, <1>7, <1>9, <1>10, <1>11, <1>12, <1>13,
           <1>14, <1>15 DEF Next

THEOREM InvariantHolds == Spec => []CheckInv
<1>1. Init => CheckInv
  BY InitHolds
<1>2. CheckInv /\ [Next]_vars => CheckInv'
  BY NextKeeps
<1> QED BY <1>1, <1>2, PTL DEF Spec
-----------------------------------------------------------------------------
(* What the run promises, at its end. *)

\* Once the run is over, every unit it owes an answer for was visited.
LEMMA AtTheEnd ==
    ASSUME CheckInv, pc = "done"
    PROVE  /\ total.visited # {} => Expected \subseteq total.visited
           /\ Left = total.visited \ total.failed
           /\ status # "error" => /\ status = MarkNotInUse(Result)
                                  /\ total.failed = {} /\ total.lost = {}
<1>1. todo = {}
  BY DEF CheckInv, RegionsInv
<1>2. total.visited # {} => Expected \subseteq total.visited
  BY <1>1 DEF CheckInv, CoverInv
<1>3. Left = total.visited \ total.failed
  BY DEF Left, Inside
<1>4. ASSUME status # "error"
      PROVE  status = MarkNotInUse(Result) /\ total.failed = {} /\ total.lost = {}
  <2>1. status = MarkNotInUse(Result)
    BY <1>4 DEF CheckInv, StatusInv
  <2>2. total.failed # {} \/ total.lost # {} => Result = "error"
    BY DEF Result
  <2>3. Result = "error" => MarkNotInUse(Result) = "error"
    BY DEF MarkNotInUse
  <2> QED BY <1>4, <2>1, <2>2, <2>3
<1> QED BY <1>2, <1>3, <1>4

\* An item that was bad all the while is named, whatever else came, went or
\* failed in the run (BadIsNamed).
THEOREM BadItemsAreNamed == Spec => []BadIsNamed
<1>1. ASSUME CheckInv PROVE BadIsNamed
  <2> SUFFICES ASSUME pc = "done", NEW i \in Items, Due(i), Steadily(i, "bad"), Covered(i)
               PROVE  /\ i \in total.findings
                      /\ status \in {"fail", "error"} \/ control.passes = "one_good"
    BY DEF BadIsNamed, BadAreNamed, Due, OnFirstPage
  <2>1. truth[i] = "bad"
    BY DEF Steadily, truth
  <2>2. Home[i] \in Left /\ i \notin total.lost
    BY <1>1, AtTheEnd DEF Covered
  <2>3. i \in total.findings
    BY <1>1, <2>1, <2>2 DEF CheckInv, LeftInv
  <2>4. ASSUME status # "error", control.passes # "one_good" PROVE status = "fail"
    <3>1. status = MarkNotInUse(Result) /\ total.failed = {} /\ total.lost = {}
      BY <1>1, <2>4, AtTheEnd
    <3>2. Result = "fail"
      BY <2>3, <2>4, <3>1 DEF Result
    <3> QED BY <3>1, <3>2 DEF MarkNotInUse
  <2> QED BY <2>3, <2>4
<1> QED BY <1>1, InvariantHolds, PTL

\* A finding names what was bad or absent at some time of the run, in a
\* requested and, in the management account, claimed region (FindingsAreReal).
THEOREM FindingsNameBadItems == Spec => []FindingsAreReal
<1>1. ASSUME CheckInv PROVE FindingsAreReal
  <2> SUFFICES ASSUME pc = "done"
               PROVE  /\ \A i \in total.findings :
                             /\ \/ i \in steady.items => Steadily(i, "bad")
                                \/ control.unread = "finding" /\ broken
                             /\ Home[i] \in requested
                             /\ account = Management /\ claimed # {} =>
                                    Home[i] \in claimed \/ Home[i] \notin steady.regions
                      /\ \A u \in total.noneFound, i \in Items :
                             Home[i] = u => ~Steadily(i, "good") /\ ~Steadily(i, "bad")
    BY DEF FindingsAreReal
  <2>1. ASSUME NEW i \in total.findings
        PROVE  /\ \/ i \in steady.items => Steadily(i, "bad")
                  \/ control.unread = "finding" /\ broken
               /\ Home[i] \in total.visited
    <3>1. i \in Items
      BY <1>1 DEF CheckInv, Types
    <3>2. /\ Home[i] \in total.visited
          /\ \/ truth[i] \in {"bad", "unsure"} /\ i \notin never
             \/ control.unread = "finding" /\ broken
      BY <1>1 DEF CheckInv, RealInv
    <3>3. ASSUME i \in steady.items, truth[i] \in {"bad", "unsure"}, i \notin never
          PROVE  Steadily(i, "bad")
      <4>1. world[i] # Absent
        BY <3>1, <3>3 DEF never
      <4>2. Verdict(world[i]) = truth[i]
        BY <3>1, <3>3, <4>1 DEF truth
      <4>3. Verdict(world[i]) # "unsure"
        BY <1>1, <3>1, <4>1, VerdictIsAJudgement DEF CheckInv, Types
      <4> QED BY <3>3, <4>1, <4>2, <4>3 DEF Steadily
    <3> QED BY <3>2, <3>3
  <2>2. ASSUME NEW i \in total.findings
        PROVE  /\ Home[i] \in requested
               /\ account = Management /\ claimed # {} =>
                      Home[i] \in claimed \/ Home[i] \notin steady.regions
    <3>1. Home[i] \in total.visited /\ total.visited \subseteq requested
      BY <1>1, <2>1 DEF CheckInv, RegionsInv
    <3>2. ASSUME account = Management, claimed # {}, Home[i] \in steady.regions
          PROVE  Home[i] \in claimed
      <4>1. control.units = "regions"
        BY <1>1, <3>2 DEF CheckInv, RegionsInv
      <4>2. Home[i] \in enabled[Management]
        BY <1>1, <3>1, <3>2, <4>1 DEF CheckInv, CoverInv
      <4> QED BY <1>1, <3>1, <3>2, <4>2 DEF CheckInv, CoverInv
    <3> QED BY <3>1, <3>2
  <2>3. ASSUME NEW i \in Items, Home[i] \in total.noneFound
        PROVE  ~Steadily(i, "good") /\ ~Steadily(i, "bad")
    BY <1>1, <2>3 DEF CheckInv, LeftInv, Steadily, truth
  <2> QED BY <2>1, <2>2, <2>3
<1> QED BY <1>1, InvariantHolds, PTL

\* "Not in use" is said only where there was nothing (AbsenceIsReal).
THEOREM NotInUseMeansAbsent == Spec => []AbsenceIsReal
<1>1. ASSUME CheckInv PROVE AbsenceIsReal
  <2> SUFFICES ASSUME status = "not_in_use"
               PROVE  /\ \A i \in Items : Home[i] \in total.visited =>
                             ~Steadily(i, "good") /\ ~Steadily(i, "bad")
                      /\ control.empty = "probe" =>
                             \A u \in total.visited \cap steady.regions : usage[u] # "active"
    BY DEF AbsenceIsReal
  <2>1. pc = "done"
    BY <1>1 DEF CheckInv, StatusInv
  <2>2. /\ status = MarkNotInUse(Result) /\ total.failed = {} /\ total.lost = {}
        /\ Left = total.visited
    BY <1>1, <2>1, AtTheEnd
  <2>3. Result \in {"error", "pass", "fail"}
    BY DEF Result
  <2>4. /\ Result = "pass" /\ total.counted = 0
        /\ control.empty \in {"not_in_use", "probe"}
    BY <2>2, <2>3 DEF MarkNotInUse
  <2>5. ~total.good
    BY <1>1, <2>1, <2>2, <2>4 DEF CheckInv, GoodInv, Inside
  <2>6. total.noneFound = {}
    BY <2>2, <2>4, <2>5 DEF Result
  <2>7. ASSUME NEW i \in Items, Home[i] \in total.visited
        PROVE  truth[i] \notin {"good", "bad"}
    <3>1. control.pages # "first"
      BY <1>1, <2>4, TheCheck DEF CheckInv, IsCheck
    <3>2. Due(i)
      BY <3>1 DEF Due
    <3> QED BY <1>1, <2>2, <2>4, <2>7, <3>2 DEF CheckInv, LeftInv
  <2>8. ASSUME NEW i \in Items, Home[i] \in total.visited
        PROVE  ~Steadily(i, "good") /\ ~Steadily(i, "bad")
    BY <2>7, <2>8 DEF Steadily, truth
  <2>9. ASSUME control.empty = "probe", NEW u \in total.visited \cap steady.regions
        PROVE  usage[u] # "active"
    BY <1>1, <2>2, <2>4, <2>6, <2>9 DEF CheckInv, LeftInv
  <2> QED BY <2>8, <2>9
<1> QED BY <1>1, InvariantHolds, PTL

\* An error is never turned into another result, and nothing else is one; and
\* every variable has its type (ErrorsSurface).
THEOREM ErrorsAreNotHidden == Spec => []ErrorsSurface
<1>1. ASSUME CheckInv PROVE ErrorsSurface
  <2>0. Types /\ StatusInv
    BY <1>1 DEF CheckInv
  <2>1. Result \in {"error", "pass", "fail"}
        /\ MarkNotInUse(Result) \in {Result, "not_in_use"}
        /\ (MarkNotInUse(Result) = "error" <=> Result = "error")
        /\ (Result = "error" <=> total.failed # {} \/ total.lost # {})
    BY DEF Result, MarkNotInUse
  <2>2. pc = "done" => (status = "error" <=> broken \/ total.visited = {})
    <3>1. total.failed # {} \/ total.lost # {} <=> total.failed \cup total.lost # {}
      OBVIOUS
    <3> QED BY <2>0, <2>1, <3>1 DEF StatusInv
  <2>3. status \in {"none", "pass", "fail", "error", "not_in_use"}
    BY <2>0, <2>1 DEF StatusInv
  <2>4. here.counted \in 0..Cardinality(Items) /\ total.counted \in 0..Cardinality(Items)
    <3> DEFINE left == {i \in Items : Home[i] \in Left}
    <3>1. Behind \subseteq Items /\ left \subseteq Items
      BY DEF Behind
    <3>2. here.counted <= Cardinality(Behind) /\ total.counted <= Cardinality(left)
      BY <1>1 DEF CheckInv, UnitInv, LeftInv
    <3> HIDE DEF left
    <3>3. /\ Cardinality(Behind) \in Nat /\ Cardinality(left) \in Nat
          /\ Cardinality(Items) \in Nat
          /\ Cardinality(Behind) <= Cardinality(Items)
          /\ Cardinality(left) <= Cardinality(Items)
      BY <3>1, SubsetsOfItems
    <3>4. here.counted \in Nat /\ total.counted \in Nat
      BY <2>0, HereTyped DEF Types
    <3> QED BY <3>2, <3>3, <3>4
  <2>5. \A n \in DOMAIN here.page :
            here.page[n].item \in Items /\ here.page[n].said \in DOMAIN control.judge
    BY <2>0, PageEntries
  <2>6. here.unit \in Regions /\ here.token \in Items \cup {0} /\ here.more \in BOOLEAN
        /\ here.found \subseteq Items
    BY <2>0, HereTyped
  <2>7. /\ total.findings \subseteq Items /\ total.lost \subseteq Items
        /\ total.noneFound \cup total.visited \cup total.failed \subseteq Regions
        /\ total.good \in BOOLEAN
        /\ steady.items \subseteq Items /\ steady.regions \subseteq Regions
    BY <2>0 DEF Types
  <2>8. TypeOK
    BY <2>0, <2>3, <2>4, <2>5, <2>6, <2>7 DEF Types, TypeOK
  <2> QED BY <2>2, <2>8 DEF ErrorsSurface
<1> QED BY <1>1, InvariantHolds, PTL
=============================================================================
