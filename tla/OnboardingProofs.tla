-------------------------- MODULE OnboardingProofs --------------------------
(***************************************************************************)
(* Theorems about the enumeration of a scope and about the onboarding      *)
(* counter, for every tree of folders, any number of units, pages of any   *)
(* size and any number of changes, faults, tenants and probes.             *)
(***************************************************************************)
EXTENDS OnboardingStatus, FiniteSetTheorems, TLAPS

(* What is above a container, in any forest of folders. *)

Places == Containers \cup {Gone}

\* The definition of Above, as a function of the tree.
ClosedUp(tree, c, S) ==
    /\ c \in Folders => c \in S
    /\ \A f \in S : tree[f] \in Folders => tree[f] \in S
FoldersUp(tree, c) ==
    {f \in Folders : \A S \in {T \in SUBSET Folders : ClosedUp(tree, c, T)} : f \in S}
Upward(tree, c) == {c} \cup FoldersUp(tree, c) \cup {tree[f] : f \in FoldersUp(tree, c)}

LEMMA AboveIs == \A c : Above(c) = Upward(up, c)
BY Zenon DEF Above, Upward, FoldersUp, ClosedUp

LEMMA RootApart == Root \in Containers /\ Root \notin Folders /\ Gone \notin Containers
BY NumbersAssumption DEF Root, Containers

LEMMA UpwardIs ==
    ASSUME NEW tree \in [Folders -> Places], NEW c \in Places
    PROVE  /\ c \in Upward(tree, c)
           /\ Upward(tree, c) \in SUBSET Places
           /\ \A f \in Upward(tree, c) \cap Folders : tree[f] \in Upward(tree, c)
           /\ \A S \in SUBSET Places :
                 c \in S /\ (\A f \in S \cap Folders : tree[f] \in S)
                     => Upward(tree, c) \subseteq S
<1> DEFINE F == FoldersUp(tree, c)
<1>1. /\ F \in SUBSET Folders /\ ClosedUp(tree, c, F)
      /\ \A S \in SUBSET Folders : ClosedUp(tree, c, S) => F \subseteq S
  BY DEF FoldersUp, ClosedUp
<1>2. Upward(tree, c) = {c} \cup F \cup {tree[f] : f \in F}
  BY DEF Upward
<1> HIDE DEF F
<1>3. Upward(tree, c) \in SUBSET Places
  BY <1>1, <1>2 DEF Places, Containers
<1>4. ASSUME NEW f \in Upward(tree, c) \cap Folders PROVE tree[f] \in Upward(tree, c)
  <2>1. f \in F
    BY <1>1, <1>2 DEF ClosedUp
  <2> QED BY <1>2, <2>1
<1>5. ASSUME NEW S \in SUBSET Places, c \in S, \A f \in S \cap Folders : tree[f] \in S
      PROVE  Upward(tree, c) \subseteq S
  <2>1. ClosedUp(tree, c, S \cap Folders)
    BY <1>5 DEF ClosedUp
  <2>2. F \subseteq S \cap Folders
    BY <1>1, <2>1
  <2> QED BY <1>2, <1>5, <2>2
<1> QED BY <1>2, <1>3, <1>4, <1>5

LEMMA UpwardMonotone ==
    ASSUME NEW tree \in [Folders -> Places], NEW c \in Places,
           NEW x \in Upward(tree, c)
    PROVE  x \in Places /\ Upward(tree, x) \subseteq Upward(tree, c)
BY UpwardIs

LEMMA UpwardStep ==
    ASSUME NEW tree \in [Folders -> Places]
    PROVE  /\ Upward(tree, Root) = {Root}
           /\ Upward(tree, Gone) = {Gone}
           /\ \A f \in Folders : Upward(tree, f) = {f} \cup Upward(tree, tree[f])
<1>0. ASSUME NEW c \in Places \ Folders PROVE Upward(tree, c) = {c}
  <2>1. {c} \in SUBSET Places /\ c \in {c} /\ \A f \in {c} \cap Folders : tree[f] \in {c}
    OBVIOUS
  <2>2. Upward(tree, c) \subseteq {c}
    BY <2>1, UpwardIs
  <2> QED BY <2>2, UpwardIs
<1>1. Upward(tree, Root) = {Root}
  BY <1>0, RootApart DEF Places
<1>2. Upward(tree, Gone) = {Gone}
  BY <1>0, RootApart DEF Places, Containers
<1>3. ASSUME NEW f \in Folders
      PROVE  Upward(tree, f) = {f} \cup Upward(tree, tree[f])
  <2>1. f \in Places /\ tree[f] \in Places
    BY DEF Places, Containers
  <2> DEFINE S == {f} \cup Upward(tree, tree[f])
  <2>2. S \in SUBSET Places /\ \A g \in S \cap Folders : tree[g] \in S
    BY <2>1, UpwardIs
  <2>3. Upward(tree, f) \subseteq S
    <3> HIDE DEF S
    <3>1. f \in S
      BY DEF S
    <3> QED BY <3>1, <2>1, <2>2, UpwardIs
  <2>4. tree[f] \in Upward(tree, f) /\ f \in Upward(tree, f)
    BY <2>1, UpwardIs
  <2>5. Upward(tree, tree[f]) \subseteq Upward(tree, f)
    BY <2>1, <2>4, UpwardMonotone
  <2> QED BY <2>3, <2>4, <2>5
<1> QED BY <1>1, <1>2, <1>3

\* What lies above c, other than c, has a child above c.
LEMMA UpwardChild ==
    ASSUME NEW tree \in [Folders -> Places], NEW c \in Places,
           NEW x \in Upward(tree, c), x # c
    PROVE  \E k \in Upward(tree, c) \cap Folders : tree[k] = x
<1> SUFFICES ASSUME \A k \in Upward(tree, c) \cap Folders : tree[k] # x
             PROVE  FALSE
  OBVIOUS
<1> DEFINE S == Upward(tree, c) \ {x}
<1>1. S \in SUBSET Places /\ c \in S /\ \A f \in S \cap Folders : tree[f] \in S
  BY UpwardIs
<1>2. Upward(tree, c) \subseteq S
  <2> HIDE DEF S
  <2> QED BY <1>1, UpwardIs
<1> QED BY <1>2

\* Whatever is above something that hangs from the root does so too; nothing
\* that hangs from the root is above itself.
LEMMA UpwardRooted ==
    ASSUME NEW tree \in [Folders -> Places], NEW c \in Places,
           Root \in Upward(tree, c)
    PROVE  \A x \in Upward(tree, c) : Root \in Upward(tree, x) /\ x # Gone
<1> DEFINE S == {x \in Upward(tree, c) : Root \in Upward(tree, x)}
<1>1. ASSUME NEW f \in S \cap Folders PROVE tree[f] \in S
  <2>1. Root \in Upward(tree, f) /\ f # Root
    BY RootApart
  <2>2. Root \in Upward(tree, tree[f])
    BY <2>1, UpwardStep
  <2>3. tree[f] \in Upward(tree, c)
    BY UpwardIs
  <2> QED BY <2>2, <2>3
<1>2. S \in SUBSET Places /\ c \in S
  BY UpwardIs
<1>3. Upward(tree, c) \subseteq S
  <2> HIDE DEF S
  <2> QED BY <1>1, <1>2, UpwardIs
<1>4. Root \notin Upward(tree, Gone)
  BY UpwardStep, RootApart DEF Root, Containers
<1> QED BY <1>3, <1>4

LEMMA UpwardAcyclic ==
    ASSUME NEW tree \in [Folders -> Places], NEW f \in Folders,
           Root \in Upward(tree, f)
    PROVE  f \notin Upward(tree, tree[f])
<1> SUFFICES ASSUME f \in Upward(tree, tree[f]) PROVE FALSE
  OBVIOUS
<1>0. f \in Places
  BY DEF Places, Containers
<1> DEFINE S == {x \in Upward(tree, f) : f \in Upward(tree, x)}
<1>1. ASSUME NEW g \in S \cap Folders PROVE tree[g] \in S
  <2>1. tree[g] \in Upward(tree, f)
    BY <1>0, UpwardIs
  <2>2. f \in Upward(tree, tree[g])
    BY UpwardStep
  <2> QED BY <2>1, <2>2
<1>2. S \in SUBSET Places /\ f \in S
  BY <1>0, UpwardIs
<1>3. Upward(tree, f) \subseteq S
  <2> HIDE DEF S
  <2> QED BY <1>0, <1>1, <1>2, UpwardIs
<1>4. f \in Upward(tree, Root)
  BY <1>3
<1> QED BY <1>4, UpwardStep, RootApart

\* Folders that move change nothing for those they are not above.
LEMMA UpwardFrame ==
    ASSUME NEW tree \in [Folders -> Places], NEW new \in [Folders -> Places],
           NEW c \in Places,
           \A g \in Upward(tree, c) \cap Folders : new[g] = tree[g]
    PROVE  Upward(new, c) = Upward(tree, c)
<1>1. Upward(new, c) \subseteq Upward(tree, c)
  BY UpwardIs
<1>2. Upward(tree, c) \subseteq Upward(new, c)
  <2>1. \A g \in Upward(new, c) \cap Folders : tree[g] \in Upward(new, c)
    BY <1>1, UpwardIs
  <2> QED BY <2>1, UpwardIs
<1> QED BY <1>1, <1>2
-----------------------------------------------------------------------------
(* Pages. *)

LEMMA FirstIs ==
    ASSUME NEW S \in SUBSET Nat, S # {}
    PROVE  First(S) \in S /\ \A y \in S : First(S) <= y
<1>1. PICK n \in S : \A m \in S : <<m, n>> \notin OpToRel(<, Nat)
  BY WFMin, NatLessThanWellFounded
<1>2. ASSUME NEW m \in S PROVE n <= m
  <2>1. ~ (m < n)
    BY <1>1 DEF OpToRel
  <2> QED BY <2>1
<1> QED BY <1>2 DEF First

\* By the least number of elements of a set without a last one.
LEMMA LastIs ==
    ASSUME NEW T \in SUBSET Nat, T # {}, IsFiniteSet(T)
    PROVE  Last(T) \in T /\ \A y \in T : y <= Last(T)
<1> DEFINE HasLast(s) == \E x \in s : \A y \in s : y <= x
           Wrong == {s \in SUBSET T : s # {} /\ ~HasLast(s)}
           Sizes == {Cardinality(s) : s \in Wrong}
<1>0. \A s \in SUBSET T : IsFiniteSet(s) /\ Cardinality(s) \in Nat
  BY FS_Subset, FS_CardinalityType
<1>1. SUFFICES ASSUME Wrong # {} PROVE FALSE
  <2>1. HasLast(T)
    BY <1>1
  <2> QED BY <2>1 DEF Last
<1>2. Sizes \in SUBSET Nat /\ Sizes # {}
  BY <1>0, <1>1
<1>3. PICK n \in Sizes : \A m \in Sizes : n <= m
  <2> HIDE DEF Sizes
  <2> QED BY <1>2, FirstIs
<1>4. PICK s \in Wrong : Cardinality(s) = n
  BY <1>3
<1>5. PICK x \in s : TRUE
  BY <1>4
<1> DEFINE p == s \ {x}
<1>6. Cardinality(p) = Cardinality(s) - 1
  BY <1>0, <1>4, <1>5, FS_RemoveElement
<1>7. p \notin Wrong
  <2>1. ASSUME p \in Wrong PROVE FALSE
    <3>1. n <= Cardinality(p)
      BY <2>1, <1>3
    <3>2. n \in Nat
      BY <1>2
    <3> QED BY <3>1, <3>2, <1>4, <1>6
  <2> QED BY <2>1
<1>8. CASE p = {}
  <2>1. s = {x} /\ x \in Nat
    BY <1>4, <1>5, <1>8
  <2> QED BY <2>1, <1>4
<1>9. CASE p # {}
  <2>1. PICK z \in p : \A y \in p : y <= z
    BY <1>4, <1>7, <1>9
  <2>2. z \in Nat /\ x \in Nat /\ z \in s /\ \A y \in s : y \in Nat
    BY <1>4, <1>5, <2>1
  <2>3. \A y \in s : y <= z \/ y = x
    BY <2>1
  <2>4. CASE x <= z
    BY <2>2, <2>3, <2>4, <1>4
  <2>5. CASE z < x
    BY <2>2, <2>3, <2>5, <1>4, <1>5
  <2> QED BY <2>2, <2>4, <2>5
<1> QED BY <1>8, <1>9

\* A page is the beginning of what is left, and all of it or not empty.
LEMMA PageIs ==
    ASSUME NEW S \in SUBSET Nat, IsFiniteSet(S), NEW token \in Nat
    PROVE  /\ Page(S, token) \subseteq Rest(S, token)
           /\ Rest(S, token) \subseteq S
           /\ \A x \in Rest(S, token) : token < x
           /\ Rest(S, token) # {} => Page(S, token) # {}
           /\ Page(S, token) # Rest(S, token) => Page(S, token) # {}
           /\ \A x \in Rest(S, token) \ Page(S, token) :
                 Last(Page(S, token)) < x
           /\ Page(S, token) # {} => /\ Last(Page(S, token)) \in Page(S, token)
                                     /\ \A x \in Page(S, token) :
                                           x <= Last(Page(S, token))
<1> DEFINE R == Rest(S, token)
           Pg == Page(S, token)
           Before(x) == {y \in R : y < x}
<1>1. Pg = {x \in R : Cardinality(Before(x)) < PageSize} /\ R = {x \in S : x > token}
  BY DEF Page, Rest
<1>2. R \in SUBSET Nat /\ R \subseteq S /\ IsFiniteSet(R)
  BY <1>1, FS_Subset
<1>3. \A x : IsFiniteSet(Before(x)) /\ Cardinality(Before(x)) \in Nat
  <2>1. \A x : Before(x) \subseteq R
    OBVIOUS
  <2> QED BY <2>1, <1>2, FS_Subset, FS_CardinalityType
<1>4. Pg \subseteq R /\ Pg \in SUBSET Nat /\ IsFiniteSet(Pg)
  BY <1>1, <1>2, FS_Subset
<1>5. ASSUME R # {} PROVE Pg # {}
  <2> HIDE DEF R
  <2>1. First(R) \in R /\ \A y \in R : First(R) <= y
    BY <1>2, <1>5, FirstIs
  <2>2. ASSUME NEW y \in R PROVE ~(y < First(R))
    <3>1. y \in Nat /\ First(R) \in Nat /\ First(R) <= y
      BY <2>1, <1>2
    <3> QED BY <3>1
  <2>3. Before(First(R)) = {}
    BY <2>2
  <2>4. Cardinality(Before(First(R))) = 0
    BY <2>3, FS_EmptySet
  <2> QED BY <2>1, <2>4, <1>1, BoundsAssumption
<1>6. ASSUME NEW x \in R \ Pg PROVE Last(Pg) < x /\ Pg # {}
  <2>1. Pg # {}
    BY <1>5
  <2>2. Last(Pg) \in Pg
    <3> HIDE DEF Pg
    <3> QED BY <2>1, <1>4, LastIs
  <2>3. ASSUME x <= Last(Pg) PROVE FALSE
    <3>1. x \in Nat /\ Last(Pg) \in Nat /\ \A y \in R : y \in Nat
      BY <1>2, <1>4, <2>2
    <3>2. Before(x) \subseteq Before(Last(Pg))
      <4> HIDE DEF R, Pg
      <4>1. ASSUME NEW y \in R, y < x PROVE y < Last(Pg)
        <5>1. y \in Nat
          BY <3>1
        <5> QED BY <3>1, <2>3, <4>1, <5>1
      <4> QED BY <4>1
    <3>3. Cardinality(Before(x)) <= Cardinality(Before(Last(Pg)))
      BY <3>2, <1>3, FS_Subset
    <3>4. Cardinality(Before(Last(Pg))) < PageSize
      BY <2>2, <1>1
    <3>5. Cardinality(Before(x)) < PageSize
      <4> HIDE DEF Before, Pg, R
      <4> QED BY <3>3, <3>4, <1>3, BoundsAssumption
    <3> QED BY <3>5, <1>1
  <2>4. x \in Nat /\ Last(Pg) \in Nat
    BY <1>2, <1>4, <2>2
  <2> QED BY <2>1, <2>3, <2>4
<1>7. Pg # {} => Last(Pg) \in Pg /\ \A x \in Pg : x <= Last(Pg)
  <2> HIDE DEF Pg
  <2> QED BY <1>4, LastIs
<1>8. Pg # R => Pg # {}
  BY <1>4, <1>6
<1>9. \A x \in R : token < x
  BY <1>1, <1>2
<1> QED BY <1>2, <1>4, <1>5, <1>6, <1>7, <1>8, <1>9
-----------------------------------------------------------------------------
(* The invariant of the walk. *)

EstateTypes ==
    /\ provider \in {"aws", "gcp", "azure", "supabase"}
    /\ current \in Units /\ organizations \in 0..2
    /\ up \in [Folders -> Places] /\ place \in [Units -> Places]
    /\ moved \subseteq Units \cup Folders
    /\ changes \in 0..MaxChanges

\* What exists hangs from the root; what each provider's estate looks like.
EstateHolds ==
    /\ \A f \in Folders : up[f] # Gone => Root \in Above(f)
    /\ \A u \in Units : place[u] # Gone => Root \in Above(place[u])
    /\ provider # "gcp" => \A f \in Folders : up[f] \in {Root, Gone}
    /\ provider = "aws" => /\ organizations \in 0..1
                           /\ \A f \in Folders : up[f] = Gone
                           /\ \A u \in Units : place[u] \in {Root, Gone}
    /\ provider \in {"azure", "supabase"} =>
          \A u \in Units : place[u] \in Folders \cup {Gone}

Entries == [kind : {"units", "folders"}, at : Containers, token : Nat,
            enter : SUBSET Folders, more : BOOLEAN]

WalkTypes ==
    /\ pc \in {"idle", "organizations", "walk", "listed", "alone", "refused"}
    /\ open \in Seq(Entries) /\ (pc # "walk" => open = << >>)
    /\ allowed \subseteq Folders
    /\ found \in [Units -> IF provider = "gcp" THEN Nat ELSE 0..1]
    /\ pc \in {"idle", "organizations"} => found = NoneFound
    /\ failed \in BOOLEAN

\* A container that hangs from the root by what has not changed.
SteadyIn(c) == c \in Containers /\ Root \in Above(c) /\ Above(c) \cap moved = {}

\* The folder is still to be entered by this entry of the stack.
Pends(e, f) ==
    \/ f \in e.enter
    \/ up[f] = e.at /\ (e.kind = "units" \/ (e.more /\ e.token < f))
WaitingOn(s, c) ==
    \E f \in Above(c) \cap Folders : \E i \in DOMAIN s : Pends(s[i], f)

\* A steady container is read at most once at a time, and only when nothing
\* above it is still to be entered.
StackHolds(s) ==
    /\ \A i \in DOMAIN s :
          /\ s[i].kind = "units" => s[i].enter = {}
          /\ s[i].kind = "folders" => provider = "gcp"
          /\ provider = "azure" => s[i].token = 0 /\ s[i].at \in Folders
          /\ provider = "supabase" => s[i].at = Root
          /\ SteadyIn(s[i].at) => ~WaitingOn(s, s[i].at)
          /\ \A f \in s[i].enter : SteadyIn(f) =>
                up[f] = s[i].at /\ f <= s[i].token
    /\ \A i, j \in DOMAIN s :
          SteadyIn(s[i].at) /\ s[i].at = s[j].at => i = j

Reads(e, u) == e.kind = "units" /\ e.at = place[u] /\ e.token < u

\* The walk has still to come to u.
AheadOn(s, u) == (\E i \in DOMAIN s : Reads(s[i], u)) \/ WaitingOn(s, place[u])

FoundRight(s, n) ==
    \A u \in Units : Steady(u) =>
        /\ place[u] = Gone => n[u] = 0
        /\ place[u] # Gone /\ OnFirstPages(u) =>
              n[u] = IF AheadOn(s, u) THEN 0 ELSE 1

StackInv == StackHolds(open)
SteadyInv == pc \in {"walk", "listed"} => FoundRight(open, found)

\* What is known of an estate that has not changed.
FitInv ==
    /\ failed => pc = "refused"
    /\ pc = "alone" => organizations = 0 /\ provider = "aws"
    /\ pc = "walk" /\ provider = "aws" => organizations = 1
    /\ pc = "walk" /\ provider = "gcp" => Cardinality(Page(1..organizations, 0)) = 1
    /\ moved = {} =>
          /\ pc = "refused" => failed \/ Unscopable
          /\ pc \in {"listed", "alone"} => ~Unscopable
          /\ pc = "walk" /\ provider = "supabase" => allowed = Existing
          /\ pc = "walk" /\ provider = "azure" =>
                /\ \A u \in Units : found[u] > 0 => place[u] \in Page(Existing, 0)
                /\ \A i \in DOMAIN open : open[i].at \in Page(Existing, 0)
                /\ \A u \in Units : place[u] \in Page(Existing, 0) =>
                      \/ \E i \in DOMAIN open : open[i].at = place[u]
                      \/ \E v \in Units : place[v] = place[u] /\ found[v] > 0

WalkInv == EstateTypes /\ EstateHolds /\ WalkTypes /\ StackInv /\ SteadyInv /\ FitInv
-----------------------------------------------------------------------------
(* The invariant of the poll. *)

Statuses == [management_role_connected : BOOLEAN, scope_verified : BOOLEAN,
             no_organization : BOOLEAN, total_accounts : Nat, connected_accounts : Nat]

PollTypes ==
    /\ roles \in 0..MaxRoles /\ faults \in 0..MaxFaults
    /\ rows \in [Tenants -> Units \cup {Gone}]
    /\ trust \in [Units -> Tenants \cup {Nobody}]
    /\ page \in [step : {"none", "enter-account", "starting", "start-error", "connecting"},
                 tenant : Tenants \cup {Nobody}, shown : Statuses]
    /\ poll \in [pc : {"idle", "assume", "walk", "probe"}, left : SUBSET Units,
                 asking : SUBSET Units, counting : SUBSET Units, slots : Nat,
                 connected : Nat, throttled : SUBSET Units]

\* Where the page, the request and the walk are.
PollPlaces ==
    /\ page.step = "connecting" =>
          page.tenant \in Tenants /\ rows[page.tenant] \in Units
    /\ page.step = "starting" => \E t \in Tenants : rows[t] = Gone
    /\ poll.pc # "idle" => page.step = "connecting"
    /\ page.step # "none" /\ pc \in {"organizations", "walk"} => poll.pc = "walk"
    /\ poll.pc = "assume" => pc = "idle"
    /\ poll.pc = "probe" => pc = "listed"

\* Each probed account is counted at most once; the count has all that were
\* connected all the while and answered, and only those that ever were.
Members == Listed \ {current}
Through == Members \ (poll.left \cup poll.asking \cup poll.counting)
CountInv ==
    /\ Cardinality(poll.asking \cup poll.counting) + poll.slots = Fanout
    /\ poll.asking \cap poll.counting = {}
    /\ poll.left \cap (poll.asking \cup poll.counting) = {}
    /\ poll.pc # "probe" =>
          poll.left \cup poll.asking \cup poll.counting = {} /\ poll.connected = 0
    /\ poll.pc = "probe" =>
          /\ poll.left \cup poll.asking \cup poll.counting \subseteq Members
          /\ poll.counting \subseteq Perhaps
          /\ \E C \in SUBSET (Through \cap Perhaps) :
                /\ poll.connected = 1 + Cardinality(C)
                /\ Surely \cap Through \subseteq C

PollInv == PollTypes /\ PollPlaces /\ CountInv
-----------------------------------------------------------------------------
(* Steady containers. *)

LEMMA Finite ==
    /\ Units \in SUBSET (Nat \ {0}) /\ Folders \in SUBSET (Nat \ {0})
    /\ IsFiniteSet(Units) /\ IsFiniteSet(Folders) /\ Units # {}
    /\ Containers \in SUBSET Nat
<1>1. Units \in SUBSET (Units \cup Folders) /\ Folders \in SUBSET (Units \cup Folders)
  OBVIOUS
<1>2. IsFiniteSet(Units) /\ IsFiniteSet(Folders)
  BY <1>1, NumbersAssumption, FS_Subset
<1> QED BY <1>2, NumbersAssumption DEF Containers, Root

LEMMA EntryIs ==
    ASSUME NEW s \in Seq(Entries), NEW i \in DOMAIN s
    PROVE  /\ s[i] \in Entries /\ s[i].kind \in {"units", "folders"}
           /\ s[i].at \in Containers /\ s[i].token \in Nat
           /\ s[i].enter \in SUBSET Folders /\ s[i].more \in BOOLEAN
<1>1. s[i] \in Entries
  OBVIOUS
<1> QED BY <1>1 DEF Entries

LEMMA SteadyAbove ==
    ASSUME EstateTypes, NEW c, SteadyIn(c), NEW f \in Above(c)
    PROVE  SteadyIn(f) /\ Above(f) \subseteq Above(c)
<1>1. up \in [Folders -> Places] /\ c \in Places
  BY DEF EstateTypes, SteadyIn, Places
<1>2. f \in Places /\ Above(f) \subseteq Above(c)
  BY <1>1, UpwardMonotone, AboveIs
<1>3. Root \in Above(f) /\ f # Gone
  BY <1>1, UpwardRooted, AboveIs DEF SteadyIn
<1> QED BY <1>2, <1>3 DEF SteadyIn, Places

LEMMA SteadyFolder ==
    ASSUME EstateTypes, NEW f \in Folders, SteadyIn(f)
    PROVE  /\ SteadyIn(up[f]) /\ up[f] \in Above(f) /\ f \in Above(f)
           /\ Above(f) = {f} \cup Above(up[f])
           /\ f \notin Above(up[f]) /\ f \notin moved
<1>1. up \in [Folders -> Places] /\ f \in Places
  BY DEF EstateTypes, SteadyIn, Places
<1>2. f \in Above(f) /\ up[f] \in Above(f) /\ Above(f) = {f} \cup Above(up[f])
  BY <1>1, UpwardIs, UpwardStep, AboveIs
<1>3. SteadyIn(up[f])
  BY <1>2, SteadyAbove
<1>4. f \notin Above(up[f])
  BY <1>1, UpwardAcyclic, AboveIs DEF SteadyIn
<1> QED BY <1>2, <1>3, <1>4 DEF SteadyIn

LEMMA SteadyUnit ==
    ASSUME EstateTypes, EstateHolds, NEW u \in Units, Steady(u), place[u] # Gone
    PROVE  SteadyIn(place[u])
BY DEF EstateTypes, EstateHolds, Steady, SteadyIn, Places

\* What is above c in another entry's list has an entry of its own to be found
\* through: the child of f above c.
LEMMA SteadyChild ==
    ASSUME EstateTypes, NEW c, SteadyIn(c), NEW f \in Above(c), f # c
    PROVE  \E k \in Above(c) \cap Folders : up[k] = f
<1>1. up \in [Folders -> Places] /\ c \in Places
  BY DEF EstateTypes, SteadyIn, Places
<1> QED BY <1>1, UpwardChild, AboveIs

LEMMA AboveRoot == EstateTypes => Above(Root) = {Root} /\ Above(Gone) = {Gone}
BY UpwardStep, AboveIs DEF EstateTypes
-----------------------------------------------------------------------------
(* The estate moves. *)

\* Whatever is steady afterwards was so before, and nothing about it changed.
LEMMA SteadyStill ==
    ASSUME EstateTypes, EstateTypes', moved \subseteq moved',
           \A f \in Folders : up'[f] = up[f] \/ f \in moved'
    PROVE  \A c : SteadyIn(c)' =>
              /\ SteadyIn(c) /\ Above(c)' = Above(c)
              /\ \A f \in Above(c) \cap Folders : up'[f] = up[f]
<1> SUFFICES ASSUME NEW c, SteadyIn(c)'
             PROVE  /\ SteadyIn(c) /\ Above(c)' = Above(c)
                    /\ \A f \in Above(c) \cap Folders : up'[f] = up[f]
  OBVIOUS
<1>1. up \in [Folders -> Places] /\ up' \in [Folders -> Places] /\ c \in Places
  BY DEF EstateTypes, SteadyIn, Places
<1>2. Above(c) = Upward(up, c) /\ Above(c)' = Upward(up', c)
  BY DEF Above, Upward, FoldersUp, ClosedUp
<1>3. c \in Containers /\ Root \in Upward(up', c) /\ Upward(up', c) \cap moved' = {}
  BY <1>2 DEF SteadyIn
<1>4. \A f \in Upward(up', c) \cap Folders : up[f] = up'[f]
  BY <1>3
<1>5. Upward(up, c) = Upward(up', c)
  BY <1>1, <1>4, UpwardFrame
<1> QED BY <1>2, <1>3, <1>4, <1>5 DEF SteadyIn

LEMMA PendsStill ==
    ASSUME EstateTypes, EstateTypes', moved \subseteq moved',
           \A f \in Folders : up'[f] = up[f] \/ f \in moved',
           NEW s, NEW c, SteadyIn(c)'
    PROVE  WaitingOn(s, c)' <=> WaitingOn(s, c)
<1>1. /\ SteadyIn(c) /\ Above(c)' = Above(c)
      /\ \A f \in Above(c) \cap Folders : up'[f] = up[f]
  BY SteadyStill
<1>2. \A f \in Above(c) \cap Folders : \A i \in DOMAIN s :
          Pends(s[i], f)' <=> Pends(s[i], f)
  BY <1>1 DEF Pends
<1> QED BY <1>1, <1>2 DEF WaitingOn

LEMMA StackStill ==
    ASSUME EstateTypes, EstateTypes', moved \subseteq moved', provider' = provider,
           \A f \in Folders : up'[f] = up[f] \/ f \in moved',
           NEW s \in Seq(Entries), StackHolds(s)
    PROVE  StackHolds(s)'
<1>1. \A c : SteadyIn(c)' =>
          /\ SteadyIn(c) /\ Above(c)' = Above(c)
          /\ \A f \in Above(c) \cap Folders : up'[f] = up[f]
  BY SteadyStill
<1>2. \A c : SteadyIn(c)' => (WaitingOn(s, c)' <=> WaitingOn(s, c))
  BY PendsStill
<1>3. ASSUME NEW i \in DOMAIN s, NEW f \in s[i].enter, SteadyIn(f)'
      PROVE  up'[f] = s[i].at /\ f <= s[i].token
  <2>1. SteadyIn(f) /\ f \in Folders
    <3>1. s[i].enter \in SUBSET Folders
      BY EntryIs
    <3> QED BY <1>1, <1>3, <3>1
  <2>2. f \in Above(f)
    BY <2>1, SteadyFolder
  <2>3. up'[f] = up[f]
    BY <1>1, <1>3, <2>1, <2>2
  <2> QED BY <2>1, <2>3 DEF StackHolds
<1>4. \A i \in DOMAIN s : SteadyIn(s[i].at)' => ~WaitingOn(s, s[i].at)'
  BY <1>1, <1>2 DEF StackHolds
<1>5. \A i, j \in DOMAIN s : SteadyIn(s[i].at)' /\ s[i].at = s[j].at => i = j
  BY <1>1 DEF StackHolds
<1> QED BY <1>3, <1>4, <1>5 DEF StackHolds

LEMMA FoundStill ==
    ASSUME EstateTypes, EstateTypes', EstateHolds, EstateHolds', moved \subseteq moved',
           provider' = provider,
           \A f \in Folders : up'[f] = up[f] \/ f \in moved',
           \A u \in Units : place'[u] = place[u] \/ u \in moved',
           NEW s \in Seq(Entries), NEW n, FoundRight(s, n)
    PROVE  FoundRight(s, n)'
<1> SUFFICES ASSUME NEW u \in Units, Steady(u)'
             PROVE  /\ place'[u] = Gone => n[u] = 0
                    /\ place'[u] # Gone /\ OnFirstPages(u)' =>
                          n[u] = IF AheadOn(s, u)' THEN 0 ELSE 1
  BY DEF FoundRight
<1>1. place'[u] = place[u] /\ u \notin moved'
  BY DEF Steady
<1>2. PICK c : c = place'[u]
  OBVIOUS
<1>3. (Above(place[u]))' = Above(c)'
  BY <1>2 DEF Above
<1>4. Above(c)' \cap moved' = {} /\ c \in Places
  BY <1>2, <1>3 DEF Steady, EstateTypes
<1>5. CASE c = Gone
  <2>1. Above(place[u]) = {Gone} /\ Above(c)' = {Gone}
    <3>1. up' \in [Folders -> Places]
      BY DEF EstateTypes
    <3>2. Above(c)' = Upward(up', Gone)
      BY <1>5 DEF Above, Upward, FoldersUp, ClosedUp
    <3> QED BY <1>1, <1>2, <1>5, <3>1, <3>2, UpwardStep, AboveRoot
  <2>2. Steady(u)
    BY <1>1, <1>4, <2>1 DEF Steady
  <2> QED BY <1>1, <1>2, <1>5, <2>2 DEF FoundRight
<1>6. CASE c # Gone
  <2>1. SteadyIn(c)'
    <3>1. Root \in Above(c)'
      BY <1>2, <1>3, <1>6 DEF EstateHolds
    <3> QED BY <1>4, <1>6, <3>1 DEF SteadyIn, Places
  <2>2. SteadyIn(c) /\ Above(c)' = Above(c)
    BY <2>1, SteadyStill
  <2>3. WaitingOn(s, c)' <=> WaitingOn(s, c)
    BY <2>1, PendsStill
  <2>4. place[u] = c /\ Steady(u)
    BY <1>1, <1>2, <2>2 DEF Steady, SteadyIn
  <2>5. (WaitingOn(s, place[u]))' <=> WaitingOn(s, c)'
    BY <1>2, <1>3 DEF WaitingOn
  <2>6. AheadOn(s, u)' <=> AheadOn(s, u)
    BY <1>1, <2>3, <2>4, <2>5 DEF AheadOn, Reads
  <2>7. OnFirstPages(u)' => OnFirstPages(u)
    BY <1>1 DEF OnFirstPages
  <2> QED BY <1>1, <1>2, <1>6, <2>4, <2>6, <2>7 DEF FoundRight
<1> QED BY <1>5, <1>6
-----------------------------------------------------------------------------
(* The stack moves: its head is read on, done with, or a folder entered. *)

\* The head changes and still has the same folders to enter.
LEMMA HeadReadOn ==
    ASSUME EstateTypes, NEW s \in Seq(Entries), s # << >>, StackHolds(s),
           NEW e \in Entries, e.at = s[1].at,
           e.kind = "units" => e.enter = {},
           e.kind = "folders" => provider = "gcp",
           provider = "azure" => e.token = 0,
           \A f \in e.enter : SteadyIn(f) => up[f] = e.at /\ f <= e.token,
           \A f \in Folders : SteadyIn(f) => (Pends(e, f) <=> Pends(s[1], f)),
           NEW t, t = [s EXCEPT ![1] = e]
    PROVE  /\ t \in Seq(Entries) /\ StackHolds(t)
           /\ \A c : SteadyIn(c) => (WaitingOn(t, c) <=> WaitingOn(s, c))
<1>1. /\ t \in Seq(Entries) /\ DOMAIN t = DOMAIN s /\ 1 \in DOMAIN s
      /\ t[1] = e /\ \A i \in DOMAIN s : i # 1 => t[i] = s[i]
  OBVIOUS
<1>2. ASSUME NEW c, SteadyIn(c)
      PROVE  WaitingOn(t, c) <=> WaitingOn(s, c)
  <2>1. \A f \in Above(c) \cap Folders : \A i \in DOMAIN s :
            Pends(t[i], f) <=> Pends(s[i], f)
    BY <1>1, <1>2, SteadyAbove
  <2> QED BY <1>1, <2>1 DEF WaitingOn
<1>3. \A i \in DOMAIN s : t[i].at = s[i].at
  BY <1>1
<1>4. ASSUME NEW i \in DOMAIN t
      PROVE  /\ t[i].kind = "units" => t[i].enter = {}
             /\ t[i].kind = "folders" => provider = "gcp"
             /\ provider = "azure" => t[i].token = 0 /\ t[i].at \in Folders
             /\ provider = "supabase" => t[i].at = Root
             /\ \A f \in t[i].enter : SteadyIn(f) => up[f] = t[i].at /\ f <= t[i].token
  <2>1. CASE i = 1
    BY <1>1, <2>1 DEF StackHolds
  <2>2. CASE i # 1
    BY <1>1, <2>2 DEF StackHolds
  <2> QED BY <2>1, <2>2
<1>5. \A i \in DOMAIN t : SteadyIn(t[i].at) => ~WaitingOn(t, t[i].at)
  BY <1>1, <1>2, <1>3 DEF StackHolds
<1>6. \A i, j \in DOMAIN t : SteadyIn(t[i].at) /\ t[i].at = t[j].at => i = j
  BY <1>1, <1>3 DEF StackHolds
<1> QED BY <1>1, <1>2, <1>4, <1>5, <1>6 DEF StackHolds

LEMMA TailIs ==
    ASSUME NEW s \in Seq(Entries), s # << >>
    PROVE  /\ Tail(s) \in Seq(Entries)
           /\ \A i \in DOMAIN Tail(s) : i + 1 \in DOMAIN s /\ Tail(s)[i] = s[i + 1]
           /\ \A i \in DOMAIN s : i # 1 =>
                 i - 1 \in DOMAIN Tail(s) /\ Tail(s)[i - 1] = s[i]
           /\ 1 \in DOMAIN s
<1>1. Len(s) \in Nat \ {0} /\ DOMAIN s = 1 .. Len(s)
  OBVIOUS
<1>2. /\ Tail(s) \in Seq(Entries) /\ Len(Tail(s)) = Len(s) - 1
      /\ \A i \in 1 .. Len(Tail(s)) : Tail(s)[i] = s[i + 1]
  OBVIOUS
<1>3. DOMAIN Tail(s) = 1 .. Len(s) - 1
  BY <1>2
<1> HIDE DEF Entries
<1>4. ASSUME NEW i \in DOMAIN Tail(s)
      PROVE  i + 1 \in DOMAIN s /\ Tail(s)[i] = s[i + 1]
  BY <1>1, <1>2, <1>3
<1>5. ASSUME NEW i \in DOMAIN s, i # 1
      PROVE  i - 1 \in DOMAIN Tail(s) /\ Tail(s)[i - 1] = s[i]
  <2>0. i \in 1 .. Len(s) /\ Len(s) \in Nat
    BY <1>1
  <2>1. i \in Nat /\ i - 1 \in 1 .. Len(s) - 1 /\ (i - 1) + 1 = i
    BY <1>5, <2>0
  <2>2. Tail(s)[i - 1] = s[(i - 1) + 1]
    BY <1>2, <2>1
  <2> QED BY <1>3, <2>1, <2>2
<1> QED BY <1>1, <1>2, <1>4, <1>5

\* The head has no folder to enter any more and is left.
LEMMA HeadDone ==
    ASSUME EstateTypes, NEW s \in Seq(Entries), s # << >>, StackHolds(s),
           \A f \in Folders : SteadyIn(f) => ~Pends(s[1], f)
    PROVE  /\ Tail(s) \in Seq(Entries) /\ StackHolds(Tail(s))
           /\ \A c : SteadyIn(c) => (WaitingOn(Tail(s), c) <=> WaitingOn(s, c))
<1> DEFINE t == Tail(s)
<1>1. /\ t \in Seq(Entries) /\ 1 \in DOMAIN s
      /\ \A i \in DOMAIN t : i + 1 \in DOMAIN s /\ t[i] = s[i + 1]
      /\ \A i \in DOMAIN s : i # 1 => i - 1 \in DOMAIN t /\ t[i - 1] = s[i]
  BY TailIs
<1>0. \A i \in DOMAIN t : i \in Nat
  BY <1>1
<1> HIDE DEF t
<1>2. ASSUME NEW c, SteadyIn(c)
      PROVE  WaitingOn(t, c) <=> WaitingOn(s, c)
  <2>1. \A f \in Above(c) \cap Folders : ~Pends(s[1], f)
    BY <1>2, SteadyAbove
  <2>2. ASSUME WaitingOn(s, c) PROVE WaitingOn(t, c)
    <3>1. PICK f \in Above(c) \cap Folders, i \in DOMAIN s : Pends(s[i], f)
      BY <2>2 DEF WaitingOn
    <3>2. i # 1
      BY <2>1, <3>1
    <3> QED BY <1>1, <3>1, <3>2 DEF WaitingOn
  <2>3. ASSUME WaitingOn(t, c) PROVE WaitingOn(s, c)
    BY <1>1, <2>3 DEF WaitingOn
  <2> QED BY <2>2, <2>3
<1>3. \A i, j \in DOMAIN t : SteadyIn(t[i].at) /\ t[i].at = t[j].at => i = j
  <2> SUFFICES ASSUME NEW i \in DOMAIN t, NEW j \in DOMAIN t,
                      SteadyIn(t[i].at), t[i].at = t[j].at
               PROVE  i = j
    OBVIOUS
  <2>1. i + 1 = j + 1
    BY <1>1 DEF StackHolds
  <2> QED BY <2>1, <1>0
<1>4. \A i \in DOMAIN t : SteadyIn(t[i].at) => ~WaitingOn(t, t[i].at)
  BY <1>1, <1>2 DEF StackHolds
<1>5. StackHolds(t)
  BY <1>1, <1>3, <1>4 DEF StackHolds
<1> QED BY <1>1, <1>2, <1>5 DEF t

\* A folder of the head is entered: what was waiting for it waits for its list.
LEMMA EntryExcept ==
    ASSUME NEW e \in Entries, NEW F
    PROVE  [e EXCEPT !.enter = F] =
               [kind |-> e.kind, at |-> e.at, token |-> e.token, enter |-> F,
                more |-> e.more]
<1>1. PICK k, a, n, E, m :
          e = [kind |-> k, at |-> a, token |-> n, enter |-> E, more |-> m]
  BY DEF Entries
<1> QED BY <1>1

Entering(s) ==
    <<ListOf("units", First(s[1].enter))>> \o
        [s EXCEPT ![1].enter = @ \ {First(s[1].enter)}]

LEMMA EnteredIs ==
    ASSUME NEW s \in Seq(Entries), s # << >>, s[1].enter # {},
           NEW f, f = First(s[1].enter), NEW t, t = Entering(s)
    PROVE  /\ f \in s[1].enter /\ f \in Folders /\ t \in Seq(Entries)
           /\ 1 \in DOMAIN t /\ 2 \in DOMAIN t /\ 1 \in DOMAIN s
           /\ t[1].kind = "units" /\ t[1].at = f /\ t[1].token = 0 /\ t[1].enter = {}
           /\ t[2].kind = s[1].kind /\ t[2].at = s[1].at /\ t[2].token = s[1].token
           /\ t[2].more = s[1].more /\ t[2].enter = s[1].enter \ {f}
           /\ \A i \in DOMAIN s : i \in Nat /\ i + 1 \in DOMAIN t /\ (i # 1 => t[i + 1] = s[i])
           /\ \A j \in DOMAIN t : j # 1 => j - 1 \in DOMAIN s /\ (j - 1) + 1 = j
<1>1. /\ Len(s) \in Nat \ {0} /\ DOMAIN s = 1 .. Len(s) /\ 1 \in DOMAIN s
  OBVIOUS
<1>2. s[1].enter \in SUBSET Nat
  BY <1>1, EntryIs, Finite
<1>3. f \in s[1].enter /\ f \in Folders
  BY <1>1, <1>2, EntryIs, FirstIs
<1> DEFINE head == [kind |-> s[1].kind, at |-> s[1].at, token |-> s[1].token,
                    enter |-> s[1].enter \ {f}, more |-> s[1].more]
           rest == [s EXCEPT ![1] = head]
           new == [kind |-> "units", at |-> f, token |-> 0, enter |-> {}, more |-> TRUE]
<1>4. head \in Entries /\ new \in Entries
  BY <1>1, <1>3, EntryIs DEF Entries, Containers
<1>5. [s EXCEPT ![1].enter = @ \ {f}] = rest
  <2>1. s[1] \in Entries
    BY <1>1
  <2>3. [s[1] EXCEPT !.enter = @ \ {f}] = head
    BY <2>1, EntryExcept
  <2> QED BY <2>3
<1>6. ListOf("units", f) = new
  BY DEF ListOf
<1> HIDE DEF head, new
<1>7. /\ rest \in Seq(Entries) /\ Len(rest) = Len(s) /\ rest[1] = head
      /\ \A i \in DOMAIN s : i # 1 => rest[i] = s[i]
  BY <1>1, <1>4
<1> HIDE DEF rest
<1>8. t = <<new>> \o rest
  BY <1>5, <1>6 DEF Entering
<1> HIDE DEF Entries
<1>16. <<new>> \in Seq(Entries) /\ Len(<<new>>) = 1 /\ <<new>>[1] = new
  BY <1>4
<1>17. t \in Seq(Entries) /\ Len(t) = 1 + Len(rest)
  BY <1>7, <1>8, <1>16
<1>18. \A i \in 1 .. 1 + Len(rest) : t[i] = IF i <= 1 THEN new ELSE rest[i - 1]
  BY <1>7, <1>8, <1>16
<1>9. /\ t \in Seq(Entries) /\ Len(t) = Len(s) + 1 /\ t[1] = new
      /\ \A i \in 1 .. Len(s) : t[i + 1] = rest[i]
  <2>1. Len(s) \in Nat /\ Len(rest) = Len(s)
    BY <1>1, <1>7
  <2>2. ASSUME NEW i \in 1 .. Len(s) PROVE t[i + 1] = rest[i]
    <3>1. i + 1 \in 1 .. 1 + Len(rest) /\ ~(i + 1 <= 1) /\ (i + 1) - 1 = i
      BY <2>1
    <3> QED BY <1>18, <3>1
  <2>3. t[1] = new
    <3>1. 1 \in 1 .. 1 + Len(rest) /\ 1 <= 1
      BY <2>1
    <3> QED BY <1>18, <3>1
  <2> QED BY <1>17, <2>1, <2>2, <2>3
<1>10. DOMAIN t = 1 .. Len(s) + 1
  BY <1>9
<1>11. t[2] = head
  BY <1>1, <1>7, <1>9
<1>12. ASSUME NEW j \in DOMAIN t, j # 1
       PROVE  j - 1 \in DOMAIN s /\ (j - 1) + 1 = j
  <2>1. j \in 1 .. Len(s) + 1 /\ Len(s) \in Nat
    BY <1>1, <1>10
  <2> QED BY <1>1, <1>12, <2>1
<1>13. ASSUME NEW i \in DOMAIN s
       PROVE  i \in Nat /\ i + 1 \in DOMAIN t /\ (i # 1 => t[i + 1] = s[i])
  <2>1. i \in 1 .. Len(s) /\ Len(s) \in Nat
    BY <1>1
  <2>2. i \in Nat /\ i + 1 \in 1 .. Len(s) + 1
    BY <2>1
  <2>3. t[i + 1] = rest[i]
    BY <1>9, <2>1
  <2> QED BY <1>7, <1>10, <2>2, <2>3
<1>14. 1 \in DOMAIN t /\ 2 \in DOMAIN t
  <2>1. Len(s) \in Nat /\ 1 <= Len(s)
    BY <1>1
  <2> QED BY <1>10, <2>1
<1>15. /\ t[1].kind = "units" /\ t[1].at = f /\ t[1].token = 0 /\ t[1].enter = {}
       /\ t[2].kind = s[1].kind /\ t[2].at = s[1].at /\ t[2].token = s[1].token
       /\ t[2].more = s[1].more /\ t[2].enter = s[1].enter \ {f}
  BY <1>9, <1>11 DEF head, new
<1> QED BY <1>1, <1>3, <1>9, <1>12, <1>13, <1>14, <1>15

LEMMA Entered ==
    ASSUME EstateTypes, EstateHolds, NEW s \in Seq(Entries), s # << >>, StackHolds(s),
           s[1].kind = "folders", s[1].enter # {},
           NEW f, f = First(s[1].enter), NEW t, t = Entering(s)
    PROVE  /\ t \in Seq(Entries) /\ StackHolds(t)
           /\ \A u \in Units : Steady(u) /\ place[u] # Gone =>
                 (AheadOn(t, u) <=> AheadOn(s, u))
<1>1. /\ f \in s[1].enter /\ f \in Folders /\ t \in Seq(Entries)
      /\ 1 \in DOMAIN t /\ 2 \in DOMAIN t /\ 1 \in DOMAIN s
      /\ t[1].kind = "units" /\ t[1].at = f /\ t[1].token = 0 /\ t[1].enter = {}
      /\ t[2].kind = s[1].kind /\ t[2].at = s[1].at /\ t[2].token = s[1].token
      /\ t[2].more = s[1].more /\ t[2].enter = s[1].enter \ {f}
      /\ \A i \in DOMAIN s : i \in Nat /\ i + 1 \in DOMAIN t /\ (i # 1 => t[i + 1] = s[i])
      /\ \A j \in DOMAIN t : j # 1 => j - 1 \in DOMAIN s /\ (j - 1) + 1 = j
  BY ONLY EnteredIs, s \in Seq(Entries), s # << >>, s[1].enter # {},
          f = First(s[1].enter), t = Entering(s)
<1>2. provider = "gcp" /\ Pends(s[1], f)
  BY <1>1 DEF StackHolds, Pends
<1>3. \A j \in DOMAIN t : j = 1 \/ j = 2 \/
          (j - 1 \in DOMAIN s /\ j - 1 # 1 /\ t[j] = s[j - 1])
  <2> SUFFICES ASSUME NEW j \in DOMAIN t, j # 1, j # 2
               PROVE  j - 1 \in DOMAIN s /\ j - 1 # 1 /\ t[j] = s[j - 1]
    OBVIOUS
  <2>1. j - 1 \in DOMAIN s /\ (j - 1) + 1 = j
    BY <1>1
  <2>2. j - 1 # 1
    BY <2>1
  <2>3. t[(j - 1) + 1] = s[j - 1]
    BY <1>1, <2>1, <2>2
  <2> QED BY <2>1, <2>2, <2>3
\* Who has an entry on the new stack, and who is waited for.
<1>4. ASSUME NEW j \in DOMAIN t, j # 1
      PROVE  j - 1 \in DOMAIN s /\ t[j].at = s[j - 1].at
  <2>1. CASE j = 2
    <3>1. 1 \in DOMAIN s /\ t[2].at = s[1].at /\ 2 - 1 = 1
      BY <1>1
    <3> QED BY <2>1, <3>1
  <2> QED BY <1>3, <1>4, <2>1
<1>5. ASSUME NEW j \in DOMAIN t, NEW g \in Folders, Pends(t[j], g)
      PROVE  \/ j = 1 /\ up[g] = f
             \/ j # 1 /\ Pends(s[j - 1], g)
  <2>1. CASE j = 1
    BY <1>1, <1>5, <2>1 DEF Pends
  <2>2. CASE j = 2
    BY <1>1, <1>5, <2>2 DEF Pends
  <2>3. CASE j # 1 /\ j # 2
    BY <1>3, <1>5, <2>3
  <2> QED BY <2>1, <2>2, <2>3
<1>6. ASSUME NEW c, SteadyIn(c), WaitingOn(t, c) PROVE WaitingOn(s, c)
  <2>1. PICK g \in Above(c) \cap Folders, j \in DOMAIN t : Pends(t[j], g)
    BY <1>6 DEF WaitingOn
  <2>2. CASE j = 1 /\ up[g] = f
    <3>1. SteadyIn(g) /\ Above(g) \subseteq Above(c)
      BY <1>6, SteadyAbove
    <3>2. f \in Above(c)
      BY <2>2, <3>1, SteadyFolder
    <3> QED BY <1>1, <1>2, <3>2 DEF WaitingOn
  <2>3. CASE j # 1 /\ Pends(s[j - 1], g)
    BY <1>4, <2>1, <2>3 DEF WaitingOn
  <2> QED BY <1>5, <2>1, <2>2, <2>3
<1>7. ASSUME SteadyIn(f) PROVE ~WaitingOn(t, f)
  <2> SUFFICES ASSUME WaitingOn(t, f) PROVE FALSE
    OBVIOUS
  <2> DEFINE a == s[1].at
  <2>1. up[f] = a /\ f <= s[1].token
    BY <1>1, <1>7 DEF StackHolds
  <2>2. /\ SteadyIn(a) /\ Above(f) = {f} \cup Above(a) /\ f \notin Above(a)
        /\ f \in Above(f)
    BY <1>1, <1>7, <2>1, SteadyFolder
  <2>3. ~WaitingOn(s, a)
    BY <1>1, <2>2 DEF StackHolds
  <2>4. PICK g \in Above(f) \cap Folders, j \in DOMAIN t : Pends(t[j], g)
    BY DEF WaitingOn
  <2>5. CASE g \in Above(a)
    <3>1. ~WaitingOn(t, a)
      BY <1>6, <2>2, <2>3
    <3> QED BY <2>4, <2>5, <3>1 DEF WaitingOn
  <2>6. CASE g = f
    <3>1. j # 1
      <4>1. f # a
        <5>1. a \in Above(a)
          BY <1>1, <1>7, <2>1, <2>2, UpwardIs, AboveIs DEF EstateTypes, SteadyIn, Places
        <5> QED BY <2>2, <5>1
      <4> QED BY <1>5, <2>1, <2>4, <2>6, <4>1
    <3>2. j # 2
      <4>1. f \in Nat /\ s[1].token \in Nat /\ ~(s[1].token < f)
        BY <1>1, <2>1, Finite, EntryIs
      <4>2. ~Pends(t[2], f)
        BY <1>1, <4>1 DEF Pends
      <4> QED BY <2>4, <2>6, <4>2
    <3>3. j - 1 \in DOMAIN s /\ j - 1 # 1 /\ Pends(s[j - 1], f)
      BY <1>3, <2>4, <2>6, <3>1, <3>2
    <3>4. s[j - 1].at = a
      BY <1>7, <2>1, <3>3 DEF StackHolds, Pends
    <3> QED BY <1>1, <2>2, <3>3, <3>4 DEF StackHolds
  <2> QED BY <2>2, <2>4, <2>5, <2>6
<1>8. ASSUME NEW j \in DOMAIN t, SteadyIn(t[j].at) PROVE ~WaitingOn(t, t[j].at)
  <2>1. CASE j = 1
    BY <1>1, <1>7, <1>8, <2>1
  <2>2. CASE j # 1
    BY <1>4, <1>6, <1>8, <2>2 DEF StackHolds
  <2> QED BY <2>1, <2>2
<1>9. ASSUME NEW j \in DOMAIN s, SteadyIn(f) PROVE s[j].at # f
  <2>1. f \in Above(f)
    BY <1>1, <1>9, SteadyFolder
  <2>2. WaitingOn(s, f)
    BY <1>1, <1>2, <2>1 DEF WaitingOn
  <2> QED BY <1>9, <2>2 DEF StackHolds
<1>10. ASSUME NEW i \in DOMAIN t, NEW j \in DOMAIN t, SteadyIn(t[i].at), t[i].at = t[j].at
       PROVE  i = j
  <2>1. CASE i = 1 \/ j = 1
    BY <1>1, <1>4, <1>9, <1>10, <2>1
  <2>2. CASE i # 1 /\ j # 1
    <3>1. i - 1 \in DOMAIN s /\ j - 1 \in DOMAIN s /\ (i - 1) + 1 = i /\ (j - 1) + 1 = j
      BY <1>1, <2>2
    <3>2. i - 1 = j - 1
      BY <1>4, <1>10, <2>2, <3>1 DEF StackHolds
    <3> QED BY <3>1, <3>2
  <2> QED BY <2>1, <2>2
<1>11. ASSUME NEW j \in DOMAIN t
       PROVE  /\ t[j].kind = "units" => t[j].enter = {}
              /\ \A g \in t[j].enter : SteadyIn(g) => up[g] = t[j].at /\ g <= t[j].token
  <2>1. CASE j = 1
    BY <1>1, <2>1
  <2>2. CASE j = 2
    <3>1. t[2].kind = "folders" /\ t[2].enter \subseteq s[1].enter
      BY <1>1
    <3>2. \A g \in s[1].enter : SteadyIn(g) => up[g] = s[1].at /\ g <= s[1].token
      BY <1>1 DEF StackHolds
    <3> QED BY <1>1, <2>2, <3>1, <3>2
  <2>3. CASE j # 1 /\ j # 2
    BY <1>3, <2>3 DEF StackHolds
  <2> QED BY <2>1, <2>2, <2>3
<1>12. StackHolds(t)
  <2>1. \A j \in DOMAIN t : SteadyIn(t[j].at) => ~WaitingOn(t, t[j].at)
    BY <1>8
  <2>2. \A i, j \in DOMAIN t : SteadyIn(t[i].at) /\ t[i].at = t[j].at => i = j
    BY <1>10
  <2> QED BY <1>2, <1>11, <2>1, <2>2 DEF StackHolds
<1>13. ASSUME NEW u \in Units, Steady(u), place[u] # Gone, AheadOn(t, u)
       PROVE  AheadOn(s, u)
  <2>1. SteadyIn(place[u])
    BY <1>13, SteadyUnit
  <2>2. CASE WaitingOn(t, place[u])
    BY <1>6, <2>1, <2>2 DEF AheadOn
  <2>3. ASSUME NEW j \in DOMAIN t, Reads(t[j], u) PROVE AheadOn(s, u)
    <3>1. CASE j = 1
      <4>1. place[u] = f /\ f \in Above(f)
        BY <1>1, <2>1, <2>3, <3>1, SteadyFolder DEF Reads
      <4> QED BY <1>1, <1>2, <4>1 DEF AheadOn, WaitingOn
    <3>2. CASE j # 1
      <4>1. j # 2
        BY <1>1, <2>3 DEF Reads
      <4> QED BY <1>3, <2>3, <3>2, <4>1 DEF AheadOn
    <3> QED BY <3>1, <3>2
  <2> QED BY <1>13, <2>2, <2>3 DEF AheadOn
<1>14. ASSUME NEW u \in Units, Steady(u), place[u] # Gone, AheadOn(s, u)
       PROVE  AheadOn(t, u)
  <2>1. SteadyIn(place[u])
    BY <1>14, SteadyUnit
  <2>2. ASSUME NEW i \in DOMAIN s, Reads(s[i], u) PROVE AheadOn(t, u)
    <3>1. i # 1
      BY <2>2 DEF Reads
    <3> QED BY <1>1, <2>2, <3>1 DEF AheadOn
  <2>3. ASSUME WaitingOn(s, place[u]) PROVE AheadOn(t, u)
    <3>1. PICK g \in Above(place[u]) \cap Folders, i \in DOMAIN s : Pends(s[i], g)
      BY <2>3 DEF WaitingOn
    <3>2. CASE i # 1
      <4>1. Pends(t[i + 1], g) /\ i + 1 \in DOMAIN t
        BY <1>1, <3>1, <3>2
      <4> QED BY <3>1, <4>1 DEF AheadOn, WaitingOn
    <3>3. CASE i = 1 /\ g # f
      <4>1. Pends(t[2], g)
        BY <1>1, <3>1, <3>3 DEF Pends
      <4> QED BY <1>1, <3>1, <4>1 DEF AheadOn, WaitingOn
    <3>4. CASE g = f /\ place[u] = f
      <4>1. u \in Nat /\ 0 < u
        BY Finite
      <4> QED BY <1>1, <3>4, <4>1 DEF AheadOn, Reads
    <3>5. CASE g = f /\ place[u] # f
      <4>1. PICK k \in Above(place[u]) \cap Folders : up[k] = f
        BY <2>1, <3>1, <3>5, SteadyChild
      <4>2. Pends(t[1], k)
        BY <1>1, <4>1 DEF Pends
      <4> QED BY <1>1, <4>1, <4>2 DEF AheadOn, WaitingOn
    <3> QED BY <3>2, <3>3, <3>4, <3>5
  <2> QED BY <1>14, <2>2, <2>3 DEF AheadOn
<1> QED BY <1>1, <1>12, <1>13, <1>14
-----------------------------------------------------------------------------
(* The walk begins. *)

LEMMA EstateSame ==
    ASSUME UNCHANGED estate_vars
    PROVE  /\ EstateTypes => EstateTypes'
           /\ EstateHolds => EstateHolds'
           /\ \A s : StackHolds(s)' <=> StackHolds(s)
           /\ \A s, n : FoundRight(s, n)' <=> FoundRight(s, n)
           /\ Unscopable' <=> Unscopable
           /\ Existing' = Existing
<1>1. \A c : Above(c)' = Above(c)
  BY DEF Above, estate_vars
<1>2. \A s, c : WaitingOn(s, c)' <=> WaitingOn(s, c)
  BY <1>1 DEF WaitingOn, Pends, estate_vars
<1>3. \A c : SteadyIn(c)' <=> SteadyIn(c)
  BY <1>1 DEF SteadyIn, estate_vars
<1>4. ASSUME NEW s PROVE StackHolds(s)' <=> StackHolds(s)
  BY <1>2, <1>3 DEF StackHolds, estate_vars
<1>5. ASSUME NEW u \in Units
      PROVE  (Above(place[u]))' = Above(place[u])
  BY DEF Above, estate_vars
<1>6. ASSUME NEW s, NEW u \in Units
      PROVE  AheadOn(s, u)' <=> AheadOn(s, u)
  BY <1>5 DEF AheadOn, WaitingOn, Pends, Reads, estate_vars
<1>7. ASSUME NEW u \in Units
      PROVE  (Steady(u)' <=> Steady(u)) /\ (OnFirstPages(u)' <=> OnFirstPages(u))
  BY <1>5 DEF Steady, OnFirstPages, estate_vars
<1>8. ASSUME NEW s, NEW n PROVE FoundRight(s, n)' <=> FoundRight(s, n)
  BY <1>6, <1>7 DEF FoundRight, estate_vars
<1>9. Existing' = Existing
  BY DEF Existing, estate_vars
<1>10. Unscopable' <=> Unscopable
  BY <1>9 DEF Unscopable, estate_vars, Page, Rest
<1>11. EstateTypes => EstateTypes'
  BY DEF EstateTypes, estate_vars
<1>12. EstateHolds => EstateHolds'
  BY <1>1, <1>5 DEF EstateHolds, estate_vars
<1> QED BY <1>4, <1>8, <1>9, <1>10, <1>11, <1>12

\* The list of the root is all that is known.
LEMMA RootList ==
    ASSUME EstateTypes, EstateHolds, provider # "azure",
           NEW s, s = <<ListOf("units", Root)>>
    PROVE  s \in Seq(Entries) /\ StackHolds(s) /\ FoundRight(s, NoneFound)
<1> DEFINE e == [kind |-> "units", at |-> Root, token |-> 0, enter |-> {}, more |-> TRUE]
<1>1. ListOf("units", Root) = e /\ e \in Entries
  BY RootApart DEF ListOf, Entries
<1>2. e.kind = "units" /\ e.at = Root /\ e.token = 0 /\ e.enter = {}
  OBVIOUS
<1> HIDE DEF e
<1>3. s = <<e>>
  BY <1>1
<1>4. s \in Seq(Entries) /\ DOMAIN s = {1} /\ s[1] = e
  BY <1>1, <1>3
<1>5. ~WaitingOn(s, Root)
  BY AboveRoot, RootApart DEF WaitingOn
<1>6. StackHolds(s)
  BY <1>2, <1>4, <1>5 DEF StackHolds
<1>7. ASSUME NEW u \in Units, Steady(u), place[u] # Gone PROVE AheadOn(s, u)
  <2>1. SteadyIn(place[u])
    BY <1>7, SteadyUnit
  <2>2. CASE place[u] = Root
    <3>1. u \in Nat /\ 0 < u
      BY Finite
    <3> QED BY <1>2, <1>4, <2>2, <3>1 DEF AheadOn, Reads
  <2>3. CASE place[u] # Root
    <3>1. PICK k \in Above(place[u]) \cap Folders : up[k] = Root
      BY <2>1, <2>3, SteadyChild DEF SteadyIn
    <3>2. Pends(s[1], k)
      BY <1>2, <1>4, <3>1 DEF Pends
    <3> QED BY <1>4, <3>1, <3>2 DEF AheadOn, WaitingOn
  <2> QED BY <2>2, <2>3
<1>8. FoundRight(s, NoneFound)
  BY <1>7 DEF FoundRight, NoneFound
<1> QED BY <1>4, <1>6, <1>8

\* What is among the first of more is on the first page.
LEMMA FirstPage ==
    ASSUME NEW T \in SUBSET (Nat \ {0}), IsFiniteSet(T), NEW S \in SUBSET T,
           NEW x \in S, Cardinality({y \in T : y <= x}) <= PageSize
    PROVE  x \in Page(S, 0)
<1> DEFINE U == {y \in T : y <= x}
           B == {y \in Rest(S, 0) : y < x}
<1>1. IsFiniteSet(U) /\ Cardinality(U) \in Nat /\ x \in U
  <2>1. U \in SUBSET T
    OBVIOUS
  <2> QED BY <2>1, FS_Subset, FS_CardinalityType
<1>2. B \in SUBSET (U \ {x}) /\ x \in Rest(S, 0)
  <2>1. x \in Nat /\ 0 < x /\ \A y \in S : y \in Nat /\ y \in T
    OBVIOUS
  <2>2. ASSUME NEW y \in B PROVE y \in U \ {x}
    <3>1. y \in S /\ y \in Nat /\ y < x
      BY <2>1 DEF Rest
    <3> QED BY <2>1, <3>1
  <2> QED BY <2>1, <2>2 DEF Rest
<1> HIDE DEF U
<1>3. IsFiniteSet(U \ {x}) /\ Cardinality(U \ {x}) = Cardinality(U) - 1
  BY <1>1, FS_RemoveElement
<1>4. Cardinality(B) <= Cardinality(U) - 1 /\ Cardinality(B) \in Nat
  <2> HIDE DEF B
  <2> QED BY <1>2, <1>3, FS_Subset, FS_CardinalityType
<1>5. Cardinality(U) <= PageSize
  BY DEF U
<1>6. Cardinality(B) < PageSize
  <2> HIDE DEF B
  <2> QED BY <1>1, <1>4, <1>5, BoundsAssumption
<1> QED BY <1>2, <1>6 DEF Page

\* The lists of Azure's groups, in order.
GroupStack(order) == [i \in DOMAIN order |-> ListOf("units", order[i])]

LEMMA GroupLists ==
    ASSUME EstateTypes, EstateHolds, provider = "azure",
           NEW groups, groups = Page(Existing, 0),
           NEW order \in [1 .. Cardinality(groups) -> groups],
           \A i, j \in DOMAIN order : i < j => order[i] < order[j],
           NEW s, s = GroupStack(order)
    PROVE  /\ s \in Seq(Entries) /\ StackHolds(s) /\ FoundRight(s, NoneFound)
           /\ \A g \in groups : \E i \in DOMAIN s : s[i].at = g
           /\ \A i \in DOMAIN s : s[i].at \in groups
<1>1. /\ groups \in SUBSET Existing /\ Existing \in SUBSET Folders
      /\ IsFiniteSet(groups) /\ Cardinality(groups) \in Nat
  <2>1. Existing \in SUBSET Folders /\ Existing \in SUBSET Nat /\ IsFiniteSet(Existing)
    <3>1. Existing \in SUBSET Folders
      BY DEF Existing
    <3> QED BY <3>1, Finite, FS_Subset
  <2>2. groups \in SUBSET Existing
    BY <2>1, PageIs
  <2> QED BY <2>1, <2>2, FS_Subset, FS_CardinalityType
<1>2. ASSUME NEW i \in DOMAIN order, NEW j \in DOMAIN order, order[i] = order[j]
      PROVE  i = j
  <2>0. i \in 1 .. Cardinality(groups) /\ j \in 1 .. Cardinality(groups)
    OBVIOUS
  <2>1. i \in Nat /\ j \in Nat /\ order[i] \in Nat /\ order[j] \in Nat
    <3>1. order[i] \in Folders /\ order[j] \in Folders
      BY <1>1, <2>0
    <3>2. i \in Nat /\ j \in Nat
      BY <1>1, <2>0
    <3> QED BY <3>1, <3>2, Finite
  <2>2. ~(i < j) /\ ~(j < i)
    BY <1>2, <2>1
  <2> QED BY <2>1, <2>2
<1>3. \A g \in groups : \E i \in DOMAIN order : order[i] = g
  <2>1. order \in Injection(1 .. Cardinality(groups), groups)
    BY <1>2 DEF Injection, IsInjective
  <2>2. /\ IsFiniteSet(1 .. Cardinality(groups))
        /\ Cardinality(1 .. Cardinality(groups)) = Cardinality(groups)
    BY <1>1, FS_Interval
  <2>3. order \in Surjection(1 .. Cardinality(groups), groups)
    BY <1>1, <2>1, <2>2, FS_Injection
  <2> QED BY <2>3 DEF Surjection
<1> DEFINE e(g) == [kind |-> "units", at |-> g, token |-> 0, enter |-> {}, more |-> TRUE]
<1>4. \A g \in groups : ListOf("units", g) = e(g) /\ e(g) \in Entries
  BY <1>1 DEF ListOf, Entries, Containers
<1>5. /\ DOMAIN s = 1 .. Cardinality(groups) /\ DOMAIN s = DOMAIN order
      /\ \A i \in DOMAIN s : s[i] = e(order[i]) /\ order[i] \in groups
  BY <1>4 DEF GroupStack
<1>6. s \in Seq(Entries)
  <2>1. \A i \in 1 .. Cardinality(groups) : s[i] \in Entries
    BY <1>4, <1>5
  <2>2. s \in [1 .. Cardinality(groups) -> Entries]
    <3> HIDE DEF e
    <3> QED BY <2>1, <1>5 DEF GroupStack
  <2> QED BY <1>1, <2>2
<1>7. ASSUME NEW i \in DOMAIN s
      PROVE  /\ s[i].kind = "units" /\ s[i].at = order[i] /\ s[i].at \in Folders
             /\ s[i].token = 0 /\ s[i].enter = {}
  BY <1>1, <1>5
<1>8. \A i \in DOMAIN s, f \in Folders : ~Pends(s[i], f)
  <2>1. \A f \in Folders : up[f] \notin Folders
    BY RootApart DEF EstateHolds, Containers
  <2> QED BY <1>7, <2>1 DEF Pends
<1>9. \A c : ~WaitingOn(s, c)
  BY <1>8 DEF WaitingOn
<1>10. \A i, j \in DOMAIN s : s[i].at = s[j].at => i = j
  BY <1>2, <1>5, <1>7
<1> HIDE DEF e
<1>11. StackHolds(s)
  BY <1>7, <1>9, <1>10 DEF StackHolds
<1>12. ASSUME NEW u \in Units, Steady(u), place[u] # Gone, OnFirstPages(u)
       PROVE  AheadOn(s, u)
  <2>1. SteadyIn(place[u]) /\ place[u] \in Folders
    BY <1>12, SteadyUnit DEF EstateHolds
  <2>2. place[u] \in Existing
    BY <2>1, SteadyFolder, RootApart DEF Existing, SteadyIn
  <2>3. place[u] \in groups
    BY <1>1, <1>12, <2>2, Finite, FirstPage DEF OnFirstPages
  <2>4. PICK i \in DOMAIN s : s[i].at = place[u]
    BY <1>3, <1>5, <1>7, <2>3
  <2>5. u \in Nat /\ 0 < u
    BY Finite
  <2> QED BY <1>7, <2>4, <2>5 DEF AheadOn, Reads
<1>13. FoundRight(s, NoneFound)
  BY <1>12 DEF FoundRight, NoneFound
<1>14. \A g \in groups : \E i \in DOMAIN s : s[i].at = g
  BY <1>3, <1>5, <1>7
<1>15. \A i \in DOMAIN s : s[i].at \in groups
  BY <1>5, <1>7
<1> QED BY <1>6, <1>11, <1>13, <1>14, <1>15
-----------------------------------------------------------------------------
(* A page is read. *)

LEMMA TokenExcept ==
    ASSUME NEW e \in Entries, NEW n
    PROVE  [e EXCEPT !.token = n] =
               [kind |-> e.kind, at |-> e.at, token |-> n, enter |-> e.enter,
                more |-> e.more]
<1>1. PICK k, a, m, E, r :
          e = [kind |-> k, at |-> a, token |-> m, enter |-> E, more |-> r]
  BY DEF Entries
<1> QED BY <1>1

Onward(s, last) == [s EXCEPT ![1].token = last]

\* The stack after a page of units, and what it has still to read.
AfterUnits(s, more, last) ==
    IF more THEN Onward(s, last)
    ELSE IF provider = "gcp" THEN [s EXCEPT ![1] = ListOf("folders", s[1].at)]
    ELSE Tail(s)

LEMMA ReadOn ==
    ASSUME EstateTypes, NEW s \in Seq(Entries), s # << >>, StackHolds(s),
           s[1].kind = "units", NEW last, last \in Nat, provider # "azure",
           NEW t, t = Onward(s, last)
    PROVE  /\ t \in Seq(Entries) /\ StackHolds(t)
           /\ \A c : SteadyIn(c) => (WaitingOn(t, c) <=> WaitingOn(s, c))
           /\ DOMAIN t = DOMAIN s /\ 1 \in DOMAIN s
           /\ \A i \in DOMAIN s : i # 1 => t[i] = s[i]
           /\ t[1].kind = "units" /\ t[1].at = s[1].at /\ t[1].token = last
<1> DEFINE e == [kind |-> s[1].kind, at |-> s[1].at, token |-> last,
                 enter |-> s[1].enter, more |-> s[1].more]
<1>1. 1 \in DOMAIN s
  OBVIOUS
<1>2. /\ s[1].kind = "units" /\ s[1].at \in Containers /\ s[1].enter = {}
      /\ s[1].more \in BOOLEAN /\ s[1] \in Entries
  BY <1>1, EntryIs DEF StackHolds
<1>3. e \in Entries
  BY <1>2 DEF Entries
<1>4. [s[1] EXCEPT !.token = last] = e
  BY <1>2, TokenExcept
<1>5. e.at = s[1].at /\ e.kind = "units" /\ e.enter = {} /\ e.token = last
  BY <1>2
<1>6. t = [s EXCEPT ![1] = e]
  BY <1>4 DEF Onward
<1> HIDE DEF e
<1>7. \A f \in Folders : Pends(e, f) <=> Pends(s[1], f)
  BY <1>2, <1>5 DEF Pends
<1>8. \A f \in e.enter : SteadyIn(f) => up[f] = e.at /\ f <= e.token
  BY <1>5
<1>9. /\ t \in Seq(Entries) /\ StackHolds(t)
      /\ \A c : SteadyIn(c) => (WaitingOn(t, c) <=> WaitingOn(s, c))
  BY <1>3, <1>5, <1>6, <1>7, <1>8, HeadReadOn
<1>10. DOMAIN t = DOMAIN s /\ t[1] = e /\ \A i \in DOMAIN s : i # 1 => t[i] = s[i]
  BY <1>1, <1>3, <1>6
<1> QED BY <1>1, <1>5, <1>9, <1>10

LEMMA FoldersNext ==
    ASSUME EstateTypes, NEW s \in Seq(Entries), s # << >>, StackHolds(s),
           s[1].kind = "units", provider = "gcp",
           NEW t, t = [s EXCEPT ![1] = ListOf("folders", s[1].at)]
    PROVE  /\ t \in Seq(Entries) /\ StackHolds(t)
           /\ \A c : SteadyIn(c) => (WaitingOn(t, c) <=> WaitingOn(s, c))
           /\ DOMAIN t = DOMAIN s /\ 1 \in DOMAIN s
           /\ \A i \in DOMAIN s : i # 1 => t[i] = s[i]
           /\ t[1].kind = "folders"
<1> DEFINE e == [kind |-> "folders", at |-> s[1].at, token |-> 0, enter |-> {},
                 more |-> TRUE]
<1>1. 1 \in DOMAIN s
  OBVIOUS
<1>2. s[1].at \in Containers /\ s[1].enter = {}
  BY <1>1, EntryIs DEF StackHolds
<1>3. e \in Entries /\ ListOf("folders", s[1].at) = e
  BY <1>2 DEF Entries, ListOf
<1>4. e.at = s[1].at /\ e.kind = "folders" /\ e.enter = {} /\ e.token = 0 /\ e.more
  OBVIOUS
<1> HIDE DEF e
<1>5. t = [s EXCEPT ![1] = e]
  BY <1>3
<1>6. \A f \in Folders : f \in Nat /\ 0 < f
  BY Finite
<1>7. \A f \in Folders : Pends(e, f) <=> Pends(s[1], f)
  BY <1>2, <1>4, <1>6 DEF Pends
<1>8. /\ t \in Seq(Entries) /\ StackHolds(t)
      /\ \A c : SteadyIn(c) => (WaitingOn(t, c) <=> WaitingOn(s, c))
  <2>1. \A f \in e.enter : SteadyIn(f) => up[f] = e.at /\ f <= e.token
    BY <1>4
  <2>2. provider # "azure" /\ e.kind # "units"
    BY <1>4
  <2> QED BY <1>3, <1>4, <1>5, <1>7, <2>1, <2>2, HeadReadOn
<1>9. DOMAIN t = DOMAIN s /\ t[1] = e /\ \A i \in DOMAIN s : i # 1 => t[i] = s[i]
  BY <1>1, <1>3, <1>5
<1> QED BY <1>1, <1>4, <1>8, <1>9

LEMMA UnitsLast ==
    ASSUME EstateTypes, EstateHolds, NEW s \in Seq(Entries), s # << >>, StackHolds(s),
           s[1].kind = "units", provider \in {"aws", "azure"}
    PROVE  /\ Tail(s) \in Seq(Entries) /\ StackHolds(Tail(s))
           /\ \A c : SteadyIn(c) => (WaitingOn(Tail(s), c) <=> WaitingOn(s, c))
           /\ \A i \in DOMAIN Tail(s) : i + 1 \in DOMAIN s /\ i + 1 # 1
                                        /\ Tail(s)[i] = s[i + 1]
           /\ \A i \in DOMAIN s : i # 1 =>
                 i - 1 \in DOMAIN Tail(s) /\ Tail(s)[i - 1] = s[i]
           /\ 1 \in DOMAIN s
<1>1. /\ \A i \in DOMAIN Tail(s) : i + 1 \in DOMAIN s /\ Tail(s)[i] = s[i + 1]
      /\ \A i \in DOMAIN s : i # 1 =>
            i - 1 \in DOMAIN Tail(s) /\ Tail(s)[i - 1] = s[i]
      /\ 1 \in DOMAIN s /\ Tail(s) \in Seq(Entries)
  BY TailIs
<1>2. s[1].enter = {} /\ s[1].at \in Containers
  BY <1>1, EntryIs DEF StackHolds
<1>3. \A f \in Folders : up[f] # s[1].at
  <2>1. CASE provider = "aws"
    BY <1>2, <2>1, RootApart DEF EstateHolds
  <2>2. CASE provider = "azure"
    <3>1. s[1].at \in Folders
      BY <1>1, <2>2 DEF StackHolds
    <3> QED BY <2>2, <3>1, RootApart DEF EstateHolds, Containers
  <2> QED BY <2>1, <2>2
<1>4. \A f \in Folders : ~Pends(s[1], f)
  BY <1>2, <1>3 DEF Pends
<1>5. \A i \in DOMAIN Tail(s) : i + 1 # 1
  <2>1. \A i \in DOMAIN Tail(s) : i \in Nat /\ i # 0
    BY <1>1
  <2> QED BY <2>1
<1> QED BY <1>1, <1>4, <1>5, HeadDone

\* A page of units makes every steady one of them found, once.
LEMMA UnitsRead ==
    ASSUME EstateTypes, EstateHolds, NEW s \in Seq(Entries), s # << >>, StackHolds(s),
           s[1].kind = "units", provider # "supabase",
           found \in [Units -> IF provider = "gcp" THEN Nat ELSE 0..1],
           FoundRight(s, found),
           NEW pg, pg = Page(UnitsIn(s[1].at), s[1].token),
           NEW more \in BOOLEAN,
           more <=> provider # "azure" /\ pg # Rest(UnitsIn(s[1].at), s[1].token),
           NEW t, t = AfterUnits(s, more, Last(pg))
    PROVE  /\ t \in Seq(Entries) /\ StackHolds(t) /\ FoundRight(t, Add(pg))
           /\ Add(pg) \in [Units -> IF provider = "gcp" THEN Nat ELSE 0..1]
           /\ \A u \in pg : place[u] = s[1].at /\ u \in Units
<1> DEFINE here == s[1].at
           rest == Rest(UnitsIn(here), s[1].token)
<1>1. 1 \in DOMAIN s /\ here \in Containers /\ s[1].token \in Nat
  <2>1. 1 \in DOMAIN s
    OBVIOUS
  <2> QED BY <2>1, EntryIs
<1>2. /\ pg \in SUBSET Units /\ rest = {u \in Units : place[u] = here /\ s[1].token < u}
      /\ pg \subseteq rest
      /\ more => pg # {} /\ Last(pg) \in pg
      /\ more => \A u \in rest \ pg : Last(pg) < u
      /\ \A u \in pg : u <= Last(pg)
  <2>1. UnitsIn(here) \in SUBSET Units /\ UnitsIn(here) \in SUBSET Nat
        /\ IsFiniteSet(UnitsIn(here))
    <3>1. UnitsIn(here) \in SUBSET Units
      BY DEF UnitsIn
    <3> QED BY <3>1, Finite, FS_Subset
  <2>2. /\ pg \subseteq rest /\ rest \subseteq UnitsIn(here)
        /\ pg # rest => pg # {}
        /\ \A u \in rest \ pg : Last(pg) < u
        /\ pg # {} => Last(pg) \in pg /\ \A u \in pg : u <= Last(pg)
    BY <1>1, <2>1, PageIs
  <2>3. rest = {u \in Units : place[u] = here /\ s[1].token < u}
    <3>1. \A u \in Units : u \in Nat
      BY Finite
    <3> QED BY <1>1, <3>1 DEF Rest, UnitsIn
  <2> QED BY <2>1, <2>2, <2>3
<1> HIDE DEF rest
<1>3. /\ t \in Seq(Entries) /\ StackHolds(t)
      /\ \A c : SteadyIn(c) => (WaitingOn(t, c) <=> WaitingOn(s, c))
      /\ \A u \in Units : place[u] # here =>
            ((\E i \in DOMAIN t : Reads(t[i], u)) <=> (\E i \in DOMAIN s : Reads(s[i], u)))
      /\ \A u \in Units : place[u] = here /\ SteadyIn(here) =>
            ((\E i \in DOMAIN t : Reads(t[i], u)) <=> more /\ Last(pg) < u)
  <2>0. SteadyIn(here) => \A i \in DOMAIN s : i # 1 => s[i].at # here
    BY <1>1 DEF StackHolds
  <2>1. CASE more
    <3>1. Last(pg) \in Nat
      BY <1>2, <2>1, Finite
    <3>2. provider # "azure" /\ t = Onward(s, Last(pg))
      BY <2>1 DEF AfterUnits
    <3>3. /\ t \in Seq(Entries) /\ StackHolds(t)
          /\ \A c : SteadyIn(c) => (WaitingOn(t, c) <=> WaitingOn(s, c))
          /\ DOMAIN t = DOMAIN s /\ 1 \in DOMAIN s
          /\ \A i \in DOMAIN s : i # 1 => t[i] = s[i]
          /\ t[1].kind = "units" /\ t[1].at = here /\ t[1].token = Last(pg)
      BY <3>1, <3>2, ReadOn
    <3>4. ASSUME NEW u \in Units, place[u] # here
          PROVE  \A i \in DOMAIN s : Reads(t[i], u) <=> Reads(s[i], u)
      BY <3>3, <3>4 DEF Reads
    <3>5. ASSUME NEW u \in Units, place[u] = here, SteadyIn(here)
          PROVE  (\E i \in DOMAIN t : Reads(t[i], u)) <=> Last(pg) < u
      <4>1. \A i \in DOMAIN s : i # 1 => ~Reads(t[i], u)
        BY <2>0, <3>3, <3>5 DEF Reads
      <4>2. Reads(t[1], u) <=> Last(pg) < u
        BY <3>3, <3>5 DEF Reads
      <4> QED BY <3>3, <4>1, <4>2
    <3> QED BY <2>1, <3>3, <3>4, <3>5
  <2>2. CASE ~more /\ provider = "gcp"
    <3>1. t = [s EXCEPT ![1] = ListOf("folders", here)]
      BY <2>2 DEF AfterUnits
    <3>2. /\ t \in Seq(Entries) /\ StackHolds(t)
          /\ \A c : SteadyIn(c) => (WaitingOn(t, c) <=> WaitingOn(s, c))
          /\ DOMAIN t = DOMAIN s /\ 1 \in DOMAIN s
          /\ \A i \in DOMAIN s : i # 1 => t[i] = s[i]
          /\ t[1].kind = "folders"
      BY <2>2, <3>1, FoldersNext
    <3> QED BY <2>0, <2>2, <3>2 DEF Reads
  <2>3. CASE ~more /\ provider # "gcp"
    <3>1. t = Tail(s) /\ provider \in {"aws", "azure"}
      BY <2>3 DEF AfterUnits, EstateTypes
    <3>2. /\ t \in Seq(Entries) /\ StackHolds(t)
          /\ \A c : SteadyIn(c) => (WaitingOn(t, c) <=> WaitingOn(s, c))
          /\ \A i \in DOMAIN t : i + 1 \in DOMAIN s /\ i + 1 # 1 /\ t[i] = s[i + 1]
          /\ \A i \in DOMAIN s : i # 1 => i - 1 \in DOMAIN t /\ t[i - 1] = s[i]
          /\ 1 \in DOMAIN s
      BY <3>1, UnitsLast
    <3>3. ASSUME NEW u \in Units, place[u] # here
          PROVE  (\E i \in DOMAIN t : Reads(t[i], u)) <=> (\E i \in DOMAIN s : Reads(s[i], u))
      <4>1. ~Reads(s[1], u)
        BY <3>3 DEF Reads
      <4>2. ASSUME NEW i \in DOMAIN s, Reads(s[i], u) PROVE \E j \in DOMAIN t : Reads(t[j], u)
        BY <3>2, <4>1, <4>2
      <4>3. ASSUME NEW i \in DOMAIN t, Reads(t[i], u) PROVE \E j \in DOMAIN s : Reads(s[j], u)
        BY <3>2, <4>3
      <4> QED BY <4>2, <4>3
    <3>4. ASSUME NEW u \in Units, place[u] = here, SteadyIn(here), NEW i \in DOMAIN t
          PROVE  ~Reads(t[i], u)
      BY <2>0, <3>2, <3>4 DEF Reads
    <3> QED BY <2>3, <3>2, <3>3, <3>4
  <2> QED BY <2>1, <2>2, <2>3
<1>4. /\ DOMAIN Add(pg) = Units
      /\ Add(pg) \in [Units -> IF provider = "gcp" THEN Nat ELSE 0..1]
      /\ \A u \in Units \ pg : Add(pg)[u] = found[u]
      /\ \A u \in pg : found[u] = 0 => Add(pg)[u] = 1
  BY <1>2 DEF Add
<1>5. ASSUME NEW u \in Units, Steady(u), place[u] = Gone PROVE Add(pg)[u] = 0
  <2>1. u \notin pg
    BY <1>1, <1>2, <1>5, RootApart
  <2> QED BY <1>4, <1>5, <2>1 DEF FoundRight
<1>6. ASSUME NEW u \in Units, Steady(u), place[u] # Gone, OnFirstPages(u)
      PROVE  Add(pg)[u] = IF AheadOn(t, u) THEN 0 ELSE 1
  <2>1. SteadyIn(place[u])
    BY <1>6, SteadyUnit
  <2>2. found[u] = IF AheadOn(s, u) THEN 0 ELSE 1
    BY <1>6 DEF FoundRight
  <2>3. CASE place[u] # here
    <3>1. AheadOn(t, u) <=> AheadOn(s, u)
      BY <1>3, <2>1, <2>3 DEF AheadOn
    <3> QED BY <1>2, <1>4, <2>2, <2>3, <3>1
  <2>4. CASE place[u] = here
    <3>1. ~WaitingOn(s, here) /\ ~WaitingOn(t, here)
      BY <1>1, <1>3, <2>1, <2>4 DEF StackHolds
    <3>2. AheadOn(t, u) <=> more /\ Last(pg) < u
      BY <1>3, <2>1, <2>4, <3>1 DEF AheadOn
    <3>3. AheadOn(s, u) <=> s[1].token < u
      <4>1. \A i \in DOMAIN s : i # 1 => s[i].at # here
        BY <1>1, <2>1, <2>4 DEF StackHolds
      <4> QED BY <1>1, <2>4, <3>1, <4>1 DEF AheadOn, Reads
    <3>4. u \in Nat /\ s[1].token \in Nat
      BY <1>1, Finite
    <3>5. CASE u \in pg
      <4>1. s[1].token < u
        BY <1>2, <3>5
      <4>2. ~(more /\ Last(pg) < u)
        <5>1. more => Last(pg) \in Nat /\ u <= Last(pg)
          BY <1>2, <3>5, Finite
        <5> QED BY <3>4, <5>1
      <4> QED BY <1>4, <2>2, <3>2, <3>3, <3>5, <4>1, <4>2
    <3>6. CASE u \notin pg /\ s[1].token < u
      <4>1. u \in rest \ pg
        BY <1>2, <2>4, <3>6
      <4>2. provider # "azure"
        <5> SUFFICES ASSUME provider = "azure" PROVE FALSE
          OBVIOUS
        <5>1. s[1].token = 0
          BY <1>1 DEF StackHolds
        <5>2. Cardinality({v \in Units : v <= u}) <= PageSize
          BY <1>6 DEF OnFirstPages
        <5>3. UnitsIn(here) \in SUBSET Units /\ u \in UnitsIn(here)
          BY <2>4 DEF UnitsIn
        <5>4. u \in Page(UnitsIn(here), 0)
          BY <5>2, <5>3, Finite, FirstPage
        <5> QED BY <3>6, <5>1, <5>4
      <4>3. more /\ Last(pg) < u
        BY <1>2, <4>1, <4>2 DEF rest
      <4> QED BY <1>4, <2>2, <3>2, <3>3, <3>6, <4>3
    <3>7. CASE u \notin pg /\ ~(s[1].token < u)
      <4>1. ~(more /\ Last(pg) < u)
        <5> SUFFICES ASSUME more, Last(pg) < u PROVE FALSE
          OBVIOUS
        <5>1. Last(pg) \in pg /\ s[1].token < Last(pg) /\ Last(pg) \in Nat
          BY <1>2, Finite
        <5> QED BY <3>4, <3>7, <5>1
      <4> QED BY <1>4, <2>2, <3>2, <3>3, <3>7, <4>1
    <3> QED BY <3>5, <3>6, <3>7
  <2> QED BY <2>3, <2>4
<1>7. FoundRight(t, Add(pg))
  BY <1>5, <1>6 DEF FoundRight
<1>8. \A u \in pg : place[u] = here /\ u \in Units
  BY <1>2
<1> QED BY <1>3, <1>4, <1>7, <1>8
-----------------------------------------------------------------------------
(* The steps of the walk. *)

\* What a step has to show, if the estate stays as it is.
LEMMA WalkTo ==
    ASSUME EstateTypes, EstateHolds, UNCHANGED estate_vars,
           NEW s \in Seq(Entries), open' = s, StackHolds(s), pc' # "walk" => s = << >>,
           NEW n \in [Units -> IF provider = "gcp" THEN Nat ELSE 0..1], found' = n,
           pc' \in {"walk", "listed"} => FoundRight(s, n),
           pc' \in {"idle", "organizations", "walk", "listed", "alone", "refused"},
           pc' \in {"idle", "organizations"} => n = NoneFound,
           allowed' \subseteq Folders, failed' \in BOOLEAN, FitInv'
    PROVE  WalkInv'
<1>1. EstateTypes' /\ EstateHolds' /\ StackHolds(s)' /\ (FoundRight(s, n)' <=> FoundRight(s, n))
  BY EstateSame
<1>2. StackInv'
  BY <1>1 DEF StackInv
<1>3. SteadyInv'
  BY <1>1 DEF SteadyInv
<1>4. WalkTypes'
  BY DEF WalkTypes, estate_vars, NoneFound
<1> QED BY <1>1, <1>2, <1>3, <1>4 DEF WalkInv

LEMMA NoneTyped ==
    /\ NoneFound \in [Units -> 0..1] /\ NoneFound \in [Units -> Nat]
    /\ << >> \in Seq(Entries)
    /\ StackHolds(<< >>) /\ (\A u : ~AheadOn(<< >>, u))
BY DEF NoneFound, StackHolds, AheadOn, WaitingOn

\* An estate that has not changed is steady everywhere.
LEMMA AllSteady == moved = {} => \A u : Steady(u)
BY DEF Steady

LEMMA RefuseKeeps ==
    ASSUME WalkInv, UNCHANGED estate_vars, Refuse,
           allowed' \subseteq Folders, failed' \in BOOLEAN,
           moved = {} => failed' \/ Unscopable
    PROVE  WalkInv'
<1>1. FitInv'
  <2>1. Unscopable' <=> Unscopable
    BY EstateSame
  <2> QED BY <2>1 DEF FitInv, Refuse, estate_vars
<1>2. NoneFound \in [Units -> IF provider = "gcp" THEN Nat ELSE 0..1]
  BY NoneTyped
<1> QED BY <1>1, <1>2, NoneTyped, WalkTo DEF WalkInv, Refuse

\* On the way, what is known of an unchanged estate stays so.
LEMMA FitStays ==
    ASSUME FitInv, UNCHANGED estate_vars, pc = "walk", pc' = "walk",
           failed' = failed, allowed' = allowed, provider # "azure"
    PROVE  FitInv'
<1>1. Existing' = Existing
  BY EstateSame
<1> QED BY <1>1 DEF FitInv, estate_vars, Page, Rest

LEMMA DescribeOrganizationKeeps == WalkInv /\ DescribeOrganization => WalkInv'
<1> SUFFICES ASSUME WalkInv, DescribeOrganization PROVE WalkInv'
  OBVIOUS
<1>1. /\ pc = "organizations" /\ provider = "aws" /\ UNCHANGED estate_vars
      /\ allowed' = allowed /\ failed' = failed
      /\ EstateTypes /\ EstateHolds /\ WalkTypes /\ FitInv
      /\ organizations \in 0..1
  BY DEF WalkInv, DescribeOrganization, EstateHolds
<1>2. failed = FALSE /\ found = NoneFound /\ open = << >> /\ allowed \subseteq Folders
  BY <1>1 DEF WalkTypes, FitInv
<1>3. CASE organizations = 0
  <2> DEFINE n == [NoneFound EXCEPT ![current] = 1]
  <2>1. pc' = "alone" /\ found' = n /\ open' = << >>
    BY <1>2, <1>3 DEF DescribeOrganization
  <2>2. n \in [Units -> IF provider = "gcp" THEN Nat ELSE 0..1]
    <3>1. n \in [Units -> 0..1]
      BY <1>1 DEF NoneFound, EstateTypes
    <3> HIDE DEF n
    <3> QED BY <1>1, <3>1
  <2>3. ~Unscopable /\ (Unscopable' <=> Unscopable)
    <3>1. ~Unscopable
      BY <1>1, <1>3 DEF Unscopable
    <3> QED BY <1>1, <3>1, EstateSame
  <2>4. FitInv'
    BY <1>1, <1>2, <1>3, <2>1, <2>3 DEF FitInv, estate_vars
  <2> HIDE DEF n
  <2> QED BY <1>1, <1>2, <2>1, <2>2, <2>4, NoneTyped, WalkTo
<1>4. CASE organizations # 0
  <2> DEFINE s == <<ListOf("units", Root)>>
  <2>1. pc' = "walk" /\ open' = s /\ found' = NoneFound
    BY <1>2, <1>4 DEF DescribeOrganization, Begun
  <2>2. s \in Seq(Entries) /\ StackHolds(s) /\ FoundRight(s, NoneFound)
    BY <1>1, RootList
  <2>3. FitInv'
    BY <1>1, <1>2, <1>4, <2>1 DEF FitInv, estate_vars
  <2>4. NoneFound \in [Units -> IF provider = "gcp" THEN Nat ELSE 0..1]
    BY NoneTyped
  <2> HIDE DEF s
  <2> QED BY <1>1, <1>2, <2>1, <2>2, <2>3, <2>4, WalkTo
<1> QED BY <1>3, <1>4

LEMMA SearchOrganizationsKeeps == WalkInv /\ SearchOrganizations => WalkInv'
<1> SUFFICES ASSUME WalkInv, SearchOrganizations PROVE WalkInv'
  OBVIOUS
<1>1. /\ pc = "organizations" /\ provider = "gcp" /\ UNCHANGED estate_vars
      /\ allowed' = allowed /\ failed' = failed
      /\ EstateTypes /\ EstateHolds /\ WalkTypes /\ FitInv
  BY DEF WalkInv, SearchOrganizations
<1>2. failed = FALSE /\ found = NoneFound /\ open = << >> /\ allowed \subseteq Folders
  BY <1>1 DEF WalkTypes, FitInv
<1>3. CASE Cardinality(Page(1..organizations, 0)) # 1
  <2>1. Refuse /\ Unscopable
    BY <1>1, <1>3 DEF SearchOrganizations, Unscopable
  <2> QED BY <1>1, <1>2, <2>1, RefuseKeeps
<1>4. CASE Cardinality(Page(1..organizations, 0)) = 1
  <2> DEFINE s == <<ListOf("units", Root)>>
  <2>1. pc' = "walk" /\ open' = s /\ found' = NoneFound
    BY <1>2, <1>4 DEF SearchOrganizations, Begun
  <2>2. s \in Seq(Entries) /\ StackHolds(s) /\ FoundRight(s, NoneFound)
    BY <1>1, RootList
  <2>3. FitInv'
    BY <1>1, <1>2, <1>4, <2>1 DEF FitInv, estate_vars, Page, Rest
  <2>4. NoneFound \in [Units -> IF provider = "gcp" THEN Nat ELSE 0..1]
    BY NoneTyped
  <2> HIDE DEF s
  <2> QED BY <1>1, <1>2, <2>1, <2>2, <2>3, <2>4, WalkTo
<1> QED BY <1>3, <1>4

LEMMA ListSupabaseOrganizationsKeeps == WalkInv /\ ListSupabaseOrganizations => WalkInv'
<1> SUFFICES ASSUME WalkInv, ListSupabaseOrganizations PROVE WalkInv'
  OBVIOUS
<1>1. /\ pc = "organizations" /\ provider = "supabase" /\ UNCHANGED estate_vars
      /\ allowed' = Existing /\ failed' = failed
      /\ EstateTypes /\ EstateHolds /\ WalkTypes /\ FitInv
  BY DEF WalkInv, ListSupabaseOrganizations
<1>2. failed = FALSE /\ found = NoneFound /\ open = << >> /\ allowed' \subseteq Folders
  BY <1>1 DEF WalkTypes, FitInv, Existing
<1>3. CASE Existing = {}
  <2>1. ASSUME NEW u \in Units PROVE place[u] = Gone
    <3> SUFFICES ASSUME place[u] # Gone PROVE FALSE
      OBVIOUS
    <3>1. place[u] \in Folders /\ Root \in Above(place[u])
      BY <1>1 DEF EstateHolds
    <3>2. up[place[u]] = Gone
      BY <1>3, <3>1 DEF Existing
    <3>3. Above(place[u]) = {place[u]} \cup {Gone}
      BY <1>1, <3>1, <3>2, UpwardStep, AboveIs DEF EstateTypes
    <3> QED BY <3>1, <3>3, RootApart
  <2>2. Refuse /\ Unscopable
    BY <1>1, <1>3, <2>1 DEF ListSupabaseOrganizations, Unscopable
  <2> QED BY <1>1, <1>2, <2>2, RefuseKeeps
<1>4. CASE Existing # {}
  <2> DEFINE s == <<ListOf("units", Root)>>
  <2>1. pc' = "walk" /\ open' = s /\ found' = NoneFound
    BY <1>2, <1>4 DEF ListSupabaseOrganizations, Begun
  <2>2. s \in Seq(Entries) /\ StackHolds(s) /\ FoundRight(s, NoneFound)
    BY <1>1, RootList
  <2>3. FitInv'
    <3>1. Existing' = Existing
      BY <1>1, EstateSame
    <3> QED BY <1>1, <1>2, <2>1, <3>1 DEF FitInv, estate_vars
  <2>4. NoneFound \in [Units -> IF provider = "gcp" THEN Nat ELSE 0..1]
    BY NoneTyped
  <2> HIDE DEF s
  <2> QED BY <1>1, <1>2, <2>1, <2>2, <2>3, <2>4, WalkTo
<1> QED BY <1>3, <1>4

LEMMA ListManagementGroupsKeeps == WalkInv /\ ListManagementGroups => WalkInv'
<1> SUFFICES ASSUME WalkInv, ListManagementGroups PROVE WalkInv'
  OBVIOUS
<1>1. /\ pc = "organizations" /\ provider = "azure" /\ UNCHANGED estate_vars
      /\ allowed' = allowed /\ failed' = failed
      /\ EstateTypes /\ EstateHolds /\ WalkTypes /\ FitInv
  BY DEF WalkInv, ListManagementGroups
<1>2. failed = FALSE /\ found = NoneFound /\ open = << >> /\ allowed \subseteq Folders
  BY <1>1 DEF WalkTypes, FitInv
<1> DEFINE groups == Page(Existing, 0)
<1>3. CASE groups = {}
  <2>1. Refuse /\ Unscopable
    BY <1>1, <1>3 DEF ListManagementGroups, Unscopable
  <2> QED BY <1>1, <1>2, <2>1, RefuseKeeps
<1>4. CASE groups # {}
  <2>1. PICK order \in [1 .. Cardinality(groups) -> groups] :
            /\ \A i, j \in DOMAIN order : i < j => order[i] < order[j]
            /\ Begun(GroupStack(order))
    BY <1>4 DEF ListManagementGroups, GroupStack
  <2> DEFINE s == GroupStack(order)
  <2>2. pc' = "walk" /\ open' = s /\ found' = NoneFound
    BY <1>2, <2>1 DEF Begun
  <2>3. /\ s \in Seq(Entries) /\ StackHolds(s) /\ FoundRight(s, NoneFound)
        /\ \A g \in groups : \E i \in DOMAIN s : s[i].at = g
        /\ \A i \in DOMAIN s : s[i].at \in groups
    BY <1>1, <2>1, GroupLists
  <2> HIDE DEF s
  <2>4. FitInv'
    <3>1. Page(Existing, 0)' = groups
      BY <1>1, EstateSame DEF Page, Rest
    <3>2. \A u \in Units : ~(found'[u] > 0)
      BY <2>2 DEF NoneFound
    <3> HIDE DEF groups
    <3> QED BY <1>1, <1>2, <2>2, <2>3, <3>1, <3>2 DEF FitInv, estate_vars
  <2>5. NoneFound \in [Units -> IF provider = "gcp" THEN Nat ELSE 0..1]
    BY NoneTyped
  <2> QED BY <1>1, <1>2, <2>2, <2>3, <2>4, <2>5, WalkTo
<1> QED BY <1>3, <1>4

LEMMA ListProjectsKeeps == WalkInv /\ ListProjects => WalkInv'
<1> SUFFICES ASSUME WalkInv, ListProjects PROVE WalkInv'
  OBVIOUS
<1> DEFINE projects == {u \in Units : place[u] # Gone}
<1>1. /\ pc = "walk" /\ open # << >> /\ provider = "supabase" /\ UNCHANGED estate_vars
      /\ allowed' = allowed /\ failed' = failed
      /\ EstateTypes /\ EstateHolds /\ WalkTypes /\ FitInv
      /\ StackHolds(open) /\ FoundRight(open, found)
  BY DEF WalkInv, ListProjects, StackInv, SteadyInv
<1>2. failed = FALSE /\ allowed \subseteq Folders /\ open \in Seq(Entries)
  BY <1>1 DEF WalkTypes, FitInv
<1>3. CASE \E u \in projects : place[u] \notin allowed
  <2>1. Refuse
    BY <1>3 DEF ListProjects
  <2>2. ASSUME moved = {} PROVE FALSE
    <3>1. allowed = Existing
      BY <1>1, <2>2 DEF FitInv
    <3>2. PICK u \in Units : place[u] # Gone /\ place[u] \notin Existing
      BY <1>3, <3>1
    <3>3. SteadyIn(place[u]) /\ place[u] \in Folders
      BY <1>1, <2>2, <3>2, AllSteady, SteadyUnit DEF EstateHolds
    <3>4. up[place[u]] # Gone
      BY <1>1, <3>3, SteadyFolder, RootApart DEF SteadyIn
    <3> QED BY <3>2, <3>3, <3>4 DEF Existing
  <2> QED BY <1>1, <1>2, <2>1, <2>2, RefuseKeeps
<1>4. CASE ~\E u \in projects : place[u] \notin allowed
  <2> DEFINE n == Add(projects)
  <2>1. pc' = "walk" /\ open' = << >> /\ found' = n
    BY <1>1, <1>4 DEF ListProjects
  <2>2. n = [u \in Units |-> IF place[u] # Gone THEN 1 ELSE found[u]]
    BY <1>1 DEF Add
  <2> HIDE DEF n
  <2>3. n \in [Units -> IF provider = "gcp" THEN Nat ELSE 0..1]
    <3>1. found \in [Units -> 0..1]
      BY <1>1 DEF WalkTypes
    <3>2. n \in [Units -> 0..1]
      BY <2>2, <3>1
    <3> QED BY <1>1, <3>2
  <2>4. FoundRight(<< >>, n)
    BY <1>1, <2>2, NoneTyped DEF FoundRight
  <2>5. FitInv'
    BY <1>1, <2>1, FitStays
  <2> QED BY <1>1, <1>2, <2>1, <2>3, <2>4, <2>5, NoneTyped, WalkTo
<1> QED BY <1>3, <1>4

LEMMA ListUnitsKeeps == WalkInv /\ ListUnits => WalkInv'
<1> SUFFICES ASSUME WalkInv, ListUnits PROVE WalkInv'
  OBVIOUS
<1>1. /\ pc = "walk" /\ open # << >> /\ provider # "supabase" /\ open[1].kind = "units"
      /\ UNCHANGED estate_vars /\ allowed' = allowed /\ failed' = failed /\ pc' = pc
      /\ EstateTypes /\ EstateHolds /\ WalkTypes /\ FitInv
      /\ StackHolds(open) /\ FoundRight(open, found)
  BY DEF WalkInv, ListUnits, Reading, StackInv, SteadyInv
<1>2. /\ failed = FALSE /\ allowed \subseteq Folders /\ open \in Seq(Entries)
      /\ found \in [Units -> IF provider = "gcp" THEN Nat ELSE 0..1]
  BY <1>1 DEF WalkTypes, FitInv
<1>3. PICK s \in Seq(Entries) : s = open
  BY <1>2
<1> DEFINE rest == Rest(UnitsIn(s[1].at), s[1].token)
<1>4. PICK pg : pg = Page(UnitsIn(s[1].at), s[1].token)
  OBVIOUS
<1>5. PICK more \in BOOLEAN : more <=> provider # "azure" /\ pg # rest
  OBVIOUS
<1>6. PICK t : t = AfterUnits(s, more, Last(pg))
  OBVIOUS
<1>7. open' = t /\ found' = Add(pg)
  BY <1>3, <1>4, <1>5, <1>6 DEF ListUnits, AfterUnits, Onward
<1>8. /\ t \in Seq(Entries) /\ StackHolds(t) /\ FoundRight(t, Add(pg))
      /\ Add(pg) \in [Units -> IF provider = "gcp" THEN Nat ELSE 0..1]
      /\ \A u \in pg : place[u] = s[1].at /\ u \in Units
  BY <1>1, <1>2, <1>3, <1>4, <1>5, <1>6, UnitsRead
<1>9. FitInv'
  <2>1. CASE provider # "azure"
    BY <1>1, <2>1, FitStays
  <2>2. CASE provider = "azure"
    <3> DEFINE groups == Page(Existing, 0)
               here == s[1].at
    <3>1. t = Tail(s)
      BY <1>5, <1>6, <2>2 DEF AfterUnits
    <3>2. /\ \A i \in DOMAIN t : i + 1 \in DOMAIN s /\ t[i] = s[i + 1]
          /\ \A i \in DOMAIN s : i # 1 => i - 1 \in DOMAIN t /\ t[i - 1] = s[i]
          /\ 1 \in DOMAIN s
      BY <1>1, <1>3, <3>1, TailIs
    <3>3. groups' = groups /\ (Unscopable' <=> Unscopable)
      BY <1>1, EstateSame DEF Page, Rest
    <3>4. \A u \in Units : Add(pg)[u] = IF u \in pg THEN 1 ELSE found[u]
      BY <2>2 DEF Add
    <3>5. ASSUME moved = {}
          PROVE  /\ \A u \in Units : Add(pg)[u] > 0 => place[u] \in groups
                 /\ \A i \in DOMAIN t : t[i].at \in groups
                 /\ \A u \in Units : place[u] \in groups =>
                       \/ \E i \in DOMAIN t : t[i].at = place[u]
                       \/ \E v \in Units : place[v] = place[u] /\ Add(pg)[v] > 0
      <4>1. /\ \A u \in Units : found[u] > 0 => place[u] \in groups
            /\ \A i \in DOMAIN s : s[i].at \in groups
            /\ \A u \in Units : place[u] \in groups =>
                  \/ \E i \in DOMAIN s : s[i].at = place[u]
                  \/ \E v \in Units : place[v] = place[u] /\ found[v] > 0
        BY <1>1, <1>3, <2>2, <3>5 DEF FitInv
      <4>2. here \in groups
        BY <3>2, <4>1
      <4>3. ASSUME NEW u \in Units, Add(pg)[u] > 0 PROVE place[u] \in groups
        BY <1>8, <3>4, <4>1, <4>2, <4>3
      <4>4. \A i \in DOMAIN t : t[i].at \in groups
        BY <3>2, <4>1
      <4>5. ASSUME NEW u \in Units, place[u] \in groups
            PROVE  \/ \E i \in DOMAIN t : t[i].at = place[u]
                   \/ \E v \in Units : place[v] = place[u] /\ Add(pg)[v] > 0
        <5>1. CASE \E v \in Units : place[v] = place[u] /\ found[v] > 0
          BY <3>4, <5>1
        <5>2. CASE place[u] = here
          <6>1. s[1].token = 0
            BY <1>1, <1>3, <2>2, <3>2 DEF StackHolds
          <6>2. /\ UnitsIn(here) \in SUBSET Nat /\ IsFiniteSet(UnitsIn(here))
            <7>1. UnitsIn(here) \in SUBSET Units
              BY DEF UnitsIn
            <7> QED BY <7>1, Finite, FS_Subset
          <6>3. u \in Rest(UnitsIn(here), 0)
            BY <5>2, Finite DEF Rest, UnitsIn
          <6>4. pg # {}
            BY <1>4, <6>1, <6>2, <6>3, PageIs
          <6>5. PICK v \in pg : TRUE
            BY <6>4
          <6>6. v \in Units /\ place[v] = here /\ Add(pg)[v] = 1
            BY <1>8, <3>4
          <6> QED BY <5>2, <6>6
        <5>3. ASSUME NEW i \in DOMAIN s, s[i].at = place[u], place[u] # here
              PROVE  \E j \in DOMAIN t : t[j].at = place[u]
          BY <3>2, <5>3
        <5> QED BY <4>1, <4>5, <5>1, <5>2, <5>3
      <4> QED BY <4>3, <4>4, <4>5
    <3> HIDE DEF groups
    <3>6. PICK n : n = Add(pg)
      OBVIOUS
    <3> QED BY <1>1, <1>7, <2>2, <3>3, <3>5, <3>6 DEF FitInv, estate_vars, groups
  <2> QED BY <2>1, <2>2
<1>10. PICK n : n = Add(pg)
  OBVIOUS
<1> QED BY <1>1, <1>2, <1>7, <1>8, <1>9, <1>10, WalkTo

LEMMA FoundSame ==
    ASSUME NEW s, NEW t, NEW n, FoundRight(s, n),
           \A u \in Units : Steady(u) /\ place[u] # Gone =>
               (AheadOn(t, u) <=> AheadOn(s, u))
    PROVE  FoundRight(t, n)
BY DEF FoundRight

AfterFolders(s, pg) ==
    [s EXCEPT ![1] =
        [kind |-> "folders", at |-> s[1].at, enter |-> pg,
         token |-> IF pg = {} THEN s[1].token ELSE Last(pg),
         more |-> pg # Rest(FoldersIn(s[1].at), s[1].token)]]

\* A page of folders: they are to be entered, the rest is to be listed.
LEMMA FoldersRead ==
    ASSUME EstateTypes, EstateHolds, NEW s \in Seq(Entries), s # << >>, StackHolds(s),
           s[1].kind = "folders", s[1].enter = {}, s[1].more,
           NEW pg, pg = Page(FoldersIn(s[1].at), s[1].token),
           NEW t, t = AfterFolders(s, pg)
    PROVE  /\ t \in Seq(Entries) /\ StackHolds(t)
           /\ \A u \in Units : Steady(u) /\ place[u] # Gone =>
                 (AheadOn(t, u) <=> AheadOn(s, u))
<1> DEFINE here == s[1].at
           rest == Rest(FoldersIn(here), s[1].token)
           last == IF pg = {} THEN s[1].token ELSE Last(pg)
           e == [kind |-> "folders", at |-> here, enter |-> pg, token |-> last,
                 more |-> pg # rest]
<1>1. 1 \in DOMAIN s /\ here \in Containers /\ s[1].token \in Nat
  <2>1. 1 \in DOMAIN s
    OBVIOUS
  <2> QED BY <2>1, EntryIs
<1>2. /\ pg \in SUBSET Folders
      /\ rest = {f \in Folders : up[f] = here /\ s[1].token < f}
      /\ pg \subseteq rest
      /\ pg # rest => pg # {}
      /\ \A f \in rest \ pg : Last(pg) < f
      /\ pg # {} => Last(pg) \in pg
      /\ \A f \in pg : f <= Last(pg)
  <2>1. FoldersIn(here) \in SUBSET Folders /\ FoldersIn(here) \in SUBSET Nat
        /\ IsFiniteSet(FoldersIn(here))
    <3>1. FoldersIn(here) \in SUBSET Folders
      BY DEF FoldersIn
    <3> QED BY <3>1, Finite, FS_Subset
  <2>2. /\ pg \subseteq rest /\ rest \subseteq FoldersIn(here)
        /\ pg # rest => pg # {}
        /\ \A f \in rest \ pg : Last(pg) < f
        /\ pg # {} => Last(pg) \in pg /\ \A f \in pg : f <= Last(pg)
    BY <1>1, <2>1, PageIs
  <2>3. rest = {f \in Folders : up[f] = here /\ s[1].token < f}
    <3>1. \A f \in Folders : f \in Nat
      BY Finite
    <3> QED BY <1>1, <3>1 DEF Rest, FoldersIn
  <2> QED BY <2>1, <2>2, <2>3
<1> HIDE DEF rest
<1>3. last \in Nat
  BY <1>1, <1>2, Finite
<1>4. e \in Entries
  <2> HIDE DEF last
  <2> QED BY <1>1, <1>2, <1>3 DEF Entries
<1>5. /\ e.kind = "folders" /\ e.at = here /\ e.token = last /\ e.enter = pg
      /\ e.more <=> pg # rest
  OBVIOUS
<1>6. t = [s EXCEPT ![1] = e]
  BY DEF rest, AfterFolders
<1> HIDE DEF e, last
<1>7. ASSUME NEW f \in Folders PROVE Pends(e, f) <=> Pends(s[1], f)
  <2>1. Pends(s[1], f) <=> f \in rest
    BY <1>2 DEF Pends
  <2>2. Pends(e, f) <=> f \in pg \/ (up[f] = here /\ pg # rest /\ last < f)
    BY <1>5 DEF Pends
  <2>3. ASSUME f \in rest \ pg PROVE pg # rest /\ last < f /\ up[f] = here
    BY <1>2, <2>3 DEF last
  <2>4. ASSUME up[f] = here, pg # rest, last < f PROVE f \in rest
    <3>1. Last(pg) \in rest /\ last = Last(pg) /\ f \in Nat
      BY <1>2, <2>4, Finite DEF last
    <3>2. s[1].token < last
      BY <1>2, <3>1
    <3>3. s[1].token < f
      BY <1>1, <1>3, <2>4, <3>1, <3>2
    <3> QED BY <1>2, <2>4, <3>3
  <2> QED BY <1>2, <2>1, <2>2, <2>3, <2>4
<1>8. provider = "gcp"
  BY <1>1 DEF StackHolds
<1>9. \A f \in e.enter : SteadyIn(f) => up[f] = e.at /\ f <= e.token
  BY <1>2, <1>5 DEF last
<1>10. /\ t \in Seq(Entries) /\ StackHolds(t)
       /\ \A c : SteadyIn(c) => (WaitingOn(t, c) <=> WaitingOn(s, c))
  <2>1. e.kind # "units" /\ provider # "azure"
    BY <1>5, <1>8
  <2> QED BY <1>4, <1>5, <1>6, <1>7, <1>8, <1>9, <2>1, HeadReadOn
<1>11. DOMAIN t = DOMAIN s /\ t[1] = e /\ \A i \in DOMAIN s : i # 1 => t[i] = s[i]
  BY <1>1, <1>4, <1>6
<1>12. \A u \in Units, i \in DOMAIN s : Reads(t[i], u) <=> Reads(s[i], u)
  BY <1>5, <1>11 DEF Reads
<1>13. ASSUME NEW u \in Units, Steady(u), place[u] # Gone
       PROVE  AheadOn(t, u) <=> AheadOn(s, u)
  BY <1>10, <1>11, <1>12, <1>13, SteadyUnit DEF AheadOn
<1> QED BY <1>10, <1>13

\* A stack of another shape, with as much to come as before.
LEMMA StackTo ==
    ASSUME WalkInv, UNCHANGED estate_vars, pc = "walk", pc' = pc,
           allowed' = allowed, failed' = failed, found' = found,
           provider # "azure",
           NEW t \in Seq(Entries), open' = t, StackHolds(t),
           \A u \in Units : Steady(u) /\ place[u] # Gone =>
               (AheadOn(t, u) <=> AheadOn(open, u))
    PROVE  WalkInv'
<1>1. /\ EstateTypes /\ EstateHolds /\ WalkTypes /\ FitInv /\ FoundRight(open, found)
  BY DEF WalkInv, SteadyInv
<1>2. /\ failed' \in BOOLEAN /\ allowed' \subseteq Folders
      /\ found \in [Units -> IF provider = "gcp" THEN Nat ELSE 0..1]
  BY <1>1 DEF WalkTypes
<1>3. PICK n : n = found
  OBVIOUS
<1>4. FoundRight(t, n)
  BY <1>1, <1>3, FoundSame
<1>5. FitInv'
  BY <1>1, FitStays
<1> QED BY <1>1, <1>2, <1>3, <1>4, <1>5, WalkTo

LEMMA ListFoldersKeeps == WalkInv /\ ListFolders => WalkInv'
<1> SUFFICES ASSUME WalkInv, ListFolders PROVE WalkInv'
  OBVIOUS
<1>1. /\ pc = "walk" /\ open # << >> /\ open[1].kind = "folders" /\ open[1].enter = {}
      /\ open[1].more /\ UNCHANGED estate_vars /\ allowed' = allowed /\ failed' = failed
      /\ pc' = pc /\ found' = found
      /\ EstateTypes /\ EstateHolds /\ open \in Seq(Entries) /\ StackHolds(open)
  BY DEF WalkInv, WalkTypes, ListFolders, Reading, StackInv
<1>2. PICK s \in Seq(Entries) : s = open
  BY <1>1
<1>3. PICK pg : pg = Page(FoldersIn(s[1].at), s[1].token)
  OBVIOUS
<1>4. PICK t : t = AfterFolders(s, pg)
  OBVIOUS
<1>5. open' = t
  BY <1>2, <1>3, <1>4 DEF ListFolders, AfterFolders
<1>6. /\ t \in Seq(Entries) /\ StackHolds(t)
      /\ \A u \in Units : Steady(u) /\ place[u] # Gone =>
            (AheadOn(t, u) <=> AheadOn(s, u))
  BY <1>1, <1>2, <1>3, <1>4, FoldersRead
<1>7. provider # "azure"
  <2>1. 1 \in DOMAIN s
    BY <1>1, <1>2
  <2> QED BY <1>1, <1>2, <2>1 DEF StackHolds
<1> QED BY <1>1, <1>2, <1>5, <1>6, <1>7, StackTo

LEMMA EnterFolderKeeps == WalkInv /\ EnterFolder => WalkInv'
<1> SUFFICES ASSUME WalkInv, EnterFolder PROVE WalkInv'
  OBVIOUS
<1>1. /\ pc = "walk" /\ open # << >> /\ open[1].kind = "folders" /\ open[1].enter # {}
      /\ UNCHANGED estate_vars /\ allowed' = allowed /\ failed' = failed
      /\ pc' = pc /\ found' = found
      /\ EstateTypes /\ EstateHolds /\ open \in Seq(Entries) /\ StackHolds(open)
  BY DEF WalkInv, WalkTypes, EnterFolder, Reading, StackInv
<1>2. PICK s \in Seq(Entries) : s = open
  BY <1>1
<1>3. PICK f, t : f = First(s[1].enter) /\ t = Entering(s)
  OBVIOUS
<1>4. open' = t
  BY <1>2, <1>3 DEF EnterFolder, Entering
<1>5. /\ t \in Seq(Entries) /\ StackHolds(t)
      /\ \A u \in Units : Steady(u) /\ place[u] # Gone =>
            (AheadOn(t, u) <=> AheadOn(s, u))
  BY <1>1, <1>2, <1>3, Entered
<1>6. provider # "azure"
  <2>1. 1 \in DOMAIN s
    BY <1>1, <1>2
  <2> QED BY <1>1, <1>2, <2>1 DEF StackHolds
<1> QED BY <1>1, <1>2, <1>4, <1>5, <1>6, StackTo

LEMMA LeaveFolderKeeps == WalkInv /\ LeaveFolder => WalkInv'
<1> SUFFICES ASSUME WalkInv, LeaveFolder PROVE WalkInv'
  OBVIOUS
<1>1. /\ pc = "walk" /\ open # << >> /\ open[1].kind = "folders" /\ open[1].enter = {}
      /\ ~open[1].more
      /\ UNCHANGED estate_vars /\ allowed' = allowed /\ failed' = failed
      /\ pc' = pc /\ found' = found
      /\ EstateTypes /\ EstateHolds /\ open \in Seq(Entries) /\ StackHolds(open)
  BY DEF WalkInv, WalkTypes, LeaveFolder, Reading, StackInv
<1>2. PICK s \in Seq(Entries) : s = open
  BY <1>1
<1>3. PICK t : t = Tail(s) /\ open' = t
  BY <1>2 DEF LeaveFolder
<1>4. \A f \in Folders : ~Pends(s[1], f)
  BY <1>1, <1>2 DEF Pends
<1>5. /\ t \in Seq(Entries) /\ StackHolds(t)
      /\ \A c : SteadyIn(c) => (WaitingOn(t, c) <=> WaitingOn(s, c))
  BY <1>1, <1>2, <1>3, <1>4, HeadDone
<1>6. /\ \A i \in DOMAIN t : i + 1 \in DOMAIN s /\ t[i] = s[i + 1]
      /\ \A i \in DOMAIN s : i # 1 => i - 1 \in DOMAIN t /\ t[i - 1] = s[i]
      /\ 1 \in DOMAIN s
  BY <1>1, <1>2, <1>3, TailIs
<1>7. ASSUME NEW u \in Units, Steady(u), place[u] # Gone
      PROVE  AheadOn(t, u) <=> AheadOn(s, u)
  <2>1. WaitingOn(t, place[u]) <=> WaitingOn(s, place[u])
    BY <1>1, <1>5, <1>7, SteadyUnit
  <2>2. ASSUME NEW i \in DOMAIN s, Reads(s[i], u) PROVE \E j \in DOMAIN t : Reads(t[j], u)
    <3>1. i # 1
      BY <1>1, <1>2, <2>2 DEF Reads
    <3> QED BY <1>6, <2>2, <3>1
  <2>3. ASSUME NEW i \in DOMAIN t, Reads(t[i], u) PROVE \E j \in DOMAIN s : Reads(s[j], u)
    BY <1>6, <2>3
  <2> QED BY <2>1, <2>2, <2>3 DEF AheadOn
<1>8. provider # "azure"
  BY <1>1, <1>2, <1>6 DEF StackHolds
<1> QED BY <1>1, <1>2, <1>3, <1>5, <1>7, <1>8, StackTo

LEMMA ConcludeKeeps == WalkInv /\ Conclude => WalkInv'
<1> SUFFICES ASSUME WalkInv, Conclude PROVE WalkInv'
  OBVIOUS
<1>1. /\ pc = "walk" /\ open = << >> /\ UNCHANGED estate_vars
      /\ allowed' = allowed /\ failed' = failed
      /\ EstateTypes /\ EstateHolds /\ WalkTypes /\ FitInv /\ FoundRight(open, found)
  BY DEF WalkInv, Conclude, SteadyInv
<1>2. /\ failed = FALSE /\ allowed \subseteq Folders
      /\ found \in [Units -> IF provider = "gcp" THEN Nat ELSE 0..1]
      /\ \A u \in Units : found[u] \in Nat
      /\ provider \in {"aws", "gcp", "azure", "supabase"} /\ current \in Units
  BY <1>1 DEF WalkTypes, FitInv, EstateTypes
<1>3. ASSUME moved = {}, provider # "azure"
      PROVE  \A u \in Units : found[u] = IF place[u] = Gone THEN 0 ELSE 1
  BY <1>1, <1>3, AllSteady, NoneTyped DEF FoundRight, OnFirstPages
<1> DEFINE groups == Page(Existing, 0)
<1>4. ASSUME moved = {}, provider = "azure"
      PROVE  /\ \A u \in Units : found[u] > 0 => place[u] \in groups
             /\ \A u \in Units : place[u] \in groups =>
                   \E v \in Units : place[v] = place[u] /\ found[v] > 0
  BY <1>1, <1>4 DEF FitInv
<1> HIDE DEF groups
<1> DEFINE unfit == Listed = {} \/ (provider = "aws" /\ current \notin Listed)
<1>5. ASSUME moved = {} PROVE unfit <=> Unscopable
  <2>1. CASE provider = "aws"
    <3>1. organizations = 1 /\ \A u \in Units : place[u] \in {Root, Gone}
      BY <1>1, <2>1 DEF FitInv, EstateHolds
    <3>2. current \in Listed <=> place[current] = Root
      BY <1>2, <1>3, <1>5, <2>1, <3>1, RootApart DEF Listed
    <3> QED BY <2>1, <3>1, <3>2 DEF Unscopable
  <2>2. CASE provider \in {"gcp", "supabase"}
    <3>1. \A u \in Units : u \in Listed <=> place[u] # Gone
      BY <1>3, <1>5, <2>2 DEF Listed
    <3>2. provider = "gcp" => Cardinality(Page(1..organizations, 0)) = 1
      BY <1>1 DEF FitInv
    <3>3. Listed = {} <=> \A u \in Units : place[u] = Gone
      BY <3>1 DEF Listed
    <3> QED BY <2>2, <3>2, <3>3 DEF Unscopable
  <2>3. CASE provider = "azure"
    <3>1. Listed = {} <=> \A u \in Units : place[u] \notin groups
      BY <1>2, <1>4, <1>5, <2>3 DEF Listed
    <3> QED BY <2>3, <3>1 DEF Unscopable, groups
  <2> QED BY <1>2, <2>1, <2>2, <2>3
<1>6. CASE unfit
  <2>1. Refuse
    BY <1>6 DEF Conclude
  <2> QED BY <1>1, <1>2, <1>5, <1>6, <2>1, RefuseKeeps
<1>7. CASE ~unfit
  <2>1. pc' = "listed" /\ open' = << >> /\ found' = found
    BY <1>1, <1>7 DEF Conclude
  <2>2. FitInv'
    <3>1. Unscopable' <=> Unscopable
      BY <1>1, EstateSame
    <3> QED BY <1>1, <1>2, <1>5, <1>7, <2>1, <3>1 DEF FitInv, estate_vars
  <2>3. PICK n : n = found
    OBVIOUS
  <2> QED BY <1>1, <1>2, <2>1, <2>2, <2>3, NoneTyped, WalkTo
<1> QED BY <1>6, <1>7

LEMMA CallFailsKeeps == WalkInv /\ CallFails => WalkInv'
<1> SUFFICES ASSUME WalkInv, CallFails PROVE WalkInv'
  OBVIOUS
<1>1. UNCHANGED estate_vars /\ Refuse /\ allowed' = allowed /\ failed' = TRUE
  BY DEF CallFails
<1>2. allowed' \subseteq Folders
  BY <1>1 DEF WalkInv, WalkTypes
<1> QED BY <1>1, <1>2, RefuseKeeps

LEMMA WalkStill == WalkInv /\ UNCHANGED <<estate_vars, walk_vars>> => WalkInv'
<1> SUFFICES ASSUME WalkInv, UNCHANGED <<estate_vars, walk_vars>> PROVE WalkInv'
  OBVIOUS
<1>1. /\ EstateTypes /\ EstateHolds /\ WalkTypes /\ StackInv /\ SteadyInv /\ FitInv
      /\ UNCHANGED estate_vars /\ pc' = pc /\ open' = open /\ found' = found
      /\ allowed' = allowed /\ failed' = failed
  BY DEF WalkInv, walk_vars
<1>2. PICK s, n : s = open /\ n = found
  OBVIOUS
<1>3. FitInv'
  <2>1. Existing' = Existing /\ (Unscopable' <=> Unscopable)
    BY <1>1, EstateSame
  <2>2. /\ provider' = provider /\ organizations' = organizations
        /\ place' = place /\ moved' = moved
    BY <1>1 DEF estate_vars
  <2>3. Page(Existing, 0)' = Page(Existing, 0)
    BY <2>1 DEF Page, Rest
  <2>4. Page(1..organizations, 0)' = Page(1..organizations, 0)
    BY <2>2 DEF Page, Rest
  <2> QED BY <1>1, <2>1, <2>2, <2>3, <2>4 DEF FitInv
<1>4. /\ s \in Seq(Entries) /\ StackHolds(s) /\ (pc' # "walk" => s = << >>)
      /\ n \in [Units -> IF provider = "gcp" THEN Nat ELSE 0..1]
      /\ pc' \in {"walk", "listed"} => FoundRight(s, n)
      /\ pc' \in {"idle", "organizations", "walk", "listed", "alone", "refused"}
      /\ pc' \in {"idle", "organizations"} => n = NoneFound
      /\ allowed' \subseteq Folders /\ failed' \in BOOLEAN
  BY <1>1, <1>2 DEF WalkTypes, StackInv, SteadyInv
<1> QED BY <1>1, <1>2, <1>3, <1>4, WalkTo
-----------------------------------------------------------------------------
(* Folders and units come, go and move. *)

\* A folder that moves to where it hangs from the root leaves the rest rooted.
LEMMA MovedRooted ==
    ASSUME NEW tree \in [Folders -> Places], NEW new \in [Folders -> Places],
           NEW f \in Folders, \A g \in Folders : g # f => new[g] = tree[g],
           Root \in Upward(tree, new[f]), f \notin Upward(tree, new[f]),
           NEW x \in Places, Root \in Upward(tree, x)
    PROVE  Root \in Upward(new, x)
<1>1. Root \in Upward(new, new[f])
  <2>1. Upward(new, new[f]) = Upward(tree, new[f])
    <3>1. new[f] \in Places
      OBVIOUS
    <3>2. \A g \in Upward(tree, new[f]) \cap Folders : new[g] = tree[g]
      OBVIOUS
    <3> QED BY <3>1, <3>2, UpwardFrame
  <2> QED BY <2>1
<1>2. CASE f \in Upward(new, x)
  <2>1. new[f] \in Upward(new, x)
    BY <1>2, UpwardIs
  <2>2. Upward(new, new[f]) \subseteq Upward(new, x)
    BY <2>1, UpwardMonotone
  <2> QED BY <1>1, <2>2
<1>3. CASE f \notin Upward(new, x)
  <2>1. \A g \in Upward(new, x) \cap Folders : tree[g] = new[g]
    BY <1>3
  <2>2. Upward(tree, x) = Upward(new, x)
    BY <2>1, UpwardFrame
  <2> QED BY <2>2
<1> QED BY <1>2, <1>3

\* An empty folder that goes is above nothing else.
LEMMA GoneRooted ==
    ASSUME NEW tree \in [Folders -> Places], NEW new \in [Folders -> Places],
           NEW f \in Folders, \A g \in Folders : g # f => new[g] = tree[g],
           \A g \in Folders : tree[g] # f,
           NEW x \in Places, x # f, Root \in Upward(tree, x)
    PROVE  Root \in Upward(new, x)
<1>1. f \notin Upward(tree, x)
  BY UpwardChild
<1>2. Upward(new, x) = Upward(tree, x)
  BY <1>1, UpwardFrame
<1> QED BY <1>2

LEMMA UnitPlacesAre ==
    ASSUME EstateTypes, NEW c \in UnitPlaces
    PROVE  /\ c \in Containers /\ c # Gone /\ c \in Places /\ Root \in Above(c)
           /\ provider = "aws" => c = Root
           /\ provider \in {"azure", "supabase"} => c \in Folders
<1>1. Root \in Above(Root)
  BY AboveRoot
<1>2. CASE provider = "aws"
  BY <1>1, <1>2, RootApart DEF UnitPlaces, Places
<1>3. CASE provider = "gcp"
  BY <1>3, RootApart DEF UnitPlaces, Places
<1>4. CASE provider \in {"azure", "supabase"}
  <2>1. c \in Folders /\ up[c] = Root
    BY <1>4 DEF UnitPlaces
  <2>2. Above(c) = {c} \cup Above(up[c])
    BY <2>1, UpwardStep, AboveIs DEF EstateTypes
  <2> QED BY <1>1, <1>4, <2>1, <2>2, RootApart DEF Containers, Places
<1> QED BY <1>2, <1>3, <1>4 DEF EstateTypes

LEMMA MoveUnitKeeps ==
    ASSUME EstateTypes, EstateHolds, NEW u \in Units, MoveUnit(u),
           UNCHANGED <<provider, current, organizations>>,
           changes' \in 0..MaxChanges
    PROVE  /\ EstateTypes' /\ EstateHolds'
           /\ moved \subseteq moved' /\ moved' # {}
           /\ \A f \in Folders : up'[f] = up[f] \/ f \in moved'
           /\ \A v \in Units : place'[v] = place[v] \/ v \in moved'
<1>1. PICK c \in UnitPlaces \cup {Gone} : place' = [place EXCEPT ![u] = c]
  BY DEF MoveUnit
<1>2. up' = up /\ moved' = moved \cup {u} /\ provider' = provider
  BY DEF MoveUnit
<1>3. \A x : Above(x)' = Above(x)
  BY <1>2 DEF Above
<1>5. c # Gone => /\ c \in Containers /\ Root \in Above(c)
                  /\ provider = "aws" => c = Root
                  /\ provider \in {"azure", "supabase"} => c \in Folders
  BY <1>1, UnitPlacesAre
<1>6. c \in Places
  BY <1>5 DEF Places
<1>7. place \in [Units -> Places] /\ place' \in [Units -> Places]
      /\ \A v \in Units : place'[v] = IF v = u THEN c ELSE place[v]
  BY <1>1, <1>6 DEF EstateTypes
<1>8. EstateTypes'
  BY <1>2, <1>7 DEF EstateTypes
<1>9. EstateHolds'
  <2>1. ASSUME NEW v \in Units, place'[v] # Gone PROVE Root \in (Above(place[v]))'
    <3>1. PICK d : d = place'[v]
      OBVIOUS
    <3>2. (Above(place[v]))' = Above(d)'
      BY <3>1 DEF Above
    <3>3. Root \in Above(d)
      BY <1>5, <1>7, <2>1, <3>1 DEF EstateHolds
    <3> QED BY <1>3, <3>2, <3>3
  <2>2. \A f \in Folders : up'[f] # Gone => Root \in Above(f)'
    BY <1>2, <1>3 DEF EstateHolds
  <2>3. provider = "aws" => \A v \in Units : place'[v] \in {Root, Gone}
    BY <1>5, <1>7 DEF EstateHolds
  <2>4. provider \in {"azure", "supabase"} => \A v \in Units : place'[v] \in Folders \cup {Gone}
    BY <1>5, <1>7 DEF EstateHolds
  <2> QED BY <1>2, <2>1, <2>2, <2>3, <2>4 DEF EstateHolds
<1> QED BY <1>2, <1>7, <1>8, <1>9

LEMMA MoveFolderKeeps ==
    ASSUME EstateTypes, EstateHolds, NEW f \in Folders, MoveFolder(f),
           UNCHANGED <<provider, current, organizations>>,
           changes' \in 0..MaxChanges
    PROVE  /\ EstateTypes' /\ EstateHolds'
           /\ moved \subseteq moved' /\ moved' # {}
           /\ \A g \in Folders : up'[g] = up[g] \/ g \in moved'
           /\ \A v \in Units : place'[v] = place[v] \/ v \in moved'
<1>1. PICK c \in FolderPlaces(f) : up' = [up EXCEPT ![f] = c]
  BY DEF MoveFolder
<1>2. place' = place /\ moved' = moved \cup {f} /\ provider' = provider /\ provider # "aws"
  BY DEF MoveFolder
<1>3. /\ up \in [Folders -> Places] /\ Root \in Places /\ Gone \in Places
      /\ f \in Places /\ Folders \subseteq Places
  BY RootApart DEF EstateTypes, Places, Containers
<1>4. Upward(up, Root) = {Root} /\ f # Root
  BY <1>3, UpwardStep, RootApart
<1>5. \/ /\ c \in Containers /\ Root \in Upward(up, c) /\ f \notin Upward(up, c)
         /\ provider # "gcp" => c = Root
      \/ c = Gone /\ IsEmpty(f)
  <2>1. CASE provider = "gcp"
    BY <1>1, <2>1, AboveIs DEF FolderPlaces
  <2>2. CASE provider # "gcp"
    <3>1. c = Root \/ (c = Gone /\ IsEmpty(f))
      BY <1>1, <2>2 DEF FolderPlaces
    <3> QED BY <3>1, <1>4, RootApart
  <2> QED BY <2>1, <2>2
<1>6. c \in Places
  BY <1>5 DEF Places
<1> DEFINE new == up'
<1>7. /\ new \in [Folders -> Places] /\ new[f] = c
      /\ \A g \in Folders : g # f => new[g] = up[g]
  BY <1>1, <1>3, <1>6
<1>8. \A x : Above(x)' = Upward(new, x)
  BY Zenon DEF Above, Upward, FoldersUp, ClosedUp
<1>9. PICK tree : tree = new
  OBVIOUS
<1> HIDE DEF new
<1>10. ASSUME NEW x \in Places, Root \in Upward(up, x), x # f \/ c # Gone
       PROVE  Root \in Upward(tree, x)
  <2>1. CASE c = Gone /\ IsEmpty(f)
    <3>1. \A g \in Folders : up[g] # f
      BY <2>1 DEF IsEmpty
    <3> QED BY <1>3, <1>7, <1>9, <1>10, <2>1, <3>1, GoneRooted
  <2>2. CASE c \in Containers /\ Root \in Upward(up, c) /\ f \notin Upward(up, c)
    BY <1>3, <1>7, <1>9, <1>10, <2>2, MovedRooted
  <2> QED BY <1>5, <2>1, <2>2
<1>11. ASSUME NEW g \in Folders, tree[g] # Gone PROVE Root \in Upward(tree, g)
  <2>1. CASE g = f
    <3>1. c # Gone /\ Root \in Upward(up, c)
      BY <1>5, <1>7, <1>9, <1>11, <2>1, RootApart
    <3>2. Root \in Upward(tree, c)
      BY <1>6, <1>10, <3>1
    <3>3. Upward(tree, f) = {f} \cup Upward(tree, c)
      BY <1>7, <1>9, UpwardStep
    <3> QED BY <2>1, <3>2, <3>3
  <2>2. CASE g # f
    <3>1. Root \in Upward(up, g)
      BY <1>7, <1>9, <1>11, <2>2, AboveIs DEF EstateHolds
    <3> QED BY <1>3, <1>10, <2>2, <3>1
  <2> QED BY <2>1, <2>2
<1>12. ASSUME NEW u \in Units, place[u] # Gone PROVE Root \in Upward(tree, place[u])
  <2>1. place[u] \in Places /\ Root \in Upward(up, place[u])
    BY <1>12, AboveIs DEF EstateTypes, EstateHolds
  <2>2. place[u] # f \/ c # Gone
    BY <1>5, RootApart DEF IsEmpty
  <2> QED BY <1>10, <2>1, <2>2
<1>13. up' = tree
  BY <1>9 DEF new
<1>14. EstateTypes'
  BY <1>2, <1>7, <1>9, <1>13 DEF EstateTypes
<1>15. EstateHolds'
  <2>1. ASSUME NEW u \in Units, place'[u] # Gone PROVE Root \in (Above(place[u]))'
    <3>1. PICK d : d = place'[u]
      OBVIOUS
    <3>2. (Above(place[u]))' = Above(d)'
      BY <3>1 DEF Above
    <3> QED BY <1>2, <1>8, <1>9, <1>12, <2>1, <3>1, <3>2
  <2>2. \A g \in Folders : up'[g] # Gone => Root \in Above(g)'
    BY <1>8, <1>9, <1>11, <1>13
  <2>3. provider # "gcp" => \A g \in Folders : up'[g] \in {Root, Gone}
    BY <1>5, <1>7, <1>9, <1>13 DEF EstateHolds
  <2> QED BY <1>2, <2>1, <2>2, <2>3 DEF EstateHolds
<1> QED BY <1>2, <1>7, <1>9, <1>13, <1>14, <1>15

\* What has changed since the walk began is what nothing is claimed of.
LEMMA EstateMoves ==
    ASSUME WalkInv, EstateTypes', EstateHolds', moved \subseteq moved', moved' # {},
           UNCHANGED <<provider, current, organizations, walk_vars>>,
           \A f \in Folders : up'[f] = up[f] \/ f \in moved',
           \A u \in Units : place'[u] = place[u] \/ u \in moved'
    PROVE  WalkInv'
<1>1. /\ EstateTypes /\ EstateHolds /\ WalkTypes /\ StackInv /\ SteadyInv /\ FitInv
      /\ pc' = pc /\ open' = open /\ found' = found
      /\ allowed' = allowed /\ failed' = failed
  BY DEF WalkInv, walk_vars
<1>2. PICK s, n : s \in Seq(Entries) /\ s = open /\ n = found
  BY <1>1 DEF WalkTypes
<1>3. StackHolds(s)'
  BY <1>1, <1>2, StackStill DEF StackInv
<1>4. FoundRight(s, n) => FoundRight(s, n)'
  BY <1>1, <1>2, FoundStill
<1>5. StackInv'
  BY <1>1, <1>2, <1>3 DEF StackInv
<1>6. SteadyInv'
  BY <1>1, <1>2, <1>4 DEF SteadyInv
<1>7. FitInv'
  <2>1. Page(1..organizations, 0)' = Page(1..organizations, 0)
    BY DEF Page, Rest
  <2> QED BY <1>1, <2>1 DEF FitInv
<1>8. WalkTypes'
  BY <1>1 DEF WalkTypes, NoneFound
<1> QED BY <1>5, <1>6, <1>7, <1>8 DEF WalkInv

LEMMA EstateChangesKeeps == WalkInv /\ EstateChanges => WalkInv'
<1> SUFFICES ASSUME WalkInv, EstateChanges PROVE WalkInv'
  OBVIOUS
<1>1. /\ EstateTypes /\ EstateHolds
      /\ UNCHANGED <<provider, current, organizations, walk_vars>>
  BY DEF WalkInv, EstateChanges
<1>2. changes' \in 0..MaxChanges
  BY <1>1, BoundsAssumption DEF EstateChanges, EstateTypes
<1>3. CASE \E u \in Units : MoveUnit(u)
  BY <1>1, <1>2, <1>3, MoveUnitKeeps, EstateMoves
<1>4. CASE \E f \in Folders : MoveFolder(f)
  BY <1>1, <1>2, <1>4, MoveFolderKeeps, EstateMoves
<1> QED BY <1>3, <1>4 DEF EstateChanges

LEMMA WalkStepKeeps == WalkInv /\ WalkStep => WalkInv'
BY DescribeOrganizationKeeps, SearchOrganizationsKeeps, ListManagementGroupsKeeps,
   ListSupabaseOrganizationsKeeps, ListProjectsKeeps, ListUnitsKeeps,
   ListFoldersKeeps, EnterFolderKeeps, LeaveFolderKeeps, ConcludeKeeps
   DEF WalkStep

LEMMA WalkFaultKeeps == WalkInv /\ WalkFault => WalkInv'
<1>1. EmptyPage => UNCHANGED <<estate_vars, walk_vars>>
  BY DEF EmptyPage
<1> QED BY <1>1, CallFailsKeeps, WalkStill DEF WalkFault
-----------------------------------------------------------------------------
(* Where it begins. *)

\* Every folder of a tree with depths hangs from the root: otherwise the least
\* deep of those that do not would hang from one that does not either.
LEMMA DeepRooted ==
    ASSUME EstateTypes,
           NEW depth \in [Folders -> Nat],
           \A f \in Folders : up[f] \in Folders =>
               depth[up[f]] < depth[f] /\ up[up[f]] # Gone
    PROVE  \A f \in Folders : up[f] # Gone => Root \in Above(f)
<1> DEFINE Adrift == {f \in Folders : up[f] # Gone /\ Root \notin Above(f)}
           Depths == {depth[f] : f \in Adrift}
<1>1. SUFFICES ASSUME Adrift # {} PROVE FALSE
  OBVIOUS
<1>2. Depths \in SUBSET Nat /\ Depths # {}
  BY <1>1
<1>3. PICK n \in Depths : \A m \in Depths : n <= m
  <2> HIDE DEF Depths
  <2> QED BY <1>2, FirstIs
<1>4. PICK f \in Adrift : depth[f] = n
  BY <1>3
<1>5. up[f] \in Places /\ Above(f) = {f} \cup Above(up[f])
  BY <1>4, UpwardStep, AboveIs DEF EstateTypes
<1>6. up[f] # Root
  BY <1>4, <1>5, AboveRoot
<1>7. up[f] \in Folders
  BY <1>4, <1>5, <1>6 DEF Places, Containers
<1>8. depth[up[f]] < depth[f] /\ up[up[f]] # Gone
  BY <1>4, <1>7
<1>9. up[f] \notin Adrift
  <2>1. ASSUME up[f] \in Adrift PROVE FALSE
    <3>1. n <= depth[up[f]]
      BY <2>1, <1>3
    <3>2. depth[up[f]] \in Nat /\ n \in Nat
      BY <1>2, <1>7
    <3> QED BY <1>4, <1>8, <3>1, <3>2
  <2> QED BY <2>1
<1> QED BY <1>4, <1>5, <1>7, <1>8, <1>9

LEMMA InitWalk == Init => WalkInv
<1> SUFFICES ASSUME Init PROVE WalkInv
  OBVIOUS
<1>1. /\ provider \in {"aws", "gcp", "azure", "supabase"} /\ InitEstate
      /\ pc \in {"idle", "organizations"}
  BY DEF Init
<1>2. current \in Units
  BY <1>1, Finite, FirstIs DEF InitEstate
<1>3. /\ organizations \in 0..2 /\ moved = {} /\ changes = 0
      /\ open = << >> /\ allowed = {} /\ found = NoneFound /\ failed = FALSE
      /\ provider = "aws" => organizations \in 0..1
  BY <1>1 DEF InitEstate
<1>4. up \in [Folders -> Places]
  BY <1>1 DEF InitEstate, Places
<1>5. place \in [Units -> Places] /\ \A u \in Units : place[u] \in UnitPlaces \cup {Gone}
  BY <1>1 DEF InitEstate, Places
<1>6. EstateTypes
  BY <1>1, <1>2, <1>3, <1>4, <1>5, BoundsAssumption DEF EstateTypes
<1>7. /\ provider # "gcp" => \A f \in Folders : up[f] \in {Root, Gone}
      /\ provider = "aws" => \A f \in Folders : up[f] = Gone
  BY <1>1 DEF InitEstate
<1>8. \A f \in Folders : up[f] # Gone => Root \in Above(f)
  <2>1. CASE provider = "gcp"
    <3>1. PICK depth \in [Folders -> 1..Cardinality(Folders)] :
              \A f \in Folders : up[f] \in Folders =>
                  depth[up[f]] < depth[f] /\ up[up[f]] # Gone
      BY <1>1, <2>1 DEF InitEstate
    <3>2. depth \in [Folders -> Nat]
      <4>1. 1..Cardinality(Folders) \in SUBSET Nat
        BY Finite, FS_CardinalityType
      <4> QED BY <3>1, <4>1
    <3> QED BY <1>6, <3>1, <3>2, DeepRooted
  <2>2. CASE provider # "gcp"
    <3>1. ASSUME NEW f \in Folders, up[f] # Gone PROVE Root \in Above(f)
      <4>1. up[f] = Root /\ Above(f) = {f} \cup Above(up[f])
        BY <1>4, <1>7, <2>2, <3>1, UpwardStep, AboveIs
      <4> QED BY <1>6, <4>1, AboveRoot
    <3> QED BY <3>1
  <2> QED BY <2>1, <2>2
<1>9. EstateHolds
  <2>1. \A u \in Units : place[u] # Gone =>
            /\ Root \in Above(place[u])
            /\ provider = "aws" => place[u] = Root
            /\ provider \in {"azure", "supabase"} => place[u] \in Folders
    BY <1>5, <1>6, UnitPlacesAre
  <2> QED BY <1>3, <1>7, <1>8, <2>1 DEF EstateHolds
<1>10. WalkTypes
  BY <1>1, <1>3, NoneTyped DEF WalkTypes
<1>11. StackInv /\ SteadyInv /\ FitInv
  BY <1>1, <1>3, NoneTyped DEF StackInv, SteadyInv, FitInv
<1> QED BY <1>6, <1>9, <1>10, <1>11 DEF WalkInv
-----------------------------------------------------------------------------
(* The count. *)

LEMMA CountQuiet ==
    ASSUME poll'.left = {}, poll'.asking = {}, poll'.counting = {},
           poll'.slots = Fanout, poll'.connected = 0, poll'.pc # "probe"
    PROVE  CountInv'
<1>1. Cardinality({}) = 0 /\ Fanout \in Nat
  BY FS_EmptySet, OnboardingAssumption
<1>2. poll'.asking \cup poll'.counting = {}
  OBVIOUS
<1>3. Cardinality(poll'.asking \cup poll'.counting) + poll'.slots = Fanout
  BY <1>1, <1>2
<1> QED BY <1>3 DEF CountInv

\* No probe: there is nothing to be counted.
LEMMA Quiet ==
    ASSUME PollTypes, CountInv, poll.pc # "probe"
    PROVE  /\ poll.left = {} /\ poll.asking = {} /\ poll.counting = {}
           /\ poll.slots = Fanout /\ poll.connected = 0
<1>1. poll.left = {} /\ poll.asking = {} /\ poll.counting = {} /\ poll.connected = 0
  BY DEF CountInv
<1>2. poll.asking \cup poll.counting = {} /\ poll.slots \in Nat
  BY <1>1 DEF PollTypes
<1>3. Cardinality({}) = 0
  BY FS_EmptySet
<1> QED BY <1>1, <1>2, <1>3 DEF CountInv

\* While roles change, what is counted stays between the bounds.
LEMMA CountStill ==
    ASSUME CountInv, poll' = poll, page'.tenant = page.tenant, found' = found,
           current' = current, moved \subseteq moved',
           \A u \in Units : trust'[u] = trust[u] \/ u \in moved'
    PROVE  CountInv'
<1>1. Listed' = Listed /\ Members' = Members /\ Through' = Through
  BY DEF Listed, Members, Through
<1>2. Perhaps \subseteq Perhaps' /\ Surely' \subseteq Surely
  BY DEF Perhaps, Surely, Listed
<1>3. CASE poll.pc # "probe"
  BY <1>3 DEF CountInv
<1>4. CASE poll.pc = "probe"
  <2>1. PICK C \in SUBSET (Through \cap Perhaps) :
            poll.connected = 1 + Cardinality(C) /\ Surely \cap Through \subseteq C
    BY <1>4 DEF CountInv
  <2>2. /\ C \in SUBSET (Through' \cap Perhaps') /\ Surely' \cap Through' \subseteq C
        /\ poll'.connected = 1 + Cardinality(C)
    BY <1>1, <1>2, <2>1
  <2>3. poll'.counting \subseteq Perhaps' /\
        poll'.left \cup poll'.asking \cup poll'.counting \subseteq Members'
    BY <1>1, <1>2, <1>4 DEF CountInv
  <2> QED BY <1>4, <2>2, <2>3 DEF CountInv
<1> QED BY <1>3, <1>4

LEMMA ProbesFinite ==
    ASSUME EstateTypes, PollTypes
    PROVE  /\ IsFiniteSet(poll.asking \cup poll.counting)
           /\ Members \in SUBSET Units /\ IsFiniteSet(Members)
           /\ Perhaps \in SUBSET Members /\ Surely \in SUBSET Members
           /\ Through \in SUBSET Members
           /\ \A S \in SUBSET Members : IsFiniteSet(S) /\ Cardinality(S) \in Nat
           /\ Cardinality(Members) < Cardinality(Units)
<1>1. poll.asking \cup poll.counting \in SUBSET Units
  BY DEF PollTypes
<1>2. /\ Members \in SUBSET Units
      /\ Perhaps \in SUBSET Members /\ Surely \in SUBSET Members
      /\ Through \in SUBSET Members
  BY DEF Members, Listed, Perhaps, Surely, Through
<1>3. IsFiniteSet(Units)
  BY Finite
<1>4. IsFiniteSet(poll.asking \cup poll.counting) /\ IsFiniteSet(Members)
  BY <1>1, <1>2, <1>3, FS_Subset
<1>5. \A S \in SUBSET Members : IsFiniteSet(S) /\ Cardinality(S) \in Nat
  BY <1>4, FS_Subset, FS_CardinalityType
<1>6. Members \subseteq Units \ {current} /\ current \in Units
  BY <1>2 DEF Members, EstateTypes
<1>7. Cardinality(Units \ {current}) = Cardinality(Units) - 1
      /\ IsFiniteSet(Units \ {current})
  BY <1>3, <1>6, FS_RemoveElement
<1>8. Cardinality(Members) <= Cardinality(Units \ {current})
  BY <1>6, <1>7, FS_Subset
<1>9. Cardinality(Members) \in Nat /\ Cardinality(Units) \in Nat
  BY <1>3, <1>5, FS_CardinalityType
<1>10. Cardinality(Members) < Cardinality(Units)
  BY <1>7, <1>8, <1>9
<1> QED BY <1>1, <1>2, <1>4, <1>5, <1>10

\* A probe ends, counted or for a reason not to be.
LEMMA ProbeEnds ==
    ASSUME EstateTypes, PollTypes, CountInv, poll.pc = "probe", poll'.pc = "probe",
           NEW u \in poll.asking \cup poll.counting,
           poll'.left = poll.left, poll'.asking = poll.asking \ {u},
           poll'.counting = poll.counting \ {u}, poll'.slots = poll.slots + 1,
           UNCHANGED <<page, found, current, moved, trust>>,
           poll.throttled \subseteq poll'.throttled,
           \/ u \in poll.counting /\ poll'.connected = poll.connected + 1
           \/ u \notin Surely' /\ poll'.connected = poll.connected
    PROVE  CountInv'
<1>1. Members' = Members /\ Perhaps' = Perhaps /\ Surely' \subseteq Surely
  BY DEF Members, Perhaps, Surely, Listed
<1>2. PICK C \in SUBSET (Through \cap Perhaps) :
          poll.connected = 1 + Cardinality(C) /\ Surely \cap Through \subseteq C
  BY DEF CountInv
<1>3. /\ poll.asking \cap poll.counting = {}
      /\ poll.left \cap (poll.asking \cup poll.counting) = {}
      /\ poll.left \cup poll.asking \cup poll.counting \subseteq Members
      /\ poll.counting \subseteq Perhaps
  BY DEF CountInv
<1>4. Through' = Through \cup {u} /\ u \notin Through
  BY <1>1, <1>3 DEF Through
<1>5. Cardinality(poll'.asking \cup poll'.counting) + poll'.slots = Fanout
  <2> DEFINE S == poll.asking \cup poll.counting
  <2>1. poll'.asking \cup poll'.counting = S \ {u}
    OBVIOUS
  <2>2. IsFiniteSet(S) /\ Cardinality(S) \in Nat
    BY ProbesFinite, FS_CardinalityType
  <2>3. Cardinality(S \ {u}) = Cardinality(S) - 1
    BY <2>2, FS_RemoveElement
  <2>4. Cardinality(S) + poll.slots = Fanout /\ poll.slots \in Nat
    BY DEF CountInv, PollTypes
  <2>5. PICK m \in Nat : m = Cardinality(S)
    BY <2>2
  <2>6. Cardinality(poll'.asking \cup poll'.counting) = m - 1
    BY <2>1, <2>3, <2>5
  <2>7. PICK k \in Nat : k = poll.slots
    BY <2>4
  <2>8. m + k = Fanout /\ poll'.slots = k + 1
    BY <2>4, <2>5, <2>7
  <2> QED BY <2>6, <2>8
<1>6. \E D \in SUBSET (Through' \cap Perhaps') :
          poll'.connected = 1 + Cardinality(D) /\ Surely' \cap Through' \subseteq D
  <2>1. CASE u \in poll.counting /\ poll'.connected = poll.connected + 1
    <3> DEFINE D == C \cup {u}
    <3>1. D \in SUBSET (Through' \cap Perhaps') /\ Surely' \cap Through' \subseteq D
      BY <1>1, <1>2, <1>3, <1>4, <2>1
    <3>2. IsFiniteSet(C) /\ Cardinality(C) \in Nat /\ u \notin C
      BY <1>2, <1>4, ProbesFinite
    <3>3. Cardinality(D) = Cardinality(C) + 1
      BY <3>2, FS_AddElement
    <3>4. poll'.connected = 1 + Cardinality(D)
      BY <1>2, <2>1, <3>2, <3>3
    <3> QED BY <3>1, <3>4
  <2>2. CASE u \notin Surely' /\ poll'.connected = poll.connected
    <3>1. C \in SUBSET (Through' \cap Perhaps') /\ Surely' \cap Through' \subseteq C
      BY <1>1, <1>2, <1>4, <2>2
    <3> QED BY <1>2, <2>2, <3>1
  <2> QED BY <2>1, <2>2
<1> QED BY <1>1, <1>3, <1>5, <1>6 DEF CountInv
-----------------------------------------------------------------------------
(* The steps of the page and of the poll. *)

LEMMA StatusesAre ==
    /\ NotConnected \in Statuses /\ Single \in Statuses
    /\ \A m, n \in Nat : Status(TRUE, TRUE, FALSE, m, n) \in Statuses
BY DEF NotConnected, Single, Status, Statuses

Polls == [pc : {"idle", "assume", "walk", "probe"}, left : SUBSET Units,
          asking : SUBSET Units, counting : SUBSET Units, slots : Nat,
          connected : Nat, throttled : SUBSET Units]
Pages == [step : {"none", "enter-account", "starting", "start-error", "connecting"},
          tenant : Tenants \cup {Nobody}, shown : Statuses]

LEMMA PollIs ==
    ASSUME NEW p \in Polls
    PROVE  /\ p = [pc |-> p.pc, left |-> p.left, asking |-> p.asking,
                   counting |-> p.counting, slots |-> p.slots,
                   connected |-> p.connected, throttled |-> p.throttled]
           /\ p.pc \in {"idle", "assume", "walk", "probe"} /\ p.left \in SUBSET Units
           /\ p.asking \in SUBSET Units /\ p.counting \in SUBSET Units
           /\ p.slots \in Nat /\ p.connected \in Nat /\ p.throttled \in SUBSET Units
BY DEF Polls

LEMMA NoPollIs ==
    /\ NoPoll \in Polls
    /\ NoPoll.pc = "idle" /\ NoPoll.left = {} /\ NoPoll.asking = {}
    /\ NoPoll.counting = {} /\ NoPoll.slots = Fanout /\ NoPoll.connected = 0
    /\ NoPoll.throttled = {}
BY OnboardingAssumption DEF NoPoll, Polls

\* What is the same for all steps that leave the roles and the rows alone.
LEMMA PollTypesAre ==
    PollTypes <=>
        /\ roles \in 0..MaxRoles /\ faults \in 0..MaxFaults
        /\ rows \in [Tenants -> Units \cup {Gone}]
        /\ trust \in [Units -> Tenants \cup {Nobody}]
        /\ page \in Pages /\ poll \in Polls
BY DEF PollTypes, Pages, Polls

LEMMA FaultIs == PollTypes /\ Fault => faults' \in 0..MaxFaults
BY BoundsAssumption DEF PollTypes, Fault

\* The request ends: nothing is asked any more.
LEMMA Ends ==
    ASSUME PollTypes, PollPlaces, CountInv, poll.pc # "idle", poll' = NoPoll,
           page' \in Pages, page'.step = page.step, page'.tenant = page.tenant,
           UNCHANGED <<rows, trust, roles>>, faults' \in 0..MaxFaults,
           pc' \notin {"organizations", "walk"}
    PROVE  PollInv'
<1>1. PollTypes'
  BY NoPollIs DEF PollTypes, Pages, Polls
<1>2. CountInv'
  BY NoPollIs, CountQuiet
<1>3. PollPlaces'
  BY NoPollIs DEF PollPlaces
<1> QED BY <1>1, <1>2, <1>3 DEF PollInv

\* The page shows an answer, or none.
LEMMA Shows ==
    ASSUME PollTypes, NEW status \in Statuses
    PROVE  /\ Answer(status) => page' \in Pages /\ page'.step = page.step
                                /\ page'.tenant = page.tenant /\ poll' = NoPoll
                                /\ page'.shown = status
           /\ Unanswered => page' \in Pages /\ page'.step = page.step
                                /\ page'.tenant = page.tenant /\ poll' = NoPoll
                                /\ page'.shown = page.shown
<1>1. page \in Pages
  BY PollTypesAre
<1>2. [page EXCEPT !.shown = status] \in Pages
  BY <1>1 DEF Pages
<1>3. /\ [page EXCEPT !.shown = status].step = page.step
      /\ [page EXCEPT !.shown = status].tenant = page.tenant
      /\ [page EXCEPT !.shown = status].shown = status
  BY <1>1 DEF Pages
<1> QED BY <1>1, <1>2, <1>3 DEF Answer, Unanswered

LEMMA InitPoll == Init => PollInv
<1> SUFFICES ASSUME Init PROVE PollInv
  OBVIOUS
<1>1. /\ rows = [t \in Tenants |-> Gone] /\ trust = [u \in Units |-> Nobody]
      /\ roles = 0 /\ poll = NoPoll /\ faults = 0
      /\ page \in {[step |-> "none", tenant |-> Nobody, shown |-> NotConnected],
                   [step |-> "enter-account", tenant |-> Nobody, shown |-> NotConnected]}
      /\ page.step # "none" => pc = "idle"
  BY DEF Init, InitEstate
<1>2. page \in Pages /\ page.step \in {"none", "enter-account"}
  BY <1>1, StatusesAre DEF Pages
<1>3. PollTypes
  BY <1>1, <1>2, NoPollIs, PollTypesAre, BoundsAssumption, OnboardingAssumption
<1>4. PollPlaces
  BY <1>1, <1>2, NoPollIs DEF PollPlaces
<1>5. CountInv
  <2>1. Cardinality({}) = 0 /\ Fanout \in Nat /\ {} \cup {} = {}
    BY FS_EmptySet, OnboardingAssumption
  <2>2. Cardinality(poll.asking \cup poll.counting) + poll.slots = Fanout
    BY <1>1, <2>1, NoPollIs
  <2> QED BY <1>1, <2>2, NoPollIs DEF CountInv
<1> QED BY <1>3, <1>4, <1>5 DEF PollInv

\* The organization and the roles.
LEMMA ChangesKeep ==
    WalkInv /\ PollInv /\ (OrganizationChanges \/ RoleChanges) => WalkInv' /\ PollInv'
<1> SUFFICES ASSUME WalkInv, PollInv, OrganizationChanges \/ RoleChanges
             PROVE  WalkInv' /\ PollInv'
  OBVIOUS
<1>1. EstateTypes /\ PollTypes /\ PollPlaces /\ CountInv
  BY DEF WalkInv, PollInv
<1>2. CASE OrganizationChanges
  <2>1. EstateChanges /\ UNCHANGED <<walk_vars, faults, current>>
        /\ rows' = rows /\ trust' = trust /\ roles' = roles /\ page' = page /\ poll' = poll
    BY <1>2 DEF OrganizationChanges, EstateChanges, onboarding_vars
  <2>2. WalkInv'
    BY <2>1, EstateChangesKeeps
  <2>3. PollTypes' /\ PollPlaces'
    BY <1>1, <2>1 DEF PollTypes, PollPlaces, walk_vars
  <2>4. moved \subseteq moved'
    BY <2>1 DEF EstateChanges, MoveUnit, MoveFolder
  <2>5. CountInv'
    BY <1>1, <2>1, <2>4, CountStill DEF walk_vars
  <2> QED BY <2>2, <2>3, <2>5 DEF PollInv
<1>3. CASE RoleChanges
  <2>1. PICK u \in Units, t \in Tenants \cup {Nobody} :
            trust' = [trust EXCEPT ![u] = t] /\ moved' = moved \cup {u}
    BY <1>3 DEF RoleChanges
  <2>2. /\ UNCHANGED <<provider, current, organizations, up, place, changes, walk_vars>>
        /\ faults' = faults /\ rows' = rows /\ page' = page /\ poll' = poll
    BY <1>3 DEF RoleChanges
  <2>3. EstateTypes' /\ EstateHolds'
    <3>1. EstateTypes'
      BY <1>1, <2>1, <2>2 DEF EstateTypes
    <3>2. (\A c : Above(c)' = Above(c)) /\ \A u_1 \in Units : (Above(place[u_1]))' = Above(place[u_1])
      BY <2>2 DEF Above
    <3> QED BY <2>2, <3>1, <3>2 DEF WalkInv, EstateHolds
  <2>4. WalkInv'
    BY <2>1, <2>2, <2>3, EstateMoves
  <2>5. roles' \in 0..MaxRoles
    <3>1. roles' = roles + 1 /\ changes + roles < MaxRoles /\ changes \in Nat
          /\ roles \in Nat /\ MaxRoles \in Nat
      BY <1>1, <1>3, OnboardingAssumption DEF RoleChanges, EstateTypes, PollTypes
    <3> QED BY <3>1
  <2>6. PollTypes' /\ PollPlaces'
    BY <1>1, <2>1, <2>2, <2>5 DEF PollTypes, PollPlaces, walk_vars
  <2>7. CountInv'
    <3>1. \A v \in Units : trust'[v] = trust[v] \/ v \in moved'
      BY <1>1, <2>1 DEF PollTypes
    <3> QED BY <1>1, <2>1, <2>2, <3>1, CountStill DEF walk_vars
  <2> QED BY <2>4, <2>6, <2>7 DEF PollInv
<1> QED BY <1>2, <1>3

\* The page before there is a tenant.
LEMMA StartKeeps ==
    WalkInv /\ PollInv /\ (Submit \/ CreateOnboarding \/ CreateFails) => WalkInv' /\ PollInv'
<1> SUFFICES ASSUME WalkInv, PollInv, Submit \/ CreateOnboarding \/ CreateFails
             PROVE  WalkInv' /\ PollInv'
  OBVIOUS
<1>1. EstateTypes /\ PollTypes /\ PollPlaces /\ CountInv /\ page \in Pages
  BY PollTypesAre DEF WalkInv, PollInv
<1>2. /\ UNCHANGED <<estate_vars, walk_vars>> /\ trust' = trust /\ roles' = roles
      /\ poll' = poll /\ page.step \in {"enter-account", "start-error", "starting"}
  BY DEF Submit, CreateOnboarding, CreateFails, vars
<1>3. WalkInv' /\ pc' = pc
  BY <1>2, WalkStill DEF walk_vars
<1>4. poll.pc = "idle" /\ pc \notin {"organizations", "walk"}
  BY <1>1, <1>2 DEF PollPlaces
<1>5. CountInv'
  BY <1>1, <1>2, <1>4, Quiet, CountQuiet
<1>6. ASSUME page' \in Pages, page'.step \in {"starting", "start-error", "connecting"},
             page'.step = "connecting" => page'.tenant \in Tenants /\ rows'[page'.tenant] \in Units,
             page'.step = "starting" => \E t \in Tenants : rows'[t] = Gone,
             rows' \in [Tenants -> Units \cup {Gone}], faults' \in 0..MaxFaults
      PROVE  PollInv'
  <2>1. PollTypes'
    BY <1>1, <1>2, <1>6 DEF PollTypes, Pages, Polls
  <2>2. PollPlaces'
    BY <1>2, <1>3, <1>4, <1>6 DEF PollPlaces
  <2> QED BY <1>5, <2>1, <2>2 DEF PollInv
<1>7. ASSUME NEW step \in {"starting", "start-error"}, page' = [page EXCEPT !.step = step]
      PROVE  page' \in Pages /\ page'.step = step
  BY <1>1, <1>7 DEF Pages
<1>8. CASE Submit
  <2>1. page' = [page EXCEPT !.step = "starting"] /\ rows' = rows /\ faults' = faults
        /\ \E t \in Tenants : rows[t] = Gone
    BY <1>8 DEF Submit, vars
  <2>2. page' \in Pages /\ page'.step = "starting"
    BY <1>7, <2>1
  <2> QED BY <1>1, <1>3, <1>6, <2>1, <2>2 DEF PollTypes
<1>9. CASE CreateFails
  <2>1. page' = [page EXCEPT !.step = "start-error"] /\ rows' = rows
        /\ faults' \in 0..MaxFaults
    BY <1>1, <1>9, FaultIs DEF CreateFails
  <2>2. page' \in Pages /\ page'.step = "start-error"
    BY <1>7, <2>1
  <2> QED BY <1>1, <1>3, <1>6, <2>1, <2>2 DEF PollTypes
<1>10. CASE CreateOnboarding
  <2> DEFINE t == CHOOSE x \in Tenants : rows[x] = Gone
  <2>1. t \in Tenants
    BY <1>1, <1>10 DEF CreateOnboarding, PollPlaces
  <2>2. rows' = [rows EXCEPT ![t] = current]
        /\ \/ page' = [page EXCEPT !.step = "connecting", !.tenant = t] /\ faults' = faults
           \/ page' = [page EXCEPT !.step = "start-error"] /\ Fault
    BY <1>10 DEF CreateOnboarding
  <2> HIDE DEF t
  <2>3. rows' \in [Tenants -> Units \cup {Gone}] /\ rows'[t] \in Units
    BY <1>1, <2>1, <2>2 DEF PollTypes, EstateTypes
  <2>4. CASE page' = [page EXCEPT !.step = "connecting", !.tenant = t] /\ faults' = faults
    <3>1. page' \in Pages /\ page'.step = "connecting" /\ page'.tenant = t
      BY <1>1, <2>1, <2>4 DEF Pages
    <3> QED BY <1>1, <1>3, <1>6, <2>1, <2>3, <2>4, <3>1 DEF PollTypes
  <2>5. CASE page' = [page EXCEPT !.step = "start-error"] /\ Fault
    <3>1. page' \in Pages /\ page'.step = "start-error"
      BY <1>7, <2>5
    <3> QED BY <1>1, <1>3, <1>6, <2>3, <2>5, <3>1, FaultIs
  <2> QED BY <2>2, <2>4, <2>5
<1> QED BY <1>8, <1>9, <1>10

LEMMA BeginKeeps == WalkInv /\ PollInv /\ Begin => WalkInv' /\ PollInv'
<1> SUFFICES ASSUME WalkInv, PollInv, Begin PROVE WalkInv' /\ PollInv'
  OBVIOUS
<1>1. /\ EstateTypes /\ EstateHolds /\ WalkTypes /\ PollTypes /\ PollPlaces /\ CountInv
  BY DEF WalkInv, PollInv
<1>2. /\ page.step = "connecting" /\ poll.pc = "idle"
      /\ poll' = [NoPoll EXCEPT !.pc = "assume"] /\ current' = rows[page.tenant]
      /\ pc' = "idle" /\ moved' = {} /\ failed' = FALSE /\ found' = NoneFound
      /\ provider' = provider /\ organizations' = organizations
      /\ up' = up /\ place' = place /\ changes' = changes /\ open' = open
      /\ allowed' = allowed /\ faults' = faults
      /\ rows' = rows /\ trust' = trust /\ roles' = roles /\ page' = page
  BY DEF Begin
<1>3. open = << >> /\ current' \in Units
  BY <1>1, <1>2 DEF PollPlaces, WalkTypes
<1>4. EstateTypes' /\ EstateHolds'
  <2>1. EstateTypes'
    BY <1>1, <1>2, <1>3 DEF EstateTypes
  <2>2. (\A c : Above(c)' = Above(c)) /\ \A u \in Units : (Above(place[u]))' = Above(place[u])
    BY <1>2 DEF Above
  <2> QED BY <1>1, <1>2, <2>1, <2>2 DEF EstateHolds
<1>5. WalkTypes'
  BY <1>1, <1>2, <1>3, NoneTyped DEF WalkTypes, NoneFound
<1>6. StackInv'
  BY <1>2, <1>3 DEF StackInv, StackHolds
<1>7. SteadyInv' /\ FitInv'
  BY <1>2 DEF SteadyInv, FitInv
<1>8. /\ poll' \in Polls /\ poll'.pc = "assume" /\ poll'.left = {} /\ poll'.asking = {}
      /\ poll'.counting = {} /\ poll'.slots = Fanout /\ poll'.connected = 0
  BY <1>2, NoPollIs DEF Polls
<1>9. PollTypes'
  BY <1>1, <1>2, <1>8 DEF PollTypes, Pages, Polls
<1>10. PollPlaces'
  BY <1>1, <1>2, <1>8 DEF PollPlaces
<1>11. CountInv'
  BY <1>8, CountQuiet
<1> QED BY <1>4, <1>5, <1>6, <1>7, <1>9, <1>10, <1>11 DEF WalkInv, PollInv

\* The request up to the enumeration.
LEMMA AssumeKeeps ==
    WalkInv /\ PollInv /\ (RequestLost \/ AssumeManagement \/ AssumeManagementFails)
        => WalkInv' /\ PollInv'
<1> SUFFICES ASSUME WalkInv, PollInv,
                    RequestLost \/ AssumeManagement \/ AssumeManagementFails
             PROVE  WalkInv' /\ PollInv'
  OBVIOUS
<1>1. /\ EstateTypes /\ EstateHolds /\ WalkTypes /\ FitInv
      /\ PollTypes /\ PollPlaces /\ CountInv
      /\ poll.pc = "assume" /\ pc = "idle"
  BY DEF WalkInv, PollInv, RequestLost, AssumeManagement, AssumeManagementFails, PollPlaces
<1>2. UNCHANGED <<rows, trust, roles>> /\ UNCHANGED estate_vars
  BY DEF RequestLost, AssumeManagement, AssumeManagementFails
<1>3. CASE RequestLost \/ AssumeManagementFails
  <2>1. UNCHANGED <<estate_vars, walk_vars>> /\ Fault /\ (Unanswered \/ Answer(NotConnected))
    BY <1>3 DEF RequestLost, AssumeManagementFails
  <2>2. WalkInv' /\ pc' = pc
    BY <2>1, WalkStill DEF walk_vars
  <2>3. /\ page' \in Pages /\ page'.step = page.step /\ page'.tenant = page.tenant
        /\ poll' = NoPoll
    BY <1>1, <2>1, Shows, StatusesAre
  <2> QED BY <1>1, <1>2, <2>1, <2>2, <2>3, FaultIs, Ends
<1>4. CASE AssumeManagement /\ trust[current] # page.tenant
  <2>1. UNCHANGED <<estate_vars, walk_vars>> /\ faults' = faults /\ Answer(NotConnected)
    BY <1>4 DEF AssumeManagement, walk_vars
  <2>2. WalkInv' /\ pc' = pc
    BY <2>1, WalkStill DEF walk_vars
  <2>3. /\ page' \in Pages /\ page'.step = page.step /\ page'.tenant = page.tenant
        /\ poll' = NoPoll
    BY <1>1, <2>1, Shows, StatusesAre
  <2>4. faults' \in 0..MaxFaults
    BY <1>1, <2>1 DEF PollTypes
  <2> QED BY <1>1, <1>2, <2>1, <2>2, <2>3, <2>4, Ends
<1>5. CASE AssumeManagement /\ trust[current] = page.tenant
  <2>1. /\ poll' = [poll EXCEPT !.pc = "walk"] /\ pc' = "organizations" /\ page' = page
        /\ open' = open /\ allowed' = allowed /\ found' = found /\ failed' = failed
        /\ faults' = faults
    BY <1>5 DEF AssumeManagement
  <2>2. open = << >> /\ found = NoneFound /\ failed = FALSE /\ allowed \subseteq Folders
    BY <1>1 DEF WalkTypes, FitInv
  <2>3. FitInv'
    BY <2>1, <2>2 DEF FitInv
  <2>4. NoneFound \in [Units -> IF provider = "gcp" THEN Nat ELSE 0..1]
    BY NoneTyped
  <2>5. WalkInv'
    BY <1>1, <1>2, <2>1, <2>2, <2>3, <2>4, NoneTyped, WalkTo
  <2>6. poll \in Polls
    BY <1>1, PollTypesAre
  <2>7. /\ poll' \in Polls /\ poll'.pc = "walk" /\ poll'.left = poll.left
        /\ poll'.asking = poll.asking /\ poll'.counting = poll.counting
        /\ poll'.slots = poll.slots /\ poll'.connected = poll.connected
    BY <2>1, <2>6 DEF Polls
  <2>8. PollTypes'
    BY <1>1, <1>2, <2>1, <2>7 DEF PollTypes, Polls
  <2>9. PollPlaces'
    BY <1>1, <1>2, <2>1, <2>7 DEF PollPlaces
  <2>10. CountInv'
    BY <1>1, <2>7, Quiet, CountQuiet
  <2> QED BY <2>5, <2>8, <2>9, <2>10 DEF PollInv
<1> QED BY <1>3, <1>4, <1>5

\* The enumeration, of a poll or of a scanner.
LEMMA WalksKeep == WalkInv /\ PollInv /\ (Walk \/ WalkFails) => WalkInv' /\ PollInv'
<1> SUFFICES ASSUME WalkInv, PollInv, Walk \/ WalkFails PROVE WalkInv' /\ PollInv'
  OBVIOUS
<1>1. /\ EstateTypes /\ PollTypes /\ PollPlaces /\ CountInv
      /\ page.step = "none" \/ poll.pc = "walk"
      /\ WalkStep \/ WalkFault
      /\ rows' = rows /\ trust' = trust /\ roles' = roles /\ page' = page /\ poll' = poll
  BY DEF WalkInv, PollInv, Walk, WalkFails, onboarding_vars
<1>2. WalkInv'
  BY <1>1, WalkStepKeeps, WalkFaultKeeps
<1>3. poll.pc \in {"idle", "walk"}
  BY <1>1 DEF PollPlaces
<1>4. faults' \in 0..MaxFaults
  <2>1. WalkStep => faults' = faults
    BY DEF WalkStep, DescribeOrganization, SearchOrganizations, ListManagementGroups,
           ListSupabaseOrganizations, ListProjects, ListUnits, ListFolders, EnterFolder,
           LeaveFolder, Conclude
  <2>2. WalkFault => Fault
    BY DEF WalkFault, CallFails, EmptyPage, Fault
  <2> QED BY <1>1, <2>1, <2>2, FaultIs DEF PollTypes
<1>5. PollTypes'
  BY <1>1, <1>4 DEF PollTypes
<1>6. PollPlaces'
  BY <1>1, <1>3 DEF PollPlaces
<1>7. CountInv'
  BY <1>1, <1>3, Quiet, CountQuiet
<1> QED BY <1>2, <1>5, <1>6, <1>7 DEF PollInv

LEMMA WalkIsOverKeeps == WalkInv /\ PollInv /\ WalkIsOver => WalkInv' /\ PollInv'
<1> SUFFICES ASSUME WalkInv, PollInv, WalkIsOver PROVE WalkInv' /\ PollInv'
  OBVIOUS
<1>1. /\ EstateTypes /\ PollTypes /\ PollPlaces /\ CountInv /\ poll.pc = "walk"
      /\ UNCHANGED <<estate_vars, walk_vars>> /\ faults' = faults
      /\ UNCHANGED <<rows, trust, roles>>
  BY DEF WalkInv, PollInv, WalkIsOver, vars
<1>2. WalkInv' /\ pc' = pc /\ found' = found /\ current' = current
  BY <1>1, WalkStill DEF walk_vars, estate_vars
<1>3. faults' \in 0..MaxFaults
  BY <1>1 DEF PollTypes
<1>4. CASE \/ pc = "refused" /\ Unanswered
           \/ pc = "alone" /\ Answer(Single)
  <2>1. /\ page' \in Pages /\ page'.step = page.step /\ page'.tenant = page.tenant
        /\ poll' = NoPoll
    BY <1>1, <1>4, Shows, StatusesAre
  <2>2. pc' \notin {"organizations", "walk"}
    BY <1>2, <1>4
  <2> QED BY <1>1, <1>2, <1>3, <2>1, <2>2, Ends
<1>5. CASE /\ pc = "listed" /\ page' = page
           /\ poll' = [poll EXCEPT !.pc = "probe", !.left = Listed \ {current},
                                   !.connected = 1]
  <2>1. poll \in Polls /\ Listed \ {current} \in SUBSET Units
    BY <1>1, PollTypesAre DEF Listed
  <2>2. /\ poll' \in Polls /\ poll'.pc = "probe" /\ poll'.left = Members
        /\ poll'.asking = poll.asking /\ poll'.counting = poll.counting
        /\ poll'.slots = poll.slots /\ poll'.connected = 1
    BY <1>5, <2>1 DEF Polls, Members
  <2>3. poll.asking = {} /\ poll.counting = {}
    BY <1>1, Quiet
  <2>4. Members' = Members /\ Through' = {}
    BY <1>2, <2>2 DEF Members, Listed, Through
  <2>5. \E C \in SUBSET (Through' \cap Perhaps') :
            poll'.connected = 1 + Cardinality(C) /\ Surely' \cap Through' \subseteq C
    <3>1. {} \in SUBSET (Through' \cap Perhaps') /\ Surely' \cap Through' \subseteq {}
      BY <2>4
    <3>2. poll'.connected = 1 + Cardinality({})
      BY <2>2, FS_EmptySet
    <3> QED BY <3>1, <3>2
  <2>6. CountInv'
    BY <1>1, <2>2, <2>3, <2>4, <2>5 DEF CountInv
  <2>7. PollTypes'
    BY <1>1, <1>3, <1>5, <2>2 DEF PollTypes, Polls
  <2>8. PollPlaces'
    BY <1>1, <1>2, <1>5, <2>2 DEF PollPlaces
  <2> QED BY <1>2, <2>6, <2>7, <2>8 DEF PollInv
<1> QED BY <1>4, <1>5 DEF WalkIsOver

\* The probes.
LEMMA ProbesKeep ==
    ASSUME WalkInv, PollInv, poll.pc = "probe", UNCHANGED <<estate_vars, walk_vars>>,
           UNCHANGED <<rows, trust, roles, page>>, faults' \in 0..MaxFaults,
           poll' \in Polls, poll'.pc = "probe", CountInv'
    PROVE  WalkInv' /\ PollInv'
<1>1. /\ EstateTypes /\ PollTypes /\ PollPlaces
  BY DEF WalkInv, PollInv
<1>2. WalkInv' /\ pc' = pc
  BY WalkStill DEF walk_vars
<1>3. PollTypes'
  BY <1>1 DEF PollTypes, Polls
<1>4. PollPlaces'
  BY <1>1, <1>2 DEF PollPlaces
<1> QED BY <1>2, <1>3, <1>4 DEF PollInv

LEMMA SpawnKeeps == WalkInv /\ PollInv /\ Spawn => WalkInv' /\ PollInv'
<1> SUFFICES ASSUME WalkInv, PollInv, Spawn PROVE WalkInv' /\ PollInv'
  OBVIOUS
<1> DEFINE u == First(poll.left)
<1>1. /\ EstateTypes /\ PollTypes /\ CountInv /\ poll \in Polls
      /\ poll.pc = "probe" /\ poll.left # {} /\ poll.slots > 0
      /\ UNCHANGED <<estate_vars, walk_vars, faults>>
      /\ UNCHANGED <<rows, trust, roles, page>>
      /\ poll' = [poll EXCEPT !.left = @ \ {u}, !.asking = @ \cup {u}, !.slots = @ - 1]
  BY PollTypesAre DEF WalkInv, PollInv, Spawn, vars
<1>2. u \in poll.left /\ u \in Units
  <2>1. poll.left \in SUBSET Units /\ poll.left \in SUBSET Nat
    BY <1>1, Finite DEF PollTypes
  <2> QED BY <1>1, <2>1, FirstIs
<1> HIDE DEF u
<1>3. poll.slots \in Nat /\ poll.slots - 1 \in Nat
  BY <1>1 DEF PollTypes
<1>4. /\ poll' \in Polls /\ poll'.pc = "probe" /\ poll'.left = poll.left \ {u}
      /\ poll'.asking = poll.asking \cup {u} /\ poll'.counting = poll.counting
      /\ poll'.slots = poll.slots - 1 /\ poll'.connected = poll.connected
      /\ poll'.throttled = poll.throttled
  BY <1>1, <1>2, <1>3 DEF Polls
<1>5. /\ poll.asking \cap poll.counting = {}
      /\ poll.left \cap (poll.asking \cup poll.counting) = {}
      /\ poll.left \cup poll.asking \cup poll.counting \subseteq Members
      /\ poll.counting \subseteq Perhaps
  BY <1>1 DEF CountInv
<1>6. Members' = Members /\ Perhaps' = Perhaps /\ Surely' = Surely /\ Through' = Through
  <2>1. Members' = Members /\ Perhaps' = Perhaps /\ Surely' = Surely
    BY <1>1, <1>4 DEF Members, Perhaps, Surely, Listed, estate_vars, walk_vars
  <2>2. poll'.left \cup poll'.asking \cup poll'.counting =
            poll.left \cup poll.asking \cup poll.counting
    BY <1>2, <1>4
  <2> QED BY <2>1, <2>2 DEF Through
<1>7. Cardinality(poll'.asking \cup poll'.counting) + poll'.slots = Fanout
  <2> DEFINE S == poll.asking \cup poll.counting
  <2>1. poll'.asking \cup poll'.counting = S \cup {u} /\ u \notin S
    BY <1>2, <1>4, <1>5
  <2>2. IsFiniteSet(S)
    BY <1>1, ProbesFinite
  <2>3. PICK m \in Nat : m = Cardinality(S)
    BY <2>2, FS_CardinalityType
  <2>4. Cardinality(S \cup {u}) = m + 1
    BY <2>1, <2>2, <2>3, FS_AddElement
  <2>5. m + poll.slots = Fanout
    BY <1>1, <2>3 DEF CountInv
  <2>6. Cardinality(poll'.asking \cup poll'.counting) = m + 1
    BY <2>1, <2>4
  <2> QED BY <1>3, <1>4, <2>5, <2>6
<1>8. CountInv'
  <2>1. \E C \in SUBSET (Through' \cap Perhaps') :
            poll'.connected = 1 + Cardinality(C) /\ Surely' \cap Through' \subseteq C
    BY <1>1, <1>4, <1>6 DEF CountInv
  <2> QED BY <1>2, <1>4, <1>5, <1>6, <1>7, <2>1 DEF CountInv
<1>9. faults' \in 0..MaxFaults
  BY <1>1 DEF PollTypes
<1> QED BY <1>1, <1>4, <1>8, <1>9, ProbesKeep

LEMMA AskingKeeps ==
    ASSUME WalkInv, PollInv, NEW u \in Units, Ask(u) \/ AskFails(u) \/ Count(u)
    PROVE  WalkInv' /\ PollInv'
<1>1. /\ EstateTypes /\ PollTypes /\ CountInv /\ poll \in Polls
      /\ UNCHANGED <<estate_vars, walk_vars>> /\ UNCHANGED <<rows, trust, roles, page>>
      /\ u \in poll.asking \cup poll.counting
  BY PollTypesAre DEF WalkInv, PollInv, Ask, AskFails, Count, vars
<1>2. poll.pc = "probe" /\ poll.slots + 1 \in Nat /\ poll.connected + 1 \in Nat
  BY <1>1 DEF CountInv, PollTypes
<1>3. /\ poll.asking \cap poll.counting = {}
      /\ poll.left \cap (poll.asking \cup poll.counting) = {}
      /\ poll.left \cup poll.asking \cup poll.counting \subseteq Members
      /\ poll.counting \subseteq Perhaps
  BY <1>1, <1>2 DEF CountInv
<1>4. UNCHANGED <<page, found, current, moved, trust>>
  BY <1>1 DEF estate_vars, walk_vars
<1>5. faults' \in 0..MaxFaults
  <2>1. Ask(u) \/ Count(u) => faults' = faults
    BY DEF Ask, Count, vars
  <2>2. AskFails(u) => Fault
    BY DEF AskFails
  <2> QED BY <1>1, <2>1, <2>2, FaultIs DEF PollTypes
<1>6. CASE Ask(u) /\ trust[u] = page.tenant
  <2>1. u \in poll.asking
        /\ poll' = [poll EXCEPT !.asking = @ \ {u}, !.counting = @ \cup {u}]
    BY <1>6 DEF Ask
  <2>2. /\ poll' \in Polls /\ poll'.pc = "probe" /\ poll'.left = poll.left
        /\ poll'.asking = poll.asking \ {u} /\ poll'.counting = poll.counting \cup {u}
        /\ poll'.slots = poll.slots /\ poll'.connected = poll.connected
        /\ poll'.throttled = poll.throttled
    BY <1>1, <1>2, <2>1 DEF Polls
  <2>3. poll'.asking \cup poll'.counting = poll.asking \cup poll.counting
    BY <2>1, <2>2
  <2>4. Members' = Members /\ Perhaps' = Perhaps /\ Surely' = Surely /\ Through' = Through
    <3>1. Members' = Members /\ Perhaps' = Perhaps /\ Surely' = Surely
      BY <1>4, <2>2 DEF Members, Perhaps, Surely, Listed
    <3>2. poll'.left \cup poll'.asking \cup poll'.counting =
              poll.left \cup poll.asking \cup poll.counting
      BY <2>1, <2>2
    <3> QED BY <3>1, <3>2 DEF Through
  <2>5. u \in Perhaps
    BY <1>3, <1>6, <2>1 DEF Perhaps, Members
  <2>6. CountInv'
    <3>1. \E C \in SUBSET (Through' \cap Perhaps') :
              poll'.connected = 1 + Cardinality(C) /\ Surely' \cap Through' \subseteq C
      BY <1>1, <1>2, <2>2, <2>4 DEF CountInv
    <3>2. Cardinality(poll'.asking \cup poll'.counting) + poll'.slots = Fanout
      BY <1>1, <2>2, <2>3 DEF CountInv
    <3> QED BY <1>3, <2>1, <2>2, <2>4, <2>5, <3>1, <3>2 DEF CountInv
  <2> QED BY <1>1, <1>2, <1>5, <2>2, <2>6, ProbesKeep
<1>7. CASE Ask(u) /\ trust[u] # page.tenant
  <2>1. u \in poll.asking
        /\ poll' = [poll EXCEPT !.asking = @ \ {u}, !.slots = @ + 1]
    BY <1>7 DEF Ask, NotCounted
  <2>2. /\ poll' \in Polls /\ poll'.pc = "probe" /\ poll'.left = poll.left
        /\ poll'.asking = poll.asking \ {u} /\ poll'.counting = poll.counting
        /\ poll'.slots = poll.slots + 1 /\ poll'.connected = poll.connected
        /\ poll'.throttled = poll.throttled
    BY <1>1, <1>2, <2>1 DEF Polls
  <2>3. poll'.counting = poll.counting \ {u}
    BY <1>3, <2>1, <2>2
  <2>4. u \notin Surely'
    BY <1>4, <1>7 DEF Surely
  <2>5. CountInv'
    BY <1>1, <1>2, <1>4, <2>2, <2>3, <2>4, ProbeEnds
  <2> QED BY <1>1, <1>2, <1>5, <2>2, <2>5, ProbesKeep
<1>8. CASE AskFails(u)
  <2>1. u \in poll.asking
        /\ poll' = [poll EXCEPT !.asking = @ \ {u}, !.slots = @ + 1,
                                !.throttled = @ \cup {u}]
    BY <1>8 DEF AskFails
  <2>2. /\ poll' \in Polls /\ poll'.pc = "probe" /\ poll'.left = poll.left
        /\ poll'.asking = poll.asking \ {u} /\ poll'.counting = poll.counting
        /\ poll'.slots = poll.slots + 1 /\ poll'.connected = poll.connected
        /\ poll'.throttled = poll.throttled \cup {u}
    BY <1>1, <1>2, <2>1 DEF Polls
  <2>3. poll'.counting = poll.counting \ {u} /\ poll.throttled \subseteq poll'.throttled
    BY <1>3, <2>1, <2>2
  <2>4. u \notin Surely'
    BY <2>2 DEF Surely
  <2>5. CountInv'
    BY <1>1, <1>2, <1>4, <2>2, <2>3, <2>4, ProbeEnds
  <2> QED BY <1>1, <1>2, <1>5, <2>2, <2>5, ProbesKeep
<1>9. CASE Count(u)
  <2>1. u \in poll.counting
        /\ poll' = [poll EXCEPT !.counting = @ \ {u}, !.slots = @ + 1, !.connected = @ + 1]
    BY <1>9 DEF Count
  <2>2. /\ poll' \in Polls /\ poll'.pc = "probe" /\ poll'.left = poll.left
        /\ poll'.asking = poll.asking /\ poll'.counting = poll.counting \ {u}
        /\ poll'.slots = poll.slots + 1 /\ poll'.connected = poll.connected + 1
        /\ poll'.throttled = poll.throttled
    BY <1>1, <1>2, <2>1 DEF Polls
  <2>3. poll'.asking = poll.asking \ {u}
    BY <1>3, <2>1, <2>2
  <2>4. CountInv'
    BY <1>1, <1>2, <1>4, <2>1, <2>2, <2>3, ProbeEnds
  <2> QED BY <1>1, <1>2, <1>5, <2>2, <2>4, ProbesKeep
<1> QED BY <1>6, <1>7, <1>8, <1>9

LEMMA ReplyKeeps == WalkInv /\ PollInv /\ (Reply \/ ReplyLost) => WalkInv' /\ PollInv'
<1> SUFFICES ASSUME WalkInv, PollInv, Reply \/ ReplyLost PROVE WalkInv' /\ PollInv'
  OBVIOUS
<1> DEFINE status == Status(TRUE, TRUE, FALSE, Cardinality(Listed), poll.connected)
<1>1. /\ EstateTypes /\ PollTypes /\ PollPlaces /\ CountInv /\ poll.pc = "probe"
      /\ UNCHANGED <<estate_vars, walk_vars>> /\ UNCHANGED <<rows, trust, roles>>
      /\ (Reply /\ Answer(status) /\ faults' = faults) \/ (Fault /\ Unanswered)
  BY DEF WalkInv, PollInv, Reply, ReplyLost, Probed, vars
<1>2. WalkInv' /\ pc' = pc
  BY <1>1, WalkStill DEF walk_vars
<1>3. status \in Statuses
  <2>1. Listed \in SUBSET Units
    BY DEF Listed
  <2>2. Cardinality(Listed) \in Nat /\ poll.connected \in Nat
    BY <1>1, <2>1, Finite, FS_Subset, FS_CardinalityType DEF PollTypes
  <2> QED BY <2>2, StatusesAre
<1> HIDE DEF status
<1>4. /\ page' \in Pages /\ page'.step = page.step /\ page'.tenant = page.tenant
      /\ poll' = NoPoll
  BY <1>1, <1>3, Shows
<1>5. faults' \in 0..MaxFaults
  BY <1>1, FaultIs DEF PollTypes
<1>6. pc' \notin {"organizations", "walk"}
  BY <1>1, <1>2 DEF PollPlaces
<1> QED BY <1>1, <1>2, <1>4, <1>5, <1>6, Ends
-----------------------------------------------------------------------------
(* The theorems. *)

LEMMA StepKeeps == WalkInv /\ PollInv /\ [Next]_all_vars => WalkInv' /\ PollInv'
<1> SUFFICES ASSUME WalkInv, PollInv, [Next]_all_vars PROVE WalkInv' /\ PollInv'
  OBVIOUS
<1>1. CASE UNCHANGED all_vars
  <2>1. UNCHANGED <<estate_vars, walk_vars>> /\ faults' = faults
        /\ UNCHANGED <<rows, trust, roles, page, poll>>
    BY <1>1 DEF all_vars, vars, onboarding_vars
  <2>2. WalkInv'
    BY <2>1, WalkStill
  <2>3. PollTypes' /\ PollPlaces'
    BY <2>1 DEF PollInv, PollTypes, PollPlaces, walk_vars
  <2>4. CountInv'
    <3>1. CountInv /\ found' = found /\ current' = current /\ moved' = moved
      BY <2>1 DEF PollInv, estate_vars, walk_vars
    <3> QED BY <2>1, <3>1, CountStill
  <2> QED BY <2>2, <2>3, <2>4 DEF PollInv
<1>2. CASE CodeStep
  BY <1>2, StartKeeps, BeginKeeps, AssumeKeeps, WalksKeep, WalkIsOverKeeps, SpawnKeeps,
     AskingKeeps, ReplyKeeps DEF CodeStep
<1>3. CASE OrganizationChanges \/ RoleChanges
  BY <1>3, ChangesKeep
<1>4. CASE Submit \/ CreateFails \/ RequestLost \/ AssumeManagementFails
           \/ WalkFails \/ (\E u \in Units : AskFails(u)) \/ ReplyLost
  BY <1>4, StartKeeps, AssumeKeeps, WalksKeep, AskingKeeps, ReplyKeeps
<1>5. CASE Finished
  BY <1>1, <1>5 DEF Finished
<1> QED BY <1>1, <1>2, <1>3, <1>4, <1>5 DEF Next

LEMMA InvariantHolds == Spec => [](WalkInv /\ PollInv)
<1>1. Init => WalkInv /\ PollInv
  BY InitWalk, InitPoll
<1> QED BY <1>1, StepKeeps, PTL DEF Spec

LEMMA InvariantTypes == WalkInv /\ PollInv => TypeOK
<1> SUFFICES ASSUME WalkInv, PollInv PROVE TypeOK
  OBVIOUS
<1>1. /\ EstateTypes /\ WalkTypes /\ PollTypes /\ CountInv
  BY DEF WalkInv, PollInv
<1>2. /\ up \in [Folders -> Containers \cup {Gone}]
      /\ place \in [Units -> Containers \cup {Gone}]
      /\ current \in Units /\ organizations \in 0..2
      /\ moved \subseteq Units \cup Folders /\ changes \in 0..MaxChanges
  BY <1>1 DEF EstateTypes, Places
<1>3. /\ pc \in {"idle", "organizations", "walk", "listed", "alone", "refused"}
      /\ allowed \subseteq Folders
      /\ found \in [Units -> IF provider = "gcp" THEN Nat ELSE 0..1]
  BY <1>1 DEF WalkTypes
<1>4. \A i \in DOMAIN open : open[i].at \in Containers
  <2>1. open \in Seq(Entries)
    BY <1>1 DEF WalkTypes
  <2> QED BY <2>1, EntryIs
<1>5. /\ roles \in 0..MaxRoles /\ faults \in 0..MaxFaults
      /\ rows \in [Tenants -> Units \cup {Gone}]
      /\ trust \in [Units -> Tenants \cup {Nobody}]
      /\ page.tenant \in Tenants \cup {Nobody}
  BY <1>1 DEF PollTypes
<1>6. /\ Cardinality(poll.asking \cup poll.counting) + poll.slots = Fanout
      /\ poll.asking \cap poll.counting = {} /\ poll.slots \in 0..Fanout
  <2>1. Cardinality(poll.asking \cup poll.counting) \in Nat /\ poll.slots \in Nat
    BY <1>1, ProbesFinite, FS_CardinalityType DEF PollTypes
  <2>2. /\ Cardinality(poll.asking \cup poll.counting) + poll.slots = Fanout
        /\ poll.asking \cap poll.counting = {}
    BY <1>1 DEF CountInv
  <2> QED BY <2>1, <2>2, OnboardingAssumption
<1>7. poll.connected \in 0..Cardinality(Units)
  <2>1. Cardinality(Units) \in Nat
    BY Finite, FS_CardinalityType
  <2>2. CASE poll.pc # "probe"
    BY <1>1, <2>1, <2>2, Quiet
  <2>3. CASE poll.pc = "probe"
    <3>1. PICK C \in SUBSET Members : poll.connected = 1 + Cardinality(C)
      BY <1>1, <2>3 DEF CountInv, Through
    <3>2. /\ Cardinality(C) \in Nat /\ Cardinality(C) <= Cardinality(Members)
          /\ Cardinality(Members) \in Nat /\ Cardinality(Members) < Cardinality(Units)
      BY <1>1, <3>1, ProbesFinite, FS_Subset
    <3> QED BY <2>1, <3>1, <3>2
  <2> QED BY <2>2, <2>3
<1> QED BY <1>2, <1>3, <1>4, <1>5, <1>6, <1>7 DEF TypeOK

\* Every variable has its type, and no more roles are asked at a time than the
\* semaphore of countConnectedMembers admits, whatever fails.
THEOREM OnboardingIsTyped == Spec => []TypeOK
BY InvariantHolds, InvariantTypes, PTL

\* A scope has every steady unit once and no unit that was outside it, for any
\* tree of folders, any page size, and whatever changes beside it
\* (enumerateOrganization, projectsBelow, EnumerateScope).
THEOREM ScopesAreComplete == Spec => []SteadyListedOnce
<1>1. WalkInv => SteadyListedOnce
  <2> SUFFICES ASSUME WalkInv, pc = "listed", NEW u \in Units, Steady(u)
               PROVE  /\ place[u] = Gone => found[u] = 0
                      /\ place[u] # Gone /\ OnFirstPages(u) => found[u] = 1
    BY DEF SteadyListedOnce
  <2>1. open = << >> /\ FoundRight(open, found)
    BY DEF WalkInv, WalkTypes, SteadyInv
  <2>2. ~AheadOn(open, u)
    BY <2>1, NoneTyped
  <2> QED BY <2>1, <2>2 DEF FoundRight
<1> QED BY <1>1, InvariantHolds, PTL

\* A call that failed leaves no scope, one account alone stands for no
\* organization, and nothing but an unfit estate is refused.
THEOREM OnlyTheUnfitAreRefused == Spec => []RefusedExactlyWhenUnfit
<1>1. WalkInv => RefusedExactlyWhenUnfit
  BY DEF WalkInv, FitInv, WalkTypes, RefusedExactlyWhenUnfit
<1> QED BY <1>1, InvariantHolds, PTL

\* No answer counts a role that was not there during its poll, or leaves out
\* one that was there all the while and answered (handleOnboardingStatus).
THEOREM TheCounterIsTrue == Spec => CounterIsTrue
<1> DEFINE True == page'.shown # page.shown /\ page'.shown.scope_verified =>
               /\ page'.shown.total_accounts = Cardinality(Listed)
               /\ page'.shown.connected_accounts \in
                      1 + Cardinality(Surely) .. 1 + Cardinality(Perhaps)
<1>1. WalkInv /\ PollInv /\ [Next]_all_vars => [True]_all_vars
  <2> SUFFICES ASSUME WalkInv, PollInv, Next,
                      page'.shown # page.shown, page'.shown.scope_verified
               PROVE  /\ page'.shown.total_accounts = Cardinality(Listed)
                      /\ page'.shown.connected_accounts \in
                             1 + Cardinality(Surely) .. 1 + Cardinality(Perhaps)
    BY DEF all_vars, onboarding_vars
  <2>1. EstateTypes /\ PollTypes /\ CountInv /\ page \in Pages
    BY PollTypesAre DEF WalkInv, PollInv
  <2>2. ~NotConnected.scope_verified /\ ~Single.scope_verified
    BY DEF NotConnected, Single, Status
  <2>3. page' # page
    OBVIOUS
  <2>4. ~Unanswered
    BY <2>3 DEF Unanswered
  <2>5. ~Answer(NotConnected) /\ ~Answer(Single)
    BY <2>1, <2>2, StatusesAre, Shows
  <2>6. ~(Submit \/ CreateOnboarding \/ CreateFails)
    <3>1. ASSUME NEW step, page' = [page EXCEPT !.step = step] PROVE FALSE
      BY <2>1, <3>1 DEF Pages
    <3>2. ASSUME NEW step, NEW t, page' = [page EXCEPT !.step = step, !.tenant = t]
          PROVE  FALSE
      BY <2>1, <3>2 DEF Pages
    <3> QED BY <3>1, <3>2 DEF Submit, CreateOnboarding, CreateFails
  <2>7. Reply
    <3>1. ~(OrganizationChanges \/ RoleChanges \/ Begin \/ Walk \/ WalkFails \/ Spawn
            \/ Finished \/ \E u \in Units : Ask(u) \/ Count(u) \/ AskFails(u))
      BY <2>3 DEF OrganizationChanges, RoleChanges, Begin, Walk, WalkFails, Spawn, Finished,
         Ask, Count, AskFails, onboarding_vars, all_vars
    <3>2. ~(RequestLost \/ AssumeManagement \/ AssumeManagementFails \/ WalkIsOver \/ ReplyLost)
      BY <2>3, <2>4, <2>5 DEF RequestLost, AssumeManagement, AssumeManagementFails,
         WalkIsOver, ReplyLost
    <3> QED BY <2>6, <3>1, <3>2 DEF Next, CodeStep
  <2> DEFINE status == Status(TRUE, TRUE, FALSE, Cardinality(Listed), poll.connected)
  <2>8. page'.shown = status /\ Probed
    <3>1. page'.shown = status
      BY <2>1, <2>7 DEF Reply, Answer, Pages
    <3> QED BY <2>7, <3>1 DEF Reply
  <2>9. /\ page'.shown.total_accounts = Cardinality(Listed)
        /\ page'.shown.connected_accounts = poll.connected
    BY <2>8 DEF Status
  <2>10. Through = Members
    BY <2>8 DEF Probed, Through
  <2>11. PICK C \in SUBSET (Through \cap Perhaps) :
             poll.connected = 1 + Cardinality(C) /\ Surely \cap Through \subseteq C
    BY <2>1, <2>8 DEF CountInv, Probed
  <2>12. Surely \subseteq C /\ C \subseteq Perhaps
    BY <2>1, <2>10, <2>11, ProbesFinite
  <2>13. /\ IsFiniteSet(C) /\ IsFiniteSet(Perhaps)
         /\ Cardinality(Surely) \in Nat /\ Cardinality(C) \in Nat
         /\ Cardinality(Perhaps) \in Nat
    BY <2>1, <2>12, ProbesFinite
  <2>14. Cardinality(Surely) <= Cardinality(C) /\ Cardinality(C) <= Cardinality(Perhaps)
    BY <2>12, <2>13, FS_Subset
  <2> QED BY <2>9, <2>11, <2>13, <2>14
<1> QED BY <1>1, InvariantHolds, PTL DEF CounterIsTrue, Spec
=============================================================================
