-------------------------- MODULE DataRelayProofs --------------------------
(***************************************************************************)
(* Theorems about the row probe and its relay, for any tables, addresses   *)
(* and limits: the limits hold, what is observed is observed in full, and  *)
(* an error has a cause.                                                   *)
(***************************************************************************)
EXTENDS DataRelay, FiniteSetTheorems, TLAPS

Busy == probe.pc \in {"project", "request", "wait"}
InProject == probe.pc \in {"request", "wait"}

\* The tables of the projects up to the one at hand, and the connection that a
\* request of it waits for.
ProbePosition ==
    /\ InProject => probe.table \in 1 .. Tables[P]
    /\ probe.pc = "project" => probe.table = 1
    /\ probe.pc = "wait" =>
          \E n \in 1 .. probe.table : probe.conn = <<P, n>>

\* Idle connections were dialled for an earlier table of their project.
PoolEarlier ==
    \A p \in Projects : pool[p] # NoConn =>
        /\ \E n \in 1 .. Tables[p] :
              pool[p] = <<p, n>> /\ (Busy /\ p = P => n < probe.table)
        /\ Busy => p <= P
        /\ p = P => probe.pc # "wait"

\* A table the probe has not dialled for has no connection yet.
Ahead(p, n) ==
    \/ p > P
    \/ p = P /\ n > probe.table
    \/ p = P /\ n = probe.table /\ ~(probe.pc = "wait" /\ probe.conn = Current)

UndialledOff ==
    Busy => \A p \in Projects : \A n \in 1 .. Tables[p] :
        Ahead(p, n) => relay[<<p, n>>].pc = "off"

\* Answers are counted table by table, and results come project by project.
QueriedSoFar ==
    \A p \in Projects :
        /\ Busy /\ p > P => queried[p] = 0
        /\ Busy /\ p = P => queried[p] = probe.table - 1
        /\ Busy /\ p >= P => result[p] = "none"

\* A thread holds a slot from its acquisition to its release.
SlotWhileWorking ==
    \A c \in Conns :
        /\ relay[c].held => relay[c].pc \in {"count", "resolve", "connect", "copy",
                                             "close", "release"}
        /\ relay[c].pc \in {"count", "resolve", "connect", "copy"} => relay[c].held
        /\ relay[c].pc = "copy" => relay[c].left > 0

Counted == {c \in Conns : \/ relay[c].pc \in {"resolve", "connect", "copy"}
                          \/ sentTo[c] # {}}

\* The semaphore and the total count what they are for.
Counters ==
    /\ IsFiniteSet(Holding) /\ slots + Cardinality(Holding) = MaxConnections
    /\ IsFiniteSet(Counted) /\ Cardinality(Counted) <= total

\* A connection dialled for the request under way has ended, or has no address
\* left, only for a reason.
EndsForAReason ==
    \A c \in Conns : Exchanging(c) =>
        /\ client[c].end = "open"
        /\ \/ relay[c].pc \in {"close", "release", "closed"}
           \/ relay[c].pc = "connect" /\ relay[c].left = 0
           => disturbed \/ full

RInv ==
    /\ TypeOK
    /\ ProbePosition
    /\ PoolEarlier
    /\ UndialledOff
    /\ QueriedSoFar
    /\ SlotWhileWorking
    /\ Counters
    /\ EndsForAReason
    /\ ObservedInFull
    /\ ErrorsHaveACause
-----------------------------------------------------------------------------
\* A connection is a project and the number of one of its tables.
LEMMA ConnIsPair ==
    /\ Projects = 1 .. Len(Tables) /\ Len(Tables) \in Nat \ {0}
    /\ \A p \in Projects : Tables[p] \in Nat
    /\ \A p \in Projects : \A n \in 1 .. Tables[p] : <<p, n>> \in Conns
    /\ \A c \in Conns : \E p \in Projects : \E n \in 1 .. Tables[p] : c = <<p, n>>
BY SizesAssumption DEF Projects, Conns

LEMMA InitRInv == Init => RInv
<1> SUFFICES ASSUME Init PROVE RInv
  OBVIOUS
<1>1. TypeOK
  <2>1. probe \in [pc : {"project", "request", "wait", "done", "exited"},
                  project : Projects, table : Nat, conn : Conns \cup {NoConn}]
    BY ConnIsPair DEF Init
  <2>2. /\ pool \in [Projects -> Conns \cup {NoConn}]
        /\ queried \in [Projects -> Nat]
        /\ result \in [Projects -> {"none", "not_in_use", "observed", "error"}]
    BY DEF Init
  <2>3. client \in [Conns -> [end : {"none", "open", "closed"}, pending : BOOLEAN]]
    BY DEF Init
  <2>4. relay \in [Conns -> [pc : {"off", "acquire", "count", "resolve", "connect", "copy",
                                  "close", "release", "closed"},
                            held : BOOLEAN, left : 0 .. MaxAnswers]]
    BY SizesAssumption DEF Init
  <2>5. sentTo \in [Conns -> SUBSET (1 .. MaxAnswers)]
    BY DEF Init
  <2>6. slots \in 0 .. MaxConnections /\ total \in 0 .. MaxTotal
    BY SizesAssumption DEF Init
  <2> QED BY <2>1, <2>2, <2>3, <2>4, <2>5, <2>6 DEF Init, TypeOK
<1>2. Holding = {} /\ Counted = {}
  BY DEF Init, Holding, Counted
<1>3. Counters
  BY <1>2, FS_EmptySet, SizesAssumption DEF Init, Counters
<1>4. ProbePosition /\ PoolEarlier /\ UndialledOff /\ QueriedSoFar /\ SlotWhileWorking
  BY ConnIsPair DEF Init, ProbePosition, PoolEarlier, UndialledOff, QueriedSoFar,
     SlotWhileWorking, InProject, P
<1>5. EndsForAReason /\ ObservedInFull /\ ErrorsHaveACause
  BY DEF Init, EndsForAReason, Exchanging, ObservedInFull, ErrorsHaveACause
<1> QED BY <1>1, <1>3, <1>4, <1>5 DEF RInv
-----------------------------------------------------------------------------
(* The relay's threads. *)

Relaying(c) == Thread(c) \/ UpstreamEof(c) \/ UpstreamReset(c)

ThreadStates == [pc : {"off", "acquire", "count", "resolve", "connect", "copy", "close",
                       "release", "closed"},
                 held : BOOLEAN, left : 0 .. MaxAnswers]

IsThreadState(r) == r = [pc |-> r.pc, held |-> r.held, left |-> r.left]

LEMMA RecordExcept ==
    ASSUME NEW r, IsThreadState(r), NEW v
    PROVE  /\ [r EXCEPT !.pc = v] = [pc |-> v, held |-> r.held, left |-> r.left]
           /\ [r EXCEPT !.left = v] = [pc |-> r.pc, held |-> r.held, left |-> v]
           /\ [r EXCEPT !.held = FALSE] = [pc |-> r.pc, held |-> FALSE, left |-> r.left]
<1>1. \A b : [r EXCEPT !.held = b] = [pc |-> r.pc, held |-> b, left |-> r.left]
  BY DEF IsThreadState
<1>2. [r EXCEPT !.held = FALSE] = [pc |-> r.pc, held |-> FALSE, left |-> r.left]
  BY <1>1, Zenon
<1> QED BY <1>2 DEF IsThreadState

LEMMA ThreadExcept ==
    ASSUME NEW r \in ThreadStates, NEW p, NEW v
    PROVE  /\ [r EXCEPT !.pc = p] = [pc |-> p, held |-> r.held, left |-> r.left]
           /\ [r EXCEPT !.pc = p, !.left = v] = [pc |-> p, held |-> r.held, left |-> v]
           /\ [r EXCEPT !.pc = p, !.held = FALSE] = [pc |-> p, held |-> FALSE, left |-> r.left]
<1> DEFINE q == [r EXCEPT !.pc = p]
<1>1. /\ [r EXCEPT !.pc = p, !.left = v] = [q EXCEPT !.left = v]
      /\ [r EXCEPT !.pc = p, !.held = FALSE] = [q EXCEPT !.held = FALSE]
  OBVIOUS
<1>2. IsThreadState(r)
  BY DEF IsThreadState, ThreadStates
<1>3. q = [pc |-> p, held |-> r.held, left |-> r.left]
  BY <1>2, RecordExcept
<1> HIDE DEF q
<1>4. IsThreadState(q) /\ q.pc = p /\ q.held = r.held /\ q.left = r.left
  BY <1>3 DEF IsThreadState
<1>5. /\ [q EXCEPT !.left = v] = [pc |-> q.pc, held |-> q.held, left |-> v]
      /\ [q EXCEPT !.held = FALSE] = [pc |-> q.pc, held |-> FALSE, left |-> q.left]
  BY <1>4, RecordExcept
<1> QED BY <1>1, <1>3, <1>4, <1>5 DEF q

\* What a step of a thread makes of its state; it is no other thread's, and
\* none of the scanner's.
ThreadOnly(c) ==
    /\ UNCHANGED <<probe, pool, queried, result>>
    /\ relay' \in [Conns -> ThreadStates]
    /\ relay[c].pc # "off" /\ relay'[c].pc # "off"
    /\ \A d \in Conns \ {c} : relay'[d] = relay[d]
    /\ \A d \in Conns : client'[d].end = client[d].end

LEMMA ThreadMoves == ASSUME TypeOK, SlotWhileWorking, NEW c \in Conns, Relaying(c)
                     PROVE  ThreadOnly(c) /\ SlotWhileWorking'
<1> DEFINE Is(p, h, l) == relay' = [relay EXCEPT ![c] = [pc |-> p, held |-> h, left |-> l]]
<1>0. /\ relay \in [Conns -> ThreadStates] /\ relay[c] \in ThreadStates
      /\ relay[c] = [pc |-> relay[c].pc, held |-> relay[c].held, left |-> relay[c].left]
  BY DEF TypeOK, ThreadStates
<1>1. CASE Acquire(c)
  <2>1. Is("count", TRUE, relay[c].left) \/ Is("close", relay[c].held, relay[c].left)
    BY <1>0, <1>1 DEF Acquire, ThreadStates
  <2>2. relay' \in [Conns -> ThreadStates]
    BY <1>0, <2>1, <1>1, SizesAssumption DEF Acquire, ThreadStates, SlotWhileWorking
  <2>3. ThreadOnly(c)
    BY <1>0, <2>1, <2>2, <1>1 DEF Acquire, ThreadOnly, scannerVars
  <2>4. SlotWhileWorking'
    BY <1>0, <2>1, <1>1 DEF Acquire, SlotWhileWorking, ThreadStates
  <2> QED BY <2>3, <2>4
<1>2. CASE Count(c)
  <2>1. Is("close", relay[c].held, relay[c].left) \/ Is("resolve", relay[c].held, relay[c].left)
    BY <1>0, <1>2 DEF Count, ThreadStates
  <2>2. relay' \in [Conns -> ThreadStates]
    BY <1>0, <2>1, <1>2, SizesAssumption DEF Count, ThreadStates, SlotWhileWorking
  <2>3. ThreadOnly(c)
    BY <1>0, <2>1, <2>2, <1>2 DEF Count, ThreadOnly, scannerVars
  <2>4. SlotWhileWorking'
    BY <1>0, <2>1, <1>2 DEF Count, SlotWhileWorking, ThreadStates
  <2> QED BY <2>3, <2>4
<1>3. CASE Resolve(c)
  <2>1. \/ \E n \in 1 .. MaxAnswers : Is("connect", relay[c].held, n)
        \/ Is("close", relay[c].held, relay[c].left)
    BY <1>0, <1>3 DEF Resolve, ThreadStates
  <2>2. relay' \in [Conns -> ThreadStates]
    <3>1. ASSUME NEW l \in 0 .. MaxAnswers, NEW p \in {"connect", "close"}
          PROVE  [pc |-> p, held |-> relay[c].held, left |-> l] \in ThreadStates
      BY <1>0 DEF ThreadStates
    <3>2. relay[c].left \in 0 .. MaxAnswers /\ 1 .. MaxAnswers \subseteq 0 .. MaxAnswers
      BY <1>0, SizesAssumption DEF ThreadStates
    <3> QED BY <1>0, <2>1, <3>1, <3>2
  <2>3. ThreadOnly(c)
    BY <1>0, <2>1, <2>2, <1>3 DEF Resolve, ThreadOnly, scannerVars
  <2>4. SlotWhileWorking'
    BY <1>0, <2>1, <1>3 DEF Resolve, SlotWhileWorking, ThreadStates
  <2> QED BY <2>3, <2>4
<1>4. CASE Connect(c)
  <2>1. \/ Is("close", relay[c].held, relay[c].left)
        \/ relay[c].left > 0 /\ Is("copy", relay[c].held, relay[c].left)
        \/ relay[c].left > 0 /\ Is("connect", relay[c].held, relay[c].left - 1)
    BY <1>0, <1>4 DEF Connect, ThreadStates
  <2>2. relay' \in [Conns -> ThreadStates]
    BY <1>0, <2>1, <1>4, SizesAssumption DEF Connect, ThreadStates, SlotWhileWorking
  <2>3. ThreadOnly(c)
    BY <1>0, <2>1, <2>2, <1>4 DEF Connect, ThreadOnly, scannerVars
  <2>4. SlotWhileWorking'
    BY <1>0, <2>1, <1>4 DEF Connect, SlotWhileWorking, ThreadStates
  <2> QED BY <2>3, <2>4
<1>5. CASE ClientEof(c)
  <2>1. Is("close", relay[c].held, relay[c].left)
    <3>1. relay' = [relay EXCEPT ![c] = [relay[c] EXCEPT !.pc = "close"]]
      BY <1>0, <1>5 DEF ClientEof
    <3> QED BY <1>0, <3>1, ThreadExcept
  <2>2. relay' \in [Conns -> ThreadStates]
    BY <1>0, <2>1, <1>5, SizesAssumption DEF ClientEof, ThreadStates, SlotWhileWorking
  <2>3. ThreadOnly(c)
    BY <1>0, <2>1, <2>2, <1>5 DEF ClientEof, ThreadOnly, scannerVars
  <2>4. SlotWhileWorking'
    BY <1>0, <2>1, <1>5 DEF ClientEof, SlotWhileWorking, ThreadStates
  <2> QED BY <2>3, <2>4
<1>6. CASE UpstreamEof(c)
  <2>1. Is("close", relay[c].held, relay[c].left)
    <3>1. relay' = [relay EXCEPT ![c] = [relay[c] EXCEPT !.pc = "close"]]
      BY <1>0, <1>6 DEF UpstreamEof
    <3> QED BY <1>0, <3>1, ThreadExcept
  <2>2. relay' \in [Conns -> ThreadStates]
    BY <1>0, <2>1, <1>6, SizesAssumption DEF UpstreamEof, ThreadStates, SlotWhileWorking
  <2>3. ThreadOnly(c)
    BY <1>0, <2>1, <2>2, <1>6 DEF UpstreamEof, ThreadOnly, scannerVars
  <2>4. SlotWhileWorking'
    BY <1>0, <2>1, <1>6 DEF UpstreamEof, SlotWhileWorking, ThreadStates
  <2> QED BY <2>3, <2>4
<1>7. CASE UpstreamReset(c)
  <2>1. Is("connect", relay[c].held, relay[c].left - 1)
    BY <1>0, <1>7 DEF UpstreamReset, ThreadStates
  <2>2. relay' \in [Conns -> ThreadStates]
    BY <1>0, <2>1, <1>7, SizesAssumption DEF UpstreamReset, ThreadStates, SlotWhileWorking
  <2>3. ThreadOnly(c)
    BY <1>0, <2>1, <2>2, <1>7 DEF UpstreamReset, ThreadOnly, scannerVars
  <2>4. SlotWhileWorking'
    BY <1>0, <2>1, <1>7 DEF UpstreamReset, SlotWhileWorking, ThreadStates
  <2> QED BY <2>3, <2>4
<1>8. CASE CloseConn(c)
  <2>1. Is("release", relay[c].held, 0)
    <3>1. relay' = [relay EXCEPT ![c] = [relay[c] EXCEPT !.pc = "release", !.left = 0]]
      BY <1>0, <1>8 DEF CloseConn
    <3> QED BY <1>0, <3>1, ThreadExcept
  <2>2. relay' \in [Conns -> ThreadStates]
    BY <1>0, <2>1, <1>8, SizesAssumption DEF CloseConn, ThreadStates, SlotWhileWorking
  <2>3. ThreadOnly(c)
    BY <1>0, <2>1, <2>2, <1>8 DEF CloseConn, ThreadOnly, scannerVars
  <2>4. SlotWhileWorking'
    BY <1>0, <2>1, <1>8 DEF CloseConn, SlotWhileWorking, ThreadStates
  <2> QED BY <2>3, <2>4
<1>9. CASE Release(c)
  <2>1. Is("closed", FALSE, relay[c].left)
    <3>1. relay' = [relay EXCEPT ![c] = [relay[c] EXCEPT !.pc = "closed", !.held = FALSE]]
      BY <1>0, <1>9 DEF Release
    <3> QED BY <1>0, <3>1, ThreadExcept
  <2>2. relay' \in [Conns -> ThreadStates]
    BY <1>0, <2>1, <1>9, SizesAssumption DEF Release, ThreadStates, SlotWhileWorking
  <2>3. ThreadOnly(c)
    BY <1>0, <2>1, <2>2, <1>9 DEF Release, ThreadOnly, scannerVars
  <2>4. SlotWhileWorking'
    BY <1>0, <2>1, <1>9 DEF Release, SlotWhileWorking, ThreadStates
  <2> QED BY <2>3, <2>4
<1>10. CASE Forward(c)
  <2>1. ThreadOnly(c)
    BY <1>0, <1>10 DEF Forward, ThreadOnly, scannerVars, TypeOK
  <2>2. SlotWhileWorking'
    BY <1>10 DEF Forward, SlotWhileWorking
  <2> QED BY <2>1, <2>2
<1> QED BY <1>1, <1>2, <1>3, <1>4, <1>5, <1>6, <1>7, <1>8, <1>9, <1>10 DEF Relaying, Thread

LEMMA ThreadType == ASSUME TypeOK, SlotWhileWorking, Counters, NEW c \in Conns, Relaying(c)
                    PROVE  TypeOK'
<1>1. Cardinality(Holding) \in Nat /\ (relay[c].held => Cardinality(Holding) > 0)
  BY FS_CardinalityType, FS_EmptySet DEF Counters, Holding
<1>2. slots \in Nat /\ total \in Nat /\ slots <= MaxConnections /\ total <= MaxTotal
      /\ MaxConnections \in Nat /\ MaxTotal \in Nat
  BY SizesAssumption DEF TypeOK
<1>3. /\ UNCHANGED <<probe, pool, queried, result>>
      /\ relay' \in [Conns -> ThreadStates]
  BY ThreadMoves DEF ThreadOnly
<1>4. client' \in [Conns -> [end : {"none", "open", "closed"}, pending : BOOLEAN]]
  <2>1. CASE Forward(c)
    BY <2>1 DEF TypeOK, Forward
  <2>2. CASE ~Forward(c)
    <3>1. UNCHANGED client
      BY <2>2 DEF Relaying, Thread, Acquire, Count, Resolve, Connect, ClientEof, UpstreamEof,
             UpstreamReset, CloseConn, Release
    <3> QED BY <3>1 DEF TypeOK
  <2> QED BY <2>1, <2>2
<1>5. sentTo' \in [Conns -> SUBSET (1 .. MaxAnswers)]
  <2>1. CASE Forward(c)
    <3>1. relay[c].left \in 1 .. MaxAnswers
      BY <2>1, SizesAssumption DEF TypeOK, SlotWhileWorking, Forward
    <3>2. sentTo[c] \cup {relay[c].left} \in SUBSET (1 .. MaxAnswers)
      BY <3>1 DEF TypeOK
    <3> QED BY <2>1, <3>2 DEF TypeOK, Forward
  <2>2. CASE ~Forward(c)
    <3>1. UNCHANGED sentTo
      BY <2>2 DEF Relaying, Thread, Acquire, Count, Resolve, Connect, ClientEof, UpstreamEof,
             UpstreamReset, CloseConn, Release
    <3> QED BY <3>1 DEF TypeOK
  <2> QED BY <2>1, <2>2
<1>6. slots' \in 0 .. MaxConnections
  <2>1. slots' = slots \/ (slots > 0 /\ slots' = slots - 1) \/ (relay[c].held /\ slots' = slots + 1)
    BY DEF Relaying, Thread, Acquire, Count, Resolve, Connect, Forward, ClientEof,
           UpstreamEof, UpstreamReset, CloseConn, Release
  <2> QED BY <1>1, <1>2, <2>1 DEF Counters
<1>7. total' \in 0 .. MaxTotal
  <2>1. total' = total \/ (~(total >= MaxTotal) /\ total' = total + 1)
    BY DEF Relaying, Thread, Acquire, Count, Resolve, Connect, Forward, ClientEof,
           UpstreamEof, UpstreamReset, CloseConn, Release
  <2> QED BY <1>2, <2>1
<1>8. disturbed' \in BOOLEAN /\ full' \in BOOLEAN
  BY DEF TypeOK, Relaying, Thread, Acquire, Count, Resolve, Connect, Forward, ClientEof,
         UpstreamEof, UpstreamReset, CloseConn, Release
<1> QED BY <1>3, <1>4, <1>5, <1>6, <1>7, <1>8 DEF TypeOK, ThreadStates

LEMMA ThreadCounts == ASSUME TypeOK, SlotWhileWorking, Counters, NEW c \in Conns, Relaying(c)
                      PROVE  Counters'
<1>0. /\ Cardinality(Holding) \in Nat /\ Cardinality(Counted) \in Nat
      /\ slots \in Nat /\ total \in Nat /\ MaxConnections \in Nat
      /\ slots + Cardinality(Holding) = MaxConnections /\ Cardinality(Counted) <= total
  BY FS_CardinalityType, SizesAssumption DEF Counters, TypeOK
<1>1. relay \in [Conns -> ThreadStates] /\ ThreadOnly(c)
  BY ThreadMoves DEF TypeOK, ThreadStates
<1>2. IsFiniteSet(Holding') /\ slots' + Cardinality(Holding') = MaxConnections
  <2>1. CASE Acquire(c) /\ slots > 0
    <3>1. Holding' = Holding \cup {c} /\ c \notin Holding
      BY <1>1, <2>1 DEF Holding, Acquire, SlotWhileWorking, ThreadOnly, ThreadStates
    <3>2. slots' = slots - 1
      BY <2>1 DEF Acquire, TypeOK
    <3>3. IsFiniteSet(Holding') /\ Cardinality(Holding') = Cardinality(Holding) + 1
      BY <3>1, FS_AddElement DEF Counters
    <3> QED BY <1>0, <3>2, <3>3
  <2>2. CASE Release(c) /\ relay[c].held
    <3>1. Holding' = Holding \ {c} /\ c \in Holding
      BY <1>1, <2>2 DEF Holding, Release, ThreadOnly, ThreadStates
    <3>2. slots' = slots + 1
      BY <2>2 DEF Release
    <3>3. IsFiniteSet(Holding') /\ Cardinality(Holding') = Cardinality(Holding) - 1
      BY <3>1, FS_RemoveElement DEF Counters
    <3> QED BY <1>0, <3>2, <3>3
  <2>3. CASE ~(Acquire(c) /\ slots > 0) /\ ~(Release(c) /\ relay[c].held)
    <3>1. relay'[c].held = relay[c].held
      <4>1. CASE Release(c)
        BY <1>1, <2>3, <4>1 DEF Release, ThreadStates
      <4>2. CASE Acquire(c)
        BY <1>0, <1>1, <2>3, <4>2 DEF Acquire, ThreadStates
      <4>3. CASE CloseConn(c)
        BY <1>1, <4>3 DEF CloseConn, ThreadStates
      <4>4. CASE Count(c) \/ Connect(c) \/ Forward(c)
        BY <1>1, <4>4 DEF Count, Connect, Forward, ThreadStates
      <4>5. CASE Resolve(c) \/ ClientEof(c) \/ UpstreamEof(c) \/ UpstreamReset(c)
        BY <1>1, <4>5 DEF Resolve, ClientEof, UpstreamEof, UpstreamReset, ThreadStates
      <4> QED BY <4>1, <4>2, <4>3, <4>4, <4>5 DEF Relaying, Thread
    <3>3. UNCHANGED slots
      BY <1>0, <2>3 DEF Relaying, Thread, Acquire, Count, Resolve, Connect, Forward, ClientEof,
             UpstreamEof, UpstreamReset, CloseConn, Release
    <3>2. Holding' = Holding
      BY <1>1, <3>1 DEF Holding, ThreadOnly
    <3> QED BY <3>2, <3>3 DEF Counters
  <2> QED BY <2>1, <2>2, <2>3
<1>3. IsFiniteSet(Counted') /\ Cardinality(Counted') <= total'
  <2>1. CASE Count(c) /\ total' = total + 1
    <3>1. Counted' \subseteq Counted \cup {c}
      BY <1>1, <2>1 DEF Counted, Count, ThreadOnly
    <3>2. IsFiniteSet(Counted \cup {c}) /\ Cardinality(Counted \cup {c}) <= total + 1
      <4>1. CASE c \in Counted
        <5>1. Counted \cup {c} = Counted
          BY <4>1
        <5> QED BY <1>0, <5>1 DEF Counters
      <4>2. CASE c \notin Counted
        <5>1. /\ IsFiniteSet(Counted \cup {c})
              /\ Cardinality(Counted \cup {c}) = Cardinality(Counted) + 1
          BY <4>2, FS_AddElement DEF Counters
        <5> QED BY <1>0, <5>1
      <4> QED BY <4>1, <4>2
    <3>3. IsFiniteSet(Counted') /\ Cardinality(Counted') <= Cardinality(Counted \cup {c})
      BY <3>1, <3>2, FS_Subset
    <3>4. Cardinality(Counted') \in Nat /\ Cardinality(Counted \cup {c}) \in Nat
      BY <3>2, <3>3, FS_CardinalityType
    <3> QED BY <1>0, <2>1, <3>2, <3>3, <3>4
  <2>2. CASE ~(Count(c) /\ total' = total + 1)
    <3>1. UNCHANGED total
      BY <2>2 DEF Relaying, Thread, Acquire, Count, Resolve, Connect, Forward, ClientEof,
             UpstreamEof, UpstreamReset, CloseConn, Release
    <3>2. \A d \in Conns \ {c} : sentTo'[d] = sentTo[d]
      BY DEF Relaying, Thread, Acquire, Count, Resolve, Connect, Forward, ClientEof,
             UpstreamEof, UpstreamReset, CloseConn, Release, TypeOK
    <3>3. c \in Counted' => c \in Counted
      BY <1>1, <2>2, <3>1 DEF Counted, Relaying, Thread, Acquire, Count, Resolve, Connect, Forward,
             ClientEof, UpstreamEof, UpstreamReset, CloseConn, Release, ThreadStates, TypeOK
    <3>4. Counted' \subseteq Counted
      BY <1>1, <3>2, <3>3 DEF Counted, ThreadOnly
    <3>5. IsFiniteSet(Counted') /\ Cardinality(Counted') <= Cardinality(Counted)
      BY <3>4, FS_Subset DEF Counters
    <3>6. Cardinality(Counted') \in Nat
      BY <3>5, FS_CardinalityType
    <3> QED BY <1>0, <3>1, <3>5, <3>6
  <2> QED BY <2>1, <2>2
<1> QED BY <1>2, <1>3 DEF Counters

\* The probe's side of the invariant, and what it says of connections that were
\* not dialled, is no concern of a thread's.
LEMMA ThreadKeeps == ASSUME TypeOK, ProbePosition, PoolEarlier, UndialledOff, QueriedSoFar,
                            SlotWhileWorking, ObservedInFull, ErrorsHaveACause,
                            NEW c \in Conns, Relaying(c)
                     PROVE  /\ ProbePosition' /\ PoolEarlier' /\ UndialledOff' /\ QueriedSoFar'
                            /\ ObservedInFull' /\ ErrorsHaveACause'
<1>1. ThreadOnly(c)
  BY ThreadMoves
<1>2. UNCHANGED <<probe, pool, queried, result>> /\ UNCHANGED P /\ UNCHANGED Current
  BY <1>1 DEF ThreadOnly, P, Current
<1>3. ProbePosition' /\ PoolEarlier' /\ QueriedSoFar' /\ ObservedInFull'
  BY <1>2 DEF ProbePosition, PoolEarlier, QueriedSoFar, ObservedInFull, Busy, InProject
<1>4. UndialledOff'
  <2>1. \A d \in Conns : relay[d].pc = "off" => relay'[d].pc = "off"
    BY <1>1 DEF ThreadOnly
  <2>2. \A p, n : Ahead(p, n)' <=> Ahead(p, n)
    BY <1>2 DEF Ahead
  <2> QED BY <1>2, <2>1, <2>2, ConnIsPair DEF UndialledOff, Busy
<1>5. (disturbed \/ full) => (disturbed' \/ full')
  BY DEF Relaying, Thread, Acquire, Count, Resolve, Connect, Forward, ClientEof,
         UpstreamEof, UpstreamReset, CloseConn, Release
<1>6. ErrorsHaveACause'
  BY <1>2, <1>5 DEF ErrorsHaveACause
<1> QED BY <1>3, <1>4, <1>6

LEMMA ThreadEnds == ASSUME TypeOK, SlotWhileWorking, EndsForAReason, NEW c \in Conns, Relaying(c)
                    PROVE  EndsForAReason'
<1>1. ThreadOnly(c) /\ relay \in [Conns -> ThreadStates]
  BY ThreadMoves DEF TypeOK, ThreadStates
<1>2. UNCHANGED <<probe, pool, queried, result>>
  BY <1>1 DEF ThreadOnly
<1>3. \A d : Exchanging(d)' <=> Exchanging(d)
  BY <1>2 DEF Exchanging, Current, P
<1>4. (disturbed \/ full) => (disturbed' \/ full')
  BY DEF Relaying, Thread, Acquire, Count, Resolve, Connect, Forward, ClientEof,
         UpstreamEof, UpstreamReset, CloseConn, Release
<1>5. ASSUME NEW d \in Conns, Exchanging(d)', d # c
      PROVE  /\ client'[d].end = "open"
             /\ \/ relay'[d].pc \in {"close", "release", "closed"}
                \/ relay'[d].pc = "connect" /\ relay'[d].left = 0
                => disturbed' \/ full'
  BY <1>1, <1>3, <1>4, <1>5 DEF ThreadOnly, EndsForAReason
<1>6. ASSUME Exchanging(c)'
      PROVE  /\ client'[c].end = "open"
             /\ \/ relay'[c].pc \in {"close", "release", "closed"}
                \/ relay'[c].pc = "connect" /\ relay'[c].left = 0
                => disturbed' \/ full'
  <2>1. client'[c].end = "open" /\ Exchanging(c)
    BY <1>1, <1>3, <1>6 DEF ThreadOnly, EndsForAReason
  <2>2. CASE Acquire(c)
    BY <1>1, <2>1, <2>2 DEF Acquire, ThreadStates
  <2>3. CASE Count(c)
    BY <1>1, <2>1, <2>3 DEF Count, ThreadStates
  <2>4. CASE Resolve(c)
    BY <1>1, <2>1, <2>4 DEF Resolve, ThreadStates
  <2>5. CASE Connect(c)
    BY <1>1, <1>4, <2>1, <2>5 DEF Connect, ThreadStates, EndsForAReason
  <2>6. CASE Forward(c)
    BY <1>1, <2>1, <2>6 DEF Forward, ThreadStates
  <2>7. CASE ClientEof(c)
    BY <2>1, <2>7 DEF ClientEof, EndsForAReason
  <2>8. CASE UpstreamEof(c) \/ UpstreamReset(c)
    BY <1>1, <2>1, <2>8 DEF UpstreamEof, UpstreamReset
  <2>9. CASE CloseConn(c) \/ Release(c)
    BY <1>1, <1>4, <2>1, <2>9 DEF CloseConn, Release, EndsForAReason
  <2> QED BY <2>1, <2>2, <2>3, <2>4, <2>5, <2>6, <2>7, <2>8, <2>9 DEF Relaying, Thread
<1> QED BY <1>5, <1>6 DEF EndsForAReason
-----------------------------------------------------------------------------
(* The scanner. *)

Probes == [pc : {"project", "request", "wait", "done", "exited"},
           project : Projects, table : Nat, conn : Conns \cup {NoConn}]
At(pc, p, n, c) == [pc |-> pc, project |-> p, table |-> n, conn |-> c]

LEMMA ProbeExcept ==
    ASSUME TypeOK, NEW pc, NEW c
    PROVE  /\ [probe EXCEPT !.pc = pc] = At(pc, P, probe.table, probe.conn)
           /\ [probe EXCEPT !.pc = pc, !.conn = c] = At(pc, P, probe.table, c)
           /\ [probe EXCEPT !.pc = pc, !.table = @ + 1, !.conn = c] = At(pc, P, probe.table + 1, c)
<1> DEFINE Is(r) == r = At(r.pc, r.project, r.table, r.conn)
           q == [probe EXCEPT !.pc = pc]
           q2 == [q EXCEPT !.table = probe.table + 1]
<1>1. ASSUME NEW r, Is(r), NEW v
      PROVE  /\ [r EXCEPT !.pc = v] = At(v, r.project, r.table, r.conn)
             /\ [r EXCEPT !.table = v] = At(r.pc, r.project, v, r.conn)
             /\ [r EXCEPT !.conn = v] = At(r.pc, r.project, r.table, v)
  BY <1>1 DEF At
<1>2. ASSUME NEW r, NEW a, NEW b, NEW d, NEW e, r = At(a, b, d, e)
      PROVE  Is(r) /\ r.pc = a /\ r.project = b /\ r.table = d /\ r.conn = e
  BY <1>2 DEF At
<1>3. Is(probe)
  BY DEF TypeOK, At
<1>4. /\ [probe EXCEPT !.pc = pc, !.conn = c] = [q EXCEPT !.conn = c]
      /\ [probe EXCEPT !.pc = pc, !.table = @ + 1, !.conn = c] = [q2 EXCEPT !.conn = c]
  OBVIOUS
<1>5. q = At(pc, P, probe.table, probe.conn)
  BY <1>1, <1>3 DEF P
<1> HIDE DEF q, q2
<1>6. Is(q) /\ q.pc = pc /\ q.project = P /\ q.table = probe.table /\ q.conn = probe.conn
  BY <1>2, <1>5
<1>7. q2 = At(pc, P, probe.table + 1, q.conn)
  BY <1>1, <1>6 DEF q2
<1>8. Is(q2) /\ q2.pc = pc /\ q2.project = P /\ q2.table = probe.table + 1
  BY <1>2, <1>7
<1> HIDE DEF Is
<1>9. [q EXCEPT !.conn = c] = At(pc, P, probe.table, c) /\ [q2 EXCEPT !.conn = c] = At(pc, P, probe.table + 1, c)
  <2>1. /\ [q EXCEPT !.conn = c] = At(q.pc, q.project, q.table, c)
        /\ [q2 EXCEPT !.conn = c] = At(q2.pc, q2.project, q2.table, c)
    BY <1>1, <1>6, <1>8
  <2> QED BY <2>1, <1>6, <1>8
<1> QED BY <1>4, <1>5, <1>9 DEF q

\* What Conclude makes of the probe.
LEMMA Concluded ==
    ASSUME TypeOK, Busy, NEW o, Conclude(o)
    PROVE  /\ \/ P = Len(Tables) /\ probe' = At("done", P, probe.table, NoConn)
              \/ P + 1 \in Projects /\ probe' = At("project", P + 1, 1, NoConn)
           /\ probe' \in Probes
           /\ result' = [result EXCEPT ![P] = o]
<1>1. probe \in Probes /\ P \in Projects /\ probe.table \in Nat
  BY DEF TypeOK, Probes, P
<1>2. P # Len(Tables) => P + 1 \in Projects
  BY <1>1, ConnIsPair
<1>3. \/ P = Len(Tables) /\ probe' = At("done", P, probe.table, NoConn)
      \/ P + 1 \in Projects /\ probe' = At("project", P + 1, 1, NoConn)
  BY <1>2, ProbeExcept DEF Conclude, At
<1>4. \A pc \in {"project", "done"}, p \in Projects, n \in Nat : At(pc, p, n, NoConn) \in Probes
  BY DEF At, Probes
<1> QED BY <1>1, <1>3, <1>4 DEF Conclude

\* A project is concluded rightly if its tables were all asked when it says so,
\* and if there is a cause when it says error.
LEMMA ConcludeKeeps ==
    ASSUME RInv, Busy, NEW o \in {"not_in_use", "observed", "error"}, Conclude(o),
           \A p \in Projects : \A n \in 1 .. Tables[p] : p > P => relay'[<<p, n>>] = relay[<<p, n>>],
           \A p \in Projects \ {P} : pool'[p] = pool[p] /\ queried'[p] = queried[p],
           pool'[P] # NoConn => \E n \in 1 .. Tables[P] : pool'[P] = <<P, n>>,
           o = "error" => disturbed' \/ full',
           o # "error" => queried'[P] = Tables[P],
           disturbed \/ full => disturbed' \/ full'
    PROVE  /\ ProbePosition' /\ PoolEarlier' /\ UndialledOff' /\ QueriedSoFar'
           /\ EndsForAReason' /\ ObservedInFull' /\ ErrorsHaveACause'
<1>1. /\ TypeOK /\ ProbePosition /\ PoolEarlier /\ UndialledOff /\ QueriedSoFar
      /\ ObservedInFull /\ ErrorsHaveACause
  BY DEF RInv
<1>2. P \in Projects /\ result \in [Projects -> {"none", "not_in_use", "observed", "error"}]
  BY <1>1 DEF TypeOK, P
<1>3. \A p \in Projects : p \in Nat
  BY ConnIsPair
<1>4. result' = [result EXCEPT ![P] = o]
  BY <1>1, Concluded
<1>5. ObservedInFull' /\ ErrorsHaveACause'
  BY <1>1, <1>2, <1>4 DEF ObservedInFull, ErrorsHaveACause
<1>6. CASE P = Len(Tables) /\ probe' = At("done", P, probe.table, NoConn)
  <2>1. ~Busy' /\ ~InProject' /\ probe'.pc = "done"
    BY <1>6 DEF Busy, InProject, At
  <2>2. \A p \in Projects : pool'[p] # NoConn => \E n \in 1 .. Tables[p] : pool'[p] = <<p, n>>
    BY <1>1 DEF PoolEarlier
  <2>3. PoolEarlier'
    BY <2>1, <2>2 DEF PoolEarlier
  <2> QED BY <1>5, <2>1, <2>3 DEF ProbePosition, UndialledOff, QueriedSoFar, EndsForAReason,
             Exchanging
<1>7. CASE P + 1 \in Projects /\ probe' = At("project", P + 1, 1, NoConn)
  <2>1. Busy' /\ ~InProject' /\ probe'.pc = "project" /\ P' = P + 1 /\ probe'.table = 1
    BY <1>7 DEF Busy, InProject, At, P
  <2>2. ASSUME NEW p \in Projects, pool'[p] # NoConn
        PROVE  p <= P /\ \E n \in 1 .. Tables[p] : pool'[p] = <<p, n>>
    BY <1>1, <1>2, <1>3, <2>2 DEF PoolEarlier
  <2>3. \A p \in Projects : p <= P => p # P + 1 /\ p <= P + 1
    BY <1>2, <1>3
  <2>4. PoolEarlier'
    BY <2>1, <2>2, <2>3 DEF PoolEarlier
  <2>5. \A p \in Projects, n \in Nat : Ahead(p, n)' => Ahead(p, n) /\ p > P
    BY <1>2, <1>3, <2>1 DEF Ahead
  <2>6. UndialledOff'
    BY <1>1, <2>1, <2>5, ConnIsPair DEF UndialledOff
  <2>7. \A p \in Projects : p >= P + 1 => p > P /\ p # P
    BY <1>2, <1>3
  <2>8. QueriedSoFar'
    BY <1>1, <1>2, <1>3, <1>4, <2>1, <2>7 DEF QueriedSoFar
  <2> QED BY <1>5, <2>1, <2>4, <2>6, <2>8 DEF ProbePosition, EndsForAReason, Exchanging
<1> QED BY <1>1, <1>6, <1>7, Concluded

LEMMA ConcludedType ==
    ASSUME TypeOK, Busy, NEW o \in {"not_in_use", "observed", "error"}, Conclude(o),
           relay' \in [Conns -> ThreadStates], UNCHANGED <<sentTo, slots, total>>,
           pool' \in [Projects -> Conns \cup {NoConn}], queried' \in [Projects -> Nat],
           client' \in [Conns -> [end : {"none", "open", "closed"}, pending : BOOLEAN]],
           disturbed' \in BOOLEAN, full' \in BOOLEAN
    PROVE  TypeOK'
<1>1. probe' \in Probes /\ result' = [result EXCEPT ![P] = o]
  BY Concluded
<1>2. result' \in [Projects -> {"none", "not_in_use", "observed", "error"}]
  BY <1>1 DEF TypeOK
<1> QED BY <1>1, <1>2 DEF TypeOK, Probes, ThreadStates

LEMMA RelayUntouched == ASSUME RInv, UNCHANGED <<relay, sentTo, slots, total>>
                        PROVE  /\ SlotWhileWorking' /\ Counters'
                               /\ relay' \in [Conns -> ThreadStates]
BY DEF RInv, TypeOK, ThreadStates, SlotWhileWorking, Counters, Holding, Counted

LEMMA BeginProjectKeeps == RInv /\ BeginProject => RInv'
<1> SUFFICES ASSUME RInv, BeginProject PROVE RInv'
  OBVIOUS
<1>1. /\ TypeOK /\ Busy /\ probe.pc = "project" /\ P \in Projects
      /\ UNCHANGED <<pool, client, relay, sentTo, slots, total, queried, full>>
  BY DEF RInv, BeginProject, Busy, TypeOK, P
<1>2. pool[P] # NoConn => \E n \in 1 .. Tables[P] : pool[P] = <<P, n>>
  BY <1>1 DEF RInv, PoolEarlier
<1>3. queried[P] = 0
  BY <1>1 DEF RInv, QueriedSoFar, ProbePosition
<1>4. SlotWhileWorking' /\ Counters' /\ relay' \in [Conns -> ThreadStates]
  BY <1>1, RelayUntouched
<1>5. CASE Tables[P] = 0 /\ Conclude("not_in_use") /\ UNCHANGED disturbed
  <2>1. /\ ProbePosition' /\ PoolEarlier' /\ UndialledOff' /\ QueriedSoFar'
        /\ EndsForAReason' /\ ObservedInFull' /\ ErrorsHaveACause'
    BY <1>1, <1>2, <1>3, <1>5, ConcludeKeeps
  <2>2. TypeOK'
    <3>1. disturbed' \in BOOLEAN
      BY <1>1, <1>2, <1>3, <1>5 DEF TypeOK
    <3> QED BY <1>1, <1>4, <1>5, <3>1, ConcludedType DEF TypeOK
  <2> QED BY <1>4, <2>1, <2>2 DEF RInv
<1>6. CASE Conclude("error") /\ disturbed' = TRUE
  <2>1. /\ ProbePosition' /\ PoolEarlier' /\ UndialledOff' /\ QueriedSoFar'
        /\ EndsForAReason' /\ ObservedInFull' /\ ErrorsHaveACause'
    BY <1>1, <1>2, <1>6, ConcludeKeeps
  <2>2. TypeOK'
    <3>1. disturbed' \in BOOLEAN
      BY <1>1, <1>2, <1>6 DEF TypeOK
    <3> QED BY <1>1, <1>4, <1>6, <3>1, ConcludedType DEF TypeOK
  <2> QED BY <1>4, <2>1, <2>2 DEF RInv
<1>7. CASE Tables[P] > 0 /\ probe' = [probe EXCEPT !.pc = "request"]
           /\ UNCHANGED <<result, disturbed>>
  <2>1. probe' = At("request", P, 1, probe.conn) /\ probe.table = 1
    BY <1>1, <1>7, ProbeExcept DEF RInv, ProbePosition
  <2>2. /\ Busy' /\ InProject' /\ P' = P /\ probe'.pc = "request" /\ probe'.table = 1
        /\ Tables[P] \in Nat
    BY <1>1, <2>1, ConnIsPair DEF Busy, InProject, At, P
  <2>3. TypeOK'
    BY <1>1, <1>7, <2>1 DEF TypeOK, At, P
  <2>4. ProbePosition' /\ EndsForAReason'
    BY <1>7, <2>2 DEF ProbePosition, EndsForAReason, Exchanging
  <2>5. PoolEarlier' /\ QueriedSoFar' /\ ObservedInFull' /\ ErrorsHaveACause'
    BY <1>1, <1>7, <2>1, <2>2 DEF RInv, PoolEarlier, QueriedSoFar, ObservedInFull, ErrorsHaveACause
  <2>6. \A p \in Projects, n \in Nat : Ahead(p, n)' => Ahead(p, n)
    BY <1>1, <2>1, <2>2 DEF Ahead
  <2>7. UndialledOff'
    BY <1>1, <2>2, <2>6, ConnIsPair DEF RInv, UndialledOff
  <2> QED BY <1>4, <2>3, <2>4, <2>5, <2>7 DEF RInv
<1> QED BY <1>5, <1>6, <1>7 DEF BeginProject

\* A request that needs a connection has not dialled yet.
LEMMA NotDialled ==
    ASSUME RInv, NeedsConn
    PROVE  /\ TypeOK /\ Busy /\ InProject /\ P \in Projects
           /\ relay \in [Conns -> ThreadStates]
           /\ probe.table \in 1 .. Tables[P] /\ Current \in Conns
           /\ relay[Current].pc = "off"
<1>1. TypeOK /\ Busy /\ InProject /\ P \in Projects /\ relay \in [Conns -> ThreadStates]
  BY DEF RInv, NeedsConn, Busy, InProject, TypeOK, P, ThreadStates
<1>2. probe.table \in 1 .. Tables[P] /\ Current \in Conns
  BY <1>1, ConnIsPair DEF RInv, ProbePosition, Current
<1>3. Ahead(P, probe.table)
  BY DEF NeedsConn, Ahead
<1>4. relay[Current].pc = "off"
  BY <1>1, <1>2, <1>3 DEF RInv, UndialledOff, Current
<1> QED BY <1>1, <1>2, <1>4

LEMMA DialledType ==
    ASSUME TypeOK, Current \in Conns, NEW end \in {"none", "open", "closed"}, NEW pending \in BOOLEAN
    PROVE  /\ Dialled(end, pending) \in [Conns -> [end : {"none", "open", "closed"},
                                                   pending : BOOLEAN]]
           /\ Dialled(end, pending)[Current].end = end
<1>1. \A c \in Conns : /\ client[c] \in [end : {"none", "open", "closed"}, pending : BOOLEAN]
                       /\ [client[c] EXCEPT !.end = "closed"]
                             \in [end : {"none", "open", "closed"}, pending : BOOLEAN]
  BY DEF TypeOK
<1>2. [end |-> end, pending |-> pending] \in [end : {"none", "open", "closed"}, pending : BOOLEAN]
  OBVIOUS
<1> QED BY <1>1, <1>2 DEF Dialled

\* A new connection reaches the relay.
LEMMA ConnArrives ==
    ASSUME RInv, NeedsConn, relay' = [relay EXCEPT ![Current].pc = "acquire"],
           UNCHANGED <<sentTo, slots, total>>
    PROVE  /\ relay' \in [Conns -> ThreadStates] /\ relay'[Current].pc = "acquire"
           /\ \A d \in Conns \ {Current} : relay'[d] = relay[d]
           /\ SlotWhileWorking' /\ Counters'
<1>1. /\ relay \in [Conns -> ThreadStates] /\ Current \in Conns /\ relay[Current].pc = "off"
  BY NotDialled
<1>2. /\ relay' \in [Conns -> ThreadStates] /\ relay'[Current].pc = "acquire"
      /\ relay'[Current].held = relay[Current].held
      /\ \A d \in Conns \ {Current} : relay'[d] = relay[d]
  BY <1>1 DEF ThreadStates
<1>3. ~relay[Current].held
  BY <1>1 DEF RInv, SlotWhileWorking
<1>4. Holding' = Holding
  BY <1>1, <1>2, <1>3 DEF Holding
<1>5. Counted' = Counted
  BY <1>1, <1>2 DEF Counted
<1> QED BY <1>1, <1>2, <1>3, <1>4, <1>5 DEF RInv, SlotWhileWorking, Counters

LEMMA DialFailsKeeps == RInv /\ DialFails => RInv'
<1> SUFFICES ASSUME RInv, DialFails PROVE RInv'
  OBVIOUS
<1>1. /\ NeedsConn /\ Conclude("error") /\ disturbed' = TRUE
      /\ pool' = [pool EXCEPT ![P] = NoConn]
      /\ UNCHANGED <<sentTo, slots, total, queried, full>>
  BY DEF DialFails
<1>2. /\ TypeOK /\ Busy /\ P \in Projects /\ Current \in Conns
      /\ relay \in [Conns -> ThreadStates]
  BY <1>1, NotDialled
<1>3. client' \in [Conns -> [end : {"none", "open", "closed"}, pending : BOOLEAN]]
  BY <1>2, DialledType DEF DialFails
<1>4. /\ relay' \in [Conns -> ThreadStates]
      /\ \A d \in Conns \ {Current} : relay'[d] = relay[d]
      /\ SlotWhileWorking' /\ Counters'
  <2>1. CASE UNCHANGED relay
    BY <1>1, <2>1, RelayUntouched
  <2>2. CASE relay' = [relay EXCEPT ![Current].pc = "acquire"]
    BY <1>1, <2>2, ConnArrives
  <2> QED BY <2>1, <2>2 DEF DialFails
<1>5. ASSUME NEW p \in Projects, NEW n \in 1 .. Tables[p], p > P
      PROVE  relay'[<<p, n>>] = relay[<<p, n>>]
  BY <1>2, <1>4, <1>5, ConnIsPair DEF Current
<1>6. /\ \A p \in Projects \ {P} : pool'[p] = pool[p]
      /\ pool'[P] = NoConn /\ pool' \in [Projects -> Conns \cup {NoConn}]
  BY <1>1, <1>2 DEF TypeOK
<1>7. /\ ProbePosition' /\ PoolEarlier' /\ UndialledOff' /\ QueriedSoFar'
      /\ EndsForAReason' /\ ObservedInFull' /\ ErrorsHaveACause'
  BY <1>1, <1>2, <1>5, <1>6, ConcludeKeeps
<1>8. TypeOK'
  <2>1. disturbed' \in BOOLEAN /\ full' \in BOOLEAN /\ queried' \in [Projects -> Nat]
    BY <1>1, <1>2 DEF TypeOK
  <2> QED BY <1>1, <1>2, <1>3, <1>4, <1>6, <2>1, ConcludedType
<1> QED BY <1>4, <1>7, <1>8 DEF RInv

LEMMA FinalizeKeeps == ASSUME RInv, NEW c \in Conns, Finalize(c) PROVE RInv'
<1>1. /\ UNCHANGED <<probe, pool, relay, sentTo, slots, total, queried, result, disturbed, full>>
      /\ client' = [client EXCEPT ![c].end = "closed"] /\ c # probe.conn
  BY DEF Finalize
<1>2. /\ TypeOK /\ ProbePosition /\ PoolEarlier /\ UndialledOff /\ QueriedSoFar
      /\ SlotWhileWorking /\ Counters /\ EndsForAReason /\ ObservedInFull /\ ErrorsHaveACause
  BY DEF RInv
<1>3. TypeOK'
  BY <1>1, <1>2 DEF TypeOK
<1>4. \A d \in Conns : Exchanging(d)' => Exchanging(d) /\ client'[d] = client[d]
  BY <1>1, <1>2 DEF Exchanging, Current, P, TypeOK
<1>5. EndsForAReason'
  BY <1>1, <1>2, <1>4 DEF EndsForAReason
<1>6. /\ ProbePosition' /\ PoolEarlier' /\ UndialledOff' /\ QueriedSoFar'
      /\ ObservedInFull' /\ ErrorsHaveACause'
  BY <1>1, <1>2 DEF ProbePosition, PoolEarlier, UndialledOff, QueriedSoFar, ObservedInFull,
     ErrorsHaveACause, Busy, InProject, Ahead, P, Current
<1>7. SlotWhileWorking' /\ Counters'
  BY <1>1, RelayUntouched
<1> QED BY <1>3, <1>5, <1>6, <1>7 DEF RInv

\* A waited-for connection that is closed on the scanner's side.
LEMMA ClosingOne == ASSUME TypeOK, client' = [client EXCEPT ![probe.conn].end = "closed"]
                    PROVE  client' \in [Conns -> [end : {"none", "open", "closed"},
                                                  pending : BOOLEAN]]
BY DEF TypeOK

LEMMA RequestFailsKeeps == RInv /\ RequestFails => RInv'
<1> SUFFICES ASSUME RInv, RequestFails PROVE RInv'
  OBVIOUS
<1>1. /\ TypeOK /\ Busy /\ P \in Projects /\ Conclude("error") /\ probe.pc = "wait"
      /\ UNCHANGED <<pool, relay, sentTo, slots, total, queried, disturbed, full>>
  BY DEF RInv, RequestFails, Busy, TypeOK, P
<1>2. SlotWhileWorking' /\ Counters' /\ relay' \in [Conns -> ThreadStates]
  BY <1>1, RelayUntouched
<1>3. Current \in Conns /\ Exchanging(Current)
  BY <1>1, ConnIsPair DEF RInv, ProbePosition, InProject, RequestFails, Exchanging, Current
<1>4. disturbed \/ full
  BY <1>3 DEF RInv, EndsForAReason, RequestFails, Gone
<1>5. pool[P] = NoConn
  BY <1>1 DEF RInv, PoolEarlier
<1>6. client' \in [Conns -> [end : {"none", "open", "closed"}, pending : BOOLEAN]]
  BY <1>1, ClosingOne DEF RequestFails
<1>7. /\ ProbePosition' /\ PoolEarlier' /\ UndialledOff' /\ QueriedSoFar'
      /\ EndsForAReason' /\ ObservedInFull' /\ ErrorsHaveACause'
  BY <1>1, <1>4, <1>5, ConcludeKeeps
<1>8. TypeOK'
  <2>1. disturbed' \in BOOLEAN
    BY <1>1, <1>4, <1>5, <1>6 DEF TypeOK
  <2> QED BY <1>1, <1>2, <1>6, <2>1, ConcludedType DEF TypeOK
<1> QED BY <1>2, <1>7, <1>8 DEF RInv

LEMMA TimesOutKeeps == RInv /\ TimesOut => RInv'
<1> SUFFICES ASSUME RInv, TimesOut PROVE RInv'
  OBVIOUS
<1>1. /\ TypeOK /\ Busy /\ P \in Projects /\ Conclude("error") /\ probe.pc = "wait"
      /\ disturbed' = TRUE /\ UNCHANGED <<pool, relay, sentTo, slots, total, queried, full>>
  BY DEF RInv, TimesOut, Busy, TypeOK, P
<1>2. SlotWhileWorking' /\ Counters' /\ relay' \in [Conns -> ThreadStates]
  BY <1>1, RelayUntouched
<1>3. pool[P] = NoConn
  BY <1>1 DEF RInv, PoolEarlier
<1>4. client' \in [Conns -> [end : {"none", "open", "closed"}, pending : BOOLEAN]]
  BY <1>1, ClosingOne DEF TimesOut
<1>5. /\ ProbePosition' /\ PoolEarlier' /\ UndialledOff' /\ QueriedSoFar'
      /\ EndsForAReason' /\ ObservedInFull' /\ ErrorsHaveACause'
  BY <1>1, <1>3, ConcludeKeeps
<1>6. TypeOK'
  <2>1. disturbed' \in BOOLEAN
    BY <1>1, <1>3, <1>4 DEF TypeOK
  <2> QED BY <1>1, <1>2, <1>4, <2>1, ConcludedType DEF TypeOK
<1> QED BY <1>2, <1>5, <1>6 DEF RInv

LEMMA ReuseKeeps == RInv /\ Reuse => RInv'
<1> SUFFICES ASSUME RInv, Reuse PROVE RInv'
  OBVIOUS
<1>1. /\ TypeOK /\ Busy /\ probe.pc = "request" /\ P \in Projects
      /\ UNCHANGED <<relay, sentTo, slots, total, queried, result, disturbed, full>>
      /\ pool' = [pool EXCEPT ![P] = NoConn]
  BY DEF RInv, Reuse, Busy, TypeOK, P
<1>2. PICK n \in 1 .. Tables[P] : pool[P] = <<P, n>> /\ n < probe.table
  BY <1>1 DEF RInv, PoolEarlier, Reuse
<1>3. pool[P] \in Conns /\ probe.table \in 1 .. Tables[P] /\ n \in 1 .. probe.table
  BY <1>1, <1>2, ConnIsPair DEF RInv, ProbePosition, InProject
<1>4. probe' = At("wait", P, probe.table, pool[P])
  BY <1>1, ProbeExcept DEF Reuse
<1>5. /\ Busy' /\ InProject' /\ P' = P /\ Current' = Current /\ probe'.pc = "wait"
      /\ probe'.table = probe.table /\ probe'.conn = pool[P]
  BY <1>4 DEF Busy, InProject, At, P, Current
<1>6. client' \in [Conns -> [end : {"none", "open", "closed"}, pending : BOOLEAN]]
  <2>1. client' = [client EXCEPT ![pool[P]].pending = TRUE]
    BY DEF Reuse
  <2> HIDE DEF P
  <2> QED BY <1>1, <1>3, <2>1 DEF TypeOK
<1>7. TypeOK'
  BY <1>1, <1>3, <1>4, <1>6 DEF TypeOK, At, P
<1>8. ProbePosition'
  BY <1>2, <1>3, <1>5 DEF ProbePosition
<1>9. PoolEarlier' /\ QueriedSoFar' /\ ObservedInFull' /\ ErrorsHaveACause'
  BY <1>1, <1>5 DEF RInv, TypeOK, PoolEarlier, QueriedSoFar, ObservedInFull, ErrorsHaveACause
<1>10. pool[P] # Current
  BY <1>2, <1>3 DEF Current
<1>11. EndsForAReason'
  BY <1>5, <1>10 DEF EndsForAReason, Exchanging
<1>12. UndialledOff'
  <2>1. \A p \in Projects, m \in Nat : Ahead(p, m)' => Ahead(p, m)
    BY <1>1, <1>5 DEF Ahead
  <2> QED BY <1>1, <1>5, <2>1, ConnIsPair DEF RInv, UndialledOff
<1>13. SlotWhileWorking' /\ Counters'
  BY <1>1, RelayUntouched
<1> QED BY <1>7, <1>8, <1>9, <1>11, <1>12, <1>13 DEF RInv

LEMMA DialKeeps == RInv /\ Dial => RInv'
<1> SUFFICES ASSUME RInv, Dial PROVE RInv'
  OBVIOUS
<1>1. /\ NeedsConn /\ pool' = [pool EXCEPT ![P] = NoConn]
      /\ relay' = [relay EXCEPT ![Current].pc = "acquire"]
      /\ UNCHANGED <<sentTo, slots, total, queried, result, disturbed, full>>
  BY DEF Dial
<1>2. /\ TypeOK /\ Busy /\ InProject /\ P \in Projects
      /\ probe.table \in 1 .. Tables[P] /\ Current \in Conns
  BY <1>1, NotDialled
<1>3. probe' = At("wait", P, probe.table, Current)
  BY <1>2, ProbeExcept DEF Dial
<1>4. /\ Busy' /\ InProject' /\ P' = P /\ Current' = Current /\ probe'.pc = "wait"
      /\ probe'.table = probe.table /\ probe'.conn = Current
  BY <1>3 DEF Busy, InProject, At, P, Current
<1>5. /\ relay' \in [Conns -> ThreadStates] /\ relay'[Current].pc = "acquire"
      /\ \A d \in Conns \ {Current} : relay'[d] = relay[d]
      /\ SlotWhileWorking' /\ Counters'
  BY <1>1, ConnArrives
<1>6. client' \in [Conns -> [end : {"none", "open", "closed"}, pending : BOOLEAN]]
      /\ client'[Current].end = "open"
  BY <1>2, DialledType DEF Dial
<1>7. TypeOK'
  BY <1>1, <1>2, <1>3, <1>5, <1>6 DEF TypeOK, At, P, ThreadStates
<1>8. ProbePosition'
  BY <1>2, <1>4 DEF ProbePosition, Current
<1>9. PoolEarlier' /\ QueriedSoFar' /\ ObservedInFull' /\ ErrorsHaveACause'
  BY <1>1, <1>2, <1>4 DEF RInv, TypeOK, PoolEarlier, QueriedSoFar, ObservedInFull,
     ErrorsHaveACause
<1>10. EndsForAReason'
  BY <1>4, <1>5, <1>6 DEF EndsForAReason, Exchanging
<1>11. UndialledOff'
  <2>1. ASSUME NEW p \in Projects, NEW m \in 1 .. Tables[p], Ahead(p, m)'
        PROVE  Ahead(p, m) /\ <<p, m>> # Current /\ <<p, m>> \in Conns
    BY <1>2, <1>4, <2>1, ConnIsPair DEF Ahead, Current
  <2> QED BY <1>2, <1>5, <2>1 DEF RInv, UndialledOff
<1> QED BY <1>5, <1>7, <1>8, <1>9, <1>10, <1>11 DEF RInv

LEMMA ExitKeeps == RInv /\ Exit => RInv'
<1> SUFFICES ASSUME RInv, Exit PROVE RInv'
  OBVIOUS
<1>1. /\ TypeOK /\ ~Busy /\ ~InProject
      /\ UNCHANGED <<relay, sentTo, slots, total, queried, result, disturbed, full>>
      /\ pool' = [p \in Projects |-> NoConn]
      /\ probe' = At("exited", P, probe.table, probe.conn)
  BY ProbeExcept DEF RInv, Exit, Busy, InProject
<1>2. ~Busy' /\ ~InProject' /\ probe'.pc = "exited"
  BY <1>1 DEF Busy, InProject, At
<1>3. client' \in [Conns -> [end : {"none", "open", "closed"}, pending : BOOLEAN]]
  BY <1>1 DEF TypeOK, Exit
<1>4. TypeOK'
  BY <1>1, <1>3 DEF TypeOK, At, P
<1>5. ObservedInFull' /\ ErrorsHaveACause' /\ SlotWhileWorking' /\ Counters'
  BY <1>1, RelayUntouched DEF RInv, ObservedInFull, ErrorsHaveACause
<1> QED BY <1>1, <1>2, <1>4, <1>5 DEF RInv, ProbePosition, PoolEarlier, UndialledOff,
           QueriedSoFar, EndsForAReason, Exchanging

LEMMA AnswerKeeps == RInv /\ Answer => RInv'
<1> SUFFICES ASSUME RInv, Answer PROVE RInv'
  OBVIOUS
<1>1. /\ TypeOK /\ Busy /\ InProject /\ P \in Projects /\ probe.pc = "wait"
      /\ UNCHANGED <<relay, sentTo, slots, total, full>>
  BY DEF RInv, Answer, Busy, InProject, TypeOK, P
<1>2. PICK n \in 1 .. probe.table : probe.conn = <<P, n>>
  BY <1>1 DEF RInv, ProbePosition
<1>3. /\ probe.table \in 1 .. Tables[P] /\ probe.conn \in Conns /\ Tables[P] \in Nat
      /\ n \in 1 .. Tables[P]
  BY <1>1, <1>2, ConnIsPair DEF RInv, ProbePosition
<1>4. PICK keep \in BOOLEAN :
         /\ pool' = [pool EXCEPT ![P] = IF keep THEN probe.conn ELSE NoConn]
         /\ client' = [client EXCEPT ![probe.conn].end = IF keep THEN @ ELSE "closed"]
  BY DEF Answer
<1>5. /\ pool' \in [Projects -> Conns \cup {NoConn}]
      /\ client' \in [Conns -> [end : {"none", "open", "closed"}, pending : BOOLEAN]]
  BY <1>1, <1>3, <1>4 DEF TypeOK
<1>6. /\ \A p \in Projects \ {P} : pool'[p] = pool[p]
      /\ pool'[P] # NoConn => pool'[P] = <<P, n>>
  BY <1>1, <1>2, <1>4 DEF TypeOK
<1>7. queried[P] = probe.table - 1
  BY <1>1 DEF RInv, QueriedSoFar
<1>8. SlotWhileWorking' /\ Counters' /\ relay' \in [Conns -> ThreadStates]
  BY <1>1, RelayUntouched
<1>9. CASE /\ queried' = [queried EXCEPT ![P] = @ + 1] /\ UNCHANGED disturbed
           /\ probe.table = Tables[P] /\ Conclude("observed")
  <2>1. /\ queried'[P] = Tables[P] /\ queried' \in [Projects -> Nat]
        /\ \A p \in Projects \ {P} : queried'[p] = queried[p]
    BY <1>1, <1>3, <1>7, <1>9 DEF TypeOK
  <2>2. /\ ProbePosition' /\ PoolEarlier' /\ UndialledOff' /\ QueriedSoFar'
        /\ EndsForAReason' /\ ObservedInFull' /\ ErrorsHaveACause'
    BY <1>1, <1>3, <1>6, <1>9, <2>1, ConcludeKeeps
  <2>3. disturbed' \in BOOLEAN /\ full' \in BOOLEAN
    BY <1>1, <1>9 DEF TypeOK
  <2>4. TypeOK'
    BY <1>1, <1>5, <1>8, <1>9, <2>1, <2>3, ConcludedType
  <2> QED BY <1>8, <2>2, <2>4 DEF RInv
<1>10. CASE /\ queried' = [queried EXCEPT ![P] = @ + 1] /\ UNCHANGED <<disturbed, result>>
            /\ probe.table # Tables[P]
            /\ probe' = [probe EXCEPT !.pc = "request", !.table = @ + 1, !.conn = NoConn]
  <2>1. probe' = At("request", P, probe.table + 1, NoConn)
    BY <1>1, <1>10, ProbeExcept
  <2>2. /\ Busy' /\ InProject' /\ P' = P /\ probe'.pc = "request"
        /\ probe'.table = probe.table + 1 /\ probe'.table \in 1 .. Tables[P]
    BY <1>3, <1>10, <2>1 DEF Busy, InProject, At, P
  <2>3. /\ queried'[P] = probe.table /\ queried' \in [Projects -> Nat]
        /\ \A p \in Projects \ {P} : queried'[p] = queried[p]
    BY <1>1, <1>3, <1>7, <1>10 DEF TypeOK
  <2>4. TypeOK'
    BY <1>1, <1>5, <1>10, <2>1, <2>2, <2>3 DEF TypeOK, At, P
  <2>5. ProbePosition' /\ EndsForAReason' /\ ErrorsHaveACause'
    BY <1>1, <1>10, <2>2 DEF RInv, ProbePosition, EndsForAReason, Exchanging, ErrorsHaveACause
  <2>6. PoolEarlier'
    <3>1. ASSUME NEW p \in Projects, pool'[p] # NoConn, p # P
          PROVE  p <= P /\ \E m \in 1 .. Tables[p] : pool'[p] = <<p, m>>
      BY <1>1, <1>6, <3>1 DEF RInv, PoolEarlier
    <3>2. n < probe.table + 1 /\ P <= P
      BY <1>1, <1>2, <1>3, ConnIsPair
    <3> QED BY <1>3, <1>6, <2>2, <3>1, <3>2 DEF PoolEarlier
  <2>7. UndialledOff'
    <3>1. \A p \in Projects, m \in Nat : Ahead(p, m)' => Ahead(p, m)
      BY <1>1, <1>3, <2>2 DEF Ahead
    <3> QED BY <1>1, <2>2, <3>1, ConnIsPair DEF RInv, UndialledOff
  <2>8. QueriedSoFar' /\ ObservedInFull'
    <3>1. result[P] = "none" /\ probe.table + 1 - 1 = probe.table
      BY <1>1, <1>3, ConnIsPair DEF RInv, QueriedSoFar
    <3>2. ASSUME NEW p \in Projects, p > P PROVE p # P
      BY <1>1, <3>2, ConnIsPair
    <3> QED BY <1>1, <1>10, <2>2, <2>3, <3>1, <3>2 DEF RInv, QueriedSoFar, ObservedInFull
  <2> QED BY <1>8, <2>4, <2>5, <2>6, <2>7, <2>8 DEF RInv
<1>11. CASE Conclude("error") /\ disturbed' = TRUE /\ UNCHANGED queried
  <2>1. /\ ProbePosition' /\ PoolEarlier' /\ UndialledOff' /\ QueriedSoFar'
        /\ EndsForAReason' /\ ObservedInFull' /\ ErrorsHaveACause'
    BY <1>1, <1>3, <1>6, <1>11, ConcludeKeeps
  <2>2. disturbed' \in BOOLEAN /\ full' \in BOOLEAN
    BY <1>1, <1>11 DEF TypeOK
  <2>3. queried' \in [Projects -> Nat]
    BY <1>1, <1>11 DEF TypeOK
  <2>4. TypeOK'
    BY <1>1, <1>5, <1>8, <1>11, <2>2, <2>3, ConcludedType
  <2> QED BY <1>8, <2>1, <2>4 DEF RInv
<1> QED BY <1>9, <1>10, <1>11 DEF Answer

LEMMA ThreadInv == ASSUME RInv, NEW c \in Conns, Relaying(c) PROVE RInv'
<1>1. /\ TypeOK /\ ProbePosition /\ PoolEarlier /\ UndialledOff /\ QueriedSoFar
      /\ SlotWhileWorking /\ Counters /\ EndsForAReason /\ ObservedInFull /\ ErrorsHaveACause
  BY DEF RInv
<1> QED BY <1>1, ThreadMoves, ThreadType, ThreadCounts, ThreadKeeps, ThreadEnds DEF RInv

LEMMA RInvHolds == Spec => []RInv
<1>1. Init => RInv
  BY InitRInv
<1>2. RInv /\ [Next]_vars => RInv'
  <2> SUFFICES ASSUME RInv, [Next]_vars PROVE RInv'
    OBVIOUS
  <2>1. CASE Scanner
    BY <2>1, BeginProjectKeeps, ReuseKeeps, DialKeeps, DialFailsKeeps, RequestFailsKeeps,
       TimesOutKeeps, AnswerKeeps, ExitKeeps DEF Scanner
  <2>2. ASSUME NEW c \in Conns, Thread(c) \/ UpstreamEof(c) \/ UpstreamReset(c) PROVE RInv'
    BY <2>2, ThreadInv DEF Relaying
  <2>3. CASE UNCHANGED vars
    BY <2>3 DEF vars, RInv, TypeOK, ProbePosition, PoolEarlier, UndialledOff, QueriedSoFar,
       SlotWhileWorking, Counters, EndsForAReason, ObservedInFull, ErrorsHaveACause, Busy,
       InProject, Ahead, P, Current, Exchanging, Holding, Counted
  <2>4. ASSUME NEW c \in Conns, Finalize(c) PROVE RInv'
    BY <2>4, FinalizeKeeps
  <2> QED BY <2>1, <2>2, <2>3, <2>4 DEF Next, Done
<1> QED BY <1>1, <1>2, PTL DEF Spec
-----------------------------------------------------------------------------
\* Whatever connections come, fail and are reset, the relay's semaphore counts
\* exactly the threads that hold a slot, none is relayed without one, and no
\* more connections reach an upstream than the scan's total allows.
THEOREM RelayLimitsHold == Spec => []LimitsHold
<1>1. RInv => LimitsHold
  <2> SUFFICES ASSUME RInv PROVE LimitsHold
    OBVIOUS
  <2>1. TypeOK /\ slots + Cardinality(Holding) = MaxConnections
    BY DEF RInv, Counters
  <2>2. \A c \in Conns : relay[c].pc = "copy" => relay[c].held
    BY DEF RInv, SlotWhileWorking
  <2>3. Cardinality({c \in Conns : sentTo[c] # {}}) <= MaxTotal
    <3> DEFINE Reached == {c \in Conns : sentTo[c] # {}}
    <3>1. Reached \subseteq Counted
      BY DEF Counted
    <3>2. IsFiniteSet(Counted) /\ Cardinality(Counted) <= total /\ total \in 0 .. MaxTotal
      BY <2>1 DEF RInv, Counters, TypeOK
    <3> HIDE DEF Reached
    <3>3. IsFiniteSet(Reached) /\ Cardinality(Reached) <= Cardinality(Counted)
      BY <3>1, <3>2, FS_Subset
    <3>4. Cardinality(Reached) \in Nat /\ Cardinality(Counted) \in Nat
      BY <3>2, <3>3, FS_CardinalityType
    <3>5. Cardinality(Reached) <= MaxTotal
      BY <3>2, <3>3, <3>4, SizesAssumption
    <3> QED BY <3>5 DEF Reached
  <2> QED BY <2>1, <2>2, <2>3 DEF LimitsHold
<1> QED BY <1>1, RInvHolds, PTL

\* A project called observed had an answer for each of its tables, over
\* connections that may have been reused, refused, reset and dialled again.
THEOREM ProbeObservesInFull == Spec => []ObservedInFull
<1>1. RInv => ObservedInFull
  BY DEF RInv
<1> QED BY <1>1, RInvHolds, PTL

\* A project called an error met a failure of a service or a limit of the
\* relay; an idle connection that ended is no such thing.
THEOREM ProbeErrsForACause == Spec => []ErrorsHaveACause
<1>1. RInv => ErrorsHaveACause
  BY DEF RInv
<1> QED BY <1>1, RInvHolds, PTL
=============================================================================
