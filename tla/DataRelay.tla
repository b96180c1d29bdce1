------------------------------ MODULE DataRelay ------------------------------
(***************************************************************************)
(* The active probe of Supabase's Data API: rls (internal/supabase) asks   *)
(* for one table after another, project after project, through one         *)
(* http.Client whose idle connections never time out; every connection     *)
(* runs over vsock to deploy/supabase-data-relay.py, where a thread of its *)
(* own takes a slot, resolves the project's host and copies bytes to it.   *)
(* The Management API, the resolver and the Data API decide freely.        *)
(***************************************************************************)
EXTENDS Naturals, FiniteSets, Sequences

CONSTANTS
    Tables,          \* how many tables each enumerated project exposes
    MaxAnswers,      \* most addresses a host resolves to
    MaxConnections,  \* MAX_CONNECTIONS, 8
    MaxTotal,        \* MAX_TOTAL_CONNECTIONS, 500
    NoConn           \* no connection

ASSUME SizesAssumption ==
    /\ Tables \in Seq(Nat) /\ Tables # << >>
    /\ MaxAnswers \in Nat \ {0} /\ MaxConnections \in Nat \ {0}
    /\ MaxTotal \in Nat

\* A request dials at most once, so a connection is named by the project and
\* the number of the table whose request dialled it.
Projects == DOMAIN Tables
Conns == UNION {{<<p, n>> : n \in 1 .. Tables[p]} : p \in Projects}
ASSUME ConnAssumption == NoConn \notin Conns

VARIABLES
    probe,      \* [pc, project, table, conn] of the scanner's one goroutine
    pool,       \* project -> its idle connection in the http.Transport
    client,     \* conn -> [end, pending] as the scanner left it
    relay,      \* conn -> [pc, held, left] of the relay's thread
    sentTo,     \* conn -> the upstreams that were sent bytes of its stream
    slots,      \* value of the semaphore active
    total,      \* connections counted so far
    queried,    \* project -> tables that gave an answer
    result,     \* project -> what supabase.rls_probe reports
    disturbed,  \* history: a service failed, reset or stayed silent
    full        \* history: the relay refused a connection for its limits

vars == <<probe, pool, client, relay, sentTo, slots, total, queried,
          result, disturbed, full>>

P == probe.project
Current == <<P, probe.table>>
Gone(c) == relay[c].pc \in {"release", "closed"}
Usable(p) == IF pool[p] = NoConn THEN FALSE ELSE ~Gone(pool[p])
Holding == {c \in Conns : relay[c].held}

Init ==
    /\ probe = [pc |-> "project", project |-> 1, table |-> 1, conn |-> NoConn]
    /\ pool = [p \in Projects |-> NoConn]
    /\ client = [c \in Conns |-> [end |-> "none", pending |-> FALSE]]
    /\ relay = [c \in Conns |-> [pc |-> "off", held |-> FALSE, left |-> 0]]
    /\ sentTo = [c \in Conns |-> {}]
    /\ slots = MaxConnections
    /\ total = 0
    /\ queried = [p \in Projects |-> 0]
    /\ result = [p \in Projects |-> "none"]
    /\ disturbed = FALSE
    /\ full = FALSE
-----------------------------------------------------------------------------
(* Scan and rls, and the http.Transport below them *)

\* put, and the next project of the loop.
Conclude(outcome) ==
    /\ result' = [result EXCEPT ![P] = outcome]
    /\ probe' = IF P = Len(Tables)
                THEN [probe EXCEPT !.pc = "done", !.conn = NoConn]
                ELSE [pc |-> "project", project |-> P + 1, table |-> 1,
                      conn |-> NoConn]

BeginProject ==
    /\ probe.pc = "project"
    /\ \/ /\ Tables[P] = 0
          /\ Conclude("not_in_use")
          /\ UNCHANGED disturbed
       \/ /\ Tables[P] > 0
          /\ probe' = [probe EXCEPT !.pc = "request"]
          /\ UNCHANGED <<result, disturbed>>
       \/ /\ Conclude("error")      \* no key, or no OpenAPI document
          /\ disturbed' = TRUE
    /\ UNCHANGED <<pool, client, relay, sentTo, slots, total, queried,
                   full>>

\* An idle connection is taken again, also one that ended unnoticed.
Reuse ==
    /\ probe.pc = "request"
    /\ pool[P] # NoConn
    /\ probe' = [probe EXCEPT !.pc = "wait", !.conn = pool[P]]
    /\ pool' = [pool EXCEPT ![P] = NoConn]
    /\ client' = [client EXCEPT ![pool[P]].pending = TRUE]
    /\ UNCHANGED <<relay, sentTo, slots, total, queried, result,
                   disturbed, full>>

\* The transport needs a connection, for want of a usable idle one or because
\* the reused one had ended (http.Transport sends a GET once more).
NeedsConn ==
    \/ probe.pc = "request" /\ ~Usable(P)
    \/ probe.pc = "wait" /\ probe.conn # Current /\ Gone(probe.conn)

\* What the scanner has of its connections when it dials: the new one, and the
\* ended one, if any, let go of.
Dialled(end, pending) ==
    [c \in Conns |->
        IF c = Current THEN [end |-> end, pending |-> pending]
        ELSE IF c \in {pool[P], probe.conn} THEN [client[c] EXCEPT !.end = "closed"]
        ELSE client[c]]

\* SupabaseDataDialer.DialContext
Dial ==
    /\ NeedsConn
    /\ probe' = [probe EXCEPT !.pc = "wait", !.conn = Current]
    /\ pool' = [pool EXCEPT ![P] = NoConn]
    /\ client' = Dialled("open", TRUE)
    /\ relay' = [relay EXCEPT ![Current].pc = "acquire"]
    /\ UNCHANGED <<sentTo, slots, total, queried, result, disturbed,
                   full>>

\* There is no connection, or none that took the hostname; or dialPort gave up
\* on one that comes all the same: its goroutine leaves it open and silent.
DialFails ==
    /\ NeedsConn
    /\ pool' = [pool EXCEPT ![P] = NoConn]
    /\ \/ client' = Dialled("none", FALSE) /\ UNCHANGED relay
       \/ /\ \E end \in {"open", "closed"} : client' = Dialled(end, FALSE)
          /\ relay' = [relay EXCEPT ![Current].pc = "acquire"]
    /\ Conclude("error")
    /\ disturbed' = TRUE
    /\ UNCHANGED <<sentTo, slots, total, queried, full>>

\* The garbage collector may close what nothing refers to any more.
Finalize(c) ==
    /\ client[c].end = "open"
    /\ c # probe.conn /\ \A p \in Projects : c # pool[p]
    /\ client' = [client EXCEPT ![c].end = "closed"]
    /\ UNCHANGED <<probe, pool, relay, sentTo, slots, total, queried, result,
                   disturbed, full>>

\* Mutants: a reused connection that had ended is an error; an error of one
\* table skips that table only.
ReuseFails ==
    /\ probe.pc = "wait"
    /\ Gone(probe.conn)
    /\ client' = [client EXCEPT ![probe.conn].end = "closed"]
    /\ Conclude("error")
    /\ UNCHANGED <<pool, relay, sentTo, slots, total, queried, disturbed, full>>
RequestSkipped ==
    /\ probe.pc = "wait"
    /\ probe.conn = Current
    /\ Gone(Current)
    /\ client' = [client EXCEPT ![Current].end = "closed"]
    /\ IF probe.table = Tables[P] THEN Conclude("observed")
       ELSE /\ probe' = [probe EXCEPT !.pc = "request", !.table = @ + 1]
            /\ UNCHANGED result
    /\ UNCHANGED <<pool, relay, sentTo, slots, total, queried,
                   disturbed, full>>

\* The relay closed a connection that was dialled for this very request.
RequestFails ==
    /\ probe.pc = "wait"
    /\ probe.conn = Current
    /\ Gone(Current)
    /\ client' = [client EXCEPT ![Current].end = "closed"]
    /\ Conclude("error")
    /\ UNCHANGED <<pool, relay, sentTo, slots, total, queried,
                   disturbed, full>>

\* http.Client.Timeout and TLSHandshakeTimeout.
TimesOut ==
    /\ probe.pc = "wait"
    /\ client' = [client EXCEPT ![probe.conn].end = "closed"]
    /\ Conclude("error")
    /\ disturbed' = TRUE
    /\ UNCHANGED <<pool, relay, sentTo, slots, total, queried, full>>

\* The Data API answers on the stream it was sent.  The connection goes back
\* to the pool when the body was read to its end, and is closed otherwise.
Answer ==
    LET c == probe.conn
    IN  /\ probe.pc = "wait"
        /\ relay[c].pc = "copy"
        /\ ~client[c].pending
        /\ sentTo[c] = {relay[c].left}
        /\ \E keep \in BOOLEAN :
              /\ pool' = [pool EXCEPT ![P] = IF keep THEN c ELSE NoConn]
              /\ client' = [client EXCEPT ![c].end = IF keep THEN @ ELSE "closed"]
        /\ \/ /\ queried' = [queried EXCEPT ![P] = @ + 1]
              /\ IF probe.table = Tables[P] THEN Conclude("observed")
                 ELSE /\ probe' = [probe EXCEPT !.pc = "request", !.table = @ + 1,
                                                !.conn = NoConn]
                      /\ UNCHANGED result
              /\ UNCHANGED disturbed
           \/ /\ Conclude("error")   \* not 2xx, or not the JSON asked for
              /\ disturbed' = TRUE
              /\ UNCHANGED queried
        /\ UNCHANGED <<relay, sentTo, slots, total, full>>

\* The scanner ends, and its connections with it.
Exit ==
    /\ probe.pc = "done"
    /\ probe' = [probe EXCEPT !.pc = "exited"]
    /\ client' = [c \in Conns |-> IF client[c].end = "open"
                                  THEN [client[c] EXCEPT !.end = "closed"]
                                  ELSE client[c]]
    /\ pool' = [p \in Projects |-> NoConn]
    /\ UNCHANGED <<relay, sentTo, slots, total, queried, result,
                   disturbed, full>>
-----------------------------------------------------------------------------
(* handle, one thread for each connection *)

scannerVars == <<probe, pool, queried, result>>

\* active.acquire(blocking=False)
Acquire(c) ==
    /\ relay[c].pc = "acquire"
    /\ \/ /\ slots > 0
          /\ slots' = slots - 1
          /\ relay' = [relay EXCEPT ![c].pc = "count", ![c].held = TRUE]
          /\ UNCHANGED full
       \/ /\ slots = 0
          /\ relay' = [relay EXCEPT ![c].pc = "close"]
          /\ full' = TRUE
          /\ UNCHANGED slots
    /\ UNCHANGED <<scannerVars, client, sentTo, total, disturbed>>

\* with total_lock
Count(c) ==
    /\ relay[c].pc = "count"
    /\ IF total >= MaxTotal
       THEN /\ relay' = [relay EXCEPT ![c].pc = "close"]
            /\ full' = TRUE
            /\ UNCHANGED total
       ELSE /\ relay' = [relay EXCEPT ![c].pc = "resolve"]
            /\ total' = total + 1
            /\ UNCHANGED full
    /\ UNCHANGED <<scannerVars, client, sentTo, slots, disturbed>>

\* read_hostname, which has no timeout, and resolve_public.  The line was written
\* by Dial, ahead of its request; without one, only the end of the connection
\* ends the reading.
Resolve(c) ==
    /\ relay[c].pc = "resolve"
    /\ \/ /\ client[c].pending
          /\ \E n \in 1 .. MaxAnswers :
                relay' = [relay EXCEPT ![c].pc = "connect", ![c].left = n]
          /\ UNCHANGED disturbed
       \/ /\ client[c].pending
          /\ relay' = [relay EXCEPT ![c].pc = "close"]
          /\ disturbed' = TRUE
       \/ /\ ~client[c].pending /\ client[c].end = "closed"
          /\ relay' = [relay EXCEPT ![c].pc = "close"]
          /\ UNCHANGED disturbed
    /\ UNCHANGED <<scannerVars, client, sentTo, slots, total, full>>

\* One turn of the loop over the addresses; connect has a timeout.
Connect(c) ==
    /\ relay[c].pc = "connect"
    /\ \/ /\ relay[c].left = 0
          /\ relay' = [relay EXCEPT ![c].pc = "close"]
          /\ UNCHANGED disturbed
       \/ /\ relay[c].left > 0
          /\ relay' = [relay EXCEPT ![c].pc = "copy"]
          /\ UNCHANGED disturbed
       \/ /\ relay[c].left > 0
          /\ relay' = [relay EXCEPT ![c].left = @ - 1]
          /\ disturbed' = TRUE
    /\ UNCHANGED <<scannerVars, client, sentTo, slots, total, full>>

\* copy_bidirectional: what the scanner wrote goes to the upstream.
Forward(c) ==
    /\ relay[c].pc = "copy"
    /\ client[c].pending
    /\ client' = [client EXCEPT ![c].pending = FALSE]
    /\ sentTo' = [sentTo EXCEPT ![c] = @ \cup {relay[c].left}]
    /\ UNCHANGED <<scannerVars, relay, slots, total, disturbed, full>>

\* An empty read of the scanner's side ends the copying ...
ClientEof(c) ==
    /\ relay[c].pc = "copy"
    /\ client[c].end = "closed"
    /\ ~client[c].pending
    /\ relay' = [relay EXCEPT ![c].pc = "close"]
    /\ UNCHANGED <<scannerVars, client, sentTo, slots, total, disturbed, full>>

\* The request that was sent on a connection of its own is under way on c.
Exchanging(c) == probe.pc = "wait" /\ probe.conn = c /\ c = Current

\* ... and so does one of the upstream's.
UpstreamEof(c) ==
    /\ relay[c].pc = "copy"
    /\ relay' = [relay EXCEPT ![c].pc = "close"]
    /\ disturbed' = (disturbed \/ Exchanging(c))
    /\ UNCHANGED <<scannerVars, client, sentTo, slots, total, full>>

\* A reset is an OSError inside the loop over the addresses: the next one is
\* tried, with whatever the scanner sends from here on.
UpstreamReset(c) ==
    /\ relay[c].pc = "copy"
    /\ relay' = [relay EXCEPT ![c].pc = "connect", ![c].left = @ - 1]
    /\ disturbed' = (disturbed \/ Exchanging(c))
    /\ UNCHANGED <<scannerVars, client, sentTo, slots, total, full>>

\* The finally clause: the connection is closed ...
CloseConn(c) ==
    /\ relay[c].pc = "close"
    /\ relay' = [relay EXCEPT ![c].pc = "release", ![c].left = 0]
    /\ UNCHANGED <<scannerVars, client, sentTo, slots, total, disturbed, full>>

\* Mutants: release without asking whether the slot was acquired; no release
\* for a connection that was never relayed.
ReleaseAlways(c) ==
    /\ relay[c].pc = "release"
    /\ relay' = [relay EXCEPT ![c].pc = "closed", ![c].held = FALSE]
    /\ slots' = slots + 1
    /\ UNCHANGED <<scannerVars, client, sentTo, total, disturbed, full>>
ReleaseRelayed(c) ==
    /\ relay[c].pc = "release"
    /\ relay' = [relay EXCEPT ![c].pc = "closed",
                              ![c].held = @ /\ sentTo[c] = {}]
    /\ slots' = IF sentTo[c] # {} THEN slots + 1 ELSE slots
    /\ UNCHANGED <<scannerVars, client, sentTo, total, disturbed, full>>

\* ... before the slot it held is given back.
Release(c) ==
    /\ relay[c].pc = "release"
    /\ relay' = [relay EXCEPT ![c].pc = "closed", ![c].held = FALSE]
    /\ slots' = IF relay[c].held THEN slots + 1 ELSE slots
    /\ UNCHANGED <<scannerVars, client, sentTo, total, disturbed, full>>
-----------------------------------------------------------------------------
Scanner ==
    \/ BeginProject \/ Reuse \/ Dial \/ DialFails
    \/ RequestFails \/ TimesOut \/ Answer \/ Exit

Thread(c) ==
    \/ Acquire(c) \/ Count(c) \/ Resolve(c) \/ Connect(c) \/ Forward(c)
    \/ ClientEof(c) \/ CloseConn(c) \/ Release(c)

\* The scanner is gone and every thread has ended.
Done == /\ probe.pc = "exited"
        /\ \A c \in Conns : relay[c].pc \in {"off", "closed"}
        /\ UNCHANGED vars

Next ==
    \/ Scanner
    \/ \E c \in Conns :
           Thread(c) \/ UpstreamEof(c) \/ UpstreamReset(c) \/ Finalize(c)
    \/ Done

Spec == Init /\ [][Next]_vars

\* The scanner and the relay's threads run on, and no wait of theirs but for the
\* hostname is without a timeout: TimesOut and a failing Connect are steps of the
\* program.
FairSpec == Spec /\ WF_vars(Scanner) /\ \A c \in Conns : WF_vars(Thread(c))
-----------------------------------------------------------------------------
\* The state of the probe, of the pool and of the relay's threads.
TypeOK ==
    /\ probe \in [pc : {"project", "request", "wait", "done", "exited"},
                  project : Projects, table : Nat,
                  conn : Conns \cup {NoConn}]
    /\ pool \in [Projects -> Conns \cup {NoConn}]
    /\ client \in [Conns -> [end : {"none", "open", "closed"},
                             pending : BOOLEAN]]
    /\ relay \in [Conns -> [pc : {"off", "acquire", "count", "resolve",
                                  "connect", "copy", "close", "release",
                                  "closed"},
                            held : BOOLEAN, left : 0 .. MaxAnswers]]
    /\ sentTo \in [Conns -> SUBSET (1 .. MaxAnswers)]
    /\ slots \in 0 .. MaxConnections
    /\ total \in 0 .. MaxTotal
    /\ queried \in [Projects -> Nat]
    /\ result \in [Projects ->
           {"none", "not_in_use", "observed", "error"}]
    /\ disturbed \in BOOLEAN /\ full \in BOOLEAN

\* The semaphore, never negative, counts the threads that hold a slot, on every
\* way through handle, and no connection reaches an upstream without one or
\* beyond the total of a scan.
LimitsHold ==
    /\ TypeOK
    /\ slots + Cardinality(Holding) = MaxConnections
    /\ \A c \in Conns : relay[c].pc = "copy" => relay[c].held
    /\ Cardinality({c \in Conns : sentTo[c] # {}}) <= MaxTotal

\* A verdict on a project's rows rests on an answer for every table of it,
\* whatever connections were refused, reset, reused or retried meanwhile.
ObservedInFull ==
    \A p \in Projects :
        result[p] \in {"observed", "not_in_use"} => queried[p] = Tables[p]

\* A project is reported as an error only for a failure outside the program or
\* for a limit of the relay: a connection that ended while idle, or that a
\* thread has closed and not yet let go of, costs no result.
ErrorsHaveACause ==
    \A p \in Projects : result[p] = "error" => disturbed \/ full

\* Once the scanner is gone, every slot comes back.
SlotsReturn == probe.pc = "exited" ~> slots = MaxConnections
=============================================================================
