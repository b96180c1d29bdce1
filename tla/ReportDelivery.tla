--------------------------- MODULE ReportDelivery ---------------------------
(***************************************************************************)
(* How a finished report leaves the enclave: deliverReport (cmd/scanner)   *)
(* sends it over vsock in up to Attempts attempts, collect-report.py takes *)
(* one connection and saves what it read, and run-enclave.sh waits for the *)
(* collector and tears everything down.  Nothing is acknowledged.          *)
(***************************************************************************)
EXTENDS Naturals

CONSTANTS
    Attempts,  \* reportDeliveryAttempts
    Size,      \* chunks of the report
    Buffer,    \* chunks vsock lets the sender run ahead of the reader
    NoFile     \* nothing saved yet

ASSUME SizesAssumption ==
    /\ Attempts \in Nat \ {0} /\ Size \in Nat \ {0} /\ Buffer \in Nat \ {0}
    /\ NoFile \notin Nat

VARIABLES
    scanner,    \* [pc, attempt] of the enclave's only process
    conns,      \* attempt -> [place, sent, closed, broken]
    collector,  \* [pc, conn, got]
    saved,      \* chunks of the file under reports/, or NoFile
    script,     \* [pc, id, code] of run-enclave.sh
    disturbed   \* history: something went wrong on the way

vars == <<scanner, conns, collector, saved, script, disturbed>>

Fresh == [place |-> "none", sent |-> 0, closed |-> FALSE, broken |-> FALSE]
EnclaveRuns == scanner.pc \notin {"off", "delivered", "failed", "dead"}
Listening == collector.pc \in {"listening", "receiving"}
CollectorRuns == collector.pc \in {"starting", "listening", "receiving", "saving"}
Now == conns[scanner.attempt]

Init ==
    /\ scanner = [pc |-> "off", attempt |-> 1]
    /\ conns = [k \in 1 .. Attempts |-> Fresh]
    /\ collector = [pc |-> "off", conn |-> 1, got |-> 0]
    /\ saved = NoFile
    /\ script = [pc |-> "start", id |-> FALSE, code |-> 1]
    /\ disturbed = FALSE
-----------------------------------------------------------------------------
(* deliverReport and SendReport *)

ScanCompletes ==
    /\ scanner.pc = "scanning"
    /\ scanner' = [scanner EXCEPT !.pc = "dialing"]
    /\ UNCHANGED <<conns, collector, saved, script, disturbed>>

\* run() returns an error before the report exists: credentials, a provider's
\* secret or scope, the attestation.
ScanFails ==
    /\ scanner.pc = "scanning"
    /\ scanner' = [scanner EXCEPT !.pc = "failed"]
    /\ disturbed' = TRUE
    /\ UNCHANGED <<conns, collector, saved, script>>

\* Mutant: one attempt too many.
AttemptFailsLate ==
    scanner' = IF scanner.attempt <= Attempts
               THEN [scanner EXCEPT !.pc = "backoff"]
               ELSE [scanner EXCEPT !.pc = "failed"]

\* deliverReport after an error of this attempt: back off, or give up.
AttemptFails ==
    scanner' = IF scanner.attempt < Attempts
               THEN [scanner EXCEPT !.pc = "backoff"]
               ELSE [scanner EXCEPT !.pc = "failed"]

Dial ==
    /\ scanner.pc = "dialing"
    /\ \/ /\ Listening
          /\ conns' = [conns EXCEPT ![scanner.attempt].place = "queued"]
          /\ scanner' = [scanner EXCEPT !.pc = "writing"]
       \/ /\ ~Listening
          /\ AttemptFails
          /\ UNCHANGED conns
    /\ UNCHANGED <<collector, saved, script, disturbed>>

\* conn.Write hands one chunk after another to vsock, which takes them as long
\* as there is room, accepted or not.
Write ==
    /\ scanner.pc = "writing"
    /\ ~Now.broken
    /\ Now.sent < Size
    /\ Now.sent - (IF collector.conn = scanner.attempt THEN collector.got ELSE 0)
           < Buffer
    /\ conns' = [conns EXCEPT ![scanner.attempt].sent = @ + 1]
    /\ UNCHANGED <<scanner, collector, saved, script, disturbed>>

WriteFails ==
    /\ scanner.pc = "writing"
    /\ Now.broken
    /\ Now.sent < Size
    /\ conns' = [conns EXCEPT ![scanner.attempt].closed = TRUE]
    /\ AttemptFails
    /\ UNCHANGED <<collector, saved, script, disturbed>>

\* Mutant: an error of conn.Close fails the attempt.
SendReportChecked ==
    /\ scanner.pc = "writing"
    /\ Now.sent = Size
    /\ conns' = [conns EXCEPT ![scanner.attempt].closed = TRUE]
    /\ IF Now.broken THEN AttemptFails
       ELSE scanner' = [scanner EXCEPT !.pc = "delivered"]
    /\ UNCHANGED <<collector, saved, script, disturbed>>

\* Everything handed over: SendReport closes and returns nil, run() too.
SendReport ==
    /\ scanner.pc = "writing"
    /\ Now.sent = Size
    /\ conns' = [conns EXCEPT ![scanner.attempt].closed = TRUE]
    /\ scanner' = [scanner EXCEPT !.pc = "delivered"]
    /\ UNCHANGED <<collector, saved, script, disturbed>>

Retry ==
    /\ scanner.pc = "backoff"
    /\ scanner' = [pc |-> "dialing", attempt |-> scanner.attempt + 1]
    /\ UNCHANGED <<conns, collector, saved, script, disturbed>>

\* A vsock reset: of a live connection, or of the data of a closed one that
\* the other side has not read yet.
Reset(k) ==
    /\ conns[k].place \in {"queued", "accepted"}
    /\ ~conns[k].broken
    /\ conns' = [conns EXCEPT ![k].broken = TRUE]
    /\ disturbed' = TRUE
    /\ UNCHANGED <<scanner, collector, saved, script>>

\* The connections in use when one end goes away, but for those in intact.
Torn(intact) ==
    [k \in 1 .. Attempts |->
        IF conns[k].place \in {"queued", "accepted"} /\ k \notin intact
        THEN [conns[k] EXCEPT !.broken = TRUE] ELSE conns[k]]

EnclaveDies ==
    /\ EnclaveRuns
    /\ scanner' = [scanner EXCEPT !.pc = "dead"]
    /\ conns' = Torn({k \in 1 .. Attempts : conns[k].closed})
    /\ disturbed' = TRUE
    /\ UNCHANGED <<collector, saved, script>>
-----------------------------------------------------------------------------
(* collect-report.py *)

Listen ==
    /\ collector.pc = "starting"
    /\ collector' = [collector EXCEPT !.pc = "listening"]
    /\ UNCHANGED <<scanner, conns, saved, script, disturbed>>

Accept ==
    /\ collector.pc = "listening"
    /\ \E k \in 1 .. Attempts :
          /\ conns[k].place = "queued"
          /\ \A j \in 1 .. k - 1 : conns[j].place # "queued"
          /\ conns' = [conns EXCEPT ![k].place = "accepted"]
          /\ collector' = [pc |-> "receiving", conn |-> k, got |-> 0]
    /\ UNCHANGED <<scanner, saved, script, disturbed>>

Recv ==
    /\ collector.pc = "receiving"
    /\ collector.got < conns[collector.conn].sent
    /\ collector' = [collector EXCEPT !.got = @ + 1]
    /\ UNCHANGED <<scanner, conns, saved, script, disturbed>>

\* The finally clause closes both sockets; the backlog is reset.
StopReceiving(pc) ==
    /\ collector' = [collector EXCEPT !.pc = pc]
    /\ conns' = [k \in 1 .. Attempts |->
                    IF conns[k].place \in {"queued", "accepted"}
                    THEN [conns[k] EXCEPT !.place = "gone", !.broken = TRUE]
                    ELSE conns[k]]
    /\ UNCHANGED <<scanner, saved, script, disturbed>>

\* Mutant: one recv call taken for the whole payload.
EndOfFirstRecv ==
    /\ collector.pc = "receiving"
    /\ collector.got > 0
    /\ StopReceiving("saving")

\* An empty read is the end: everything was read and the sender closed, or
\* the connection broke at any point and the end looks like a close.
EndOfFile ==
    /\ collector.pc = "receiving"
    /\ \/ /\ conns[collector.conn].closed
          /\ collector.got = conns[collector.conn].sent
       \/ conns[collector.conn].broken
    /\ StopReceiving("saving")

\* ... or recv raises ConnectionResetError, which nothing catches.
RecvRaises ==
    /\ collector.pc = "receiving"
    /\ conns[collector.conn].broken
    /\ StopReceiving("crashed")

WriteReport ==
    /\ collector.pc = "saving"
    /\ saved' = collector.got
    /\ collector' = [collector EXCEPT !.pc = "exited"]
    /\ UNCHANGED <<scanner, conns, script, disturbed>>

\* No space, no permission: the exception ends the collector.
WriteReportRaises ==
    /\ collector.pc = "saving"
    /\ collector' = [collector EXCEPT !.pc = "crashed"]
    /\ disturbed' = TRUE
    /\ UNCHANGED <<scanner, conns, saved, script>>
-----------------------------------------------------------------------------
(* run-enclave.sh *)

StartHelpers ==
    /\ script.pc = "start"
    /\ script' = [script EXCEPT !.pc = "sleep"]
    /\ collector' = [collector EXCEPT !.pc = "starting"]
    /\ UNCHANGED <<scanner, conns, saved, disturbed>>

\* sleep 2 usually lets the collector bind, and does not wait for it.
LaunchEnclave ==
    /\ script.pc = "sleep"
    /\ script' = [script EXCEPT !.pc = "launched"]
    /\ scanner' = [scanner EXCEPT !.pc = "scanning"]
    /\ disturbed' = (disturbed \/ ~Listening)
    /\ UNCHANGED <<conns, collector, saved>>

LaunchFails ==
    /\ script.pc = "sleep"
    /\ script' = [script EXCEPT !.pc = "exit"]
    /\ disturbed' = TRUE
    /\ UNCHANGED <<scanner, conns, collector, saved>>

\* The EnclaveID is parsed out of nitro-cli's output only afterwards.
RecordEnclaveId ==
    /\ script.pc = "launched"
    /\ script' = [script EXCEPT !.pc = "wait", !.id = TRUE]
    /\ UNCHANGED <<scanner, conns, collector, saved, disturbed>>

\* wait returns the collector's status; set -e turns any but 0 into an exit.
WaitForCollector ==
    /\ script.pc = "wait"
    /\ ~CollectorRuns
    /\ script' = [script EXCEPT !.pc = "exit",
                                !.code = IF collector.pc = "exited" THEN 0 ELSE 1]
    /\ UNCHANGED <<scanner, conns, collector, saved, disturbed>>

\* Mutant: the collector's pid is not among helper_pids.
CleanupForgetful ==
    /\ IF script.id /\ EnclaveRuns
       THEN scanner' = [scanner EXCEPT !.pc = "dead"]
       ELSE UNCHANGED scanner
    /\ UNCHANGED <<conns, collector>>

\* cleanup: terminates the enclave whose id is known, kills the helpers.
Cleanup ==
    /\ scanner' = IF script.id /\ EnclaveRuns
                  THEN [scanner EXCEPT !.pc = "dead"] ELSE scanner
    /\ collector' = IF CollectorRuns
                    THEN [collector EXCEPT !.pc = "killed"] ELSE collector
    /\ conns' = Torn({})

Exit ==
    /\ script.pc = "exit"
    /\ script' = [script EXCEPT !.pc = "done"]
    /\ Cleanup
    /\ UNCHANGED <<saved, disturbed>>

\* Ctrl-C also kills the foreground command (sleep, wait, the python3 that
\* parses the id), so that set -e ends the script after the trap.
CtrlC ==
    /\ script.pc \in {"sleep", "launched", "wait"}
    /\ script' = [script EXCEPT !.pc = "exit"]
    /\ disturbed' = TRUE
    /\ UNCHANGED <<scanner, conns, collector, saved>>

\* SIGTERM reaches the shell alone: the trap cleans up, and as it does not
\* exit the script goes on with the next command.
Terminate ==
    /\ script.pc \in {"sleep", "launched", "wait"}
    /\ Cleanup
    /\ disturbed' = TRUE
    /\ UNCHANGED <<saved, script>>

Done == script.pc = "done" /\ UNCHANGED vars
-----------------------------------------------------------------------------
Scanner ==
    ScanCompletes \/ Dial \/ Write \/ WriteFails \/ SendReport \/ Retry
Collector ==
    Listen \/ Accept \/ Recv \/ EndOfFile \/ RecvRaises \/ WriteReport
Script ==
    StartHelpers \/ LaunchEnclave \/ RecordEnclaveId \/ WaitForCollector \/ Exit
Disturbance ==
    \/ ScanFails \/ EnclaveDies \/ WriteReportRaises \/ LaunchFails
    \/ CtrlC \/ Terminate
    \/ \E k \in 1 .. Attempts : Reset(k)

Next == Scanner \/ Collector \/ Script \/ Disturbance \/ Done

Spec == Init /\ [][Next]_vars

\* The three processes run on: no step of theirs waits for a human.
FairSpec == Spec /\ WF_vars(Scanner) /\ WF_vars(Collector) /\ WF_vars(Script)
-----------------------------------------------------------------------------
ScannerState == [pc : {"off", "scanning", "dialing", "writing", "backoff",
                       "delivered", "failed", "dead"},
                 attempt : 1 .. Attempts]
Connection == [place : {"none", "queued", "accepted", "gone"},
               sent : 0 .. Size, closed : BOOLEAN, broken : BOOLEAN]
CollectorState == [pc : {"off", "starting", "listening", "receiving",
                         "saving", "exited", "crashed", "killed"},
                   conn : 1 .. Attempts, got : 0 .. Size]
ScriptState == [pc : {"start", "sleep", "launched", "wait", "exit", "done"},
                id : BOOLEAN, code : {0, 1}]

\* The state of the three processes and of the connections between them.
TypeOK ==
    /\ scanner \in ScannerState
    /\ conns \in [1 .. Attempts -> Connection]
    /\ collector \in CollectorState
    /\ saved \in 0 .. Size \cup {NoFile}
    /\ script \in ScriptState
    /\ disturbed \in BOOLEAN

\* A truncated file comes only of a connection that broke: never of a reader
\* faster than the writer, of the buffer's size, or of a retry overtaking the
\* attempt before it (receive_one_report reads to the end).
TruncatedOnlyByReset ==
    saved # NoFile /\ saved < Size => conns[collector.conn].broken /\ disturbed

\* deliverReport gives up only on a report that is not saved in full: it
\* retries after no attempt that could have got through.
GivesUpOnlyUndelivered == scanner.pc = "failed" => saved # Size

\* When the script is over, so is the collector, and no enclave whose id it
\* knew still runs (the EXIT trap), whichever way it ended.
NothingLeftBehind ==
    script.pc = "done" => ~CollectorRuns /\ (script.id => ~EnclaveRuns)

\* A run that nothing disturbs ends with the whole report saved and exit
\* status 0: the three processes cannot block or miss each other.
UndisturbedRunDelivers ==
    <>(disturbed \/ (script.pc = "done" /\ script.code = 0 /\ saved = Size))

\* run-enclave.sh waits for the collector as "the signal the scan actually
\* finished" and then tears everything down: every started run ends.
RunEnds == script.pc = "wait" ~> script.pc = "done"
=============================================================================
