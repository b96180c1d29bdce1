------------------------- MODULE CredentialHandOver -------------------------
(***************************************************************************)
(* The whole run of run-enclave.sh: before it can scan, the enclave reads  *)
(* its AWS credentials from serve-credentials.py over one vsock connection,*)
(* to its end and without a deadline; the server takes one connection at a *)
(* time, asks the instance's metadata service and closes.  Afterwards the  *)
(* report leaves as ReportDelivery says; every step here is one of its     *)
(* steps, or leaves its state alone.                                       *)
(***************************************************************************)
EXTENDS ReportDelivery

VARIABLES
    server,   \* serve-credentials.py: off, starting, listening, fetching, killed
    link,     \* the connection: [place, sent, closed]
    creds     \* FetchCredentials: none, reading, held

handVars == <<server, link, creds>>
runVars == <<vars, handVars>>

ServerRuns == server \in {"starting", "listening", "fetching"}
\* The server binds early and answers late: a connection waits in its backlog.
Accepting == server \in {"listening", "fetching"}

RunInit ==
    /\ Init
    /\ server = "off"
    /\ link = [place |-> "none", sent |-> "nothing", closed |-> FALSE]
    /\ creds = "none"
-----------------------------------------------------------------------------
(* FetchCredentials *)

ConnectToParent ==
    /\ scanner.pc = "scanning" /\ creds = "none"
    /\ \/ /\ Accepting
          /\ link' = [link EXCEPT !.place = "queued"]
          /\ creds' = "reading"
          /\ UNCHANGED vars
       \/ /\ ~Accepting
          /\ ScanFails
          /\ UNCHANGED <<link, creds>>
    /\ UNCHANGED server

\* io.ReadAll returns when the parent has closed; parseCredentials refuses
\* what is not the whole object.
ReadCredentials ==
    /\ scanner.pc = "scanning" /\ creds = "reading"
    /\ link.closed
    /\ IF link.sent = "whole" THEN creds' = "held" /\ UNCHANGED vars
                              ELSE ScanFails /\ UNCHANGED creds
    /\ UNCHANGED <<server, link>>

\* The vsock connection is reset while it is read.
ReadReset ==
    /\ scanner.pc = "scanning" /\ creds = "reading"
    /\ ScanFails
    /\ UNCHANGED handVars
-----------------------------------------------------------------------------
(* serve-credentials.py *)

ServerListens ==
    /\ server = "starting"
    /\ server' = "listening"
    /\ UNCHANGED <<vars, link, creds>>

AcceptScanner ==
    /\ server = "listening" /\ link.place = "queued"
    /\ server' = "fetching"
    /\ link' = [link EXCEPT !.place = "accepted"]
    /\ UNCHANGED <<vars, creds>>

\* Mutant: the connection is left open for another request.
ServeCredentialsOpen ==
    /\ server = "fetching"
    /\ server' = "listening"
    /\ link' = [link EXCEPT !.sent = "whole"]
    /\ UNCHANGED <<vars, creds>>

\* fetch_instance_role_credentials and sendall; then, as after any exception,
\* the connection is closed and the next one accepted.
ServeCredentials ==
    /\ server = "fetching"
    /\ server' = "listening"
    /\ link' = [link EXCEPT !.sent = "whole", !.closed = TRUE]
    /\ UNCHANGED <<vars, creds>>

\* The metadata service does not answer in five seconds, or has no role.
FetchFails ==
    /\ server = "fetching"
    /\ server' = "listening"
    /\ link' = [link EXCEPT !.closed = TRUE]
    /\ UNCHANGED <<vars, creds>>

\* A server that is killed leaves what it had sent, and an end.
ServerKilled ==
    /\ server' = IF ServerRuns THEN "killed" ELSE server
    /\ link' \in IF server = "fetching"
                 THEN [place : {link.place}, sent : {"nothing", "part", "whole"},
                       closed : {TRUE}]
                 ELSE {[link EXCEPT !.closed = (link.place # "none")]}
    /\ UNCHANGED creds
-----------------------------------------------------------------------------
(* The rest of the run, of which these steps concern the hand-over as well. *)

Delivering == Dial \/ Write \/ WriteFails \/ SendReport \/ Retry

EnclaveStep ==
    \/ ConnectToParent
    \/ ReadCredentials
    \/ creds = "held" /\ ScanCompletes /\ UNCHANGED handVars
    \/ Delivering /\ UNCHANGED handVars

ServerStep == ServerListens \/ AcceptScanner \/ ServeCredentials

ScriptStep ==
    \/ StartHelpers /\ server' = "starting" /\ UNCHANGED <<link, creds>>
    \/ (LaunchEnclave \/ RecordEnclaveId \/ WaitForCollector) /\ UNCHANGED handVars
    \/ Exit /\ ServerKilled

Fault ==
    \/ creds = "held" /\ ScanFails /\ UNCHANGED handVars
    \/ ReadReset
    \/ FetchFails
    \/ (EnclaveDies \/ WriteReportRaises \/ LaunchFails \/ CtrlC) /\ UNCHANGED handVars
    \/ Terminate /\ ServerKilled
    \/ (\E k \in 1 .. Attempts : Reset(k)) /\ UNCHANGED handVars

RunNext ==
    \/ EnclaveStep
    \/ ServerStep
    \/ Collector /\ UNCHANGED handVars
    \/ ScriptStep
    \/ Fault
    \/ Done /\ UNCHANGED handVars

RunSpec == RunInit /\ [][RunNext]_runVars
-----------------------------------------------------------------------------
\* The four processes and the hand-over.
RunTypeOK ==
    /\ TypeOK
    /\ server \in {"off", "starting", "listening", "fetching", "killed"}
    /\ link \in [place : {"none", "queued", "accepted"},
                 sent : {"nothing", "part", "whole"}, closed : BOOLEAN]
    /\ creds \in {"none", "reading", "held"}

\* When the script is over, however it ended, neither of its helpers runs, nor
\* an enclave whose id it knew: a server that outlived it would go on handing
\* out credentials (the EXIT trap and helper_pids).
NoHelperLeft ==
    NothingLeftBehind /\ (script.pc = "done" => ~ServerRuns)
=============================================================================
