------------------------ MODULE ReportDeliveryProofs ------------------------
(***************************************************************************)
(* Theorems about ReportDelivery for every size of the report and of the   *)
(* buffer and every number of attempts.  DInv relates the attempts of the  *)
(* scanner to the connection the collector reads from: an attempt is left  *)
(* behind only before it was handed over in full, and a connection that is *)
(* closed short of that is broken.  The second part is about a whole run:  *)
(* with the hand-over of the credentials in front of it, the delivery      *)
(* still does only what ReportDelivery allows, so that all that is proved  *)
(* of the delivery holds of the run; and the credential server dies with   *)
(* the script.  The third part is about the report that the run has saved: *)
(* the encodings of Go, Postgres and TypeScript, and with them what is     *)
(* stored and what a browser makes of it (SealInv).                        *)
(***************************************************************************)
EXTENDS SealedReport, TLAPS

\* Where the scanner stands, its attempt is within the limit, and attempts
\* that failed, or have not begun, were not handed over in full.
AttemptsBehind ==
    /\ scanner.pc = "backoff" => scanner.attempt < Attempts
    /\ \A k \in 1 .. Attempts :
          /\ k > scanner.attempt => conns[k].sent = 0 /\ conns[k].place = "none"
          /\ \/ k < scanner.attempt
             \/ k = scanner.attempt /\ scanner.pc \in {"backoff", "failed"}
             => conns[k].sent < Size
    /\ scanner.pc \in {"off", "scanning", "dialing"} =>
          /\ conns[scanner.attempt].sent = 0
          /\ conns[scanner.attempt].place = "none"

\* The collector has read no more than was sent on its connection.
ReadWhatWasSent == collector.got <= conns[collector.conn].sent

\* A connection closed by the sender was handed over, or is broken.
ClosedWhole ==
    \A k \in 1 .. Attempts :
        conns[k].closed => conns[k].sent = Size \/ conns[k].broken

\* No connection breaks before it is made; while the collector runs, only a
\* disturbance breaks one that it may read from.
BrokenByDisturbance ==
    \A k \in 1 .. Attempts :
        /\ conns[k].place = "none" => ~conns[k].broken
        /\ /\ CollectorRuns
           /\ conns[k].place \in {"queued", "accepted"}
           /\ conns[k].broken
           => disturbed

\* What is being read is the accepted connection; what is being saved is
\* whole, or its connection broke; what is saved is what was read.
SavedAsRead ==
    /\ collector.pc = "receiving" => conns[collector.conn].place = "accepted"
    /\ collector.pc = "saving" /\ collector.got < Size =>
          conns[collector.conn].broken /\ disturbed
    /\ saved # NoFile => saved = collector.got /\ collector.pc = "exited"
    /\ saved # NoFile /\ saved < Size => conns[collector.conn].broken /\ disturbed

\* Before the script has started them, neither helper nor enclave runs; after
\* its end none that it knew of does.
ScriptOwns ==
    /\ script.pc = "start" => /\ collector.pc = "off"
                             /\ \A k \in 1 .. Attempts : conns[k].place = "none"
    /\ script.pc \in {"start", "sleep"} => scanner.pc = "off" /\ ~script.id
    /\ NothingLeftBehind

DInv == /\ TypeOK
        /\ AttemptsBehind
        /\ ReadWhatWasSent
        /\ ClosedWhole
        /\ BrokenByDisturbance
        /\ SavedAsRead
        /\ ScriptOwns
-----------------------------------------------------------------------------
LEMMA InitDInv == Init => DInv
<1> SUFFICES ASSUME Init PROVE DInv
  OBVIOUS
<1> USE SizesAssumption
<1>1. TypeOK
  <2>1. scanner \in ScannerState
    BY DEF Init, ScannerState
  <2>2. conns \in [1 .. Attempts -> Connection]
    BY DEF Init, Fresh, Connection
  <2>3. collector \in CollectorState
    BY DEF Init, CollectorState
  <2>4. script \in ScriptState
    BY DEF Init, ScriptState
  <2> QED BY <2>1, <2>2, <2>3, <2>4 DEF Init, TypeOK
<1>2. AttemptsBehind /\ ReadWhatWasSent /\ ClosedWhole
  BY DEF Init, Fresh, AttemptsBehind, ReadWhatWasSent, ClosedWhole
<1>3. BrokenByDisturbance /\ SavedAsRead
  BY DEF Init, Fresh, BrokenByDisturbance, SavedAsRead, CollectorRuns
<1>4. ScriptOwns
  BY DEF Init, Fresh, ScriptOwns, NothingLeftBehind
<1> QED BY <1>1, <1>2, <1>3, <1>4 DEF DInv

\* The scanner's steps, the collector's and the script's, one lemma for each.
LEMMA ScanCompletesD == DInv /\ ScanCompletes => DInv'
<1> SUFFICES ASSUME DInv, ScanCompletes PROVE DInv'
  OBVIOUS
<1> USE SizesAssumption DEF DInv, ScanCompletes
<1>1. TypeOK'
  <2>1. scanner' \in ScannerState
    BY DEF TypeOK, ScannerState
  <2> QED BY <2>1 DEF TypeOK
<1>2. AttemptsBehind'
  BY <1>1 DEF TypeOK, AttemptsBehind, ScannerState, Connection
<1>3. ScriptOwns'
  BY <1>1 DEF TypeOK, ScriptOwns, NothingLeftBehind, EnclaveRuns,
              CollectorRuns, ScriptState, ScannerState, CollectorState,
              Connection
<1>4. ReadWhatWasSent' /\ ClosedWhole' /\ BrokenByDisturbance' /\ SavedAsRead'
  BY DEF ReadWhatWasSent, ClosedWhole, BrokenByDisturbance, CollectorRuns,
         SavedAsRead
<1> QED BY <1>1, <1>2, <1>3, <1>4

LEMMA ScanFailsD == DInv /\ ScanFails => DInv'
<1> SUFFICES ASSUME DInv, ScanFails PROVE DInv'
  OBVIOUS
<1> USE SizesAssumption DEF DInv, ScanFails
<1>1. TypeOK'
  <2>1. scanner' \in ScannerState
    BY DEF TypeOK, ScannerState
  <2>2. disturbed' \in BOOLEAN
    BY DEF TypeOK
  <2> QED BY <2>1, <2>2 DEF TypeOK
<1>2. AttemptsBehind'
  BY <1>1 DEF TypeOK, AttemptsBehind, ScannerState, Connection
<1>3. BrokenByDisturbance'
  BY <1>1 DEF TypeOK, BrokenByDisturbance, CollectorRuns, CollectorState,
              Connection
<1>4. SavedAsRead'
  BY <1>1 DEF TypeOK, SavedAsRead, CollectorState, Connection
<1>5. ScriptOwns'
  BY <1>1 DEF TypeOK, ScriptOwns, NothingLeftBehind, EnclaveRuns,
              CollectorRuns, ScriptState, ScannerState, CollectorState,
              Connection
<1>6. ReadWhatWasSent' /\ ClosedWhole'
  BY DEF ReadWhatWasSent, ClosedWhole
<1> QED BY <1>1, <1>2, <1>3, <1>4, <1>5, <1>6

LEMMA DialD == DInv /\ Dial => DInv'
<1> SUFFICES ASSUME DInv, Dial PROVE DInv'
  OBVIOUS
<1> USE SizesAssumption DEF DInv
<1> DEFINE n == scanner.attempt
<1>0. n \in 1 .. Attempts /\ scanner.pc = "dialing" /\ conns[n].sent = 0
        /\ conns[n].place = "none"
  BY DEF TypeOK, ScannerState, AttemptsBehind, Dial
<1>1. CASE Listening /\ conns' = [conns EXCEPT ![n].place = "queued"]
           /\ scanner' = [scanner EXCEPT !.pc = "writing"]
  <2>1. TypeOK'
    <3>1. scanner' \in ScannerState
      BY <1>1 DEF TypeOK, ScannerState
    <3>2. PICK c \in Connection : conns' = [conns EXCEPT ![n] = c]
      <4>1. [conns[n] EXCEPT !.place = "queued"] \in Connection
        BY <1>0 DEF TypeOK, Connection
      <4> QED BY <1>1, <4>1
    <3>3. conns' \in [1 .. Attempts -> Connection]
      BY <3>2 DEF TypeOK
    <3> QED BY <3>1, <3>3 DEF TypeOK, Dial
  <2>2. \A k \in 1 .. Attempts : /\ conns'[k].sent = conns[k].sent
                                 /\ conns'[k].closed = conns[k].closed
                                 /\ conns'[k].broken = conns[k].broken
                                 /\ conns'[k].place # conns[k].place => k = n
    BY <1>0, <1>1 DEF TypeOK, Connection
  <2>3. AttemptsBehind'
    BY <1>0, <1>1, <2>2 DEF TypeOK, ScannerState, AttemptsBehind
  <2>4. ReadWhatWasSent' /\ ClosedWhole'
    BY <2>2 DEF TypeOK, CollectorState, ReadWhatWasSent, ClosedWhole, Dial
  <2>5. BrokenByDisturbance'
    BY <1>0, <1>1, <2>2 DEF BrokenByDisturbance, AttemptsBehind, CollectorRuns, Dial
  <2>6. SavedAsRead'
    <3>1. \A k \in 1 .. Attempts :
              conns[k].place = "accepted" => conns'[k].place = "accepted"
      BY <1>0, <2>2 DEF AttemptsBehind
    <3> QED BY <2>2, <3>1 DEF TypeOK, CollectorState, SavedAsRead, Dial
  <2>7. ScriptOwns'
    BY <1>1 DEF TypeOK, ScannerState, CollectorState, ScriptState, ScriptOwns, Listening,
                NothingLeftBehind, EnclaveRuns, CollectorRuns, Dial
  <2> QED BY <2>1, <2>3, <2>4, <2>5, <2>6, <2>7
<1>2. CASE ~Listening /\ AttemptFails /\ conns' = conns
  <2>1. /\ scanner'.pc \in {"backoff", "failed"} /\ scanner'.attempt = n
        /\ scanner'.pc = "backoff" => n < Attempts
        /\ scanner' \in ScannerState
    BY <1>0, <1>2 DEF TypeOK, ScannerState, AttemptFails
  <2>2. TypeOK'
    BY <1>2, <2>1 DEF TypeOK, Dial
  <2>3. AttemptsBehind'
    BY <1>0, <1>2, <2>1 DEF TypeOK, AttemptsBehind
  <2>4. ReadWhatWasSent' /\ ClosedWhole' /\ BrokenByDisturbance' /\ SavedAsRead'
    BY <1>2 DEF ReadWhatWasSent, ClosedWhole, BrokenByDisturbance, CollectorRuns,
                SavedAsRead, Dial
  <2>5. ScriptOwns'
    BY <1>0, <1>2, <2>1 DEF ScriptOwns, NothingLeftBehind, EnclaveRuns, CollectorRuns,
                            Dial
  <2> QED BY <2>2, <2>3, <2>4, <2>5
<1> QED BY <1>1, <1>2 DEF Dial


LEMMA WriteD == DInv /\ Write => DInv'
<1> SUFFICES ASSUME DInv, Write PROVE DInv'
  OBVIOUS
<1> USE SizesAssumption DEF DInv, Write
<1> DEFINE n == scanner.attempt
<1>0. n \in 1 .. Attempts /\ conns[n].sent \in Nat /\ conns[n].sent < Size
  BY DEF TypeOK, ScannerState, Connection, Now
<1>1. TypeOK'
  <2>1. [conns[n] EXCEPT !.sent = @ + 1] \in Connection
    <3>1. conns[n] \in Connection /\ conns[n].sent + 1 \in 0 .. Size
      BY <1>0 DEF TypeOK
    <3> QED BY <3>1 DEF Connection
  <2>2. conns' \in [1 .. Attempts -> Connection]
    BY <2>1 DEF TypeOK
  <2> QED BY <2>2 DEF TypeOK
<1>2. /\ conns'[n].sent = conns[n].sent + 1
      /\ \A k \in 1 .. Attempts : /\ k # n => conns'[k] = conns[k]
                                 /\ conns'[k].closed = conns[k].closed
                                 /\ conns'[k].broken = conns[k].broken
                                 /\ conns'[k].place = conns[k].place
  BY <1>0 DEF TypeOK, Connection
<1>3. AttemptsBehind'
  BY <1>0, <1>2 DEF TypeOK, ScannerState, AttemptsBehind
<1>4. ReadWhatWasSent'
  BY <1>0, <1>2 DEF TypeOK, CollectorState, ReadWhatWasSent
<1>5. ClosedWhole'
  BY <1>0, <1>2 DEF ClosedWhole, Now
<1>6. BrokenByDisturbance' /\ SavedAsRead'
  BY <1>2 DEF TypeOK, CollectorState, BrokenByDisturbance, CollectorRuns, SavedAsRead
<1>7. ScriptOwns'
  BY <1>2 DEF ScriptOwns, NothingLeftBehind, EnclaveRuns, CollectorRuns
<1> QED BY <1>1, <1>3, <1>4, <1>5, <1>6, <1>7

LEMMA WriteFailsD == DInv /\ WriteFails => DInv'
<1> SUFFICES ASSUME DInv, WriteFails PROVE DInv'
  OBVIOUS
<1> USE SizesAssumption DEF DInv, WriteFails, AttemptFails
<1>1. TypeOK'
  <2>1. scanner' \in ScannerState
    BY DEF TypeOK, ScannerState
  <2>2. conns' \in [1 .. Attempts -> Connection]
    BY DEF TypeOK, Connection
  <2> QED BY <2>1, <2>2 DEF TypeOK
<1>2. AttemptsBehind'
  BY <1>1 DEF TypeOK, AttemptsBehind, ScannerState, Connection, Now
<1>3. ReadWhatWasSent'
  BY <1>1 DEF TypeOK, ReadWhatWasSent, CollectorState, Connection, Now
<1>4. ClosedWhole'
  BY <1>1 DEF TypeOK, ClosedWhole, Connection, Now
<1>5. BrokenByDisturbance'
  BY <1>1 DEF TypeOK, BrokenByDisturbance, CollectorRuns, CollectorState,
              Connection, Now
<1>6. SavedAsRead'
  BY <1>1 DEF TypeOK, SavedAsRead, CollectorState, Connection, Now
<1>7. ScriptOwns'
  BY <1>1 DEF TypeOK, ScriptOwns, NothingLeftBehind, EnclaveRuns,
              CollectorRuns, ScriptState, ScannerState, CollectorState,
              Connection, Now
<1> QED BY <1>1, <1>2, <1>3, <1>4, <1>5, <1>6, <1>7

LEMMA SendReportD == DInv /\ SendReport => DInv'
<1> SUFFICES ASSUME DInv, SendReport PROVE DInv'
  OBVIOUS
<1> USE SizesAssumption DEF DInv, SendReport
<1>1. TypeOK'
  <2>1. scanner' \in ScannerState
    BY DEF TypeOK, ScannerState
  <2>2. conns' \in [1 .. Attempts -> Connection]
    BY DEF TypeOK, Connection
  <2> QED BY <2>1, <2>2 DEF TypeOK
<1>2. AttemptsBehind'
  BY <1>1 DEF TypeOK, AttemptsBehind, ScannerState, Connection, Now
<1>3. ReadWhatWasSent'
  BY <1>1 DEF TypeOK, ReadWhatWasSent, CollectorState, Connection, Now
<1>4. ClosedWhole'
  BY <1>1 DEF TypeOK, ClosedWhole, Connection, Now
<1>5. BrokenByDisturbance'
  BY <1>1 DEF TypeOK, BrokenByDisturbance, CollectorRuns, CollectorState,
              Connection, Now
<1>6. SavedAsRead'
  BY <1>1 DEF TypeOK, SavedAsRead, CollectorState, Connection, Now
<1>7. ScriptOwns'
  BY <1>1 DEF TypeOK, ScriptOwns, NothingLeftBehind, EnclaveRuns,
              CollectorRuns, ScriptState, ScannerState, CollectorState,
              Connection, Now
<1> QED BY <1>1, <1>2, <1>3, <1>4, <1>5, <1>6, <1>7

LEMMA RetryD == DInv /\ Retry => DInv'
<1> SUFFICES ASSUME DInv, Retry PROVE DInv'
  OBVIOUS
<1> USE SizesAssumption DEF DInv, Retry
<1>1. TypeOK'
  <2>1. scanner' \in ScannerState
    BY DEF TypeOK, ScannerState, AttemptsBehind
  <2> QED BY <2>1 DEF TypeOK
<1>2. AttemptsBehind'
  BY <1>1 DEF TypeOK, AttemptsBehind, ScannerState, Connection
<1>3. ScriptOwns'
  BY <1>1 DEF TypeOK, ScriptOwns, NothingLeftBehind, EnclaveRuns,
              CollectorRuns, ScriptState, ScannerState, CollectorState,
              Connection, AttemptsBehind
<1>4. ReadWhatWasSent' /\ ClosedWhole' /\ BrokenByDisturbance' /\ SavedAsRead'
  BY DEF ReadWhatWasSent, ClosedWhole, BrokenByDisturbance, CollectorRuns,
         SavedAsRead
<1> QED BY <1>1, <1>2, <1>3, <1>4

LEMMA ResetD == ASSUME DInv, NEW k \in 1 .. Attempts, Reset(k) PROVE DInv'
<1> USE SizesAssumption DEF DInv, Reset
<1>1. TypeOK'
  <2>1. conns' \in [1 .. Attempts -> Connection]
    BY DEF TypeOK, Connection
  <2>2. disturbed' \in BOOLEAN
    BY DEF TypeOK
  <2> QED BY <2>1, <2>2 DEF TypeOK
<1>2. AttemptsBehind'
  BY <1>1 DEF TypeOK, AttemptsBehind, ScannerState, Connection
<1>3. ReadWhatWasSent'
  BY <1>1 DEF TypeOK, ReadWhatWasSent, CollectorState, Connection
<1>4. ClosedWhole'
  BY <1>1 DEF TypeOK, ClosedWhole, Connection
<1>5. BrokenByDisturbance'
  BY <1>1 DEF TypeOK, BrokenByDisturbance, CollectorRuns, CollectorState,
              Connection
<1>6. SavedAsRead'
  BY <1>1 DEF TypeOK, SavedAsRead, CollectorState, Connection
<1>7. ScriptOwns'
  BY <1>1 DEF TypeOK, ScriptOwns, NothingLeftBehind, EnclaveRuns,
              CollectorRuns, ScriptState, ScannerState, CollectorState,
              Connection
<1> QED BY <1>1, <1>2, <1>3, <1>4, <1>5, <1>6, <1>7

LEMMA EnclaveDiesD == DInv /\ EnclaveDies => DInv'
<1> SUFFICES ASSUME DInv, EnclaveDies PROVE DInv'
  OBVIOUS
<1> USE SizesAssumption DEF DInv, EnclaveDies, Torn
<1>1. TypeOK'
  <2>1. scanner' \in ScannerState
    BY DEF TypeOK, ScannerState
  <2>2. conns' \in [1 .. Attempts -> Connection]
    BY DEF TypeOK, Connection
  <2>3. disturbed' \in BOOLEAN
    BY DEF TypeOK
  <2> QED BY <2>1, <2>2, <2>3 DEF TypeOK
<1>2. AttemptsBehind'
  BY <1>1 DEF TypeOK, AttemptsBehind, ScannerState, Connection, ScriptOwns
<1>3. ReadWhatWasSent'
  BY <1>1 DEF TypeOK, ReadWhatWasSent, CollectorState, Connection
<1>4. ClosedWhole'
  BY <1>1 DEF TypeOK, ClosedWhole, Connection
<1>5. BrokenByDisturbance'
  BY <1>1 DEF TypeOK, BrokenByDisturbance, CollectorRuns, CollectorState,
              Connection
<1>6. SavedAsRead'
  BY <1>1 DEF TypeOK, SavedAsRead, CollectorState, Connection
<1>7. ScriptOwns'
  BY <1>1 DEF TypeOK, ScriptOwns, NothingLeftBehind, EnclaveRuns,
              CollectorRuns, ScriptState, ScannerState, CollectorState,
              Connection
<1> QED BY <1>1, <1>2, <1>3, <1>4, <1>5, <1>6, <1>7

LEMMA ListenD == DInv /\ Listen => DInv'
<1> SUFFICES ASSUME DInv, Listen PROVE DInv'
  OBVIOUS
<1> USE SizesAssumption DEF DInv, Listen
<1>1. TypeOK'
  <2>1. collector' \in CollectorState
    BY DEF TypeOK, CollectorState
  <2> QED BY <2>1 DEF TypeOK
<1>2. ReadWhatWasSent'
  BY <1>1 DEF TypeOK, ReadWhatWasSent, CollectorState, Connection
<1>3. BrokenByDisturbance'
  BY <1>1 DEF TypeOK, BrokenByDisturbance, CollectorRuns, CollectorState,
              Connection
<1>4. SavedAsRead'
  BY <1>1 DEF TypeOK, SavedAsRead, CollectorState, Connection
<1>5. ScriptOwns'
  BY <1>1 DEF TypeOK, ScriptOwns, NothingLeftBehind, EnclaveRuns,
              CollectorRuns, ScriptState, ScannerState, CollectorState,
              Connection
<1>6. AttemptsBehind' /\ ClosedWhole'
  BY DEF AttemptsBehind, ClosedWhole
<1> QED BY <1>1, <1>2, <1>3, <1>4, <1>5, <1>6

LEMMA AcceptD == DInv /\ Accept => DInv'
<1> SUFFICES ASSUME DInv, Accept PROVE DInv'
  OBVIOUS
<1> USE SizesAssumption DEF DInv, Accept
<1>1. TypeOK'
  <2>1. conns' \in [1 .. Attempts -> Connection]
    BY DEF TypeOK, Connection
  <2>2. collector' \in CollectorState
    BY DEF TypeOK, CollectorState
  <2> QED BY <2>1, <2>2 DEF TypeOK
<1>2. AttemptsBehind'
  BY <1>1 DEF TypeOK, AttemptsBehind, ScannerState, Connection
<1>3. ReadWhatWasSent'
  BY <1>1 DEF TypeOK, ReadWhatWasSent, CollectorState, Connection
<1>4. ClosedWhole'
  BY <1>1 DEF TypeOK, ClosedWhole, Connection
<1>5. BrokenByDisturbance'
  BY <1>1 DEF TypeOK, BrokenByDisturbance, CollectorRuns, CollectorState,
              Connection
<1>6. SavedAsRead'
  BY <1>1 DEF TypeOK, SavedAsRead, CollectorState, Connection,
              BrokenByDisturbance, CollectorRuns, ScriptOwns, NothingLeftBehind
<1>7. ScriptOwns'
  BY <1>1 DEF TypeOK, ScriptOwns, NothingLeftBehind, EnclaveRuns,
              CollectorRuns, ScriptState, ScannerState, CollectorState,
              Connection
<1> QED BY <1>1, <1>2, <1>3, <1>4, <1>5, <1>6, <1>7

LEMMA RecvD == DInv /\ Recv => DInv'
<1> SUFFICES ASSUME DInv, Recv PROVE DInv'
  OBVIOUS
<1> USE SizesAssumption DEF DInv, Recv
<1>1. TypeOK'
  <2>1. collector' \in CollectorState
    BY DEF TypeOK, CollectorState, ReadWhatWasSent, Connection
  <2> QED BY <2>1 DEF TypeOK
<1>2. ReadWhatWasSent'
  BY <1>1 DEF TypeOK, ReadWhatWasSent, CollectorState, Connection
<1>3. BrokenByDisturbance'
  BY <1>1 DEF TypeOK, BrokenByDisturbance, CollectorRuns, CollectorState,
              Connection
<1>4. SavedAsRead'
  BY <1>1 DEF TypeOK, SavedAsRead, CollectorState, Connection
<1>5. ScriptOwns'
  BY <1>1 DEF TypeOK, ScriptOwns, NothingLeftBehind, EnclaveRuns,
              CollectorRuns, ScriptState, ScannerState, CollectorState,
              Connection
<1>6. AttemptsBehind' /\ ClosedWhole'
  BY DEF AttemptsBehind, ClosedWhole
<1> QED BY <1>1, <1>2, <1>3, <1>4, <1>5, <1>6

\* The collector closes its sockets once it has all of the report, or what it
\* reads from is broken, or without a file.
LEMMA StopReceivingD ==
  ASSUME DInv, NEW pc \in {"saving", "crashed"}, StopReceiving(pc),
         collector.pc = "receiving",
         pc = "saving" => \/ conns[collector.conn].broken
                          \/ collector.got = Size
  PROVE  DInv'
<1> USE SizesAssumption DEF DInv, StopReceiving
<1> DEFINE c == collector.conn
<1>0. c \in 1 .. Attempts /\ conns[c].place = "accepted"
  BY DEF TypeOK, CollectorState, SavedAsRead
<1>1. collector' \in CollectorState /\ collector'.conn = c
        /\ collector'.got = collector.got /\ collector'.pc = pc
  BY DEF TypeOK, CollectorState
<1>2. ASSUME NEW k \in 1 .. Attempts
      PROVE  /\ conns'[k] \in Connection
             /\ conns'[k].sent = conns[k].sent
             /\ conns'[k].closed = conns[k].closed
             /\ conns[k].broken => conns'[k].broken
             /\ conns'[k].place \notin {"queued", "accepted"}
             /\ conns[k].place = "none" \/ conns'[k].place = "none" =>
                   conns'[k] = conns[k]
  <2>1. conns[k] \in Connection
    BY DEF TypeOK
  <2>2. conns'[k] = IF conns[k].place \in {"queued", "accepted"}
                    THEN [conns[k] EXCEPT !.place = "gone", !.broken = TRUE]
                    ELSE conns[k]
    OBVIOUS
  <2> QED BY <2>1, <2>2 DEF Connection
<1>3. TypeOK'
  <2>1. conns' \in [1 .. Attempts -> Connection]
    BY <1>2
  <2> QED BY <1>1, <2>1 DEF TypeOK
<1>4. AttemptsBehind'
  <2>1. \A k \in 1 .. Attempts :
            /\ conns'[k].sent = conns[k].sent
            /\ conns[k].place = "none" => conns'[k].place = "none"
    BY <1>2
  <2>2. scanner.attempt \in 1 .. Attempts /\ scanner' = scanner
    BY DEF TypeOK, ScannerState
  <2> QED BY <2>1, <2>2 DEF AttemptsBehind
<1>5. ReadWhatWasSent'
  <2>1. conns'[c].sent = conns[c].sent
    BY <1>0, <1>2
  <2> QED BY <1>1, <2>1 DEF ReadWhatWasSent
<1>6. ClosedWhole'
  BY <1>2 DEF ClosedWhole
<1>7. BrokenByDisturbance'
  BY <1>2 DEF BrokenByDisturbance
<1>8. SavedAsRead'
  <2>1. saved = NoFile
    BY DEF SavedAsRead
  <2>2. conns[c].broken => conns'[c].broken
    BY <1>0, <1>2
  <2>3. conns[c].broken => disturbed
    BY <1>0 DEF BrokenByDisturbance, CollectorRuns
  <2>4. saved' = NoFile /\ disturbed' = disturbed
    BY <2>1
  <2>5. collector'.pc # "receiving"
    BY <1>1
  <2>6. collector'.pc = "saving" /\ collector'.got < Size =>
            conns'[collector'.conn].broken /\ disturbed'
    <3> HIDE DEF StopReceiving
    <3>1. collector.got \in 0 .. Size
      BY DEF TypeOK, CollectorState
    <3>2. collector.got < Size => collector.got # Size
      BY <3>1
    <3> QED BY <1>1, <2>2, <2>3, <2>4, <3>2
  <2> QED BY <2>4, <2>5, <2>6 DEF SavedAsRead
<1>9. ScriptOwns'
  BY <1>1, <1>2 DEF ScriptOwns, NothingLeftBehind, EnclaveRuns, CollectorRuns
<1> QED BY <1>3, <1>4, <1>5, <1>6, <1>7, <1>8, <1>9

LEMMA EndOfFileD == DInv /\ EndOfFile => DInv'
<1> SUFFICES ASSUME DInv, EndOfFile PROVE DInv'
  OBVIOUS
<1>1. conns[collector.conn].broken \/ collector.got = Size
  BY DEF EndOfFile, DInv, TypeOK, CollectorState, ClosedWhole
<1> QED BY <1>1, StopReceivingD DEF EndOfFile

LEMMA RecvRaisesD == DInv /\ RecvRaises => DInv'
  BY StopReceivingD DEF RecvRaises

LEMMA WriteReportD == DInv /\ WriteReport => DInv'
<1> SUFFICES ASSUME DInv, WriteReport PROVE DInv'
  OBVIOUS
<1> USE SizesAssumption DEF DInv, WriteReport
<1>1. TypeOK'
  <2>1. collector' \in CollectorState
    BY DEF TypeOK, CollectorState
  <2>2. saved' \in 0 .. Size \cup {NoFile}
    BY DEF TypeOK, CollectorState
  <2> QED BY <2>1, <2>2 DEF TypeOK
<1>2. ReadWhatWasSent'
  BY <1>1 DEF TypeOK, ReadWhatWasSent, CollectorState, Connection
<1>3. BrokenByDisturbance'
  BY <1>1 DEF TypeOK, BrokenByDisturbance, CollectorRuns, CollectorState,
              Connection
<1>4. SavedAsRead'
  BY <1>1 DEF TypeOK, SavedAsRead, CollectorState, Connection, ReadWhatWasSent,
              ClosedWhole, BrokenByDisturbance, CollectorRuns
<1>5. ScriptOwns'
  BY <1>1 DEF TypeOK, ScriptOwns, NothingLeftBehind, EnclaveRuns,
              CollectorRuns, ScriptState, ScannerState, CollectorState,
              Connection
<1>6. AttemptsBehind' /\ ClosedWhole'
  BY DEF AttemptsBehind, ClosedWhole
<1> QED BY <1>1, <1>2, <1>3, <1>4, <1>5, <1>6

LEMMA WriteReportRaisesD == DInv /\ WriteReportRaises => DInv'
<1> SUFFICES ASSUME DInv, WriteReportRaises PROVE DInv'
  OBVIOUS
<1> USE SizesAssumption DEF DInv, WriteReportRaises
<1>1. TypeOK'
  <2>1. collector' \in CollectorState
    BY DEF TypeOK, CollectorState
  <2>2. disturbed' \in BOOLEAN
    BY DEF TypeOK
  <2> QED BY <2>1, <2>2 DEF TypeOK
<1>2. ReadWhatWasSent'
  BY <1>1 DEF TypeOK, ReadWhatWasSent, CollectorState, Connection
<1>3. BrokenByDisturbance'
  BY <1>1 DEF TypeOK, BrokenByDisturbance, CollectorRuns, CollectorState,
              Connection
<1>4. SavedAsRead'
  BY <1>1 DEF TypeOK, SavedAsRead, CollectorState, Connection
<1>5. ScriptOwns'
  BY <1>1 DEF TypeOK, ScriptOwns, NothingLeftBehind, EnclaveRuns,
              CollectorRuns, ScriptState, ScannerState, CollectorState,
              Connection
<1>6. AttemptsBehind' /\ ClosedWhole'
  BY DEF AttemptsBehind, ClosedWhole
<1> QED BY <1>1, <1>2, <1>3, <1>4, <1>5, <1>6

LEMMA StartHelpersD == DInv /\ StartHelpers => DInv'
<1> SUFFICES ASSUME DInv, StartHelpers PROVE DInv'
  OBVIOUS
<1> USE SizesAssumption DEF DInv, StartHelpers
<1>1. TypeOK'
  <2>1. collector' \in CollectorState
    BY DEF TypeOK, CollectorState
  <2>2. script' \in ScriptState
    BY DEF TypeOK, ScriptState
  <2> QED BY <2>1, <2>2 DEF TypeOK
<1>2. ReadWhatWasSent'
  BY <1>1 DEF TypeOK, ReadWhatWasSent, CollectorState, Connection
<1>3. BrokenByDisturbance'
  BY <1>1 DEF TypeOK, BrokenByDisturbance, CollectorRuns, CollectorState,
              Connection, ScriptOwns
<1>4. SavedAsRead'
  BY <1>1 DEF TypeOK, SavedAsRead, CollectorState, Connection, ScriptOwns
<1>5. ScriptOwns'
  BY <1>1 DEF TypeOK, ScriptOwns, NothingLeftBehind, EnclaveRuns,
              CollectorRuns, ScriptState, ScannerState, CollectorState,
              Connection
<1>6. AttemptsBehind' /\ ClosedWhole'
  BY DEF AttemptsBehind, ClosedWhole
<1> QED BY <1>1, <1>2, <1>3, <1>4, <1>5, <1>6

LEMMA LaunchEnclaveD == DInv /\ LaunchEnclave => DInv'
<1> SUFFICES ASSUME DInv, LaunchEnclave PROVE DInv'
  OBVIOUS
<1> USE SizesAssumption DEF DInv, LaunchEnclave, Listening
<1>1. TypeOK'
  <2>1. scanner' \in ScannerState
    BY DEF TypeOK, ScannerState
  <2>2. script' \in ScriptState
    BY DEF TypeOK, ScriptState
  <2>3. disturbed' \in BOOLEAN
    BY DEF TypeOK
  <2> QED BY <2>1, <2>2, <2>3 DEF TypeOK
<1>2. AttemptsBehind'
  BY <1>1 DEF TypeOK, AttemptsBehind, ScannerState, Connection, ScriptOwns
<1>3. BrokenByDisturbance'
  BY <1>1 DEF TypeOK, BrokenByDisturbance, CollectorRuns, CollectorState,
              Connection
<1>4. SavedAsRead'
  BY <1>1 DEF TypeOK, SavedAsRead, CollectorState, Connection
<1>5. ScriptOwns'
  BY <1>1 DEF TypeOK, ScriptOwns, NothingLeftBehind, EnclaveRuns,
              CollectorRuns, ScriptState, ScannerState, CollectorState,
              Connection
<1>6. ReadWhatWasSent' /\ ClosedWhole'
  BY DEF ReadWhatWasSent, ClosedWhole
<1> QED BY <1>1, <1>2, <1>3, <1>4, <1>5, <1>6

LEMMA LaunchFailsD == DInv /\ LaunchFails => DInv'
<1> SUFFICES ASSUME DInv, LaunchFails PROVE DInv'
  OBVIOUS
<1> USE SizesAssumption DEF DInv, LaunchFails
<1>1. TypeOK'
  <2>1. script' \in ScriptState
    BY DEF TypeOK, ScriptState
  <2>2. disturbed' \in BOOLEAN
    BY DEF TypeOK
  <2> QED BY <2>1, <2>2 DEF TypeOK
<1>2. BrokenByDisturbance'
  BY <1>1 DEF TypeOK, BrokenByDisturbance, CollectorRuns, CollectorState,
              Connection
<1>3. SavedAsRead'
  BY <1>1 DEF TypeOK, SavedAsRead, CollectorState, Connection
<1>4. ScriptOwns'
  BY <1>1 DEF TypeOK, ScriptOwns, NothingLeftBehind, EnclaveRuns,
              CollectorRuns, ScriptState, ScannerState, CollectorState,
              Connection
<1>5. AttemptsBehind' /\ ReadWhatWasSent' /\ ClosedWhole'
  BY DEF AttemptsBehind, ReadWhatWasSent, ClosedWhole
<1> QED BY <1>1, <1>2, <1>3, <1>4, <1>5

LEMMA RecordEnclaveIdD == DInv /\ RecordEnclaveId => DInv'
<1> SUFFICES ASSUME DInv, RecordEnclaveId PROVE DInv'
  OBVIOUS
<1> USE SizesAssumption DEF DInv, RecordEnclaveId
<1>1. TypeOK'
  <2>1. script' \in ScriptState
    BY DEF TypeOK, ScriptState
  <2> QED BY <2>1 DEF TypeOK
<1>2. ScriptOwns'
  BY <1>1 DEF TypeOK, ScriptOwns, NothingLeftBehind, EnclaveRuns,
              CollectorRuns, ScriptState, ScannerState, CollectorState,
              Connection
<1>3. AttemptsBehind' /\ ReadWhatWasSent' /\ ClosedWhole' /\ BrokenByDisturbance' /\ SavedAsRead'
  BY DEF AttemptsBehind, ReadWhatWasSent, ClosedWhole, BrokenByDisturbance,
         CollectorRuns, SavedAsRead
<1> QED BY <1>1, <1>2, <1>3

LEMMA WaitForCollectorD == DInv /\ WaitForCollector => DInv'
<1> SUFFICES ASSUME DInv, WaitForCollector PROVE DInv'
  OBVIOUS
<1> USE SizesAssumption DEF DInv, WaitForCollector
<1>1. TypeOK'
  <2>1. script' \in ScriptState
    BY DEF TypeOK, ScriptState
  <2> QED BY <2>1 DEF TypeOK
<1>2. ScriptOwns'
  BY <1>1 DEF TypeOK, ScriptOwns, NothingLeftBehind, EnclaveRuns,
              CollectorRuns, ScriptState, ScannerState, CollectorState,
              Connection
<1>3. AttemptsBehind' /\ ReadWhatWasSent' /\ ClosedWhole' /\ BrokenByDisturbance' /\ SavedAsRead'
  BY DEF AttemptsBehind, ReadWhatWasSent, ClosedWhole, BrokenByDisturbance,
         CollectorRuns, SavedAsRead
<1> QED BY <1>1, <1>2, <1>3

LEMMA ExitD == DInv /\ Exit => DInv'
<1> SUFFICES ASSUME DInv, Exit PROVE DInv'
  OBVIOUS
<1> USE SizesAssumption DEF DInv, Exit, Cleanup, Torn
<1>1. TypeOK'
  <2>1. script' \in ScriptState
    BY DEF TypeOK, ScriptState
  <2>2. scanner' \in ScannerState
    BY DEF TypeOK, ScannerState
  <2>3. collector' \in CollectorState
    BY DEF TypeOK, CollectorState
  <2>4. conns' \in [1 .. Attempts -> Connection]
    BY DEF TypeOK, Connection
  <2> QED BY <2>1, <2>2, <2>3, <2>4 DEF TypeOK
<1>2. AttemptsBehind'
  BY <1>1 DEF TypeOK, AttemptsBehind, ScannerState, Connection
<1>3. ReadWhatWasSent'
  BY <1>1 DEF TypeOK, ReadWhatWasSent, CollectorState, Connection
<1>4. ClosedWhole'
  BY <1>1 DEF TypeOK, ClosedWhole, Connection
<1>5. BrokenByDisturbance'
  BY <1>1 DEF TypeOK, BrokenByDisturbance, CollectorRuns, CollectorState,
              Connection
<1>6. SavedAsRead'
  BY <1>1 DEF TypeOK, SavedAsRead, CollectorState, Connection,
              BrokenByDisturbance, CollectorRuns, ScriptOwns, NothingLeftBehind
<1>7. ScriptOwns'
  BY <1>1 DEF TypeOK, ScriptOwns, NothingLeftBehind, EnclaveRuns,
              CollectorRuns, ScriptState, ScannerState, CollectorState,
              Connection
<1> QED BY <1>1, <1>2, <1>3, <1>4, <1>5, <1>6, <1>7

LEMMA CtrlCD == DInv /\ CtrlC => DInv'
<1> SUFFICES ASSUME DInv, CtrlC PROVE DInv'
  OBVIOUS
<1> USE SizesAssumption DEF DInv, CtrlC
<1>1. TypeOK'
  <2>1. script' \in ScriptState
    BY DEF TypeOK, ScriptState
  <2>2. disturbed' \in BOOLEAN
    BY DEF TypeOK
  <2> QED BY <2>1, <2>2 DEF TypeOK
<1>2. BrokenByDisturbance'
  BY <1>1 DEF TypeOK, BrokenByDisturbance, CollectorRuns, CollectorState,
              Connection
<1>3. SavedAsRead'
  BY <1>1 DEF TypeOK, SavedAsRead, CollectorState, Connection
<1>4. ScriptOwns'
  BY <1>1 DEF TypeOK, ScriptOwns, NothingLeftBehind, EnclaveRuns,
              CollectorRuns, ScriptState, ScannerState, CollectorState,
              Connection
<1>5. AttemptsBehind' /\ ReadWhatWasSent' /\ ClosedWhole'
  BY DEF AttemptsBehind, ReadWhatWasSent, ClosedWhole
<1> QED BY <1>1, <1>2, <1>3, <1>4, <1>5

LEMMA TerminateD == DInv /\ Terminate => DInv'
<1> SUFFICES ASSUME DInv, Terminate PROVE DInv'
  OBVIOUS
<1> USE SizesAssumption DEF DInv, Terminate, Cleanup, Torn
<1>1. TypeOK'
  <2>1. scanner' \in ScannerState
    BY DEF TypeOK, ScannerState
  <2>2. collector' \in CollectorState
    BY DEF TypeOK, CollectorState
  <2>3. conns' \in [1 .. Attempts -> Connection]
    BY DEF TypeOK, Connection
  <2>4. disturbed' \in BOOLEAN
    BY DEF TypeOK
  <2> QED BY <2>1, <2>2, <2>3, <2>4 DEF TypeOK
<1>2. AttemptsBehind'
  BY <1>1 DEF TypeOK, AttemptsBehind, ScannerState, Connection
<1>3. ReadWhatWasSent'
  BY <1>1 DEF TypeOK, ReadWhatWasSent, CollectorState, Connection
<1>4. ClosedWhole'
  BY <1>1 DEF TypeOK, ClosedWhole, Connection
<1>5. BrokenByDisturbance'
  BY <1>1 DEF TypeOK, BrokenByDisturbance, CollectorRuns, CollectorState,
              Connection
<1>6. SavedAsRead'
  BY <1>1 DEF TypeOK, SavedAsRead, CollectorState, Connection,
              BrokenByDisturbance, CollectorRuns, ScriptOwns, NothingLeftBehind
<1>7. ScriptOwns'
  BY <1>1 DEF TypeOK, ScriptOwns, NothingLeftBehind, EnclaveRuns,
              CollectorRuns, ScriptState, ScannerState, CollectorState,
              Connection
<1> QED BY <1>1, <1>2, <1>3, <1>4, <1>5, <1>6, <1>7
-----------------------------------------------------------------------------
LEMMA NextDInv == DInv /\ [Next]_vars => DInv'
<1>1. ASSUME DInv, Scanner PROVE DInv'
  BY <1>1, ScanCompletesD, DialD, WriteD, WriteFailsD, SendReportD, RetryD
  DEF Scanner
<1>2. ASSUME DInv, Collector PROVE DInv'
  BY <1>2, ListenD, AcceptD, RecvD, EndOfFileD, RecvRaisesD, WriteReportD
  DEF Collector
<1>3. ASSUME DInv, Script PROVE DInv'
  BY <1>3, StartHelpersD, LaunchEnclaveD, RecordEnclaveIdD, WaitForCollectorD, ExitD
  DEF Script
<1>4. ASSUME DInv, Disturbance PROVE DInv'
  BY <1>4, ScanFailsD, EnclaveDiesD, WriteReportRaisesD, LaunchFailsD, CtrlCD,
     TerminateD, ResetD
  DEF Disturbance
<1>5. ASSUME DInv, UNCHANGED vars PROVE DInv'
  BY <1>5 DEF vars, DInv, TypeOK, AttemptsBehind, ReadWhatWasSent, ClosedWhole,
              BrokenByDisturbance, CollectorRuns, SavedAsRead, ScriptOwns,
              NothingLeftBehind, EnclaveRuns
<1> QED BY <1>1, <1>2, <1>3, <1>4, <1>5 DEF Next, Done

\* DInv is an invariant of every execution.
THEOREM Delivered == Spec => []DInv
<1> QED BY InitDInv, NextDInv, PTL DEF Spec

\* The scanner, the collector, the script and the connections keep their types:
\* no attempt beyond the limit, no more read than the report has.
THEOREM TypeCorrect == Spec => []TypeOK
<1>1. DInv => TypeOK
  BY DEF DInv
<1> QED BY <1>1, Delivered, PTL

\* receive_one_report saves less than the whole report only if its connection
\* broke, whatever the sizes of report and buffer and however many attempts.
THEOREM OnlyResetsTruncate == Spec => []TruncatedOnlyByReset
<1>1. DInv => TruncatedOnlyByReset
  BY DEF DInv, SavedAsRead, TruncatedOnlyByReset
<1> QED BY <1>1, Delivered, PTL

\* deliverReport gives up on no report that was saved in full: a whole file was
\* read from an attempt handed over in full, and that attempt was the last.
THEOREM GivesUpRightly == Spec => []GivesUpOnlyUndelivered
<1>1. ASSUME DInv PROVE GivesUpOnlyUndelivered
  <2> USE <1>1, SizesAssumption DEF DInv
  <2> SUFFICES ASSUME scanner.pc = "failed" PROVE saved # Size
    BY DEF GivesUpOnlyUndelivered
  <2> DEFINE c == collector.conn
  <2>1. c \in 1 .. Attempts /\ scanner.attempt \in 1 .. Attempts
        /\ collector.got \in 0 .. Size /\ conns[c] \in Connection
    BY DEF TypeOK, CollectorState, ScannerState
  <2>2. conns[c].sent \in 0 .. Size
    BY <2>1 DEF Connection
  <2>3. conns[c].sent < Size
    BY <2>1 DEF AttemptsBehind
  <2>4. collector.got < Size
    BY <2>1, <2>2, <2>3 DEF ReadWhatWasSent
  <2>5. saved # NoFile => saved = collector.got
    BY DEF SavedAsRead
  <2> QED BY <2>1, <2>4, <2>5
<1> QED BY <1>1, Delivered, PTL

\* Whichever way run-enclave.sh ends, it leaves no collector and no enclave
\* whose id it had read.
THEOREM CleanupIsComplete == Spec => []NothingLeftBehind
<1>1. DInv => NothingLeftBehind
  BY DEF DInv, ScriptOwns
<1> QED BY <1>1, Delivered, PTL
-----------------------------------------------------------------------------
(* The run, the hand-over included. *)

\* No server runs before the script has started its helpers, nor after its end.
ServerOwned ==
    /\ script.pc = "start" => server = "off"
    /\ script.pc = "done" => ~ServerRuns

HandInv ==
    /\ server \in {"off", "starting", "listening", "fetching", "killed"}
    /\ link \in [place : {"none", "queued", "accepted"},
                 sent : {"nothing", "part", "whole"}, closed : BOOLEAN]
    /\ creds \in {"none", "reading", "held"}
    /\ ServerOwned
-----------------------------------------------------------------------------
\* What the delivery sees of a step of the run.
LEMMA RunStep == ASSUME [RunNext]_runVars PROVE [Next]_vars
<1>1. CASE EnclaveStep
  <2>1. CASE ConnectToParent
    BY <2>1 DEF ConnectToParent, Next, Disturbance
  <2>2. CASE ReadCredentials
    BY <2>2 DEF ReadCredentials, Next, Disturbance
  <2>3. CASE ScanCompletes
    BY <2>3 DEF Next, Scanner
  <2>4. CASE Delivering
    BY <2>4 DEF Delivering, Next, Scanner
  <2> QED BY <1>1, <2>1, <2>2, <2>3, <2>4 DEF EnclaveStep
<1>2. CASE ServerStep
  BY <1>2 DEF ServerStep, ServerListens, AcceptScanner, ServeCredentials
<1>3. CASE Collector
  BY <1>3 DEF Next
<1>4. CASE ScriptStep
  BY <1>4 DEF ScriptStep, Next, Script
<1>5. CASE Fault
  BY <1>5 DEF Fault, ReadReset, FetchFails, Next, Disturbance
<1>6. CASE Done
  BY <1>6 DEF Next
<1>7. CASE UNCHANGED runVars
  BY <1>7 DEF runVars
<1> QED BY <1>1, <1>2, <1>3, <1>4, <1>5, <1>6, <1>7 DEF RunNext

\* A run of run-enclave.sh with the credential server is a run of the delivery:
\* the hand-over adds no step that the delivery's theorems do not cover.
THEOREM RunImplementsDelivery == RunSpec => Spec
<1>1. RunInit => Init
  BY DEF RunInit
<1>2. [RunNext]_runVars => [Next]_vars
  BY RunStep
<1> QED BY <1>1, <1>2, PTL DEF RunSpec, Spec
-----------------------------------------------------------------------------
LEMMA InitHandInv == RunInit => HandInv
BY DEF RunInit, Init, HandInv, ServerOwned, ServerRuns

LEMMA NextHandInv ==
    ASSUME TypeOK, HandInv, [RunNext]_runVars
    PROVE  HandInv'
<1> USE DEF HandInv, ServerRuns
<1>1. CASE EnclaveStep
  <2>1. UNCHANGED <<script, server>>
    BY <1>1 DEF EnclaveStep, ConnectToParent, ReadCredentials, Delivering,
                ScanCompletes, ScanFails, Dial, Write, WriteFails, SendReport,
                Retry, vars, handVars
  <2>2. link' \in [place : {"none", "queued", "accepted"},
                   sent : {"nothing", "part", "whole"}, closed : BOOLEAN]
        /\ creds' \in {"none", "reading", "held"}
    BY <1>1 DEF EnclaveStep, ConnectToParent, ReadCredentials, handVars
  <2> QED BY <2>1, <2>2 DEF ServerOwned
<1>2. CASE ServerStep
  BY <1>2 DEF ServerStep, ServerListens, AcceptScanner, ServeCredentials,
              ServerOwned, Accepting, vars
<1>3. CASE Collector /\ UNCHANGED handVars
  <2>1. UNCHANGED script
    BY <1>3 DEF Collector, Listen, Accept, Recv, EndOfFile, RecvRaises,
                WriteReport, StopReceiving
  <2> QED BY <1>3, <2>1 DEF ServerOwned, handVars
<1>4. CASE ScriptStep
  <2>1. CASE StartHelpers /\ server' = "starting" /\ UNCHANGED <<link, creds>>
    BY <2>1 DEF StartHelpers, TypeOK, ScriptState, ServerOwned
  <2>2. CASE (LaunchEnclave \/ RecordEnclaveId \/ WaitForCollector)
             /\ UNCHANGED handVars
    BY <2>2 DEF LaunchEnclave, RecordEnclaveId, WaitForCollector, TypeOK,
                ScriptState, ServerOwned, handVars
  <2>3. CASE Exit /\ ServerKilled
    BY <2>3 DEF Exit, ServerKilled, TypeOK, ScriptState, ServerOwned
  <2> QED BY <1>4, <2>1, <2>2, <2>3 DEF ScriptStep
<1>5. CASE Fault
  <2>1. CASE FetchFails
    BY <2>1 DEF FetchFails, ServerOwned, vars
  <2>2. CASE Terminate /\ ServerKilled
    BY <2>2 DEF Terminate, ServerKilled, ServerOwned
  <2>3. CASE \/ ScanFails /\ UNCHANGED handVars
             \/ ReadReset
             \/ (EnclaveDies \/ WriteReportRaises) /\ UNCHANGED handVars
             \/ (\E k \in 1 .. Attempts : Reset(k)) /\ UNCHANGED handVars
    BY <2>3 DEF ScanFails, ReadReset, EnclaveDies, WriteReportRaises, Reset,
                ServerOwned, handVars
  <2>4. CASE (LaunchFails \/ CtrlC) /\ UNCHANGED handVars
    BY <2>4 DEF LaunchFails, CtrlC, TypeOK, ScriptState, ServerOwned, handVars
  <2> QED BY <1>5, <2>1, <2>2, <2>3, <2>4 DEF Fault
<1>6. CASE Done /\ UNCHANGED handVars
  BY <1>6 DEF Done, vars, ServerOwned, handVars
<1>7. CASE UNCHANGED runVars
  BY <1>7 DEF runVars, vars, handVars, ServerOwned
<1> QED BY <1>1, <1>2, <1>3, <1>4, <1>5, <1>6, <1>7 DEF RunNext

LEMMA HandOwned == RunSpec => [](TypeOK /\ HandInv)
<1>1. RunSpec => []TypeOK
  BY RunImplementsDelivery, TypeCorrect, PTL
<1>2. TypeOK /\ HandInv /\ [RunNext]_runVars => HandInv'
  BY NextHandInv
<1> QED BY <1>1, <1>2, InitHandInv, PTL DEF RunSpec
-----------------------------------------------------------------------------
\* The four processes keep their types through the hand-over and the delivery.
THEOREM RunTypeCorrect == RunSpec => []RunTypeOK
<1>1. TypeOK /\ HandInv => RunTypeOK
  BY DEF HandInv, RunTypeOK
<1> QED BY <1>1, HandOwned, PTL

\* Whichever way run-enclave.sh ends, and whatever its helpers were doing then,
\* neither the credential server nor the collector outlives it, nor an enclave
\* whose id it had read.
THEOREM NoHelperOutlives == RunSpec => []NoHelperLeft
<1>1. RunSpec => []NothingLeftBehind
  BY RunImplementsDelivery, CleanupIsComplete, PTL
<1>2. NothingLeftBehind /\ HandInv => NoHelperLeft
  BY DEF HandInv, ServerOwned, NoHelperLeft
<1> QED BY <1>1, <1>2, HandOwned, PTL

\* Of a whole run, too: only a broken connection truncates what
\* receive_one_report saves.
THEOREM RunTruncatesByReset == RunSpec => []TruncatedOnlyByReset
BY RunImplementsDelivery, OnlyResetsTruncate, PTL

\* Of a whole run, too: deliverReport gives up on no report that was saved in
\* full.
THEOREM RunGivesUpRightly == RunSpec => []GivesUpOnlyUndelivered
BY RunImplementsDelivery, GivesUpRightly, PTL
-----------------------------------------------------------------------------
(* What becomes of the report: encodings. *)

LEMMA FieldsAre ==
    /\ \A f \in Names : /\ Fields[f].list \in BOOLEAN /\ Fields[f].optional \in BOOLEAN
                        /\ Fields[f].column \in {"not null", "nullable", "json"}
                        /\ Fields[f].column = "nullable" => Fields[f].optional
                        /\ Fields[f].column = "not null" <=>
                              f \in {"account_id", "accounts_listed", "scanned_regions"}
    /\ {"account_id", "accounts_listed", "scanned_regions"} \subseteq Names
    /\ ~Fields["account_id"].list /\ Fields["accounts_listed"].list
    /\ Fields["scanned_regions"].list
    /\ ~Fields["account_id"].optional /\ Fields["accounts_listed"].optional
    /\ ~Fields["scanned_regions"].optional
BY DEF Fields, Names, Field

\* A content: texts are not nil.
IsContent(c) ==
    c \in [Names -> Values] /\ \A f \in Names : Fields[f].list \/ c[f] # Nil

Omitted(c, f) == Fields[f].optional /\ Empty(c[f])

Encoded == {Nil} \cup Seq(Glyphs)

LEMMA FormsAre == GoForm \in [Characters -> Forms] /\ JsForm \in [Characters -> Forms]
BY DEF GoForm, JsForm, Characters, Forms

\* An escape loses nothing.
LEMMA EscapeIs ==
    ASSUME NEW v \in Values, NEW form \in [Characters -> Forms]
    PROVE  /\ Escape(v, form) \in Encoded
           /\ Text(Escape(v, form)) = v
           /\ Empty(Escape(v, form)) <=> Empty(v)
           /\ Escape(v, form) = Nil <=> v = Nil
           /\ v # Nil => /\ DOMAIN Escape(v, form) = DOMAIN v
                         /\ \A i \in DOMAIN v :
                               /\ v[i] \in Characters
                               /\ Escape(v, form)[i] = [char |-> v[i], form |-> form[v[i]]]
<1>1. CASE v = Nil
  BY <1>1 DEF Escape, Text, Empty, Encoded
<1>2. CASE v # Nil
  <2>1. v \in Seq(Characters) /\ Nil \notin Seq(Glyphs)
    BY <1>2, ContentsAssumption DEF Values
  <2>2. PICK n \in Nat : n = Len(v) /\ DOMAIN v = 1..n /\ \A i \in 1..n : v[i] \in Characters
    BY <2>1
  <2> DEFINE e == [i \in DOMAIN v |-> [char |-> v[i], form |-> form[v[i]]]]
  <2>3. Escape(v, form) = e
    BY <1>2 DEF Escape
  <2>4. /\ DOMAIN e = 1..n
        /\ \A i \in 1..n : /\ e[i] = [char |-> v[i], form |-> form[v[i]]]
                           /\ e[i].char = v[i]
                           /\ e[i] \in Glyphs
    BY <2>2 DEF Glyphs
  <2>5. e \in Seq(Glyphs)
    <3> HIDE DEF e
    <3>1. e \in [1..n -> Glyphs]
      <4>1. e = [i \in 1..n |-> e[i]]
        BY <2>2, <2>4 DEF e
      <4> QED BY <2>4, <4>1
    <3> QED BY <3>1
  <2>6. e # Nil
    BY <2>1, <2>5
  <2>7. Text(e) = v
    <3>1. Text(e) = [i \in 1..n |-> e[i].char]
      BY <2>4, <2>6 DEF Text
    <3>2. v = [i \in 1..n |-> v[i]]
      BY <2>1, <2>2
    <3> QED BY <2>4, <3>1, <3>2
  <2>8. e = << >> <=> v = << >>
    <3>1. e = << >> => n = 0
      BY <2>4
    <3>2. v = << >> => n = 0
      BY <2>2
    <3>3. n = 0 => e = << >> /\ v = << >>
      <4> HIDE DEF e
      <4>1. n = 0 => Len(e) = 0 /\ Len(v) = 0
        BY <2>2, <2>4, <2>5
      <4> QED BY <2>1, <2>5, <4>1
    <3> QED BY <3>1, <3>2, <3>3
  <2> HIDE DEF e
  <2> QED BY <1>2, <2>2, <2>3, <2>4, <2>5, <2>6, <2>7, <2>8 DEF Empty, Encoded
<1> QED BY <1>1, <1>2

\* Go and the browser agree but for the backspace.
LEMMA FormsAgree ==
    ASSUME NEW v \in Values
    PROVE  Escape(v, JsForm) = Escape(v, GoForm) <=>
               (~Empty(v) => \A i \in DOMAIN v : v[i] # "backspace")
<1>1. CASE Empty(v)
  <2>1. Empty(Escape(v, JsForm)) /\ Empty(Escape(v, GoForm))
        /\ (Escape(v, JsForm) = Nil <=> Escape(v, GoForm) = Nil)
    BY <1>1, EscapeIs, FormsAre
  <2> QED BY <1>1, <2>1 DEF Empty
<1>2. CASE ~Empty(v)
  <2> DEFINE g == Escape(v, GoForm)
             j == Escape(v, JsForm)
  <2>1. /\ DOMAIN g = DOMAIN v /\ DOMAIN j = DOMAIN v
        /\ \A i \in DOMAIN v :
              /\ v[i] \in Characters
              /\ g[i] = [char |-> v[i], form |-> GoForm[v[i]]]
              /\ j[i] = [char |-> v[i], form |-> JsForm[v[i]]]
    BY <1>2, EscapeIs, FormsAre DEF Empty
  <2>2. \A ch \in Characters : GoForm[ch] = JsForm[ch] <=> ch # "backspace"
    BY DEF GoForm, JsForm, Characters
  <2>3. \A i \in DOMAIN v : g[i] = j[i] <=> v[i] # "backspace"
    <3> SUFFICES ASSUME NEW i \in DOMAIN v PROVE g[i] = j[i] <=> v[i] # "backspace"
      OBVIOUS
    <3>1. g[i].form = GoForm[v[i]] /\ j[i].form = JsForm[v[i]]
      BY <2>1
    <3>2. GoForm[v[i]] = JsForm[v[i]] => g[i] = j[i]
      BY <2>1
    <3> QED BY <2>1, <2>2, <3>1, <3>2
  <2>4. ASSUME \A i \in DOMAIN v : g[i] = j[i] PROVE g = j
    <3>1. g = [i \in DOMAIN v |-> g[i]] /\ j = [i \in DOMAIN v |-> j[i]]
      BY <1>2 DEF Escape, Empty
    <3> HIDE DEF g, j
    <3> QED BY <2>4, <3>1
  <2> HIDE DEF g, j
  <2>5. g = j <=> \A i \in DOMAIN v : v[i] # "backspace"
    BY <2>3, <2>4
  <2> QED BY <1>2, <2>5 DEF g, j
<1> QED BY <1>1, <1>2


LEMMA NilIs == << >> \in Values /\ Nil \in Values /\ << >> # Nil
<1>1. << >> \in Seq(Characters)
  OBVIOUS
<1>2. Nil \notin Seq(Characters)
  BY ContentsAssumption
<1> QED BY <1>1, <1>2 DEF Values

LEMMA MarshalIs ==
    ASSUME NEW c, IsContent(c)
    PROVE  /\ DOMAIN Marshal(c) = {f \in Names : ~Omitted(c, f)}
           /\ \A f \in Names : /\ c[f] \in Values
                               /\ ~Omitted(c, f) => Marshal(c)[f] = Escape(c[f], GoForm)
           /\ Marshal(c) = [f \in {g \in Names : ~Omitted(c, g)} |-> Marshal(c)[f]]
BY DEF Marshal, Omitted, IsContent

\* Contents are written alike only if they are the same, but for empty fields
\* that are left out.
LEMMA MarshalAgrees ==
    ASSUME NEW c, NEW e, IsContent(c), IsContent(e)
    PROVE  Marshal(c) = Marshal(e) <=> Same(c, e)
<1>1. ASSUME Marshal(c) = Marshal(e), NEW f \in Names
      PROVE  c[f] = e[f] \/ (Omitted(c, f) /\ Omitted(e, f))
  <2>1. Omitted(c, f) <=> Omitted(e, f)
    BY <1>1, MarshalIs
  <2>2. ASSUME ~Omitted(c, f) PROVE c[f] = e[f]
    <3>1. c[f] \in Values /\ Marshal(c)[f] = Escape(c[f], GoForm)
      BY <2>2, MarshalIs
    <3>2. e[f] \in Values /\ Marshal(e)[f] = Escape(e[f], GoForm)
      BY <2>1, <2>2, MarshalIs
    <3>3. Escape(c[f], GoForm) = Escape(e[f], GoForm)
      BY <1>1, <3>1, <3>2
    <3>4. Text(Escape(c[f], GoForm)) = c[f] /\ Text(Escape(e[f], GoForm)) = e[f]
      BY <3>1, <3>2, EscapeIs, FormsAre
    <3> QED BY <3>3, <3>4
  <2> QED BY <2>1, <2>2
<1>2. ASSUME \A f \in Names : c[f] = e[f] \/ (Omitted(c, f) /\ Omitted(e, f))
      PROVE  Marshal(c) = Marshal(e)
  <2>1. \A f \in Names : Omitted(c, f) <=> Omitted(e, f)
    BY <1>2 DEF Omitted
  <2>2. PICK S : S = {f \in Names : ~Omitted(c, f)}
    OBVIOUS
  <2>3. S = {f \in Names : ~Omitted(e, f)}
    BY <2>1, <2>2
  <2>4. Marshal(c) = [f \in S |-> Marshal(c)[f]] /\ Marshal(e) = [f \in S |-> Marshal(e)[f]]
    BY <2>2, <2>3, MarshalIs
  <2>5. ASSUME NEW f \in S PROVE Marshal(c)[f] = Marshal(e)[f]
    <3>1. f \in Names /\ ~Omitted(c, f) /\ ~Omitted(e, f)
      BY <2>2, <2>3
    <3>2. Marshal(c)[f] = Escape(c[f], GoForm)
      BY <3>1, MarshalIs
    <3>3. Marshal(e)[f] = Escape(e[f], GoForm)
      BY <3>1, MarshalIs
    <3> QED BY <1>2, <3>1, <3>2, <3>3
  <2> QED BY <2>4, <2>5
<1>3. Same(c, e) <=> \A f \in Names : c[f] = e[f] \/ (Omitted(c, f) /\ Omitted(e, f))
  BY DEF Same, Omitted
<1> QED BY <1>1, <1>2, <1>3

LEMMA SameIs ==
    /\ \A c, d : Same(c, d) => Same(d, c)
    /\ \A c, d, e : Same(c, d) /\ Same(d, e) => Same(c, e)
BY DEF Same

\* What the backend decodes is what was written.
LEMMA DecodeIs ==
    ASSUME NEW c, IsContent(c)
    PROVE  LET read == Decode(Marshal(c))
           IN  /\ IsContent(read) /\ Same(read, c)
               /\ \A f \in Names :
                     /\ ~Omitted(c, f) => read[f] = c[f]
                     /\ Omitted(c, f) => read[f] = IF Fields[f].list THEN Nil ELSE << >>
<1> DEFINE read == Decode(Marshal(c))
<1>1. /\ DOMAIN read = Names
      /\ \A f \in Names :
            read[f] = IF f \in DOMAIN Marshal(c) THEN Text(Marshal(c)[f])
                      ELSE IF Fields[f].list THEN Nil ELSE << >>
      /\ read = [f \in Names |-> read[f]]
  BY DEF Decode
<1> HIDE DEF read
<1>2. ASSUME NEW f \in Names
      PROVE  /\ ~Omitted(c, f) => read[f] = c[f]
             /\ Omitted(c, f) => read[f] = IF Fields[f].list THEN Nil ELSE << >>
  <2>1. c[f] \in Values
    BY MarshalIs
  <2>2. Text(Escape(c[f], GoForm)) = c[f]
    BY <2>1, EscapeIs, FormsAre
  <2> QED BY <1>1, <2>2, MarshalIs
<1>3. ASSUME NEW f \in Names
      PROVE  /\ read[f] \in Values /\ (Fields[f].list \/ read[f] # Nil)
             /\ read[f] = c[f] \/ (Fields[f].optional /\ Empty(read[f]) /\ Empty(c[f]))
  <2>1. << >> \in Values /\ Nil \in Values /\ << >> # Nil
    BY NilIs
  <2>2. c[f] \in Values /\ (Fields[f].list \/ c[f] # Nil)
    BY DEF IsContent
  <2> QED BY <1>2, <2>1, <2>2 DEF Omitted, Empty
<1>4. IsContent(read)
  BY <1>1, <1>3 DEF IsContent
<1>5. Same(read, c)
  BY <1>3 DEF Same
<1> QED BY <1>2, <1>4, <1>5 DEF read

\* What is selected of a row is what was inserted.
LEMMA SelectedIs ==
    ASSUME NEW c, IsContent(c)
    PROVE  IsContent(Selected(RowOf(c))) /\ Same(Selected(RowOf(c)), c)
<1> DEFINE r == RowOf(c)
           s == Selected(r)
<1>1. \A f \in Names : r[f] = Column(c, f)
  BY DEF RowOf
<1>2. /\ s = [f \in Names |-> s[f]]
      /\ \A f \in Names :
            s[f] = IF Fields[f].column = "nullable" /\ r[f] = Nil THEN << >> ELSE r[f]
  BY DEF Selected
<1> HIDE DEF r, s
<1>3. ASSUME NEW f \in Names
      PROVE  /\ s[f] \in Values /\ (Fields[f].list \/ s[f] # Nil)
             /\ s[f] = c[f] \/ (Fields[f].optional /\ Empty(s[f]) /\ Empty(c[f]))
  <2>1. << >> \in Values /\ Nil \in Values /\ << >> # Nil
    BY NilIs
  <2>2. c[f] \in Values /\ (Fields[f].list \/ c[f] # Nil)
    BY DEF IsContent
  <2>3. CASE Fields[f].column = "json"
    <3>1. r[f] = IF f \in DOMAIN Marshal(c) THEN Text(Marshal(c)[f]) ELSE Nil
      BY <1>1, <2>3 DEF Column
    <3>2. Text(Escape(c[f], GoForm)) = c[f]
      BY <2>2, EscapeIs, FormsAre
    <3>3. r[f] = IF Omitted(c, f) THEN Nil ELSE c[f]
      BY <3>1, <3>2, MarshalIs
    <3>4. s[f] = r[f] /\ Fields[f].list
      BY <1>2, <2>3 DEF Fields, Field, Names
    <3> QED BY <2>1, <2>2, <3>3, <3>4 DEF Omitted, Empty
  <2>4. CASE Fields[f].column = "nullable"
    <3>1. r[f] = IF ~Fields[f].list /\ c[f] = << >> THEN Nil ELSE c[f]
      BY <1>1, <2>4 DEF Column
    <3>2. s[f] = IF r[f] = Nil THEN << >> ELSE r[f]
      BY <1>2, <2>4
    <3>3. Fields[f].optional
      BY <2>4, FieldsAre
    <3> QED BY <2>1, <2>2, <3>1, <3>2, <3>3 DEF Empty
  <2>5. CASE Fields[f].column = "not null"
    <3>1. r[f] = c[f]
      BY <1>1, <2>5 DEF Column
    <3>2. s[f] = r[f]
      BY <1>2, <2>5
    <3> QED BY <2>2, <3>1, <3>2
  <2> QED BY <2>3, <2>4, <2>5, FieldsAre
<1>4. s \in [Names -> Values]
  BY <1>2, <1>3
<1> QED BY <1>3, <1>4 DEF IsContent, Same, r, s

\* A content can be inserted if the accounts and the regions were listed.
LEMMA StorableIs ==
    ASSUME NEW c, IsContent(c)
    PROVE  Storable(RowOf(Decode(Marshal(c)))) <=>
               ~Empty(c["accounts_listed"]) /\ c["scanned_regions"] # Nil
<1> DEFINE d == Decode(Marshal(c))
           r == RowOf(d)
<1>1. \A f \in Names : /\ ~Omitted(c, f) => d[f] = c[f]
                       /\ Omitted(c, f) => d[f] = IF Fields[f].list THEN Nil ELSE << >>
  BY DecodeIs
<1>2. \A f \in Names : Fields[f].column = "not null" => r[f] = d[f]
  BY DEF RowOf, Column
<1> HIDE DEF d, r
<1>3. d["account_id"] # Nil
  <2>1. c["account_id"] # Nil /\ ~Omitted(c, "account_id")
    BY FieldsAre DEF IsContent, Omitted
  <2> QED BY <1>1, <2>1, FieldsAre
<1>4. d["accounts_listed"] = Nil <=> Empty(c["accounts_listed"])
  BY <1>1, FieldsAre DEF Omitted, Empty
<1>5. d["scanned_regions"] = c["scanned_regions"]
  BY <1>1, FieldsAre DEF Omitted
<1>6. Storable(r) <=> /\ d["account_id"] # Nil /\ d["accounts_listed"] # Nil
                      /\ d["scanned_regions"] # Nil
  <2>1. \A f \in {"account_id", "accounts_listed", "scanned_regions"} :
            f \in Names /\ Fields[f].column = "not null" /\ r[f] = d[f]
    BY <1>2, FieldsAre
  <2>2. Storable(r) <=> \A f \in {"account_id", "accounts_listed", "scanned_regions"} : r[f] # Nil
    BY <2>1, FieldsAre DEF Storable
  <2> QED BY <2>1, <2>2
<1> QED BY <1>3, <1>4, <1>5, <1>6 DEF d, r

\* The browser's encoding of what it is served is that of the scanner, but for
\* the backspace.
LEMMA BrowserAgrees ==
    ASSUME NEW c, IsContent(c)
    PROVE  BrowserContent(Marshal(c)) = Marshal(c) <=>
               \A f \in Names : ~Empty(c[f]) =>
                   \A i \in DOMAIN c[f] : c[f][i] # "backspace"
<1> DEFINE json == Marshal(c)
           b == BrowserContent(json)
           S == {f \in Names : ~Omitted(c, f)}
<1>1. DOMAIN json = S /\ json = [f \in S |-> json[f]]
      /\ \A f \in S : json[f] = Escape(c[f], GoForm)
  BY MarshalIs
<1>2. ASSUME NEW f \in S PROVE Text(json[f]) = c[f] /\ (Empty(json[f]) <=> Empty(c[f]))
  <2>1. c[f] \in Values /\ json[f] = Escape(c[f], GoForm)
    BY <1>1, MarshalIs
  <2> HIDE DEF json
  <2> QED BY <2>1, EscapeIs, FormsAre
<1>3. {g \in Names : ~Fields[g].optional \/ (g \in DOMAIN json /\ ~Empty(json[g]))} = S
  <2> HIDE DEF json
  <2> QED BY <1>1, <1>2 DEF Omitted
<1>4. b = [f \in S |-> b[f]] /\ \A f \in S : b[f] = Escape(c[f], JsForm)
  <2>1. b = [f \in S |-> IF f \in DOMAIN json THEN Escape(Text(json[f]), JsForm) ELSE Nil]
    BY <1>3 DEF BrowserContent
  <2> HIDE DEF json, b, S
  <2> QED BY <1>1, <1>2, <2>1
<1> HIDE DEF json, b
<1>5. b = json <=> \A f \in S : Escape(c[f], JsForm) = Escape(c[f], GoForm)
  <2>1. b = json => \A f \in S : Escape(c[f], JsForm) = Escape(c[f], GoForm)
    BY <1>1, <1>4
  <2>2. (\A f \in S : b[f] = json[f]) => b = json
    BY <1>1, <1>4
  <2> QED BY <1>1, <1>4, <2>1, <2>2
<1>6. \A f \in S : Escape(c[f], JsForm) = Escape(c[f], GoForm) <=>
          (~Empty(c[f]) => \A i \in DOMAIN c[f] : c[f][i] # "backspace")
  BY MarshalIs, FormsAgree
<1>7. \A f \in Names \ S : Empty(c[f])
  BY DEF Omitted
<1> QED BY <1>5, <1>6, <1>7 DEF json, b
-----------------------------------------------------------------------------
(* Chains. *)

\* The page and the server look for the same root: the bundle of a document
\* that reaches it contains it.
LEMMA ChainsAgree ==
    ASSUME NEW d \in Documents
    PROVE  /\ ValidateChain(d) <=> Genuine(d)
           /\ \A allow \in BOOLEAN : Verify(d, allow) <=> Genuine(d) \/ allow
<1>1. /\ SelfSigned(NitroRoot) /\ ~SelfSigned(d.leaf) /\ RootsOf(d, d.at) # {}
      /\ ValidateChain(d) => NitroRoot \in Bundled(d)
  BY DocumentsAssumption
<1>2. Genuine(d) <=> NitroRoot \in Above(d.leaf, Bundled(d), d.at)
  BY <1>1 DEF Genuine, RootsOf
<1>3. Genuine(d) => NitroRoot \in Bundled(d)
  <2>1. Above(d.leaf, Bundled(d), d.at) \subseteq {d.leaf} \cup Bundled(d)
    BY DEF Above
  <2> QED BY <1>1, <1>2, <2>1
<1>4. NitroRoot \in Bundled(d) => Bundled(d) \cup {NitroRoot} = Bundled(d)
  OBVIOUS
<1>5. ValidateChain(d) <=> Genuine(d)
  BY <1>1, <1>2, <1>3, <1>4 DEF ValidateChain
<1> QED BY <1>1, <1>5 DEF Verify
-----------------------------------------------------------------------------
(* The post and the page. *)

\* The body that Post makes of a content, with the claims of the document.
Sub(c, sealed) ==
    [body |-> Marshal(c), hash |-> Marshal(c), userData |-> Marshal(sealed)]

Accepted(whole, c, sealed, d, allow) ==
    /\ whole /\ HashesAgree(Sub(c, sealed)) /\ Verify(d, allow)
    /\ Storable(RowOf(Decode(Marshal(c))))

Shown ==
    IF /\ ValidateChain(row.signer)
       /\ BrowserContent(Served) = row.userData
       /\ BrowserContent(Served) = row.hash
    THEN "verified" ELSE "failed"

\* The submission with these parts was posted, and stored if it was accepted; a
\* file cut short comes of a disturbed run.
PostedAs(whole, c, sealed, d, allow) ==
    /\ posted = Submission(whole, c, sealed, d, allow)
    /\ row = IF Accepted(whole, c, sealed, d, allow) THEN Stored(c, sealed, d) ELSE NoRow
    /\ ~whole => disturbed

\* Nothing was posted, or one submission; the page says what it computed.
SealInv ==
    /\ \/ posted = NoRow /\ row = NoRow
       \/ \E c, sealed \in Contents, d \in Documents, whole, allow \in BOOLEAN :
             PostedAs(whole, c, sealed, d, allow)
    /\ seen = "unread" \/ (row # NoRow /\ seen = Shown)

LEMMA ContentsAre == \A c \in Contents : IsContent(c)
BY ContentsAssumption DEF IsContent

\* The two hash checks of handleCreateVerdict pass exactly if the content is
\* the one that was sealed.
LEMMA HashesAgreeIf ==
    ASSUME NEW c \in Contents, NEW sealed \in Contents
    PROVE  HashesAgree(Sub(c, sealed)) <=> Same(c, sealed)
<1>1. IsContent(c) /\ IsContent(sealed) /\ IsContent(Decode(Marshal(c)))
      /\ Same(Decode(Marshal(c)), c)
  BY ContentsAre, DecodeIs
<1>2. Marshal(Decode(Marshal(c))) = Marshal(c)
  BY <1>1, MarshalAgrees
<1>3. Marshal(sealed) = Marshal(c) <=> Same(sealed, c)
  BY <1>1, MarshalAgrees
<1> QED BY <1>2, <1>3, SameIs DEF HashesAgree, Sub

\* A submission is stored if it is whole, its document seals its content, the
\* hardware's or a permitted mock's, and its columns are not NULL.
LEMMA AcceptedIf ==
    ASSUME NEW c \in Contents, NEW sealed \in Contents, NEW d \in Documents,
           NEW whole \in BOOLEAN, NEW allow \in BOOLEAN
    PROVE  Accepted(whole, c, sealed, d, allow) <=>
               /\ whole /\ Same(c, sealed) /\ (Genuine(d) \/ allow)
               /\ ~Empty(c.accounts_listed) /\ c.scanned_regions # Nil
BY ContentsAre, StorableIs, HashesAgreeIf, ChainsAgree DEF Accepted

\* What a browser makes of a stored report.
LEMMA ShownIs ==
    ASSUME NEW c \in Contents, NEW sealed \in Contents, NEW d \in Documents,
           Same(c, sealed), row = Stored(c, sealed, d)
    PROVE  /\ Same(Decode(Served), sealed)
           /\ Shown = "verified" <=>
                 /\ ~row.mock
                 /\ \A f \in Names : ~Empty(sealed[f]) =>
                       \A i \in DOMAIN sealed[f] : sealed[f][i] # "backspace"
<1> DEFINE read == Decode(Marshal(c))
           s == Selected(RowOf(read))
<1>1. /\ row.fields = RowOf(read) /\ row.signer = d /\ row.mock = ~Genuine(d)
      /\ row.userData = Marshal(sealed) /\ row.hash = Marshal(c)
  BY DEF Stored
<1>2. IsContent(c) /\ IsContent(sealed)
  BY ContentsAre
<1>3. IsContent(read) /\ Same(read, c)
  BY <1>2, DecodeIs
<1> HIDE DEF read
<1>4. IsContent(s) /\ Same(s, read)
  BY <1>3, SelectedIs
<1>5. Served = Marshal(s)
  BY <1>1 DEF Served
<1> HIDE DEF s
<1>6. Same(s, c) /\ Same(s, sealed)
  BY <1>3, <1>4, SameIs
<1>7. Same(Decode(Served), sealed)
  <2>1. Same(Decode(Marshal(s)), s)
    BY <1>4, DecodeIs
  <2> QED BY <1>5, <1>6, <2>1, SameIs
<1>8. Marshal(s) = Marshal(c) /\ Marshal(s) = Marshal(sealed)
  BY <1>2, <1>4, <1>6, MarshalAgrees
<1>9. Shown = "verified" <=> Genuine(d) /\ BrowserContent(Marshal(s)) = Marshal(s)
  <2>1. ValidateChain(d) <=> Genuine(d)
    BY ChainsAgree
  <2> QED BY <1>1, <1>5, <1>8, <2>1 DEF Shown
<1>10. BrowserContent(Marshal(s)) = Marshal(s) <=>
           \A f \in Names : ~Empty(s[f]) => \A i \in DOMAIN s[f] : s[f][i] # "backspace"
  BY <1>4, BrowserAgrees
<1>11. \A f \in Names : s[f] = sealed[f] \/ (Empty(s[f]) /\ Empty(sealed[f]))
  BY <1>6 DEF Same
<1> QED BY <1>1, <1>7, <1>9, <1>10, <1>11

\* What is posted is told from NoRow.
LEMMA PostedIs ==
    ASSUME NEW c \in Contents, NEW sealed \in Contents, NEW d \in Documents,
           NEW whole \in BOOLEAN, NEW allow \in BOOLEAN,
           PostedAs(whole, c, sealed, d, allow)
    PROVE  /\ posted # NoRow
           /\ posted.whole = whole /\ posted.content = c /\ posted.sealed = sealed
           /\ posted.signer = d /\ posted.allow = allow
           /\ row # NoRow <=> Accepted(whole, c, sealed, d, allow)
           /\ row # NoRow => row = Stored(c, sealed, d)
BY NoRowAssumption DEF PostedAs, Submission

LEMMA InitSeal == ReportInit => SealInv
BY DEF ReportInit, SealInv

\* What the report properties say, of any state with the invariant.
LEMMA SealIs ==
    ASSUME SealInv, RunTypeOK
    PROVE  ReportTypeOK /\ StoredIffSealed /\ ReadAsSealed
<1>1. CASE posted = NoRow /\ row = NoRow
  BY <1>1 DEF SealInv, ReportTypeOK, StoredIffSealed, ReadAsSealed
<1>2. CASE \E c, sealed \in Contents, d \in Documents, whole, allow \in BOOLEAN :
              PostedAs(whole, c, sealed, d, allow)
  <2>1. PICK c \in Contents, sealed \in Contents, d \in Documents,
             whole \in BOOLEAN, allow \in BOOLEAN :
            PostedAs(whole, c, sealed, d, allow)
    BY <1>2
  <2>2. /\ posted # NoRow
        /\ posted.whole = whole /\ posted.content = c /\ posted.sealed = sealed
        /\ posted.signer = d /\ posted.allow = allow
        /\ row # NoRow <=> Accepted(whole, c, sealed, d, allow)
        /\ row # NoRow => row = Stored(c, sealed, d)
    BY <2>1, PostedIs
  <2>3. Accepted(whole, c, sealed, d, allow) <=>
            /\ whole /\ Same(c, sealed) /\ (Genuine(d) \/ allow)
            /\ ~Empty(c.accounts_listed) /\ c.scanned_regions # Nil
    BY AcceptedIf
  <2>4. ~whole => disturbed
    BY <2>1 DEF PostedAs
  <2>5. StoredIffSealed
    BY <2>2, <2>3, <2>4 DEF StoredIffSealed
  <2>6. ASSUME row # NoRow
        PROVE  /\ Same(Decode(Served), sealed)
               /\ Shown = "verified" <=>
                     /\ ~row.mock
                     /\ \A f \in Names : ~Empty(sealed[f]) =>
                           \A i \in DOMAIN sealed[f] : sealed[f][i] # "backspace"
    <3>1. Same(c, sealed) /\ row = Stored(c, sealed, d)
      BY <2>2, <2>3, <2>6
    <3> QED BY <3>1, ShownIs
  <2>7. seen = "unread" \/ (row # NoRow /\ seen = Shown)
    BY DEF SealInv
  <2>8. ReadAsSealed
    BY <2>2, <2>6, <2>7 DEF ReadAsSealed
  <2>9. ReportTypeOK
    <3>1. row # NoRow => DOMAIN row.fields = Names
      BY <2>2 DEF Stored, RowOf
    <3>2. seen \in {"unread", "verified", "failed"}
      BY <2>7 DEF Shown
    <3> QED BY <2>2, <3>1, <3>2 DEF ReportTypeOK
  <2> QED BY <2>5, <2>8, <2>9
<1> QED BY <1>1, <1>2 DEF SealInv

\* A run that was disturbed stays so.
LEMMA DisturbedStays == [RunNext]_runVars /\ disturbed => disturbed'
<1> SUFFICES ASSUME [RunNext]_runVars, disturbed PROVE disturbed'
  OBVIOUS
<1>1. CASE EnclaveStep
  BY <1>1 DEF EnclaveStep, ConnectToParent, ReadCredentials, Delivering, ScanCompletes,
              ScanFails, Dial, Write, WriteFails, SendReport, Retry, vars
<1>2. CASE ServerStep
  BY <1>2 DEF ServerStep, ServerListens, AcceptScanner, ServeCredentials, vars
<1>3. CASE Collector
  BY <1>3 DEF Collector, Listen, Accept, Recv, EndOfFile, RecvRaises, WriteReport,
              StopReceiving
<1>4. CASE ScriptStep
  BY <1>4 DEF ScriptStep, StartHelpers, LaunchEnclave, RecordEnclaveId,
              WaitForCollector, Exit
<1>5. CASE Fault
  BY <1>5 DEF Fault, ScanFails, ReadReset, FetchFails, EnclaveDies, WriteReportRaises,
              LaunchFails, CtrlC, Terminate, Reset, vars
<1>6. CASE Done \/ UNCHANGED runVars
  BY <1>6 DEF Done, runVars, vars
<1> QED BY <1>1, <1>2, <1>3, <1>4, <1>5, <1>6 DEF RunNext

LEMMA NextSeal ==
    ASSUME SealInv, TypeOK, TruncatedOnlyByReset, [ReportNext]_reportVars
    PROVE  SealInv'
<1>1. ASSUME [RunNext]_runVars, UNCHANGED sealVars PROVE SealInv'
  <2>1. UNCHANGED <<posted, row, seen>> /\ (disturbed => disturbed')
    BY <1>1, DisturbedStays DEF sealVars
  <2>2. ASSUME NEW c \in Contents, NEW sealed \in Contents, NEW d \in Documents,
               NEW whole \in BOOLEAN, NEW allow \in BOOLEAN,
               PostedAs(whole, c, sealed, d, allow)
        PROVE  PostedAs(whole, c, sealed, d, allow)'
    BY <2>1, <2>2 DEF PostedAs
  <2>3. Shown' = Shown
    BY <2>1 DEF Shown, Served
  <2> QED BY <2>1, <2>2, <2>3 DEF SealInv
<1>2. ASSUME Post PROVE SealInv'
  <2>1. posted = NoRow /\ UNCHANGED <<vars, seen>>
    BY <1>2 DEF Post, runVars
  <2>2. row = NoRow /\ seen = "unread"
    BY <2>1, PostedIs DEF SealInv
  <2>3. PICK c \in Contents, sealed \in Contents, d \in Documents, allow \in BOOLEAN :
            LET local == ~Genuine(d)
                whole == local \/ saved = Size
                sub   == [body |-> Marshal(c), hash |-> Marshal(c),
                          userData |-> Marshal(sealed)]
            IN  /\ local <=> saved = NoFile
                /\ posted' = Submission(whole, c, sealed, d, allow)
                /\ row' = IF /\ whole /\ HashesAgree(sub) /\ Verify(d, allow)
                             /\ Storable(RowOf(Decode(sub.body)))
                          THEN Stored(c, sealed, d) ELSE NoRow
    BY <1>2 DEF Post
  <2>4. PICK whole \in BOOLEAN : whole = (~Genuine(d) \/ saved = Size)
    OBVIOUS
  <2>5. ~whole => disturbed'
    <3>1. ~whole => saved # NoFile /\ saved # Size
      BY <2>3, <2>4
    <3>2. saved \in 0 .. Size \cup {NoFile} /\ Size \in Nat
      BY SizesAssumption DEF TypeOK
    <3> QED BY <2>1, <3>1, <3>2 DEF TruncatedOnlyByReset, vars
  <2>6. PostedAs(whole, c, sealed, d, allow)'
    BY <2>3, <2>4, <2>5 DEF PostedAs, Accepted, Sub
  <2> QED BY <2>1, <2>2, <2>6 DEF SealInv
<1>3. ASSUME Read PROVE SealInv'
  <2>1. UNCHANGED <<vars, posted, row>> /\ row # NoRow /\ seen' = Shown
    BY <1>3 DEF Read, Shown, runVars
  <2>2. Shown' = Shown
    BY <2>1 DEF Shown, Served
  <2>3. ASSUME NEW c \in Contents, NEW sealed \in Contents, NEW d \in Documents,
               NEW whole \in BOOLEAN, NEW allow \in BOOLEAN,
               PostedAs(whole, c, sealed, d, allow)
        PROVE  PostedAs(whole, c, sealed, d, allow)'
    BY <2>1, <2>3 DEF PostedAs, vars
  <2> QED BY <2>1, <2>2, <2>3 DEF SealInv
<1> QED BY <1>1, <1>2, <1>3 DEF ReportNext, reportVars
-----------------------------------------------------------------------------
\* A run with the post and the page behind it is a run of the script: what is
\* proved of the one holds of the other.
THEOREM ReportExtendsRun == ReportSpec => RunSpec
<1>1. ReportInit => RunInit
  BY DEF ReportInit
<1>2. [ReportNext]_reportVars => [RunNext]_runVars
  BY DEF ReportNext, Post, Read, reportVars
<1> QED BY <1>1, <1>2, PTL DEF ReportSpec, RunSpec

LEMMA ReportIsSealed == ReportSpec => [](SealInv /\ RunTypeOK)
<1>1. ReportSpec => [](TypeOK /\ TruncatedOnlyByReset /\ RunTypeOK)
  BY ReportExtendsRun, RunTypeCorrect, RunTruncatesByReset, RunImplementsDelivery,
     TypeCorrect, PTL
<1>2. SealInv /\ TypeOK /\ TruncatedOnlyByReset /\ [ReportNext]_reportVars => SealInv'
  BY NextSeal
<1> QED BY <1>1, <1>2, InitSeal, PTL DEF ReportSpec

\* The run, the submission, the stored row and what the page says keep their
\* types: only what was posted is stored, with a column for every field.
THEOREM ReportIsTyped == ReportSpec => []ReportTypeOK
<1>1. SealInv /\ RunTypeOK => ReportTypeOK
  BY SealIs
<1> QED BY <1>1, ReportIsSealed, PTL

\* Whatever the contents, the documents and the size of the report:
\* handleCreateVerdict stores what arrives whole under a document that seals
\* that content, of the hardware or a permitted mock, its enumerations present;
\* and nothing else.
THEOREM OnlySealedIsStored == ReportSpec => []StoredIffSealed
<1>1. SealInv /\ RunTypeOK => StoredIffSealed
  BY SealIs
<1> QED BY <1>1, ReportIsSealed, PTL

\* Whatever the contents: what Go encoded, Postgres kept and TypeScript encodes
\* again reads as it was sealed, and hashes to it if it is the hardware's and
\* has no backspace.
THEOREM SealedIsRead == ReportSpec => []ReadAsSealed
<1>1. SealInv /\ RunTypeOK => ReadAsSealed
  BY SealIs
<1> QED BY <1>1, ReportIsSealed, PTL
=============================================================================
