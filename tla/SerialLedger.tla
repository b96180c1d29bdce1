---------------------------- MODULE SerialLedger ----------------------------
(***************************************************************************)
(* What the evidence ledger of internal/store promises: verified reports   *)
(* are accepted one at a time.  Every account has one share token for ever,*)
(* a scan is accepted at most once, the account a scan's inventory lists   *)
(* keeps the time of the first accepted report that listed it, and scope   *)
(* drift is judged against a latest-attested report accepted before.       *)
(* VerdictLedger, where requests interleave statement by statement and     *)
(* fail half way, is shown to implement it.                                *)
(***************************************************************************)
EXTENDS Naturals

CONSTANTS
    Accounts,   \* AWS account ids
    Reports,    \* verified reports: [account, scan, at, listed, scanned]
    Tokens,     \* share tokens
    NoToken,    \* the account has no share link
    NoTime,     \* the account has never been listed
    NoReport    \* there was no earlier report

VARIABLES
    token,      \* Accounts -> Tokens \cup {NoToken}
    accepted,   \* set of [report, baseline]
    firstSeen,  \* management account -> listed account -> time or NoTime
    revoked     \* the tokens whose link was killed

vars == <<token, accepted, firstSeen, revoked>>

Init ==
    /\ token = [a \in Accounts |-> NoToken]
    /\ accepted = {}
    /\ firstSeen = [a \in Accounts |-> [x \in Accounts |-> NoTime]]
    /\ revoked = {}

\* The reports a new report of account a may be compared with.
Baselines(a) ==
    LET prior == {e.report : e \in {f \in accepted : f.report.account = a}}
    IN  IF prior = {} THEN {NoReport}
        ELSE {rep \in prior : \A other \in prior : other.at <= rep.at}

Accept(rep) ==
    /\ \A e \in accepted : e.report.scan # rep.scan
    /\ \E b \in Baselines(rep.account) :
           accepted' = accepted \cup {[report |-> rep, baseline |-> b]}
    /\ \/ /\ token[rep.account] # NoToken
          /\ UNCHANGED token
       \/ /\ token[rep.account] = NoToken
          /\ \E t \in Tokens : /\ \A a \in Accounts : token[a] # t
                               /\ token' = [token EXCEPT ![rep.account] = t]
    /\ firstSeen' = [firstSeen EXCEPT ![rep.account] =
           [x \in Accounts |->
               IF x \in rep.listed /\ @[x] = NoTime THEN rep.at ELSE @[x]]]
    /\ UNCHANGED revoked

Revoke(a) ==
    /\ token[a] # NoToken
    /\ revoked' = revoked \cup {token[a]}
    /\ UNCHANGED <<token, accepted, firstSeen>>

Next == (\E rep \in Reports : Accept(rep)) \/ (\E a \in Accounts : Revoke(a))

Spec == Init /\ [][Next]_vars
=============================================================================
