---------------------------- MODULE MCBuyerPage ----------------------------
(* Two small worlds.  For a client of the API: account m1, whose             *)
(* organization also holds x1, with three scans, and an unrelated account m2 *)
(* with one.  For a page: three scans of m1, the last two with one time, of   *)
(* which the first two tell one of six stories, and the one of m2.           *)
EXTENDS BuyerPage

CONSTANTS m1, x1, m2, t1, t2

MCAccounts == {m1, x1, m2}
Tokens2 == {t1, t2}

Rep(a, s, t, included, results) ==
    [account |-> a, scan |-> s, at |-> t, listed |-> {a}, scanned |-> {a},
     included |-> included, results |-> results, summary |-> "fail",
     sealed |-> t, nitro |-> TRUE, released |-> TRUE, org |-> "none",
     found |-> << >>]

First   == Rep(m1, "s1", 1, TRUE, << >>)          \* no per-account results
Without == Rep(m1, "s2", 2, FALSE, << >>)         \* a scanner without the control
Both    == Rep(m1, "s3", 2, TRUE, [x \in {m1, x1} |-> "fail"])
Other   == Rep(m2, "s5", 1, TRUE, [x \in {m2} |-> "pass"])

ApiReports == {First, Without, Both, Other}
-----------------------------------------------------------------------------
Res(status, findings) == [status |-> status, findings |-> findings]
Ok == Res("pass", {})
F1 == Res("fail", {"f1"})
F2 == Res("fail", {"f2"})
F12 == Res("fail", {"f1", "f2"})
Lost == Res("error", {"account scan failed"})

Scan(s, t, org, listed, scanned, result) ==
    [Rep(m1, s, t, TRUE, [x \in DOMAIN result |-> result[x].status])
        EXCEPT !.org = org, !.listed = listed, !.scanned = scanned,
               !.found = [x \in DOMAIN result |-> result[x].findings]]

Two(s, t, m, x) ==
    Scan(s, t, "verified", {m1, x1}, IF x = Lost THEN {m1} ELSE {m1, x1},
         [a \in {m1, x1} |-> IF a = m1 THEN m ELSE x])
One(s, t, org, listed, m) == Scan(s, t, org, listed, {m1}, [a \in {m1} |-> m])
Old(s, t) == [Rep(m1, s, t, TRUE, << >>) EXCEPT
                 !.listed = {}, !.scanned = {}, !.org = "unverified",
                 !.found = [a \in {m1} |-> {"f1"}]]

\* Six transitions: findings that come and go; access to x1 lost; x1 found
\* but not entered; a report from before organizations were enumerated; a
\* scanner without the control; an organization that cannot be listed any more.
Stories == {
    <<Two("s1", 1, F1, Ok), Two("s2", 2, F12, F2)>>,
    <<Two("s1", 1, F12, F2), Two("s2", 2, F1, Lost)>>,
    <<One("s1", 1, "none", {m1}, Ok), Two("s2", 2, Ok, Lost)>>,
    <<Old("s1", 1), Two("s2", 2, Ok, Lost)>>,
    <<Two("s1", 1, Ok, Lost), Rep(m1, "s2", 2, FALSE, << >>)>>,
    <<Two("s1", 1, F2, Ok), One("s2", 2, "unverified", {}, F1)>>}
Third == [Two("s3", 2, Ok, Ok) EXCEPT !.sealed = 3]
PageReports == UNION {{story[1], story[2]} : story \in Stories} \cup {Third, Other}

MCReports == ApiReports \cup PageReports
MCLimits == {-1, 2, 3, 9}
MCTimes == 2 .. 3

\* The world for a client of the API and the one for a page of m1, apart.
\* Tokens are interchangeable: m1 gets the first; m2 reports first.
Worlds ==
    LET known == {e.report : e \in accepted}
    IN  /\ token[m1] # t2 /\ token[m2] # t1 /\ page.token = t1
        /\ IF opens = 0 /\ page.phase = "closed"
           THEN /\ now = 2 /\ known \subseteq ApiReports
                /\ known # {} => Other \in known
           ELSE /\ t2 \notin revoked
                /\ page.phase = "closed" => pc = "idle" /\ now = 2
                /\ page.phase # "closed" => Other \in known
                /\ \E story \in Stories :
                      known \subseteq {story[1], story[2], Third, Other}
=============================================================================
