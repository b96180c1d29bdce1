-------------------------- MODULE MCVerdictLedger --------------------------
(* A small world for VerdictLedger: management account m1 whose             *)
(* organization also holds x1, and an unrelated account m2.                 *)
EXTENDS VerdictLedger, TLC

CONSTANTS m1, x1, m2, r1, r2, r3

MCAccounts == {m1, x1, m2}
MCScanIds == {"s1", "s2", "unknown"}

Rep(a, s, t, listed, scanned) ==
    [account |-> a, scan |-> s, at |-> t, listed |-> listed, scanned |-> scanned]

Early   == Rep(m1, "s1", 1, {m1, x1}, {m1})           \* x1 not reached
Late    == Rep(m1, "s2", 2, {m1, x1}, {m1, x1})
Alone   == Rep(m1, "unknown", 2, {m1}, {m1})          \* ties with Late
Other   == Rep(m2, "unknown", 1, {m2}, {m2})          \* same scan id as Alone
Unknown == Rep(m2, "s2", 2, {}, {m2})                 \* organization not enumerated

MCReports == {Early, Late, Alone, Other, Unknown}
OrderedReports == {Early, Late}
Symmetric == Permutations({r1, r2, r3})
=============================================================================
