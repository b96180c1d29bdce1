---------------------------- MODULE MCScanScope ----------------------------
(* A small world for ScanScope: a management account with one member, two    *)
(* AWS checks, a GCP organization of two projects and a Supabase one of one. *)
EXTENDS ScanScope, TLC

CONSTANTS m1, x1, gcp, supabase, p1, p2, q1

MCAccounts == {m1, x1}
MCProviders == {gcp, supabase}
MCUnits == (gcp :> {p1, p2}) @@ (supabase :> {q1})
MCChecksOf == (gcp :> {"gcp.storage", "gcp.sql"}) @@ (supabase :> {"supabase.rls"})
=============================================================================
