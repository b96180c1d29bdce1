---------------------------- MODULE MCOnboarding ----------------------------
(* Four accounts, or three projects; two folders; pages of one entry.       *)
EXTENDS OnboardingStatus

CONSTANTS t1, t2

MCUnits == 1..4
MCFolders == 11..12
=============================================================================
