--------------------------- MODULE MCSealedReport ---------------------------
(* Contents that differ in every way a field can be written, and documents   *)
(* of the hardware, with the bundle in two orders, and of a mock.            *)
EXTENDS SealedReport, TLC

Base == [account_id |-> <<"plain">>, regions_warning |-> << >>,
         accounts_listed |-> <<"plain">>, projects_listed |-> Nil,
         scanned_regions |-> <<"plain">>, findings |-> Nil, evidence |-> Nil]

MCContents == {
    Base,
    [Base EXCEPT !.accounts_listed = Nil, !.regions_warning = <<"markup">>],
    [Base EXCEPT !.scanned_regions = << >>, !.regions_warning = <<"quote">>],
    [Base EXCEPT !.findings = << >>, !.projects_listed = << >>],
    [Base EXCEPT !.findings = <<"quote", "markup">>, !.evidence = <<"markup">>,
                 !.projects_listed = <<"plain">>],
    [Base EXCEPT !.findings = <<"backspace">>, !.evidence = << >>]}

Cert(name, issuer, until) ==
    [name |-> name, issuer |-> issuer, from |-> 1, until |-> until]

MCNitroRoot == Cert("root", "root", 9)
Regional == Cert("regional", "root", 5)
Zonal    == Cert("zonal", "regional", 4)
MockRoot == Cert("mock", "mock", 4)

MCDocuments == {
    [leaf |-> Cert("leaf", "zonal", 3), at |-> 2,
     bundle |-> <<MCNitroRoot, Regional, Zonal>>],
    [leaf |-> Cert("leaf", "zonal", 3), at |-> 2,
     bundle |-> <<Zonal, MCNitroRoot, Regional>>],
    [leaf |-> Cert("leaf", "mock", 4), at |-> 2, bundle |-> <<MockRoot>>]}
=============================================================================
