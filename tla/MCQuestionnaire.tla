-------------------------- MODULE MCQuestionnaire --------------------------
(* The world of MCScanScope, with two checks mapped to one control id, a     *)
(* third that shares it from another provider and a fourth disabled for the  *)
(* account; and one table with a row for each way a question can be matched, *)
(* one with more cells than headers, one whose title looks like a header,    *)
(* and one that is no questionnaire.                                         *)
EXTENDS MCScanScope, Questionnaire

Map(caiq, ids, groups, absence) ==
    [caiq |-> caiq, ids |-> caiq \cup ids, groups |-> groups, absence |-> absence]

MCMappings ==
    ("aws.s3" :> Map({"CEK-03", "DSP-17"}, {"CC6.1"}, {{"encrypted"}, {"bucket", "public"}}, TRUE))
    @@ ("aws.iam" :> Map({"CEK-03"}, {"CC6.3"}, {{"encrypted"}, {"root", "mfa"}}, FALSE))
    @@ ("gcp.storage" :> Map({"DSP-10"}, {"CC6.1"}, {{"bucket"}, {"root"}}, FALSE))
    @@ ("gcp.sql" :> Map({"EKM-03"}, {}, {{"mfa"}}, FALSE))
MCOverrides ==
    ("gcp.sql" :> Disabled)
    @@ ("gcp.storage" :> Map({"DSP-10"}, {"CC6.1"}, {{"bucket"}, {"root"}, {"encrypted", "gcp"}}, FALSE))
MCTopicOrder == <<"governance", "policy">>
MCPhrases == ("governance" :> {"board"}) @@ ("policy" :> {"policy"})

Q(control, phrases) == [control |-> control, phrases |-> phrases, instruction |-> FALSE]
Questions == <<
    Q("DSP-17", {"bucket"}), Q("CC6.1", {}), Q("CEK-03", {"policy", "configured"}),
    Q("CEK-03", {"policy"}), Q("CEK-03", {"policy", "configured", "board"}),
    Q(NoId, {"encrypted"}), Q("XYZ", {"root", "mfa"}), Q("XYZ", {"bucket", "root"}),
    Q("EKM-03", {"remote", "mfa"}), Q(NoId, {"policy", "configured", "encrypted"}),
    [Q(NoId, {"encrypted"}) EXCEPT !.instruction = TRUE], Q(NoId, {}),
    Q("CC6.3", {})>>

Typed == [typed |-> TRUE, ours |-> None]
Row(q, cells) == [kinds |-> <<"other">>, question |-> q, cells |-> cells]
Header(kinds) == [kinds |-> kinds, question |-> Q(NoId, {}),
                  cells |-> [i \in DOMAIN kinds |-> Typed]]

Full == <<Header(<<"control", "question", "answer", "evidence", "status">>)>>
        \o [i \in DOMAIN Questions |->
               Row(Questions[i], <<Typed, Typed>>)]
        \o <<Row(Questions[1], <<Typed, Typed, Typed, Typed, Typed>>),
             Row(Questions[6], <<Blank, Typed, Blank, Typed>>)>>
Ragged == <<[Header(<<"question">>) EXCEPT !.kinds = <<"question", "other">>],
            Header(<<"control", "question">>),
            Row(Questions[1], <<Typed, Typed, Blank, Typed, Typed, Typed>>),
            Row(Questions[2], <<Typed, Typed, Typed>>)>>
NoTable == <<Header(<<"other">>), Header(<<"question">>)>>

MCSheets == {Full, Ragged, NoTable}
=============================================================================
