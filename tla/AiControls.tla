----------------------------- MODULE AiControls -----------------------------
(***************************************************************************)
(* The AI checks of internal/checks: bedrock_ai.go, ai_agent_security.go   *)
(* and sagemaker_ai.go, as records of Controls.                            *)
(***************************************************************************)
EXTENDS Controls

\* An inventory whose items are named, then asked about with calls that end in
\* one answer.
Inventory(calls, Judge(_)) ==
    NotInUseIfEmpty(Regional("every", <<Named>> \o calls,
        LAMBDA said : IF Len(said) <= Len(calls) THEN "more" ELSE Judge(said)))

\* DescribeEndpoint, then the configuration that it names.
scanSageMakerEndpoints(answers, good) ==
    Inventory(<<Named, answers>>, LAMBDA said : GoodIf(said[3] = good))

sagemakerEndpointEncryption == scanSageMakerEndpoints({"key", "none"}, "key")
sagemakerEndpointNetwork == scanSageMakerEndpoints({"subnets", "none"}, "subnets")

scanSageMakerNotebooks(answers, good) ==
    Inventory(<<answers>>, LAMBDA said : GoodIf(said[2] = good))

sagemakerNotebookInternet ==
    scanSageMakerNotebooks({"Enabled", "Disabled"}, "Disabled")
sagemakerNotebookEncryption == scanSageMakerNotebooks({"key", "none"}, "key")

\* Models, training jobs, processing jobs and domains, as one list.
sagemakerNetworkIsolation ==
    Inventory(<<{"isolated", "open"}>>, LAMBDA said : GoodIf(said[2] = "isolated"))
-----------------------------------------------------------------------------
\* A policy statement that grants one action on some resource.
broadPolicyStatements(action, resource) ==
    CASE action \in {"*", "s3:*"} -> "BROAD PRIVILEGE"
      [] action = "s3:getobject" /\ resource = "*" -> "BROAD RESOURCE SCOPE"
      [] action = "s3:getobject" /\ resource # "*" -> "SCOPED"
      [] OTHER -> "irrelevant"

\* The role of an agent or of a knowledge base grants one statement here.
Grant ==
    [admin   |-> [action |-> "*", resource |-> "*"],
     allS3   |-> [action |-> "s3:*", resource |-> "one"],
     scoped  |-> [action |-> "s3:getobject", resource |-> "one"]]

IsBroad(grant) ==
    broadPolicyStatements(Grant[grant].action, Grant[grant].resource)
        \in {"BROAD PRIVILEGE", "BROAD RESOURCE SCOPE"}

\* GetAgent, the policies of its role, its action groups.
bedrockAgentPermissions ==
    Inventory(<<{"guarded", "unguarded"}, {"allS3", "scoped"}, Named>>,
              LAMBDA said : GoodIf(said[2] = "guarded" /\ ~IsBroad(said[3])))

\* Of the permissions of the role only those that mention "s3:" are kept: a
\* grant of every action does not.  Then the buckets of its data sources.
bedrockKnowledgeBaseExposure ==
    Inventory(<<Named, {"admin", "allS3"}, {"protected", "exposed"}>>,
              LAMBDA said : GoodIf(/\ ~(IsBroad(said[3]) /\ Grant[said[3]].action # "*")
                                   /\ said[4] = "protected"))

\* The roles of the account; a statement that allows inference is counted.
bedrockGuardrailEnforcement ==
    NotInUseIfEmpty(Check("account", "every", "drop",
        <<Named, {"no_inference", "condition", "unconditional"}>>,
        LAMBDA said : IF Len(said) = 1 THEN "more"
                      ELSE IF said[2] = "no_inference" THEN "skip"
                      ELSE GoodIf(said[2] = "condition")))
-----------------------------------------------------------------------------
\* The configuration of a region, then its buckets and its log group.
bedrockInvocationLogging ==
    Regional("one", <<{"disabled", "undelivered", "delivered"}, {"protected", "exposed"}>>,
             LAMBDA said : IF said[1] # "delivered" THEN "bad"
                           ELSE IF Len(said) = 1 THEN "more"
                           ELSE GoodIf(said[2] = "protected"))

\* Without guardrails the region's logging tells whether Bedrock is in use.
bedrockGuardrails ==
    [Regional("every", <<{"READY", "CREATING"}>>,
              LAMBDA said : GoodIf(said[1] = "READY")) EXCEPT !.empty = "probe"]

hasAccountSpecificThirdPartyAgreement(provider, agreement) ==
    provider # "Amazon" /\ agreement = "AVAILABLE"

\* The catalogue names a provider, the next call the account's agreement.
bedrockModelAccess ==
    NotInUseIfEmpty(Regional("whole",
        <<{"Amazon", "other"}, {"AVAILABLE", "NOT_AVAILABLE"}>>,
        LAMBDA said : IF Len(said) = 1 THEN "more"
                      ELSE IF hasAccountSpecificThirdPartyAgreement(said[1], said[2])
                      THEN "good" ELSE "skip"))

\* A region whose Bedrock has no such operation is clean.
bedrockCustomizationJobs ==
    [Inventory(<<Named>>, LAMBDA said : "good") EXCEPT !.gaps = TRUE]
=============================================================================
