---------------------------- MODULE MCCheckRuns ----------------------------
(***************************************************************************)
(* Every check over an account of at most three items, two in the first    *)
(* region and one in the second, on pages of one.                          *)
(***************************************************************************)
EXTENDS CheckRuns, AiControls, CloudControls

CONSTANT m   \* the management account

AwsChecks ==
    {ebsEncryption, ebsSnapshotEncryption, ebsDefaultEncryption, ec2OpenSG,
     rdsEncryption, rdsDeletionProtection, rdsPubliclyAccessible,
     rdsBackupRetention, rdsPublicSnapshots, rdsTLSEnforcement,
     guardDutyEnabled, kmsKeyRotation, iamKeyAge, iamPasswordPolicy,
     iamRootMFA, cloudTrailLogValidation, cloudTrailLogEncryption,
     cloudtrailMultiregion, s3Public, s3Versioning, s3Encryption,
     sagemakerEndpointEncryption, sagemakerEndpointNetwork,
     sagemakerNotebookInternet, sagemakerNotebookEncryption,
     sagemakerNetworkIsolation, bedrockAgentPermissions,
     bedrockKnowledgeBaseExposure, bedrockGuardrailEnforcement,
     bedrockInvocationLogging, bedrockGuardrails, bedrockModelAccess,
     bedrockCustomizationJobs}

CloudChecks ==
    {storagePublic, storageUniformAccess, serviceAccountKeyAge,
     primitiveRoles, openFirewalls, publicIPs, sqlPublicIP, sqlSSL, sqlBackup,
     kmsRotation, auditConfig, storagePublicContainers, storageHttpsOnly,
     storageMinTls, nsg, sqlPublicAccess, sqlTde, vault, activity, disks,
     identity, globalAdmins, ssl, network, auth, advisor, rls}

MCChecks == AwsChecks \cup CloudChecks

MCRegions == {1, 2}
MCItems == {1, 2, 3}
MCHome == 1 :> 1 @@ 2 :> 1 @@ 3 :> 2
=============================================================================
