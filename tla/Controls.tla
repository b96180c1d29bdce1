------------------------------ MODULE Controls ------------------------------
(***************************************************************************)
(* The checks of internal/checks, internal/gcp, internal/azure and         *)
(* internal/supabase, each as a record of how it goes about its work:      *)
(*   units    one pass per AWS region, or one for the account              *)
(*   pages    how its list is read: every page, the first page only, whole *)
(*            (one answer has everything), or one (a setting: no list)     *)
(*   onError  what a failing call ends: the region (unit), the run without *)
(*            or with the findings so far (drop, keep), or the item (item) *)
(*   empty    what an empty list means: nothing, a finding, not_in_use, or *)
(*            a further question (probe)                                   *)
(*   passes   with no finding, or with one item that is good               *)
(*   gaps     whether a region without the service counts as clean         *)
(*   unread   what a setting that cannot be read is: silent, or a finding  *)
(*   replies  what the list, then each call about an item, can say of it   *)
(*   judge    the replies so far -> more (ask on), good, bad, skip (not    *)
(*            counted), odd (an error)                                     *)
(*   early    the replies that are a finding before the check asks on      *)
(* A finding is the item it names.  Several ways for one item to be bad,   *)
(* or several parts of it, are one bad reply.                              *)
(***************************************************************************)
EXTENDS Integers, Sequences, TLC

\* Every sequence of answers that a check can have about one item.
Conversations(replies) ==
    LET upTo[n \in 0..Len(replies)] ==
            IF n = 0 THEN {<< >>}
            ELSE {Append(c, r) : c \in upTo[n - 1], r \in replies[n]}
    IN  UNION {upTo[n] : n \in 1..Len(replies)}

Check(units, pages, onError, replies, Judge(_)) ==
    [units |-> units, pages |-> pages, onError |-> onError,
     empty |-> "nothing", passes |-> "no_finding", gaps |-> FALSE,
     unread |-> "silent", early |-> {},
     replies |-> replies,
     judge |-> [said \in Conversations(replies) |-> Judge(said)]]

\* The checks built on RunAcrossRegions.
Regional(pages, replies, Judge(_)) ==
    Check("regions", pages, "unit", replies, Judge)

NotInUseIfEmpty(check) == [check EXCEPT !.empty = "not_in_use"]

Named == {"named"}   \* an answer that only identifies the item
OptionalBool == {"nil", "false", "true"}
GoodIf(fine) == IF fine THEN "good" ELSE "bad"
-----------------------------------------------------------------------------
(* EC2 and EBS *)

ebsEncryption ==
    Regional("every", <<OptionalBool>>, LAMBDA said : GoodIf(said[1] = "true"))

ebsSnapshotEncryption ==
    Regional("every", <<OptionalBool>>, LAMBDA said : GoodIf(said[1] = "true"))

ebsDefaultEncryption ==
    Regional("one", <<OptionalBool>>, LAMBDA said : GoodIf(said[1] = "true"))

\* Permissions of a security group: a port range (-1: absent) and a source.
Permission ==
    [ssh   |-> [from |-> 22, to |-> 22, cidr |-> "0.0.0.0/0"],
     https |-> [from |-> 443, to |-> 443, cidr |-> "0.0.0.0/0"],
     all   |-> [from |-> -1, to |-> -1, cidr |-> "::/0"],
     inner |-> [from |-> 20, to |-> 25, cidr |-> "10.0.0.0/8"]]

sensitivePorts == {22, 3389, 3306, 5432, 27017}

permissionCoversPort(perm, port) ==
    \/ perm.from = -1 /\ perm.to = -1
    \/ perm.from <= port /\ port <= perm.to

openToInternet(perm) == perm.cidr \in {"0.0.0.0/0", "::/0"}

\* The groups here have one permission.
ec2OpenSG ==
    Regional("every", <<DOMAIN Permission>>,
             LAMBDA said : GoodIf(\A port \in sensitivePorts :
                 ~ (/\ permissionCoversPort(Permission[said[1]], port)
                    /\ openToInternet(Permission[said[1]]))))
-----------------------------------------------------------------------------
(* RDS *)

rdsEncryption ==
    Regional("every", <<OptionalBool>>, LAMBDA said : GoodIf(said[1] = "true"))

rdsDeletionProtection ==
    Regional("every", <<OptionalBool>>, LAMBDA said : GoodIf(said[1] = "true"))

\* Unlike the others, a missing value is good.
rdsPubliclyAccessible ==
    Regional("every", <<OptionalBool>>, LAMBDA said : GoodIf(said[1] # "true"))

minBackupRetentionDays == 7
RetentionDays == [absent |-> 0, short |-> 6, week |-> 7]

rdsBackupRetention ==
    Regional("every", <<DOMAIN RetentionDays>>,
             LAMBDA said : GoodIf(RetentionDays[said[1]] >= minBackupRetentionDays))

\* The restore attribute: every account, some accounts, or not set.
rdsPublicSnapshots ==
    Regional("every", <<Named, {"all", "accounts", "unset"}>>,
             LAMBDA said : IF Len(said) = 1 THEN "more"
                           ELSE GoodIf(said[2] # "all"))

boolParameterIsOff(value) == value \in {"0", "off", "false"}
boolParameterIsOn(value) == value \in {"1", "on", "true"}

\* Parameter groups, then cluster parameter groups, as one list.
rdsTLSEnforcement ==
    Regional("every", <<{"mysql", "oracle"}, {"0", "on", "maybe"}>>,
             LAMBDA said :
                 CASE said[1] = "oracle" -> "skip"
                   [] said[1] # "oracle" /\ Len(said) = 1 -> "more"
                   [] OTHER -> IF boolParameterIsOff(said[2]) THEN "bad"
                               ELSE IF boolParameterIsOn(said[2]) THEN "good"
                               ELSE "odd")
-----------------------------------------------------------------------------
(* GuardDuty, KMS, IAM, CloudTrail *)

\* At most one detector exists in a region.
guardDutyEnabled ==
    [Regional("whole", <<Named, {"ENABLED", "DISABLED"}>>,
              LAMBDA said : IF Len(said) = 1 THEN "more"
                            ELSE GoodIf(said[2] = "ENABLED"))
        EXCEPT !.empty = "finding"]

kmsKeyRotation ==
    Regional("every", <<Named, {"customer", "other"}, {"rotates", "stays"}>>,
             LAMBDA said :
                 CASE Len(said) = 1 -> "more"
                   [] Len(said) = 2 -> IF said[2] = "other" THEN "skip" ELSE "more"
                   [] OTHER -> IF said[2] = "other" THEN "skip"
                               ELSE GoodIf(said[3] = "rotates"))

maxKeyAgeDays == 90

\* An access key: its status and age in hours (-1: no creation date).
AccessKey ==
    [fresh   |-> [status |-> "Active", hours |-> 90 * 24 + 23],
     old     |-> [status |-> "Active", hours |-> 91 * 24],
     retired |-> [status |-> "Inactive", hours |-> 91 * 24],
     undated |-> [status |-> "Active", hours |-> -1]]

\* A user has one key here.  int(age.Hours() / 24) > maxKeyAgeDays.
iamKeyAge ==
    Check("account", "every", "drop", <<Named, DOMAIN AccessKey>>,
          LAMBDA said :
              IF Len(said) = 1 THEN "more"
              ELSE GoodIf(\/ AccessKey[said[2]].hours = -1
                          \/ AccessKey[said[2]].status # "Active"
                          \/ AccessKey[said[2]].hours \div 24 <= maxKeyAgeDays))

minimumPasswordLength == 14
PolicyLength == [none |-> -1, nil |-> 0, short |-> 13, long |-> 14]

\* NoSuchEntity (here -1) is an answer, not an error.
iamPasswordPolicy ==
    Check("account", "one", "drop", <<DOMAIN PolicyLength>>,
          LAMBDA said : GoodIf(PolicyLength[said[1]] >= minimumPasswordLength))

iamRootMFA ==
    Check("account", "one", "drop", <<{"0", "1"}>>,
          LAMBDA said : GoodIf(said[1] = "1"))

cloudTrailLogValidation ==
    [Check("account", "whole", "drop", <<OptionalBool>>,
           LAMBDA said : GoodIf(said[1] = "true")) EXCEPT !.empty = "finding"]

\* What the list says of a trail: its KMS key and its bucket.  Every trail has
\* a bucket of its own here; of a shared one the code asks once.  A trail without
\* a key is a finding whatever becomes of its bucket.
cloudTrailLogEncryption ==
    [Check("account", "whole", "item",
           <<{"kms", "plain", "bucketless"}, Named, {"encrypted", "NotFound"}>>,
           LAMBDA said :
               CASE said[1] = "bucketless" -> "bad"
                 [] said[1] # "bucketless" /\ Len(said) < 3 -> "more"
                 [] OTHER -> GoodIf(said[1] = "kms" /\ said[3] = "encrypted"))
        EXCEPT !.empty = "finding", !.early = {<<"plain">>, <<"plain", "named">>}]

cloudtrailMultiregion ==
    [Check("account", "whole", "drop",
           <<{"multi", "single"}, {"logging", "stopped"}>>,
           LAMBDA said :
               CASE said[1] = "single" -> "skip"
                 [] said[1] = "multi" /\ Len(said) = 1 -> "more"
                 [] OTHER -> GoodIf(said[2] = "logging"))
        EXCEPT !.empty = "finding", !.passes = "one_good"]
-----------------------------------------------------------------------------
(* S3: the list, the bucket's region, then the question itself *)

scanS3Buckets(replies, Judge(_)) ==
    Check("account", "whole", "item", <<Named, Named>> \o replies,
          LAMBDA said : IF Len(said) < 3 THEN "more" ELSE Judge(said))

\* The public access block, and without one the policy status.
bucketIsPublic(said) ==
    CASE said[3] = "partial" -> "bad"
      [] said[3] = "full" -> "good"
      [] said[3] = "absent" /\ Len(said) = 3 -> "more"
      [] OTHER -> GoodIf(said[4] # "public")

s3Public ==
    scanS3Buckets(<<{"absent", "partial", "full"}, {"absent", "public", "private"}>>,
                  bucketIsPublic)

s3Versioning ==
    scanS3Buckets(<<{"Enabled", "Suspended"}>>,
                  LAMBDA said : GoodIf(said[3] = "Enabled"))

s3Encryption ==
    scanS3Buckets(<<{"configured", "NotFound"}>>,
                  LAMBDA said : GoodIf(said[3] = "configured"))
=============================================================================
