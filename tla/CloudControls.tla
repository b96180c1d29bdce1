--------------------------- MODULE CloudControls ---------------------------
(***************************************************************************)
(* The checks of one GCP project, Azure subscription or Supabase project   *)
(* (internal/gcp/scan.go, internal/azure/scan.go,                          *)
(* internal/supabase/scan.go), as records of Controls.                     *)
(***************************************************************************)
EXTENDS Controls

(* GCP: the first page of each list; the first error ends the check, which *)
(* keeps the findings that it has.                                         *)

Project(replies, Judge(_)) == Check("account", "first", "keep", replies, Judge)
ProjectSetting(answers, good) ==
    Check("account", "one", "keep", <<answers>>, LAMBDA said : GoodIf(said[1] = good))

storagePublic ==
    Project(<<Named, {"allUsers", "members"}>>,
            LAMBDA said : IF Len(said) = 1 THEN "more"
                          ELSE GoodIf(said[2] = "members"))

storageUniformAccess ==
    Project(<<{"true", "false"}>>, LAMBDA said : GoodIf(said[1] = "true"))

KeyHours == [fresh |-> 90 * 24, old |-> 90 * 24 + 1]

\* An account has one key here, whose date may not parse.
serviceAccountKeyAge ==
    Project(<<Named, {"fresh", "old", "undated"}>>,
            LAMBDA said : IF Len(said) = 1 THEN "more"
                          ELSE IF said[2] = "undated" THEN "odd"
                          ELSE GoodIf(KeyHours[said[2]] <= 90 * 24))

primitiveRoles == ProjectSetting({"narrow", "primitive"}, "narrow")

\* A firewall rule that allows TCP: its ports (none: every port).
Rule ==
    [disabled |-> [on |-> FALSE, anyone |-> TRUE, port |-> "22"],
     ssh      |-> [on |-> TRUE, anyone |-> TRUE, port |-> "22"],
     portless |-> [on |-> TRUE, anyone |-> TRUE, port |-> "none"]]

\* A rule that names no port is never a finding.
openFirewalls ==
    Project(<<DOMAIN Rule>>,
            LAMBDA said : GoodIf(~ /\ Rule[said[1]].on
                                   /\ Rule[said[1]].anyone
                                   /\ Rule[said[1]].port \in {"22", "0-65535"}))

publicIPs ==
    Project(<<{"natIP", "internal"}>>, LAMBDA said : GoodIf(said[1] = "internal"))

\* Three checks share the one list of instances.
cloudSQL(answers, good) ==
    Project(<<answers>>, LAMBDA said : GoodIf(said[1] = good))

sqlPublicIP == cloudSQL({"unrestricted", "restricted"}, "restricted")
sqlSSL == cloudSQL({"true", "false"}, "true")
sqlBackup == cloudSQL({"week", "short"}, "week")

\* A location, its key rings, their keys.
kmsRotation ==
    Project(<<Named, Named, {"rotates", "stays"}>>,
            LAMBDA said : IF Len(said) < 3 THEN "more" ELSE GoodIf(said[3] = "rotates"))

\* A policy that could not be read has no audit configuration.
auditConfig ==
    [ProjectSetting({"read_write", "partial"}, "read_write") EXCEPT !.unread = "finding"]
-----------------------------------------------------------------------------
(* Azure: the first page of each list; an error is kept and the next item  *)
(* looked at.                                                              *)

Subscription(replies, Judge(_)) == Check("account", "first", "item", replies, Judge)

\* Three checks share the accounts and the error of listing their containers,
\* which comes after what was found of the account itself.
storage(answers, good, containers) ==
    [Subscription(<<answers, containers>>,
                  LAMBDA said : IF Len(said) = 1 THEN "more"
                                ELSE GoodIf(said[1] = good /\ said[2] # "Blob"))
        EXCEPT !.early = {<<a>> : a \in answers \ {good}}]

storagePublicContainers == storage(Named, "named", {"Blob", "None"})
storageHttpsOnly == storage({"true", "false"}, "true", {"listed"})
storageMinTls == storage({"TLS1_2", "TLS1_0"}, "TLS1_2", {"listed"})

\* An inbound rule that allows, under the names that Azure gives its fields.
NsgRule ==
    [ssh   |-> [sourceAddressPrefix |-> "Internet", destinationPortRange |-> "22"],
     https |-> [sourceAddressPrefix |-> "Internet", destinationPortRange |-> "443"],
     inner |-> [sourceAddressPrefix |-> "10.0.0.0/8", destinationPortRange |-> "22"]]

\* encoding/json: what the object does not have stays empty.
Decoded(object, key) == IF key \in DOMAIN object THEN object[key] ELSE ""

fromInternet(source) == source \in {"*", "Internet"}
sensitiveRange(range) == range \in {"22", "3389", "1433", "3306", "5432", "*", "0-65535"}

\* The field Source has no tag: it is read from the key "source".
nsg ==
    Subscription(<<DOMAIN NsgRule>>,
        LAMBDA said : GoodIf(~
            (/\ fromInternet(Decoded(NsgRule[said[1]], "source"))
             /\ sensitiveRange(Decoded(NsgRule[said[1]], "destinationPortRange")))))

\* Two checks share the servers and the errors of listing their databases.
sql(public, encryption) ==
    [Subscription(<<public, Named, encryption>>,
                  LAMBDA said : IF Len(said) < 3 THEN "more"
                                ELSE GoodIf(said[1] # "Enabled" /\ said[3] # "Off"))
        EXCEPT !.early = IF "Enabled" \in public
                         THEN {<<"Enabled">>, <<"Enabled", "named">>} ELSE {}]

sqlPublicAccess == sql({"Enabled", "Disabled"}, {"On"})
sqlTde == sql({"Disabled"}, {"On", "Off"})

vault ==
    Subscription(<<{"both", "soft_delete"}>>, LAMBDA said : GoodIf(said[1] = "both"))

\* Any diagnostic setting will do.
activity ==
    [Subscription(<<Named>>, LAMBDA said : "good") EXCEPT !.empty = "finding"]

disks ==
    Subscription(<<{"customer", "platform"}>>,
                 LAMBDA said : GoodIf(said[1] = "customer"))

\* Security Defaults; unread, they are disabled.
identity ==
    [Check("account", "one", "keep", <<{"enabled", "disabled"}>>,
           LAMBDA said : GoodIf(said[1] = "enabled")) EXCEPT !.unread = "finding"]

\* The roles of Global Administrators, of which the filter of the request leaves
\* one at most, and how many members its first page has.
AdminCount == [few |-> 5, many |-> 6]
globalAdmins ==
    Subscription(<<Named, DOMAIN AdminCount>>,
                 LAMBDA said : IF Len(said) = 1 THEN "more"
                               ELSE GoodIf(AdminCount[said[2]] <= 5))
-----------------------------------------------------------------------------
(* Supabase: an error leaves no findings. *)

ProjectConfig(answers, good) ==
    Check("account", "one", "drop", <<answers>>, LAMBDA said : GoodIf(said[1] = good))

ssl == ProjectConfig({"enforced", "off"}, "enforced")
network == ProjectConfig({"applied", "open", "pending"}, "applied")
auth == ProjectConfig({"strict", "lax"}, "strict")

\* Every lint is a finding.
advisor == Check("account", "whole", "drop", <<Named>>, LAMBDA said : "bad")

\* The tables, and the rows that each shows an anonymous reader.
rls ==
    NotInUseIfEmpty(Check("account", "whole", "drop", <<Named, {"rows", "none", "garbled"}>>,
        LAMBDA said : IF Len(said) = 1 THEN "more"
                      ELSE IF said[2] = "garbled" THEN "odd"
                      ELSE GoodIf(said[2] = "none")))
=============================================================================
