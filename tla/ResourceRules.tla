---------------------------- MODULE ResourceRules ----------------------------
(***************************************************************************)
(* The two rule sets over parsed resources: the built-in policies          *)
(* (internal/policy) and the graph scanner (internal/security), and what   *)
(* the HCL parser lets them see of a resource: its attributes, but not its *)
(* nested blocks, and numbers as int64, which Go never compares equal to   *)
(* the literal 0.                                                          *)
(*                                                                         *)
(* One resource of each type is edited attribute by attribute, beside      *)
(* resources that refer to it; the scanner's fixes are applied to it.      *)
(* Left out: the naming rule and GRAPH-006, which compare names and zones  *)
(* of several resources.                                                   *)
(***************************************************************************)
EXTENDS Integers, Sequences, FiniteSets

(* An attribute's value: what HCL says, and the Go value the parser makes. *)
NotSet == "absent"
Attributes ==
  [aws_s3_bucket      |-> [acl |-> {"public", "private"}, encryption |-> {"set", "block"}, logging |-> {"set"}, tags |-> {"all", "lower"}],
   aws_db_instance    |-> [storage_encrypted |-> {"true", "false"}, publicly_accessible |-> {"true", "false"},
                           backup_retention_period |-> {"int64 0", "string 0", "int64 7"}, multi_az |-> {"true"}, tags |-> {"all", "lower"}],
   aws_ebs_volume     |-> [encrypted |-> {"true", "false"}],
   aws_instance       |-> [instance_type |-> {"metal", "small"}, iam_instance_profile |-> {"set"}, associate_public_ip_address |-> {"true", "false"}, tags |-> {"all"}],
   aws_security_group |-> [cidr_blocks |-> {"open", "closed", "block"}, from_port |-> {"22", "443"}, description |-> {"set"}, tags |-> {"all"}],
   aws_vpc            |-> [tags |-> {"all", "lower"}],
   aws_subnet         |-> [map_public_ip_on_launch |-> {"true", "false"}, tags |-> {"all"}],
   aws_default_vpc    |-> [tags |-> {"all"}],
   azurerm_mssql_server |-> [minimum_tls_version |-> {"1.0", "1.2"}],
   azurerm_storage_account |-> [allow_blob_public_access |-> {"true", "false"}],
   azurerm_key_vault  |-> [tags |-> {"all"}],
   google_sql_database_instance |-> [require_ssl |-> {"true"}],
   google_compute_instance |-> [access_config |-> {"block"}],
   google_compute_firewall |-> [source_ranges |-> {"open", "closed"}],
   google_project_iam_member |-> [role |-> {"roles/owner", "roles/viewer"}],
   aws_iam_policy     |-> [policy |-> {"wildcard", "narrow"}],
   aws_lambda_function |-> [tracing_config |-> {"block"}],
   aws_eks_cluster    |-> [tags |-> {"all"}]]

Types == DOMAIN Attributes

(* Resources that refer to the edited one, or stand in front of it. *)
Companions == {"aws_s3_bucket_server_side_encryption_configuration", "aws_s3_bucket_public_access_block",
               "aws_flow_log", "aws_lb"}

VARIABLES
  type,        \* of the resource
  hcl,         \* of each attribute of it: what the file says
  companions   \* resources beside it

ruleVars == <<type, hcl, companions>>

Settings(t) == {NotSet} \union UNION {Attributes[t][a] : a \in DOMAIN Attributes[t]}

RulesTypeOK ==
  /\ type \in Types /\ companions \subseteq Companions
  /\ hcl \in [DOMAIN Attributes[type] -> Settings(type)]
  /\ \A a \in DOMAIN hcl : hcl[a] \in Attributes[type][a] \union {NotSet}

-----------------------------------------------------------------------------
(* HCLParser: JustAttributes leaves a nested block out. *)
Property(file, a) == IF a \in DOMAIN file /\ file[a] # "block" THEN file[a] ELSE NotSet

Has(file, a)      == Property(file, a) # NotSet
BoolProp(file, a) == Property(file, a) = "true"
Zero(file, a)     == Property(file, a) = "string 0"

S3   == {"aws_s3_bucket"}
RDS  == {"aws_db_instance"}

(* A rule or check finds something, or nothing. *)
Found(id, condition) == IF condition THEN {id} ELSE {}

-----------------------------------------------------------------------------
(* policy.go: the default rules that look at one resource. *)
Taggable == {"aws_instance", "aws_vpc", "aws_subnet", "aws_security_group", "aws_s3_bucket", "aws_db_instance", "aws_ebs_volume"}

TagRules(t, file) ==
         Found("tag_required", t \in Taggable /\ Property(file, "tags") # "all")
  \union Found("tag_naming",   Property(file, "tags") = "lower")

EncryptionRules(t, file) ==
         Found("encrypt_s3",  t \in S3 /\ ~Has(file, "encryption"))
  \union Found("encrypt_rds", t \in RDS /\ ~BoolProp(file, "storage_encrypted"))
  \union Found("encrypt_ebs", t = "aws_ebs_volume" /\ ~BoolProp(file, "encrypted"))

AccessRules(t, file) ==
         Found("no_public_s3",       t \in S3 /\ Property(file, "acl") = "public")
  \union Found("no_open_sg",         t = "aws_security_group" /\ Property(file, "cidr_blocks") = "open" /\ Property(file, "from_port") # "443")
  \union Found("no_default_vpc",     t = "aws_default_vpc")
  \union Found("private_subnet_nat", t = "aws_subnet" /\ Property(file, "map_public_ip_on_launch") = "false")

DurabilityRules(t, file) ==
         Found("oversized_instance", t = "aws_instance" /\ Property(file, "instance_type") = "metal")
  \union Found("rds_backup",         t \in RDS /\ Zero(file, "backup_retention_period"))
  \union Found("rds_multi_az",       t \in RDS /\ ~BoolProp(file, "multi_az"))

LoggingRules(t, file) ==
         Found("s3_logging",    t \in S3 /\ ~Has(file, "logging"))
  \union Found("vpc_flow_logs", t = "aws_vpc")

Violations(t, file) ==
  TagRules(t, file) \union EncryptionRules(t, file) \union AccessRules(t, file)
  \union DurabilityRules(t, file) \union LoggingRules(t, file)

-----------------------------------------------------------------------------
(* scanner.go, one operator per category. *)
CheckExposure(t, file) ==
         Found("EXP_001", t \in S3 /\ Property(file, "acl") = "public")
  \union Found("EXP_002", t \in RDS /\ BoolProp(file, "publicly_accessible"))
  \union Found("EXP_003", t = "google_compute_instance" /\ Has(file, "access_config"))
  \union Found("EXP_004", t = "azurerm_storage_account" /\ BoolProp(file, "allow_blob_public_access"))

(* Faulty variant: an attribute that is set counts, whatever its value. *)
CheckEncryptionSet(t, file) ==
         Found("ENC_001", t \in RDS /\ ~Has(file, "storage_encrypted"))
  \union Found("ENC_002", t = "aws_ebs_volume" /\ ~Has(file, "encrypted"))
  \union Found("ENC_003", t = "google_sql_database_instance" /\ ~Has(file, "require_ssl"))
  \union Found("ENC_004", t = "azurerm_mssql_server" /\ Property(file, "minimum_tls_version") = "1.0")
CheckEncryption(t, file) ==
         Found("ENC_001", t \in RDS /\ ~BoolProp(file, "storage_encrypted"))
  \union Found("ENC_002", t = "aws_ebs_volume" /\ ~BoolProp(file, "encrypted"))
  \union Found("ENC_003", t = "google_sql_database_instance" /\ ~BoolProp(file, "require_ssl"))
  \union Found("ENC_004", t = "azurerm_mssql_server" /\ Property(file, "minimum_tls_version") = "1.0")

CheckIAM(t, file) ==
         Found("IAM_001", t = "aws_iam_policy" /\ Property(file, "policy") = "wildcard")
  \union Found("IAM_002", t = "google_project_iam_member" /\ Property(file, "role") = "roles/owner")
  \union Found("IAM_003", t = "aws_instance" /\ ~Has(file, "iam_instance_profile"))

CheckLogging(t, file, others) ==
         Found("LOG_001", t \in S3 /\ ~Has(file, "logging"))
  \union Found("LOG_002", t = "aws_vpc" /\ "aws_flow_log" \notin others)
  \union Found("LOG_003", t = "azurerm_key_vault")

CheckNetworking(t, file) ==
         Found("NET_001", t = "aws_security_group" /\ ~Has(file, "description"))
  \union Found("NET_002", t = "google_compute_firewall" /\ Property(file, "source_ranges") = "open")
  \union Found("NET_003", t = "aws_default_vpc")

CheckCompliance(t, file) ==
         Found("HIPAA_001", t \in RDS /\ Zero(file, "backup_retention_period"))
  \union Found("SOC2_001",  t \in Taggable \ {"aws_ebs_volume"} /\ ~Has(file, "tags"))
  \union Found("PROD_001",  t \in RDS /\ ~BoolProp(file, "multi_az"))

CheckCrossResource(t, file, others) ==
         Found("GRAPH_001", t = "aws_instance" /\ BoolProp(file, "associate_public_ip_address") /\ "aws_lb" \notin others)
  \union Found("GRAPH_002", t \in S3 /\ "aws_s3_bucket_server_side_encryption_configuration" \notin others)
  \union Found("GRAPH_003", t \in S3 /\ "aws_s3_bucket_public_access_block" \notin others)
  \union Found("GRAPH_004", t = "aws_lambda_function" /\ ~Has(file, "tracing_config"))
  \union Found("GRAPH_005", t = "aws_eks_cluster")

Scan(t, file, others) ==
  CheckExposure(t, file) \union CheckEncryption(t, file) \union CheckIAM(t, file)
  \union CheckLogging(t, file, others) \union CheckNetworking(t, file)
  \union CheckCompliance(t, file) \union CheckCrossResource(t, file, others)

Critical == {"EXP_001", "EXP_002", "IAM_001"}
High     == {"EXP_003", "EXP_004", "ENC_001", "ENC_003", "ENC_004", "IAM_002", "NET_002", "HIPAA_001",
             "GRAPH_001", "GRAPH_002", "GRAPH_003"}
Low      == {"NET_001", "SOC2_001", "LOG_003", "GRAPH_004"}

(* Scan: the summary counts each severity; the score takes them off 100,   *)
(* down to 0.                                                              *)
Score(ids) ==
  LET total == 20 * Cardinality(ids \intersect Critical) + 10 * Cardinality(ids \intersect High)
                 + Cardinality(ids \intersect Low) + 5 * Cardinality(ids \ (Critical \union High \union Low))
  IN  IF total > 100 THEN 0 ELSE 100 - total

(* A fix: the attribute and the value that ends a finding. *)
AutoFix(field, value) == [field |-> field, value |-> value]

Fixes ==
  [EXP_001 |-> AutoFix("acl", "private"), EXP_002 |-> AutoFix("publicly_accessible", "false"),
   EXP_004 |-> AutoFix("allow_blob_public_access", "false"),
   ENC_001 |-> AutoFix("storage_encrypted", "true"), ENC_002 |-> AutoFix("encrypted", "true"),
   ENC_004 |-> AutoFix("minimum_tls_version", "1.2"),
   HIPAA_001 |-> AutoFix("backup_retention_period", "int64 7"), PROD_001 |-> AutoFix("multi_az", "true")]

Fixed(file, id) == [file EXCEPT ![Fixes[id].field] = Fixes[id].value]

-----------------------------------------------------------------------------
(* The project's owner edits the file or adds a resource beside it. *)
EditAttribute ==
  /\ \E a \in DOMAIN hcl : \E v \in Attributes[type][a] \union {NotSet} : v # hcl[a] /\ hcl' = [hcl EXCEPT ![a] = v]
  /\ UNCHANGED <<type, companions>>

AddCompanion ==
  /\ \E c \in Companions : c \notin companions /\ companions' = companions \union {c}
  /\ UNCHANGED <<type, hcl>>

ApplyFix ==
  /\ \E id \in Scan(type, hcl, companions) \intersect DOMAIN Fixes : hcl' = Fixed(hcl, id)
  /\ UNCHANGED <<type, companions>>

RulesInit ==
  /\ type \in Types /\ hcl = [a \in DOMAIN Attributes[type] |-> NotSet] /\ companions = {}

RulesNext == EditAttribute \/ AddCompanion \/ ApplyFix

-----------------------------------------------------------------------------
(* A fix ends its own finding and brings no other, of the scanner or of    *)
(* the policies.                                                           *)
FixesFix ==
  LET found == Scan(type, hcl, companions) IN
  \A id \in found \intersect DOMAIN Fixes :
    /\ Scan(type, Fixed(hcl, id), companions) = found \ {id}
    /\ Violations(type, Fixed(hcl, id)) \subseteq Violations(type, hcl)
    /\ Score(found \ {id}) >= Score(found)

(* The two rule sets, written apart, judge alike what both judge. *)
Pairs == {<<"encrypt_rds", "ENC_001">>, <<"encrypt_ebs", "ENC_002">>, <<"no_public_s3", "EXP_001">>, <<"rds_backup", "HIPAA_001">>,
          <<"rds_multi_az", "PROD_001">>, <<"s3_logging", "LOG_001">>, <<"no_default_vpc", "NET_003">>}

SetsAgree ==
  LET violated == Violations(type, hcl)
      found    == Scan(type, hcl, companions)
  IN  \A pair \in Pairs : pair[1] \in violated <=> pair[2] \in found

RulesAgree == FixesFix /\ SetsAgree
=============================================================================
