--------------------------- MODULE CloudConnections ---------------------------
(***************************************************************************)
(* Saved cloud connections (internal/cloudconnections): one file of        *)
(* records and one key file, used by the API server and by the MCP server, *)
(* each with its own Manager.  Secret fields are encrypted before they are *)
(* written; records of older files are migrated when they are read.        *)
(*                                                                         *)
(* A process started with IAC_STUDIO_CONNECTIONS_KEY uses the key derived  *)
(* from it and never looks at the key file.  The two processes may be      *)
(* started with different settings, and again with others.                 *)
(*                                                                         *)
(* A secret value is named by the request that submitted it.  A masked or  *)
(* missing field of a request is no value.  A key file, once written, is   *)
(* not removed or spoiled from outside.                                    *)
(***************************************************************************)
EXTENDS Integers, FiniteSets, Functions

CONSTANTS
  Managers,       \* a Manager of each process
  Api,            \* the one whose process serves the connection endpoints
  Connections, ConnRequests,
  Keys,           \* what a new key file may hold
  Passphrases,    \* the keys derived from settings of the environment
  Methods,        \* the auth methods of a behaviour
  Legacy, Nothing,
  Failed          \* a key that could not be had: the error is kept as well

ASSUME ConnectionAssumption ==
  /\ Api \in Managers /\ Connections # {} /\ Methods # {}
  /\ Legacy \notin ConnRequests
  /\ Nothing \notin ConnRequests \union Keys \union Passphrases \union Methods \union {Legacy, Failed}
  /\ Failed \notin Keys \union Passphrases

VARIABLES
  records,    \* .iac-studio-connections.json
  keyFile,    \* .iac-studio-connections.key
  environment,    \* of each manager: the key of its process's environment
  encryptKey, decryptKey,   \* of each manager: the outcome its store keeps (sync.Once)
  mutationsMu,
  progress,   \* of each request: where it is and what it holds
  given,      \* history: of each connection, the values last given for its fields
  crossed,    \* history: a manager wrote while the other one was writing
  mixed       \* history: two processes were started with different settings

keyVars  == <<keyFile, environment, encryptKey, decryptKey, mixed>>
connVars == <<records, keyVars, mutationsMu, progress, given, crossed>>

(* secretFieldsByMethod, and those of them that requiredFieldsByMethod has. *)
SecretFieldsOf(method) ==
  CASE method = "aws_static"              -> {"secret_access_key", "session_token"}
    [] method = "azure_service_principal" -> {"client_secret"}
    [] method = "gcp_service_account"     -> {"service_account_json"}
    [] OTHER                              -> {}

Required(method) == SecretFieldsOf(method) \ {"session_token"}

Fields  == UNION {SecretFieldsOf(m) : m \in Methods}
Stores  == {"", "local_encrypted", "other"}   \* "other": a kind nobody registered
NoRecord == [method |-> Nothing]

(* A stored value and the key it is encrypted with, or none in a file of old. *)
Cipher(v, k) == [value |-> v, key |-> k]
Plain(secrets) == [f \in DOMAIN secrets |-> Cipher(secrets[f].value, Nothing)]

AnyKey     == Keys \union Passphrases
Secret     == [value : ConnRequests \union {Legacy}, key : AnyKey \union {Nothing}]
SecretMaps == UNION {[fields -> Secret] : fields \in SUBSET Fields}
ConnRecord == [method : Methods, store : Stores, secrets : SecretMaps, refs : SUBSET Fields]
Snapshots  == [Connections -> ConnRecord \union {NoRecord}]

Progress ==
  [pc : {"idle", "load", "migrate", "rewrite", "lock", "commit", "done", "failed"},
   op : {"save", "delete", "list", "use"}, manager : Managers, connection : Connections, method : Methods,
   store : Stores, values : SUBSET Fields, refs : SUBSET Fields, snapshot : Snapshots \union {<<>>}]

ConnTypeOK ==
  /\ records \in Snapshots /\ keyFile \in Keys \union {Nothing}
  /\ environment \in [Managers -> Passphrases \union {Nothing}] /\ mixed \in BOOLEAN
  /\ encryptKey \in [Managers -> AnyKey \union {Nothing, Failed}]
  /\ decryptKey \in [Managers -> AnyKey \union {Nothing, Failed}]
  /\ mutationsMu \in [Managers -> ConnRequests \union {Nothing}]
  /\ progress \in [ConnRequests -> Progress]
  /\ given \in [Connections -> [Fields -> ConnRequests \union {Legacy, Nothing}]] /\ crossed \in BOOLEAN

Exists(c)  == records[c] # NoRecord
At(r, pc)  == progress' = [progress EXCEPT ![r].pc = pc]
Manager(r) == progress[r].manager

-----------------------------------------------------------------------------
(* encryptionKeyForEncrypt, encryptionKeyForDecrypt: the environment's key *)
(* takes precedence over the file's.                                       *)
KeyOf(m)    == IF environment[m] # Nothing THEN environment[m] ELSE keyFile
Kept(k, m)  == IF k = Nothing THEN KeyOf(m) ELSE k

(* loadConnectionSecrets: the local store decrypts what it can; a record   *)
(* of an unknown store must not hold values.                               *)
Loadable(m, record) ==
  IF record.store = "other" THEN DOMAIN record.secrets = {}
  ELSE \A f \in DOMAIN record.secrets :
         record.secrets[f].key \in {Nothing, Kept(decryptKey[m], m)}

(* applySecretReferenceDefaults. *)
WithRefs(record) ==
  IF record.store = "other" THEN record
  ELSE [record EXCEPT !.store = IF DOMAIN record.secrets = {} THEN "" ELSE "local_encrypted",
                      !.refs = DOMAIN record.secrets]

NeedsMigration(record) ==
  \/ record.store # "other" /\ \E f \in DOMAIN record.secrets : record.secrets[f].key = Nothing
  \/ WithRefs(record) # record

Loaded(record) == WithRefs([record EXCEPT !.secrets = Plain(@)])

(* The records a request reads: its own, or all of them. *)
Scope(r) == IF progress[r].op \in {"list", "save"} THEN {c \in Connections : Exists(c)}
            ELSE {progress[r].connection} \intersect {c \in Connections : Exists(c)}
CanLoad(r)   == \A c \in Scope(r) : Loadable(Manager(r), records[c])
Outdated(r)  == {c \in Scope(r) : NeedsMigration(records[c])}

(* decryptionKey, for the first encrypted value: a file that is missing is *)
(* an error for good.                                                      *)
IsEncrypted(c) == \E f \in DOMAIN records[c].secrets : records[c].secrets[f].key # Nothing
DecryptKey(m, cs) ==
  /\ decryptKey' = [decryptKey EXCEPT ![m] =
       IF @ # Nothing \/ ~\E c \in cs : IsEncrypted(c) THEN @
       ELSE IF KeyOf(m) = Nothing THEN Failed ELSE KeyOf(m)]
  /\ UNCHANGED <<keyFile, environment, encryptKey, mixed>>

-----------------------------------------------------------------------------
(* Creating fails on values for an unknown store; PUT, a list and a use    *)
(* read first.                                                             *)
Starts(op, store, values) ==
  IF op = "create" /\ store = "other" /\ values # {} THEN "failed"
  ELSE IF op \in {"create", "delete"} THEN "lock"
  ELSE "load"

(* normalizeAndValidate refuses an unknown provider or method, and values  *)
(* for an unknown store.  PUT checks for the connection first; POST takes  *)
(* a new id.                                                               *)
Arrives(m, op, c, method, store, values, refs) ==
  /\ op \in {"create", "update", "delete"} => m = Api
  /\ op = "create" => given[c] = [f \in Fields |-> Nothing] /\ ~Exists(c)
                      /\ \A q \in ConnRequests : progress[q].pc # "idle" => progress[q].connection # c
  /\ op \in {"delete", "list", "use"} => method = CHOOSE x \in Methods : TRUE
  /\ op \in {"delete", "list", "use"} => store = "" /\ values = {} /\ refs = {}
  /\ refs # {} => store = "other"
  /\ op # "list" \/ c = CHOOSE x \in Connections : TRUE

Begin(r) ==
  /\ progress[r].pc = "idle"
  /\ \E m \in Managers, op \in {"create", "update", "delete", "list", "use"}, c \in Connections :
     \E method \in Methods, store \in Stores, values \in SUBSET Fields, refs \in SUBSET Fields :
       /\ Arrives(m, op, c, method, store, values, refs)
       /\ progress' = [progress EXCEPT ![r] =
            [@ EXCEPT !.op = IF op \in {"create", "update"} THEN "save" ELSE op,
               !.pc = Starts(op, store, values), !.manager = m, !.connection = c, !.method = method, !.store = store,
               !.values = values, !.refs = refs \intersect SecretFieldsOf(method)]]
  /\ UNCHANGED <<records, keyVars, mutationsMu, given, crossed>>

(* List, Get and GetForUse, and the check of PUT: load or loadOne.  A read *)
(* of one connection loads only that one.                                  *)
ReadScope(r) == IF progress[r].op = "save" THEN {progress[r].connection} \intersect Scope(r) ELSE Scope(r)

Load(r) ==
  /\ progress[r].pc = "load"
  /\ IF \/ \E c \in ReadScope(r) : ~Loadable(Manager(r), records[c])
        \/ progress[r].op # "list" /\ ~Exists(progress[r].connection)
     THEN At(r, "failed")
     ELSE At(r, IF Outdated(r) \intersect ReadScope(r) # {} THEN "migrate"
                ELSE IF progress[r].op # "save" THEN "done"
                ELSE IF progress[r].store = "other" /\ progress[r].values # {} THEN "failed"
                ELSE "lock")
  /\ DecryptKey(Manager(r), ReadScope(r))
  /\ UNCHANGED <<records, mutationsMu, given, crossed>>

(* persistMigration, persistOneMigration: the snapshot is taken again      *)
(* under mutationsMu.                                                      *)
Migrate(r) ==
  LET m == Manager(r) IN
  /\ progress[r].pc = "migrate" /\ mutationsMu[m] = Nothing
  /\ IF \E c \in ReadScope(r) : ~Loadable(m, records[c]) THEN At(r, "failed") /\ UNCHANGED mutationsMu
     ELSE IF Outdated(r) \intersect ReadScope(r) = {} 
     THEN At(r, IF progress[r].op = "list" THEN "done" ELSE "load") /\ UNCHANGED mutationsMu
     ELSE /\ mutationsMu' = [mutationsMu EXCEPT ![m] = r]
          /\ progress' = [progress EXCEPT ![r].pc = "rewrite",
               ![r].snapshot = [c \in Connections |-> IF Exists(c) THEN Loaded(records[c]) ELSE NoRecord]]
  /\ DecryptKey(m, ReadScope(r))
  /\ UNCHANGED <<records, given, crossed>>

(* Faulty variant: a manager makes a key of its own. *)
OwnKey(m) ==
  \E k \in Keys : /\ encryptKey' = [encryptKey EXCEPT ![m] = IF @ = Nothing THEN k ELSE @]
                  /\ keyFile' = IF encryptKey[m] = Nothing THEN k ELSE keyFile

(* encryptionKey: the environment's key, the file's, or a new one linked   *)
(* to the file's name, which fails when another process has been faster.   *)
FirstKey(m) ==
  LET held == Kept(encryptKey[m], m) IN
  \E k \in Keys : /\ held # Failed
                  /\ keyFile' = IF held = Nothing THEN k ELSE keyFile
                  /\ encryptKey' = [encryptKey EXCEPT ![m] = IF held = Nothing THEN k ELSE held]

(* The key file cannot be read or written: an error for good. *)
KeyFails(m) ==
  /\ encryptKey[m] = Nothing /\ environment[m] = Nothing
  /\ encryptKey' = [encryptKey EXCEPT ![m] = Failed] /\ UNCHANGED keyFile

(* storeConnectionSecrets. *)
Storable(record) == record.store = "other" => DOMAIN record.secrets = {}
Encrypted(record, k) ==
  [record EXCEPT !.secrets = [f \in DOMAIN @ |-> Cipher(@[f].value, k)]]
WithKey(m, needed) ==
  /\ IF needed THEN FirstKey(m) ELSE UNCHANGED <<encryptKey, keyFile>>
  /\ UNCHANGED <<environment, decryptKey, mixed>>

(* A manager that writes while the other one is between its read and its write. *)
Cross(r) ==
  crossed' = (crossed \/ \E q \in ConnRequests : q # r /\ progress[q].pc \in {"rewrite", "commit"}
                                                 /\ Manager(q) # Manager(r))

Unlocked(r) == mutationsMu' = [mutationsMu EXCEPT ![Manager(r)] = Nothing]
Fail(r) ==
  /\ At(r, "failed") /\ Unlocked(r)
  /\ \/ \E keyed \in {FALSE, progress[r].op # "delete"} : WithKey(Manager(r), keyed)
     \/ progress[r].op # "delete" /\ KeyFails(Manager(r)) /\ UNCHANGED <<environment, decryptKey, mixed>>
  /\ UNCHANGED <<records, given, crossed>>

(* A list rewrites every record of its snapshot, a read its own one.  A    *)
(* key or a file that cannot be written ends the request.                  *)
Rewrite(r) ==
  LET m == Manager(r) snap == progress[r].snapshot
      mine == IF progress[r].op = "list" THEN Connections ELSE {progress[r].connection} IN
  /\ progress[r].pc = "rewrite"
  /\ \/ Fail(r)
     \/ /\ \A c \in mine : snap[c] # NoRecord => Storable(snap[c])
        /\ progress[r].op # "list" => Exists(progress[r].connection)
        /\ WithKey(m, \E c \in mine : snap[c] # NoRecord /\ DOMAIN snap[c].secrets # {})
        /\ records' = [c \in Connections |->
             IF c \notin mine THEN records[c]
             ELSE IF snap[c] = NoRecord THEN NoRecord ELSE Encrypted(snap[c], encryptKey'[m])]
        /\ At(r, IF progress[r].op = "list" THEN "done" ELSE "load") /\ Unlocked(r) /\ Cross(r)
        /\ UNCHANGED given

-----------------------------------------------------------------------------
(* Save and Delete read everything under mutationsMu. *)
Lock(r) ==
  LET m == Manager(r) IN
  /\ progress[r].pc = "lock" /\ mutationsMu[m] = Nothing
  /\ IF \/ progress[r].op = "save" /\ ~CanLoad(r)
        \/ progress[r].op = "delete" /\ ~Exists(progress[r].connection)
     THEN At(r, "failed") /\ UNCHANGED mutationsMu
     ELSE /\ mutationsMu' = [mutationsMu EXCEPT ![m] = r]
          /\ progress' = [progress EXCEPT ![r].pc = "commit",
               ![r].snapshot = [c \in Connections |-> IF Exists(c) THEN Loaded(records[c]) ELSE NoRecord]]
  /\ DecryptKey(m, IF progress[r].op = "save" THEN Scope(r) ELSE {})
  /\ UNCHANGED <<records, given, crossed>>

(* Faulty variant: a field that was not submitted is emptied. *)
SubmittedSecrets(r, existing) == [f \in progress[r].values |-> Cipher(r, Nothing)]

(* mergeSecrets, then secretMetadata: submitted values win, fields of      *)
(* another method are dropped.                                             *)
MergedSecrets(r, existing) ==
  LET old == IF existing = NoRecord THEN {} ELSE DOMAIN existing.secrets IN
  [f \in (old \union progress[r].values) \intersect SecretFieldsOf(progress[r].method) |->
     IF f \in progress[r].values THEN Cipher(r, Nothing) ELSE existing.secrets[f]]

(* preserveExistingExternalSecretRefs. *)
KeepsRefs(r, existing) ==
  /\ existing # NoRecord /\ existing.store = "other" /\ progress[r].store \in {"", "other"}
  /\ (existing.refs \union progress[r].refs) \intersect SecretFieldsOf(progress[r].method) # {}

Input(r, existing) ==
  LET kept == KeepsRefs(r, existing) IN
  WithRefs([method |-> progress[r].method, secrets |-> MergedSecrets(r, existing),
            store |-> IF kept THEN "other" ELSE progress[r].store,
            refs |-> (IF kept THEN existing.refs \union progress[r].refs ELSE progress[r].refs)
                       \intersect SecretFieldsOf(progress[r].method)])

CommitSave(r) ==
  LET m == Manager(r) c == progress[r].connection
      input == Input(r, progress[r].snapshot[c]) IN
  /\ progress[r].pc = "commit" /\ progress[r].op = "save"
  /\ \/ Fail(r)
     \/ /\ Storable(input)
        /\ WithKey(m, DOMAIN input.secrets # {})
        /\ records' = [records EXCEPT ![c] = Encrypted(input, encryptKey'[m])]
        /\ given' = [given EXCEPT ![c] = [f \in Fields |->
             IF f \notin SecretFieldsOf(progress[r].method) THEN Nothing
             ELSE IF f \in progress[r].values THEN r ELSE @[f]]]
        /\ At(r, "done") /\ Unlocked(r) /\ Cross(r)

(* deleteConnectionSecrets refuses while an unknown store holds a secret;  *)
(* the local store has nothing outside the record.                         *)
CommitDelete(r) ==
  LET c == progress[r].connection old == progress[r].snapshot[c] IN
  /\ progress[r].pc = "commit" /\ progress[r].op = "delete"
  /\ \/ Fail(r)
     \/ /\ old.store = "other" => DOMAIN old.secrets = {} /\ old.refs = {}
        /\ Exists(c) /\ records' = [records EXCEPT ![c] = NoRecord]
        /\ given' = [given EXCEPT ![c] = [f \in Fields |-> Nothing]]
        /\ At(r, "done") /\ Unlocked(r) /\ Cross(r)
        /\ UNCHANGED keyVars

(* A process ends and starts again, with empty stores and an environment   *)
(* that may be another.                                                    *)
Restart(m) ==
  /\ \E k \in Passphrases \union {Nothing} :
       /\ environment' = [environment EXCEPT ![m] = k] /\ mixed' = (mixed \/ k # environment[m])
  /\ encryptKey' = [encryptKey EXCEPT ![m] = Nothing] /\ decryptKey' = [decryptKey EXCEPT ![m] = Nothing]
  /\ mutationsMu' = [mutationsMu EXCEPT ![m] = Nothing]
  /\ progress' = [r \in ConnRequests |-> IF Manager(r) = m /\ progress[r].pc \notin {"idle", "done"}
                                        THEN [progress[r] EXCEPT !.pc = "failed"] ELSE progress[r]]
  /\ UNCHANGED <<records, keyFile, given, crossed>>

(* A first start, or a file written before secrets were encrypted. *)
ConnInit ==
  /\ \E old \in BOOLEAN, method \in Methods, first \in Connections :
       LET secrets == [f \in SecretFieldsOf(method) |-> Cipher(Legacy, Nothing)] IN
       /\ records = [c \in Connections |-> IF old /\ c = first
            THEN [method |-> method, store |-> "", secrets |-> secrets, refs |-> {}] ELSE NoRecord]
       /\ given = [c \in Connections |-> [f \in Fields |->
            IF old /\ c = first /\ f \in SecretFieldsOf(method) THEN Legacy ELSE Nothing]]
  /\ keyFile = Nothing /\ environment \in [Managers -> Passphrases \union {Nothing}]
  /\ mixed = \E m, w \in Managers : environment[m] # environment[w]
  /\ encryptKey = [m \in Managers |-> Nothing] /\ decryptKey = [m \in Managers |-> Nothing]
  /\ mutationsMu = [m \in Managers |-> Nothing]
  /\ progress = [r \in ConnRequests |->
       [pc |-> "idle", op |-> "list", manager |-> Api, connection |-> CHOOSE c \in Connections : TRUE,
        method |-> CHOOSE x \in Methods : TRUE, store |-> "", values |-> {}, refs |-> {}, snapshot |-> <<>>]]
  /\ crossed = FALSE

ConnNext ==
  \/ \E r \in ConnRequests : \/ Begin(r) \/ Load(r) \/ Migrate(r) \/ Rewrite(r) \/ Lock(r)
                             \/ CommitSave(r) \/ CommitDelete(r)
  \/ \E m \in Managers : Restart(m)

-----------------------------------------------------------------------------
(* Manager.Test: what a plan or apply would find missing. *)
Missing(c) == {f \in Required(records[c].method) : f \notin DOMAIN records[c].secrets}

(* Whatever requests, migrations and restarts overlap, and whatever keys   *)
(* the environments of the processes name: a record that was ever written  *)
(* is encrypted as a whole with one key, the file's or one of an           *)
(* environment, and no key file is lost; a process uses no key but its     *)
(* own; while all processes have been started with the same setting, every *)
(* one can read every connection; and a connection holds, for each secret  *)
(* field, the value last given for it, except that two processes may have  *)
(* written at the same time.                                               *)
ConnectionsKept ==
  /\ \A c \in Connections : Exists(c) => \E k \in Passphrases \union {keyFile} :
       \A f \in DOMAIN records[c].secrets : \/ k # Nothing /\ records[c].secrets[f].key = k
                                            \/ records[c].secrets[f].value = Legacy /\ records[c].refs = {}
  /\ \A m \in Managers : {encryptKey[m], decryptKey[m]} \subseteq {Nothing, Failed, KeyOf(m)}
  /\ ~mixed => \A m \in Managers, c \in Connections : Exists(c) => Loadable(m, records[c])
  /\ ~crossed => \A c \in Connections : Exists(c) =>
       /\ \A f \in Fields : given[c][f] = IF f \in DOMAIN records[c].secrets
                                          THEN records[c].secrets[f].value ELSE Nothing
       /\ Missing(c) = {f \in Required(records[c].method) : given[c][f] = Nothing}
=============================================================================
