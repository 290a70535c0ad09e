--------------------------- MODULE ProviderProfiles ---------------------------
(***************************************************************************)
(* Model-provider connections of the Agent Hub                             *)
(* (agentproviderconnections/profiles.go, the provider-connections         *)
(* endpoints of api/router.go).  One mutex makes each operation of the     *)
(* file one step; what is subtle is how an update combines what it submits *)
(* with the secrets, store and references the record has.  The key is the  *)
(* one the process keeps; what becomes of a key that changes from one      *)
(* process to the next is the subject of CloudConnections.                 *)
(*                                                                         *)
(* A secret value is the number of the operation that submitted it; 1 is   *)
(* what a file of before secrets were encrypted holds.                     *)
(***************************************************************************)
EXTENDS Integers

CONSTANTS
  Profiles, SecretNames,
  MaxOperations  \* a bound of the model

ASSUME ProfileAssumption == MaxOperations \in Nat \ {0}

VARIABLES
  profiles,    \* .iac-studio-agent-provider-connections.json
  supplied,    \* history: of each profile, the last value of each secret field, 0 if none
  operations   \* operations so far, the writing of an old file the first

profileVars == <<profiles, supplied, operations>>

ProfileStores == {"", "local_encrypted", "other"}   \* "other": a kind nobody registered
NoProfile == [store |-> "absent", secrets |-> <<>>, refs |-> {}, encrypted |-> TRUE]
HasProfile(p) == profiles[p] # NoProfile
Absent(names) == [n \in names |-> 0]

ProfileRecord ==
  [store : ProfileStores, secrets : UNION {[names -> 0 .. MaxOperations] : names \in SUBSET SecretNames},
   refs : SUBSET SecretNames, encrypted : BOOLEAN]

ProfileTypeOK ==
  /\ profiles \in [Profiles -> ProfileRecord \union {NoProfile}]
  /\ supplied \in [Profiles -> [SecretNames -> 0 .. MaxOperations]] /\ operations \in 0 .. MaxOperations

-----------------------------------------------------------------------------
(* normalizeAndValidate: references need a store that can hold them, and   *)
(* values one that is known.                                               *)
Valid(store, values, refs) ==
  /\ refs # {} => store = "other"
  /\ store = "other" => values = {}

(* loadProfilesUnlocked and saveProfilesUnlocked refuse values under an    *)
(* unknown store.                                                          *)
ProfileStorable(record) == record.store = "other" => DOMAIN record.secrets = {}

(* applyLocalSecretReferenceDefaults. *)
WithLocalRefs(record) ==
  IF record.store = "other" THEN record
  ELSE IF DOMAIN record.secrets = {}
  THEN [record EXCEPT !.store = IF record.refs = {} THEN "" ELSE @]
  ELSE [record EXCEPT !.store = "local_encrypted", !.refs = @ \union DOMAIN record.secrets]

(* Saving encrypts every value of every profile anew. *)
Saved(records) == [p \in Profiles |-> IF records[p] = NoProfile THEN NoProfile
                                      ELSE [WithLocalRefs(records[p]) EXCEPT !.encrypted = TRUE]]
Counted == operations < MaxOperations /\ operations' = operations + 1

(* Faulty variant: references of another store are kept. *)
MergedAnyRefs(old, store, values, refs) ==
  WithLocalRefs([store |-> IF store = "" THEN old.store ELSE store,
            secrets |-> [n \in DOMAIN old.secrets \union values |->
                           IF n \in values THEN operations + 1 ELSE old.secrets[n]],
            refs |-> old.refs \union refs, encrypted |-> FALSE])

(* Save of an existing profile. *)
Merged(old, store, values, refs) ==
  LET kept == IF store = "" THEN old.store ELSE store IN
  WithLocalRefs([store |-> kept,
            secrets |-> [n \in DOMAIN old.secrets \union values |->
                           IF n \in values THEN operations + 1 ELSE old.secrets[n]],
            refs |-> IF kept = "" \/ kept = old.store THEN old.refs \union refs ELSE refs,
            encrypted |-> FALSE])

(* POST with a new id, PUT with an existing one. *)
Save(p) ==
  /\ Counted
  /\ \E store \in ProfileStores, values \in SUBSET SecretNames, refs \in SUBSET SecretNames :
       LET record == IF HasProfile(p) THEN Merged(profiles[p], store, values, refs)
                     ELSE Merged([NoProfile EXCEPT !.store = ""], store, values, refs) IN
       IF Valid(store, values, refs) /\ ProfileStorable(record)
       THEN /\ profiles' = Saved([profiles EXCEPT ![p] = record])
            /\ supplied' = [supplied EXCEPT ![p] = [n \in SecretNames |-> IF n \in values THEN operations' ELSE @[n]]]
       ELSE UNCHANGED <<profiles, supplied>>

(* Delete: an unknown store may hold secrets that nobody can delete. *)
Delete(p) ==
  /\ Counted /\ HasProfile(p)
  /\ IF profiles[p].store = "other" /\ profiles[p].refs # {} THEN UNCHANGED <<profiles, supplied>>
     ELSE /\ profiles' = Saved([profiles EXCEPT ![p] = NoProfile])
          /\ supplied' = [supplied EXCEPT ![p] = Absent(SecretNames)]

(* List and Get: a file of before secrets were encrypted is rewritten. *)
Read ==
  /\ Counted
  /\ profiles' = IF \E p \in Profiles : ~profiles[p].encrypted THEN Saved(profiles) ELSE profiles
  /\ UNCHANGED supplied

(* publicProfile: the secret fields a browser is shown as present. *)
SecretFields(p) == DOMAIN profiles[p].secrets \union profiles[p].refs

Legacies == [n \in SecretNames |-> 1]

(* Some profiles may be there already, in the old form. *)
ProfileInit ==
  /\ \E old \in SUBSET Profiles :
       /\ profiles = [p \in Profiles |->
            IF p \in old THEN [store |-> "", secrets |-> Legacies, refs |-> {}, encrypted |-> FALSE] ELSE NoProfile]
       /\ supplied = [p \in Profiles |-> IF p \in old THEN Legacies ELSE Absent(SecretNames)]
  /\ operations = 1

ProfileNext == Read \/ \E p \in Profiles : Save(p) \/ Delete(p)

-----------------------------------------------------------------------------
(* Whatever the sequence of saves, an unmentioned or masked secret keeps   *)
(* its value, a profile is never without the store its secrets need, and   *)
(* under local encryption a field is shown as present exactly when there   *)
(* is a value to use.                                                      *)
ProfilesKept ==
  \A p \in Profiles : HasProfile(p) =>
    /\ ProfileStorable(profiles[p])
    /\ \A n \in SecretNames : IF n \in DOMAIN profiles[p].secrets THEN profiles[p].secrets[n] = supplied[p][n]
                              ELSE supplied[p][n] = 0
    /\ profiles[p].store = "local_encrypted" => SecretFields(p) = DOMAIN profiles[p].secrets
    /\ profiles[p].store = "" => profiles[p].refs = {}
=============================================================================
