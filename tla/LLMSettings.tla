---------------------------- MODULE LLMSettings ----------------------------
(***************************************************************************)
(* The provider settings of one user: encrypted rows, one of them the      *)
(* default, changed by concurrent requests, each a transaction that reads  *)
(* first and writes later; and the request-scoped runtime settings whose   *)
(* revision is part of the key of a cached answer.  A credential is the    *)
(* number of the request that brought it; updated_at moves with revision.  *)
(***************************************************************************)
EXTENDS Integers, Sequences, FiniteSets

CONSTANTS
    Servers,        \* processes that serve requests
    Providers,      \* SUPPORTED_LLM_PROVIDERS, in the order of their names
    Models,         \* the models of every provider
    Preferred,      \* LLM_PROVIDER
    MaxStamp        \* bound on the writes

ASSUME SettingsAssumption ==
    /\ Providers \in Seq(STRING) /\ Len(Providers) > 0 /\ MaxStamp \in Nat
    /\ \E i \in DOMAIN Providers : Providers[i] = Preferred
    /\ Servers \cap {"absent", "empty", "none", "creating"} = {}

VARIABLES
    keyFile,     \* LLM_CREDENTIAL_KEY_FILE: "absent", "empty" or a server's key
    cipher,      \* server -> the key it has, "none" or "creating"
    rows,        \* llm_provider_settings
    tx,          \* server -> the transaction it is in
    stamp,       \* fresh ids, revisions and credentials
    handed       \* runtime settings handed out, with their revisions

setVars == <<keyFile, cipher, rows, tx, stamp, handed>>

NoTx == [op |-> "none", provider |-> "", id |-> 0, first |-> FALSE, was |-> FALSE,
         model |-> "", key |-> 0]
ProviderSet == {Providers[i] : i \in DOMAIN Providers}

SettingsTypeOK ==
    /\ keyFile \in {"absent", "empty"} \cup Servers
    /\ cipher \in [Servers -> {"none", "creating"} \cup Servers]
    /\ stamp \in 0 .. MaxStamp
    /\ \A r \in rows : r.provider \in ProviderSet /\ r.model \in Models
    /\ \A r, q \in rows : r.provider = q.provider => r = q
    /\ Cardinality({r \in rows : r.default}) <= 1

SettingsInit ==
    /\ keyFile = "absent" /\ cipher = [s \in Servers |-> "none"]
    /\ rows = {} /\ tx = [s \in Servers |-> NoTx] /\ stamp = 0 /\ handed = {}

Fresh == stamp + 1

(* --------------------------- encryption key ---------------------------- *)

\* _load_or_create_key_file: O_CREAT | O_EXCL, then the write; a server that
\* reads in between finds too few characters and fails its request.  The file is
\* used where LLM_CREDENTIAL_ENCRYPTION_KEYS is not set, as it is deployed; keys
\* listed there take precedence and are not modelled.
KeyCreate(s) ==
    /\ cipher[s] = "none" /\ keyFile = "absent"
    /\ keyFile' = "empty" /\ cipher' = [cipher EXCEPT ![s] = "creating"]
    /\ UNCHANGED <<rows, tx, stamp, handed>>

KeyWrite(s) ==
    /\ cipher[s] = "creating"
    /\ keyFile' = s /\ cipher' = [cipher EXCEPT ![s] = s]
    /\ UNCHANGED <<rows, tx, stamp, handed>>

KeyLoad(s) ==
    /\ cipher[s] = "none" /\ keyFile \in Servers
    /\ cipher' = [cipher EXCEPT ![s] = keyFile]
    /\ UNCHANGED <<keyFile, rows, tx, stamp, handed>>

(* ---------------------------- transactions ----------------------------- *)

Row(p) == {r \in rows : r.provider = p}

\* What a transaction has read of the row it is about, and was asked to write.
TxRead(op, p, m, key) ==
    [op |-> op, provider |-> p, first |-> rows = {},
     id |-> IF Row(p) = {} THEN 0 ELSE (CHOOSE r \in Row(p) : TRUE).id,
     was |-> \E r \in Row(p) : r.default,
     model |-> m, key |-> IF key THEN 1 ELSE 0]

\* The reads of upsert_provider_setting, set_default_provider and
\* delete_provider_setting.  A first row needs a key, an update a key or a
\* model; a provider that is not configured is neither selected nor deleted.
SettingsBegin(s) ==
    /\ tx[s] = NoTx /\ cipher[s] \in Servers
    /\ \E p \in ProviderSet, op \in {"upsert", "default", "delete"},
          m \in Models, key \in BOOLEAN :
        /\ op # "upsert" => Row(p) # {} /\ ~key /\ m = CHOOSE x \in Models : TRUE
        /\ op = "upsert" /\ Row(p) = {} => key
        /\ tx' = [tx EXCEPT ![s] = TxRead(op, p, m, key)]
    /\ UNCHANGED <<keyFile, cipher, rows, stamp, handed>>

\* The unique constraints: one row per provider, one default.  The partial
\* index is not deferrable and fails the statement.
Consistent(new) ==
    /\ \A r, q \in new : r.provider = q.provider => r = q
    /\ Cardinality({r \in new : r.default}) <= 1

Inserted(s, t) ==
    rows \cup {[id |-> Fresh, provider |-> t.provider, model |-> t.model,
                key |-> Fresh, by |-> cipher[s], revision |-> Fresh,
                default |-> t.first]}

\* Mutant: an update with a new key keeps the revision.
UpdatedQuietly(s, t) ==
    {IF r.id # t.id THEN r
     ELSE [r EXCEPT !.model = t.model,
                    !.key = IF t.key = 1 THEN Fresh ELSE @,
                    !.by = IF t.key = 1 THEN cipher[s] ELSE @] : r \in rows}
Updated(s, t) ==
    {IF r.id # t.id THEN r
     ELSE [r EXCEPT !.model = t.model, !.revision = Fresh,
                    !.key = IF t.key = 1 THEN Fresh ELSE @,
                    !.by = IF t.key = 1 THEN cipher[s] ELSE @] : r \in rows}

Selected(t) ==
    {[r EXCEPT !.default = (r.id = t.id),
               !.revision = IF r.id = t.id THEN Fresh ELSE @] : r \in rows}

\* _preferred_setting: the deployment's provider, else the first by name.
PreferredOf(left) ==
    LET ps == {r.provider : r \in left} IN
    IF Preferred \in ps THEN Preferred
    ELSE Providers[CHOOSE i \in DOMAIN Providers :
            /\ Providers[i] \in ps
            /\ \A j \in 1 .. i - 1 : Providers[j] \notin ps]

\* is_default was read with the row; a default that is deleted is replaced.
\* A row that is already gone is deleted with a warning.
Deleted(t) ==
    LET left == {r \in rows : r.id # t.id} IN
    IF left = {} \/ ~t.was THEN left
    ELSE {IF r.provider = PreferredOf(left)
          THEN [r EXCEPT !.default = TRUE, !.revision = Fresh] ELSE r : r \in left}

\* The writes and the commit; a row that is gone, or a constraint, rolls back.
SettingsCommit(s) ==
    LET t == tx[s]
        new == IF t.op = "delete" THEN Deleted(t)
               ELSE IF t.op = "default" THEN Selected(t)
               ELSE IF t.id = 0 THEN Inserted(s, t) ELSE Updated(s, t)
        found == t.op = "delete" \/ t.id = 0 \/ \E r \in rows : r.id = t.id IN
    /\ t # NoTx /\ stamp < MaxStamp
    /\ tx' = [tx EXCEPT ![s] = NoTx]
    /\ IF found /\ Consistent(new)
       THEN rows' = new /\ stamp' = stamp + 1
       ELSE UNCHANGED <<rows, stamp>>
    /\ UNCHANGED <<keyFile, cipher, handed>>

(* --------------------------- runtime settings -------------------------- *)

Configured == {r.provider : r \in rows}
DefaultProvider ==
    IF \E r \in rows : r.default THEN (CHOOSE r \in rows : r.default).provider
    ELSE IF rows = {} THEN "none" ELSE PreferredOf(rows)

\* The digest of id, provider, model, revision and is_default of every row.
Revision == {<<r.id, r.provider, r.model, r.revision, r.default>> : r \in rows}
Effective ==
    [configs |-> {<<r.provider, r.key, r.model>> : r \in rows},
     default |-> DefaultProvider]

\* get_runtime_llm_settings: every credential must decrypt.
RuntimeSettings(s) ==
    /\ cipher[s] \in Servers /\ \A r \in rows : r.by = cipher[s]
    /\ handed' = handed \cup {[revision |-> Revision, effective |-> Effective]}
    /\ UNCHANGED <<keyFile, cipher, rows, tx, stamp>>

SettingsNext ==
    \E s \in Servers :
        \/ KeyCreate(s) \/ KeyWrite(s) \/ KeyLoad(s)
        \/ SettingsBegin(s) \/ SettingsCommit(s) \/ RuntimeSettings(s)

SettingsSpec == SettingsInit /\ [][SettingsNext]_setVars

(* ----------------------------- properties ------------------------------ *)

\* A revision stands for one set of credentials, models and default for ever,
\* so an answer cached under it is never served for other settings; and every
\* server can decrypt what any server has stored, with the key file they share.
\* (Under a list of keys in the environment that is the operator's duty.)
RevisionIdentifies ==
    /\ \A a, b \in handed : a.revision = b.revision => a.effective = b.effective
    /\ \A r \in rows : r.by = keyFile
============================================================================
