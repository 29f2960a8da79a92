----------------------------- MODULE Keystore ------------------------------
(***************************************************************************)
(* The keystore directory of one round and the migrate-keystore command    *)
(* (relayer/src/commands/migrate_keystore_cmd.rs), which encrypts every    *)
(* private key anew, in place, while the relayer is stopped.               *)
(*                                                                         *)
(* A stored private key is the list of the layers put around it, the       *)
(* outermost last; the bare key is <<>>.  A credential is a password or a  *)
(* KMS key (client/src/btc/storage/keypair); without a credential keys     *)
(* are stored bare.  Keystores of version 1 hold a phrase instead, which   *)
(* only the password they were made with turns into the key.               *)
(***************************************************************************)
EXTENDS Naturals, Sequences, SequencesExt, FiniteSets

CONSTANTS
    Keys,               \* public keys
    Passwords, KmsKeys, \* credentials
    NoCredential,
    Absent, Torn,       \* no file, and a file that a crash left unfinished
    MaxCommands, MaxCrashes     \* bounds of the model

Credentials == Passwords \cup KmsKeys \cup {NoCredential}
V1Credentials == Passwords \cup {NoCredential}
Versions == {1, 2}

\* The layers around a key.
Layers == Seq([version : Versions, credential : Credentials])

ASSUME KeystoreAssumption ==
    /\ MaxCommands \in Nat /\ MaxCrashes \in Nat
    /\ Absent \notin Layers /\ Torn \notin Layers /\ Absent # Torn

VARIABLES
    files,          \* the keystore directory
    backup,         \* <keystore>_backup, and below it the copy that later commands make
    config,         \* the credential in the configuration file
    cmd,            \* the command: where it is, its arguments, the keys left to insert
    commands, crashes,
    retried         \* history: a command was started on a directory with a torn file

vars == <<files, backup, config, cmd, commands, crashes, retried>>

---------------------------------------------------------------------------
(* KeypairStorageT.                                                        *)

Layer(version, c) == [version |-> version, credential |-> c]
V1Phrase(c) == <<Layer(1, c)>>

encrypt_key(c, key) == IF c = NoCredential THEN key ELSE Append(key, Layer(2, c))

\* What the storage reads; nothing where it panics.  AES-GCM and KMS refuse a wrong
\* credential, but with no credential the stored bytes are taken for the key.
Phrase(value) == value # <<>> /\ Last(value).version = 1

decrypt_key(c, value) ==
    IF c = NoCredential THEN {value}
    ELSE IF value # <<>> /\ Last(value) = Layer(2, c) THEN {Front(value)} ELSE {}

\* hex::decode refuses a phrase, and an unfinished file is no value.
raw_key(c, value) == IF value = Torn \/ Phrase(value) THEN {} ELSE decrypt_key(c, value)

\* LocalKeystore::key_pair
key_pair(c, value) == IF value = V1Phrase(c) THEN {<<>>} ELSE {}

ReadKey(version, c, value) == IF version = 1 THEN key_pair(c, value) ELSE raw_key(c, value)

\* get_key finds the private key of the public key asked for, or it panics.
CanSign(c, value) == raw_key(c, value) = {<<>>}

Stored == {k \in Keys : files[k] # Absent}

create_new_keypair(k) ==
    /\ cmd.at = "none" /\ files[k] = Absent
    /\ files' = [files EXCEPT ![k] = encrypt_key(config, <<>>)]
    /\ UNCHANGED <<backup, config, cmd, commands, crashes, retried>>

---------------------------------------------------------------------------
(* MigrateKeystoreCmd::run.                                                *)

NoCommand == [at |-> "none", version |-> 2, new |-> NoCredential, todo |-> {}, sound |-> TRUE]

Load(version, new) ==
    /\ cmd.at = "none" /\ commands < MaxCommands /\ commands' = commands + 1
    /\ version = 1 => config \in V1Credentials
    /\ cmd' = [at |-> "loaded", version |-> version, new |-> new, todo |-> Stored,
               sound |-> \A k \in Stored : ReadKey(version, config, files[k]) = {<<>>}]
    /\ retried' = (retried \/ \E k \in Stored : files[k] = Torn)
    /\ UNCHANGED <<files, backup, config, crashes>>

\* cp -r copies into the backup directory when there is one: over an earlier copy, but
\* never over the first backup.
Target == IF backup.first = <<>> THEN "first" ELSE "later"
CopyOf(ks, old) == [k \in Keys |-> IF k \in ks /\ files[k] # Absent THEN files[k] ELSE old[k]]
Nothing == [k \in Keys |-> Absent]

Backup(ks) == backup' = [backup EXCEPT ![Target] = <<CopyOf(ks, IF @ = <<>> THEN Nothing ELSE @[1])>>]

\* Seeded defect: only the first migration makes a backup.
BackUp_once ==
    /\ cmd.at = "loaded"
    /\ IF backup.first = <<>> THEN Backup(Keys) ELSE UNCHANGED backup
    /\ cmd' = [cmd EXCEPT !.at = "insert"]
    /\ UNCHANGED <<files, config, commands, crashes, retried>>

BackUp ==
    /\ cmd.at = "loaded"
    /\ Backup(Keys)
    /\ cmd' = [cmd EXCEPT !.at = "insert"]
    /\ UNCHANGED <<files, config, commands, crashes, retried>>

\* It stops in the middle of the copy.
BackUpFails(ks) ==
    /\ cmd.at = "loaded" /\ crashes < MaxCrashes /\ crashes' = crashes + 1
    /\ Backup(ks)
    /\ cmd' = NoCommand
    /\ UNCHANGED <<files, config, commands, retried>>

\* Seeded defect: keys are written with the credential they had.
insert_key_old(k) ==
    /\ cmd.at = "insert" /\ k \in cmd.todo
    /\ \E key \in ReadKey(cmd.version, config, files[k]) :
          files' = [files EXCEPT ![k] = encrypt_key(config, key)]
    /\ cmd' = [cmd EXCEPT !.todo = @ \ {k}]
    /\ UNCHANGED <<backup, config, commands, crashes, retried>>

insert_key(k) ==
    /\ cmd.at = "insert" /\ k \in cmd.todo
    /\ \E key \in ReadKey(cmd.version, config, files[k]) :
          files' = [files EXCEPT ![k] = encrypt_key(cmd.new, key)]
    /\ cmd' = [cmd EXCEPT !.todo = @ \ {k}]
    /\ UNCHANGED <<backup, config, commands, crashes, retried>>

Panics(k) ==
    /\ cmd.at = "insert" /\ k \in cmd.todo
    /\ ReadKey(cmd.version, config, files[k]) = {}
    /\ cmd' = NoCommand
    /\ UNCHANGED <<files, backup, config, commands, crashes, retried>>

\* The command is stopped: between two keys, or while it writes the file of a key.
Stops(torn) ==
    /\ cmd.at = "insert" /\ torn \subseteq cmd.todo /\ Cardinality(torn) <= 1
    /\ crashes < MaxCrashes /\ crashes' = crashes + 1
    /\ \A k \in torn : ReadKey(cmd.version, config, files[k]) # {}
    /\ files' = [k \in Keys |-> IF k \in torn THEN Torn ELSE files[k]]
    /\ cmd' = NoCommand
    /\ UNCHANGED <<backup, config, commands, retried>>

Succeeds ==
    /\ cmd.at = "insert" /\ cmd.todo = {}
    /\ cmd' = [cmd EXCEPT !.at = "done"]
    /\ UNCHANGED <<files, backup, config, commands, crashes, retried>>

\* The operator puts the new credential in the configuration file.
Configure ==
    /\ cmd.at = "done"
    /\ config' = cmd.new /\ cmd' = NoCommand
    /\ UNCHANGED <<files, backup, commands, crashes, retried>>

---------------------------------------------------------------------------

Init ==
    /\ config \in Credentials
    /\ \E ks \in SUBSET Keys, value \in {encrypt_key(config, <<>>)}
                                  \cup {V1Phrase(c) : c \in {config} \cap V1Credentials} :
          files = [k \in Keys |-> IF k \in ks THEN value ELSE Absent]
    /\ backup = [s \in {"first", "later"} |-> <<>>]
    /\ cmd = NoCommand /\ commands = 0 /\ crashes = 0 /\ retried = FALSE

Next ==
    \/ \E k \in Keys : create_new_keypair(k) \/ insert_key(k) \/ Panics(k)
    \/ \E version \in Versions, new \in Credentials : Load(version, new)
    \/ \E ks \in SUBSET Keys : BackUpFails(ks)
    \/ \E torn \in SUBSET Keys : Stops(torn)
    \/ BackUp \/ Succeeds \/ Configure

Spec == Init /\ [][Next]_vars

---------------------------------------------------------------------------

Values == Layers \cup {Absent, Torn}
Copies == {backup.first, backup.later}

\* Types.  The first backup is made before any later one (migrate_keystore_cmd).
TypeOK ==
    /\ files \in [Keys -> Values]
    /\ \A copy \in Copies : copy \in Seq([Keys -> Values]) /\ Len(copy) <= 1
    /\ backup.first = <<>> => backup.later = <<>>
    /\ config \in Credentials
    /\ cmd \in [at : {"none", "loaded", "insert", "done"}, version : Versions, new : Credentials,
                todo : SUBSET Stored, sound : BOOLEAN]
    /\ commands \in 0 .. MaxCommands /\ crashes \in 0 .. MaxCrashes /\ retried \in BOOLEAN

\* A directory whose keys could be read with the old credential can be signed with under
\* the new one when the command ends well, the keys of version 1 included.
Migrated ==
    cmd.at = "done" /\ cmd.sound => \A k \in Stored : CanSign(cmd.new, files[k])

WholeIn(copy, k) == copy # <<>> /\ copy[1][k] \notin {Absent, Torn}

\* "Backup the keystore": whatever step of whatever command a crash hits, every key is
\* whole in the directory or in a backup, until a command is started over a torn file
\* (its copy then replaces the later backup).
Recoverable ==
    ~retried => \A k \in Stored : files[k] # Torn \/ \E copy \in Copies : WholeIn(copy, k)
=============================================================================
