-------------------------- MODULE KeystoreProofs ---------------------------
(***************************************************************************)
(* Keystore, for any keys and credentials and any number of commands and   *)
(* crashes: its types, that a migration that ends well leaves keys to sign *)
(* with, and that no crash loses a key.                                    *)
(***************************************************************************)
EXTENDS Keystore, SequenceTheorems, TLAPS

\* Lists of layers, by what a layer is.
LEMMA LayersAreSeq ==
    \E S : Layers = Seq(S) /\ \A c \in Credentials : Layer(1, c) \in S /\ Layer(2, c) \in S
<1> WITNESS [version : Versions, credential : Credentials]
<1> QED BY DEF Layers, Layer, Versions

\* A key that is read from a file is a list of layers.
LEMMA ReadType ==
    ASSUME NEW version, NEW c, NEW value \in Values \ {Absent},
           NEW key \in ReadKey(version, c, value)
    PROVE  key \in Layers
<1>0. PICK S : Layers = Seq(S)
  BY LayersAreSeq
<1>1. CASE version = 1
  <2>1. key = <<>>
    BY <1>1 DEF ReadKey, key_pair
  <2> QED BY <1>0, <2>1
<1>2. CASE version # 1
  <2>1. key \in decrypt_key(c, value) /\ value \in Layers
    BY <1>2 DEF ReadKey, raw_key, Values
  <2>2. value # <<>> => Front(value) \in Layers
    BY <1>0, <2>1 DEF Front
  <2> QED BY <2>1, <2>2 DEF decrypt_key
<1> QED BY <1>1, <1>2

\* So is a key that is written.
LEMMA WriteType ==
    ASSUME NEW key \in Layers, NEW c \in Credentials
    PROVE  encrypt_key(c, key) \in Layers
<1>0. PICK S : Layers = Seq(S) /\ Layer(2, c) \in S
  BY LayersAreSeq
<1> QED BY <1>0, AppendProperties DEF encrypt_key

\* A bare key can be read with the credential it is written with.
LEMMA WrittenCanSign ==
    ASSUME NEW c \in Credentials
    PROVE  CanSign(c, encrypt_key(c, <<>>))
<1> DEFINE value == encrypt_key(c, <<>>)
<1> SUFFICES CanSign(c, value)
  OBVIOUS
<1>0. value \in Layers
  <2>1. <<>> \in Layers
    BY LayersAreSeq
  <2> QED BY <2>1, WriteType
<1>1. value # Torn
  BY <1>0, KeystoreAssumption
<1>2. CASE c = NoCredential
  <2>1. value = <<>>
    BY <1>2 DEF encrypt_key
  <2> QED BY <1>1, <1>2, <2>1 DEF CanSign, raw_key, Phrase, decrypt_key
<1>3. CASE c # NoCredential
  <2>1. value = <<Layer(2, c)>>
    BY <1>3 DEF encrypt_key
  <2>2. value # <<>> /\ Last(value) = Layer(2, c) /\ Front(value) = <<>>
    BY <2>1 DEF Last, Front
  <2>3. ~Phrase(value)
    BY <2>2 DEF Phrase, Layer
  <2> HIDE DEF value
  <2> QED BY <1>1, <1>3, <2>2, <2>3 DEF CanSign, raw_key, decrypt_key
<1> QED BY <1>2, <1>3

---------------------------------------------------------------------------
(* Types.                                                                  *)

BackupType == backup \in [{"first", "later"} -> Seq([Keys -> Values])]

\* A backup is a whole one of all the keys asked for.
LEMMA BackupStep ==
    ASSUME files \in [Keys -> Values], BackupType,
           \A copy \in Copies : Len(copy) <= 1,
           backup.first = <<>> => backup.later = <<>>,
           NEW ks \in SUBSET Keys, Backup(ks)
    PROVE  /\ BackupType'
           /\ \A copy \in Copies' : copy \in Seq([Keys -> Values]) /\ Len(copy) <= 1
           /\ backup'.first # <<>>
           /\ \E copy \in Copies' : /\ copy # <<>>
                                    /\ \A k \in ks : files[k] # Absent => copy[1][k] = files[k]
<1> DEFINE b == backup[Target]
           old == IF b = <<>> THEN Nothing ELSE b[1]
           new == CopyOf(ks, old)
           single == <<new>>
<1>1. Target \in {"first", "later"} /\ (Target = "later" => backup.first # <<>>)
  BY DEF Target
<1>2. b \in Seq([Keys -> Values])
  BY <1>1 DEF BackupType
<1>3. old \in [Keys -> Values]
  <2>1. Nothing \in [Keys -> Values]
    BY DEF Nothing, Values
  <2>2. b # <<>> => b[1] \in [Keys -> Values]
    BY <1>2
  <2> QED BY <2>1, <2>2
<1>4. new \in [Keys -> Values] /\ \A k \in ks : files[k] # Absent => new[k] = files[k]
  BY <1>3 DEF CopyOf
<1>5. backup' = [backup EXCEPT ![Target] = single]
  BY <1>1 DEF Backup, BackupType
<1>6. single \in Seq([Keys -> Values]) /\ Len(single) = 1 /\ single[1] = new /\ single # <<>>
  <2> HIDE DEF new
  <2> QED BY <1>4
<1> HIDE DEF new, single
<1>7. BackupType'
  BY <1>5, <1>6, Zenon DEF BackupType
<1>8. backup'[Target] = single /\ \A s \in {"first", "later"} : s # Target => backup'[s] = backup[s]
  BY <1>1, <1>5 DEF BackupType
<1>9. \A copy \in Copies' : copy \in {single, backup["first"], backup["later"]}
  BY <1>1, <1>8 DEF Copies
<1>10. single \in Copies'
  BY <1>1, <1>8 DEF Copies
<1>11. backup'.first # <<>>
  BY <1>1, <1>6, <1>8
<1>12. \A copy \in Copies' : copy \in Seq([Keys -> Values]) /\ Len(copy) <= 1
  <2>1. \A s \in {"first", "later"} :
          backup[s] \in Seq([Keys -> Values]) /\ Len(backup[s]) <= 1
    BY DEF BackupType, Copies
  <2> SUFFICES ASSUME NEW copy \in Copies'
               PROVE  copy \in Seq([Keys -> Values]) /\ Len(copy) <= 1
    OBVIOUS
  <2>2. CASE copy = single
    <3>1. single \in Seq([Keys -> Values])
      BY <1>6
    <3>2. Len(single) = 1
      BY <1>6
    <3>3. Len(copy) <= 1
      <4>1. Len(copy) = 1
        BY <2>2, <3>2, Zenon
      <4> HIDE <2>2, <3>2
      <4> QED BY <4>1, SMT
    <3> QED BY <2>2, <3>1, <3>3
  <2>3. CASE copy = backup["first"] \/ copy = backup["later"]
    BY <2>1, <2>3
  <2> QED BY <1>9, <2>2, <2>3
<1>13. \E copy \in Copies' : /\ copy # <<>>
                             /\ \A k \in ks : files[k] # Absent => copy[1][k] = files[k]
  BY <1>4, <1>6, <1>10
<1> QED BY <1>7, <1>11, <1>12, <1>13

\* Every step keeps the types.
LEMMA StepType == TypeOK /\ BackupType /\ [Next]_vars => TypeOK' /\ BackupType'
<1> SUFFICES ASSUME TypeOK, BackupType, [Next]_vars PROVE TypeOK' /\ BackupType'
  OBVIOUS
<1> USE KeystoreAssumption
<1>0. NoCredential \in Credentials /\ Versions = {1, 2} /\ Layers \subseteq Values
  BY DEF Credentials, Versions, Values
<1>1. ASSUME NEW k \in Keys, create_new_keypair(k) PROVE TypeOK' /\ BackupType'
  <2>1. encrypt_key(config, <<>>) \in Layers
    <3>1. <<>> \in Layers
      BY LayersAreSeq
    <3> QED BY <3>1, WriteType DEF TypeOK
  <2>2. files' = [files EXCEPT ![k] = encrypt_key(config, <<>>)]
        /\ UNCHANGED <<backup, config, cmd, commands, crashes, retried>>
        /\ cmd.at = "none"
    BY <1>1 DEF create_new_keypair
  <2>3. files' \in [Keys -> Values] /\ Stored \subseteq Stored'
    BY <1>0, <2>1, <2>2 DEF TypeOK, Stored
  <2> QED BY <2>2, <2>3 DEF TypeOK, BackupType, Copies
<1>2. ASSUME NEW version \in Versions, NEW new \in Credentials, Load(version, new)
      PROVE  TypeOK' /\ BackupType'
  <2>1. UNCHANGED <<files, backup, config, crashes>> /\ commands' \in 0 .. MaxCommands
        /\ retried' \in BOOLEAN
    BY <1>2 DEF Load, TypeOK
  <2>2. cmd' \in [at : {"none", "loaded", "insert", "done"}, version : Versions,
                   new : Credentials, todo : SUBSET Stored, sound : BOOLEAN]
    BY <1>2 DEF Load
  <2> QED BY <2>1, <2>2 DEF TypeOK, BackupType, Copies, Stored
<1>3. NoCommand \in [at : {"none", "loaded", "insert", "done"}, version : Versions,
                      new : Credentials, todo : SUBSET Stored', sound : BOOLEAN]
  BY <1>0 DEF NoCommand
<1>4. CASE BackUp \/ \E ks \in SUBSET Keys : BackUpFails(ks)
  <2>1. PICK ks \in SUBSET Keys : Backup(ks)
    BY <1>4 DEF BackUp, BackUpFails
  <2>2. /\ BackupType' /\ (backup.first = <<>> => backup.later = <<>>)'
        /\ \A copy \in Copies' : copy \in Seq([Keys -> Values]) /\ Len(copy) <= 1
    BY <2>1, BackupStep DEF TypeOK
  <2>3. UNCHANGED <<files, config, commands, retried>> /\ crashes' \in 0 .. MaxCrashes
        /\ cmd' \in {[cmd EXCEPT !.at = "insert"], NoCommand}
    BY <1>4 DEF BackUp, BackUpFails, TypeOK
  <2>4. cmd' \in [at : {"none", "loaded", "insert", "done"}, version : Versions,
                   new : Credentials, todo : SUBSET Stored', sound : BOOLEAN]
    BY <1>3, <2>3 DEF TypeOK, Stored
  <2> QED BY <2>2, <2>3, <2>4 DEF TypeOK
<1>5. ASSUME NEW k \in Keys, insert_key(k) PROVE TypeOK' /\ BackupType'
  <2>1. k \in Stored /\ files[k] \in Values \ {Absent}
    BY <1>5 DEF insert_key, TypeOK, Stored
  <2>2. PICK key \in Layers : files' = [files EXCEPT ![k] = encrypt_key(cmd.new, key)]
    BY <1>5, <2>1, ReadType, Zenon DEF insert_key
  <2>3. encrypt_key(cmd.new, key) \in Layers
    BY WriteType DEF TypeOK
  <2>4. files' \in [Keys -> Values] /\ Stored' = Stored
    BY <1>0, <2>1, <2>2, <2>3 DEF TypeOK, Stored
  <2>5. UNCHANGED <<backup, config, commands, crashes, retried>>
        /\ cmd' = [cmd EXCEPT !.todo = @ \ {k}]
    BY <1>5 DEF insert_key
  <2>6. cmd' \in [at : {"none", "loaded", "insert", "done"}, version : Versions,
                   new : Credentials, todo : SUBSET Stored', sound : BOOLEAN]
    BY <2>4, <2>5 DEF TypeOK
  <2> QED BY <2>4, <2>5, <2>6 DEF TypeOK, BackupType, Copies
<1>6. ASSUME NEW k \in Keys, Panics(k) PROVE TypeOK' /\ BackupType'
  BY <1>3, <1>6 DEF Panics, TypeOK, BackupType, Copies
<1>7. ASSUME NEW torn \in SUBSET Keys, Stops(torn) PROVE TypeOK' /\ BackupType'
  <2>1. files' \in [Keys -> Values]
    BY <1>7 DEF Stops, TypeOK, Values
  <2>2. crashes' \in 0 .. MaxCrashes /\ cmd' = NoCommand /\ UNCHANGED <<backup, config, commands, retried>>
    BY <1>7 DEF Stops, TypeOK
  <2> QED BY <1>3, <2>1, <2>2 DEF TypeOK, BackupType, Copies
<1>8. CASE Succeeds
  BY <1>8 DEF Succeeds, TypeOK, BackupType, Copies, Stored
<1>9. CASE Configure
  BY <1>3, <1>9 DEF Configure, TypeOK, BackupType, Copies
<1>10. CASE UNCHANGED vars
  BY <1>10 DEF vars, TypeOK, BackupType, Copies, Stored
<1> QED
  BY <1>1, <1>2, <1>4, <1>5, <1>6, <1>7, <1>8, <1>9, <1>10 DEF Next

\* The variables keep their types, and the first backup comes first.
THEOREM TypeCorrect == Spec => [](TypeOK /\ BackupType)
<1>1. Init => TypeOK /\ BackupType
  <2> SUFFICES ASSUME Init PROVE TypeOK /\ BackupType
    OBVIOUS
  <2>1. PICK S : Layers = Seq(S) /\ \A c \in Credentials : Layer(1, c) \in S
    BY LayersAreSeq
  <2>2. config \in Credentials
    BY DEF Init
  <2>3. <<>> \in Layers /\ V1Phrase(config) \in Layers
    BY <2>1, <2>2 DEF V1Phrase
  <2>4. encrypt_key(config, <<>>) \in Layers
    BY <2>2, <2>3, WriteType
  <2>5. files \in [Keys -> Values]
    BY <2>3, <2>4 DEF Init, Values
  <2>6. BackupType /\ Copies = {<<>>}
    BY DEF Init, BackupType, Copies
  <2>7. cmd \in [at : {"none", "loaded", "insert", "done"}, version : Versions,
                  new : Credentials, todo : SUBSET Stored, sound : BOOLEAN]
    BY DEF Init, NoCommand, Versions, Credentials
  <2>8. commands \in 0 .. MaxCommands /\ crashes \in 0 .. MaxCrashes
    BY KeystoreAssumption DEF Init
  <2>9. retried \in BOOLEAN /\ (backup.first = <<>> => backup.later = <<>>)
    BY Zenon DEF Init
  <2>10. \A copy \in Copies : copy \in Seq([Keys -> Values]) /\ Len(copy) <= 1
    BY <2>6
  <2> QED BY <2>2, <2>5, <2>6, <2>7, <2>8, <2>9, <2>10 DEF TypeOK
<1> QED BY <1>1, StepType, PTL DEF Spec

---------------------------------------------------------------------------
(* A migration that ends well.  The keys that are left to insert can still *)
(* be read as the command was told to, the others with the new credential. *)

Progress ==
    cmd.at # "none" /\ cmd.sound =>
        /\ cmd.at = "done" => cmd.todo = {}
        /\ cmd.at = "loaded" => cmd.todo = Stored
        /\ \A k \in cmd.todo : ReadKey(cmd.version, config, files[k]) = {<<>>}
        /\ \A k \in Stored \ cmd.todo : CanSign(cmd.new, files[k])

\* Every step keeps the progress of the command.
LEMMA StepProgress == TypeOK /\ Progress /\ [Next]_vars => Progress'
<1> SUFFICES ASSUME TypeOK, Progress, [Next]_vars PROVE Progress'
  OBVIOUS
<1>0. NoCommand.at = "none"
  BY DEF NoCommand
<1>1. ASSUME NEW k \in Keys, create_new_keypair(k) PROVE Progress'
  BY <1>1 DEF create_new_keypair, Progress
<1>2. ASSUME NEW version \in Versions, NEW new \in Credentials, Load(version, new)
      PROVE  Progress'
  BY <1>2, Zenon DEF Load, Progress, Stored
<1>3. CASE BackUp
  BY <1>3 DEF BackUp, Progress, Stored, TypeOK
<1>4. CASE \E ks \in SUBSET Keys : BackUpFails(ks)
  BY <1>0, <1>4 DEF BackUpFails, Progress
<1>5. ASSUME NEW k \in Keys, insert_key(k) PROVE Progress'
  <2>1. PICK key \in ReadKey(cmd.version, config, files[k]) :
          files' = [files EXCEPT ![k] = encrypt_key(cmd.new, key)]
    BY <1>5, Zenon DEF insert_key
  <2>2. /\ cmd.at = "insert" /\ k \in cmd.todo /\ config' = config
        /\ cmd' = [cmd EXCEPT !.todo = @ \ {k}]
    BY <1>5 DEF insert_key
  <2>3. /\ cmd'.at = "insert" /\ cmd'.sound = cmd.sound /\ cmd'.version = cmd.version
        /\ cmd'.new = cmd.new /\ cmd'.todo = cmd.todo \ {k}
    BY <2>2 DEF TypeOK
  <2> SUFFICES ASSUME cmd.sound PROVE Progress'
    BY <2>3 DEF Progress
  <2>4. key = <<>>
    BY <2>1, <2>2 DEF Progress
  <2>5. CanSign(cmd.new, encrypt_key(cmd.new, <<>>))
    BY WrittenCanSign DEF TypeOK
  <2>6. files'[k] = encrypt_key(cmd.new, <<>>) /\ \A j \in Keys \ {k} : files'[j] = files[j]
    BY <2>1, <2>4 DEF TypeOK
  <2>7. \A j \in cmd'.todo : ReadKey(cmd.version, config, files'[j]) = {<<>>}
    BY <2>2, <2>3, <2>6 DEF Progress, TypeOK, Stored
  <2>8. \A j \in Stored' \ cmd'.todo : CanSign(cmd.new, files'[j])
    BY <2>2, <2>3, <2>5, <2>6 DEF Progress, Stored
  <2> QED BY <2>2, <2>3, <2>7, <2>8, Zenon DEF Progress
<1>6. ASSUME NEW k \in Keys, Panics(k) PROVE Progress'
  BY <1>0, <1>6 DEF Panics, Progress
<1>7. ASSUME NEW torn \in SUBSET Keys, Stops(torn) PROVE Progress'
  BY <1>0, <1>7 DEF Stops, Progress
<1>8. CASE Succeeds
  BY <1>8 DEF Succeeds, Progress, Stored, TypeOK
<1>9. CASE Configure
  BY <1>0, <1>9 DEF Configure, Progress
<1>10. CASE UNCHANGED vars
  BY <1>10, Zenon DEF vars, Progress, Stored
<1> QED
  BY <1>1, <1>2, <1>3, <1>4, <1>5, <1>6, <1>7, <1>8, <1>9, <1>10 DEF Next

\* When migrate-keystore ends well, every key that could be read with the old credential
\* can be signed with under the new one, keystores of version 1 included: for any number
\* of keys and any sequence of commands before it.
THEOREM MigrationsPreserveKeys == Spec => []Migrated
<1>1. Init => Progress
  BY DEF Init, Progress, NoCommand
<1>2. TypeOK /\ Progress => Migrated
  BY DEF Progress, Migrated
<1> QED BY <1>1, <1>2, TypeCorrect, StepProgress, PTL DEF Spec

---------------------------------------------------------------------------
(* No crash loses a key.  Until a command is started over a torn file, no  *)
(* file is torn while a command runs, and when it starts to write every    *)
(* key is whole in a backup.                                               *)

Saved(k) == \E copy \in Copies : WholeIn(copy, k)

Safe ==
    ~retried =>
        /\ cmd.at # "none" => \A k \in Stored : files[k] # Torn
        /\ cmd.at = "insert" => \A k \in Stored : Saved(k)
        /\ \A k \in Stored : files[k] # Torn \/ Saved(k)

\* Every step keeps the keys.
LEMMA StepSafe == TypeOK /\ BackupType /\ Safe /\ [Next]_vars => Safe'
<1> SUFFICES ASSUME TypeOK, BackupType, Safe, [Next]_vars PROVE Safe'
  OBVIOUS
<1> USE KeystoreAssumption
<1>0. NoCommand.at = "none"
  BY DEF NoCommand
<1>a. ASSUME UNCHANGED backup PROVE \A k : Saved(k) => Saved(k)'
  BY <1>a DEF Saved, Copies, WholeIn
<1>1. ASSUME NEW k \in Keys, create_new_keypair(k) PROVE Safe'
  <2>1. files' = [files EXCEPT ![k] = encrypt_key(config, <<>>)]
        /\ UNCHANGED <<backup, cmd, retried>> /\ cmd.at = "none"
    BY <1>1 DEF create_new_keypair
  <2>2. encrypt_key(config, <<>>) \in Layers
    <3>1. <<>> \in Layers
      BY LayersAreSeq
    <3> QED BY <3>1, WriteType DEF TypeOK
  <2>3. \A j \in Stored' : files'[j] # Torn \/ (j \in Stored /\ files[j] = Torn)
    BY <2>1, <2>2 DEF Stored, TypeOK
  <2> QED BY <1>a, <2>1, <2>3 DEF Safe
<1>2. ASSUME NEW version \in Versions, NEW new \in Credentials, Load(version, new)
      PROVE  Safe'
  <2>1. /\ UNCHANGED <<files, backup>> /\ cmd'.at = "loaded" /\ Stored' = Stored
        /\ retried' = (retried \/ \E k \in Stored : files[k] = Torn)
    BY <1>2 DEF Load, Stored
  <2> QED BY <1>a, <2>1, Zenon DEF Safe
<1>3. CASE BackUp \/ \E ks \in SUBSET Keys : BackUpFails(ks)
  <2>1. /\ UNCHANGED <<files, retried>> /\ cmd.at = "loaded" /\ Stored' = Stored
        /\ cmd' \in {[cmd EXCEPT !.at = "insert"], NoCommand}
    BY <1>3 DEF BackUp, BackUpFails, Stored
  <2> SUFFICES ASSUME ~retried PROVE Safe'
    BY <2>1 DEF Safe
  <2>2. \A k \in Stored : files[k] # Torn
    BY <2>1 DEF Safe
  <2>3. cmd'.at = "insert" => \A k \in Stored : Saved(k)'
    <3> SUFFICES ASSUME cmd'.at = "insert" PROVE \A k \in Stored : Saved(k)'
      OBVIOUS
    <3>1. Backup(Keys)
      BY <1>0, <1>3 DEF BackUp, BackUpFails
    <3>2. PICK copy \in Copies' :
            copy # <<>> /\ \A k \in Keys : files[k] # Absent => copy[1][k] = files[k]
      BY <3>1, BackupStep DEF TypeOK
    <3> QED BY <2>2, <3>2 DEF Saved, WholeIn, Stored
  <2> QED BY <2>1, <2>2, <2>3 DEF Safe
<1>4. ASSUME NEW k \in Keys, insert_key(k) PROVE Safe'
  <2>1. k \in Stored /\ files[k] \in Values \ {Absent}
    BY <1>4 DEF insert_key, TypeOK, Stored
  <2>2. PICK key \in Layers : files' = [files EXCEPT ![k] = encrypt_key(cmd.new, key)]
    BY <1>4, <2>1, ReadType, Zenon DEF insert_key
  <2>3. encrypt_key(cmd.new, key) \in Layers
    BY WriteType DEF TypeOK
  <2>4. UNCHANGED <<backup, retried>> /\ cmd.at = "insert"
    BY <1>4 DEF insert_key
  <2>5. Stored' = Stored /\ \A j \in Stored : files[j] # Torn => files'[j] # Torn
    BY <2>1, <2>2, <2>3 DEF TypeOK, Stored
  <2> QED BY <1>a, <2>4, <2>5 DEF Safe
<1>5. ASSUME NEW torn \in SUBSET Keys, Stops(torn) PROVE Safe'
  <2>1. /\ UNCHANGED <<backup, retried>> /\ cmd.at = "insert" /\ cmd' = NoCommand
        /\ torn \subseteq Stored
        /\ files' = [k \in Keys |-> IF k \in torn THEN Torn ELSE files[k]]
    BY <1>5 DEF Stops, TypeOK
  <2>2. Stored' = Stored
    BY <2>1 DEF TypeOK, Stored
  <2> QED BY <1>0, <1>a, <2>1, <2>2 DEF Safe
<1>6. CASE Succeeds \/ Configure \/ \E k \in Keys : Panics(k)
  <2>1. UNCHANGED <<files, backup, retried>> /\ cmd.at # "none" /\ Stored' = Stored
        /\ cmd'.at # "insert"
    BY <1>0, <1>6 DEF Succeeds, Configure, Panics, Stored, TypeOK
  <2> QED BY <1>a, <2>1 DEF Safe
<1>7. CASE UNCHANGED vars
  BY <1>7, <1>a DEF vars, Safe, Stored
<1> QED
  BY <1>1, <1>2, <1>3, <1>4, <1>5, <1>6, <1>7 DEF Next

\* Whatever step of migrate-keystore a crash hits, every key is whole in the directory or
\* in a backup, as long as no command is started over a torn file.
THEOREM CrashesLoseNothing == Spec => []Recoverable
<1>1. Init => Safe
  <2> SUFFICES ASSUME Init PROVE Safe
    OBVIOUS
  <2>1. cmd.at = "none"
    BY DEF Init, NoCommand
  <2>2. \A k \in Stored : files[k] # Torn
    <3>1. PICK S : Layers = Seq(S) /\ \A c \in Credentials : Layer(1, c) \in S
      BY LayersAreSeq
    <3>2. config \in Credentials
      BY DEF Init
    <3>3. <<>> \in Layers /\ V1Phrase(config) \in Layers
      BY <3>1, <3>2 DEF V1Phrase
    <3>4. encrypt_key(config, <<>>) \in Layers
      BY <3>2, <3>3, WriteType
    <3> QED BY <3>3, <3>4, KeystoreAssumption DEF Init, Stored
  <2> QED BY <2>1, <2>2 DEF Safe
<1>2. Safe => Recoverable
  BY DEF Safe, Saved, Recoverable
<1> QED BY <1>1, <1>2, TypeCorrect, StepSafe, PTL DEF Spec
=============================================================================
