----------------------------- MODULE VaultKeys -----------------------------
(***************************************************************************)
(* The Bitcoin keys of one relay executive across vault migrations.        *)
(*                                                                         *)
(* The registration pool of Bifrost goes through Normal,                   *)
(* SetExecutiveMembers, PrepareNextSystemVault and UTXOTransfer, and back  *)
(* to Normal in the next round.  The relayer keeps one keystore directory  *)
(* per round, of which one is open (client/src/btc/storage/keypair), and   *)
(* four workers share it (periodic/src, client/src/btc): KeypairMigrator   *)
(* follows the pool and opens directories, PubKeySubmitter and             *)
(* PubKeyPreSubmitter make keys, PsbtSigner signs with them.  Extrinsics   *)
(* reach the pool late, or not at all.                                     *)
(***************************************************************************)
EXTENDS Naturals, FiniteSets

CONSTANTS
    Users,          \* users who may register for a vault
    System,         \* the registration of the system vault itself
    None,
    FirstRound,
    MaxRound, MaxAhead, MaxCrashes      \* bounds of the model

Rounds == FirstRound .. MaxRound + 1
States == {"Normal", "SetExecutiveMembers", "PrepareNextSystemVault", "UTXOTransfer"}

VARIABLES
    state, round,       \* service_state and current_round of the pool
    pending,            \* the round each user is registered in, 0 for none
    accepted,           \* keys the pool took: [who, round, dir]
    needed,             \* whether the pool cannot do without this relayer
    signed,             \* whether the transfer to the next vault has this relayer's signature
    ahead,              \* moves of the pool since the state in migration_sequence
    seq,                \* migration_sequence
    dir, loaded,        \* the open keystore directory, and loaded_round; 0 before the first
    mig,                \* where the migrator is, the state it fetched, moves of the pool
                        \* since, and whether it has yet to store its first state
    sub,                \* where the submitter is: target round, registration, key's directory
    pre,                \* where the presubmitter is
    extrinsics,                \* extrinsics under way
    wrong,              \* history: a withdrawal was signed while the pool was in UTXOTransfer
    hasty,              \* history: before the migrator's first tick the pool moved, or a
                        \* worker took the initial migration_sequence for its state
    crashes

pool   == <<state, round, pending, accepted, needed, signed, ahead>>
store  == <<seq, dir, loaded, mig>>
makers == <<sub, pre>>
vaultVars == <<pool, store, makers, extrinsics, wrong, hasty, crashes>>

\* Three states behind, the migrator would be at Normal with the pool in UTXOTransfer.
ASSUME RoundsAssumption ==
    /\ FirstRound \in Nat \ {0} /\ MaxRound \in Nat /\ FirstRound <= MaxRound
    /\ MaxAhead \in 0 .. 2 /\ MaxCrashes \in Nat
    /\ System \notin Users /\ None \notin Users \cup {System}

\* Nothing is said of what follows a hasty start.
Followed == ~hasty

---------------------------------------------------------------------------
(* The pool.                                                               *)

Register(u) ==
    /\ Followed /\ state = "Normal" /\ pending[u] = 0
    /\ pending' = [pending EXCEPT ![u] = round]
    /\ UNCHANGED <<state, round, accepted, needed, signed, ahead, store, makers, extrinsics, wrong, hasty, crashes>>

HasKey(who, r) == \E k \in accepted : k.who = who /\ k.round = r

\* A migration takes its time: a running migrator is at most MaxAhead states behind.
Move(from, to) ==
    /\ Followed /\ state = from /\ state' = to
    /\ IF mig.at = "down" THEN UNCHANGED <<ahead, mig, hasty>>
       ELSE /\ ahead < MaxAhead /\ ahead' = ahead + 1
            /\ mig' = [mig EXCEPT !.moves = @ + 1]
            /\ hasty' = (hasty \/ mig.first)

\* A round is long: when the next migration begins a running migrator has seen the end of
\* the last one, and the key of the system vault is no longer under way.
RoundIsOver ==
    /\ mig.at = "down" \/ ahead = 0
    /\ sub.who # System /\ \A x \in extrinsics : x.call # "SubmitSystemVaultKey"

\* The keys of enough executives, and their signatures, carry a migration on.  No run of
\* the presubmitter lasts from before a migration until after it.
Migrate ==
    /\ \/ /\ round < MaxRound /\ RoundIsOver
          /\ Move("Normal", "SetExecutiveMembers")
          /\ UNCHANGED <<round, signed>>
       \/ /\ Move("SetExecutiveMembers", "PrepareNextSystemVault")
          /\ UNCHANGED <<round, signed>>
       \/ /\ needed => HasKey(System, round + 1)
          /\ Move("PrepareNextSystemVault", "UTXOTransfer")
          /\ UNCHANGED <<round, signed>>
       \/ /\ needed => signed
          /\ pre.at = "idle"
          /\ Move("UTXOTransfer", "Normal")
          /\ round' = round + 1 /\ signed' = FALSE
    /\ UNCHANGED <<pending, accepted, needed, seq, dir, loaded, makers, extrinsics, wrong, crashes>>

\* The extrinsics that the pool takes; in maintenance only those of the system vault.
PoolTakes(x) ==
    \/ x.call = "SubmitSystemVaultKey" /\ state = "PrepareNextSystemVault" /\ x.round = round + 1
    \/ x.call = "SubmitVaultKey" /\ state = "Normal" /\ x.round = round /\ pending[x.who] = round
    \/ x.call = "VaultKeyPresubmission" /\ state = "Normal" /\ x.round = round
    \/ x.call = "SubmitSignedPsbt" /\ state = "UTXOTransfer" /\ x.round = round /\ x.who = System

\* try_send_unsigned_transaction: it gets through, now or after retries ...
PoolLands(x) ==
    /\ Followed /\ x \in extrinsics /\ PoolTakes(x)
    /\ extrinsics' = extrinsics \ {x}
    /\ IF x.call = "SubmitSignedPsbt"
       THEN signed' = TRUE /\ UNCHANGED accepted
       ELSE /\ accepted' = IF HasKey(x.who, x.round) THEN accepted
                           ELSE accepted \cup {[who |-> x.who, round |-> x.round, dir |-> x.dir]}
            /\ UNCHANGED signed
    /\ UNCHANGED <<state, round, pending, needed, ahead, store, makers, wrong, hasty, crashes>>

\* ... or its retries are used up.
GiveUp(x) ==
    /\ Followed /\ x \in extrinsics /\ ~PoolTakes(x)
    /\ extrinsics' = extrinsics \ {x}
    /\ UNCHANGED <<pool, store, makers, wrong, hasty, crashes>>

---------------------------------------------------------------------------
(* KeypairMigrator.  It holds the lock of migration_sequence from the      *)
(* moment it opens a directory until it has stored the new state.          *)

Down == [at |-> "down", state |-> "Normal", moves |-> 0, first |-> TRUE]

\* A worker reads migration_sequence, which the migrator does not hold.
ReadSequence ==
    /\ Followed /\ mig.at \notin {"down", "loading"}
    /\ hasty' = (hasty \/ (mig.first /\ seq # state))

Start ==
    /\ Followed /\ mig.at = "down"
    /\ mig' = [mig EXCEPT !.at = "starting"] /\ ahead' = 0
    /\ UNCHANGED <<state, round, pending, accepted, needed, signed, seq, dir, loaded, makers, extrinsics,
                   wrong, hasty, crashes>>

\* KeypairMigrator::initialize
InitialRound == IF state = "PrepareNextSystemVault" THEN round + 1 ELSE round

initialize ==
    /\ Followed /\ mig.at = "starting"
    /\ dir' = InitialRound /\ loaded' = InitialRound
    /\ mig' = [mig EXCEPT !.at = "idle"]
    /\ UNCHANGED <<pool, seq, makers, extrinsics, wrong, hasty, crashes>>

get_service_state ==
    /\ Followed /\ mig.at = "idle" /\ (seq # state \/ ahead > 0 \/ mig.first)
    /\ mig' = [mig EXCEPT !.at = "fetched", !.state = state, !.moves = 0]
    /\ UNCHANGED <<pool, seq, dir, loaded, makers, extrinsics,
                   wrong, hasty, crashes>>

\* Seeded defect: the keystore stays at the next round in UTXOTransfer.
RoundFor_forward(from, to) ==
    CASE from \in {"Normal", "SetExecutiveMembers"} /\ to = "PrepareNextSystemVault" -> round + 1
      [] from = "UTXOTransfer" /\ to = "Normal" -> round
      [] OTHER -> dir

\* The directory to open for a change of state, if any.
RoundFor(from, to) ==
    CASE from \in {"Normal", "SetExecutiveMembers"} /\ to = "PrepareNextSystemVault" -> round + 1
      [] from = "PrepareNextSystemVault" /\ to = "UTXOTransfer" -> round
      [] from = "UTXOTransfer" /\ to = "Normal" -> round
      [] OTHER -> dir

MigratorLoads ==
    /\ Followed /\ mig.at = "fetched"
    /\ mig' = [mig EXCEPT !.at = "loading"]
    /\ dir' = RoundFor(seq, mig.state)
    /\ UNCHANGED <<pool, seq, loaded, makers, extrinsics, wrong, hasty, crashes>>

\* Seeded defect: loaded_round is left as it was.
MigratorStores_unnumbered ==
    /\ Followed /\ mig.at = "loading"
    /\ loaded' = loaded /\ seq' = mig.state
    /\ mig' = [Down EXCEPT !.at = "idle", !.first = FALSE]
    /\ ahead' = mig.moves
    /\ UNCHANGED <<state, round, pending, accepted, needed, signed, dir, makers, extrinsics, wrong, hasty, crashes>>

MigratorStores ==
    /\ Followed /\ mig.at = "loading"
    /\ loaded' = dir /\ seq' = mig.state
    /\ mig' = [Down EXCEPT !.at = "idle", !.first = FALSE]
    /\ ahead' = mig.moves
    /\ UNCHANGED <<state, round, pending, accepted, needed, signed, dir, makers, extrinsics, wrong, hasty, crashes>>

---------------------------------------------------------------------------
(* PubKeySubmitter.                                                        *)

NoWork == [at |-> "idle", target |-> 0, who |-> None, dir |-> 0]

\* Both the submitter and its payload number the round this way.
TargetRound == IF seq = "Normal" THEN round ELSE round + 1

PendingRegistrations(r) ==
    {u \in Users : pending[u] = r /\ ~HasKey(u, r)}
      \cup {w \in {System} : state = "PrepareNextSystemVault" /\ r = round + 1 /\ ~HasKey(w, r)}

SubmitterLists ==
    /\ sub.at = "idle" /\ ReadSequence
    /\ PendingRegistrations(TargetRound) # {}
    /\ sub' = [NoWork EXCEPT !.at = "listed", !.target = TargetRound]
    /\ UNCHANGED <<pool, store, pre, extrinsics, wrong, crashes>>

\* In maintenance only the system vault is registered.
Eligible(who) == seq = "Normal" \/ who = System

SubmitterPicks(who) ==
    /\ sub.at = "listed" /\ ReadSequence
    /\ who \in PendingRegistrations(sub.target) /\ Eligible(who)
    /\ sub' = [sub EXCEPT !.at = "wait", !.who = who]
    /\ UNCHANGED <<pool, store, pre, extrinsics, wrong, crashes>>

SubmitterEnds ==
    /\ sub.at = "listed" /\ ReadSequence
    /\ \A who \in PendingRegistrations(sub.target) : ~Eligible(who)
    /\ sub' = NoWork
    /\ UNCHANGED <<pool, store, pre, extrinsics, wrong, crashes>>

\* Seeded defect: the submitter does not wait for its round.
LoadedRoundIsTarget_any == TRUE

\* It sleeps until loaded_round is its target.
LoadedRoundIsTarget == loaded = sub.target

SubmitterWakes ==
    /\ Followed /\ sub.at = "wait" /\ LoadedRoundIsTarget
    /\ sub' = [sub EXCEPT !.at = "create"]
    /\ UNCHANGED <<pool, store, pre, extrinsics, wrong, hasty, crashes>>

create_new_keypair ==
    /\ Followed /\ sub.at = "create" /\ dir # 0
    /\ sub' = [sub EXCEPT !.at = "made", !.dir = dir]
    /\ UNCHANGED <<pool, store, pre, extrinsics, wrong, hasty, crashes>>

\* build_payload numbers the round anew.
SubmitterSends ==
    /\ sub.at = "made" /\ ReadSequence
    /\ extrinsics' = extrinsics \cup {[call  |-> IF sub.who = System THEN "SubmitSystemVaultKey"
                                  ELSE "SubmitVaultKey",
                          who |-> sub.who, round |-> TargetRound, dir |-> sub.dir]}
    /\ sub' = NoWork
    /\ UNCHANGED <<pool, store, pre, wrong, crashes>>

---------------------------------------------------------------------------
(* PubKeyPreSubmitter and PsbtSigner.                                      *)

PresubmitterStarts ==
    /\ pre.at = "idle" /\ ReadSequence /\ seq = "Normal" /\ ~HasKey(None, round)
    /\ pre' = [at |-> "create", dir |-> 0]
    /\ UNCHANGED <<pool, store, sub, extrinsics, wrong, crashes>>

\* Seeded defect: keys are made before a keystore is open.
create_pub_keys_unloaded ==
    /\ Followed /\ pre.at = "create"
    /\ pre' = [at |-> "made", dir |-> dir]
    /\ UNCHANGED <<pool, store, sub, extrinsics, wrong, hasty, crashes>>

create_pub_keys ==
    /\ Followed /\ pre.at = "create" /\ dir # 0
    /\ pre' = [at |-> "made", dir |-> dir]
    /\ UNCHANGED <<pool, store, sub, extrinsics, wrong, hasty, crashes>>

PresubmitterSends ==
    /\ Followed /\ pre.at = "made"
    /\ extrinsics' = extrinsics \cup {[call |-> "VaultKeyPresubmission", who |-> None, round |-> round,
                          dir |-> pre.dir]}
    /\ pre' = [at |-> "idle", dir |-> 0]
    /\ UNCHANGED <<pool, store, sub, wrong, hasty, crashes>>

\* Seeded defect: withdrawals are signed in UTXOTransfer as well.
MaySign_any(kind) == seq \in {"Normal", "UTXOTransfer"}

\* The PSBTs that build_payload lets through, and those the open directory has keys for.
MaySign(kind) == seq = "Normal" \/ (seq = "UTXOTransfer" /\ kind = "transfer")

SignTransfer ==
    /\ state = "UTXOTransfer" /\ ~signed
    /\ ReadSequence /\ MaySign("transfer") /\ dir = round
    /\ extrinsics' = extrinsics \cup {[call |-> "SubmitSignedPsbt", who |-> System, round |-> round, dir |-> dir]}
    /\ UNCHANGED <<pool, store, makers, wrong, crashes>>

SignWithdrawal ==
    /\ ReadSequence /\ MaySign("withdrawal") /\ dir = round
    /\ wrong' = (wrong \/ state = "UTXOTransfer")
    /\ UNCHANGED <<pool, store, makers, extrinsics, crashes>>

---------------------------------------------------------------------------

\* The process ends (db() before a keystore is loaded, or any panic) and starts
\* again with migration_sequence at Normal.
ProcessEnds ==
    /\ Followed /\ mig.at # "down" /\ crashes < MaxCrashes /\ crashes' = crashes + 1
    /\ seq' = "Normal" /\ dir' = 0 /\ loaded' = 0
    /\ mig' = Down
    /\ sub' = NoWork /\ pre' = [at |-> "idle", dir |-> 0]
    /\ extrinsics' = {}
    /\ UNCHANGED <<pool, wrong, hasty>>

VaultInit ==
    /\ state = "Normal" /\ round = FirstRound
    /\ pending = [u \in Users |-> 0] /\ accepted = {} /\ signed = FALSE /\ ahead = 0
    /\ needed \in BOOLEAN
    /\ seq = "Normal" /\ dir = 0 /\ loaded = 0 /\ mig = Down
    /\ sub = NoWork /\ pre = [at |-> "idle", dir |-> 0]
    /\ extrinsics = {} /\ wrong = FALSE /\ hasty = FALSE /\ crashes = 0

Migrator == Start \/ initialize \/ get_service_state \/ MigratorLoads \/ MigratorStores

Submitter ==
    \/ SubmitterLists \/ SubmitterEnds \/ SubmitterWakes \/ create_new_keypair \/ SubmitterSends
    \/ \E who \in Users \cup {System} : SubmitterPicks(who)

Presubmitter == PresubmitterStarts \/ create_pub_keys \/ PresubmitterSends

Signer == SignTransfer \/ SignWithdrawal

PoolDelivers == \E x \in extrinsics : PoolLands(x) \/ GiveUp(x)

VaultNext ==
    \/ Migrator \/ Submitter \/ Presubmitter \/ Signer \/ PoolDelivers \/ ProcessEnds
    \/ Migrate \/ \E u \in Users : Register(u)

VaultSpec == VaultInit /\ [][VaultNext]_vaultVars

\* The pool goes on when it can, an extrinsic it keeps taking reaches it, and the
\* workers run.
VaultFairSpec ==
    /\ VaultSpec
    /\ WF_vaultVars(Migrator) /\ WF_vaultVars(Submitter) /\ WF_vaultVars(Presubmitter)
    /\ WF_vaultVars(SignTransfer) /\ WF_vaultVars(PoolDelivers) /\ SF_vaultVars(Migrate)

---------------------------------------------------------------------------

VaultCalls == {"SubmitSystemVaultKey", "SubmitVaultKey", "VaultKeyPresubmission", "SubmitSignedPsbt"}
Names == Users \cup {System, None}

\* Types.  No key is submitted or accepted that was made while no keystore directory was
\* open (PubKeySubmitter, PubKeyPreSubmitter).
VaultTypeOK ==
    /\ state \in States /\ round \in Rounds /\ needed \in BOOLEAN
    /\ pending \in [Users -> Rounds \cup {0}]
    /\ accepted \subseteq [who : Names, round : Rounds, dir : Rounds]
    /\ signed \in BOOLEAN /\ ahead \in 0 .. MaxAhead
    /\ seq \in States /\ dir \in Rounds \cup {0} /\ loaded \in Rounds \cup {0}
    /\ mig \in [at : {"down", "starting", "idle", "fetched", "loading"}, state : States,
                 moves : 0 .. MaxAhead, first : BOOLEAN]
    /\ sub \in [at : {"idle", "listed", "wait", "create", "made"}, target : Nat, who : Names,
                 dir : Rounds \cup {0}]
    /\ pre \in [at : {"idle", "create", "made"}, dir : Rounds \cup {0}]
    /\ extrinsics \subseteq [call : VaultCalls, who : Names, round : Nat, dir : Rounds]
    /\ wrong \in BOOLEAN /\ hasty \in BOOLEAN /\ crashes \in 0 .. MaxCrashes

\* A key the pool took for a round is in the keystore directory of that round, so the
\* relayer can sign with it when the round comes: although the migrator opens another
\* directory while PubKeySubmitter and PubKeyPreSubmitter are between numbering the round,
\* creating the keys and building the payload.
KeysAtHand == \A k \in accepted : k.dir = k.round

\* "Only transfer to new system vault is allowed on `UTXOTransfer` sequence": once the
\* migrator has stored its first state, the signer signs no withdrawal while the pool is
\* in UTXOTransfer, though the migrator may be two states behind.
NoWithdrawalInTransfer == wrong => hasty

\* The submitter sleeps until the round of a user's registration is loaded, while the
\* migrator has gone on to the next round.
Stuck == sub.at = "wait" /\ sub.who \in Users /\ state # "Normal"

\* A migration that needs this relayer's key and signature comes to its end, over crashes
\* in every state of the pool, unless the submitter is stuck.
Migrates == [](~Stuck /\ ~hasty) => ((state # "Normal") ~> (state = "Normal"))

\* The round whose keys the pool's state calls for.
Needed == IF state = "PrepareNextSystemVault" THEN round + 1 ELSE round

\* When the pool rests, the directory it needs is open and known by its number
\* (KeypairMigrator): the next round's in PrepareNextSystemVault, else the current one's.
KeysFollow == []~hasty => <>[](state = "SetExecutiveMembers" \/ loaded = Needed)
=============================================================================
