---------------------------- MODULE WalletVault ----------------------------
(***************************************************************************)
(* The encrypted wallet file, its backups, the config file and the session *)
(* key, under the commands that change them: init (init.ts), auth unlock   *)
(* and change-password (auth.ts), backup export and restore (backup.ts),   *)
(* over FileEncryptedWalletStore (encrypted-wallet.ts) and                 *)
(* FileBackupProvider (backup-file.ts).                                    *)
(*                                                                         *)
(* A process runs one command at a time. A step ends where the command     *)
(* waits (a prompt, a promise) or has changed a file. Prompts are answered *)
(* before the step that follows them. Encryption is perfect: a wallet file *)
(* opens with its own passphrase only. A command that its first checks     *)
(* refuse changes nothing and is left out.                                 *)
(***************************************************************************)
EXTENDS Naturals

CONSTANTS Procs,     \* CLI processes
          Keys,      \* private keys, and the addresses they have
          Passes,    \* passphrases of eight characters or more
          Outs,      \* paths a user names for a backup
          WalletPath, \* the path of wallet.json
          None,      \* no file, key, session or name
          Torn,      \* a file cut short
          MaxTime,   \* bound: seconds that pass
          Environments \* what may happen, one of them in a behavior

AllCommands == {"init", "unlock", "changePassword", "export", "restore"}
Replacing == {"init", "restore"}
Writing == Replacing \cup {"changePassword"}
Noted == Writing \cup {"unlock"}

EnvironmentType ==
    [background : SUBSET AllCommands, \* commands that may run beside each other
     crashes : BOOLEAN,               \* processes may be killed
     writeErrors : BOOLEAN,           \* writes may fail
     maxRuns : Nat]                   \* bound: commands that start

ASSUME EnvironmentsAssumption ==
    MaxTime \in Nat /\ Environments \subseteq EnvironmentType

VARIABLES wallet,   \* wallet.json
          backups,  \* the file at each backup path
          config,   \* config.json: the legacy plaintext key, if any, and
                    \* whether it still names the removed key store
          session,  \* the key the open session signs with
          made,     \* keys that exist
          clock,    \* seconds
          runs,     \* commands started
          env,      \* what may happen
          pc,       \* where each process is in its command
          job       \* its command, options, answers and data

files == <<wallet, backups, config>>
vars == <<wallet, backups, config, session, made, clock, runs, env, pc, job>>

Times == 0..MaxTime
Names == (Keys \X Times) \cup Outs
Wallets == [key : Keys, pass : Passes, born : Times]
IsFile(f) == f \notin {None, Torn}
Configs == [legacy : Keys \cup {None}, removed : BOOLEAN]

ASSUME NoneAssumption ==
    /\ None # Torn
    /\ {None, Torn} \cap (Keys \cup Passes \cup Wallets \cup Configs) = {}
    /\ {None, WalletPath} \cap Names = {}

Jobs == [cmd : AllCommands, force : BOOLEAN, keyed : BOOLEAN,
         key : Keys \cup {None}, pass : Passes \cup {None},
         new : Passes \cup {None}, out : Outs \cup {None},
         target : Names \cup {None, WalletPath}, data : Wallets \cup {None},
         was : Wallets \cup {None, Torn}, \* ghost: the file it will replace, as
                                          \* the command last saw or left it
         beside : SUBSET Noted]           \* ghost: what has run beside it

(* No command runs: the last one succeeded, or it failed. *)
Ended == {"done", "failed"}

NoJob == [cmd |-> "unlock", force |-> FALSE, keyed |-> FALSE, key |-> None,
          pass |-> None, new |-> None, out |-> None, target |-> None,
          data |-> None, was |-> None, beside |-> {}]

TypeOK ==
    /\ wallet \in Wallets \cup {None, Torn}
    /\ backups \in [Names -> Wallets \cup {None, Torn}]
    /\ config \in Configs \cup {Torn}
    /\ session \in Keys \cup {None}
    /\ made \subseteq Keys /\ clock \in Times
    /\ env \in Environments /\ runs \in 0..env.maxRuns
    /\ pc \in [Procs -> Ended \cup {"read", "check", "stage", "rename", "lock",
                                   "truncate", "config", "export", "start"}]
    /\ job \in [Procs -> Jobs]

Old == {None} \cup [key : Keys, pass : Passes, born : {0}]
KeysOf(f) == IF IsFile(f) THEN {f.key} ELSE {}

(* An installation as some session of use left it: with a wallet or        *)
(* without, perhaps a plaintext key, perhaps backups at paths of the user. *)
Init ==
    /\ env \in Environments
    /\ session = None /\ clock = 0 /\ runs = 0
    /\ wallet \in Old
    /\ config \in Configs
    /\ \E f \in Old :
          /\ backups = [n \in Names |-> IF n \in Outs THEN f ELSE None]
          /\ made = KeysOf(wallet) \cup KeysOf(f) \cup ({config.legacy} \ {None})
    /\ pc = [p \in Procs |-> "done"]
    /\ job = [p \in Procs |-> NoJob]

Tick ==
    /\ clock < MaxTime
    /\ clock' = clock + 1
    /\ UNCHANGED <<files, session, made, runs, env, pc, job>>

Opens(f, pass) == IsFile(f) /\ f.pass = pass

-----------------------------------------------------------------------------
(* Commands begin: the config is read, and options and answers taken.      *)

(* Commands that run, and those that have run beside them. *)
Neighbors(procs) ==
    UNION {({job[q].cmd} \cap Noted) \cup job[q].beside : q \in procs}

Begin(p, where, j) ==
    LET others == {q \in Procs : pc[q] \notin Ended}
    IN  /\ p \notin others /\ runs < env.maxRuns /\ config # Torn
        /\ \A q \in others : {j.cmd, job[q].cmd} \subseteq env.background
        /\ runs' = runs + 1
        /\ pc' = [pc EXCEPT ![p] = where]
        /\ job' = [q \in Procs |->
                      CASE q = p -> [j EXCEPT !.was = wallet, !.beside = Neighbors(others)]
                        [] q \in others ->
                              [job[q] EXCEPT !.beside = @ \cup ({j.cmd} \cap Noted)]
                        [] OTHER -> job[q]]
        /\ UNCHANGED <<files, session, clock, env>>

(* generatePrivateKey, for an init with neither --key nor a legacy key.     *)
Chosen(keyed) ==
    IF keyed THEN Keys
    ELSE IF config.legacy # None THEN {config.legacy} ELSE Keys \ made

(* An existing wallet needs --force. *)
MayReplace(force) == wallet = None \/ force

(* The removed 1Password configuration needs --key. *)
Supported(keyed) == config.removed => keyed

(* A variant whose creation time is rounded up. *)
EncryptLater(key, pass) == [key |-> key, pass |-> pass, born |-> clock + 1]

Encrypt(key, pass) == [key |-> key, pass |-> pass, born |-> clock]

BeginInit(p) ==
    \E force, keyed \in BOOLEAN, pass \in Passes :
        /\ config # Torn /\ MayReplace(force) /\ Supported(keyed)
        /\ \E k \in Chosen(keyed) :
              /\ Begin(p, "stage",
                       [NoJob EXCEPT !.cmd = "init", !.force = force,
                                     !.keyed = keyed, !.key = k, !.new = pass,
                                     !.target = WalletPath,
                                     !.data = Encrypt(k, pass)])
              /\ made' = made \cup {k}

BeginUnlock(p) ==
    \E pass \in Passes :
        /\ wallet # None
        /\ Begin(p, "read", [NoJob EXCEPT !.cmd = "unlock", !.pass = pass])
        /\ UNCHANGED made

BeginChangePassword(p) ==
    \E old, new \in Passes :
        /\ wallet # None /\ old # new
        /\ Begin(p, "read", [NoJob EXCEPT !.cmd = "changePassword",
                                          !.pass = old, !.new = new])
        /\ UNCHANGED made

BeginExport(p) ==
    \E out \in Outs \cup {None}, force \in BOOLEAN :
        /\ Begin(p, "export", [NoJob EXCEPT !.cmd = "export", !.out = out,
                                            !.force = force])
        /\ UNCHANGED made

BeginRestore(p) ==
    \E out \in Outs, force \in BOOLEAN, pass \in Passes :
        /\ Begin(p, "read", [NoJob EXCEPT !.cmd = "restore", !.out = out,
                                          !.force = force, !.pass = pass])
        /\ UNCHANGED made

-----------------------------------------------------------------------------
(* Steps of commands. *)

End(p, how) ==
    /\ pc' = [pc EXCEPT ![p] = how]
    /\ job' = [job EXCEPT ![p] = NoJob]

Finish(p) == End(p, "done")

(* The command prints an error. *)
Fail(p) == End(p, "failed") /\ UNCHANGED <<files, session>>

GoTo(p, where) == pc' = [pc EXCEPT ![p] = where] /\ UNCHANGED job

Write(p, target, f, was) ==
    /\ pc' = [pc EXCEPT ![p] = "stage"]
    /\ job' = [job EXCEPT ![p].target = target, ![p].data = f, ![p].was = was]

(* decrypt, for unlock. *)
ReadToUnlock(p) ==
    /\ pc[p] = "read" /\ job[p].cmd = "unlock"
    /\ \/ /\ Opens(wallet, job[p].pass)
          /\ pc' = [pc EXCEPT ![p] = "start"]
          /\ job' = [job EXCEPT ![p].key = wallet.key]
          /\ UNCHANGED <<files, session>>
       \/ ~Opens(wallet, job[p].pass) /\ Fail(p)
    /\ UNCHANGED <<made, clock, runs, env>>

(* startDetachedSessionDaemon, as SessionLifecycle has it, when it works. *)
StartSession(p) ==
    /\ pc[p] = "start"
    /\ session' = job[p].key
    /\ Finish(p)
    /\ UNCHANGED <<files, made, clock, runs, env>>

(* A variant that forgets the creation time. *)
Reencrypted(f, pass) == Encrypt(f.key, pass)

(* rotatePassphrase encrypts the key it decrypted, and keeps the identity. *)
Rotated(f, pass) == [f EXCEPT !.pass = pass]

ReadToRotate(p) ==
    /\ pc[p] = "read" /\ job[p].cmd = "changePassword"
    /\ \/ /\ Opens(wallet, job[p].pass)
          /\ Write(p, WalletPath, Rotated(wallet, job[p].new), wallet)
          /\ UNCHANGED <<files, session>>
       \/ ~Opens(wallet, job[p].pass) /\ Fail(p)
    /\ UNCHANGED <<made, clock, runs, env>>

(* restoreWallet, up to the verified backup. *)
ReadToRestore(p) ==
    /\ pc[p] = "read" /\ job[p].cmd = "restore"
    /\ LET f == backups[job[p].out]
           ok == MayReplace(job[p].force) /\ Opens(f, job[p].pass)
       IN  \/ ok /\ Write(p, WalletPath, f, wallet) /\ UNCHANGED <<files, session>>
           \/ ~ok /\ Fail(p)
    /\ UNCHANGED <<made, clock, runs, env>>

(* exportWallet reads the wallet, then looks at the path it will write.    *)
ReadToExport(p) ==
    /\ pc[p] = "export"
    /\ \/ /\ IsFile(wallet)
          /\ pc' = [pc EXCEPT ![p] = "check"]
          /\ job' = [job EXCEPT ![p].data = wallet]
          /\ UNCHANGED <<files, session>>
       \/ ~IsFile(wallet) /\ Fail(p)
    /\ UNCHANGED <<made, clock, runs, env>>

(* defaultBackupPath has the address and the time, in seconds. *)
DefaultBackupPath(f) == <<f.key, clock>>

(* A variant that takes a backup that is already there for this one. *)
SkipExisting(p, target) == Finish(p) /\ UNCHANGED <<files, session>>

Collide(p, target) == Fail(p)

(* init passes no options to exportWallet. *)
Overwrites(p) == job[p].cmd = "export" /\ job[p].force

CheckTarget(p) ==
    /\ pc[p] = "check"
    /\ LET target == IF job[p].out = None THEN DefaultBackupPath(job[p].data)
                                          ELSE job[p].out
       IN  \/ /\ backups[target] = None \/ Overwrites(p)
              /\ Write(p, target, job[p].data, backups[target])
              /\ UNCHANGED <<files, session>>
           \/ /\ backups[target] # None /\ ~Overwrites(p)
              /\ Collide(p, target)
    /\ UNCHANGED <<made, clock, runs, env>>

Put(p, f) ==
    IF job[p].target = WalletPath
    THEN wallet' = f /\ UNCHANGED backups
    ELSE backups' = [backups EXCEPT ![job[p].target] = f] /\ UNCHANGED wallet

(* A variant that opens the target itself for writing. *)
TruncateTarget(p) == Put(p, Torn)

(* writeFileAtomicSecure writes a file of its own, which nothing reads.    *)
StageFile(p) == UNCHANGED <<wallet, backups>>

Stage(p) ==
    /\ pc[p] = "stage"
    /\ StageFile(p)
    /\ GoTo(p, "rename")
    /\ UNCHANGED <<config, session, made, clock, runs, env>>

(* The last thing that may fail is to set the mode of a wallet file that   *)
(* is in place.                                                            *)
WriteError(p) ==
    /\ env.writeErrors /\ pc[p] \in {"stage", "rename", "lock"}
    /\ Fail(p)
    /\ UNCHANGED <<made, clock, runs, env>>

(* How a backup ends that is in place: its mode may not be set. *)
BackupEnds == {"done"} \cup {how \in {"failed"} : env.writeErrors}

(* What a command does after a file of its own is in place. *)
AfterRename(p) ==
    IF job[p].target = WalletPath
    THEN /\ pc' = [pc EXCEPT ![p] = "lock"]
         /\ job' = [job EXCEPT ![p].was = job[p].data]
    ELSE \E how \in BackupEnds : End(p, how)

Rename(p) ==
    /\ pc[p] = "rename"
    /\ Put(p, job[p].data)
    /\ AfterRename(p)
    /\ UNCHANGED <<config, session, made, clock, runs, env>>

(* A variant that leaves an open session alone after a restore. *)
LockAfterRotation(p) ==
    session' = IF job[p].cmd = "restore" THEN session ELSE None

LockSession(p) == session' = None

(* The session is locked once the wallet file is replaced. init goes on.   *)
Lock(p) ==
    /\ pc[p] = "lock"
    /\ LockSession(p)
    /\ IF job[p].cmd = "init" THEN GoTo(p, "truncate") ELSE Finish(p)
    /\ UNCHANGED <<files, made, clock, runs, env>>

(* saveConfig writes the config in place, without the private key. *)
TruncateConfig(p) ==
    /\ pc[p] = "truncate"
    /\ config' = Torn
    /\ GoTo(p, "config")
    /\ UNCHANGED <<wallet, backups, session, made, clock, runs, env>>

WriteConfig(p) ==
    /\ pc[p] = "config"
    /\ config' = [legacy |-> None, removed |-> FALSE]
    /\ pc' = [pc EXCEPT ![p] = "export"]
    /\ job' = [job EXCEPT ![p].target = None, ![p].data = None]
    /\ UNCHANGED <<wallet, backups, session, made, clock, runs, env>>

(* The session ends by its TTL, or by auth lock. *)
SessionEnds ==
    /\ session # None
    /\ session' = None
    /\ UNCHANGED <<files, made, clock, runs, env, pc, job>>

Crash(p) ==
    /\ env.crashes /\ pc[p] \notin Ended
    /\ Fail(p)
    /\ UNCHANGED <<made, clock, runs, env>>

Step(p) ==
    \/ ReadToUnlock(p) \/ StartSession(p) \/ ReadToRotate(p)
    \/ ReadToRestore(p) \/ ReadToExport(p) \/ CheckTarget(p) \/ Stage(p)
    \/ Rename(p) \/ Lock(p) \/ TruncateConfig(p) \/ WriteConfig(p)

Next ==
    \/ Tick \/ SessionEnds
    \/ \E p \in Procs :
          \/ BeginInit(p) \/ BeginUnlock(p) \/ BeginChangePassword(p)
          \/ BeginExport(p) \/ BeginRestore(p)
          \/ Step(p) \/ WriteError(p) \/ Crash(p)

Spec == Init /\ [][Next]_vars

-----------------------------------------------------------------------------
(* What the CLI makes of the files. *)

(* loadCliAddress, without MONEYOS_PRIVATE_KEY: the account of balance. *)
CliAddress ==
    IF config = Torn \/ config.removed \/ ~IsFile(wallet) THEN None
    ELSE wallet.key

(* buildCliMoneyOSConfig with a signer: the account of send. *)
CliSigner == IF config = Torn \/ config.removed THEN None ELSE session

(* resolveWalletStatus: the account of keystore status. *)
StatusAddress ==
    IF config = Torn \/ config.removed THEN None
    ELSE IF IsFile(wallet) THEN wallet.key ELSE config.legacy

Stored(k) ==
    \/ IsFile(wallet) /\ wallet.key = k
    \/ \E n \in Names : IsFile(backups[n]) /\ backups[n].key = k
    \/ config # Torn /\ config.legacy = k

-----------------------------------------------------------------------------
(* Properties.                                                             *)

Moves(p) == pc'[p] # pc[p]

(* Another process has changed the file since the command looked at it.    *)
Overtaken(p) ==
    job[p].was # IF job[p].target \in Names THEN backups[job[p].target] ELSE wallet

(* The last copy of a private key, plaintext legacy key included, is given *)
(* up only by a command run with --force, by an init with a key of the     *)
(* user's choice, or by one that another process has overtaken: that       *)
(* changed the file between the last look at it and its replacement, or    *)
(* the new wallet before the legacy key is dropped. No other command loses *)
(* it, wherever it fails or is killed.                                     *)
NothingLost ==
    [][\A k \in Keys : Stored(k) /\ ~Stored(k)' =>
          \E p \in Procs :
             Moves(p) /\ (job[p].force \/ job[p].keyed \/ Overtaken(p))]_vars

(* README.md:210: an init that reports success leaves a backup of its key  *)
(* that opens with the password it was given (init.ts:155), unless another *)
(* command changed the wallet beside it.                                   *)
BackedUp ==
    [][\A p \in Procs :
          job[p].cmd = "init" /\ job[p].beside \cap Writing = {}
          /\ Moves(p) /\ pc'[p] = "done" =>
             \E n \in Names : /\ Opens(backups'[n], job[p].new)
                              /\ backups'[n].key = job[p].key]_vars

(* No init or restore has run beside the command. *)
Undisturbed(p) == job[p].beside \cap Replacing = {}

(* A change-password or a restore that reports an error before its file is *)
(* in place (an error after the rename is of the mode or the session) has  *)
(* changed nothing: the wallet file holds the key it held, whatever        *)
(* password changes, exports and unlocks ran beside it, and is the same if *)
(* no other command wrote it (encrypted-wallet.ts:281).                    *)
FailedLeavesWallet ==
    [][\A p \in Procs :
          Moves(p) /\ pc'[p] = "failed" /\ pc[p] # "lock"
          /\ job[p].cmd \in {"changePassword", "restore"} /\ Undisturbed(p) =>
             /\ KeysOf(wallet') = KeysOf(job[p].was)
             /\ job[p].beside \cap Writing = {} => wallet' = job[p].was]_vars

(* When an unlock, or a command that replaces the wallet, reports success, *)
(* send spends from the account that balance and keystore status show: no  *)
(* session outlives the wallet it was unlocked from (init.ts:139,          *)
(* backup.ts:92), unless an init or restore ran beside that command, or it *)
(* is one itself and ran beside another or an unlock.                      *)
OneAccount ==
    [][\A p \in Procs :
          Moves(p) /\ pc'[p] = "done" /\ job[p].cmd # "export"
          /\ Undisturbed(p) /\ (job[p].cmd \in Replacing => job[p].beside = {})
          /\ CliSigner' # None =>
             CliAddress' = CliSigner' /\ StatusAddress' = CliSigner']_vars

(* docs/keystore.md:192, "existing wallets are not overwritten unless the  *)
(* user passes `--force`".                                                 *)
OnlyForceOverwrites ==
    [][\A p \in Procs :
          job[p].cmd \in Replacing /\ Moves(p) /\ wallet # None /\ wallet' # wallet =>
             job[p].force]_vars

(* A password change keeps key and creation time, whatever passwords,      *)
(* exports and unlocks run beside it (encrypted-wallet.ts:454).            *)
RotationKeepsIdentity ==
    [][\A p \in Procs : job[p].cmd = "changePassword" /\ Undisturbed(p)
                        /\ wallet' # wallet /\ Moves(p) =>
          /\ IsFile(wallet')
          /\ wallet'.key = wallet.key /\ wallet'.born = wallet.born]_vars

=============================================================================
