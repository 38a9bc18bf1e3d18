-------------------------- MODULE WalletVaultProofs --------------------------
(***************************************************************************)
(* WalletVault: proofs. The inductive invariant says what each command     *)
(* that runs has in hand, and what one that no init or restore has run     *)
(* beside can rely on: the wallet is the one it has seen, or a rotation of *)
(* it. First the steps are reduced to their effects (Effects), then each   *)
(* part of the invariant is shown to be kept by every effect.              *)
(***************************************************************************)
EXTENDS WalletVault, TLAPS

(* The invariant.                                                          *)

Runs(p) == pc[p] \notin Ended
Writes(p) == pc[p] \in {"stage", "rename"}

(* What each place in a command says about it. *)
FormInv(p) ==
    /\ pc[p] = "read" => job[p].cmd \in {"unlock", "changePassword", "restore"}
    /\ pc[p] = "read" /\ job[p].cmd = "changePassword" => job[p].new \in Passes
    /\ pc[p] = "read" /\ job[p].cmd = "restore" => job[p].out \in Names
    /\ pc[p] = "start" => job[p].cmd = "unlock"
    /\ Writes(p) =>
          \/ job[p].target = WalletPath /\ job[p].cmd \in Writing
          \/ job[p].target \in Names /\ job[p].cmd \in {"init", "export"}
    /\ pc[p] = "lock" => job[p].cmd \in Writing
    /\ pc[p] \in {"truncate", "config"} => job[p].cmd = "init"
    /\ pc[p] \in {"export", "check"} => job[p].cmd \in {"init", "export"}
    /\ Writes(p) \/ pc[p] = "check" => job[p].data \in Wallets

(* An init has its key and passphrase in the file it will put in place. *)
Begun(p) ==
    /\ job[p].cmd = "init"
    /\ \/ Writes(p) /\ job[p].target = WalletPath
       \/ pc[p] \in {"lock", "truncate"}

InitInv(p) ==
    /\ Begun(p) => /\ job[p].target = WalletPath
                   /\ job[p].data \in Wallets
                   /\ job[p].data.key = job[p].key
                   /\ job[p].data.pass = job[p].new
    /\ pc[p] = "truncate" => job[p].was = job[p].data
    /\ pc[p] = "lock" => job[p].was = job[p].data
    /\ job[p].cmd = "init" /\ Runs(p) /\ ~job[p].keyed =>
          config = Torn \/ config.legacy \in {None, job[p].key}
    /\ pc[p] = "config" => config = Torn \/ config.legacy = None

KeepInv(p) ==
    Writes(p) =>
        /\ job[p].cmd = "changePassword" =>
              job[p].was \in Wallets /\ job[p].data.key = job[p].was.key
        /\ job[p].cmd # "changePassword" /\ ~job[p].force => job[p].was = None

(* Commands that run know of each other and of what ran beside the other. *)
BesideInv ==
    \A p, q \in Procs : Runs(p) /\ Runs(q) /\ p # q =>
        /\ {job[q].cmd} \cap Noted \subseteq job[p].beside
        /\ job[q].beside \subseteq job[p].beside \cup {job[p].cmd}

(* p can tell that nobody has replaced the wallet since it began. *)
Quiet(p) ==
    /\ Runs(p) /\ Undisturbed(p)
    /\ job[p].cmd \in Replacing =>
          pc[p] = "read" \/ (Writes(p) /\ job[p].target = WalletPath)

(* q holds what it read of the wallet, and it is still so. *)
Rotates(q) == Writes(q) /\ job[q].cmd = "changePassword"
Matches(q) ==
    /\ Rotates(q) =>
          /\ IsFile(wallet)
          /\ job[q].data.key = wallet.key /\ job[q].data.born = wallet.born
    /\ pc[q] = "start" => IsFile(wallet) /\ job[q].key = wallet.key

QuietInv == \A p, q \in Procs : Quiet(p) => Matches(q)

WasInv ==
    \A p \in Procs :
        Quiet(p) /\ pc[p] # "lock"
        /\ job[p].cmd \in {"changePassword", "restore"} =>
            /\ KeysOf(wallet) = KeysOf(job[p].was)
            /\ job[p].beside \cap Writing = {} => wallet = job[p].was

(* After init has put its wallet in place. *)
Placed(p) ==
    /\ job[p].cmd = "init"
    /\ \/ pc[p] \in {"lock", "truncate", "config", "export", "check"}
       \/ Writes(p) /\ job[p].target # WalletPath

PlacedInv ==
    \A p \in Procs : Placed(p) =>
        /\ job[p].beside \cap Writing = {} =>
              /\ Opens(wallet, job[p].new) /\ wallet.key = job[p].key
              /\ Writes(p) \/ pc[p] = "check" =>
                    /\ job[p].data.pass = job[p].new
                    /\ job[p].data.key = job[p].key
        /\ job[p].beside = {} /\ pc[p] # "lock" => session = None

AllForm == \A p \in Procs : FormInv(p)
AllInit == \A p \in Procs : InitInv(p)
AllKeep == \A p \in Procs : KeepInv(p)

IInv ==
    TypeOK /\ AllForm /\ AllInit /\ AllKeep
    /\ BesideInv /\ QuietInv /\ WasInv /\ PlacedInv

-----------------------------------------------------------------------------
(* Steps of a command on its own data. *)

Places == Ended \cup {"read", "check", "stage", "rename", "lock", "truncate",
                      "config", "export", "start"}
Files == Wallets \cup {None, Torn}

(* Where p is and what it works on, not what it was asked. *)
SameCommand(p) ==
    /\ job'[p].cmd = job[p].cmd /\ job'[p].beside = job[p].beside
    /\ job'[p].force = job[p].force /\ job'[p].keyed = job[p].keyed
    /\ job'[p].pass = job[p].pass /\ job'[p].new = job[p].new
    /\ job'[p].out = job[p].out

SameOthers(p) == \A q \in Procs \ {p} : pc'[q] = pc[q] /\ job'[q] = job[q]

JobType == pc \in [Procs -> Places] /\ job \in [Procs -> Jobs]

(* What the updates of a command's place and data leave alone. *)
LEMMA WriteShape ==
    ASSUME JobType, NEW p \in Procs, NEW t \in Names \cup {WalletPath},
           NEW f \in Wallets, NEW w \in Files, Write(p, t, f, w)
    PROVE  /\ JobType' /\ SameOthers(p) /\ SameCommand(p)
           /\ pc'[p] = "stage" /\ job'[p].key = job[p].key
           /\ job'[p].target = t /\ job'[p].data = f /\ job'[p].was = w
  <1>. DEFINE j == [job[p] EXCEPT !.target = t, !.data = f, !.was = w]
  <1>1. job' = [job EXCEPT ![p] = j]
    BY DEF Write, JobType
  <1>2. job[p] \in Jobs
    BY DEF JobType
  <1>3. /\ j \in Jobs
        /\ j.target = t /\ j.data = f /\ j.was = w
        /\ j.cmd = job[p].cmd /\ j.beside = job[p].beside
        /\ j.force = job[p].force /\ j.keyed = job[p].keyed
        /\ j.key = job[p].key
        /\ j.pass = job[p].pass /\ j.new = job[p].new /\ j.out = job[p].out
    BY <1>2 DEF Jobs, Files
  <1>. HIDE DEF j
  <1>4. job' \in [Procs -> Jobs] /\ job'[p] = j
    BY <1>1, <1>3 DEF JobType
  <1>5. pc' \in [Procs -> Places] /\ pc'[p] = "stage" /\ SameOthers(p)
    BY <1>1 DEF Write, JobType, Places, SameOthers
  <1>. QED  BY <1>3, <1>4, <1>5 DEF SameCommand, JobType

LEMMA KeyShape ==
    ASSUME JobType, NEW p \in Procs, NEW w \in Places, NEW k \in Keys,
           pc' = [pc EXCEPT ![p] = w], job' = [job EXCEPT ![p].key = k]
    PROVE  /\ JobType' /\ SameOthers(p) /\ SameCommand(p)
           /\ pc'[p] = w /\ job'[p].key = k
  <1>. DEFINE j == [job[p] EXCEPT !.key = k]
  <1>1. job' = [job EXCEPT ![p] = j] /\ job[p] \in Jobs
    BY DEF JobType
  <1>2. /\ j \in Jobs /\ j.key = k
        /\ j.cmd = job[p].cmd /\ j.beside = job[p].beside
        /\ j.force = job[p].force /\ j.keyed = job[p].keyed
        /\ j.pass = job[p].pass /\ j.new = job[p].new /\ j.out = job[p].out
    BY <1>1 DEF Jobs
  <1>. HIDE DEF j
  <1>3. job' \in [Procs -> Jobs] /\ job'[p] = j
    BY <1>1, <1>2 DEF JobType
  <1>4. pc' \in [Procs -> Places] /\ pc'[p] = w /\ SameOthers(p)
    BY <1>1 DEF JobType, SameOthers
  <1>. QED  BY <1>2, <1>3, <1>4 DEF SameCommand, JobType

LEMMA DataShape ==
    ASSUME JobType, NEW p \in Procs, NEW w \in Places, NEW f \in Wallets,
           pc' = [pc EXCEPT ![p] = w], job' = [job EXCEPT ![p].data = f]
    PROVE  /\ JobType' /\ SameOthers(p) /\ SameCommand(p)
           /\ pc'[p] = w /\ job'[p].key = job[p].key /\ job'[p].data = f
  <1>. DEFINE j == [job[p] EXCEPT !.data = f]
  <1>1. job' = [job EXCEPT ![p] = j] /\ job[p] \in Jobs
    BY DEF JobType
  <1>2. /\ j \in Jobs /\ j.data = f /\ j.key = job[p].key
        /\ j.cmd = job[p].cmd /\ j.beside = job[p].beside
        /\ j.force = job[p].force /\ j.keyed = job[p].keyed
        /\ j.pass = job[p].pass /\ j.new = job[p].new /\ j.out = job[p].out
    BY <1>1 DEF Jobs
  <1>. HIDE DEF j
  <1>3. job' \in [Procs -> Jobs] /\ job'[p] = j
    BY <1>1, <1>2 DEF JobType
  <1>4. pc' \in [Procs -> Places] /\ pc'[p] = w /\ SameOthers(p)
    BY <1>1 DEF JobType, SameOthers
  <1>. QED  BY <1>2, <1>3, <1>4 DEF SameCommand, JobType

LEMMA WasShape ==
    ASSUME JobType, NEW p \in Procs, NEW w \in Places,
           job[p].data \in Wallets, pc' = [pc EXCEPT ![p] = w],
           job' = [job EXCEPT ![p].was = job[p].data]
    PROVE  /\ JobType' /\ SameOthers(p) /\ SameCommand(p)
           /\ pc'[p] = w /\ job'[p].key = job[p].key
           /\ job'[p].target = job[p].target /\ job'[p].data = job[p].data
           /\ job'[p].was = job[p].data
  <1>. DEFINE j == [job[p] EXCEPT !.was = job[p].data]
  <1>1. job' = [job EXCEPT ![p] = j] /\ job[p] \in Jobs
    BY DEF JobType
  <1>2. /\ j \in Jobs /\ j.was = job[p].data /\ j.key = job[p].key
        /\ j.target = job[p].target /\ j.data = job[p].data
        /\ j.cmd = job[p].cmd /\ j.beside = job[p].beside
        /\ j.force = job[p].force /\ j.keyed = job[p].keyed
        /\ j.pass = job[p].pass /\ j.new = job[p].new /\ j.out = job[p].out
    BY <1>1 DEF Jobs
  <1>. HIDE DEF j
  <1>3. job' \in [Procs -> Jobs] /\ job'[p] = j
    BY <1>1, <1>2 DEF JobType
  <1>4. pc' \in [Procs -> Places] /\ pc'[p] = w /\ SameOthers(p)
    BY <1>1 DEF JobType, SameOthers
  <1>. QED  BY <1>2, <1>3, <1>4 DEF SameCommand, JobType

LEMMA ForgetShape ==
    ASSUME JobType, NEW p \in Procs, NEW w \in Places,
           pc' = [pc EXCEPT ![p] = w],
           job' = [job EXCEPT ![p].target = None, ![p].data = None]
    PROVE  /\ JobType' /\ SameOthers(p) /\ SameCommand(p)
           /\ pc'[p] = w /\ job'[p].key = job[p].key
  <1>. DEFINE j == [job[p] EXCEPT !.target = None, !.data = None]
  <1>1. job' = [job EXCEPT ![p] = j] /\ job[p] \in Jobs
    BY DEF JobType
  <1>2. /\ j \in Jobs /\ j.key = job[p].key
        /\ j.cmd = job[p].cmd /\ j.beside = job[p].beside
        /\ j.force = job[p].force /\ j.keyed = job[p].keyed
        /\ j.pass = job[p].pass /\ j.new = job[p].new /\ j.out = job[p].out
    BY <1>1 DEF Jobs
  <1>. HIDE DEF j
  <1>3. job' \in [Procs -> Jobs] /\ job'[p] = j
    BY <1>1, <1>2 DEF JobType
  <1>4. pc' \in [Procs -> Places] /\ pc'[p] = w /\ SameOthers(p)
    BY <1>1 DEF JobType, SameOthers
  <1>. QED  BY <1>2, <1>3, <1>4 DEF SameCommand, JobType

LEMMA MoveShape ==
    ASSUME JobType, NEW p \in Procs, NEW w \in Places, GoTo(p, w)
    PROVE  /\ JobType' /\ SameOthers(p) /\ SameCommand(p)
           /\ pc'[p] = w /\ job'[p] = job[p]
  BY DEF JobType, GoTo, SameOthers, SameCommand

LEMMA NoJobType == NoJob \in Jobs
  BY DEF NoJob, Jobs, AllCommands

(* A command that ends has forgotten all. *)
LEMMA EndShape ==
    ASSUME JobType, NEW p \in Procs, NEW how \in Ended, End(p, how)
    PROVE  /\ JobType' /\ SameOthers(p) /\ pc'[p] = how /\ ~Runs(p)'
  BY NoJobType DEF JobType, End, SameOthers, Runs, Places

(* What p is given when it begins: j, but for the ghosts. *)
StartsAs(p, w, j) ==
    /\ ~Runs(p) /\ Runs(p)' /\ pc'[p] = w
    /\ job'[p].cmd = j.cmd /\ job'[p].force = j.force
    /\ job'[p].keyed = j.keyed /\ job'[p].key = j.key
    /\ job'[p].pass = j.pass /\ job'[p].new = j.new
    /\ job'[p].out = j.out /\ job'[p].target = j.target
    /\ job'[p].data = j.data /\ job'[p].was = wallet
    /\ job'[p].beside = Neighbors({q \in Procs : Runs(q)})

(* What a command beside it, or none, becomes. *)
Notes(q, j) ==
    /\ pc'[q] = pc[q]
    /\ ~Runs(q) => job'[q] = job[q]
    /\ job'[q].cmd = job[q].cmd /\ job'[q].force = job[q].force
    /\ job'[q].keyed = job[q].keyed /\ job'[q].key = job[q].key
    /\ job'[q].pass = job[q].pass /\ job'[q].new = job[q].new
    /\ job'[q].out = job[q].out /\ job'[q].target = job[q].target
    /\ job'[q].data = job[q].data /\ job'[q].was = job[q].was
    /\ Runs(q) => job'[q].beside = job[q].beside \cup ({j.cmd} \cap Noted)

(* A command that begins tells the others, and knows of them. *)
LEMMA BeginShape ==
    ASSUME JobType, wallet \in Files, NEW p \in Procs,
           NEW w \in Places \ Ended, NEW j \in Jobs, Begin(p, w, j)
    PROVE  /\ JobType' /\ StartsAs(p, w, j)
           /\ \A q \in Procs \ {p} : Notes(q, j)
  <1>. DEFINE others == {q \in Procs : Runs(q)}
              n == Neighbors(others)
              mine == [j EXCEPT !.was = wallet, !.beside = n]
              theirs(q) ==
                 [job[q] EXCEPT !.beside = @ \cup ({j.cmd} \cap Noted)]
  <1>0. \A q \in Procs : job[q] \in Jobs
    BY DEF JobType
  <1>1. n \subseteq Noted
    BY <1>0 DEF Neighbors, Jobs
  <1>2. /\ mine \in Jobs /\ mine.was = wallet /\ mine.beside = n
        /\ mine.cmd = j.cmd /\ mine.force = j.force /\ mine.keyed = j.keyed
        /\ mine.key = j.key /\ mine.pass = j.pass /\ mine.new = j.new
        /\ mine.out = j.out /\ mine.target = j.target /\ mine.data = j.data
    <2>. HIDE DEF n
    <2>. QED  BY <1>1 DEF Jobs, Files
  <1>3. ASSUME NEW q \in Procs
        PROVE  /\ theirs(q) \in Jobs
               /\ theirs(q).beside = job[q].beside \cup ({j.cmd} \cap Noted)
               /\ theirs(q).cmd = job[q].cmd /\ theirs(q).force = job[q].force
               /\ theirs(q).keyed = job[q].keyed /\ theirs(q).key = job[q].key
               /\ theirs(q).pass = job[q].pass /\ theirs(q).new = job[q].new
               /\ theirs(q).out = job[q].out
               /\ theirs(q).target = job[q].target
               /\ theirs(q).data = job[q].data /\ theirs(q).was = job[q].was
    BY <1>0 DEF Jobs
  <1>4. /\ p \notin others /\ pc' = [pc EXCEPT ![p] = w]
        /\ job' = [q \in Procs |-> CASE q = p -> mine
                                     [] q \in others -> theirs(q)
                                     [] OTHER -> job[q]]
    BY DEF Begin, Runs
  <1>. HIDE DEF mine, theirs, n
  <1>5. /\ job'[p] = mine
        /\ \A q \in Procs \ {p} :
              job'[q] = IF Runs(q) THEN theirs(q) ELSE job[q]
    BY <1>4
  <1>6. job' \in [Procs -> Jobs]
    BY <1>0, <1>2, <1>3, <1>4
  <1>7. pc' \in [Procs -> Places] /\ pc'[p] = w /\ Runs(p)' /\ ~Runs(p)
        /\ \A q \in Procs \ {p} : pc'[q] = pc[q]
    BY <1>4 DEF JobType, Runs
  <1>8. job'[p].beside = Neighbors(others)
    BY <1>2, <1>5 DEF n
  <1>9. ASSUME NEW q \in Procs \ {p}
        PROVE  Notes(q, j)
    BY <1>3, <1>5, <1>7 DEF Notes
  <1>10. StartsAs(p, w, j)
    BY <1>2, <1>5, <1>7, <1>8 DEF StartsAs
  <1>. QED  BY <1>6, <1>7, <1>9, <1>10 DEF JobType

-----------------------------------------------------------------------------
(* How commands begin. *)

Begins(p) ==
    \/ BeginInit(p) \/ BeginUnlock(p) \/ BeginChangePassword(p)
    \/ BeginExport(p) \/ BeginRestore(p)

(* A job j that may begin at w. *)
Proper(w, j) ==
    \/ /\ w = "stage" /\ j.cmd = "init" /\ j.target = WalletPath
       /\ j.data \in Wallets /\ j.key \in Keys
       /\ j.data.key = j.key /\ j.data.pass = j.new
       /\ ~j.force => wallet = None
       /\ ~j.keyed => config.legacy \in {None, j.key}
    \/ w = "read" /\ j.cmd = "unlock"
    \/ w = "read" /\ j.cmd = "restore" /\ j.out \in Names
    \/ w = "read" /\ j.cmd = "changePassword" /\ j.new \in Passes
    \/ w = "export" /\ j.cmd = "export"

(* What commands are given at their beginning. *)
LEMMA HowBegins ==
    ASSUME TypeOK, NEW p \in Procs, Begins(p)
    PROVE  \E w \in {"stage", "read", "export"}, j \in Jobs :
              Begin(p, w, j) /\ Proper(w, j) /\ made' \subseteq Keys
  <1>0. made \subseteq Keys /\ clock \in Times
    BY DEF TypeOK
  <1>n. NoJob \in Jobs
    BY NoJobType
  <1>1. CASE BeginInit(p)
    <2>0. PICK force \in BOOLEAN, keyed \in BOOLEAN, pass \in Passes :
             /\ config # Torn /\ MayReplace(force)
             /\ \E k \in Chosen(keyed) :
                   /\ Begin(p, "stage",
                            [NoJob EXCEPT !.cmd = "init", !.force = force,
                                          !.keyed = keyed, !.key = k,
                                          !.new = pass, !.target = WalletPath,
                                          !.data = Encrypt(k, pass)])
                   /\ made' = made \cup {k}
      BY <1>1 DEF BeginInit
    <2>1. PICK k \in Chosen(keyed) :
             /\ Begin(p, "stage",
                      [NoJob EXCEPT !.cmd = "init", !.force = force,
                                    !.keyed = keyed, !.key = k, !.new = pass,
                                    !.target = WalletPath,
                                    !.data = Encrypt(k, pass)])
             /\ made' = made \cup {k}
      BY <2>0
    <2>. DEFINE f == Encrypt(k, pass)
                j == [NoJob EXCEPT !.cmd = "init", !.force = force,
                                   !.keyed = keyed, !.key = k, !.new = pass,
                                   !.target = WalletPath, !.data = f]
    <2>2. k \in Keys /\ (~keyed => config.legacy \in {None, k})
      BY <2>0 DEF Chosen, TypeOK, Configs
    <2>3. f \in Wallets /\ f.key = k /\ f.pass = pass
      BY <1>0, <2>2 DEF Encrypt, Wallets
    <2>4. Begin(p, "stage", j)
      BY <2>1
    <2>. HIDE DEF f
    <2>5. /\ j \in Jobs /\ j.cmd = "init" /\ j.force = force
          /\ j.keyed = keyed /\ j.key = k /\ j.new = pass
          /\ j.target = WalletPath /\ j.data = f
      BY <2>2, <2>3 DEF NoJob, Jobs, AllCommands
    <2>6. ~force => wallet = None
      BY <2>0 DEF MayReplace
    <2>. HIDE DEF j
    <2>7. Proper("stage", j)
      BY <2>2, <2>3, <2>5, <2>6 DEF Proper
    <2>. QED  BY <1>0, <2>1, <2>2, <2>4, <2>5, <2>7
  <1>2. CASE BeginUnlock(p)
    <2>1. PICK pass \in Passes :
             Begin(p, "read", [NoJob EXCEPT !.cmd = "unlock", !.pass = pass])
      BY <1>2 DEF BeginUnlock
    <2>. DEFINE j == [NoJob EXCEPT !.cmd = "unlock", !.pass = pass]
    <2>2. j \in Jobs /\ j.cmd = "unlock"
      BY DEF NoJob, Jobs, AllCommands
    <2>3. made' = made
      BY <1>2 DEF BeginUnlock
    <2>. QED  BY <1>0, <2>1, <2>2, <2>3 DEF Proper
  <1>3. CASE BeginChangePassword(p)
    <2>1. PICK old \in Passes, new \in Passes :
             Begin(p, "read", [NoJob EXCEPT !.cmd = "changePassword",
                                            !.pass = old, !.new = new])
      BY <1>3 DEF BeginChangePassword
    <2>. DEFINE j == [NoJob EXCEPT !.cmd = "changePassword", !.pass = old,
                                   !.new = new]
    <2>2. j \in Jobs /\ j.cmd = "changePassword" /\ j.new = new
      BY DEF NoJob, Jobs, AllCommands
    <2>3. made' = made
      BY <1>3 DEF BeginChangePassword
    <2>. QED  BY <1>0, <2>1, <2>2, <2>3 DEF Proper
  <1>4. CASE BeginExport(p)
    <2>1. PICK out \in Outs \cup {None}, force \in BOOLEAN :
             Begin(p, "export", [NoJob EXCEPT !.cmd = "export", !.out = out,
                                              !.force = force])
      BY <1>4 DEF BeginExport
    <2>. DEFINE j == [NoJob EXCEPT !.cmd = "export", !.out = out,
                                   !.force = force]
    <2>2. j \in Jobs /\ j.cmd = "export"
      BY DEF NoJob, Jobs, AllCommands
    <2>3. made' = made
      BY <1>4 DEF BeginExport
    <2>. QED  BY <1>0, <2>1, <2>2, <2>3 DEF Proper
  <1>5. CASE BeginRestore(p)
    <2>1. PICK out \in Outs, force \in BOOLEAN, pass \in Passes :
             Begin(p, "read", [NoJob EXCEPT !.cmd = "restore", !.out = out,
                                            !.force = force, !.pass = pass])
      BY <1>5 DEF BeginRestore
    <2>. DEFINE j == [NoJob EXCEPT !.cmd = "restore", !.out = out,
                                   !.force = force, !.pass = pass]
    <2>2. j \in Jobs /\ j.cmd = "restore" /\ j.out \in Names
      BY DEF NoJob, Jobs, AllCommands, Names
    <2>3. made' = made
      BY <1>5 DEF BeginRestore
    <2>. QED  BY <1>0, <2>1, <2>2, <2>3 DEF Proper
  <1>. QED  BY <1>1, <1>2, <1>3, <1>4, <1>5 DEF Begins

-----------------------------------------------------------------------------
(* Types, and what each place in a command says. *)

FormOK == TypeOK /\ AllForm

RestType ==
    /\ wallet \in Files
    /\ backups \in [Names -> Files]
    /\ config \in Configs \cup {Torn}
    /\ session \in Keys \cup {None}
    /\ made \subseteq Keys /\ clock \in Times
    /\ env \in Environments /\ runs \in 0..env.maxRuns

(* Types of the commands, and of everything else. *)
LEMMA SplitType == TypeOK <=> RestType /\ JobType
  BY DEF TypeOK, RestType, JobType, Files, Places, Ended

LEMMA JoinType == RestType' /\ JobType' => TypeOK'
  BY DEF TypeOK, RestType, JobType, Files, Places, Ended

(* What every step but Tick and the beginning of a command leaves alone. *)
Settled == clock' = clock /\ runs' = runs /\ env' = env /\ made' = made

LEMMA RestFrame ==
    ASSUME RestType, Settled, wallet' \in Files, backups' \in [Names -> Files],
           config' \in Configs \cup {Torn}, session' \in Keys \cup {None}
    PROVE  RestType'
  BY DEF RestType, Settled

LEMMA RestSame ==
    ASSUME RestType, Settled, UNCHANGED <<files, session>>
    PROVE  RestType'
  BY DEF RestType, Settled, files

(* A file that parses has a key. *)
LEMMA FileKey ==
    ASSUME NEW f \in Files, IsFile(f)
    PROVE  f \in Wallets /\ f.key \in Keys
  BY DEF Files, IsFile, Wallets

(* The copy keeps what Matches speaks of. *)
LEMMA RotatedType ==
    ASSUME NEW f \in Wallets, NEW w \in Passes
    PROVE  /\ Rotated(f, w) \in Wallets
           /\ Rotated(f, w).key = f.key /\ Rotated(f, w).born = f.born
  BY DEF Rotated, Wallets

LEMMA WalletIsFile ==
    ASSUME NEW f \in Wallets
    PROVE  IsFile(f) /\ f \in Files /\ f.key \in Keys
  BY NoneAssumption DEF IsFile, Files, Wallets

-----------------------------------------------------------------------------
(* What steps do, to the wallet, the config, the session and a command.    *)

Kept == wallet' = wallet /\ config' = config

Idle == pc' = pc /\ job' = job /\ Kept /\ session' \in {session, None}

Started(p) ==
    /\ Kept /\ session' = session
    /\ \E w \in {"stage", "read", "export"}, j \in Jobs :
          /\ StartsAs(p, w, j) /\ Proper(w, j)
          /\ \A q \in Procs \ {p} : Notes(q, j)

Stopped(p) ==
    /\ Runs(p) /\ ~Runs(p)' /\ SameOthers(p) /\ Kept
    /\ session' \in {session, None} \/ pc[p] = "start"

Moving(p, from, to) ==
    SameOthers(p) /\ SameCommand(p) /\ pc[p] = from /\ pc'[p] = to

Unlocking(p) ==
    /\ Moving(p, "read", "start") /\ Kept /\ session' = session
    /\ job[p].cmd = "unlock"
    /\ wallet \in Wallets /\ job'[p].key = wallet.key

(* A command has data for its file, and has last seen what it replaces. *)
Prepared(p) ==
    /\ Kept /\ session' = session
    /\ job'[p].key = job[p].key /\ job'[p].data \in Wallets

Rotating(p) ==
    /\ Moving(p, "read", "stage") /\ Prepared(p)
    /\ job[p].cmd = "changePassword" /\ job'[p].target = WalletPath
    /\ wallet \in Wallets /\ job'[p].was = wallet
    /\ job'[p].data.key = wallet.key /\ job'[p].data.born = wallet.born

Restoring(p) ==
    /\ Moving(p, "read", "stage") /\ Prepared(p)
    /\ job[p].cmd = "restore" /\ job'[p].target = WalletPath
    /\ MayReplace(job[p].force) /\ job'[p].was = wallet

Exporting(p) ==
    /\ Moving(p, "export", "check") /\ Prepared(p)
    /\ job'[p].data = wallet

Checking(p) ==
    /\ Moving(p, "check", "stage") /\ Prepared(p)
    /\ job'[p].target \in Names /\ job'[p].data = job[p].data
    /\ job'[p].was = None \/ Overwrites(p)

Staging(p) ==
    /\ Moving(p, "stage", "rename") /\ Kept /\ session' = session
    /\ job'[p] = job[p]

Placing(p) ==
    /\ Moving(p, "rename", "lock") /\ config' = config /\ session' = session
    /\ job[p].target = WalletPath /\ job[p].data \in Wallets
    /\ wallet' = job[p].data /\ job'[p].key = job[p].key
    /\ job'[p].target = WalletPath /\ job'[p].data = job[p].data
    /\ job'[p].was = job[p].data

Locking(p) ==
    /\ Moving(p, "lock", "truncate") /\ Kept /\ session' = None
    /\ job[p].cmd = "init" /\ job'[p] = job[p]

Truncating(p) ==
    /\ Moving(p, "truncate", "config") /\ wallet' = wallet /\ config' = Torn
    /\ session' = session /\ job'[p] = job[p]

Configuring(p) ==
    /\ Moving(p, "config", "export") /\ wallet' = wallet
    /\ config'.legacy = None /\ session' = session
    /\ job'[p].key = job[p].key

Advanced(p) ==
    \/ Unlocking(p) \/ Rotating(p) \/ Restoring(p) \/ Exporting(p)
    \/ Checking(p) \/ Staging(p) \/ Placing(p) \/ Locking(p)
    \/ Truncating(p) \/ Configuring(p)

Effect ==
    Idle \/ \E p \in Procs : Started(p) \/ Stopped(p) \/ Advanced(p)

(* What a beginning does. *)
LEMMA Beginning ==
    ASSUME FormOK, NEW p \in Procs, Begins(p)
    PROVE  RestType' /\ JobType' /\ Started(p)
  <1>0. RestType /\ JobType /\ wallet \in Files
    BY SplitType DEF FormOK, RestType
  <1>1. PICK w \in {"stage", "read", "export"}, j \in Jobs :
           Begin(p, w, j) /\ Proper(w, j) /\ made' \subseteq Keys
    BY HowBegins DEF FormOK
  <1>2. w \in Places \ Ended
    BY DEF Places, Ended
  <1>3. /\ JobType' /\ StartsAs(p, w, j)
        /\ \A q \in Procs \ {p} : Notes(q, j)
    BY <1>0, <1>1, <1>2, BeginShape
  <1>4. /\ env' = env /\ runs' = runs + 1 /\ runs < env.maxRuns
        /\ clock' = clock /\ wallet' = wallet /\ backups' = backups
        /\ config' = config /\ session' = session
    BY <1>1 DEF Begin, files
  <1>5. env.maxRuns \in Nat
    BY <1>0, EnvironmentsAssumption DEF RestType, EnvironmentType
  <1>6. runs' \in 0..env'.maxRuns
    <2>1. runs \in 0..env.maxRuns
      BY <1>0 DEF RestType
    <2>. QED  BY <1>4, <1>5, <2>1
  <1>7. RestType'
    BY <1>0, <1>1, <1>4, <1>6 DEF RestType
  <1>8. Started(p)
    BY <1>1, <1>3, <1>4 DEF Started, Kept
  <1>. QED  BY <1>3, <1>7, <1>8

(* What an end does. *)
LEMMA Ending ==
    ASSUME FormOK, NEW p \in Procs, NEW how \in Ended, End(p, how), Settled,
           UNCHANGED <<wallet, config>>, backups' \in [Names -> Files],
           Runs(p), session' \in Keys \cup {None},
           session' \in {session, None} \/ pc[p] = "start"
    PROVE  RestType' /\ JobType' /\ Stopped(p)
  <1>0. RestType /\ JobType
    BY SplitType DEF FormOK
  <1>1. JobType' /\ SameOthers(p) /\ ~Runs(p)'
    BY <1>0, EndShape
  <1>2. RestType'
    BY <1>0, RestFrame DEF RestType
  <1>. QED  BY <1>1, <1>2 DEF Stopped, Kept

LEMMA Failing ==
    ASSUME FormOK, NEW p \in Procs, Runs(p), Fail(p),
           UNCHANGED <<made, clock, runs, env>>
    PROVE  RestType' /\ JobType' /\ Stopped(p)
  <1>1. RestType
    BY SplitType DEF FormOK
  <1>2. /\ End(p, "failed") /\ Settled /\ UNCHANGED <<wallet, config>>
        /\ backups' \in [Names -> Files] /\ session' \in Keys \cup {None}
        /\ session' = session
    BY <1>1 DEF Fail, Settled, files, RestType
  <1>. QED  BY <1>2, Ending DEF Ended

(* What each step of a command does. *)
LEMMA UnlockReads ==
    ASSUME FormOK, NEW p \in Procs, ReadToUnlock(p)
    PROVE  RestType' /\ JobType' /\ (Stopped(p) \/ Unlocking(p))
  <1>0. RestType /\ JobType /\ wallet \in Files
    BY SplitType DEF FormOK, RestType
  <1>1. CASE Fail(p)
    BY <1>1, Failing DEF ReadToUnlock, Runs, Ended
  <1>2. CASE ~Fail(p)
    <2>1. /\ IsFile(wallet) /\ pc' = [pc EXCEPT ![p] = "start"]
          /\ job' = [job EXCEPT ![p].key = wallet.key]
          /\ pc[p] = "read" /\ job[p].cmd = "unlock"
          /\ UNCHANGED <<files, session>> /\ Settled
      BY <1>2 DEF ReadToUnlock, Opens, Settled
    <2>2. wallet \in Wallets /\ wallet.key \in Keys /\ "start" \in Places
      BY <1>0, <2>1, FileKey DEF Places
    <2>3. JobType' /\ SameOthers(p) /\ SameCommand(p) /\ pc'[p] = "start"
          /\ job'[p].key = wallet.key
      BY <1>0, <2>1, <2>2, KeyShape
    <2>4. RestType'
      BY <1>0, <2>1, RestSame
    <2>. QED  BY <2>1, <2>2, <2>3, <2>4 DEF Unlocking, Moving, Kept, files
  <1>. QED  BY <1>1, <1>2

LEMMA SessionStarts ==
    ASSUME FormOK, NEW p \in Procs, StartSession(p)
    PROVE  RestType' /\ JobType' /\ Stopped(p)
  <1>0. RestType /\ JobType
    BY SplitType DEF FormOK
  <1>1. session' \in Keys \cup {None}
    BY <1>0 DEF StartSession, JobType, Jobs
  <1>2. /\ End(p, "done") /\ Settled /\ UNCHANGED <<wallet, config>>
        /\ backups' \in [Names -> Files] /\ Runs(p) /\ pc[p] = "start"
    BY <1>0 DEF StartSession, Finish, Settled, files, RestType, Runs, Ended
  <1>. QED  BY <1>1, <1>2, Ending DEF Ended

LEMMA RotationReads ==
    ASSUME FormOK, NEW p \in Procs, ReadToRotate(p)
    PROVE  RestType' /\ JobType' /\ (Stopped(p) \/ Rotating(p))
  <1>0. RestType /\ JobType /\ wallet \in Files /\ FormInv(p)
    BY SplitType DEF FormOK, RestType, AllForm
  <1>1. CASE Fail(p)
    BY <1>1, Failing DEF ReadToRotate, Runs, Ended
  <1>2. CASE ~Fail(p)
    <2>. DEFINE f == Rotated(wallet, job[p].new)
    <2>1. /\ Opens(wallet, job[p].pass) /\ Write(p, WalletPath, f, wallet)
          /\ pc[p] = "read" /\ job[p].cmd = "changePassword"
          /\ UNCHANGED <<files, session>> /\ Settled
      BY <1>2 DEF ReadToRotate, Settled
    <2>2. wallet \in Wallets
      BY <1>0, <2>1, FileKey DEF Opens
    <2>3. f \in Wallets /\ f.key = wallet.key /\ f.born = wallet.born
      BY <1>0, <2>1, <2>2, RotatedType DEF FormInv
    <2>. HIDE DEF f
    <2>4. /\ JobType' /\ SameOthers(p) /\ SameCommand(p) /\ pc'[p] = "stage"
          /\ job'[p].key = job[p].key /\ job'[p].target = WalletPath
          /\ job'[p].data = f /\ job'[p].was = wallet
      BY <1>0, <2>1, <2>3, WriteShape
    <2>5. RestType'
      BY <1>0, <2>1, RestSame
    <2>. QED  BY <2>1, <2>2, <2>3, <2>4, <2>5
              DEF Rotating, Moving, Prepared, Kept, files
  <1>. QED  BY <1>1, <1>2

LEMMA RestoreReads ==
    ASSUME FormOK, NEW p \in Procs, ReadToRestore(p)
    PROVE  RestType' /\ JobType' /\ (Stopped(p) \/ Restoring(p))
  <1>0. /\ RestType /\ JobType /\ wallet \in Files /\ FormInv(p)
        /\ backups \in [Names -> Files]
    BY SplitType DEF FormOK, RestType, AllForm
  <1>1. CASE Fail(p)
    BY <1>1, Failing DEF ReadToRestore, Runs, Ended
  <1>2. CASE ~Fail(p)
    <2>. DEFINE f == backups[job[p].out]
    <2>1. /\ MayReplace(job[p].force) /\ Opens(f, job[p].pass)
          /\ Write(p, WalletPath, f, wallet)
          /\ pc[p] = "read" /\ job[p].cmd = "restore"
          /\ UNCHANGED <<files, session>> /\ Settled
      BY <1>2 DEF ReadToRestore, Settled
    <2>2. f \in Files /\ IsFile(f)
      BY <1>0, <2>1 DEF FormInv, Opens
    <2>. HIDE DEF f
    <2>3. f \in Wallets
      BY <2>2, FileKey
    <2>4. /\ JobType' /\ SameOthers(p) /\ SameCommand(p) /\ pc'[p] = "stage"
          /\ job'[p].key = job[p].key /\ job'[p].target = WalletPath
          /\ job'[p].data = f /\ job'[p].was = wallet
      BY <1>0, <2>1, <2>3, WriteShape
    <2>5. RestType'
      BY <1>0, <2>1, RestSame
    <2>. QED  BY <2>1, <2>3, <2>4, <2>5
              DEF Restoring, Moving, Prepared, Kept, files
  <1>. QED  BY <1>1, <1>2

LEMMA ExportReads ==
    ASSUME FormOK, NEW p \in Procs, ReadToExport(p)
    PROVE  RestType' /\ JobType' /\ (Stopped(p) \/ Exporting(p))
  <1>0. RestType /\ JobType /\ wallet \in Files
    BY SplitType DEF FormOK, RestType
  <1>1. CASE Fail(p)
    BY <1>1, Failing DEF ReadToExport, Runs, Ended
  <1>2. CASE ~Fail(p)
    <2>1. /\ IsFile(wallet) /\ pc' = [pc EXCEPT ![p] = "check"]
          /\ job' = [job EXCEPT ![p].data = wallet]
          /\ pc[p] = "export" /\ UNCHANGED <<files, session>> /\ Settled
      BY <1>2 DEF ReadToExport, Settled
    <2>2. wallet \in Wallets /\ "check" \in Places
      BY <1>0, <2>1, FileKey DEF Places
    <2>3. /\ JobType' /\ SameOthers(p) /\ SameCommand(p) /\ pc'[p] = "check"
          /\ job'[p].key = job[p].key /\ job'[p].data = wallet
      BY <1>0, <2>1, <2>2, DataShape
    <2>4. RestType'
      BY <1>0, <2>1, RestSame
    <2>. QED  BY <2>1, <2>2, <2>3, <2>4
              DEF Exporting, Moving, Prepared, Kept, files
  <1>. QED  BY <1>1, <1>2

LEMMA ExportChecks ==
    ASSUME FormOK, NEW p \in Procs, CheckTarget(p)
    PROVE  RestType' /\ JobType' /\ (Stopped(p) \/ Checking(p))
  <1>0. RestType /\ JobType /\ FormInv(p) /\ backups \in [Names -> Files]
    BY SplitType DEF FormOK, RestType, AllForm
  <1>1. CASE Fail(p)
    BY <1>1, Failing DEF CheckTarget, Runs, Ended
  <1>2. CASE ~Fail(p)
    <2>. DEFINE t == IF job[p].out = None THEN DefaultBackupPath(job[p].data)
                                          ELSE job[p].out
    <2>1. /\ Write(p, t, job[p].data, backups[t]) /\ pc[p] = "check"
          /\ backups[t] = None \/ Overwrites(p)
          /\ UNCHANGED <<files, session>> /\ Settled
      BY <1>2 DEF CheckTarget, Settled, Collide
    <2>2. job[p].data \in Wallets
      BY <1>0, <2>1 DEF FormInv
    <2>3. t \in Names
      <3>1. job[p].out \in Outs \cup {None} /\ clock \in Times
        BY <1>0 DEF JobType, Jobs, RestType
      <3>. QED  BY <2>2, <3>1 DEF DefaultBackupPath, Names, Wallets
    <2>. HIDE DEF t
    <2>4. backups[t] \in Files
      BY <1>0, <2>3
    <2>5. /\ JobType' /\ SameOthers(p) /\ SameCommand(p) /\ pc'[p] = "stage"
          /\ job'[p].key = job[p].key /\ job'[p].target = t
          /\ job'[p].data = job[p].data /\ job'[p].was = backups[t]
      BY <1>0, <2>1, <2>2, <2>3, <2>4, WriteShape
    <2>6. RestType'
      BY <1>0, <2>1, RestSame
    <2>. QED  BY <2>1, <2>2, <2>3, <2>5, <2>6
              DEF Checking, Moving, Prepared, Kept, files
  <1>. QED  BY <1>1, <1>2

LEMMA Stages ==
    ASSUME FormOK, NEW p \in Procs, Stage(p)
    PROVE  RestType' /\ JobType' /\ Staging(p)
  <1>0. RestType /\ JobType
    BY SplitType DEF FormOK
  <1>1. /\ GoTo(p, "rename") /\ pc[p] = "stage" /\ "rename" \in Places
        /\ UNCHANGED <<files, session>> /\ Settled
    BY DEF Stage, StageFile, Settled, files, Places
  <1>2. /\ JobType' /\ SameOthers(p) /\ SameCommand(p) /\ pc'[p] = "rename"
        /\ job'[p] = job[p]
    BY <1>0, <1>1, MoveShape
  <1>3. RestType'
    BY <1>0, <1>1, RestSame
  <1>. QED  BY <1>1, <1>2, <1>3 DEF Staging, Moving, Kept, files

LEMMA Renames ==
    ASSUME FormOK, NEW p \in Procs, Rename(p)
    PROVE  RestType' /\ JobType' /\ (Stopped(p) \/ Placing(p))
  <1>0. RestType /\ JobType /\ FormInv(p)
    BY SplitType DEF FormOK, AllForm
  <1>1. /\ Put(p, job[p].data) /\ AfterRename(p) /\ pc[p] = "rename"
        /\ config' = config /\ session' = session /\ Settled
    BY DEF Rename, Settled
  <1>2. job[p].data \in Wallets /\ job[p].data \in Files
    BY <1>0, <1>1 DEF FormInv, Writes, Files
  <1>3. CASE job[p].target = WalletPath
    <2>1. /\ pc' = [pc EXCEPT ![p] = "lock"] /\ "lock" \in Places
          /\ job' = [job EXCEPT ![p].was = job[p].data]
          /\ wallet' = job[p].data /\ backups' = backups
      BY <1>1, <1>3 DEF AfterRename, Put, Places
    <2>2. /\ JobType' /\ SameOthers(p) /\ SameCommand(p) /\ pc'[p] = "lock"
          /\ job'[p].key = job[p].key /\ job'[p].target = job[p].target
          /\ job'[p].data = job[p].data /\ job'[p].was = job[p].data
      BY <1>0, <1>2, <2>1, WasShape
    <2>3. RestType'
      BY <1>0, <1>1, <1>2, <2>1, RestFrame DEF RestType
    <2>. QED  BY <1>1, <1>2, <1>3, <2>1, <2>2, <2>3 DEF Placing, Moving
  <1>4. CASE job[p].target # WalletPath
    <2>0. PICK how \in Ended : End(p, how)
      BY <1>1, <1>4 DEF AfterRename, BackupEnds, Ended
    <2>1. /\ wallet' = wallet
          /\ backups' = [backups EXCEPT ![job[p].target] = job[p].data]
      BY <1>1, <1>4 DEF Put
    <2>2. backups' \in [Names -> Files] /\ session' \in Keys \cup {None}
      BY <1>0, <1>1, <1>2, <2>1 DEF RestType
    <2>3. Runs(p)
      BY <1>1 DEF Runs, Ended
    <2>. QED  BY <1>1, <2>0, <2>1, <2>2, <2>3, Ending
  <1>. QED  BY <1>3, <1>4

LEMMA Locks ==
    ASSUME FormOK, NEW p \in Procs, Lock(p)
    PROVE  RestType' /\ JobType' /\ (Stopped(p) \/ Locking(p))
  <1>0. RestType /\ JobType
    BY SplitType DEF FormOK
  <1>1. session' = None /\ pc[p] = "lock" /\ UNCHANGED files /\ Settled
    BY DEF Lock, LockSession, Settled
  <1>2. CASE job[p].cmd = "init"
    <2>1. GoTo(p, "truncate") /\ "truncate" \in Places
      BY <1>2 DEF Lock, Places
    <2>2. /\ JobType' /\ SameOthers(p) /\ SameCommand(p)
          /\ pc'[p] = "truncate" /\ job'[p] = job[p]
      BY <1>0, <2>1, MoveShape
    <2>3. RestType'
      BY <1>0, <1>1, RestFrame DEF files, RestType
    <2>. QED  BY <1>1, <1>2, <2>2, <2>3 DEF Locking, Moving, Kept, files
  <1>3. CASE job[p].cmd # "init"
    <2>1. /\ End(p, "done") /\ Runs(p) /\ "done" \in Ended
          /\ UNCHANGED <<wallet, config>> /\ backups' \in [Names -> Files]
      BY <1>0, <1>1, <1>3 DEF Lock, Finish, Runs, Ended, files, RestType
    <2>. QED  BY <1>1, <2>1, Ending
  <1>. QED  BY <1>2, <1>3

LEMMA Truncates ==
    ASSUME FormOK, NEW p \in Procs, TruncateConfig(p)
    PROVE  RestType' /\ JobType' /\ Truncating(p)
  <1>0. RestType /\ JobType
    BY SplitType DEF FormOK
  <1>1. /\ pc[p] = "truncate" /\ config' = Torn /\ GoTo(p, "config")
        /\ wallet' = wallet /\ backups' = backups /\ session' = session
        /\ Settled /\ "config" \in Places
    BY DEF TruncateConfig, Settled, Places
  <1>2. /\ JobType' /\ SameOthers(p) /\ SameCommand(p) /\ pc'[p] = "config"
        /\ job'[p] = job[p]
    BY <1>0, <1>1, MoveShape
  <1>3. RestType'
    BY <1>0, <1>1, RestFrame DEF RestType
  <1>. QED  BY <1>1, <1>2, <1>3 DEF Truncating, Moving

LEMMA Configures ==
    ASSUME FormOK, NEW p \in Procs, WriteConfig(p)
    PROVE  RestType' /\ JobType' /\ Configuring(p)
  <1>0. RestType /\ JobType
    BY SplitType DEF FormOK
  <1>1. /\ pc[p] = "config" /\ pc' = [pc EXCEPT ![p] = "export"]
        /\ job' = [job EXCEPT ![p].target = None, ![p].data = None]
        /\ config' \in Configs /\ config'.legacy = None
        /\ wallet' = wallet /\ backups' = backups /\ session' = session
        /\ Settled /\ "export" \in Places
    BY DEF WriteConfig, Settled, Places, Configs
  <1>2. /\ JobType' /\ SameOthers(p) /\ SameCommand(p) /\ pc'[p] = "export"
        /\ job'[p].key = job[p].key
    BY <1>0, <1>1, ForgetShape
  <1>3. RestType'
    BY <1>0, <1>1, RestFrame DEF RestType
  <1>. QED  BY <1>1, <1>2, <1>3 DEF Configuring, Moving

(* Every step keeps the types and has one of the effects. *)
LEMMA Effects ==
    ASSUME FormOK, [Next]_vars
    PROVE  RestType' /\ JobType' /\ Effect
  <1>0. RestType /\ JobType
    BY SplitType DEF FormOK
  <1>1. ASSUME NEW p \in Procs, Begins(p)
        PROVE  RestType' /\ JobType' /\ Effect
    BY <1>1, Beginning DEF Effect
  <1>2. ASSUME NEW p \in Procs, Step(p)
        PROVE  RestType' /\ JobType' /\ Effect
    <2>1. RestType' /\ JobType' /\ (Stopped(p) \/ Advanced(p))
      BY <1>2, UnlockReads, SessionStarts, RotationReads, RestoreReads,
         ExportReads, ExportChecks, Stages, Renames, Locks, Truncates,
         Configures DEF Step, Advanced
    <2>. QED  BY <2>1 DEF Effect
  <1>3. ASSUME NEW p \in Procs, WriteError(p) \/ Crash(p)
        PROVE  RestType' /\ JobType' /\ Effect
    <2>1. Runs(p) /\ Fail(p) /\ UNCHANGED <<made, clock, runs, env>>
      BY <1>3 DEF WriteError, Crash, Runs, Ended
    <2>. QED  BY <2>1, Failing DEF Effect
  <1>4. CASE Tick
    <2>1. /\ pc' = pc /\ job' = job /\ clock' = clock + 1 /\ clock < MaxTime
          /\ wallet' = wallet /\ backups' = backups /\ session' = session
          /\ config' = config /\ made' = made /\ env' = env /\ runs' = runs
      BY <1>4 DEF Tick, files
    <2>2. clock' \in Times
      BY <1>0, <2>1, EnvironmentsAssumption DEF RestType, Times
    <2>. QED  BY <1>0, <2>1, <2>2 DEF RestType, JobType, Effect, Idle, Kept
  <1>5. CASE SessionEnds
    <2>1. /\ pc' = pc /\ job' = job /\ session' = None
          /\ wallet' = wallet /\ backups' = backups /\ config' = config
          /\ Settled
      BY <1>5 DEF SessionEnds, Settled, files
    <2>2. RestType'
      BY <1>0, <2>1, RestFrame DEF RestType
    <2>. QED  BY <1>0, <2>1, <2>2 DEF JobType, Effect, Idle, Kept
  <1>6. CASE UNCHANGED vars
    <2>1. /\ pc' = pc /\ job' = job /\ UNCHANGED <<files, session>> /\ Settled
      BY <1>6 DEF vars, Settled, files
    <2>2. RestType'
      BY <1>0, <2>1, RestSame
    <2>. QED  BY <1>0, <2>1, <2>2 DEF JobType, Effect, Idle, Kept, files
  <1>. QED  BY <1>1, <1>2, <1>3, <1>4, <1>5, <1>6 DEF Next, Begins

-----------------------------------------------------------------------------
(* What every step keeps of one command.                                   *)

(* Each part of the invariant is kept by every effect. *)
LEMMA FormStep ==
    ASSUME FormOK, Effect
    PROVE  AllForm'
  <1>. SUFFICES ASSUME NEW q \in Procs PROVE FormInv(q)'
    BY DEF AllForm
  <1>0. FormInv(q)
    BY DEF FormOK, AllForm
  <1>1. CASE Idle
    BY <1>0, <1>1 DEF Idle, FormInv, Writes
  <1>2. ASSUME NEW p \in Procs, q # p, SameOthers(p)
        PROVE  FormInv(q)'
    <2>1. pc'[q] = pc[q] /\ job'[q] = job[q]
      BY <1>2 DEF SameOthers
    <2>. QED  BY <1>0, <2>1 DEF FormInv, Writes
  <1>3. ASSUME NEW p \in Procs, Started(p)
        PROVE  FormInv(q)'
    <2>1. PICK w \in {"stage", "read", "export"}, j \in Jobs :
             /\ StartsAs(p, w, j) /\ Proper(w, j)
             /\ \A r \in Procs \ {p} : Notes(r, j)
      BY <1>3 DEF Started
    <2>2. CASE q = p
      BY <2>1, <2>2 DEF StartsAs, FormInv, Writes, Proper, Replacing, Writing
    <2>3. CASE q # p
      BY <1>0, <2>1, <2>3 DEF Notes, FormInv, Writes
    <2>. QED  BY <2>2, <2>3
  <1>4. ASSUME NEW p \in Procs, Stopped(p)
        PROVE  FormInv(q)'
    <2>1. CASE q = p
      BY <1>4, <2>1 DEF Stopped, Runs, FormInv, Writes, Ended
    <2>. QED  BY <1>2, <1>4, <2>1 DEF Stopped
  <1>5. ASSUME NEW p \in Procs, Advanced(p)
        PROVE  FormInv(q)'
    <2>0. SameOthers(p) /\ SameCommand(p)
      BY <1>5 DEF Advanced, Unlocking, Rotating, Restoring, Exporting,
         Checking, Staging, Placing, Locking, Truncating, Configuring, Moving
    <2>1. CASE q # p
      BY <1>2, <2>0, <2>1
    <2>2. CASE q = p /\ Unlocking(p)
      BY <2>0, <2>2 DEF Unlocking, Moving, SameCommand, FormInv, Writes
    <2>3. CASE q = p /\ Rotating(p)
      BY <2>0, <2>3 DEF Rotating, Prepared, Moving, SameCommand, FormInv,
         Writes, Writing
    <2>4. CASE q = p /\ Restoring(p)
      BY <2>0, <2>4 DEF Restoring, Prepared, Moving, SameCommand, FormInv,
         Writes, Writing, Replacing
    <2>5. CASE q = p /\ Exporting(p)
      BY <1>0, <2>0, <2>5 DEF Exporting, Prepared, Moving, SameCommand,
         FormInv, Writes
    <2>6. CASE q = p /\ Checking(p)
      BY <1>0, <2>0, <2>6 DEF Checking, Prepared, Moving, SameCommand,
         FormInv, Writes
    <2>7. CASE q = p /\ Staging(p)
      BY <1>0, <2>7 DEF Staging, Moving, FormInv, Writes
    <2>8. CASE q = p /\ Placing(p)
      BY <1>0, <2>0, <2>8, NoneAssumption DEF Placing, Moving, SameCommand,
         FormInv, Writes
    <2>9. CASE q = p /\ Locking(p)
      BY <2>0, <2>9 DEF Locking, Moving, SameCommand, FormInv, Writes
    <2>10. CASE q = p /\ Truncating(p)
      BY <1>0, <2>0, <2>10 DEF Truncating, Moving, SameCommand, FormInv,
         Writes
    <2>11. CASE q = p /\ Configuring(p)
      BY <1>0, <2>0, <2>11 DEF Configuring, Moving, SameCommand, FormInv,
         Writes
    <2>. QED  BY <1>5, <2>1, <2>2, <2>3, <2>4, <2>5, <2>6, <2>7, <2>8, <2>9,
              <2>10, <2>11 DEF Advanced
  <1>. QED  BY <1>1, <1>3, <1>4, <1>5 DEF Effect

(* The config loses a legacy key only to be cut short, or to have none.    *)
LegacyKept == config' = config \/ config' = Torn \/ config'.legacy = None

LEMMA InitStep ==
    ASSUME FormOK, AllInit, Effect
    PROVE  AllInit'
  <1>. SUFFICES ASSUME NEW q \in Procs PROVE InitInv(q)'
    BY DEF AllInit
  <1>0. InitInv(q) /\ FormInv(q)
    BY DEF FormOK, AllForm, AllInit
  <1>1. CASE Idle
    BY <1>0, <1>1 DEF Idle, Kept, InitInv, Begun, Writes, Runs
  <1>2. ASSUME NEW p \in Procs, q # p, SameOthers(p), LegacyKept
        PROVE  InitInv(q)'
    <2>1. pc'[q] = pc[q] /\ job'[q] = job[q]
      BY <1>2 DEF SameOthers
    <2>. QED  BY <1>0, <1>2, <2>1 DEF InitInv, Begun, Writes, Runs, LegacyKept
  <1>3. ASSUME NEW p \in Procs, Started(p)
        PROVE  InitInv(q)'
    <2>1. PICK w \in {"stage", "read", "export"}, j \in Jobs :
             /\ StartsAs(p, w, j) /\ Proper(w, j)
             /\ \A r \in Procs \ {p} : Notes(r, j)
      BY <1>3 DEF Started
    <2>2. config' = config
      BY <1>3 DEF Started, Kept
    <2>3. CASE q = p
      BY <2>1, <2>2, <2>3 DEF StartsAs, InitInv, Begun, Writes, Proper
    <2>4. CASE q # p
      BY <1>0, <2>1, <2>2, <2>4 DEF Notes, InitInv, Begun, Writes, Runs
    <2>. QED  BY <2>3, <2>4
  <1>4. ASSUME NEW p \in Procs, Stopped(p)
        PROVE  InitInv(q)'
    <2>1. CASE q = p
      BY <1>4, <2>1 DEF Stopped, Runs, InitInv, Begun, Writes, Ended
    <2>. QED  BY <1>2, <1>4, <2>1 DEF Stopped, LegacyKept, Kept
  <1>5. ASSUME NEW p \in Procs, Advanced(p)
        PROVE  InitInv(q)'
    <2>0. SameOthers(p) /\ SameCommand(p) /\ LegacyKept /\ Runs(p)
      BY <1>5 DEF Advanced, Unlocking, Rotating, Restoring, Exporting,
         Checking, Staging, Placing, Locking, Truncating, Configuring, Moving,
         Prepared, Kept, LegacyKept, Runs, Ended
    <2>1. CASE q # p
      BY <1>2, <2>0, <2>1
    <2>2. CASE q = p /\ (Unlocking(p) \/ Rotating(p) \/ Restoring(p))
      BY <1>0, <2>0, <2>2 DEF Unlocking, Rotating, Restoring, Moving,
         SameCommand, InitInv, Begun, Writes
    <2>3. CASE q = p /\ Exporting(p)
      BY <1>0, <2>0, <2>3 DEF Exporting, Prepared, Kept, Moving, SameCommand,
         InitInv, Begun, Writes
    <2>4. CASE q = p /\ Checking(p)
      BY <1>0, <2>0, <2>4, NoneAssumption DEF Checking, Prepared, Kept,
         Moving, SameCommand, InitInv, Begun, Writes
    <2>5. CASE q = p /\ Staging(p)
      BY <1>0, <2>0, <2>5 DEF Staging, Moving, Kept, InitInv, Begun, Writes
    <2>6. CASE q = p /\ Placing(p)
      BY <1>0, <2>0, <2>6 DEF Placing, Moving, SameCommand, InitInv, Begun,
         Writes
    <2>7. CASE q = p /\ Locking(p)
      BY <1>0, <2>0, <2>7 DEF Locking, Kept, Moving, SameCommand, InitInv,
         Begun, Writes
    <2>8. CASE q = p /\ Truncating(p)
      BY <1>0, <2>0, <2>8 DEF Truncating, Moving, SameCommand, InitInv, Begun,
         Writes
    <2>9. CASE q = p /\ Configuring(p)
      BY <1>0, <2>0, <2>9 DEF Configuring, Moving, SameCommand, InitInv,
         Begun, Writes
    <2>. QED  BY <1>5, <2>1, <2>2, <2>3, <2>4, <2>5, <2>6, <2>7, <2>8, <2>9
              DEF Advanced
  <1>. QED  BY <1>1, <1>3, <1>4, <1>5 DEF Effect

LEMMA KeepStep ==
    ASSUME FormOK, AllKeep, Effect
    PROVE  AllKeep'
  <1>. SUFFICES ASSUME NEW q \in Procs PROVE KeepInv(q)'
    BY DEF AllKeep
  <1>0. KeepInv(q) /\ FormInv(q)
    BY DEF FormOK, AllForm, AllKeep
  <1>1. CASE Idle
    BY <1>0, <1>1 DEF Idle, KeepInv, Writes
  <1>2. ASSUME NEW p \in Procs, q # p, SameOthers(p)
        PROVE  KeepInv(q)'
    <2>1. pc'[q] = pc[q] /\ job'[q] = job[q]
      BY <1>2 DEF SameOthers
    <2>. QED  BY <1>0, <2>1 DEF KeepInv, Writes
  <1>3. ASSUME NEW p \in Procs, Started(p)
        PROVE  KeepInv(q)'
    <2>1. PICK w \in {"stage", "read", "export"}, j \in Jobs :
             /\ StartsAs(p, w, j) /\ Proper(w, j)
             /\ \A r \in Procs \ {p} : Notes(r, j)
      BY <1>3 DEF Started
    <2>2. CASE q = p
      BY <2>1, <2>2 DEF StartsAs, KeepInv, Writes, Proper
    <2>3. CASE q # p
      BY <1>0, <2>1, <2>3 DEF Notes, KeepInv, Writes
    <2>. QED  BY <2>2, <2>3
  <1>4. ASSUME NEW p \in Procs, Stopped(p)
        PROVE  KeepInv(q)'
    <2>1. CASE q = p
      BY <1>4, <2>1 DEF Stopped, Runs, KeepInv, Writes, Ended
    <2>. QED  BY <1>2, <1>4, <2>1 DEF Stopped
  <1>5. ASSUME NEW p \in Procs, Advanced(p)
        PROVE  KeepInv(q)'
    <2>0. SameOthers(p) /\ SameCommand(p)
      BY <1>5 DEF Advanced, Unlocking, Rotating, Restoring, Exporting,
         Checking, Staging, Placing, Locking, Truncating, Configuring, Moving
    <2>1. CASE q # p
      BY <1>2, <2>0, <2>1
    <2>2. CASE q = p /\ Rotating(p)
      BY <2>0, <2>2 DEF Rotating, Moving, SameCommand, KeepInv, Writes
    <2>3. CASE q = p /\ Restoring(p)
      BY <2>0, <2>3 DEF Restoring, MayReplace, Moving, SameCommand, KeepInv,
         Writes
    <2>4. CASE q = p /\ Checking(p)
      BY <1>0, <2>0, <2>4 DEF Checking, Overwrites, Moving, SameCommand,
         FormInv, KeepInv, Writes
    <2>5. CASE q = p /\ Staging(p)
      BY <1>0, <2>5 DEF Staging, Moving, KeepInv, Writes
    <2>6. CASE q = p /\ ~Writes(p)'
      BY <2>6 DEF KeepInv
    <2>7. Writes(p)' =>
             Rotating(p) \/ Restoring(p) \/ Checking(p) \/ Staging(p)
      BY <1>5 DEF Advanced, Unlocking, Exporting, Placing, Locking,
         Truncating, Configuring, Moving, Writes
    <2>. QED  BY <2>1, <2>2, <2>3, <2>4, <2>5, <2>6, <2>7
  <1>. QED  BY <1>1, <1>3, <1>4, <1>5 DEF Effect

-----------------------------------------------------------------------------
(* What commands know of each other.                                       *)

(* No command begins. *)
NoneBegins ==
    \A q \in Procs :
        Runs(q)' => /\ Runs(q) /\ job'[q].cmd = job[q].cmd
                    /\ job'[q].beside = job[q].beside

(* A command that goes on is the same command. *)
LEMMA AdvancedSame ==
    ASSUME NEW p \in Procs, Advanced(p)
    PROVE  Runs(p) /\ Runs(p)' /\ SameOthers(p) /\ SameCommand(p)
  BY DEF Advanced, Unlocking, Rotating, Restoring, Exporting, Checking,
     Staging, Placing, Locking, Truncating, Configuring, Moving, Runs, Ended

(* At most one command begins in a step. *)
LEMMA BeginsOrNot ==
    ASSUME Effect
    PROVE  NoneBegins \/ \E p \in Procs : Started(p)
  <1>1. CASE Idle
    BY <1>1 DEF Idle, NoneBegins, Runs
  <1>2. ASSUME NEW p \in Procs, Stopped(p)
        PROVE  NoneBegins
    BY <1>2 DEF Stopped, SameOthers, NoneBegins, Runs
  <1>3. ASSUME NEW p \in Procs, Advanced(p)
        PROVE  NoneBegins
    BY <1>3, AdvancedSame DEF SameOthers, SameCommand, NoneBegins, Runs
  <1>. QED  BY <1>1, <1>2, <1>3 DEF Effect

(* What a command that begins is told of the others. *)
LEMMA NeighborHas ==
    ASSUME NEW S \in SUBSET Procs, NEW q \in S
    PROVE  /\ {job[q].cmd} \cap Noted \subseteq Neighbors(S)
           /\ job[q].beside \subseteq Neighbors(S)
  BY DEF Neighbors

LEMMA NeighborOf ==
    ASSUME NEW S \in SUBSET Procs, NEW c \in Neighbors(S)
    PROVE  \E q \in S : c \in {job[q].cmd} \cap Noted \/ c \in job[q].beside
  BY DEF Neighbors

(* What overlaps a command stays known to it. *)
LEMMA BesideStep ==
    ASSUME BesideInv, Effect
    PROVE  BesideInv'
  <1>1. CASE NoneBegins
    BY <1>1 DEF NoneBegins, BesideInv
  <1>2. ASSUME NEW p \in Procs, Started(p)
        PROVE  BesideInv'
    <2>. DEFINE others == {q \in Procs : Runs(q)}
                n == Neighbors(others)
    <2>1. PICK w \in {"stage", "read", "export"}, j \in Jobs :
             /\ StartsAs(p, w, j)
             /\ \A r \in Procs \ {p} : Notes(r, j)
      BY <1>2 DEF Started
    <2>2. ~Runs(p) /\ job'[p].cmd = j.cmd /\ job'[p].beside = n
      BY <2>1 DEF StartsAs
    <2>3. ASSUME NEW q \in Procs, q # p, Runs(q)'
          PROVE  /\ Runs(q) /\ job'[q].cmd = job[q].cmd
                 /\ job'[q].beside = job[q].beside \cup ({j.cmd} \cap Noted)
                 /\ {job[q].cmd} \cap Noted \subseteq n
                 /\ job[q].beside \subseteq n
      <3>1. Runs(q) /\ q \in others
        BY <2>1, <2>3 DEF Notes, Runs
      <3>2. /\ {job[q].cmd} \cap Noted \subseteq n
            /\ job[q].beside \subseteq n
        BY <3>1, NeighborHas
      <3>. QED  BY <2>1, <2>3, <3>1, <3>2 DEF Notes
    <2>4. ASSUME NEW q \in others
          PROVE  n \subseteq job[q].beside \cup {job[q].cmd}
      <3>1. ASSUME NEW c \in n
            PROVE  c \in job[q].beside \cup {job[q].cmd}
        <4>1. PICK r \in others :
                 c \in {job[r].cmd} \cap Noted \/ c \in job[r].beside
          BY NeighborOf
        <4>2. CASE r = q
          BY <4>1, <4>2
        <4>3. CASE r # q
          BY <4>1, <4>3 DEF BesideInv
        <4>. QED  BY <4>2, <4>3
      <3>. QED  BY <3>1
    <2>. HIDE DEF n
    <2>. SUFFICES ASSUME NEW q \in Procs, NEW r \in Procs, Runs(q)', Runs(r)',
                         q # r
                  PROVE  /\ {job'[r].cmd} \cap Noted \subseteq job'[q].beside
                         /\ job'[r].beside
                               \subseteq job'[q].beside \cup {job'[q].cmd}
      BY DEF BesideInv
    <2>5. CASE q = p
      BY <2>2, <2>3, <2>5
    <2>6. CASE r = p
      <3>1. Runs(q) /\ n \subseteq job[q].beside \cup {job[q].cmd}
        BY <2>3, <2>4, <2>6
      <3>. QED  BY <2>2, <2>3, <2>6, <3>1
    <2>7. CASE q # p /\ r # p
      <3>1. /\ {job[r].cmd} \cap Noted \subseteq job[q].beside
            /\ job[r].beside \subseteq job[q].beside \cup {job[q].cmd}
        BY <2>3, <2>7 DEF BesideInv
      <3>. QED  BY <2>3, <2>7, <3>1
    <2>. QED  BY <2>5, <2>6, <2>7
  <1>. QED  BY <1>1, <1>2, BeginsOrNot

-----------------------------------------------------------------------------
(* The wallet is replaced beside a command that can tell.                  *)

(* Only a rename to the wallet's path changes the wallet. *)
LEMMA WalletKept ==
    ASSUME Effect
    PROVE  wallet' = wallet \/ \E x \in Procs : Placing(x)
  BY DEF Effect, Idle, Started, Stopped, Advanced, Unlocking, Rotating,
     Restoring, Exporting, Checking, Staging, Locking, Truncating,
     Configuring, Prepared, Kept

(* Beside a quiet command, or in it, only a rotation replaces the wallet.  *)
LEMMA RotationPlaces ==
    ASSUME FormOK, BesideInv, QuietInv, NEW p \in Procs, Quiet(p),
           NEW x \in Procs, Placing(x), x # p \/ job[p].cmd \notin Replacing
    PROVE  /\ job[x].cmd = "changePassword" /\ Matches(x)
           /\ IsFile(wallet) /\ IsFile(wallet')
           /\ wallet'.key = wallet.key /\ wallet'.born = wallet.born
  <1>1. /\ pc[x] = "rename" /\ Runs(x) /\ Writes(x)
        /\ job[x].target = WalletPath /\ job[x].data \in Wallets
        /\ wallet' = job[x].data
    BY DEF Placing, Moving, Runs, Writes, Ended
  <1>2. job[x].cmd \in Writing
    BY <1>1, NoneAssumption DEF FormOK, AllForm, FormInv
  <1>3. job[x].cmd \notin Replacing
    <2>1. CASE x = p
      BY <2>1
    <2>2. CASE x # p
      <3>1. {job[x].cmd} \cap Noted \subseteq job[p].beside
        BY <1>1, <2>2 DEF BesideInv, Quiet
      <3>2. job[x].cmd \in job[p].beside
        BY <1>2, <3>1 DEF Noted
      <3>. QED  BY <3>2 DEF Quiet, Undisturbed
    <2>. QED  BY <2>1, <2>2
  <1>4. job[x].cmd = "changePassword"
    BY <1>2, <1>3 DEF Writing
  <1>5. Matches(x)
    BY DEF QuietInv
  <1>6. IsFile(wallet')
    BY <1>1, WalletIsFile
  <1>. QED  BY <1>1, <1>4, <1>5, <1>6 DEF Matches, Rotates

(* A command is quiet only if it was. *)
LEMMA QuietBefore ==
    ASSUME FormOK, Effect, NEW p \in Procs, Quiet(p)'
    PROVE  \/ Quiet(p)
           \/ Started(p) /\ \A q \in Procs : Runs(q) => Quiet(q)
  <1>1. ASSUME pc'[p] = pc[p], job'[p].cmd = job[p].cmd,
               job[p].beside \subseteq job'[p].beside,
               job'[p].target = job[p].target
        PROVE  Quiet(p)
    BY <1>1 DEF Quiet, Undisturbed, Runs, Writes
  <1>2. CASE Idle
    BY <1>1, <1>2 DEF Idle
  <1>3. ASSUME NEW x \in Procs, x # p, SameOthers(x)
        PROVE  Quiet(p)
    BY <1>1, <1>3 DEF SameOthers
  <1>4. ASSUME NEW x \in Procs, Stopped(x)
        PROVE  Quiet(p)
    BY <1>3, <1>4 DEF Stopped, Quiet
  <1>5. ASSUME NEW x \in Procs, Started(x)
        PROVE  \/ Quiet(p)
               \/ Started(p) /\ \A q \in Procs : Runs(q) => Quiet(q)
    <2>1. PICK w \in {"stage", "read", "export"}, j \in Jobs :
             /\ StartsAs(x, w, j)
             /\ \A r \in Procs \ {x} : Notes(r, j)
      BY <1>5 DEF Started
    <2>2. CASE x # p
      <3>1. /\ pc'[p] = pc[p] /\ job'[p].cmd = job[p].cmd
            /\ job'[p].target = job[p].target
            /\ Runs(p) =>
                  job'[p].beside = job[p].beside \cup ({j.cmd} \cap Noted)
        BY <2>1, <2>2 DEF Notes
      <3>2. Runs(p)
        BY <3>1 DEF Quiet, Runs
      <3>. QED  BY <1>1, <3>1, <3>2
    <2>3. CASE x = p
      <3>1. job'[p].beside = Neighbors({q \in Procs : Runs(q)})
        BY <2>1, <2>3 DEF StartsAs
      <3>2. Neighbors({q \in Procs : Runs(q)}) \cap Replacing = {}
        BY <3>1 DEF Quiet, Undisturbed
      <3>3. ASSUME NEW q \in Procs, Runs(q)
            PROVE  Quiet(q)
        <4>1. /\ {job[q].cmd} \cap Noted
                    \subseteq Neighbors({r \in Procs : Runs(r)})
              /\ job[q].beside \subseteq Neighbors({r \in Procs : Runs(r)})
          BY <3>3, NeighborHas
        <4>2. job[q].cmd \notin Replacing /\ job[q].beside \cap Replacing = {}
          BY <3>2, <4>1 DEF Noted, Writing
        <4>. QED  BY <3>3, <4>2 DEF Quiet, Undisturbed
      <3>. QED  BY <1>5, <2>3, <3>3
    <2>. QED  BY <2>2, <2>3
  <1>6. ASSUME NEW x \in Procs, Advanced(x)
        PROVE  Quiet(p)
    <2>0. Runs(x) /\ Runs(x)' /\ SameOthers(x) /\ SameCommand(x)
      BY <1>6, AdvancedSame
    <2>1. CASE x # p
      BY <1>3, <2>0, <2>1
    <2>2. CASE x = p
      <3>1. /\ Runs(p) /\ Undisturbed(p) /\ job'[p].cmd = job[p].cmd
        BY <2>0, <2>2 DEF SameCommand, Quiet, Undisturbed
      <3>2. CASE job[p].cmd \notin Replacing
        BY <3>1, <3>2 DEF Quiet
      <3>3. CASE job[p].cmd \in Replacing
        <4>1. pc'[p] = "read" \/ (Writes(p)' /\ job'[p].target = WalletPath)
          BY <3>1, <3>3 DEF Quiet
        <4>2. Rotating(p) \/ Restoring(p) \/ Checking(p) \/ Staging(p)
          BY <1>6, <2>2, <4>1 DEF Advanced, Unlocking, Exporting, Placing,
             Locking, Truncating, Configuring, Moving, Writes
        <4>3. CASE Rotating(p) \/ Restoring(p)
          BY <3>1, <4>3 DEF Rotating, Restoring, Moving, Quiet
        <4>4. CASE Checking(p)
          BY <4>1, <4>4, NoneAssumption DEF Checking, Moving
        <4>5. CASE Staging(p)
          BY <1>1, <3>1, <4>1, <4>5 DEF Staging, Moving, Writes, Quiet
        <4>. QED  BY <4>2, <4>3, <4>4, <4>5
      <3>. QED  BY <3>2, <3>3
    <2>. QED  BY <2>1, <2>2
  <1>. QED  BY <1>2, <1>4, <1>5, <1>6 DEF Effect

(* What an undisturbed command, or one beside it, has read stays so. *)
LEMMA QuietStep ==
    ASSUME FormOK, BesideInv, QuietInv, Effect
    PROVE  QuietInv'
  <1>. SUFFICES ASSUME NEW p \in Procs, NEW q \in Procs, Quiet(p)'
                PROVE  Matches(q)'
    BY DEF QuietInv
  <1>1. \/ Quiet(p)
        \/ Started(p) /\ \A r \in Procs : Runs(r) => Quiet(r)
    BY QuietBefore
  <1>2. \A r \in Procs : Runs(r) => Matches(r)
    BY <1>1 DEF QuietInv
  <1>3. \A r \in Procs : ~Runs(r) => Matches(r)
    BY DEF Runs, Matches, Rotates, Writes, Ended
  <1>4. Matches(q)
    BY <1>2, <1>3
  <1>5. ASSUME pc'[q] = pc[q], job'[q].cmd = job[q].cmd,
               job'[q].data = job[q].data, job'[q].key = job[q].key,
               \/ wallet' = wallet
               \/ /\ IsFile(wallet')
                  /\ wallet'.key = wallet.key /\ wallet'.born = wallet.born
        PROVE  Matches(q)'
    BY <1>4, <1>5 DEF Matches, Rotates, Writes
  <1>6. ASSUME NEW x \in Procs, x # q, SameOthers(x), wallet' = wallet
        PROVE  Matches(q)'
    BY <1>5, <1>6 DEF SameOthers
  <1>7. CASE Idle
    BY <1>5, <1>7 DEF Idle, Kept
  <1>8. ASSUME NEW x \in Procs, Stopped(x)
        PROVE  Matches(q)'
    <2>1. CASE x = q
      BY <1>8, <2>1 DEF Stopped, Runs, Matches, Rotates, Writes, Ended
    <2>. QED  BY <1>6, <1>8, <2>1 DEF Stopped, Kept
  <1>9. ASSUME NEW x \in Procs, Started(x)
        PROVE  Matches(q)'
    <2>1. PICK w \in {"stage", "read", "export"}, j \in Jobs :
             /\ StartsAs(x, w, j) /\ Proper(w, j)
             /\ \A r \in Procs \ {x} : Notes(r, j)
      BY <1>9 DEF Started
    <2>2. CASE x = q
      BY <2>1, <2>2 DEF StartsAs, Proper, Matches, Rotates, Writes
    <2>3. CASE x # q
      BY <1>5, <1>9, <2>1, <2>3 DEF Notes, Started, Kept
    <2>. QED  BY <2>2, <2>3
  <1>10. ASSUME NEW x \in Procs, Advanced(x)
         PROVE  Matches(q)'
    <2>0. Runs(x) /\ Runs(x)' /\ SameOthers(x) /\ SameCommand(x)
      BY <1>10, AdvancedSame
    <2>1. CASE Placing(x)
      <3>1. Quiet(p) /\ (x # p \/ job[p].cmd \notin Replacing)
        <4>1. ~Started(p)
          BY <1>10, <2>0, <2>1 DEF Started, StartsAs, SameOthers, Runs
        <4>2. x = p => job[p].cmd \notin Replacing
          BY <2>0, <2>1 DEF Placing, Moving, SameCommand, Quiet, Writes
        <4>. QED  BY <1>1, <4>1, <4>2
      <3>2. /\ IsFile(wallet')
            /\ wallet'.key = wallet.key /\ wallet'.born = wallet.born
        BY <2>1, <3>1, RotationPlaces
      <3>3. CASE x = q
        BY <2>1, <3>3 DEF Placing, Moving, Matches, Rotates, Writes
      <3>4. CASE x # q
        BY <1>5, <2>0, <3>2, <3>4 DEF SameOthers
      <3>. QED  BY <3>3, <3>4
    <2>2. CASE ~Placing(x)
      <3>1. wallet' = wallet
        BY <1>10, <2>2 DEF Advanced, Unlocking, Rotating, Restoring,
           Exporting, Checking, Staging, Locking, Truncating, Configuring,
           Prepared, Kept
      <3>2. CASE x # q
        BY <1>6, <2>0, <3>1, <3>2
      <3>3. CASE x = q /\ Unlocking(q)
        BY <3>1, <3>3, WalletIsFile DEF Unlocking, Moving, Matches, Rotates,
           Writes
      <3>4. CASE x = q /\ Rotating(q)
        BY <3>1, <3>4, WalletIsFile DEF Rotating, Moving, Matches, Rotates,
           Writes
      <3>5. CASE x = q /\ Staging(q)
        BY <1>4, <3>1, <3>5 DEF Staging, Moving, Matches, Rotates, Writes
      <3>6. CASE x = q /\ (Restoring(q) \/ Checking(q))
        <4>1. job[q].cmd # "changePassword"
          BY <3>6 DEF Restoring, Checking, Moving, FormOK, AllForm, FormInv
        <4>2. pc'[q] = "stage" /\ job'[q].cmd = job[q].cmd
          BY <2>0, <3>6 DEF Restoring, Checking, Moving, SameCommand
        <4>. QED  BY <4>1, <4>2 DEF Matches, Rotates
      <3>7. CASE x = q /\ (Exporting(q) \/ Locking(q) \/ Truncating(q)
                              \/ Configuring(q))
        BY <3>7 DEF Exporting, Locking, Truncating, Configuring, Moving,
           Matches, Rotates, Writes
      <3>. QED  BY <1>10, <2>2, <3>2, <3>3, <3>4, <3>5, <3>6, <3>7
                DEF Advanced
    <2>. QED  BY <2>1, <2>2
  <1>. QED  BY <1>7, <1>8, <1>9, <1>10 DEF Effect

(* So does the file it is going to replace. *)
LEMMA WasStep ==
    ASSUME FormOK, BesideInv, QuietInv, WasInv, Effect
    PROVE  WasInv'
  <1>. SUFFICES ASSUME NEW p \in Procs, Quiet(p)',
                       job'[p].cmd \in {"changePassword", "restore"},
                       pc'[p] # "lock"
                PROVE  /\ KeysOf(wallet)' = KeysOf(job'[p].was)
                       /\ job'[p].beside \cap Writing = {} =>
                             wallet' = job'[p].was
    BY DEF WasInv
  <1>. DEFINE Goal == /\ KeysOf(wallet)' = KeysOf(job'[p].was)
                      /\ job'[p].beside \cap Writing = {} =>
                            wallet' = job'[p].was
  <1>1. Quiet(p) \/ Started(p)
    BY QuietBefore
  <1>2. ASSUME Quiet(p), job'[p].cmd = job[p].cmd, pc[p] # "lock",
               job'[p].was = job[p].was,
               job[p].beside \subseteq job'[p].beside, wallet' = wallet
        PROVE  Goal
    <2>1. /\ KeysOf(wallet) = KeysOf(job[p].was)
          /\ job[p].beside \cap Writing = {} => wallet = job[p].was
      BY <1>2 DEF WasInv
    <2>. QED  BY <1>2, <2>1 DEF KeysOf, IsFile
  <1>3. ASSUME job'[p].was = wallet'
        PROVE  Goal
    BY <1>3 DEF KeysOf, IsFile
  <1>4. ASSUME Runs(p), ~Started(p) PROVE Quiet(p)
    BY <1>1, <1>4
  <1>5. CASE Idle
    <2>1. Runs(p)
      BY <1>5 DEF Idle, Quiet, Runs
    <2>2. ~Started(p)
      BY <2>1 DEF Started, StartsAs
    <2>. QED  BY <1>2, <1>4, <1>5, <2>1, <2>2 DEF Idle, Kept
  <1>6. ASSUME NEW x \in Procs, Stopped(x)
        PROVE  Goal
    <2>1. x # p
      BY <1>6 DEF Stopped, Quiet
    <2>2. pc'[p] = pc[p] /\ job'[p] = job[p] /\ wallet' = wallet
      BY <1>6, <2>1 DEF Stopped, SameOthers, Kept
    <2>3. Runs(p) /\ ~Started(p)
      BY <2>2 DEF Quiet, Runs, Started, StartsAs
    <2>. QED  BY <1>2, <1>4, <2>2, <2>3
  <1>7. ASSUME NEW x \in Procs, Started(x)
        PROVE  Goal
    <2>1. PICK w \in {"stage", "read", "export"}, j \in Jobs :
             /\ StartsAs(x, w, j) /\ Proper(w, j)
             /\ \A r \in Procs \ {x} : Notes(r, j)
      BY <1>7 DEF Started
    <2>2. wallet' = wallet
      BY <1>7 DEF Started, Kept
    <2>3. CASE x = p
      BY <1>3, <2>1, <2>2, <2>3 DEF StartsAs
    <2>4. CASE x # p
      <3>1. Notes(p, j)
        BY <2>1, <2>4
      <3>2. Runs(p)
        BY <3>1 DEF Notes, Quiet, Runs
      <3>3. ~Started(p)
        BY <3>2 DEF Started, StartsAs
      <3>. QED  BY <1>2, <1>4, <2>2, <3>1, <3>2, <3>3 DEF Notes
    <2>. QED  BY <2>3, <2>4
  <1>8. ASSUME NEW x \in Procs, Advanced(x)
        PROVE  Goal
    <2>0. Runs(x) /\ Runs(x)' /\ SameOthers(x) /\ SameCommand(x)
      BY <1>8, AdvancedSame
    <2>1. Runs(p) /\ job'[p].cmd = job[p].cmd
          /\ job'[p].beside = job[p].beside
      BY <2>0 DEF SameOthers, SameCommand, Quiet, Runs
    <2>2. Quiet(p)
      <3>1. ~Started(p)
        BY <2>1 DEF Started, StartsAs
      <3>. QED  BY <1>4, <2>1, <3>1
    <2>3. CASE Placing(x)
      <3>1. x # p
        BY <2>3 DEF Placing, Moving
      <3>2. pc'[p] = pc[p] /\ job'[p] = job[p]
        BY <2>0, <3>1 DEF SameOthers
      <3>3. /\ job[x].cmd = "changePassword" /\ IsFile(wallet)
            /\ IsFile(wallet') /\ wallet'.key = wallet.key
        BY <2>2, <2>3, <3>1, RotationPlaces
      <3>4. KeysOf(wallet)' = KeysOf(wallet)
        BY <3>3 DEF KeysOf
      <3>5. KeysOf(wallet) = KeysOf(job[p].was)
        BY <2>1, <2>2, <3>2 DEF WasInv
      <3>6. "changePassword" \in job[p].beside
        BY <2>0, <2>1, <3>1, <3>3 DEF BesideInv, Noted, Writing
      <3>. QED  BY <3>2, <3>4, <3>5, <3>6 DEF Writing
    <2>4. CASE ~Placing(x)
      <3>1. wallet' = wallet
        BY <1>8, <2>4 DEF Advanced, Unlocking, Rotating, Restoring,
           Exporting, Checking, Staging, Locking, Truncating, Configuring,
           Prepared, Kept
      <3>2. CASE x # p
        BY <1>2, <2>0, <2>2, <3>1, <3>2 DEF SameOthers
      <3>3. CASE x = p /\ (Rotating(p) \/ Restoring(p))
        BY <1>3, <3>1, <3>3 DEF Rotating, Restoring
      <3>4. CASE x = p /\ Staging(p)
        BY <1>2, <2>2, <3>1, <3>4 DEF Staging, Moving
      <3>5. CASE x = p /\ ~Rotating(p) /\ ~Restoring(p) /\ ~Staging(p)
        <4>1. \/ Unlocking(p) \/ Exporting(p) \/ Checking(p)
              \/ Locking(p) \/ Truncating(p) \/ Configuring(p)
          BY <1>8, <2>4, <3>5 DEF Advanced
        <4>2. job[p].cmd \notin {"changePassword", "restore"}
          <5>1. FormInv(p)
            BY DEF FormOK, AllForm
          <5>. QED  BY <4>1, <5>1 DEF FormInv, Unlocking, Exporting, Checking,
                    Locking, Truncating, Configuring, Moving
        <4>. QED  BY <2>1, <4>2
      <3>. QED  BY <3>2, <3>3, <3>4, <3>5
    <2>. QED  BY <2>3, <2>4
  <1>. QED  BY <1>5, <1>6, <1>7, <1>8 DEF Effect

-----------------------------------------------------------------------------
(* What an init has done, once its wallet is in place.                     *)

PlacedHas(p) ==
    /\ job[p].beside \cap Writing = {} =>
          /\ Opens(wallet, job[p].new) /\ wallet.key = job[p].key
          /\ Writes(p) \/ pc[p] = "check" =>
                job[p].data.pass = job[p].new /\ job[p].data.key = job[p].key
    /\ job[p].beside = {} /\ pc[p] # "lock" => session = None

(* What an init has put in place stays, if nothing overtakes it. *)
LEMMA PlacedStep ==
    ASSUME FormOK, AllInit, BesideInv, PlacedInv, Effect
    PROVE  PlacedInv'
  <1>. SUFFICES ASSUME NEW p \in Procs, Placed(p)'
                PROVE  PlacedHas(p)'
    BY DEF PlacedInv, PlacedHas
  <1>0. Placed(p) => PlacedHas(p)
    BY DEF PlacedInv, PlacedHas
  <1>1. ASSUME Placed(p), pc'[p] = pc[p], SameCommand(p),
               job'[p].key = job[p].key, job'[p].data = job[p].data,
               job[p].beside # {} \/ session' \in {session, None},
               job[p].beside \cap Writing # {} \/ wallet' = wallet
        PROVE  PlacedHas(p)'
    BY <1>0, <1>1 DEF PlacedHas, SameCommand, Writes, Opens
  <1>2. ASSUME NEW x \in Procs, x # p, SameOthers(x)
        PROVE  Placed(p) /\ Runs(p) /\ pc'[p] = pc[p] /\ job'[p] = job[p]
               /\ SameCommand(p)
    BY <1>2 DEF SameOthers, Placed, SameCommand, Runs, Writes, Ended
  <1>3. CASE Idle
    BY <1>1, <1>3 DEF Idle, Kept, Placed, SameCommand, Writes
  <1>4. ASSUME NEW x \in Procs, Stopped(x)
        PROVE  PlacedHas(p)'
    <2>1. x # p
      BY <1>4 DEF Stopped, Placed, Runs, Writes, Ended
    <2>2. Placed(p) /\ Runs(p) /\ pc'[p] = pc[p] /\ job'[p] = job[p]
          /\ SameCommand(p)
      BY <1>2, <1>4, <2>1 DEF Stopped
    <2>3. job[p].beside # {} \/ session' \in {session, None}
      <3>1. CASE pc[x] = "start"
        <4>1. job[x].cmd = "unlock"
          BY <3>1 DEF FormOK, AllForm, FormInv
        <4>2. "unlock" \in job[p].beside
          BY <1>4, <2>1, <2>2, <4>1 DEF Stopped, BesideInv, Noted
        <4>. QED  BY <4>2
      <3>. QED  BY <1>4, <3>1 DEF Stopped
    <2>. QED  BY <1>1, <1>4, <2>2, <2>3 DEF Stopped, Kept
  <1>5. ASSUME NEW x \in Procs, Started(x)
        PROVE  PlacedHas(p)'
    <2>1. PICK w \in {"stage", "read", "export"}, j \in Jobs :
             /\ StartsAs(x, w, j) /\ Proper(w, j)
             /\ \A r \in Procs \ {x} : Notes(r, j)
      BY <1>5 DEF Started
    <2>2. CASE x = p
      BY <2>1, <2>2 DEF StartsAs, Proper, Placed, Writes
    <2>3. CASE x # p
      <3>1. Notes(p, j) /\ wallet' = wallet /\ session' = session
        BY <1>5, <2>1, <2>3 DEF Started, Kept
      <3>2. Placed(p) /\ Runs(p)
        BY <3>1 DEF Notes, Placed, Writes, Runs, Ended
      <3>3. job[p].beside \subseteq job'[p].beside
        BY <3>1, <3>2 DEF Notes
      <3>. QED  BY <1>0, <3>1, <3>2, <3>3 DEF Notes, PlacedHas, Writes, Opens
    <2>. QED  BY <2>2, <2>3
  <1>6. ASSUME NEW x \in Procs, Advanced(x)
        PROVE  PlacedHas(p)'
    <2>0. Runs(x) /\ Runs(x)' /\ SameOthers(x) /\ SameCommand(x)
      BY <1>6, AdvancedSame
    <2>1. session' \in {session, None}
      BY <1>6 DEF Advanced, Unlocking, Rotating, Restoring, Exporting,
         Checking, Staging, Placing, Locking, Truncating, Configuring,
         Prepared
    <2>2. wallet' = wallet \/ Placing(x)
      BY <1>6 DEF Advanced, Unlocking, Rotating, Restoring, Exporting,
         Checking, Staging, Locking, Truncating, Configuring, Prepared, Kept
    <2>3. CASE x # p
      <3>1. Placed(p) /\ Runs(p) /\ pc'[p] = pc[p] /\ job'[p] = job[p]
            /\ SameCommand(p)
        BY <1>2, <2>0, <2>3
      <3>2. job[p].beside \cap Writing # {} \/ wallet' = wallet
        <4>1. CASE Placing(x)
          <5>1. Writes(x) /\ job[x].target = WalletPath
            BY <4>1 DEF Placing, Moving, Writes
          <5>2. job[x].cmd \in Writing
            BY <5>1, NoneAssumption DEF FormOK, AllForm, FormInv
          <5>3. job[x].cmd \in job[p].beside
            BY <2>0, <2>3, <3>1, <5>2 DEF BesideInv, Noted
          <5>. QED  BY <5>2, <5>3
        <4>. QED  BY <2>2, <4>1
      <3>. QED  BY <1>1, <2>1, <3>1, <3>2
    <2>4. CASE x = p
      <3>0. job[p].cmd = "init" /\ FormInv(p) /\ InitInv(p)
        BY <2>0, <2>4 DEF Placed, SameCommand, FormOK, AllForm, AllInit
      <3>1. CASE Placing(p)
        <4>1. Begun(p)
          BY <3>0, <3>1 DEF Begun, Placing, Moving, Writes
        <4>2. /\ wallet' \in Wallets /\ wallet'.key = job[p].key
              /\ wallet'.pass = job[p].new
          BY <3>0, <3>1, <4>1 DEF InitInv, Placing
        <4>3. IsFile(wallet')
          BY <4>2, WalletIsFile
        <4>4. pc'[p] = "lock" /\ job'[p].key = job[p].key
              /\ job'[p].new = job[p].new
          BY <3>1 DEF Placing, Moving, SameCommand
        <4>. QED  BY <4>2, <4>3, <4>4 DEF PlacedHas, Opens, Writes
      <3>2. CASE ~Placing(p)
        <4>1. wallet' = wallet
          BY <2>2, <2>4, <3>2
        <4>2. CASE Locking(p)
          BY <1>0, <2>0, <2>4, <4>1, <4>2 DEF Locking, Moving, SameCommand,
             Placed, PlacedHas, Opens, Writes
        <4>3. CASE Truncating(p)
          BY <1>0, <2>0, <2>4, <3>0, <4>1, <4>3 DEF Truncating, Moving,
             SameCommand, Placed, PlacedHas, Opens, Writes
        <4>4. CASE Configuring(p)
          BY <1>0, <2>0, <2>4, <3>0, <4>1, <4>4 DEF Configuring, Moving,
             SameCommand, Placed, PlacedHas, Opens, Writes
        <4>5. CASE Exporting(p)
          BY <1>0, <2>0, <2>4, <3>0, <4>1, <4>5 DEF Exporting, Prepared,
             Moving, SameCommand, Placed, PlacedHas, Opens, Writes
        <4>6. CASE Checking(p)
          BY <1>0, <2>0, <2>4, <3>0, <4>1, <4>6 DEF Checking, Prepared,
             Moving, SameCommand, Placed, PlacedHas, Opens, Writes
        <4>7. CASE Staging(p)
          BY <1>0, <2>0, <2>4, <3>0, <4>1, <4>7 DEF Staging,
             Moving, Placed, PlacedHas, Opens, Writes
        <4>8. ~Unlocking(p) /\ ~Rotating(p) /\ ~Restoring(p)
          BY <3>0 DEF Unlocking, Rotating, Restoring
        <4>. QED  BY <1>6, <2>4, <3>2, <4>2, <4>3, <4>4, <4>5, <4>6, <4>7,
                  <4>8 DEF Advanced
      <3>. QED  BY <3>1, <3>2
    <2>. QED  BY <2>3, <2>4
  <1>. QED  BY <1>3, <1>4, <1>5, <1>6 DEF Effect

-----------------------------------------------------------------------------
(* The inductive invariant.                                                *)

(* The invariant holds at first. *)
LEMMA InitIInv == Init => IInv
  <1>. SUFFICES ASSUME Init PROVE IInv
    OBVIOUS
  <1>1. \A p \in Procs : pc[p] = "done"
    BY DEF Init
  <1>2. \A p \in Procs : ~Runs(p) /\ ~Writes(p) /\ ~Placed(p)
    BY <1>1 DEF Runs, Writes, Placed, Ended
  <1>3. TypeOK
    <2>1. Old \subseteq Files /\ 0 \in Times
      BY EnvironmentsAssumption DEF Old, Files, Wallets, Times
    <2>2. RestType
      <3>1. PICK f \in Old :
               /\ backups = [n \in Names |-> IF n \in Outs THEN f ELSE None]
               /\ made = KeysOf(wallet) \cup KeysOf(f)
                            \cup ({config.legacy} \ {None})
        BY DEF Init
      <3>2. f \in Files /\ wallet \in Files
        BY <2>1, <3>1 DEF Init
      <3>3. backups \in [Names -> Files]
        BY <3>1, <3>2 DEF Files
      <3>4. KeysOf(wallet) \subseteq Keys /\ KeysOf(f) \subseteq Keys
        BY <3>2, FileKey DEF KeysOf
      <3>5. made \subseteq Keys
        BY <3>1, <3>4 DEF Init, Configs
      <3>6. env.maxRuns \in Nat
        BY EnvironmentsAssumption DEF Init, EnvironmentType
      <3>. QED  BY <2>1, <3>2, <3>3, <3>5, <3>6 DEF Init, RestType
    <2>3. JobType
      BY NoJobType DEF Init, JobType, Places, Ended
    <2>. QED  BY <2>2, <2>3, SplitType
  <1>4. AllForm /\ AllInit /\ AllKeep
    BY <1>1, <1>2 DEF AllForm, AllInit, AllKeep, FormInv, InitInv, KeepInv,
       Begun
  <1>5. BesideInv /\ QuietInv /\ WasInv /\ PlacedInv
    BY <1>2 DEF BesideInv, QuietInv, WasInv, PlacedInv, Quiet
  <1>. QED  BY <1>3, <1>4, <1>5 DEF IInv

(* Every step keeps the invariant. *)
LEMMA IInvStep == IInv /\ [Next]_vars => IInv'
  <1>. SUFFICES ASSUME IInv, [Next]_vars PROVE IInv'
    OBVIOUS
  <1>1. FormOK
    BY DEF IInv, FormOK
  <1>2. RestType' /\ JobType' /\ Effect
    BY <1>1, Effects
  <1>3. TypeOK'
    BY <1>2, JoinType
  <1>4. AllForm' /\ AllInit' /\ AllKeep'
    BY <1>1, <1>2, FormStep, InitStep, KeepStep DEF IInv
  <1>5. BesideInv' /\ QuietInv' /\ WasInv' /\ PlacedInv'
    BY <1>1, <1>2, BesideStep, QuietStep, WasStep, PlacedStep DEF IInv
  <1>. QED  BY <1>3, <1>4, <1>5 DEF IInv

(* The inductive invariant holds in every state.                           *)
THEOREM Invariance == Spec => []IInv
  BY InitIInv, IInvStep, PTL DEF Spec

(* Files, config, session and jobs have their types.                       *)
THEOREM TypeCorrect == Spec => []TypeOK
  <1>1. IInv => TypeOK
    BY DEF IInv
  <1>. QED  BY <1>1, Invariance, PTL

-----------------------------------------------------------------------------
(* How a command comes to its end.                                         *)

(* Only a command that runs can end. *)
LEMMA Runner ==
    ASSUME FormOK, Effect, NEW p \in Procs, Moves(p), pc'[p] \in Ended
    PROVE  Stopped(p)
  <1>1. ~Idle
    BY DEF Idle, Moves
  <1>2. ASSUME NEW x \in Procs, Started(x)
        PROVE  FALSE
    BY <1>2 DEF Started, StartsAs, Notes, Moves, Runs
  <1>3. ASSUME NEW x \in Procs, Advanced(x)
        PROVE  FALSE
    BY <1>3, AdvancedSame DEF SameOthers, Moves, Runs
  <1>4. ASSUME NEW x \in Procs, Stopped(x)
        PROVE  x = p
    BY <1>4 DEF Stopped, SameOthers, Moves
  <1>. QED  BY <1>1, <1>2, <1>3, <1>4 DEF Effect

(* A command succeeds by starting a session, by writing a backup, or by    *)
(* locking.                                                                *)
LEMMA HowDone ==
    ASSUME FormOK, [Next]_vars, NEW p \in Procs, Moves(p), pc'[p] = "done"
    PROVE  \/ StartSession(p)
           \/ Rename(p) /\ job[p].target # WalletPath
           \/ Lock(p) /\ job[p].cmd # "init"
  <1>0. /\ pc \in [Procs -> Places] /\ Effect
        /\ \A x \in Procs : x # p => ~Stopped(x) /\ ~Started(x) /\ ~Advanced(x)
    <2>1. Effect
      BY Effects
    <2>2. \A x \in Procs : x # p => ~Stopped(x) /\ ~Started(x) /\ ~Advanced(x)
      BY AdvancedSame DEF Stopped, Started, Notes, SameOthers, Moves
    <2>. QED  BY <2>1, <2>2, SplitType DEF FormOK, JobType
  <1>1. ASSUME NEW x \in Procs, Begins(x)
        PROVE  FALSE
    <2>1. Started(x)
      BY <1>1, Beginning
    <2>. QED  BY <1>0, <2>1 DEF Started, StartsAs, Runs, Ended
  <1>2. ASSUME NEW x \in Procs, Fail(x) PROVE x # p
    BY <1>0, <1>2 DEF Fail, End
  <1>3. ASSUME NEW x \in Procs, WriteError(x) \/ Crash(x)
        PROVE  FALSE
    <2>1. x # p
      BY <1>2, <1>3 DEF WriteError, Crash
    <2>2. pc'[p] = pc[p]
      BY <1>3, <2>1, <1>0 DEF WriteError, Crash, Fail, End
    <2>. QED  BY <2>2 DEF Moves
  <1>4. ~Tick /\ ~SessionEnds /\ ~UNCHANGED vars
    BY DEF Tick, SessionEnds, vars, Moves
  <1>5. PICK x \in Procs : Step(x)
    BY <1>1, <1>3, <1>4 DEF Next, Begins
  <1>6. x = p
    <2>1. Stopped(x) \/ Advanced(x)
      BY <1>5, UnlockReads, SessionStarts, RotationReads, RestoreReads,
         ExportReads, ExportChecks, Stages, Renames, Locks, Truncates,
         Configures DEF Step, Advanced
    <2>. QED  BY <1>0, <2>1
  <1>7. ~Fail(p) /\ ~Advanced(p)
    <2>1. ASSUME Advanced(p) PROVE FALSE
      BY <2>1, AdvancedSame DEF Runs, Ended
    <2>. QED  BY <1>2, <2>1
  <1>8. Stopped(p)
    BY Runner, <1>0 DEF Ended
  <1>9. ~ReadToUnlock(p) /\ ~ReadToRotate(p) /\ ~ReadToRestore(p)
    <2>1. ~ReadToUnlock(p)
      BY <1>0, <1>7 DEF ReadToUnlock
    <2>2. ~ReadToRotate(p)
      BY <1>0, <1>7 DEF ReadToRotate, Write
    <2>3. ~ReadToRestore(p)
      BY <1>0, <1>7 DEF ReadToRestore, Write
    <2>. QED  BY <2>1, <2>2, <2>3
  <1>10. ~ReadToExport(p) /\ ~CheckTarget(p) /\ ~Stage(p)
    <2>1. ~ReadToExport(p)
      BY <1>0, <1>7 DEF ReadToExport
    <2>2. ~CheckTarget(p)
      BY <1>0, <1>7 DEF CheckTarget, Collide, Write
    <2>3. ~Stage(p)
      BY <1>0 DEF Stage, GoTo
    <2>. QED  BY <2>1, <2>2, <2>3
  <1>11. ~TruncateConfig(p) /\ ~WriteConfig(p)
    BY <1>0 DEF TruncateConfig, WriteConfig, GoTo
  <1>12. Rename(p) => job[p].target # WalletPath
    BY <1>0 DEF Rename, AfterRename
  <1>13. Lock(p) => job[p].cmd # "init"
    BY <1>0 DEF Lock, GoTo
  <1>. QED  BY <1>5, <1>6, <1>9, <1>10, <1>11, <1>12, <1>13 DEF Step

(* A command that starts a session, changes a password or makes a backup   *)
(* can tell whether an init or a restore ran beside it.                    *)
LEMMA UndisturbedIsQuiet ==
    ASSUME FormOK, NEW p \in Procs, Runs(p), Undisturbed(p),
           pc[p] # "lock", job[p].cmd # "init"
    PROVE  Quiet(p)
  <1>1. FormInv(p) /\ pc[p] \in Places
    BY SplitType DEF FormOK, AllForm, JobType
  <1>2. CASE job[p].cmd = "restore"
    <2>1. pc[p] = "read" \/ Writes(p)
      BY <1>1, <1>2 DEF FormInv, Places, Writes, Runs
    <2>2. Writes(p) => job[p].target = WalletPath
      BY <1>1, <1>2 DEF FormInv
    <2>. QED  BY <2>1, <2>2 DEF Quiet
  <1>3. CASE job[p].cmd # "restore"
    BY <1>3 DEF Quiet, Replacing
  <1>. QED  BY <1>2, <1>3

-----------------------------------------------------------------------------
(* The properties.                                                         *)

(* An init that reports success leaves a backup of its key that opens with *)
(* its password, unless another command changed the wallet beside it.      *)
THEOREM InitsBackUp == Spec => BackedUp
  <1>. DEFINE Backs(p) ==
          job[p].cmd = "init" /\ job[p].beside \cap Writing = {}
          /\ Moves(p) /\ pc'[p] = "done" =>
             \E n \in Names : /\ Opens(backups'[n], job[p].new)
                              /\ backups'[n].key = job[p].key
  <1>1. ASSUME IInv, [Next]_vars, NEW p \in Procs
        PROVE  Backs(p)
    <2>. SUFFICES ASSUME job[p].cmd = "init",
                         job[p].beside \cap Writing = {},
                         Moves(p), pc'[p] = "done"
                  PROVE  \E n \in Names : /\ Opens(backups'[n], job[p].new)
                                          /\ backups'[n].key = job[p].key
      OBVIOUS
    <2>0. FormOK /\ FormInv(p) /\ backups \in [Names -> Files]
      BY <1>1, SplitType DEF IInv, FormOK, AllForm, RestType
    <2>1. Rename(p) /\ job[p].target # WalletPath
      <3>1. ~StartSession(p)
        BY <2>0 DEF StartSession, FormInv
      <3>. QED  BY <1>1, <2>0, <3>1, HowDone
    <2>2. Writes(p) /\ job[p].target \in Names /\ job[p].data \in Wallets
      BY <2>0, <2>1 DEF Rename, Writes, FormInv
    <2>3. Placed(p)
      BY <2>1, <2>2 DEF Placed
    <2>4. job[p].data.pass = job[p].new /\ job[p].data.key = job[p].key
      BY <1>1, <2>2, <2>3 DEF IInv, PlacedInv
    <2>5. backups'[job[p].target] = job[p].data
      BY <2>0, <2>1, <2>2 DEF Rename, Put
    <2>6. Opens(job[p].data, job[p].new)
      BY <2>2, <2>4, WalletIsFile DEF Opens
    <2>. QED  BY <2>2, <2>4, <2>5, <2>6
  <1>2. IInv /\ [Next]_vars => [\A p \in Procs : Backs(p)]_vars
    BY <1>1
  <1>. QED  BY <1>2, Invariance, PTL DEF Spec, BackedUp

(* A change-password or a restore that fails before its file is in place   *)
(* leaves the wallet as it was.                                            *)
THEOREM FailuresLeaveWallet == Spec => FailedLeavesWallet
  <1>. DEFINE Leaves(p) ==
          Moves(p) /\ pc'[p] = "failed" /\ pc[p] # "lock"
          /\ job[p].cmd \in {"changePassword", "restore"} /\ Undisturbed(p) =>
             /\ KeysOf(wallet') = KeysOf(job[p].was)
             /\ job[p].beside \cap Writing = {} => wallet' = job[p].was
  <1>1. ASSUME IInv, [Next]_vars, NEW p \in Procs
        PROVE  Leaves(p)
    <2>. SUFFICES ASSUME Moves(p), pc'[p] = "failed", pc[p] # "lock",
                         job[p].cmd \in {"changePassword", "restore"},
                         Undisturbed(p)
                  PROVE  /\ KeysOf(wallet') = KeysOf(job[p].was)
                         /\ job[p].beside \cap Writing = {} =>
                               wallet' = job[p].was
      OBVIOUS
    <2>0. FormOK /\ WasInv
      BY <1>1 DEF IInv, FormOK
    <2>1. Stopped(p)
      BY <1>1, <2>0, Effects, Runner DEF Ended
    <2>2. Quiet(p) /\ wallet' = wallet
      BY <2>0, <2>1, UndisturbedIsQuiet DEF Stopped, Kept
    <2>3. /\ KeysOf(wallet) = KeysOf(job[p].was)
          /\ job[p].beside \cap Writing = {} => wallet = job[p].was
      BY <2>0, <2>2 DEF WasInv
    <2>. QED  BY <2>2, <2>3
  <1>2. IInv /\ [Next]_vars => [\A p \in Procs : Leaves(p)]_vars
    BY <1>1
  <1>. QED  BY <1>2, Invariance, PTL DEF Spec, FailedLeavesWallet

(* After a command that unlocks or replaces the wallet succeeds, send and  *)
(* balance speak of one account.                                           *)
THEOREM AccountsAgree == Spec => OneAccount
  <1>. DEFINE Agrees(p) ==
          Moves(p) /\ pc'[p] = "done" /\ job[p].cmd # "export"
          /\ Undisturbed(p) /\ (job[p].cmd \in Replacing => job[p].beside = {})
          /\ CliSigner' # None =>
             CliAddress' = CliSigner' /\ StatusAddress' = CliSigner'
  <1>1. ASSUME IInv, [Next]_vars, NEW p \in Procs
        PROVE  Agrees(p)
    <2>. SUFFICES ASSUME Moves(p), pc'[p] = "done", job[p].cmd # "export",
                         Undisturbed(p),
                         job[p].cmd \in Replacing => job[p].beside = {},
                         CliSigner' # None
                  PROVE  /\ CliAddress' = CliSigner'
                         /\ StatusAddress' = CliSigner'
      OBVIOUS
    <2>0. FormOK /\ FormInv(p) /\ QuietInv /\ PlacedInv
      BY <1>1 DEF IInv, FormOK, AllForm
    <2>1. session' # None /\ config' # Torn /\ ~config'.removed
          /\ CliSigner' = session'
      BY DEF CliSigner
    <2>2. CASE StartSession(p)
      <3>1. job[p].cmd = "unlock" /\ Runs(p) /\ pc[p] = "start"
        BY <2>0, <2>2 DEF StartSession, FormInv, Runs, Ended
      <3>2. Quiet(p)
        BY <2>0, <3>1, UndisturbedIsQuiet
      <3>3. IsFile(wallet) /\ job[p].key = wallet.key
        BY <2>0, <3>1, <3>2 DEF QuietInv, Matches
      <3>4. wallet' = wallet /\ session' = job[p].key
        BY <2>2 DEF StartSession, files
      <3>. QED  BY <2>1, <3>3, <3>4 DEF CliAddress, StatusAddress, IsFile
    <2>3. CASE Rename(p) /\ job[p].target # WalletPath
      <3>1. /\ Writes(p) /\ pc[p] # "lock" /\ session' = session
            /\ job[p].cmd = "init"
        BY <2>0, <2>3 DEF Rename, Writes, FormInv
      <3>2. session = None
        BY <2>0, <2>3, <3>1 DEF Placed, PlacedInv, Replacing
      <3>. QED  BY <2>1, <3>1, <3>2
    <2>4. CASE Lock(p)
      BY <2>1, <2>4 DEF Lock, LockSession
    <2>. QED  BY <1>1, <2>0, <2>2, <2>3, <2>4, HowDone
  <1>2. IInv /\ [Next]_vars => [\A p \in Procs : Agrees(p)]_vars
    BY <1>1
  <1>. QED  BY <1>2, Invariance, PTL DEF Spec, OneAccount

(* A password change keeps the wallet's key and its creation time.         *)
THEOREM RotationsKeepIdentity == Spec => RotationKeepsIdentity
  <1>. DEFINE Keeps(p) ==
          job[p].cmd = "changePassword" /\ Undisturbed(p)
          /\ wallet' # wallet /\ Moves(p) =>
             /\ IsFile(wallet')
             /\ wallet'.key = wallet.key /\ wallet'.born = wallet.born
  <1>1. ASSUME IInv, [Next]_vars, NEW p \in Procs
        PROVE  Keeps(p)
    <2>. SUFFICES ASSUME job[p].cmd = "changePassword", Undisturbed(p),
                         wallet' # wallet, Moves(p)
                  PROVE  /\ IsFile(wallet')
                         /\ wallet'.key = wallet.key
                         /\ wallet'.born = wallet.born
      OBVIOUS
    <2>0. FormOK /\ BesideInv /\ QuietInv
      BY <1>1 DEF IInv, FormOK
    <2>1. PICK x \in Procs : Placing(x)
      BY <1>1, <2>0, Effects, WalletKept
    <2>2. x = p
      BY <2>1 DEF Placing, Moving, SameOthers, Moves
    <2>3. Quiet(p) /\ job[p].cmd \notin Replacing
      BY <2>1, <2>2 DEF Placing, Moving, Quiet, Replacing, Runs, Ended
    <2>. QED  BY <2>0, <2>1, <2>3, RotationPlaces
  <1>2. IInv /\ [Next]_vars => [\A p \in Procs : Keeps(p)]_vars
    BY <1>1
  <1>. QED  BY <1>2, Invariance, PTL DEF Spec, RotationKeepsIdentity

(* No key loses its last copy but by a command told to replace it, or one  *)
(* that another process has overtaken.                                     *)
THEOREM KeysSurvive == Spec => NothingLost
  <1>. DEFINE Licensed(p) ==
          Moves(p) /\ (job[p].force \/ job[p].keyed \/ Overtaken(p))
              Loss(k) == Stored(k) /\ ~Stored(k)'
  <1>1. ASSUME IInv, [Next]_vars, NEW k \in Keys, Loss(k)
        PROVE  \E p \in Procs : Licensed(p)
    <2>0. /\ FormOK /\ AllInit /\ AllKeep
          /\ pc \in [Procs -> Places] /\ backups \in [Names -> Files]
      BY <1>1, SplitType DEF IInv, FormOK, JobType, RestType
    <2>1. k # None
      BY NoneAssumption
    <2>2. ~UNCHANGED files
      BY <1>1 DEF files, Stored
    <2>3. PICK p \in Procs : Rename(p) \/ TruncateConfig(p) \/ WriteConfig(p)
      <3>1. ~Tick /\ ~SessionEnds /\ ~UNCHANGED vars
        BY <2>2 DEF Tick, SessionEnds, vars, files
      <3>2. ASSUME NEW p \in Procs, Begins(p) PROVE FALSE
        BY <2>2, <3>2 DEF Begins, BeginInit, BeginUnlock,
           BeginChangePassword, BeginExport, BeginRestore, Begin
      <3>3. ASSUME NEW p \in Procs, WriteError(p) \/ Crash(p) PROVE FALSE
        BY <2>2, <3>3 DEF WriteError, Crash, Fail
      <3>4. ASSUME NEW p \in Procs,
                   \/ ReadToUnlock(p) \/ StartSession(p) \/ ReadToRotate(p)
                   \/ ReadToRestore(p) \/ ReadToExport(p) \/ CheckTarget(p)
                   \/ Stage(p) \/ Lock(p)
            PROVE  FALSE
        BY <2>2, <3>4 DEF ReadToUnlock, StartSession, ReadToRotate,
           ReadToRestore, ReadToExport, CheckTarget, Collide, Stage,
           StageFile, Lock, Fail, files
      <3>. QED  BY <1>1, <3>1, <3>2, <3>3, <3>4 DEF Next, Step, Begins
    <2>4. FormInv(p) /\ InitInv(p) /\ KeepInv(p)
      BY <2>0 DEF FormOK, AllForm, AllInit, AllKeep
    <2>5. SUFFICES ASSUME ~Licensed(p) PROVE FALSE
      OBVIOUS
    <2>6. Moves(p)
      <3>1. pc[p] # pc'[p]
        BY <2>0, <2>3 DEF Rename, AfterRename, BackupEnds, TruncateConfig,
           WriteConfig, End, GoTo
      <3>. QED  BY <3>1 DEF Moves
    <2>7. ~job[p].force /\ ~job[p].keyed /\ ~Overtaken(p)
      BY <2>5, <2>6
    <2>8. CASE Rename(p)
      <3>1. /\ Writes(p) /\ config' = config
            /\ job[p].data \in Wallets /\ IsFile(job[p].data)
        BY <2>4, <2>8, WalletIsFile DEF Rename, Writes, FormInv
      <3>2. CASE job[p].target = WalletPath
        <4>1. wallet' = job[p].data /\ backups' = backups
          BY <2>8, <3>2 DEF Rename, Put
        <4>2. job[p].was = wallet
          BY <2>7, <3>2, NoneAssumption DEF Overtaken
        <4>3. CASE job[p].cmd = "changePassword"
          BY <1>1, <2>4, <3>1, <4>1, <4>2, <4>3 DEF KeepInv, Stored
        <4>4. CASE job[p].cmd # "changePassword"
          <5>1. ~IsFile(wallet)
            BY <2>4, <2>7, <3>1, <4>2, <4>4 DEF KeepInv, IsFile
          <5>. QED  BY <1>1, <3>1, <4>1, <5>1 DEF Stored
        <4>. QED  BY <4>3, <4>4
      <3>3. CASE job[p].target # WalletPath
        <4>1. job[p].target \in Names /\ job[p].cmd # "changePassword"
          BY <2>4, <3>1, <3>3 DEF FormInv
        <4>2. /\ backups' = [backups EXCEPT ![job[p].target] = job[p].data]
              /\ wallet' = wallet
          BY <2>8, <3>3 DEF Rename, Put
        <4>3. ~IsFile(backups[job[p].target])
          BY <2>4, <2>7, <3>1, <4>1 DEF KeepInv, Overtaken, IsFile
        <4>4. \A n \in Names : IsFile(backups[n]) => backups'[n] = backups[n]
          BY <2>0, <4>1, <4>2, <4>3
        <4>. QED  BY <1>1, <3>1, <4>2, <4>4 DEF Stored
      <3>. QED  BY <3>2, <3>3
    <2>9. CASE TruncateConfig(p)
      <3>1. pc[p] = "truncate" /\ wallet' = wallet /\ backups' = backups
        BY <2>9 DEF TruncateConfig
      <3>2. job[p].cmd = "init" /\ Begun(p) /\ Runs(p)
        BY <2>4, <3>1 DEF FormInv, Begun, Runs, Ended
      <3>3. /\ job[p].target = WalletPath /\ job[p].was = job[p].data
            /\ job[p].data \in Wallets /\ job[p].data.key = job[p].key
            /\ config = Torn \/ config.legacy \in {None, job[p].key}
        BY <2>4, <2>7, <3>1, <3>2 DEF InitInv
      <3>4. wallet = job[p].data /\ IsFile(wallet)
        BY <2>7, <3>3, NoneAssumption, WalletIsFile DEF Overtaken
      <3>. QED  BY <1>1, <2>1, <3>1, <3>3, <3>4 DEF Stored
    <2>10. CASE WriteConfig(p)
      <3>1. pc[p] = "config" /\ wallet' = wallet /\ backups' = backups
        BY <2>10 DEF WriteConfig
      <3>2. config = Torn \/ config.legacy = None
        BY <2>4, <3>1 DEF InitInv
      <3>. QED  BY <1>1, <2>1, <3>1, <3>2 DEF Stored
    <2>. QED  BY <2>3, <2>8, <2>9, <2>10
  <1>2. IInv /\ [Next]_vars =>
           [\A k \in Keys : Loss(k) => \E p \in Procs : Licensed(p)]_vars
    BY <1>1
  <1>. QED  BY <1>2, Invariance, PTL DEF Spec, NothingLost
=============================================================================
