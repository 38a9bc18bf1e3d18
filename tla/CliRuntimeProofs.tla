-------------------------- MODULE CliRuntimeProofs --------------------------
(***************************************************************************)
(* Proofs about CliRuntime, for any processes, keys, chains and inputs,    *)
(* and whatever commands overlap. All of them rest on one inductive        *)
(* invariant, IInv: of which account a session or an unlock is, which      *)
(* accounts a command that spends has noted, and that a chain and a node   *)
(* which were named together agree.                                        *)
(***************************************************************************)
EXTENDS CliRuntime, TLAPS

(* The account of the wallet, and those of wallets replaced just now. *)
Accounts == Shown \cup Replaced

(* Which commands spend. *)
CommandInv ==
    \A p \in Procs : pc[p] \in {"connect", "submit"} => job[p].cmd \in {"send", "swap"}

(* An init has a key, and an unlock that of the wallet, unless the wallet  *)
(* was replaced since.                                                     *)
KeyInv ==
    \A p \in Procs :
        /\ pc[p] = "save" => job[p].key \in Keys
        /\ pc[p] = "decrypt" => wallet # None
        /\ pc[p] = "start" => job[p].key \in Keys
        /\ pc[p] = "start" /\ job[p].of = "wallet" => job[p].key = wallet

(* A session of the wallet is of one of its accounts. *)
SessionInv == session # None /\ session.of = "wallet" => session.key \in Accounts

(* A command that spends with a session has noted every account since, and *)
(* the address it was given is one of them.                                *)
Noted(j) ==
    j.cmd \in {"send", "swap"} /\ j.envKey = None =>
        /\ Accounts \subseteq j.seen
        /\ j.of = "wallet" => j.from \in j.seen
SeenInv == \A p \in Procs : pc[p] \in {"read", "submit"} => Noted(job[p])

(* A chain and a node that were named together agree, in the config, in    *)
(* what commands have read of it, and in the session.                      *)
Whole(conf) ==
    conf.pair = "whole" /\ conf.rpc # None => conf.rpc.of = ConfiguredChain(conf)
SessionWhole ==
    session # None /\ session.pair = "whole" /\ session.rpc # None =>
        session.rpc.of = session.chain
NodeInv == Whole(config) /\ SessionWhole /\ \A p \in Procs : Whole(job[p].conf)

IInv == TypeOK /\ CommandInv /\ KeyInv /\ SessionInv /\ SeenInv /\ NodeInv

-----------------------------------------------------------------------------
(* What the operators on configs, chains and nodes return. *)

(* The initial job and config. *)
LEMMA NoJobType == NoJob \in Jobs /\ NoConfig \in Configs
BY DEF NoJob, NoConfig, Jobs, Configs, Commands

(* The config under the environment is a config, and whole if they are. *)
LEMMA LoadType ==
    ASSUME TypeOK, NEW shell \in Shells
    PROVE  /\ loadConfig(shell) \in Configs
           /\ Whole(config) => Whole(loadConfig(shell))
<1>1. config \in Configs /\ shell.chain \in Named \cup {None} /\ shell.rpc \in OwnNodes \cup {None}
  BY ShellsAssumption DEF TypeOK
<1>2. Pair(config, shell) \in {"whole", "split"}
  BY <1>1 DEF Pair, Configs
<1>3. /\ loadConfig(shell) \in Configs
      /\ loadConfig(shell).chain = Or(shell.chain, config.chain)
      /\ loadConfig(shell).rpc = Or(shell.rpc, config.rpc)
      /\ loadConfig(shell).pair = Pair(config, shell)
  BY <1>1, <1>2 DEF loadConfig, Configs, Or
<1>4. Whole(config) => Whole(loadConfig(shell))
  <2>1. CASE shell.chain = None /\ shell.rpc = None
    BY <1>3, <2>1 DEF Whole, Pair, Or, ConfiguredChain
  <2>2. CASE shell.rpc # None /\ shell.rpc.of = shell.chain
    <3>1. shell.chain \in Chains /\ shell.chain # None
      BY <1>1, <2>2, ChainsAssumption DEF OwnNodes, Nodes, Named
    <3> QED BY <1>3, <2>2, <3>1 DEF Whole, ConfiguredChain, Or
  <2>3. CASE Pair(config, shell) = "split"
    BY <1>3, <2>3 DEF Whole
  <2> QED BY <2>1, <2>2, <2>3 DEF Pair
<1> QED BY <1>3, <1>4

(* What init stores is a config, and whole if what it had is. *)
LEMMA ConfiguredType ==
    ASSUME NEW conf \in Configs, NEW setup \in Setups
    PROVE  /\ Configured(conf, setup) \in Configs
           /\ Whole(conf) => Whole(Configured(conf, setup))
<1>1. setup.chain \in Named \cup {None} /\ setup.rpc \in OwnNodes \cup {None}
  BY OptionsAssumption
<1>2. Pair(conf, setup) \in {"whole", "split"}
  BY DEF Pair, Configs
<1>3. ConfiguredChain(conf) \in Named
  BY ChainsAssumption DEF Configs, ConfiguredChain, Or, Named
<1>4. Configured(conf, setup) \in Configs
  BY <1>1, <1>2, <1>3 DEF Configured, Configs, Or
<1>5. Whole(conf) => Whole(Configured(conf, setup))
  <2>1. ConfiguredChain(Configured(conf, setup)) = Or(setup.chain, ConfiguredChain(conf))
    BY <1>1, <1>3, ChainsAssumption DEF ConfiguredChain, Configured, Or, Named
  <2>2. CASE setup.chain = None /\ setup.rpc = None
    BY <2>1, <2>2 DEF Whole, Configured, Pair, Or
  <2>3. CASE setup.rpc # None /\ setup.rpc.of = setup.chain
    <3>1. setup.chain \in Chains /\ setup.chain # None
      BY <1>1, <2>3, ChainsAssumption DEF OwnNodes, Nodes, Named
    <3> QED BY <2>1, <2>3, <3>1 DEF Whole, Configured, Or
  <2>4. CASE Pair(conf, setup) = "split"
    BY <2>4 DEF Whole, Configured
  <2> QED BY <2>2, <2>3, <2>4 DEF Pair
<1> QED BY <1>4, <1>5

(* What unlock starts is a session, of the pair of its config. *)
LEMMA SessionType ==
    ASSUME NEW key \in Keys, NEW conf \in Configs, NEW of \in {"wallet", "past"}
    PROVE  /\ SessionOf(key, conf, of) \in Sessions
           /\ SessionOf(key, conf, of).key = key /\ SessionOf(key, conf, of).of = of
           /\ SessionOf(key, conf, of).pair = conf.pair
           /\ SessionOf(key, conf, of).rpc = conf.rpc
           /\ SessionOf(key, conf, of).chain = ConfiguredChain(conf)
<1>1. ConfiguredChain(conf) \in Named
  BY ChainsAssumption DEF Configs, ConfiguredChain, Or, Named
<1> QED BY <1>1, ChainsAssumption DEF SessionOf, Sessions, Configs

(* A supported chain has a node. *)
LEMMA TransportType ==
    ASSUME NEW chain \in Chains, NEW rc, rc.rpc \in OwnNodes \cup {None}
    PROVE  resolveChainTransport(chain, rc) \in Nodes
BY DEF resolveChainTransport, Node, Nodes, OwnNodes

(* Accounts shown and replaced are accounts. *)
LEMMA AccountsType == ASSUME TypeOK PROVE Accounts \subseteq Keys
BY DEF TypeOK, Accounts, Shown, Replaced, Jobs

(* A contact of a node. *)
LEMMA ContactType ==
    ASSUME NEW via \in {"process", "session"}, NEW node \in Nodes,
           NEW chain \in Chains, NEW signer \in Keys \cup {None}, NEW j \in Jobs
    PROVE  Contact(via, node, chain, signer, j) \in Contacts
BY DEF Contact, Contacts

(* The executor of a call, if there is one. *)
LEMMA ExecutorType ==
    ASSUME TypeOK, NEW j \in Jobs, j.envKey # None \/ session # None
    PROVE  /\ Executor(j).via \in {"process", "session"}
           /\ Executor(j).key \in Keys
           /\ Executor(j).rc.rpc \in OwnNodes \cup {None}
BY DEF TypeOK, Jobs, Configs, Sessions, Executor, RuntimeConfig

-----------------------------------------------------------------------------
(* Types. *)

(* A send as it begins. *)
LEMMA SendType ==
    ASSUME NEW envKey \in Keys \cup {None}, NEW option \in Named \cup {None},
           NEW conf \in Configs, NEW left \in 0..2
    PROVE  [NoJob EXCEPT !.cmd = "send", !.envKey = envKey, !.option = option,
                         !.conf = conf, !.from = envKey, !.left = left] \in Jobs
BY NoJobType DEF Jobs, Commands

(* A swap as it begins. *)
LEMMA SwapType ==
    ASSUME NEW option \in Named \cup {None}, NEW conf \in Configs, NEW left \in 0..2
    PROVE  [NoJob EXCEPT !.cmd = "swap", !.option = option, !.conf = conf,
                         !.left = left] \in Jobs
BY NoJobType DEF Jobs, Commands

(* The beginning of a command keeps the types. *)
LEMMA BeginType ==
    ASSUME TypeOK, NEW p \in Procs, NEW j \in Jobs,
           NEW where \in {"save", "decrypt", "read", "connect", "submit"},
           Begin(p, where, j)
    PROVE  TypeOK'
BY ChainsAssumption DEF TypeOK, Begin

(* What ends a step of a command. *)
LEMMA AdvanceType ==
    ASSUME TypeOK, NEW p \in Procs, NEW j \in Jobs,
           NEW where \in {"idle", "lock", "configure", "decrypt", "start",
                         "read", "submit"},
           Advance(p, where, j)
    PROVE  /\ runs' \in 0..MaxRuns
           /\ pc' \in [Procs -> {"idle", "save", "lock", "configure", "decrypt",
                                "start", "read", "connect", "submit"}]
           /\ job' \in [Procs -> Jobs]
BY DEF TypeOK, Advance

(* The end of a command keeps the types. *)
LEMMA EndType ==
    ASSUME TypeOK, NEW p \in Procs, End(p)
    PROVE  /\ runs' \in 0..MaxRuns
           /\ pc' \in [Procs -> {"idle", "save", "lock", "configure", "decrypt",
                                "start", "read", "connect", "submit"}]
           /\ job' \in [Procs -> Jobs]
BY AdvanceType, NoJobType DEF End

(* Types hold initially. *)
LEMMA InitType == Init => TypeOK
<1> SUFFICES ASSUME Init PROVE TypeOK OBVIOUS
<1>1. config \in Configs
  <2>1. NoConfig \in Configs /\ [NoConfig EXCEPT !.removed = TRUE] \in Configs
    BY DEF NoConfig, Configs
  <2>2. \A setup \in Setups : Configured(NoConfig, setup) \in Configs
    BY <2>1, ConfiguredType
  <2> QED BY <2>1, <2>2 DEF Init
<1>2. session \in Sessions \cup {None}
  <2>1. \A key \in {wallet} \ {None} : SessionOf(key, config, "wallet") \in Sessions
    BY <1>1, SessionType DEF Init
  <2> QED BY <2>1 DEF Init
<1> QED BY <1>1, <1>2, NoJobType, ChainsAssumption DEF Init, TypeOK

(* A step of a command keeps the types: an unlock has a key to start a    *)
(* session with because KeyInv says so.                                    *)
LEMMA StepType ==
    ASSUME TypeOK, KeyInv, NEW p \in Procs, Step(p)
    PROVE  TypeOK'
<1> DEFINE j == job[p]
<1>j. j \in Jobs
  BY DEF TypeOK
<1>1. CASE SaveWallet(p)
  <2>1. /\ job[p].key \in Keys
        /\ [job[p] EXCEPT !.from = wallet] \in Jobs
    BY <1>1, <1>j DEF TypeOK, Jobs, SaveWallet, KeyInv
  <2>2. ASSUME NEW q \in Procs
        PROVE  job'[q] \in Jobs
    <3>1. CASE q = p
      BY <1>1, <2>1, <3>1 DEF SaveWallet, TypeOK
    <3>2. CASE q # p /\ pc[q] = "start"
      BY <1>1, <3>2 DEF SaveWallet, TypeOK, Jobs
    <3>3. CASE q # p /\ pc[q] # "start" /\ job[q].cmd \notin {"send", "swap"}
      BY <1>1, <3>3 DEF SaveWallet, TypeOK
    <3>4. CASE q # p /\ pc[q] # "start" /\ job[q].cmd \in {"send", "swap"}
      BY <1>1, <3>4, <2>1 DEF SaveWallet, TypeOK, Jobs
    <3> QED BY <3>1, <3>2, <3>3, <3>4
  <2>3. job' \in [Procs -> Jobs]
    <3>1. job' = [q \in Procs |-> job'[q]]
      BY <1>1 DEF SaveWallet
    <3> QED BY <3>1, <2>2
  <2> QED BY <1>1, <2>1, <2>3 DEF SaveWallet, TypeOK
<1>2. CASE LockSession(p)
  <2>1. [j EXCEPT !.from = None] \in Jobs
    BY <1>j DEF Jobs
  <2> QED BY <1>2, <2>1, AdvanceType DEF LockSession, TypeOK
<1>3. CASE SaveConfig(p)
  BY <1>3, <1>j, EndType DEF SaveConfig, TypeOK, Jobs
<1>4. CASE Decrypt(p)
  <2>1. [j EXCEPT !.key = wallet] \in Jobs
    BY <1>j DEF Jobs, TypeOK
  <2> QED BY <1>4, <2>1, AdvanceType DEF Decrypt, TypeOK
<1>5. CASE StartSession(p)
  <2>1. /\ job[p].key \in Keys /\ job[p].conf \in Configs
        /\ job[p].of \in {"wallet", "past"}
    BY <1>5, <1>j DEF StartSession, KeyInv, TypeOK, Jobs
  <2> QED BY <1>5, <2>1, EndType, SessionType DEF StartSession, TypeOK
<1>6. CASE Read(p)
  <2> DEFINE chain == WantedChain(j)
             node == resolveChainTransport(chain, RuntimeConfig(j))
  <2>1. /\ runs' \in 0..MaxRuns
        /\ pc' \in [Procs -> {"idle", "save", "lock", "configure", "decrypt",
                              "start", "read", "connect", "submit"}]
        /\ job' \in [Procs -> Jobs]
    BY <1>6, <1>j, AdvanceType, EndType DEF Read
  <2>2. last' \in Contacts \cup {None}
    <3>1. RuntimeConfig(j).rpc \in OwnNodes \cup {None}
      BY <1>j DEF RuntimeConfig, Jobs, Configs
    <3>2. CASE chain \in Chains /\ last' = Contact("process", node, chain, None, j)
      <4>1. node \in Nodes
        BY <3>1, <3>2, TransportType
      <4> QED BY <3>2, <4>1, <1>j, ContactType
    <3> QED BY <1>6, <3>2 DEF Read
  <2> QED BY <1>6, <2>1, <2>2 DEF Read, TypeOK
<1>7. CASE connectLocalSession(p)
  <2> DEFINE k == [j EXCEPT !.from = session.key, !.of = session.of,
                            !.seen = Shown \cup Replaced]
  <2>1. session # None => k \in Jobs
    BY <1>j, AccountsType DEF Jobs, TypeOK, Sessions, Accounts
  <2>2. /\ runs' \in 0..MaxRuns
        /\ pc' \in [Procs -> {"idle", "save", "lock", "configure", "decrypt",
                              "start", "read", "connect", "submit"}]
        /\ job' \in [Procs -> Jobs]
    <3>1. CASE End(p)
      BY <3>1, EndType
    <3>2. CASE /\ session # None
               /\ \E where \in {"read", "submit"} : Advance(p, where, k)
      <4> HIDE DEF k
      <4> QED BY <3>2, <2>1, AdvanceType
    <3> QED BY <1>7, <3>1, <3>2 DEF connectLocalSession
  <2> QED BY <1>7, <2>2 DEF connectLocalSession, TypeOK
<1>8. CASE Submit(p)
  <2> DEFINE chain == WantedChain(j)
             executor == Executor(j)
             node == resolveChainTransport(chain, executor.rc)
  <2>1. j.left > 1 => [j EXCEPT !.left = @ - 1] \in Jobs
    BY <1>j DEF Jobs
  <2>2. /\ runs' \in 0..MaxRuns
        /\ pc' \in [Procs -> {"idle", "save", "lock", "configure", "decrypt",
                              "start", "read", "connect", "submit"}]
        /\ job' \in [Procs -> Jobs]
    <3>1. CASE End(p)
      BY <3>1, EndType
    <3>2. CASE j.left > 1 /\ Advance(p, "submit", [j EXCEPT !.left = @ - 1])
      BY <3>2, <2>1, AdvanceType
    <3> QED BY <1>8, <3>1, <3>2 DEF Submit
  <2>3. last' \in Contacts \cup {None}
    <3>1. CASE last' = None
      BY <3>1
    <3>2. CASE /\ j.envKey # None \/ session # None
               /\ chain \in Chains
               /\ \/ last' = Contact(executor.via, node, chain, executor.key, j)
                  \/ last' = Contact(executor.via, node, chain, None, j)
      <4>1. /\ executor.via \in {"process", "session"}
            /\ executor.key \in Keys
            /\ executor.rc.rpc \in OwnNodes \cup {None}
        BY <3>2, <1>j, ExecutorType
      <4>2. node \in Nodes
        BY <3>2, <4>1, TransportType
      <4> QED BY <3>2, <4>1, <4>2, <1>j, ContactType
    <3> QED BY <1>8, <3>1, <3>2 DEF Submit
  <2> QED BY <1>8, <2>2, <2>3 DEF Submit, TypeOK
<1>9. CASE Kill(p)
  <2>1. session # None => [session EXCEPT !.of = "past"] \in Sessions
    BY DEF TypeOK, Sessions
  <2> QED BY <1>9, <2>1, EndType DEF Kill, TypeOK
<1> QED BY <1>1, <1>2, <1>3, <1>4, <1>5, <1>6, <1>7, <1>8, <1>9 DEF Step

(* So does every step. *)
LEMMA NextType ==
    ASSUME TypeOK, KeyInv, [Next]_vars
    PROVE  TypeOK'
<1>n. NoJob \in Jobs
  BY NoJobType
<1>1. ASSUME NEW p \in Procs, BeginInit(p)
      PROVE  TypeOK'
  <2>1. PICK key \in Keys, setup \in Setups :
           Begin(p, "save", [NoJob EXCEPT !.cmd = "init", !.key = key,
                                          !.conf = Configured(config, setup)])
    BY <1>1 DEF BeginInit
  <2>2. Configured(config, setup) \in Configs
    BY ConfiguredType DEF TypeOK
  <2>3. [NoJob EXCEPT !.cmd = "init", !.key = key,
                      !.conf = Configured(config, setup)] \in Jobs
    BY <1>n, <2>2 DEF Jobs, Commands
  <2> QED BY <2>1, <2>3, BeginType
<1>2. ASSUME NEW p \in Procs, BeginUnlock(p)
      PROVE  TypeOK'
  <2>1. [NoJob EXCEPT !.cmd = "unlock", !.conf = config] \in Jobs
    BY <1>n DEF Jobs, Commands, TypeOK
  <2> QED BY <1>2, <2>1, BeginType DEF BeginUnlock
<1>3. ASSUME NEW p \in Procs, BeginBalance(p)
      PROVE  TypeOK'
  <2>1. PICK shell \in Shells, option \in Options :
           Begin(p, "read", [NoJob EXCEPT !.cmd = "balance", !.envKey = shell.key,
                                          !.option = option,
                                          !.conf = loadConfig(shell)])
    BY <1>3 DEF BeginBalance
  <2>2. [NoJob EXCEPT !.cmd = "balance", !.envKey = shell.key, !.option = option,
                      !.conf = loadConfig(shell)] \in Jobs
    BY <1>n, LoadType, ShellsAssumption, OptionsAssumption DEF Jobs, Commands
  <2> QED BY <2>1, <2>2, BeginType
<1>4. ASSUME NEW p \in Procs, BeginSend(p)
      PROVE  TypeOK'
  <2>1. PICK shell \in Shells, option \in Options, where \in {"submit", "connect"} :
           Begin(p, where, [NoJob EXCEPT !.cmd = "send", !.envKey = shell.key,
                                         !.option = option,
                                         !.conf = loadConfig(shell),
                                         !.from = shell.key, !.left = 1])
    BY <1>4 DEF BeginSend
  <2>2. /\ shell.key \in Keys \cup {None} /\ option \in Named \cup {None}
        /\ loadConfig(shell) \in Configs /\ 1 \in 0..2
    BY LoadType, ShellsAssumption, OptionsAssumption
  <2>3. [NoJob EXCEPT !.cmd = "send", !.envKey = shell.key, !.option = option,
                      !.conf = loadConfig(shell), !.from = shell.key,
                      !.left = 1] \in Jobs
    BY <2>2, SendType
  <2> QED BY <2>1, <2>3, BeginType
<1>5. ASSUME NEW p \in Procs, BeginSwap(p)
      PROVE  TypeOK'
  <2>1. PICK shell \in Shells, option \in Options, left \in 1..2 :
           Begin(p, "connect", [NoJob EXCEPT !.cmd = "swap", !.option = option,
                                             !.conf = loadConfig(shell),
                                             !.left = left])
    BY <1>5 DEF BeginSwap
  <2>2. /\ option \in Named \cup {None}
        /\ loadConfig(shell) \in Configs /\ left \in 0..2
    BY LoadType, OptionsAssumption
  <2>3. [NoJob EXCEPT !.cmd = "swap", !.option = option, !.conf = loadConfig(shell),
                      !.left = left] \in Jobs
    BY <2>2, SwapType
  <2> QED BY <2>1, <2>3, BeginType
<1>6. CASE EndSession
  BY <1>6 DEF EndSession, TypeOK
<1>7. CASE UNCHANGED vars
  BY <1>7 DEF vars, TypeOK
<1> QED BY <1>1, <1>2, <1>3, <1>4, <1>5, <1>6, <1>7, StepType DEF Next

-----------------------------------------------------------------------------
(* The invariant. *)

(* Accounts go with inits that are past their lock only. *)
LEMMA AccountsKept ==
    ASSUME TypeOK, TypeOK', NEW p \in Procs, UNCHANGED wallet, pc'[p] # "lock",
           \A q \in Procs \ {p} : pc'[q] = pc[q] /\ job'[q] = job[q]
    PROVE  /\ Accounts' \subseteq Accounts
           /\ pc[p] # "lock" => Accounts' = Accounts
<1>1. {q \in Procs : pc'[q] = "lock"} = {q \in Procs : pc[q] = "lock"} \ {p}
  OBVIOUS
<1>2. \A q \in {q \in Procs : pc[q] = "lock"} \ {p} : job'[q] = job[q]
  OBVIOUS
<1>3. Replaced' = {job[q].from : q \in {q \in Procs : pc[q] = "lock"} \ {p}} \ {None}
  BY <1>1, <1>2 DEF Replaced
<1>4. Replaced' \subseteq Replaced /\ (pc[p] # "lock" => Replaced' = Replaced)
  BY <1>3 DEF Replaced
<1> QED BY <1>4 DEF Accounts, Shown

(* A step of one command that leaves the wallet alone. *)
LEMMA MoveKeeps ==
    ASSUME IInv, TypeOK', NEW p \in Procs, NEW j \in Jobs,
           NEW where \in {"idle", "save", "configure", "decrypt", "start", "read",
                         "connect", "submit"},
           pc' = [pc EXCEPT ![p] = where], job' = [job EXCEPT ![p] = j],
           UNCHANGED wallet,
           where \in {"connect", "submit"} => j.cmd \in {"send", "swap"},
           where = "save" => j.key \in Keys,
           where = "decrypt" => wallet # None,
           where = "start" => j.key \in Keys /\ j.key = wallet,
           where \in {"read", "submit"} => Noted(j),
           session' # None /\ session'.of = "wallet" =>
               session'.key \in Accounts /\ pc[p] # "lock",
           Whole(config'), SessionWhole', Whole(j.conf)
    PROVE  IInv'
<1> USE DEF IInv
<1>1. /\ pc'[p] = where /\ job'[p] = j
      /\ \A q \in Procs \ {p} : pc'[q] = pc[q] /\ job'[q] = job[q]
  BY DEF TypeOK
<1>2. Accounts' \subseteq Accounts /\ (pc[p] # "lock" => Accounts' = Accounts)
  BY <1>1, AccountsKept
<1>3. CommandInv' /\ KeyInv'
  BY <1>1 DEF CommandInv, KeyInv
<1>4. SessionInv'
  BY <1>2 DEF SessionInv
<1>5. SeenInv'
  <2>1. \A q \in Procs : pc'[q] \in {"read", "submit"} => Noted(job'[q])
    BY <1>1 DEF SeenInv
  <2>2. \A k : Noted(k) => (Accounts' \subseteq Accounts =>
            (k.cmd \in {"send", "swap"} /\ k.envKey = None =>
                Accounts' \subseteq k.seen /\ (k.of = "wallet" => k.from \in k.seen)))
    BY DEF Noted
  <2> QED BY <1>2, <2>1, <2>2 DEF SeenInv, Noted
<1>6. NodeInv'
  <2>1. \A q \in Procs : Whole(job'[q].conf)
    BY <1>1 DEF NodeInv
  <2>2. \A q \in Procs : Whole(job[q].conf)'
    BY <2>1 DEF Whole, ConfiguredChain
  <2>3. Whole(config)'
    BY DEF Whole, ConfiguredChain
  <2> QED BY <2>2, <2>3 DEF NodeInv
<1> QED BY <1>3, <1>4, <1>5, <1>6

(* A command that begins keeps the invariant. *)
LEMMA BeginKeeps ==
    ASSUME IInv, TypeOK', NEW p \in Procs, NEW j \in Jobs,
           NEW where \in {"save", "decrypt", "read", "connect", "submit"},
           Begin(p, where, j),
           where = "save" => j.cmd = "init" /\ j.key \in Keys,
           where = "decrypt" => j.cmd = "unlock" /\ wallet # None,
           where = "connect" => j.cmd \in {"send", "swap"},
           where = "submit" => j.cmd = "send" /\ j.envKey # None,
           where = "read" => j.cmd = "balance",
           Whole(j.conf)
    PROVE  IInv'
<1>1. /\ pc' = [pc EXCEPT ![p] = where] /\ job' = [job EXCEPT ![p] = j]
      /\ pc[p] = "idle" /\ UNCHANGED <<config, wallet, session>>
  BY DEF Begin
<1>2. where \in {"read", "submit"} => Noted(j)
  BY DEF Noted
<1>3. session' # None /\ session'.of = "wallet" =>
          session'.key \in Accounts /\ pc[p] # "lock"
  BY <1>1 DEF IInv, SessionInv
<1>4. Whole(config') /\ SessionWhole'
  BY <1>1 DEF IInv, NodeInv, SessionWhole
<1> QED BY <1>1, <1>2, <1>3, <1>4, MoveKeeps

(* A step that only moves its own command. *)
LEMMA QuietKeeps ==
    ASSUME IInv, TypeOK', NEW p \in Procs, NEW j \in Jobs,
           NEW where \in {"idle", "start", "read", "submit"},
           Advance(p, where, j), UNCHANGED <<config, wallet, session>>,
           pc[p] # "lock",
           where = "submit" => j.cmd \in {"send", "swap"},
           where = "start" => j.key \in Keys /\ j.key = wallet,
           where \in {"read", "submit"} => Noted(j),
           Whole(j.conf)
    PROVE  IInv'
<1>1. /\ pc' = [pc EXCEPT ![p] = where] /\ job' = [job EXCEPT ![p] = j]
  BY DEF Advance
<1>2. session' # None /\ session'.of = "wallet" =>
          session'.key \in Accounts /\ pc[p] # "lock"
  BY DEF IInv, SessionInv
<1>3. Whole(config') /\ SessionWhole'
  BY DEF IInv, NodeInv, SessionWhole
<1> QED BY <1>1, <1>2, <1>3, MoveKeeps

(* Replacing the wallet: its account is the old one until the lock, and    *)
(* what an unlock has decrypted is past.                                   *)
LEMMA SaveWalletKeeps ==
    ASSUME IInv, TypeOK', NEW p \in Procs, SaveWallet(p)
    PROVE  IInv'
<1> USE DEF IInv
<1>1. /\ pc[p] = "save" /\ job[p].key \in Keys /\ job[p].key # None
      /\ wallet' = job[p].key /\ UNCHANGED <<config, session>>
      /\ pc'[p] = "lock" /\ \A q \in Procs \ {p} : pc'[q] = pc[q]
  BY ChainsAssumption DEF SaveWallet, TypeOK, KeyInv
<1>2. job'[p].from = wallet /\ job'[p].conf = job[p].conf
  BY <1>1 DEF SaveWallet, TypeOK, Jobs
<1>3. \A q \in Procs \ {p} :
         job'[q] = IF pc[q] = "start" THEN [job[q] EXCEPT !.of = "past"]
                   ELSE IF job[q].cmd \in {"send", "swap"}
                   THEN [job[q] EXCEPT !.seen = @ \cup {job[p].key}]
                   ELSE job[q]
  BY DEF SaveWallet
<1>4. \A q \in Procs \ {p} :
         /\ job'[q].cmd = job[q].cmd /\ job'[q].key = job[q].key
         /\ job'[q].conf = job[q].conf /\ job'[q].from = job[q].from
         /\ job'[q].envKey = job[q].envKey
  BY <1>3 DEF TypeOK, Jobs
<1>5. \A q \in Procs \ {p} : pc[q] = "start" => job'[q].of = "past"
  BY <1>3 DEF TypeOK, Jobs
<1>6. \A q \in Procs \ {p} :
         pc[q] # "start" /\ job[q].cmd \in {"send", "swap"} =>
             job'[q].of = job[q].of /\ job'[q].seen = job[q].seen \cup {job[p].key}
  BY <1>3 DEF TypeOK, Jobs
<1>7. Accounts' = (Accounts \cup {job[p].key})
  <2>1. {q \in Procs : pc'[q] = "lock"} = {q \in Procs : pc[q] = "lock"} \cup {p}
    BY <1>1
  <2>2. \A q \in {q \in Procs : pc[q] = "lock"} : job'[q].from = job[q].from
    BY <1>1, <1>4
  <2>3. Replaced' = (Replaced \cup {wallet}) \ {None}
    BY <1>2, <2>1, <2>2 DEF Replaced
  <2>4. None \notin Replaced
    BY DEF Replaced
  <2> QED BY <1>1, <2>3, <2>4 DEF Accounts, Shown
<1>8. CommandInv'
  BY <1>1, <1>4 DEF CommandInv
<1>9. KeyInv'
  BY <1>1, <1>4, <1>5 DEF KeyInv
<1>10. SessionInv'
  BY <1>1, <1>7 DEF SessionInv
<1>11. SeenInv'
  <2> SUFFICES ASSUME NEW q \in Procs, pc'[q] \in {"read", "submit"},
                      job'[q].cmd \in {"send", "swap"}, job'[q].envKey = None
               PROVE  /\ Accounts' \subseteq job'[q].seen
                      /\ job'[q].of = "wallet" => job'[q].from \in job'[q].seen
    BY DEF SeenInv, Noted
  <2>1. q # p /\ pc[q] \in {"read", "submit"} /\ pc[q] # "start"
    BY <1>1
  <2>2. job[q].cmd \in {"send", "swap"} /\ job[q].envKey = None
    BY <1>4, <2>1
  <2>3. /\ Accounts \subseteq job[q].seen
        /\ job[q].of = "wallet" => job[q].from \in job[q].seen
    BY <2>1, <2>2 DEF SeenInv, Noted
  <2> QED BY <1>4, <1>6, <1>7, <2>1, <2>2, <2>3
<1>12. NodeInv'
  BY <1>1, <1>2, <1>4 DEF NodeInv, SessionWhole, Whole, ConfiguredChain
<1> QED BY <1>8, <1>9, <1>10, <1>11, <1>12

(* A step of a command keeps the invariant. *)
LEMMA StepKeeps ==
    ASSUME IInv, TypeOK', NEW p \in Procs, Step(p)
    PROVE  IInv'
<1> USE DEF IInv
<1>j. job[p] \in Jobs /\ NoJob \in Jobs
  BY NoJobType DEF TypeOK
<1>w. Whole(NoJob.conf) /\ Whole(job[p].conf)
  BY DEF Whole, NoJob, NoConfig, NodeInv
<1>e. ASSUME pc[p] # "lock", End(p), UNCHANGED <<config, wallet, session>>
      PROVE  IInv'
  BY <1>e, <1>j, <1>w, QuietKeeps DEF End
<1>1. CASE SaveWallet(p)
  BY <1>1, SaveWalletKeeps
<1>2. CASE LockSession(p)
  <2> DEFINE k == [job[p] EXCEPT !.from = None]
  <2>1. k \in Jobs /\ k.conf = job[p].conf
    BY <1>j DEF Jobs
  <2>2. /\ session' = None /\ UNCHANGED <<config, wallet>>
        /\ pc' = [pc EXCEPT ![p] = "configure"] /\ job' = [job EXCEPT ![p] = k]
    BY <1>2 DEF LockSession, Advance
  <2>3. Whole(config') /\ SessionWhole'
    BY <2>2 DEF NodeInv, SessionWhole
  <2> HIDE DEF k
  <2> QED BY <1>w, <2>1, <2>2, <2>3, MoveKeeps
<1>3. CASE SaveConfig(p)
  <2>1. /\ pc[p] = "configure" /\ config' = job[p].conf /\ UNCHANGED <<wallet, session>>
        /\ pc' = [pc EXCEPT ![p] = "idle"] /\ job' = [job EXCEPT ![p] = NoJob]
    BY <1>3 DEF SaveConfig, End, Advance
  <2>2. Whole(config') /\ SessionWhole'
    BY <1>w, <2>1 DEF NodeInv, SessionWhole
  <2>3. session' # None /\ session'.of = "wallet" => session'.key \in Accounts
    BY <2>1 DEF SessionInv
  <2> QED BY <1>j, <1>w, <2>1, <2>2, <2>3, MoveKeeps
<1>4. CASE Decrypt(p)
  <2> DEFINE k == [job[p] EXCEPT !.key = wallet]
  <2>1. k \in Jobs /\ k.conf = job[p].conf /\ k.key = wallet
    BY <1>j DEF Jobs, TypeOK
  <2>2. /\ Advance(p, "start", k) /\ pc[p] = "decrypt"
        /\ UNCHANGED <<config, wallet, session>> /\ wallet \in Keys
    BY <1>4 DEF Decrypt, KeyInv, TypeOK
  <2> HIDE DEF k
  <2> QED BY <1>w, <2>1, <2>2, QuietKeeps
<1>5. CASE StartSession(p)
  <2>1. /\ pc[p] = "start" /\ UNCHANGED <<config, wallet>>
        /\ session' = SessionOf(job[p].key, job[p].conf, job[p].of)
        /\ pc' = [pc EXCEPT ![p] = "idle"] /\ job' = [job EXCEPT ![p] = NoJob]
    BY <1>5 DEF StartSession, End, Advance
  <2>2. /\ job[p].key \in Keys /\ job[p].conf \in Configs
        /\ job[p].of \in {"wallet", "past"}
        /\ job[p].of = "wallet" => job[p].key = wallet
    BY <1>j, <2>1 DEF KeyInv, Jobs
  <2>3. /\ session'.key = job[p].key /\ session'.of = job[p].of
        /\ session'.rpc = job[p].conf.rpc /\ session'.pair = job[p].conf.pair
        /\ session'.chain = ConfiguredChain(job[p].conf)
    BY <2>1, <2>2, SessionType
  <2>4. session'.of = "wallet" => session'.key \in Accounts
    BY <2>2, <2>3, ChainsAssumption DEF Accounts, Shown
  <2>5. Whole(config')
    BY <2>1 DEF NodeInv
  <2>6. SessionWhole'
    BY <1>w, <2>3 DEF SessionWhole, Whole
  <2> QED BY <1>j, <1>w, <2>1, <2>4, <2>5, <2>6, MoveKeeps
<1>6. CASE Kill(p)
  <2>1. CASE pc[p] # "lock"
    BY <1>6, <1>e, <2>1 DEF Kill
  <2>2. CASE pc[p] = "lock"
    <3>1. /\ UNCHANGED <<config, wallet>>
          /\ pc' = [pc EXCEPT ![p] = "idle"] /\ job' = [job EXCEPT ![p] = NoJob]
          /\ session' = IF session # None THEN [session EXCEPT !.of = "past"] ELSE session
      BY <1>6, <2>2 DEF Kill, End, Advance
    <3>2. session # None => /\ session'.of = "past" /\ session'.pair = session.pair
                            /\ session'.rpc = session.rpc
                            /\ session'.chain = session.chain
      BY <3>1 DEF TypeOK, Sessions
    <3>3. ~(session' # None /\ session'.of = "wallet")
      BY <3>1, <3>2
    <3>4. Whole(config') /\ SessionWhole'
      BY <3>1, <3>2 DEF NodeInv, SessionWhole
    <3> QED BY <1>j, <1>w, <3>1, <3>3, <3>4, MoveKeeps
  <2> QED BY <2>1, <2>2
<1>7. CASE Read(p)
  <2>1. pc[p] = "read" /\ UNCHANGED <<config, wallet, session>>
    BY <1>7 DEF Read
  <2>2. CASE job[p].cmd = "swap" /\ Advance(p, "submit", job[p])
    <3>1. Noted(job[p])
      BY <2>1 DEF SeenInv
    <3> QED BY <1>j, <1>w, <2>1, <2>2, <3>1, QuietKeeps
  <2>3. CASE End(p)
    BY <1>e, <2>1, <2>3
  <2> QED BY <1>7, <2>2, <2>3 DEF Read
<1>8. CASE connectLocalSession(p)
  <2>1. pc[p] = "connect" /\ UNCHANGED <<config, wallet, session>>
    BY <1>8 DEF connectLocalSession
  <2>2. CASE End(p)
    BY <1>e, <2>1, <2>2
  <2> DEFINE k == [job[p] EXCEPT !.from = session.key, !.of = session.of,
                                 !.seen = Shown \cup Replaced]
  <2>3. ASSUME NEW where \in {"read", "submit"}, session # None, Advance(p, where, k)
        PROVE  IInv'
    <3>1. /\ k \in Jobs /\ k.cmd = job[p].cmd /\ k.conf = job[p].conf
          /\ k.seen = Accounts /\ k.from = session.key /\ k.of = session.of
      BY <1>j, <2>3, AccountsType DEF Jobs, TypeOK, Sessions, Accounts
    <3>2. job[p].cmd \in {"send", "swap"}
      BY <2>1 DEF CommandInv
    <3> HIDE DEF k
    <3>3. Noted(k)
      BY <2>3, <3>1 DEF Noted, SessionInv
    <3> QED BY <1>w, <2>1, <2>3, <3>1, <3>2, <3>3, QuietKeeps
  <2> QED BY <1>8, <2>2, <2>3 DEF connectLocalSession
<1>9. CASE Submit(p)
  <2>1. pc[p] = "submit" /\ UNCHANGED <<config, wallet, session>>
    BY <1>9 DEF Submit
  <2>2. CASE End(p)
    BY <1>e, <2>1, <2>2
  <2> DEFINE k == [job[p] EXCEPT !.left = @ - 1]
  <2>3. CASE job[p].left > 1 /\ Advance(p, "submit", k)
    <3>1. /\ k \in Jobs /\ k.cmd = job[p].cmd /\ k.conf = job[p].conf
          /\ k.seen = job[p].seen /\ k.envKey = job[p].envKey
          /\ k.from = job[p].from /\ k.of = job[p].of
      BY <1>j, <2>3 DEF Jobs
    <3>2. job[p].cmd \in {"send", "swap"} /\ Noted(job[p])
      BY <2>1 DEF CommandInv, SeenInv
    <3> HIDE DEF k
    <3>3. Noted(k)
      BY <3>1, <3>2 DEF Noted
    <3> QED BY <1>w, <2>1, <2>3, <3>1, <3>2, <3>3, QuietKeeps
  <2> QED BY <1>9, <2>2, <2>3 DEF Submit
<1> QED BY <1>1, <1>2, <1>3, <1>4, <1>5, <1>6, <1>7, <1>8, <1>9 DEF Step

(* The invariant holds initially. *)
LEMMA InitKeeps == Init => IInv
<1> SUFFICES ASSUME Init PROVE IInv OBVIOUS
<1>1. TypeOK
  BY InitType
<1>2. \A p \in Procs : pc[p] = "idle" /\ job[p] = NoJob
  BY DEF Init
<1>3. wallet # None => wallet \in Accounts
  BY DEF Accounts, Shown
<1>4. CommandInv /\ KeyInv /\ SeenInv
  BY <1>2 DEF CommandInv, KeyInv, SeenInv
<1>5. session # None => \E key \in {wallet} \ {None} : session = SessionOf(key, config, "wallet")
  BY DEF Init
<1>6. session # None => /\ session.key = wallet /\ wallet # None /\ session.rpc = config.rpc
                        /\ session.pair = config.pair
                        /\ session.chain = ConfiguredChain(config)
  BY <1>5 DEF SessionOf
<1>7. Whole(config)
  <2>1. Whole(NoConfig) /\ Whole([NoConfig EXCEPT !.removed = TRUE])
    BY DEF Whole, NoConfig
  <2>2. \A setup \in Setups : Whole(Configured(NoConfig, setup))
    BY <2>1, NoJobType, ConfiguredType
  <2> QED BY <2>1, <2>2 DEF Init
<1>8. NodeInv
  BY <1>2, <1>6, <1>7 DEF NodeInv, SessionWhole, Whole, NoJob, NoConfig
<1>9. SessionInv
  BY <1>3, <1>6 DEF SessionInv
<1> QED BY <1>1, <1>4, <1>8, <1>9 DEF IInv

(* Every step keeps the invariant. *)
LEMMA NextKeeps ==
    ASSUME IInv, [Next]_vars
    PROVE  IInv'
<1>t. TypeOK'
  BY NextType DEF IInv
<1>n. NoJob \in Jobs
  BY NoJobType
<1>1. ASSUME NEW p \in Procs, BeginInit(p)
      PROVE  IInv'
  <2>1. PICK key \in Keys, setup \in Setups :
           Begin(p, "save", [NoJob EXCEPT !.cmd = "init", !.key = key,
                                          !.conf = Configured(config, setup)])
    BY <1>1 DEF BeginInit
  <2> DEFINE j == [NoJob EXCEPT !.cmd = "init", !.key = key,
                                !.conf = Configured(config, setup)]
  <2>2. Configured(config, setup) \in Configs /\ Whole(Configured(config, setup))
    BY ConfiguredType DEF TypeOK, IInv, NodeInv
  <2>3. /\ j \in Jobs /\ j.cmd = "init" /\ j.key = key
        /\ j.conf = Configured(config, setup)
    BY <1>n, <2>2 DEF Jobs, Commands
  <2>4. Begin(p, "save", j)
    BY <2>1
  <2> HIDE DEF j
  <2> QED BY <1>t, <2>2, <2>3, <2>4, BeginKeeps
<1>2. ASSUME NEW p \in Procs, BeginUnlock(p)
      PROVE  IInv'
  <2> DEFINE j == [NoJob EXCEPT !.cmd = "unlock", !.conf = config]
  <2>1. j \in Jobs /\ j.cmd = "unlock" /\ j.conf = config
    BY <1>n DEF Jobs, Commands, TypeOK, IInv
  <2>2. wallet # None /\ Whole(config) /\ Begin(p, "decrypt", j)
    BY <1>2 DEF BeginUnlock, IInv, NodeInv
  <2> HIDE DEF j
  <2> QED BY <1>t, <2>1, <2>2, BeginKeeps
<1>3. ASSUME NEW p \in Procs, BeginBalance(p)
      PROVE  IInv'
  <2>1. PICK shell \in Shells, option \in Options :
           Begin(p, "read", [NoJob EXCEPT !.cmd = "balance", !.envKey = shell.key,
                                          !.option = option,
                                          !.conf = loadConfig(shell)])
    BY <1>3 DEF BeginBalance
  <2> DEFINE j == [NoJob EXCEPT !.cmd = "balance", !.envKey = shell.key,
                                !.option = option, !.conf = loadConfig(shell)]
  <2>2. j \in Jobs /\ j.cmd = "balance" /\ Whole(j.conf)
    BY <1>n, LoadType, ShellsAssumption, OptionsAssumption
    DEF Jobs, Commands, IInv, NodeInv
  <2>3. Begin(p, "read", j)
    BY <2>1
  <2> HIDE DEF j
  <2> QED BY <1>t, <2>2, <2>3, BeginKeeps
<1>4. ASSUME NEW p \in Procs, BeginSend(p)
      PROVE  IInv'
  <2>1. PICK shell \in Shells, option \in Options, where \in {"submit", "connect"} :
           /\ where = "submit" => shell.key # None
           /\ Begin(p, where, [NoJob EXCEPT !.cmd = "send", !.envKey = shell.key,
                                            !.option = option,
                                            !.conf = loadConfig(shell),
                                            !.from = shell.key, !.left = 1])
    BY <1>4 DEF BeginSend
  <2> DEFINE j == [NoJob EXCEPT !.cmd = "send", !.envKey = shell.key,
                                !.option = option, !.conf = loadConfig(shell),
                                !.from = shell.key, !.left = 1]
  <2>2. /\ shell.key \in Keys \cup {None} /\ option \in Named \cup {None}
        /\ loadConfig(shell) \in Configs /\ 1 \in 0..2 /\ Whole(loadConfig(shell))
    BY LoadType, ShellsAssumption, OptionsAssumption DEF IInv, NodeInv
  <2>3. j \in Jobs
    BY <2>2, SendType
  <2>4. j.cmd = "send" /\ j.envKey = shell.key /\ Whole(j.conf)
    BY <2>2 DEF NoJob
  <2>5. Begin(p, where, j)
    BY <2>1
  <2> HIDE DEF j
  <2> QED BY <1>t, <2>1, <2>3, <2>4, <2>5, BeginKeeps
<1>5. ASSUME NEW p \in Procs, BeginSwap(p)
      PROVE  IInv'
  <2>1. PICK shell \in Shells, option \in Options, left \in 1..2 :
           Begin(p, "connect", [NoJob EXCEPT !.cmd = "swap", !.option = option,
                                             !.conf = loadConfig(shell),
                                             !.left = left])
    BY <1>5 DEF BeginSwap
  <2> DEFINE j == [NoJob EXCEPT !.cmd = "swap", !.option = option,
                                !.conf = loadConfig(shell), !.left = left]
  <2>2. /\ option \in Named \cup {None}
        /\ loadConfig(shell) \in Configs /\ left \in 0..2 /\ Whole(loadConfig(shell))
    BY LoadType, OptionsAssumption DEF IInv, NodeInv
  <2>3. j \in Jobs
    BY <2>2, SwapType
  <2>4. j.cmd = "swap" /\ Whole(j.conf)
    BY <2>2 DEF NoJob
  <2>5. Begin(p, "connect", j)
    BY <2>1
  <2> HIDE DEF j
  <2> QED BY <1>t, <2>3, <2>4, <2>5, BeginKeeps
<1>6. CASE EndSession
  <2>1. /\ session' = None
        /\ UNCHANGED <<config, wallet, pc, job>>
    BY <1>6 DEF EndSession
  <2>2. Accounts' = Accounts
    BY <2>1 DEF Accounts, Shown, Replaced
  <2> QED BY <1>t, <2>1, <2>2
      DEF IInv, CommandInv, KeyInv, SessionInv, SeenInv, Noted, NodeInv, SessionWhole,
          Whole, ConfiguredChain
<1>7. CASE UNCHANGED vars
  <2>1. UNCHANGED <<config, wallet, session, pc, job>>
    BY <1>7 DEF vars
  <2>2. Accounts' = Accounts
    BY <2>1 DEF Accounts, Shown, Replaced
  <2> QED BY <1>t, <2>1, <2>2
      DEF IInv, CommandInv, KeyInv, SessionInv, SeenInv, Noted, NodeInv, SessionWhole,
          Whole, ConfiguredChain
<1> QED BY <1>1, <1>2, <1>3, <1>4, <1>5, <1>6, <1>7, <1>t, StepKeeps DEF Next

(* The invariant holds in every reachable state. *)
THEOREM Invariance == Spec => []IInv
BY InitKeeps, NextKeeps, PTL DEF Spec

(* The parts of a command's state always have their types. *)
THEOREM CliTypeCorrect == Spec => []TypeOK
BY Invariance, PTL DEF IInv

-----------------------------------------------------------------------------
(* What nodes are contacted for. *)

Reads(p) ==
    LET j == job[p]
    IN  /\ WantedChain(j) \in Chains
        /\ last' = Contact("process",
                           resolveChainTransport(WantedChain(j), RuntimeConfig(j)),
                           WantedChain(j), None, j)

Executes(p, signer) ==
    LET j == job[p]
        node == resolveChainTransport(WantedChain(j), Executor(j).rc)
    IN  /\ pc[p] = "submit" /\ WantedChain(j) \in Chains
        /\ j.envKey # None \/ session # None
        /\ signer # None => signer = Executor(j).key /\ node.of = WantedChain(j)
        /\ last' = Contact(Executor(j).via, node, WantedChain(j), signer, j)
        /\ \E where \in {"idle", "submit"}, k \in {NoJob, [j EXCEPT !.left = @ - 1]} :
              Advance(p, where, k)
        /\ UNCHANGED <<wallet, session>>

(* Nodes are contacted by Read and Submit. *)
LEMMA LastOf ==
    ASSUME [Next]_vars
    PROVE  \/ last' = None \/ UNCHANGED vars
           \/ \E p \in Procs :
                 Reads(p) \/ \E signer \in {None, Executor(job[p]).key} : Executes(p, signer)
<1>1. ASSUME NEW p \in Procs, Read(p)
      PROVE  last' = None \/ Reads(p)
  BY <1>1 DEF Read, Reads
<1>2. ASSUME NEW p \in Procs, Submit(p)
      PROVE  \/ last' = None
             \/ \E signer \in {None, Executor(job[p]).key} : Executes(p, signer)
  BY <1>2 DEF Submit, Executes, Advance, End
<1>3. ASSUME NEW p \in Procs,
             \/ BeginInit(p) \/ BeginUnlock(p) \/ BeginBalance(p) \/ BeginSend(p)
             \/ BeginSwap(p) \/ SaveWallet(p) \/ LockSession(p) \/ SaveConfig(p)
             \/ Decrypt(p) \/ StartSession(p) \/ Kill(p) \/ connectLocalSession(p)
      PROVE  last' = None
  BY <1>3 DEF BeginInit, BeginUnlock, BeginBalance, BeginSend, BeginSwap, Begin,
     SaveWallet, LockSession, SaveConfig, Decrypt, StartSession, Kill,
     connectLocalSession
<1>4. EndSession => last' = None
  BY DEF EndSession
<1> QED BY <1>1, <1>2, <1>3, <1>4 DEF Next, Step, vars

(* What Read leaves in last. *)
LEMMA ReadsFacts ==
    ASSUME NEW p \in Procs, Reads(p)
    PROVE  /\ last'.signer = None /\ last'.via = "process" /\ last'.job = job[p]
           /\ last'.chain = WantedChain(job[p])
           /\ last'.node = resolveChainTransport(last'.chain, RuntimeConfig(job[p]))
BY DEF Reads, Contact

(* What Submit leaves in last, with the accounts as they were. *)
LEMMA ExecutesFacts ==
    ASSUME NEW p \in Procs, NEW signer, Executes(p, signer)
    PROVE  /\ last'.signer = signer /\ last'.via = Executor(job[p]).via
           /\ last'.job = job[p] /\ last'.chain = WantedChain(job[p])
           /\ last'.node = resolveChainTransport(last'.chain, Executor(job[p]).rc)
           /\ session' = session
BY DEF Executes, Contact

(* Submit leaves the accounts as they are. *)
LEMMA ExecutesAccounts ==
    ASSUME TypeOK, TypeOK', NEW p \in Procs, NEW signer, Executes(p, signer)
    PROVE  Accounts' = Accounts
<1>1. \A q \in Procs \ {p} : pc'[q] = pc[q] /\ job'[q] = job[q]
  BY DEF Executes, Advance, TypeOK
<1>2. pc'[p] # "lock" /\ pc[p] # "lock" /\ wallet' = wallet
  BY DEF Executes, Advance, TypeOK
<1> QED BY <1>1, <1>2, AccountsKept

(* Sessions, and commands without --chain, ask the nodes of the chains     *)
(* they are to ask, if chains and nodes were named together.               *)
THEOREM CliNodesServe == Spec => []NodesServe
<1>1. Init => NodesServe
  BY DEF Init, NodesServe
<1>2. IInv /\ NodesServe /\ [Next]_vars => NodesServe'
  <2> SUFFICES ASSUME IInv, NodesServe, [Next]_vars, last' # None,
                      \/ last'.via = "session" /\ session'.pair = "whole"
                      \/ /\ last'.job.option = None /\ last'.via = "process"
                         /\ last'.job.conf.pair = "whole"
               PROVE  last'.node.of = last'.chain
    BY DEF NodesServe
  <2>1. CASE UNCHANGED vars
    BY <2>1 DEF NodesServe, vars
  <2>2. ASSUME NEW p \in Procs, job[p].option = None, job[p].conf.pair = "whole"
        PROVE  resolveChainTransport(WantedChain(job[p]), RuntimeConfig(job[p])).of =
                   WantedChain(job[p])
    <3>1. Whole(job[p].conf)
      BY DEF IInv, NodeInv
    <3> QED BY <2>2, <3>1
        DEF Whole, WantedChain, Or, RuntimeConfig, resolveChainTransport, Node
  <2>3. ASSUME NEW p \in Procs, Reads(p)
        PROVE  last'.node.of = last'.chain
    BY <2>2, <2>3, ReadsFacts
  <2>4. ASSUME NEW p \in Procs, NEW signer, Executes(p, signer)
        PROVE  last'.node.of = last'.chain
    <3>1. CASE job[p].envKey = None
      <4>1. /\ Executor(job[p]).rc.chain = session.chain
            /\ Executor(job[p]).rc.rpc = session.rpc
            /\ Executor(job[p]).via = "session"
        BY <3>1 DEF Executor
      <4>2. session.pair = "whole"
        BY <2>4, <4>1, ExecutesFacts
      <4>3. session.rpc # None => session.rpc.of = session.chain
        BY <2>4, <3>1, <4>2 DEF Executes, IInv, NodeInv, SessionWhole
      <4> QED BY <2>4, <4>1, <4>3, ExecutesFacts DEF resolveChainTransport, Node
    <3>2. CASE job[p].envKey # None
      <4>1. Executor(job[p]).rc = RuntimeConfig(job[p]) /\ Executor(job[p]).via = "process"
        BY <3>2 DEF Executor
      <4> QED BY <2>2, <2>4, <4>1, ExecutesFacts
    <3> QED BY <3>1, <3>2
  <2> QED BY <2>1, <2>3, <2>4, LastOf
<1> QED BY <1>1, <1>2, Invariance, PTL DEF Spec

(* Who signs: the key of the environment, or a session that is of one of   *)
(* the accounts, all of which its command has noted.                       *)
LEMMA SignerFacts ==
    ASSUME IInv, NEW p \in Procs, NEW signer, signer # None, Executes(p, signer)
    PROVE  /\ job[p].envKey # None => signer = job[p].envKey
           /\ job[p].envKey = None /\ session.of = "wallet" =>
                 /\ signer \in Accounts /\ Accounts \subseteq job[p].seen
                 /\ job[p].of = "wallet" => job[p].from \in job[p].seen
<1>1. signer = Executor(job[p]).key
  BY DEF Executes
<1>2. CASE job[p].envKey # None
  BY <1>1, <1>2 DEF Executor
<1>3. CASE job[p].envKey = None /\ session.of = "wallet"
  <2>1. signer = session.key /\ session # None
    BY <1>1, <1>3 DEF Executor, Executes
  <2>2. signer \in Accounts
    BY <1>3, <2>1 DEF IInv, SessionInv
  <2>3. pc[p] = "submit" /\ job[p].cmd \in {"send", "swap"}
    BY DEF Executes, IInv, CommandInv
  <2>4. Noted(job[p])
    BY <2>3 DEF IInv, SeenInv
  <2> QED BY <1>3, <2>2, <2>3, <2>4 DEF Noted
<1> QED BY <1>2, <1>3

(* What is spent is spent from the account of the wallet. *)
THEOREM CliSpendsFromWallet == Spec => []SpendsFromWallet
<1>1. Init => SpendsFromWallet
  BY DEF Init, SpendsFromWallet, Mined
<1>2. IInv /\ IInv' /\ SpendsFromWallet /\ [Next]_vars => SpendsFromWallet'
  <2> SUFFICES ASSUME IInv, IInv', SpendsFromWallet, [Next]_vars, Mined'
               PROVE  IF last'.job.envKey # None
                      THEN last'.signer = last'.job.envKey
                      ELSE session'.of = "wallet" => last'.signer \in Accounts'
    BY DEF SpendsFromWallet, Accounts
  <2>1. CASE UNCHANGED vars
    <3>1. Mined /\ UNCHANGED <<last, session, wallet, pc, job>>
      BY <2>1 DEF vars, Mined
    <3>2. Accounts' = Accounts
      BY <3>1 DEF Accounts, Shown, Replaced
    <3> QED BY <3>1, <3>2 DEF SpendsFromWallet, Accounts
  <2>2. ASSUME NEW p \in Procs, Reads(p)
        PROVE  FALSE
    BY <2>2, ReadsFacts DEF Mined
  <2>3. ASSUME NEW p \in Procs, NEW signer, Executes(p, signer)
        PROVE  /\ last'.job.envKey # None => last'.signer = last'.job.envKey
               /\ last'.job.envKey = None /\ session'.of = "wallet" =>
                     last'.signer \in Accounts'
    <3>1. last'.signer = signer /\ last'.job = job[p] /\ session' = session
      BY <2>3, ExecutesFacts
    <3>2. Accounts' = Accounts
      BY <2>3, ExecutesAccounts DEF IInv
    <3>3. signer # None
      BY <3>1 DEF Mined
    <3> QED BY <2>3, <3>1, <3>2, <3>3, SignerFacts
  <2> QED BY <2>1, <2>2, <2>3, LastOf DEF Mined
<1> QED BY <1>1, <1>2, Invariance, PTL DEF Spec

(* Unless the wallet is replaced, the address reported is the one that signs. *)
THEOREM CliSignsAsReported == Spec => []SignsAsReported
<1>1. Init => SignsAsReported
  BY DEF Init, SignsAsReported, Mined
<1>2. IInv /\ SignsAsReported /\ [Next]_vars => SignsAsReported'
  <2> SUFFICES ASSUME IInv, SignsAsReported, [Next]_vars, Mined',
                      last'.job.envKey = None, last'.job.of = "wallet",
                      session'.of = "wallet", last'.job.seen = {last'.signer}
               PROVE  last'.job.from = last'.signer
    BY DEF SignsAsReported
  <2>1. CASE UNCHANGED vars
    BY <2>1 DEF SignsAsReported, Mined, vars
  <2>2. ASSUME NEW p \in Procs, Reads(p)
        PROVE  FALSE
    BY <2>2, ReadsFacts DEF Mined
  <2>3. ASSUME NEW p \in Procs, NEW signer, Executes(p, signer)
        PROVE  last'.job.from = last'.signer
    <3>1. last'.signer = signer /\ last'.job = job[p] /\ session' = session
      BY <2>3, ExecutesFacts
    <3>2. signer # None
      BY <3>1 DEF Mined
    <3>3. job[p].from \in job[p].seen
      BY <2>3, <3>1, <3>2, SignerFacts
    <3> QED BY <3>1, <3>3
  <2> QED BY <2>1, <2>2, <2>3, LastOf DEF Mined
<1> QED BY <1>1, <1>2, Invariance, PTL DEF Spec

=============================================================================
