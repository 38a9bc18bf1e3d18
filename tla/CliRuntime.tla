----------------------------- MODULE CliRuntime -----------------------------
(***************************************************************************)
(* Which account, chain and node the commands of the CLI use               *)
(* (src/cli/config.ts, wallet.ts, tools/runtime.ts, core/chains.ts): init, *)
(* unlock, balance, send and the swap tool, each of which puts them        *)
(* together from the options of the command, the environment variables of  *)
(* its process, the config file, the wallet file and the unlocked session. *)
(*                                                                         *)
(* A step ends where a command waits: for a password, the session or a     *)
(* node. Commands overlap in any way, and are killed at any step. Sessions *)
(* and wallet files are atomic here; SessionLifecycle, SessionSend and     *)
(* WalletVault have their insides. A command that fails before it waits    *)
(* has no effect and is left out.                                          *)
(***************************************************************************)
EXTENDS Naturals

CONSTANTS Procs,       \* CLI processes
          Keys,        \* private keys, and the accounts of them
          Chains,      \* supported chains
          Default,     \* the chain of a config that names none
          Unsupported, \* any other chain
          Shells,      \* environment variables a command may find
          Options,     \* what --chain may name, None if it is not given
          Setups,      \* chain and node that init may be given
          None,        \* no key, chain, node or session
          MaxRuns      \* bound: commands that start

Node(chain) == [own |-> FALSE, of |-> chain]  \* of the chain registry
OwnNode(chain) == [own |-> TRUE, of |-> chain]
Nodes == [own : BOOLEAN, of : Chains]
OwnNodes == {node \in Nodes : node.own}
Named == Chains \cup {Unsupported}

ASSUME ChainsAssumption ==
    /\ Default \in Chains /\ Unsupported \notin Chains
    /\ None \notin Keys \cup Named \cup Nodes /\ MaxRuns \in Nat
ASSUME ShellsAssumption ==
    Shells \subseteq [key : Keys \cup {None}, chain : Named \cup {None},
                      rpc : OwnNodes \cup {None}]
ASSUME OptionsAssumption ==
    /\ Options \subseteq Named \cup {None}
    /\ Setups \subseteq [chain : Named \cup {None}, rpc : OwnNodes \cup {None}]

VARIABLES config,  \* config.json
          wallet,  \* the key in the wallet file
          session, \* what the session was started with
          runs,    \* commands started
          pc,      \* where each process is in its command
          job,     \* what its command was given and has read
          last     \* the node contacted in the last step, for the properties

vars == <<config, wallet, session, runs, pc, job, last>>

Configs == [chain : Named \cup {None}, rpc : OwnNodes \cup {None},
            removed : BOOLEAN,           \* of the removed 1Password storage
            pair : {"whole", "split"}]   \* ghost: chain and node named together
Sessions == [key : Keys, chain : Named, rpc : OwnNodes \cup {None},
             pair : {"whole", "split"},  \* ghost: that of its config
             of : {"wallet", "past"}]    \* ghost: the wallet its key is of
Commands == {"init", "unlock", "balance", "send", "swap"}

Jobs == [cmd : Commands \cup {"none"},
         envKey : Keys \cup {None},   \* MONEYOS_PRIVATE_KEY
         option : Named \cup {None},  \* --chain
         conf : Configs,              \* the config it read, or will save
         key : Keys \cup {None},      \* the key it saves, read or uses
         from : Keys \cup {None},     \* the address it holds for its account
         left : 0..2,                 \* transactions to come
         of : {"wallet", "past"},     \* ghost: the wallet of its key or session
         seen : SUBSET Keys]          \* ghost: accounts since it has its session

NoConfig == [chain |-> None, rpc |-> None, removed |-> FALSE, pair |-> "whole"]
NoJob == [cmd |-> "none", envKey |-> None, option |-> None, conf |-> NoConfig,
          key |-> None, from |-> None, left |-> 0, of |-> "wallet", seen |-> {}]

Contacts == [via : {"process", "session"}, node : Nodes, chain : Chains,
             signer : Keys \cup {None}, job : Jobs]

TypeOK ==
    /\ config \in Configs /\ wallet \in Keys \cup {None}
    /\ session \in Sessions \cup {None}
    /\ runs \in 0..MaxRuns
    /\ pc \in [Procs -> {"idle", "save", "lock", "configure", "decrypt", "start",
                         "read", "connect", "submit"}]
    /\ job \in [Procs -> Jobs]
    /\ last \in Contacts \cup {None}

-----------------------------------------------------------------------------
(* Chains and nodes. *)

Or(first, second) == IF first # None THEN first ELSE second

(* Ghost: whether a chain and a node come from one hand, which names both  *)
(* and the node as one of the chain, or neither and takes those of conf.   *)
Pair(conf, named) ==
    IF named.chain = None /\ named.rpc = None THEN conf.pair
    ELSE IF named.rpc # None /\ named.rpc.of = named.chain THEN "whole"
    ELSE "split"

(* Environment variables override the config file. *)
loadConfig(shell) ==
    [config EXCEPT !.chain = Or(shell.chain, @), !.rpc = Or(shell.rpc, @),
                   !.pair = Pair(config, shell)]

(* A variant that has no default. *)
NamedChain(conf) == conf.chain

ConfiguredChain(conf) == Or(conf.chain, Default)
WantedChain(j) == Or(j.option, ConfiguredChain(j.conf))

(* A variant that uses the custom node for every chain. *)
customNode(chain, rc) == IF rc.rpc # None THEN rc.rpc ELSE Node(chain)

(* The node of a supported chain. *)
resolveChainTransport(chain, rc) ==
    IF chain = rc.chain /\ rc.rpc # None THEN rc.rpc ELSE Node(chain)

(* The chain a command wants becomes the default of its own clients. *)
RuntimeConfig(j) == [chain |-> WantedChain(j), rpc |-> j.conf.rpc]

-----------------------------------------------------------------------------
(* Whatever earlier commands left: a config, or none, that may still be of *)
(* the removed storage; a wallet, and a session unlocked from it.          *)

(* An init that names a chain and no node keeps the node there was. *)
Configured(conf, setup) ==
    [chain |-> Or(setup.chain, ConfiguredChain(conf)),
     rpc |-> Or(setup.rpc, conf.rpc), removed |-> FALSE, pair |-> Pair(conf, setup)]

SessionOf(key, conf, of) ==
    [key |-> key, chain |-> ConfiguredChain(conf), rpc |-> conf.rpc,
     pair |-> conf.pair, of |-> of]

Init ==
    /\ config \in {Configured(NoConfig, setup) : setup \in Setups} \cup
                    {NoConfig, [NoConfig EXCEPT !.removed = TRUE]}
    /\ wallet \in Keys \cup {None}
    /\ session \in {None} \cup
                     {SessionOf(key, config, "wallet") : key \in {wallet} \ {None}}
    /\ runs = 0
    /\ pc = [p \in Procs |-> "idle"]
    /\ job = [p \in Procs |-> NoJob]
    /\ last = None

(* The account balance shows, and those of which an init has replaced the  *)
(* wallet and not locked the session yet.                                  *)
Shown == {wallet} \ {None}
Replaced == {job[q].from : q \in {q \in Procs : pc[q] = "lock"}} \ {None}

Begin(p, where, j) ==
    /\ pc[p] = "idle" /\ runs < MaxRuns
    /\ runs' = runs + 1
    /\ pc' = [pc EXCEPT ![p] = where]
    /\ job' = [job EXCEPT ![p] = j]
    /\ last' = None
    /\ UNCHANGED <<config, wallet, session>>

Advance(p, where, j) ==
    /\ pc' = [pc EXCEPT ![p] = where]
    /\ job' = [job EXCEPT ![p] = j]
    /\ UNCHANGED runs

End(p) == Advance(p, "idle", NoJob)

-----------------------------------------------------------------------------
(* init and unlock.                                                        *)

(* A replaced wallet needs --force, and a config of the removed storage    *)
(* needs --key.                                                            *)
BeginInit(p) ==
    \E key \in Keys, setup \in Setups :
        Begin(p, "save", [NoJob EXCEPT !.cmd = "init", !.key = key,
                                       !.conf = Configured(config, setup)])

(* Ghosts: the key of an unlock that has decrypted is now of a past        *)
(* wallet, and whoever spends may come to spend from the new one.          *)
SaveWallet(p) ==
    /\ pc[p] = "save"
    /\ wallet' = job[p].key
    /\ pc' = [pc EXCEPT ![p] = "lock"]
    /\ job' = [q \in Procs |->
                  IF q = p THEN [job[p] EXCEPT !.from = wallet]
                  ELSE IF pc[q] = "start" THEN [job[q] EXCEPT !.of = "past"]
                  ELSE IF job[q].cmd \in {"send", "swap"}
                  THEN [job[q] EXCEPT !.seen = @ \cup {job[p].key}]
                  ELSE job[q]]
    /\ last' = None
    /\ UNCHANGED <<config, session, runs>>

(* A variant that leaves the session as it is. *)
LockNothing(p) ==
    /\ pc[p] = "lock"
    /\ Advance(p, "configure", [job[p] EXCEPT !.from = None])
    /\ last' = None
    /\ UNCHANGED <<config, wallet, session>>

LockSession(p) ==
    /\ pc[p] = "lock"
    /\ session' = None
    /\ Advance(p, "configure", [job[p] EXCEPT !.from = None])
    /\ last' = None
    /\ UNCHANGED <<config, wallet>>

SaveConfig(p) ==
    /\ pc[p] = "configure"
    /\ config' = job[p].conf
    /\ End(p)
    /\ last' = None
    /\ UNCHANGED <<wallet, session>>

(* unlock reads the config file only, whatever the environment says. *)
BeginUnlock(p) ==
    /\ wallet # None
    /\ Begin(p, "decrypt", [NoJob EXCEPT !.cmd = "unlock", !.conf = config])

Decrypt(p) ==
    /\ pc[p] = "decrypt"
    /\ Advance(p, "start", [job[p] EXCEPT !.key = wallet])
    /\ last' = None
    /\ UNCHANGED <<config, wallet, session>>

StartSession(p) ==
    /\ pc[p] = "start"
    /\ session' = SessionOf(job[p].key, job[p].conf, job[p].of)
    /\ End(p)
    /\ last' = None
    /\ UNCHANGED <<config, wallet>>

(* auth lock, the end of its time, or of the daemon. *)
EndSession ==
    /\ session # None
    /\ session' = None /\ last' = None
    /\ UNCHANGED <<config, wallet, runs, pc, job>>

(* Of a session that a killed init leaves unlocked, the wallet is past. *)
Kill(p) ==
    /\ pc[p] # "idle"
    /\ session' = IF pc[p] = "lock" /\ session # None
                  THEN [session EXCEPT !.of = "past"] ELSE session
    /\ End(p)
    /\ last' = None
    /\ UNCHANGED <<config, wallet>>

-----------------------------------------------------------------------------
(* Reading and spending. *)

Contact(via, node, chain, signer, j) ==
    [via |-> via, node |-> node, chain |-> chain, signer |-> signer, job |-> j]

CliAddress(envKey, conf) ==
    IF envKey # None THEN envKey ELSE IF conf.removed THEN None ELSE wallet

(* An address named with --address needs no account. *)
BeginBalance(p) ==
    \E shell \in Shells, option \in Options, named \in BOOLEAN :
        LET conf == loadConfig(shell)
        IN  /\ named \/ CliAddress(shell.key, conf) # None
            /\ Begin(p, "read",
                     [NoJob EXCEPT !.cmd = "balance", !.envKey = shell.key,
                                   !.option = option, !.conf = conf])

(* The balance, or the allowance a swap finds. Any node answers. *)
Read(p) ==
    /\ pc[p] = "read"
    /\ LET j == job[p]
           chain == WantedChain(j)
       IN  \/ /\ chain \in Chains
              /\ last' = Contact("process",
                                 resolveChainTransport(chain, RuntimeConfig(j)),
                                 chain, None, j)
              /\ IF j.cmd = "swap" THEN Advance(p, "submit", j) ELSE End(p)
           \/ chain \notin Chains /\ End(p) /\ last' = None
    /\ UNCHANGED <<config, wallet, session>>

BeginSend(p) ==
    \E shell \in Shells, option \in Options :
        LET conf == loadConfig(shell)
            j == [NoJob EXCEPT !.cmd = "send", !.envKey = shell.key, !.option = option,
                               !.conf = conf, !.from = shell.key, !.left = 1]
        IN  \/ shell.key # None /\ Begin(p, "submit", j)
            \/ shell.key = None /\ ~conf.removed /\ Begin(p, "connect", j)

(* A tool is given a session, whatever the environment says; it approves   *)
(* the router first if it has to.                                          *)
BeginSwap(p) ==
    \E shell \in Shells, option \in Options, left \in 1..2 :
        Begin(p, "connect",
              [NoJob EXCEPT !.cmd = "swap", !.option = option,
                            !.conf = loadConfig(shell), !.left = left])

(* The session's address is kept for the rest of the command. The sale of  *)
(* a native token is submitted without a look at allowances.               *)
connectLocalSession(p) ==
    /\ pc[p] = "connect"
    /\ \/ /\ session # None
          /\ \E where \in IF job[p].cmd = "swap" THEN {"read", "submit"}
                                                 ELSE {"submit"} :
                Advance(p, where,
                        [job[p] EXCEPT !.from = session.key, !.of = session.of,
                                       !.seen = Shown \cup Replaced])
       \/ session = None /\ End(p)
    /\ last' = None
    /\ UNCHANGED <<config, wallet, session>>

(* A variant that prefers the unlocked session. *)
SessionFirst(j) ==
    IF session # None
    THEN [via |-> "session", key |-> session.key,
          rc |-> [chain |-> session.chain, rpc |-> session.rpc]]
    ELSE [via |-> "process", key |-> j.envKey, rc |-> RuntimeConfig(j)]

(* Who executes a call: the process itself if it has a key, else the       *)
(* session there is now.                                                   *)
Executor(j) ==
    IF j.envKey = None
    THEN [via |-> "session", key |-> session.key,
          rc |-> [chain |-> session.chain, rpc |-> session.rpc]]
    ELSE [via |-> "process", key |-> j.envKey, rc |-> RuntimeConfig(j)]

(* A node refuses the transaction of another chain, and may refuse any. *)
Submit(p) ==
    /\ pc[p] = "submit"
    /\ LET j == job[p]
           chain == WantedChain(j)
       IN  \/ /\ j.envKey # None \/ session # None
              /\ chain \in Chains
              /\ LET executor == Executor(j)
                     node == resolveChainTransport(chain, executor.rc)
                 IN  \/ /\ node.of = chain
                        /\ last' = Contact(executor.via, node, chain, executor.key, j)
                        /\ IF j.left > 1
                           THEN Advance(p, "submit", [j EXCEPT !.left = @ - 1])
                           ELSE End(p)
                     \/ /\ last' = Contact(executor.via, node, chain, None, j)
                        /\ End(p)
           \/ /\ (j.envKey = None /\ session = None) \/ chain \notin Chains
              /\ last' = None
              /\ End(p)
    /\ UNCHANGED <<config, wallet, session>>

Step(p) ==
    \/ SaveWallet(p) \/ LockSession(p) \/ SaveConfig(p) \/ Decrypt(p)
    \/ StartSession(p) \/ Kill(p) \/ Read(p) \/ connectLocalSession(p)
    \/ Submit(p)

Next ==
    \/ \E p \in Procs :
          \/ BeginInit(p) \/ BeginUnlock(p) \/ BeginBalance(p) \/ BeginSend(p)
          \/ BeginSwap(p) \/ Step(p)
    \/ EndSession

Spec == Init /\ [][Next]_vars

-----------------------------------------------------------------------------
(* Properties.                                                             *)

Mined == last # None /\ last.signer # None

(* docs/keystore.md:57: a send with MONEYOS_PRIVATE_KEY spends from its    *)
(* account. Any other send, and every swap, spends from the account that   *)
(* balance shows, that of the wallet file, or from one whose wallet an     *)
(* init has just replaced and whose session it is about to lock, however   *)
(* inits, unlocks and locks overlap. Two sessions are beyond that: one of  *)
(* an unlock which decrypted before an init replaced the wallet and        *)
(* started after it, and one whose init was killed before it locked it.    *)
SpendsFromWallet ==
    Mined =>
        IF last.job.envKey # None
        THEN last.signer = last.job.envKey
        ELSE session.of = "wallet" => last.signer \in Shown \cup Replaced

(* The address that a command was given with its session, which it reports *)
(* and had the swap quoted for (session.ts:349), is that of the account    *)
(* that signs, though the session may have been locked and another         *)
(* unlocked between: unless an init replaced the wallet meanwhile, or had  *)
(* the session left to lock when the command was given it. The sessions of *)
(* a past wallet are beyond this one too.                                  *)
SignsAsReported ==
    /\ Mined /\ last.job.envKey = None
    /\ last.job.of = "wallet" /\ session.of = "wallet"
    /\ last.job.seen = {last.signer}
    => last.job.from = last.signer

(* docs/keystore.md:212, "A custom rpcUrl passed at unlock still applies   *)
(* only to that session's default chain": what a session executes, for     *)
(* whatever chain, and what a command without --chain reads or executes    *)
(* itself, goes to a node of its chain, whichever inits and unlocks came   *)
(* before and between, if whoever names a chain or a node, to init or in   *)
(* the environment, names both. An init with --chain alone keeps the node  *)
(* of the chain there was (init.ts:125), which then serves the new one. A  *)
(* command that reads or executes itself under --chain asks the custom     *)
(* node about the chain it names, whatever README.md:105 says.             *)
NodesServe ==
    /\ last # None
    /\ \/ last.via = "session" /\ session.pair = "whole"
       \/ last.job.option = None /\ last.via = "process" /\ last.job.conf.pair = "whole"
    => last.node.of = last.chain

=============================================================================
