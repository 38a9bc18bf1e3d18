# MoneyOS in TLA+

TLA+ specifications of the MoneyOS CLI and SDK, model-checked with TLC. Their
safety properties, and the two refinements, are also proved with TLAPS, for any
number of processes and commands. Paths such as `src/cli/session.ts` are relative
to the root of the repository; `PROJECT.json` has, for every
definition, the lines it models.

MoneyOS is a self-custody wallet: a TypeScript SDK, a CLI over it, and tools
(swap is the first) that are npm packages the CLI mounts. There is no server of
its own. What makes it hard to test is that a user's commands are separate
processes that meet in a few files and in one background process, that any of
them may be killed, time out or run beside another, and that a transaction once
broadcast cannot be taken back.

1. [Inventory](#1-inventory)
2. [Modules](#2-modules)
3. [Runs](#3-runs)
4. [Fairness and liveness](#4-fairness-and-liveness)
5. [Proofs](#5-proofs)
6. [What the models showed](#6-what-the-models-showed)
7. [What is not modelled](#7-what-is-not-modelled)
8. [Plan](#8-plan)

## 1. Inventory

### Session daemon and client — `src/cli/session.ts`

`auth unlock` starts a detached process that holds the private key and listens
on a local socket; later commands use it to send.

- *State of the daemon:* listening, closing or exited; `sendResponses`, the
  response promise and parameter fingerprint of every request id it has seen;
  its connections, each with an inactivity timer (5 s, or 60 s once a send was
  read); the TTL timer.
- *State on disk:* the socket path and the token file.
- *State of a client:* `SessionExecutionClient` makes one request id per send
  and at most two attempts with it.
- *Operations:* `status`, `lock`, `send` requests; start
  (`startSessionDaemonProcess`, `startSessionServer`), replacement
  (`startDetachedSessionDaemon`), close, expiry, exit.
- *Interactions:* client and daemon talk JSON lines over the socket, one request
  and one response per connection; parent and child of a start talk over IPC;
  daemons and commands meet in the two files, which any of them may remove.
- *Hard:* a retry races the late answer of the first attempt; the daemon ends
  while requests are in flight; an executor that outlasts every timeout;
  files removed by path, whoever wrote them; killed daemons.
- *Correct when:* a request id is executed once; what a client is told is true
  and the same for every attempt; a daemon that is open can be reached and
  locked; commands and daemons end.

### Wallet and backups — `src/core/encrypted-wallet.ts`, `src/core/backup-file.ts`, `src/cli/commands/{init,auth,backup}.ts`

- *State:* `wallet.json` (private key encrypted under a passphrase, creation
  time), backup files, `config.json` (which may still hold a plaintext key or
  name the removed 1Password store), and the key of the open session.
- *Operations:* `init`, `auth unlock`, `auth change-password`, `backup export`,
  `backup restore`; `keystore status`, `balance` and `send` read what they left.
- *Interactions:* a command that replaces the wallet locks the session after it;
  `init` removes the plaintext key from the config and writes a backup last.
- *Hard:* a kill or a write error between any two file operations; two commands
  at once, each working on what it read earlier.
- *Correct when:* no key is lost unless the user forced it; a command that fails
  has changed nothing; the account one command shows is the one another spends
  from; a password change changes only the password.

### Tool home — `src/cli/tools/manager.ts`, `src/cli/commands/tools.ts`

- *State:* `registry.json`, the packages npm has installed under the tool home,
  and, in npm, the published versions with the command contract of each.
- *Operations:* `add`, `remove`, `update` (one or all), each with rollbacks;
  mounting the registered tools, which is how every command of the CLI starts.
- *Interactions:* npm as a child process; loading the installed module.
- *Hard:* npm, loading or validation failing half-way; rollbacks that fail;
  processes side by side, each writing back the registry it read before npm ran.
- *Correct when:* registry and packages agree; no two tools, and no tool and a
  root command, have colliding command paths; a failed command breaks nothing;
  the CLI starts, whatever is in the registry.

### What a command runs with — `src/cli/config.ts`, `src/cli/wallet.ts`, `src/cli/tools/runtime.ts`, `src/core/chains.ts`

- *State:* the chain and node in `config.json`, the wallet's account, the chain,
  node and key the session was unlocked with; in a command, the config it read
  and the address it was given.
- *Operations:* `init` and `auth unlock` set them; `balance`, `send` and the swap
  tool put them together with `--chain`, `MONEYOS_PRIVATE_KEY`,
  `MONEYOS_RPC_URL` and `MONEYOS_CHAIN_ID`.
- *Interactions:* a session executes requests that name their chain, over clients
  it made when it was unlocked; a tool is always given the session, `send` only
  if there is no key in the environment.
- *Hard:* five sources in three orders of precedence; sessions that end, are
  replaced or outlive a change of the config between two steps of one command.
- *Correct when:* a transaction is spent from the account of the wallet, which is
  the one the user was shown, and from the one that the command reports; a node is
  asked about its own chain.

### Sends and swaps — `src/core/eoa.ts`, `src/core/client.ts`, `packages/swap/src/`

- *State:* on the chain: balances, allowances, transactions; in an operation: the
  quote, the allowance it read, the transaction it waits for.
- *Operations:* `EOAExecutor.send` (estimate, broadcast, receipt),
  `MoneyOS.send`, `executeSwap` (quote, calldata, allowance, approval, swap).
- *Hard:* operations that share one account and its allowances; approvals left
  by swaps that failed; a receipt that is lost while the transaction is mined.
- *Correct when:* a reported success is a mined transaction; what a router may
  take never exceeds what was asked of it.

### The rest

| component | what it is |
| --- | --- |
| Wallet status (`wallet-status.ts`, `keystore status`) | `StatusAddress` of `WalletVault` |
| Core contracts and registries | types and tables; the chain registry is `Node` of `CliRuntime` |
| File key store, local access | reads one file |
| Prompt (`src/cli/prompt.ts`) | terminal input; models take its answers as inputs |
| Entry, `send`, `balance` | argument parsing and printing; what they ask of wallet, session and nodes is in `CliRuntime` |
| Release scripts | sequential checks of npm and git, no state of their own |

`PROJECT.json` lists all of them under `components`, and under `hazards` what in
this code a test would hardly reach, each with its line and the properties that
are about it.

## 2. Modules

| module | models | composed with |
| --- | --- | --- |
| `SendOnce` | what a session promises about sends: a ledger of ids, and clients that are told one thing each | — |
| `SessionSend` | clients, one daemon, its retained responses, the executor and the chain | implements `SendOnce` (`Once == INSTANCE SendOnce WITH ...`) |
| `SessionSendProofs` | theorems about `SessionSend` | `SessionSend`, TLAPS |
| `OneSession` | what session commands promise: sessions that open and end, and commands told one thing each | — |
| `SessionLifecycle` | daemons, their files, and the commands that start, use and end them | implements `OneSession` (`Promise == INSTANCE OneSession WITH ...`); stands for many daemons of `SessionSend`, each seen as "runs a request once" |
| `SessionLifecycleProofs` | theorems about `SessionLifecycle` | `SessionLifecycle`, TLAPS |
| `WalletVault` | wallet, backups, config, session key under the wallet commands | sees `SessionLifecycle` as one session that is opened, locked or ends |
| `WalletVaultProofs` | theorems about `WalletVault` | `WalletVault`, TLAPS |
| `ToolHome` | registry and packages under add, remove, update; mounting | — |
| `ToolHomeProofs` | theorems about `ToolHome` | `ToolHome`, `Induction` |
| `CliRuntime` | account, chain and node of `init`, `unlock`, `balance`, `send` and swaps | sees sessions and wallet as values that `SessionLifecycle` and `WalletVault` detail, and a swap as one or two transactions of `SwapFlow` |
| `CliRuntimeProofs` | theorems about `CliRuntime` | `CliRuntime`, TLAPS |
| `SwapFlow` | operations over one executor, the chain and its allowances | details the chain `SessionSend` treats as mined or reverted |
| `SwapFlowProofs` | theorems about `SwapFlow` | `SwapFlow`, `Induction` |
| `Induction` | lemmas on least numbers, least finite sets and sums | TLAPS |
| `MC*` | instances for TLC: sets, symmetry | one module each |

A definition introduced as *a variant* is not part of a specification. It is the
module's own form of one plausible mistake (a response retained only once it has
settled, a rollback that forgets the previous version), defined beside the code's
behaviour and of the same shape. `PROJECT.json` pairs each with the property
that breaks when it takes the place of the real definition.

### SessionSend

A connection `<<c, n>>` is attempt `n` of client `c`; it also names the execution
its request may start, so "two executions for one id" is expressible without a
counter.

| variable | code |
| --- | --- |
| `pc`, `att`, `req`, `outcome` | `SessionExecutionClient.send`: where the loop is, its attempt, its request, how it settled |
| `conn`, `reply` | the daemon's socket of an attempt and the line written on it |
| `server`, `files` | `startSessionServer`'s listening server, and both session files |
| `store` | `sendResponses`: id to the entry's connection; the fingerprint is its call |
| `promise` | the retained `response` promise |
| `run` | what the executor's transaction has come to, seen from outside |

One step is one turn of an event loop. `Execute` is one step because the code has
no `await` between the lookup and the `set`; `Answer` is another because the
handler resumes from an `await`. A client that gives up leaves its request behind
(`Reads` has no condition on the client), so the two attempts may be read in any
order. `run` goes on after `promise` has failed and after the daemon has exited:
`FailUnknown` is a lost receipt or RPC answer, with the transaction under way.

### SessionLifecycle

A process runs one command; the daemon it spawns bears its name. `sock` and `tok`
say whose socket and whose token the two paths lead to — not merely whether they
exist — and every removal clears them whoever the owner is, as `unlink` does.
`pc` follows the command: load the token, connect, wait, clean up, check, wait for
the old daemon to go, spawn, wait for the child's `ready`. `Answered` and `Failed`
have the callers' reactions to a response, and to its absence. `dst` is a daemon's
life from `spawned` through `tokened` (token written), `listening`, `stopping`
(lock answered), `closing` (socket unlinked) to `exited`.

What the surroundings may do is a record `env`, chosen from the constant
`Environments` at the start of a behaviour and fixed: which commands run and how
many, which of them may overlap others (`background`), whether control requests
and sends may time out, whether daemons are killed, and whether other processes
keep out of windows of a few instructions (`prompt`). One run so covers calm and
rough surroundings, and a property can be conditional on them (`Orderly`).

`OneSession` is what remains for the user: the mapping keeps `cmd`, `result` and
the set of listening daemons, and forgets files, connections, timers and retries.
`Bind` is its `Unlock`, the step at which a command that asked for a lock ends its
`Lock`, and every way a listening daemon is lost `Ends`. What holds in disorder
and what holds of orderly commands only (`ordered`) are told apart there.

### WalletVault

`wallet`, `backups`, `config` hold file contents: a wallet is a record of key,
passphrase and creation time, and opens only with its own passphrase; `Torn` is a
file cut short. A command takes its options and answers when it begins and then
steps from one file operation to the next: `Stage` writes the temporary file,
`Rename` puts it in place, `Lock` closes the session, `TruncateConfig` and
`WriteConfig` are the two halves of the in-place write of the config. `Crash` and
`WriteError` may end a command at its steps: with the file in place, too, as the
`chmod` after the rename may fail (`BackupEnds`, for a backup). The default backup name is the
address and the second; two backups of one second have one name. `job.was` is the
file a command will replace, as it last saw or left it, and `job.beside` the
commands that have overlapped it, directly or through others; both serve the
properties only. `env.background` has the commands that may overlap.

### ToolHome

`contract` and `alone` are what has been published: which version has which tool
name and command path, which is no tool at all, and which loads only in the scratch
home that `update` uses to look at the latest version. `latest` moves on by `Publish`
at any time. `registry` is a sequence, in which one package may be twice.
`job.entries` is the registry as the command read it at its beginning, which is
what it writes back after npm has run. `Previous` is `resolveInstalledTool`: by
package or alias first, then by tool name or command path, if there is exactly one
(`Called`; `env.words` has the word that names a package and may be such a name).
`Install` has the guess from the difference of `package.json`; `Undo` the two
rollbacks. A killed command is taken to take its npm with it: `manager.ts:213` spawns
a child that may in fact outlive it, and change `package.json` under the next command. `Begin` requires `Mounts`: the CLI
first mounts the tools that `Mounted` selects, and a command begins only if
commander accepts them. `env` again says what may go wrong.

### CliRuntime

`job.conf` is the config file under the environment's overrides, as `loadConfig`
returns it; `Or(first, second)` is `??`. `resolveChainTransport` has the rule that
the custom node is used for the default chain only, `RuntimeConfig` and
`SessionOf` whose default chain that is: for the process's own clients the one the
command wants, for a session the one it was unlocked with. `Executor` is the
choice of `MoneyOS` between its signer and the session; a request goes to whatever
session there is at that time, whatever address the command was given before
(`job.from`). `last` is the node contacted in the last step, and for whom.
A node refuses to mine for another chain than its own; it answers any read.
Commands overlap in any way, `init` and `unlock` too, and `Kill` ends one at any
step. `Configured` is what `init` stores: with `--chain` alone it keeps the node
there was (`init.ts:125`), of whatever chain.

Three ghosts serve the properties. `pair` says of a config, and of a session
unlocked with it, whether its chain and node were named together (`whole`) or not
(`split`). `of` says whether a session, or the key an unlock has decrypted, is of the
wallet or of one that an `init` has replaced since (`past`). `job.seen` gathers the
accounts of the wallet (`Shown`), and of those just being replaced (`Replaced`),
since a command was given its session.

### SwapFlow

An operation is a swap or a send, of the token or of the native one. `Broadcast`
estimates the call in the *mined* state, as `eth_estimateGas` does through viem,
and queues it; `Mine` takes the queue in order (one account, one nonce sequence);
`Receive` is the receipt and `ReceiptLost` its failure. `op.alone` remembers
whether anything else of the account has overlapped the operation.

## 3. Runs

All runs end in exhaustion of the state space within their bounds. Deadlock is
not checked: commands and clients run a bounded number of times, after which the
system rightly stops.

| run | question | bounds, and why they are enough |
| --- | --- | --- |
| `send` | do executions, answers and outcomes agree, and implement `SendOnce`? | two clients with one id: two attempts each, hence four requests for one id, equal or conflicting, and one call too large. Ids share nothing in the daemon, so a second one would only multiply states; the proofs are for any number |
| `lifecycle` | is an open session reachable, does a rotation end it, does a failed unlock leave nothing, and a daemon no files; is `OneSession` implemented? | `Calm`: four commands one after the other, daemons killed anywhere; four is two unlocks with two commands between or after them. `Rough`: three overlapping commands of any kind, everything may time out; and the same with kills |
| `lifecycle_liveness` | does every command and daemon end? | two overlapping commands of any kind with kills and timeouts: a daemon and one that replaces or outlives it; or three one after the other. No symmetry, which liveness does not allow |
| `vault` | are keys kept, failures clean, accounts the same? | every kind of installation (no wallet, an old one, a plaintext key, the removed store, a backup at a user's path). `Together`: two commands of any kind, overlapping. `Apart`: three, of which unlock, change-password and export overlap. Two keys and passphrases; two seconds |
| `tools` | do registry and packages agree, is the registry free of conflicts, does the CLI start? | two packages of two versions with any contracts, paths that nest, a tool name and a path of root commands. `OneByOne`: four commands, enough to add both, publish, and update or re-add with a conflict. `Named`: three, and one package is named by a word that the other's tool may be called by. `Killed`: three, killed or with failing rollbacks. `Beside`: three, two of them overlapping, not killed. `BesideKilled`: killed as well, all tools at one path |
| `swap` | do allowances, balances and reports agree? | three operations, two amounts, two routers, funds for some and not all |
| `cli` | are transactions spent from the wallet and from the account reported, and nodes asked for their own chain? | two processes, three commands, overlapping in any way and killed anywhere: one that spends, with two between its steps (an init and an unlock, to replace wallet and session), or an unlock with an init between its steps and then one that spends. Two keys, two chains and an unsupported one; three environments (none, a key and an unsupported chain, a chain and its node), with and without `--chain`; `init` with nothing, a chain and its node, or a chain alone |
| `lifecycle_usurped`, `lifecycle_late_lock`, `lifecycle_retry`, `tools_again`, `vault_unforced` | see section 6 | the smallest instance that shows the disagreement |

Some properties carry a condition, because the code promises no more:

- `OrderlySessionReachable` and `OrderlyRotationLocks`: commands one at a time, of
  which control requests are answered within their 750 ms and sends within their
  60 s, and no other process in a window of a few instructions. The violation
  runs show both properties without the condition.
- `ToolsWork`, `NoStrays`, `FailedAddBreaksNothing`: one command at a time, not
  killed, rollbacks that work; no code repairs a tool home after either.
  `NoConflicts` has no condition. `CliStarts` holds of commands one at a time,
  killed or not; section 6 has what overlapping ones do to it. All but
  `NoConflicts` take versions to be named only for packages not yet installed
  (`pins`); `tools_again` has what happens otherwise. `NoStrays` excepts the
  packages that are named by a word another package's tool is called by
  (`Namesakes`): section 6 says why.
- `NothingLost` excuses a command that was *overtaken*: another process changed
  the file between the command's last look at it and its replacement. `init` and
  `restore` look for a wallet, wait (for prompts, for a decryption) and replace
  whatever is there by then; the code makes no attempt at excluding this, and
  `vault_unforced` shows what becomes of it. Nothing else loses a key.
  `FailedLeavesWallet` is about failures before the new file is in place; it,
  `OneAccount` and `RotationKeepsIdentity` hold of commands beside which no `init`
  or `restore` ran, whatever else did.
- `SpendsFromWallet` and `SignsAsReported` hold but of two sessions: that of an
  `unlock` which decrypted before an `init` replaced the wallet and started after
  `init` had locked, and the one an `init` leaves that is killed between saving the
  wallet and locking (`past`). These sign with the old key until they are locked or
  their time is up.
- `NodesServe` is about a chain and a node that were named together, to `init` or in
  the environment (`pair`), and leaves out what a process itself asks under
  `--chain`: section 6 has both.

## 4. Fairness and liveness

`SessionLifecycle!FairSpec` assumes weak fairness of

- the steps of a process: each is its own code, or a timer it has set (750 ms,
  60 s, and 15 s for the wait for the old daemon), or the end of a connection or
  of its child, which the kernel reports;
- a daemon's start, bind, close, exit and reading of its connections: its event
  loop;
- the inactivity timers of its connections (`Disconnect`, jointly with `Serve`:
  a connection is served or dropped);
- its TTL timer.

There is no fairness for `Executed` (an RPC node may never answer), for kills, or
for the beginning of commands. `CommandsEnd` and `DaemonsEnd` follow from these
alone: nothing in the system depends on an executor that returns. `SessionSend`
and the other modules state safety only.

## 5. Proofs

### The session's send path

`SessionSendProofs` proves, for any sets of clients, ids and calls, with the
assumptions `NoConn \notin Conn`, `NoRequest \notin Requests` and
`Oversized \subseteq Calls` (the first two only say that the markers are
markers):

| theorem | says |
| --- | --- |
| `TypeCorrect` | `Spec => []TypeOK` |
| `SendAtMostOnce` | a request id starts at most one execution |
| `SendOkMeansMined` | a returned hash is of a mined transaction, sent for this request |
| `SendOneAnswer` | all executed responses to an id are one response |
| `SendRefusedNeverRuns` | a refused request never executes, then or later |
| `SendImplementsOnce` | `Spec => Once!Spec`: the daemon, its clients and the transport implement the ledger |

None of the four safety properties is inductive. `AtMostOnce` speaks of `run`
alone; to keep it one must know that whoever runs is the retained entry of its id
(`RunInv`), that entries are never replaced, and that the request a connection
carries never changes (`ReqInv`). `OkMeansMined` speaks of what clients were told,
and needs what was written on connections (`ReplyInv`), what a waiting handler is
waiting for (`WaitInv`) and what a retained entry is (`StoreInv`). The invariant
is their conjunction,

    IInv == TypeOK /\ ReqInv /\ RunInv /\ StoreInv /\ WaitInv /\ ReplyInv /\ OutcomeInv

where `ReplyInv` and `OutcomeInv` share one predicate, `Says(r, q)`: what a
response *r* to a request *q* asserts about the daemon. The argument is that
assertions are stable. `NextKeeps` shows once, for all actions, that a step keeps
chosen requests, retained entries and settled promises; `SaysStable`,
`SharesStable`, `ReplyStable` and `OutcomeStable` then carry everything said so
far across any step, and each action is left with the one thing it adds.
`NextIInv` collects the actions, `Invariance` is `Spec => []IInv`, and the four
properties follow state by state.

For the refinement, `Ledger` maps a retained entry to its ledger line and `Told`
an outcome to an answer. `Start`, `Execute`, a settling promise and a settling
client are the steps `Submit`, `Record`, `Fulfil` and `Tell`; every other step —
connecting, reading, waiting, writing, dropping, timing out, closing, crashing,
broadcasting, mining — is a stutter, `IInv` giving what `May` asks of an answer.

### The session's life

`SessionLifecycleProofs` proves, for any processes and any set of environments:

| theorem | says |
| --- | --- |
| `TypeCorrect` | `Spec => []TypeOK` |
| `SessionsReachable` | the open session is the one both files lead to (`OrderlySessionReachable`) |
| `RotationsLock` | a rotation that succeeds ends the session (`OrderlyRotationLocks`) |
| `FailedUnlocks` | a failed unlock leaves no daemon, whatever overlaps or times out |
| `FilesFresh` | without kills, no session file outlives its daemon |
| `PromiseImplemented` | `Spec => PromiseSpec`: it implements `OneSession` |

from the module's assumptions: `Nobody` is no daemon, and environments are
environments. The inductive invariant is in two parts,

    IInv == AnyInv /\ (Orderly => OrderInv)

`AnyInv` holds whatever happens: how far a process is with its command and how far
its daemon is in its life determine each other (`BirthInv`: a daemon serves only
once its parent was told so, and a parent that was told of a failure has seen it
exit), connections end with their daemon, and files are of daemons that are
there. `OrderInv` is about commands one at a time. That the open session can be
reached is not inductive: a process that took it for unreachable, or is cleaning
up after one that was, would remove its files in the next step. `KnowsInv` says
that no such process exists: whoever runs has the token of the daemon that
accepts, or waits for its answer, and neither cleans up nor spawns. `AwaitInv`
says that the only request under way is that of the process that runs, and that
its tokens match, so that it is not refused. `OneDaemon` says that the daemon that
accepts owns both files and that every other one has exited. For the refinement, each action is
one of seven kinds of step (`OpensSession`, `LocksSessions`, ...), each shown once
to be a step of `OneSession` or a stutter.

### Wallet and backups

`WalletVaultProofs` proves, for any processes, keys, passphrases and paths, and any
kills, write errors and overlaps:

| theorem | says |
| --- | --- |
| `TypeCorrect` | `Spec => []TypeOK` |
| `KeysSurvive` | no key loses its last copy, but as `NothingLost` excuses |
| `InitsBackUp` | a successful init leaves a backup that opens with its passphrase |
| `FailuresLeaveWallet` | a change-password or restore that fails before its file is in place has changed nothing |
| `AccountsAgree` | after a command that sets the account, all commands have one account |
| `RotationsKeepIdentity` | password changes keep key and creation time |

The only assumptions are that environments have their type, and that the markers
`None`, `Torn` and `WalletPath` are no keys, names or contents. All five
properties are about single steps, and none of those steps carries what it needs:
a rename puts in place data that was read any number of steps before. The
inductive invariant is

    IInv == TypeOK /\ AllForm /\ AllInit /\ AllKeep
            /\ BesideInv /\ QuietInv /\ WasInv /\ PlacedInv

`AllForm`, `AllInit` and `AllKeep` say what a command has in hand at each place.
`BesideInv` says that any two running commands know of each other. `QuietInv` is
the core: as long as no init or restore has run beside it, what a command, or any
password change beside it, has read of the wallet is still so, in key and creation
time. It is stated of pairs, because one password change is overtaken by another.
`WasInv` is what this means for the file about to be replaced, and `PlacedInv` for
an init that goes on after its rename. To show the eight parts for twenty actions
without 160 cases, `Effects` first reduces every step to one of a few effects
(`Started`, `Stopped`, `Rotating`, `Placing`, ...); each part is then shown to be
kept by all effects.

### Tool home

`ToolHomeProofs` proves, for any finite set of processes and any packages, versions
and command paths:

| theorem | says |
| --- | --- |
| `TypeCorrect` | `Spec => []TypeOK` |
| `NeverConflicts` | no two packages in the registry collide, whatever overlaps, fails or is killed |
| `AlwaysStarts` | mounting never fails, when commands run one at a time (`CliStarts`) |
| `ToolsAlwaysWork` | between orderly commands registered tools are installed and mounted |
| `NeverStrays` | between orderly commands no other package is installed, but for `Namesakes` |
| `FailedAddsBreakNothing` | a failed add leaves every tool at its version |

Beyond types, the assumptions are that `None` is no package, version, path or entry,
`Torn` no list of entries, and `Procs` finite. The inductive invariant is in parts,
by what they take for granted:

    IInv == TypeOK /\ ShapeInv /\ FineInv
            /\ (Careful => OnceInv) /\ (Orderly => OrderInv)

`FineInv` explains why `NoConflicts` needs no condition: not only the registry but
every list that a command holds was checked as a whole, against itself, so whichever
of them is written, and however late, has no conflict. `OnceInv` (one entry for a
package, in each list) needs that an add finds no other package changed than its
own, hence that it runs alone, and that a version is not named for a tool that is
there. `OrderInv` describes a tool home half-way through a command: `Before` is
what it was before npm ran, which matches the entries the command holds, and which
the rollback restores. Every step of a process is shown to be of one form (`Sees`);
`MovesKeep` shows once that steps of this form keep the invariant.

### Account, chain and node

`CliRuntimeProofs` proves, for any number of processes and commands, any keys,
chains, environments, options and setups:

| theorem | says |
| --- | --- |
| `CliTypeCorrect` | `Spec => []TypeOK` |
| `CliSpendsFromWallet` | a send spends from the key of the environment, or else, as every swap, from the account of the wallet or of one just being replaced |
| `CliSignsAsReported` | what signs is the account the command was given with its session, unless the wallet was replaced |
| `CliNodesServe` | a session, and a command that names no chain, ask nodes about their own chain |

The assumptions are those of the module: the default chain is supported, markers
are markers, inputs have their types, and a node of one's own serves a supported
chain. Nothing is assumed about which commands overlap, nor about what `init` is
given. The properties are about `last`, one step; each is proved from the inductive
invariant before that step,

    IInv == TypeOK /\ CommandInv /\ KeyInv /\ SessionInv /\ SeenInv /\ NodeInv

and what the steps that set `last` put there (`LastOf`). For the account, the
argument is that a session is of an account of the wallet, or of one whose `init`
still has to lock it (`SessionInv`), unless it is of a past wallet. `unlock` starts
it with the key it decrypted, which is the wallet's unless that was replaced since
(`KeyInv`); the step with which `init` replaces the wallet is the one that counts
the old account among `Replaced`. A command that spends has noted every such account
since it was given its session (`SeenInv`); if there was only one, it is both the
one it was given and the one that signs. For the node, a chain and a node that were
named together agree (`NodeInv`), in the config, in what commands have read of it,
and in the session.

### Swaps and sends

`SwapFlowProofs` proves, for any number of operations, any amounts, funds and
routers, and any failures:

| theorem | says |
| --- | --- |
| `SwapTypeCorrect` | `Spec => []TypeOK`; no allowance exceeds the amounts asked for |
| `SwapDoneMeansMoved` | reported success is a mined transaction |
| `SwapAllowanceHolds` | a swap that runs alone is sent with its allowance mined |
| `RoutersNeverTakeMore` | what a router took and may still take is not more than was asked of it, in all |

from the module's assumptions (amounts and funds are numbers, and operations are
finitely many, so that their amounts have a sum) and

    IInv == TypeOK /\ QueueInv /\ SentInv /\ RouterInv /\ AloneInv /\ CoverInv

`AllowanceHolds` is not inductive: a block may hold anything. That it cannot
change the allowance of a swap that runs alone needs `AloneInv` (nothing of
another operation is under way, hence none is queued), `QueueInv` and `SentInv`
(what is queued is pending, once, and of a swap that is about to be sent that is
nothing). `CoverInv` then adds the step between the mined approval and its
receipt. `RouterInv` is what `Effect` needs to be typed.

For `RoutersNeverTakeMore`, `SumInv` has the allowance of a router and the amounts
already moved through it add up to no more than those of all swaps that chose it.
An approval that is mined raises the allowance to one amount; that this swap has
not moved its own yet, so that its amount is free, is `FreshInv`.

### Induction over data

TLAPS's library states induction with a predicate as parameter, which the installed
provers cannot instantiate. `Induction` goes around it: a non-empty set of numbers,
or of subsets of a finite set, has a least member (`LeastNumber`, `LeastSubset`,
from the library's theorem that strict inclusion of finite sets is well founded), so
that the set of counterexamples to a statement is empty if none can be the least.
This gives what the sums of `SwapFlow` need (`SumExists`, `SumUnique`, `SumTakes`:
a sum over a finite set exists, is unique, and does not depend on the order), and in
`ToolHomeProofs` what `Without` leaves of a list (`Kept`), for lists of any length.

### Only model-checked

`CommandsEnd` and `DaemonsEnd`: liveness stays with TLC, as TLAPS's installed
backends do not reason about fairness and ENABLED. Every safety property of a
passing run, every action property and both refinements have a theorem.

## 6. What the models showed

Five runs have a counterexample, each a disagreement between the code and what
its docs, comments or tests say (quoted in `PROJECT.json`, `findings`):

- `lifecycle_usurped` — a closing daemon removes the session files by path when
  its last connection ends. If an `unlock` has put a new daemon there meanwhile,
  that daemon goes on, unlocked and out of reach, until its TTL.
- `lifecycle_late_lock` — `auth change-password` ignores the result of the lock
  request and reports the session locked; if the answer took over 750 ms, only
  the files are gone and the session is still open.
- `lifecycle_retry` — "a retry with the same request ID never rebroadcasts" holds
  within one daemon (`AtMostOnce`, proved). The retry reads the token file again,
  and a daemon that replaced the first one does not know the id.
- `tools_again` — `tools add pkg@version` of an installed package does not find
  its entry and adds a second one at the same path, which commander refuses to
  mount: the CLI does not start any more. When the `add` fails, its rollback
  uninstalls the version that worked.
- `vault_unforced` — `docs/keystore.md` says that wallets are not overwritten
  without `--force`. `init` looks for one before its prompts and saves after them:
  of two that overlap, the second overwrites the wallet that the first has saved.

Two more disagreements have no run of their own. The models contain them, as
conditions of properties:

- `add bridge`, where `@acme/bridge` is registered as the tool or command `bridge`,
  has npm install the package `bridge` (`manager.ts:482`), takes `@acme/bridge`,
  found by that name (`:402`), for what it installed (`:489`), and registers that one
  again. The package `bridge` stays, and no command lists or removes it. `NoStrays`
  makes an exception of it and of nothing else.
- The README of the repository (line 105) says that a custom `rpcUrl` applies only to
  the configured default chain. `--chain` becomes the default chain of the command's
  own clients (`wallet.ts:102`), and the configured node with it: `balance --chain 1`
  and the allowance a swap reads ask a node of Arbitrum about Ethereum. A node refuses
  the transactions of another chain. Sessions do what that README says (`NodesServe`).

Further observations, which contradict no sentence of the docs:

- Two tool commands that overlap can stop the CLI from starting, too: beside
  `tools update b`, an `add a` may take `b` for the package npm has just
  installed and append a second entry for it. `CliStarts` is therefore about
  commands one at a time. The npm of a killed `add a` that lives on could do the
  same to the next `add b`; the model ends it with its command.
- An `unlock` that decrypted the wallet before an `init --force` replaced it
  starts its session after `init` locked the old one: `send` goes on spending
  from the old account. So it does after an `init` that was killed between saving
  the wallet and locking the session. `OneAccount`, `SpendsFromWallet` and
  `SignsAsReported` except these sessions.
- `init --chain` without `--rpc` keeps the node of the chain before
  (`init.ts:125`), which then serves the new one. `NodesServe` excepts it.

## 7. What is not modelled

- *Session:* requests the shipped client cannot write (malformed, or sent in
  parts), `SessionSend`'s wrong tokens (they are in `SessionLifecycle`),
  connections a closing server has not accepted yet (taken as accepted), file modes, Windows pipes, Ctrl-C of a waiting command.
- *Wallet:* the cryptography and the file formats (an encrypted file opens with
  its own passphrase and no other), file modes, failures of the lock request
  (in `SessionLifecycle`).
- *Tools:* `update --check` and the invocation of a tool, which change nothing;
  the dependencies every tool home pins; the npm of a killed command that lives on.
- *Account, chain and node:* paths of config, wallet and socket given in the
  environment; `change-password` and `restore` (in `WalletVault`).
- *Chain:* fees, prices, the native `value` that a provider may ask for with the swap
  of a token (`tool.ts:98`; taken as none), reorganisations, other senders of the same account, and
  viem's nonce manager, which is not in the repository.
- *Prompt, printing, argument parsing, release scripts.*

## 8. Plan

Done first, in this order, because a mistake costs money or keys in the order of
the list: `SendOnce`, `SessionSend` with its proofs, `SessionLifecycle` with
`OneSession`, `WalletVault`, `ToolHome`, `SwapFlow` and `CliRuntime` with
their proofs, and the runs above.

Next, to extend the model:

1. An abstract key store ("keys are kept, a command happens at once or not at
   all") that `WalletVault` implements for commands that run alone; likewise a
   tool home in which a command is one step, for `ToolHome`.
2. `SwapFlow` with nonces, if the nonce manager's source becomes part of the
   repository.

A session that survives an unanswered lock is not carried over to `WalletVault`
or `CliRuntime`: `lockSession` removes the files when it gets no answer, so no
later command reaches that session, and `OneAccount` is about what commands reach.

Next, to prove: that the abstract specifications of (1), once they are there, are
implemented, from the invariants of section 5; and lemmas on `OneSession` and
`SendOnce` themselves, so that what they promise can be read off them.
