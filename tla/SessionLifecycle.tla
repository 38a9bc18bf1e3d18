-------------------------- MODULE SessionLifecycle --------------------------
(***************************************************************************)
(* The life of session daemons (src/cli/session.ts) among the CLI          *)
(* processes that start, query, use and lock them. Daemons and processes   *)
(* meet through two files: the socket path and the token file. Any of them *)
(* may remove both, whoever wrote them.                                    *)
(*                                                                         *)
(* Each process runs one command. The daemon a process spawns bears its    *)
(* name, and its token too. SessionSend has the detail of one daemon's     *)
(* sends; here a daemon runs a request id once.                            *)
(*                                                                         *)
(* File operations of one synchronous block are one step, except that      *)
(* reading the token and connecting are two, writing the token and binding *)
(* the socket are two, and a failed connect and the clean-up after it are  *)
(* two. In a prompt environment no other process acts between the halves   *)
(* of these, or between the end of a closing daemon's last connection and  *)
(* its exit.                                                               *)
(***************************************************************************)
EXTENDS Naturals, FiniteSets

CONSTANTS Procs,        \* CLI processes, and the daemons they spawn
          Nobody,       \* no daemon
          Environments  \* what may happen around the processes, see below

AllCommands == {"status", "lock", "unlock", "changePassword", "send"}

(* The commands that run, those that may run beside others, how many       *)
(* processes run one (a bound), whether the answer to a status or lock     *)
(* request may take over 750 ms and that to a send over 60 s, whether      *)
(* short steps end before another process acts, and whether daemons may be *)
(* killed.                                                                 *)
EnvironmentType ==
    [commands : SUBSET AllCommands, background : SUBSET AllCommands,
     processes : 1..Cardinality(Procs), controlTimeouts : BOOLEAN,
     sendTimeouts : BOOLEAN, prompt : BOOLEAN, crashes : BOOLEAN]

ASSUME NobodyAssumption == Nobody \notin Procs
ASSUME EnvironmentsAssumption == Environments \subseteq EnvironmentType

VARIABLES env,     \* the environment, which stays the same
          sock,    \* the daemon bound to the socket path
          tok,     \* the daemon whose token is in the token file
          dst,     \* state of each daemon
          inbox,   \* requests on open connections of daemons
          cmd,     \* command of each process
          pc,      \* where the process is in it
          asks,    \* the kind of the request it is making
          att,     \* its send attempt
          held,    \* the token it read
          peer,    \* the daemon it connected to
          result,  \* how the command ended
          ran,     \* the daemons that called their executor for its send
          old      \* the daemons that were listening when it began

procVars == <<env, cmd, pc, asks, att, held, peer, result, old>>
vars == <<sock, tok, dst, inbox, procVars, ran>>

Daemons == Procs
Requests == [from : Procs, kind : {"status", "lock", "send"}, to : Daemons,
             token : Daemons, running : BOOLEAN]

TypeOK ==
    /\ env \in Environments
    /\ sock \in Daemons \cup {Nobody} /\ tok \in Daemons \cup {Nobody}
    /\ dst \in [Daemons -> {"unborn", "spawned", "tokened", "listening",
                            "stopping", "closing", "exited"}]
    /\ inbox \subseteq Requests
    /\ cmd \in [Procs -> AllCommands \cup {"none"}]
    /\ pc \in [Procs -> {"idle", "load", "connect", "wait", "cleanup", "check",
                         "gone", "spawn", "ready", "done"}]
    /\ asks \in [Procs -> {"status", "lock", "send"}]
    /\ att \in [Procs -> 1..2]
    /\ held \in [Procs -> Daemons \cup {Nobody}]
    /\ peer \in [Procs -> Daemons \cup {Nobody}]
    /\ result \in [Procs -> {"none", "ok", "failed"}]
    /\ ran \in [Procs -> SUBSET Daemons]
    /\ old \in [Procs -> SUBSET Daemons]

Init ==
    /\ env \in Environments
    /\ sock = Nobody /\ tok = Nobody
    /\ dst = [d \in Daemons |-> "unborn"]
    /\ inbox = {}
    /\ cmd = [p \in Procs |-> "none"]
    /\ pc = [p \in Procs |-> "idle"]
    /\ asks = [p \in Procs |-> "status"]
    /\ att = [p \in Procs |-> 1]
    /\ held = [p \in Procs |-> Nobody]
    /\ peer = [p \in Procs |-> Nobody]
    /\ result = [p \in Procs |-> "none"]
    /\ ran = [p \in Procs |-> {}]
    /\ old = [p \in Procs |-> {}]

Serving(d) == dst[d] \in {"listening", "stopping", "closing"}
Accepting(d) == dst[d] \in {"listening", "stopping"}
Of(d) == {r \in inbox : r.to = d}

FilesGone == sock = Nobody /\ tok = Nobody
RemoveFiles == sock' = Nobody /\ tok' = Nobody
KeepFiles == UNCHANGED <<sock, tok>>

-----------------------------------------------------------------------------
(* Commands. *)

Running(p) == pc[p] \notin {"idle", "done"}

(* status, unlock and send begin with a status request; lock and the       *)
(* commands that replace the wallet file, once they did, with a lock.      *)
Begin(p) ==
    /\ pc[p] = "idle"
    /\ Cardinality({q \in Procs : pc[q] # "idle"}) < env.processes
    /\ \E c \in env.commands :
          /\ \A q \in Procs : Running(q) =>
                c \in env.background \/ cmd[q] \in env.background
          /\ cmd' = [cmd EXCEPT ![p] = c]
          /\ asks' = [asks EXCEPT ![p] =
                IF c \in {"lock", "changePassword"} THEN "lock" ELSE "status"]
    /\ pc' = [pc EXCEPT ![p] = "load"]
    /\ old' = [old EXCEPT ![p] = {d \in Daemons : dst[d] = "listening"}]
    /\ UNCHANGED <<env, sock, tok, dst, inbox, att, held, peer, result, ran>>

Finish(p, how) ==
    /\ pc' = [pc EXCEPT ![p] = "done"]
    /\ result' = [result EXCEPT ![p] = how]
    /\ UNCHANGED asks

GoTo(p, where) == pc' = [pc EXCEPT ![p] = where] /\ UNCHANGED <<asks, result>>

Ask(p, kind) ==
    /\ pc' = [pc EXCEPT ![p] = "load"]
    /\ asks' = [asks EXCEPT ![p] = kind]
    /\ UNCHANGED result

(* A variant of unlock that only removes the files of a session it found.  *)
ReplaceFiles(p, found) == GoTo(p, "cleanup")

(* unlock locks a session it found, and removes leftovers if there is none. *)
Replace(p, found) ==
    IF found THEN Ask(p, "lock") ELSE GoTo(p, "cleanup")

(* p's request was answered with ok or with an error. *)
Answered(p, ok) ==
    CASE asks[p] = "send" -> Finish(p, IF ok THEN "ok" ELSE "failed")
      [] asks[p] = "status" /\ cmd[p] = "send" ->
            IF ok THEN Ask(p, "send") ELSE Finish(p, "failed")
      [] asks[p] = "status" /\ cmd[p] = "unlock" -> Replace(p, ok)
      [] asks[p] = "lock" /\ cmd[p] = "unlock" ->
            IF ok THEN GoTo(p, "gone") ELSE GoTo(p, "check")
      [] cmd[p] = "changePassword" -> Finish(p, "ok")
      [] OTHER -> Finish(p, IF ok THEN "ok" ELSE "failed")

(* A variant that retries whatever the request and the attempt. *)
AlwaysRetry(p, retryable) ==
    /\ att' = [att EXCEPT ![p] = @ + 1]
    /\ GoTo(p, "load")

(* p's request failed without a response. A status or lock request goes on *)
(* to remove both files. A send is tried again, once, if the error allows. *)
Failed(p, retryable) ==
    \/ /\ asks[p] # "send"
       /\ GoTo(p, "cleanup")
       /\ UNCHANGED att
    \/ /\ asks[p] = "send" /\ retryable /\ att[p] = 1
       /\ att' = [att EXCEPT ![p] = 2]
       /\ GoTo(p, "load")
    \/ /\ asks[p] = "send" /\ ~(retryable /\ att[p] = 1)
       /\ Finish(p, "failed")
       /\ UNCHANGED att

(* Steps that a prompt environment ends before a daemon starts. *)
Hurried ==
    \/ \E d \in Daemons : dst[d] = "closing" /\ Of(d) = {}
    \/ \E p \in Procs : pc[p] \in {"connect", "cleanup"}

(* loadSessionToken *)
Load(p) ==
    /\ pc[p] = "load"
    /\ env.prompt => \A d \in Daemons : dst[d] # "tokened"
    /\ IF tok = Nobody
       THEN Failed(p, FALSE) /\ UNCHANGED held
       ELSE GoTo(p, "connect") /\ held' = [held EXCEPT ![p] = tok]
                               /\ UNCHANGED att
    /\ UNCHANGED <<sock, tok, dst, inbox, cmd, peer, ran, old, env>>

Request(p) == [from |-> p, kind |-> asks[p], to |-> sock, token |-> held[p],
               running |-> FALSE]

(* createConnection, and the request written once it opens. *)
Connect(p) ==
    /\ pc[p] = "connect"
    /\ IF sock # Nobody /\ Accepting(sock)
       THEN /\ inbox' = inbox \cup {Request(p)}
            /\ peer' = [peer EXCEPT ![p] = sock]
            /\ GoTo(p, "wait")
            /\ UNCHANGED att
       ELSE Failed(p, FALSE) /\ UNCHANGED <<inbox, peer>>
    /\ UNCHANGED <<sock, tok, dst, cmd, held, ran, old, env>>

MayTimeOut(p) == 
    IF asks[p] = "send" THEN env.sendTimeouts ELSE env.controlTimeouts

(* The timer of sendSessionRequest. The request stays with the daemon. *)
Timeout(p) ==
    /\ pc[p] = "wait" /\ MayTimeOut(p)
    /\ Failed(p, TRUE)
    /\ UNCHANGED <<sock, tok, dst, inbox, cmd, held, peer, ran, old, env>>

(* Both files are removed, whoever owns them by now: after a failed status *)
(* or lock, and by unlock when it found no session.                        *)
CleanUp(p) ==
    /\ pc[p] = "cleanup"
    /\ RemoveFiles
    /\ CASE cmd[p] = "unlock" /\ asks[p] = "status" -> GoTo(p, "spawn")
         [] cmd[p] = "unlock" /\ asks[p] = "lock" -> GoTo(p, "check")
         [] cmd[p] = "changePassword" -> Finish(p, "ok")
         [] OTHER -> Finish(p, "failed")
    /\ UNCHANGED <<dst, inbox, cmd, att, held, peer, ran, old, env>>

(* unlock after its lock request failed. *)
Check(p) ==
    /\ pc[p] = "check"
    /\ IF FilesGone THEN GoTo(p, "spawn") ELSE Finish(p, "failed")
    /\ KeepFiles
    /\ UNCHANGED <<dst, inbox, cmd, att, held, peer, ran, old, env>>

Idle(d) == dst[d] = "closing" /\ Of(d) = {}

(* A variant that polls without a deadline. *)
NoDeadline(p) == FALSE

(* The deadline of waitForSessionShutdown, 15 s after the lock. *)
GivesUp(p) == env.prompt => \A d \in Daemons : dst[d] # "stopping" /\ ~Idle(d)

(* waitForSessionShutdown polls until both files are gone. *)
WaitGone(p) ==
    /\ pc[p] = "gone"
    /\ \/ FilesGone /\ GoTo(p, "spawn")
       \/ ~FilesGone /\ GivesUp(p) /\ Finish(p, "failed")
    /\ KeepFiles
    /\ UNCHANGED <<dst, inbox, cmd, att, held, peer, ran, old, env>>

Spawn(p) ==
    /\ pc[p] = "spawn"
    /\ dst' = [dst EXCEPT ![p] = "spawned"]
    /\ GoTo(p, "ready")
    /\ UNCHANGED <<sock, tok, inbox, cmd, att, held, peer, ran, old, env>>

-----------------------------------------------------------------------------
(* Daemons. *)

Become(d, state) == dst' = [dst EXCEPT ![d] = state]

(* A variant that takes any news of the daemon for a start. *)
TellStarted(d, how) ==
    IF pc[d] = "ready" THEN Finish(d, "ok") ELSE UNCHANGED <<pc, asks, result>>

(* The parent, if it still waits, learns how the start ended. *)
Tell(d, how) ==
    IF pc[d] = "ready" THEN Finish(d, how) ELSE UNCHANGED <<pc, asks, result>>

(* Leftovers are removed and the new token written. *)
StartUp(d) ==
    /\ dst[d] = "spawned"
    /\ env.prompt => ~Hurried
    /\ sock' = Nobody /\ tok' = d
    /\ Become(d, "tokened")
    /\ UNCHANGED <<inbox, procVars, ran>>

(* A variant that reports the error and tries again later. *)
StayAfterError(d) == UNCHANGED dst

ExitAfterError(d) == Become(d, "exited")

(* listen: succeeds on a free path. In use, the daemon removes both files  *)
(* and exits.                                                              *)
Bind(d) ==
    /\ dst[d] = "tokened"
    /\ \/ /\ sock = Nobody
          /\ sock' = d /\ UNCHANGED tok
          /\ Become(d, "listening") /\ Tell(d, "ok")
       \/ /\ sock # Nobody
          /\ RemoveFiles
          /\ ExitAfterError(d) /\ Tell(d, "failed")
    /\ UNCHANGED <<inbox, cmd, att, held, peer, ran, old, env>>

Awaits(p, r) == pc[p] = "wait" /\ r.from = p /\ r.to = peer[p] /\ r.kind = asks[p]

(* The connection of r ends with a response or without one. *)
Respond(r, ok) ==
    /\ inbox' = inbox \ {r}
    /\ IF Awaits(r.from, r) THEN Answered(r.from, ok)
                            ELSE UNCHANGED <<pc, asks, result>>
    /\ UNCHANGED att

(* A variant of the lock handler that answers without closing. *)
AnswerOnly(d) == UNCHANGED dst

(* The lock handler closes the daemon right after its answer. *)
LockClose(d) ==
    IF dst[d] = "listening" THEN Become(d, "stopping") ELSE UNCHANGED dst

TokensMatch(r) == r.token = r.to

(* The daemon reads a request. *)
Serve(r) ==
    /\ r \in inbox /\ Serving(r.to) /\ ~r.running
    /\ \/ ~TokensMatch(r) /\ Respond(r, FALSE) /\ UNCHANGED <<dst, ran>>
       \/ /\ TokensMatch(r) /\ r.kind = "status"
          /\ Respond(r, TRUE) /\ UNCHANGED <<dst, ran>>
       \/ /\ TokensMatch(r) /\ r.kind = "lock"
          /\ Respond(r, TRUE) /\ LockClose(r.to)
          /\ UNCHANGED ran
       \/ /\ TokensMatch(r) /\ r.kind = "send"
          /\ inbox' = (inbox \ {r}) \cup {[r EXCEPT !.running = TRUE]}
          /\ ran' = [ran EXCEPT ![r.from] = @ \cup {r.to}]
          /\ UNCHANGED <<dst, pc, asks, att, result>>
    /\ UNCHANGED <<sock, tok, cmd, held, peer, old, env>>

(* The executor returned and the send is answered. *)
Executed(r) ==
    /\ r \in inbox /\ Serving(r.to) /\ r.running
    /\ \E ok \in BOOLEAN : Respond(r, ok)
    /\ UNCHANGED <<sock, tok, dst, cmd, held, peer, ran, old, env>>

Abandoned(r) == ~Awaits(r.from, r)

(* A variant that keeps the connection of a running send until it returns. *)
EndsUnlessRunning(r) == ~r.running

MayEnd(r) == TRUE

(* The connection ends because its client left or its inactivity timer     *)
(* fired.                                                                  *)
Disconnect(r) ==
    /\ r \in inbox /\ Serving(r.to) /\ MayEnd(r)
    /\ inbox' = inbox \ {r}
    /\ IF Abandoned(r)
       THEN UNCHANGED <<pc, asks, att, result>>
       ELSE MayTimeOut(r.from) /\ Failed(r.from, TRUE)
    /\ UNCHANGED <<sock, tok, dst, cmd, held, peer, ran, old, env>>

(* close(): listening stops and the socket path is unlinked, whichever     *)
(* daemon it leads to by now. Connections that wait to be accepted are     *)
(* taken to have been: none of them is reset.                              *)
Close(d) ==
    /\ sock' = Nobody
    /\ Become(d, "closing")
    /\ UNCHANGED <<tok, inbox, procVars, ran>>

(* The TTL timer or a signal. *)
Expires(d) == dst[d] = "listening"

Expire(d) == Expires(d) /\ Close(d)

CloseLocked(d) == dst[d] = "stopping" /\ Close(d)

(* A variant of the exit that leaves the token behind. *)
RemoveSocketOnly == sock' = Nobody /\ UNCHANGED tok

ExitFiles == RemoveFiles

(* Every connection has ended: both files are removed, whoever owns them   *)
(* by now, and the process exits.                                          *)
Drained(d) ==
    /\ Idle(d)
    /\ ExitFiles
    /\ Become(d, "exited")
    /\ UNCHANGED <<inbox, procVars, ran>>

(* A second signal: exit with connections open. *)
Abort(d) ==
    /\ env.crashes /\ dst[d] = "closing"
    /\ ExitFiles
    /\ Become(d, "exited")
    /\ inbox' = inbox \ Of(d)
    /\ UNCHANGED <<procVars, ran>>

(* Killed: the files stay. Clients and the parent see their channel end.   *)
Crash(d) ==
    /\ env.crashes /\ dst[d] \notin {"unborn", "exited"}
    /\ Become(d, "exited")
    /\ inbox' = inbox \ Of(d)
    /\ Tell(d, "failed")
    /\ KeepFiles
    /\ UNCHANGED <<cmd, att, held, peer, ran, old, env>>

(* p sees the connection end with its daemon. *)
Lost(p) ==
    /\ pc[p] = "wait" /\ dst[peer[p]] = "exited"
    /\ Failed(p, TRUE)
    /\ UNCHANGED <<sock, tok, dst, inbox, cmd, held, peer, ran, old, env>>

-----------------------------------------------------------------------------
ProcStep(p) ==
    \/ Load(p) \/ Connect(p) \/ Timeout(p) \/ CleanUp(p) \/ Check(p)
    \/ WaitGone(p) \/ Spawn(p) \/ Lost(p)

ConnStep(r) == Serve(r) \/ Executed(r) \/ Disconnect(r)

DaemonStep(d) ==
    \/ StartUp(d) \/ Bind(d) \/ CloseLocked(d) \/ Drained(d)
    \/ \E r \in Of(d) : ConnStep(r)

Next ==
    \/ \E p \in Procs : Begin(p) \/ ProcStep(p)
    \/ \E d \in Daemons : DaemonStep(d) \/ Expire(d) \/ Abort(d) \/ Crash(d)

Spec == Init /\ [][Next]_vars

(* A process goes on until it ends: what it waits for has a timer. A       *)
(* daemon's event loop reads from its connections, the timers of these and *)
(* of its TTL fire, and it goes on with a start or an exit. Executors may  *)
(* never return.                                                           *)
FairSpec ==
    /\ Spec
    /\ \A p \in Procs : WF_vars(ProcStep(p))
    /\ \A d \in Daemons :
          /\ WF_vars(StartUp(d)) /\ WF_vars(Bind(d))
          /\ WF_vars(CloseLocked(d)) /\ WF_vars(Drained(d))
          /\ WF_vars(Expire(d))
          /\ WF_vars(\E r \in Of(d) : Serve(r) \/ Disconnect(r))

-----------------------------------------------------------------------------
(* Properties.                                                             *)

(* docs/keystore.md:76, "later CLI commands use the local session until it *)
(* expires or is locked": a daemon that is neither can be reached, through *)
(* a socket path and a token that are both its own. At most one daemon can *)
(* then hold an open session.                                              *)
SessionReachable ==
    \A d \in Daemons : dst[d] = "listening" => sock = d /\ tok = d

(* The code keeps that promise for commands that run one at a time and get *)
(* their answers in time (750 ms for a control request, 60 s for a send),  *)
(* though daemons are killed and leave their files (session.ts:414).       *)
Orderly ==
    /\ env.background = {} /\ env.prompt
    /\ ~env.controlTimeouts /\ ~env.sendTimeouts
OrderlySessionReachable == Orderly => SessionReachable

(* docs/keystore.md:193, "password rotation locks the current local        *)
(* session after success": when change-password reports success, no daemon *)
(* that was listening when it began is still open for business.            *)
RotationLocks ==
    \A p \in Procs :
        cmd[p] = "changePassword" /\ pc[p] = "done" =>
            \A d \in old[p] : dst[d] # "listening"

(* So it does for such commands (auth.ts:102).                             *)
OrderlyRotationLocks == Orderly => RotationLocks

(* session.ts:424, "a retry with the same request ID never rebroadcasts":  *)
(* one send calls the executor of one daemon at most.                      *)
RetryNeverRebroadcasts == \A p \in Procs : Cardinality(ran[p]) <= 1

(* An unlock that reports failure leaves no session of its own behind: the *)
(* daemon it spawned, if any, is gone, whatever else ran at the time.      *)
FailedUnlockLeavesNoDaemon ==
    \A p \in Procs :
        cmd[p] = "unlock" /\ result[p] = "failed" =>
            dst[p] \in {"unborn", "exited"}

(* As long as no daemon is killed, neither file ever belongs to a daemon   *)
(* that is gone, however starts, locks, timeouts and exits interleave.     *)
NoStaleFiles ==
    ~env.crashes =>
        \A d \in Daemons : sock = d \/ tok = d => dst[d] # "exited"

(* What users are told of sessions (OneSession) is true, at the step they  *)
(* are told it and after: never more than the unlocks that succeed open a  *)
(* session, and in an orderly environment there is one at a time, which is *)
(* over for whoever has locked it, rotated the password or been told that  *)
(* there is none, though daemons expire, are killed and leave their files. *)
Listening == {d \in Daemons : dst[d] = "listening"}

Promise == INSTANCE OneSession WITH ordered <- Orderly, asked <- cmd,
                                    told <- result, open <- Listening

PromiseSpec == Promise!Spec

(* Every command ends, though daemons may hang, be killed or be replaced   *)
(* while it runs.                                                          *)
CommandsEnd == \A p \in Procs : (pc[p] # "idle") ~> (pc[p] = "done")

(* A daemon ends, by its TTL at the latest: one whose files were removed,  *)
(* and one with an executor that never returns.                            *)
DaemonsEnd == \A d \in Daemons : (dst[d] = "spawned") ~> (dst[d] = "exited")

=============================================================================
