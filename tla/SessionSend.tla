---------------------------- MODULE SessionSend ----------------------------
(***************************************************************************)
(* The `send` path of the local session (src/cli/session.ts): CLI          *)
(* processes holding a SessionExecutionClient, one session daemon with its *)
(* map of retained responses, the executor it calls (src/core/eoa.ts) and  *)
(* the chain.                                                              *)
(*                                                                         *)
(* A client makes one logical send. It opens at most two connections, the  *)
(* second one (with the same request id) only after a retryable transport  *)
(* error on the first. A connection <<c, n>> also names the execution its  *)
(* request may start, and so the hash of that transaction.                 *)
(*                                                                         *)
(* Request ids are random in SessionExecutionClient, but the daemon        *)
(* answers any local process that knows the token: clients here may pick   *)
(* the same id, with the same call or with another.                        *)
(***************************************************************************)
EXTENDS Naturals, FiniteSets

CONSTANTS Clients,    \* processes that call send
          Ids,        \* request ids
          Calls,      \* call parameters (to, chainId, data, value)
          Oversized,  \* the calls whose request exceeds MAX_MESSAGE_BYTES
          NoConn,     \* no connection
          NoRequest   \* no request

Attempts == 1..2
Conn == Clients \X Attempts

ASSUME NoConnAssumption == NoConn \notin Conn
ASSUME OversizedAssumption == Oversized \subseteq Calls

Requests == [id : Ids, call : Calls]

ASSUME NoRequestAssumption == NoRequest \notin Requests

VARIABLES pc,       \* client: what its send() is doing
          att,      \* client: the attempt it is on
          req,      \* client: its request, NoRequest before send()
          outcome,  \* client: how send() settled
          conn,     \* daemon: state of each connection
          reply,    \* the response line written on each connection
          server,   \* daemon: listening, closing or exited
          files,    \* both session files are in place
          store,    \* sendResponses: the connection whose request has the id
          promise,  \* the retained response promise of an execution
          run       \* what became of an execution's transaction

clientVars == <<pc, att, req, outcome>>
daemonVars == <<server, files, store>>
execVars   == <<promise, run>>
vars == <<clientVars, conn, reply, daemonVars, execVars>>

ReplyKinds == {"ok", "error", "conflict", "tooLarge"}
Replies == [kind : ReplyKinds, tx : Conn \cup {NoConn}]
NoReply == [kind |-> "none", tx |-> NoConn]
Failures == [kind : {"noSession", "transport"}, tx : {NoConn}]

TypeOK ==
    /\ pc \in [Clients -> {"idle", "opening", "awaiting", "done"}]
    /\ att \in [Clients -> Attempts]
    /\ req \in [Clients -> Requests \cup {NoRequest}]
    /\ outcome \in [Clients -> Replies \cup Failures \cup {NoReply}]
    /\ conn \in [Conn -> {"none", "open", "waiting", "replied", "closed"}]
    /\ reply \in [Conn -> Replies \cup {NoReply}]
    /\ server \in {"listening", "closing", "exited"}
    /\ files \in BOOLEAN
    /\ store \in [Ids -> Conn \cup {NoConn}]
    /\ promise \in [Conn -> {"none", "pending", "ok", "error"}]
    /\ run \in [Conn -> {"none", "called", "failed", "broadcast", "mined",
                         "reverted"}]

Init ==
    /\ pc = [c \in Clients |-> "idle"]
    /\ att = [c \in Clients |-> 1]
    /\ req = [c \in Clients |-> NoRequest]
    /\ outcome = [c \in Clients |-> NoReply]
    /\ conn = [k \in Conn |-> "none"]
    /\ reply = [k \in Conn |-> NoReply]
    /\ server = "listening"
    /\ files = TRUE
    /\ store = [i \in Ids |-> NoConn]
    /\ promise = [k \in Conn |-> "none"]
    /\ run = [k \in Conn |-> "none"]

Cur(c) == <<c, att[c]>>
IdOf(k) == req[k[1]].id
CallOf(k) == req[k[1]].call

-----------------------------------------------------------------------------
(* The client: SessionExecutionClient.send, sendSessionRequest, readLine.  *)

Settle(c, result) ==
    /\ pc' = [pc EXCEPT ![c] = "done"]
    /\ outcome' = [outcome EXCEPT ![c] = result]

(* send() draws a request id and loads the token. *)
Start(c) ==
    /\ pc[c] = "idle"
    /\ \E r \in Requests : req' = [req EXCEPT ![c] = r]
    /\ pc' = [pc EXCEPT ![c] = "opening"]
    /\ UNCHANGED <<att, outcome, conn, reply, daemonVars, execVars>>

(* The connection opens and the request is written on it at once. *)
Connect(c) ==
    /\ pc[c] = "opening"
    /\ server = "listening" /\ files
    /\ pc' = [pc EXCEPT ![c] = "awaiting"]
    /\ conn' = [conn EXCEPT ![Cur(c)] = "open"]
    /\ UNCHANGED <<att, req, outcome, reply, daemonVars, execVars>>

(* No token file, ENOENT or ECONNREFUSED: not retryable, whatever the      *)
(* attempt.                                                                *)
Refused(c) ==
    /\ pc[c] = "opening"
    /\ server # "listening" \/ ~files
    /\ Settle(c, [kind |-> "noSession", tx |-> NoConn])
    /\ UNCHANGED <<att, req, conn, reply, daemonVars, execVars>>

(* The timer of sendSessionRequest covers the connect and the wait. *)
TimerRuns(c) == pc[c] \in {"opening", "awaiting"}

(* A variant that retries as long as the error is retryable. *)
FailAlways(c) ==
    /\ att' = [att EXCEPT ![c] = @ + 1]
    /\ pc' = [pc EXCEPT ![c] = "opening"]
    /\ UNCHANGED outcome

(* A retryable failure: the first attempt is retried once under the same   *)
(* id, the second one settles the send.                                    *)
Fail(c) ==
    \/ /\ att[c] = 1
       /\ att' = [att EXCEPT ![c] = 2]
       /\ pc' = [pc EXCEPT ![c] = "opening"]
       /\ UNCHANGED outcome
    \/ /\ att[c] = 2
       /\ Settle(c, [kind |-> "transport", tx |-> NoConn])
       /\ UNCHANGED att

Timeout(c) ==
    /\ TimerRuns(c)
    /\ Fail(c)
    /\ UNCHANGED <<req, conn, reply, daemonVars, execVars>>

(* The connection ended without a response line. *)
Lost(c) ==
    /\ pc[c] = "awaiting"
    /\ conn[Cur(c)] = "closed"
    /\ reply[Cur(c)] = NoReply
    /\ Fail(c)
    /\ UNCHANGED <<req, conn, reply, daemonVars, execVars>>

Receive(c) ==
    /\ pc[c] = "awaiting"
    /\ reply[Cur(c)] # NoReply
    /\ Settle(c, reply[Cur(c)])
    /\ UNCHANGED <<att, req, conn, reply, daemonVars, execVars>>

(* The client destroyed its end of k: it gave up on that attempt. *)
GaveUp(k) == pc[k[1]] = "done" \/ att[k[1]] > k[2]

-----------------------------------------------------------------------------
(* The daemon: the "data" handler of startSessionServer.                   *)

Respond(k, r) ==
    /\ conn' = [conn EXCEPT ![k] = "replied"]
    /\ reply' = [reply EXCEPT ![k] = r]

(* The request of k is read. What the client wrote before it gave up is    *)
(* still delivered, so k may belong to an abandoned attempt.               *)
Reads(k) == conn[k] = "open" /\ server # "exited"

TooLarge(k) ==
    /\ Reads(k)
    /\ CallOf(k) \in Oversized
    /\ Respond(k, [kind |-> "tooLarge", tx |-> NoConn])
    /\ UNCHANGED <<clientVars, daemonVars, execVars>>

(* Variants of the lookup: the response retained only once it has settled, *)
(* while it is pending, or unless it is an error.                          *)
RetainSettled(i) ==
    IF store[i] # NoConn /\ promise[store[i]] = "pending"
    THEN NoConn ELSE store[i]
RetainPending(i) ==
    IF store[i] # NoConn /\ promise[store[i]] # "pending"
    THEN NoConn ELSE store[i]
RetainSuccess(i) ==
    IF store[i] # NoConn /\ promise[store[i]] = "error"
    THEN NoConn ELSE store[i]

(* sendResponses.get(id) *)
Existing(i) == store[i]

(* A variant that trusts the request id alone. *)
AnyFingerprint(k) == Existing(IdOf(k)) # NoConn

(* Same id, same fingerprint. *)
Matches(k) ==
    /\ Existing(IdOf(k)) # NoConn
    /\ CallOf(Existing(IdOf(k))) = CallOf(k)

Conflict(k) ==
    /\ Reads(k)
    /\ CallOf(k) \notin Oversized
    /\ Existing(IdOf(k)) # NoConn /\ ~Matches(k)
    /\ Respond(k, [kind |-> "conflict", tx |-> NoConn])
    /\ UNCHANGED <<clientVars, daemonVars, execVars>>

(* await existing.response *)
Join(k) ==
    /\ Reads(k)
    /\ CallOf(k) \notin Oversized
    /\ Matches(k)
    /\ conn' = [conn EXCEPT ![k] = "waiting"]
    /\ UNCHANGED <<clientVars, reply, daemonVars, execVars>>

(* executor.send is called and its promise retained, with no await between *)
(* the lookup and the set.                                                 *)
Execute(k) ==
    /\ Reads(k)
    /\ CallOf(k) \notin Oversized
    /\ Existing(IdOf(k)) = NoConn
    /\ store' = [store EXCEPT ![IdOf(k)] = k]
    /\ promise' = [promise EXCEPT ![k] = "pending"]
    /\ run' = [run EXCEPT ![k] = "called"]
    /\ conn' = [conn EXCEPT ![k] = "waiting"]
    /\ UNCHANGED <<clientVars, reply, server, files>>

(* A waiting handler resumes with the promise it awaited and responds. *)
Answer(k) ==
    /\ conn[k] = "waiting" /\ server # "exited"
    /\ LET e == store[IdOf(k)]
       IN  /\ promise[e] \in {"ok", "error"}
           /\ Respond(k, [kind |-> promise[e], tx |-> e])
    /\ UNCHANGED <<clientVars, daemonVars, execVars>>

Live(k) == conn[k] \in {"open", "waiting", "replied"}

(* A live connection always has an inactivity timer: 5 s, or 60 s once a   *)
(* send was read.                                                          *)
HasTimer(k) == Live(k)

Drop(k) ==
    /\ conn' = [conn EXCEPT ![k] = "closed"]
    /\ UNCHANGED <<clientVars, reply, daemonVars, execVars>>

IdleDrop(k) == HasTimer(k) /\ server # "exited" /\ Drop(k)

(* The daemon sees the end of a connection whose client left; a request    *)
(* already written on it is read first.                                    *)
EndOfInput(k) ==
    conn[k] \in {"waiting", "replied"} /\ GaveUp(k) /\ server # "exited"
    /\ Drop(k)

-----------------------------------------------------------------------------
(* The executor (EOAExecutor.send) and the chain.                          *)

(* A node has the transaction. An HTTP request in flight outlives both the *)
(* error its timeout raised and the daemon.                                *)
Broadcast(k) ==
    /\ run[k] = "called"
    /\ run' = [run EXCEPT ![k] = "broadcast"]
    /\ UNCHANGED <<clientVars, conn, reply, daemonVars, promise>>

Mine(k) ==
    /\ run[k] = "broadcast"
    /\ \E status \in {"mined", "reverted"} :
            run' = [run EXCEPT ![k] = status]
    /\ UNCHANGED <<clientVars, conn, reply, daemonVars, promise>>

(* Fails with nothing sent: unsupported chain, failed gas estimate. *)
FailUnsent(k) ==
    /\ run[k] = "called" /\ promise[k] = "pending" /\ server # "exited"
    /\ run' = [run EXCEPT ![k] = "failed"]
    /\ promise' = [promise EXCEPT ![k] = "error"]
    /\ UNCHANGED <<clientVars, conn, reply, daemonVars>>

(* Fails on the RPC or on the wait for the receipt: the transaction may be *)
(* on its way.                                                             *)
FailUnknown(k) ==
    /\ promise[k] = "pending" /\ server # "exited"
    /\ promise' = [promise EXCEPT ![k] = "error"]
    /\ UNCHANGED <<clientVars, conn, reply, daemonVars, run>>

(* A variant that resolves on broadcast, without waiting for inclusion. *)
Broadcasted(k) == run[k] \in {"broadcast", "mined"}

Included(k) == run[k] = "mined"

Resolve(k) ==
    /\ promise[k] = "pending" /\ server # "exited"
    /\ Included(k)
    /\ promise' = [promise EXCEPT ![k] = "ok"]
    /\ UNCHANGED <<clientVars, conn, reply, daemonVars, run>>

-----------------------------------------------------------------------------
(* The end of the daemon.                                                  *)

(* close(): the TTL timer, a lock request or a first signal. The listening *)
(* socket is closed and its path unlinked at once; connections not yet     *)
(* accepted are reset, the others are served to their end.                 *)
Close ==
    /\ server = "listening"
    /\ \E backlog \in SUBSET {k \in Conn : conn[k] = "open"} :
          conn' = [k \in Conn |-> IF k \in backlog THEN "closed" ELSE conn[k]]
    /\ server' = "closing"
    /\ files' = FALSE
    /\ UNCHANGED <<clientVars, reply, store, execVars>>

(* Another process removed the files after a failed status or lock. *)
RemoveFiles ==
    /\ files
    /\ files' = FALSE
    /\ UNCHANGED <<clientVars, conn, reply, server, store, execVars>>

(* server.close calls back once every connection has ended; executions     *)
(* whose connections have ended are not waited for.                        *)
Drained ==
    /\ server = "closing"
    /\ \A k \in Conn : ~Live(k)
    /\ server' = "exited"
    /\ UNCHANGED <<clientVars, conn, reply, files, store, execVars>>

(* Exit with connections open: a signal while closing, an error event no   *)
(* handler catches, SIGKILL. A response already written is still readable. *)
Die ==
    /\ server # "exited"
    /\ server' = "exited"
    /\ conn' = [k \in Conn |-> IF Live(k) THEN "closed" ELSE conn[k]]
    /\ UNCHANGED <<clientVars, reply, files, store, execVars>>

-----------------------------------------------------------------------------
ClientStep(c) ==
    Start(c) \/ Connect(c) \/ Refused(c) \/ Timeout(c) \/ Lost(c) \/ Receive(c)

DaemonStep(k) ==
    \/ TooLarge(k) \/ Conflict(k) \/ Join(k) \/ Execute(k) \/ Answer(k)
    \/ IdleDrop(k) \/ EndOfInput(k)

ExecStep(k) ==
    Broadcast(k) \/ Mine(k) \/ FailUnsent(k) \/ FailUnknown(k) \/ Resolve(k)

Next ==
    \/ \E c \in Clients : ClientStep(c)
    \/ \E k \in Conn : DaemonStep(k) \/ ExecStep(k)
    \/ Close \/ RemoveFiles \/ Drained \/ Die

Spec == Init /\ [][Next]_vars

-----------------------------------------------------------------------------
(* Properties.                                                             *)

(* The comment at session.ts:424: within the life of a daemon a request id *)
(* starts at most one execution, however attempts, retries and reuses of   *)
(* the id interleave.                                                      *)
AtMostOnce ==
    \A k, l \in Conn :
        run[k] # "none" /\ run[l] # "none" /\ IdOf(k) = IdOf(l) => k = l

(* A send that returns a hash returns that of a transaction mined with     *)
(* success, sent for this request id and these parameters, even when the   *)
(* response belongs to an execution another connection started.            *)
OkMeansMined ==
    \A c \in Clients :
        outcome[c].kind = "ok" =>
            /\ outcome[c].tx \in Conn
            /\ run[outcome[c].tx] = "mined"
            /\ req[outcome[c].tx[1]] = req[c]

(* Every response to one request id that reports an execution reports the  *)
(* same execution with the same result, failures included: a retry never   *)
(* gets a different answer from the one a late first response carries.     *)
OneAnswer ==
    \A k, l \in Conn :
        /\ reply[k].kind \in {"ok", "error"}
        /\ reply[l].kind \in {"ok", "error"}
        /\ IdOf(k) = IdOf(l)
        => reply[k] = reply[l]

(* A client told that its parameters conflict with an earlier use of its   *)
(* id, or that its request is too large, has sent nothing: no attempt of   *)
(* its, and no other request with its id and parameters, ever executes.    *)
RefusedNeverRuns ==
    \A c \in Clients, k \in Conn :
        /\ outcome[c].kind \in {"conflict", "tooLarge"}
        /\ req[k[1]] = req[c]
        => run[k] = "none"

(* SendOnce, seen in the retained responses and in the settled sends: the  *)
(* promise of the comment at session.ts:424 as a specification of its own. *)
Ledger ==
    [i \in Ids |->
        IF store[i] = NoConn THEN [call |-> NoRequest, status |-> "unused"]
        ELSE [call |-> CallOf(store[i]), status |-> promise[store[i]]]]
Told == [c \in Clients |-> outcome[c].kind]

Once == INSTANCE SendOnce WITH ledger <- Ledger, answer <- Told

OnceSpec == Once!Spec

=============================================================================
