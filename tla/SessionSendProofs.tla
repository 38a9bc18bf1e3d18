------------------------- MODULE SessionSendProofs -------------------------
(***************************************************************************)
(* Proofs about SessionSend, for any clients, ids and calls. All of them   *)
(* rest on one inductive invariant, IInv: what an execution, a retained    *)
(* entry, a waiting handler, a written response and a settled send say     *)
(* about one another.                                                      *)
(***************************************************************************)
EXTENDS SessionSend, TLAPS

(* A request is chosen before anything is done with it, and then kept. *)
ReqInv ==
    /\ \A c \in Clients : pc[c] = "idle" <=> req[c] = NoRequest
    /\ \A k \in Conn : conn[k] # "none" => pc[k[1]] # "idle"

(* The execution named k was started by the request of k, which is the     *)
(* retained entry of its id. This is what makes a second execution of an   *)
(* id impossible.                                                          *)
RunInv ==
    \A k \in Conn :
        /\ run[k] = "none" <=> promise[k] = "none"
        /\ run[k] # "none" => conn[k] # "none" /\ store[IdOf(k)] = k
        /\ promise[k] = "ok" => run[k] = "mined"

StoreInv ==
    \A i \in Ids : store[i] # NoConn =>
        /\ conn[store[i]] # "none"
        /\ run[store[i]] # "none"
        /\ IdOf(store[i]) = i
        /\ CallOf(store[i]) \notin Oversized

(* k's id is retained with k's parameters. *)
Shares(k) ==
    /\ store[IdOf(k)] # NoConn
    /\ CallOf(store[IdOf(k)]) = CallOf(k)

WaitInv == \A k \in Conn : conn[k] = "waiting" => Shares(k)

(* What a response r says about the request q it was given to. *)
Says(r, q) ==
    /\ r.kind \in {"ok", "error"} =>
          /\ store[q.id] # NoConn
          /\ CallOf(store[q.id]) = q.call
          /\ r.tx = store[q.id]
          /\ promise[r.tx] = r.kind
    /\ r.kind = "conflict" =>
          /\ store[q.id] # NoConn
          /\ CallOf(store[q.id]) # q.call
    /\ r.kind = "tooLarge" => q.call \in Oversized

ReplyInv ==
    \A k \in Conn :
        /\ reply[k] # NoReply => conn[k] # "none"
        /\ Says(reply[k], req[k[1]])

OutcomeInv ==
    \A c \in Clients :
        /\ outcome[c] # NoReply <=> pc[c] = "done"
        /\ Says(outcome[c], req[c])

IInv ==
    /\ TypeOK /\ ReqInv /\ RunInv /\ StoreInv /\ WaitInv /\ ReplyInv
    /\ OutcomeInv

-----------------------------------------------------------------------------
(* What a connection is. *)
LEMMA ConnFacts ==
    /\ \A k \in Conn : k[1] \in Clients /\ k[2] \in {1, 2}
    /\ \A c \in Clients, n \in {1, 2} : <<c, n>> \in Conn
    /\ \A c : <<c, 1>>[1] = c /\ <<c, 2>>[1] = c
BY DEF Conn, Attempts

(* The connection of a client's current attempt. *)
LEMMA CurFacts ==
    ASSUME TypeOK, NEW c \in Clients
    PROVE  Cur(c) \in Conn /\ Cur(c)[1] = c
BY DEF TypeOK, Cur, Conn, Attempts

(* Every request comes from a client that has one. *)
LEMMA RequestOf ==
    ASSUME TypeOK, ReqInv, NEW k \in Conn, conn[k] # "none"
    PROVE  /\ req[k[1]] \in Requests
           /\ IdOf(k) \in Ids /\ CallOf(k) \in Calls
BY ConnFacts DEF TypeOK, ReqInv, IdOf, CallOf, Requests

LEMMA InitIInv == Init => IInv
<1> SUFFICES ASSUME Init PROVE IInv
  OBVIOUS
<1>1. TypeOK
  BY DEF Init, TypeOK, Conn, Attempts
<1>2. ReqInv /\ RunInv /\ StoreInv /\ WaitInv
  BY NoConnAssumption, ConnFacts
  DEF Init, ReqInv, RunInv, StoreInv, WaitInv
<1>3. ReplyInv /\ OutcomeInv
  BY DEF Init, ReplyInv, OutcomeInv, NoReply, Says
<1>4. QED
  BY <1>1, <1>2, <1>3 DEF IInv

-----------------------------------------------------------------------------
(* What every step keeps: a chosen request, a retained entry, a settled    *)
(* promise. Whatever a response said stays true.                           *)
Keeps ==
    /\ \A c \in Clients : req[c] # NoRequest => req'[c] = req[c]
    /\ \A i \in Ids : store[i] # NoConn => store'[i] = store[i]
    /\ \A k \in Conn :
          promise[k] \in {"ok", "error"} => promise'[k] = promise[k]

LEMMA NextKeeps == IInv /\ [Next]_vars => Keeps
<1> SUFFICES ASSUME IInv, [Next]_vars PROVE Keeps
  OBVIOUS
<1> USE DEF IInv
<1>1. ASSUME NEW c \in Clients, ClientStep(c) PROVE Keeps
  BY <1>1
  DEF Keeps, ClientStep, Start, Connect, Refused, Timeout, Lost, Receive,
      daemonVars, execVars, TypeOK, ReqInv
<1>2. ASSUME NEW k \in Conn, DaemonStep(k) PROVE Keeps
  <2>1. CASE Execute(k)
    <3>1. promise[k] = "none" /\ IdOf(k) \in Ids
      BY <2>1, RequestOf, NoConnAssumption
      DEF Execute, Reads, Existing, RunInv, TypeOK
    <3>2. QED
      BY <2>1, <3>1 DEF Execute, Existing, Keeps, TypeOK, clientVars
  <2>2. CASE ~Execute(k)
    BY <1>2, <2>2
    DEF DaemonStep, TooLarge, Conflict, Join, Answer, IdleDrop, EndOfInput,
        Drop, Keeps, clientVars, daemonVars, execVars
  <2>3. QED
    BY <2>1, <2>2
<1>3. ASSUME NEW k \in Conn, ExecStep(k) PROVE Keeps
  BY <1>3
  DEF ExecStep, Broadcast, Mine, FailUnsent, FailUnknown, Resolve, Keeps,
      TypeOK, clientVars, daemonVars
<1>4. CASE Close \/ RemoveFiles \/ Drained \/ Die
  BY <1>4
  DEF Close, RemoveFiles, Drained, Die, Keeps, clientVars, execVars
<1>5. CASE UNCHANGED vars
  BY <1>5 DEF vars, Keeps, clientVars, daemonVars, execVars
<1>6. QED
  BY <1>1, <1>2, <1>3, <1>4, <1>5 DEF Next

LEMMA KeptCalls ==
    ASSUME IInv, Keeps, NEW k \in Conn, conn[k] # "none"
    PROVE  (IdOf(k))' = IdOf(k) /\ (CallOf(k))' = CallOf(k)
BY ConnFacts, NoRequestAssumption DEF IInv, Keeps, ReqInv, IdOf, CallOf

LEMMA SaysStable ==
    ASSUME IInv, Keeps, NEW r, NEW q \in Requests, Says(r, q)
    PROVE  Says(r, q)'
<1>1. q.id \in Ids
  BY DEF Requests
<1>2. ASSUME store[q.id] # NoConn
      PROVE  /\ store'[q.id] = store[q.id]
             /\ store[q.id] \in Conn
             /\ (CallOf(store[q.id]))' = CallOf(store[q.id])
  BY <1>1, <1>2, KeptCalls DEF IInv, StoreInv, TypeOK, Keeps
<1>3. QED
  BY <1>1, <1>2 DEF Says, Keeps

(* Facts about settled sends and written responses survive every step that *)
(* writes no response and settles no send.                                 *)
LEMMA SharesStable ==
    ASSUME IInv, Keeps, NEW k \in Conn, conn[k] # "none", Shares(k)
    PROVE  Shares(k)'
<1>1. IdOf(k) \in Ids
  BY RequestOf DEF IInv
<1>2. /\ store'[IdOf(k)] = store[IdOf(k)]
      /\ store[IdOf(k)] \in Conn
      /\ conn[store[IdOf(k)]] # "none"
  BY <1>1 DEF IInv, StoreInv, TypeOK, Keeps, Shares
<1>3. QED
  BY <1>2, KeptCalls DEF Shares

LEMMA ReplyStable ==
    ASSUME IInv, Keeps, NEW k \in Conn, reply'[k] = reply[k]
    PROVE  Says(reply[k], req[k[1]])'
<1>1. CASE reply[k] = NoReply
  BY <1>1 DEF Says, NoReply
<1>2. CASE reply[k] # NoReply
  <2>1. req[k[1]] \in Requests /\ req'[k[1]] = req[k[1]]
    BY <1>2, RequestOf, ConnFacts, NoRequestAssumption
    DEF IInv, ReplyInv, Keeps
  <2>2. QED
    BY <2>1, SaysStable DEF IInv, ReplyInv, Says
<1>3. QED
  BY <1>1, <1>2

LEMMA OutcomeStable ==
    ASSUME IInv, Keeps, NEW c \in Clients, outcome'[c] = outcome[c]
    PROVE  Says(outcome[c], req[c])'
<1>1. CASE outcome[c] = NoReply
  BY <1>1 DEF Says, NoReply
<1>2. CASE outcome[c] # NoReply
  <2>1. req[c] \in Requests /\ req'[c] = req[c]
    BY <1>2 DEF IInv, OutcomeInv, ReqInv, TypeOK, Keeps
  <2>2. QED
    BY <2>1, SaysStable DEF IInv, OutcomeInv, Says
<1>3. QED
  BY <1>1, <1>2

-----------------------------------------------------------------------------
(* Client steps leave the daemon and its executions alone.                 *)

LEMMA StartStep ==
    ASSUME IInv, Keeps, NEW c \in Clients, Start(c)
    PROVE  IInv'
<1> USE DEF IInv
<1>1. /\ req[c] = NoRequest
      /\ req' \in [Clients -> Requests \cup {NoRequest}]
      /\ req'[c] # NoRequest
      /\ \A d \in Clients : d # c => req'[d] = req[d]
      /\ \A k \in Conn : conn[k] # "none" => k[1] # c
      /\ UNCHANGED <<att, outcome, conn, reply, daemonVars, execVars>>
  BY NoRequestAssumption DEF Start, TypeOK, ReqInv
<1>2. TypeOK'
  BY <1>1 DEF Start, TypeOK, daemonVars, execVars
<1>3. ReqInv'
  BY <1>1, ConnFacts DEF Start, ReqInv, TypeOK
<1>4. RunInv' /\ StoreInv'
  BY <1>1, KeptCalls DEF RunInv, StoreInv, TypeOK, daemonVars, execVars
<1>5. WaitInv'
  BY <1>1, SharesStable DEF WaitInv
<1>6. ReplyInv'
  BY <1>1, ReplyStable DEF ReplyInv
<1>7. OutcomeInv'
  BY <1>1, OutcomeStable DEF Start, OutcomeInv, TypeOK
<1>8. QED
  BY <1>2, <1>3, <1>4, <1>5, <1>6, <1>7

LEMMA OtherClientSteps ==
    ASSUME IInv, Keeps, NEW c \in Clients,
           Connect(c) \/ Refused(c) \/ Timeout(c) \/ Lost(c) \/ Receive(c)
    PROVE  IInv'
<1> USE DEF IInv
<1>1. UNCHANGED <<req, reply, store, promise, run>>
  BY DEF Connect, Refused, Timeout, Lost, Receive, daemonVars, execVars
<1>2. /\ pc[c] \in {"opening", "awaiting"}
      /\ pc' \in [Clients -> {"idle", "opening", "awaiting", "done"}]
      /\ pc'[c] # "idle"
      /\ \A d \in Clients : d # c => pc'[d] = pc[d]
  BY DEF Connect, Refused, Timeout, Lost, Receive, TimerRuns, Fail, Settle,
         TypeOK
<1>3. /\ conn' \in [Conn -> {"none", "open", "waiting", "replied", "closed"}]
      /\ \A k \in Conn :
            /\ conn'[k] = conn[k] \/ conn'[k] = "open"
            /\ conn'[k] # conn[k] => k[1] = c
  BY CurFacts DEF Connect, Refused, Timeout, Lost, Receive, TypeOK
<1>4. att' \in [Clients -> Attempts]
  BY DEF Connect, Refused, Timeout, Lost, Receive, Fail, TypeOK, Attempts
<1>5. outcome' \in [Clients -> Replies \cup Failures \cup {NoReply}]
  BY CurFacts DEF Connect, Refused, Timeout, Lost, Receive, Fail, Settle,
         TypeOK, Failures
<1>6. TypeOK'
  BY <1>1, <1>2, <1>3, <1>4, <1>5
  DEF TypeOK, Connect, Refused, Timeout, Lost, Receive, daemonVars, execVars
<1>7. ReqInv'
  BY <1>1, <1>2, <1>3, ConnFacts DEF ReqInv
<1>8. RunInv' /\ StoreInv'
  BY <1>1, <1>3 DEF RunInv, StoreInv, TypeOK, IdOf, CallOf
<1>9. WaitInv'
  BY <1>1, <1>3 DEF WaitInv, Shares, IdOf, CallOf
<1>10. ReplyInv'
  BY <1>1, <1>3, ReplyStable DEF ReplyInv
<1>11. OutcomeInv'
  <2>1. CASE Receive(c)
    <3>1. PICK k \in Conn : k = Cur(c)
      BY CurFacts
    <3>2. /\ outcome' = [outcome EXCEPT ![c] = reply[k]]
          /\ reply'[k] = reply[k] /\ reply[k] # NoReply /\ k[1] = c
          /\ pc' = [pc EXCEPT ![c] = "done"]
      BY <2>1, <3>1, <1>1, CurFacts DEF Receive, Settle
    <3>3. Says(reply[k], req[k[1]])'
      BY <3>2, ReplyStable
    <3>4. QED
      BY <3>2, <3>3, OutcomeStable DEF OutcomeInv, TypeOK
  <2>2. CASE \E r \in Failures : Settle(c, r)
    <3>1. PICK r \in Failures : Settle(c, r)
      BY <2>2
    <3>2. Says(r, req[c])' /\ r # NoReply
      BY DEF Failures, Says, NoReply
    <3>3. /\ outcome'[c] = r /\ pc'[c] = "done"
          /\ \A d \in Clients : d # c => outcome'[d] = outcome[d]
      BY <3>1 DEF Settle, TypeOK
    <3>4. Says(outcome[c], req[c])'
      BY <3>2, <3>3
    <3>5. QED
      BY <1>2, <3>2, <3>3, <3>4, OutcomeStable DEF OutcomeInv
  <2>3. CASE outcome' = outcome /\ pc'[c] # "done"
    BY <2>3, <1>2, OutcomeStable DEF OutcomeInv
  <2>4. Receive(c) \/ (\E r \in Failures : Settle(c, r))
        \/ (outcome' = outcome /\ pc'[c] # "done")
    BY DEF Connect, Refused, Timeout, Lost, Fail, Failures, TypeOK
  <2>5. QED
    BY <2>1, <2>2, <2>3, <2>4
<1>12. QED
  BY <1>6, <1>7, <1>8, <1>9, <1>10, <1>11

-----------------------------------------------------------------------------
(* Daemon steps.                                                           *)

(* The three steps that write a response. *)
LEMMA RespondSteps ==
    ASSUME IInv, Keeps, NEW k \in Conn,
           TooLarge(k) \/ Conflict(k) \/ Answer(k)
    PROVE  IInv'
<1> USE DEF IInv
<1>1. UNCHANGED <<clientVars, daemonVars, execVars>>
  BY DEF TooLarge, Conflict, Answer
<1>2. /\ conn[k] \in {"open", "waiting"}
      /\ conn' = [conn EXCEPT ![k] = "replied"]
  BY DEF TooLarge, Conflict, Answer, Reads, Respond
<1>3. IdOf(k) \in Ids /\ req[k[1]] = req'[k[1]]
  BY <1>1, <1>2, RequestOf DEF clientVars
<1>4. PICK r \in Replies :
          /\ reply' = [reply EXCEPT ![k] = r]
          /\ Says(r, req[k[1]])
  <2>1. CASE TooLarge(k)
    <3> DEFINE t == [kind |-> "tooLarge", tx |-> NoConn]
    <3>1. t \in Replies /\ Says(t, req[k[1]])
      BY <2>1 DEF TooLarge, Replies, ReplyKinds, Says, CallOf
    <3>2. QED
      BY <2>1, <3>1 DEF TooLarge, Respond
  <2>2. CASE Conflict(k)
    <3> DEFINE t == [kind |-> "conflict", tx |-> NoConn]
    <3>1. t \in Replies /\ Says(t, req[k[1]])
      BY <2>2
      DEF Conflict, Matches, Existing, Replies, ReplyKinds, Says, IdOf, CallOf
    <3>2. QED
      BY <2>2, <3>1 DEF Conflict, Respond
  <2>3. CASE Answer(k)
    <3>1. Shares(k) /\ store[IdOf(k)] \in Conn
      BY <2>3, <1>3 DEF Answer, WaitInv, Shares, TypeOK
    <3> DEFINE t == [kind |-> promise[store[IdOf(k)]], tx |-> store[IdOf(k)]]
    <3>2. t \in Replies /\ Says(t, req[k[1]])
      BY <2>3, <3>1
      DEF Answer, Shares, Replies, ReplyKinds, Says, IdOf, CallOf
    <3>3. QED
      BY <2>3, <3>2 DEF Answer, Respond
  <2>4. QED
    BY <2>1, <2>2, <2>3
<1>5. TypeOK'
  BY <1>1, <1>2, <1>4 DEF TypeOK, clientVars, daemonVars, execVars
<1>6. ReqInv' /\ RunInv' /\ StoreInv' /\ WaitInv'
  BY <1>1, <1>2
  DEF ReqInv, RunInv, StoreInv, WaitInv, Shares, IdOf, CallOf, TypeOK,
      clientVars, daemonVars, execVars
<1>7. ReplyInv'
  <2>1. Says(r, req[k[1]])'
    BY <1>1, <1>4 DEF Says, CallOf, clientVars, daemonVars, execVars
  <2>2. QED
    BY <2>1, <1>2, <1>4, ReplyStable DEF ReplyInv, TypeOK
<1>8. OutcomeInv'
  BY <1>1, OutcomeStable DEF OutcomeInv, clientVars
<1>9. QED
  BY <1>5, <1>6, <1>7, <1>8

LEMMA ExecuteStep ==
    ASSUME IInv, Keeps, NEW k \in Conn, Execute(k)
    PROVE  IInv'
<1> USE DEF IInv
<1>1. /\ UNCHANGED <<clientVars, reply, server, files>>
      /\ conn[k] = "open"
      /\ conn' = [conn EXCEPT ![k] = "waiting"]
      /\ store[IdOf(k)] = NoConn
      /\ store' = [store EXCEPT ![IdOf(k)] = k]
      /\ promise' = [promise EXCEPT ![k] = "pending"]
      /\ run' = [run EXCEPT ![k] = "called"]
      /\ CallOf(k) \notin Oversized
  BY DEF Execute, Reads, Existing
<1>2. IdOf(k) \in Ids /\ k # NoConn
  BY <1>1, RequestOf, NoConnAssumption
<1>3. \A l \in Conn : (IdOf(l))' = IdOf(l) /\ (CallOf(l))' = CallOf(l)
  BY <1>1 DEF IdOf, CallOf, clientVars
<1>4. TypeOK'
  BY <1>1, <1>2 DEF TypeOK, clientVars
<1>5. ReqInv'
  BY <1>1 DEF ReqInv, TypeOK, clientVars
<1>6. RunInv'
  BY <1>1, <1>2, <1>3, NoConnAssumption DEF RunInv, TypeOK
<1>7. StoreInv'
  BY <1>1, <1>2, <1>3 DEF StoreInv, TypeOK
<1>8. WaitInv'
  BY <1>1, <1>2, <1>3, SharesStable DEF WaitInv, Shares, TypeOK
<1>9. ReplyInv'
  BY <1>1, ReplyStable DEF ReplyInv, TypeOK
<1>10. OutcomeInv'
  BY <1>1, OutcomeStable DEF OutcomeInv, clientVars
<1>11. QED
  BY <1>4, <1>5, <1>6, <1>7, <1>8, <1>9, <1>10

(* Steps that only move connections, the daemon itself or its files.       *)
LEMMA ConnSteps ==
    ASSUME IInv, Keeps,
           \/ \E k \in Conn : Join(k) \/ IdleDrop(k) \/ EndOfInput(k)
           \/ Close \/ RemoveFiles \/ Drained \/ Die
    PROVE  IInv'
<1> USE DEF IInv
<1>1. UNCHANGED <<clientVars, reply, store, execVars>>
  BY DEF Join, IdleDrop, EndOfInput, Drop, Close, RemoveFiles, Drained, Die,
         daemonVars
<1>2. /\ conn' \in [Conn -> {"none", "open", "waiting", "replied", "closed"}]
      /\ \A k \in Conn : conn'[k] = "none" <=> conn[k] = "none"
      /\ \A k \in Conn : conn'[k] = "waiting" => Shares(k)
  BY DEF Join, IdleDrop, EndOfInput, Drop, HasTimer, Live, Close, RemoveFiles,
         Drained, Die, Reads, Matches, Existing, WaitInv, Shares, TypeOK
<1>3. TypeOK'
  BY <1>1, <1>2
  DEF Join, IdleDrop, EndOfInput, Drop, Close, RemoveFiles, Drained, Die,
      TypeOK, clientVars, daemonVars, execVars
<1>4. ReqInv' /\ RunInv' /\ StoreInv'
  BY <1>1, <1>2
  DEF ReqInv, RunInv, StoreInv, TypeOK, IdOf, CallOf, clientVars, execVars
<1>5. WaitInv'
  BY <1>2, SharesStable DEF WaitInv
<1>6. ReplyInv'
  BY <1>1, <1>2, ReplyStable DEF ReplyInv
<1>7. OutcomeInv'
  BY <1>1, OutcomeStable DEF OutcomeInv, clientVars
<1>8. QED
  BY <1>3, <1>4, <1>5, <1>6, <1>7

-----------------------------------------------------------------------------
(* Executor and chain steps.                                               *)
LEMMA ExecSteps ==
    ASSUME IInv, Keeps, NEW k \in Conn, ExecStep(k)
    PROVE  IInv'
<1> USE DEF IInv
<1>1. UNCHANGED <<clientVars, conn, reply, daemonVars>>
  BY DEF ExecStep, Broadcast, Mine, FailUnsent, FailUnknown, Resolve
<1>2. /\ run[k] # "none" /\ promise[k] # "none"
      /\ run' \in [Conn -> {"none", "called", "failed", "broadcast", "mined",
                            "reverted"}]
      /\ promise' \in [Conn -> {"none", "pending", "ok", "error"}]
      /\ \A l \in Conn :
            l # k => run'[l] = run[l] /\ promise'[l] = promise[l]
      /\ run'[k] # "none" /\ promise'[k] # "none"
      /\ promise'[k] = "ok" => run'[k] = "mined"
  BY DEF ExecStep, Broadcast, Mine, FailUnsent, FailUnknown, Resolve, Included,
         RunInv, TypeOK
<1>3. TypeOK' /\ ReqInv'
  BY <1>1, <1>2 DEF TypeOK, ReqInv, clientVars, daemonVars
<1>4. RunInv'
  BY <1>1, <1>2 DEF RunInv, IdOf, clientVars, daemonVars
<1>5. StoreInv'
  BY <1>1, <1>2 DEF StoreInv, TypeOK, IdOf, CallOf, clientVars, daemonVars
<1>6. WaitInv'
  BY <1>1, SharesStable DEF WaitInv
<1>7. ReplyInv'
  BY <1>1, ReplyStable DEF ReplyInv
<1>8. OutcomeInv'
  BY <1>1, OutcomeStable DEF OutcomeInv, clientVars
<1>9. QED
  BY <1>3, <1>4, <1>5, <1>6, <1>7, <1>8

-----------------------------------------------------------------------------
(* The theorems.                                                           *)

LEMMA NextIInv == IInv /\ [Next]_vars => IInv'
<1> SUFFICES ASSUME IInv, [Next]_vars PROVE IInv'
  OBVIOUS
<1>1. Keeps
  BY NextKeeps
<1>2. ASSUME NEW c \in Clients, ClientStep(c) PROVE IInv'
  BY <1>1, <1>2, StartStep, OtherClientSteps DEF ClientStep
<1>3. ASSUME NEW k \in Conn, DaemonStep(k) PROVE IInv'
  BY <1>1, <1>3, RespondSteps, ExecuteStep, ConnSteps DEF DaemonStep
<1>4. ASSUME NEW k \in Conn, ExecStep(k) PROVE IInv'
  BY <1>1, <1>4, ExecSteps
<1>5. CASE Close \/ RemoveFiles \/ Drained \/ Die
  BY <1>1, <1>5, ConnSteps
<1>6. CASE UNCHANGED vars
  BY <1>6
  DEF vars, clientVars, daemonVars, execVars, IInv, TypeOK, ReqInv, RunInv,
      StoreInv, WaitInv, ReplyInv, OutcomeInv, Shares, Says, IdOf, CallOf
<1>7. QED
  BY <1>2, <1>3, <1>4, <1>5, <1>6 DEF Next

LEMMA Invariance == Spec => []IInv
BY InitIInv, NextIInv, PTL DEF Spec

(* Every reachable state has the stated type. *)
THEOREM TypeCorrect == Spec => []TypeOK
<1>1. IInv => TypeOK
  BY DEF IInv
<1>2. QED
  BY <1>1, Invariance, PTL

(* The comment at session.ts:424, for any number of clients: no id starts  *)
(* a second execution in the life of a daemon.                             *)
THEOREM SendAtMostOnce == Spec => []AtMostOnce
<1>1. IInv => AtMostOnce
  BY DEF IInv, RunInv, AtMostOnce
<1>2. QED
  BY <1>1, Invariance, PTL

(* A hash returned by SessionExecutionClient.send is that of a mined       *)
(* transaction with this request's id and parameters.                      *)
THEOREM SendOkMeansMined == Spec => []OkMeansMined
<1>1. ASSUME IInv, NEW c \in Clients, outcome[c].kind = "ok"
      PROVE  /\ outcome[c].tx \in Conn
             /\ run[outcome[c].tx] = "mined"
             /\ req[outcome[c].tx[1]] = req[c]
  <2>1. req[c] \in Requests
    BY <1>1 DEF IInv, TypeOK, OutcomeInv, ReqInv, NoReply
  <2>2. /\ outcome[c].tx = store[req[c].id]
        /\ store[req[c].id] \in Conn
        /\ promise[outcome[c].tx] = "ok"
        /\ CallOf(outcome[c].tx) = req[c].call
    BY <1>1, <2>1 DEF IInv, OutcomeInv, Says, TypeOK, Requests
  <2>3. /\ IdOf(outcome[c].tx) = req[c].id
        /\ conn[outcome[c].tx] # "none"
        /\ run[outcome[c].tx] = "mined"
    BY <1>1, <2>1, <2>2, NoConnAssumption
    DEF IInv, StoreInv, RunInv, Requests
  <2>4. req[outcome[c].tx[1]] \in Requests
    BY <1>1, <2>2, <2>3, RequestOf DEF IInv
  <2>5. QED
    BY <2>1, <2>2, <2>3, <2>4 DEF IdOf, CallOf, Requests
<1>2. IInv => OkMeansMined
  BY <1>1 DEF OkMeansMined
<1>3. QED
  BY <1>2, Invariance, PTL

(* Retries and reuses of an id are all answered with the one retained      *)
(* response.                                                               *)
THEOREM SendOneAnswer == Spec => []OneAnswer
<1>1. ASSUME IInv, NEW k \in Conn, NEW l \in Conn,
             reply[k].kind \in {"ok", "error"},
             reply[l].kind \in {"ok", "error"},
             IdOf(k) = IdOf(l)
      PROVE  reply[k] = reply[l]
  <2>1. reply[k] \in Replies /\ reply[l] \in Replies
    BY <1>1 DEF IInv, TypeOK, NoReply
  <2>2. reply[k].tx = reply[l].tx /\ reply[k].kind = reply[l].kind
    BY <1>1 DEF IInv, ReplyInv, Says, IdOf
  <2>3. QED
    BY <2>1, <2>2 DEF Replies
<1>2. IInv => OneAnswer
  BY <1>1 DEF OneAnswer
<1>3. QED
  BY <1>2, Invariance, PTL

(* The conflict check of session.ts:531 and the size check of              *)
(* session.ts:452 refuse before anything runs, and for good.               *)
THEOREM SendRefusedNeverRuns == Spec => []RefusedNeverRuns
<1>1. ASSUME IInv, NEW c \in Clients, NEW k \in Conn,
             outcome[c].kind \in {"conflict", "tooLarge"},
             req[k[1]] = req[c], run[k] # "none"
      PROVE  FALSE
  <2>1. store[IdOf(k)] = k /\ conn[k] # "none"
    BY <1>1 DEF IInv, RunInv
  <2>2. IdOf(k) \in Ids /\ CallOf(k) \notin Oversized
    BY <1>1, <2>1, RequestOf, NoConnAssumption DEF IInv, StoreInv
  <2>3. QED
    BY <1>1, <2>1, <2>2 DEF IInv, OutcomeInv, Says, IdOf, CallOf
<1>2. IInv => RefusedNeverRuns
  BY <1>1 DEF RefusedNeverRuns
<1>3. QED
  BY <1>2, Invariance, PTL

-----------------------------------------------------------------------------
(* Refinement: each step is a step of SendOnce, or leaves the ledger, the  *)
(* requests and the answers as they are.                                   *)

LEMMA InitOnce == Init => Once!Init
BY NoConnAssumption
DEF Init, Once!Init, Ledger, Told, Once!Unused, NoReply

(* An entry of the ledger, in terms of what is retained. *)
LEMMA LedgerEntry ==
    ASSUME IInv, NEW i \in Ids
    PROVE  /\ store[i] = NoConn => Ledger[i] = Once!Unused
           /\ store[i] # NoConn =>
                /\ Ledger[i] = [call |-> CallOf(store[i]),
                                status |-> promise[store[i]]]
                /\ Ledger[i].call = CallOf(store[i])
                /\ Ledger[i].status = promise[store[i]]
                /\ promise[store[i]] \in {"pending", "ok", "error"}
                /\ Ledger[i] # Once!Unused
BY DEF Ledger, Once!Unused, IInv, TypeOK, StoreInv, RunInv

(* The ledger changes only with the retained entries and their promises.   *)
LEMMA LedgerSame ==
    ASSUME IInv, Keeps, UNCHANGED <<store, promise>>
    PROVE  Ledger' = Ledger
<1>1. ASSUME NEW i \in Ids, store[i] # NoConn
      PROVE  (CallOf(store[i]))' = CallOf(store[i])
  BY <1>1, KeptCalls DEF IInv, StoreInv, TypeOK
<1>2. QED
  BY <1>1 DEF Ledger

LEMMA StartOnce ==
    ASSUME IInv, Keeps, NEW c \in Clients, Start(c)
    PROVE  Once!Next
<1>1. Ledger' = Ledger /\ Told' = Told
  BY LedgerSame DEF Start, Told, daemonVars, execVars
<1>2. Once!Submit(c)
  BY <1>1 DEF Start, Once!Submit, Once!Requests, Requests, IInv, ReqInv
<1>3. QED
  BY <1>2 DEF Once!Next

(* Every way a send settles tells its client something it may be told.     *)
LEMMA SettleOnce ==
    ASSUME IInv, Keeps, NEW c \in Clients, NEW r \in Replies \cup Failures,
           pc[c] \in {"opening", "awaiting"},
           Says(r, req[c]), Settle(c, r), UNCHANGED <<req, store, promise>>
    PROVE  Once!Next
<1>1. Ledger' = Ledger
  BY LedgerSame
<1>2. req[c] \in Requests /\ outcome[c] = NoReply
  BY DEF IInv, TypeOK, ReqInv, OutcomeInv
<1>3. /\ Told' = [Told EXCEPT ![c] = r.kind]
      /\ Told[c] = "none"
  <2>1. \A d \in Clients :
            outcome'[d] = IF d = c THEN r ELSE outcome[d]
    BY DEF Settle, IInv, TypeOK
  <2>2. Told' = [d \in Clients |-> IF d = c THEN r.kind ELSE Told[d]]
    BY <2>1 DEF Told
  <2>3. Told[c] = "none"
    BY <1>2 DEF Told, NoReply
  <2>4. QED
    BY <2>2, <2>3 DEF Told
<1>4. r.kind \in {"ok", "error", "conflict", "tooLarge", "noSession",
                 "transport"}
  BY DEF Replies, Failures, ReplyKinds
<1>5. Once!May(c, r.kind)
  <2>1. req[c].id \in Ids
    BY <1>2 DEF Requests
  <2>2. CASE r.kind \in {"ok", "error"}
    <3>1. /\ Ledger[req[c].id] = [call |-> req[c].call, status |-> r.kind]
          /\ Ledger[req[c].id].call = req[c].call
          /\ Ledger[req[c].id].status = r.kind
      BY <2>1, <2>2, LedgerEntry DEF Says
    <3>2. QED
      BY <2>2, <3>1 DEF Once!May
  <2>3. CASE r.kind = "conflict"
    <3>1. /\ Ledger[req[c].id] # Once!Unused
          /\ Ledger[req[c].id].call # req[c].call
      BY <2>1, <2>3, LedgerEntry DEF Says
    <3>2. QED
      BY <2>3, <3>1 DEF Once!May
  <2>4. CASE r.kind \in {"tooLarge", "noSession", "transport"}
    BY <2>4 DEF Says, Once!May
  <2>5. QED
    BY <1>4, <2>2, <2>3, <2>4
<1>6. Once!Tell(c)
  BY <1>1, <1>2, <1>3, <1>4, <1>5, NoRequestAssumption DEF Once!Tell
<1>7. QED
  BY <1>6 DEF Once!Next

LEMMA ClientOnce ==
    ASSUME IInv, Keeps, NEW c \in Clients, ClientStep(c)
    PROVE  [Once!Next]_(Once!vars)
<1>1. CASE Start(c)
  BY <1>1, StartOnce
<1>2. CASE Receive(c)
  <2>1. PICK k \in Conn : k = Cur(c) /\ k[1] = c
    BY CurFacts DEF IInv
  <2>2. reply[k] \in Replies /\ Says(reply[k], req[c])
    BY <1>2, <2>1 DEF Receive, IInv, TypeOK, ReplyInv
  <2>3. QED
    BY <1>2, <2>1, <2>2, SettleOnce
    DEF Receive, daemonVars, execVars
<1>3. CASE Connect(c) \/ Refused(c) \/ Timeout(c) \/ Lost(c)
  <2>1. UNCHANGED <<req, store, promise>> /\ pc[c] \in {"opening", "awaiting"}
    BY <1>3
    DEF Connect, Refused, Timeout, Lost, TimerRuns, daemonVars, execVars
  <2>2. CASE \E r \in Failures : Settle(c, r)
    <3>1. PICK r \in Failures : Settle(c, r)
      BY <2>2
    <3>2. Says(r, req[c])
      BY DEF Failures, Says
    <3>3. QED
      BY <2>1, <3>1, <3>2, SettleOnce
  <2>3. CASE outcome' = outcome
    BY <2>1, <2>3, LedgerSame DEF Told, Once!vars
  <2>4. (\E r \in Failures : Settle(c, r)) \/ outcome' = outcome
    BY <1>3 DEF Connect, Refused, Timeout, Lost, Fail, Failures
  <2>5. QED
    BY <2>2, <2>3, <2>4
<1>4. QED
  BY <1>1, <1>2, <1>3 DEF ClientStep

LEMMA ExecuteOnce ==
    ASSUME IInv, Keeps, NEW k \in Conn, Execute(k)
    PROVE  Once!Next
<1>1. /\ conn[k] # "none" /\ store[IdOf(k)] = NoConn
      /\ UNCHANGED <<req, outcome>>
  BY DEF Execute, Reads, Existing, clientVars
<1>2. /\ k[1] \in Clients /\ req[k[1]] \in Requests
      /\ IdOf(k) \in Ids /\ k # NoConn
  BY <1>1, RequestOf, ConnFacts, NoConnAssumption DEF IInv
<1>3. \A l \in Conn : (CallOf(l))' = CallOf(l)
  BY <1>1 DEF CallOf
<1>4. \A i \in Ids : store[i] # k
  BY <1>1, <1>2 DEF IInv, StoreInv
<1>5. Ledger' = [Ledger EXCEPT ![IdOf(k)] =
                    [call |-> CallOf(k), status |-> "pending"]]
  BY <1>1, <1>2, <1>3, <1>4 DEF Execute, Ledger, IInv, TypeOK
<1>6. Once!Record(k[1])
  BY <1>1, <1>2, <1>5, LedgerEntry, NoRequestAssumption
  DEF Once!Record, Execute, Told, IdOf, CallOf
<1>7. QED
  BY <1>2, <1>6 DEF Once!Next

LEMMA ExecOnce ==
    ASSUME IInv, Keeps, NEW k \in Conn, ExecStep(k)
    PROVE  [Once!Next]_(Once!vars)
<1>1. UNCHANGED <<req, outcome, store>>
  BY DEF ExecStep, Broadcast, Mine, FailUnsent, FailUnknown, Resolve,
         clientVars, daemonVars
<1>2. CASE promise' = promise
  BY <1>1, <1>2, LedgerSame DEF Told, Once!vars
<1>3. CASE promise' # promise
  <2>1. /\ promise[k] = "pending" /\ run[k] # "none"
        /\ \E s \in {"ok", "error"} : promise' = [promise EXCEPT ![k] = s]
    BY <1>3
    DEF ExecStep, Broadcast, Mine, FailUnsent, FailUnknown, Resolve, IInv,
        RunInv
  <2>2. PICK s \in {"ok", "error"} : promise' = [promise EXCEPT ![k] = s]
    BY <2>1
  <2>3. IdOf(k) \in Ids /\ store[IdOf(k)] = k /\ k # NoConn
    BY <2>1, RequestOf, NoConnAssumption DEF IInv, RunInv
  <2>4. \A i \in Ids : i # IdOf(k) => store[i] # k
    BY <2>3 DEF IInv, StoreInv
  <2>5. Ledger' = [Ledger EXCEPT ![IdOf(k)] =
                      [call |-> Ledger[IdOf(k)].call, status |-> s]]
    BY <1>1, <2>2, <2>3, <2>4 DEF Ledger, CallOf, IInv, TypeOK
  <2>6. Ledger[IdOf(k)].status = "pending"
    BY <2>1, <2>3, LedgerEntry
  <2>7. Once!Fulfil(IdOf(k))
    BY <1>1, <2>5, <2>6 DEF Once!Fulfil, Told
  <2>8. QED
    BY <2>3, <2>7 DEF Once!Next
<1>4. QED
  BY <1>2, <1>3

LEMMA NextOnce == IInv /\ [Next]_vars => [Once!Next]_(Once!vars)
<1> SUFFICES ASSUME IInv, [Next]_vars PROVE [Once!Next]_(Once!vars)
  OBVIOUS
<1>1. Keeps
  BY NextKeeps
<1>2. ASSUME NEW c \in Clients, ClientStep(c)
      PROVE  [Once!Next]_(Once!vars)
  BY <1>1, <1>2, ClientOnce
<1>3. CASE UNCHANGED <<req, outcome, store, promise>>
  BY <1>1, <1>3, LedgerSame DEF Told, Once!vars
<1>4. ASSUME NEW k \in Conn, DaemonStep(k)
      PROVE  [Once!Next]_(Once!vars)
  BY <1>1, <1>3, <1>4, ExecuteOnce
  DEF DaemonStep, TooLarge, Conflict, Join, Answer, IdleDrop, EndOfInput,
      Drop, clientVars, daemonVars, execVars
<1>5. ASSUME NEW k \in Conn, ExecStep(k)
      PROVE  [Once!Next]_(Once!vars)
  BY <1>1, <1>5, ExecOnce
<1>6. CASE Close \/ RemoveFiles \/ Drained \/ Die \/ UNCHANGED vars
  BY <1>3, <1>6
  DEF Close, RemoveFiles, Drained, Die, vars, clientVars, daemonVars, execVars
<1>7. QED
  BY <1>2, <1>4, <1>5, <1>6 DEF Next

(* The daemon and its clients implement SendOnce: whatever the transport   *)
(* and the retries do, the system behaves as a ledger in which an id is    *)
(* used once and settles once, and clients are told what it holds.         *)
THEOREM SendImplementsOnce == Spec => OnceSpec
BY InitOnce, NextOnce, Invariance, PTL DEF Spec, OnceSpec, Once!Spec

=============================================================================
