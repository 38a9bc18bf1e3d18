----------------------- MODULE SessionLifecycleProofs -----------------------
(***************************************************************************)
(* Proofs about SessionLifecycle, for any processes and environments. They *)
(* rest on one inductive invariant, IInv. Its part AnyInv holds whatever   *)
(* happens; its part OrderInv, of an orderly environment, says who may run *)
(* beside whom and that a process knows of the daemon that accepts. With   *)
(* it every step of SessionLifecycle is shown to be one of OneSession, or  *)
(* none of its concern.                                                    *)
(***************************************************************************)
EXTENDS SessionLifecycle, TLAPS

(* How far p is in its command, and what it has been told. *)
ProcInv(p) ==
    /\ pc[p] = "idle" <=> cmd[p] = "none"
    /\ pc[p] = "done" <=> result[p] # "none"
    /\ pc[p] = "wait" => peer[p] # Nobody
    /\ pc[p] = "cleanup" => asks[p] # "send"
    /\ pc[p] \in {"gone", "check", "spawn", "ready"} => cmd[p] = "unlock"

(* The requests each command makes. *)
AsksInv(p) ==
    /\ cmd[p] = "status" => asks[p] = "status"
    /\ cmd[p] = "send" => asks[p] # "lock"
    /\ cmd[p] = "unlock" => asks[p] # "send"
    /\ cmd[p] \in {"lock", "changePassword"} => asks[p] = "lock"

(* A daemon lives only for an unlock: it starts while its parent waits for *)
(* that, and serves once the parent was told of its success.               *)
BirthInv(p) ==
    /\ pc[p] \notin {"ready", "done"} => dst[p] = "unborn"
    /\ pc[p] = "ready" <=> dst[p] \in {"spawned", "tokened"}
    /\ Serving(p) => cmd[p] = "unlock" /\ result[p] = "ok"
    /\ result[p] = "failed" => dst[p] \in {"unborn", "exited"}

LocalInv(p) == ProcInv(p) /\ AsksInv(p) /\ BirthInv(p)
AllLocal == \A p \in Procs : LocalInv(p)

(* Daemons that were listening do not begin anew. *)
OldInv(p) == \A d \in old[p] : Serving(d) \/ dst[d] = "exited"
AllOld == \A p \in Procs : OldInv(p)

(* Connections end with their daemon, and only sends take time. *)
InboxInv == \A r \in inbox : Serving(r.to) /\ (r.running => r.kind = "send")

MeetInv == AllOld /\ InboxInv /\ NoStaleFiles

(* In an orderly environment one process runs at a time, and it awaits the *)
(* answer to the only request under way, which has the right token.        *)
Alone == \A p, q \in Procs : Running(p) /\ Running(q) => p = q

AwaitInv ==
    /\ \A r \in inbox : Awaits(r.from, r) /\ TokensMatch(r)
    /\ \A r, s \in inbox : r = s

(* A daemon that accepts owns both files. It is the only one alive from    *)
(* the moment it writes its token.                                         *)
OneDaemon ==
    \A d \in Daemons :
        /\ Accepting(d) => sock = d /\ tok = d
        /\ dst[d] = "tokened" => sock = Nobody /\ tok = d
        /\ Accepting(d) \/ dst[d] = "tokened" =>
              \A e \in Daemons \ {d} : dst[e] \in {"unborn", "exited"}

(* No process overlooks that daemon: it has the daemon's token when it     *)
(* connects, it waits for that daemon, and it neither removes files nor    *)
(* spawns another while it is there.                                       *)
KnowsInv ==
    \A p \in Procs, d \in Daemons : Accepting(d) =>
        /\ pc[p] = "connect" => held[p] = d
        /\ pc[p] = "wait" => peer[p] = d
        /\ pc[p] \notin {"cleanup", "check", "spawn", "ready"}
        /\ pc[p] = "gone" => dst[d] # "listening"

OrderInv == Alone /\ AwaitInv /\ OneDaemon /\ KnowsInv /\ RotationLocks

-----------------------------------------------------------------------------
DaemonStates == {"unborn", "spawned", "tokened", "listening", "stopping",
                 "closing", "exited"}
Places == {"idle", "load", "connect", "wait", "cleanup", "check", "gone",
           "spawn", "ready", "done"}

(* The variables that a process's answers and failures move. A process     *)
(* that connects has read a token.                                         *)
ControlType ==
    /\ pc \in [Procs -> Places]
    /\ asks \in [Procs -> {"status", "lock", "send"}]
    /\ att \in [Procs -> 1..2]
    /\ result \in [Procs -> {"none", "ok", "failed"}]
    /\ \A p \in Procs : pc[p] = "connect" => held[p] # Nobody

(* The other variables. *)
DataType ==
    /\ env \in Environments
    /\ sock \in Daemons \cup {Nobody} /\ tok \in Daemons \cup {Nobody}
    /\ dst \in [Daemons -> DaemonStates]
    /\ inbox \subseteq Requests
    /\ cmd \in [Procs -> AllCommands \cup {"none"}]
    /\ held \in [Procs -> Daemons \cup {Nobody}]
    /\ peer \in [Procs -> Daemons \cup {Nobody}]
    /\ ran \in [Procs -> SUBSET Daemons]
    /\ old \in [Procs -> SUBSET Daemons]

TypeInv == ControlType /\ DataType

(* The reactions to an answer, and to none, keep the types. *)
LEMMA FailedType ==
    ASSUME ControlType, NEW p \in Procs, NEW b, Failed(p, b), UNCHANGED held
    PROVE  ControlType'
  BY DEF ControlType, Failed, GoTo, Finish, Places

LEMMA GoToType ==
    ASSUME ControlType, NEW p \in Procs, NEW w \in Places \ {"connect"},
           GoTo(p, w), UNCHANGED <<held, att>>
    PROVE  ControlType'
  BY DEF ControlType, GoTo, Places

LEMMA FinishType ==
    ASSUME ControlType, NEW p \in Procs, NEW how \in {"ok", "failed"},
           Finish(p, how), UNCHANGED <<held, att>>
    PROVE  ControlType'
  BY DEF ControlType, Finish, Places

LEMMA AnsweredType ==
    ASSUME ControlType, NEW p \in Procs, NEW ok, Answered(p, ok),
           UNCHANGED <<held, att>>
    PROVE  ControlType'
  BY DEF ControlType, Answered, Replace, Ask, GoTo, Finish, Places

LEMMA TellType ==
    ASSUME ControlType, NEW d \in Daemons, NEW how \in {"ok", "failed"},
           Tell(d, how), UNCHANGED <<held, att>>
    PROVE  ControlType'
  BY DEF ControlType, Tell, Finish, Places, Daemons

(* A request that is being executed is the same request. *)
LEMMA RunningRequest ==
    ASSUME NEW r \in Requests
    PROVE  LET s == [r EXCEPT !.running = TRUE] IN
           /\ s \in Requests
           /\ s.from = r.from /\ s.kind = r.kind
           /\ s.to = r.to /\ s.token = r.token
  BY DEF Requests

(* A daemon that answers takes one request from its connections. *)
LEMMA RespondType ==
    ASSUME ControlType, inbox \subseteq Requests, NEW r \in inbox,
           NEW ok, Respond(r, ok), UNCHANGED held
    PROVE  ControlType' /\ inbox' \subseteq inbox
  <1>. r.from \in Procs
    BY DEF Requests
  <1>1. inbox' \subseteq inbox /\ UNCHANGED att
    BY DEF Respond
  <1>2. CASE Awaits(r.from, r)
    BY <1>1, <1>2, AnsweredType DEF Respond
  <1>3. CASE ~Awaits(r.from, r)
    BY <1>1, <1>3 DEF Respond, ControlType
  <1>. QED  BY <1>2, <1>3

(* Every step keeps the types. *)
LEMMA TypeStep ==
    ASSUME TypeInv, [Next]_vars
    PROVE  TypeInv'
  <1>0. ControlType /\ DataType
    BY DEF TypeInv
  <1>. SUFFICES ControlType' /\ DataType'
    BY DEF TypeInv
  <1>. USE DEF DaemonStates
  <1>1. ASSUME NEW p \in Procs, Begin(p) PROVE ControlType' /\ DataType'
    <2>1. env.commands \subseteq AllCommands
      BY <1>0, EnvironmentsAssumption DEF EnvironmentType, DataType
    <2>. QED
      BY <1>0, <1>1, <2>1 DEF Begin, ControlType, DataType, Places
  <1>2. ASSUME NEW p \in Procs, Load(p) PROVE ControlType' /\ DataType'
    <2>1. CASE tok = Nobody
      BY <1>0, <1>2, <2>1, FailedType DEF Load, DataType
    <2>2. CASE tok # Nobody
      BY <1>0, <1>2, <2>2 DEF Load, GoTo, ControlType, DataType, Places
    <2>. QED  BY <2>1, <2>2
  <1>3. ASSUME NEW p \in Procs, Connect(p) PROVE ControlType' /\ DataType'
    <2>1. CASE sock # Nobody /\ Accepting(sock)
      <3>1. ControlType'
        BY <1>0, <1>3, <2>1, GoToType DEF Connect, Places
      <3>2. Request(p) \in Requests
        BY <1>0, <1>3, <2>1
          DEF Connect, Request, Requests, ControlType, DataType
      <3>. QED  BY <1>0, <1>3, <2>1, <3>1, <3>2 DEF Connect, DataType
    <2>2. CASE ~(sock # Nobody /\ Accepting(sock))
      BY <1>0, <1>3, <2>2, FailedType DEF Connect, DataType
    <2>. QED  BY <2>1, <2>2
  <1>4. ASSUME NEW p \in Procs, Timeout(p) \/ Lost(p)
        PROVE  ControlType' /\ DataType'
    BY <1>0, <1>4, FailedType DEF Timeout, Lost, DataType
  <1>5. ASSUME NEW p \in Procs, CleanUp(p) PROVE ControlType' /\ DataType'
    <2>1. ControlType'
      BY <1>0, <1>5, GoToType, FinishType DEF CleanUp, Places
    <2>. QED  BY <1>0, <1>5, <2>1 DEF CleanUp, RemoveFiles, DataType
  <1>6. ASSUME NEW p \in Procs, Check(p) \/ WaitGone(p)
        PROVE  ControlType' /\ DataType'
    <2>1. ControlType'
      BY <1>0, <1>6, GoToType, FinishType DEF Check, WaitGone, Places
    <2>. QED  BY <1>0, <1>6, <2>1 DEF Check, WaitGone, KeepFiles, DataType
  <1>7. ASSUME NEW p \in Procs, Spawn(p) PROVE ControlType' /\ DataType'
    <2>1. ControlType'
      BY <1>0, <1>7, GoToType DEF Spawn, Places
    <2>. QED  BY <1>0, <1>7, <2>1 DEF Spawn, DataType, Daemons
  <1>8. ASSUME NEW d \in Daemons,
               StartUp(d) \/ Expire(d) \/ CloseLocked(d) \/ Drained(d)
                 \/ Abort(d)
        PROVE  ControlType' /\ DataType'
    BY <1>0, <1>8 DEF StartUp, Expire, CloseLocked, Close, Drained, Abort,
         ExitFiles, RemoveFiles, Become, ControlType, DataType, procVars
  <1>9. ASSUME NEW d \in Daemons, Bind(d) \/ Crash(d)
        PROVE  ControlType' /\ DataType'
    <2>1. ControlType'
      BY <1>0, <1>9, TellType DEF Bind, Crash
    <2>. QED  BY <1>0, <1>9, <2>1 DEF Bind, Crash, ExitAfterError, Become,
                RemoveFiles, KeepFiles, DataType
  <1>10. ASSUME NEW r \in inbox, Serve(r) PROVE ControlType' /\ DataType'
    <2>. r \in Requests /\ r.from \in Procs
      BY <1>0 DEF DataType, Requests
    <2>1. CASE TokensMatch(r) /\ r.kind = "send"
      <3>1. inbox' \subseteq Requests /\ ran' \in [Procs -> SUBSET Daemons]
        BY <1>0, <1>10, <2>1, RunningRequest DEF Serve, DataType, Requests
      <3>. QED
        BY <1>0, <1>10, <2>1, <3>1 DEF Serve, ControlType, DataType
    <2>2. CASE ~(TokensMatch(r) /\ r.kind = "send")
      <3>1. \E ok \in BOOLEAN : Respond(r, ok)
        BY <1>10, <2>2 DEF Serve
      <3>2. ControlType' /\ inbox' \subseteq inbox
        BY <1>0, <1>10, <3>1, RespondType DEF Serve, DataType
      <3>3. dst' \in [Daemons -> DaemonStates] /\ ran' = ran
        BY <1>0, <1>10, <2>2 DEF Serve, LockClose, Become, DataType
      <3>. QED  BY <1>0, <1>10, <3>2, <3>3 DEF Serve, DataType
    <2>. QED  BY <2>1, <2>2
  <1>11. ASSUME NEW r \in inbox, Executed(r) \/ Disconnect(r)
         PROVE  ControlType' /\ DataType'
    <2>. r \in Requests /\ r.from \in Procs
      BY <1>0 DEF DataType, Requests
    <2>1. ControlType' /\ inbox' \subseteq inbox
      <3>1. CASE Executed(r)
        BY <1>0, <3>1, RespondType DEF Executed, DataType
      <3>2. CASE Disconnect(r) /\ Abandoned(r)
        BY <1>0, <3>2 DEF Disconnect, ControlType
      <3>3. CASE Disconnect(r) /\ ~Abandoned(r)
        BY <1>0, <3>3, FailedType DEF Disconnect
      <3>. QED  BY <1>11, <3>1, <3>2, <3>3
    <2>. QED  BY <1>0, <1>11, <2>1 DEF Executed, Disconnect, DataType
  <1>12. CASE UNCHANGED vars
    BY <1>0, <1>12 DEF vars, procVars, ControlType, DataType
  <1>. QED
    BY <1>1, <1>2, <1>3, <1>4, <1>5, <1>6, <1>7, <1>8, <1>9, <1>10, <1>11,
       <1>12 DEF Next, ProcStep, DaemonStep, ConnStep, Of

(* Every variable has its type: in particular each request leads from a    *)
(* process to a daemon and carries a token that one of the daemons wrote.  *)
THEOREM TypeCorrect == Spec => []TypeOK
  <1>1. Init => TypeInv
    BY DEF Init, TypeInv, ControlType, DataType, Places, DaemonStates, Daemons
  <1>2. TypeInv => TypeOK
    BY DEF TypeInv, ControlType, DataType, TypeOK, Places, DaemonStates
  <1>. QED  BY <1>1, <1>2, TypeStep, PTL DEF Spec

-----------------------------------------------------------------------------
(* Each process and its daemon. *)

(* A daemon that stops or closes makes no difference to LocalInv. *)
SameLife(q) == dst'[q] = dst[q] \/ (Serving(q) /\ Serving(q)')
SameLives == \A q \in Procs : SameLife(q)

(* What LocalInv says of anybody but p is untouched. *)
Others(p) ==
    \A q \in Procs \ {p} :
        /\ pc'[q] = pc[q] /\ cmd'[q] = cmd[q] /\ asks'[q] = asks[q]
        /\ result'[q] = result[q] /\ peer'[q] = peer[q] /\ SameLife(q)

(* A step of one process, or of its daemon, disturbs no other. *)
LEMMA LocalFrame ==
    ASSUME AllLocal, NEW p \in Procs, Others(p),
           LocalInv(p)'
    PROVE  AllLocal'
  <1>. SUFFICES ASSUME NEW q \in Procs \ {p} PROVE LocalInv(q)'
    BY DEF AllLocal
  <1>1. LocalInv(q)
    BY DEF AllLocal
  <1>. QED
    BY <1>1 DEF AllLocal, LocalInv, ProcInv, AsksInv, BirthInv, Serving,
       Others, SameLife

AtRequest(p) == pc[p] \in {"load", "connect", "wait"}

(* Processes that get no answer, or one, keep what is said of them. *)
LEMMA FailedLocal ==
    ASSUME TypeInv, AllLocal, NEW p \in Procs, NEW b,
           AtRequest(p), Failed(p, b),
           SameLives, cmd' = cmd, peer' = peer
    PROVE  AllLocal'
  <1>0. ControlType /\ LocalInv(p)
    BY DEF TypeInv, AllLocal
  <1>1. Others(p)
    BY <1>0 DEF Others, SameLives, Failed, GoTo, Finish, ControlType
  <1>2. LocalInv(p)'
    BY <1>0 DEF AtRequest, SameLives, SameLife, AllLocal, LocalInv, ProcInv,
       AsksInv, BirthInv, Serving, Failed, GoTo, Finish, ControlType
  <1>. QED  BY <1>1, <1>2, LocalFrame

LEMMA AnsweredLocal ==
    ASSUME TypeInv, AllLocal, NEW p \in Procs, NEW ok,
           pc[p] = "wait", Answered(p, ok), SameLives,
           cmd' = cmd, peer' = peer
    PROVE  AllLocal'
  <1>0. ControlType /\ LocalInv(p)
    BY DEF TypeInv, AllLocal
  <1>1. Others(p)
    BY <1>0 DEF Others, SameLives, Answered, Replace, Ask, GoTo, Finish,
       ControlType
  <1>2. LocalInv(p)'
    BY <1>0 DEF SameLives, SameLife, AllLocal, LocalInv, ProcInv, AsksInv,
       BirthInv, Serving, Answered, Replace, Ask, GoTo, Finish, ControlType
  <1>. QED  BY <1>1, <1>2, LocalFrame

LEMMA RespondLocal ==
    ASSUME TypeInv, AllLocal, NEW r \in inbox, NEW ok,
           Respond(r, ok), SameLives, cmd' = cmd, peer' = peer
    PROVE  AllLocal'
  <1>. r.from \in Procs
    BY DEF TypeInv, DataType, Requests
  <1>1. CASE Awaits(r.from, r)
    BY <1>1, AnsweredLocal DEF Respond, Awaits
  <1>2. CASE ~Awaits(r.from, r)
    <2>1. UNCHANGED <<pc, cmd, asks, result, peer>>
      BY <1>2 DEF Respond
    <2>2. Others(r.from)
      BY <2>1 DEF Others, SameLives
    <2>3. LocalInv(r.from)'
      BY <2>1 DEF SameLives, SameLife, AllLocal, LocalInv, ProcInv, AsksInv,
         BirthInv, Serving
    <2>. QED  BY <2>2, <2>3, LocalFrame
  <1>. QED  BY <1>1, <1>2

(* Every step keeps what is said of each process and its daemon. *)
LEMMA LocalStep ==
    ASSUME TypeInv, AllLocal, InboxInv, [Next]_vars
    PROVE  AllLocal'
  <1>0. ControlType /\ DataType
    BY DEF TypeInv
  <1>s. dst' = dst => SameLives
    BY DEF SameLives, SameLife
  <1>1. ASSUME NEW p \in Procs, Begin(p)
        PROVE  AllLocal'
    <2>1. env.commands \subseteq AllCommands
      BY <1>0, EnvironmentsAssumption DEF EnvironmentType, DataType
    <2>2. Others(p)
      BY <1>0, <1>1 DEF Begin, Others, SameLife, Daemons, ControlType,
         DataType
    <2>3. LocalInv(p)'
      BY <1>0, <1>1, <2>1 DEF AllLocal, LocalInv, ProcInv, AsksInv, BirthInv,
         Serving, Daemons, Begin, ControlType, DataType, AllCommands
    <2>. QED  BY <2>2, <2>3, LocalFrame
  <1>2. ASSUME NEW p \in Procs, Load(p)
        PROVE  AllLocal'
    <2>1. CASE tok = Nobody
      <3>1. AtRequest(p) /\ SameLives
        BY <1>2, <1>s DEF Load, AtRequest
      <3>. QED  BY <1>2, <2>1, <3>1, FailedLocal DEF Load
    <2>2. CASE tok # Nobody
      <3>1. Others(p)
        BY <1>0, <1>2, <2>2 DEF Load, GoTo, Others, SameLife, Daemons,
           ControlType, DataType
      <3>2. LocalInv(p)'
        BY <1>0, <1>2, <2>2 DEF AllLocal, LocalInv, ProcInv, AsksInv,
           BirthInv, Serving, Daemons, Load, GoTo, ControlType, DataType
      <3>. QED  BY <3>1, <3>2, LocalFrame
    <2>. QED  BY <2>1, <2>2
  <1>3. ASSUME NEW p \in Procs, Connect(p)
        PROVE  AllLocal'
    <2>1. CASE sock # Nobody /\ Accepting(sock)
      <3>1. Others(p)
        BY <1>0, <1>3, <2>1 DEF Connect, GoTo, Others, SameLife, Daemons,
           ControlType, DataType
      <3>2. LocalInv(p)'
        BY <1>0, <1>3, <2>1 DEF AllLocal, LocalInv, ProcInv, AsksInv,
           BirthInv, Serving, Daemons, Connect, GoTo, ControlType, DataType
      <3>. QED  BY <3>1, <3>2, LocalFrame
    <2>2. CASE ~(sock # Nobody /\ Accepting(sock))
      <3>1. AtRequest(p) /\ SameLives
        BY <1>3, <1>s DEF Connect, AtRequest
      <3>. QED  BY <1>3, <2>2, <3>1, FailedLocal DEF Connect
    <2>. QED  BY <2>1, <2>2
  <1>4. ASSUME NEW p \in Procs, Timeout(p) \/ Lost(p)
        PROVE  AllLocal'
    <2>1. AtRequest(p) /\ SameLives
      BY <1>4, <1>s DEF Timeout, Lost, AtRequest
    <2>. QED  BY <1>4, <2>1, FailedLocal DEF Timeout, Lost
  <1>5. ASSUME NEW p \in Procs, CleanUp(p)
        PROVE  AllLocal'
    <2>1. Others(p)
      BY <1>0, <1>5 DEF CleanUp, GoTo, Finish, Others, SameLife, Daemons,
         ControlType, DataType
    <2>2. LocalInv(p)'
      BY <1>0, <1>5 DEF AllLocal, LocalInv, ProcInv, AsksInv, BirthInv,
         Serving, Daemons, CleanUp, GoTo, Finish, ControlType, DataType
    <2>. QED  BY <2>1, <2>2, LocalFrame
  <1>6. ASSUME NEW p \in Procs, Check(p) \/ WaitGone(p)
        PROVE  AllLocal'
    <2>1. Others(p)
      BY <1>0, <1>6 DEF Check, WaitGone, GoTo, Finish, Others, SameLife,
         Daemons, ControlType, DataType
    <2>2. LocalInv(p)'
      BY <1>0, <1>6 DEF AllLocal, LocalInv, ProcInv, AsksInv, BirthInv,
         Serving, Daemons, Check, WaitGone, GoTo, Finish, ControlType,
         DataType
    <2>. QED  BY <2>1, <2>2, LocalFrame
  <1>7. ASSUME NEW p \in Procs, Spawn(p)
        PROVE  AllLocal'
    <2>1. Others(p)
      BY <1>0, <1>7 DEF Spawn, GoTo, Others, SameLife, Daemons, ControlType,
         DataType
    <2>2. LocalInv(p)'
      BY <1>0, <1>7 DEF AllLocal, LocalInv, ProcInv, AsksInv, BirthInv,
         Serving, Daemons, Spawn, GoTo, ControlType, DataType
    <2>. QED  BY <2>1, <2>2, LocalFrame
  <1>8. ASSUME NEW d \in Daemons,
               StartUp(d) \/ Expire(d) \/ CloseLocked(d) \/ Drained(d)
                 \/ Abort(d)
        PROVE  AllLocal'
    <2>. d \in Procs
      BY DEF Daemons
    <2>1. Others(d)
      BY <1>0, <1>8 DEF StartUp, Expire, Expires, CloseLocked, Close, Drained,
         Idle, Abort, Become, procVars, Others, SameLife, Daemons,
         ControlType, DataType
    <2>2. LocalInv(d)'
      BY <1>0, <1>8 DEF AllLocal, LocalInv, ProcInv, AsksInv, BirthInv,
         Serving, Daemons, StartUp, Expire, Expires, CloseLocked, Close,
         Drained, Idle, Abort, Become, procVars, ControlType, DataType
    <2>. QED  BY <2>1, <2>2, LocalFrame
  <1>9. ASSUME NEW d \in Daemons, Bind(d) \/ Crash(d)
        PROVE  AllLocal'
    <2>. d \in Procs
      BY DEF Daemons
    <2>1. Others(d)
      BY <1>0, <1>9 DEF Bind, Crash, ExitAfterError, Become, Tell,
         Finish, DaemonStates, Others, SameLife, Daemons,
         ControlType, DataType
    <2>2. LocalInv(d)'
      BY <1>0, <1>9 DEF AllLocal, LocalInv, ProcInv, AsksInv, BirthInv,
         Serving, Daemons, Bind, Crash, ExitAfterError, Become, Tell,
         Finish, DaemonStates, ControlType, DataType
    <2>. QED  BY <2>1, <2>2, LocalFrame
  <1>10. ASSUME NEW r \in inbox, Serve(r)
         PROVE  AllLocal'
    <2>. r.from \in Procs /\ r.to \in Daemons
      BY <1>0 DEF DataType, Requests
    <2>1. SameLives
      BY <1>0, <1>10, <1>s DEF Serve, LockClose, Become, SameLives, SameLife,
         Serving, DataType, Daemons
    <2>2. CASE TokensMatch(r) /\ r.kind = "send"
      <3>1. UNCHANGED <<pc, cmd, asks, result, peer, dst>>
        BY <1>10, <2>2 DEF Serve
      <3>. QED
        BY <3>1 DEF AllLocal, LocalInv, ProcInv, AsksInv, BirthInv, Serving
    <2>3. CASE ~(TokensMatch(r) /\ r.kind = "send")
      <3>1. \E ok \in BOOLEAN : Respond(r, ok)
        BY <1>10, <2>3 DEF Serve
      <3>. QED  BY <1>10, <2>1, <3>1, RespondLocal DEF Serve
    <2>. QED  BY <2>2, <2>3
  <1>11. ASSUME NEW r \in inbox, Executed(r) \/ Disconnect(r)
         PROVE  AllLocal'
    <2>. r.from \in Procs
      BY <1>0 DEF DataType, Requests
    <2>1. CASE Executed(r)
      BY <2>1, RespondLocal, <1>s DEF Executed
    <2>2. CASE Disconnect(r) /\ Abandoned(r)
      BY <2>2 DEF Disconnect, AllLocal, LocalInv, ProcInv, AsksInv, BirthInv,
         Serving
    <2>3. CASE Disconnect(r) /\ ~Abandoned(r)
      <3>1. AtRequest(r.from) /\ SameLives
        BY <2>3, <1>s DEF Disconnect, Abandoned, Awaits, AtRequest
      <3>. QED  BY <2>3, <3>1, FailedLocal DEF Disconnect
    <2>. QED  BY <1>11, <2>1, <2>2, <2>3
  <1>12. CASE UNCHANGED vars
    BY <1>12 DEF vars, procVars, AllLocal, LocalInv, ProcInv, AsksInv,
       BirthInv, Serving
  <1>. QED
    BY <1>1, <1>2, <1>3, <1>4, <1>5, <1>6, <1>7, <1>8, <1>9, <1>10, <1>11,
       <1>12 DEF Next, ProcStep, DaemonStep, ConnStep, Of

-----------------------------------------------------------------------------
(* Who is served or remembered, and whose files there are. *)

(* Daemons grow older. *)
Older(d) ==
    /\ Serving(d) => Serving(d)' \/ dst'[d] = "exited"
    /\ dst[d] = "exited" => dst'[d] = "exited"

(* Who was listening goes on serving, or has exited. *)
LEMMA OldFrame ==
    ASSUME TypeInv, AllOld, old' = old, \A d \in Daemons : Older(d)
    PROVE  AllOld'
  BY DEF TypeInv, DataType, AllOld, OldInv, Older, Serving

(* Every step keeps what is said of connections and files. *)
LEMMA MeetStep ==
    ASSUME TypeInv, AllLocal, MeetInv, [Next]_vars
    PROVE  MeetInv'
  <1>0. /\ DataType
        /\ AllOld /\ InboxInv /\ NoStaleFiles
    BY DEF TypeInv, MeetInv
  <1>l. ASSUME NEW p \in Procs
        PROVE  /\ pc[p] = "spawn" => dst[p] = "unborn"
               /\ pc[p] = "ready" <=> dst[p] \in {"spawned", "tokened"}
    BY DEF AllLocal, LocalInv, BirthInv
  <1>d. Daemons = Procs /\ Nobody \notin Daemons
    BY NobodyAssumption DEF Daemons
  <1>1. ASSUME NEW p \in Procs, Begin(p) PROVE MeetInv'
    <2>1. AllOld'
      BY <1>0, <1>1 DEF Begin, AllOld, OldInv, Serving, DataType
    <2>2. InboxInv' /\ NoStaleFiles'
      BY <1>0, <1>1 DEF Begin, InboxInv, NoStaleFiles, Serving
    <2>. QED  BY <2>1, <2>2 DEF MeetInv
  <1>2. ASSUME NEW p \in Procs,
               Load(p) \/ Timeout(p) \/ Check(p) \/ WaitGone(p) \/ Lost(p)
                 \/ CleanUp(p)
        PROVE  MeetInv'
    <2>1. UNCHANGED <<dst, inbox, old, env>>
      BY <1>2 DEF Load, Timeout, Check, WaitGone, Lost, CleanUp
    <2>2. \/ UNCHANGED <<sock, tok>>
          \/ sock' = Nobody /\ tok' = Nobody
      BY <1>2 DEF Load, Timeout, Check, WaitGone, Lost, CleanUp, KeepFiles,
         RemoveFiles
    <2>. QED
      BY <1>0, <1>d, <2>1, <2>2
        DEF MeetInv, AllOld, OldInv, InboxInv, NoStaleFiles, Serving
  <1>3. ASSUME NEW p \in Procs, Connect(p) PROVE MeetInv'
    <2>1. UNCHANGED <<dst, old, env, sock, tok>>
      BY <1>3 DEF Connect
    <2>2. InboxInv'
      <3>1. CASE sock # Nobody /\ Accepting(sock)
        BY <1>0, <1>3, <2>1, <3>1 DEF Connect, Request, InboxInv, Serving,
           Accepting
      <3>2. CASE ~(sock # Nobody /\ Accepting(sock))
        BY <1>0, <1>3, <2>1, <3>2 DEF Connect, InboxInv, Serving
      <3>. QED  BY <3>1, <3>2
    <2>. QED
      BY <1>0, <2>1, <2>2 DEF MeetInv, AllOld, OldInv, NoStaleFiles, Serving
  <1>4. ASSUME NEW p \in Procs, Spawn(p) PROVE MeetInv'
    <2>1. UNCHANGED <<sock, tok, inbox, old, env>> /\ dst[p] = "unborn"
          /\ dst' = [dst EXCEPT ![p] = "spawned"]
      BY <1>4, <1>l DEF Spawn
    <2>2. \A d \in Daemons : Older(d)
      BY <1>0, <1>d, <2>1 DEF Older, Serving, DataType
    <2>3. AllOld'
      BY <1>0, <2>1, <2>2, OldFrame DEF TypeInv
    <2>4. InboxInv'
      BY <1>0, <1>d, <2>1 DEF InboxInv, Serving, DataType, Requests
    <2>5. NoStaleFiles'
      BY <1>0, <1>d, <2>1 DEF NoStaleFiles, DataType
    <2>. QED  BY <2>3, <2>4, <2>5 DEF MeetInv
  <1>5. ASSUME NEW d \in Daemons,
               StartUp(d) \/ Bind(d) \/ Expire(d) \/ CloseLocked(d)
                 \/ Drained(d)
        PROVE  MeetInv'
    <2>1. UNCHANGED <<inbox, old, env>>
      BY <1>5 DEF StartUp, Bind, Expire, CloseLocked, Close, Drained, procVars
    <2>2. \A e \in Daemons : Older(e)
      BY <1>0, <1>5 DEF StartUp, Bind, Expire, Expires, CloseLocked, Close,
         Drained, Idle, Become, ExitAfterError, Older, Serving, DataType
    <2>3. AllOld'
      BY <1>0, <2>1, <2>2, OldFrame DEF TypeInv
    <2>4. InboxInv'
      BY <1>0, <1>5, <2>1 DEF StartUp, Bind, Expire, Expires, CloseLocked,
         Close, Drained, Idle, Of, Become, ExitAfterError, InboxInv, Serving,
         DataType, Requests
    <2>5. NoStaleFiles'
      BY <1>0, <1>5, <1>d, <2>1 DEF StartUp, Bind, Expire, Expires,
         CloseLocked, Close, Drained, Idle, Become, ExitAfterError, ExitFiles,
         RemoveFiles, NoStaleFiles, DataType
    <2>. QED  BY <2>3, <2>4, <2>5 DEF MeetInv
  <1>6. ASSUME NEW d \in Daemons, Abort(d) \/ Crash(d) PROVE MeetInv'
    <2>1. UNCHANGED <<old, env>> /\ env.crashes /\ inbox' = inbox \ Of(d)
          /\ dst' = [dst EXCEPT ![d] = "exited"]
          /\ dst[d] # "unborn"
      BY <1>6 DEF Abort, Crash, procVars, Become
    <2>2. \A e \in Daemons : Older(e)
      BY <1>0, <2>1 DEF Older, Serving, DataType
    <2>3. AllOld'
      BY <1>0, <2>1, <2>2, OldFrame DEF TypeInv
    <2>4. InboxInv'
      BY <1>0, <2>1 DEF InboxInv, Of, Serving, DataType, Requests
    <2>5. NoStaleFiles'
      BY <2>1 DEF NoStaleFiles
    <2>. QED  BY <2>3, <2>4, <2>5 DEF MeetInv
  <1>7. ASSUME NEW r \in inbox, Serve(r) \/ Executed(r) \/ Disconnect(r)
        PROVE  MeetInv'
    <2>. r \in Requests /\ r.to \in Daemons
      BY <1>0 DEF DataType, Requests
    <2>1. UNCHANGED <<sock, tok, old, env>>
      BY <1>7 DEF Serve, Executed, Disconnect
    <2>2. /\ \A d \in Daemons : Serving(d) => Serving(d)'
          /\ \A d \in Daemons : ~Serving(d) => dst'[d] = dst[d]
      BY <1>0, <1>7 DEF Serve, Executed, Disconnect, LockClose, Become,
         Serving, DataType
    <2>3. AllOld'
      BY <1>0, <2>1, <2>2, OldFrame DEF Older, Serving
    <2>4. \A s \in inbox' :
             \E t \in inbox : s.to = t.to /\ (s = t \/ s.kind = "send")
      <3>1. CASE Serve(r) /\ TokensMatch(r) /\ r.kind = "send"
        BY <3>1, RunningRequest DEF Serve
      <3>2. CASE inbox' \subseteq inbox
        BY <3>2
      <3>. QED
        BY <1>7, <3>1, <3>2 DEF Serve, Executed, Disconnect, Respond
    <2>5. InboxInv'
      BY <1>0, <2>2, <2>4 DEF InboxInv, DataType, Requests
    <2>6. NoStaleFiles'
      BY <1>0, <2>1, <2>2 DEF NoStaleFiles, Serving
    <2>. QED  BY <2>3, <2>5, <2>6 DEF MeetInv
  <1>8. CASE UNCHANGED vars
    BY <1>0, <1>8 DEF vars, procVars, MeetInv, AllOld, OldInv, InboxInv,
       NoStaleFiles, Serving
  <1>. QED
    BY <1>1, <1>2, <1>3, <1>4, <1>5, <1>6, <1>7, <1>8
      DEF Next, ProcStep, DaemonStep, ConnStep, Of

-----------------------------------------------------------------------------
(* Orderly environments. *)

AnyInv == TypeInv /\ AllLocal /\ MeetInv
(* Whoever runs and awaits no answer has no request under way. *)
LEMMA EmptyInbox ==
    ASSUME TypeInv, AwaitInv, Alone, NEW p \in Procs, Running(p),
           pc[p] # "wait"
    PROVE  inbox = {}
  <1>. SUFFICES ASSUME NEW r \in inbox PROVE FALSE
    OBVIOUS
  <1>1. r.from \in Procs /\ pc[r.from] = "wait"
    BY DEF TypeInv, DataType, Requests, AwaitInv, Awaits
  <1>2. r.from = p
    BY <1>1 DEF Alone, Running
  <1>. QED  BY <1>1, <1>2

(* A request under way is that of the only process that runs. *)
LEMMA OnlyRequest ==
    ASSUME TypeInv, AwaitInv, Alone, NEW r \in inbox
    PROVE  /\ inbox = {r} /\ r \in Requests /\ TokensMatch(r)
           /\ r.from \in Procs /\ r.to \in Daemons
           /\ Awaits(r.from, r) /\ Running(r.from)
           /\ \A q \in Procs : Running(q) => q = r.from
  BY DEF TypeInv, DataType, Requests, AwaitInv, Awaits, Alone, Running

(* Each action keeps the invariant of orderly environments. *)
LEMMA OrderBegin ==
    ASSUME AnyInv, Orderly, OrderInv, NEW p \in Procs, Begin(p)
    PROVE  OrderInv'
  <1>0. ControlType /\ DataType /\ AllLocal
    BY DEF AnyInv, TypeInv
  <1>1. \A q \in Procs : ~Running(q)
    BY DEF Begin, Orderly
  <1>2. inbox = {}
    BY <1>1 DEF OrderInv, AwaitInv, Awaits, Running, AnyInv, TypeInv,
       DataType, Requests
  <1>3. /\ pc' = [pc EXCEPT ![p] = "load"]
        /\ UNCHANGED <<sock, tok, dst, inbox, held, peer>>
        /\ \A q \in Procs : q # p => cmd'[q] = cmd[q] /\ old'[q] = old[q]
    BY <1>0 DEF Begin, ControlType, DataType
  <1>4. Alone'
    BY <1>0, <1>1, <1>3 DEF Alone, Running, ControlType
  <1>5. AwaitInv'
    BY <1>2, <1>3 DEF AwaitInv
  <1>6. OneDaemon'
    BY <1>3 DEF OrderInv, OneDaemon, Accepting
  <1>7. KnowsInv'
    BY <1>0, <1>3 DEF OrderInv, KnowsInv, Accepting, ControlType
  <1>8. RotationLocks'
    BY <1>0, <1>3 DEF OrderInv, RotationLocks, ControlType
  <1>. QED  BY <1>4, <1>5, <1>6, <1>7, <1>8 DEF OrderInv

(* No process is told that a request failed unless no daemon would have    *)
(* answered it.                                                            *)
LEMMA OrderFailed ==
    ASSUME AnyInv, OrderInv, NEW p \in Procs, NEW b, Failed(p, b),
           Running(p), inbox = {}, \A d \in Daemons : ~Accepting(d),
           cmd' = cmd, old' = old, inbox' = {}, dst' = dst, sock' = sock,
           tok' = tok
    PROVE  OrderInv'
  <1>0. ControlType /\ DataType /\ AsksInv(p)
    BY DEF AnyInv, TypeInv, AllLocal, LocalInv
  <1>1. /\ \A q \in Procs : q # p => pc'[q] = pc[q]
        /\ pc'[p] = "done" => cmd[p] # "changePassword"
    BY <1>0 DEF Failed, GoTo, Finish, ControlType, AsksInv
  <1>2. Alone'
    BY <1>0, <1>1 DEF OrderInv, Alone, Running
  <1>3. OneDaemon'
    BY DEF OrderInv, OneDaemon, Accepting
  <1>4. KnowsInv'
    BY DEF KnowsInv, Accepting
  <1>5. RotationLocks'
    BY <1>0, <1>1 DEF OrderInv, RotationLocks
  <1>. QED  BY <1>2, <1>3, <1>4, <1>5 DEF OrderInv, AwaitInv

LEMMA OrderLoad ==
    ASSUME AnyInv, Orderly, OrderInv, NEW p \in Procs, Load(p)
    PROVE  OrderInv'
  <1>0. ControlType /\ DataType /\ Running(p)
    BY DEF AnyInv, TypeInv, Load, Running
  <1>1. inbox = {}
    BY <1>0, EmptyInbox DEF AnyInv, OrderInv, Load
  <1>2. CASE tok = Nobody
    <2>1. \A d \in Daemons : ~Accepting(d)
      BY <1>2, NobodyAssumption DEF OrderInv, OneDaemon, Daemons
    <2>. QED  BY <1>0, <1>1, <1>2, <2>1, OrderFailed DEF Load
  <1>3. CASE tok # Nobody
    <2>1. /\ pc' = [pc EXCEPT ![p] = "connect"]
          /\ held' = [held EXCEPT ![p] = tok]
          /\ UNCHANGED <<sock, tok, dst, inbox, peer, cmd, old>>
      BY <1>3 DEF Load, GoTo
    <2>2. Alone'
      BY <1>0, <2>1 DEF OrderInv, Alone, Running, ControlType
    <2>3. AwaitInv'
      BY <1>1, <2>1 DEF AwaitInv
    <2>4. OneDaemon'
      BY <2>1 DEF OrderInv, OneDaemon, Accepting
    <2>5. KnowsInv'
      BY <1>0, <2>1 DEF OrderInv, KnowsInv, OneDaemon, Accepting, ControlType,
         DataType
    <2>6. RotationLocks'
      BY <1>0, <2>1 DEF OrderInv, RotationLocks, ControlType
    <2>. QED  BY <2>2, <2>3, <2>4, <2>5, <2>6 DEF OrderInv
  <1>. QED  BY <1>2, <1>3

LEMMA OrderConnect ==
    ASSUME AnyInv, Orderly, OrderInv, NEW p \in Procs, Connect(p)
    PROVE  OrderInv'
  <1>0. ControlType /\ DataType /\ Running(p)
    BY DEF AnyInv, TypeInv, Connect, Running
  <1>1. inbox = {}
    BY <1>0, EmptyInbox DEF AnyInv, OrderInv, Connect
  <1>2. CASE ~(sock # Nobody /\ Accepting(sock))
    <2>1. \A d \in Daemons : ~Accepting(d)
      BY <1>2, NobodyAssumption DEF OrderInv, OneDaemon, Daemons
    <2>2. Failed(p, FALSE) /\ UNCHANGED <<sock, tok, dst, inbox, cmd, old>>
      BY <1>2 DEF Connect
    <2>. QED  BY <1>0, <1>1, <2>1, <2>2, OrderFailed
  <1>3. CASE sock # Nobody /\ Accepting(sock)
    <2>1. /\ pc' = [pc EXCEPT ![p] = "wait"]
          /\ peer' = [peer EXCEPT ![p] = sock]
          /\ inbox' = {Request(p)}
          /\ UNCHANGED <<sock, tok, dst, held, cmd, old, asks>>
      BY <1>1, <1>3 DEF Connect, GoTo
    <2>2. Alone'
      BY <1>0, <2>1 DEF OrderInv, Alone, Running, ControlType
    <2>3. AwaitInv'
      <3>1. held[p] = sock
        BY <1>0, <1>3 DEF OrderInv, KnowsInv, Connect, DataType
      <3>. QED
        BY <1>0, <2>1, <3>1 DEF AwaitInv, Awaits, TokensMatch, Request,
           ControlType, DataType
    <2>4. OneDaemon'
      BY <2>1 DEF OrderInv, OneDaemon, Accepting
    <2>5. KnowsInv'
      BY <1>0, <2>1 DEF OrderInv, KnowsInv, OneDaemon, Accepting, ControlType,
         DataType
    <2>6. RotationLocks'
      BY <1>0, <2>1 DEF OrderInv, RotationLocks, ControlType
    <2>. QED  BY <2>2, <2>3, <2>4, <2>5, <2>6 DEF OrderInv
  <1>. QED  BY <1>2, <1>3

LEMMA OrderLost ==
    ASSUME AnyInv, Orderly, OrderInv, NEW p \in Procs, Lost(p)
    PROVE  OrderInv'
  <1>0. ControlType /\ DataType /\ Running(p)
    BY DEF AnyInv, TypeInv, Lost, Running
  <1>1. inbox = {}
    <2>. SUFFICES ASSUME NEW r \in inbox PROVE FALSE
      OBVIOUS
    <2>1. r.from = p /\ r.to = peer[p]
      BY <1>0, OnlyRequest DEF AnyInv, OrderInv, Awaits
    <2>. QED
      BY <2>1 DEF AnyInv, MeetInv, InboxInv, Serving, Lost
  <1>2. \A d \in Daemons : ~Accepting(d)
    BY DEF OrderInv, KnowsInv, Lost, Accepting
  <1>3. Failed(p, TRUE) /\ UNCHANGED <<sock, tok, dst, inbox, cmd, old>>
    BY DEF Lost
  <1>. QED  BY <1>0, <1>1, <1>2, <1>3, OrderFailed

LEMMA OrderCleanUp ==
    ASSUME AnyInv, Orderly, OrderInv, NEW p \in Procs, CleanUp(p)
    PROVE  OrderInv'
  <1>0. /\ ControlType /\ DataType /\ Running(p)
        /\ pc[p] # "ready"
        /\ \A d \in Procs :
              pc[d] = "ready" <=> dst[d] \in {"spawned", "tokened"}
    BY DEF AnyInv, TypeInv, CleanUp, Running, AllLocal, LocalInv, BirthInv
  <1>1. inbox = {}
    BY <1>0, EmptyInbox DEF AnyInv, OrderInv, CleanUp
  <1>2. \A d \in Daemons : ~Accepting(d) /\ dst[d] # "tokened"
    BY <1>0 DEF OrderInv, KnowsInv, Alone, Running, CleanUp, Daemons
  <1>3. /\ \A q \in Procs : q # p => pc'[q] = pc[q]
        /\ UNCHANGED <<dst, inbox, cmd, old>>
    BY <1>0 DEF CleanUp, GoTo, Finish, ControlType
  <1>4. Alone'
    BY <1>0, <1>3 DEF OrderInv, Alone, Running
  <1>5. OneDaemon' /\ KnowsInv' /\ AwaitInv'
    BY <1>1, <1>2, <1>3 DEF OneDaemon, KnowsInv, AwaitInv, Accepting
  <1>6. RotationLocks'
    BY <1>0, <1>2, <1>3 DEF OrderInv, RotationLocks, Accepting, DataType
  <1>. QED  BY <1>4, <1>5, <1>6 DEF OrderInv

LEMMA OrderCheck ==
    ASSUME AnyInv, Orderly, OrderInv, NEW p \in Procs,
           Check(p) \/ WaitGone(p)
    PROVE  OrderInv'
  <1>0. ControlType /\ DataType /\ Running(p) /\ cmd[p] = "unlock"
    BY DEF AnyInv, TypeInv, Check, WaitGone, Running, AllLocal, LocalInv,
       ProcInv
  <1>1. inbox = {}
    BY <1>0, EmptyInbox DEF AnyInv, OrderInv, Check, WaitGone
  <1>2. /\ \A q \in Procs : q # p => pc'[q] = pc[q]
        /\ pc'[p] \in {"spawn", "done"}
        /\ UNCHANGED <<sock, tok, dst, inbox, cmd, held, peer, old>>
    BY <1>0 DEF Check, WaitGone, GoTo, Finish, KeepFiles, ControlType
  <1>3. pc'[p] = "spawn" => \A d \in Daemons : ~Accepting(d)
    <2>1. pc'[p] = "spawn" => FilesGone
      BY <1>0 DEF Check, WaitGone, GoTo, Finish, ControlType
    <2>. QED
      BY <2>1, NobodyAssumption DEF FilesGone, OrderInv, OneDaemon, Daemons
  <1>4. Alone'
    BY <1>0, <1>2 DEF OrderInv, Alone, Running
  <1>5. OneDaemon' /\ AwaitInv'
    BY <1>1, <1>2 DEF OrderInv, OneDaemon, AwaitInv, Accepting
  <1>6. KnowsInv'
    BY <1>0, <1>2, <1>3 DEF OrderInv, KnowsInv, Accepting
  <1>7. RotationLocks'
    BY <1>0, <1>2 DEF OrderInv, RotationLocks
  <1>. QED  BY <1>4, <1>5, <1>6, <1>7 DEF OrderInv

LEMMA OrderSpawn ==
    ASSUME AnyInv, Orderly, OrderInv, NEW p \in Procs, Spawn(p)
    PROVE  OrderInv'
  <1>0. /\ ControlType /\ DataType /\ Running(p)
        /\ \A d \in Procs :
              pc[d] = "ready" <=> dst[d] \in {"spawned", "tokened"}
    BY DEF AnyInv, TypeInv, Spawn, Running, AllLocal, LocalInv, BirthInv
  <1>1. inbox = {}
    BY <1>0, EmptyInbox DEF AnyInv, OrderInv, Spawn
  <1>2. \A d \in Daemons : ~Accepting(d) /\ dst[d] # "tokened"
    BY <1>0 DEF OrderInv, KnowsInv, Alone, Running, Spawn, Daemons
  <1>3. /\ \A q \in Procs : q # p => pc'[q] = pc[q]
        /\ pc'[p] = "ready"
        /\ dst' = [dst EXCEPT ![p] = "spawned"]
        /\ UNCHANGED <<inbox, cmd, old>>
    BY <1>0 DEF Spawn, GoTo, ControlType
  <1>4. Alone'
    BY <1>0, <1>3 DEF OrderInv, Alone, Running
  <1>5. \A d \in Daemons : ~Accepting(d)' /\ dst'[d] # "tokened"
    BY <1>0, <1>2, <1>3 DEF Accepting, DataType
  <1>6. OneDaemon' /\ KnowsInv' /\ AwaitInv'
    BY <1>1, <1>3, <1>5 DEF OneDaemon, KnowsInv, AwaitInv
  <1>7. RotationLocks'
    BY <1>0, <1>3, <1>5 DEF OrderInv, RotationLocks, Accepting, DataType
  <1>. QED  BY <1>4, <1>6, <1>7 DEF OrderInv

(* Whoever starts runs alone, and finds no daemon. *)
LEMMA Starting ==
    ASSUME AnyInv, OrderInv, NEW d \in Daemons,
           dst[d] \in {"spawned", "tokened"}
    PROVE  /\ pc[d] = "ready" /\ Running(d) /\ cmd[d] = "unlock"
           /\ inbox = {}
           /\ \A e \in Daemons \ {d} :
                 ~Accepting(e) /\ dst[e] \notin {"spawned", "tokened"}
           /\ \A q \in Procs \ {d} : ~Running(q)
  <1>1. /\ d \in Procs /\ pc[d] = "ready" /\ Running(d) /\ cmd[d] = "unlock"
        /\ \A e \in Procs :
              pc[e] = "ready" <=> dst[e] \in {"spawned", "tokened"}
    BY DEF AnyInv, Running, AllLocal, LocalInv, BirthInv, ProcInv, Daemons
  <1>2. inbox = {}
    BY <1>1, EmptyInbox DEF AnyInv, OrderInv
  <1>3. \A e \in Daemons : ~Accepting(e)
    BY <1>1 DEF OrderInv, KnowsInv
  <1>. QED
    BY <1>1, <1>2, <1>3 DEF OrderInv, Alone, Running, Daemons

LEMMA OrderStartUp ==
    ASSUME AnyInv, Orderly, OrderInv, NEW d \in Daemons, StartUp(d)
    PROVE  OrderInv'
  <1>0. ControlType /\ DataType
    BY DEF AnyInv, TypeInv
  <1>1. /\ pc[d] = "ready" /\ inbox = {}
        /\ \A e \in Daemons \ {d} :
              ~Accepting(e) /\ dst[e] \notin {"spawned", "tokened"}
    BY Starting DEF StartUp
  <1>2. \A e \in Daemons : dst[e] # "closing"
    BY <1>1 DEF StartUp, Orderly, Hurried, Of
  <1>3. \A e \in Daemons \ {d} : dst[e] \in {"unborn", "exited"}
    BY <1>0, <1>1, <1>2 DEF Accepting, DataType, DaemonStates
  <1>4. /\ dst' = [dst EXCEPT ![d] = "tokened"] /\ sock' = Nobody /\ tok' = d
        /\ UNCHANGED <<inbox, pc, cmd, old>>
    BY DEF StartUp, Become, procVars
  <1>5. \A e \in Daemons : ~Accepting(e)' /\ (e # d => dst'[e] = dst[e])
    BY <1>0, <1>1, <1>4 DEF Accepting, DataType
  <1>6. Alone'
    BY <1>4 DEF OrderInv, Alone, Running
  <1>7. OneDaemon' /\ AwaitInv' /\ KnowsInv'
    BY <1>1, <1>3, <1>4, <1>5 DEF OneDaemon, AwaitInv, KnowsInv
  <1>8. RotationLocks'
    BY <1>0, <1>4, <1>5 DEF OrderInv, RotationLocks, Accepting, DataType
  <1>. QED  BY <1>6, <1>7, <1>8 DEF OrderInv

(* A daemon that binds is the only one: its parent has seen all others off. *)
LEMMA OrderBind ==
    ASSUME AnyInv, Orderly, OrderInv, NEW d \in Daemons, Bind(d)
    PROVE  OrderInv'
  <1>0. ControlType /\ DataType /\ d \in Procs
    BY DEF AnyInv, TypeInv, Daemons
  <1>1. /\ pc[d] = "ready" /\ inbox = {} /\ cmd[d] = "unlock"
        /\ \A q \in Procs \ {d} : ~Running(q)
    BY Starting DEF Bind
  <1>2. /\ sock = Nobody /\ tok = d
        /\ \A e \in Daemons \ {d} : dst[e] \in {"unborn", "exited"}
    BY DEF Bind, OrderInv, OneDaemon
  <1>3. /\ dst' = [dst EXCEPT ![d] = "listening"] /\ sock' = d /\ tok' = d
        /\ pc' = [pc EXCEPT ![d] = "done"]
        /\ UNCHANGED <<inbox, cmd, old>>
    BY <1>1, <1>2 DEF Bind, Become, Tell, Finish
  <1>4. \A q \in Procs : ~Running(q)'
    BY <1>0, <1>1, <1>3 DEF Running, ControlType
  <1>5. \A q \in Procs : pc'[q] \in {"idle", "done"}
    BY <1>4 DEF Running
  <1>6. Alone' /\ AwaitInv'
    BY <1>1, <1>3, <1>4 DEF Alone, AwaitInv
  <1>7. OneDaemon'
    BY <1>0, <1>2, <1>3 DEF OneDaemon, Accepting, DataType
  <1>8. KnowsInv'
    BY <1>5 DEF KnowsInv
  <1>9. RotationLocks'
    <2>. SUFFICES ASSUME NEW p \in Procs, cmd[p] = "changePassword",
                         pc'[p] = "done", NEW e \in old[p],
                         dst'[e] = "listening"
                  PROVE  FALSE
      BY <1>3 DEF RotationLocks
    <2>1. p # d /\ e \in Daemons
      BY <1>0, <1>1 DEF DataType
    <2>2. e # d
      BY DEF AnyInv, MeetInv, AllOld, OldInv, Serving, Bind
    <2>3. dst[e] = "listening" /\ pc[p] = "done"
      BY <1>0, <1>3, <2>1, <2>2 DEF ControlType, DataType
    <2>. QED  BY <2>3 DEF OrderInv, RotationLocks
  <1>. QED  BY <1>6, <1>7, <1>8, <1>9 DEF OrderInv

(* A daemon that ends: nobody new listens, and no file is anybody's who    *)
(* still needs it.                                                         *)
LEMMA OrderEnds ==
    ASSUME AnyInv, Orderly, OrderInv, NEW d \in Daemons,
           Expire(d) \/ CloseLocked(d) \/ Drained(d) \/ Abort(d) \/ Crash(d)
    PROVE  OrderInv'
  <1>0. ControlType /\ DataType /\ d \in Procs
    BY DEF AnyInv, TypeInv, Daemons
  <1>1. /\ UNCHANGED <<cmd, asks, held, peer, old>>
        /\ inbox' \subseteq inbox
        /\ dst' = [dst EXCEPT ![d] = "closing"]
             \/ dst' = [dst EXCEPT ![d] = "exited"]
    BY DEF Expire, CloseLocked, Close, Drained, Abort, Crash, Become, Tell,
       Finish, procVars
  <1>2. /\ \A q \in Procs : pc'[q] = pc[q] \/ (q = d /\ pc'[q] = "done")
        /\ pc'[d] # pc[d] => cmd[d] = "unlock" /\ pc[d] = "ready"
    <2>1. pc[d] = "ready" => cmd[d] = "unlock"
      BY <1>0 DEF AnyInv, AllLocal, LocalInv, ProcInv
    <2>. QED
      BY <1>0, <2>1 DEF Expire, CloseLocked, Close, Drained, Abort, Crash,
         Tell, Finish, procVars, ControlType
  <1>3. \A e \in Daemons :
           /\ dst'[e] = dst[e] \/ (e = d /\ dst'[e] \in {"closing", "exited"})
           /\ Accepting(e)' => Accepting(e)
    BY <1>0, <1>1 DEF Accepting, DataType
  <1>4. Alone'
    BY <1>2 DEF OrderInv, Alone, Running
  <1>5. AwaitInv'
    <2>. SUFFICES ASSUME NEW r \in inbox'
                  PROVE  Awaits(r.from, r)' /\ TokensMatch(r)
      BY <1>1 DEF OrderInv, AwaitInv, TokensMatch
    <2>1. /\ r \in inbox /\ r.from \in Procs
          /\ Awaits(r.from, r) /\ TokensMatch(r)
      BY <1>0, <1>1 DEF OrderInv, AwaitInv, DataType, Requests
    <2>. QED
      BY <1>1, <1>2, <2>1 DEF Awaits
  <1>6. OneDaemon'
    <2>. SUFFICES ASSUME NEW e \in Daemons,
                         Accepting(e)' \/ dst'[e] = "tokened"
                  PROVE  /\ Accepting(e)' => sock' = e /\ tok' = e
                         /\ dst'[e] = "tokened" => sock' = Nobody /\ tok' = e
                         /\ \A f \in Daemons \ {e} :
                               dst'[f] \in {"unborn", "exited"}
      BY DEF OneDaemon
    <2>1. e # d /\ dst'[e] = dst[e]
      BY <1>0, <1>1, <1>3 DEF Accepting, DataType
    <2>2. dst[d] \in {"unborn", "exited"}
      BY <2>1 DEF OrderInv, OneDaemon, Accepting
    <2>. QED
      BY <2>2 DEF Expire, Expires, CloseLocked, Drained, Idle, Abort, Crash
  <1>7. KnowsInv'
    BY <1>1, <1>2, <1>3 DEF OrderInv, KnowsInv, Accepting
  <1>8. RotationLocks'
    BY <1>0, <1>1, <1>2, <1>3 DEF OrderInv, RotationLocks, DataType
  <1>. QED  BY <1>4, <1>5, <1>6, <1>7, <1>8 DEF OrderInv

(* An answer to the only request there is. *)
LEMMA OrderAnswer ==
    ASSUME AnyInv, OrderInv, NEW r \in inbox, NEW ok,
           Answered(r.from, ok), inbox' = {}, sock' = sock, tok' = tok,
           cmd' = cmd, old' = old,
           r.kind = "send" \/ (ok /\ r.kind = "status" /\ dst' = dst)
             \/ (ok /\ r.kind = "lock" /\ LockClose(r.to)),
           r.kind = "send" => dst' = dst
    PROVE  OrderInv'
  <1>. DEFINE p == r.from
  <1>0. /\ ControlType /\ DataType /\ p \in Procs /\ r.to \in Daemons
        /\ inbox = {r} /\ Running(p) /\ \A q \in Procs : Running(q) => q = p
        /\ pc[p] = "wait" /\ r.kind = asks[p] /\ r.to = peer[p]
        /\ AsksInv(p) /\ cmd[p] # "none"
        /\ r.kind \in {"status", "lock", "send"}
    BY OnlyRequest DEF AnyInv, OrderInv, TypeInv, Awaits, AllLocal, LocalInv,
       ProcInv, Requests
  <1>. HIDE DEF p
  <1>1. Answered(p, ok)
    BY DEF p
  <1>2. \A d \in Daemons : Accepting(d) => d = r.to
    BY <1>0 DEF OrderInv, KnowsInv
  <1>3. /\ \A d \in Daemons : dst'[d] = dst[d]
             \/ (dst[d] = "listening" /\ dst'[d] = "stopping")
        /\ r.kind = "lock" => \A d \in Daemons : dst'[d] # "listening"
    BY <1>0, <1>2 DEF LockClose, Become, Accepting, DataType
  <1>4. /\ \A q \in Procs : q # p => pc'[q] = pc[q]
        /\ pc'[p] \in {"load", "done", "gone"}
        /\ pc'[p] = "gone" => r.kind = "lock"
        /\ pc'[p] = "done" /\ cmd[p] = "changePassword" => r.kind = "lock"
    BY <1>0, <1>1 DEF Answered, Replace, Ask, GoTo, Finish, ControlType,
       AsksInv, DataType, AllCommands
  <1>5. \A d \in Daemons : Accepting(d)' <=> Accepting(d)
    BY <1>3 DEF Accepting
  <1>6. Alone'
    BY <1>0, <1>4 DEF Alone, Running
  <1>7. AwaitInv'
    BY DEF AwaitInv
  <1>8. OneDaemon'
    <2>1. \A d \in Daemons :
             /\ dst'[d] = "tokened" <=> dst[d] = "tokened"
             /\ dst[d] \in {"unborn", "exited"} => dst'[d] = dst[d]
      BY <1>3
    <2>. QED  BY <1>5, <2>1 DEF OrderInv, OneDaemon
  <1>9. KnowsInv'
    BY <1>0, <1>3, <1>4, <1>5 DEF KnowsInv, Running, Accepting
  <1>10. RotationLocks'
    BY <1>0, <1>3, <1>4 DEF OrderInv, RotationLocks, DataType
  <1>. QED  BY <1>6, <1>7, <1>8, <1>9, <1>10 DEF OrderInv

(* A daemon that answers its only client serves or ends. *)
LEMMA OrderServe ==
    ASSUME AnyInv, Orderly, OrderInv, NEW r \in inbox,
           Serve(r) \/ Executed(r) \/ Disconnect(r)
    PROVE  OrderInv'
  <1>0. /\ inbox = {r} /\ r \in Requests /\ TokensMatch(r)
        /\ r.from \in Procs /\ r.to \in Daemons
        /\ Awaits(r.from, r)
        /\ r.running => r.kind = "send"
    BY OnlyRequest DEF AnyInv, OrderInv, MeetInv, InboxInv
  <1>1. CASE Serve(r) /\ r.kind = "send"
    <2>. DEFINE s == [r EXCEPT !.running = TRUE]
    <2>1. /\ s.from = r.from /\ s.kind = r.kind
          /\ s.to = r.to /\ s.token = r.token
      BY <1>0, RunningRequest
    <2>2. /\ inbox' = {s}
          /\ UNCHANGED <<sock, tok, dst, pc, asks, cmd, held, peer, old>>
      BY <1>0, <1>1 DEF Serve
    <2>. HIDE DEF s
    <2>3. AwaitInv'
      BY <1>0, <2>1, <2>2 DEF AwaitInv, Awaits, TokensMatch
    <2>4. Alone' /\ OneDaemon' /\ KnowsInv' /\ RotationLocks'
      BY <2>2 DEF OrderInv, Alone, Running, OneDaemon, KnowsInv, Accepting,
         RotationLocks
    <2>. QED  BY <2>3, <2>4 DEF OrderInv
  <1>2. CASE Serve(r) /\ r.kind = "status"
    <2>1. /\ Answered(r.from, TRUE) /\ inbox' = {} /\ dst' = dst
          /\ sock' = sock /\ tok' = tok /\ cmd' = cmd /\ old' = old
      BY <1>0, <1>2 DEF Serve, Respond
    <2>. QED  BY <1>2, <2>1, OrderAnswer
  <1>3. CASE Serve(r) /\ r.kind = "lock"
    <2>1. /\ Answered(r.from, TRUE) /\ inbox' = {} /\ LockClose(r.to)
          /\ sock' = sock /\ tok' = tok /\ cmd' = cmd /\ old' = old
      BY <1>0, <1>3 DEF Serve, Respond
    <2>. QED  BY <1>3, <2>1, OrderAnswer
  <1>4. CASE Executed(r)
    <2>1. PICK ok \in BOOLEAN : Respond(r, ok)
      BY <1>4 DEF Executed
    <2>2. /\ Answered(r.from, ok) /\ inbox' = {} /\ dst' = dst
          /\ r.kind = "send"
          /\ sock' = sock /\ tok' = tok /\ cmd' = cmd /\ old' = old
      BY <1>0, <1>4, <2>1 DEF Executed, Respond
    <2>. QED  BY <2>2, OrderAnswer
  <1>5. CASE Disconnect(r)
    BY <1>0, <1>5 DEF Disconnect, Abandoned, MayTimeOut, Orderly
  <1>6. r.kind \in {"status", "lock", "send"}
    BY <1>0 DEF Requests
  <1>. QED  BY <1>1, <1>2, <1>3, <1>4, <1>5, <1>6

-----------------------------------------------------------------------------
(* The invariant and what follows from it. *)

IInv == AnyInv /\ (Orderly => OrderInv)

(* What holds in any environment is kept by every step. *)
LEMMA AnyStep ==
    ASSUME AnyInv, [Next]_vars
    PROVE  AnyInv'
  BY TypeStep, LocalStep, MeetStep DEF AnyInv, MeetInv

(* So is what holds in an orderly one. *)
LEMMA OrderStep ==
    ASSUME AnyInv, Orderly, OrderInv, [Next]_vars
    PROVE  OrderInv'
  <1>1. ASSUME NEW p \in Procs, Timeout(p) PROVE OrderInv'
    BY <1>1 DEF Timeout, MayTimeOut, Orderly
  <1>2. CASE UNCHANGED vars
    BY <1>2 DEF vars, procVars, OrderInv, Alone, Running, AwaitInv, Awaits,
       TokensMatch, OneDaemon, KnowsInv, Accepting, RotationLocks
  <1>. QED
    BY <1>1, <1>2, OrderBegin, OrderLoad, OrderConnect, OrderLost,
       OrderCleanUp, OrderCheck, OrderSpawn, OrderStartUp, OrderBind,
       OrderEnds, OrderServe
      DEF Next, ProcStep, DaemonStep, ConnStep, Of

(* An environment is orderly for a whole behavior. *)
LEMMA SameOrder ==
    ASSUME [Next]_vars
    PROVE  env' = env /\ (Orderly' <=> Orderly)
  <1>1. env' = env
    BY DEF Next, ProcStep, DaemonStep, ConnStep, Begin, Load, Connect,
       Timeout, CleanUp, Check, WaitGone, Spawn, Lost, Serve, Executed,
       Disconnect, StartUp, Bind, Expire, CloseLocked, Close, Drained, Abort,
       Crash, vars, procVars
  <1>. QED  BY <1>1 DEF Orderly

(* The invariant holds at first. *)
LEMMA IInvInit == Init => IInv
  <1>. SUFFICES ASSUME Init PROVE IInv
    OBVIOUS
  <1>1. TypeInv
    BY DEF Init, TypeInv, ControlType, DataType, Places, DaemonStates, Daemons
  <1>2. AllLocal
    BY DEF Init, AllLocal, LocalInv, ProcInv, AsksInv, BirthInv, Serving,
       Daemons
  <1>3. MeetInv
    BY NobodyAssumption DEF Init, MeetInv, AllOld, OldInv, InboxInv,
       NoStaleFiles, Daemons
  <1>4. OrderInv
    BY DEF Init, OrderInv, Alone, Running, AwaitInv, OneDaemon, KnowsInv,
       Accepting, RotationLocks, Daemons
  <1>. QED  BY <1>1, <1>2, <1>3, <1>4 DEF IInv, AnyInv

(* Every step keeps the invariant. *)
LEMMA IInvStep == IInv /\ [Next]_vars => IInv'
  BY AnyStep, OrderStep, SameOrder DEF IInv

(* IInv holds of every state that SessionLifecycle reaches. *)
THEOREM Invariance == Spec => []IInv
  BY IInvInit, IInvStep, PTL DEF Spec

(* Among commands that run one at a time and are answered in time, a       *)
(* daemon that listens can be reached through its socket and with its      *)
(* token: no start, lock, expiry or clean-up of another takes them away.   *)
THEOREM SessionsReachable == Spec => []OrderlySessionReachable
  <1>1. IInv => OrderlySessionReachable
    BY DEF IInv, OrderInv, OneDaemon, Accepting, OrderlySessionReachable,
       SessionReachable
  <1>. QED  BY <1>1, Invariance, PTL

(* Among such commands a password rotation that reports success leaves     *)
(* none of the daemons listening that were when it began.                  *)
THEOREM RotationsLock == Spec => []OrderlyRotationLocks
  <1>1. IInv => OrderlyRotationLocks
    BY DEF IInv, OrderInv, OrderlyRotationLocks
  <1>. QED  BY <1>1, Invariance, PTL

(* Whatever happens beside it, the daemon of an unlock that reported       *)
(* failure never was or is gone.                                           *)
THEOREM FailedUnlocks == Spec => []FailedUnlockLeavesNoDaemon
  <1>1. IInv => FailedUnlockLeavesNoDaemon
    BY DEF IInv, AnyInv, AllLocal, LocalInv, BirthInv,
       FailedUnlockLeavesNoDaemon
  <1>. QED  BY <1>1, Invariance, PTL

(* Unless daemons are killed, no file is that of a daemon that is gone.    *)
THEOREM FilesFresh == Spec => []NoStaleFiles
  <1>1. IInv => NoStaleFiles
    BY DEF IInv, AnyInv, MeetInv
  <1>. QED  BY <1>1, Invariance, PTL

-----------------------------------------------------------------------------
(* The promise to users. *)

PromiseStep == [Promise!Next]_(Promise!vars)

(* Orderly and what commands were asked stay the same. *)
Kept == env' = env /\ cmd' = cmd

(* What each kind of step is to the user: no concern of theirs, *)
LEMMA KeepsPromise ==
    ASSUME Kept, result' = result, Listening' = Listening
    PROVE  PromiseStep
  <1>1. Orderly' = Orderly
    BY DEF Kept, Orderly
  <1>. QED  BY <1>1 DEF PromiseStep, Promise!vars, Kept

(* the beginning of a session, *)
LEMMA OpensSession ==
    ASSUME Kept, NEW p \in Procs, cmd[p] = "unlock", result[p] = "none",
           result' = [result EXCEPT ![p] = "ok"],
           Listening' = Listening \cup {p}, Orderly => Listening = {}
    PROVE  PromiseStep
  <1>1. Orderly' = Orderly
    BY DEF Kept, Orderly
  <1>2. Promise!Unlock(p)
    BY <1>1 DEF Promise!Unlock, Promise!Tell, Promise!InOrder, Kept
  <1>. QED  BY <1>2 DEF PromiseStep, Promise!Next

(* an unlock that fails, *)
LEMMA OpensNone ==
    ASSUME Kept, NEW p \in Procs, cmd[p] = "unlock", result[p] = "none",
           result' = [result EXCEPT ![p] = "failed"], Listening' = Listening
    PROVE  PromiseStep
  <1>1. Orderly' = Orderly
    BY DEF Kept, Orderly
  <1>2. Promise!UnlockFails(p)
    BY <1>1 DEF Promise!UnlockFails, Promise!Tell, Kept
  <1>. QED  BY <1>2 DEF PromiseStep, Promise!Next

(* the end of all sessions, as one asked, *)
LEMMA LocksSessions ==
    ASSUME Kept, NEW p \in Procs, NEW how \in {"ok", "failed"},
           cmd[p] = "lock" \/ (cmd[p] = "changePassword" /\ how = "ok"),
           result[p] = "none", result' = [result EXCEPT ![p] = how],
           Listening' \subseteq Listening, Orderly => Listening' = {}
    PROVE  PromiseStep
  <1>1. Orderly' = Orderly
    BY DEF Kept, Orderly
  <1>2. Promise!Lock(p)
    BY <1>1 DEF Promise!Lock, Promise!Tell, Promise!InOrder, Kept
  <1>. QED  BY <1>2 DEF PromiseStep, Promise!Next

(* a command that a session served, *)
LEMMA ReportsSuccess ==
    ASSUME Kept, NEW p \in Procs, cmd[p] \in {"status", "send"},
           result[p] = "none", result' = [result EXCEPT ![p] = "ok"],
           NEW q \in Procs, cmd[q] = "unlock", result[q] = "ok",
           Listening' = Listening
    PROVE  PromiseStep
  <1>1. Orderly' = Orderly
    BY DEF Kept, Orderly
  <1>2. Promise!Report(p)
    BY <1>1 DEF Promise!Report, Promise!Tell, Kept
  <1>. QED  BY <1>2 DEF PromiseStep, Promise!Next

(* one that none did, *)
LEMMA ReportsFailure ==
    ASSUME Kept, NEW p \in Procs,
           cmd[p] = "send"
             \/ (cmd[p] = "status" /\ (Orderly => Listening = {})),
           result[p] = "none", result' = [result EXCEPT ![p] = "failed"],
           Listening' = Listening
    PROVE  PromiseStep
  <1>1. Orderly' = Orderly
    BY DEF Kept, Orderly
  <1>2. Promise!Report(p)
    BY <1>1 DEF Promise!Report, Promise!Tell, Promise!InOrder, Kept
  <1>. QED  BY <1>2 DEF PromiseStep, Promise!Next

(* or the end of a session. *)
LEMMA EndsSession ==
    ASSUME Kept, result' = result, NEW d \in Daemons,
           Listening' = Listening \ {d}
    PROVE  PromiseStep
  <1>1. Orderly' = Orderly
    BY DEF Kept, Orderly
  <1>2. CASE d \in Listening
    <2>1. Promise!Ends
      BY <1>1, <1>2 DEF Promise!Ends, Kept
    <2>. QED  BY <2>1 DEF PromiseStep, Promise!Next
  <1>3. CASE d \notin Listening
    BY <1>3, KeepsPromise
  <1>. QED  BY <1>2, <1>3

(* What IInv says of a process that runs. *)
LEMMA RunningProcess ==
    ASSUME IInv, NEW p \in Procs, Running(p)
    PROVE  /\ result[p] = "none" /\ cmd[p] \in AllCommands
           /\ AsksInv(p)
           /\ pc[p] = "cleanup" => asks[p] # "send"
           /\ pc[p] \in {"gone", "check", "spawn", "ready"} =>
                 cmd[p] = "unlock"
  BY DEF IInv, AnyInv, TypeInv, DataType, AllLocal, LocalInv, ProcInv, Running

(* Sessions are daemons that listen. *)
LEMMA SameListening == dst' = dst => Listening' = Listening
  BY DEF Listening

(* Getting no answer is such a step. *)
LEMMA FailedPromise ==
    ASSUME IInv, NEW p \in Procs, NEW b, Running(p), Failed(p, b), Kept,
           dst' = dst
    PROVE  PromiseStep
  <1>1. CASE result' = result
    BY <1>1, SameListening, KeepsPromise
  <1>2. CASE result' # result
    <2>1. asks[p] = "send" /\ result' = [result EXCEPT ![p] = "failed"]
      BY <1>2 DEF Failed, GoTo, Finish
    <2>2. cmd[p] = "send" /\ result[p] = "none"
      BY <2>1, RunningProcess DEF AsksInv, AllCommands
    <2>. QED  BY <2>1, <2>2, SameListening, ReportsFailure
  <1>. QED  BY <1>1, <1>2

(* So is each step of a process, *)
LEMMA ProcPromise ==
    ASSUME IInv, NEW p \in Procs, ProcStep(p)
    PROVE  PromiseStep
  <1>1. Kept
    BY DEF ProcStep, Load, Connect, Timeout, CleanUp, Check, WaitGone, Spawn,
       Lost, Kept
  <1>2. Running(p)
    BY DEF ProcStep, Load, Connect, Timeout, CleanUp, Check, WaitGone, Spawn,
       Lost, Running
  <1>3. CASE Load(p) \/ Connect(p) \/ Timeout(p) \/ Lost(p)
    <2>1. dst' = dst
      BY <1>3 DEF Load, Connect, Timeout, Lost
    <2>2. CASE result' = result
      BY <1>1, <2>1, <2>2, SameListening, KeepsPromise
    <2>3. CASE result' # result
      <3>1. Failed(p, FALSE) \/ Failed(p, TRUE)
        BY <1>3, <2>3 DEF Load, Connect, Timeout, Lost, GoTo
      <3>. QED  BY <1>1, <1>2, <2>1, <3>1, FailedPromise
    <2>. QED  BY <2>2, <2>3
  <1>4. CASE CleanUp(p)
    <2>1. dst' = dst /\ pc[p] = "cleanup"
      BY <1>4 DEF CleanUp
    <2>2. Orderly => Listening = {}
      BY <2>1 DEF IInv, OrderInv, KnowsInv, Accepting, Listening
    <2>3. CASE result' = result
      BY <1>1, <2>1, <2>3, SameListening, KeepsPromise
    <2>4. CASE result' # result
      <3>1. /\ cmd[p] = "changePassword"
               /\ result' = [result EXCEPT ![p] = "ok"]
            \/ /\ cmd[p] \in {"status", "lock", "send"}
               /\ result' = [result EXCEPT ![p] = "failed"]
        BY <1>2, <1>4, <2>1, <2>4, RunningProcess
          DEF CleanUp, GoTo, Finish, AsksInv, AllCommands, IInv, AnyInv,
              TypeInv, ControlType
      <3>2. result[p] = "none" /\ Listening' = Listening
        BY <1>2, <2>1, RunningProcess, SameListening
      <3>3. CASE cmd[p] \in {"changePassword", "lock"}
        BY <1>1, <2>2, <3>1, <3>2, <3>3, LocksSessions
      <3>4. CASE cmd[p] \in {"status", "send"}
        BY <1>1, <2>2, <3>1, <3>2, <3>4, ReportsFailure
      <3>. QED  BY <3>1, <3>3, <3>4
    <2>. QED  BY <2>3, <2>4
  <1>5. CASE Check(p) \/ WaitGone(p)
    <2>1. /\ dst' = dst /\ cmd[p] = "unlock" /\ result[p] = "none"
          /\ result' = result \/ result' = [result EXCEPT ![p] = "failed"]
      BY <1>2, <1>5, RunningProcess DEF Check, WaitGone, GoTo, Finish
    <2>. QED
      BY <1>1, <2>1, SameListening, KeepsPromise, OpensNone
  <1>6. CASE Spawn(p)
    <2>1. /\ dst' = [dst EXCEPT ![p] = "spawned"] /\ result' = result
          /\ dst[p] = "unborn" /\ dst \in [Daemons -> DaemonStates]
      BY <1>6 DEF Spawn, GoTo, IInv, AnyInv, TypeInv, DataType, AllLocal,
         LocalInv, BirthInv
    <2>2. Listening' = Listening
      BY <2>1 DEF Listening
    <2>. QED  BY <1>1, <2>1, <2>2, KeepsPromise
  <1>. QED  BY <1>3, <1>4, <1>5, <1>6 DEF ProcStep

(* How a daemon's step shows in what may be used. *)
LEMMA Becomes ==
    ASSUME IInv, NEW d \in Daemons, NEW s \in DaemonStates \ {"listening"},
           Become(d, s)
    PROVE  Listening' = Listening \ {d}
  BY DEF IInv, AnyInv, TypeInv, DataType, Become, Listening, Daemons

(* of a daemon, *)
LEMMA DaemonPromise ==
    ASSUME IInv, NEW d \in Daemons,
           StartUp(d) \/ Bind(d) \/ Expire(d) \/ CloseLocked(d) \/ Drained(d)
             \/ Abort(d) \/ Crash(d)
    PROVE  PromiseStep
  <1>0. d \in Procs /\ dst \in [Daemons -> DaemonStates]
    BY DEF Daemons, IInv, AnyInv, TypeInv, DataType
  <1>1. Kept
    BY DEF StartUp, Bind, Expire, CloseLocked, Close, Drained, Abort, Crash,
       procVars, Kept
  <1>2. dst[d] \in {"spawned", "tokened"} =>
           pc[d] = "ready" /\ cmd[d] = "unlock" /\ result[d] = "none"
    BY <1>0, RunningProcess
      DEF IInv, AnyInv, AllLocal, LocalInv, BirthInv, Running
  <1>3. CASE \/ StartUp(d) \/ Expire(d) \/ CloseLocked(d)
             \/ Drained(d) \/ Abort(d)
    <2>1. /\ result' = result
          /\ \E s \in DaemonStates \ {"listening"} : Become(d, s)
      BY <1>3 DEF StartUp, Expire, CloseLocked, Close, Drained, Abort,
         procVars, DaemonStates
    <2>. QED  BY <1>1, <2>1, Becomes, EndsSession
  <1>4. CASE Bind(d)
    <2>1. CASE Become(d, "listening") /\ Tell(d, "ok") /\ sock = Nobody
      <3>1. Listening' = Listening \cup {d}
        BY <1>0, <2>1 DEF Listening, Become
      <3>2. Orderly => Listening = {}
        BY <1>4 DEF Bind, IInv, OrderInv, OneDaemon, Listening
      <3>3. result' = [result EXCEPT ![d] = "ok"]
        BY <1>2, <1>4, <2>1 DEF Bind, Tell, Finish
      <3>. QED
        BY <1>0, <1>1, <1>2, <1>4, <3>1, <3>2, <3>3, OpensSession DEF Bind
    <2>2. CASE Become(d, "exited") /\ Tell(d, "failed")
      <3>1. Listening' = Listening \ {d} /\ dst[d] = "tokened"
        BY <1>4, <2>2, Becomes DEF DaemonStates, Bind
      <3>2. Listening' = Listening
        BY <3>1 DEF Listening
      <3>3. result' = [result EXCEPT ![d] = "failed"]
        BY <1>2, <2>2, <3>1 DEF Tell, Finish
      <3>. QED  BY <1>0, <1>1, <1>2, <3>1, <3>2, <3>3, OpensNone
    <2>. QED  BY <1>4, <2>1, <2>2 DEF Bind, ExitAfterError
  <1>5. CASE Crash(d)
    <2>1. Listening' = Listening \ {d} /\ Tell(d, "failed")
      BY <1>5, Becomes DEF DaemonStates, Crash
    <2>2. CASE pc[d] = "ready"
      <3>1. dst[d] \in {"spawned", "tokened"}
        BY <1>0, <2>2 DEF IInv, AnyInv, AllLocal, LocalInv, BirthInv
      <3>2. Listening' = Listening
        BY <2>1, <3>1 DEF Listening
      <3>3. result' = [result EXCEPT ![d] = "failed"]
        BY <2>1, <2>2 DEF Tell, Finish
      <3>. QED  BY <1>0, <1>1, <1>2, <3>1, <3>2, <3>3, OpensNone
    <2>3. CASE pc[d] # "ready"
      <3>1. result' = result
        BY <2>1, <2>3 DEF Tell
      <3>. QED  BY <1>1, <2>1, <3>1, EndsSession
    <2>. QED  BY <2>2, <2>3
  <1>. QED  BY <1>3, <1>4, <1>5

(* A daemon that serves was started by an unlock that was told so. *)
LEMMA ServedBySession ==
    ASSUME IInv, NEW r \in inbox
    PROVE  /\ r \in Requests /\ r.from \in Procs /\ r.to \in Procs
           /\ cmd[r.to] = "unlock" /\ result[r.to] = "ok"
           /\ r.running => r.kind = "send"
  BY DEF IInv, AnyInv, TypeInv, DataType, Requests, AllLocal, LocalInv,
     BirthInv, MeetInv, InboxInv, Daemons

(* of a connection, *)
LEMMA ConnPromise ==
    ASSUME IInv, NEW r \in inbox, ConnStep(r)
    PROVE  PromiseStep
  <1>. DEFINE p == r.from
  <1>0. /\ r \in Requests /\ p \in Procs /\ r.to \in Procs
        /\ cmd[r.to] = "unlock" /\ result[r.to] = "ok"
        /\ r.running => r.kind = "send"
    BY ServedBySession
  <1>1. Kept
    BY DEF ConnStep, Serve, Executed, Disconnect, Kept
  <1>2. Awaits(p, r) =>
           /\ Running(p) /\ asks[p] = r.kind /\ result[p] = "none"
           /\ cmd[p] \in AllCommands /\ AsksInv(p)
    BY <1>0, RunningProcess DEF Awaits, Running
  <1>3. Orderly => TokensMatch(r)
    BY DEF IInv, OrderInv, AwaitInv
  <1>. HIDE DEF p
  <1>4. CASE Disconnect(r)
    <2>1. dst' = dst
      BY <1>4 DEF Disconnect
    <2>2. CASE Abandoned(r)
      BY <1>1, <1>4, <2>1, <2>2, SameListening, KeepsPromise DEF Disconnect
    <2>3. CASE ~Abandoned(r)
      BY <1>0, <1>1, <1>2, <1>4, <2>1, <2>3, FailedPromise
        DEF Disconnect, Abandoned, p
    <2>. QED  BY <2>2, <2>3
  <1>5. CASE result' = result /\ (Serve(r) \/ Executed(r))
    <2>1. dst' = dst \/ Listening' = Listening \ {r.to}
      BY <1>0, <1>5, Becomes
        DEF Serve, Executed, LockClose, DaemonStates, Daemons
    <2>. QED
      BY <1>0, <1>1, <1>5, <2>1, SameListening, KeepsPromise, EndsSession
        DEF Daemons
  <1>6. CASE result' # result /\ (Serve(r) \/ Executed(r))
    <2>1. PICK ok \in BOOLEAN : Awaits(p, r) /\ Answered(p, ok)
      BY <1>6 DEF Serve, Executed, Respond, p
    <2>2. CASE r.kind = "send"
      <3>1. /\ cmd[p] = "send" /\ dst' = dst
            /\ \/ result' = [result EXCEPT ![p] = "ok"]
               \/ result' = [result EXCEPT ![p] = "failed"]
        BY <1>0, <1>2, <1>6, <2>1, <2>2
          DEF Answered, Finish, AsksInv, AllCommands, Serve, Executed
      <3>. QED
        BY <1>0, <1>1, <1>2, <2>1, <3>1, SameListening, ReportsSuccess,
           ReportsFailure
    <2>3. CASE r.kind # "send" /\ ~TokensMatch(r)
      <3>1. dst' = dst /\ ~Orderly
        BY <1>0, <1>3, <1>6, <2>3 DEF Serve, Executed
      <3>2. /\ Listening' = Listening /\ result[p] = "none"
            /\ \/ /\ cmd[p] = "changePassword"
                  /\ result' = [result EXCEPT ![p] = "ok"]
               \/ /\ cmd[p] \in {"lock", "status", "send"}
                  /\ result' = [result EXCEPT ![p] = "failed"]
        <4>1. Answered(p, FALSE)
          BY <1>0, <1>6, <2>1, <2>3 DEF Serve, Executed, Respond, p
        <4>2. asks[p] \in {"status", "lock"}
          BY <1>0, <1>2, <2>1, <2>3 DEF Requests
        <4>3. cmd[p] # "unlock" /\ ~(asks[p] = "lock" /\ cmd[p] = "status")
          BY <1>2, <1>6, <2>1, <4>1, <4>2
            DEF Answered, Replace, GoTo, AsksInv
        <4>. QED
          BY <1>2, <1>6, <2>1, <3>1, <4>1, <4>2, <4>3, SameListening
            DEF Answered, Finish, AsksInv, AllCommands
      <3>3. CASE cmd[p] \in {"lock", "changePassword"}
        BY <1>0, <1>1, <3>1, <3>2, <3>3, LocksSessions
      <3>4. CASE cmd[p] \in {"status", "send"}
        BY <1>0, <1>1, <3>1, <3>2, <3>4, ReportsFailure
      <3>. QED  BY <3>2, <3>3, <3>4
    <2>4. CASE TokensMatch(r) /\ r.kind = "status"
      <3>1. Answered(p, TRUE) /\ dst' = dst
        BY <1>0, <1>6, <2>1, <2>4 DEF Serve, Executed, Respond, p
      <3>2. /\ cmd[p] = "status" /\ result[p] = "none"
            /\ result' = [result EXCEPT ![p] = "ok"]
        BY <1>2, <1>6, <2>1, <2>4, <3>1
          DEF Answered, Replace, Ask, GoTo, Finish, AsksInv, AllCommands
      <3>. QED
        BY <1>0, <1>1, <3>1, <3>2, SameListening, ReportsSuccess
    <2>5. CASE TokensMatch(r) /\ r.kind = "lock"
      <3>1. Answered(p, TRUE) /\ LockClose(r.to)
        BY <1>0, <1>6, <2>1, <2>5 DEF Serve, Executed, Respond, p
      <3>2. /\ cmd[p] \in {"lock", "changePassword"} /\ result[p] = "none"
            /\ result' = [result EXCEPT ![p] = "ok"]
        BY <1>2, <1>6, <2>1, <2>5, <3>1
          DEF Answered, GoTo, Finish, AsksInv, AllCommands
      <3>3. Listening' = Listening \ {r.to}
        <4>1. CASE dst[r.to] = "listening"
          BY <1>0, <3>1, <4>1, Becomes DEF LockClose, DaemonStates, Daemons
        <4>2. CASE dst[r.to] # "listening"
          BY <3>1, <4>2 DEF LockClose, Listening
        <4>. QED  BY <4>1, <4>2
      <3>4. Orderly => Listening \subseteq {r.to}
        BY <1>0, <2>1 DEF IInv, OrderInv, KnowsInv, Accepting, Awaits,
           Listening
      <3>. QED
        BY <1>0, <1>1, <3>2, <3>3, <3>4, LocksSessions
    <2>. QED
      BY <1>0, <2>2, <2>3, <2>4, <2>5 DEF Requests
  <1>. QED  BY <1>4, <1>5, <1>6 DEF ConnStep

(* and the beginning of a command. *)
LEMMA BeginPromise ==
    ASSUME IInv, NEW p \in Procs, Begin(p)
    PROVE  PromiseStep
  <1>1. cmd[p] = "none"
    BY DEF IInv, AnyInv, AllLocal, LocalInv, ProcInv, Begin
  <1>2. env.commands \subseteq AllCommands
    BY EnvironmentsAssumption
      DEF EnvironmentType, IInv, AnyInv, TypeInv, DataType
  <1>3. PICK c \in AllCommands : cmd' = [cmd EXCEPT ![p] = c]
    BY <1>2 DEF Begin
  <1>4. result' = result /\ Listening' = Listening /\ Orderly' = Orderly
    BY DEF Begin, Listening, Orderly
  <1>5. Promise!Ask(p)
    BY <1>1, <1>3, <1>4 DEF Promise!Ask, Promise!Commands, AllCommands
  <1>. QED  BY <1>5 DEF PromiseStep, Promise!Next

(* Every step of SessionLifecycle is one that OneSession allows, or shows  *)
(* nothing of what it promises.                                            *)
LEMMA PromiseKept ==
    ASSUME IInv, [Next]_vars
    PROVE  PromiseStep
  <1>1. CASE UNCHANGED vars
    <2>1. Kept /\ result' = result /\ dst' = dst
      BY <1>1 DEF vars, procVars, Kept
    <2>. QED  BY <2>1, SameListening, KeepsPromise
  <1>. QED
    BY <1>1, BeginPromise, ProcPromise, DaemonPromise, ConnPromise
      DEF Next, DaemonStep, Of

(* There is no session at first. *)
LEMMA PromiseInit == Init => Promise!Init
  <1>. SUFFICES ASSUME Init PROVE Promise!Init
    OBVIOUS
  <1>1. Orderly \in BOOLEAN
    BY DEF Orderly
  <1>2. Listening = {}
    BY DEF Init, Listening
  <1>. QED  BY <1>1, <1>2 DEF Init, Promise!Init

(* SessionLifecycle implements OneSession: what users are told of their    *)
(* sessions is true, in whatever environment, and that there is one at a   *)
(* time in an orderly one.                                                 *)
THEOREM PromiseImplemented == Spec => PromiseSpec
  <1>1. IInv /\ [Next]_vars => [Promise!Next]_(Promise!vars)
    BY PromiseKept DEF PromiseStep
  <1>. QED
    BY <1>1, Invariance, PromiseInit, PTL DEF Spec, PromiseSpec, Promise!Spec

=============================================================================
