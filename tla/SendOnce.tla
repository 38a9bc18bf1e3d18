------------------------------ MODULE SendOnce ------------------------------
(***************************************************************************)
(* What the local session promises about sends, with no connection, retry  *)
(* or timeout in sight: a ledger in which a request id is used once, for   *)
(* one set of call parameters, and settles once; and clients, each told    *)
(* one thing about its request. Only "ok" and "error" tell what became of  *)
(* it. "conflict" and "tooLarge" tell that it did not run. "transport" and *)
(* "noSession" tell nothing: the request may run, even later.              *)
(***************************************************************************)
CONSTANTS Clients, Ids, Calls, Oversized, NoRequest

VARIABLES req,     \* the request of each client, or NoRequest
          ledger,  \* for each id, its call and how that went
          answer   \* what each client was told, "none" before

vars == <<req, ledger, answer>>

Requests == [id : Ids, call : Calls]
Unused == [call |-> NoRequest, status |-> "unused"]

Init ==
    /\ req = [c \in Clients |-> NoRequest]
    /\ ledger = [i \in Ids |-> Unused]
    /\ answer = [c \in Clients |-> "none"]

Submit(c) ==
    /\ req[c] = NoRequest
    /\ \E r \in Requests : req' = [req EXCEPT ![c] = r]
    /\ UNCHANGED <<ledger, answer>>

Record(c) ==
    /\ req[c] # NoRequest
    /\ req[c].call \notin Oversized
    /\ ledger[req[c].id] = Unused
    /\ ledger' = [ledger EXCEPT ![req[c].id] =
                    [call |-> req[c].call, status |-> "pending"]]
    /\ UNCHANGED <<req, answer>>

Fulfil(i) ==
    /\ ledger[i].status = "pending"
    /\ \E s \in {"ok", "error"} :
            ledger' = [ledger EXCEPT ![i] =
                         [call |-> ledger[i].call, status |-> s]]
    /\ UNCHANGED <<req, answer>>

(* What a client may be told in the current state. *)
May(c, what) ==
    LET entry == ledger[req[c].id]
    IN  \/ /\ what \in {"ok", "error"}
           /\ entry.call = req[c].call /\ entry.status = what
        \/ what = "conflict" /\ entry # Unused /\ entry.call # req[c].call
        \/ what = "tooLarge" /\ req[c].call \in Oversized
        \/ what \in {"noSession", "transport"}

Tell(c) ==
    /\ req[c] # NoRequest /\ answer[c] = "none"
    /\ \E what \in {"ok", "error", "conflict", "tooLarge", "noSession",
                    "transport"} :
            May(c, what) /\ answer' = [answer EXCEPT ![c] = what]
    /\ UNCHANGED <<req, ledger>>

Next ==
    \/ \E c \in Clients : Submit(c) \/ Record(c) \/ Tell(c)
    \/ \E i \in Ids : Fulfil(i)

Spec == Init /\ [][Next]_vars

=============================================================================
