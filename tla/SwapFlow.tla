------------------------------ MODULE SwapFlow ------------------------------
(***************************************************************************)
(* Operations that share one account: swaps (executeSwap of packages/swap, *)
(* with its provider) and sends (MoneyOS.send of client.ts), over one      *)
(* EOAExecutor (eoa.ts) and the chain.                                     *)
(*                                                                         *)
(* A step ends where an operation waits: for the provider, for a read, for *)
(* the broadcast or the receipt of a transaction. One token and the native *)
(* one; fees are left out. The nonces of one executor are in order, so the *)
(* transactions of the account are mined in the order of their broadcast.  *)
(* An operation that its arguments refuse sends nothing and is left out.   *)
(***************************************************************************)
EXTENDS Naturals, Sequences, FiniteSets, FiniteSetsExt

CONSTANTS Ops,           \* operations
          Amounts,       \* amounts they are asked to move
          Routers,       \* contracts a provider sends swaps to
          None,          \* no router
          Funds,         \* what the account has of each token
          NetworkFails,  \* provider and RPC calls may fail
          RouterReverts, \* a router may refuse a swap (the price has moved)
          ReceiptFails   \* waiting for a receipt may fail

ASSUME OpsAssumption == IsFiniteSet(Ops)
ASSUME AmountsAssumption == Amounts \subseteq Nat /\ Funds \in Nat
ASSUME RoutersAssumption == None \notin Routers
ASSUME EnvironmentAssumption ==
    {NetworkFails, RouterReverts, ReceiptFails} \subseteq BOOLEAN

VARIABLES op,        \* kind, amount, router, the allowance it has read, and
                     \* whether no other operation has overlapped it
          stage,     \* where each operation is
          pending,   \* transactions that wait to be mined
          outcome,   \* what became of each transaction
          token,     \* the account's balances
          native,
          allowance  \* what each router may take of the token

vars == <<op, stage, pending, outcome, token, native, allowance>>

Kinds == {"swap", "nativeSwap", "send", "nativeSend"}
Txs == Ops \X {"approve", "main"}
Ended == {"done", "failed"}
Allowances == UNION {0..a : a \in Amounts \cup {0}}

TypeOK ==
    /\ op \in [Ops -> [kind : Kinds, amount : Amounts \cup {0},
                       router : Routers \cup {None}, seen : Nat, alone : BOOLEAN]]
    /\ stage \in [Ops -> Ended \cup {"idle", "quote", "assemble", "allowance",
                                    "approve", "approving", "main", "sending"}]
    /\ pending \in Seq(Txs)
    /\ outcome \in [Txs -> {"none", "pending", "ok", "reverted"}]
    /\ {token, native} \subseteq 0..Funds
    /\ allowance \in [Routers -> Allowances]

Init ==
    /\ op = [o \in Ops |-> [kind |-> "send", amount |-> 0, router |-> None,
                            seen |-> 0, alone |-> TRUE]]
    /\ stage = [o \in Ops |-> "idle"]
    /\ pending = <<>>
    /\ outcome = [t \in Txs |-> "none"]
    /\ token = Funds /\ native = Funds
    /\ allowance = [r \in Routers |-> 0]

-----------------------------------------------------------------------------
(* Swaps and sends, up to their transactions. *)

GoTo(o, where) == stage' = [stage EXCEPT ![o] = where]

chain == <<pending, outcome, token, native, allowance>>

(* Nothing of the operation is still to come, on the chain either. *)
Settled(o) ==
    /\ stage[o] \in Ended \cup {"idle"}
    /\ \A what \in {"approve", "main"} : outcome[<<o, what>>] # "pending"

(* The operations once o has begun: what it meets is no longer alone. *)
Started(o, kind, a) ==
    [q \in Ops |->
        IF q # o THEN [op[q] EXCEPT !.alone = @ /\ Settled(q)]
        ELSE [op[o] EXCEPT !.kind = kind, !.amount = a,
                           !.alone = \A other \in Ops : Settled(other)]]

Begin(o, kinds, where) ==
    /\ stage[o] = "idle"
    /\ \E kind \in kinds, a \in Amounts : op' = Started(o, kind, a)
    /\ GoTo(o, where)
    /\ UNCHANGED chain

BeginSwap(o) == Begin(o, {"swap", "nativeSwap"}, "quote")

BeginSend(o) == Begin(o, {"send", "nativeSend"}, "main")

CallFails(o) ==
    /\ NetworkFails
    /\ stage[o] \in {"quote", "assemble", "allowance", "approve", "main"}
    /\ GoTo(o, "failed")
    /\ UNCHANGED <<op, chain>>

getQuote(o) ==
    /\ stage[o] = "quote"
    /\ GoTo(o, "assemble")
    /\ UNCHANGED <<op, chain>>

(* The native token needs no approval. *)
getCalldata(o) ==
    /\ stage[o] = "assemble"
    /\ \E r \in Routers : op' = [op EXCEPT ![o].router = r]
    /\ GoTo(o, IF op[o].kind = "nativeSwap" THEN "main" ELSE "allowance")
    /\ UNCHANGED chain

(* A variant that takes any allowance for enough. *)
AnyAllowance(current, amount) == current > 0

Covers(current, amount) == current >= amount

ReadAllowance(o) ==
    /\ stage[o] = "allowance"
    /\ LET current == allowance[op[o].router]
       IN  /\ op' = [op EXCEPT ![o].seen = current]
           /\ GoTo(o, IF Covers(current, op[o].amount) THEN "main" ELSE "approve")
    /\ UNCHANGED chain

-----------------------------------------------------------------------------
(* The chain. *)

(* A variant that approves without limit. *)
Unlimited(o) == Funds + 1

(* A variant that adds to the allowance it has read. *)
TopUp(o) == op[o].seen + op[o].amount

Approved(o) == op[o].amount

(* Whether the transaction runs in the state that is mined. *)
Runs(t) ==
    LET o == t[1]
        a == op[o].amount
    IN  \/ t[2] = "approve"
        \/ op[o].kind = "swap" /\ token >= a /\ allowance[op[o].router] >= a
        \/ op[o].kind = "send" /\ token >= a
        \/ op[o].kind \in {"nativeSwap", "nativeSend"} /\ native >= a

(* The value that a provider asks for with a swap of a token (tool.ts:98)  *)
(* is taken to be none.                                                    *)
Effect(t) ==
    LET o == t[1]
        a == op[o].amount
        r == op[o].router
    IN  CASE t[2] = "approve" ->
               /\ allowance' = [allowance EXCEPT ![r] = Approved(o)]
               /\ UNCHANGED <<token, native>>
          [] t[2] = "main" /\ op[o].kind \in {"swap", "send"} ->
               /\ token' = token - a
               /\ allowance' = IF op[o].kind = "send" THEN allowance
                               ELSE [allowance EXCEPT ![r] = @ - a]
               /\ UNCHANGED native
          [] OTHER -> native' = native - a /\ UNCHANGED <<token, allowance>>

Mine ==
    /\ pending # <<>>
    /\ pending' = Tail(pending)
    /\ LET t == Head(pending)
       IN  \/ /\ Runs(t) /\ Effect(t)
              /\ outcome' = [outcome EXCEPT ![t] = "ok"]
           \/ /\ ~Runs(t) \/ (RouterReverts /\ t[2] = "main"
                              /\ op[t[1]].kind \in {"swap", "nativeSwap"})
              /\ outcome' = [outcome EXCEPT ![t] = "reverted"]
              /\ UNCHANGED <<token, native, allowance>>
    /\ UNCHANGED <<op, stage>>

-----------------------------------------------------------------------------
(* EOAExecutor.send. *)

Tx(o) == <<o, IF stage[o] \in {"approve", "approving"} THEN "approve" ELSE "main">>

(* sendTransaction estimates the call in the mined state, and broadcasts.  *)
Broadcast(o) ==
    /\ stage[o] \in {"approve", "main"}
    /\ \/ /\ Runs(Tx(o))
          /\ pending' = Append(pending, Tx(o))
          /\ outcome' = [outcome EXCEPT ![Tx(o)] = "pending"]
          /\ GoTo(o, IF stage[o] = "approve" THEN "approving" ELSE "sending")
       \/ ~Runs(Tx(o)) /\ GoTo(o, "failed") /\ UNCHANGED <<pending, outcome>>
    /\ UNCHANGED <<op, token, native, allowance>>

(* A variant that resolves on broadcast. *)
Resolved(t) == TRUE

Included(t) == outcome[t] # "pending"

(* The receipt: a revert throws, an approval goes on, the rest is reported. *)
Receive(o) ==
    /\ stage[o] \in {"approving", "sending"}
    /\ Included(Tx(o))
    /\ GoTo(o, IF outcome[Tx(o)] = "reverted" THEN "failed"
               ELSE IF stage[o] = "approving" THEN "main" ELSE "done")
    /\ UNCHANGED <<op, chain>>

ReceiptLost(o) ==
    /\ ReceiptFails /\ stage[o] \in {"approving", "sending"}
    /\ GoTo(o, "failed")
    /\ UNCHANGED <<op, chain>>

Next ==
    \/ Mine
    \/ \E o \in Ops :
          \/ BeginSwap(o) \/ BeginSend(o) \/ CallFails(o) \/ getQuote(o)
          \/ getCalldata(o) \/ ReadAllowance(o) \/ Broadcast(o) \/ Receive(o)
          \/ ReceiptLost(o)

Spec == Init /\ [][Next]_vars

-----------------------------------------------------------------------------
(* Properties. *)

Through(r) == {o \in Ops : op[o].kind = "swap" /\ op[o].router = r}
Total(S) == MapThenSumSet(LAMBDA o : op[o].amount, S)

(* However swaps fail, overlap and find what others have approved, a       *)
(* router can never take more, in all, than the swaps through it were      *)
(* asked to move (tool.ts:89 approves the amount, and not what is missing). *)
NeverMoreThanAsked ==
    \A r \in Routers :
        allowance[r] + Total({o \in Through(r) : outcome[<<o, "main">>] = "ok"})
            <= Total(Through(r))

(* An operation that reports success has moved its tokens, whatever failed *)
(* or ran beside it (eoa.ts:153).                                          *)
DoneMeansMoved ==
    \A o \in Ops : stage[o] = "done" => outcome[<<o, "main">>] = "ok"

(* The comment at eoa.ts:141, "approve then swap": a swap that no other    *)
(* operation overlaps is not sent before an allowance that covers it is    *)
(* mined, whatever allowances failed swaps have left for it.               *)
AllowanceHolds ==
    \A o \in Ops :
        op[o].kind = "swap" /\ stage[o] = "main" /\ op[o].alone =>
            allowance[op[o].router] >= op[o].amount

=============================================================================
