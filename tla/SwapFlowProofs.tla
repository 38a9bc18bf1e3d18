--------------------------- MODULE SwapFlowProofs ---------------------------
(***************************************************************************)
(* Proofs about SwapFlow, for any operations, amounts, routers and funds.  *)
(* They rest on the inductive invariant IInv: what is queued, what the     *)
(* stage of an operation says about its transactions, and that of an       *)
(* operation that runs alone nothing else is under way. For what routers   *)
(* may take in all, it is joined by FreshInv and SumInv.                   *)
(***************************************************************************)
EXTENDS SwapFlow, Induction

(* A queued transaction is pending, and queued once. *)
QueueInv ==
    /\ \A i \in 1..Len(pending) : outcome[pending[i]] = "pending"
    /\ \A i, j \in 1..Len(pending) : pending[i] = pending[j] => i = j

(* What an operation has sent, by its stage. *)
Sent(o) ==
    /\ stage[o] \in {"idle", "quote", "assemble", "allowance", "approve"} =>
          outcome[<<o, "approve">>] = "none"
    /\ stage[o] \in {"idle", "quote", "assemble", "allowance", "approve",
                     "approving", "main"} =>
          outcome[<<o, "main">>] = "none"
    /\ stage[o] = "approving" => outcome[<<o, "approve">>] # "none"
    /\ stage[o] \in {"main", "sending", "done"} =>
          outcome[<<o, "approve">>] \in {"none", "ok"}
    /\ stage[o] = "sending" => outcome[<<o, "main">>] # "none"
    /\ stage[o] = "done" => outcome[<<o, "main">>] = "ok"

SentInv == \A o \in Ops : Sent(o)

(* A swap that has a calldata has its router. *)
Routed(o) ==
    /\ stage[o] \in {"quote", "assemble"} => op[o].kind \in {"swap", "nativeSwap"}
    /\ stage[o] \in {"allowance", "approve", "approving"}
          \/ outcome[<<o, "approve">>] # "none" =>
          op[o].kind = "swap" /\ op[o].router \in Routers
    /\ op[o].kind = "swap"
          /\ (stage[o] = "main" \/ outcome[<<o, "main">>] # "none") =>
          op[o].router \in Routers

RouterInv == \A o \in Ops : Routed(o)

(* Beside an operation that runs alone, nothing is under way. *)
AloneInv ==
    \A o \in Ops :
        op[o].alone /\ ~Settled(o) => \A q \in Ops : q # o => Settled(q)

(* A swap that runs alone has its allowance from the mined approval on. *)
Covered(o) ==
    /\ op[o].kind = "swap" /\ op[o].alone
    /\ \/ stage[o] = "main"
       \/ stage[o] = "approving" /\ outcome[<<o, "approve">>] = "ok"
    => allowance[op[o].router] >= op[o].amount

CoverInv == \A o \in Ops : Covered(o)

IInv == TypeOK /\ QueueInv /\ SentInv /\ RouterInv /\ AloneInv /\ CoverInv

-----------------------------------------------------------------------------
(* Types. *)

(* The set TypeOK takes stages from. *)
Stages == Ended \cup {"idle", "quote", "assemble", "allowance", "approve",
                      "approving", "main", "sending"}

(* Amounts are allowances, and so is what is left of one. *)
LEMMA AllowanceType ==
    /\ Allowances \subseteq Nat
    /\ 0 \in Allowances
    /\ \A a \in Amounts : a \in Allowances
    /\ \A m \in Allowances, n \in Nat : n <= m => m - n \in Allowances
BY AmountsAssumption DEF Allowances

(* Types hold initially. *)
LEMMA InitType == Init => TypeOK
BY AmountsAssumption, AllowanceType DEF Init, TypeOK, Kinds, Txs, Ended

(* Initially, nothing is under way. *)
LEMMA InitKeeps == Init => IInv
<1> SUFFICES ASSUME Init PROVE IInv OBVIOUS
<1>1. TypeOK
  BY InitType
<1>2. \A t \in Txs : outcome[t] = "none"
  BY DEF Init
<1>3. \A o \in Ops : <<o, "approve">> \in Txs /\ <<o, "main">> \in Txs
  BY DEF Txs
<1>4. QueueInv
  BY DEF Init, QueueInv
<1>5. SentInv
  BY <1>2, <1>3 DEF Init, SentInv, Sent
<1>6. RouterInv
  BY <1>2, <1>3 DEF Init, RouterInv, Routed
<1>7. AloneInv
  BY <1>2, <1>3 DEF Init, AloneInv, Settled
<1>8. CoverInv
  BY DEF Init, CoverInv, Covered
<1> QED BY <1>1, <1>4, <1>5, <1>6, <1>7, <1>8 DEF IInv

(* Each operation has two transactions. *)
LEMMA TxPairs ==
    /\ \A o \in Ops : <<o, "approve">> \in Txs /\ <<o, "main">> \in Txs
    /\ \A t \in Txs : /\ t[1] \in Ops /\ t[2] \in {"approve", "main"}
                      /\ t = <<t[1], t[2]>>
BY DEF Txs

(* The set TypeOK takes operations from. *)
JobTypes == [kind : Kinds, amount : Amounts \cup {0}, router : Routers \cup {None},
             seen : Nat, alone : BOOLEAN]

(* A step of an operation that sends nothing. *)
Quiet(o) ==
    \/ BeginSwap(o) \/ BeginSend(o) \/ CallFails(o) \/ getQuote(o)
    \/ getCalldata(o) \/ ReadAllowance(o) \/ Receive(o) \/ ReceiptLost(o)

(* It leaves the chain and, but for being alone, the other operations. *)
LEMMA QuietFrame ==
    ASSUME TypeOK, NEW o \in Ops, Quiet(o)
    PROVE  /\ UNCHANGED chain
           /\ stage' = [stage EXCEPT ![o] = stage'[o]]
           /\ \A q \in Ops : q # o =>
                 /\ stage'[q] = stage[q] /\ op'[q].kind = op[q].kind
                 /\ op'[q].amount = op[q].amount /\ op'[q].router = op[q].router
<1>1. CASE BeginSwap(o) \/ BeginSend(o)
  <2>1. PICK kind \in Kinds, a \in Amounts :
          op' = Started(o, kind, a)
    BY <1>1 DEF BeginSwap, BeginSend, Begin, Kinds
  <2>2. ASSUME NEW q \in Ops, q # o
        PROVE  /\ op'[q].kind = op[q].kind /\ op'[q].amount = op[q].amount
               /\ op'[q].router = op[q].router
    <3>1. op'[q] = [op[q] EXCEPT !.alone = op[q].alone /\ Settled(q)]
      BY <2>1, <2>2 DEF Started
    <3> QED BY <3>1 DEF TypeOK
  <2> QED BY <1>1, <2>2 DEF BeginSwap, BeginSend, Begin, GoTo, chain, TypeOK
<1>2. CASE getCalldata(o)
  BY <1>2 DEF getCalldata, GoTo, chain, TypeOK
<1>3. CASE ReadAllowance(o)
  BY <1>3 DEF ReadAllowance, GoTo, chain, TypeOK
<1>4. CASE CallFails(o) \/ getQuote(o) \/ Receive(o) \/ ReceiptLost(o)
  BY <1>4 DEF CallFails, getQuote, Receive, ReceiptLost, GoTo, chain, TypeOK
<1> QED BY <1>1, <1>2, <1>3, <1>4 DEF Quiet

(* How an operation begins. *)
LEMMA Begun ==
    ASSUME TypeOK, NEW o \in Ops
    PROVE  /\ BeginSwap(o) => /\ op'[o].kind \in {"swap", "nativeSwap"}
                             /\ stage[o] = "idle" /\ stage'[o] = "quote"
           /\ BeginSend(o) => /\ op'[o].kind \in {"send", "nativeSend"}
                             /\ stage[o] = "idle" /\ stage'[o] = "main"
<1>1. ASSUME NEW kind, NEW a, op' = Started(o, kind, a)
      PROVE  op'[o].kind = kind
  <2> DEFINE b == \A other \in Ops : Settled(other)
  <2>1. op'[o] = [op[o] EXCEPT !.kind = kind, !.amount = a, !.alone = b]
    BY <1>1 DEF Started
  <2> HIDE DEF b
  <2> QED BY <2>1 DEF TypeOK
<1>2. \A where : GoTo(o, where) => stage'[o] = where
  BY DEF GoTo, TypeOK
<1> QED BY <1>1, <1>2 DEF BeginSwap, BeginSend, Begin

(* It keeps the types. *)
LEMMA QuietType ==
    ASSUME TypeOK, NEW o \in Ops, Quiet(o), RouterInv
    PROVE  TypeOK'
<1>1. stage' \in [Ops -> Stages]
  BY DEF Quiet, TypeOK, BeginSwap, BeginSend, Begin, CallFails, getQuote,
         getCalldata, ReadAllowance, Receive, ReceiptLost, GoTo, Stages, Ended
<1>2. op' \in [Ops -> [kind : Kinds, amount : Amounts \cup {0},
                       router : Routers \cup {None}, seen : Nat, alone : BOOLEAN]]
  <2>1. CASE BeginSwap(o) \/ BeginSend(o)
    <3>1. PICK kind \in Kinds, a \in Amounts :
            op' = Started(o, kind, a)
      BY <2>1 DEF BeginSwap, BeginSend, Begin, Kinds
    <3>2. \A q \in Ops : Settled(q) \in BOOLEAN
      BY DEF Settled
    <3>3. ASSUME NEW q \in Ops, NEW b \in BOOLEAN
          PROVE  /\ [op[q] EXCEPT !.alone = b] \in JobTypes
                 /\ [op[q] EXCEPT !.kind = kind, !.amount = a, !.alone = b] \in JobTypes
      BY DEF TypeOK, JobTypes
    <3>4. ASSUME NEW q \in Ops PROVE op'[q] \in JobTypes
      <4>1. CASE q = o
        <5> DEFINE b == \A other \in Ops : Settled(other)
        <5>1. b \in BOOLEAN OBVIOUS
        <5>2. op'[q] = [op[o] EXCEPT !.kind = kind, !.amount = a, !.alone = b]
          BY <3>1, <4>1 DEF Started
        <5> HIDE DEF b
        <5> QED BY <5>1, <5>2, <3>3
      <4>2. CASE q # o
        <5> DEFINE b == op[q].alone /\ Settled(q)
        <5>1. b \in BOOLEAN OBVIOUS
        <5>2. op'[q] = [op[q] EXCEPT !.alone = b]
          BY <3>1, <4>2 DEF Started
        <5> HIDE DEF b
        <5> QED BY <5>1, <5>2, <3>3
      <4> QED BY <4>1, <4>2
    <3>5. op' = [q \in Ops |-> op'[q]]
      BY <3>1 DEF Started
    <3> QED BY <3>4, <3>5 DEF JobTypes
  <2>2. CASE getCalldata(o)
    BY <2>2 DEF getCalldata, TypeOK
  <2>3. CASE ReadAllowance(o)
    <3>1. allowance[op[o].router] \in Nat
      BY <2>3, AllowanceType DEF ReadAllowance, TypeOK, RouterInv, Routed
    <3> QED BY <2>3, <3>1 DEF ReadAllowance, TypeOK
  <2>4. CASE UNCHANGED op
    BY <2>4 DEF TypeOK
  <2> QED BY <2>1, <2>2, <2>3, <2>4
          DEF Quiet, CallFails, getQuote, Receive, ReceiptLost
<1> QED BY <1>1, <1>2, QuietFrame DEF TypeOK, chain, Stages, Ended

(* It keeps what the stages say of transactions. *)
LEMMA QuietSent ==
    ASSUME TypeOK, SentInv, RouterInv, NEW o \in Ops, Quiet(o)
    PROVE  SentInv'
<1> USE QuietFrame
<1>1. \A q \in Ops : q # o => Sent(q)'
  BY DEF SentInv, Sent, chain
<1>2. Sent(o)'
  <2>1. CASE BeginSwap(o) \/ BeginSend(o)
    BY <2>1 DEF SentInv, Sent, TypeOK, chain, BeginSwap, BeginSend, Begin,
       GoTo
  <2>2. CASE CallFails(o) \/ ReceiptLost(o)
    BY <2>2 DEF SentInv, Sent, TypeOK, chain, CallFails, ReceiptLost, GoTo
  <2>3. CASE getQuote(o) \/ getCalldata(o) \/ ReadAllowance(o)
    BY <2>3 DEF SentInv, Sent, TypeOK, chain, getQuote, getCalldata,
       ReadAllowance, GoTo
  <2>4. CASE Receive(o)
    <3>1. outcome[Tx(o)] \in {"ok", "reverted"}
      BY <2>4, TxPairs DEF Receive, Included, Tx, SentInv, Sent, TypeOK
    <3> QED BY <2>4, <3>1 DEF Receive, Tx, GoTo, SentInv, Sent, TypeOK, chain
  <2> QED BY <2>1, <2>2, <2>3, <2>4 DEF Quiet
<1> QED BY <1>1, <1>2 DEF SentInv

(* It keeps what is known of routers. *)
LEMMA QuietRouted ==
    ASSUME TypeOK, SentInv, RouterInv, NEW o \in Ops, Quiet(o)
    PROVE  RouterInv'
<1> USE QuietFrame
<1>1. \A q \in Ops : q # o => Routed(q)'
  BY DEF RouterInv, Routed, chain
<1>2. Routed(o)'
  <2>1. CASE BeginSwap(o)
    BY <2>1, Begun DEF Routed, SentInv, Sent, chain
  <2>2. CASE BeginSend(o)
    BY <2>2, Begun DEF Routed, SentInv, Sent, chain
  <2>3. CASE CallFails(o) \/ ReceiptLost(o)
    BY <2>3 DEF RouterInv, Routed, TypeOK, chain, CallFails, ReceiptLost, GoTo
  <2>4. CASE getQuote(o)
    BY <2>4 DEF RouterInv, Routed, TypeOK, chain, getQuote, GoTo
  <2>5. CASE getCalldata(o)
    BY <2>5 DEF RouterInv, Routed, SentInv, Sent, TypeOK, chain, getCalldata,
       GoTo
  <2>6. CASE ReadAllowance(o)
    BY <2>6 DEF RouterInv, Routed, TypeOK, chain, ReadAllowance, GoTo
  <2>7. CASE Receive(o)
    BY <2>7 DEF RouterInv, Routed, SentInv, Sent, TypeOK, chain, Receive, GoTo
  <2> QED BY <2>1, <2>2, <2>3, <2>4, <2>5, <2>6, <2>7 DEF Quiet
<1> QED BY <1>1, <1>2 DEF RouterInv

(* Only a beginning changes who is alone, and nobody but the operation     *)
(* itself comes to be under way.                                           *)
LEMMA QuietAlone ==
    ASSUME TypeOK, SentInv, AloneInv, NEW o \in Ops, Quiet(o)
    PROVE  AloneInv'
<1>1. ASSUME NEW q \in Ops, q # o
      PROVE  Settled(q)' <=> Settled(q)
  BY <1>1, QuietFrame DEF Settled, chain
<1>2. CASE BeginSwap(o) \/ BeginSend(o)
  <2>1. PICK kind \in Kinds, a \in Amounts : op' = Started(o, kind, a)
    BY <1>2 DEF BeginSwap, BeginSend, Begin, Kinds
  <2>2. op'[o].alone => \A q \in Ops : Settled(q)
    BY <2>1 DEF Started, TypeOK
  <2>3. ASSUME NEW q \in Ops, q # o, op'[q].alone
        PROVE  Settled(q)'
    <3>1. op'[q] = [op[q] EXCEPT !.alone = op[q].alone /\ Settled(q)]
      BY <2>1, <2>3 DEF Started
    <3>2. Settled(q)
      BY <2>3, <3>1 DEF TypeOK
    <3> QED BY <3>2, <2>3, <1>1
  <2> QED BY <1>1, <2>2, <2>3 DEF AloneInv
<1>3. CASE ~(BeginSwap(o) \/ BeginSend(o))
  <2>1. ~Settled(o)
    BY <1>3 DEF Quiet, CallFails, getQuote, getCalldata, ReadAllowance,
       Receive, ReceiptLost, Settled, Ended
  <2>2. \A q \in Ops : op'[q].alone = op[q].alone
    <3>1. CASE getCalldata(o)
      BY <3>1 DEF getCalldata, TypeOK
    <3>2. CASE ReadAllowance(o)
      BY <3>2 DEF ReadAllowance, TypeOK
    <3>3. CASE UNCHANGED op
      BY <3>3
    <3> QED BY <1>3, <3>1, <3>2, <3>3
            DEF Quiet, CallFails, getQuote, Receive, ReceiptLost
  <2> QED BY <1>1, <2>1, <2>2 DEF AloneInv
<1> QED BY <1>2, <1>3

(* A swap that goes on to be sent has seen its allowance. *)
LEMMA QuietCovered ==
    ASSUME TypeOK, SentInv, RouterInv, CoverInv, NEW o \in Ops, Quiet(o)
    PROVE  CoverInv'
<1> USE QuietFrame
<1>1. CASE BeginSwap(o) \/ BeginSend(o)
  <2>1. PICK kind \in Kinds, a \in Amounts : op' = Started(o, kind, a)
    BY <1>1 DEF BeginSwap, BeginSend, Begin, Kinds
  <2>2. ASSUME NEW q \in Ops, q # o PROVE Covered(q)'
    <3>1. op'[q] = [op[q] EXCEPT !.alone = op[q].alone /\ Settled(q)]
      BY <2>1, <2>2 DEF Started
    <3>2. op'[q].alone => op[q].alone
      BY <3>1 DEF TypeOK
    <3> QED BY <2>2, <3>2 DEF CoverInv, Covered, chain
  <2>3. Covered(o)'
    <3>1. CASE BeginSwap(o)
      BY <3>1, Begun DEF Covered
    <3>2. CASE BeginSend(o)
      BY <3>2, Begun DEF Covered
    <3> QED BY <1>1, <3>1, <3>2
  <2> QED BY <2>2, <2>3 DEF CoverInv
<1>2. CASE ~(BeginSwap(o) \/ BeginSend(o))
  <2>1. ASSUME NEW q \in Ops, q # o PROVE Covered(q)'
    <3>1. op'[q] = op[q]
      BY <1>2, <2>1 DEF Quiet, CallFails, getQuote, getCalldata,
         ReadAllowance, Receive, ReceiptLost, TypeOK
    <3> QED BY <2>1, <3>1 DEF CoverInv, Covered, chain
  <2>2. Covered(o)'
    <3>1. CASE CallFails(o) \/ getQuote(o) \/ ReceiptLost(o)
      BY <3>1 DEF CallFails, getQuote, ReceiptLost, GoTo, Covered, TypeOK
    <3>2. CASE getCalldata(o)
      BY <3>2 DEF getCalldata, GoTo, Covered, TypeOK
    <3>3. CASE ReadAllowance(o)
      <4>1. /\ op'[o].router = op[o].router /\ op'[o].amount = op[o].amount
            /\ allowance' = allowance
            /\ stage'[o] = "main" => allowance[op[o].router] >= op[o].amount
            /\ stage'[o] \in {"main", "approve"}
        BY <3>3 DEF ReadAllowance, GoTo, Covers, TypeOK, chain
      <4> QED BY <4>1 DEF Covered
    <3>4. CASE Receive(o)
      <4>1. UNCHANGED <<op, allowance, outcome>>
        BY <3>4 DEF Receive, chain
      <4>2. /\ stage'[o] \in {"failed", "main", "done"}
            /\ stage'[o] = "main" =>
                  stage[o] = "approving" /\ outcome[<<o, "approve">>] = "ok"
        <5>1. CASE stage[o] = "approving"
          <6>1. Tx(o) = <<o, "approve">> /\ outcome[Tx(o)] \in {"ok", "reverted"}
            BY <3>4, <5>1, TxPairs DEF Receive, Included, Tx, SentInv, Sent,
               TypeOK
          <6> QED BY <3>4, <5>1, <6>1 DEF Receive, GoTo, TypeOK
        <5>2. CASE stage[o] = "sending"
          BY <3>4, <5>2 DEF Receive, GoTo, TypeOK
        <5> QED BY <3>4, <5>1, <5>2 DEF Receive
      <4> QED BY <4>1, <4>2 DEF CoverInv, Covered
    <3> QED BY <1>2, <3>1, <3>2, <3>3, <3>4 DEF Quiet
  <2> QED BY <2>1, <2>2 DEF CoverInv
<1> QED BY <1>1, <1>2

(* A step that sends nothing keeps the invariant. *)
LEMMA QuietKeeps ==
    ASSUME IInv, NEW o \in Ops, Quiet(o)
    PROVE  IInv'
<1>1. QueueInv'
  BY QuietFrame DEF IInv, QueueInv, chain
<1> QED BY <1>1, QuietType, QuietSent, QuietRouted, QuietAlone, QuietCovered DEF IInv

-----------------------------------------------------------------------------
(* Broadcasting. *)

(* What an operation is about to send has not been sent. *)
LEMMA NotSent ==
    ASSUME TypeOK, SentInv, NEW o \in Ops, stage[o] \in {"approve", "main"}
    PROVE  /\ Tx(o) = <<o, stage[o]>> /\ Tx(o) \in Txs
           /\ outcome[Tx(o)] = "none"
BY TxPairs DEF Tx, SentInv, Sent

(* A broadcast keeps the invariant. *)
LEMMA BroadcastKeeps ==
    ASSUME IInv, NEW o \in Ops, Broadcast(o)
    PROVE  IInv'
<1> USE DEF IInv
<1> DEFINE t == Tx(o)
<1>1. stage[o] \in {"approve", "main"} /\ UNCHANGED <<op, token, native, allowance>>
  BY DEF Broadcast
<1>2. t = <<o, stage[o]>> /\ t \in Txs /\ outcome[t] = "none"
  BY <1>1, NotSent
<1>3. CASE pending' = pending /\ outcome' = outcome /\ GoTo(o, "failed")
  <2>1. TypeOK'
    BY <1>1, <1>3 DEF TypeOK, GoTo, Ended
  <2>2. QueueInv'
    BY <1>3 DEF QueueInv
  <2>3. SentInv'
    BY <1>3 DEF SentInv, Sent, GoTo, TypeOK
  <2>4. RouterInv'
    BY <1>1, <1>3 DEF RouterInv, Routed, GoTo, TypeOK
  <2>5. AloneInv'
    <3>1. ~Settled(o)
      BY <1>1 DEF Settled, Ended
    <3>2. \A q \in Ops : q # o => (Settled(q)' <=> Settled(q))
      BY <1>3 DEF Settled, GoTo, TypeOK
    <3> QED BY <1>1, <3>1, <3>2 DEF AloneInv
  <2>6. CoverInv'
    BY <1>1, <1>3 DEF CoverInv, Covered, GoTo, TypeOK
  <2> QED BY <2>1, <2>2, <2>3, <2>4, <2>5, <2>6
<1>4. CASE /\ pending' = Append(pending, t)
           /\ outcome' = [outcome EXCEPT ![t] = "pending"]
           /\ GoTo(o, IF stage[o] = "approve" THEN "approving" ELSE "sending")
  <2> USE <1>1, <1>2
  <2>1. stage' = [stage EXCEPT ![o] = IF stage[o] = "approve" THEN "approving"
                                      ELSE "sending"]
    BY <1>4 DEF GoTo
  <2>2. TypeOK'
    BY <1>4, <2>1 DEF TypeOK, Ended
  <2>3. \A u \in Txs : outcome'[u] = IF u = t THEN "pending" ELSE outcome[u]
    BY <1>4 DEF TypeOK
  <2>4. \A q \in Ops : q # o =>
            /\ stage'[q] = stage[q]
            /\ outcome'[<<q, "approve">>] = outcome[<<q, "approve">>]
            /\ outcome'[<<q, "main">>] = outcome[<<q, "main">>]
    BY <2>1, <2>3, TxPairs DEF TypeOK
  <2>5. QueueInv'
    <3>1. /\ Len(pending') = Len(pending) + 1 /\ pending'[Len(pending) + 1] = t
          /\ Len(pending) \in Nat
          /\ \A i \in 1..Len(pending) : pending'[i] = pending[i] /\ pending[i] \in Txs
      BY <1>4 DEF TypeOK
    <3>2. \A i \in 1..Len(pending) : pending[i] # t
      BY DEF QueueInv
    <3> QED BY <3>1, <3>2, <2>3 DEF QueueInv
  <2>6. SentInv'
    <3>1. \A q \in Ops : q # o => Sent(q)'
      BY <2>4 DEF SentInv, Sent
    <3>2. Sent(o)'
      BY <2>1, <2>3, TxPairs DEF SentInv, Sent, TypeOK
    <3> QED BY <3>1, <3>2 DEF SentInv
  <2>7. RouterInv'
    <3>1. \A q \in Ops : q # o => Routed(q)'
      BY <2>4 DEF RouterInv, Routed
    <3>2. Routed(o)'
      BY <2>1, <2>3, TxPairs DEF RouterInv, Routed, TypeOK
    <3> QED BY <3>1, <3>2 DEF RouterInv
  <2>8. AloneInv'
    <3>1. ~Settled(o)
      BY DEF Settled, Ended
    <3>2. \A q \in Ops : q # o => (Settled(q)' <=> Settled(q))
      BY <2>4 DEF Settled
    <3> QED BY <3>1, <3>2 DEF AloneInv
  <2>9. CoverInv'
    <3>1. \A q \in Ops : q # o => Covered(q)'
      BY <2>4 DEF CoverInv, Covered
    <3>2. Covered(o)'
      <4>1. stage'[o] # "main"
        BY <2>1 DEF TypeOK
      <4>2. stage'[o] = "approving" => outcome'[<<o, "approve">>] = "pending"
        BY <2>1, <2>3, TxPairs DEF TypeOK
      <4> QED BY <4>1, <4>2 DEF Covered
    <3> QED BY <3>1, <3>2 DEF CoverInv
  <2> QED BY <2>2, <2>5, <2>6, <2>7, <2>8, <2>9
<1> QED BY <1>3, <1>4, NotSent DEF Broadcast

-----------------------------------------------------------------------------
(* Mining. *)

(* What is mined was pending. *)
LEMMA Mined ==
    ASSUME TypeOK, QueueInv, Mine
    PROVE  LET t == Head(pending)
           IN  /\ t \in Txs /\ outcome[t] = "pending"
               /\ \/ outcome' = [outcome EXCEPT ![t] = "ok"] /\ Runs(t) /\ Effect(t)
                  \/ /\ outcome' = [outcome EXCEPT ![t] = "reverted"]
                     /\ UNCHANGED <<token, native, allowance>>
               /\ UNCHANGED <<op, stage>>
<1>1. pending # <<>> /\ pending \in Seq(Txs)
  BY DEF Mine, TypeOK
<1>2. Head(pending) = pending[1] /\ 1 \in 1..Len(pending) /\ pending[1] \in Txs
  BY <1>1
<1> QED BY <1>2 DEF Mine, QueueInv

(* What a mined transaction does to balances and allowances. *)
LEMMA EffectType ==
    ASSUME TypeOK, RouterInv, NEW t \in Txs, outcome[t] = "pending",
           Runs(t), Effect(t)
    PROVE  /\ {token', native'} \subseteq 0..Funds
           /\ allowance' \in [Routers -> Allowances]
<1> DEFINE o == t[1]
           a == op[o].amount
           r == op[o].router
<1>1. o \in Ops /\ t = <<o, t[2]>> /\ t[2] \in {"approve", "main"}
  BY TxPairs
<1>2. a \in Nat /\ a \in Allowances /\ op[o].kind \in Kinds
  BY <1>1, AmountsAssumption, AllowanceType DEF TypeOK
<1>3. token \in 0..Funds /\ native \in 0..Funds /\ Funds \in Nat
  BY AmountsAssumption DEF TypeOK
<1>4. CASE t[2] = "approve"
  <2>1. r \in Routers
    BY <1>1, <1>4 DEF RouterInv, Routed
  <2>2. allowance' = [allowance EXCEPT ![r] = a] /\ UNCHANGED <<token, native>>
    BY <1>4 DEF Effect, Approved
  <2> QED BY <1>2, <1>3, <2>1, <2>2 DEF TypeOK
<1>5. CASE t[2] = "main" /\ op[o].kind = "swap"
  <2>1. r \in Routers
    BY <1>1, <1>5 DEF RouterInv, Routed
  <2>2. /\ token' = token - a /\ native' = native
        /\ allowance' = [allowance EXCEPT ![r] = allowance[r] - a]
    BY <1>5 DEF Effect
  <2>3. token >= a /\ allowance[r] >= a
    BY <1>5 DEF Runs
  <2>4. allowance[r] - a \in Allowances
    BY <1>2, <2>1, <2>3, AllowanceType DEF TypeOK
  <2>5. token' \in 0..Funds
    BY <1>2, <1>3, <2>2, <2>3
  <2> QED BY <1>3, <2>1, <2>2, <2>4, <2>5 DEF TypeOK
<1>6. CASE t[2] = "main" /\ op[o].kind = "send"
  <2>1. token' = token - a /\ UNCHANGED <<native, allowance>>
    BY <1>6 DEF Effect
  <2>2. token >= a
    BY <1>6 DEF Runs
  <2>3. token' \in 0..Funds
    BY <1>2, <1>3, <2>1, <2>2
  <2> QED BY <1>3, <2>1, <2>3 DEF TypeOK
<1>7. CASE t[2] = "main" /\ op[o].kind \in {"nativeSwap", "nativeSend"}
  <2>1. native' = native - a /\ UNCHANGED <<token, allowance>>
    BY <1>7 DEF Effect
  <2>2. native >= a
    BY <1>7 DEF Runs
  <2>3. native' \in 0..Funds
    BY <1>2, <1>3, <2>1, <2>2
  <2> QED BY <1>3, <2>1, <2>3 DEF TypeOK
<1> QED BY <1>1, <1>2, <1>4, <1>5, <1>6, <1>7 DEF Kinds

(* A block keeps the invariant: the account's other transactions cannot    *)
(* take the allowance of a swap that runs alone.                           *)
LEMMA MineKeeps ==
    ASSUME IInv, Mine
    PROVE  IInv'
<1> USE DEF IInv
<1> DEFINE t == Head(pending)
<1>1. t \in Txs /\ outcome[t] = "pending" /\ UNCHANGED <<op, stage>>
  BY Mined
<1>2. /\ \A u \in Txs : u # t => outcome'[u] = outcome[u]
      /\ outcome'[t] \in {"ok", "reverted"}
      /\ outcome' \in [Txs -> {"none", "pending", "ok", "reverted"}]
  BY Mined DEF TypeOK
<1>3. pending # <<>> /\ pending' = Tail(pending) /\ pending \in Seq(Txs)
  BY DEF Mine, TypeOK
<1>4. /\ {token', native'} \subseteq 0..Funds
      /\ allowance' \in [Routers -> Allowances]
  BY Mined, <1>1, EffectType DEF TypeOK
<1> HIDE DEF t
<1>5. TypeOK'
  BY <1>1, <1>2, <1>3, <1>4 DEF TypeOK
<1>6. QueueInv'
  <2>1. /\ t = pending[1] /\ Len(pending) \in Nat /\ Len(pending) >= 1
        /\ Len(pending') = Len(pending) - 1
        /\ \A i \in 1..Len(pending') : pending'[i] = pending[i + 1]
        /\ \A i \in 1..Len(pending) : pending[i] \in Txs
    BY <1>3 DEF t
  <2>2. \A i \in 1..Len(pending') : i + 1 \in 1..Len(pending) /\ i + 1 # 1
    BY <2>1
  <2>3. \A i \in 1..Len(pending') : pending[i + 1] # t
    BY <2>1, <2>2 DEF QueueInv
  <2> QED BY <2>1, <2>2, <2>3, <1>2 DEF QueueInv
<1>7. SentInv'
  BY <1>1, <1>2, TxPairs DEF SentInv, Sent
<1>8. RouterInv'
  BY <1>1, <1>2, TxPairs DEF RouterInv, Routed
<1>9. \A q \in Ops : Settled(q) => Settled(q)'
  BY <1>1, <1>2, TxPairs DEF Settled
<1>10. AloneInv'
  BY <1>1, <1>9 DEF AloneInv
<1>11. CoverInv'
  <2> SUFFICES ASSUME NEW o \in Ops, op[o].kind = "swap", op[o].alone,
                      \/ stage[o] = "main"
                      \/ stage[o] = "approving" /\ outcome'[<<o, "approve">>] = "ok"
               PROVE  allowance'[op[o].router] >= op[o].amount
    BY <1>1 DEF CoverInv, Covered
  <2>1. \A q \in Ops : q # o => Settled(q)
    BY DEF AloneInv, Settled, Ended
  <2>2. t = <<o, "approve">>
    <3>1. t[1] = o
      BY <1>1, <2>1, TxPairs DEF Settled
    <3>2. t # <<o, "main">>
      BY <1>1 DEF SentInv, Sent
    <3> QED BY <1>1, <3>1, <3>2, TxPairs
  <2>3. stage[o] = "approving" /\ outcome'[t] = "ok"
    BY <1>1, <2>2 DEF SentInv, Sent
  <2>4. Effect(t)
    BY <2>3, Mined, <1>1 DEF t, TypeOK
  <2>5. allowance' = [allowance EXCEPT ![op[o].router] = op[o].amount]
    BY <2>2, <2>4 DEF Effect, Approved
  <2>6. op[o].router \in Routers
    BY <2>3 DEF RouterInv, Routed
  <2>7. op[o].amount \in Nat
    BY AllowanceType DEF TypeOK
  <2> QED BY <2>5, <2>6, <2>7 DEF TypeOK
<1> QED BY <1>5, <1>6, <1>7, <1>8, <1>10, <1>11

-----------------------------------------------------------------------------
(* Every step keeps the invariant. *)
LEMMA NextKeeps ==
    ASSUME IInv, [Next]_vars
    PROVE  IInv'
<1>1. CASE Mine
  BY <1>1, MineKeeps
<1>2. ASSUME NEW o \in Ops, Quiet(o) \/ Broadcast(o)
      PROVE  IInv'
  BY <1>2, QuietKeeps, BroadcastKeeps
<1>3. CASE UNCHANGED vars
  <2> USE <1>3 DEF vars, IInv
  <2>1. TypeOK'
    BY DEF TypeOK
  <2>2. QueueInv' /\ SentInv' /\ RouterInv' /\ CoverInv'
    BY DEF QueueInv, SentInv, Sent, RouterInv, Routed, CoverInv, Covered
  <2>3. AloneInv'
    BY DEF AloneInv, Settled
  <2> QED BY <2>1, <2>2, <2>3
<1> QED BY <1>1, <1>2, <1>3 DEF Next, Quiet

(* The invariant holds in every reachable state. *)
THEOREM Invariance == Spec => []IInv
BY InitKeeps, NextKeeps, PTL DEF Spec

(* Every reachable state is well typed: an allowance is never more than an *)
(* amount that some operation was asked to move (tool.ts:89).              *)
THEOREM SwapTypeCorrect == Spec => []TypeOK
<1>1. IInv => TypeOK
  BY DEF IInv
<1> QED BY Invariance, <1>1, PTL

(* An operation that reports success has moved its tokens (eoa.ts:153).    *)
THEOREM SwapDoneMeansMoved == Spec => []DoneMeansMoved
<1>1. IInv => DoneMeansMoved
  BY DEF IInv, SentInv, Sent, DoneMeansMoved
<1> QED BY Invariance, <1>1, PTL

(* A swap that no other operation overlaps is sent with its allowance      *)
(* mined, whatever failed swaps have left (eoa.ts:141, tool.ts:85).        *)
THEOREM SwapAllowanceHolds == Spec => []AllowanceHolds
<1>1. IInv => AllowanceHolds
  BY DEF IInv, CoverInv, Covered, AllowanceHolds
<1> QED BY Invariance, <1>1, PTL

-----------------------------------------------------------------------------
(* What routers may take in all: sums over the operations.                 *)

Weights == [o \in Ops |-> op[o].amount]
Moved(r) == {o \in Through(r) : outcome[<<o, "main">>] = "ok"}

(* A swap has no router before its calldata, and sends nothing beside an   *)
(* approval of its own that waits.                                         *)
Fresh(o) ==
    /\ stage[o] \in {"idle", "quote", "assemble"} => op[o].router = None
    /\ outcome[<<o, "approve">>] = "pending" => outcome[<<o, "main">>] = "none"

FreshInv == \A o \in Ops : Fresh(o)

SumInv ==
    \A r \in Routers :
        allowance[r] + SumOf(Weights, Moved(r)) <= SumOf(Weights, Through(r))

(* The total the model takes is the sum the lemmas of Induction are about. *)
LEMMA TotalIs ==
    ASSUME TypeOK, NEW S \in SUBSET Ops
    PROVE  Total(S) = SumOf(Weights, S)
<1> DEFINE E(g) == g = [T \in SUBSET S |->
                          IF T = {} THEN 0
                          ELSE op[CHOOSE x \in T : TRUE].amount
                               + g[T \ {CHOOSE x \in T : TRUE}]]
<1>1. Total(S) = (CHOOSE g : E(g))[S]
  BY DEF Total, MapThenSumSet, MapThenFoldSet
<1>2. ASSUME NEW g
      PROVE  E(g) <=> IsSum(g, Weights, S)
  <2>1. ASSUME NEW T \in SUBSET S, T # {}
        PROVE  Weights[Pick(T)] = op[CHOOSE x \in T : TRUE].amount
    BY <2>1, Picked DEF Weights, Pick
  <2>2. [T \in SUBSET S |-> IF T = {} THEN 0
                            ELSE Weights[Pick(T)] + g[T \ {Pick(T)}]]
        = [T \in SUBSET S |-> IF T = {} THEN 0
                              ELSE op[CHOOSE x \in T : TRUE].amount
                                   + g[T \ {CHOOSE x \in T : TRUE}]]
    BY <2>1 DEF Pick
  <2> QED BY <2>2 DEF IsSum
<1> HIDE DEF E
<1>3. (CHOOSE g : E(g)) = (CHOOSE g : IsSum(g, Weights, S))
  BY <1>2
<1> QED BY <1>1, <1>3 DEF SumOf

(* Amounts are numbers. *)
LEMMA WeightsType ==
    /\ TypeOK => Weights \in [Ops -> Nat]
    /\ TypeOK' => Weights' \in [Ops -> Nat]
<1> DEFINE Job == [kind : Kinds, amount : Amounts \cup {0},
                   router : Routers \cup {None}, seen : Nat, alone : BOOLEAN]
<1>1. \A f \in [Ops -> Job], o \in Ops : f[o].amount \in Nat
  <2>1. \A f \in [Ops -> Job], o \in Ops : f[o].amount \in Amounts \cup {0}
    OBVIOUS
  <2>2. Amounts \cup {0} \subseteq Nat
    BY AmountsAssumption
  <2> HIDE DEF Job
  <2> QED BY <2>1, <2>2
<1>2. (TypeOK => op \in [Ops -> Job]) /\ (TypeOK' => op' \in [Ops -> Job])
  BY DEF TypeOK
<1> HIDE DEF Job
<1>3. /\ TypeOK => \A o \in Ops : op[o].amount \in Nat
      /\ TypeOK' => \A o \in Ops : op'[o].amount \in Nat
  BY <1>1, <1>2
<1> QED BY <1>3 DEF Weights

(* What is added to a sum, and to a set of summands. *)
LEMMA SumAdds ==
    ASSUME NEW w \in [Ops -> Nat], NEW T \in SUBSET Ops, NEW x \in T
    PROVE  /\ SumOf(w, T) = w[x] + SumOf(w, T \ {x})
           /\ SumOf(w, T) \in Nat /\ SumOf(w, T \ {x}) \in Nat
           /\ \A R \in SUBSET (T \ {x}) :
                 SumOf(w, R) \in Nat /\ SumOf(w, R) <= SumOf(w, T \ {x})
<1>1. IsFiniteSet(Ops) /\ T \ {x} \in SUBSET Ops
  BY OpsAssumption
<1>2. SumOf(w, T) = w[x] + SumOf(w, T \ {x}) /\ SumOf(w, T) \in Nat
  BY <1>1, SumTakes
<1>3. \A R \in SUBSET Ops : SumOf(w, R) \in Nat
  BY <1>1, SumTakes
<1>4. \A R \in SUBSET (T \ {x}) : SumOf(w, R) <= SumOf(w, T \ {x})
  BY <1>1, SumGrows
<1> QED BY <1>1, <1>2, <1>3, <1>4

(* A step that changes no sum. *)
LEMMA SameSums ==
    ASSUME TypeOK, TypeOK', SumInv, allowance' = allowance,
           \A r \in Routers :
              /\ Moved(r)' = Moved(r) /\ Through(r) \subseteq Through(r)'
              /\ \A q \in Through(r) : op'[q].amount = op[q].amount
    PROVE  SumInv'
<1> SUFFICES ASSUME NEW r \in Routers
             PROVE  allowance'[r] + SumOf(Weights', Moved(r)')
                        <= SumOf(Weights', Through(r)')
  BY DEF SumInv
<1>1. /\ Moved(r) \in SUBSET Through(r) /\ Through(r) \in SUBSET Ops
      /\ Through(r)' \in SUBSET Ops
  BY DEF Moved, Through
<1>2. Weights \in [Ops -> Nat] /\ Weights' \in [Ops -> Nat]
  BY WeightsType
<1>3. \A q \in Through(r) : Weights[q] = Weights'[q]
  BY <1>1 DEF Weights
<1> DEFINE w == Weights
           v == Weights'
           M == Moved(r)
           T == Through(r)
           U == Through(r)'
<1>4. M \in SUBSET Ops /\ T \in SUBSET Ops /\ U \in SUBSET Ops /\ T \in SUBSET U
      /\ w \in [Ops -> Nat] /\ v \in [Ops -> Nat] /\ (\A q \in T : w[q] = v[q])
      /\ (\A q \in M : w[q] = v[q])
  BY <1>1, <1>2, <1>3
<1>5. allowance[r] + SumOf(w, M) <= SumOf(w, T) /\ Moved(r)' = M
      /\ allowance[r] \in Nat
  BY AllowanceType DEF SumInv, TypeOK
<1> HIDE DEF w, v, M, T, U
<1>6. SumOf(w, M) = SumOf(v, M) /\ SumOf(w, T) = SumOf(v, T)
  BY <1>4, OpsAssumption, SumAgrees
<1>7. SumOf(v, T) <= SumOf(v, U)
  BY <1>4, OpsAssumption, SumGrows
<1>8. SumOf(v, T) \in Nat /\ SumOf(v, U) \in Nat /\ SumOf(v, M) \in Nat
  BY <1>4, OpsAssumption, SumTakes
<1>9. allowance[r] + SumOf(v, M) <= SumOf(v, U)
  BY <1>5, <1>6, <1>7, <1>8
<1> QED BY <1>5, <1>9 DEF v, U

(* A step that sends nothing. *)
LEMMA QuietSums ==
    ASSUME IInv, FreshInv, SumInv, NEW o \in Ops, Quiet(o)
    PROVE  FreshInv' /\ SumInv'
<1> USE QuietFrame DEF IInv
<1>1. TypeOK'
  BY QuietType
<1>2. ASSUME NEW q \in Ops, q # o
      PROVE  Fresh(q)'
  BY <1>2 DEF FreshInv, Fresh, chain
<1>3. UNCHANGED <<outcome, allowance>>
  BY DEF chain
<1>4. CASE BeginSwap(o) \/ BeginSend(o)
  <2>1. PICK kind \in Kinds, a \in Amounts : op' = Started(o, kind, a)
    BY <1>4 DEF BeginSwap, BeginSend, Begin, Kinds
  <2>2. op[o].router = None /\ outcome[<<o, "approve">>] = "none"
    BY <1>4 DEF BeginSwap, BeginSend, Begin, FreshInv, Fresh, SentInv, Sent
  <2>3. op'[o].router = None
    <3> DEFINE b == \A other \in Ops : Settled(other)
    <3>1. op'[o] = [op[o] EXCEPT !.kind = kind, !.amount = a, !.alone = b]
      BY <2>1 DEF Started
    <3> HIDE DEF b
    <3> QED BY <2>2, <3>1 DEF TypeOK
  <2>4. Fresh(o)'
    BY <1>3, <2>2, <2>3 DEF Fresh
  <2>5. ASSUME NEW r \in Routers
        PROVE  /\ o \notin Through(r) /\ Through(r)' = Through(r)
               /\ Moved(r)' = Moved(r)
    BY <1>3, <2>2, <2>3, RoutersAssumption DEF Through, Moved
  <2>6. \A r \in Routers : \A q \in Through(r) : op'[q].amount = op[q].amount
    BY <2>5 DEF Through
  <2> QED BY <1>1, <1>2, <1>3, <2>4, <2>5, <2>6, SameSums DEF FreshInv
<1>5. CASE getCalldata(o)
  <2>1. PICK x \in Routers : op' = [op EXCEPT ![o].router = x]
    BY <1>5 DEF getCalldata
  <2>2. /\ op[o].router = None /\ outcome[<<o, "main">>] = "none"
        /\ stage'[o] \in {"main", "allowance"}
    BY <1>5 DEF getCalldata, FreshInv, Fresh, SentInv, Sent, GoTo, TypeOK
  <2>3. Fresh(o)'
    BY <1>3, <2>2 DEF Fresh
  <2>4. \A q \in Ops : op'[q].amount = op[q].amount /\ op'[q].kind = op[q].kind
    BY <2>1 DEF TypeOK
  <2>5. ASSUME NEW r \in Routers
        PROVE  /\ o \notin Through(r) /\ Through(r) \subseteq Through(r)'
               /\ Moved(r)' = Moved(r)
    BY <1>3, <2>2, <2>4, RoutersAssumption DEF Through, Moved
  <2>6. \A r \in Routers : \A q \in Through(r) : op'[q].amount = op[q].amount
    BY <2>4 DEF Through
  <2> QED BY <1>1, <1>2, <1>3, <2>3, <2>5, <2>6, SameSums DEF FreshInv
<1>6. CASE /\ \A q \in Ops : /\ op'[q].amount = op[q].amount
                             /\ op'[q].kind = op[q].kind
                             /\ op'[q].router = op[q].router
           /\ \/ stage'[o] \notin {"idle", "quote", "assemble"}
              \/ stage[o] \in {"idle", "quote", "assemble"}
  <2>1. Fresh(o)'
    BY <1>3, <1>6 DEF Fresh, FreshInv
  <2>2. \A r \in Routers : Through(r)' = Through(r) /\ Moved(r)' = Moved(r)
    BY <1>3, <1>6 DEF Through, Moved
  <2>3. \A r \in Routers : \A q \in Through(r) : op'[q].amount = op[q].amount
    BY <1>6 DEF Through
  <2> QED BY <1>1, <1>2, <1>3, <2>1, <2>2, <2>3, SameSums DEF FreshInv
<1>7. CASE CallFails(o) \/ getQuote(o) \/ Receive(o) \/ ReceiptLost(o)
  BY <1>6, <1>7 DEF CallFails, getQuote, Receive, ReceiptLost, GoTo, TypeOK
<1>8. CASE ReadAllowance(o)
  BY <1>6, <1>8 DEF ReadAllowance, GoTo, TypeOK
<1> QED BY <1>4, <1>5, <1>7, <1>8 DEF Quiet

(* A broadcast. *)
LEMMA BroadcastSums ==
    ASSUME IInv, FreshInv, SumInv, NEW o \in Ops, Broadcast(o)
    PROVE  FreshInv' /\ SumInv'
<1> USE DEF IInv
<1> DEFINE t == Tx(o)
<1>1. /\ stage[o] \in {"approve", "main"} /\ UNCHANGED <<op, allowance>>
      /\ t = <<o, stage[o]>> /\ t \in Txs /\ outcome[t] = "none"
  BY NotSent DEF Broadcast
<1>2. TypeOK'
  BY BroadcastKeeps
<1>3. /\ stage'[o] \in {"failed", "approving", "sending"}
      /\ \A q \in Ops : q # o => stage'[q] = stage[q]
  BY <1>1 DEF Broadcast, GoTo, TypeOK
<1>4. /\ \A u \in Txs : u # t => outcome'[u] = outcome[u]
      /\ outcome'[t] \in {"none", "pending"}
  BY <1>1 DEF Broadcast, TypeOK
<1> HIDE DEF t
<1>5. ASSUME NEW q \in Ops PROVE Fresh(q)'
  <2>1. CASE q = o
    <3>1. outcome[<<o, "main">>] = "none"
          /\ (stage[o] = "main" => outcome[<<o, "approve">>] # "pending")
      BY <1>1 DEF SentInv, Sent
    <3>2. CASE stage[o] = "approve"
      BY <1>1, <1>3, <1>4, <2>1, <3>1, <3>2, TxPairs DEF Fresh
    <3>3. CASE stage[o] = "main"
      BY <1>1, <1>3, <1>4, <2>1, <3>1, <3>3, TxPairs DEF Fresh
    <3> QED BY <1>1, <3>2, <3>3
  <2>2. CASE q # o
    BY <1>1, <1>3, <1>4, <2>2, TxPairs DEF Fresh, FreshInv
  <2> QED BY <2>1, <2>2
<1>6. \A u \in Txs : outcome'[u] = "ok" <=> outcome[u] = "ok"
  BY <1>1, <1>4
<1>7. \A r \in Routers : Through(r)' = Through(r) /\ Moved(r)' = Moved(r)
  BY <1>1, <1>6, TxPairs DEF Through, Moved
<1>8. \A r \in Routers : \A q \in Through(r) : op'[q].amount = op[q].amount
  BY <1>1
<1> QED BY <1>1, <1>2, <1>5, <1>7, <1>8, SameSums DEF FreshInv

(* A block: an approval is of a swap that has not moved its amount yet,    *)
(* and a swap moves out of the allowance what it adds to what has moved.   *)
LEMMA MineSums ==
    ASSUME IInv, FreshInv, SumInv, Mine
    PROVE  FreshInv' /\ SumInv'
<1> USE DEF IInv
<1>0. PICK o \in Ops, what \in {"approve", "main"} : Head(pending) = <<o, what>>
  BY Mined, TxPairs
<1> DEFINE t == <<o, what>>
<1>r. PICK r, a : r = op[o].router /\ a = op[o].amount
  OBVIOUS
<1>1. /\ t \in Txs /\ outcome[t] = "pending" /\ UNCHANGED <<op, stage>>
      /\ t = <<o, what>> /\ t[1] = o /\ t[2] = what
      /\ op[o].router = r /\ op[o].amount = a
  BY <1>0, <1>r, Mined
<1>2. /\ \A u \in Txs : u # t => outcome'[u] = outcome[u]
      /\ outcome'[t] \in {"ok", "reverted"}
  BY <1>0, <1>1, Mined DEF TypeOK
<1>3. /\ outcome'[t] = "reverted" => allowance' = allowance
      /\ outcome'[t] = "ok" => Effect(t) /\ Runs(t)
  BY <1>0, Mined, <1>1 DEF TypeOK
<1>4. TypeOK'
  BY MineKeeps
<1> HIDE DEF t
<1>5. FreshInv'
  <2> SUFFICES ASSUME NEW q \in Ops PROVE Fresh(q)'
    BY DEF FreshInv
  <2>1. /\ <<q, "approve">> \in Txs /\ <<q, "main">> \in Txs
        /\ stage' = stage /\ op' = op
    BY <1>1, TxPairs
  <2>2. outcome'[<<q, "approve">>] = "pending" => outcome[<<q, "approve">>] = "pending"
    BY <1>1, <1>2, <2>1
  <2>3. outcome[<<q, "main">>] = "none" => outcome'[<<q, "main">>] = "none"
    BY <1>1, <1>2, <2>1
  <2> QED BY <2>1, <2>2, <2>3 DEF FreshInv, Fresh
<1>6. a \in Nat /\ op[o].kind \in Kinds
  <2>1. a \in Amounts \cup {0} /\ op[o].kind \in Kinds
    BY <1>1 DEF TypeOK
  <2>2. Amounts \cup {0} \subseteq Nat
    BY AmountsAssumption
  <2> QED BY <2>1, <2>2
<1>7. \A x \in Routers : Through(x)' = Through(x)
  BY <1>1 DEF Through
<1>8. /\ Weights' = Weights /\ Weights \in [Ops -> Nat] /\ Weights[o] = a
      /\ allowance \in [Routers -> Nat]
  <2>1. Weights' = Weights /\ Weights[o] = a
    BY <1>1 DEF Weights
  <2>2. allowance \in [Routers -> Nat]
    BY AllowanceType DEF TypeOK
  <2> QED BY <2>1, <2>2, WeightsType
<1>9. \A x \in Routers : \A q \in Through(x) : op'[q].amount = op[q].amount
  BY <1>1
<1>10. CASE allowance' = allowance /\ \A x \in Routers : Moved(x)' = Moved(x)
  BY <1>4, <1>5, <1>7, <1>9, <1>10, SameSums
<1>11. CASE outcome'[t] = "reverted"
  <2>1. \A u \in Txs : outcome'[u] = "ok" <=> outcome[u] = "ok"
    BY <1>1, <1>2, <1>11
  <2>2. \A x \in Routers : Moved(x)' = Moved(x)
    BY <1>7, <2>1, TxPairs DEF Moved, Through
  <2> QED BY <1>3, <1>10, <1>11, <2>2
<1>12. CASE outcome'[t] = "ok" /\ what = "approve"
  <2>1. op[o].kind = "swap" /\ r \in Routers /\ outcome[<<o, "main">>] = "none"
    BY <1>1, <1>12 DEF RouterInv, Routed, FreshInv, Fresh
  <2>2. allowance' = [allowance EXCEPT ![r] = a]
    BY <1>1, <1>3, <1>12 DEF Effect, Approved
  <2>3. \A q \in Ops : outcome'[<<q, "main">>] = outcome[<<q, "main">>]
    BY <1>1, <1>2, <1>12, TxPairs
  <2>4. \A x \in Routers : Moved(x)' = Moved(x)
    BY <1>7, <2>3 DEF Moved, Through
  <2>5. ASSUME NEW x \in Routers, x # r
        PROVE  allowance'[x] + SumOf(Weights, Moved(x)) <= SumOf(Weights, Through(x))
    BY <1>8, <2>2, <2>5 DEF SumInv
  <2>6. allowance'[r] + SumOf(Weights, Moved(r)) <= SumOf(Weights, Through(r))
    <3> DEFINE T == Through(r)
               M == Moved(r)
    <3>1. T \in SUBSET Ops /\ o \in T /\ M \in SUBSET (T \ {o})
      BY <1>1, <2>1 DEF Through, Moved
    <3> HIDE DEF T, M
    <3>2. /\ SumOf(Weights, T) = a + SumOf(Weights, T \ {o})
          /\ SumOf(Weights, T \ {o}) \in Nat /\ SumOf(Weights, M) \in Nat
          /\ SumOf(Weights, M) <= SumOf(Weights, T \ {o})
      BY <1>8, <3>1, SumAdds
    <3>3. allowance'[r] = a
      BY <1>8, <2>1, <2>2
    <3>4. allowance'[r] + SumOf(Weights, M) <= SumOf(Weights, T)
      BY <1>6, <3>2, <3>3
    <3> QED BY <3>4 DEF T, M
  <2>7. \A x \in Routers :
           allowance'[x] + SumOf(Weights', Moved(x)') <= SumOf(Weights', Through(x)')
    BY <1>7, <1>8, <2>4, <2>5, <2>6
  <2> QED BY <1>5, <2>7 DEF SumInv
<1>13. CASE outcome'[t] = "ok" /\ what = "main" /\ op[o].kind # "swap"
  <2>1. allowance' = allowance
    BY <1>1, <1>3, <1>6, <1>13 DEF Effect, Kinds
  <2>2. \A x \in Routers : \A q \in Through(x) :
           outcome'[<<q, "main">>] = outcome[<<q, "main">>]
    BY <1>1, <1>2, <1>13, TxPairs DEF Through
  <2>3. \A x \in Routers : Moved(x)' = Moved(x)
    BY <1>7, <2>2 DEF Moved
  <2> QED BY <1>10, <2>1, <2>3
<1>14. CASE outcome'[t] = "ok" /\ what = "main" /\ op[o].kind = "swap"
  <2>1. r \in Routers
    BY <1>1, <1>14 DEF RouterInv, Routed
  <2>2. allowance' = [allowance EXCEPT ![r] = allowance[r] - a] /\ allowance[r] >= a
    BY <1>1, <1>3, <1>14 DEF Effect, Runs
  <2>3. \A q \in Ops : q # o => outcome'[<<q, "main">>] = outcome[<<q, "main">>]
    BY <1>1, <1>2, <1>14, TxPairs
  <2>4. /\ \A x \in Routers : x # r => Moved(x)' = Moved(x)
        /\ Moved(r)' = Moved(r) \cup {o} /\ o \notin Moved(r)
        /\ Moved(r)' \in SUBSET Ops
    BY <1>1, <1>7, <1>14, <2>1, <2>3 DEF Moved, Through
  <2>5. ASSUME NEW x \in Routers, x # r
        PROVE  allowance'[x] + SumOf(Weights', Moved(x)') <= SumOf(Weights', Through(x)')
    BY <1>7, <1>8, <2>2, <2>4, <2>5 DEF SumInv
  <2>6. allowance'[r] + SumOf(Weights', Moved(r)') <= SumOf(Weights', Through(r)')
    <3> DEFINE M == Moved(r)
               N == Moved(r)'
               T == Through(r)
    <3>1. N \in SUBSET Ops /\ o \in N /\ N \ {o} = M /\ T \in SUBSET Ops
      BY <2>4 DEF Through
    <3>2. allowance[r] + SumOf(Weights, M) <= SumOf(Weights, T)
      BY <2>1 DEF SumInv
    <3> HIDE DEF M, N, T
    <3>3. /\ SumOf(Weights, N) = a + SumOf(Weights, M)
          /\ SumOf(Weights, M) \in Nat
      BY <1>8, <3>1, SumAdds
    <3>4. SumOf(Weights, T) \in Nat
      BY <1>8, <3>1, OpsAssumption, SumTakes
    <3>5. allowance'[r] = allowance[r] - a /\ allowance[r] \in Nat
      BY <1>8, <2>1, <2>2
    <3>6. allowance'[r] + SumOf(Weights, N) <= SumOf(Weights, T)
      BY <1>6, <2>2, <3>2, <3>3, <3>4, <3>5
    <3>7. Weights' = Weights /\ Through(r)' = Through(r)
      BY <1>7, <1>8, <2>1
    <3> QED BY <3>6, <3>7 DEF N, T
  <2>7. \A x \in Routers :
           allowance'[x] + SumOf(Weights', Moved(x)') <= SumOf(Weights', Through(x)')
    <3> SUFFICES ASSUME NEW x \in Routers
                 PROVE  allowance'[x] + SumOf(Weights', Moved(x)')
                            <= SumOf(Weights', Through(x)')
      OBVIOUS
    <3>1. CASE x = r
      BY <2>6, <3>1
    <3>2. CASE x # r
      BY <2>5, <3>2
    <3> QED BY <3>1, <3>2
  <2> QED BY <1>5, <2>7 DEF SumInv
<1> QED BY <1>1, <1>2, <1>11, <1>12, <1>13, <1>14

(* Nothing is allowed, and nothing has moved, at first. *)
LEMMA InitSums == Init => FreshInv /\ SumInv
<1> SUFFICES ASSUME Init PROVE FreshInv /\ SumInv OBVIOUS
<1>1. TypeOK
  BY InitType
<1>2. FreshInv
  BY TxPairs DEF Init, FreshInv, Fresh
<1>3. ASSUME NEW r \in Routers
      PROVE  Moved(r) = {} /\ allowance[r] = 0 /\ Through(r) = {}
  BY TxPairs, RoutersAssumption DEF Init, Moved, Through
<1>4. SumOf(Weights, {}) = 0
  BY <1>1, WeightsType, OpsAssumption, SumTakes
<1> QED BY <1>2, <1>3, <1>4 DEF SumInv

(* However swaps fail, overlap and find what others have approved, a       *)
(* router can never take more, in all, than the swaps through it were      *)
(* asked to move (tool.ts:89), for any finite number of operations.        *)
THEOREM RoutersNeverTakeMore == Spec => []NeverMoreThanAsked
<1>1. Init => IInv /\ FreshInv /\ SumInv
  BY InitKeeps, InitSums
<1>2. IInv /\ FreshInv /\ SumInv /\ [Next]_vars => IInv' /\ FreshInv' /\ SumInv'
  <2> SUFFICES ASSUME IInv, FreshInv, SumInv, [Next]_vars
               PROVE  IInv' /\ FreshInv' /\ SumInv'
    OBVIOUS
  <2>1. IInv'
    BY NextKeeps
  <2>2. CASE Mine
    BY <2>1, <2>2, MineSums
  <2>3. ASSUME NEW o \in Ops, Quiet(o) \/ Broadcast(o)
        PROVE  FreshInv' /\ SumInv'
    BY <2>3, QuietSums, BroadcastSums
  <2>4. ASSUME UNCHANGED vars
        PROVE  FreshInv' /\ SumInv'
    <3>1. FreshInv'
      BY <2>4 DEF vars, FreshInv, Fresh
    <3>2. SumInv'
      BY <2>4 DEF vars, SumInv, Weights, Moved, Through
    <3> QED BY <3>1, <3>2
  <2> QED BY <2>1, <2>2, <2>3, <2>4 DEF Next, Quiet
<1>3. IInv /\ SumInv => NeverMoreThanAsked
  <2> SUFFICES ASSUME IInv, SumInv, NEW r \in Routers
               PROVE  allowance[r] + Total(Moved(r)) <= Total(Through(r))
    BY DEF NeverMoreThanAsked, Moved
  <2>1. Moved(r) \in SUBSET Ops /\ Through(r) \in SUBSET Ops
    BY DEF Moved, Through
  <2>2. /\ Total(Moved(r)) = SumOf(Weights, Moved(r))
        /\ Total(Through(r)) = SumOf(Weights, Through(r))
    BY <2>1, TotalIs DEF IInv
  <2> QED BY <2>2 DEF SumInv
<1> QED BY <1>1, <1>2, <1>3, PTL DEF Spec

=============================================================================
