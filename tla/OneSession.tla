----------------------------- MODULE OneSession -----------------------------
(***************************************************************************)
(* What the session commands promise the user, with no daemon, file or     *)
(* message in sight: which sessions are open, and what each command was    *)
(* told about them.                                                        *)
(*                                                                         *)
(* Always: a session opens at the very step its unlock succeeds, so that a *)
(* failed unlock opens none, then or later, and an unlock is not told of a *)
(* session that never opened. In order, that is for commands one after the *)
(* other: a session opens only when none is open, a lock or a rotation     *)
(* leaves none, whatever it was told, and neither does a status that       *)
(* reports no session.                                                     *)
(***************************************************************************)
CONSTANT Procs  \* commands, and the sessions that unlocks open

VARIABLES ordered, \* commands come in order, which stays the same
          asked,   \* what each command is
          told,    \* what it was told, "none" before
          open     \* the sessions that may be used

vars == <<ordered, asked, told, open>>

Commands == {"status", "lock", "unlock", "changePassword", "send"}
InOrder(condition) == ordered => condition

Init ==
    /\ ordered \in BOOLEAN
    /\ asked = [p \in Procs |-> "none"]
    /\ told = [p \in Procs |-> "none"]
    /\ open = {}

Ask(p) ==
    /\ asked[p] = "none"
    /\ \E c \in Commands : asked' = [asked EXCEPT ![p] = c]
    /\ UNCHANGED <<ordered, told, open>>

Tell(p, commands, how) ==
    /\ asked[p] \in commands /\ told[p] = "none"
    /\ told' = [told EXCEPT ![p] = how]
    /\ UNCHANGED <<ordered, asked>>

Unlock(p) ==
    /\ InOrder(open = {})
    /\ Tell(p, {"unlock"}, "ok")
    /\ open' = open \cup {p}

UnlockFails(p) ==
    /\ Tell(p, {"unlock"}, "failed")
    /\ UNCHANGED open

(* A rotation succeeds whatever becomes of its lock. *)
Lock(p) ==
    /\ \/ Tell(p, {"lock"}, "failed")
       \/ Tell(p, {"lock", "changePassword"}, "ok")
    /\ open' \subseteq open
    /\ InOrder(open' = {})

(* Whether a send succeeds is not the session's to promise. *)
Report(p) ==
    /\ \/ Tell(p, {"status", "send"}, "ok") /\ \E q \in Procs :
             asked[q] = "unlock" /\ told[q] = "ok"
       \/ Tell(p, {"status"}, "failed") /\ InOrder(open = {})
       \/ Tell(p, {"send"}, "failed")
    /\ UNCHANGED open

(* Expired, killed, or replaced by an unlock that runs. *)
Ends ==
    /\ \E p \in open : open' = open \ {p}
    /\ UNCHANGED <<ordered, asked, told>>

Next ==
    \/ \E p \in Procs :
          Ask(p) \/ Unlock(p) \/ UnlockFails(p) \/ Lock(p) \/ Report(p)
    \/ Ends

Spec == Init /\ [][Next]_vars

=============================================================================
