--------------------------- MODULE MCCliRuntime ---------------------------
(* Instances of CliRuntime for TLC. *)
EXTENDS CliRuntime, TLC

CONSTANTS k1, k2, c1, c2

(* No variables; a key and a chain without support; a chain and its node. *)
Bare == [key |-> None, chain |-> None, rpc |-> None]
SomeShells == {Bare, [Bare EXCEPT !.key = k1, !.chain = Unsupported],
               [Bare EXCEPT !.chain = c2, !.rpc = OwnNode(c2)]}
SomeOptions == {None, c1}
(* The last keeps the node there is, of whatever chain. *)
SomeSetups == {[chain |-> None, rpc |-> None], [chain |-> c2, rpc |-> OwnNode(c2)],
               [chain |-> c1, rpc |-> None]}

Symmetry == Permutations(Procs)

=============================================================================
