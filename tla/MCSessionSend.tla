--------------------------- MODULE MCSessionSend ---------------------------
(* Instances of SessionSend for TLC. *)
EXTENDS SessionSend, TLC

CONSTANTS a, b, big

MCCalls == {a, b, big}
MCOversized == {big}

(* Clients, ids and the two ordinary calls are interchangeable. *)
Symmetry ==
    Permutations(Clients) \cup Permutations(Ids) \cup Permutations({a, b})

=============================================================================
