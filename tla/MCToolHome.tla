---------------------------- MODULE MCToolHome ----------------------------
(* Instances of ToolHome for TLC. *)
EXTENDS ToolHome, TLC

(* One command, one below it, and names that root commands have. *)
Swap == [name |-> "swap", path |-> <<"swap">>]
Quote == [name |-> "quote", path |-> <<"swap", "quote">>]
Send == [name |-> "send", path |-> <<"pay">>]
Help == [name |-> "help me", path |-> <<"help">>]
ToolNames == {"swap", "quote", "send", "help me"}
ToolPaths == {<<"swap">>, <<"swap", "quote">>, <<"pay">>, <<"help">>}
RootCommands == {"send", "help"}

Unnamed == [pkg \in Packages |-> None]

(* One command after the other; npm fails, but never in a rollback. *)
OneByOne == [pins |-> {"new"}, words |-> Unnamed, tools |-> {Swap, Quote, Send},
             npmFails |-> TRUE, rollbackFails |-> FALSE, crashes |-> FALSE,
             atOnce |-> 1, maxAlone |-> 1, maxRuns |-> 4]

(* One of the packages is named "swap". *)
Named == {[OneByOne EXCEPT !.words = [Unnamed EXCEPT ![pkg] = "swap"],
                           !.tools = {Swap, Quote, Help}, !.maxAlone = 0,
                           !.maxRuns = 3] : pkg \in Packages}

(* Commands are killed and rollbacks fail. *)
Killed == [OneByOne EXCEPT !.rollbackFails = TRUE, !.crashes = TRUE,
                           !.tools = {Swap, Quote}, !.maxAlone = 0, !.maxRuns = 3]

(* Two commands overlap; and are killed, too. *)
Beside == [Killed EXCEPT !.atOnce = 2, !.crashes = FALSE]
BesideKilled == [Killed EXCEPT !.atOnce = 2, !.tools = {Swap}]

OneOrTwo == {OneByOne, Killed, Beside, BesideKilled} \cup Named

(* A version of a tool that is there is asked for. *)
Again == {[OneByOne EXCEPT !.pins = {"again"}, !.tools = {Swap, Quote},
                           !.npmFails = FALSE, !.maxAlone = 0]}

Symmetry == Permutations(Packages) \cup Permutations(Procs)

=============================================================================
