------------------------ MODULE MCSessionLifecycle ------------------------
(* Instances of SessionLifecycle for TLC. *)
EXTENDS SessionLifecycle, TLC

(* Commands one after the other, answered in time; daemons are killed. *)
Calm == [commands |-> AllCommands, background |-> {}, processes |-> 4,
         controlTimeouts |-> FALSE, sendTimeouts |-> FALSE, prompt |-> TRUE,
         crashes |-> TRUE]

(* Commands beside each other, anything late; no daemon is killed. *)
Rough == [commands |-> AllCommands, background |-> AllCommands,
          processes |-> 3, controlTimeouts |-> TRUE, sendTimeouts |-> TRUE,
          prompt |-> FALSE, crashes |-> FALSE]

CalmAndRough == {Calm, Rough, [Rough EXCEPT !.crashes = TRUE]}
LateAndKilled == {[Rough EXCEPT !.crashes = TRUE, !.processes = 2],
                  [Calm EXCEPT !.controlTimeouts = TRUE, !.sendTimeouts = TRUE,
                               !.processes = 3]}

(* A send beside commands one after the other. *)
SendBeside == {[Calm EXCEPT !.commands = {"unlock", "lock", "send"},
                            !.background = {"send"}, !.crashes = FALSE]}

(* A send beside an unlock, and late answers to it. *)
SendRetried == {[Calm EXCEPT !.commands = {"unlock", "send"},
                             !.background = {"send"}, !.sendTimeouts = TRUE,
                             !.crashes = FALSE, !.processes = 3]}

(* Late answers to lock requests. *)
LateLocks == {[Calm EXCEPT !.commands = {"unlock", "changePassword"},
                           !.controlTimeouts = TRUE, !.crashes = FALSE,
                           !.processes = 2]}

(* Processes, and so the daemons named after them, are interchangeable. *)
Symmetry == Permutations(Procs)

=============================================================================
