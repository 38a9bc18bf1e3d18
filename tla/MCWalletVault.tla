--------------------------- MODULE MCWalletVault ---------------------------
(* Instances of WalletVault for TLC. *)
EXTENDS WalletVault, TLC

(* Commands that keep the wallet's key run beside each other. *)
Apart == [background |-> AllCommands \ Replacing, crashes |-> TRUE,
          writeErrors |-> TRUE, maxRuns |-> 3]

(* All commands do, two of them. *)
Together == [Apart EXCEPT !.background = AllCommands, !.maxRuns = 2]

(* All commands do, and nothing fails. *)
Unforced == {[Together EXCEPT !.crashes = FALSE, !.writeErrors = FALSE]}

ApartAndTogether == {Apart, Together}

(* Keys, passphrases and processes are interchangeable. *)
Symmetry ==
    Permutations(Keys) \cup Permutations(Passes) \cup Permutations(Procs)

=============================================================================
