------------------------------- MODULE MCMachine -------------------------------
(***************************************************************************)
(* Machine for TLC: a Windows 11 that runs, and a Linux of the user's.     *)
(***************************************************************************)
EXTENDS Machine, TLC

MCUserEntry ==
    [i \in User |-> IF i = "win" THEN [label |-> "Windows 11", loader |-> TRUE, boots |-> "windows"]
                    ELSE [label |-> "Linux", loader |-> FALSE, boots |-> "other"]]

IdSymmetry == Permutations(Id)
=============================================================================
