--------------------------------- MODULE MCBcd ---------------------------------
(***************************************************************************)
(* Bcd for TLC: a machine with the Windows that runs, which is a Windows 11*)
(* or a Windows 10, and a Linux of the user's.                             *)
(***************************************************************************)
EXTENDS Bcd, TLC

CONSTANTS
    Windows     \* the label of the Windows that runs

MCUserEntry ==
    [i \in User |-> IF i = "win" THEN [label |-> Windows, loader |-> TRUE, boots |-> "windows"]
                    ELSE [label |-> "Linux", loader |-> FALSE, boots |-> "other"]]

IdSymmetry == Permutations(Id)
=============================================================================
