---------------------------- MODULE MCPartitions ----------------------------
(***************************************************************************)
(* Partitions for TLC: a disk with Windows' own ESP and, where a run wants *)
(* them, a data volume and a USB stick.                                    *)
(***************************************************************************)
EXTENDS Partitions, TLC

CONSTANTS
    EspLabel    \* the label of Windows' ESP: "SYSTEM", or "other" for any other

MCForeignVol ==
    [v \in Foreign |->
        IF v = "esp"
        THEN [Absent EXCEPT !.label = EspLabel, !.fs = "FAT32", !.mb = 260, !.mgfw = TRUE]
        ELSE [Absent EXCEPT !.label = "other", !.fs = "NTFS", !.mb = 90000,
                            !.letter = IF v = "data" THEN "fixed" ELSE NoLetter]]

OwnSymmetry == Permutations(Own)
=============================================================================
