------------------------------ MODULE MCWimSession ------------------------------
(***************************************************************************)
(* WimSession for TLC.  A Windows 11 with two editions, whose second boot  *)
(* image is named Setup; a PE with one image and PECMD; an image that has  *)
(* Setup first.                                                            *)
(***************************************************************************)
EXTENDS WimSession

MCSetup    == [i \in Iso |-> IF i = "win" THEN <<FALSE, TRUE>>
                             ELSE IF i = "pe" THEN <<FALSE>> ELSE <<TRUE, FALSE>>]
MCEditions == [i \in Iso |-> IF i = "win" THEN 2 ELSE 0]

\* The image of boot.wim that the boot manager of each of them loads.
Boots == [i \in Iso |-> IF i = "win" THEN 2 ELSE 1]

\* WimMounter.cpp:36, "pattern matching that works in any language": a success has put the
\* start files into the image that boots.  It has not where the list says "Índice :".
SuccessIsServiced ==
    pc = "done" => images[<<"boot", Boots[job.iso]>>].work \cap StartFiles # {}
=============================================================================
