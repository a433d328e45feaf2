------------------------------- MODULE WimService -------------------------------
(***************************************************************************)
(* What servicing an image is meant to be, for the rest of the program: a  *)
(* run works on fresh images; each of them is then either as it was        *)
(* extracted or has been changed once, as a whole; a run that reports      *)
(* success leaves a boot image with its start files; a run ends.           *)
(* WimSession shows how mounts, views and dism's failures come to that;    *)
(* IsoCopy takes it for one step.                                          *)
(***************************************************************************)
CONSTANTS
    Iso,      \* the ISO images
    Unit,     \* the images inside their .wim files: <<"boot" or "install", index>>
    Work,     \* what can be put into one
    Start     \* ... and the kinds of start files among it

VARIABLES
    images,   \* [Unit -> NoImage or an image]
    phase     \* "idle", "busy", "done"

vars == <<images, phase>>

NoImage == [iso |-> "none", work |-> {}]
Image   == [iso : Iso, work : SUBSET Work]

Init == images = [u \in Unit |-> NoImage] /\ phase = "idle"

\* A run begins: ISOBOOT was formatted, and the images are extracted.
Begin ==
    /\ phase # "busy" /\ phase' = "busy"
    /\ \E i \in Iso, U \in SUBSET Unit :
        images' = [u \in Unit |-> IF u \in U THEN [iso |-> i, work |-> {}] ELSE NoImage]

\* One image is changed, once.
Change(u) ==
    /\ phase = "busy" /\ images[u] # NoImage /\ images[u].work = {}
    /\ \E w \in SUBSET Work : images' = [images EXCEPT ![u].work = w]
    /\ UNCHANGED phase

Serviced == \E u \in Unit : /\ u[1] = "boot" /\ images[u] # NoImage
                            /\ images[u].work \cap Start # {}

\* The run ends, for better or for worse.
Finish ==
    /\ phase = "busy" /\ phase' \in {"idle"} \cup {p \in {"done"} : Serviced}
    /\ UNCHANGED images

Next == Begin \/ Finish \/ \E u \in Unit : Change(u)

Spec == Init /\ [][Next]_vars

\* Once begun it ends.
FairSpec == Spec /\ WF_vars(Finish)
=============================================================================
