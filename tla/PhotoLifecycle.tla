--------------------------- MODULE PhotoLifecycle ---------------------------
(***************************************************************************)
(* What the upload pipeline promises about one photo row, whatever the     *)
(* queue, the storage and the processes behind it do: a row is inserted as *)
(* "processing", only bytes that decode ever make it "ready", and only     *)
(* such a row goes back from "ready" to "processing".  PhotoPipeline       *)
(* implements this module under the mapping stated there.                  *)
(***************************************************************************)

CONSTANT Photo              \* photo ids (UUIDs minted by presign)

VARIABLES
    status,                 \* status[p]: the row of p, "absent" when there is none
    readable                \* photos whose uploaded bytes decode as an image

abstractVars == <<status, readable>>

LifecycleInit ==
    /\ status = [p \in Photo |-> "absent"]
    /\ readable = {}

Upload(p) ==
    /\ readable' = readable \cup {p}
    /\ UNCHANGED status

Insert(S) ==
    /\ \A p \in S : status[p] = "absent"
    /\ status' = [p \in Photo |-> IF p \in S THEN "processing" ELSE status[p]]
    /\ UNCHANGED readable

Publish(p) ==
    /\ status[p] # "absent"
    /\ p \in readable
    /\ status' = [status EXCEPT ![p] = "ready"]
    /\ UNCHANGED readable

Withdraw(p) ==
    /\ status[p] # "absent"
    /\ p \in readable
    /\ status' = [status EXCEPT ![p] = "processing"]
    /\ UNCHANGED readable

Remove(p) ==
    /\ status[p] # "absent"
    /\ status' = [status EXCEPT ![p] = "absent"]
    /\ UNCHANGED readable

LifecycleNext ==
    \/ \E p \in Photo : Upload(p) \/ Publish(p) \/ Withdraw(p) \/ Remove(p)
    \/ \E S \in SUBSET Photo : Insert(S)

LifecycleSpec == LifecycleInit /\ [][LifecycleNext]_abstractVars
=============================================================================
