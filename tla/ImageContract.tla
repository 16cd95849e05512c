--------------------------- MODULE ImageContract ---------------------------
(***************************************************************************)
(* What the media subsystem promises about one image, whoever touches it:  *)
(* the stored object is born after its `images' row and dies before it     *)
(* (ADR 0019, "The object always appears later than the row that points to *)
(* it and disappears earlier"), and an image becomes usable only once its  *)
(* object is stored.  MediaLifecycle is shown to implement this module.    *)
(***************************************************************************)

CONSTANT Images

VARIABLES
    row,    \* row[i]: "unborn", "marked" (deleted_at set), "live" or "gone"
    stored  \* the images whose permanent object exists in the bucket

contractVars == <<row, stored>>

ContractInit ==
    /\ row = [i \in Images |-> "unborn"]
    /\ stored = {}

\* The row comes first, marked for collection.
ReserveRow(i) ==
    /\ row[i] = "unborn"
    /\ row' = [row EXCEPT ![i] = "marked"]
    /\ UNCHANGED stored

\* An object is only ever written under a row that is not yet usable.
StoreObject(i) ==
    /\ row[i] = "marked"
    /\ stored' = stored \cup {i}
    /\ UNCHANGED row

\* An image becomes usable only with its object in place.
Publish(i) ==
    /\ row[i] = "marked"
    /\ i \in stored
    /\ row' = [row EXCEPT ![i] = "live"]
    /\ UNCHANGED stored

Retract(i) ==
    /\ row[i] = "live"
    /\ row' = [row EXCEPT ![i] = "marked"]
    /\ UNCHANGED stored

EraseObject(i) ==
    /\ row[i] \in {"marked", "live"}
    /\ stored' = stored \ {i}
    /\ UNCHANGED row

\* A batch of rows goes only after all of their objects are gone.
DropRows(S) ==
    /\ \A i \in S : row[i] \in {"marked", "live"} /\ i \notin stored
    /\ row' = [i \in Images |-> IF i \in S THEN "gone" ELSE row[i]]
    /\ UNCHANGED stored

ContractNext ==
    \/ \E i \in Images :
          \/ ReserveRow(i) \/ StoreObject(i) \/ Publish(i)
          \/ Retract(i) \/ EraseObject(i)
    \/ \E S \in SUBSET Images : DropRows(S)

ContractSpec == ContractInit /\ [][ContractNext]_contractVars

=============================================================================
