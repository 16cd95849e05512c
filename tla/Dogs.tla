-------------------------------- MODULE Dogs --------------------------------
(***************************************************************************)
(* The dogs of one owner: a request replaces the whole list, or names the  *)
(* representative dog; two may run at once, under READ COMMITTED.  dogs is *)
(* what is committed, ov[q] what the transaction of q has written; the     *)
(* domain of ov[q] is also what it has locked.                             *)
(***************************************************************************)
EXTENDS Naturals, FiniteSets

CONSTANTS
    Ids,         \* dogs that exist or are to be created
    Existing,    \* the dogs there are at first
    Requests,
    Inputs       \* Inputs[q]: what q may ask: [op, keep, new, rep], rep = None for none

None == "none"

VARIABLES
    dogs,        \* dogs[d]: None, "plain" or "rep"
    ov,
    req,         \* req[q]: [at, in, seen]
    asked        \* history: the dog the last commit was asked to make representative

vars == <<dogs, ov, req, asked>>

Mine(q) == DOMAIN ov[q]
Value(q, d) == IF d \in Mine(q) THEN ov[q][d] ELSE dogs[d]
Visible(q) == {d \in Ids : Value(q, d) # None}
Free(q, ds) == \A p \in Requests \ {q} : Mine(p) \cap ds = {}
Write(q, ds, v) == ov' = [ov EXCEPT ![q] = [d \in Mine(q) \cup ds |-> IF d \in ds THEN v ELSE @[d]]]
Goto(q, at) == req' = [req EXCEPT ![q].at = at]
NoReq == [at |-> "idle", in |-> [op |-> "none", keep |-> {}, new |-> {}, rep |-> None], seen |-> {}]
Abort(q) == /\ ov' = [ov EXCEPT ![q] = <<>>]
            /\ req' = [req EXCEPT ![q].at = "done"]

(* get_ids_by_owner_id and get_owned_ids_in; a dog that is not the owner's *)
(* refuses the request.                                                    *)
upsert_dog_profile(q) ==
    \E in \in Inputs[q] :
        /\ req[q].at = "idle" /\ in.op = "upsert"
        /\ req' = [req EXCEPT ![q] = [at |-> IF in.keep \subseteq Visible(q) THEN "update" ELSE "done",
                                      in |-> in, seen |-> Visible(q)]]
        /\ UNCHANGED <<dogs, ov, asked>>

(* Rows that went meanwhile are not updated.                               *)
bulk_update_by_owner(q) ==
    /\ req[q].at = "update" /\ Free(q, req[q].in.keep)
    /\ Write(q, req[q].in.keep \cap Visible(q), "plain")
    /\ Goto(q, "create")
    /\ UNCHANGED <<dogs, asked>>

create_many(q) ==
    /\ req[q].at = "create" /\ Free(q, req[q].in.new)
    /\ \A d \in req[q].in.new : dogs[d] = None
    /\ Write(q, req[q].in.new, "plain")
    /\ Goto(q, "delete")
    /\ UNCHANGED <<dogs, asked>>

(* existing_ids - requested_ids: of the list as it was read first.         *)
bulk_delete_by_owner_ids(q) ==
    LET gone == req[q].seen \ (req[q].in.keep \cup req[q].in.new) IN
    /\ req[q].at = "delete" /\ Free(q, gone)
    /\ Write(q, gone \cap Visible(q), None)
    /\ Goto(q, IF req[q].in.rep = None THEN "commit" ELSE "clear")
    /\ UNCHANGED <<dogs, asked>>

set_representative_dog(q) ==
    \E in \in Inputs[q] :
        /\ req[q].at = "idle" /\ in.op = "set"
        /\ req' = [req EXCEPT ![q] = [at |-> IF dogs[in.rep] # None THEN "clear" ELSE "done",
                                      in |-> in, seen |-> {}]]
        /\ UNCHANGED <<dogs, ov, asked>>

(* set_representative, the first statement: it takes the dogs that are     *)
(* committed or the transaction's own when it starts, and waits for rows   *)
(* others hold.  A dog committed during that wait is not among them.       *)
clear_snapshot(q) ==
    /\ req[q].at = "clear"
    /\ req' = [req EXCEPT ![q] = [at |-> "clear rows", in |-> req[q].in, seen |-> Visible(q)]]
    /\ UNCHANGED <<dogs, ov, asked>>

clear_representative(q) ==
    /\ req[q].at = "clear rows" /\ Free(q, req[q].seen)
    /\ Write(q, req[q].seen \cap Visible(q), "plain")
    /\ Goto(q, "set")
    /\ UNCHANGED <<dogs, asked>>

(* The second: the partial unique index lets one row per owner be TRUE; an *)
(* uncommitted one is waited for, a committed one is an error.  Without    *)
(* the row the update returns nothing, an error for one of the callers.    *)
Representatives(q) == {d \in Ids : Value(q, d) = "rep"}
\* Mutated: no unique index.
no_index(q, d) == TRUE

unique_ok(q, d) == Representatives(q) \subseteq {d}

set_representative(q) ==
    LET d == req[q].in.rep IN
    /\ req[q].at = "set" /\ Free(q, {d})
    /\ \A p \in Requests \ {q} : \A e \in Mine(p) : ov[p][e] # "rep"
    /\ \/ d \in Visible(q) /\ unique_ok(q, d) /\ Write(q, {d}, "rep") /\ Goto(q, "commit")
       \/ d \in Visible(q) /\ ~unique_ok(q, d) /\ Abort(q)
       \/ d \notin Visible(q) /\ req[q].in.op = "upsert" /\ Goto(q, "commit") /\ UNCHANGED ov
       \/ d \notin Visible(q) /\ req[q].in.op = "set" /\ Abort(q)
    /\ UNCHANGED <<dogs, asked>>

commit(q) ==
    /\ req[q].at = "commit"
    /\ dogs' = [d \in Ids |-> Value(q, d)]
    /\ ov' = [ov EXCEPT ![q] = <<>>]
    /\ Goto(q, "done")
    /\ asked' = req[q].in.rep

(* The victim of a deadlock, or a statement that fails.                    *)
rollback(q) ==
    /\ req[q].at \notin {"idle", "done"}
    /\ Abort(q)
    /\ UNCHANGED <<dogs, asked>>

Init == /\ dogs = [d \in Ids |-> IF d \in Existing THEN "plain" ELSE None]
        /\ ov = [q \in Requests |-> <<>>]
        /\ req = [q \in Requests |-> NoReq]
        /\ asked = None

Next == \E q \in Requests :
            \/ upsert_dog_profile(q) \/ bulk_update_by_owner(q) \/ create_many(q) \/ bulk_delete_by_owner_ids(q)
            \/ set_representative_dog(q) \/ clear_snapshot(q) \/ clear_representative(q) \/ set_representative(q)
            \/ commit(q) \/ rollback(q)

Spec == Init /\ [][Next]_vars

(* Rows are absent, plain or representative, and a transaction that is over*)
(* holds nothing.                                                          *)
TypeOK ==
    /\ dogs \in [Ids -> {None, "plain", "rep"}]
    /\ \A q \in Requests : Mine(q) \subseteq Ids /\ (req[q].at \in {"idle", "done"} => Mine(q) = {})
    /\ asked \in Ids \cup {None}

(* An owner never has two representative dogs, though one transaction may  *)
(* insert a dog the other's first statement did not see; and the dog the   *)
(* last commit asked for is the one, unless it is gone (set_representative,*)
(* uq_dog_profiles_owner_representative).                                  *)
OneRepresentative ==
    /\ Cardinality({d \in Ids : dogs[d] = "rep"}) <= 1
    /\ asked # None => dogs[asked] \in {None, "rep"}
=============================================================================
