---------------------------- MODULE SnapshotStore ----------------------------
(***************************************************************************)
(* What a database that is saved from time to time promises about its      *)
(* vectors: an operation changes one id; saving makes the present contents *)
(* the durable ones, all of them at once; and a process that stops, for    *)
(* whatever reason, finds the contents of the last save.                   *)
(***************************************************************************)
CONSTANTS Ids, Vecs

VARIABLES
    contents,   \* a function from the ids present to their vectors
    saved       \* the contents a restart finds

vars == <<contents, saved>>

Nothing == [id \in {} |-> {}]

Init ==
    /\ contents = Nothing
    /\ saved = Nothing

Put(id, v) ==
    /\ contents' = [k \in DOMAIN contents \cup {id} |->
                        IF k = id THEN v ELSE contents[k]]
    /\ UNCHANGED saved

Delete(id) ==
    /\ id \in DOMAIN contents
    /\ contents' = [k \in DOMAIN contents \ {id} |-> contents[k]]
    /\ UNCHANGED saved

Save ==
    /\ saved' = contents
    /\ UNCHANGED contents

Restart ==
    /\ contents' = saved
    /\ UNCHANGED saved

Next ==
    \/ \E id \in Ids, v \in Vecs : Put(id, v)
    \/ \E id \in Ids : Delete(id)
    \/ Save
    \/ Restart

Spec == Init /\ [][Next]_vars
=============================================================================
