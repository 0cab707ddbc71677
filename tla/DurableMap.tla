----------------------------- MODULE DurableMap ------------------------------
(***************************************************************************)
(* What a caller sees of a database nothing goes wrong with: a map from    *)
(* ids to a vector and its metadata, and the next automatic id.  Closing,  *)
(* opening, flushing, compacting and rebuilding are not visible.           *)
(***************************************************************************)
EXTENDS Naturals

CONSTANTS MaxId, Vecs, Metadata

VARIABLES entries, next

vars == <<entries, next>>

Ids == 0 .. MaxId

Nothing == [id \in {} |-> {}]

Init ==
    /\ entries = Nothing
    /\ next = 0

Store(id, v, m) ==
    entries' = [k \in DOMAIN entries \cup {id} |->
                    IF k = id THEN [vec |-> v, meta |-> m] ELSE entries[k]]

\* The next id is one past the highest ever used; past MaxId it starts again.
Add(id, v, m) ==
    /\ id \notin DOMAIN entries
    /\ Store(id, v, m)
    /\ next' = IF id < next THEN next
               ELSE IF id = MaxId THEN 0 ELSE id + 1

Replace(id, v, m) ==
    /\ id \in DOMAIN entries
    /\ Store(id, v, m)
    /\ UNCHANGED next

Delete(id) ==
    /\ id \in DOMAIN entries
    /\ entries' = [k \in DOMAIN entries \ {id} |-> entries[k]]
    /\ UNCHANGED next

Next ==
    \E id \in Ids :
        \/ \E v \in Vecs, m \in Metadata : Add(id, v, m) \/ Replace(id, v, m)
        \/ Delete(id)

Spec == Init /\ [][Next]_vars
=============================================================================
