-------------------------- MODULE TransactionalRows --------------------------
(***************************************************************************)
(* What the metadata store promises about its rows.  A call does what it   *)
(* was asked to do with the metadata or the ids it was given, as a whole,  *)
(* or nothing.  The bodies of in_transaction, nested or of several         *)
(* threads, share one transaction: it is durable when the last of them     *)
(* returns, and all of it is undone when one of them, or a call of several *)
(* statements, throws.                                                     *)
(*                                                                         *)
(* Not promised is which return makes a transaction durable that was begun *)
(* while bodies were still running whose own transaction had been undone.  *)
(***************************************************************************)
EXTENDS Naturals

CONSTANTS
    Threads,
    Ids, Keys, Values,
    Metas,      \* the metadata callers give: sets of [key, value]
    Config,     \* stands for the id in the rows of the configuration
    NaN, Zero   \* a real that is not kept, and what is found in its place

VARIABLES
    table,      \* the durable rows
    view,       \* the rows as the callers see them
    open,       \* whether a transaction is open
    asked,      \* the call of several statements under way, if any
    found,      \* of a thread: the ids its remove_orphans is about to clear
    bodies,     \* of a thread: the bodies it is inside of
    loose       \* whether bodies run whose transaction has been undone

vars == <<table, view, open, asked, found, bodies, loose>>

Row == [id : Ids \cup {Config}, key : Keys, value : Values]

Running(b) == \E t \in Threads : b[t] > 0

Init ==
    /\ table = {}
    /\ view = {}
    /\ open = FALSE
    /\ asked = {}
    /\ found = [t \in Threads |-> {}]
    /\ bodies = [t \in Threads |-> 0]
    /\ loose = FALSE

Change(rows) ==
    /\ view' = rows
    /\ table' = IF open THEN table ELSE rows
    /\ UNCHANGED open

Undo ==
    /\ view' = table
    /\ open' = FALSE
    /\ loose' = Running(bodies')
    /\ UNCHANGED table

(***************************************************************************)
(* set and remove_orphans                                                  *)
(***************************************************************************)
Given(id, meta) ==
    {[id |-> id, key |-> e.key, value |-> IF e.value = NaN THEN Zero ELSE e.value] :
        e \in meta}

Ask(call) ==
    /\ asked = {}
    /\ asked' = {call}
    /\ UNCHANGED <<table, view, open, bodies, loose>>

Set(t, id, meta) ==
    /\ Ask([by |-> t, ids |-> {id}, meta |-> meta])
    /\ UNCHANGED found

Survey(t, live) ==
    /\ asked = {}
    /\ found' = [found EXCEPT ![t] = {r.id : r \in view} \ (live \cup {Config})]
    /\ UNCHANGED <<table, view, open, asked, bodies, loose>>

RemoveOrphans(t) ==
    /\ Ask([by |-> t, ids |-> found[t], meta |-> {}])
    /\ found' = [found EXCEPT ![t] = {}]

\* The call returns, having cleared its ids and given its one id the rows of
\* its metadata.
Perform ==
    \E call \in asked :
        /\ Change({r \in view : r.id \notin call.ids}
                  \cup UNION {Given(id, call.meta) : id \in call.ids})
        /\ asked' = {}
        /\ UNCHANGED <<found, bodies, loose>>

\* The call throws.
Fail ==
    /\ asked # {}
    /\ asked' = {}
    /\ UNCHANGED <<found, bodies>>
    /\ Undo

(***************************************************************************)
(* Calls of one statement: set_key and set_config, remove_key, remove      *)
(***************************************************************************)
AtOnce(rows) ==
    /\ asked = {}
    /\ Change(rows)
    /\ UNCHANGED <<asked, found, bodies, loose>>

Put(row)  == AtOnce({r \in view : <<r.id, r.key>> # <<row.id, row.key>>} \cup {row})
Drop(row) == AtOnce(view \ {row})
Clear(id) == AtOnce({r \in view : r.id # id})

(***************************************************************************)
(* in_transaction                                                          *)
(***************************************************************************)
Enter(t) ==
    /\ asked = {}
    /\ bodies' = [bodies EXCEPT ![t] = @ + 1]
    /\ open' = TRUE
    /\ UNCHANGED <<table, view, asked, found, loose>>

Return(t) ==
    LET commits == table' = view /\ open' = FALSE
        goesOn  == UNCHANGED <<table, open>>
    IN  /\ asked = {}
        /\ bodies[t] > 0
        /\ bodies' = [bodies EXCEPT ![t] = @ - 1]
        /\ \/ loose /\ (commits \/ goesOn)
           \/ ~loose /\ (IF Running(bodies') THEN goesOn ELSE commits)
        /\ loose' = (loose /\ Running(bodies'))
        /\ UNCHANGED <<view, asked, found>>

Throw(t) ==
    /\ asked = {}
    /\ bodies[t] > 0
    /\ bodies' = [bodies EXCEPT ![t] = @ - 1]
    /\ UNCHANGED <<asked, found>>
    /\ Undo

\* The process ends and another opens the file.
Restart ==
    /\ asked' = {}
    /\ found' = [t \in Threads |-> {}]
    /\ bodies' = [t \in Threads |-> 0]
    /\ Undo

Next ==
    \/ \E t \in Threads :
           \/ \E id \in Ids, meta \in Metas : Set(t, id, meta)
           \/ \E live \in SUBSET Ids : Survey(t, live)
           \/ RemoveOrphans(t) \/ Enter(t) \/ Return(t) \/ Throw(t)
    \/ Perform
    \/ Fail
    \/ \E row \in Row : Put(row) \/ Drop(row)
    \/ \E id \in Ids : Clear(id)
    \/ Restart

Spec == Init /\ [][Next]_vars
=============================================================================
