--------------------------- MODULE StoreAndForward --------------------------
(***************************************************************************)
(* What the gateway's server promises between the serial port and the      *)
(* database: points are stored once each, in the order they were accepted, *)
(* as they were accepted, and only the end of the process loses those that *)
(* wait.  So a value is replaced only by one accepted later, for the same  *)
(* mote and second.  GatewayServer implements this specification.          *)
(***************************************************************************)
EXTENDS InfluxDB, Sequences

VARIABLES
    running,    \* the process runs
    pending,    \* accepted and not stored, oldest first
    stored      \* the database

storeVars == <<running, pending, stored>>

StoreInit == running = TRUE /\ pending = <<>> /\ stored = EmptyTables

\* The first conjunct on pending spares TLC the search for a p in most steps.
Accept ==
    /\ running
    /\ pending' # pending
    /\ \E p \in Points : pending' = Append(pending, p)
    /\ UNCHANGED <<running, stored>>

Store ==
    /\ running
    /\ pending # <<>>
    /\ stored' = Merged(stored, Head(pending))
    /\ pending' = Tail(pending)
    /\ UNCHANGED running

End ==
    /\ running
    /\ running' = FALSE
    /\ pending' = <<>>
    /\ UNCHANGED stored

Restart ==
    /\ ~running
    /\ running' = TRUE
    /\ UNCHANGED <<pending, stored>>

StoreNext == Accept \/ Store \/ End \/ Restart

StoreSpec == StoreInit /\ [][StoreNext]_storeVars
=============================================================================
