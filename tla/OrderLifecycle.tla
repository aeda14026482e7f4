--------------------------- MODULE OrderLifecycle ---------------------------
(***************************************************************************)
(* What order-service promises about the status of an order, without       *)
(* handlers, calls or crashes.                                             *)
(*                                                                         *)
(* A placed order is PENDING until it is completed or cancelled, whichever *)
(* comes first.  Its placement is open until the stock is known to be      *)
(* reserved; an open placement may still be aborted, which cancels the     *)
(* order whatever has happened to it meanwhile.  Once the placement is     *)
(* closed, COMPLETED and CANCELLED are final.                              *)
(***************************************************************************)
CONSTANT Orders

VARIABLES phase,  \* NONE, PENDING, COMPLETED or CANCELLED
          open    \* is the placement of the order still open?

Init ==
    /\ phase = [o \in Orders |-> "NONE"]
    /\ open = [o \in Orders |-> FALSE]

Place(o) ==
    /\ phase[o] = "NONE"
    /\ phase' = [phase EXCEPT ![o] = "PENDING"]
    /\ open' = [open EXCEPT ![o] = TRUE]

Abort(o) ==
    /\ open[o]
    /\ phase' = [phase EXCEPT ![o] = "CANCELLED"]
    /\ open' = [open EXCEPT ![o] = FALSE]

\* One placement is confirmed, or a crash closes all that are open.
Close(closed) ==
    /\ open' = [o \in Orders |-> open[o] /\ o \notin closed]
    /\ UNCHANGED phase

Finish(o, outcome) ==
    /\ phase[o] = "PENDING"
    /\ phase' = [phase EXCEPT ![o] = outcome]
    /\ UNCHANGED open

Next ==
    \/ \E o \in Orders : \/ Place(o)
                         \/ Abort(o)
                         \/ Finish(o, "COMPLETED")
                         \/ Finish(o, "CANCELLED")
    \/ \E closed \in SUBSET Orders : Close(closed)

Spec == Init /\ [][Next]_<<phase, open>>
=============================================================================
