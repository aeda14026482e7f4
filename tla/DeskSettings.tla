---------------------------- MODULE DeskSettings ----------------------------
(***************************************************************************)
(* order-service: the minutes after which a waiting order turns blue,      *)
(* orange and red at the order desk (desk_settings.go).  The settings of   *)
(* the alert are merged and written in the same way, and each has a range  *)
(* of its own.                                                             *)
(***************************************************************************)
EXTENDS Editing, Naturals

CONSTANTS
    Minutes,
    DeskBodies  \* the bodies admins send

Colours == {"blue", "orange", "red"}

ASSUME DeskSettingsAssumption ==
    /\ Minutes \subseteq Nat
    /\ {5, 15, 30} \subseteq Minutes
    /\ Absent \notin Minutes
    /\ DeskBodies \subseteq [Colours -> Minutes \cup {Absent}]

VARIABLES
    desk,     \* the row of desk_settings
    deskEdit  \* the PUT handlers, with the row they have loaded

deskVars == <<desk, deskEdit>>

DeskSettingsTypeOK ==
    /\ desk \in [Colours -> Minutes]
    /\ deskEdit \in
           [Editors -> {Idle} \cup [at : {"loaded"}, row : [Colours -> Minutes],
                                    body : DeskBodies]]

\* seedDeskSettings, called before every read.
DeskSettingsInit ==
    /\ desk = [c \in Colours |->
           CASE c = "blue" -> 5 [] c = "orange" -> 15 [] c = "red" -> 30]
    /\ deskEdit = [e \in Editors |-> Idle]

-----------------------------------------------------------------------------
\* validateDeskSettings
InOrder(row) ==
    0 < row["blue"] /\ row["blue"] < row["orange"] /\ row["orange"] < row["red"]

MergedDesk(edit) ==
    [c \in Colours |-> Given(edit.body[c], edit.row[c])]

\* handlePutDeskSettings, up to its UPDATE.
PutDesk(e, body) ==
    /\ deskEdit[e] = Idle
    /\ InOrder(MergedDesk([row |-> desk, body |-> body]))
    /\ deskEdit' = [deskEdit EXCEPT ![e] =
           [at |-> "loaded", row |-> desk, body |-> body]]
    /\ UNCHANGED desk

\* Mutant: only the columns the body gives are written.
SaveGivenColumns(e) ==
    /\ deskEdit[e] # Idle
    /\ desk' = MergedDesk([row |-> desk, body |-> deskEdit[e].body])
    /\ deskEdit' = [deskEdit EXCEPT ![e] = Idle]

\* The UPDATE writes every column as merged with the row loaded before.
SaveDesk(e) ==
    /\ deskEdit[e] # Idle
    /\ desk' = MergedDesk(deskEdit[e])
    /\ deskEdit' = [deskEdit EXCEPT ![e] = Idle]

DeskRestart ==
    /\ deskEdit' = [e \in Editors |-> Idle]
    /\ UNCHANGED desk

DeskSettingsNext ==
    \/ \E e \in Editors : SaveDesk(e) \/ \E body \in DeskBodies : PutDesk(e, body)
    \/ DeskRestart

-----------------------------------------------------------------------------
(***************************************************************************)
(* Properties.                                                             *)
(***************************************************************************)
\* Each PUT is checked against the row it has loaded, and PUTs overlap: but the
\* thresholds stored are always in order, so the desk never has two colours for
\* one order.  The CHECKs of the table, which say the same, are not modelled: a
\* PUT that was answered well never needed them.
ThresholdsOrdered == InOrder(desk)
=============================================================================
