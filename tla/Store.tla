-------------------------------- MODULE Store --------------------------------
(***************************************************************************)
(* geo-service: where the store is and how far it delivers (store.go,      *)
(* check.go).                                                              *)
(*                                                                         *)
(* A place stands for a legal pair of coordinates; a PUT of one coordinate *)
(* is a PUT of another place.                                              *)
(***************************************************************************)
EXTENDS Editing, Naturals

CONSTANTS
    Places,
    Distance,  \* haversineKm, rounded as the API shows it
    Radii,     \* max_radius_km
    SeedStore  \* STORE_LAT, STORE_LNG, STORE_MAX_RADIUS_KM

StoreRow == [place : Places, radius : Radii]

ASSUME StoreAssumption ==
    /\ Distance \in [Places -> [Places -> Nat]]
    /\ Radii \subseteq Nat \ {0}
    /\ Absent \notin Places
    /\ Absent \notin Radii
    /\ Absent \notin StoreRow
    /\ SeedStore \in StoreRow

VARIABLES
    store,     \* the row of store_settings, Absent while not seeded
    storeEdit  \* the PUT handlers, with the row they have merged

storeVars == <<store, storeEdit>>

StoreTypeOK ==
    /\ store \in StoreRow \cup {Absent}
    /\ storeEdit \in
           [Editors -> {Idle} \cup [at : {"merged"}, row : StoreRow]]

\* seedStoreSettings, or STORE_SEED=0.
StoreInit ==
    /\ store \in {SeedStore, Absent}
    /\ storeEdit = [e \in Editors |-> Idle]

-----------------------------------------------------------------------------
\* handleCheck: one read of the row.
DistanceTo(place) == Distance[store.place][place]
InRange(place)    == DistanceTo(place) <= store.radius

\* handlePutAdminStore, up to its UPDATE.
PutStore(e, place, radius) ==
    /\ storeEdit[e] = Idle
    /\ store # Absent
    /\ storeEdit' = [storeEdit EXCEPT ![e] =
           [at |-> "merged",
            row |-> [place  |-> Given(place, store.place),
                     radius |-> Given(radius, store.radius)]]]
    /\ UNCHANGED store

\* The UPDATE writes every column.
SaveStore(e) ==
    /\ storeEdit[e].at = "merged"
    /\ store' = storeEdit[e].row
    /\ storeEdit' = [storeEdit EXCEPT ![e] = Idle]

\* geo-service starts again, with STORE_SEED set or not.
StoreRestart ==
    /\ \/ store = Absent /\ store' = SeedStore
       \/ UNCHANGED store
    /\ storeEdit' = [e \in Editors |-> Idle]
=============================================================================
