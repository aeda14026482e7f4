------------------------------ MODULE AllowList ------------------------------
(***************************************************************************)
(* auth-service: the phones that get role admin after an OTP sign-in       *)
(* (admin_phones.go, admin_phones_api.go).                                 *)
(***************************************************************************)
EXTENDS FiniteSets, Naturals

CONSTANTS
    PhoneUsers,  \* accounts that sign in with an OTP, one per phone
    Seeded       \* the phones of ADMIN_PHONES

ASSUME AllowListAssumption == Seeded \subseteq PhoneUsers

VARIABLES
    adminPhones,  \* table admin_phones
    removing      \* DELETE requests between their count and their DELETE

allowListVars == <<adminPhones, removing>>

AllowListTypeOK == adminPhones \subseteq PhoneUsers /\ removing \subseteq PhoneUsers

AllowListInit == adminPhones = Seeded /\ removing = {}

-----------------------------------------------------------------------------
\* handleCreate: a phone already listed is answered with its row.
AddPhone(u) ==
    /\ adminPhones' = adminPhones \cup {u}
    /\ UNCHANGED removing

\* handleDelete keeps the last phone; it counts in a statement of its own.
CountPhones(u) ==
    /\ Cardinality(adminPhones) > 1
    /\ removing' = removing \cup {u}
    /\ UNCHANGED adminPhones

\* deleteAdminPhone; a phone that is no longer there is a 404.
RemovePhone(u) ==
    /\ u \in removing
    /\ removing' = removing \ {u}
    /\ adminPhones' = adminPhones \ {u}

\* The process starts again: requests are gone, and seedAdminPhones adds the
\* phones of ADMIN_PHONES that are missing.
SeedPhones ==
    /\ adminPhones' = adminPhones \cup Seeded
    /\ removing' = {}
=============================================================================
