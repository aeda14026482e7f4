-------------------------------- MODULE Fees --------------------------------
(***************************************************************************)
(* order-service: the delivery fee by distance (delivery_fee.go,           *)
(* admin_delivery_fee.go).                                                 *)
(*                                                                         *)
(* A rule is a half-open band [min, max) of distances with a fee.  The     *)
(* rules are kept in the order they are loaded in (sort_order, min_km,     *)
(* id).  A distance is a number of some unit: the code compares floats.    *)
(***************************************************************************)
EXTENDS Editing, Naturals, Sequences

CONSTANTS
    Infinity,   \* max_km null
    RuleLists,  \* the rules admins send, well-formed or not
    SeedRules,  \* defaultDeliveryFeeRules
    SeedToggle, \* DELIVERY_FEE_ENABLED
    Distances   \* the distances asked for

FeeRule ==
    [min : Nat, max : Nat \cup {Infinity}, fee : Nat, active : BOOLEAN]

ASSUME FeesAssumption ==
    /\ Infinity \notin Nat
    /\ Absent \notin RuleLists
    /\ Absent \notin BOOLEAN
    /\ \A l \in RuleLists \cup {SeedRules} : l \in Seq(FeeRule)
    /\ SeedToggle \in BOOLEAN
    /\ Distances \subseteq Nat

VARIABLES
    feeEnabled,  \* delivery_fee_settings.enabled, Absent while not seeded
    feeRules,    \* table delivery_fee_rules
    feeEdit,     \* the PUT handlers, with their locals
    feeLog       \* not in the code: every list of rules there has been

feeVars == <<feeEnabled, feeRules, feeEdit, feeLog>>

FeeEdit ==
    {Idle} \cup [at : {"merged"}, enabled : BOOLEAN,
                 rules : RuleLists \cup {Absent}]

FeesTypeOK ==
    /\ feeEnabled \in BOOLEAN \cup {Absent}
    /\ feeRules \in RuleLists \cup {SeedRules, << >>}
    /\ feeEdit \in [Editors -> FeeEdit]
    /\ feeLog \subseteq RuleLists \cup {SeedRules, << >>}

\* seedDeliveryFee, or DELIVERY_FEE_SEED=0.
FeesInit ==
    /\ \/ feeEnabled = SeedToggle /\ feeRules = SeedRules
       \/ feeEnabled = Absent /\ feeRules = << >>
    /\ feeEdit = [e \in Editors |-> Idle]
    /\ feeLog = {feeRules}

-----------------------------------------------------------------------------
(***************************************************************************)
(* normalizePutDeliveryFeeRules, validateActiveRuleBands                   *)
(***************************************************************************)
WellFormed(rules) ==
    \A i \in DOMAIN rules :
        rules[i].max # Infinity => rules[i].max > rules[i].min

Active(rules) == {i \in DOMAIN rules : rules[i].active}

\* The order of the active bands: by min_km, then as loaded.
Below(rules, i, j) ==
    \/ rules[i].min < rules[j].min
    \/ rules[i].min = rules[j].min /\ i < j

Neighbours(rules, i, j) ==
    /\ Below(rules, i, j)
    /\ ~\E k \in Active(rules) : Below(rules, i, k) /\ Below(rules, k, j)

\* Mutant: only a band that starts where another does overlaps it.
BandsStartApart(rules) ==
    \A i, j \in Active(rules) :
        Neighbours(rules, i, j) =>
            rules[i].max # Infinity /\ rules[i].min < rules[j].min

BandsApart(rules) ==
    \A i, j \in Active(rules) :
        Neighbours(rules, i, j) =>
            rules[i].max # Infinity /\ rules[i].max <= rules[j].min

Acceptable(rules) == WellFormed(rules) /\ BandsApart(rules)

ASSUME SeedAssumption == Acceptable(SeedRules)

-----------------------------------------------------------------------------
(***************************************************************************)
(* matchDeliveryFee: the first active rule that covers the distance.       *)
(***************************************************************************)
Covers(rule, distance) ==
    /\ rule.active
    /\ rule.min <= distance
    /\ rule.max = Infinity \/ distance < rule.max

Covering(rules, distance) == {i \in DOMAIN rules : Covers(rules[i], distance)}

BandFee(rules, distance) ==
    LET found == Covering(rules, distance)
    IN  IF found = {} THEN 0
        ELSE rules[CHOOSE i \in found : \A j \in found : i <= j].fee

MatchFee(enabled, rules, distance) ==
    IF enabled = TRUE THEN BandFee(rules, distance) ELSE 0

-----------------------------------------------------------------------------
\* handlePutAdminDeliveryFee, up to its transaction: the toggle is merged with
\* the stored one; rules, when given, replace the stored ones and must be
\* acceptable.
PutFees(e, toggle, rules) ==
    /\ feeEdit[e] = Idle
    /\ feeEnabled # Absent
    /\ toggle # Absent \/ rules # Absent
    /\ rules # Absent => Acceptable(rules)
    /\ feeEdit' = [feeEdit EXCEPT ![e] =
           [at |-> "merged", enabled |-> Given(toggle, feeEnabled),
            rules |-> rules]]
    /\ UNCHANGED <<feeEnabled, feeRules, feeLog>>

\* Mutant: the rules are deleted and inserted without a transaction.
SaveFeesInTwoSteps(e) ==
    /\ feeEdit[e].at = "merged"
    /\ feeEnabled' = feeEdit[e].enabled
    /\ IF feeEdit[e].rules # Absent /\ feeRules # << >>
       THEN feeRules' = << >> /\ UNCHANGED <<feeEdit, feeLog>>
       ELSE /\ feeRules' = Given(feeEdit[e].rules, feeRules)
            /\ feeLog' = feeLog \cup {feeRules'}
            /\ feeEdit' = [feeEdit EXCEPT ![e] = Idle]

\* saveDeliveryFeeConfig: one transaction.
SaveFees(e) ==
    /\ feeEdit[e].at = "merged"
    /\ feeEnabled' = feeEdit[e].enabled
    /\ feeRules' = Given(feeEdit[e].rules, feeRules)
    /\ feeLog' = feeLog \cup {feeRules'}
    /\ feeEdit' = [feeEdit EXCEPT ![e] = Idle]

\* order-service starts again, with DELIVERY_FEE_SEED set or not: settings
\* that are there are left alone.
FeesRestart ==
    /\ \/ /\ feeEnabled = Absent
          /\ feeEnabled' = SeedToggle
          /\ feeRules' = SeedRules
          /\ feeLog' = feeLog \cup {SeedRules}
       \/ UNCHANGED <<feeEnabled, feeRules, feeLog>>
    /\ feeEdit' = [e \in Editors |-> Idle]

-----------------------------------------------------------------------------
(***************************************************************************)
(* Properties.                                                             *)
(***************************************************************************)
\* The check of a PUT compares neighbours in one order; the fee is looked up in
\* another, first match wins.  The order never matters, and neither do the PUTs
\* that overlap: of all the rules stored at most one covers a distance.
OneBandPerDistance ==
    \A i, j \in DOMAIN feeRules, d \in Distances :
        Covers(feeRules[i], d) /\ Covers(feeRules[j], d) => i = j
=============================================================================
