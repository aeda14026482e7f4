------------------------------- MODULE Limits -------------------------------
(***************************************************************************)
(* The sliding-window limiters: of OTP requests in auth-service            *)
(* (ratelimit.go), of POST /v1/orders in api-gateway (ratelimit.go), and   *)
(* of address searches in geo-service (search_ratelimit.go).  The three    *)
(* share their arithmetic line by line.                                    *)
(*                                                                         *)
(* A handler reads the clock and then waits for the mutex, so hits are     *)
(* recorded in the order of the mutex and not in that of their times.      *)
(* A window is kept in memory, per key: a restart forgets it.              *)
(***************************************************************************)
EXTENDS Integers, FiniteSets, SequencesExt

CONSTANTS
    Clients,   \* requests being served at the same time
    Keys,      \* what is limited: IPs, phones, users
    MaxHits,   \* quota of each key
    Window,
    Cooldown,  \* time between two OTPs for one phone
    MaxSkew,   \* bound on the wait for a mutex
    MaxTime    \* bound on the clock

ASSUME LimitsAssumption ==
    /\ MaxHits \in [Keys -> Nat \ {0}]
    /\ Window \in Nat \ {0}
    /\ Cooldown \in Nat
    /\ MaxSkew \in 0 .. Window
    /\ MaxTime \in Nat

VARIABLES
    clock,
    hits,     \* l.hits, l.phoneHits and l.ipHits
    last,     \* l.phoneLast, -Cooldown for a phone not seen
    asking,   \* the requests between time.Now() and their mutex
    granted   \* not in the code: the times of all the hits recorded

limitVars == <<clock, hits, last, asking, granted>>

Nothing == [at |-> "idle"]

Asking ==
    {Nothing}
        \cup [at : {"first", "second"}, keys : Keys \X Keys, time : Nat]
        \cup [at : {"otp"}, keys : Keys \X Keys, time : Nat]

LimitsTypeOK ==
    /\ clock \in 0 .. MaxTime
    /\ hits \in [Keys -> Seq(Nat)]
    /\ last \in [Keys -> Int]
    /\ asking \in [Clients -> Asking]
    /\ granted \in [Keys -> Seq(Nat)]

LimitsInit ==
    /\ clock = 0
    /\ hits = [k \in Keys |-> << >>]
    /\ last = [k \in Keys |-> -Cooldown]
    /\ asking = [c \in Clients |-> Nothing]
    /\ granted = [k \in Keys |-> << >>]

-----------------------------------------------------------------------------
\* pruneHits, pruneRateHits, pruneGeoHits: the hits from the first one in the
\* window on.
\* Mutant: a fixed window, emptied when its first hit is too old.
PrunedWhole(k, time) ==
    IF hits[k] # << >> /\ Head(hits[k]) <= time - Window THEN << >> ELSE hits[k]

Pruned(k, time) ==
    LET i == SelectInSeq(hits[k], LAMBDA t : t > time - Window)
    IN  IF i = 0 THEN << >> ELSE SubSeq(hits[k], i, Len(hits[k]))

Full(k, time) == Len(Pruned(k, time)) >= MaxHits[k]

Forget(ks, time) ==
    hits' = [k \in Keys |-> IF k \in ks THEN Pruned(k, time) ELSE hits[k]]

Hit(ks, time) ==
    /\ hits' = [k \in Keys |->
           IF k \in ks THEN Append(Pruned(k, time), time) ELSE hits[k]]
    /\ granted' = [k \in Keys |->
           IF k \in ks THEN Append(granted[k], time) ELSE granted[k]]

Goes(c, to) == asking' = [asking EXCEPT ![c] = to]

-----------------------------------------------------------------------------
\* A request arrives and its handler reads the clock.
Arrive(c, at, keys) ==
    /\ asking[c] = Nothing
    /\ Goes(c, [at |-> at, keys |-> keys, time |-> clock])
    /\ UNCHANGED <<clock, hits, last, granted>>

\* slidingWindowLimiter.Allow and geoSearchRateLimiter.Allow, under the mutex of
\* the limiter: of one key, or of the IP and then of the user of an order, which
\* has a limiter, a mutex and a reading of the clock of its own.  What the first
\* one has granted stays on record when the second one denies.
Allow(c) ==
    LET r == asking[c]
        k == IF r.at = "first" THEN r.keys[1] ELSE r.keys[2]
    IN  /\ r.at \in {"first", "second"}
        /\ IF Full(k, r.time)
           THEN Forget({k}, r.time) /\ Goes(c, Nothing) /\ UNCHANGED granted
           ELSE /\ Hit({k}, r.time)
                /\ Goes(c, IF r.at = "first"
                           THEN [at |-> "second", keys |-> r.keys,
                                 time |-> clock]
                           ELSE Nothing)
        /\ UNCHANGED <<clock, last>>

\* otpRateLimiter.Allow: cooldown and quota of the phone, then quota of the IP,
\* under one mutex; a hit is recorded when all three let it pass.
CoolingDown(r) == Cooldown - (r.time - last[r.keys[1]]) > 0

AllowOtp(c) ==
    LET r     == asking[c]
        phone == r.keys[1]
        ip    == r.keys[2]
    IN  /\ r.at = "otp"
        /\ \/ CoolingDown(r) /\ UNCHANGED <<hits, last, granted>>
           \/ /\ ~CoolingDown(r) /\ Full(phone, r.time)
              /\ Forget({phone}, r.time)
              /\ UNCHANGED <<last, granted>>
           \/ /\ ~CoolingDown(r) /\ ~Full(phone, r.time) /\ Full(ip, r.time)
              /\ Forget({phone, ip}, r.time)
              /\ UNCHANGED <<last, granted>>
           \/ /\ ~CoolingDown(r) /\ ~Full(phone, r.time) /\ ~Full(ip, r.time)
              /\ Hit({phone, ip}, r.time)
              /\ last' = [last EXCEPT ![phone] = r.time]
        /\ Goes(c, Nothing)
        /\ UNCHANGED clock

\* Nobody waits for a mutex longer than MaxSkew.
Tick ==
    /\ clock < MaxTime
    /\ \A c \in Clients :
           asking[c] # Nothing => clock - asking[c].time < MaxSkew
    /\ clock' = clock + 1
    /\ UNCHANGED <<hits, last, asking, granted>>

\* Requests of one kind: "first" for orders, "otp" for codes, and "second", of
\* one key only, for searches, logins and the codes the gateway forwards.
LimitsNext(at, pairs) ==
    \/ \E c \in Clients, keys \in pairs : Arrive(c, at, keys)
    \/ \E c \in Clients : Allow(c) \/ AllowOtp(c)
    \/ Tick

-----------------------------------------------------------------------------
(***************************************************************************)
(* Properties.                                                             *)
(***************************************************************************)
Within(k, i, span) ==
    {j \in DOMAIN granted[k] :
        granted[k][i] <= granted[k][j] /\ granted[k][j] < granted[k][i] + span}

\* Whatever order the requests got the mutex in, no key is granted more than
\* its quota in any window.  A request prunes with its own reading of the
\* clock, which may be ahead of those that follow: the window that is safe is
\* shorter by the longest wait for the mutex.
QuotasHold ==
    \A k \in Keys : \A i \in DOMAIN granted[k] :
        Cardinality(Within(k, i, Window - MaxSkew)) <= MaxHits[k]
=============================================================================
