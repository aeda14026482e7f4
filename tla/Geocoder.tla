------------------------------ MODULE Geocoder ------------------------------
(***************************************************************************)
(* geo-service: address searches and the turn they wait for at Nominatim   *)
(* (search.go, geocode.go).                                                *)
(*                                                                         *)
(* Nominatim is asked once per minInterval.  lastMu, a channel that holds  *)
(* one token, guards lastAt; a search holds the token while it waits for   *)
(* its time.  A client that hangs up cancels its search wherever it is.    *)
(*                                                                         *)
(* Times are kept as ages, at most MinInterval, so that the clock needs no *)
(* bound.  A cached answer ends at any time.                               *)
(***************************************************************************)
EXTENDS Integers, FiniteSets

CONSTANTS
    Searches,    \* requests being served at the same time
    Queries,
    NoQuery,
    MinInterval

ASSUME GeocoderAssumption ==
    /\ NoQuery \notin Queries
    /\ MinInterval \in Nat \ {0}

VARIABLES
    search,     \* the handlers of GET /v1/geo/search, with their locals
    token,      \* is the token in lastMu?
    sinceLast,  \* time.Since(lastAt)
    cached,     \* geocode_cache, rows that have not expired
    sinceTurn   \* not in the code: time since a search last got its turn

geoVars == <<search, token, sinceLast, cached, sinceTurn>>

Stages == {"idle", "queued", "waiting", "asking"}

\* wait is what the timer of a search has left.
Search == [at : Stages, query : Queries \cup {NoQuery}, wait : 0 .. MinInterval]

NoSearch == [at |-> "idle", query |-> NoQuery, wait |-> 0]

GeocoderTypeOK ==
    /\ search \in [Searches -> Search]
    /\ token \in BOOLEAN
    /\ sinceLast \in 0 .. MinInterval
    /\ cached \subseteq Queries
    /\ sinceTurn \in 0 .. MinInterval

\* newNominatimGeocoder: lastAt is the zero time.
GeocoderInit ==
    /\ search = [s \in Searches |-> NoSearch]
    /\ token = TRUE
    /\ sinceLast = MinInterval
    /\ cached = {}
    /\ sinceTurn = MinInterval

-----------------------------------------------------------------------------
Step(s, to) == search' = [search EXCEPT ![s] = to]

\* handleSearch, up to geocoder.Search; a cached answer ends it.
StartSearch(s, q) ==
    /\ search[s].at = "idle"
    /\ q \notin cached
    /\ Step(s, [at |-> "queued", query |-> q, wait |-> 0])
    /\ UNCHANGED <<token, sinceLast, cached, sinceTurn>>

\* waitSlot, the first select.
\* Mutant: the token is given back before the wait.
WaitWithoutToken(s) ==
    /\ search[s].at = "queued"
    /\ token
    /\ Step(s, [search[s] EXCEPT !.at = "waiting",
                                 !.wait = MinInterval - sinceLast])
    /\ UNCHANGED <<token, sinceLast, cached, sinceTurn>>

TakeToken(s) ==
    /\ search[s].at = "queued"
    /\ token
    /\ token' = FALSE
    /\ Step(s, [search[s] EXCEPT !.at = "waiting",
                                 !.wait = MinInterval - sinceLast])
    /\ UNCHANGED <<sinceLast, cached, sinceTurn>>

\* waitSlot returns: the timer has run out, lastAt is set, the token given back.
GetTurn(s) ==
    /\ search[s].at = "waiting"
    /\ search[s].wait = 0
    /\ token' = TRUE
    /\ sinceLast' = 0
    /\ sinceTurn' = 0
    /\ Step(s, [search[s] EXCEPT !.at = "asking"])
    /\ UNCHANGED cached

\* The provider answers, and the answer is cached; or it fails, or the client
\* of eight seconds gives up.
Answered(s) ==
    /\ search[s].at = "asking"
    /\ cached' \in {cached, cached \cup {search[s].query}}
    /\ Step(s, NoSearch)
    /\ UNCHANGED <<token, sinceLast, sinceTurn>>

\* ctx.Done, at any point: the deferred send gives the token back.
\* Mutant: the token is given back only by a search that got its turn.
CancelKeepingToken(s) ==
    /\ search[s].at # "idle"
    /\ Step(s, NoSearch)
    /\ UNCHANGED <<token, sinceLast, cached, sinceTurn>>

Cancel(s) ==
    /\ search[s].at # "idle"
    /\ token' = (token \/ search[s].at = "waiting")
    /\ Step(s, NoSearch)
    /\ UNCHANGED <<sinceLast, cached, sinceTurn>>

\* putCachedSearch set expires_at; the next search deletes the row.
CacheExpires(q) ==
    /\ q \in cached
    /\ cached' = cached \ {q}
    /\ UNCHANGED <<search, token, sinceLast, sinceTurn>>

Older(age) == IF age < MinInterval THEN age + 1 ELSE age

GeoTick ==
    /\ search' = [s \in Searches |->
           [search[s] EXCEPT !.wait = IF @ > 0 THEN @ - 1 ELSE 0]]
    /\ sinceLast' = Older(sinceLast)
    /\ sinceTurn' = Older(sinceTurn)
    /\ UNCHANGED <<token, cached>>

GeocoderNext ==
    \/ \E s \in Searches :
           \/ \E q \in Queries : StartSearch(s, q)
           \/ TakeToken(s) \/ GetTurn(s) \/ Answered(s) \/ Cancel(s)
    \/ \E q \in Queries : CacheExpires(q)
    \/ GeoTick

-----------------------------------------------------------------------------
(***************************************************************************)
(* Properties.                                                             *)
(***************************************************************************)
\* Nominatim's usage policy: however searches queue, hang up and start again,
\* two turns are MinInterval apart.
SlotsSpaced ==
    [][\A s \in Searches :
          search[s].at # "asking" /\ search'[s].at = "asking" =>
              sinceTurn = MinInterval
      ]_search

\* No search waits for ever, behind whatever others that hang up.
SearchesEnd == \A s \in Searches : search[s].at = "queued" ~> search[s].at = "idle"
=============================================================================
