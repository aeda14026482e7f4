----------------------------- MODULE Connection -----------------------------
(***************************************************************************)
(* pkg/natsx: the connection every service keeps to JetStream              *)
(* (background.go, natsx.go).                                              *)
(*                                                                         *)
(* main starts a loop that connects, makes the streams, and registers the  *)
(* consumers (onReady); after a failure it closes the connection it has    *)
(* made and tries again.  Close runs in another goroutine: it closes       *)
(* b.done, and then, under b.mu, takes the connection of b.                *)
(***************************************************************************)
EXTENDS Naturals

CONSTANT MaxOutages  \* bound on the outages of the broker, and on the attempts
                     \* that fail although it is up

ASSUME ConnectionAssumption == MaxOutages \in Nat

VARIABLES
    loop,       \* where the connect loop is
    provider,   \* b.nc, b.js and b.lastErr: what JS() answers
    closing,    \* where Close is; "signalled" from the close of b.done on
    brokerUp,
    outages,    \* outages of the broker, and attempts failed without one
    open,       \* nats connections that are open
    consuming   \* consumers are registered on the connection

connVars == <<loop, provider, closing, brokerUp, outages, open, consuming>>

LoopStages ==
    {"off", "attempt", "dialled", "connected", "streams", "subscribed",
     "backoff", "ready", "stopped"}

\* The loop has a connection in its hands.
Holding == {"dialled", "connected", "streams", "subscribed"}

ConnectionTypeOK ==
    /\ loop \in LoopStages
    /\ provider \in {"none", "error", "connected"}
    /\ closing \in {"no", "signalled", "done"}
    /\ brokerUp \in BOOLEAN
    /\ outages \in 0 .. MaxOutages
    /\ open \in Nat
    /\ consuming \in BOOLEAN

ConnectionInit ==
    /\ loop = "off"
    /\ provider = "none"
    /\ closing = "no"
    /\ brokerUp \in BOOLEAN
    /\ outages = 0
    /\ open = 0
    /\ consuming = FALSE

-----------------------------------------------------------------------------
\* Start; before that JS() answers ErrNotReady.
StartLoop ==
    /\ loop = "off"
    /\ loop' = "attempt"
    /\ UNCHANGED <<provider, closing, brokerUp, outages, open, consuming>>

\* The loop looks at b.done before each attempt and while it waits.
StopLoop ==
    /\ loop \in {"attempt", "backoff"}
    /\ closing # "no"
    /\ loop' = "stopped"
    /\ UNCHANGED <<provider, closing, brokerUp, outages, open, consuming>>

\* A call of the broker fails: it is down, or it is up but slow or refuses what
\* it is asked for.
Error ==
    \/ ~brokerUp /\ UNCHANGED outages
    \/ brokerUp /\ outages < MaxOutages /\ outages' = outages + 1

\* An attempt fails: lastErr is set, and the loop waits.
Fails ==
    /\ Error
    /\ loop' = "backoff"
    /\ provider' = "error"

\* Connect and PingJS, which try again on their own until their time is over: a
\* broker may accept the connection before JetStream answers.
Dial ==
    /\ loop = "attempt"
    /\ closing = "no"
    /\ \/ brokerUp /\ loop' = "dialled" /\ open' = open + 1
                   /\ UNCHANGED <<provider, outages>>
       \/ Fails /\ UNCHANGED open
    /\ UNCHANGED <<closing, brokerUp, consuming>>

Ping ==
    /\ loop = "dialled"
    /\ \/ brokerUp /\ loop' = "connected" /\ UNCHANGED <<provider, outages, open>>
       \/ Fails /\ open' = open - 1
    /\ UNCHANGED <<closing, brokerUp, consuming>>

\* EnsureStreams
MakeStreams ==
    /\ loop = "connected"
    /\ \/ brokerUp /\ loop' = "streams" /\ UNCHANGED <<provider, outages, open>>
       \/ Fails /\ open' = open - 1
    /\ UNCHANGED <<closing, brokerUp, consuming>>

\* onReady.  Mutants: a connection whose consumers could not be registered is
\* left open; or the loop ends.
SubscribeLeavingOpen ==
    /\ loop = "streams"
    /\ \/ brokerUp /\ loop' = "subscribed" /\ consuming' = TRUE
                   /\ UNCHANGED <<provider, outages>>
       \/ Fails /\ UNCHANGED consuming
    /\ UNCHANGED <<closing, brokerUp, open>>

SubscribeOnce ==
    /\ loop = "streams"
    /\ \/ brokerUp /\ loop' = "subscribed" /\ consuming' = TRUE
                   /\ UNCHANGED <<provider, outages>>
       \/ Error /\ loop' = "ready" /\ provider' = "connected"
                /\ UNCHANGED consuming
    /\ UNCHANGED <<closing, brokerUp, open>>

\* The consumers are registered one after the other; the connection is closed,
\* and with it those that were, when one of them could not be.
Subscribe ==
    /\ loop = "streams"
    /\ \/ brokerUp /\ loop' = "subscribed" /\ consuming' = TRUE
                   /\ UNCHANGED <<provider, outages, open>>
       \/ Fails /\ open' = open - 1 /\ UNCHANGED consuming
    /\ UNCHANGED <<closing, brokerUp>>

\* The connection is stored, whatever has become of b.done since the attempt
\* began.
StoreConnection ==
    /\ loop = "subscribed"
    /\ loop' = "ready"
    /\ provider' = "connected"
    /\ UNCHANGED <<closing, brokerUp, outages, open, consuming>>

\* time.After(backoff)
Retry ==
    /\ loop = "backoff"
    /\ loop' = "attempt"
    /\ UNCHANGED <<provider, closing, brokerUp, outages, open, consuming>>

-----------------------------------------------------------------------------
\* Close: b.done is closed, in a step of its own.
SignalClose ==
    /\ closing = "no"
    /\ closing' = "signalled"
    /\ UNCHANGED <<loop, provider, brokerUp, outages, open, consuming>>

\* Close takes the connection that is stored, if there is one.
TakeConnection ==
    /\ closing = "signalled"
    /\ closing' = "done"
    /\ IF provider = "connected"
       THEN provider' = "none" /\ open' = open - 1 /\ consuming' = FALSE
       ELSE UNCHANGED <<provider, open, consuming>>
    /\ UNCHANGED <<loop, brokerUp, outages>>

\* The broker stops or starts.  A connection that is stored is kept: nats.go
\* reconnects it, and its subscriptions with it.
BrokerStops ==
    /\ brokerUp
    /\ outages < MaxOutages
    /\ brokerUp' = FALSE
    /\ outages' = outages + 1
    /\ UNCHANGED <<loop, provider, closing, open, consuming>>

BrokerStarts ==
    /\ ~brokerUp
    /\ brokerUp' = TRUE
    /\ UNCHANGED <<loop, provider, closing, outages, open, consuming>>

LoopNext ==
    \/ StartLoop \/ StopLoop \/ Dial \/ Ping \/ MakeStreams \/ Subscribe
    \/ StoreConnection \/ Retry

ConnectionNext ==
    \/ LoopNext \/ SignalClose \/ TakeConnection \/ BrokerStops \/ BrokerStarts

-----------------------------------------------------------------------------
(***************************************************************************)
(* Properties.                                                             *)
(***************************************************************************)
\* A connection is open exactly while the loop works on it or it has been
\* stored and not taken: none is left behind by a failed attempt, and there are
\* never two.
NoStrayConnection ==
    open = IF loop \in Holding \/ provider = "connected" THEN 1 ELSE 0

\* Once main has started the loop, and unless the service closes the connection,
\* its consumers are registered in the end, however often the broker goes away
\* or an attempt fails meanwhile.
ConsumersStart == <>[](consuming \/ closing # "no" \/ loop = "off")
=============================================================================
