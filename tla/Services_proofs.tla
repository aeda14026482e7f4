--------------------------- MODULE Services_proofs ---------------------------
(***************************************************************************)
(* Proofs about the parts of the services that stand side by side in       *)
(* Services, for any number of requests, keys, codes and settings and any  *)
(* bound of time (ServicesSpec).                                           *)
(***************************************************************************)
EXTENDS Services, Sums, SequenceTheorems, FiniteSetTheorems, TLAPS

\* A step of the whole is, for each part, one of its steps or none.
LEMMA PartSteps ==
    ASSUME [ServicesNext]_vars
    PROVE  /\ \/ \E at \in {"otp", "first", "second"},
                    pairs \in SUBSET (Keys \X Keys) : LimitsNext(at, pairs)
              \/ UNCHANGED limitVars
           /\ OtpNext \/ UNCHANGED otpVars
           /\ GeocoderNext \/ UNCHANGED geoVars
           /\ ConnectionNext \/ UNCHANGED connVars
           /\ AdminAccountsNext \/ UNCHANGED accountVars
           /\ DeskSettingsNext \/ UNCHANGED deskVars
<1>1. /\ CodePairs \in SUBSET (Keys \X Keys)
      /\ OrderPairs \in SUBSET (Keys \X Keys)
      /\ SearchPairs \in SUBSET (Keys \X Keys)
  BY ServicesAssumption
<1>2. CASE UNCHANGED vars
  BY <1>2 DEF vars
<1>3. CASE RunLimits
  BY <1>1, <1>3 DEF RunLimits
<1>4. CASE RunCodes \/ RunGeocoder(GeocoderNext) \/ RunConnection(ConnectionNext)
  BY <1>4 DEF RunCodes, RunGeocoder, RunConnection
<1>5. CASE RunAccounts \/ RunDesk
  BY <1>5 DEF RunAccounts, RunDesk
<1> QED
  BY <1>2, <1>3, <1>4, <1>5 DEF ServicesNext

-----------------------------------------------------------------------------
(***************************************************************************)
(* The thresholds of the desk.                                             *)
(***************************************************************************)
\* A PUT under way has been checked against the row it merges with.
PutsChecked ==
    \A e \in Editors : deskEdit[e] # Idle => InOrder(MergedDesk(deskEdit[e]))

DeskInv == DeskSettingsTypeOK /\ PutsChecked /\ ThresholdsOrdered

LEMMA DeskInvInit == ASSUME DeskSettingsInit PROVE DeskInv
<1>1. /\ desk \in [Colours -> Minutes]
      /\ desk["blue"] = 5 /\ desk["orange"] = 15 /\ desk["red"] = 30
  BY DeskSettingsAssumption DEF Colours, DeskSettingsInit
<1>2. DeskSettingsTypeOK
  BY <1>1 DEF DeskSettingsTypeOK, DeskSettingsInit
<1>3. ThresholdsOrdered
  BY <1>1 DEF ThresholdsOrdered, InOrder
<1> QED
  BY <1>2, <1>3 DEF DeskInv, PutsChecked, DeskSettingsInit

\* A merge fills every colour.
LEMMA MergedDeskType ==
    ASSUME NEW row \in [Colours -> Minutes], NEW body \in DeskBodies, NEW edit,
           edit.row = row, edit.body = body
    PROVE  /\ MergedDesk(edit) \in [Colours -> Minutes]
           /\ MergedDesk(edit) = [c \in Colours |-> Given(body[c], row[c])]
<1>1. \A c \in Colours : body[c] \in Minutes \cup {Absent}
  BY DeskSettingsAssumption
<1>2. \A c \in Colours : Given(body[c], row[c]) \in Minutes
  BY <1>1 DEF Given
<1> QED
  BY <1>2 DEF MergedDesk

LEMMA DeskInvStep ==
    ASSUME DeskInv, DeskSettingsNext \/ UNCHANGED deskVars PROVE DeskInv'
<1> DEFINE Edit == {Idle} \cup [at : {"loaded"}, row : [Colours -> Minutes],
                                body : DeskBodies]
<1>1. ASSUME NEW e \in Editors, NEW body \in DeskBodies, PutDesk(e, body)
      PROVE  DeskInv'
  <2> DEFINE edit  == [at |-> "loaded", row |-> desk, body |-> body]
             asked == [row |-> desk, body |-> body]
  <2>1. /\ InOrder(MergedDesk(asked))
        /\ deskEdit' = [deskEdit EXCEPT ![e] = edit]
        /\ desk' = desk
    BY <1>1 DEF PutDesk
  <2>2. desk \in [Colours -> Minutes] /\ edit \in Edit
    BY DEF DeskInv, DeskSettingsTypeOK
  <2>3. MergedDesk(asked) = MergedDesk(edit)
    BY DEF MergedDesk
  <2> HIDE DEF edit, asked
  <2>4. /\ deskEdit' \in [Editors -> Edit]
        /\ deskEdit'[e] = edit
        /\ \A f \in Editors \ {e} : deskEdit'[f] = deskEdit[f]
    BY <2>1, <2>2 DEF DeskInv, DeskSettingsTypeOK
  <2>5. PutsChecked'
    BY <2>1, <2>3, <2>4 DEF DeskInv, PutsChecked, MergedDesk
  <2> QED
    BY <2>1, <2>4, <2>5 DEF DeskInv, DeskSettingsTypeOK, ThresholdsOrdered
<1>2. ASSUME NEW e \in Editors, SaveDesk(e) PROVE DeskInv'
  <2>1. /\ deskEdit[e] # Idle
        /\ desk' = MergedDesk(deskEdit[e])
        /\ deskEdit' = [deskEdit EXCEPT ![e] = Idle]
    BY <1>2 DEF SaveDesk
  <2>2. /\ deskEdit[e].row \in [Colours -> Minutes]
        /\ deskEdit[e].body \in DeskBodies
    BY <2>1 DEF DeskInv, DeskSettingsTypeOK
  <2>3. desk' \in [Colours -> Minutes]
    BY <2>1, <2>2, MergedDeskType
  <2>4. InOrder(desk')
    BY <2>1 DEF DeskInv, PutsChecked
  <2>5. /\ deskEdit' \in [Editors -> Edit]
        /\ \A f \in Editors : deskEdit'[f] \in {Idle, deskEdit[f]}
    BY <2>1 DEF DeskInv, DeskSettingsTypeOK
  <2>6. PutsChecked'
    BY <2>5 DEF DeskInv, PutsChecked, MergedDesk
  <2> QED
    BY <2>3, <2>4, <2>5, <2>6 DEF DeskInv, DeskSettingsTypeOK, ThresholdsOrdered
<1>3. ASSUME DeskRestart PROVE DeskInv'
  BY <1>3 DEF DeskRestart, DeskInv, DeskSettingsTypeOK, PutsChecked,
              ThresholdsOrdered
<1>4. ASSUME UNCHANGED deskVars PROVE DeskInv'
  BY <1>4 DEF deskVars, DeskInv, DeskSettingsTypeOK, PutsChecked,
              ThresholdsOrdered, MergedDesk
<1> QED
  BY <1>1, <1>2, <1>3, <1>4 DEF DeskSettingsNext

-----------------------------------------------------------------------------
(***************************************************************************)
(* The connection to the broker.                                           *)
(***************************************************************************)
\* Only a loop that is done has stored its connection.
ConnectionInv ==
    /\ ConnectionTypeOK
    /\ NoStrayConnection
    /\ provider = "connected" => loop = "ready"

\* The types that are not Boolean, and what is open.
ConnectionCore ==
    /\ loop \in LoopStages
    /\ provider \in {"none", "error", "connected"}
    /\ closing \in {"no", "signalled", "done"}
    /\ outages \in 0 .. MaxOutages
    /\ open \in Nat
    /\ NoStrayConnection
    /\ provider = "connected" => loop = "ready"

LEMMA ConnectionInvParts ==
    ConnectionInv <=>
        ConnectionCore /\ brokerUp \in BOOLEAN /\ consuming \in BOOLEAN
  BY Zenon DEF ConnectionInv, ConnectionCore, ConnectionTypeOK

LEMMA ConnectionInvInit == ASSUME ConnectionInit PROVE ConnectionInv
<1>1. brokerUp \in BOOLEAN /\ consuming \in BOOLEAN
  BY Zenon DEF ConnectionInit
<1>2. ConnectionCore
  BY ConnectionAssumption
     DEF ConnectionInit, ConnectionCore, NoStrayConnection, LoopStages, Holding
<1> QED
  BY <1>1, <1>2, ConnectionInvParts

LEMMA ConnectionInvStep ==
    ASSUME ConnectionInv, ConnectionNext \/ UNCHANGED connVars
    PROVE  ConnectionInv'
<1>1. ConnectionCore /\ brokerUp \in BOOLEAN /\ consuming \in BOOLEAN
  BY ConnectionInvParts
<1>2. brokerUp' \in BOOLEAN /\ consuming' \in BOOLEAN
  BY <1>1, Zenon
     DEF ConnectionNext, LoopNext, StartLoop, StopLoop, Dial, Ping, MakeStreams,
         Subscribe, StoreConnection, Retry, SignalClose, TakeConnection,
         BrokerStops, BrokerStarts, connVars
<1>3. ConnectionCore'
  <2> USE <1>1, ConnectionAssumption
      DEF ConnectionCore, NoStrayConnection, LoopStages, Holding
  <2>1. CASE StartLoop \/ StopLoop \/ StoreConnection \/ Retry
    BY <2>1 DEF StartLoop, StopLoop, StoreConnection, Retry
  <2>2. CASE Dial
    BY <2>2 DEF Dial, Fails, Error
  <2>3. CASE Ping
    BY <2>3 DEF Ping, Fails, Error
  <2>4. CASE MakeStreams
    BY <2>4 DEF MakeStreams, Fails, Error
  <2>5. CASE Subscribe
    BY <2>5 DEF Subscribe, Fails, Error
  <2>6. CASE SignalClose \/ TakeConnection
    BY <2>6 DEF SignalClose, TakeConnection
  <2>7. CASE BrokerStops \/ BrokerStarts
    BY <2>7 DEF BrokerStops, BrokerStarts
  <2>8. CASE UNCHANGED connVars
    BY <2>8 DEF connVars
  <2> QED
    BY <2>1, <2>2, <2>3, <2>4, <2>5, <2>6, <2>7, <2>8 DEF ConnectionNext, LoopNext
<1> QED
  <2>1. ConnectionInv' <=>
          (ConnectionCore /\ brokerUp \in BOOLEAN /\ consuming \in BOOLEAN)'
    BY Zenon DEF ConnectionInv, ConnectionCore, ConnectionTypeOK
  <2> QED
    BY <1>2, <1>3, <2>1

-----------------------------------------------------------------------------
(***************************************************************************)
(* The turns at the geocoding provider.                                    *)
(***************************************************************************)
GeocoderTypes ==
    /\ search \in [Searches -> Search]
    /\ sinceLast \in 0 .. MinInterval
    /\ cached \subseteq Queries
    /\ sinceTurn \in 0 .. MinInterval
    /\ \A s \in Searches :
          search[s].at # "idle" => search[s].query \in Queries

\* The token is out while a search waits, for no other one; and when its timer
\* runs out, the interval is over.
OneWaits ==
    /\ \A s \in Searches :
          search[s].at = "waiting" =>
              ~token /\ search[s].wait + sinceLast >= MinInterval
    /\ \A s, r \in Searches :
          search[s].at = "waiting" /\ search[r].at = "waiting" => s = r
    /\ sinceTurn = sinceLast

GeocoderInv == GeocoderTypes /\ token \in BOOLEAN /\ OneWaits

LEMMA NoSearchType == NoSearch \in Search /\ NoSearch.at = "idle"
  BY GeocoderAssumption DEF NoSearch, Search, Stages

LEMMA GeocoderInvInit == ASSUME GeocoderInit PROVE GeocoderInv
<1>1. token \in BOOLEAN
  BY Zenon DEF GeocoderInit
<1>2. GeocoderTypes
  BY GeocoderAssumption, NoSearchType DEF GeocoderInit, GeocoderTypes
<1>3. OneWaits
  BY NoSearchType DEF GeocoderInit, OneWaits
<1> QED
  BY <1>1, <1>2, <1>3 DEF GeocoderInv

\* The searches after a step of one of them.
LEMMA StepType ==
    ASSUME GeocoderTypes, NEW s \in Searches, NEW to \in Search, Step(s, to)
    PROVE  /\ search' \in [Searches -> Search]
           /\ search'[s] = to
           /\ \A r \in Searches \ {s} : search'[r] = search[r]
  BY DEF GeocoderTypes, Step

LEMMA SearchAt ==
    ASSUME GeocoderTypes, NEW s \in Searches
    PROVE  /\ search[s] \in Search
           /\ search[s].at \in Stages
           /\ search[s].query \in Queries \cup {NoQuery}
           /\ search[s].wait \in 0 .. MinInterval
  BY DEF GeocoderTypes, Search

LEMMA GeocoderTokenStep ==
    ASSUME GeocoderInv, GeocoderNext \/ UNCHANGED geoVars
    PROVE  token' \in BOOLEAN
  BY Zenon
     DEF GeocoderInv, GeocoderNext, StartSearch, TakeToken, GetTurn, Answered,
         Cancel, CacheExpires, GeoTick, geoVars

\* A step of one search to a place where it does not wait, which leaves the
\* times alone and gives the token back only if that search had it.
LEMMA SearchMoves ==
    ASSUME GeocoderInv, NEW s \in Searches, NEW to \in Search, Step(s, to),
           to.at # "waiting", to.at # "idle" => to.query \in Queries,
           UNCHANGED <<sinceLast, sinceTurn>>,
           token' => token \/ search[s].at = "waiting",
           cached' \subseteq Queries
    PROVE  GeocoderTypes' /\ OneWaits'
<1>1. /\ search' \in [Searches -> Search]
      /\ search'[s] = to
      /\ \A r \in Searches \ {s} : search'[r] = search[r]
  BY StepType DEF GeocoderInv
<1>2. GeocoderTypes'
  BY <1>1 DEF GeocoderInv, GeocoderTypes
<1>3. OneWaits'
  BY <1>1 DEF GeocoderInv, OneWaits
<1> QED
  BY <1>2, <1>3

LEMMA GeocoderInvStep ==
    ASSUME GeocoderInv, GeocoderNext \/ UNCHANGED geoVars
    PROVE  GeocoderInv'
<1> USE GeocoderAssumption
<1>1. ASSUME NEW s \in Searches, NEW q \in Queries, StartSearch(s, q)
      PROVE  GeocoderTypes' /\ OneWaits'
  <2> DEFINE to == [at |-> "queued", query |-> q, wait |-> 0]
  <2>1. to \in Search /\ to.at # "waiting" /\ to.query \in Queries
    BY DEF Search, Stages
  <2>2. /\ Step(s, to)
        /\ UNCHANGED <<sinceLast, sinceTurn>>
        /\ token' = token /\ cached' = cached
    BY <1>1 DEF StartSearch
  <2> HIDE DEF to
  <2> QED
    BY <2>1, <2>2, SearchMoves DEF GeocoderInv, GeocoderTypes
<1>2. ASSUME NEW s \in Searches, TakeToken(s) PROVE GeocoderTypes' /\ OneWaits'
  <2> DEFINE to == [search[s] EXCEPT !.at = "waiting",
                                     !.wait = MinInterval - sinceLast]
  <2>1. /\ search[s].at = "queued" /\ token /\ ~token'
        /\ Step(s, to)
        /\ UNCHANGED <<sinceLast, cached, sinceTurn>>
    BY <1>2 DEF TakeToken
  <2>2. /\ sinceLast \in 0 .. MinInterval
        /\ MinInterval - sinceLast \in 0 .. MinInterval
        /\ MinInterval - sinceLast + sinceLast >= MinInterval
    BY DEF GeocoderInv, GeocoderTypes
  <2>3. /\ to \in Search
        /\ to.at = "waiting"
        /\ to.wait = MinInterval - sinceLast
        /\ to.query = search[s].query
    BY <2>2, SearchAt DEF GeocoderInv, Search, Stages
  <2> HIDE DEF to
  <2>4. /\ search' \in [Searches -> Search]
        /\ search'[s] = to
        /\ \A r \in Searches \ {s} : search'[r] = search[r]
    BY <2>1, <2>3, StepType DEF GeocoderInv
  <2>5. \A r \in Searches : search[r].at # "waiting"
    BY <2>1 DEF GeocoderInv, OneWaits
  <2>6. OneWaits'
    BY <2>1, <2>2, <2>3, <2>4, <2>5 DEF GeocoderInv, OneWaits
  <2> QED
    BY <2>1, <2>3, <2>4, <2>6 DEF GeocoderInv, GeocoderTypes
<1>3. ASSUME NEW s \in Searches, GetTurn(s) PROVE GeocoderTypes' /\ OneWaits'
  <2> DEFINE to == [search[s] EXCEPT !.at = "asking"]
  <2>1. /\ search[s].at = "waiting"
        /\ sinceLast' = 0 /\ sinceTurn' = 0 /\ cached' = cached
        /\ Step(s, to)
    BY <1>3 DEF GetTurn
  <2>2. to \in Search /\ to.at = "asking" /\ to.query = search[s].query
    BY SearchAt DEF GeocoderInv, Search, Stages
  <2> HIDE DEF to
  <2>3. /\ search' \in [Searches -> Search]
        /\ search'[s] = to
        /\ \A r \in Searches \ {s} : search'[r] = search[r]
    BY <2>1, <2>2, StepType DEF GeocoderInv
  <2>4. \A r \in Searches : search'[r].at # "waiting"
    BY <2>1, <2>2, <2>3 DEF GeocoderInv, OneWaits
  <2> QED
    BY <2>1, <2>2, <2>3, <2>4 DEF GeocoderInv, GeocoderTypes, OneWaits
<1>4. ASSUME NEW s \in Searches, Answered(s) PROVE GeocoderTypes' /\ OneWaits'
  <2>1. /\ search[s].at = "asking"
        /\ cached' \in {cached, cached \cup {search[s].query}}
        /\ Step(s, NoSearch)
        /\ UNCHANGED <<sinceLast, sinceTurn>> /\ token' = token
    BY <1>4 DEF Answered
  <2>2. cached' \subseteq Queries
    BY <2>1 DEF GeocoderInv, GeocoderTypes
  <2> QED
    BY <2>1, <2>2, NoSearchType, SearchMoves
<1>5. ASSUME NEW s \in Searches, Cancel(s) PROVE GeocoderTypes' /\ OneWaits'
  <2>1. /\ token' => token \/ search[s].at = "waiting"
        /\ Step(s, NoSearch)
        /\ UNCHANGED <<sinceLast, sinceTurn>> /\ cached' = cached
    BY <1>5 DEF Cancel
  <2> QED
    BY <2>1, NoSearchType, SearchMoves DEF GeocoderInv, GeocoderTypes
<1>6. ASSUME NEW q \in Queries, CacheExpires(q)
      PROVE  GeocoderTypes' /\ OneWaits'
  BY <1>6 DEF CacheExpires, GeocoderInv, GeocoderTypes, OneWaits
<1>7. ASSUME GeoTick PROVE GeocoderTypes' /\ OneWaits'
  <2>1. /\ search' = [s \in Searches |->
               [search[s] EXCEPT !.wait = IF @ > 0 THEN @ - 1 ELSE 0]]
        /\ sinceLast' = Older(sinceLast)
        /\ sinceTurn' = Older(sinceTurn)
        /\ token' = token /\ cached' = cached
    BY <1>7 DEF GeoTick
  <2>2. ASSUME NEW s \in Searches
        PROVE  /\ search'[s] \in Search
               /\ search'[s].at = search[s].at
               /\ search'[s].query = search[s].query
               /\ search'[s].wait =
                     IF search[s].wait > 0 THEN search[s].wait - 1 ELSE 0
    <3> DEFINE left == IF search[s].wait > 0 THEN search[s].wait - 1 ELSE 0
    <3>1. search'[s] = [search[s] EXCEPT !.wait = left]
      BY <2>1
    <3>2. left \in 0 .. MinInterval
      BY SearchAt DEF GeocoderInv
    <3>3. [search[s] EXCEPT !.wait = left] \in Search
      BY <3>2, SearchAt DEF GeocoderInv, Search
    <3> HIDE DEF left
    <3>4. /\ [search[s] EXCEPT !.wait = left].at = search[s].at
          /\ [search[s] EXCEPT !.wait = left].query = search[s].query
          /\ [search[s] EXCEPT !.wait = left].wait = left
      BY SearchAt DEF GeocoderInv, Search
    <3> QED
      BY <3>1, <3>3, <3>4 DEF left
  <2>3. search' \in [Searches -> Search]
    BY <2>1, <2>2
  <2>4. /\ sinceLast \in 0 .. MinInterval /\ sinceTurn = sinceLast
        /\ sinceLast' \in 0 .. MinInterval /\ sinceTurn' = sinceLast'
        /\ sinceLast' = IF sinceLast < MinInterval THEN sinceLast + 1
                                                   ELSE sinceLast
    BY <2>1 DEF Older, GeocoderInv, GeocoderTypes, OneWaits
  <2>5. ASSUME NEW s \in Searches, search'[s].at = "waiting"
        PROVE  ~token' /\ search'[s].wait + sinceLast' >= MinInterval
    <3>1. /\ ~token
          /\ search[s].wait + sinceLast >= MinInterval
      BY <2>2, <2>5 DEF GeocoderInv, OneWaits
    <3>2. search[s].wait \in 0 .. MinInterval
      BY SearchAt DEF GeocoderInv
    <3> QED
      BY <2>1, <2>2, <2>4, <3>1, <3>2
  <2>6. OneWaits'
    BY <2>2, <2>4, <2>5 DEF GeocoderInv, OneWaits
  <2> QED
    BY <2>1, <2>2, <2>3, <2>4, <2>6 DEF GeocoderInv, GeocoderTypes
<1>8. ASSUME UNCHANGED geoVars PROVE GeocoderTypes' /\ OneWaits'
  BY <1>8 DEF geoVars, GeocoderInv, GeocoderTypes, OneWaits
<1> QED
  BY <1>1, <1>2, <1>3, <1>4, <1>5, <1>6, <1>7, <1>8, GeocoderTokenStep
     DEF GeocoderNext, GeocoderInv

\* What SlotsSpaced asks of a step.
SlotsSpacedStep ==
    \A s \in Searches :
        search[s].at # "asking" /\ search'[s].at = "asking" =>
            sinceTurn = MinInterval

LEMMA TurnsApart ==
    ASSUME GeocoderInv, GeocoderNext \/ UNCHANGED geoVars
    PROVE  SlotsSpacedStep
<1> SUFFICES ASSUME NEW s \in Searches,
                    search[s].at # "asking", search'[s].at = "asking"
             PROVE  sinceTurn = MinInterval
  BY DEF SlotsSpacedStep
<1>1. search \in [Searches -> Search]
  BY DEF GeocoderInv, GeocoderTypes
<1>2. ASSUME NEW r \in Searches, NEW to, Step(r, to), to.at # "asking"
      PROVE  FALSE
  BY <1>1, <1>2 DEF Step
<1>3. ASSUME NEW r \in Searches, NEW q \in Queries, StartSearch(r, q)
      PROVE  FALSE
  BY <1>2, <1>3 DEF StartSearch
<1>4. ASSUME NEW r \in Searches, Answered(r) \/ Cancel(r) PROVE FALSE
  BY <1>2, <1>4, NoSearchType DEF Answered, Cancel
<1>5. ASSUME NEW r \in Searches, TakeToken(r) PROVE FALSE
  <2>1. [search[r] EXCEPT !.at = "waiting",
                          !.wait = MinInterval - sinceLast].at = "waiting"
    BY SearchAt DEF GeocoderInv, Search
  <2> QED
    BY <1>2, <1>5, <2>1 DEF TakeToken
<1>6. ASSUME NEW q \in Queries, CacheExpires(q) PROVE FALSE
  BY <1>6 DEF CacheExpires
<1>7. ASSUME GeoTick PROVE FALSE
  <2>1. search'[s] = [search[s] EXCEPT !.wait = IF @ > 0 THEN @ - 1 ELSE 0]
    BY <1>7 DEF GeoTick
  <2>2. search'[s].at = search[s].at
    BY <2>1, SearchAt DEF GeocoderInv, Search
  <2> QED
    BY <2>2
<1>8. ASSUME NEW r \in Searches, GetTurn(r) PROVE sinceTurn = MinInterval
  <2>1. search[r].at = "waiting" /\ search[r].wait = 0
    BY <1>8 DEF GetTurn
  <2>2. /\ search[r].wait + sinceLast >= MinInterval
        /\ sinceLast \in 0 .. MinInterval /\ sinceTurn = sinceLast
    BY <2>1 DEF GeocoderInv, GeocoderTypes, OneWaits
  <2> QED
    BY <2>1, <2>2, GeocoderAssumption
<1>9. ASSUME UNCHANGED geoVars PROVE FALSE
  BY <1>9 DEF geoVars
<1> QED
  BY <1>3, <1>4, <1>5, <1>6, <1>7, <1>8, <1>9 DEF GeocoderNext

-----------------------------------------------------------------------------
(***************************************************************************)
(* The accounts.                                                           *)
(***************************************************************************)
LEMMA AccountsTypeInit == ASSUME AdminAccountsInit PROVE AdminAccountsTypeOK
  BY DEF AdminAccountsInit, AdminAccountsTypeOK

\* A PATCH that has loaded its row, and the row it will write.
LEMMA LoadedAccount ==
    ASSUME AdminAccountsTypeOK, NEW e \in Editors, accountEdit[e] # Idle
    PROVE  /\ accountEdit[e].id \in AccountIds
           /\ accountEdit[e].row \in AccountRow
           /\ accountEdit[e].body \in AccountBodies
  BY DEF AdminAccountsTypeOK

LEMMA AccountWritten ==
    ASSUME AdminAccountsTypeOK, NEW e \in Editors, WriteAccount(e)
    PROVE  \E row \in AccountRow :
               /\ accountEdit[e] # Idle
               /\ accounts' = [accounts EXCEPT ![accountEdit[e].id] = row]
               /\ row.password = Given(accountEdit[e].body.password,
                                       accountEdit[e].row.password)
               /\ accountEdit' = [accountEdit EXCEPT ![e] = Idle]
<1> DEFINE edit == accountEdit[e]
           row  == [username |-> Given(edit.body.username, edit.row.username),
                    password |-> Given(edit.body.password, edit.row.password)]
<1>1. /\ edit # Idle
      /\ accounts' = [accounts EXCEPT ![edit.id] = row]
      /\ accountEdit' = [accountEdit EXCEPT ![e] = Idle]
  BY DEF WriteAccount
<1>2. edit.row \in AccountRow /\ edit.body \in AccountBody
  BY <1>1, LoadedAccount, AdminAccountsAssumption
<1>3. /\ Given(edit.body.username, edit.row.username) \in Usernames
      /\ Given(edit.body.password, edit.row.password) \in Passwords
  BY <1>2 DEF Given, AccountRow, AccountBody
<1>4. row \in AccountRow
  BY <1>3 DEF AccountRow
<1> QED
  BY <1>1, <1>4

LEMMA AccountInserted ==
    ASSUME AdminAccountsTypeOK, NEW u \in Usernames, NEW p \in Passwords,
           InsertAccount(u, p)
    PROVE  \E i \in AccountIds \ Accounts, row \in AccountRow :
               accounts' = [accounts EXCEPT ![i] = row]
<1>1. [username |-> u, password |-> p] \in AccountRow
  BY DEF AccountRow
<1> QED
  BY <1>1 DEF InsertAccount

\* What the accounts may become: with a row more, or with a PATCH written.
LEMMA AccountSteps ==
    ASSUME AdminAccountsTypeOK, AdminAccountsNext \/ UNCHANGED accountVars
    PROVE  \/ UNCHANGED accounts
           \/ \E i \in AccountIds \ Accounts, row \in AccountRow :
                 accounts' = [accounts EXCEPT ![i] = row]
           \/ \E e \in Editors : WriteAccount(e)
<1>1. ASSUME SeedAccount
      PROVE  \/ UNCHANGED accounts
             \/ \E i \in AccountIds \ Accounts, row \in AccountRow :
                   accounts' = [accounts EXCEPT ![i] = row]
  BY <1>1, AccountInserted, AdminAccountsAssumption DEF SeedAccount
<1>2. ASSUME NEW u \in Usernames, NEW p \in Passwords, CreateAccount(u, p)
      PROVE  \E i \in AccountIds \ Accounts, row \in AccountRow :
                 accounts' = [accounts EXCEPT ![i] = row]
  BY <1>2, AccountInserted DEF CreateAccount
<1> QED
  BY <1>1, <1>2 DEF AdminAccountsNext, LoadAccount, RefuseAccount, accountVars

LEMMA AccountsTypeStep ==
    ASSUME AdminAccountsTypeOK, AdminAccountsNext \/ UNCHANGED accountVars
    PROVE  AdminAccountsTypeOK'
<1> DEFINE Edit == {Idle} \cup [at : {"loaded"}, id : AccountIds,
                                row : AccountRow, body : AccountBodies]
<1>1. accounts' \in [AccountIds -> AccountRow \cup {Absent}]
  <2>1. ASSUME NEW i \in AccountIds, NEW row \in AccountRow,
               accounts' = [accounts EXCEPT ![i] = row]
        PROVE  accounts' \in [AccountIds -> AccountRow \cup {Absent}]
    BY <2>1 DEF AdminAccountsTypeOK
  <2>2. ASSUME NEW e \in Editors, WriteAccount(e)
        PROVE  accounts' \in [AccountIds -> AccountRow \cup {Absent}]
    BY <2>1, <2>2, AccountWritten, LoadedAccount
  <2>3. CASE UNCHANGED accounts
    BY <2>3 DEF AdminAccountsTypeOK
  <2> QED
    BY <2>1, <2>2, <2>3, AccountSteps
<1>2. accountEdit' \in [Editors -> Edit]
  <2>1. accountEdit \in [Editors -> Edit] /\ Idle \in Edit
    BY DEF AdminAccountsTypeOK
  <2>2. ASSUME NEW e \in Editors, NEW i \in AccountIds,
               NEW body \in AccountBodies, LoadAccount(e, i, body)
        PROVE  accountEdit' \in [Editors -> Edit]
    <3> DEFINE edit == [at |-> "loaded", id |-> i, row |-> accounts[i],
                        body |-> body]
    <3>1. accounts[i] \in AccountRow
      BY <2>2 DEF LoadAccount, Accounts, AdminAccountsTypeOK
    <3>2. edit \in Edit
      BY <3>1
    <3>3. accountEdit' = [accountEdit EXCEPT ![e] = edit]
      BY <2>2 DEF LoadAccount
    <3> HIDE DEF edit, Edit
    <3> QED
      BY <2>1, <3>2, <3>3
  <2> HIDE DEF Edit
  <2>3. CASE SeedAccount
    BY <2>1, <2>3 DEF SeedAccount
  <2>4. ASSUME NEW e \in Editors, RefuseAccount(e) \/ WriteAccount(e)
        PROVE  accountEdit' \in [Editors -> Edit]
    BY <2>1, <2>4 DEF RefuseAccount, WriteAccount
  <2> QED
    BY <2>1, <2>2, <2>3, <2>4
       DEF AdminAccountsNext, CreateAccount, accountVars
<1> QED
  BY <1>1, <1>2 DEF AdminAccountsTypeOK

\* What PasswordsKept asks of a step.
PasswordsKeptStep ==
    \A i \in Accounts :
        /\ i \in Accounts'
        /\ accounts'[i].password # accounts[i].password =>
               \E e \in Editors :
                   /\ accountEdit[e] # Idle /\ accountEdit'[e] = Idle
                   /\ accountEdit[e].id = i
                   /\ \/ accountEdit[e].body.password # Absent
                      \/ accountEdit[e].row.password # accounts[i].password

LEMMA PasswordsStay ==
    ASSUME AdminAccountsTypeOK, AdminAccountsNext \/ UNCHANGED accountVars
    PROVE  PasswordsKeptStep
<1> SUFFICES ASSUME NEW i \in Accounts
             PROVE  /\ i \in Accounts'
                    /\ accounts'[i].password # accounts[i].password =>
                          \E e \in Editors :
                              /\ accountEdit[e] # Idle /\ accountEdit'[e] = Idle
                              /\ accountEdit[e].id = i
                              /\ \/ accountEdit[e].body.password # Absent
                                 \/ accountEdit[e].row.password
                                       # accounts[i].password
  BY DEF PasswordsKeptStep
<1>1. i \in AccountIds /\ accounts[i] # Absent
  BY DEF Accounts
<1>2. CASE UNCHANGED accounts
  BY <1>2 DEF Accounts
<1>3. ASSUME NEW j \in AccountIds \ Accounts, NEW row \in AccountRow,
             accounts' = [accounts EXCEPT ![j] = row]
      PROVE  i \in Accounts' /\ accounts'[i] = accounts[i]
  <2>1. i # j
    OBVIOUS
  <2>2. accounts'[i] = accounts[i]
    BY <1>1, <1>3, <2>1 DEF AdminAccountsTypeOK
  <2> QED
    BY <1>1, <2>2 DEF Accounts
<1>4. ASSUME NEW e \in Editors, WriteAccount(e)
      PROVE  /\ i \in Accounts'
             /\ accounts'[i].password # accounts[i].password =>
                   /\ accountEdit[e] # Idle /\ accountEdit'[e] = Idle
                   /\ accountEdit[e].id = i
                   /\ \/ accountEdit[e].body.password # Absent
                      \/ accountEdit[e].row.password # accounts[i].password
  <2>1. PICK row \in AccountRow :
            /\ accountEdit[e] # Idle
            /\ accounts' = [accounts EXCEPT ![accountEdit[e].id] = row]
            /\ row.password = Given(accountEdit[e].body.password,
                                    accountEdit[e].row.password)
            /\ accountEdit' = [accountEdit EXCEPT ![e] = Idle]
    BY <1>4, AccountWritten
  <2>2. accountEdit'[e] = Idle /\ row # Absent
    BY <2>1, AdminAccountsAssumption DEF AdminAccountsTypeOK
  <2>3. CASE accountEdit[e].id = i
    <3>1. accounts'[i] = row
      BY <1>1, <2>1, <2>3 DEF AdminAccountsTypeOK
    <3>2. accountEdit[e].body.password = Absent =>
              row.password = accountEdit[e].row.password
      BY <2>1 DEF Given
    <3>3. i \in Accounts'
      BY <1>1, <2>2, <3>1 DEF Accounts
    <3> QED
      BY <2>1, <2>2, <2>3, <3>1, <3>2, <3>3
  <2>4. CASE accountEdit[e].id # i
    <3>1. accounts'[i] = accounts[i]
      BY <1>1, <2>1, <2>4 DEF AdminAccountsTypeOK
    <3> QED
      BY <1>1, <3>1 DEF Accounts
  <2> QED
    BY <2>3, <2>4
<1> QED
  BY <1>2, <1>3, <1>4, AccountSteps

-----------------------------------------------------------------------------
(***************************************************************************)
(* The one-time codes.                                                     *)
(***************************************************************************)
\* What the handlers read is not older than their wait.
TimesFresh ==
    \A h \in Handlers :
        serving[h].at # "idle" =>
            serving[h].time <= otpClock /\ otpClock <= serving[h].time + MaxWait

\* A code that has signed in is consumed, and a wrong guess is an attempt.
Tallied ==
    \A c \in Numbers :
        /\ challenges[c].signIns > 0 => challenges[c].consumed
        /\ challenges[c].wrong <= challenges[c].attempts

OtpInv ==
    /\ OtpTypeOK
    /\ Len(challenges) <= MaxChallenges
    /\ TimesFresh
    /\ Tallied

LEMMA ServedAt ==
    ASSUME OtpTypeOK, NEW h \in Handlers, serving[h].at # "idle"
    PROVE  serving[h].phone \in Phones /\ serving[h].time \in Nat
<1>1. serving[h] \in Served
  BY DEF OtpTypeOK
<1> QED
  BY <1>1 DEF Served

LEMMA ChallengeAt ==
    ASSUME challenges \in Seq(Challenge), NEW c \in Numbers
    PROVE  /\ c \in Nat \ {0}
           /\ challenges[c] \in Challenge
           /\ challenges[c].phone \in Phones
           /\ challenges[c].created \in Nat
           /\ challenges[c].expires \in Nat
           /\ challenges[c].attempts \in Nat
           /\ challenges[c].wrong \in Nat
           /\ challenges[c].signIns \in Nat
<1>1. /\ challenges \in [1 .. Len(challenges) -> Challenge]
      /\ Len(challenges) \in Nat
  OBVIOUS
<1>2. c \in Nat \ {0} /\ challenges[c] \in Challenge
  BY <1>1 DEF Numbers
<1> QED
  BY <1>2 DEF Challenge

LEMMA OtpInvInit == ASSUME OtpInit PROVE OtpInv
<1>1. [at |-> "idle"] \in Served
  BY DEF Served
<1> QED
  BY <1>1, OtpAssumption DEF OtpInit, OtpInv, OtpTypeOK, TimesFresh, Tallied, Numbers

\* The handlers after one of them goes on or is done.
LEMMA ServingType ==
    ASSUME OtpTypeOK, NEW h \in Handlers, NEW s \in Served,
           serving' = [serving EXCEPT ![h] = s]
    PROVE  /\ serving' \in [Handlers -> Served]
           /\ serving'[h] = s
           /\ \A g \in Handlers \ {h} : serving'[g] = serving[g]
  BY DEF OtpTypeOK

LEMMA DoneType ==
    ASSUME OtpInv, NEW h \in Handlers, Done(h), UNCHANGED otpClock
    PROVE  serving' \in [Handlers -> Served] /\ TimesFresh'
<1>1. [at |-> "idle"] \in Served /\ [at |-> "idle"].at = "idle"
  BY DEF Served
<1>2. /\ serving' \in [Handlers -> Served]
      /\ serving'[h].at = "idle"
      /\ \A g \in Handlers \ {h} : serving'[g] = serving[g]
  BY <1>1, ServingType DEF Done, OtpInv
<1> QED
  BY <1>2 DEF OtpInv, TimesFresh

\* The challenge a request inserts.
Inserted(h) ==
    [phone |-> serving[h].phone, created |-> serving[h].time,
     expires |-> serving[h].time + Ttl, attempts |-> 0,
     consumed |-> FALSE, wrong |-> 0, signIns |-> 0]

LEMMA IssueRows ==
    ASSUME OtpInv, NEW h \in Handlers, IssueOtp(h)
    PROVE  /\ Inserted(h) \in Challenge
           /\ challenges' \in Seq(Challenge)
           /\ Len(challenges)' = Len(challenges) + 1
           /\ Len(challenges) + 1 \in AllCodes
           /\ Numbers' = Numbers \cup {Len(challenges) + 1}
           /\ Len(challenges) + 1 \notin Numbers
           /\ challenges'[Len(challenges) + 1] = Inserted(h)
           /\ \A c \in Numbers : challenges'[c] = challenges[c]
<1> USE OtpAssumption
<1>1. /\ serving[h].at = "request" /\ Len(challenges) < MaxChallenges
      /\ challenges' = Append(challenges, Inserted(h))
  BY DEF IssueOtp, Inserted
<1>2. Inserted(h) \in Challenge
  <2>1. serving[h].phone \in Phones /\ serving[h].time \in Nat
    BY <1>1, ServedAt DEF OtpInv
  <2>2. serving[h].time + Ttl \in Nat
    BY <2>1
  <2> QED
    BY <2>1, <2>2 DEF Inserted, Challenge
<1>3. challenges \in Seq(Challenge) /\ Len(challenges) \in Nat
  BY DEF OtpInv, OtpTypeOK
<1> DEFINE row == Inserted(h)
<1>4. challenges' = Append(challenges, row) /\ row \in Challenge
  BY <1>1, <1>2
<1> HIDE DEF row
<1>5. /\ challenges' \in Seq(Challenge)
      /\ Len(challenges)' = Len(challenges) + 1
      /\ DOMAIN challenges = 1 .. Len(challenges)
      /\ DOMAIN challenges' = 1 .. Len(challenges) + 1
      /\ challenges'[Len(challenges) + 1] = row
      /\ \A c \in 1 .. Len(challenges) : challenges'[c] = challenges[c]
  BY <1>3, <1>4
<1>6. /\ Numbers' = Numbers \cup {Len(challenges) + 1}
      /\ Len(challenges) + 1 \notin Numbers
  BY <1>3, <1>5 DEF Numbers
<1>7. Len(challenges) + 1 \in AllCodes
  BY <1>1, <1>3 DEF AllCodes
<1> QED
  BY <1>2, <1>5, <1>6, <1>7 DEF row, Numbers

\* What guesses and sign-ins make of a challenge.
Guessed(r) == [r EXCEPT !.attempts = @ + 1, !.wrong = @ + 1]
Closed(r)  == [r EXCEPT !.consumed = TRUE]
Spent(r)   == [r EXCEPT !.consumed = TRUE, !.attempts = @ + 1, !.signIns = @ + 1]

LEMMA GuessedRow ==
    ASSUME NEW r \in Challenge
    PROVE  LET g == Guessed(r)
           IN  /\ g \in Challenge
               /\ g.phone = r.phone /\ g.created = r.created
               /\ g.expires = r.expires /\ (g.consumed <=> r.consumed)
               /\ g.signIns = r.signIns
               /\ g.attempts = r.attempts + 1 /\ g.wrong = r.wrong + 1
<1> DEFINE g == Guessed(r)
<1>1. r.attempts + 1 \in Nat /\ r.wrong + 1 \in Nat
  BY DEF Challenge
<1>2. g = [r EXCEPT !.attempts = r.attempts + 1, !.wrong = r.wrong + 1]
  BY DEF Challenge, Guessed
<1>3. g \in Challenge
  BY <1>1, <1>2 DEF Challenge
<1>4. /\ g.phone = r.phone /\ g.created = r.created
      /\ g.expires = r.expires /\ (g.consumed <=> r.consumed)
      /\ g.signIns = r.signIns
      /\ g.attempts = r.attempts + 1 /\ g.wrong = r.wrong + 1
  BY DEF Challenge, Guessed
<1> QED
  BY <1>3, <1>4

LEMMA ClosedRow ==
    ASSUME NEW r \in Challenge
    PROVE  LET g == Closed(r)
           IN  /\ g \in Challenge
               /\ g.phone = r.phone /\ g.created = r.created
               /\ g.expires = r.expires /\ g.consumed
               /\ g.signIns = r.signIns
               /\ g.attempts = r.attempts /\ g.wrong = r.wrong
  BY DEF Challenge, Closed

LEMMA SpentRow ==
    ASSUME NEW r \in Challenge
    PROVE  LET g == Spent(r)
           IN  /\ g \in Challenge
               /\ g.phone = r.phone /\ g.created = r.created
               /\ g.expires = r.expires /\ g.consumed
               /\ g.signIns = r.signIns + 1
               /\ g.attempts = r.attempts + 1 /\ g.wrong = r.wrong
<1> DEFINE g == Spent(r)
<1>1. r.attempts + 1 \in Nat /\ r.signIns + 1 \in Nat
  BY DEF Challenge
<1>2. g = [r EXCEPT !.consumed = TRUE, !.attempts = r.attempts + 1,
                    !.signIns = r.signIns + 1]
  BY DEF Challenge, Spent
<1>3. g \in Challenge
  BY <1>1, <1>2 DEF Challenge
<1>4. /\ g.phone = r.phone /\ g.created = r.created
      /\ g.expires = r.expires /\ g.consumed
      /\ g.signIns = r.signIns + 1
      /\ g.attempts = r.attempts + 1 /\ g.wrong = r.wrong
  BY DEF Challenge, Spent
<1> QED
  BY <1>3, <1>4

\* A guess is counted.
LEMMA GuessRows ==
    ASSUME OtpInv, NEW c \in Numbers, CountAttempt(c)
    PROVE  /\ challenges' \in Seq(Challenge)
           /\ Len(challenges)' = Len(challenges) /\ Numbers' = Numbers
           /\ challenges'[c] = Guessed(challenges[c])
           /\ \A d \in Numbers \ {c} : challenges'[d] = challenges[d]
<1> DEFINE row == Guessed(challenges[c])
<1>1. challenges' = [challenges EXCEPT ![c] = row]
  BY DEF CountAttempt, Guessed
<1>2. challenges \in Seq(Challenge) /\ c \in 1 .. Len(challenges)
  BY DEF OtpInv, OtpTypeOK, Numbers
<1>3. row \in Challenge
  BY <1>2, ChallengeAt, GuessedRow
<1> HIDE DEF row
<1>4. /\ challenges' \in Seq(Challenge)
      /\ Len(challenges') = Len(challenges)
      /\ DOMAIN challenges' = DOMAIN challenges
      /\ challenges'[c] = row
      /\ \A d \in DOMAIN challenges \ {c} : challenges'[d] = challenges[d]
  BY <1>1, <1>2, <1>3
<1> QED
  BY <1>4 DEF row, Numbers

\* A sign-in spends its code and closes the others of the phone.
LEMMA RedeemRows ==
    ASSUME OtpInv, NEW h \in Handlers, NEW c \in Numbers, RightCode(h, c)
    PROVE  /\ challenges' \in Seq(Challenge)
           /\ Len(challenges)' = Len(challenges) /\ Numbers' = Numbers
           /\ challenges'[c] = Spent(challenges[c])
           /\ \A d \in Numbers \ {c} :
                 challenges'[d] =
                     IF challenges[d].phone = serving[h].phone
                     THEN Closed(challenges[d]) ELSE challenges[d]
<1> DEFINE After(d) ==
        IF d = c THEN Spent(challenges[c])
        ELSE IF challenges[d].phone = serving[h].phone
             THEN Closed(challenges[d]) ELSE challenges[d]
<1>1. challenges' = [d \in Numbers |-> After(d)]
  BY DEF RightCode, Spent, Closed
<1>2. /\ challenges \in Seq(Challenge) /\ Len(challenges) \in Nat
      /\ Numbers = 1 .. Len(challenges)
  BY DEF OtpInv, OtpTypeOK, Numbers
<1>3. \A d \in Numbers : After(d) \in Challenge
  BY <1>2, ChallengeAt, ClosedRow, SpentRow
<1> HIDE DEF After
<1>4. /\ challenges' \in Seq(Challenge)
      /\ Len(challenges') = Len(challenges)
      /\ DOMAIN challenges' = 1 .. Len(challenges)
  BY <1>1, <1>2, <1>3
<1>5. \A d \in Numbers : challenges'[d] = After(d)
  BY <1>1
<1> QED
  BY <1>2, <1>4, <1>5 DEF After, Numbers

LEMMA OtpInvStep == ASSUME OtpInv, OtpNext \/ UNCHANGED otpVars PROVE OtpInv'
<1> USE OtpAssumption
<1>0. challenges \in Seq(Challenge) /\ serving \in [Handlers -> Served]
  BY DEF OtpInv, OtpTypeOK
<1>1. ASSUME NEW h \in Handlers, NEW s \in Served,
             serving' = [serving EXCEPT ![h] = s], s.time = otpClock,
             UNCHANGED <<otpClock, challenges>>
      PROVE  OtpInv'
  <2>1. /\ serving' \in [Handlers -> Served]
        /\ serving'[h] = s
        /\ \A g \in Handlers \ {h} : serving'[g] = serving[g]
    BY <1>1, ServingType DEF OtpInv
  <2>2. otpClock \in Nat /\ otpClock <= otpClock + MaxWait
    BY DEF OtpInv, OtpTypeOK
  <2>3. TimesFresh'
    BY <1>1, <2>1, <2>2 DEF OtpInv, TimesFresh
  <2> QED
    BY <1>1, <2>1, <2>3 DEF OtpInv, OtpTypeOK, Tallied, Numbers
<1>2. ASSUME NEW h \in Handlers, NEW p \in Phones, RequestOtp(h, p)
      PROVE  OtpInv'
  <2> DEFINE s == [at |-> "request", phone |-> p, time |-> otpClock]
  <2>1. s \in Served
    BY DEF Served, OtpInv, OtpTypeOK
  <2> QED
    BY <1>1, <1>2, <2>1 DEF RequestOtp
<1>3. ASSUME NEW h \in Handlers, NEW p \in Phones, NEW code \in Numbers \cup {0},
             VerifyOtp(h, p, code)
      PROVE  OtpInv'
  <2> DEFINE s == [at |-> "verify", phone |-> p, time |-> otpClock, code |-> code]
  <2>1. code \in Nat
    BY <1>0, ChallengeAt
  <2>2. s \in Served
    BY <2>1 DEF Served, OtpInv, OtpTypeOK
  <2> QED
    BY <1>1, <1>3, <2>2 DEF VerifyOtp
<1>4. ASSUME NEW h \in Handlers, IssueOtp(h) PROVE OtpInv'
  <2>1. serving' \in [Handlers -> Served] /\ TimesFresh' /\ otpClock' = otpClock
    BY <1>4, DoneType DEF IssueOtp
  <2>2. Len(challenges)' <= MaxChallenges
    BY <1>0, <1>4, IssueRows DEF IssueOtp
  <2>3. /\ Inserted(h).signIns = 0
        /\ Inserted(h).wrong = 0 /\ Inserted(h).attempts = 0
    BY DEF Inserted
  <2>4. Tallied'
    BY <1>4, <2>3, IssueRows DEF OtpInv, Tallied
  <2> QED
    BY <1>4, <2>1, <2>2, <2>4, IssueRows DEF OtpInv, OtpTypeOK
<1>5. ASSUME NEW h \in Handlers, NEW c \in Numbers, WrongCode(h, c)
      PROVE  OtpInv'
  <2>1. serving' \in [Handlers -> Served] /\ TimesFresh' /\ otpClock' = otpClock
    BY <1>5, DoneType DEF WrongCode
  <2>2. CountAttempt(c)
    BY <1>5 DEF WrongCode
  <2>3. Tallied'
    <3> SUFFICES ASSUME NEW d \in Numbers
                 PROVE  /\ challenges'[d].signIns > 0 => challenges'[d].consumed
                        /\ challenges'[d].wrong <= challenges'[d].attempts
      BY <2>2, GuessRows DEF Tallied
    <3>1. CASE d = c
      <4>1. PICK r \in Challenge : r = challenges[c]
        BY <1>0, ChallengeAt
      <4>2. PICK g : g = Guessed(r)
        OBVIOUS
      <4>3. /\ g.consumed <=> r.consumed
            /\ g.signIns = r.signIns
            /\ g.attempts = r.attempts + 1 /\ g.wrong = r.wrong + 1
            /\ r.attempts \in Nat /\ r.wrong \in Nat
        BY <4>2, GuessedRow DEF Challenge
      <4>4. challenges'[d] = g
        BY <2>2, <3>1, <4>1, <4>2, GuessRows
      <4>5. (r.signIns > 0 => r.consumed) /\ r.wrong <= r.attempts
        BY <4>1 DEF OtpInv, Tallied
      <4> QED
        BY <4>3, <4>4, <4>5
    <3>2. CASE d # c
      BY <2>2, <3>2, GuessRows DEF OtpInv, Tallied
    <3> QED
      BY <3>1, <3>2
  <2> QED
    BY <2>1, <2>2, <2>3, GuessRows DEF OtpInv, OtpTypeOK
<1>6. ASSUME NEW h \in Handlers, NEW c \in Numbers, RightCode(h, c)
      PROVE  OtpInv'
  <2>1. serving' \in [Handlers -> Served] /\ TimesFresh' /\ otpClock' = otpClock
    BY <1>6, DoneType DEF RightCode
  <2>2. Tallied'
    <3> SUFFICES ASSUME NEW d \in Numbers
                 PROVE  /\ challenges'[d].signIns > 0 => challenges'[d].consumed
                        /\ challenges'[d].wrong <= challenges'[d].attempts
      BY <1>6, RedeemRows DEF Tallied
    <3>0. challenges[d] \in Challenge
      BY <1>0, ChallengeAt
    <3>1. CASE d = c
      <4>1. PICK r \in Challenge : r = challenges[c]
        BY <3>0, <3>1
      <4>2. PICK g : g = Spent(r)
        OBVIOUS
      <4>3. /\ g.consumed
            /\ g.attempts = r.attempts + 1 /\ g.wrong = r.wrong
            /\ r.attempts \in Nat /\ r.wrong \in Nat
        BY <4>2, SpentRow DEF Challenge
      <4>4. challenges'[d] = g
        BY <1>6, <3>1, <4>1, <4>2, RedeemRows
      <4>5. r.wrong <= r.attempts
        BY <4>1 DEF OtpInv, Tallied
      <4> QED
        BY <4>3, <4>4, <4>5
    <3>2. CASE d # c
      <4>1. PICK r \in Challenge : r = challenges[d]
        BY <3>0
      <4>2. PICK g : g = Closed(r)
        OBVIOUS
      <4>3. g.consumed /\ g.attempts = r.attempts /\ g.wrong = r.wrong
        BY <4>2, ClosedRow
      <4>4. challenges'[d] = g \/ challenges'[d] = r
        BY <1>6, <3>2, <4>1, <4>2, RedeemRows
      <4>5. (r.signIns > 0 => r.consumed) /\ r.wrong <= r.attempts
        BY <4>1 DEF OtpInv, Tallied
      <4> QED
        BY <4>3, <4>4, <4>5
    <3> QED
      BY <3>1, <3>2
  <2> QED
    BY <1>6, <2>1, <2>2, RedeemRows DEF OtpInv, OtpTypeOK
<1>7. ASSUME NEW h \in Handlers, OtpEnds(h) PROVE OtpInv'
  BY <1>7, DoneType DEF OtpEnds, OtpInv, OtpTypeOK, Tallied, Numbers
<1>8. ASSUME OtpTick PROVE OtpInv'
  <2>1. /\ otpClock \in 0 .. MaxOtpTime /\ otpClock < MaxOtpTime
        /\ otpClock' = otpClock + 1
        /\ UNCHANGED <<challenges, serving>>
    BY <1>8 DEF OtpTick, OtpInv, OtpTypeOK
  <2>2. TimesFresh'
    <3> SUFFICES ASSUME NEW h \in Handlers, serving[h].at # "idle"
                 PROVE  /\ serving[h].time <= otpClock + 1
                        /\ otpClock + 1 <= serving[h].time + MaxWait
      BY <2>1 DEF TimesFresh
    <3>1. /\ serving[h].time \in Nat
          /\ serving[h].time <= otpClock
          /\ otpClock - serving[h].time < MaxWait
      BY <1>8, ServedAt DEF OtpTick, OtpInv, TimesFresh
    <3> QED
      BY <2>1, <3>1
  <2> QED
    BY <2>1, <2>2 DEF OtpInv, OtpTypeOK, Tallied, Numbers
<1>9. ASSUME UNCHANGED otpVars PROVE OtpInv'
  BY <1>9 DEF otpVars, OtpInv, OtpTypeOK, TimesFresh, Tallied, Numbers
<1> QED
  BY <1>2, <1>3, <1>4, <1>5, <1>6, <1>7, <1>8, <1>9 DEF OtpNext

\* The state of a code, case by case.
LEMMA StateNow ==
    ASSUME NEW c
    PROVE  /\ c \notin Numbers => State(c) = "unissued"
           /\ c \in Numbers /\ challenges[c].signIns > 0 => State(c) = "used"
           /\ c \in Numbers /\ challenges[c].signIns = 0 =>
                 State(c) = IF Dead(c) THEN "dead" ELSE "open"
<1>1. c \in Numbers /\ challenges[c].signIns = 0 => ~(challenges[c].signIns > 0)
  OBVIOUS
<1> QED
  BY <1>1 DEF State

LEMMA StateNext ==
    ASSUME NEW c
    PROVE  /\ c \notin Numbers' => State(c)' = "unissued"
           /\ c \in Numbers' /\ challenges'[c].signIns > 0 => State(c)' = "used"
           /\ c \in Numbers' /\ challenges'[c].signIns = 0 =>
                 State(c)' = IF Dead(c)' THEN "dead" ELSE "open"
<1>1. c \in Numbers' /\ challenges'[c].signIns = 0 => ~(challenges'[c].signIns > 0)
  OBVIOUS
<1> QED
  BY <1>1 DEF State

\* Of two challenges one is newer, and newer is an order.
LEMMA NewerOrder ==
    ASSUME challenges \in Seq(Challenge),
           NEW c \in Numbers, NEW d \in Numbers
    PROVE  /\ c # d => Newer(c, d) \/ Newer(d, c)
           /\ \A e \in Numbers : Newer(c, d) /\ Newer(d, e) => Newer(c, e)
<1>1. \A e \in Numbers : e \in Nat /\ challenges[e].created \in Nat
  BY ChallengeAt
<1> QED
  BY <1>1 DEF Newer

\* The newest code of a phone is the only one.
LEMMA OneNewest ==
    ASSUME challenges \in Seq(Challenge), NEW p,
           NEW c \in Numbers, NEW d \in Numbers, Newest(p, c), Newest(p, d)
    PROVE  c = d
  BY NewerOrder DEF Newest

-----------------------------------------------------------------------------
\* What the abstract variables stand for.
LEMMA Mapping ==
    /\ Promise!Open = {c \in AllCodes : State(c) = "open"}
    /\ Promise!codeVars =
          <<[c \in AllCodes |-> State(c)],
            [c \in AllCodes |->
                IF c \in Numbers THEN challenges[c].phone ELSE NoPhone],
            [c \in AllCodes |-> IF c \in Numbers THEN challenges[c].wrong ELSE 0],
            [c \in AllCodes |->
                IF c \in Numbers THEN challenges[c].signIns ELSE 0]>>
  BY DEF Promise!Open, Promise!codeVars

\* Codes that only die are a step Expire.
LEMMA RefinesExpire ==
    ASSUME Numbers' = Numbers,
           \A c \in Numbers : /\ challenges'[c].phone = challenges[c].phone
                              /\ challenges'[c].wrong = challenges[c].wrong
                              /\ challenges'[c].signIns = challenges[c].signIns,
           \A c \in AllCodes :
               \/ State(c)' = State(c)
               \/ State(c) = "open" /\ State(c)' = "dead"
    PROVE  Promise!Expire
<1> DEFINE dying == {c \in AllCodes : State(c) = "open" /\ State(c)' = "dead"}
<1>1. dying \in SUBSET Promise!Open
  BY Mapping
<1>2. [c \in AllCodes |-> State(c)]' =
          [c \in AllCodes |-> IF c \in dying THEN "dead"
                             ELSE [d \in AllCodes |-> State(d)][c]]
  OBVIOUS
<1>3. /\ [c \in AllCodes |->
              IF c \in Numbers THEN challenges[c].phone ELSE NoPhone]' =
              [c \in AllCodes |->
                  IF c \in Numbers THEN challenges[c].phone ELSE NoPhone]
      /\ [c \in AllCodes |-> IF c \in Numbers THEN challenges[c].wrong ELSE 0]' =
              [c \in AllCodes |-> IF c \in Numbers THEN challenges[c].wrong ELSE 0]
      /\ [c \in AllCodes |->
              IF c \in Numbers THEN challenges[c].signIns ELSE 0]' =
              [c \in AllCodes |->
                  IF c \in Numbers THEN challenges[c].signIns ELSE 0]
  BY DEF AllCodes
<1> QED
  BY <1>1, <1>2, <1>3 DEF Promise!Expire

LEMMA NumbersAreCodes ==
    ASSUME OtpInv PROVE Numbers \subseteq AllCodes
<1>1. /\ Len(challenges) \in Nat /\ Len(challenges) <= MaxChallenges
      /\ Numbers = 1 .. Len(challenges)
  BY DEF OtpInv, OtpTypeOK, Numbers
<1> QED
  BY <1>1, OtpAssumption DEF AllCodes

\* A code a verify may still be answered for is open.
LEMMA VerifiableIsOpen ==
    ASSUME OtpInv, NEW h \in Handlers, NEW c \in Numbers, Verifiable(h, c)
    PROVE  /\ State(c) = "open"
           /\ challenges[c].signIns = 0
           /\ challenges[c].phone = serving[h].phone
           /\ Newest(serving[h].phone, c)
           /\ challenges[c].wrong < MaxAttempts
<1>1. /\ serving[h].at = "verify"
      /\ Newest(serving[h].phone, c)
      /\ challenges[c].phone = serving[h].phone
      /\ ~challenges[c].consumed
      /\ serving[h].time < challenges[c].expires
      /\ challenges[c].attempts < MaxAttempts
  BY DEF Verifiable, Newest
<1>2. /\ challenges[c].expires \in Nat /\ challenges[c].attempts \in Nat
      /\ challenges[c].wrong \in Nat /\ challenges[c].signIns \in Nat
  BY ChallengeAt DEF OtpInv, OtpTypeOK
<1>3. /\ serving[h].time \in Nat /\ otpClock \in Nat
      /\ otpClock <= serving[h].time + MaxWait
  BY <1>1, ServedAt DEF OtpInv, OtpTypeOK, TimesFresh
<1>4. ~(otpClock >= challenges[c].expires + MaxWait)
  BY <1>1, <1>2, <1>3, OtpAssumption
<1>5. ~Dead(c)
  BY <1>1, <1>4 DEF Dead
<1>6. challenges[c].signIns = 0 /\ challenges[c].wrong <= challenges[c].attempts
  BY <1>1, <1>2 DEF OtpInv, Tallied
<1>7. State(c) = "open"
  BY <1>5, <1>6, StateNow
<1> QED
  BY <1>1, <1>2, <1>6, <1>7, OtpAssumption

\* A wrong guess that is answered is a step Guess.
LEMMA RefinesGuess ==
    ASSUME OtpInv, NEW h \in Handlers, NEW c \in Numbers, WrongCode(h, c)
    PROVE  Promise!Guess(c)
<1>1. CountAttempt(c) /\ Verifiable(h, c) /\ otpClock' = otpClock
  BY DEF WrongCode
<1>2. challenges \in Seq(Challenge) /\ Numbers' = Numbers
  BY <1>1, GuessRows DEF OtpInv, OtpTypeOK
<1>3. \A d \in Numbers :
          /\ challenges'[d].phone = challenges[d].phone
          /\ challenges'[d].created = challenges[d].created
          /\ challenges'[d].expires = challenges[d].expires
          /\ challenges'[d].consumed <=> challenges[d].consumed
          /\ challenges'[d].signIns = challenges[d].signIns
  BY <1>1, <1>2, GuessRows, GuessedRow, ChallengeAt
<1>4. /\ challenges'[c].wrong = challenges[c].wrong + 1
      /\ \A d \in Numbers \ {c} : challenges'[d].wrong = challenges[d].wrong
  BY <1>1, <1>2, GuessRows, GuessedRow, ChallengeAt
<1>5. \A d \in Numbers : Dead(d)' <=> Dead(d)
  <2>1. \A d \in Numbers :
            Newest(challenges[d].phone, d)' <=> Newest(challenges[d].phone, d)
    BY <1>2, <1>3 DEF Newest, Newer
  <2> QED
    BY <1>1, <1>3, <2>1 DEF Dead
<1>6. \A d \in AllCodes : State(d)' = State(d)
  <2> SUFFICES ASSUME NEW d \in AllCodes PROVE State(d)' = State(d)
    OBVIOUS
  <2>1. CASE d \notin Numbers
    BY <1>2, <2>1, StateNow, StateNext
  <2>2. CASE d \in Numbers
    <3>1. challenges[d].signIns \in Nat
      BY <1>2, <2>2, ChallengeAt
    <3> QED
      BY <1>2, <1>3, <1>5, <2>2, <3>1, StateNow, StateNext
  <2> QED
    BY <2>1, <2>2
<1>7. c \in AllCodes
  BY NumbersAreCodes
<1>8. State(c) = "open" /\ challenges[c].wrong < MaxAttempts
  BY <1>1, VerifiableIsOpen
<1>9. [d \in AllCodes |-> IF d \in Numbers THEN challenges[d].wrong ELSE 0]' =
          [[d \in AllCodes |-> IF d \in Numbers THEN challenges[d].wrong ELSE 0]
               EXCEPT ![c] = @ + 1]
  BY <1>2, <1>4, <1>7 DEF AllCodes
<1>10. /\ [d \in AllCodes |-> State(d)]' = [d \in AllCodes |-> State(d)]
       /\ [d \in AllCodes |->
              IF d \in Numbers THEN challenges[d].phone ELSE NoPhone]' =
              [d \in AllCodes |->
                  IF d \in Numbers THEN challenges[d].phone ELSE NoPhone]
       /\ [d \in AllCodes |->
              IF d \in Numbers THEN challenges[d].signIns ELSE 0]' =
              [d \in AllCodes |->
                  IF d \in Numbers THEN challenges[d].signIns ELSE 0]
  BY <1>2, <1>3, <1>6 DEF AllCodes
<1> QED
  BY <1>7, <1>8, <1>9, <1>10 DEF Promise!Guess

\* A sign-in is a step Redeem.
LEMMA RefinesRedeem ==
    ASSUME OtpInv, NEW h \in Handlers, NEW c \in Numbers, RightCode(h, c)
    PROVE  Promise!Redeem(c)
<1>1. Verifiable(h, c) /\ otpClock' = otpClock
  BY DEF RightCode
<1>2. challenges \in Seq(Challenge) /\ Numbers' = Numbers
  BY RedeemRows DEF OtpInv, OtpTypeOK
<1>3. /\ State(c) = "open" /\ challenges[c].signIns = 0
      /\ Newest(serving[h].phone, c) /\ challenges[c].wrong < MaxAttempts
  BY <1>1, VerifiableIsOpen
<1>4. \A d \in Numbers :
          /\ challenges'[d].phone = challenges[d].phone
          /\ challenges'[d].created = challenges[d].created
          /\ challenges'[d].expires = challenges[d].expires
          /\ challenges'[d].wrong = challenges[d].wrong
  BY <1>2, RedeemRows, SpentRow, ClosedRow, ChallengeAt
<1>5. /\ challenges'[c].signIns = challenges[c].signIns + 1
      /\ \A d \in Numbers \ {c} : challenges'[d].signIns = challenges[d].signIns
  BY <1>2, RedeemRows, SpentRow, ClosedRow, ChallengeAt
<1>6. State(c)' = "used"
  BY <1>2, <1>3, <1>5, StateNext
<1>7. \A d \in Numbers \ {c} : Dead(d)' <=> Dead(d)
  <2> SUFFICES ASSUME NEW d \in Numbers \ {c} PROVE Dead(d)' <=> Dead(d)
    OBVIOUS
  <2>1. Newest(challenges[d].phone, d)' <=> Newest(challenges[d].phone, d)
    BY <1>2, <1>4 DEF Newest, Newer
  <2>2. CASE challenges[d].phone = serving[h].phone
    <3>1. ~Newest(challenges[d].phone, d)
      BY <1>2, <1>3, <2>2, OneNewest
    <3> QED
      BY <2>1, <3>1 DEF Dead
  <2>3. CASE challenges[d].phone # serving[h].phone
    <3>1. challenges'[d] = challenges[d]
      BY <2>3, RedeemRows
    <3> QED
      BY <1>1, <2>1, <3>1 DEF Dead
  <2> QED
    BY <2>2, <2>3
<1>8. \A d \in AllCodes \ {c} : State(d)' = State(d)
  <2> SUFFICES ASSUME NEW d \in AllCodes \ {c} PROVE State(d)' = State(d)
    OBVIOUS
  <2>1. CASE d \notin Numbers
    BY <1>2, <2>1, StateNow, StateNext
  <2>2. CASE d \in Numbers
    <3>1. challenges[d].signIns \in Nat
      BY <1>2, <2>2, ChallengeAt
    <3> QED
      BY <1>2, <1>5, <1>7, <2>2, <3>1, StateNow, StateNext
  <2> QED
    BY <2>1, <2>2
<1>9. c \in AllCodes
  BY NumbersAreCodes
<1>10. /\ [d \in AllCodes |-> State(d)]' =
              [[d \in AllCodes |-> State(d)] EXCEPT ![c] = "used"]
       /\ [d \in AllCodes |->
              IF d \in Numbers THEN challenges[d].signIns ELSE 0]' =
              [[d \in AllCodes |->
                   IF d \in Numbers THEN challenges[d].signIns ELSE 0]
                   EXCEPT ![c] = @ + 1]
  BY <1>2, <1>5, <1>6, <1>8, <1>9 DEF AllCodes
<1>11. /\ [d \in AllCodes |->
              IF d \in Numbers THEN challenges[d].phone ELSE NoPhone]' =
              [d \in AllCodes |->
                  IF d \in Numbers THEN challenges[d].phone ELSE NoPhone]
       /\ [d \in AllCodes |-> IF d \in Numbers THEN challenges[d].wrong ELSE 0]' =
              [d \in AllCodes |->
                  IF d \in Numbers THEN challenges[d].wrong ELSE 0]
  BY <1>2, <1>4 DEF AllCodes
<1> QED
  BY <1>3, <1>9, <1>10, <1>11 DEF Promise!Redeem

\* A code that is issued is a step Issue: unless it is born behind the newest
\* one of its phone, all the others of the phone die.
LEMMA RefinesIssue ==
    ASSUME OtpInv, NEW h \in Handlers, IssueOtp(h)
    PROVE  \E c \in AllCodes, o \in Phones : Promise!Issue(c, o)
<1> DEFINE dies(c) == State(c) = "open" /\ State(c)' = "dead"
<1>1. PICK n, p : n = Len(challenges) + 1 /\ p = serving[h].phone
  OBVIOUS
<1>2. /\ n \in AllCodes /\ n \notin Numbers /\ Numbers' = Numbers \cup {n}
      /\ challenges \in Seq(Challenge) /\ challenges' \in Seq(Challenge)
      /\ \A c \in Numbers : challenges'[c] = challenges[c]
      /\ Numbers \subseteq AllCodes
  BY <1>1, IssueRows, NumbersAreCodes DEF OtpInv, OtpTypeOK
<1>3. /\ challenges'[n].phone = p
      /\ challenges'[n].signIns = 0 /\ challenges'[n].wrong = 0
      /\ p \in Phones /\ otpClock' = otpClock
  <2>1. challenges'[n] = Inserted(h)
    BY <1>1, IssueRows
  <2>2. p \in Phones
    BY <1>1, ServedAt DEF IssueOtp, OtpInv
  <2> QED
    BY <1>1, <2>1, <2>2 DEF Inserted, IssueOtp
<1>4. State(n) = "unissued" /\ State(n)' \in {"open", "dead"}
  BY <1>2, <1>3, StateNow, StateNext
<1>5. ASSUME NEW c \in Numbers, NEW d \in Numbers
      PROVE  Newer(c, d)' <=> Newer(c, d)
  BY <1>2, <1>5 DEF Newer
<1>6. \A c \in Numbers :
          Newest(challenges[c].phone, c)' => Newest(challenges[c].phone, c)
  BY <1>2, <1>5 DEF Newest
<1>7. \A c \in Numbers : Dead(c) => Dead(c)'
  BY <1>2, <1>3, <1>6 DEF Dead
<1>8. \A c \in AllCodes \ {n} : State(c)' = State(c) \/ dies(c)
  <2> SUFFICES ASSUME NEW c \in AllCodes \ {n}
               PROVE  State(c)' = State(c) \/ dies(c)
    OBVIOUS
  <2>1. CASE c \notin Numbers
    BY <1>2, <2>1, StateNow, StateNext
  <2>2. CASE c \in Numbers
    <3>1. challenges[c].signIns \in Nat
      BY <1>2, <2>2, ChallengeAt
    <3>2. CASE challenges[c].signIns > 0
      BY <1>2, <2>2, <3>2, StateNow, StateNext
    <3>3. CASE challenges[c].signIns = 0
      BY <1>2, <1>7, <2>2, <3>3, StateNow, StateNext
    <3> QED
      BY <3>1, <3>2, <3>3
  <2> QED
    BY <2>1, <2>2
\* Newer' is an order of the challenges there are then.
<1>9. \A c \in Numbers : /\ Newer(n, c)' \/ Newer(c, n)'
                         /\ \A d \in Numbers :
                               Newer(d, n)' /\ Newer(n, c)' => Newer(d, c)'
  <2>1. /\ \A c \in Numbers' : c \in Nat /\ challenges'[c].created \in Nat
    <3>1. /\ challenges' \in [1 .. Len(challenges') -> Challenge]
          /\ Len(challenges') \in Nat
      BY <1>2
    <3> QED
      BY <3>1 DEF Numbers, Challenge
  <2> QED
    BY <1>2, <2>1 DEF Newer
<1>10. CASE Newest(p, n)'
  <2>1. \A c \in Numbers :
            challenges[c].phone = p => ~Newest(challenges[c].phone, c)'
    <3> SUFFICES ASSUME NEW c \in Numbers, challenges[c].phone = p
                 PROVE  Newer(n, c)'
      BY <1>2, <1>3 DEF Newest
    <3>1. ~Newer(c, n)'
      BY <1>2, <1>10 DEF Newest
    <3> QED
      BY <1>9, <3>1
  <2>2. \A c \in Numbers :
            challenges[c].phone = p /\ State(c) = "open" => dies(c)
    <3> SUFFICES ASSUME NEW c \in Numbers, challenges[c].phone = p,
                        State(c) = "open"
                 PROVE  State(c)' = "dead"
      OBVIOUS
    <3>1. challenges[c].signIns \in Nat
      BY <1>2, ChallengeAt
    <3>2. challenges[c].signIns = 0
      BY <3>1, StateNow
    <3>3. Dead(c)'
      BY <2>1 DEF Dead
    <3> QED
      BY <1>2, <3>2, <3>3, StateNext
  <2> DEFINE dying == {c \in AllCodes : dies(c) \/ (c = n /\ State(n)' = "dead")}
             must  == {c \in Promise!Open :
                          [d \in AllCodes |->
                              IF d \in Numbers THEN challenges[d].phone
                                               ELSE NoPhone][c] = p}
  <2>3. dying \in SUBSET (Promise!Open \cup {n})
    BY Mapping
  <2>4. must \subseteq dying
    <3> SUFFICES ASSUME NEW c \in must PROVE dies(c)
      BY Mapping
    <3>1. c \in AllCodes /\ State(c) = "open"
      BY Mapping
    <3>2. c \in Numbers
      BY <3>1, StateNow
    <3> QED
      BY <2>2, <3>1, <3>2
  <2>5. [c \in AllCodes |-> State(c)]' =
            [c \in AllCodes |->
                IF c = n /\ c \notin dying THEN "open"
                ELSE IF c \in dying THEN "dead"
                ELSE [d \in AllCodes |-> State(d)][c]]
    BY <1>4, <1>8
  <2>6. Promise!Kill(must, n)
    BY <2>3, <2>4, <2>5 DEF Promise!Kill
  <2>7. Promise!Issue(n, p)
    <3>1. /\ [c \in AllCodes |->
                 IF c \in Numbers THEN challenges[c].phone ELSE NoPhone]' =
                 [[c \in AllCodes |->
                     IF c \in Numbers THEN challenges[c].phone ELSE NoPhone]
                     EXCEPT ![n] = p]
          /\ [c \in AllCodes |->
                 IF c \in Numbers THEN challenges[c].wrong ELSE 0]' =
                 [c \in AllCodes |->
                     IF c \in Numbers THEN challenges[c].wrong ELSE 0]
          /\ [c \in AllCodes |->
                 IF c \in Numbers THEN challenges[c].signIns ELSE 0]' =
                 [c \in AllCodes |->
                     IF c \in Numbers THEN challenges[c].signIns ELSE 0]
      BY <1>2, <1>3 DEF AllCodes
    <3> QED
      BY <1>2, <1>4, <2>6, <3>1 DEF Promise!Issue
  <2> QED
    BY <1>2, <1>3, <2>7
<1>11. CASE ~Newest(p, n)'
  <2>1. PICK d \in Numbers : challenges[d].phone = p /\ Newer(d, n)'
    <3>1. ~Newer(n, n)'
      <4>1. n \in Nat /\ challenges'[n].created \in Nat
        <5>1. /\ challenges' \in [1 .. Len(challenges') -> Challenge]
              /\ Len(challenges') \in Nat /\ n \in 1 .. Len(challenges')
          BY <1>2 DEF Numbers
        <5> QED
          BY <5>1 DEF Challenge
      <4> QED
        BY <4>1 DEF Newer
    <3> QED
      BY <1>2, <1>3, <1>11, <3>1 DEF Newest
  <2>2. \A c \in Numbers :
            Newest(challenges[c].phone, c) => Newest(challenges[c].phone, c)'
    <3> SUFFICES ASSUME NEW c \in Numbers, Newest(challenges[c].phone, c),
                        challenges[c].phone = p
                 PROVE  ~Newer(n, c)'
      BY <1>2, <1>3, <1>5 DEF Newest
    <3> SUFFICES ASSUME Newer(n, c)' PROVE FALSE
      OBVIOUS
    <3>1. Newer(d, c)'
      BY <1>9, <2>1
    <3>2. Newer(d, c)
      BY <1>5, <3>1
    <3> QED
      BY <2>1, <3>2 DEF Newest
  <2>3. \A c \in AllCodes \ {n} : State(c)' = State(c)
    <3> SUFFICES ASSUME NEW c \in AllCodes \ {n} PROVE State(c)' = State(c)
      OBVIOUS
    <3>1. CASE c \notin Numbers
      BY <1>2, <3>1, StateNow, StateNext
    <3>2. CASE c \in Numbers
      <4>1. challenges[c].signIns \in Nat
        BY <1>2, <3>2, ChallengeAt
      <4>2. Dead(c)' <=> Dead(c)
        BY <1>2, <1>3, <1>6, <2>2, <3>2 DEF Dead
      <4> QED
        BY <1>2, <3>2, <4>1, <4>2, StateNow, StateNext
    <3> QED
      BY <3>1, <3>2
  <2>4. State(n)' = "dead"
    <3>1. Dead(n)'
      BY <1>3, <1>11 DEF Dead
    <3> QED
      BY <1>2, <1>3, <3>1, StateNext
  <2>5. [c \in AllCodes |-> State(c)]' =
            [[c \in AllCodes |-> State(c)] EXCEPT ![n] = "dead"]
    BY <1>2, <2>3, <2>4
  <2>6. /\ [c \in AllCodes |->
               IF c \in Numbers THEN challenges[c].phone ELSE NoPhone]' =
               [[c \in AllCodes |->
                   IF c \in Numbers THEN challenges[c].phone ELSE NoPhone]
                   EXCEPT ![n] = p]
        /\ [c \in AllCodes |->
               IF c \in Numbers THEN challenges[c].wrong ELSE 0]' =
               [c \in AllCodes |->
                   IF c \in Numbers THEN challenges[c].wrong ELSE 0]
        /\ [c \in AllCodes |->
               IF c \in Numbers THEN challenges[c].signIns ELSE 0]' =
               [c \in AllCodes |->
                   IF c \in Numbers THEN challenges[c].signIns ELSE 0]
    BY <1>2, <1>3 DEF AllCodes
  <2>7. Promise!Issue(n, p)
    BY <1>2, <1>4, <2>5, <2>6 DEF Promise!Issue
  <2> QED
    BY <1>2, <1>3, <2>7
<1> QED
  BY <1>10, <1>11

\* Time passes: codes expire.
LEMMA RefinesTick == ASSUME OtpInv, OtpTick PROVE Promise!Expire
<1>1. /\ UNCHANGED challenges
      /\ otpClock \in Nat /\ otpClock' = otpClock + 1
      /\ challenges \in Seq(Challenge)
  BY DEF OtpTick, OtpInv, OtpTypeOK
<1>2. Numbers' = Numbers
  BY <1>1 DEF Numbers
<1>3. \A c \in Numbers : Dead(c) => Dead(c)'
  <2>1. \A c \in Numbers : challenges[c].expires \in Nat
    BY <1>1, ChallengeAt
  <2> QED
    BY <1>1, <2>1, OtpAssumption DEF Dead, Newest, Newer, Numbers
<1>4. \A c \in AllCodes : \/ State(c)' = State(c)
                          \/ State(c) = "open" /\ State(c)' = "dead"
  <2> SUFFICES ASSUME NEW c \in AllCodes
               PROVE  \/ State(c)' = State(c)
                      \/ State(c) = "open" /\ State(c)' = "dead"
    OBVIOUS
  <2>1. CASE c \notin Numbers
    BY <1>2, <2>1, StateNow, StateNext
  <2>2. CASE c \in Numbers
    <3>1. challenges[c].signIns \in Nat
      BY <1>1, <2>2, ChallengeAt
    <3>2. CASE challenges[c].signIns > 0
      BY <1>1, <1>2, <2>2, <3>2, StateNow, StateNext
    <3>3. CASE challenges[c].signIns = 0
      BY <1>1, <1>2, <1>3, <2>2, <3>3, StateNow, StateNext
    <3> QED
      BY <3>1, <3>2, <3>3
  <2> QED
    BY <2>1, <2>2
<1> QED
  BY <1>1, <1>2, <1>4, RefinesExpire

LEMMA RefinesOneTimeCode ==
    ASSUME OtpInv, OtpNext \/ UNCHANGED otpVars
    PROVE  [Promise!CodeNext]_(Promise!codeVars)
<1>1. ASSUME UNCHANGED <<otpClock, challenges>>
      PROVE  UNCHANGED Promise!codeVars
  <2>1. \A c \in AllCodes : State(c)' = State(c)
    BY <1>1 DEF State, Dead, Newest, Newer, Numbers
  <2> QED
    BY <1>1, <2>1, Mapping DEF Promise!codeVars, AllCodes, Numbers
<1>2. ASSUME NEW h \in Handlers, NEW p \in Phones,
             \/ RequestOtp(h, p)
             \/ \E code \in Numbers \cup {0} : VerifyOtp(h, p, code)
      PROVE  UNCHANGED Promise!codeVars
  BY <1>1, <1>2 DEF RequestOtp, VerifyOtp
<1>3. ASSUME NEW h \in Handlers, OtpEnds(h) PROVE UNCHANGED Promise!codeVars
  BY <1>1, <1>3 DEF OtpEnds
<1>4. ASSUME NEW h \in Handlers, IssueOtp(h) PROVE Promise!CodeNext
  BY <1>4, RefinesIssue DEF Promise!CodeNext
<1>5. ASSUME NEW h \in Handlers, NEW c \in Numbers,
             WrongCode(h, c) \/ RightCode(h, c)
      PROVE  Promise!CodeNext
  BY <1>5, NumbersAreCodes, RefinesGuess, RefinesRedeem DEF Promise!CodeNext
<1>6. ASSUME OtpTick PROVE Promise!CodeNext
  BY <1>6, RefinesTick DEF Promise!CodeNext
<1>7. ASSUME UNCHANGED otpVars PROVE UNCHANGED Promise!codeVars
  BY <1>1, <1>7 DEF otpVars
<1> QED
  BY <1>2, <1>3, <1>4, <1>5, <1>6, <1>7 DEF OtpNext

LEMMA RefinesInit == ASSUME OtpInit PROVE Promise!CodeInit
<1>1. Numbers = {}
  BY DEF OtpInit, Numbers
<1>2. \A c \in AllCodes : State(c) = "unissued"
  BY <1>1, StateNow
<1> QED
  BY <1>1, <1>2 DEF Promise!CodeInit

-----------------------------------------------------------------------------
(***************************************************************************)
(* The limiters.                                                           *)
(***************************************************************************)
Kept(k)      == Len(hits[k])
GivenHits(k) == Len(granted[k])
Dropped(k)   == GivenHits(k) - Kept(k)

\* The hits kept are the last ones granted; those dropped are out of the window.
HitsRecent(k) ==
    /\ Kept(k) <= GivenHits(k)
    /\ \A i \in 1 .. Kept(k) : hits[k][i] = granted[k][Dropped(k) + i]
    /\ \A j \in 1 .. Dropped(k) : granted[k][j] + Window <= clock

\* Hits as far apart in the order of the mutex as the quota are a window apart,
\* less the wait for the mutex.
HitsSpaced(k) ==
    \A i, j \in 1 .. GivenHits(k) :
        i + MaxHits[k] <= j => granted[k][i] + Window - MaxSkew <= granted[k][j]

KeyInv(k) ==
    /\ hits[k] \in Seq(Nat) /\ granted[k] \in Seq(Nat)
    /\ HitsRecent(k) /\ HitsSpaced(k)

\* A reading of the clock is at most as old as the wait for a mutex.
Fresh(time) == time \in Nat /\ time <= clock /\ clock <= time + MaxSkew

ReadingsFresh ==
    \A c \in Clients : asking[c] # Nothing => Fresh(asking[c].time)

LimitsInv ==
    /\ LimitsTypeOK
    /\ \A k \in Keys : KeyInv(k)
    /\ ReadingsFresh

LEMMA LimitsInvInit == ASSUME LimitsInit PROVE LimitsInv
<1> USE LimitsAssumption
<1>1. LimitsTypeOK
  BY DEF LimitsInit, LimitsTypeOK, Asking, Nothing
<1>2. ASSUME NEW k \in Keys PROVE KeyInv(k)
  <2>1. /\ hits[k] = << >> /\ granted[k] = << >>
        /\ Kept(k) = 0 /\ GivenHits(k) = 0 /\ Dropped(k) = 0
    BY DEF LimitsInit, Kept, GivenHits, Dropped
  <2> QED
    BY <2>1 DEF KeyInv, HitsRecent, HitsSpaced
<1>3. ReadingsFresh
  BY DEF LimitsInit, ReadingsFresh
<1> QED
  BY <1>1, <1>2, <1>3 DEF LimitsInv

LEMMA LessTheSkew ==
    ASSUME NEW a \in Nat, NEW w \in Nat, NEW b \in Nat, NEW s \in Nat,
           a + w <= b + s
    PROVE  a + w - s <= b
OBVIOUS

LEMMA NotTheLast ==
    ASSUME NEW n \in Nat, NEW d \in 0 .. n, NEW i \in 1 .. n - d + 1,
           i # n - d + 1
    PROVE  i \in 1 .. n - d /\ d + i \in 1 .. n
OBVIOUS

LEMMA LastOrBefore ==
    ASSUME NEW n \in Nat, NEW j \in 1 .. n + 1
    PROVE  j \in 1 .. n \/ j = n + 1
OBVIOUS

LEMMA HitTimes ==
    ASSUME NEW k, granted[k] \in Seq(Nat), NEW j \in 1 .. GivenHits(k)
    PROVE  granted[k][j] \in Nat
BY DEF GivenHits

\* What pruning does: the first hits go, all of them out of the window.
LEMMA PrunedHits ==
    ASSUME NEW k \in Keys, hits[k] \in Seq(Nat), NEW time \in Nat
    PROVE  \E n \in 0 .. Kept(k) :
               /\ Pruned(k, time) \in Seq(Nat)
               /\ Len(Pruned(k, time)) = Kept(k) - n
               /\ \A i \in 1 .. Kept(k) - n : Pruned(k, time)[i] = hits[k][n + i]
               /\ \A i \in 1 .. n : hits[k][i] + Window <= time
<1> USE LimitsAssumption
<1> DEFINE h    == hits[k]
           I    == {i \in 1 .. Len(h) : h[i] > time - Window}
           from == IF I # {} THEN Min(I) ELSE 0
<1>1. Pruned(k, time) = IF from = 0 THEN << >> ELSE SubSeq(h, from, Len(h))
  BY DEF Pruned, SelectInSeq
<1>2. Len(h) \in Nat /\ (\A i \in 1 .. Len(h) : h[i] \in Nat) /\ Window \in Nat
  OBVIOUS
<1>3. \A i \in 1 .. Len(h) : i \notin I => h[i] + Window <= time
  <2>1. SUFFICES ASSUME NEW i \in 1 .. Len(h), i \notin I
                 PROVE  h[i] + Window <= time
    OBVIOUS
  <2>2. ~ (h[i] > time - Window) /\ h[i] \in Nat
    BY <1>2, <2>1
  <2> QED
    BY <1>2, <2>2
<1>4. CASE I = {}
  <2>1. Pruned(k, time) = << >>
    BY <1>1, <1>4
  <2>2. /\ Pruned(k, time) \in Seq(Nat)
        /\ Len(Pruned(k, time)) = Len(h) - Len(h)
        /\ Len(h) \in 0 .. Len(h)
    BY <1>2, <2>1
  <2>3. \A i \in 1 .. Len(h) - Len(h) : Pruned(k, time)[i] = h[Len(h) + i]
    BY <1>2
  <2>4. \A i \in 1 .. Len(h) : h[i] + Window <= time
    BY <1>3, <1>4
  <2> HIDE DEF h
  <2> QED
    BY <2>2, <2>3, <2>4 DEF Kept, h
<1>5. CASE I # {}
  <2>1. from \in I /\ \A i \in I : from <= i
    <3>1. I \subseteq Nat
      BY <1>2
    <3>2. \E m \in I : \A i \in I : m <= i
      BY <1>5, <3>1, LeastNumber
    <3> QED
      BY <1>5, <3>2 DEF Min
  <2> HIDE DEF from
  <2>2. from \in 1 .. Len(h)
    BY <2>1
  <2>3. Pruned(k, time) = SubSeq(h, from, Len(h))
    BY <1>1, <2>2
  <2>4. /\ SubSeq(h, from, Len(h)) \in Seq(Nat)
        /\ Len(SubSeq(h, from, Len(h))) = Len(h) - from + 1
        /\ \A i \in 1 .. Len(h) - from + 1 :
              SubSeq(h, from, Len(h))[i] = h[from + i - 1]
    BY <1>2, <2>2
  <2> HIDE DEF I
  <2>5. \A i \in 1 .. from - 1 : h[i] + Window <= time
    <3>1. SUFFICES ASSUME NEW i \in 1 .. from - 1 PROVE h[i] + Window <= time
      OBVIOUS
    <3>2. i \in 1 .. Len(h) /\ ~ (from <= i)
      BY <1>2, <2>2
    <3>3. i \notin I
      BY <2>1, <3>2
    <3> QED
      BY <1>3, <3>2, <3>3
  <2>6. from - 1 \in 0 .. Len(h)
    BY <1>2, <2>2
  <2>7. /\ Len(Pruned(k, time)) = Len(h) - (from - 1)
        /\ \A i \in 1 .. Len(h) - (from - 1) :
              Pruned(k, time)[i] = h[(from - 1) + i]
    BY <1>2, <2>2, <2>3, <2>4
  <2> HIDE DEF h
  <2> QED
    BY <2>3, <2>4, <2>5, <2>6, <2>7 DEF Kept, h
<1> QED
  BY <1>4, <1>5

\* After pruning, the hits kept are the last ones granted, and those that went
\* are out of the window of the request.
LEMMA AfterPruning ==
    ASSUME NEW k \in Keys, KeyInv(k), NEW time, Fresh(time), clock \in Nat
    PROVE  \E d \in 0 .. GivenHits(k) :
               /\ Pruned(k, time) \in Seq(Nat)
               /\ Len(Pruned(k, time)) = GivenHits(k) - d
               /\ \A i \in 1 .. GivenHits(k) - d :
                      Pruned(k, time)[i] = granted[k][d + i]
               /\ \A j \in 1 .. d :
                      /\ granted[k][j] + Window <= clock
                      /\ granted[k][j] + Window <= time + MaxSkew
<1> USE LimitsAssumption
<1>1. PICK n \in 0 .. Kept(k) :
          /\ Pruned(k, time) \in Seq(Nat)
          /\ Len(Pruned(k, time)) = Kept(k) - n
          /\ \A i \in 1 .. Kept(k) - n : Pruned(k, time)[i] = hits[k][n + i]
          /\ \A i \in 1 .. n : hits[k][i] + Window <= time
  BY PrunedHits DEF KeyInv, Fresh
<1>2. /\ Kept(k) \in Nat /\ GivenHits(k) \in Nat /\ Kept(k) <= GivenHits(k)
      /\ Dropped(k) = GivenHits(k) - Kept(k)
  BY DEF KeyInv, HitsRecent, Kept, GivenHits, Dropped
<1>3. PICK d \in 0 .. GivenHits(k) :
          d = Dropped(k) + n /\ GivenHits(k) - d = Kept(k) - n
  BY <1>2
<1>4. ASSUME NEW i \in 1 .. GivenHits(k) - d
      PROVE  Pruned(k, time)[i] = granted[k][d + i]
  <2>1. n + i \in 1 .. Kept(k) /\ Dropped(k) + (n + i) = d + i
    BY <1>2, <1>3
  <2>2. hits[k][n + i] = granted[k][d + i]
    BY <2>1 DEF KeyInv, HitsRecent
  <2> QED
    BY <1>1, <1>3, <2>2
<1>5. ASSUME NEW j \in 1 .. d
      PROVE  /\ granted[k][j] + Window <= clock
             /\ granted[k][j] + Window <= time + MaxSkew
  <2>1. j \in 1 .. GivenHits(k)
    BY <1>2, <1>3
  <2> granted[k][j] \in Nat
    BY <2>1, HitTimes DEF KeyInv
  <2>2. CASE j <= Dropped(k)
    <3>1. granted[k][j] + Window <= clock
      BY <1>2, <2>2 DEF KeyInv, HitsRecent
    <3> QED
      BY <2>1, <3>1 DEF Fresh
  <2>3. CASE ~ (j <= Dropped(k))
    <3>1. /\ j - Dropped(k) \in 1 .. n /\ j - Dropped(k) \in 1 .. Kept(k)
          /\ Dropped(k) + (j - Dropped(k)) = j
      BY <1>2, <1>3, <2>3
    <3>2. hits[k][j - Dropped(k)] = granted[k][j]
      BY <3>1 DEF KeyInv, HitsRecent
    <3>3. granted[k][j] + Window <= time
      BY <1>1, <3>1, <3>2
    <3> QED
      BY <2>1, <3>3 DEF Fresh
  <2> QED
    BY <2>2, <2>3
<1> QED
  BY <1>1, <1>3, <1>4, <1>5

\* A key whose hits are pruned by a request that gets no further.
LEMMA KeyForgets ==
    ASSUME NEW k \in Keys, KeyInv(k), NEW time, Fresh(time),
           clock \in Nat, clock' = clock,
           hits'[k] = Pruned(k, time), granted'[k] = granted[k]
    PROVE  KeyInv(k)'
<1>1. PICK d \in 0 .. GivenHits(k) :
          /\ Pruned(k, time) \in Seq(Nat)
          /\ Len(Pruned(k, time)) = GivenHits(k) - d
          /\ \A i \in 1 .. GivenHits(k) - d :
                 Pruned(k, time)[i] = granted[k][d + i]
          /\ \A j \in 1 .. d :
                 /\ granted[k][j] + Window <= clock
                 /\ granted[k][j] + Window <= time + MaxSkew
  BY AfterPruning
<1>2. GivenHits(k) \in Nat
  BY DEF KeyInv, GivenHits
<1>3. /\ Kept(k)' = GivenHits(k) - d /\ GivenHits(k)' = GivenHits(k)
      /\ Dropped(k)' = d
  BY <1>1, <1>2 DEF Kept, GivenHits, Dropped
<1>4. HitsRecent(k)'
  BY <1>1, <1>2, <1>3 DEF HitsRecent
<1>5. HitsSpaced(k)'
  BY <1>3 DEF KeyInv, HitsSpaced
<1> QED
  BY <1>1, <1>4, <1>5 DEF KeyInv

\* A key that still has quota is granted one more hit.
LEMMA KeyHits ==
    ASSUME NEW k \in Keys, KeyInv(k), NEW time, Fresh(time),
           clock \in Nat, clock' = clock, ~ Full(k, time),
           hits'[k] = Append(Pruned(k, time), time),
           granted'[k] = Append(granted[k], time)
    PROVE  KeyInv(k)'
<1>1. PICK d \in 0 .. GivenHits(k) :
          /\ Pruned(k, time) \in Seq(Nat)
          /\ Len(Pruned(k, time)) = GivenHits(k) - d
          /\ \A i \in 1 .. GivenHits(k) - d :
                 Pruned(k, time)[i] = granted[k][d + i]
          /\ \A j \in 1 .. d :
                 /\ granted[k][j] + Window <= clock
                 /\ granted[k][j] + Window <= time + MaxSkew
  BY AfterPruning
<1>2. GivenHits(k) \in Nat /\ granted[k] \in Seq(Nat) /\ time \in Nat
  BY DEF KeyInv, GivenHits, Fresh
<1>3. /\ hits'[k] \in Seq(Nat) /\ granted'[k] \in Seq(Nat)
      /\ Len(hits'[k]) = GivenHits(k) - d + 1
      /\ Len(granted'[k]) = GivenHits(k) + 1
  <2>1. /\ Append(Pruned(k, time), time) \in Seq(Nat)
        /\ Len(Append(Pruned(k, time), time)) = Len(Pruned(k, time)) + 1
    BY <1>1, <1>2, AppendProperties
  <2>2. /\ Append(granted[k], time) \in Seq(Nat)
        /\ Len(Append(granted[k], time)) = Len(granted[k]) + 1
    BY <1>2, AppendProperties
  <2> QED
    BY <1>1, <2>1, <2>2 DEF GivenHits
<1>4. /\ Kept(k)' = GivenHits(k) - d + 1 /\ GivenHits(k)' = GivenHits(k) + 1
      /\ Dropped(k)' = d
  BY <1>2, <1>3 DEF Kept, GivenHits, Dropped
<1>5. /\ \A j \in 1 .. GivenHits(k) : granted'[k][j] = granted[k][j]
      /\ granted'[k][GivenHits(k) + 1] = time
  BY <1>2 DEF GivenHits
<1>6. /\ \A i \in 1 .. GivenHits(k) - d : hits'[k][i] = Pruned(k, time)[i]
      /\ hits'[k][GivenHits(k) - d + 1] = time
  BY <1>1, <1>2
<1>7. HitsRecent(k)'
  <2>1. Kept(k)' <= GivenHits(k)'
    BY <1>2, <1>4
  <2>2. \A i \in 1 .. Kept(k)' : hits'[k][i] = granted'[k][Dropped(k)' + i]
    <3>1. SUFFICES ASSUME NEW i \in 1 .. GivenHits(k) - d + 1
                   PROVE  hits'[k][i] = granted'[k][d + i]
      BY <1>4
    <3>2. CASE i = GivenHits(k) - d + 1
      <4>1. d + i = GivenHits(k) + 1
        BY <1>2, <3>2
      <4> QED
        BY <1>5, <1>6, <3>2, <4>1
    <3>3. CASE i # GivenHits(k) - d + 1
      <4>1. i \in 1 .. GivenHits(k) - d /\ d + i \in 1 .. GivenHits(k)
        BY <1>2, <3>3, NotTheLast
      <4> QED
        BY <1>1, <1>5, <1>6, <4>1
    <3> QED
      BY <3>2, <3>3
  <2>3. \A j \in 1 .. Dropped(k)' : granted'[k][j] + Window <= clock'
    <3>1. SUFFICES ASSUME NEW j \in 1 .. d
                   PROVE  granted'[k][j] + Window <= clock
      BY <1>4
    <3>2. j \in 1 .. GivenHits(k)
      BY <1>2
    <3> QED
      BY <1>1, <1>5, <3>2
  <2> QED
    BY <2>1, <2>2, <2>3 DEF HitsRecent
<1>8. HitsSpaced(k)'
  <2>1. SUFFICES ASSUME NEW i \in 1 .. GivenHits(k) + 1,
                        NEW j \in 1 .. GivenHits(k) + 1, i + MaxHits[k] <= j
                 PROVE  granted'[k][i] + Window - MaxSkew <= granted'[k][j]
    BY <1>4 DEF HitsSpaced
  <2>2. MaxHits[k] \in Nat \ {0} /\ GivenHits(k) - d < MaxHits[k]
    BY <1>1, <1>2, LimitsAssumption DEF Full
  <2>3. i \in 1 .. GivenHits(k)
    BY <1>2, <2>1, <2>2
  <2>4. CASE j \in 1 .. GivenHits(k)
    BY <1>5, <2>1, <2>3, <2>4 DEF KeyInv, HitsSpaced
  <2>5. CASE j = GivenHits(k) + 1
    <3>1. i \in 1 .. d
      BY <1>2, <2>1, <2>2, <2>5
    <3>2. granted[k][i] + Window <= time + MaxSkew
      BY <1>1, <3>1
    <3>3. granted[k][i] \in Nat
      BY <1>2, <2>3, HitTimes
    <3>4. Window \in Nat /\ MaxSkew \in Nat
      BY LimitsAssumption
    <3>5. granted[k][i] + Window - MaxSkew <= time
      BY <1>2, <3>2, <3>3, <3>4, LessTheSkew
    <3>6. granted'[k][i] = granted[k][i] /\ granted'[k][j] = time
      BY <1>5, <2>3, <2>5
    <3> QED
      BY <3>5, <3>6
  <2>6. j \in 1 .. GivenHits(k) \/ j = GivenHits(k) + 1
    BY <1>2, LastOrBefore
  <2> QED
    BY <2>4, <2>5, <2>6
<1> QED
  BY <1>3, <1>7, <1>8 DEF KeyInv

\* A key that the step leaves alone, while the clock may go on.
LEMMA KeyStays ==
    ASSUME NEW k \in Keys, KeyInv(k), clock \in Nat, clock' \in Nat,
           clock <= clock', hits'[k] = hits[k], granted'[k] = granted[k]
    PROVE  KeyInv(k)'
<1> USE LimitsAssumption
<1>1. /\ Kept(k)' = Kept(k) /\ GivenHits(k)' = GivenHits(k)
      /\ Dropped(k)' = Dropped(k)
  BY DEF Kept, GivenHits, Dropped
<1>2. /\ Kept(k) \in Nat /\ GivenHits(k) \in Nat /\ Kept(k) <= GivenHits(k)
      /\ Dropped(k) = GivenHits(k) - Kept(k)
  BY DEF KeyInv, HitsRecent, Kept, GivenHits, Dropped
<1>3. ASSUME NEW j \in 1 .. Dropped(k) PROVE granted[k][j] + Window <= clock'
  <2>1. j \in 1 .. GivenHits(k)
    BY <1>2
  <2>2. granted[k][j] + Window <= clock /\ granted[k][j] \in Nat
    BY <2>1 DEF KeyInv, HitsRecent, GivenHits
  <2> QED
    BY <2>2
<1>4. HitsRecent(k)'
  BY <1>1, <1>3 DEF KeyInv, HitsRecent
<1>5. HitsSpaced(k)'
  BY <1>1 DEF KeyInv, HitsSpaced
<1> QED
  BY <1>4, <1>5 DEF KeyInv

\* The step of the limiters keeps their invariant.
LEMMA LimitsInvStep ==
    ASSUME LimitsInv,
           \/ \E at \in {"otp", "first", "second"},
                 pairs \in SUBSET (Keys \X Keys) : LimitsNext(at, pairs)
           \/ UNCHANGED limitVars
    PROVE  LimitsInv'
<1> USE LimitsAssumption
<1>1. /\ clock \in 0 .. MaxTime /\ clock \in Nat
      /\ hits \in [Keys -> Seq(Nat)] /\ granted \in [Keys -> Seq(Nat)]
      /\ last \in [Keys -> Int] /\ asking \in [Clients -> Asking]
  BY DEF LimitsInv, LimitsTypeOK
<1>2. (\A k \in Keys : KeyInv(k)) /\ ReadingsFresh
  BY DEF LimitsInv
<1>3. ASSUME NEW r \in Asking, r # Nothing
      PROVE  r.keys[1] \in Keys /\ r.keys[2] \in Keys
  BY <1>3 DEF Asking
<1>4. Nothing \in Asking
  BY DEF Asking
\* One request, whose outcome is the same for every key it involves.
<1>5. ASSUME NEW c \in Clients, asking[c] # Nothing, NEW ks \in SUBSET Keys,
             NEW to \in Asking, to # Nothing => to.time = clock, Goes(c, to),
             clock' = clock, last' \in [Keys -> Int],
             \/ Forget(ks, asking[c].time) /\ UNCHANGED granted
             \/ Hit(ks, asking[c].time)
                /\ \A k \in ks : ~ Full(k, asking[c].time)
      PROVE  LimitsInv'
  <2> DEFINE time == asking[c].time
  <2>1. Fresh(time)
    BY <1>2, <1>5 DEF ReadingsFresh
  <2>2. ASSUME NEW k \in Keys PROVE KeyInv(k)'
    <3>1. CASE k \notin ks
      <4>1. hits'[k] = hits[k] /\ granted'[k] = granted[k]
        BY <1>1, <1>5, <3>1 DEF Forget, Hit
      <4> QED
        BY <1>1, <1>2, <1>5, <4>1, KeyStays
    <3>2. CASE k \in ks /\ Forget(ks, time) /\ UNCHANGED granted
      <4>1. hits'[k] = Pruned(k, time) /\ granted'[k] = granted[k]
        BY <3>2 DEF Forget
      <4> HIDE DEF time
      <4> QED
        BY <1>1, <1>2, <1>5, <2>1, <4>1, KeyForgets
    <3>3. CASE k \in ks /\ Hit(ks, time) /\ ~ Full(k, time)
      <4>1. /\ hits'[k] = Append(Pruned(k, time), time)
            /\ granted'[k] = Append(granted[k], time)
        BY <3>3 DEF Hit
      <4> HIDE DEF time
      <4> QED
        BY <1>1, <1>2, <1>5, <2>1, <3>3, <4>1, KeyHits
    <3> QED
      BY <1>5, <3>1, <3>2, <3>3
  <2>3. asking' = [asking EXCEPT ![c] = to]
    BY <1>5 DEF Goes
  <2>4. ReadingsFresh'
    <3>1. SUFFICES ASSUME NEW b \in Clients, asking'[b] # Nothing
                   PROVE  Fresh(asking[b].time)'
      BY DEF ReadingsFresh
    <3>2. CASE b = c
      BY <1>1, <1>5, <2>3, <3>1, <3>2 DEF Fresh
    <3>3. CASE b # c
      BY <1>1, <1>2, <1>5, <2>3, <3>1, <3>3 DEF ReadingsFresh, Fresh
    <3> QED
      BY <3>2, <3>3
  <2>5. asking' \in [Clients -> Asking]
    BY <1>1, <2>3
  <2>6. /\ \A k \in Keys : hits'[k] \in Seq(Nat) /\ granted'[k] \in Seq(Nat)
        /\ hits' = [k \in Keys |-> hits'[k]]
        /\ granted' = [k \in Keys |-> granted'[k]]
    BY <1>1, <1>5, <2>2 DEF KeyInv, Forget, Hit
  <2>7. LimitsTypeOK'
    BY <1>1, <1>5, <2>5, <2>6 DEF LimitsTypeOK
  <2> QED
    BY <2>2, <2>4, <2>7 DEF LimitsInv
<1>6. ASSUME NEW c \in Clients, NEW at \in {"otp", "first", "second"},
             NEW pair \in Keys \X Keys, Arrive(c, at, pair)
      PROVE  LimitsInv'
  <2> DEFINE to == [at |-> at, keys |-> pair, time |-> clock]
  <2>1. to \in Asking
    BY <1>1 DEF Asking
  <2>2. asking' = [asking EXCEPT ![c] = to]
    BY <1>6 DEF Arrive, Goes
  <2>3. UNCHANGED <<clock, hits, last, granted>>
    BY <1>6 DEF Arrive
  <2>4. \A k \in Keys : KeyInv(k)'
    BY <1>1, <1>2, <2>3, KeyStays
  <2>5. ReadingsFresh'
    <3>1. SUFFICES ASSUME NEW b \in Clients, asking'[b] # Nothing
                   PROVE  Fresh(asking[b].time)'
      BY DEF ReadingsFresh
    <3>2. CASE b = c
      BY <1>1, <2>2, <2>3, <3>2 DEF Fresh
    <3>3. CASE b # c
      BY <1>1, <1>2, <2>2, <2>3, <3>1, <3>3 DEF ReadingsFresh, Fresh
    <3> QED
      BY <3>2, <3>3
  <2>6. LimitsTypeOK'
    BY <1>1, <2>1, <2>2, <2>3 DEF LimitsTypeOK
  <2> QED
    BY <2>4, <2>5, <2>6 DEF LimitsInv
<1>7. ASSUME NEW c \in Clients, Allow(c) PROVE LimitsInv'
  <2> DEFINE r  == asking[c]
             k  == IF r.at = "first" THEN r.keys[1] ELSE r.keys[2]
             to == IF r.at = "first"
                   THEN [at |-> "second", keys |-> r.keys, time |-> clock]
                   ELSE Nothing
  <2>1. /\ r.at \in {"first", "second"}
        /\ \/ /\ Full(k, r.time) /\ Forget({k}, r.time)
              /\ Goes(c, Nothing) /\ UNCHANGED granted
           \/ ~ Full(k, r.time) /\ Hit({k}, r.time) /\ Goes(c, to)
        /\ UNCHANGED <<clock, last>>
    BY <1>7 DEF Allow
  <2>2. r # Nothing /\ r \in Asking
    BY <1>1, <2>1 DEF Nothing
  <2>3. k \in Keys /\ r.keys \in Keys \X Keys
    BY <1>3, <2>1, <2>2 DEF Asking
  <2>4. to \in Asking /\ (to # Nothing => to.time = clock)
    BY <1>1, <1>4, <2>3 DEF Asking
  <2>5. {k} \in SUBSET Keys /\ last' \in [Keys -> Int] /\ clock' = clock
    BY <1>1, <2>1, <2>3
  <2> HIDE DEF k, to
  <2> QED
    BY <1>4, <1>5, <2>1, <2>2, <2>4, <2>5
<1>8. ASSUME NEW c \in Clients, AllowOtp(c) PROVE LimitsInv'
  <2> DEFINE r     == asking[c]
             phone == r.keys[1]
             ip    == r.keys[2]
  <2>1. /\ r.at = "otp" /\ Goes(c, Nothing) /\ clock' = clock
        /\ \/ UNCHANGED <<hits, last, granted>>
           \/ Forget({phone}, r.time) /\ UNCHANGED <<last, granted>>
           \/ Forget({phone, ip}, r.time) /\ UNCHANGED <<last, granted>>
           \/ /\ ~ Full(phone, r.time) /\ ~ Full(ip, r.time)
              /\ Hit({phone, ip}, r.time)
              /\ last' = [last EXCEPT ![phone] = r.time]
    BY <1>8 DEF AllowOtp
  <2>2. r # Nothing /\ r \in Asking
    BY <1>1, <2>1 DEF Nothing
  <2>3. phone \in Keys /\ ip \in Keys /\ r.time \in Nat
    BY <1>2, <1>3, <2>2 DEF ReadingsFresh, Fresh
  <2>4. last' \in [Keys -> Int]
    <3>1. last' = last \/ last' = [last EXCEPT ![phone] = r.time]
      BY <2>1
    <3>2. r.time \in Int
      BY <2>3
    <3> HIDE DEF phone
    <3> QED
      BY <1>1, <3>1, <3>2
  <2>5. {phone} \in SUBSET Keys /\ {phone, ip} \in SUBSET Keys /\ {} \in SUBSET Keys
    BY <2>3
  <2>6. CASE UNCHANGED <<hits, last, granted>>
    <3>1. Forget({}, r.time) /\ UNCHANGED granted
      BY <1>1, <2>6 DEF Forget
    <3> QED
      BY <1>4, <1>5, <2>1, <2>2, <2>4, <2>5, <3>1
  <2> HIDE DEF phone, ip
  <2>7. CASE \/ Forget({phone}, r.time) /\ UNCHANGED <<last, granted>>
             \/ Forget({phone, ip}, r.time) /\ UNCHANGED <<last, granted>>
    BY <1>4, <1>5, <2>1, <2>2, <2>4, <2>5, <2>7
  <2>8. CASE /\ ~ Full(phone, r.time) /\ ~ Full(ip, r.time)
             /\ Hit({phone, ip}, r.time)
    <3>1. \A k \in {phone, ip} : ~ Full(k, r.time)
      BY <2>8
    <3> QED
      BY <1>4, <1>5, <2>1, <2>2, <2>4, <2>5, <2>8, <3>1
  <2> QED
    BY <2>1, <2>6, <2>7, <2>8
<1>9. ASSUME Tick PROVE LimitsInv'
  <2>1. /\ clock < MaxTime /\ clock' = clock + 1
        /\ UNCHANGED <<hits, last, asking, granted>>
        /\ \A c \in Clients :
               asking[c] # Nothing => clock - asking[c].time < MaxSkew
    BY <1>9 DEF Tick
  <2>2. clock' \in 0 .. MaxTime /\ clock' \in Nat /\ clock <= clock'
    BY <1>1, <2>1
  <2>3. \A k \in Keys : KeyInv(k)'
    BY <1>1, <1>2, <2>1, <2>2, KeyStays
  <2>4. ReadingsFresh'
    <3>1. SUFFICES ASSUME NEW c \in Clients, asking[c] # Nothing
                   PROVE  Fresh(asking[c].time)'
      BY <2>1 DEF ReadingsFresh
    <3>2. /\ asking[c].time \in Nat /\ asking[c].time <= clock
          /\ clock - asking[c].time < MaxSkew /\ MaxSkew \in Nat
      BY <1>2, <2>1, <3>1 DEF ReadingsFresh, Fresh
    <3>3. asking[c].time <= clock + 1 /\ clock + 1 <= asking[c].time + MaxSkew
      BY <1>1, <3>2
    <3> QED
      BY <2>1, <3>2, <3>3 DEF Fresh
  <2>5. LimitsTypeOK'
    BY <1>1, <2>1, <2>2 DEF LimitsTypeOK
  <2> QED
    BY <2>3, <2>4, <2>5 DEF LimitsInv
<1>10. CASE UNCHANGED limitVars
  <2>1. UNCHANGED <<clock, hits, last, asking, granted>>
    BY <1>10 DEF limitVars
  <2>2. \A k \in Keys : KeyInv(k)'
    BY <1>1, <1>2, <2>1, KeyStays
  <2> QED
    BY <1>1, <1>2, <2>1, <2>2 DEF LimitsInv, LimitsTypeOK, ReadingsFresh, Fresh
<1> QED
  BY <1>6, <1>7, <1>8, <1>9, <1>10 DEF LimitsNext

\* Hits within a window lie within as many places as the quota has.
LEMMA SpacedIsBounded ==
    ASSUME NEW k \in Keys, KeyInv(k), NEW i \in DOMAIN granted[k]
    PROVE  Cardinality(Within(k, i, Window - MaxSkew)) <= MaxHits[k]
<1> DEFINE W == Within(k, i, Window - MaxSkew)
<1>1. /\ granted[k] \in Seq(Nat) /\ GivenHits(k) \in Nat
      /\ DOMAIN granted[k] = 1 .. GivenHits(k)
  BY DEF KeyInv, GivenHits
<1>2. MaxHits[k] \in Nat /\ MaxHits[k] >= 1 /\ Window \in Nat /\ MaxSkew \in Nat
  BY LimitsAssumption
<1>3. W \subseteq 1 .. GivenHits(k)
  BY <1>1 DEF Within
<1>4. CASE W = {}
  BY <1>2, <1>4, FS_EmptySet
<1>5. CASE W # {}
  <2>1. PICK m \in W : \A n \in W : m <= n
    <3>1. W \subseteq Nat
      BY <1>3
    <3> HIDE DEF W
    <3> QED
      BY <1>5, <3>1, LeastNumber
  <2>2. ASSUME NEW j \in W PROVE j \in m .. m + MaxHits[k] - 1
    <3>1. /\ j \in 1 .. GivenHits(k) /\ m \in 1 .. GivenHits(k) /\ m <= j
      BY <1>3, <2>1
    <3>2. ~ (m + MaxHits[k] <= j)
      <4>1. SUFFICES ASSUME m + MaxHits[k] <= j PROVE FALSE
        OBVIOUS
      <4>2. granted[k][m] + Window - MaxSkew <= granted[k][j]
        BY <3>1, <4>1 DEF KeyInv, HitsSpaced
      <4>3. /\ granted[k][i] <= granted[k][m]
            /\ granted[k][j] < granted[k][i] + (Window - MaxSkew)
        BY <2>1, <2>2 DEF Within
      <4>4. /\ granted[k][i] \in Nat /\ granted[k][j] \in Nat
            /\ granted[k][m] \in Nat
        BY <1>1, <3>1, HitTimes
      <4> QED
        BY <1>2, <4>2, <4>3, <4>4
    <3> QED
      BY <1>1, <1>2, <3>1, <3>2
  <2>3. W \subseteq m .. m + MaxHits[k] - 1
    BY <2>2
  <2>4. m \in Int /\ m + MaxHits[k] - 1 \in Int
    BY <1>1, <1>2, <1>3, <2>1
  <2>5. PICK b \in Int : b = m + MaxHits[k] - 1
    BY <2>4
  <2>6. IsFiniteSet(m .. b) /\ Cardinality(m .. b) = MaxHits[k]
    <3>1. /\ IsFiniteSet(m .. b)
          /\ Cardinality(m .. b) = IF m > b THEN 0 ELSE b - m + 1
      BY <2>4, FS_Interval
    <3>2. ~ (m > b) /\ b - m + 1 = MaxHits[k]
      BY <1>2, <2>4, <2>5
    <3> QED
      BY <3>1, <3>2
  <2>7. W \in SUBSET (m .. b)
    BY <2>3, <2>5
  <2> HIDE DEF W
  <2>8. Cardinality(W) <= MaxHits[k]
    BY <2>6, <2>7, FS_Subset
  <2> QED
    BY <2>8 DEF W
<1> QED
  BY <1>4, <1>5

-----------------------------------------------------------------------------
(***************************************************************************)
(* The parts together.                                                     *)
(***************************************************************************)
ServicesInv ==
    /\ LimitsInv
    /\ OtpInv
    /\ GeocoderInv
    /\ ConnectionInv
    /\ AdminAccountsTypeOK
    /\ DeskInv
    /\ running \in Parts

LEMMA ServicesInvariant == ServicesSpec => []ServicesInv
<1>1. ServicesInit => ServicesInv
  BY LimitsInvInit, OtpInvInit, GeocoderInvInit, ConnectionInvInit,
     AccountsTypeInit, DeskInvInit DEF ServicesInit, ServicesInv
<1>2. ServicesInv /\ [ServicesNext]_vars => ServicesInv'
  <2> SUFFICES ASSUME ServicesInv, [ServicesNext]_vars PROVE ServicesInv'
    OBVIOUS
  <2>1. LimitsInv'
    BY PartSteps, LimitsInvStep DEF ServicesInv
  <2>2. OtpInv'
    BY PartSteps, OtpInvStep DEF ServicesInv
  <2>3. GeocoderInv'
    BY PartSteps, GeocoderInvStep DEF ServicesInv
  <2>4. ConnectionInv'
    BY PartSteps, ConnectionInvStep DEF ServicesInv
  <2>5. AdminAccountsTypeOK'
    BY PartSteps, AccountsTypeStep DEF ServicesInv
  <2>6. DeskInv'
    BY PartSteps, DeskInvStep DEF ServicesInv
  <2>7. (running \in Parts)'
    BY DEF ServicesInv, ServicesNext, vars
  <2> QED
    BY <2>1, <2>2, <2>3, <2>4, <2>5, <2>6, <2>7 DEF ServicesInv
<1> QED
  BY <1>1, <1>2, PTL DEF ServicesSpec

\* Every part keeps its types, whatever its requests and callers do.
THEOREM ServicesTypeCorrect == ServicesSpec => []ServicesTypeOK
<1>1. GeocoderInv => GeocoderTypeOK
  BY Zenon DEF GeocoderInv, GeocoderTypes, GeocoderTypeOK
<1>2. ServicesInv => ServicesTypeOK
  BY <1>1 DEF ServicesInv, ServicesTypeOK, LimitsInv, OtpInv, ConnectionInv,
              DeskInv
<1> QED
  BY <1>2, ServicesInvariant, PTL

\* No key is granted more than its quota in a window, less the wait for the
\* mutex, in whatever order the requests get it (both ratelimit.go and
\* search_ratelimit.go).
THEOREM QuotasAreKept == ServicesSpec => []QuotasHold
<1>1. ServicesInv => QuotasHold
  BY SpacedIsBounded DEF ServicesInv, LimitsInv, QuotasHold
<1> QED
  BY <1>1, ServicesInvariant, PTL

\* The handlers that issue and check codes keep what a one-time code promises
\* (otp_request.go, otp_verify.go).
THEOREM CodesKept == ServicesSpec => KeepsOneTimeCode
<1>1. ServicesInit => Promise!CodeInit
  BY RefinesInit DEF ServicesInit
<1>2. ServicesInv /\ [ServicesNext]_vars =>
          [Promise!CodeNext]_(Promise!codeVars)
  BY PartSteps, RefinesOneTimeCode DEF ServicesInv
<1> QED
  BY <1>1, <1>2, ServicesInvariant, PTL
     DEF ServicesSpec, KeepsOneTimeCode, Promise!CodeSpec

\* Two requests to the geocoding provider are apart by the minimal interval,
\* also when searches give up while they wait (geocode.go: waitForRateLimit).
THEOREM TurnsAreSpaced == ServicesSpec => SlotsSpaced
<1>1. ServicesInv /\ [ServicesNext]_vars => SlotsSpacedStep
  BY PartSteps, TurnsApart DEF ServicesInv
<1>2. ServicesInv /\ [ServicesNext]_vars => [SlotsSpacedStep]_search
  BY <1>1
<1> QED
  BY <1>2, ServicesInvariant, PTL
     DEF ServicesSpec, SlotsSpaced, SlotsSpacedStep

\* A connection to the broker is open exactly while the loop holds it or it is
\* stored for the service: no failed attempt leaves one behind (background.go).
THEOREM NoConnectionLeft == ServicesSpec => []NoStrayConnection
<1>1. ServicesInv => NoStrayConnection
  BY DEF ServicesInv, ConnectionInv
<1> QED
  BY <1>1, ServicesInvariant, PTL

\* A password changes only by a request that names one or that had loaded a row
\* since given another one, never by a restart (admin_accounts_api.go,
\* admin_seed.go).
THEOREM PasswordsStayPut == ServicesSpec => PasswordsKept
<1>1. ServicesInv /\ [ServicesNext]_vars => PasswordsKeptStep
  BY PartSteps, PasswordsStay DEF ServicesInv
<1>2. ServicesInv /\ [ServicesNext]_vars => [PasswordsKeptStep]_accounts
  BY <1>1
<1> QED
  BY <1>2, ServicesInvariant, PTL
     DEF ServicesSpec, PasswordsKept, PasswordsKeptStep

\* The thresholds stored are in order, also when a PUT merges with a row that
\* another one has since replaced (desk_settings.go).
THEOREM DeskInOrder == ServicesSpec => []ThresholdsOrdered
<1>1. ServicesInv => ThresholdsOrdered
  BY DEF ServicesInv, DeskInv
<1> QED
  BY <1>1, ServicesInvariant, PTL
=============================================================================
