------------------------------ MODULE Services ------------------------------
(***************************************************************************)
(* The parts of the services that share no state with the orders or with   *)
(* one another: the limiters, the one-time codes, the turns at the         *)
(* geocoding provider, the connection to the broker, the accounts and the  *)
(* desk settings.  They are put side by side; a behaviour is one of one of *)
(* them, the one that is "running".                                        *)
(***************************************************************************)
EXTENDS Limits, Otp, Geocoder, Connection, AdminAccounts, DeskSettings

CONSTANTS
    CodePairs,    \* <<phone, ip>> of the requests for a code
    OrderPairs,   \* <<ip, user>> of the orders
    SearchPairs   \* <<ip, ip>> of the searches

ASSUME ServicesAssumption ==
    CodePairs \cup OrderPairs \cup SearchPairs \subseteq Keys \X Keys

VARIABLE running

Parts ==
    {"code limiter", "order limiter", "search limiter", "codes", "geocoder",
     "connection", "accounts", "desk"}

vars ==
    <<limitVars, otpVars, geoVars, connVars, accountVars, deskVars, running>>

ServicesTypeOK ==
    /\ LimitsTypeOK
    /\ OtpTypeOK
    /\ GeocoderTypeOK
    /\ ConnectionTypeOK
    /\ AdminAccountsTypeOK
    /\ DeskSettingsTypeOK
    /\ running \in Parts

ServicesInit ==
    /\ LimitsInit
    /\ OtpInit
    /\ GeocoderInit
    /\ ConnectionInit
    /\ AdminAccountsInit
    /\ DeskSettingsInit
    /\ running \in Parts

-----------------------------------------------------------------------------
RunLimits ==
    /\ \/ running = "code limiter" /\ LimitsNext("otp", CodePairs)
       \/ running = "order limiter" /\ LimitsNext("first", OrderPairs)
       \/ running = "search limiter" /\ LimitsNext("second", SearchPairs)
    /\ UNCHANGED <<otpVars, geoVars, connVars, accountVars, deskVars>>

RunCodes ==
    /\ running = "codes"
    /\ OtpNext
    /\ UNCHANGED <<limitVars, geoVars, connVars, accountVars, deskVars>>

RunGeocoder(step) ==
    /\ running = "geocoder"
    /\ step
    /\ UNCHANGED <<limitVars, otpVars, connVars, accountVars, deskVars>>

RunConnection(step) ==
    /\ running = "connection"
    /\ step
    /\ UNCHANGED <<limitVars, otpVars, geoVars, accountVars, deskVars>>

RunAccounts ==
    /\ running = "accounts"
    /\ AdminAccountsNext
    /\ UNCHANGED <<limitVars, otpVars, geoVars, connVars, deskVars>>

RunDesk ==
    /\ running = "desk"
    /\ DeskSettingsNext
    /\ UNCHANGED <<limitVars, otpVars, geoVars, connVars, accountVars>>

ServicesNext ==
    /\ \/ RunLimits
       \/ RunCodes
       \/ RunGeocoder(GeocoderNext)
       \/ RunConnection(ConnectionNext)
       \/ RunAccounts
       \/ RunDesk
    /\ UNCHANGED running

\* Time passes; a search that has the token gets its turn or gives up, and its
\* client has a timeout; the receivers of a channel are served in turn, so that
\* a search for which the token is there again and again takes it.  The loop
\* goes on, and a broker that is down is started again.
Fairness ==
    /\ WF_vars(RunGeocoder(GeoTick) /\ UNCHANGED running)
    /\ \A s \in Searches :
           /\ SF_vars(RunGeocoder(TakeToken(s)) /\ UNCHANGED running)
           /\ WF_vars(RunGeocoder(GetTurn(s)) /\ UNCHANGED running)
           /\ WF_vars(RunGeocoder(Answered(s)) /\ UNCHANGED running)
    /\ WF_vars(RunConnection(LoopNext) /\ UNCHANGED running)
    /\ WF_vars(RunConnection(BrokerStarts) /\ UNCHANGED running)

ServicesSpec == ServicesInit /\ [][ServicesNext]_vars /\ Fairness
=============================================================================
