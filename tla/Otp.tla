--------------------------------- MODULE Otp ---------------------------------
(***************************************************************************)
(* auth-service: the challenges of table otp_challenges, from the request  *)
(* of a code to the sign-in with it (otp_request.go, otp_verify.go).       *)
(*                                                                         *)
(* Requests come as often as the limiter lets them (Limits.tla); here that *)
(* is at any time, as after a restart, which forgets the limiter.  Both    *)
(* handlers read the clock before they wait for the only connection, so    *)
(* they act with a time that may have passed.  Whether the SMS arrives     *)
(* changes nothing in the database: a challenge whose SMS failed is the    *)
(* newest one all the same.  The session itself is in Sessions.tla.        *)
(***************************************************************************)
EXTENDS Integers, Sequences

CONSTANTS
    Phones,
    NoPhone,
    Handlers,       \* requests being served at the same time
    Ttl,            \* OTP_TTL
    MaxAttempts,    \* OTP_MAX_ATTEMPTS
    MaxWait,        \* bound on the wait for the connection
    MaxOtpTime,     \* bound on the clock
    MaxChallenges   \* bound on the codes issued

ASSUME OtpAssumption ==
    /\ NoPhone \notin Phones
    /\ Ttl \in Nat
    /\ MaxAttempts \in Nat
    /\ MaxWait \in Nat
    /\ MaxOtpTime \in Nat
    /\ MaxChallenges \in Nat

VARIABLES
    otpClock,
    challenges,  \* table otp_challenges, in order of insertion
    serving      \* the handlers between time.Now() and their statements

otpVars == <<otpClock, challenges, serving>>

\* wrong and signIns are not columns: the wrong guesses answered for the
\* challenge (OTP_INVALID, and OTP_LOCKED for the last one), and the sessions
\* begun with it.
Challenge ==
    [phone : Phones, created : Nat, expires : Nat, attempts : Nat,
     consumed : BOOLEAN, wrong : Nat, signIns : Nat]

\* A code is known by the number of its challenge; 0 is a wrong one.
Served ==
    {[at |-> "idle"]}
        \cup [at : {"request"}, phone : Phones, time : Nat]
        \cup [at : {"verify"}, phone : Phones, time : Nat, code : Nat]

OtpTypeOK ==
    /\ otpClock \in 0 .. MaxOtpTime
    /\ challenges \in Seq(Challenge)
    /\ serving \in [Handlers -> Served]

OtpInit ==
    /\ otpClock = 0
    /\ challenges = << >>
    /\ serving = [h \in Handlers |-> [at |-> "idle"]]

-----------------------------------------------------------------------------
Numbers == DOMAIN challenges

\* ORDER BY created_at DESC: of two inserted at one tick the later is newer.
Newer(c, d) ==
    \/ challenges[c].created > challenges[d].created
    \/ challenges[c].created = challenges[d].created /\ c > d

Newest(p, c) ==
    /\ challenges[c].phone = p
    /\ ~\E d \in Numbers : challenges[d].phone = p /\ Newer(d, c)

Done(h) == serving' = [serving EXCEPT ![h] = [at |-> "idle"]]

RequestOtp(h, p) ==
    /\ serving[h].at = "idle"
    /\ serving' = [serving EXCEPT ![h] =
           [at |-> "request", phone |-> p, time |-> otpClock]]
    /\ UNCHANGED <<otpClock, challenges>>

\* insertChallenge, and SendOTP, which may fail.
IssueOtp(h) ==
    /\ serving[h].at = "request"
    /\ Len(challenges) < MaxChallenges
    /\ challenges' = Append(challenges,
           [phone |-> serving[h].phone, created |-> serving[h].time,
            expires |-> serving[h].time + Ttl, attempts |-> 0,
            consumed |-> FALSE, wrong |-> 0, signIns |-> 0])
    /\ Done(h)
    /\ UNCHANGED otpClock

\* A code is typed in: one of those sent to the phone, or a wrong one.
VerifyOtp(h, p, code) ==
    /\ serving[h].at = "idle"
    /\ code \in Numbers => challenges[code].phone = p
    /\ serving' = [serving EXCEPT ![h] =
           [at |-> "verify", phone |-> p, time |-> otpClock, code |-> code]]
    /\ UNCHANGED <<otpClock, challenges>>

\* The challenge a verify may still be answered for.
Verifiable(h, c) ==
    /\ serving[h].at = "verify"
    /\ Newest(serving[h].phone, c)
    /\ ~challenges[c].consumed
    /\ serving[h].time < challenges[c].expires
    /\ challenges[c].attempts < MaxAttempts

\* Mutant: the attempt is counted in the transaction that is rolled back.
CountNothing(c) ==
    challenges' = [challenges EXCEPT ![c].wrong = @ + 1]

\* bumpChallengeAttempts, committed before the answer.
CountAttempt(c) ==
    challenges' = [challenges EXCEPT ![c].attempts = @ + 1, ![c].wrong = @ + 1]

WrongCode(h, c) ==
    /\ Verifiable(h, c)
    /\ serving[h].code # c
    /\ CountAttempt(c)
    /\ Done(h)
    /\ UNCHANGED otpClock

\* consumeChallenge, invalidateOpenChallenges, upsertCustomer, insertSession.
RightCode(h, c) ==
    /\ Verifiable(h, c)
    /\ serving[h].code = c
    /\ challenges' = [d \in Numbers |->
           IF d = c
           THEN [challenges[c] EXCEPT !.consumed = TRUE, !.attempts = @ + 1,
                                      !.signIns = @ + 1]
           ELSE IF challenges[d].phone = serving[h].phone
                THEN [challenges[d] EXCEPT !.consumed = TRUE]
                ELSE challenges[d]]
    /\ Done(h)
    /\ UNCHANGED otpClock

\* OTP_NOT_FOUND, OTP_CONSUMED, OTP_EXPIRED, OTP_LOCKED; or the request dies.
OtpEnds(h) ==
    /\ serving[h].at # "idle"
    /\ Done(h)
    /\ UNCHANGED <<otpClock, challenges>>

OtpTick ==
    /\ otpClock < MaxOtpTime
    /\ \A h \in Handlers :
           serving[h].at # "idle" => otpClock - serving[h].time < MaxWait
    /\ otpClock' = otpClock + 1
    /\ UNCHANGED <<challenges, serving>>

OtpNext ==
    \/ \E h \in Handlers, p \in Phones :
           RequestOtp(h, p) \/ \E code \in Numbers \cup {0} : VerifyOtp(h, p, code)
    \/ \E h \in Handlers : IssueOtp(h) \/ OtpEnds(h)
    \/ \E h \in Handlers, c \in Numbers : WrongCode(h, c) \/ RightCode(h, c)
    \/ OtpTick

-----------------------------------------------------------------------------
(***************************************************************************)
(* Properties.                                                             *)
(***************************************************************************)
\* A code no verify can be answered for any more: consumed without a sign-in,
\* superseded, or expired for every handler that may still be waiting.
Dead(c) ==
    \/ challenges[c].consumed
    \/ ~Newest(challenges[c].phone, c)
    \/ otpClock >= challenges[c].expires + MaxWait

State(c) ==
    CASE c \notin Numbers            -> "unissued"
      [] c \in Numbers /\ challenges[c].signIns > 0 -> "used"
      [] c \in Numbers /\ challenges[c].signIns = 0 /\ Dead(c) -> "dead"
      [] OTHER                       -> "open"

AllCodes == 1 .. MaxChallenges

\* The challenges keep the promise of one-time codes: a step of a handler that
\* other requests, answers and the clock overtake is a step of OneTimeCode.
Promise == INSTANCE OneTimeCode WITH
    Codes      <- AllCodes,
    Owners     <- Phones,
    Nobody     <- NoPhone,
    MaxGuesses <- MaxAttempts,
    state      <- [c \in AllCodes |-> State(c)],
    owner      <- [c \in AllCodes |->
                      IF c \in Numbers THEN challenges[c].phone ELSE NoPhone],
    guesses    <- [c \in AllCodes |->
                      IF c \in Numbers THEN challenges[c].wrong ELSE 0],
    signIns    <- [c \in AllCodes |->
                      IF c \in Numbers THEN challenges[c].signIns ELSE 0]

KeepsOneTimeCode == Promise!CodeSpec
=============================================================================
