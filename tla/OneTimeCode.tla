---------------------------- MODULE OneTimeCode ----------------------------
(***************************************************************************)
(* What a one-time code promises the owner of a phone, whatever the        *)
(* handlers that issue and check it look like: only the newest code of a   *)
(* phone is good, it signs in once, a code that is spent, superseded or    *)
(* expired never comes back, and the wrong guesses that are answered for   *)
(* one code are bounded.                                                   *)
(***************************************************************************)
EXTENDS Naturals

CONSTANTS
    Codes,
    Owners,     \* phones
    Nobody,     \* the owner of a code not issued yet
    MaxGuesses

VARIABLES
    state,    \* of each code
    owner,
    guesses,  \* wrong guesses answered with "invalid"
    signIns   \* sessions begun with the code

codeVars == <<state, owner, guesses, signIns>>

States == {"unissued", "open", "used", "dead"}

CodeInit ==
    /\ state = [c \in Codes |-> "unissued"]
    /\ owner = [c \in Codes |-> Nobody]
    /\ guesses = [c \in Codes |-> 0]
    /\ signIns = [c \in Codes |-> 0]

-----------------------------------------------------------------------------
Open == {c \in Codes : state[c] = "open"}

\* Codes die: those that must, and any others.
Kill(must, t) ==
    \E dying \in {d \in SUBSET (Open \cup {t}) : must \subseteq d} :
        state' = [c \in Codes |->
            IF c = t /\ c \notin dying THEN "open"
            ELSE IF c \in dying THEN "dead" ELSE state[c]]

\* A code that is not born dead supersedes the others of its owner.
Issue(c, o) ==
    /\ state[c] = "unissued"
    /\ owner' = [owner EXCEPT ![c] = o]
    /\ \/ Kill({d \in Open : owner[d] = o}, c)
       \/ state' = [state EXCEPT ![c] = "dead"]
    /\ UNCHANGED <<guesses, signIns>>

Guess(c) ==
    /\ state[c] = "open"
    /\ guesses[c] < MaxGuesses
    /\ guesses' = [guesses EXCEPT ![c] = @ + 1]
    /\ UNCHANGED <<state, owner, signIns>>

Redeem(c) ==
    /\ state[c] = "open"
    /\ guesses[c] < MaxGuesses
    /\ state' = [state EXCEPT ![c] = "used"]
    /\ signIns' = [signIns EXCEPT ![c] = @ + 1]
    /\ UNCHANGED <<owner, guesses>>

Expire ==
    /\ \E dying \in SUBSET Open :
           state' = [c \in Codes |-> IF c \in dying THEN "dead" ELSE state[c]]
    /\ UNCHANGED <<owner, guesses, signIns>>

CodeNext ==
    \/ \E c \in Codes, o \in Owners : Issue(c, o)
    \/ \E c \in Codes : Guess(c) \/ Redeem(c)
    \/ Expire

CodeSpec == CodeInit /\ [][CodeNext]_codeVars
=============================================================================
