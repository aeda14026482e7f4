----------------------------- MODULE MCServices -----------------------------
(***************************************************************************)
(* Services for TLC.                                                       *)
(***************************************************************************)
EXTENDS Services

CONSTANTS anIp, aPhone, aUser

Quotas == [k \in Keys |-> 2]

OnePhone == {<<aPhone, anIp>>, <<aUser, anIp>>}
OneUser  == {<<anIp, aUser>>}
OneIp    == {<<anIp, anIp>>}

\* PATCHes of a username, or of a password.
OneField == {b \in AccountBody : Absent \in {b.username, b.password}}

Changes(c, m) == [d \in Colours |-> IF d = c THEN m ELSE Absent]

\* PUTs of one threshold, and one of all three.
SmallDeskBodies ==
    {Changes(c, m) : c \in Colours, m \in Minutes}
        \cup {[d \in Colours |->
                   CASE d = "blue" -> 15 [] d = "orange" -> 30 [] d = "red" -> 40]}
=============================================================================
