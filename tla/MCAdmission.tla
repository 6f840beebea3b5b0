---------------------------- MODULE MCAdmission ----------------------------
(***************************************************************************)
(* A small instance of Admission for TLC: a script with a token and an     *)
(* operator with a password call from one address.                         *)
(***************************************************************************)
EXTENDS Admission, TLC

CONSTANTS script, operator, office, t1, t2, u1, u2, p1, p2

Bearer(t) == [token |-> t, user |-> NoValue, pass |-> NoValue]
Basic(u, p) == [token |-> NoValue, user |-> u, pass |-> p]
Pair(u, p) == [user |-> u, pass |-> p]

Addresses == (script :> office) @@ (operator :> office)
TokenContents == {{}, {t1}, {t2}}
BasicContents == {Pair(u1, p1), Pair(u1, p2), Pair(u2, p2), Pair(u1, NoValue)}
Presented == (script :> Bearer(t1)) @@ (operator :> Basic(u1, p2))
=============================================================================
