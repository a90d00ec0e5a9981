---------------------------- MODULE MCBasicAuth ----------------------------
(* Small instances of BasicAuth.                                           *)
EXTENDS BasicAuth, TLC

CONSTANTS c1, c2, r1, r2, r3, right, wrong, newer

\* Every request on the one HTTP/3 connection.
OneConn == [r \in Requests |-> c1]

\* One request on an HTTP/3 and the others on an HTTP/2 connection.
TwoConns == [r \in Requests |-> IF r = r1 THEN c1 ELSE c2]

\* All connections come from one address.
OneSource == [c \in Conns |-> "a"]

\* The first request carries a wrong password, the others the right one.
FirstWrong == [r \in Requests |-> IF r = r1 THEN wrong ELSE right]

\* All carry the same password.
Alike == [r \in Requests |-> right]

\* One set of credentials.
Fixed == [g \in {0} |-> right]

\* The first set of credentials accepts the password, the set a reload
\* installs does not, and the one after that has no such user.
Replaced == 0 :> right @@ 1 :> newer @@ 2 :> NoPassword
=============================================================================
