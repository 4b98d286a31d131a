------------------------------ MODULE MCAccess ------------------------------
(* Small instances of Access. *)
EXTENDS Access, TLC

CONSTANTS b1, b2

\* Browsers are interchangeable.
Symmetry == Permutations(Browsers)

\* Bounds.  One secret is replaced, by a rotation or a reissue.  The first session is
\* created in any race; after it one thing happens at a time.  Two browsers are signed in
\* while the company is the only one invited, and links lapse where nobody is.
Sessions == \E a \in 1..MaxAccounts : role[a] # "none"
Busy     == Cardinality({b \in Browsers : request[b] # NoRequest}) + IF Walking THEN 1 ELSE 0
QuietSessions == /\ Sessions => Busy <= 1
                 /\ \/ Cardinality({b \in Browsers : cookie[b] # 0}) <= 1
                    \/ Secrets <= 2
EarlyLapses   == lapsed => ~Sessions
BoundedSpec   == Init /\ [][Next /\ QuietSessions' /\ EarlyLapses']_vars
=============================================================================
