---------------------------- MODULE AccessProofs ----------------------------
(***************************************************************************)
(* Theorems about Access, for any number of browsers, accounts and         *)
(* secrets: what a revocation takes along, how often a link connects, and  *)
(* whom a session acts for.                                                *)
(***************************************************************************)
EXTENDS Access, TLAPS

-----------------------------------------------------------------------------
(* Type correctness *)

LEMMA Roots ==
  /\ Job = {"customer", "manager", "worker"} /\ Invited \subseteq Job /\ Job \subseteq Participants
  /\ Invited = {"manager", "worker"}
  /\ "customer" \in Job /\ "manager" \in Job
  /\ \A p \in Invited : Issuer(p) \in Job
  /\ \A p : IssuedBy(p) \subseteq Invited
  BY DEF Job, Invited, Participants, Issuer, IssuedBy

LEMMA IssuedInLink ==
  ASSUME NEW l \in Link
  PROVE  Issued(l) \in Link
  BY DEF Issued, Link

LEMMA UsedInLink ==
  ASSUME NEW l \in Link
  PROVE  /\ Used(l) \in Link /\ Connected(l) \in Link /\ Used(Connected(l)) \in Link
         /\ [l EXCEPT !.live = FALSE] \in Link /\ [l EXCEPT !.secret = @ + 1] \in Link
  <1>1. Connected(l) \in Link
    BY DEF Connected, Link
  <1>2. \A k \in Link : Used(k) \in Link
    BY DEF Used, Link
  <1>3. [l EXCEPT !.live = FALSE] \in Link
    BY DEF Link
  <1>4. [l EXCEPT !.secret = @ + 1] \in Link
    BY DEF Link
  <1> QED
    BY <1>1, <1>2, <1>3, <1>4

LEMMA DoneKeepsType ==
  ASSUME AccessTypeOK, NEW b \in Browsers, Done(b)
  PROVE  request' \in [Browsers -> Request \cup {NoRequest}]
  BY DEF AccessTypeOK, Done

LEMMA AttachesKeepsType ==
  ASSUME AccessTypeOK, NEW b \in Browsers, NEW p \in Participants, Attaches(b, p)
  PROVE  /\ member' \in [Participants -> 0..MaxAccounts]
         /\ cookie' \in [Browsers -> 0..MaxAccounts]
         /\ role' \in [1..MaxAccounts -> Roles \cup {"none"}]
         /\ proven' \in [Browsers -> SUBSET Participants]
         /\ walk' \in [kind : Kinds, root : Job, rows : SUBSET Invited,
                       joined : SUBSET Participants] \cup {NoWalk}
  <1>1. RoleOf(p) \in Roles
    BY DEF RoleOf, Roles, Participants, Job
  <1>2. proven' \in [Browsers -> SUBSET Participants]
    BY DEF Attaches, AccessTypeOK
  <1>3. walk' \in [kind : Kinds, root : Job, rows : SUBSET Invited,
                   joined : SUBSET Participants] \cup {NoWalk}
    BY DEF Attaches, AccessTypeOK, Walking
  <1>4. CASE cookie[b] # 0
    BY <1>2, <1>3, <1>4 DEF Attaches, AccessTypeOK
  <1>5. CASE cookie[b] = 0
    <2> PICK a \in 1..MaxAccounts :
          /\ role' = [role EXCEPT ![a] = RoleOf(p)]
          /\ member' = [member EXCEPT ![p] = a]
          /\ cookie' = [cookie EXCEPT ![b] = a]
      BY <1>5 DEF Attaches
    <2>1. a \in 0..MaxAccounts
      BY AccessAssumption
    <2>2. role' \in [1..MaxAccounts -> Roles \cup {"none"}]
      BY <1>1 DEF AccessTypeOK
    <2>3. member' \in [Participants -> 0..MaxAccounts] /\ cookie' \in [Browsers -> 0..MaxAccounts]
      BY <2>1 DEF AccessTypeOK
    <2> QED
      BY <1>2, <1>3, <2>2, <2>3
  <1> QED
    BY <1>4, <1>5

LEMMA TypeInit == Init => AccessTypeOK
  <1> SUFFICES ASSUME Init PROVE AccessTypeOK
    OBVIOUS
  <1>1. NoLink \in Link
    BY DEF NoLink, Link
  <1>2. Issued(NoLink) \in Link
    BY <1>1, IssuedInLink
  <1>3. Used(Connected(Issued(NoLink))) \in Link
    BY <1>2, UsedInLink
  <1>4. link \in [Participants -> Link]
    BY <1>1, <1>2, <1>3 DEF Init
  <1>5. 0 \in 0..MaxAccounts
    BY AccessAssumption
  <1>6. /\ member \in [Participants -> 0..MaxAccounts] /\ cookie \in [Browsers -> 0..MaxAccounts]
        /\ role \in [1..MaxAccounts -> Roles \cup {"none"}]
        /\ proven \in [Browsers -> SUBSET Participants]
        /\ request \in [Browsers -> Request \cup {NoRequest}]
    BY <1>5 DEF Init
  <1>7. invitation \in [Participants -> Statuses] /\ present \subseteq Participants
    BY DEF Init, Statuses, Participants, Job
  <1> QED
    BY <1>4, <1>6, <1>7 DEF Init, AccessTypeOK

LEMMA TypeOfInviting ==
  ASSUME AccessTypeOK, Inviting
  PROVE  AccessTypeOK'
  <1> PICK b \in Browsers, p \in Invited :
        \/ CreateInvitation(b, p) \/ AcceptInvitation(b, p) \/ DeclineInvitation(b, p)
        \/ RevokeInvitation(b, p) \/ ReissueInvitation(b, p)
    BY DEF Inviting
  <1>0. p \in Participants /\ p \in Job /\ link[p] \in Link
    BY Roots DEF AccessTypeOK
  <1>1. CASE CreateInvitation(b, p)
    <2>1. link' \in [Participants -> Link]
      BY <1>0, <1>1, IssuedInLink DEF CreateInvitation, AccessTypeOK
    <2>2. request' \in [Browsers -> Request \cup {NoRequest}]
      BY <1>1, DoneKeepsType DEF CreateInvitation
    <2> QED
      BY <1>0, <1>1, <2>1, <2>2 DEF CreateInvitation, AccessTypeOK, workspace, Statuses
  <1>2. CASE AcceptInvitation(b, p)
    <2>1. link' \in [Participants -> Link]
      BY <1>0, <1>2, UsedInLink DEF AcceptInvitation, AccessTypeOK
    <2>2. request' \in [Browsers -> Request \cup {NoRequest}]
      BY <1>2, DoneKeepsType DEF AcceptInvitation
    <2> QED
      BY <1>0, <1>2, <2>1, <2>2 DEF AcceptInvitation, AccessTypeOK, workspace, Statuses
  <1>3. CASE DeclineInvitation(b, p)
    <2>1. link' \in [Participants -> Link]
      BY <1>0, <1>3 DEF DeclineInvitation, AccessTypeOK, Link
    <2>2. request' \in [Browsers -> Request \cup {NoRequest}]
      BY <1>3, DoneKeepsType DEF DeclineInvitation
    <2> QED
      BY <1>0, <1>3, <2>1, <2>2, AccessAssumption DEF DeclineInvitation, AccessTypeOK, Statuses
  <1>4. CASE RevokeInvitation(b, p) \/ ReissueInvitation(b, p)
    <2>1. \E kind \in Kinds : Begin(b, kind, p, IssuedBy(p))
      BY <1>4 DEF RevokeInvitation, ReissueInvitation, Kinds
    <2> QED
      BY <1>0, <2>1, Roots, DoneKeepsType DEF Begin, AccessTypeOK, people, workspace
  <1> QED
    BY <1>1, <1>2, <1>3, <1>4

LEMMA TypeOfCommit ==
  ASSUME AccessTypeOK, Commit
  PROVE  AccessTypeOK'
  <1>1. link' \in [Participants -> Link]
    <2> SUFFICES ASSUME NEW p \in Participants PROVE link'[p] \in Link
      BY DEF Commit
    <2>1. link[p] \in Link /\ Issued(link[p]) \in Link
      BY IssuedInLink DEF AccessTypeOK
    <2>2. [link[p] EXCEPT !.live = FALSE] \in Link
      BY <2>1 DEF Link
    <2> QED
      BY <2>1, <2>2 DEF Commit
  <1>2. invitation' \in [Participants -> Statuses]
    BY DEF Commit, AccessTypeOK, Statuses
  <1>3. member' \in [Participants -> 0..MaxAccounts]
    BY AccessAssumption DEF Commit, AccessTypeOK
  <1>4. crossed' \subseteq Participants
    BY DEF Commit, AccessTypeOK, Walking, Job, Participants
  <1> QED
    BY <1>1, <1>2, <1>3, <1>4 DEF Commit, AccessTypeOK

LEMMA TypeOfAuthenticating ==
  ASSUME AccessTypeOK, Authenticating
  PROVE  AccessTypeOK'
  <1>1. ASSUME NEW b \in Browsers, Refuse(b)
        PROVE  AccessTypeOK'
    BY <1>1 DEF Refuse, AccessTypeOK, people, workspace
  <1>2. ASSUME NEW b \in Browsers, NEW p \in Participants, Authenticate(b, p)
        PROVE  AccessTypeOK'
    <2>1. link[p] \in Link /\ link[p].connected \in Nat /\ link[p].secret \in Nat
      BY DEF AccessTypeOK, Link
    <2>2. link' \in [Participants -> Link]
      BY <1>2, <2>1, UsedInLink DEF Authenticate, AccessTypeOK
    <2>3. request' \in [Browsers -> Request \cup {NoRequest}]
      BY <1>2, <2>1 DEF Authenticate, AccessTypeOK, Request
    <2> QED
      BY <1>2, <2>2, <2>3 DEF Authenticate, AccessTypeOK, people, workspace
  <1>3. ASSUME NEW b \in Browsers, NEW p \in Participants, AuthenticateByCookie(b, p)
        PROVE  AccessTypeOK'
    <2>1. request' \in [Browsers -> Request \cup {NoRequest}]
      BY <1>3 DEF AuthenticateByCookie, AccessTypeOK, Request
    <2> QED
      BY <1>3, <2>1 DEF AuthenticateByCookie, AccessTypeOK, people, workspace
  <1> QED
    BY <1>1, <1>2, <1>3 DEF Authenticating

LEMMA TypeOfBegin ==
  ASSUME AccessTypeOK, NEW b \in Browsers, NEW kind \in Kinds, NEW p \in Job,
         Begin(b, kind, p, IssuedBy(p))
  PROVE  AccessTypeOK'
  BY Roots, DoneKeepsType DEF Begin, AccessTypeOK, people, workspace

\* A revocation starts with the invitations of its root.
LEMMA RevokeLinkBegins ==
  ASSUME NEW b, NEW p, RevokeLink(b, p)
  PROVE  \E kind \in {"link", "old"} : Begin(b, kind, p, IssuedBy(p))
  BY DEF RevokeLink

LEMMA TypeOfLinking ==
  ASSUME AccessTypeOK, Linking
  PROVE  AccessTypeOK'
  <1>1. CASE Lapse
    BY <1>1 DEF Lapse, AccessTypeOK, workspace
  <1>2. ASSUME NEW b \in Browsers, NEW p \in Job, RotateLink(b, p)
        PROVE  AccessTypeOK'
    <2>0. p \in Participants /\ link[p] \in Link
      BY Roots DEF AccessTypeOK
    <2>1. [link[p] EXCEPT !.secret = @ + 1] \in Link
      BY <2>0 DEF Link
    <2>2. link' \in [Participants -> Link]
      BY <1>2, <2>0, <2>1 DEF RotateLink, AccessTypeOK
    <2>3. request' \in [Browsers -> Request \cup {NoRequest}]
      BY <1>2, DoneKeepsType DEF RotateLink
    <2> QED
      BY <1>2, <2>2, <2>3 DEF RotateLink, AccessTypeOK, people, workspace
  <1>3. ASSUME NEW b \in Browsers, NEW p \in Job, RevokeLink(b, p)
        PROVE  AccessTypeOK'
    BY <1>3, RevokeLinkBegins, TypeOfBegin DEF Kinds
  <1> QED
    BY <1>1, <1>2, <1>3 DEF Linking

LEMMA TypeOfConnecting ==
  ASSUME AccessTypeOK, Connecting
  PROVE  AccessTypeOK'
  <1>1. ASSUME NEW b \in Browsers, EndSession(b)
        PROVE  AccessTypeOK'
    <2>1. cookie' \in [Browsers -> 0..MaxAccounts] /\ proven' \in [Browsers -> SUBSET Participants]
      BY <1>1, AccessAssumption DEF EndSession, AccessTypeOK
    <2> QED
      BY <1>1, <2>1 DEF EndSession, AccessTypeOK, people
  <1>2. ASSUME NEW b \in Browsers, NEW p \in Participants, CreateSession(b, p)
        PROVE  AccessTypeOK'
    <2>1. Attaches(b, p) /\ Done(b) /\ UNCHANGED <<link, people>>
      BY <1>2 DEF CreateSession
    <2>2. request' \in [Browsers -> Request \cup {NoRequest}]
      BY <2>1, DoneKeepsType
    <2> QED
      BY <2>1, <2>2, AttachesKeepsType DEF AccessTypeOK, people
  <1>3. ASSUME NEW b \in Browsers, NEW p \in Job, ReadMoveCode(b, p)
        PROVE  AccessTypeOK'
    <2>1. request' \in [Browsers -> Request \cup {NoRequest}]
      BY <1>3, Roots DEF ReadMoveCode, AccessTypeOK, Request
    <2> QED
      BY <1>3, <2>1 DEF ReadMoveCode, AccessTypeOK, people, workspace
  <1>4. ASSUME NEW b \in Browsers, NEW p \in Job, ConnectByCode(b, p)
        PROVE  AccessTypeOK'
    <2>0. p \in Participants
      BY Roots
    <2>1. Attaches(b, p) /\ Done(b) /\ UNCHANGED <<canceled, lapsed, link, crossed>>
      BY <1>4 DEF ConnectByCode
    <2>2. request' \in [Browsers -> Request \cup {NoRequest}]
      BY <2>1, DoneKeepsType
    <2>3. invitation' \in [Participants -> Statuses] /\ present' \subseteq Participants
      BY <1>4, <2>0 DEF ConnectByCode, AccessTypeOK, Statuses
    <2> QED
      BY <2>0, <2>1, <2>2, <2>3, AttachesKeepsType DEF AccessTypeOK
  <1> QED
    BY <1>1, <1>2, <1>3, <1>4 DEF Connecting

LEMMA TypeStep == AccessTypeOK /\ [Next]_vars => AccessTypeOK'
  <1> SUFFICES ASSUME AccessTypeOK, [Next]_vars PROVE AccessTypeOK'
    OBVIOUS
  <1>1. ASSUME NEW b \in Browsers, CancelMoveJob(b) PROVE AccessTypeOK'
    BY <1>1, TypeOfBegin, Roots DEF CancelMoveJob, Kinds
  <1>2. CASE UNCHANGED vars
    BY <1>2 DEF vars, people, workspace, AccessTypeOK
  <1> QED
    BY <1>1, <1>2, TypeOfAuthenticating, TypeOfInviting, TypeOfLinking, TypeOfConnecting,
       TypeOfCommit DEF Next

\* Every variable of Access keeps its shape.
THEOREM AccessTypeCorrect == Spec => []AccessTypeOK
  BY TypeInit, TypeStep, PTL DEF Spec

-----------------------------------------------------------------------------
(* Sessions *)

\* Accounts are created before they are used, and a cookie is handed to one browser:
\* whoever attaches a participant attaches it to an account nobody else is signed in to.
AccountsExist ==
  /\ \A b \in Browsers : cookie[b] # 0 => role[cookie[b]] # "none"
  /\ \A p \in Participants : member[p] # 0 => role[member[p]] # "none"
OneHolder == \A b, c \in Browsers : cookie[b] # 0 /\ cookie[b] = cookie[c] => b = c
Proven    == \A b \in Browsers, p \in Participants :
               cookie[b] # 0 /\ member[p] = cookie[b] => p \in proven[b]
SessionInv == AccountsExist /\ OneHolder /\ Proven

\* Every other step leaves the accounts and only takes memberships or sessions away.
LEMMA SessionShrinks ==
  ASSUME AccessTypeOK, SessionInv, UNCHANGED role,
         \A p \in Participants : member'[p] \in {0, member[p]},
         \A b \in Browsers : \/ cookie'[b] = 0
                             \/ cookie'[b] = cookie[b] /\ proven'[b] = proven[b]
  PROVE  SessionInv'
  BY DEF SessionInv, AccountsExist, OneHolder, Proven

LEMMA SessionAttached ==
  ASSUME AccessTypeOK, SessionInv, NEW b \in Browsers, NEW p \in Participants, Attaches(b, p)
  PROVE  SessionInv'
  <1>0. /\ proven' = [proven EXCEPT ![b] = @ \cup {p}]
        /\ \A c \in Browsers : proven[c] \subseteq proven'[c]
        /\ p \in proven'[b]
    BY DEF Attaches, AccessTypeOK
  <1>1. CASE cookie[b] # 0
    <2>1. /\ role' = role /\ cookie' = cookie
          /\ \A q \in Participants : member'[q] = IF q = p THEN cookie[b] ELSE member[q]
      BY <1>1 DEF Attaches, AccessTypeOK
    <2>2. Proven'
      <3> SUFFICES ASSUME NEW c \in Browsers, NEW q \in Participants,
                          cookie[c] # 0, member'[q] = cookie[c]
                   PROVE  q \in proven'[c]
        BY <2>1 DEF Proven
      <3>1. CASE q = p
        BY <1>0, <1>1, <2>1, <3>1 DEF SessionInv, OneHolder
      <3>2. CASE q # p
        BY <1>0, <2>1, <3>2 DEF SessionInv, Proven
      <3> QED
        BY <3>1, <3>2
    <2> QED
      BY <1>1, <2>1, <2>2 DEF SessionInv, AccountsExist, OneHolder
  <1>2. CASE cookie[b] = 0
    <2> PICK a \in 1..MaxAccounts :
          /\ role[a] = "none"
          /\ role' = [role EXCEPT ![a] = RoleOf(p)]
          /\ member' = [member EXCEPT ![p] = a]
          /\ cookie' = [cookie EXCEPT ![b] = a]
      BY <1>2 DEF Attaches
    <2>0. a # 0 /\ RoleOf(p) # "none"
      BY AccessAssumption DEF RoleOf, Participants, Job
    <2>1. /\ \A q \in Participants : member'[q] = IF q = p THEN a ELSE member[q]
          /\ \A c \in Browsers : cookie'[c] = IF c = b THEN a ELSE cookie[c]
          /\ \A d \in 1..MaxAccounts : role'[d] = IF d = a THEN RoleOf(p) ELSE role[d]
      BY DEF AccessTypeOK
    <2>2. /\ \A c \in Browsers : cookie[c] # a /\ cookie[c] \in 0..MaxAccounts
          /\ \A q \in Participants : member[q] # a /\ member[q] \in 0..MaxAccounts
      BY <2>0 DEF SessionInv, AccountsExist, AccessTypeOK
    <2>3. AccountsExist'
      <3>1. \A d \in 1..MaxAccounts : role[d] # "none" => role'[d] # "none"
        BY <2>0, <2>1
      <3>2. \A d \in 0..MaxAccounts : d = 0 \/ d \in 1..MaxAccounts
        BY AccessAssumption
      <3>3. ASSUME NEW c \in Browsers, cookie'[c] # 0 PROVE role'[cookie'[c]] # "none"
        BY <2>0, <2>1, <2>2, <3>1, <3>2, <3>3 DEF SessionInv, AccountsExist
      <3>4. ASSUME NEW q \in Participants, member'[q] # 0 PROVE role'[member'[q]] # "none"
        BY <2>0, <2>1, <2>2, <3>1, <3>2, <3>4 DEF SessionInv, AccountsExist
      <3> QED
        BY <3>3, <3>4 DEF AccountsExist
    <2>4. OneHolder'
      BY <2>1, <2>2 DEF SessionInv, OneHolder
    <2>5. Proven'
      BY <1>0, <2>1, <2>2 DEF SessionInv, Proven
    <2> QED
      BY <2>3, <2>4, <2>5 DEF SessionInv
  <1> QED
    BY <1>1, <1>2

LEMMA SessionStep == AccessTypeOK /\ SessionInv /\ [Next]_vars => SessionInv'
  <1> SUFFICES ASSUME AccessTypeOK, SessionInv, [Next]_vars PROVE SessionInv'
    OBVIOUS
  <1>0. ASSUME UNCHANGED workspace PROVE SessionInv'
    BY <1>0, SessionShrinks DEF workspace
  <1>1. CASE Authenticating
    BY <1>0, <1>1 DEF Authenticating, Refuse, Authenticate, AuthenticateByCookie
  <1>2. CASE Inviting
    <2>1. ASSUME NEW b \in Browsers, NEW p \in Invited, DeclineInvitation(b, p)
          PROVE  SessionInv'
      <3>1. /\ UNCHANGED <<role, cookie, proven>>
            /\ \A q \in Participants : member'[q] \in {0, member[q]}
        BY <2>1 DEF DeclineInvitation, AccessTypeOK
      <3> QED
        BY <3>1, SessionShrinks
    <2> QED
      BY <1>0, <1>2, <2>1 DEF Inviting, CreateInvitation, AcceptInvitation, RevokeInvitation,
                              ReissueInvitation, Begin
  <1>3. CASE Linking
    BY <1>0, <1>3 DEF Linking, Lapse, RotateLink, RevokeLink, Begin
  <1>4. CASE Connecting
    <2>1. ASSUME NEW b \in Browsers, EndSession(b) PROVE SessionInv'
      <3>1. /\ UNCHANGED <<role, member>>
            /\ \A c \in Browsers : \/ cookie'[c] = 0
                                   \/ cookie'[c] = cookie[c] /\ proven'[c] = proven[c]
        BY <2>1 DEF EndSession, AccessTypeOK
      <3> QED
        BY <3>1, SessionShrinks
    <2>2. ASSUME NEW b \in Browsers, NEW p \in Participants,
                 CreateSession(b, p) \/ ConnectByCode(b, p)
          PROVE  SessionInv'
      BY <2>2, SessionAttached DEF CreateSession, ConnectByCode
    <2> QED
      BY <1>0, <1>4, <2>1, <2>2, Roots DEF Connecting, ReadMoveCode
  <1>5. CASE Commit
    <2>1. /\ UNCHANGED <<role, cookie, proven>>
          /\ \A q \in Participants : member'[q] \in {0, member[q]}
      BY <1>5 DEF Commit
    <2> QED
      BY <2>1, SessionShrinks
  <1>6. ASSUME NEW b \in Browsers, CancelMoveJob(b) PROVE SessionInv'
    BY <1>0, <1>6 DEF CancelMoveJob, Begin
  <1>7. CASE UNCHANGED vars
    BY <1>0, <1>7 DEF vars
  <1> QED
    BY <1>1, <1>2, <1>3, <1>4, <1>5, <1>6, <1>7 DEF Next

\* A session acts for nobody whose capability its browser did not present.
THEOREM SessionsStayProven == Spec => []SessionProven
  <1>1. Init => SessionInv
    BY DEF Init, SessionInv, AccountsExist, OneHolder, Proven
  <1>2. SessionInv => SessionProven
    BY DEF SessionInv, Proven, SessionProven
  <1> QED
    BY <1>1, <1>2, SessionStep, AccessTypeCorrect, PTL DEF Spec

-----------------------------------------------------------------------------
(* Connections *)

\* A link connects when it is first used, so an unused one has not; an invitation that
\* was answered with the current secret was let in with it, so the link is used by then.
Unconnected ==
  \A p \in Participants : /\ link[p].connected <= 1
                          /\ ~link[p].used => link[p].connected = 0
                          /\ invitation[p] = "pending" => link[p].connected = 0
SecretsUsed ==
  \A b \in Browsers, p \in Participants : request[b].by = p =>
    /\ request[b].secret <= link[p].secret
    /\ request[b].secret # 0 /\ request[b].secret = link[p].secret => link[p].used
ConnectInv == Unconnected /\ SecretsUsed

\* A request that is new or gone, on links that only change their secret or end, keeps
\* what the links say.
LEMMA LinkFields ==
  ASSUME AccessTypeOK, NEW p \in Participants
  PROVE  /\ link[p].row \in Nat /\ link[p].secret \in Nat /\ link[p].connected \in Nat
         /\ link[p].live \in BOOLEAN /\ link[p].used \in BOOLEAN
  BY DEF AccessTypeOK, Link

LEMMA RequestFields ==
  ASSUME AccessTypeOK, NEW b \in Browsers
  PROVE  request[b].secret \in Nat
  BY DEF AccessTypeOK, Request, NoRequest

LEMMA DoneFields ==
  ASSUME AccessTypeOK, NEW b \in Browsers, Done(b)
  PROVE  \A c \in Browsers : \/ request'[c] = request[c]
                             \/ request'[c].secret = 0
  BY DEF AccessTypeOK, Done, NoRequest

\* The secrets of a link only grow, and a new secret starts unconnected unless it is a
\* rotation of the old.
LEMMA ConnectKept ==
  ASSUME AccessTypeOK, ConnectInv,
         \A b \in Browsers : request'[b] = request[b] \/ request'[b].secret = 0,
         \A p \in Participants :
           /\ link'[p].secret \in Nat /\ link'[p].connected \in Nat
           /\ \/ /\ link'[p].secret = link[p].secret
                 /\ link[p].used => link'[p].used
                 /\ link'[p].connected = link[p].connected
                 /\ link'[p].used => link[p].used
              \/ /\ link'[p].secret > link[p].secret
                 /\ link'[p].connected = 0 \/ /\ link'[p].connected = link[p].connected
                                              /\ link'[p].used = link[p].used
           /\ invitation'[p] = "pending" => invitation[p] = "pending" \/ link'[p].connected = 0
  PROVE  ConnectInv'
  <1>1. Unconnected'
    <2> SUFFICES ASSUME NEW p \in Participants
                 PROVE  /\ link'[p].connected <= 1
                        /\ ~link'[p].used => link'[p].connected = 0
                        /\ invitation'[p] = "pending" => link'[p].connected = 0
      BY DEF Unconnected
    <2> QED
      BY LinkFields DEF ConnectInv, Unconnected
  <1>2. SecretsUsed'
    <2> SUFFICES ASSUME NEW b \in Browsers, NEW p \in Participants, request'[b].by = p
                 PROVE  /\ request'[b].secret <= link'[p].secret
                        /\ request'[b].secret # 0 /\ request'[b].secret = link'[p].secret =>
                             link'[p].used
      BY DEF SecretsUsed
    <2>1. CASE request'[b].secret = 0
      BY <2>1
    <2>2. CASE request'[b] = request[b]
      BY <2>2, LinkFields, RequestFields DEF ConnectInv, SecretsUsed
    <2> QED
      BY <2>1, <2>2
  <1> QED
    BY <1>1, <1>2 DEF ConnectInv

\* A step that leaves the links alone and answers no invitation with "pending".
LEMMA ConnectIdle ==
  ASSUME AccessTypeOK, ConnectInv, UNCHANGED link,
         \A b \in Browsers : request'[b] = request[b] \/ request'[b].secret = 0,
         \A p \in Participants : invitation'[p] = "pending" => invitation[p] = "pending"
  PROVE  ConnectInv'
  BY ConnectKept, LinkFields

LEMMA IssuedFields ==
  ASSUME NEW l \in Link
  PROVE  /\ Issued(l).secret = l.secret + 1 /\ Issued(l).connected = 0
         /\ Issued(l).live = TRUE /\ Issued(l).used = FALSE
  BY DEF Issued

LEMMA UsedFields ==
  ASSUME NEW l \in Link
  PROVE  /\ Used(l).used = TRUE /\ Used(l).secret = l.secret /\ Used(l).connected = l.connected
         /\ Used(l).live = l.live
         /\ Connected(l).used = l.used /\ Connected(l).secret = l.secret
         /\ Connected(l).connected = l.connected + 1 /\ Connected(l).live = l.live
  BY DEF Used, Connected, Link

LEMMA ChangedFields ==
  ASSUME NEW l \in Link
  PROVE  /\ [l EXCEPT !.live = FALSE].live = FALSE /\ [l EXCEPT !.live = FALSE].used = l.used
         /\ [l EXCEPT !.live = FALSE].secret = l.secret
         /\ [l EXCEPT !.live = FALSE].connected = l.connected
         /\ [l EXCEPT !.secret = @ + 1].live = l.live /\ [l EXCEPT !.secret = @ + 1].used = l.used
         /\ [l EXCEPT !.secret = @ + 1].secret = l.secret + 1
         /\ [l EXCEPT !.secret = @ + 1].connected = l.connected
  BY DEF Link

LEMMA AuthenticateConnects ==
  ASSUME AccessTypeOK, ConnectInv, NEW b \in Browsers, NEW p \in Participants, Authenticate(b, p)
  PROVE  ConnectInv'
  <1>1. link[p] \in Link /\ Connected(link[p]) \in Link
    BY UsedInLink DEF AccessTypeOK
  <1>2. /\ link'[p].used = TRUE /\ link'[p].secret = link[p].secret
        /\ \/ link'[p].connected = link[p].connected
           \/ link'[p].connected = link[p].connected + 1 /\ Joined(p) /\ ~link[p].used
    <2>1. CASE Joined(p) /\ ~link[p].used
      <3>1. link'[p] = Used(Connected(link[p]))
        BY <2>1 DEF Authenticate, AccessTypeOK
      <3> QED
        BY <1>1, <2>1, <3>1, UsedFields
    <2>2. CASE ~(Joined(p) /\ ~link[p].used)
      <3>1. link'[p] = Used(link[p])
        BY <2>2 DEF Authenticate, AccessTypeOK
      <3> QED
        BY <1>1, <3>1, UsedFields
    <2> QED
      BY <2>1, <2>2
  <1>3. /\ \A q \in Participants : q # p => link'[q] = link[q]
        /\ invitation' = invitation
        /\ request'[b].by = p /\ request'[b].secret = link[p].secret
        /\ \A c \in Browsers : c # b => request'[c] = request[c]
    BY DEF Authenticate, AccessTypeOK, people
  <1>4. Unconnected'
    <2> SUFFICES ASSUME NEW q \in Participants
                 PROVE  /\ link'[q].connected <= 1
                        /\ ~link'[q].used => link'[q].connected = 0
                        /\ invitation'[q] = "pending" => link'[q].connected = 0
      BY DEF Unconnected
    <2>1. CASE q = p
      BY <1>2, <1>3, <2>1, LinkFields DEF ConnectInv, Unconnected, Joined
    <2>2. CASE q # p
      BY <1>3, <2>2 DEF ConnectInv, Unconnected
    <2> QED
      BY <2>1, <2>2
  <1>5. SecretsUsed'
    <2> SUFFICES ASSUME NEW c \in Browsers, NEW q \in Participants, request'[c].by = q
                 PROVE  /\ request'[c].secret <= link'[q].secret
                        /\ request'[c].secret # 0 /\ request'[c].secret = link'[q].secret =>
                             link'[q].used
      BY DEF SecretsUsed
    <2>1. CASE q = p
      <3>1. c = b \/ request'[c] = request[c]
        BY <1>3
      <3>2. request[c].secret \in Nat /\ link[p].secret \in Nat
        BY LinkFields, RequestFields
      <3>3. request'[c].secret <= link[p].secret
        BY <1>3, <2>1, <3>1, <3>2 DEF ConnectInv, SecretsUsed
      <3> QED
        BY <1>2, <2>1, <3>3
    <2>2. CASE q # p
      BY <1>3, <2>2 DEF ConnectInv, SecretsUsed
    <2> QED
      BY <2>1, <2>2
  <1> QED
    BY <1>4, <1>5 DEF ConnectInv

LEMMA AcceptConnects ==
  ASSUME AccessTypeOK, ConnectInv, NEW b \in Browsers, NEW p \in Participants,
         AcceptInvitation(b, p)
  PROVE  ConnectInv'
  <1>1. link[p] \in Link
    BY DEF AccessTypeOK
  <1>2. /\ link'[p].used = link[p].used /\ link'[p].secret = link[p].secret
        /\ link'[p].connected = link[p].connected + 1
    <2>1. link'[p] = Connected(link[p])
      BY DEF AcceptInvitation, AccessTypeOK
    <2> QED
      BY <1>1, <2>1, UsedFields
  <1>3. \A q \in Participants : q # p => link'[q] = link[q] /\ invitation'[q] = invitation[q]
    BY DEF AcceptInvitation, AccessTypeOK
  <1>4. invitation'[p] = "accepted" /\ link[p].connected = 0 /\ link[p].used
    BY DEF AcceptInvitation, Answers, AccessTypeOK, ConnectInv, Unconnected, SecretsUsed
  <1>5. \A c \in Browsers : request'[c] = request[c] \/ request'[c].secret = 0
    BY DoneFields DEF AcceptInvitation
  <1>6. Unconnected'
    <2> SUFFICES ASSUME NEW q \in Participants
                 PROVE  /\ link'[q].connected <= 1
                        /\ ~link'[q].used => link'[q].connected = 0
                        /\ invitation'[q] = "pending" => link'[q].connected = 0
      BY DEF Unconnected
    <2>1. CASE q = p
      <3>1. link'[q].connected = 1
        BY <1>2, <1>4, <2>1
      <3>2. link'[q].used /\ invitation'[q] # "pending"
        BY <1>2, <1>4, <2>1
      <3> QED
        BY <3>1, <3>2
    <2>2. CASE q # p
      BY <1>3, <2>2 DEF ConnectInv, Unconnected
    <2> QED
      BY <2>1, <2>2
  <1>7. SecretsUsed'
    <2> SUFFICES ASSUME NEW c \in Browsers, NEW q \in Participants, request'[c].by = q
                 PROVE  /\ request'[c].secret <= link'[q].secret
                        /\ request'[c].secret # 0 /\ request'[c].secret = link'[q].secret =>
                             link'[q].used
      BY DEF SecretsUsed
    <2>0. link'[q].secret = link[q].secret /\ link'[q].used = link[q].used
      BY <1>2, <1>3
    <2>1. CASE request'[c].secret = 0
      BY <2>0, <2>1, LinkFields
    <2>2. CASE request'[c] = request[c]
      BY <2>0, <2>2 DEF ConnectInv, SecretsUsed
    <2> QED
      BY <1>5, <2>1, <2>2
  <1> QED
    BY <1>6, <1>7 DEF ConnectInv

\* A revocation has begun: nothing but the request and the walk.
LEMMA BeginStands ==
  ASSUME NEW b, NEW kind, NEW p, NEW rows, Begin(b, kind, p, rows)
  PROVE  Done(b) /\ UNCHANGED <<link, people, workspace>>
  BY DEF Begin

LEMMA CommitLinks ==
  ASSUME AccessTypeOK, Commit, NEW p \in Participants
  PROVE  \/ link'[p] = link[p]
         \/ link'[p] = [link[p] EXCEPT !.live = FALSE]
         \/ link'[p] = Issued(link[p]) /\ Reissued(p)
  BY DEF Commit

LEMMA ConnectCommits ==
  ASSUME AccessTypeOK, ConnectInv, Commit
  PROVE  ConnectInv'
  <1>1. request' = request
    BY DEF Commit
  <1>2. ASSUME NEW p \in Participants
        PROVE  /\ link'[p].secret \in Nat /\ link'[p].connected \in Nat
               /\ \/ /\ link'[p].secret = link[p].secret
                     /\ link[p].used => link'[p].used
                     /\ link'[p].connected = link[p].connected
                     /\ link'[p].used => link[p].used
                  \/ /\ link'[p].secret > link[p].secret
                     /\ link'[p].connected = 0 \/ /\ link'[p].connected = link[p].connected
                                                  /\ link'[p].used = link[p].used
               /\ invitation'[p] = "pending" => invitation[p] = "pending" \/ link'[p].connected = 0
    <2>0. link[p] \in Link /\ link[p].secret \in Nat /\ link[p].connected \in Nat
      BY LinkFields DEF AccessTypeOK
    <2>1. CASE link'[p] = link[p] \/ link'[p] = [link[p] EXCEPT !.live = FALSE]
      <3>1. /\ link'[p].secret = link[p].secret /\ link'[p].connected = link[p].connected
            /\ link'[p].used = link[p].used
        BY <2>0, <2>1, ChangedFields
      <3>2. invitation'[p] = "pending" => invitation[p] = "pending" \/ Reissued(p)
        BY DEF Commit
      <3>3. Reissued(p) => link'[p] = Issued(link[p])
        BY DEF Commit
      <3>4. link'[p] = Issued(link[p]) => link'[p].connected = 0
        BY <2>0, IssuedFields
      <3> QED
        BY <2>0, <3>1, <3>2, <3>3, <3>4
    <2>2. CASE link'[p] = Issued(link[p])
      <3>1. link'[p].secret = link[p].secret + 1 /\ link'[p].connected = 0
        BY <2>0, <2>2, IssuedFields
      <3> QED
        BY <2>0, <3>1
    <2> QED
      BY <2>1, <2>2, CommitLinks
  <1> QED
    BY <1>1, <1>2, ConnectKept

LEMMA ConnectStep == AccessTypeOK /\ ConnectInv /\ [Next]_vars => ConnectInv'
  <1> SUFFICES ASSUME AccessTypeOK, ConnectInv, [Next]_vars PROVE ConnectInv'
    OBVIOUS
  <1>0. ASSUME UNCHANGED <<link, invitation, request>> PROVE ConnectInv'
    BY <1>0, ConnectIdle
  <1>1. ASSUME NEW b \in Browsers, Done(b), UNCHANGED <<link, invitation>> PROVE ConnectInv'
    BY <1>1, ConnectIdle, DoneFields
  <1>2. ASSUME NEW b \in Browsers, NEW kind, NEW p, NEW rows, Begin(b, kind, p, rows)
        PROVE  ConnectInv'
    BY <1>1, <1>2, BeginStands DEF people
  <1>3. CASE Authenticating
    <2>1. ASSUME NEW b \in Browsers, Refuse(b) PROVE ConnectInv'
      BY <1>1, <2>1 DEF Refuse, Done, people
    <2>2. ASSUME NEW b \in Browsers, NEW p \in Participants, AuthenticateByCookie(b, p)
          PROVE  ConnectInv'
      <3>1. \A c \in Browsers : request'[c] = request[c] \/ request'[c].secret = 0
        BY <2>2 DEF AuthenticateByCookie, AccessTypeOK
      <3> QED
        BY <2>2, <3>1, ConnectIdle DEF AuthenticateByCookie, people
    <2> QED
      BY <1>3, <2>1, <2>2, AuthenticateConnects DEF Authenticating
  <1>4. CASE Inviting
    <2>1. ASSUME NEW b \in Browsers, NEW p \in Invited, CreateInvitation(b, p)
          PROVE  ConnectInv'
      <3>0. p \in Participants /\ link[p] \in Link
        BY Roots DEF AccessTypeOK
      <3>1. link'[p] = Issued(link[p]) /\ \A q \in Participants : q # p =>
              link'[q] = link[q] /\ invitation'[q] = invitation[q]
        BY <2>1, <3>0 DEF CreateInvitation, AccessTypeOK
      <3>2. link'[p].secret = link[p].secret + 1 /\ link'[p].connected = 0
        BY <3>0, <3>1, IssuedFields
      <3>3. \A c \in Browsers : request'[c] = request[c] \/ request'[c].secret = 0
        BY <2>1, DoneFields DEF CreateInvitation
      <3> QED
        BY <3>1, <3>2, <3>3, LinkFields, ConnectKept
    <2>2. ASSUME NEW b \in Browsers, NEW p \in Invited, DeclineInvitation(b, p)
          PROVE  ConnectInv'
      <3>0. p \in Participants /\ link[p] \in Link
        BY Roots DEF AccessTypeOK
      <3>1. /\ link'[p] = [link[p] EXCEPT !.live = FALSE] /\ invitation'[p] = "declined"
            /\ \A q \in Participants : q # p => link'[q] = link[q] /\ invitation'[q] = invitation[q]
        BY <2>2, <3>0 DEF DeclineInvitation, AccessTypeOK
      <3>2. /\ link'[p].secret = link[p].secret /\ link'[p].connected = link[p].connected
            /\ link'[p].used = link[p].used
        BY <3>0, <3>1, ChangedFields
      <3>3. \A c \in Browsers : request'[c] = request[c] \/ request'[c].secret = 0
        BY <2>2, DoneFields DEF DeclineInvitation
      <3> QED
        BY <3>1, <3>2, <3>3, LinkFields, ConnectKept
    <2>3. ASSUME NEW b \in Browsers, NEW p \in Invited, AcceptInvitation(b, p)
          PROVE  ConnectInv'
      BY <2>3, AcceptConnects, Roots
    <2> QED
      BY <1>2, <1>4, <2>1, <2>2, <2>3 DEF Inviting, RevokeInvitation, ReissueInvitation
  <1>5. CASE Linking
    <2>1. ASSUME NEW b \in Browsers, NEW p \in Job, RotateLink(b, p)
          PROVE  ConnectInv'
      <3>0. p \in Participants /\ link[p] \in Link
        BY Roots DEF AccessTypeOK
      <3>1. /\ link'[p] = [link[p] EXCEPT !.secret = @ + 1] /\ invitation' = invitation
            /\ \A q \in Participants : q # p => link'[q] = link[q]
        BY <2>1, <3>0 DEF RotateLink, AccessTypeOK, people
      <3>2. /\ link'[p].secret = link[p].secret + 1 /\ link'[p].connected = link[p].connected
            /\ link'[p].used = link[p].used
        BY <3>0, <3>1, ChangedFields
      <3>3. \A c \in Browsers : request'[c] = request[c] \/ request'[c].secret = 0
        BY <2>1, DoneFields DEF RotateLink
      <3>4. \A q \in Participants : link'[q].secret \in Nat /\ link'[q].connected \in Nat
        <4>1. link'[p].secret \in Nat /\ link'[p].connected \in Nat
          BY <3>0, <3>2, LinkFields
        <4> QED
          BY <3>1, <4>1, LinkFields
      <3>5. link'[p].secret > link[p].secret
        BY <3>0, <3>2, LinkFields
      <3> QED
        BY <3>1, <3>2, <3>3, <3>4, <3>5, ConnectKept
    <2> QED
      BY <1>0, <1>2, <1>5, <2>1, RevokeLinkBegins DEF Linking, Lapse
  <1>6. CASE Connecting
    <2>1. ASSUME NEW b \in Browsers, NEW p \in Participants, CreateSession(b, p)
          PROVE  ConnectInv'
      BY <1>1, <2>1 DEF CreateSession, people
    <2>2. ASSUME NEW b \in Browsers, NEW p \in Job, ReadMoveCode(b, p)
          PROVE  ConnectInv'
      <3>1. \A c \in Browsers : request'[c] = request[c] \/ request'[c].secret = 0
        BY <2>2 DEF ReadMoveCode, AccessTypeOK
      <3> QED
        BY <2>2, <3>1, ConnectIdle DEF ReadMoveCode, people
    <2>3. ASSUME NEW b \in Browsers, NEW p \in Job, ConnectByCode(b, p)
          PROVE  ConnectInv'
      <3>1. \A q \in Participants : invitation'[q] = "pending" => invitation[q] = "pending"
        BY <2>3 DEF ConnectByCode, AccessTypeOK
      <3>2. \A c \in Browsers : request'[c] = request[c] \/ request'[c].secret = 0
        BY <2>3, DoneFields DEF ConnectByCode
      <3> QED
        BY <2>3, <3>1, <3>2, ConnectIdle DEF ConnectByCode
    <2> QED
      BY <1>0, <1>6, <2>1, <2>2, <2>3 DEF Connecting, EndSession, people
  <1>7. CASE Commit
    BY <1>7, ConnectCommits
  <1>8. ASSUME NEW b \in Browsers, CancelMoveJob(b) PROVE ConnectInv'
    BY <1>2, <1>8 DEF CancelMoveJob
  <1>9. CASE UNCHANGED vars
    BY <1>0, <1>9 DEF vars, people
  <1> QED
    BY <1>3, <1>4, <1>5, <1>6, <1>7, <1>8, <1>9 DEF Next

\* A link connects its participant at most once, however the acceptance, the first use,
\* a rotation and a reissue race.
THEOREM LinksConnectOnce == Spec => []ConnectedOnce
  <1>1. Init => ConnectInv
    <2> SUFFICES ASSUME Init PROVE ConnectInv
      OBVIOUS
    <2>1. NoLink \in Link /\ Issued(NoLink) \in Link /\ Connected(Issued(NoLink)) \in Link
      BY IssuedInLink, UsedInLink DEF NoLink, Link
    <2>2. NoLink.connected = 0 /\ NoLink.used = FALSE /\ NoLink.secret = 0
      BY DEF NoLink
    <2>3. Issued(NoLink).connected = 0 /\ Issued(NoLink).used = FALSE /\ Issued(NoLink).secret = 1
      BY <2>2 DEF Issued
    <2>4. /\ Used(Connected(Issued(NoLink))).connected = 1
          /\ Used(Connected(Issued(NoLink))).used = TRUE
          /\ Used(Connected(Issued(NoLink))).secret = 1
      <3> DEFINE l == Issued(NoLink)
      <3>1. l \in Link /\ Connected(l) \in Link
        BY <2>1
      <3>2. Connected(l).connected = 1 /\ Connected(l).secret = 1
        <4>1. /\ Connected(l).connected = l.connected + 1
              /\ Connected(l).secret = l.secret
          BY <3>1, UsedFields
        <4> QED
          BY <2>3, <4>1
      <3> QED
        BY <3>1, <3>2, UsedFields
    <2>5. \A p \in Participants :
            /\ link[p] \in {NoLink, Issued(NoLink), Used(Connected(Issued(NoLink)))}
            /\ invitation[p] = "none"
      BY DEF Init
    <2>6. \A b \in Browsers : request[b].secret = 0
      BY DEF Init, NoRequest
    <2> QED
      BY <2>2, <2>3, <2>4, <2>5, <2>6 DEF ConnectInv, Unconnected, SecretsUsed
  <1>2. ConnectInv => ConnectedOnce
    BY DEF ConnectInv, Unconnected, ConnectedOnce
  <1> QED
    BY <1>1, <1>2, ConnectStep, AccessTypeCorrect, PTL DEF Spec

-----------------------------------------------------------------------------
(* Delegations *)

\* What DelegationStands needs: links of invitees come with invitations, so that a
\* revocation finds them, and nobody is invited to a canceled job.
LiveInvited   == \A p \in Invited : /\ link[p].live => invitation[p] # "none"
                                    /\ invitation[p] # "none" => p \in present
PendingLive   == \A p \in Invited : invitation[p] = "pending" => link[p].live
CanceledDead  == canceled => \A p \in Job : ~link[p].live
IssuerStands  == \A p \in Invited : link[p].live /\ p \notin crossed => Standing(Issuer(p))
\* A revocation in progress has all that is delegated by those it ends, but for what
\* crosses it; and a cancellation has every invitation.
WalkCovers ==
  Walking =>
    /\ walk.root \in Job /\ walk.rows \subseteq Invited
    /\ walk.kind # "cancel" => \A p \in Invited :
         /\ link[p].live /\ p \notin crossed
         /\ Issuer(p) \in walk.rows \/ (Issuer(p) = walk.root /\ walk.kind # "old")
         => p \in walk.rows
    /\ walk.kind = "cancel" => \A p \in Invited : invitation[p] # "none" => p \in walk.rows
    /\ walk.kind = "reissue" => ~canceled /\ walk.root \in Invited
                                  /\ Issuer(walk.root) \notin walk.rows
                                  /\ invitation[walk.root] # "none"
DelInv == LiveInvited /\ PendingLive /\ CanceledDead /\ IssuerStands /\ WalkCovers

LEMMA InvitedInLink ==
  /\ \A p \in Invited : p \in Participants /\ Issuer(p) \in Participants /\ p # "customer"
                        /\ Issuer(p) # p
  /\ "customer" \in Participants
  BY DEF Invited, Participants, Job, Issuer

\* A step that keeps who is invited and whose links live.
LEMMA DelegationIdle ==
  ASSUME AccessTypeOK, DelInv, UNCHANGED <<canceled, crossed>>, present \subseteq present',
         \A p \in Participants : link'[p].live = link[p].live,
         \A p \in Participants :
            \/ invitation'[p] = invitation[p]
            \/ invitation[p] # "none" /\ invitation'[p] = "accepted",
         Walking => Walking' /\ walk'.kind = walk.kind /\ walk'.root = walk.root
                             /\ walk'.rows = walk.rows,
         Walking' => Walking
  PROVE  DelInv'
  <1>1. LiveInvited' /\ PendingLive' /\ CanceledDead'
    BY InvitedInLink, Roots DEF DelInv, LiveInvited, PendingLive, CanceledDead
  <1>2. \A p \in Participants : Standing(p) => Standing(p)'
    BY DEF Standing, Joined
  <1>3. IssuerStands'
    BY <1>2, InvitedInLink DEF DelInv, IssuerStands
  <1>4. WalkCovers'
    BY InvitedInLink DEF DelInv, WalkCovers
  <1> QED
    BY <1>1, <1>3, <1>4 DEF DelInv

LEMMA DelegationBegins ==
  ASSUME AccessTypeOK, DelInv, NEW b \in Browsers, NEW kind \in Kinds, NEW p \in Job,
         Begin(b, kind, p, IssuedBy(p)),
         kind = "reissue" => ~canceled /\ p \in Invited /\ invitation[p] # "none",
         kind = "cancel" => p = "customer"
  PROVE  DelInv'
  <1>1. UNCHANGED <<link, canceled, crossed, invitation, present>>
    BY DEF Begin, people
  <1>2. LiveInvited' /\ PendingLive' /\ CanceledDead' /\ IssuerStands'
    BY <1>1 DEF DelInv, LiveInvited, PendingLive, CanceledDead, IssuerStands, Standing, Joined
  <1>3. walk'.kind = kind /\ walk'.root = p /\ walk'.rows = IssuedBy(p)
    BY DEF Begin
  <1>4. \A q \in Invited : link[q].live /\ (Issuer(q) \in IssuedBy(p) \/ Issuer(q) = p) =>
          q \in IssuedBy(p)
    BY Roots DEF DelInv, LiveInvited, IssuedBy, Issuer
  <1>5. p = "customer" => \A q \in Invited : invitation[q] # "none" => q \in IssuedBy(p)
    BY DEF IssuedBy
  <1>6. p \in Invited => Issuer(p) \notin IssuedBy(p)
    BY Roots DEF IssuedBy, Issuer
  <1>7. WalkCovers'
    BY <1>1, <1>3, <1>4, <1>5, <1>6, Roots DEF WalkCovers
  <1> QED
    BY <1>2, <1>7 DEF DelInv

LEMMA DelegationCreates ==
  ASSUME AccessTypeOK, DelInv, NEW b \in Browsers, NEW p \in Invited, CreateInvitation(b, p)
  PROVE  DelInv'
  <1>0. p \in Participants /\ link[p] \in Link
    BY InvitedInLink DEF AccessTypeOK
  <1>1. link'[p].live = TRUE
    BY <1>0, IssuedFields DEF CreateInvitation, AccessTypeOK
  <1>2. /\ invitation'[p] = "pending" /\ UNCHANGED <<canceled, walk>>
        /\ \A q \in Participants : q # p => link'[q] = link[q] /\ invitation'[q] = invitation[q]
    BY <1>0 DEF CreateInvitation, AccessTypeOK
  <1>3. link[Issuer(p)].live /\ walk.kind # "cancel"
    BY DEF CreateInvitation, Active
  <1>4. /\ crossed \subseteq crossed' /\ crossed' \subseteq crossed \cup {p}
        /\ p \notin crossed' => Standing(Issuer(p)) /\ ~Held(Issuer(p))
    BY DEF CreateInvitation
  <1>5. LiveInvited' /\ PendingLive'
    <2>1. present' = present \cup {p}
      BY DEF CreateInvitation
    <2> QED
      BY <1>1, <1>2, <2>1, InvitedInLink DEF DelInv, LiveInvited, PendingLive
  <1>6. ~canceled
    BY <1>3, Roots DEF DelInv, CanceledDead
  <1>7. CanceledDead'
    BY <1>2, <1>6 DEF CanceledDead
  <1>8. IssuerStands'
    <2> SUFFICES ASSUME NEW q \in Invited, link'[q].live, q \notin crossed'
                 PROVE  Standing(Issuer(q))'
      BY DEF IssuerStands
    <2>1. CASE q = p
      BY <1>2, <1>4, <2>1, InvitedInLink DEF Standing, Joined
    <2>2. CASE q # p /\ Issuer(q) # p
      <3>1. Standing(Issuer(q))
        BY <1>2, <1>4, <2>2, InvitedInLink DEF DelInv, IssuerStands
      <3> QED
        BY <1>2, <2>2, <3>1, InvitedInLink DEF Standing, Joined
    <2>3. CASE q # p /\ Issuer(q) = p
      <3>1. Standing(p)
        BY <1>2, <1>4, <2>3, InvitedInLink DEF DelInv, IssuerStands
      <3>2. link[p].live /\ invitation[p] # "none" /\ p \in present
        BY <3>1 DEF Standing, DelInv, LiveInvited
      <3> QED
        BY <3>2 DEF CreateInvitation
    <2> QED
      BY <2>1, <2>2, <2>3
  <1>9. WalkCovers'
    <2> SUFFICES ASSUME Walking PROVE WalkCovers'
      BY <1>2 DEF WalkCovers, Walking
    <2>1. ASSUME NEW q \in Invited, link'[q].live, q \notin crossed',
                 Issuer(q) \in walk.rows \/ (Issuer(q) = walk.root /\ walk.kind # "old")
          PROVE  q \in walk.rows
      <3>1. CASE q = p
        BY <1>4, <2>1, <3>1 DEF Held
      <3>2. CASE q # p
        BY <1>2, <1>3, <1>4, <2>1, <3>2, InvitedInLink DEF DelInv, WalkCovers
      <3> QED
        BY <3>1, <3>2
    <2>2. \A q \in Invited : invitation[q] # "none" => invitation'[q] # "none"
      BY <1>2, InvitedInLink
    <2> QED
      BY <1>2, <1>3, <2>1, <2>2 DEF DelInv, WalkCovers, Walking
  <1> QED
    BY <1>5, <1>7, <1>8, <1>9 DEF DelInv

\* A pending invitee has delegated nothing that stands, so declining ends nothing else.
LEMMA DelegationDeclines ==
  ASSUME AccessTypeOK, DelInv, NEW b \in Browsers, NEW p \in Invited, DeclineInvitation(b, p)
  PROVE  DelInv'
  <1>0. p \in Participants /\ link[p] \in Link /\ invitation[p] = "pending"
    BY InvitedInLink DEF AccessTypeOK, DeclineInvitation, Answers
  <1>1. link'[p].live = FALSE
    BY <1>0, ChangedFields DEF DeclineInvitation, AccessTypeOK
  <1>2. /\ invitation'[p] = "declined" /\ UNCHANGED <<canceled, crossed, present, walk>>
        /\ \A q \in Participants : q # p => link'[q] = link[q] /\ invitation'[q] = invitation[q]
    BY <1>0 DEF DeclineInvitation, AccessTypeOK
  <1>3. ~Standing(p)
    BY <1>0 DEF Standing, Joined
  <1>4. LiveInvited' /\ PendingLive'
    BY <1>0, <1>1, <1>2, InvitedInLink DEF DelInv, LiveInvited, PendingLive
  <1>5. CanceledDead'
    BY <1>1, <1>2, Roots DEF DelInv, CanceledDead
  <1>6. IssuerStands'
    <2> SUFFICES ASSUME NEW q \in Invited, link'[q].live, q \notin crossed'
                 PROVE  Standing(Issuer(q))'
      BY DEF IssuerStands
    <2>1. Standing(Issuer(q))
      BY <1>1, <1>2, InvitedInLink DEF DelInv, IssuerStands
    <2>2. Issuer(q) # p
      BY <1>3, <2>1
    <2> QED
      BY <1>2, <2>1, <2>2, InvitedInLink DEF Standing, Joined
  <1>7. WalkCovers'
    <2> SUFFICES ASSUME Walking PROVE WalkCovers'
      BY <1>2 DEF WalkCovers, Walking
    <2>1. \A q \in Invited : /\ link'[q].live => link[q].live
                             /\ (invitation'[q] # "none" <=> invitation[q] # "none")
      BY <1>0, <1>1, <1>2, InvitedInLink
    <2> QED
      BY <1>2, <2>1 DEF DelInv, WalkCovers, Walking
  <1> QED
    BY <1>4, <1>5, <1>6, <1>7 DEF DelInv

LEMMA DelegationCommits ==
  ASSUME AccessTypeOK, DelInv, Commit
  PROVE  DelInv'
  <1>0. /\ walk.root \in Job /\ walk.rows \subseteq Invited /\ Walking
        /\ walk.kind \in Kinds
    BY DEF DelInv, WalkCovers, Commit, Walking, AccessTypeOK, NoWalk
  <1>1. \A p \in Participants :
          /\ Reissued(p) => link'[p].live = TRUE /\ invitation'[p] = "pending"
          /\ ~Reissued(p) /\ p \in Gone => link'[p].live = FALSE
          /\ ~Reissued(p) /\ p \notin Gone => link'[p] = link[p]
          /\ ~Reissued(p) /\ p \in Dead /\ invitation[p] # "none" => invitation'[p] = "revoked"
          /\ ~Reissued(p) /\ ~(p \in Dead /\ invitation[p] # "none") =>
               invitation'[p] = invitation[p]
    <2> SUFFICES ASSUME NEW p \in Participants
                 PROVE  /\ Reissued(p) => link'[p].live = TRUE /\ invitation'[p] = "pending"
                        /\ ~Reissued(p) /\ p \in Gone => link'[p].live = FALSE
                        /\ ~Reissued(p) /\ p \notin Gone => link'[p] = link[p]
                        /\ ~Reissued(p) /\ p \in Dead /\ invitation[p] # "none" =>
                             invitation'[p] = "revoked"
                        /\ ~Reissued(p) /\ ~(p \in Dead /\ invitation[p] # "none") =>
                             invitation'[p] = invitation[p]
      OBVIOUS
    <2>1. link[p] \in Link
      BY DEF AccessTypeOK
    <2>2. Reissued(p) => link'[p] = Issued(link[p])
      BY DEF Commit
    <2>3. ~Reissued(p) /\ p \in Gone => link'[p] = [link[p] EXCEPT !.live = FALSE]
      BY DEF Commit
    <2>4. ~Reissued(p) /\ p \notin Gone => link'[p] = link[p]
      BY DEF Commit
    <2>5. /\ Reissued(p) => invitation'[p] = "pending"
          /\ ~Reissued(p) /\ p \in Dead /\ invitation[p] # "none" => invitation'[p] = "revoked"
          /\ ~Reissued(p) /\ ~(p \in Dead /\ invitation[p] # "none") =>
               invitation'[p] = invitation[p]
      BY DEF Commit
    <2> QED
      BY <2>1, <2>2, <2>3, <2>4, <2>5, IssuedFields, ChangedFields
  <1>2. LiveInvited'
    <2>1. present' = present
      BY DEF Commit
    <2>2. \A p \in Invited : Reissued(p) => p \in present
      BY <1>0 DEF DelInv, WalkCovers, LiveInvited, Reissued
    <2> QED
      BY <1>1, <2>1, <2>2, InvitedInLink DEF DelInv, LiveInvited
  <1>3. \A p \in Invited : p \in Gone /\ invitation[p] # "none" => p \in Dead
    BY <1>0 DEF Gone, Dead, DelInv, WalkCovers
  <1>4. PendingLive'
    BY <1>1, <1>3, InvitedInLink DEF DelInv, PendingLive
  <1>5. canceled' = (canceled \/ walk.kind = "cancel")
    BY DEF Commit
  <1>6. CanceledDead'
    <2>1. CASE walk.kind = "cancel"
      BY <1>1, <2>1, Roots DEF CanceledDead, Gone, Reissued
    <2>2. CASE walk.kind # "cancel"
      <3>1. canceled' => canceled /\ walk.kind # "reissue"
        BY <1>0, <1>5, <2>2 DEF DelInv, WalkCovers
      <3> QED
        BY <1>1, <3>1, Roots DEF DelInv, CanceledDead, Reissued
    <2> QED
      BY <2>1, <2>2
  <1>7. /\ \A p : p \notin crossed' => p \notin crossed \/ Reissued(p)
        /\ \A p : Reissued(p) /\ p \notin crossed' => Standing(Issuer(p))
    BY DEF Commit, Reissued
  <1>8. IssuerStands'
    <2> SUFFICES ASSUME NEW p \in Invited, link'[p].live, p \notin crossed'
                 PROVE  Standing(Issuer(p))'
      BY DEF IssuerStands
    <2>0. p \in Participants /\ Issuer(p) \in Participants /\ Issuer(p) \in Job
      BY InvitedInLink, Roots
    <2>1. walk.kind # "cancel"
      BY <1>1, <2>0, Roots DEF Gone, Reissued
    <2>2. Standing(Issuer(p)) /\ ~Reissued(Issuer(p)) /\ Issuer(p) \notin Gone
      <3>1. CASE Reissued(p)
        <4>1. Standing(Issuer(p)) /\ walk.root = p /\ walk.kind = "reissue"
          BY <1>7, <3>1 DEF Reissued
        <4>2. Issuer(p) # p
          BY InvitedInLink
        <4>3. Issuer(p) \notin walk.rows
          BY <1>0, <4>1 DEF DelInv, WalkCovers
        <4> QED
          BY <4>1, <4>2, <4>3 DEF Reissued, Gone, Dead
      <3>2. CASE ~Reissued(p)
        <4>1. p \notin Gone /\ link[p].live /\ p \notin crossed
          BY <1>1, <1>7, <2>0, <3>2
        <4>2. Standing(Issuer(p))
          BY <4>1 DEF DelInv, IssuerStands
        <4>3. p \notin walk.rows
          BY <2>1, <4>1 DEF Gone, Dead
        <4>4. Issuer(p) \notin walk.rows /\ ~(Issuer(p) = walk.root /\ walk.kind # "old")
          BY <1>0, <2>1, <4>1, <4>3 DEF DelInv, WalkCovers
        <4> QED
          BY <2>1, <4>2, <4>4 DEF Reissued, Gone, Dead
      <3> QED
        BY <3>1, <3>2
    <2> QED
      BY <1>1, <2>0, <2>1, <2>2 DEF Standing, Joined, Gone
  <1>9. WalkCovers'
    BY DEF Commit, WalkCovers, Walking
  <1> QED
    BY <1>2, <1>4, <1>6, <1>8, <1>9 DEF DelInv

\* A session takes a participant in; a revocation in progress goes on.
LEMMA DelegationAttaches ==
  ASSUME AccessTypeOK, NEW b \in Browsers, NEW p \in Participants, Attaches(b, p)
  PROVE  /\ Walking => Walking' /\ walk'.kind = walk.kind /\ walk'.root = walk.root
                       /\ walk'.rows = walk.rows
         /\ Walking' => Walking
  <1>1. CASE Walking
    <2>1. walk' = [walk EXCEPT !.joined = @ \cup {p}]
      BY <1>1 DEF Attaches
    <2>2. walk \in [kind : Kinds, root : Job, rows : SUBSET Invited, joined : SUBSET Participants]
      BY <1>1 DEF AccessTypeOK, Walking
    <2>3. walk'.kind = walk.kind /\ walk'.root = walk.root /\ walk'.rows = walk.rows
      BY <2>1, <2>2
    <2>4. walk'.kind # NoWalk.kind
      BY <2>2, <2>3 DEF Kinds, NoWalk
    <2> QED
      BY <1>1, <2>3, <2>4 DEF Walking
  <1>2. CASE ~Walking
    BY <1>2 DEF Attaches, Walking
  <1> QED
    BY <1>1, <1>2

\* A step that touches neither the job, the invitations nor a revocation, and ends no link.
LEMMA DelegationRests ==
  ASSUME AccessTypeOK, DelInv, UNCHANGED <<canceled, crossed, invitation, present, walk>>,
         \A p \in Participants : link'[p].live = link[p].live
  PROVE  DelInv'
  BY DelegationIdle DEF Walking

LEMMA DelegationStep == AccessTypeOK /\ DelInv /\ [Next]_vars => DelInv'
  <1> SUFFICES ASSUME AccessTypeOK, DelInv, [Next]_vars PROVE DelInv'
    OBVIOUS
  <1>1. ASSUME UNCHANGED <<link, people, walk>> PROVE DelInv'
    BY <1>1, DelegationRests DEF people
  <1>2. CASE Authenticating
    <2>1. ASSUME NEW b \in Browsers, NEW p \in Participants, Authenticate(b, p) PROVE DelInv'
      <3>1. link[p] \in Link /\ Connected(link[p]) \in Link
        BY UsedInLink DEF AccessTypeOK
      <3>2. /\ link'[p] \in {Used(link[p]), Used(Connected(link[p]))}
            /\ \A q \in Participants : q # p => link'[q] = link[q]
        BY <2>1 DEF Authenticate, AccessTypeOK
      <3>3. link'[p].live = link[p].live
        BY <3>1, <3>2, UsedFields
      <3>4. UNCHANGED <<canceled, crossed, invitation, present, walk>>
        BY <2>1 DEF Authenticate, people
      <3> QED
        BY <3>2, <3>3, <3>4, DelegationRests
    <2> QED
      BY <1>1, <1>2, <2>1 DEF Authenticating, Refuse, AuthenticateByCookie
  <1>3. CASE Inviting
    <2>1. ASSUME NEW b \in Browsers, NEW p \in Invited, AcceptInvitation(b, p) PROVE DelInv'
      <3>1. p \in Participants /\ link[p] \in Link
        BY Roots DEF AccessTypeOK
      <3>2. link'[p].live = link[p].live
        <4>1. link'[p] = Connected(link[p])
          BY <2>1, <3>1 DEF AcceptInvitation, AccessTypeOK
        <4> QED
          BY <3>1, <4>1, UsedFields
      <3>3. /\ invitation[p] = "pending" /\ invitation'[p] = "accepted"
            /\ \A q \in Participants : q # p => link'[q] = link[q] /\ invitation'[q] = invitation[q]
        BY <2>1, <3>1 DEF AcceptInvitation, Answers, AccessTypeOK
      <3>4. UNCHANGED <<canceled, crossed, present, walk>>
        BY <2>1 DEF AcceptInvitation
      <3>5. \A q \in Participants : /\ link'[q].live = link[q].live
                                    /\ \/ invitation'[q] = invitation[q]
                                       \/ invitation[q] # "none" /\ invitation'[q] = "accepted"
        BY <3>2, <3>3
      <3>6. present \subseteq present' /\ (Walking' <=> Walking)
        BY <3>4 DEF Walking
      <3> QED
        BY <3>4, <3>5, <3>6, DelegationIdle
    <2>2. ASSUME NEW b \in Browsers, NEW p \in Invited, RevokeInvitation(b, p) PROVE DelInv'
      <3>1. p \in Job /\ "revoke" \in Kinds
        BY Roots DEF Kinds
      <3> QED
        BY <2>2, <3>1, DelegationBegins DEF RevokeInvitation
    <2>3. ASSUME NEW b \in Browsers, NEW p \in Invited, ReissueInvitation(b, p) PROVE DelInv'
      <3>1. p \in Job /\ Issuer(p) \in Job /\ "reissue" \in Kinds
        BY Roots DEF Kinds
      <3>2. ~canceled
        BY <2>3, <3>1 DEF ReissueInvitation, Active, DelInv, CanceledDead
      <3> QED
        BY <2>3, <3>1, <3>2, DelegationBegins DEF ReissueInvitation
    <2> QED
      BY <1>3, <2>1, <2>2, <2>3, DelegationCreates, DelegationDeclines DEF Inviting
  <1>4. CASE Linking
    <2>1. ASSUME NEW b \in Browsers, NEW p \in Job, RotateLink(b, p) PROVE DelInv'
      <3>1. p \in Participants /\ link[p] \in Link
        BY Roots DEF AccessTypeOK
      <3>2. /\ link'[p] = [link[p] EXCEPT !.secret = @ + 1]
            /\ \A q \in Participants : q # p => link'[q] = link[q]
        BY <2>1, <3>1 DEF RotateLink, AccessTypeOK
      <3>3. link'[p].live = link[p].live
        BY <3>1, <3>2, ChangedFields
      <3>4. UNCHANGED <<canceled, crossed, invitation, present, walk>>
        BY <2>1 DEF RotateLink, people
      <3> QED
        BY <3>2, <3>3, <3>4, DelegationRests
    <2>2. ASSUME NEW b \in Browsers, NEW p \in Job, RevokeLink(b, p) PROVE DelInv'
      <3>1. PICK kind \in {"link", "old"} : Begin(b, kind, p, IssuedBy(p))
        BY <2>2, RevokeLinkBegins
      <3>2. kind \in Kinds
        BY DEF Kinds
      <3> QED
        BY <3>1, <3>2, DelegationBegins
    <2>3. ASSUME Lapse PROVE DelInv'
      BY <2>3, DelegationRests DEF Lapse
    <2> QED
      BY <1>4, <2>1, <2>2, <2>3 DEF Linking
  <1>5. CASE Connecting
    <2>1. ASSUME NEW b \in Browsers, NEW p \in Participants, CreateSession(b, p) PROVE DelInv'
      <3>1. Attaches(b, p) /\ UNCHANGED <<link, people>>
        BY <2>1 DEF CreateSession
      <3>2. present \subseteq present'
        BY <3>1 DEF people
      <3> QED
        BY <3>1, <3>2, DelegationAttaches, DelegationIdle DEF people
    <2>2. ASSUME NEW b \in Browsers, NEW p \in Job, ConnectByCode(b, p) PROVE DelInv'
      <3>1. p \in Participants /\ Attaches(b, p)
        BY <2>2, Roots DEF ConnectByCode
      <3>2. UNCHANGED <<canceled, crossed, link>> /\ present \subseteq present'
        BY <2>2 DEF ConnectByCode
      <3>3. \A q \in Participants :
              \/ invitation'[q] = invitation[q]
              \/ invitation[q] # "none" /\ invitation'[q] = "accepted"
        BY <2>2 DEF ConnectByCode, AccessTypeOK
      <3> QED
        BY <3>1, <3>2, <3>3, DelegationAttaches, DelegationIdle
    <2> QED
      BY <1>1, <1>5, <2>1, <2>2 DEF Connecting, EndSession, ReadMoveCode
  <1>6. CASE Commit
    BY <1>6, DelegationCommits
  <1>7. ASSUME NEW b \in Browsers, CancelMoveJob(b) PROVE DelInv'
    <2>1. "customer" \in Job /\ "cancel" \in Kinds
      BY Roots DEF Kinds
    <2> QED
      BY <1>7, <2>1, DelegationBegins DEF CancelMoveJob
  <1>8. CASE UNCHANGED vars
    BY <1>1, <1>8 DEF vars
  <1> QED
    BY <1>2, <1>3, <1>4, <1>5, <1>6, <1>7, <1>8 DEF Next

\* Whoever revokes, reissues or cancels takes every delegation along, but for a link
\* that was issued across the revocation; an invitation that is pending can be answered.
THEOREM RevokedTakesDelegates == Spec => []DelegationStands
  <1>1. Init => DelInv
    <2> SUFFICES ASSUME Init PROVE DelInv
      OBVIOUS
    <2>1. \A p \in Invited : link[p].live = FALSE /\ invitation[p] = "none"
      BY InvitedInLink DEF Init, NoLink
    <2>2. ~canceled /\ ~Walking
      BY DEF Init, Walking
    <2> QED
      BY <2>1, <2>2
      DEF DelInv, LiveInvited, PendingLive, CanceledDead, IssuerStands, WalkCovers
  <1>2. DelInv => DelegationStands
    BY DEF DelInv, LiveInvited, PendingLive, CanceledDead, IssuerStands, DelegationStands
  <1> QED
    BY <1>1, <1>2, DelegationStep, AccessTypeCorrect, PTL DEF Spec
=============================================================================
