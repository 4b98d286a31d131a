------------------------------- MODULE Access -------------------------------
(***************************************************************************)
(* Who may act on one move job (access): the links of its participants,    *)
(* the invitations by which the customer brings in the company and the     *)
(* company the field worker, and the workspaces in which a browser keeps   *)
(* participants together, those of other jobs included.                    *)
(*                                                                         *)
(* A request authenticates in one transaction and runs its command in the  *)
(* next, so what it was admitted on may be gone by then.  A command is one *)
(* action, except those that revoke: they lock the invitations they find,  *)
(* and what commits before they do is not among them.                      *)
(***************************************************************************)
EXTENDS Naturals, FiniteSets

CONSTANTS Browsers,     \* clients with a cookie jar, each with one request at a time
          MaxAccounts,  \* bound: workspace_account rows
          MaxSecrets    \* bound: secrets handed out to the participants of the job

ASSUME AccessAssumption ==
  MaxAccounts \in Nat \ {0} /\ MaxSecrets \in Nat

VARIABLES
  canceled,   \* move_job.status is CANCELED
  lapsed,     \* the seven days of the customer's link are over
  link,       \* the newest participant_access_token of each participant
  invitation, \* participant_invitation.status of each participant
  present,    \* job_participant rows
  crossed,    \* participants whose link was issued across a revocation of its issuer's
  member,     \* active workspace_membership: the account of each participant; 0 is none
  role,       \* workspace_account.role; "none" is no row
  cookie,     \* the account of the session whose cookie each browser holds; 0 is none
  proven,     \* what each browser presented for its session: links and move codes
  request,    \* the request of each browser between its two transactions
  walk        \* the revocation in progress

people    == <<canceled, lapsed, invitation, present, crossed>>
workspace == <<member, role, cookie, proven>>
vars      == <<link, people, workspace, request, walk>>

Job          == {"customer", "manager", "worker"}
Invited      == {"manager", "worker"}
Participants == Job \cup {"other"}         \* "other" is the manager of another job
RoleOf(p)    == IF p = "other" THEN "manager" ELSE p
Issuer(p)    == IF p = "manager" THEN "customer" ELSE "manager"
Roles        == {"customer", "manager", "worker"}

Statuses == {"none", "pending", "accepted", "declined", "revoked"}
Link     == [row : Nat, secret : Nat, live : BOOLEAN,
             used : BOOLEAN, connected : Nat]
NoLink   == [row |-> 0, secret |-> 0, live |-> FALSE, used |-> FALSE, connected |-> 0]
Request  == [by : Participants, secret : Nat, as : {"member", "invitee", "code"}]
NoRequest == [by |-> "none", secret |-> 0, as |-> "none"]
Kinds    == {"revoke", "link", "old", "reissue", "cancel"}
NoWalk   == [kind |-> "none", root |-> "none", rows |-> {}, joined |-> {}]

\* issue_access_link: a new row with its secret, not used yet.
Issued(l) == [row |-> l.row + 1, secret |-> l.secret + 1, live |-> TRUE, used |-> FALSE,
              connected |-> 0]

\* last_used_at of a link, and its PARTICIPANT_CONNECTED audit events.
Used(l)      == [l EXCEPT !.used = TRUE]
Connected(l) == [l EXCEPT !.connected = @ + 1]

\* create_customer_move_job; the manager of the other job is at work.
Init ==
  /\ canceled = FALSE /\ lapsed = FALSE
  /\ link = [p \in Participants |->
       IF p \in Invited THEN NoLink
       ELSE IF p = "customer" THEN Issued(NoLink)
       ELSE Used(Connected(Issued(NoLink)))]
  /\ invitation = [p \in Participants |-> "none"]
  /\ present = {"customer", "other"} /\ crossed = {}
  /\ member = [p \in Participants |-> 0] /\ role = [a \in 1..MaxAccounts |-> "none"]
  /\ cookie = [b \in Browsers |-> 0] /\ proven = [b \in Browsers |-> {}]
  /\ request = [b \in Browsers |-> NoRequest]
  /\ walk = NoWalk

Secrets     == link["customer"].secret + link["manager"].secret + link["worker"].secret
Active(p)   == link[p].live /\ ~(lapsed /\ p \in Job)
Joined(p)   == invitation[p] \in {"none", "accepted"}
Standing(p) == link[p].live /\ Joined(p)
Walking     == walk # NoWalk
\* Invitations a revocation holds FOR UPDATE.
Held(p)     == Walking /\ (p \in walk.rows \/ (p = walk.root /\ walk.kind # "old"))

-----------------------------------------------------------------------------
(* Authentication *)

\* authenticate_access_token; an invitee is let in to answer only.  The first use of a
\* link is recorded, as a connection unless the invitation is still pending.
Authenticate(b, p) ==
  /\ request[b] = NoRequest /\ Active(p)
  /\ invitation[p] \in {"none", "pending", "accepted"}
  /\ request' = [request EXCEPT ![b] =
       [by |-> p, secret |-> link[p].secret, as |-> IF Joined(p) THEN "member" ELSE "invitee"]]
  /\ link' = [link EXCEPT ![p] =
       IF Joined(p) /\ ~link[p].used THEN Used(Connected(@)) ELSE Used(@)]
  /\ UNCHANGED <<people, workspace, walk>>

\* authenticate_workspace_actor.
AuthenticateByCookie(b, p) ==
  /\ request[b] = NoRequest
  /\ cookie[b] # 0 /\ member[p] = cookie[b] /\ Joined(p)
  /\ request' = [request EXCEPT ![b] = [by |-> p, secret |-> 0, as |-> "member"]]
  /\ UNCHANGED <<link, people, workspace, walk>>

\* A command that is refused, or whose client is gone.
Refuse(b) ==
  /\ request[b] # NoRequest
  /\ request' = [request EXCEPT ![b] = NoRequest]
  /\ UNCHANGED <<link, people, workspace, walk>>

Done(b)     == request' = [request EXCEPT ![b] = NoRequest]
AsMember(b, p) == request[b].as = "member" /\ request[b].by = p

\* The links of a job lapse at once: each is limited by that of its issuer.
Lapse ==
  /\ ~lapsed /\ lapsed' = TRUE
  /\ UNCHANGED <<link, canceled, invitation, present, crossed, workspace, request, walk>>

-----------------------------------------------------------------------------
(* Invitations *)

\* create_invitation, under the lock of the job row, which a cancellation holds too.
CreateInvitation(b, p) ==
  /\ AsMember(b, Issuer(p)) /\ walk.kind # "cancel"
  /\ Active(Issuer(p)) /\ p \notin present
  /\ present' = present \cup {p}
  /\ link' = [link EXCEPT ![p] = Issued(@)]
  /\ invitation' = [invitation EXCEPT ![p] = "pending"]
  /\ crossed' = IF Standing(Issuer(p)) /\ ~Held(Issuer(p)) THEN crossed ELSE crossed \cup {p}
  /\ Done(b)
  /\ UNCHANGED <<canceled, lapsed, workspace, walk>>

\* accept_invitation and decline_invitation, with the secret the request came with.
\* Mutant: a secret that was replaced since still answers.
AnswersLate(b, p) ==
  /\ request[b].by = p /\ request[b].secret # 0 /\ ~Held(p)
  /\ invitation[p] = "pending" /\ ~lapsed
Answers(b, p) ==
  /\ request[b].by = p /\ request[b].secret # 0 /\ ~Held(p)
  /\ request[b].secret = link[p].secret
  /\ invitation[p] = "pending" /\ ~lapsed
AcceptInvitation(b, p) ==
  /\ Answers(b, p)
  /\ invitation' = [invitation EXCEPT ![p] = "accepted"]
  /\ link' = [link EXCEPT ![p] = Connected(@)]
  /\ Done(b)
  /\ UNCHANGED <<canceled, lapsed, present, crossed, workspace, walk>>
DeclineInvitation(b, p) ==
  /\ Answers(b, p)
  /\ invitation' = [invitation EXCEPT ![p] = "declined"]
  /\ link' = [link EXCEPT ![p].live = FALSE]
  /\ member' = [member EXCEPT ![p] = 0]
  /\ Done(b)
  /\ UNCHANGED <<canceled, lapsed, present, crossed, role, cookie, proven, walk>>

\* rotate_access_link: another secret for the same link.
RotateLink(b, p) ==
  /\ AsMember(b, p) /\ request[b].secret = link[p].secret
  /\ Active(p) /\ Secrets < MaxSecrets
  /\ link' = [link EXCEPT ![p].secret = @ + 1]
  /\ Done(b)
  /\ UNCHANGED <<people, workspace, walk>>

-----------------------------------------------------------------------------
(* Revocation *)

\* _revoke_invitations_issued_by finds the invitations of a participant and, through
\* the company's, those of the company.
\* Mutant: the company's are not followed.
OwnInvitation(p) == {q \in Invited : Issuer(q) = p /\ invitation[q] # "none"}
IssuedBy(p) ==
  {q \in Invited : invitation[q] # "none" /\ (p = "customer" \/ (p = "manager" /\ q = "worker"))}

\* One revocation at a time: a second waits for the rows the first one holds, or shares
\* none with it.
Begin(b, kind, root, rows) ==
  /\ walk = NoWalk
  /\ walk' = [kind |-> kind, root |-> root, rows |-> rows, joined |-> {}]
  /\ Done(b)
  /\ UNCHANGED <<link, people, workspace>>

\* revoke_invitation and reissue_invitation, by the issuer.
RevokeInvitation(b, p) ==
  /\ AsMember(b, Issuer(p)) /\ invitation[p] \notin {"none", "revoked"}
  /\ Begin(b, "revoke", p, IssuedBy(p))
ReissueInvitation(b, p) ==
  /\ AsMember(b, Issuer(p)) /\ invitation[p] # "none" /\ Active(Issuer(p))
  /\ Secrets < MaxSecrets
  /\ Begin(b, "reissue", p, IssuedBy(p))

\* revoke_access_link_tree, of one's own link or, by the company, of any; of a row that
\* was replaced by a reissue, only what was delegated is left to revoke.
RevokeLink(b, p) ==
  /\ AsMember(b, p) \/ AsMember(b, "manager")
  /\ link[p].row # 0
  /\ \/ Begin(b, "link", p, IssuedBy(p))
     \/ link[p].row > 1 /\ Begin(b, "old", p, IssuedBy(p))

\* cancel_move_job, of a job that was not quoted.
CancelMoveJob(b) ==
  /\ AsMember(b, "customer") /\ ~canceled
  /\ Begin(b, "cancel", "customer", IssuedBy("customer"))

\* The commit.  revoke_access_link ends the memberships it finds, those that commit
\* meanwhile perhaps not, and passes over a link that is revoked already.
Dead == walk.rows \cup IF walk.kind \in {"revoke", "link"} THEN {walk.root} ELSE {}
Gone == IF walk.kind = "cancel" THEN Job ELSE Dead
Reissued(p) == walk.kind = "reissue" /\ p = walk.root
Commit ==
  /\ Walking
  /\ canceled' = (canceled \/ walk.kind = "cancel")
  /\ invitation' = [p \in Participants |->
       IF Reissued(p) THEN "pending"
       ELSE IF p \in Dead /\ invitation[p] # "none" THEN "revoked" ELSE invitation[p]]
  /\ link' = [p \in Participants |->
       IF Reissued(p) THEN Issued(link[p])
       ELSE IF p \in Gone THEN [link[p] EXCEPT !.live = FALSE] ELSE link[p]]
  /\ \E kept \in SUBSET walk.joined :
       member' = [p \in Participants |->
         IF /\ p \in Gone \/ Reissued(p)
            /\ link[p].live /\ p \notin kept THEN 0 ELSE member[p]]
  /\ crossed' = IF walk.kind # "reissue" THEN crossed
                ELSE IF Standing(Issuer(walk.root)) THEN crossed \ {walk.root}
                ELSE crossed \cup {walk.root}
  /\ walk' = NoWalk
  /\ UNCHANGED <<lapsed, present, role, cookie, proven, request>>

-----------------------------------------------------------------------------
(* Workspaces *)

\* create_or_extend_workspace_session, under the lock of the participant row: the
\* session of the cookie takes the participant in, or a new account does, and an
\* account the browser shows no cookie of loses it.
\* Mutant: the account is recovered with all it holds.
Recovers(b, p) ==
  /\ \/ cookie[b] # 0 /\ member[p] \in {0, cookie[b]} /\ role[cookie[b]] = RoleOf(p)
        /\ member' = [member EXCEPT ![p] = cookie[b]]
        /\ UNCHANGED <<role, cookie>>
     \/ cookie[b] = 0 /\ member[p] # 0
        /\ cookie' = [cookie EXCEPT ![b] = member[p]]
        /\ UNCHANGED <<role, member>>
     \/ cookie[b] = 0 /\ member[p] = 0 /\ \E a \in 1..MaxAccounts :
        /\ role[a] = "none" /\ \A c \in 1..a - 1 : role[c] # "none"
        /\ role' = [role EXCEPT ![a] = RoleOf(p)]
        /\ member' = [member EXCEPT ![p] = a]
        /\ cookie' = [cookie EXCEPT ![b] = a]
  /\ proven' = [proven EXCEPT ![b] = @ \cup {p}]
  /\ walk' = IF Walking THEN [walk EXCEPT !.joined = @ \cup {p}] ELSE walk
Attaches(b, p) ==
  /\ \/ cookie[b] # 0 /\ member[p] \in {0, cookie[b]} /\ role[cookie[b]] = RoleOf(p)
        /\ member' = [member EXCEPT ![p] = cookie[b]]
        /\ UNCHANGED <<role, cookie>>
     \/ cookie[b] = 0 /\ \E a \in 1..MaxAccounts :
        /\ role[a] = "none" /\ \A c \in 1..a - 1 : role[c] # "none"
        /\ role' = [role EXCEPT ![a] = RoleOf(p)]
        /\ member' = [member EXCEPT ![p] = a]
        /\ cookie' = [cookie EXCEPT ![b] = a]
  /\ proven' = [proven EXCEPT ![b] = @ \cup {p}]
  /\ walk' = IF Walking THEN [walk EXCEPT !.joined = @ \cup {p}] ELSE walk

\* create_workspace_session_endpoint.
CreateSession(b, p) ==
  /\ AsMember(b, p) /\ Joined(p)
  /\ Attaches(b, p)
  /\ Done(b)
  /\ UNCHANGED <<link, people>>

\* create_move_connection_endpoint: the move code of a job that is not canceled as it
\* is read, and then the participant, whatever became of the invitation.
ReadMoveCode(b, p) ==
  /\ request[b] = NoRequest /\ ~canceled
  /\ request' = [request EXCEPT ![b] = [by |-> p, secret |-> 0, as |-> "code"]]
  /\ UNCHANGED <<link, people, workspace, walk>>
ConnectByCode(b, p) ==
  /\ request[b].as = "code" /\ request[b].by = p
  /\ Joined(p) \/ ~Held(p)
  /\ p \in present \/ walk.kind # "cancel"
  /\ present' = present \cup {p}
  /\ invitation' = [invitation EXCEPT ![p] = IF @ = "none" THEN @ ELSE "accepted"]
  /\ Attaches(b, p)
  /\ Done(b)
  /\ UNCHANGED <<canceled, lapsed, link, crossed>>

\* revoke_workspace_session, or the thirty days are over.
EndSession(b) ==
  /\ cookie[b] # 0
  /\ cookie' = [cookie EXCEPT ![b] = 0] /\ proven' = [proven EXCEPT ![b] = {}]
  /\ UNCHANGED <<link, people, member, role, request, walk>>

-----------------------------------------------------------------------------
Authenticating ==
  \E b \in Browsers : \/ Refuse(b)
                      \/ \E p \in Participants : Authenticate(b, p) \/ AuthenticateByCookie(b, p)
Inviting ==
  \E b \in Browsers, p \in Invited :
    \/ CreateInvitation(b, p) \/ AcceptInvitation(b, p) \/ DeclineInvitation(b, p)
    \/ RevokeInvitation(b, p) \/ ReissueInvitation(b, p)
Linking ==
  \/ Lapse
  \/ \E b \in Browsers, p \in Job : RotateLink(b, p) \/ RevokeLink(b, p)
Connecting ==
  \E b \in Browsers :
    \/ EndSession(b)
    \/ \E p \in Participants : CreateSession(b, p)
    \/ \E p \in Job : ReadMoveCode(b, p) \/ ConnectByCode(b, p)

Next == \/ Authenticating \/ Inviting \/ Linking \/ Connecting
        \/ Commit \/ \E b \in Browsers : CancelMoveJob(b)
Spec == Init /\ [][Next]_vars

-----------------------------------------------------------------------------
(* Properties *)

\* Every variable keeps its shape, and a revocation is one of the five kinds, of a
\* participant of the job, with invitations of the job.
AccessTypeOK ==
  /\ canceled \in BOOLEAN /\ lapsed \in BOOLEAN
  /\ link \in [Participants -> Link]
  /\ invitation \in [Participants -> Statuses]
  /\ present \subseteq Participants /\ crossed \subseteq Participants
  /\ member \in [Participants -> 0..MaxAccounts] /\ cookie \in [Browsers -> 0..MaxAccounts]
  /\ role \in [1..MaxAccounts -> Roles \cup {"none"}]
  /\ proven \in [Browsers -> SUBSET Participants]
  /\ request \in [Browsers -> Request \cup {NoRequest}]
  /\ walk \in [kind : Kinds, root : Job, rows : SUBSET Invited, joined : SUBSET Participants]
              \cup {NoWalk}

\* docs/CONTRACTS.md: who revokes or reissues takes every delegation along.  A live
\* link has a live link of a joined issuer behind it, unless it was issued across the
\* revocation; a pending invitation can be answered, and a canceled job has no link.
DelegationStands ==
  /\ \A p \in Invited : link[p].live /\ p \notin crossed => Standing(Issuer(p))
  /\ \A p \in Invited : invitation[p] = "pending" => link[p].live
  /\ canceled => \A p \in Job : ~link[p].live

\* docs/CONTRACTS.md: a look at an invitation is not recorded as a connection.  Each link
\* connects its participant at most once, by the acceptance or by its first use.
ConnectedOnce ==
  \A p \in Participants : /\ link[p].connected <= 1
                          /\ invitation[p] = "pending" => link[p].connected = 0

\* The comment in create_or_extend_workspace_session: one capability of a job never
\* recovers the other jobs of a workspace.  Whom a browser's session acts for, this
\* browser presented the capability of.
SessionProven ==
  \A b \in Browsers : cookie[b] # 0 => {p \in Participants : member[p] = cookie[b]} \subseteq proven[b]
=============================================================================
