--------------------------- MODULE AccountsProofs ---------------------------
(***************************************************************************)
(* Proofs about Accounts for any users, any teams with an owner, any seat  *)
(* limit and any bounds: the owner that remains, the sessions a reset      *)
(* ends, what is used once, and the seats.                                 *)
(***************************************************************************)
EXTENDS Accounts, FiniteSetTheorems, TLAPS

-----------------------------------------------------------------------------
(* The parts of the inductive invariant. *)

AccountType == [registered : BOOLEAN, verified : BOOLEAN, pw : Nat]
LinkType == [verify : Nat, reset : Nat]
SessionType == [user : Users, org : {"team", "personal", "none"}, pw : Nat]
DeviceType == [state : {"none", "pending", "approved", "consumed"}, minted : Nat]

RoleWrites == {"remove", "add", "role"}
RequestType ==
    [op : {"invite", "insert", "seat", "unseat", "session", "password", "revoke", "cli"}
            \cup RoleWrites,
     id : Nat, on : Users, role : Roles \cup {"none"}, owners : SUBSET Users, taken : Nat,
     blind : BOOLEAN, pw : Nat, need : BOOLEAN,
     device : Devices \cup {AnyDevice}]

TypesOK ==
    /\ member \in [Users -> Roles \cup {"none"}] /\ seat \in [Users -> BOOLEAN]
    /\ invite \in [Users -> Invitation \cup {NoInvite}]
    /\ account \in [Users -> AccountType] /\ links \in [Users -> LinkType]
    /\ personal \in [Users -> Nat] /\ sessions \subseteq SessionType
    /\ device \in [Devices -> DeviceType]
    /\ requests \subseteq RequestType /\ started \in Nat
    /\ unchecked \in Nat /\ Users # {}

RequestsOK ==
    \A r \in requests : /\ r.op \in {"invite", "insert"} => r.role \in {"admin", "member"}
                        /\ r.op = "cli" => r.device \in Devices
                        /\ r.need => r.op = "session"

\* Who is no member holds no seat.
SeatedAreMembers == \A u \in Users : seat[u] => member[u] # "none"

\* A role write that takes an owner away has read another, unless it is blind.
OwnersRead ==
    \A r \in requests : r.op \in RoleWrites /\ ~r.blind /\ r.on \in r.owners =>
                            r.role = "owner" \/ r.owners \ {r.on} # {}

\* An invitation and a grant have counted a seat that was free, unless blind.
SeatsRead ==
    \A r \in requests : \/ r.op = "insert"
                        \/ r.op = "seat" /\ ~r.blind
                        => r.taken < SeatLimit

\* An authorization has minted its key once it is consumed, not before.
MintedOnce ==
    \A d \in Devices : device[d].minted = IF device[d].state = "consumed" THEN 1 ELSE 0

\* A request that is to make a workspace is the user's only one, and the user
\* has none.
OneWorkspace == \A u \in Users \ unseen : personal[u] <= 1
NeedIsReal == \A r \in requests : r.need /\ r.on \notin unseen => personal[r.on] = 0
NeedIsUnique ==
    \A q, r \in requests : q.need /\ r.need /\ q.on = r.on /\ r.on \notin unseen => q = r

\* The inductive invariant.
AccountsInv ==
    /\ TypesOK /\ RequestsOK /\ SeatedAreMembers
    /\ OwnerRemains /\ OwnersRead /\ SeatsRead
    /\ ResetEndsSessions
    /\ MintedOnce /\ OneWorkspace /\ NeedIsReal /\ NeedIsUnique

-----------------------------------------------------------------------------
(* Requests that are opened. *)

\* What a request knows when its reads are done.
Reads(q) ==
    \/ q.op = "invite" /\ q.role \in {"admin", "member"} /\ ~q.need
    \/ q.op = "seat" /\ ~q.need /\ (q.blind \/ q.taken < SeatLimit)
    \/ q.op \in {"unseat", "password"} /\ ~q.need
    \/ /\ q.op \in RoleWrites /\ ~q.need
       /\ \/ q.blind
          \/ /\ q.owners = Owners
             /\ member[q.on] = "owner" => q.role = "owner" \/ ~LastOwner
    \/ q.op = "session"
    \/ q.op = "cli" /\ ~q.need /\ q.device \in Devices

\* What it knows of the workspace.
Seeks(q) ==
    /\ unseen \subseteq unseen'
    /\ q.need /\ q.on \notin unseen' =>
          personal[q.on] = 0 /\ \A r \in requests : ~(r.need /\ r.on = q.on)

Opens(q) ==
    /\ q \in RequestType /\ requests' = requests \cup {q} /\ Reads(q) /\ Seeks(q)
    /\ UNCHANGED <<team, personal, sessions, device, unchecked, ousted, slipped>>
    /\ \/ UNCHANGED <<account, links>>
       \/ q.op = "session" /\ consume_email_token(q.on, "verify")
          /\ account' = [account EXCEPT ![q.on].verified = TRUE]
       \/ q.op = "password" /\ consume_email_token(q.on, "reset") /\ account' = account
    /\ started' = started + 1

provisions(r) == \E failed \in BOOLEAN : provision_personal_org(r, failed)

\* An invitation opens a request with the role it gives.
LEMMA InviteOpens ==
    ASSUME TypesOK, NEW u \in Users, NEW on \in Users, NEW role \in {"admin", "member"},
           NEW failed \in BOOLEAN, invite_member(u, on, role, failed)
    PROVE  \E q \in RequestType : Opens(q)
<1> DEFINE q == [[Req EXCEPT !.op = "invite", !.on = on, !.role = role] EXCEPT !.id = started]
<1>1. q \in RequestType
  BY DEF Req, RequestType, Roles, TypesOK
<1>2. q.op = "invite" /\ q.role = role /\ ~q.need
  BY DEF Req
<1>3. requests' = requests \cup {q} /\ started' = started + 1
  BY DEF invite_member, Open, Call
<1> HIDE DEF q
<1>4. Opens(q)
  BY <1>1, <1>2, <1>3 DEF Opens, Reads, Seeks, invite_member, identity, history
<1> QED
  BY <1>1, <1>4

\* A role change opens a request with the owners it counted, or a blind one.
LEMMA RoleOpens ==
    ASSUME TypesOK, NEW u \in Users, NEW on \in Users,
           \/ \E role \in Roles \cup {"none"} : set_member_role(u, on, role)
           \/ \E role \in Roles : set_unread_role(u, on, role)
           \/ \E failed \in BOOLEAN : remove_member(u, on, failed)
    PROVE  \E q \in RequestType : Opens(q)
<1>1. Owners \in SUBSET Users /\ {} \in SUBSET Users
  BY DEF Owners
<1>2. ASSUME NEW q, q \in RequestType, requests' = requests \cup {q}, Reads(q), ~q.need,
             started' = started + 1, UNCHANGED <<team, identity, device, history>>
      PROVE  \E p \in RequestType : Opens(p)
  <2>1. Opens(q)
    BY <1>2 DEF Opens, Seeks, identity, history
  <2> QED
    BY <1>2, <2>1
<1>3. ASSUME NEW op \in RoleWrites, NEW role \in Roles \cup {"none"},
             Open([Req EXCEPT !.op = op, !.on = on, !.role = role, !.owners = Owners]),
             member[on] = "owner" => role = "owner" \/ ~LastOwner,
             UNCHANGED <<team, identity, device, history>>
      PROVE  \E q \in RequestType : Opens(q)
  <2> DEFINE q == [[Req EXCEPT !.op = op, !.on = on, !.role = role, !.owners = Owners]
                     EXCEPT !.id = started]
  <2>1. q \in RequestType
    <3> HIDE DEF Owners
    <3> QED
      BY <1>1 DEF Req, RequestType, Roles, TypesOK
  <2>2. q.op = op /\ q.on = on /\ q.role = role /\ q.owners = Owners /\ ~q.need
    BY DEF Req
  <2>3. requests' = requests \cup {q} /\ started' = started + 1
    BY <1>3 DEF Open, Call
  <2> HIDE DEF q
  <2>4. Reads(q)
    BY <1>3, <2>2 DEF Reads
  <2> QED
    BY <1>2, <1>3, <2>1, <2>2, <2>3, <2>4
<1>4. ASSUME NEW role \in Roles \cup {"none"}, set_member_role(u, on, role)
      PROVE  \E q \in RequestType : Opens(q)
  BY <1>3, <1>4 DEF set_member_role, RoleWrites
<1>5. ASSUME NEW role \in Roles, set_unread_role(u, on, role)
      PROVE  \E q \in RequestType : Opens(q)
  <2> DEFINE q == [[Req EXCEPT !.op = "add", !.on = on, !.role = role, !.blind = TRUE]
                     EXCEPT !.id = started]
  <2>1. q \in RequestType
    BY <1>1 DEF Req, RequestType, RoleWrites, TypesOK
  <2>2. q.op = "add" /\ q.blind /\ ~q.need
    BY DEF Req
  <2>3. requests' = requests \cup {q} /\ started' = started + 1
    BY <1>5 DEF set_unread_role, Open, Call
  <2> HIDE DEF q
  <2>4. Reads(q)
    BY <2>2 DEF Reads, RoleWrites
  <2> QED
    BY <1>2, <1>5, <2>1, <2>2, <2>3, <2>4 DEF set_unread_role
<1>6. ASSUME NEW failed \in BOOLEAN, remove_member(u, on, failed)
      PROVE  \E q \in RequestType : Opens(q)
  <2> DEFINE q == [[Req EXCEPT !.op = "remove", !.on = on, !.owners = Owners, !.blind = failed]
                     EXCEPT !.id = started]
  <2>1. q \in RequestType
    <3> HIDE DEF Owners
    <3> QED
      BY <1>1 DEF Req, RequestType, RoleWrites, TypesOK
  <2>2. /\ q.op = "remove" /\ q.on = on /\ q.owners = Owners /\ ~q.need
        /\ (q.blind <=> failed)
    BY DEF Req
  <2>3. /\ requests' = requests \cup {q} /\ started' = started + 1
        /\ failed \/ member[on] # "owner"
    BY <1>6 DEF remove_member, Open, Call
  <2> HIDE DEF q
  <2>4. Reads(q)
    BY <2>2, <2>3 DEF Reads, RoleWrites
  <2> QED
    BY <1>2, <1>6, <2>1, <2>2, <2>3, <2>4 DEF remove_member
<1> QED
  BY <1>4, <1>5, <1>6

\* A seat grant, or its return, opens a request with the seats it counted.
LEMMA SeatOpens ==
    ASSUME TypesOK, NEW u \in Users, NEW on \in Users, NEW grant \in BOOLEAN,
           NEW failed \in BOOLEAN, set_seat(u, on, grant, failed)
    PROVE  \E q \in RequestType : Opens(q)
<1> DEFINE op == IF grant THEN "seat" ELSE "unseat"
           taken == Cardinality(Seated)
           blind == failed \/ on \in Seated
           q == [[Req EXCEPT !.op = op, !.on = on, !.taken = taken, !.blind = blind]
                   EXCEPT !.id = started]
<1>1. op \in {"seat", "unseat"} /\ blind \in BOOLEAN /\ taken \in Nat
  <2>1. Seated \subseteq Users
    BY DEF Seated
  <2>2. taken \in Nat
    BY <2>1, AccountsAssumption, FS_Subset, FS_CardinalityType
  <2> QED
    BY <2>2
<1>2. requests' = requests \cup {q} /\ started' = started + 1
  BY DEF set_seat, Open, Call
<1>3. op = "seat" => blind \/ taken < SeatLimit
  BY DEF set_seat
<1> HIDE DEF op, taken, blind
<1>4. q \in RequestType
  <2>1. {} \in SUBSET Users
    OBVIOUS
  <2> QED
    BY <1>1, <2>1 DEF Req, RequestType, TypesOK
<1>5. q.op = op /\ ~q.need /\ q.taken = taken /\ (q.blind <=> blind)
  BY DEF Req
<1> HIDE DEF q
<1>6. Reads(q)
  BY <1>1, <1>3, <1>5 DEF Reads
<1>7. Opens(q)
  BY <1>2, <1>4, <1>5, <1>6 DEF Opens, Seeks, set_seat, identity, history
<1> QED
  BY <1>4, <1>7

\* A login or a verification opens a request with the workspace and the password
\* it saw.
LEMMA SessionOpens ==
    ASSUME TypesOK, NEW u \in Users, NEW failed \in BOOLEAN,
           login(u, failed) \/ \E carried \in BOOLEAN : verify_email(u, carried, failed)
    PROVE  \E q \in RequestType : Opens(q)
<1>1. ASSUME NEW need \in BOOLEAN, need => failed \/ personal[u] = 0,
             unseen' = Unseen(u, need, failed),
             Open([Req EXCEPT !.op = "session", !.on = u, !.need = need, !.pw = account[u].pw]),
             UNCHANGED <<team, personal, sessions, device, unchecked, ousted, slipped>>,
             \/ UNCHANGED <<account, links>>
             \/ consume_email_token(u, "verify")
                /\ account' = [account EXCEPT ![u].verified = TRUE]
      PROVE  \E q \in RequestType : Opens(q)
  <2> DEFINE q == [[Req EXCEPT !.op = "session", !.on = u, !.need = need, !.pw = account[u].pw]
                     EXCEPT !.id = started]
  <2>1. account[u].pw \in Nat /\ personal[u] \in Nat /\ {} \in SUBSET Users
    BY DEF TypesOK, AccountType
  <2>2. q \in RequestType
    BY <2>1 DEF Req, RequestType, TypesOK
  <2>3. q.op = "session" /\ q.on = u /\ (q.need = need)
    BY DEF Req
  <2>4. requests' = requests \cup {q} /\ started' = started + 1
    BY <1>1 DEF Open, Call
  <2> HIDE DEF q
  <2>5. Seeks(q)
    BY <1>1, <2>1, <2>3 DEF Seeks, Unseen
  <2>6. Opens(q)
    BY <1>1, <2>2, <2>3, <2>4, <2>5 DEF Opens, Reads
  <2> QED
    BY <2>2, <2>6
<1>2. CASE login(u, failed)
  <2> DEFINE need == failed \/ primary_org_is_none(u)
  <2>1. need \in BOOLEAN /\ (need => failed \/ personal[u] = 0)
    BY DEF primary_org_is_none
  <2>2. /\ unseen' = Unseen(u, need, failed)
        /\ Open([Req EXCEPT !.op = "session", !.on = u, !.need = need, !.pw = account[u].pw])
        /\ UNCHANGED <<team, identity, device, unchecked, ousted, slipped>>
    BY <1>2 DEF login
  <2> HIDE DEF need
  <2> QED
    BY <1>1, <2>1, <2>2 DEF identity
<1>3. ASSUME NEW carried \in BOOLEAN, verify_email(u, carried, failed)
      PROVE  \E q \in RequestType : Opens(q)
  <2> DEFINE need == ~(carried /\ Live(u)) /\ (failed \/ primary_org_is_none(u))
  <2>1. need \in BOOLEAN /\ (need => failed \/ personal[u] = 0)
    BY DEF primary_org_is_none
  <2>2. /\ unseen' = Unseen(u, need, failed)
        /\ Open([Req EXCEPT !.op = "session", !.on = u, !.need = need, !.pw = account[u].pw])
        /\ UNCHANGED <<team, personal, sessions, device, unchecked, ousted, slipped>>
        /\ consume_email_token(u, "verify") /\ account' = [account EXCEPT ![u].verified = TRUE]
    BY <1>3 DEF verify_email
  <2> HIDE DEF need
  <2> QED
    BY <1>1, <2>1, <2>2
<1> QED
  BY <1>2, <1>3

\* A reset opens a request by consuming its link.
LEMMA ResetOpens ==
    ASSUME TypesOK, NEW u \in Users, reset_password(u)
    PROVE  \E q \in RequestType : Opens(q)
<1> DEFINE q == [[Req EXCEPT !.op = "password", !.on = u] EXCEPT !.id = started]
<1>1. q \in RequestType
  BY DEF Req, RequestType, TypesOK
<1>2. q.op = "password" /\ q.on = u /\ ~q.need
  BY DEF Req
<1>3. requests' = requests \cup {q} /\ started' = started + 1
  BY DEF reset_password, Open, Call
<1> HIDE DEF q
<1>4. Opens(q)
  BY <1>1, <1>2, <1>3 DEF Opens, Reads, Seeks, reset_password, history
<1> QED
  BY <1>1, <1>4

\* A poll of an approved authorization opens a request.
LEMMA PollOpens ==
    ASSUME TypesOK, NEW d \in Devices, cli_token(d)
    PROVE  \E q \in RequestType : Opens(q)
<1> DEFINE q == [[Req EXCEPT !.op = "cli", !.device = d] EXCEPT !.id = started]
<1>1. q \in RequestType
  <2>1. AnyUser \in Users
    BY DEF TypesOK, AnyUser
  <2> QED
    BY <2>1 DEF Req, RequestType, TypesOK, AnyUser
<1>2. q.op = "cli" /\ q.device = d /\ ~q.need
  BY DEF Req
<1>3. requests' = requests \cup {q} /\ started' = started + 1
  BY DEF cli_token, Open, Call
<1> HIDE DEF q
<1>4. Opens(q)
  BY <1>1, <1>2, <1>3 DEF Opens, Reads, Seeks, cli_token, identity, history
<1> QED
  BY <1>1, <1>4

\* A step opens a request or is one of these.
Direct ==
    \/ UNCHANGED vars
    \/ \E u, on \in Users, role \in {"admin", "member"} : add_member(u, on, role)
    \/ \E u, on \in Users : refresh_org_invitation(u, on) \/ revoke_org_invitation(u, on)
    \/ \E u \in Users :
          invitation_expires(u) \/ signup(u) \/ login_unverified(u) \/ forgot_password(u)
    \/ prune_org_invitations
    \/ \E s \in sessions :
          \/ accept_invitation(s) \/ logout(s)
          \/ \E org \in {"team", "personal"} : set_session_org(s, org)
          \/ \E d \in Devices : approve_cli_authorization(s, d)
    \/ \E d \in Devices : create_cli_authorization(d)
    \/ \E r \in requests :
          \/ upsert_org_invitation(r) \/ insert_org_invitation(r)
          \/ write_role(r) \/ write_seat(r) \/ provisions(r) \/ create_session(r)
          \/ set_password(r) \/ revoke_sessions_for_user(r)
          \/ consume_cli_authorization(r) \/ request_stops(r)

\* A step opens a request or is a direct one.
LEMMA StepCases ==
    ASSUME TypesOK, [Next]_vars
    PROVE  Direct \/ \E q \in RequestType : Opens(q)
BY InviteOpens, RoleOpens, SeatOpens, SessionOpens, ResetOpens, PollOpens
   DEF Next, Direct, provisions, Roles

-----------------------------------------------------------------------------
(* Types. *)

\* What a step does to the team.
LEMMA TeamTypes ==
    ASSUME TypesOK, RequestsOK, Direct \/ \E q \in RequestType : Opens(q)
    PROVE  /\ member' \in [Users -> Roles \cup {"none"}] /\ seat' \in [Users -> BOOLEAN]
           /\ invite' \in [Users -> Invitation \cup {NoInvite}]
<1>1. /\ member \in [Users -> Roles \cup {"none"}] /\ seat \in [Users -> BOOLEAN]
      /\ invite \in [Users -> Invitation \cup {NoInvite}]
      /\ \A r \in requests : r.on \in Users /\ r.role \in Roles \cup {"none"}
      /\ \A s \in sessions : s.user \in Users
  BY DEF TypesOK, RequestType, SessionType
<1>2. CASE UNCHANGED team
  BY <1>1, <1>2 DEF team
<1>3. ASSUME NEW u \in Users, NEW on \in Users, NEW role \in {"admin", "member"},
             add_member(u, on, role)
      PROVE  member' \in [Users -> Roles \cup {"none"}] /\ UNCHANGED <<seat, invite>>
  BY <1>1, <1>3 DEF add_member, Roles
<1>4. ASSUME NEW on \in Users, NEW x \in BOOLEAN, invite[on] # NoInvite,
             invite' = [invite EXCEPT ![on].live = x]
      PROVE  invite' \in [Users -> Invitation \cup {NoInvite}]
  <2>1. [invite[on] EXCEPT !.live = x] \in Invitation
    BY <1>1, <1>4 DEF Invitation
  <2> QED
    BY <1>1, <1>4, <2>1
<1>5. ASSUME NEW u \in Users, NEW on \in Users,
             \/ refresh_org_invitation(u, on) \/ revoke_org_invitation(u, on)
             \/ invitation_expires(on)
      PROVE  UNCHANGED <<member, seat>> /\ invite' \in [Users -> Invitation \cup {NoInvite}]
  BY <1>1, <1>4, <1>5
     DEF refresh_org_invitation, revoke_org_invitation, invitation_expires, Live
<1>6. CASE prune_org_invitations
  BY <1>1, <1>6 DEF prune_org_invitations, Live
<1>7. ASSUME NEW s \in sessions, accept_invitation(s)
      PROVE  /\ member' \in [Users -> Roles \cup {"none"}] /\ seat' \in [Users -> BOOLEAN]
             /\ invite' \in [Users -> Invitation \cup {NoInvite}]
  <2>1. invite[s.user].role \in Roles \cup {"none"}
    BY <1>1, <1>7 DEF accept_invitation, accept_org_invitation, Live, Invitation, Roles
  <2> QED
    BY <1>1, <1>7, <2>1 DEF accept_invitation, accept_org_invitation
<1>8. ASSUME NEW r \in requests, insert_org_invitation(r)
      PROVE  UNCHANGED <<member, seat>> /\ invite' \in [Users -> Invitation \cup {NoInvite}]
  <2>1. [role |-> r.role, live |-> TRUE] \in Invitation
    BY <1>8 DEF insert_org_invitation, RequestsOK, Invitation
  <2> QED
    BY <1>1, <1>8, <2>1 DEF insert_org_invitation
<1>9. ASSUME NEW r \in requests, write_role(r)
      PROVE  /\ member' \in [Users -> Roles \cup {"none"}] /\ seat' \in [Users -> BOOLEAN]
             /\ invite' = invite
  <2>1. r.on \in Users /\ r.role \in Roles \cup {"none"}
    BY <1>1
  <2>2. member' \in [Users -> Roles \cup {"none"}] /\ invite' = invite
    BY <1>1, <1>9, <2>1 DEF write_role
  <2>3. seat' \in [Users -> BOOLEAN]
    BY <1>1, <1>9, <2>1 DEF write_role
  <2> QED
    BY <2>2, <2>3
<1>10. ASSUME NEW r \in requests, write_seat(r)
       PROVE  seat' \in [Users -> BOOLEAN] /\ UNCHANGED <<member, invite>>
  BY <1>1, <1>10 DEF write_seat
<1> QED
  BY <1>1, <1>2, <1>3, <1>5, <1>6, <1>7, <1>8, <1>9, <1>10
     DEF Direct, Opens, vars, signup, login_unverified, forgot_password, logout,
         set_session_org, approve_cli_authorization, create_cli_authorization,
         upsert_org_invitation, provision_personal_org, provisions, create_session, set_password,
         revoke_sessions_for_user, consume_cli_authorization, request_stops

\* What a step does to the users' accounts, links and workspaces.
LEMMA IdentityTypes ==
    ASSUME TypesOK, Direct \/ \E q \in RequestType : Opens(q)
    PROVE  /\ account' \in [Users -> AccountType] /\ links' \in [Users -> LinkType]
           /\ personal' \in [Users -> Nat]
<1>1. /\ account \in [Users -> AccountType] /\ links \in [Users -> LinkType]
      /\ personal \in [Users -> Nat] /\ \A r \in requests : r.on \in Users
  BY DEF TypesOK, RequestType
<1>2. CASE UNCHANGED <<account, links, personal>>
  BY <1>1, <1>2
<1>3. ASSUME NEW u \in Users,
             \/ account' = [account EXCEPT ![u].registered = TRUE]
             \/ account' = [account EXCEPT ![u].verified = TRUE]
             \/ account' = [account EXCEPT ![u].pw = @ + 1]
      PROVE  account' \in [Users -> AccountType]
  <2>1. /\ [account[u] EXCEPT !.registered = TRUE] \in AccountType
        /\ [account[u] EXCEPT !.verified = TRUE] \in AccountType
        /\ [account[u] EXCEPT !.pw = account[u].pw + 1] \in AccountType
    <3>1. account[u] \in AccountType
      BY <1>1
    <3>2. ASSUME NEW x \in BOOLEAN
          PROVE  /\ [account[u] EXCEPT !.registered = x] \in AccountType
                 /\ [account[u] EXCEPT !.verified = x] \in AccountType
      BY <3>1 DEF AccountType
    <3>3. [account[u] EXCEPT !.pw = account[u].pw + 1] \in AccountType
      BY <3>1 DEF AccountType
    <3> QED
      BY <3>2, <3>3
  <2>2. CASE account' = [account EXCEPT ![u].registered = TRUE]
    BY <1>1, <2>1, <2>2
  <2>3. CASE account' = [account EXCEPT ![u].verified = TRUE]
    BY <1>1, <2>1, <2>3
  <2>4. CASE account' = [account EXCEPT ![u].pw = @ + 1]
    BY <1>1, <2>1, <2>4
  <2> QED
    BY <1>3, <2>2, <2>3, <2>4
<1>4. ASSUME NEW u \in Users, NEW purpose \in {"verify", "reset"},
             create_email_token(u, purpose) \/ consume_email_token(u, purpose)
      PROVE  links' \in [Users -> LinkType]
  <2>1. links[u] \in LinkType /\ links[u][purpose] \in Nat
    BY <1>1 DEF LinkType
  <2>2. ASSUME NEW n \in Nat, links' = [links EXCEPT ![u][purpose] = n]
        PROVE  links' \in [Users -> LinkType]
    <3>1. [links[u] EXCEPT ![purpose] = n] \in LinkType
      BY <2>1 DEF LinkType
    <3> QED
      BY <1>1, <2>2, <3>1
  <2>3. CASE create_email_token(u, purpose)
    <3>1. links' = [links EXCEPT ![u][purpose] = links[u][purpose] + 1]
      BY <1>1, <2>3 DEF create_email_token
    <3>2. links[u][purpose] + 1 \in Nat
      BY <2>1
    <3> QED
      BY <2>2, <3>1, <3>2
  <2>4. CASE consume_email_token(u, purpose)
    <3>1. /\ links[u][purpose] > 0
          /\ links' = [links EXCEPT ![u][purpose] = links[u][purpose] - 1]
      BY <1>1, <2>4 DEF consume_email_token
    <3>2. links[u][purpose] - 1 \in Nat
      BY <2>1, <3>1
    <3> QED
      BY <2>2, <3>1, <3>2
  <2> QED
    BY <1>4, <2>3, <2>4
<1>5. ASSUME NEW u \in Users, signup(u) \/ login_unverified(u) \/ forgot_password(u)
      PROVE  /\ account' \in [Users -> AccountType] /\ links' \in [Users -> LinkType]
             /\ personal' = personal
  BY <1>1, <1>3, <1>4, <1>5 DEF signup, login_unverified, forgot_password
<1>6. ASSUME NEW q \in RequestType, Opens(q)
      PROVE  /\ account' \in [Users -> AccountType] /\ links' \in [Users -> LinkType]
             /\ personal' = personal
  <2>1. q.on \in Users
    BY DEF RequestType
  <2> QED
    BY <1>1, <1>3, <1>4, <1>6, <2>1 DEF Opens
<1>7. ASSUME NEW r \in requests, set_password(r) \/ revoke_sessions_for_user(r)
      PROVE  account' \in [Users -> AccountType] /\ UNCHANGED <<links, personal>>
  BY <1>1, <1>3, <1>7 DEF set_password, revoke_sessions_for_user
<1>8. ASSUME NEW r \in requests, provisions(r)
      PROVE  personal' \in [Users -> Nat] /\ UNCHANGED <<account, links>>
  BY <1>1, <1>8 DEF provision_personal_org, provisions
<1> QED
  BY <1>1, <1>2, <1>5, <1>6, <1>7, <1>8
     DEF Direct, vars, identity, add_member, refresh_org_invitation, revoke_org_invitation,
         invitation_expires, prune_org_invitations, accept_invitation, logout, set_session_org,
         approve_cli_authorization, create_cli_authorization, upsert_org_invitation,
         insert_org_invitation, write_role, write_seat, create_session,
         consume_cli_authorization, request_stops

\* What a step does to sessions, authorizations and counters.
LEMMA OtherTypes ==
    ASSUME TypesOK, RequestsOK, Direct \/ \E q \in RequestType : Opens(q)
    PROVE  /\ sessions' \subseteq SessionType /\ device' \in [Devices -> DeviceType]
           /\ started' \in Nat /\ unchecked' \in Nat
<1>1. /\ sessions \subseteq SessionType /\ device \in [Devices -> DeviceType]
      /\ started \in Nat /\ unchecked \in Nat
      /\ \A r \in requests : r.on \in Users /\ r.pw \in Nat
  BY DEF TypesOK, RequestType
<1>2. started' \in Nat
  <2>1. CASE Direct
    <3>1. started' \in {started, started + 1}
      BY <2>1 DEF Direct, vars, Call, add_member, refresh_org_invitation,
             revoke_org_invitation, invitation_expires, signup, login_unverified,
             forgot_password, prune_org_invitations, accept_invitation, logout,
             set_session_org, approve_cli_authorization, create_cli_authorization,
             upsert_org_invitation, insert_org_invitation, write_role, write_seat, provisions,
             provision_personal_org, create_session, set_password, revoke_sessions_for_user,
             consume_cli_authorization, request_stops
    <3> QED
      BY <1>1, <3>1
  <2>2. ASSUME NEW q \in RequestType, Opens(q) PROVE started' \in Nat
    BY <1>1, <2>2 DEF Opens
  <2> QED
    BY <2>1, <2>2
<1>3. unchecked' \in Nat
  <2>1. unchecked' \in {unchecked, unchecked + 1}
    BY DEF Direct, Opens, vars, history, add_member, refresh_org_invitation,
           revoke_org_invitation, invitation_expires, signup, login_unverified, forgot_password,
           prune_org_invitations, accept_invitation, logout, set_session_org,
           approve_cli_authorization, create_cli_authorization, upsert_org_invitation,
           insert_org_invitation, write_role, write_seat, provision_personal_org, provisions,
           create_session, set_password, revoke_sessions_for_user, consume_cli_authorization,
           request_stops
  <2> QED
    BY <1>1, <2>1
<1>4. device' \in [Devices -> DeviceType]
  <2>1. ASSUME NEW d \in Devices, NEW state \in {"pending", "approved"}, State(d, state)
        PROVE  device' \in [Devices -> DeviceType]
    <3>1. [device[d] EXCEPT !.state = state] \in DeviceType
      BY <1>1, <2>1 DEF DeviceType
    <3> QED
      BY <1>1, <2>1, <3>1 DEF State
  <2>2. ASSUME NEW r \in requests, consume_cli_authorization(r)
        PROVE  device' \in [Devices -> DeviceType]
    <3>1. r.device \in Devices
      BY <2>2 DEF consume_cli_authorization, RequestsOK
    <3>2. [state |-> "consumed", minted |-> device[r.device].minted + 1] \in DeviceType
      BY <1>1, <3>1 DEF DeviceType
    <3> QED
      BY <1>1, <2>2, <3>1, <3>2 DEF consume_cli_authorization
  <2>3. CASE device' = device
    BY <1>1, <2>3
  <2> QED
    BY <2>1, <2>2, <2>3
       DEF Direct, Opens, vars, add_member, refresh_org_invitation, revoke_org_invitation,
           invitation_expires, signup, login_unverified, forgot_password, prune_org_invitations,
           accept_invitation, logout, set_session_org, approve_cli_authorization,
           create_cli_authorization, upsert_org_invitation, insert_org_invitation, write_role,
           write_seat, provision_personal_org, provisions, create_session, set_password,
           revoke_sessions_for_user, request_stops
<1>5. sessions' \subseteq SessionType
  <2>1. ASSUME NEW s \in sessions, NEW org \in {"team", "personal"},
               sessions' = (sessions \ {s}) \cup {[s EXCEPT !.org = org]}
        PROVE  sessions' \subseteq SessionType
    <3>1. [s EXCEPT !.org = org] \in SessionType
      BY <1>1 DEF SessionType
    <3> QED
      BY <1>1, <2>1, <3>1
  <2>2. ASSUME NEW r \in requests, create_session(r)
        PROVE  sessions' \subseteq SessionType
    <3> DEFINE org == user_and_org_for_session([user |-> r.on, org |-> "none"])
    <3>1. sessions' = sessions \cup {[user |-> r.on, pw |-> r.pw, org |-> org]}
      BY <2>2 DEF create_session
    <3>2. org \in {"team", "personal", "none"}
      BY DEF user_and_org_for_session
    <3> HIDE DEF org
    <3>3. [user |-> r.on, pw |-> r.pw, org |-> org] \in SessionType
      BY <1>1, <3>2 DEF SessionType
    <3> QED
      BY <1>1, <3>1, <3>3
  <2>3. CASE sessions' \subseteq sessions
    BY <1>1, <2>3
  <2> QED
    BY <2>1, <2>2, <2>3
       DEF Direct, Opens, vars, identity, add_member, refresh_org_invitation,
           revoke_org_invitation, invitation_expires, signup, login_unverified, forgot_password,
           prune_org_invitations, accept_invitation, logout, set_session_org,
           approve_cli_authorization, create_cli_authorization, upsert_org_invitation,
           insert_org_invitation, write_role, write_seat, provision_personal_org, provisions,
           set_password, revoke_sessions_for_user, consume_cli_authorization, request_stops
<1> QED
  BY <1>2, <1>3, <1>4, <1>5

\* The requests that go on to another write.
Moves(r) == \/ provisions(r) \/ set_password(r)
            \/ upsert_org_invitation(r) /\ ~(Reserved(r.on) >= SeatLimit)

\* What becomes of the requests.
LEMMA RequestCases ==
    ASSUME Direct
    PROVE  \/ requests' = requests
           \/ \E r \in requests :
                 \/ /\ Close(r)
                    /\ \/ upsert_org_invitation(r) \/ insert_org_invitation(r) \/ write_role(r)
                       \/ write_seat(r) \/ create_session(r) \/ revoke_sessions_for_user(r)
                       \/ consume_cli_authorization(r) \/ request_stops(r)
                 \/ Moves(r)
<1>1. ASSUME NEW r \in requests, upsert_org_invitation(r) PROVE Close(r) \/ Moves(r)
  BY <1>1 DEF upsert_org_invitation, Moves
<1>2. ASSUME NEW r \in requests, \/ insert_org_invitation(r) \/ write_role(r) \/ write_seat(r)
                                \/ create_session(r) \/ revoke_sessions_for_user(r)
                                \/ consume_cli_authorization(r) \/ request_stops(r)
      PROVE  Close(r)
  BY <1>2 DEF insert_org_invitation, write_role, write_seat, create_session,
              revoke_sessions_for_user, consume_cli_authorization, request_stops
<1>3. ASSUME NEW r \in requests, provisions(r) \/ set_password(r) PROVE Moves(r)
  BY <1>3 DEF Moves
<1>4. CASE \E r \in requests :
              \/ upsert_org_invitation(r) \/ insert_org_invitation(r)
              \/ write_role(r) \/ write_seat(r) \/ provisions(r) \/ create_session(r)
              \/ set_password(r) \/ revoke_sessions_for_user(r)
              \/ consume_cli_authorization(r) \/ request_stops(r)
  BY <1>1, <1>2, <1>3, <1>4
<1>5. ASSUME NEW s \in sessions,
             \/ accept_invitation(s) \/ logout(s)
             \/ \E org \in {"team", "personal"} : set_session_org(s, org)
             \/ \E d \in Devices : approve_cli_authorization(s, d)
      PROVE  requests' = requests
  BY <1>5 DEF accept_invitation, logout, set_session_org, approve_cli_authorization
<1> QED
  BY <1>4, <1>5 DEF Direct, vars, add_member, refresh_org_invitation, revoke_org_invitation,
                    invitation_expires, signup, login_unverified, forgot_password,
                    prune_org_invitations, create_cli_authorization

\* A reservation counts seats.
LEMMA ReservedType ==
    ASSUME NEW u \in Users
    PROVE  Reserved(u) \in Nat
<1>1. Seated \subseteq Users /\ {v \in Users \ {u} : Live(v)} \subseteq Users
  BY DEF Seated
<1>2. Cardinality(Seated) \in Nat /\ Cardinality({v \in Users \ {u} : Live(v)}) \in Nat
  BY <1>1, AccountsAssumption, FS_Subset, FS_CardinalityType
<1> QED
  BY <1>2 DEF Reserved

\* A request that goes on to its next write.
LEMMA MovedRequest ==
    ASSUME TypesOK, NEW r \in requests, Moves(r)
    PROVE  \E q \in RequestType :
              /\ requests' = (requests \ {r}) \cup {q} /\ q.on = r.on /\ q.role = r.role
              /\ q.device = r.device
              /\ \/ provisions(r) /\ r.op = "session" /\ q.op = "session" /\ ~q.need
                 \/ set_password(r) /\ r.op = "password" /\ q.op = "revoke" /\ (q.need = r.need)
                 \/ /\ upsert_org_invitation(r) /\ r.op = "invite" /\ q.op = "insert"
                    /\ q.need = r.need /\ q.taken < SeatLimit
<1>1. r \in RequestType
  BY DEF TypesOK
<1>2. CASE provisions(r)
  <2> DEFINE q == [r EXCEPT !.need = FALSE]
  <2>1. ASSUME NEW x \in BOOLEAN
        PROVE  [r EXCEPT !.need = x] \in RequestType
    BY <1>1 DEF RequestType
  <2>2. q \in RequestType
    BY <2>1
  <2>3. ~q.need /\ q.op = r.op /\ q.on = r.on /\ q.role = r.role /\ q.device = r.device
    BY <1>1 DEF RequestType
  <2>4. requests' = (requests \ {r}) \cup {q} /\ r.op = "session"
    BY <1>2 DEF provisions, provision_personal_org, Becomes
  <2> HIDE DEF q
  <2> QED
    BY <1>2, <2>2, <2>3, <2>4
<1>3. CASE set_password(r)
  <2> DEFINE q == [r EXCEPT !.op = "revoke"]
  <2>1. q \in RequestType
    BY <1>1 DEF RequestType
  <2>2. /\ (q.need = r.need) /\ q.op = "revoke" /\ q.on = r.on /\ q.role = r.role
        /\ q.device = r.device
    BY <1>1 DEF RequestType
  <2>3. requests' = (requests \ {r}) \cup {q} /\ r.op = "password"
    BY <1>3 DEF set_password, Becomes
  <2> HIDE DEF q
  <2> QED
    BY <1>3, <2>1, <2>2, <2>3
<1>4. CASE upsert_org_invitation(r) /\ ~(Reserved(r.on) >= SeatLimit)
  <2> DEFINE n == Reserved(r.on)
             q == [r EXCEPT !.op = "insert", !.taken = n]
  <2>1. n \in Nat /\ n < SeatLimit
    <3>1. r.on \in Users
      BY <1>1 DEF RequestType
    <3>2. Reserved(r.on) \in Nat
      BY <3>1, ReservedType
    <3> QED
      BY <1>4, <3>2, AccountsAssumption
  <2>2. requests' = (requests \ {r}) \cup {q} /\ r.op = "invite"
    BY <1>4 DEF upsert_org_invitation, Becomes
  <2> HIDE DEF n
  <2>3. q \in RequestType
    BY <1>1, <2>1 DEF RequestType
  <2>4. /\ (q.need = r.need) /\ q.op = "insert" /\ q.on = r.on /\ q.role = r.role
        /\ q.device = r.device /\ q.taken = n
    BY <1>1 DEF RequestType
  <2> HIDE DEF q
  <2> QED
    BY <1>4, <2>1, <2>2, <2>3, <2>4
<1> QED
  BY <1>2, <1>3, <1>4 DEF Moves

\* Every step preserves the types, of open requests too.
LEMMA TypesStep ==
    ASSUME TypesOK, RequestsOK, [Next]_vars
    PROVE  TypesOK' /\ RequestsOK'
<1>1. Direct \/ \E q \in RequestType : Opens(q)
  BY StepCases
<1>2. requests \subseteq RequestType
  BY DEF TypesOK
<1>3. ASSUME NEW q \in RequestType, Opens(q)
      PROVE  requests' \subseteq RequestType /\ RequestsOK'
  <2>1. /\ q.op \in {"invite", "insert"} => q.role \in {"admin", "member"}
        /\ q.op = "cli" => q.device \in Devices
        /\ q.need => q.op = "session"
    BY <1>3 DEF Opens, Reads, RoleWrites
  <2>2. requests' = requests \cup {q}
    BY <1>3 DEF Opens
  <2> QED
    BY <1>2, <2>1, <2>2 DEF RequestsOK
<1>4. ASSUME requests' \subseteq requests
      PROVE  requests' \subseteq RequestType /\ RequestsOK'
  BY <1>2, <1>4 DEF RequestsOK
<1>5. ASSUME NEW r \in requests, Moves(r)
      PROVE  requests' \subseteq RequestType /\ RequestsOK'
  <2>1. PICK q \in RequestType :
           /\ requests' = (requests \ {r}) \cup {q} /\ q.on = r.on /\ q.role = r.role
           /\ \/ r.op = "session" /\ q.op = "session" /\ ~q.need
              \/ r.op = "password" /\ q.op = "revoke" /\ (q.need = r.need)
              \/ r.op = "invite" /\ q.op = "insert" /\ (q.need = r.need)
    BY <1>5, MovedRequest
  <2>2. /\ q.op \in {"session", "revoke", "insert"}
        /\ q.need => q.op = "session"
        /\ q.op = "insert" => q.role \in {"admin", "member"}
    BY <2>1 DEF RequestsOK
  <2> QED
    BY <1>2, <2>1, <2>2 DEF RequestsOK
<1>6. requests' \subseteq RequestType /\ RequestsOK'
  BY <1>1, <1>3, <1>4, <1>5, RequestCases DEF Close
<1> QED
  BY <1>1, <1>6, TeamTypes, IdentityTypes, OtherTypes DEF TypesOK

-----------------------------------------------------------------------------
(* The team. *)

\* Only these change who is a member, and who holds a seat.
LEMMA MemberCases ==
    ASSUME Direct \/ \E q \in RequestType : Opens(q)
    PROVE  \/ UNCHANGED <<member, seat, ousted>>
           \/ \E u, on \in Users, role \in {"admin", "member"} : add_member(u, on, role)
           \/ \E s \in sessions : accept_invitation(s)
           \/ \E r \in requests : write_role(r) \/ write_seat(r)
BY DEF Direct, Opens, vars, team, history, refresh_org_invitation, revoke_org_invitation,
       invitation_expires, prune_org_invitations, signup, login_unverified, forgot_password,
       logout, set_session_org, approve_cli_authorization, create_cli_authorization,
       upsert_org_invitation, insert_org_invitation, provision_personal_org, provisions,
       create_session, set_password, revoke_sessions_for_user, consume_cli_authorization,
       request_stops

\* What an accepted invitation makes of its user.
LEMMA AcceptEffect ==
    ASSUME TypesOK, NEW s \in sessions, accept_invitation(s)
    PROVE  /\ s.user \in Users /\ Live(s.user) /\ invite[s.user].role \in {"admin", "member"}
           /\ member' = [member EXCEPT ![s.user] = invite[s.user].role]
           /\ seat' = [seat EXCEPT ![s.user] = TRUE]
           /\ invite' = [invite EXCEPT ![s.user] = NoInvite]
           /\ ousted' = (ousted \/ member[s.user] = "owner") /\ unchecked' = unchecked
BY DEF TypesOK, SessionType, Invitation, Live, accept_invitation, accept_org_invitation

\* Whoever leaves the team gives the seat back.
LEMMA SeatedStep ==
    ASSUME TypesOK, SeatedAreMembers, Direct \/ \E q \in RequestType : Opens(q)
    PROVE  SeatedAreMembers'
<1>1. /\ member \in [Users -> Roles \cup {"none"}] /\ seat \in [Users -> BOOLEAN]
      /\ \A r \in requests : r.on \in Users
  BY DEF TypesOK, RequestType
<1>2. CASE UNCHANGED <<member, seat, ousted>>
  BY <1>2 DEF SeatedAreMembers
<1>3. ASSUME NEW u \in Users, NEW on \in Users, NEW role \in {"admin", "member"},
             add_member(u, on, role)
      PROVE  SeatedAreMembers'
  BY <1>1, <1>3 DEF add_member, SeatedAreMembers
<1>4. ASSUME NEW s \in sessions, accept_invitation(s) PROVE SeatedAreMembers'
  BY <1>1, <1>4, AcceptEffect DEF SeatedAreMembers
<1>5. ASSUME NEW r \in requests, write_role(r) PROVE SeatedAreMembers'
  BY <1>1, <1>5 DEF write_role, SeatedAreMembers
<1>6. ASSUME NEW r \in requests, write_seat(r) PROVE SeatedAreMembers'
  BY <1>1, <1>6 DEF write_seat, SeatedAreMembers
<1> QED
  BY <1>2, <1>3, <1>4, <1>5, <1>6, MemberCases

\* The owners after one role was written.
LEMMA OwnersAfter ==
    ASSUME TypesOK, NEW u \in Users, NEW role, member' = [member EXCEPT ![u] = role]
    PROVE  Owners \ {u} \subseteq Owners' /\ (role = "owner" => u \in Owners')
BY DEF TypesOK, Owners

\* A role write that takes an owner away leaves the other one it has read.
LEMMA OwnerRemainsStep ==
    ASSUME TypesOK, RequestsOK, OwnerRemains, OwnersRead,
           Direct \/ \E q \in RequestType : Opens(q)
    PROVE  OwnerRemains'
<1>1. \A r \in requests : r.on \in Users
  BY DEF TypesOK, RequestType
<1>2. CASE UNCHANGED <<member, seat, ousted>>
  BY <1>2 DEF OwnerRemains, Owners
<1>3. ASSUME NEW u \in Users, NEW role, member' = [member EXCEPT ![u] = role],
             ousted' = (ousted \/ member[u] = "owner")
      PROVE  OwnerRemains'
  <2>1. Owners \ {u} \subseteq Owners'
    BY <1>3, OwnersAfter
  <2> QED
    BY <1>3, <2>1 DEF OwnerRemains, Owners
<1>4. ASSUME NEW u \in Users, NEW on \in Users, NEW role \in {"admin", "member"},
             add_member(u, on, role)
      PROVE  OwnerRemains'
  BY <1>3, <1>4 DEF add_member
<1>5. ASSUME NEW s \in sessions, accept_invitation(s) PROVE OwnerRemains'
  BY <1>3, <1>5, AcceptEffect
<1>6. ASSUME NEW r \in requests, write_role(r) PROVE OwnerRemains'
  <2> DEFINE new == IF r.op = "role" /\ member[r.on] = "none" THEN "none" ELSE r.role
             taken == member[r.on] = "owner" /\ new # "owner"
  <2>1. /\ member' = [member EXCEPT ![r.on] = new] /\ r.op \in RoleWrites
        /\ ousted' = (ousted \/ (taken /\ (r.blind \/ Owners # r.owners)))
    BY <1>6 DEF write_role, RoleWrites
  <2>2. member[r.on] = "owner" => new = r.role
    OBVIOUS
  <2>3. taken <=> member[r.on] = "owner" /\ new # "owner"
    OBVIOUS
  <2> HIDE DEF new, taken
  <2>4. Owners \ {r.on} \subseteq Owners' /\ (new = "owner" => r.on \in Owners')
    BY <1>1, <2>1, OwnersAfter
  <2>5. r.on \in Owners <=> member[r.on] = "owner"
    BY <1>1 DEF Owners
  <2>6. CASE ~taken
    BY <2>1, <2>3, <2>4, <2>5, <2>6 DEF OwnerRemains
  <2>7. CASE taken /\ (r.blind \/ Owners # r.owners)
    BY <2>1, <2>7 DEF OwnerRemains
  <2>8. CASE taken /\ ~r.blind /\ Owners = r.owners
    <3>1. Owners \ {r.on} # {}
      BY <2>1, <2>2, <2>3, <2>5, <2>8 DEF OwnersRead
    <3> QED
      BY <2>4, <3>1 DEF OwnerRemains
  <2> QED
    BY <2>6, <2>7, <2>8
<1>7. ASSUME NEW r \in requests, write_seat(r) PROVE OwnerRemains'
  BY <1>2, <1>7 DEF write_seat, OwnerRemains, Owners
<1> QED
  BY <1>2, <1>4, <1>5, <1>6, <1>7, MemberCases

\* A request that may take an owner away has read another.
LEMMA OwnersReadStep ==
    ASSUME TypesOK, OwnersRead, Direct \/ \E q \in RequestType : Opens(q)
    PROVE  OwnersRead'
<1>1. ASSUME NEW q \in RequestType, Opens(q) PROVE OwnersRead'
  <2>1. IsFiniteSet(Owners)
    <3>1. Owners \subseteq Users
      BY DEF Owners
    <3> QED
      BY <3>1, AccountsAssumption, FS_Subset
  <2>2. ASSUME ~LastOwner PROVE Owners \ {q.on} # {}
    <3>1. SUFFICES ASSUME Owners \ {q.on} = {} PROVE FALSE
      OBVIOUS
    <3>2. Owners = {} \/ Owners = {q.on}
      BY <3>1
    <3>3. Cardinality(Owners) \in {0, 1}
      BY <3>2, FS_Singleton, FS_EmptySet
    <3> QED
      BY <2>2, <3>3 DEF LastOwner
  <2>3. q.op \in RoleWrites /\ ~q.blind =>
           q.owners = Owners /\ (member[q.on] = "owner" => q.role = "owner" \/ ~LastOwner)
    BY <1>1 DEF Opens, Reads, RoleWrites
  <2>4. q.on \in Owners => member[q.on] = "owner"
    BY DEF Owners
  <2>5. q.op \in RoleWrites /\ ~q.blind /\ q.on \in q.owners =>
           q.role = "owner" \/ q.owners \ {q.on} # {}
    BY <2>2, <2>3, <2>4
  <2>6. requests' = requests \cup {q}
    BY <1>1 DEF Opens
  <2> QED
    BY <2>5, <2>6 DEF OwnersRead
<1>2. ASSUME requests' \subseteq requests PROVE OwnersRead'
  BY <1>2 DEF OwnersRead
<1>3. ASSUME NEW r \in requests, Moves(r) PROVE OwnersRead'
  <2>1. PICK q \in RequestType :
           requests' = (requests \ {r}) \cup {q} /\ q.op \in {"session", "revoke", "insert"}
    BY <1>3, MovedRequest
  <2> QED
    BY <2>1 DEF OwnersRead, RoleWrites
<1> QED
  BY <1>1, <1>2, <1>3, RequestCases DEF Close

\* An invitation or a grant that is about to be written has counted a free seat.
LEMMA SeatsReadStep ==
    ASSUME TypesOK, SeatsRead, Direct \/ \E q \in RequestType : Opens(q)
    PROVE  SeatsRead'
<1>1. ASSUME NEW q \in RequestType, Opens(q) PROVE SeatsRead'
  <2>1. requests' = requests \cup {q}
    BY <1>1 DEF Opens
  <2>2. q.op # "insert" /\ (q.op = "seat" /\ ~q.blind => q.taken < SeatLimit)
    BY <1>1 DEF Opens, Reads, RoleWrites
  <2> QED
    BY <2>1, <2>2 DEF SeatsRead
<1>2. ASSUME requests' \subseteq requests PROVE SeatsRead'
  BY <1>2 DEF SeatsRead
<1>3. ASSUME NEW r \in requests, Moves(r) PROVE SeatsRead'
  <2>1. PICK q \in RequestType :
           /\ requests' = (requests \ {r}) \cup {q}
           /\ q.op \in {"session", "revoke"} \/ (q.op = "insert" /\ q.taken < SeatLimit)
    BY <1>3, MovedRequest
  <2> QED
    BY <2>1 DEF SeatsRead
<1> QED
  BY <1>1, <1>2, <1>3, RequestCases DEF Close

-----------------------------------------------------------------------------
(* Sessions and passwords. *)

\* A step of the identity that makes no session, writes no password and drops
\* no revocation.
Quiet ==
    /\ \A u \in Users : account'[u].pw = account[u].pw
    /\ slipped \subseteq slipped'
    /\ \A s \in sessions' : \E t \in sessions : t.user = s.user /\ t.pw = s.pw
    /\ \A r \in requests : r.op = "revoke" => r \in requests'

\* A quiet step keeps the sessions in order.
LEMMA QuietKeeps ==
    ASSUME TypesOK, ResetEndsSessions, Quiet
    PROVE  ResetEndsSessions'
<1> SUFFICES ASSUME NEW s \in sessions'
             PROVE  \/ s.pw = account'[s.user].pw
                    \/ s.user \in slipped'
                    \/ \E r \in requests' : r.op = "revoke" /\ r.on = s.user
  BY DEF ResetEndsSessions
<1>1. PICK t \in sessions : t.user = s.user /\ t.pw = s.pw
  BY DEF Quiet
<1>2. t.user \in Users
  BY DEF TypesOK, SessionType
<1> QED
  BY <1>1, <1>2 DEF ResetEndsSessions, Quiet

\* The steps that are not quiet.
LEMMA QuietCases ==
    ASSUME TypesOK, Direct \/ \E q \in RequestType : Opens(q)
    PROVE  \/ Quiet
           \/ \E r \in requests : \/ create_session(r) \/ set_password(r)
                                  \/ revoke_sessions_for_user(r) \/ request_stops(r)
<1>1. /\ account \in [Users -> AccountType] /\ sessions \subseteq SessionType
      /\ requests \subseteq RequestType
  BY DEF TypesOK
<1>2. CASE UNCHANGED <<account, sessions, requests, slipped>>
  BY <1>2 DEF Quiet
<1>3. ASSUME NEW u \in Users, account' = [account EXCEPT ![u].verified = TRUE]
      PROVE  \A v \in Users : account'[v].pw = account[v].pw
  BY <1>1, <1>3 DEF AccountType
<1>4. ASSUME NEW q \in RequestType, Opens(q) PROVE Quiet
  <2>1. /\ requests' = requests \cup {q} /\ sessions' = sessions /\ slipped' = slipped
        /\ q.on \in Users
        /\ account' = account \/ account' = [account EXCEPT ![q.on].verified = TRUE]
    BY <1>4 DEF Opens, RequestType
  <2> QED
    BY <1>3, <2>1 DEF Quiet
<1>5. ASSUME NEW u \in Users, signup(u) PROVE Quiet
  <2>1. \A v \in Users : account'[v].pw = account[v].pw
    BY <1>1, <1>5 DEF signup, AccountType
  <2> QED
    BY <1>5, <2>1 DEF signup, history, Quiet
<1>6. ASSUME NEW s \in sessions, NEW org,
             sessions' = (sessions \ {s}) \cup {[s EXCEPT !.org = org]}
      PROVE  \A x \in sessions' : \E t \in sessions : t.user = x.user /\ t.pw = x.pw
  <2>1. s \in SessionType
    BY <1>1
  <2>2. [s EXCEPT !.org = org].user = s.user /\ [s EXCEPT !.org = org].pw = s.pw
    BY <2>1 DEF SessionType
  <2> QED
    BY <1>6, <2>2
<1>7. ASSUME NEW s \in sessions, accept_invitation(s) PROVE Quiet
  BY <1>6, <1>7 DEF accept_invitation, Quiet
<1>8. ASSUME NEW s \in sessions, NEW org \in {"team", "personal"}, set_session_org(s, org)
      PROVE  Quiet
  BY <1>6, <1>8 DEF set_session_org, history, Quiet
<1>9. ASSUME NEW s \in sessions, logout(s) PROVE Quiet
  BY <1>9 DEF logout, history, Quiet
<1>10. ASSUME NEW r \in requests,
              \/ upsert_org_invitation(r) \/ insert_org_invitation(r)
              \/ write_role(r) \/ write_seat(r) \/ consume_cli_authorization(r)
       PROVE  Quiet
  <2>1. /\ UNCHANGED <<account, sessions, slipped>> /\ requests \ {r} \subseteq requests'
        /\ r.op # "revoke"
    BY <1>10 DEF upsert_org_invitation, insert_org_invitation, write_role, write_seat,
                 consume_cli_authorization, identity, history, Close, Becomes
  <2> QED
    BY <2>1 DEF Quiet
<1>11. ASSUME NEW r \in requests, provisions(r) PROVE Quiet
  <2>1. /\ UNCHANGED <<account, sessions, slipped>> /\ r.op = "session"
        /\ \A q \in requests : q # r => q \in requests'
    BY <1>11 DEF provisions, provision_personal_org, history, Becomes
  <2> QED
    BY <2>1 DEF Quiet
<1> QED
  BY <1>2, <1>4, <1>5, <1>7, <1>8, <1>9, <1>10, <1>11
     DEF Direct, vars, identity, history, add_member, refresh_org_invitation,
         revoke_org_invitation, invitation_expires, login_unverified, forgot_password,
         prune_org_invitations, approve_cli_authorization, create_cli_authorization

\* A new session is of the current password, and a new password revokes.
LEMMA ResetStep ==
    ASSUME TypesOK, RequestsOK, ResetEndsSessions, Direct \/ \E q \in RequestType : Opens(q)
    PROVE  ResetEndsSessions'
<1>1. /\ account \in [Users -> AccountType] /\ sessions \subseteq SessionType
      /\ requests \subseteq RequestType
      /\ \A r \in requests : r.on \in Users
      /\ \A s \in sessions : s.user \in Users
  BY DEF TypesOK, SessionType, RequestType
<1>2. ASSUME NEW r \in requests, create_session(r) PROVE ResetEndsSessions'
  <2> DEFINE org == user_and_org_for_session([user |-> r.on, org |-> "none"])
             new == [user |-> r.on, pw |-> r.pw, org |-> org]
  <2>1. /\ sessions' = sessions \cup {new} /\ account' = account
        /\ slipped' = IF r.pw # account[r.on].pw THEN slipped \cup {r.on} ELSE slipped
        /\ requests' = requests \ {r} /\ r.op = "session"
    BY <1>2 DEF create_session, Close
  <2>2. new.user = r.on /\ new.pw = r.pw
    OBVIOUS
  <2> HIDE DEF new
  <2>3. \A q \in requests : q.op = "revoke" => q \in requests'
    BY <2>1
  <2>4. new.pw = account'[new.user].pw \/ new.user \in slipped'
    BY <2>1, <2>2
  <2>5. slipped \subseteq slipped'
    BY <2>1
  <2> QED
    BY <2>1, <2>3, <2>4, <2>5 DEF ResetEndsSessions
<1>3. ASSUME NEW r \in requests, set_password(r) PROVE ResetEndsSessions'
  <2>1. PICK q \in RequestType : /\ requests' = (requests \ {r}) \cup {q} /\ q.on = r.on
                                 /\ r.op = "password" /\ q.op = "revoke"
    BY <1>3, MovedRequest DEF Moves, provisions, provision_personal_org, set_password,
                              upsert_org_invitation
  <2>2. UNCHANGED <<sessions, slipped>>
    BY <1>3 DEF set_password, history
  <2>3. \A u \in Users : u # r.on => account'[u].pw = account[u].pw
    BY <1>1, <1>3 DEF set_password
  <2>4. q \in requests' /\ \A p \in requests : p.op = "revoke" => p \in requests'
    BY <2>1
  <2> QED
    BY <1>1, <2>1, <2>2, <2>3, <2>4 DEF ResetEndsSessions
<1>4. ASSUME NEW r \in requests, revoke_sessions_for_user(r) PROVE ResetEndsSessions'
  <2>1. /\ sessions' = {s \in sessions : s.user # r.on} /\ requests' = requests \ {r}
        /\ account' = [account EXCEPT ![r.on].verified = TRUE] /\ slipped' = slipped
    BY <1>4 DEF revoke_sessions_for_user, Close, history
  <2>2. \A u \in Users : account'[u].pw = account[u].pw
    BY <1>1, <2>1 DEF AccountType
  <2> QED
    BY <1>1, <2>1, <2>2 DEF ResetEndsSessions
<1>5. ASSUME NEW r \in requests, request_stops(r) PROVE ResetEndsSessions'
  <2>1. /\ UNCHANGED <<sessions, account>> /\ requests' = requests \ {r}
        /\ slipped' = IF r.op = "revoke" THEN slipped \cup {r.on} ELSE slipped
    BY <1>5 DEF request_stops, Close, identity
  <2> QED
    BY <2>1 DEF ResetEndsSessions
<1> QED
  BY <1>2, <1>3, <1>4, <1>5, QuietCases, QuietKeeps

-----------------------------------------------------------------------------
(* What is used once. *)

\* The key of an authorization is minted by the consuming statement alone.
LEMMA MintedStep ==
    ASSUME TypesOK, RequestsOK, MintedOnce, Direct \/ \E q \in RequestType : Opens(q)
    PROVE  MintedOnce'
<1>1. device \in [Devices -> DeviceType]
  BY DEF TypesOK
<1>2. CASE device' = device
  BY <1>2 DEF MintedOnce
<1>3. ASSUME NEW d \in Devices, device[d].state # "consumed",
             State(d, "pending") \/ State(d, "approved")
      PROVE  MintedOnce'
  <2>1. PICK state \in {"pending", "approved"} :
           device' = [device EXCEPT ![d] = [device[d] EXCEPT !.state = state]]
    BY <1>1, <1>3 DEF State
  <2>2. /\ [device[d] EXCEPT !.state = state].state = state
        /\ [device[d] EXCEPT !.state = state].minted = device[d].minted
    BY <1>1 DEF DeviceType
  <2>3. device'[d].state = state /\ device'[d].minted = device[d].minted
    BY <1>1, <2>1, <2>2
  <2>4. \A e \in Devices \ {d} : device'[e] = device[e]
    BY <1>1, <2>1
  <2> QED
    BY <1>3, <2>3, <2>4 DEF MintedOnce
<1>4. ASSUME NEW r \in requests, consume_cli_authorization(r) PROVE MintedOnce'
  <2> DEFINE d == r.device
  <2>1. d \in Devices
    BY <1>4 DEF consume_cli_authorization, RequestsOK
  <2>2. CASE device[d].state = "approved"
    <3>1. device' = [device EXCEPT ![d] =
                        [state |-> "consumed", minted |-> device[d].minted + 1]]
      BY <1>1, <1>4, <2>1, <2>2 DEF consume_cli_authorization
    <3>2. device'[d].state = "consumed" /\ device'[d].minted = device[d].minted + 1
      BY <1>1, <2>1, <3>1
    <3>3. device[d].minted = 0
      BY <2>1, <2>2 DEF MintedOnce
    <3>4. \A e \in Devices \ {d} : device'[e] = device[e]
      BY <1>1, <3>1
    <3> QED
      BY <2>1, <3>2, <3>3, <3>4 DEF MintedOnce
  <2> QED
    BY <1>2, <1>4, <2>2 DEF consume_cli_authorization
<1>5. ASSUME NEW s \in sessions, NEW d \in Devices, approve_cli_authorization(s, d)
      PROVE  MintedOnce'
  BY <1>3, <1>5 DEF approve_cli_authorization, cli_authorization_state
<1>6. ASSUME NEW d \in Devices, create_cli_authorization(d) PROVE MintedOnce'
  BY <1>3, <1>6 DEF create_cli_authorization, cli_authorization_state
<1> QED
  BY <1>2, <1>4, <1>5, <1>6
     DEF Direct, Opens, vars, add_member, refresh_org_invitation, revoke_org_invitation,
         invitation_expires, signup, login_unverified, forgot_password, prune_org_invitations,
         accept_invitation, logout, set_session_org, upsert_org_invitation,
         insert_org_invitation, write_role, write_seat, provision_personal_org, provisions,
         create_session, set_password, revoke_sessions_for_user, request_stops

\* Only a provisioning makes a workspace, only a request that opens overlaps.
LEMMA WorkspaceCases ==
    ASSUME Direct
    PROVE  /\ unseen' = unseen
           /\ \/ personal' = personal
              \/ \E r \in requests : provisions(r)
BY DEF Direct, vars, identity, history, add_member, refresh_org_invitation,
       revoke_org_invitation, invitation_expires, signup, login_unverified, forgot_password,
       prune_org_invitations, accept_invitation, logout, set_session_org,
       approve_cli_authorization, create_cli_authorization, upsert_org_invitation,
       insert_org_invitation, write_role, write_seat, provision_personal_org, provisions,
       create_session, set_password, revoke_sessions_for_user, consume_cli_authorization,
       request_stops

\* A workspace is made by the one request that found none.
LEMMA WorkspaceStep ==
    ASSUME TypesOK, RequestsOK, OneWorkspace, NeedIsReal, NeedIsUnique,
           Direct \/ \E q \in RequestType : Opens(q)
    PROVE  OneWorkspace' /\ NeedIsReal' /\ NeedIsUnique'
<1>1. personal \in [Users -> Nat] /\ \A r \in requests : r.on \in Users
  BY DEF TypesOK, RequestType
<1>2. ASSUME NEW q \in RequestType, Opens(q)
      PROVE  OneWorkspace' /\ NeedIsReal' /\ NeedIsUnique'
  <2>1. requests' = requests \cup {q} /\ personal' = personal /\ unseen \subseteq unseen'
    BY <1>2 DEF Opens, Seeks
  <2>2. q.need /\ q.on \notin unseen' =>
           personal[q.on] = 0 /\ \A r \in requests : ~(r.need /\ r.on = q.on)
    BY <1>2 DEF Opens, Seeks
  <2>3. OneWorkspace' /\ NeedIsReal'
    BY <2>1, <2>2 DEF OneWorkspace, NeedIsReal
  <2>4. NeedIsUnique'
    BY <2>1, <2>2 DEF NeedIsUnique
  <2> QED
    BY <2>3, <2>4
<1>3. ASSUME UNCHANGED <<personal, unseen>>, requests' \subseteq requests
      PROVE  OneWorkspace' /\ NeedIsReal' /\ NeedIsUnique'
  BY <1>3 DEF OneWorkspace, NeedIsReal, NeedIsUnique
<1>4. ASSUME NEW r \in requests, provisions(r)
      PROVE  OneWorkspace' /\ NeedIsReal' /\ NeedIsUnique'
  <2>1. PICK q \in RequestType : requests' = (requests \ {r}) \cup {q} /\ ~q.need
    <3>1. r.op \notin {"password", "invite"}
      BY <1>4 DEF provisions, provision_personal_org
    <3> QED
      BY <1>4, <3>1, MovedRequest DEF Moves
  <2>2. r.need /\ r.on \in Users /\ unseen' = unseen
    BY <1>1, <1>4 DEF provisions, provision_personal_org, history
  <2>3. personal' = personal \/ personal' = [personal EXCEPT ![r.on] = @ + 1]
    BY <1>4 DEF provisions, provision_personal_org
  <2>4. personal'[r.on] \in {personal[r.on], personal[r.on] + 1}
        /\ \A u \in Users \ {r.on} : personal'[u] = personal[u]
    BY <1>1, <2>2, <2>3
  <2>5. r.on \notin unseen => personal[r.on] = 0
    BY <2>2 DEF NeedIsReal
  <2>6. OneWorkspace'
    BY <1>1, <2>2, <2>4, <2>5 DEF OneWorkspace
  <2>7. \A p \in requests' : p.need => p \in requests /\ p # r
    BY <2>1
  <2>8. NeedIsReal'
    BY <1>1, <2>2, <2>4, <2>7 DEF NeedIsReal, NeedIsUnique
  <2>9. NeedIsUnique'
    BY <2>2, <2>7 DEF NeedIsUnique
  <2> QED
    BY <2>6, <2>8, <2>9
<1>5. ASSUME NEW r \in requests, Moves(r), ~provisions(r)
      PROVE  OneWorkspace' /\ NeedIsReal' /\ NeedIsUnique'
  <2>1. PICK q \in RequestType : /\ requests' = (requests \ {r}) \cup {q} /\ (q.need = r.need)
                                 /\ r.op \in {"password", "invite"}
    BY <1>5, MovedRequest
  <2>2. ~q.need
    BY <2>1 DEF RequestsOK
  <2>3. UNCHANGED <<personal, unseen>>
    BY <1>5 DEF Moves, set_password, upsert_org_invitation, identity, history
  <2>4. \A p \in requests' : p.need => p \in requests
    BY <2>1, <2>2
  <2> QED
    BY <2>3, <2>4 DEF OneWorkspace, NeedIsReal, NeedIsUnique
<1>6. CASE Direct
  BY <1>3, <1>4, <1>5, <1>6, RequestCases, WorkspaceCases
     DEF Close, upsert_org_invitation, insert_org_invitation, write_role, write_seat,
         create_session, revoke_sessions_for_user, consume_cli_authorization, request_stops
<1> QED
  BY <1>2, <1>6

-----------------------------------------------------------------------------
(* The inductive invariant. *)

\* The initial states satisfy the inductive invariant.
LEMMA InitInv == Init => AccountsInv
<1> SUFFICES ASSUME Init PROVE AccountsInv
  OBVIOUS
<1>1. /\ member \in [Users -> Roles \cup {"none"}]
      /\ \E u \in Users : member[u] = "owner"
  BY AccountsAssumption DEF Init
<1>2. /\ seat \in [Users -> BOOLEAN] /\ personal \in [Users -> Nat]
      /\ invite \in [Users -> Invitation \cup {NoInvite}]
      /\ links \in [Users -> LinkType] /\ device \in [Devices -> DeviceType]
      /\ started \in Nat /\ unchecked \in Nat /\ requests = {} /\ unseen = {}
  BY AccountsAssumption DEF Init, LinkType, DeviceType
<1>3. account \in [Users -> AccountType] /\ \A u \in Users : account[u].pw = 0
  <2>1. ASSUME NEW x \in BOOLEAN
        PROVE  [registered |-> x, verified |-> x, pw |-> 0] \in AccountType
    BY DEF AccountType
  <2>2. \A u \in Users : (u \notin Unregistered) \in BOOLEAN
    OBVIOUS
  <2>3. \A u \in Users : [registered |-> u \notin Unregistered,
                          verified |-> u \notin Unregistered, pw |-> 0] \in AccountType
    BY <2>1, <2>2
  <2> QED
    BY <2>3 DEF Init
<1>4. \A s \in sessions : s \in SessionType /\ s.pw = 0
  BY DEF Init, SessionType
<1>5. TypesOK
  BY <1>1, <1>2, <1>3, <1>4 DEF TypesOK
<1>6. SeatedAreMembers /\ OwnerRemains /\ OwnersRead /\ SeatsRead /\ RequestsOK
  BY <1>1, <1>2
     DEF Init, SeatedAreMembers, OwnerRemains, Owners, OwnersRead, SeatsRead, RequestsOK
<1>7. ResetEndsSessions
  BY <1>3, <1>4 DEF ResetEndsSessions, SessionType
<1>8. MintedOnce
  BY DEF Init, MintedOnce
<1>9. OneWorkspace /\ NeedIsReal /\ NeedIsUnique
  BY <1>2 DEF Init, OneWorkspace, NeedIsReal, NeedIsUnique
<1> QED
  BY <1>5, <1>6, <1>7, <1>8, <1>9 DEF AccountsInv

\* Every step preserves the inductive invariant.
LEMMA StepInv == AccountsInv /\ [Next]_vars => AccountsInv'
<1> SUFFICES ASSUME AccountsInv, [Next]_vars PROVE AccountsInv'
  OBVIOUS
<1>1. Direct \/ \E q \in RequestType : Opens(q)
  BY StepCases DEF AccountsInv
<1> QED
  BY <1>1, TypesStep, SeatedStep, OwnerRemainsStep, OwnersReadStep, SeatsReadStep,
     ResetStep, MintedStep, WorkspaceStep DEF AccountsInv

\* The inductive invariant holds of every reachable state: types, what the
\* open requests have read unless their reads failed, and the invariants below.
THEOREM AccountsInvariant == Spec => []AccountsInv
<1>1. Init => AccountsInv
  BY InitInv
<1>2. AccountsInv /\ [Next]_vars => AccountsInv'
  BY StepInv
<1> QED
  BY <1>1, <1>2, PTL DEF Spec

\* Type correctness; in particular nobody who left the team, by whichever of
\* the overlapping role and seat writes, still holds a seat of it.
THEOREM TypeCorrect == Spec => []TypeOK
<1>1. AccountsInv => TypeOK
  BY DEF AccountsInv, TypesOK, SeatedAreMembers, TypeOK, AccountType, LinkType, SessionType,
         DeviceType
<1> QED
  BY <1>1, AccountsInvariant, PTL

\* The team keeps an owner through any role changes and removals, as long as
\* no owner's role is overwritten by an acceptance or an addition, or taken by
\* a request whose owners had changed or whose read of the role had failed.
THEOREM OwnersRemain == Spec => []OwnerRemains
<1>1. AccountsInv => OwnerRemains
  BY DEF AccountsInv
<1> QED
  BY <1>1, AccountsInvariant, PTL

\* After a password reset no session of the old password is left, but for a
\* login that had checked it before and a revocation that failed.
THEOREM ResetsEndSessions == Spec => []ResetEndsSessions
<1>1. AccountsInv => ResetEndsSessions
  BY DEF AccountsInv
<1> QED
  BY <1>1, AccountsInvariant, PTL

\* A device authorization mints one key, however many polls race for it, and
\* a user has one workspace unless two requests found none at the same time or
\* one could not read it.
THEOREM GrantsAreUsedOnce == Spec => []SingleUse
<1>1. AccountsInv => SingleUse
  BY DEF AccountsInv, MintedOnce, OneWorkspace, SingleUse
<1> QED
  BY <1>1, AccountsInvariant, PTL

-----------------------------------------------------------------------------
(* Seats. *)

Lives == {u \in Users : Live(u)}

\* The counts are of finite sets.
LEMMA SeatCounts ==
    ASSUME NEW S, S \subseteq Users
    PROVE  IsFiniteSet(S) /\ Cardinality(S) \in Nat
BY AccountsAssumption, FS_Subset, FS_CardinalityType

\* A step that adds no seat uses no more of them.
LEMMA FewerSeats ==
    ASSUME Seated' \subseteq Seated, Lives' \subseteq Lives
    PROVE  ~(Used' > Used)
<1>1. Seated \subseteq Users /\ Lives \subseteq Users /\ Seated' \subseteq Users
      /\ Lives' \subseteq Users
  BY DEF Seated, Lives
<1>2. Cardinality(Seated') <= Cardinality(Seated) /\ Cardinality(Lives') <= Cardinality(Lives)
  BY <1>1, SeatCounts, FS_Subset
<1>3. /\ Cardinality(Seated) \in Nat /\ Cardinality(Lives) \in Nat
      /\ Cardinality(Seated') \in Nat /\ Cardinality(Lives') \in Nat
  BY <1>1, SeatCounts
<1>4. /\ Used = Cardinality(Seated) + Cardinality(Lives)
      /\ Used' = Cardinality(Seated') + Cardinality(Lives')
  BY DEF Used, Lives
<1> QED
  BY <1>2, <1>3, <1>4

\* An acceptance turns the seat of an invitation into the seat of a member.
LEMMA AcceptedSeat ==
    ASSUME NEW u \in Lives, Seated' \subseteq Seated \cup {u}, Lives' \subseteq Lives \ {u}
    PROVE  ~(Used' > Used)
<1>1. Seated \subseteq Users /\ Lives \subseteq Users /\ Seated' \subseteq Users
      /\ Lives' \subseteq Users
  BY DEF Seated, Lives
<1>2. /\ Cardinality(Seated) \in Nat /\ Cardinality(Lives) \in Nat
      /\ Cardinality(Seated') \in Nat /\ Cardinality(Lives') \in Nat
  BY <1>1, SeatCounts
<1>3. Cardinality(Lives') <= Cardinality(Lives) - 1
  <2>1. IsFiniteSet(Lives) /\ IsFiniteSet(Lives \ {u})
    BY <1>1, SeatCounts
  <2>2. Cardinality(Lives \ {u}) = Cardinality(Lives) - 1
    BY <2>1, FS_RemoveElement
  <2>3. Cardinality(Lives') <= Cardinality(Lives \ {u})
    BY <2>1, FS_Subset
  <2> QED
    BY <2>2, <2>3
<1>4. Cardinality(Seated') <= Cardinality(Seated) + 1
  <2>1. IsFiniteSet(Seated)
    BY <1>1, SeatCounts
  <2>2. IsFiniteSet(Seated \cup {u})
    BY <2>1, FS_AddElement
  <2>3. Cardinality(Seated \cup {u}) \in {Cardinality(Seated), Cardinality(Seated) + 1}
    <3>1. CASE u \in Seated
      <4>1. Seated \cup {u} = Seated
        BY <3>1
      <4> QED
        BY <4>1
    <3>2. CASE u \notin Seated
      BY <2>1, <3>2, FS_AddElement
    <3> QED
      BY <3>1, <3>2
  <2>4. Cardinality(Seated') <= Cardinality(Seated \cup {u})
    BY <2>2, FS_Subset
  <2> QED
    BY <1>2, <2>3, <2>4
<1>5. /\ Used = Cardinality(Seated) + Cardinality(Lives)
      /\ Used' = Cardinality(Seated') + Cardinality(Lives')
  BY DEF Used, Lives
<1> QED
  BY <1>2, <1>3, <1>4, <1>5

\* A reservation below the limit stays within it.
LEMMA ReservedSeat ==
    ASSUME NEW u \in Users, Seated' = Seated, Lives' \ {u} = Lives \ {u},
           ~(Reserved(u) >= SeatLimit)
    PROVE  ~(Used' > SeatLimit)
<1>1. Seated \subseteq Users /\ Lives \subseteq Users /\ Lives' \subseteq Users
  BY DEF Seated, Lives
<1>2. Cardinality(Seated) \in Nat /\ Cardinality(Lives') \in Nat
      /\ Cardinality(Lives \ {u}) \in Nat /\ IsFiniteSet(Lives \ {u})
  BY <1>1, SeatCounts
<1>3. {v \in Users \ {u} : Live(v)} = Lives \ {u}
  BY DEF Lives
<1>4. Cardinality(Seated) + Cardinality(Lives \ {u}) < SeatLimit
  <2>1. Reserved(u) = Cardinality(Seated) + Cardinality(Lives \ {u})
    BY <1>3, Zenon DEF Reserved
  <2>2. SeatLimit \in Nat
    BY AccountsAssumption
  <2> QED
    BY <1>2, <2>1, <2>2
<1>5. Cardinality(Lives') <= Cardinality(Lives \ {u}) + 1
  <2>1. CASE u \notin Lives'
    <3>1. Lives' = Lives \ {u}
      BY <2>1
    <3> QED
      BY <1>2, <3>1
  <2>2. CASE u \in Lives'
    <3>1. Lives' = (Lives \ {u}) \cup {u}
      BY <2>2
    <3>2. u \notin Lives \ {u}
      OBVIOUS
    <3>3. Cardinality((Lives \ {u}) \cup {u}) = Cardinality(Lives \ {u}) + 1
      BY <1>2, <3>2, FS_AddElement, Zenon
    <3> QED
      BY <1>2, <3>1, <3>3
  <2> QED
    BY <2>1, <2>2
<1>6. Used' = Cardinality(Seated) + Cardinality(Lives')
  BY DEF Used, Lives
<1> QED
  BY <1>2, <1>4, <1>5, <1>6, AccountsAssumption

\* A grant takes one seat.
LEMMA GrantedSeat ==
    ASSUME NEW u \in Users, Seated' \subseteq Seated \cup {u}, Lives' = Lives,
           NEW n \in Nat, ~(Used > n), n < SeatLimit
    PROVE  ~(Used' > SeatLimit)
<1>1. Seated \subseteq Users /\ Lives \subseteq Users /\ Seated' \subseteq Users
  BY DEF Seated, Lives
<1>2. /\ Cardinality(Seated) \in Nat /\ Cardinality(Lives) \in Nat
      /\ Cardinality(Seated') \in Nat /\ IsFiniteSet(Seated)
  BY <1>1, SeatCounts
<1>3. Cardinality(Seated') <= Cardinality(Seated) + 1
  <2>1. IsFiniteSet(Seated \cup {u})
    BY <1>2, FS_AddElement
  <2>2. Cardinality(Seated \cup {u}) \in {Cardinality(Seated), Cardinality(Seated) + 1}
    <3>1. CASE u \in Seated
      <4>1. Seated \cup {u} = Seated
        BY <3>1
      <4> QED
        BY <4>1
    <3>2. CASE u \notin Seated
      BY <1>2, <3>2, FS_AddElement
    <3> QED
      BY <3>1, <3>2
  <2>3. Cardinality(Seated') <= Cardinality(Seated \cup {u})
    BY <2>1, FS_Subset
  <2> QED
    BY <1>2, <2>2, <2>3
<1>4. /\ Used = Cardinality(Seated) + Cardinality(Lives)
      /\ Used' = Cardinality(Seated') + Cardinality(Lives)
  BY DEF Used, Lives
<1> QED
  BY <1>2, <1>3, <1>4, AccountsAssumption

\* A step that takes a seat unchecked says so, every other one takes none or
\* stays within the limit.
LEMMA SeatStep ==
    ASSUME TypesOK, RequestsOK, SeatedAreMembers, SeatsRead,
           Direct \/ \E q \in RequestType : Opens(q)
    PROVE  Used' > Used /\ Used' > SeatLimit => unchecked' # unchecked
<1> DEFINE Goal == Used' > Used /\ Used' > SeatLimit => unchecked' # unchecked
<1>1. /\ member \in [Users -> Roles \cup {"none"}] /\ seat \in [Users -> BOOLEAN]
      /\ invite \in [Users -> Invitation \cup {NoInvite}] /\ unchecked \in Nat
      /\ \A r \in requests : r.on \in Users
  BY DEF TypesOK, RequestType
<1>2. CASE UNCHANGED team
  <2>1. Seated' = Seated /\ Lives' = Lives
    BY <1>2 DEF team, Seated, Lives, Live
  <2> QED
    BY <2>1, FewerSeats
<1>3. ASSUME NEW u \in Users, NEW on \in Users, NEW role \in {"admin", "member"},
             add_member(u, on, role)
      PROVE  Goal
  <2>1. Seated' \subseteq Seated
    BY <1>1, <1>3 DEF add_member, Seated, SeatedAreMembers
  <2>2. Lives' = Lives
    BY <1>3 DEF add_member, Lives, Live
  <2> QED
    BY <2>1, <2>2, FewerSeats
<1>4. ASSUME UNCHANGED <<member, seat>>, Lives' \subseteq Lives PROVE Goal
  <2>1. Seated' = Seated
    BY <1>4 DEF Seated
  <2> QED
    BY <1>4, <2>1, FewerSeats
<1>5. ASSUME NEW u \in Users, NEW on \in Users, refresh_org_invitation(u, on) PROVE Goal
  <2>1. CASE ~invite[on].live
    BY <1>1, <1>5, <2>1 DEF refresh_org_invitation
  <2>2. CASE invite[on].live
    <3>1. Lives' \subseteq Lives
      BY <1>1, <1>5, <2>2 DEF refresh_org_invitation, Lives, Live
    <3> QED
      BY <1>4, <1>5, <3>1 DEF refresh_org_invitation
  <2> QED
    BY <2>1, <2>2
<1>6. ASSUME NEW u \in Users, NEW on \in Users,
             revoke_org_invitation(u, on) \/ invitation_expires(on)
      PROVE  Goal
  <2>1. Lives' \subseteq Lives
    BY <1>1, <1>6 DEF revoke_org_invitation, invitation_expires, Lives, Live
  <2> QED
    BY <1>4, <1>6, <2>1 DEF revoke_org_invitation, invitation_expires
<1>7. CASE prune_org_invitations
  <2>1. Lives' \subseteq Lives
    BY <1>1, <1>7 DEF prune_org_invitations, Lives, Live
  <2> QED
    BY <1>4, <1>7, <2>1 DEF prune_org_invitations
<1>8. ASSUME NEW s \in sessions, accept_invitation(s) PROVE Goal
  <2> DEFINE u == s.user
  <2>1. /\ u \in Lives /\ member' = [member EXCEPT ![u] = invite[u].role]
        /\ seat' = [seat EXCEPT ![u] = TRUE] /\ invite' = [invite EXCEPT ![u] = NoInvite]
    BY <1>8, AcceptEffect DEF Lives
  <2> HIDE DEF u
  <2>2. Seated' \subseteq Seated \cup {u}
    BY <1>1, <2>1 DEF Seated
  <2>3. Lives' \subseteq Lives \ {u}
    BY <1>1, <2>1 DEF Lives, Live
  <2> QED
    BY <2>1, <2>2, <2>3, AcceptedSeat
<1>9. ASSUME NEW r \in requests, insert_org_invitation(r) PROVE Goal
  <2>1. /\ r.on \in Users /\ Seated' = Seated /\ UNCHANGED <<member, seat>>
        /\ unchecked' = IF Reserved(r.on) > r.taken THEN unchecked + 1 ELSE unchecked
        /\ r.taken < SeatLimit
    BY <1>1, <1>9 DEF insert_org_invitation, Seated, SeatsRead
  <2>2. CASE Reserved(r.on) > r.taken
    BY <1>1, <2>1, <2>2
  <2>3. CASE ~(Reserved(r.on) > r.taken)
    <3>1. Lives' \ {r.on} = Lives \ {r.on}
      BY <1>1, <1>9, <2>1 DEF insert_org_invitation, Lives, Live
    <3>2. ~(Reserved(r.on) >= SeatLimit)
      <4>1. Reserved(r.on) \in Nat /\ r.taken \in Nat
        BY <2>1, ReservedType DEF TypesOK, RequestType
      <4> QED
        BY <2>1, <2>3, <4>1, AccountsAssumption
    <3> QED
      BY <2>1, <3>1, <3>2, ReservedSeat
  <2> QED
    BY <2>2, <2>3
<1>10. ASSUME NEW r \in requests, write_role(r) PROVE Goal
  <2> DEFINE new == IF r.op = "role" /\ member[r.on] = "none" THEN "none" ELSE r.role
  <2>1. /\ r.on \in Users /\ member' = [member EXCEPT ![r.on] = new]
        /\ seat' = [seat EXCEPT ![r.on] = seat[r.on] /\ new # "none"] /\ invite' = invite
        /\ unchecked' = IF new = "owner" /\ r.on \notin Seated THEN unchecked + 1
                        ELSE unchecked
    BY <1>1, <1>10 DEF write_role
  <2> HIDE DEF new
  <2>2. CASE new = "owner" /\ r.on \notin Seated
    BY <1>1, <2>1, <2>2
  <2>3. CASE new # "owner" \/ r.on \in Seated
    <3>1. Seated' \subseteq Seated
      BY <1>1, <2>1, <2>3 DEF Seated, SeatedAreMembers
    <3>2. Lives' = Lives
      BY <2>1 DEF Lives, Live
    <3> QED
      BY <3>1, <3>2, FewerSeats
  <2> QED
    BY <2>2, <2>3
<1>11. ASSUME NEW r \in requests, write_seat(r) PROVE Goal
  <2>1. /\ r.on \in Users /\ r.taken \in Nat /\ r.op \in {"seat", "unseat"} /\ member' = member
        /\ seat' = [seat EXCEPT ![r.on] = IF member[r.on] = "none" THEN seat[r.on]
                                         ELSE r.op = "seat"]
        /\ unchecked' = IF TakenBlindly(r) THEN unchecked + 1 ELSE unchecked
    BY <1>1, <1>11 DEF write_seat, TypesOK, RequestType
  <2>2. Lives' = Lives
    BY <1>11 DEF write_seat, Lives, Live
  <2>3. CASE TakenBlindly(r)
    BY <1>1, <2>1, <2>3
  <2>4. CASE r.op = "unseat" \/ member[r.on] = "none" \/ r.on \in Seated
    <3>1. Seated' \subseteq Seated
      BY <1>1, <2>1, <2>4 DEF Seated
    <3> QED
      BY <2>2, <3>1, FewerSeats
  <2>5. CASE ~r.blind /\ ~(Used > r.taken) /\ r.op = "seat"
    <3>1. r.taken < SeatLimit
      BY <2>5 DEF SeatsRead
    <3>2. Seated' \subseteq Seated \cup {r.on}
      BY <1>1, <2>1 DEF Seated
    <3> QED
      BY <2>1, <2>2, <2>5, <3>1, <3>2, GrantedSeat
  <2> QED
    BY <2>1, <2>3, <2>4, <2>5 DEF TakenBlindly
<1> HIDE DEF Goal
<1>12. ASSUME NEW q \in RequestType, Opens(q) PROVE UNCHANGED team
  BY <1>12 DEF Opens
<1>13. CASE Direct
  BY <1>2, <1>3, <1>5, <1>6, <1>7, <1>8, <1>9, <1>10, <1>11, <1>13
     DEF Goal, Direct, vars, signup, login_unverified, forgot_password, logout, set_session_org,
         approve_cli_authorization, create_cli_authorization, upsert_org_invitation, provisions,
         provision_personal_org, create_session, set_password, revoke_sessions_for_user,
         consume_cli_authorization, request_stops
<1> QED
  BY <1>2, <1>12, <1>13

\* No interleaving of invitations, acceptances, role and seat writes takes a
\* seat beyond the limit, except by a grant that counted fewer seats than are
\* used, an invitation overtaken after its count, a promotion or a resend.
THEOREM SeatsAreNotOverbooked == Spec => SeatsNotOverbooked
<1>1. ASSUME AccountsInv, [Next]_vars
      PROVE  [Used' > Used /\ Used' > SeatLimit => unchecked' # unchecked]_vars
  BY <1>1, StepCases, SeatStep DEF AccountsInv
<1> QED
  BY <1>1, AccountsInvariant, PTL DEF Spec, SeatsNotOverbooked
=============================================================================
