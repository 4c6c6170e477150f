------------------------------- MODULE Accounts -------------------------------
(***************************************************************************)
(* Identity and membership (auth/, db/control/organizations.rs,            *)
(* identity.rs, credentials.rs): signup, verification, login, password     *)
(* reset, sessions and the organization they act in, invitations, roles,   *)
(* seats, and the device authorization of the command line.                *)
(*                                                                         *)
(* One team beside the personal workspace of every user.  A handler that   *)
(* reads, decides and then writes is a request: its reads are one step,    *)
(* every write another.  A handler whose single statement decides by       *)
(* itself is one step.  A read that fails is a fault: most handlers end    *)
(* with an error, some take it for "none" and go on, blind.  An email      *)
(* address is the user it belongs to, and an invitation is presented with  *)
(* its current link.                                                       *)
(***************************************************************************)
EXTENDS Integers, FiniteSets

CONSTANTS
    Users,
    InitialTeams,    \* the memberships and invitations of the team at first
    Unregistered,    \* users who have yet to sign up
    Devices,         \* device codes of the command line
    NoInvite,
    SeatLimit,       \* the edition's seat_limit
    MaxStarted,      \* bounds: calls made,
    MaxOpen,         \* requests under way at a time,
    MaxFaults        \* calls that fail, and requests that stop half-way

VARIABLES
    account,         \* users: [registered, verified, pw], pw counting passwords
    links,           \* email tokens not used: [verify, reset]
    member, seat,    \* org_members of the team
    personal,        \* personal workspaces of a user
    invite,          \* org_invitations: [role, live], or NoInvite
    sessions,        \* [user, org, pw], pw being the password it was made with
    device,          \* cli_authorizations: [state, minted]
    requests,        \* requests between their reads and their writes
    started, faults,
    unchecked,       \* history: seats taken on no count, or on too low a one
    ousted,          \* history: an owner lost to an overlapping or blind write
    slipped,         \* history: users whose old password outlived its reset
    unseen           \* history: users with a workspace, made or in the making,
                     \* of which a request saw none

team == <<member, seat, invite>>
identity == <<account, links, personal, sessions>>
history == <<unchecked, ousted, slipped, unseen>>
vars == <<team, identity, device, requests, started, faults, history>>

Roles == {"owner", "admin", "member"}
Invitation == [role : {"admin", "member"}, live : BOOLEAN]

\* The team exists, so it has an owner; the "no invitation" is none.
ASSUME AccountsAssumption ==
    /\ IsFiniteSet(Users) /\ SeatLimit \in Nat /\ NoInvite \notin Invitation
    /\ InitialTeams \subseteq [member : [Users -> Roles \cup {"none"}],
                               invite : [Users -> Invitation \cup {NoInvite}]]
    /\ \A t \in InitialTeams : \E u \in Users : t.member[u] = "owner"

Init ==
    /\ account = [u \in Users |-> [registered |-> u \notin Unregistered,
                                   verified |-> u \notin Unregistered, pw |-> 0]]
    /\ links = [u \in Users |-> [verify |-> 0, reset |-> 0]]
    /\ \E t \in InitialTeams : member = t.member /\ invite = t.invite
    /\ seat = [u \in Users |-> FALSE]
    /\ personal = [u \in Users |-> IF u \in Unregistered THEN 0 ELSE 1]
    /\ sessions = {[user |-> u, org |-> "team", pw |-> 0] :
                      u \in {v \in Users : member[v] # "none"}}
    /\ device = [d \in Devices |-> [state |-> "none", minted |-> 0]]
    /\ requests = {} /\ started = 0 /\ faults = 0
    /\ unchecked = 0 /\ ousted = FALSE /\ slipped = {} /\ unseen = {}

\* A call is made; those that read first stay open.
Call == started < MaxStarted /\ started' = started + 1
Open(r) ==
    /\ Call /\ Cardinality(requests) < MaxOpen
    /\ requests' = requests \cup {[r EXCEPT !.id = started]}
Becomes(r, q) == requests' = (requests \ {r}) \cup {q}
Close(r) == requests' = requests \ {r}
AnyUser == CHOOSE u \in Users : TRUE
AnyDevice == CHOOSE d \in Devices : TRUE

\* A request keeps the owners and the seats it counted; a blind one failed to.
Req == [op |-> "none", id |-> 0, on |-> AnyUser, role |-> "none",
        owners |-> {}, taken |-> 0, blind |-> FALSE, pw |-> 0, need |-> FALSE,
        device |-> AnyDevice]

Fault == faults < MaxFaults /\ faults' = faults + 1
MayFail(failed) == IF failed THEN Fault ELSE UNCHANGED faults

Owners == {u \in Users : member[u] = "owner"}
Seated == {u \in Users : member[u] # "none" /\ (seat[u] \/ member[u] = "owner")}
Live(u) == invite[u] # NoInvite /\ invite[u].live
\* Seats held, and reserved by live invitations (all invitations carry one).
Used == Cardinality(Seated) + Cardinality({u \in Users : Live(u)})

\* The organization a session acts in: the selected one while it is a
\* membership, else the personal workspace, else any.
user_and_org_for_session(s) ==
    IF s.org = "team" /\ member[s.user] # "none" THEN "team"
    ELSE IF personal[s.user] > 0 THEN "personal"
    ELSE IF member[s.user] # "none" THEN "team" ELSE "none"

can_manage(u) ==
    /\ member[u] \in {"owner", "admin"}
    /\ \E s \in sessions : s.user = u /\ user_and_org_for_session(s) = "team"
-----------------------------------------------------------------------------
(* Invitations. *)

\* Somebody who is no member, or could not be looked up, is invited ...
invite_member(u, on, role, failed) ==
    /\ can_manage(u) /\ MayFail(failed)
    /\ failed \/ ~(account[on].registered /\ member[on] # "none")
    /\ Open([Req EXCEPT !.op = "invite", !.on = on, !.role = role])
    /\ UNCHANGED <<team, identity, device, history>>

\* The lock of the organization's row, from the count to the insert.  Another
\* invitation waits for it, and so does a new org_members row, for its
\* foreign key; an update or a delete of a member or an invitation does not.
Locked == \E q \in requests : q.op = "insert"

\* Mutant: only the seats of members are counted.
Reserved_Members(on) == Cardinality(Seated)

\* The seats taken, another invitation of the same address left out.
Reserved(on) ==
    Cardinality(Seated) + Cardinality({u \in Users \ {on} : Live(u)})

\* ... the seats are counted under the lock ...
upsert_org_invitation(r) ==
    /\ r.op = "invite" /\ ~Locked
    /\ IF Reserved(r.on) >= SeatLimit THEN Close(r)
       ELSE Becomes(r, [r EXCEPT !.op = "insert", !.taken = Reserved(r.on)])
    /\ UNCHANGED <<team, identity, device, started, faults, history>>

\* ... and one is reserved, whatever they are by now.
insert_org_invitation(r) ==
    /\ r.op = "insert"
    /\ invite' = [invite EXCEPT ![r.on] = [role |-> r.role, live |-> TRUE]]
    /\ unchecked' = IF Reserved(r.on) > r.taken THEN unchecked + 1 ELSE unchecked
    /\ Close(r)
    /\ UNCHANGED <<member, seat, identity, device, started, faults, ousted, slipped, unseen>>

\* A new link and a new term, without a look at the seats.
refresh_org_invitation(u, on) ==
    /\ Call /\ can_manage(u) /\ invite[on] # NoInvite
    /\ invite' = [invite EXCEPT ![on].live = TRUE]
    /\ unchecked' = IF invite[on].live THEN unchecked ELSE unchecked + 1
    /\ UNCHANGED <<member, seat, identity, device, requests, faults, ousted, slipped,
                   unseen>>

revoke_org_invitation(u, on) ==
    /\ Call /\ can_manage(u) /\ invite[on] # NoInvite
    /\ invite' = [invite EXCEPT ![on] = NoInvite]
    /\ UNCHANGED <<member, seat, identity, device, requests, faults, history>>

invitation_expires(on) ==
    /\ Live(on)
    /\ invite' = [invite EXCEPT ![on].live = FALSE]
    /\ UNCHANGED <<member, seat, identity, device, requests, started, faults, history>>

prune_org_invitations ==
    /\ \E u \in Users : invite[u] # NoInvite /\ ~invite[u].live
    /\ invite' = [u \in Users |-> IF Live(u) THEN invite[u] ELSE NoInvite]
    /\ UNCHANGED <<member, seat, identity, device, requests, started, faults, history>>

\* The invitation becomes the membership, whatever role its user had ...
accept_org_invitation(u) ==
    /\ Live(u) /\ (member[u] = "none" => ~Locked)
    /\ member' = [member EXCEPT ![u] = invite[u].role]
    /\ seat' = [seat EXCEPT ![u] = TRUE]
    /\ invite' = [invite EXCEPT ![u] = NoInvite]

\* ... and the session turns to the team.
accept_invitation(s) ==
    LET u == s.user
    IN  /\ Call /\ accept_org_invitation(u)
        /\ ousted' = (ousted \/ member[u] = "owner")
        /\ sessions' = (sessions \ {s}) \cup {[s EXCEPT !.org = "team"]}
        /\ UNCHANGED <<account, links, personal, device, requests, faults, unchecked, slipped,
                       unseen>>

-----------------------------------------------------------------------------
(* Roles and seats. *)

\* An upsert: the role of a member, an owner's too, is overwritten.
add_member(u, on, role) ==
    /\ Call /\ can_manage(u) /\ account[on].registered
    /\ member[on] = "none" => ~Locked
    /\ ousted' = (ousted \/ member[on] = "owner")
    /\ member' = [member EXCEPT ![on] = role]
    /\ UNCHANGED <<seat, invite, identity, device, requests, faults, unchecked, slipped,
                   unseen>>

\* Mutant: the count is compared with none, not with the last one.
LastOwner_None == Owners = {}
LastOwner == Cardinality(Owners) <= 1

\* The checks of set_member_role, the last owner's included.
set_member_role(u, on, role) ==
    /\ can_manage(u) /\ account[on].registered
    /\ role = "owner" => member[u] = "owner"
    /\ ~(member[on] = "none" /\ role = "none")
    /\ member[on] = "owner" => member[u] = "owner" /\ (role = "owner" \/ ~LastOwner)
    /\ Open([Req EXCEPT !.op = IF role = "none" THEN "remove"
                               ELSE IF member[on] = "none" THEN "add" ELSE "role",
                        !.on = on, !.role = role, !.owners = Owners])
    /\ UNCHANGED <<team, identity, device, faults, history>>

\* A role that cannot be read is "none": nothing to remove, a member to add.
set_unread_role(u, on, role) ==
    /\ can_manage(u) /\ account[on].registered /\ Fault
    /\ role = "owner" => member[u] = "owner"
    /\ Open([Req EXCEPT !.op = "add", !.on = on, !.role = role, !.blind = TRUE])
    /\ UNCHANGED <<team, identity, device, history>>

\* "Cannot remove an owner", by the role it reads, if it can be read.
remove_member(u, on, failed) ==
    /\ can_manage(u) /\ (failed \/ member[on] # "owner") /\ MayFail(failed)
    /\ Open([Req EXCEPT !.op = "remove", !.on = on, !.owners = Owners, !.blind = failed])
    /\ UNCHANGED <<team, identity, device, history>>

\* The write, whatever happened in between.  An UPDATE needs its row, an
\* INSERT the lock.
write_role(r) ==
    LET new == IF r.op = "role" /\ member[r.on] = "none" THEN "none" ELSE r.role
    IN  /\ r.op \in {"remove", "add", "role"}
        /\ r.op = "add" /\ member[r.on] = "none" => ~Locked
        /\ member' = [member EXCEPT ![r.on] = new]
        /\ seat' = [seat EXCEPT ![r.on] = @ /\ new # "none"]
        /\ ousted' = (ousted \/ /\ member[r.on] = "owner" /\ new # "owner"
                                /\ r.blind \/ Owners # r.owners)
        /\ unchecked' = IF new = "owner" /\ r.on \notin Seated THEN unchecked + 1
                        ELSE unchecked
        /\ Close(r)
        /\ UNCHANGED <<invite, identity, device, started, faults, slipped, unseen>>

\* A grant is checked against the members' seats, not the invitations; a
\* count that fails is 0, and who holds a seat already is not counted for.
set_seat(u, on, grant, failed) ==
    /\ can_manage(u) /\ member[on] # "none" /\ MayFail(failed)
    /\ IF failed THEN grant /\ on \notin Seated /\ 0 < SeatLimit
       ELSE grant => on \in Seated \/ Cardinality(Seated) < SeatLimit
    /\ Open([Req EXCEPT !.op = IF grant THEN "seat" ELSE "unseat", !.on = on,
                        !.taken = Cardinality(Seated), !.blind = failed \/ on \in Seated])
    /\ UNCHANGED <<team, identity, device, history>>

\* A seat is taken though more are used, by members and invitations, than
\* were counted.
TakenBlindly(r) ==
    /\ r.op = "seat" /\ member[r.on] # "none" /\ r.on \notin Seated
    /\ r.blind \/ Used > r.taken

\* Mutant: the seat is written for a member who is gone, too.
write_seat_Upsert(r) ==
    /\ r.op \in {"seat", "unseat"}
    /\ seat' = [seat EXCEPT ![r.on] = r.op = "seat"]
    /\ unchecked' = IF TakenBlindly(r) THEN unchecked + 1 ELSE unchecked
    /\ Close(r)
    /\ UNCHANGED <<member, invite, identity, device, started, faults, ousted, slipped,
                   unseen>>

write_seat(r) ==
    /\ r.op \in {"seat", "unseat"}
    /\ seat' = [seat EXCEPT ![r.on] = IF member[r.on] = "none" THEN @ ELSE r.op = "seat"]
    /\ unchecked' = IF TakenBlindly(r) THEN unchecked + 1 ELSE unchecked
    /\ Close(r)
    /\ UNCHANGED <<member, invite, identity, device, started, faults, ousted, slipped,
                   unseen>>

-----------------------------------------------------------------------------
(* Identity. *)

\* A link is mailed; it is consumed by one request only.
create_email_token(u, purpose) == links' = [links EXCEPT ![u][purpose] = @ + 1]
consume_email_token(u, purpose) ==
    links[u][purpose] > 0 /\ links' = [links EXCEPT ![u][purpose] = @ - 1]

\* A users row and a verification link; nothing is provisioned yet.
signup(u) ==
    /\ Call /\ ~account[u].registered
    /\ account' = [account EXCEPT ![u].registered = TRUE]
    /\ create_email_token(u, "verify")
    /\ UNCHANGED <<team, personal, sessions, device, requests, faults, history>>

\* Mutant: only teams are looked at.
primary_org_is_none_Team(u) == member[u] = "none"
primary_org_is_none(u) == member[u] = "none" /\ personal[u] = 0

\* A request does not see the workspace of the user, because its read failed
\* or another request is about to make it.
Unseen(u, need, failed) ==
    IF need /\ ((failed /\ personal[u] > 0) \/ \E q \in requests : q.need /\ q.on = u)
    THEN unseen \cup {u} ELSE unseen

\* A valid invitation that was carried along takes the place of a workspace.
verify_email(u, carried, failed) ==
    LET need == ~(carried /\ Live(u)) /\ (failed \/ primary_org_is_none(u))
    IN  /\ consume_email_token(u, "verify") /\ MayFail(failed)
        /\ account' = [account EXCEPT ![u].verified = TRUE]
        /\ Open([Req EXCEPT !.op = "session", !.on = u, !.need = need, !.pw = account[u].pw])
        /\ unseen' = Unseen(u, need, failed)
        /\ UNCHANGED <<team, personal, sessions, device, unchecked, ousted, slipped>>

\* The right password, of a user who has verified the address.
login(u, failed) ==
    LET need == failed \/ primary_org_is_none(u)
    IN  /\ account[u].registered /\ account[u].verified /\ MayFail(failed)
        /\ Open([Req EXCEPT !.op = "session", !.on = u, !.need = need, !.pw = account[u].pw])
        /\ unseen' = Unseen(u, need, failed)
        /\ UNCHANGED <<team, identity, device, unchecked, ousted, slipped>>

\* Not verified: another link.
login_unverified(u) ==
    /\ Call /\ account[u].registered /\ ~account[u].verified
    /\ create_email_token(u, "verify")
    /\ UNCHANGED <<team, account, personal, sessions, device, requests, faults, history>>

\* A membership that is not written is not noticed.
provision_personal_org(r, failed) ==
    /\ r.op = "session" /\ r.need /\ MayFail(failed)
    /\ personal' = IF failed THEN personal ELSE [personal EXCEPT ![r.on] = @ + 1]
    /\ Becomes(r, [r EXCEPT !.need = FALSE])
    /\ UNCHANGED <<team, account, links, sessions, device, started, history>>

\* In the personal workspace, or else in the team.
create_session(r) ==
    LET u == r.on
    IN  /\ r.op = "session" /\ ~r.need
        /\ sessions' = sessions \cup
              {[user |-> u, pw |-> r.pw,
                org |-> user_and_org_for_session([user |-> u, org |-> "none"])]}
        /\ slipped' = IF r.pw # account[u].pw THEN slipped \cup {u} ELSE slipped
        /\ Close(r)
        /\ UNCHANGED <<team, account, links, personal, device, started, faults, unchecked,
                       ousted, unseen>>

set_session_org(s, org) ==
    /\ Call
    /\ IF org = "team" THEN member[s.user] # "none" ELSE personal[s.user] > 0
    /\ sessions' = (sessions \ {s}) \cup {[s EXCEPT !.org = org]}
    /\ UNCHANGED <<team, account, links, personal, device, requests, faults, history>>

logout(s) ==
    /\ Call
    /\ sessions' = sessions \ {s}
    /\ UNCHANGED <<team, account, links, personal, device, requests, faults, history>>

forgot_password(u) ==
    /\ Call /\ account[u].registered
    /\ create_email_token(u, "reset")
    /\ UNCHANGED <<team, account, personal, sessions, device, requests, faults, history>>

\* The link is consumed, then the password set, then the sessions revoked.
reset_password(u) ==
    /\ consume_email_token(u, "reset")
    /\ Open([Req EXCEPT !.op = "password", !.on = u])
    /\ UNCHANGED <<team, account, personal, sessions, device, faults, history>>

set_password(r) ==
    /\ r.op = "password"
    /\ account' = [account EXCEPT ![r.on].pw = @ + 1]
    /\ Becomes(r, [r EXCEPT !.op = "revoke"])
    /\ UNCHANGED <<team, links, personal, sessions, device, started, faults, history>>

\* Mutant: sessions that act in a team are left alone.
revoke_sessions_for_user_Personal(r) ==
    /\ r.op = "revoke"
    /\ sessions' = {s \in sessions : s.user # r.on \/ s.org = "team"}
    /\ account' = [account EXCEPT ![r.on].verified = TRUE]
    /\ Close(r)
    /\ UNCHANGED <<team, links, personal, device, started, faults, history>>

\* With it the address is marked verified: the link proved the mailbox.
revoke_sessions_for_user(r) ==
    /\ r.op = "revoke"
    /\ sessions' = {s \in sessions : s.user # r.on}
    /\ account' = [account EXCEPT ![r.on].verified = TRUE]
    /\ Close(r)
    /\ UNCHANGED <<team, links, personal, device, started, faults, history>>

-----------------------------------------------------------------------------
(* The device authorization of the command line. *)

cli_authorization_state(d) == device[d].state
State(d, state) == device' = [device EXCEPT ![d].state = state]

create_cli_authorization(d) ==
    /\ Call /\ cli_authorization_state(d) = "none"
    /\ State(d, "pending")
    /\ UNCHANGED <<team, identity, requests, faults, history>>

\* By any signed-in member of something; again, until it is consumed.
approve_cli_authorization(s, d) ==
    /\ Call /\ cli_authorization_state(d) \in {"pending", "approved"}
    /\ user_and_org_for_session(s) # "none"
    /\ State(d, "approved")
    /\ UNCHANGED <<team, identity, requests, faults, history>>

\* The command line polls: the state is read first ...
cli_token(d) ==
    /\ cli_authorization_state(d) = "approved"
    /\ Open([Req EXCEPT !.op = "cli", !.device = d])
    /\ UNCHANGED <<team, identity, device, faults, history>>

\* ... and consumed under the lock of its row, with the key it mints.
consume_cli_authorization(r) ==
    /\ r.op = "cli"
    /\ device' = IF device[r.device].state # "approved" THEN device
                 ELSE [device EXCEPT ![r.device] =
                          [state |-> "consumed", minted |-> @.minted + 1]]
    /\ Close(r)
    /\ UNCHANGED <<team, identity, started, faults, history>>

\* A request ends half-way: a call fails, or the process stops.
request_stops(r) ==
    /\ Fault /\ Close(r)
    /\ slipped' = IF r.op = "revoke" THEN slipped \cup {r.on} ELSE slipped
    /\ UNCHANGED <<team, identity, device, started, unchecked, ousted, unseen>>

Next ==
    \/ \E u, on \in Users, role \in {"admin", "member"} :
          \/ add_member(u, on, role) \/ set_unread_role(u, on, role)
          \/ \E failed \in BOOLEAN : invite_member(u, on, role, failed)
    \/ \E u, on \in Users :
          \/ refresh_org_invitation(u, on) \/ revoke_org_invitation(u, on)
          \/ set_unread_role(u, on, "owner")
          \/ \E role \in Roles \cup {"none"} : set_member_role(u, on, role)
          \/ \E failed \in BOOLEAN :
                remove_member(u, on, failed) \/ \E grant \in BOOLEAN : set_seat(u, on, grant, failed)
    \/ \E u \in Users :
          \/ invitation_expires(u) \/ signup(u) \/ login_unverified(u)
          \/ forgot_password(u) \/ reset_password(u)
          \/ \E failed \in BOOLEAN :
                login(u, failed) \/ \E carried \in BOOLEAN : verify_email(u, carried, failed)
    \/ prune_org_invitations
    \/ \E s \in sessions :
          \/ accept_invitation(s) \/ logout(s)
          \/ \E org \in {"team", "personal"} : set_session_org(s, org)
          \/ \E d \in Devices : approve_cli_authorization(s, d)
    \/ \E d \in Devices : create_cli_authorization(d) \/ cli_token(d)
    \/ \E r \in requests :
          \/ upsert_org_invitation(r) \/ insert_org_invitation(r)
          \/ write_role(r) \/ write_seat(r)
          \/ create_session(r) \/ set_password(r) \/ revoke_sessions_for_user(r)
          \/ consume_cli_authorization(r) \/ request_stops(r)
          \/ \E failed \in BOOLEAN : provision_personal_org(r, failed)

Spec == Init /\ [][Next]_vars
-----------------------------------------------------------------------------
\* Also: a user who is no member holds no seat of the team.
TypeOK ==
    /\ member \in [Users -> Roles \cup {"none"}] /\ seat \in [Users -> BOOLEAN]
    /\ \A u \in Users : seat[u] => member[u] # "none"
    /\ \A u \in Users : account[u].pw \in Nat /\ personal[u] \in Nat
    /\ \A u \in Users : links[u] \in [verify : Nat, reset : Nat]
    /\ invite \in [Users -> Invitation \cup {NoInvite}]
    /\ \A s \in sessions : s.user \in Users /\ s.org \in {"team", "personal", "none"}
    /\ \A d \in Devices : device[d].state \in {"none", "pending", "approved", "consumed"}

\* "Concurrent invites cannot overbook hosted seats", and acceptance neither
\* loses nor doubles a seat: a step takes members and live invitations beyond
\* the limit only as a grant that counted fewer (it leaves out the
\* invitations, other writes came in between, or its count failed), as an
\* invitation overtaken between its count and its insert, as a promotion to
\* owner, or as an expired invitation that is resent.
SeatsNotOverbooked ==
    [][Used' > Used /\ Used' > SeatLimit => unchecked' # unchecked]_vars

\* "The last owner cannot be demoted", nor "an owner" removed: the team has
\* an owner unless an acceptance or an addition overwrote an owner's role, or
\* a request that had read other owners, or failed to read the role, took it.
OwnerRemains == ousted \/ Owners # {}

\* "Whoever held the old credentials is logged out": when a reset is
\* complete no session of the old password is left, except one whose login
\* had checked the password before, or when the revocation itself failed.
ResetEndsSessions ==
    \A s \in sessions :
        \/ s.pw = account[s.user].pw
        \/ s.user \in slipped
        \/ \E r \in requests : r.op = "revoke" /\ r.on = s.user

\* What is granted once is used once, however many polls and links are under
\* way: an authorization mints one key, and a user gets one workspace unless
\* two requests found none at the same time, or one failed to read it.
SingleUse ==
    /\ \A d \in Devices : device[d].minted <= 1
    /\ \A u \in Users \ unseen : personal[u] <= 1
=============================================================================
