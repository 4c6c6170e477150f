----------------------------- MODULE MCAccounts -----------------------------
(* Instances of Accounts for TLC. *)
EXTENDS Accounts

\* A team with one owner, one with two, and one with a member whose last user,
\* who has yet to sign up, is invited.
MCInitialTeams ==
    {[member |-> [u \in Users |-> CASE u = "ann" -> "owner" [] u = "bob" -> bob
                                     [] OTHER -> "none"],
      invite |-> [u \in Users |-> IF u = "cyn" /\ bob = "member"
                                 THEN [role |-> "member", live |-> TRUE] ELSE NoInvite]] :
        bob \in {"none", "owner", "member"}}
=============================================================================
