----------------------------- MODULE Membership -----------------------------
(***************************************************************************)
(* The members and invites of one workspace: workspaces/api.py, invites.py *)
(* and permissions.py, and the invite page of auth/invite_views.py.        *)
(*                                                                         *)
(* A request checks what it read and writes later; only the redemption and *)
(* the revocation of an invite lock its row.  Other requests run between a *)
(* request's check and its write.                                          *)
(***************************************************************************)
EXTENDS Integers, Sequences, FiniteSets

CONSTANTS
  Reqs,        \* requests in flight at the same time
  Users,
  Founder,     \* who created the workspace
  Staff,       \* users the domain list admits
  Roles,       \* the roles requests grant
  MaxInvites,  \* bound on invites
  MaxRequests  \* bound on requests that pass their checks

\* ROLE_RANK, and None.
None   == -1
Viewer == 0
Editor == 1
Admin  == 2
Owner  == 3

ASSUME MembershipAssumption ==
  /\ Founder \in Users /\ Staff \subseteq Users /\ Roles \subseteq Viewer..Owner
  /\ MaxInvites \in Nat /\ MaxRequests \in Nat /\ IsFiniteSet(Reqs)

VARIABLES
  role,      \* role of each user; None: no membership row
  row,       \* key of each user's membership row, new for every new row
  invites,   \* the invites sent, in order
  accounts,  \* users with an account
  req,       \* req[q]: request q
  requests,  \* how many there have been
  raced      \* history: a write whose check another write has outdated

vars == <<role, row, invites, accounts, req, requests, raced>>

Ops == {"idle", "invite", "resend", "remove", "leave", "change", "accept"}

Requests == [op : Ops, by : Users, user : Users, rank : None..Owner, seen : None..Owner,
             row : Nat, invite : 0..MaxInvites, stale : BOOLEAN]
Idle == [op |-> "idle", by |-> Founder, user |-> Founder, rank |-> None, seen |-> None,
         row |-> 0, invite |-> 0, stale |-> FALSE]

Invites == [to : Users, rank : Roles, expired : BOOLEAN, accepted : BOOLEAN,
            revoked : BOOLEAN]

TypeOK ==
  /\ role \in [Users -> None..Owner] /\ row \in [Users -> Nat]
  /\ \E n \in 0..MaxInvites : invites \in [1..n -> Invites]
  /\ accounts \subseteq Users /\ req \in [Reqs -> Requests]
  /\ requests \in 0..MaxRequests /\ raced \in BOOLEAN

-----------------------------------------------------------------------------
(* Permissions *)

MayManage(mine, theirs, new) ==
  \/ mine = Owner
  \/ mine >= Admin /\ theirs < mine /\ new < mine

Higher(a, b) == IF a >= b THEN a ELSE b

LastOwnerOfAny(u) == role[u] = Owner /\ \A v \in Users : role[v] # Owner
LastOwner(u) == role[u] = Owner /\ \A v \in Users \ {u} : role[v] # Owner

Open(i)    == ~invites[i].accepted /\ ~invites[i].revoked
Pending(i) == Open(i) /\ ~invites[i].expired

LockedNever(i) == FALSE

\* The row lock of an invite that is being redeemed.
Locked(i) == \E q \in Reqs : req[q].op = "accept" /\ req[q].invite = i

\* Who may sign in: admission_rule, with a domain list.
Admitted(u) == \/ u \in Staff \/ role[u] # None
               \/ \E i \in DOMAIN invites : invites[i].to = u /\ Pending(i)

-----------------------------------------------------------------------------
(* Requests: the check *)

Asks(q, u, r) ==
  /\ req[q].op = "idle" /\ u \in accounts
  /\ requests < MaxRequests /\ requests' = requests + 1
  /\ req' = [req EXCEPT ![q] = [r EXCEPT !.by = u]]
  /\ UNCHANGED <<role, row, invites, accounts, raced>>

About(op, v, rank) ==
  [Idle EXCEPT !.op = op, !.user = v, !.rank = rank, !.seen = role[v], !.row = row[v]]

\* An invite goes to an address that is not a member's; nothing looks at the
\* invites it already has.
AskInvite(q, a, v, r) ==
  /\ MayManage(role[a], None, r) /\ role[v] = None
  /\ Len(invites) + Cardinality({p \in Reqs : req[p].op = "invite"}) < MaxInvites
  /\ Asks(q, a, About("invite", v, r))

AskResend(q, a, i) ==
  /\ Open(i) /\ MayManage(role[a], None, invites[i].rank)
  /\ Asks(q, a, [About("resend", invites[i].to, invites[i].rank) EXCEPT !.invite = i])

AskRemove(q, a, v) ==
  /\ role[v] # None /\ MayManage(role[a], role[v], None) /\ ~LastOwner(v)
  /\ Asks(q, a, About("remove", v, None))

AskLeave(q, u) ==
  /\ role[u] # None /\ ~LastOwner(u)
  /\ Asks(q, u, About("leave", u, None))

AskChange(q, a, v, r) ==
  /\ role[v] # None /\ MayManage(role[a], role[v], r)
  /\ r # Owner => ~LastOwner(v)
  /\ Asks(q, a, About("change", v, r))

\* The invite is locked and pending, and the caller's own; the membership is
\* read under the lock, which it is not covered by.
AskAccept(q, u, i) ==
  /\ Pending(i) /\ ~Locked(i) /\ invites[i].to = u
  /\ Asks(q, u, [About("accept", u, invites[i].rank) EXCEPT !.invite = i])

-----------------------------------------------------------------------------
(* Requests: the write *)

\* A role is written: every check made before is outdated.
SetRole(q, v, r) ==
  /\ role' = [role EXCEPT ![v] = r]
  /\ raced' = (raced \/ req[q].stale)
  /\ req' = [w \in Reqs |-> IF w = q THEN Idle ELSE [req[w] EXCEPT !.stale = req[w].op # "idle"]]

Ends(q) == req' = [req EXCEPT ![q] = Idle] /\ UNCHANGED <<role, row, raced>>

\* Does the row the request read still exist?
SameRow(q) == LET v == req[q].user IN role[v] # None /\ row[v] = req[q].row

SendInvite(q) ==
  /\ req[q].op = "invite"
  /\ invites' = Append(invites, [to |-> req[q].user, rank |-> req[q].rank,
                                 expired |-> FALSE, accepted |-> FALSE, revoked |-> FALSE])
  /\ Ends(q) /\ UNCHANGED <<accounts, requests>>

\* Writes the expiry only, of an invite that may have been settled meanwhile.
Resend(q) ==
  /\ req[q].op = "resend" /\ ~Locked(req[q].invite)
  /\ invites' = [invites EXCEPT ![req[q].invite].expired = FALSE]
  /\ Ends(q) /\ UNCHANGED <<accounts, requests>>

\* Checked and written under the lock.
Revoke(a, i) ==
  /\ Open(i) /\ ~Locked(i) /\ MayManage(role[a], None, invites[i].rank)
  /\ a \in accounts
  /\ invites' = [invites EXCEPT ![i].revoked = TRUE]
  /\ UNCHANGED <<role, row, accounts, req, requests, raced>>

\* Deleting a row that is gone, or has been replaced, deletes nothing.
Delete(q) ==
  /\ req[q].op \in {"remove", "leave"}
  /\ IF SameRow(q)
       THEN /\ SetRole(q, req[q].user, None)
            /\ UNCHANGED row
       ELSE Ends(q)
  /\ UNCHANGED <<invites, accounts, requests>>

\* Saving a row that is gone raises.
Change(q) ==
  /\ req[q].op = "change"
  /\ IF SameRow(q) THEN SetRole(q, req[q].user, req[q].rank) /\ UNCHANGED row
                   ELSE Ends(q)
  /\ UNCHANGED <<invites, accounts, requests>>

GrantedAsInvited(q) == req[q].rank

\* grant_invite: the role an existing member ends up with.
Granted(q) == Higher(req[q].seen, req[q].rank)

Settled(i) == [invites EXCEPT ![i].accepted = TRUE]

Join(q) ==
  /\ req[q].op = "accept" /\ req[q].seen = None /\ role[req[q].by] = None
  /\ SetRole(q, req[q].by, req[q].rank) /\ row' = [row EXCEPT ![req[q].by] = requests]
  /\ invites' = Settled(req[q].invite)
  /\ UNCHANGED <<accounts, requests>>

\* get_or_create met the row of another redemption, and reads it.
JoinAgain(q) ==
  /\ req[q].op = "accept" /\ req[q].seen = None /\ role[req[q].by] # None
  /\ req' = [req EXCEPT ![q].seen = role[req[q].by], ![q].row = row[req[q].by],
                         ![q].stale = FALSE]
  /\ UNCHANGED <<role, row, invites, accounts, requests, raced>>

Upgrade(q) ==
  /\ req[q].op = "accept" /\ req[q].seen # None /\ Granted(q) # req[q].seen
  /\ IF SameRow(q)
       THEN SetRole(q, req[q].by, Granted(q)) /\ invites' = Settled(req[q].invite) /\ UNCHANGED row
       ELSE Ends(q) /\ UNCHANGED invites
  /\ UNCHANGED <<accounts, requests>>

KeepRole(q) ==
  /\ req[q].op = "accept" /\ req[q].seen # None /\ Granted(q) = req[q].seen
  /\ invites' = Settled(req[q].invite)
  /\ Ends(q) /\ UNCHANGED <<accounts, requests>>

-----------------------------------------------------------------------------
(* Accounts and time *)

\* Signing in by any method: the gate, then find-or-create.
SignIn(u) ==
  /\ u \notin accounts /\ Admitted(u)
  /\ accounts' = accounts \cup {u}
  /\ UNCHANGED <<role, row, invites, req, requests, raced>>

\* The invite page: a first password, the account and the membership in one
\* transaction under the invite's lock.
CreateAccount(i) ==
  /\ Pending(i) /\ ~Locked(i) /\ invites[i].to \notin accounts
  /\ requests < MaxRequests /\ requests' = requests + 1
  /\ accounts' = accounts \cup {invites[i].to}
  /\ role' = [role EXCEPT ![invites[i].to] = invites[i].rank]
  /\ row' = [row EXCEPT ![invites[i].to] = requests']
  /\ invites' = Settled(i)
  /\ req' = [w \in Reqs |-> [req[w] EXCEPT !.stale = req[w].op # "idle"]]
  /\ UNCHANGED raced

Expire(i) ==
  /\ Pending(i)
  /\ invites' = [invites EXCEPT ![i].expired = TRUE]
  /\ UNCHANGED <<role, row, accounts, req, requests, raced>>

-----------------------------------------------------------------------------
Init ==
  /\ role = [u \in Users |-> IF u = Founder THEN Owner ELSE None]
  /\ row = [u \in Users |-> 0] /\ invites = <<>>
  /\ accounts = Staff \cup {Founder}
  /\ req = [q \in Reqs |-> Idle] /\ requests = 0 /\ raced = FALSE

Checks(q) == \E u \in Users :
  \/ \E v \in Users, r \in Roles : AskInvite(q, u, v, r) \/ AskChange(q, u, v, r)
  \/ \E v \in Users : AskRemove(q, u, v)
  \/ AskLeave(q, u)
  \/ \E i \in DOMAIN invites : AskResend(q, u, i) \/ AskAccept(q, u, i)

Writes(q) ==
  \/ SendInvite(q) \/ Resend(q) \/ Delete(q) \/ Change(q)
  \/ Join(q) \/ JoinAgain(q) \/ Upgrade(q) \/ KeepRole(q)

Next ==
  \/ \E q \in Reqs : Checks(q) \/ Writes(q)
  \/ \E u \in Users : SignIn(u)
  \/ \E i \in DOMAIN invites :
        CreateAccount(i) \/ Expire(i) \/ \E u \in Users : Revoke(u, i)

Spec == Init /\ [][Next]_vars

-----------------------------------------------------------------------------
(* Properties *)

\* The workspace always has an owner, whoever leaves, is removed or demoted,
\* as long as no request acts on a check that another one's write outdated.
KeepsAnOwner == ~raced => \E u \in Users : role[u] = Owner

\* An invite ends one way: accepted or revoked, never both, and once; a resend
\* that crosses either does not bring it back.
OneFate ==
  \A i \in DOMAIN invites :
    /\ ~(invites'[i].accepted /\ invites'[i].revoked)
    /\ ~Open(i) => ~Pending(i)' /\ invites'[i].to = invites[i].to

\* Redeeming an invite never costs a member their standing.
UpgradeOnly ==
  \A q \in Reqs : req[q].op = "accept" /\ req'[q].op = "idle" /\ ~req[q].stale
    => role'[req[q].by] >= role[req[q].by]

\* grant_invite: what a step may do to an invite, and an invite to a member.
InvitesHold == [][OneFate /\ UpgradeOnly]_vars

=============================================================================
