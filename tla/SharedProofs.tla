---------------------------- MODULE SharedProofs ----------------------------
(***************************************************************************)
(* What holds of what a workspace shares, for every value of the constants.*)
(* Membership, with any number of users, requests and invites: it keeps an *)
(* owner while no check is outdated, an invite ends one way, and redeeming *)
(* one lowers nobody.  VideoRuns, with any number of hosts, chains and     *)
(* renders: the published video never goes back, and nobody is served one  *)
(* older than what was published when the request came in.                 *)
(***************************************************************************)
EXTENDS Membership, VideoRuns, FiniteSetTheorems, SequenceTheorems, TLAPS

-----------------------------------------------------------------------------
(* Membership: what is counted, and what requests are about.               *)

Inviting == {q \in Reqs : req[q].op = "invite"}

\* Requests that are about to send an invite count against its bound.
Counted == Len(invites) + Cardinality(Inviting) <= MaxInvites

\* A request is by somebody with an account, about what there is.
RequestsOK ==
  \A q \in Reqs :
    /\ req[q].op # "idle" => req[q].by \in accounts
    /\ req[q].op = "accept" => req[q].user = req[q].by
    /\ req[q].op \in {"resend", "accept"} => req[q].invite \in DOMAIN invites
    /\ req[q].op \in {"invite", "accept"} => req[q].rank \in Roles

\* Nobody without an account is a member.
MembersSignIn == \A u \in Users : role[u] # None => u \in accounts

TypeInv ==
  /\ role \in [Users -> None..Owner] /\ row \in [Users -> Nat]
  /\ invites \in Seq(Invites) /\ Counted
  /\ accounts \subseteq Users /\ req \in [Reqs -> Requests]
  /\ requests \in 0..MaxRequests /\ raced \in BOOLEAN
  /\ RequestsOK

\* What a request checked holds as long as no write has outdated it.
ChecksStand ==
  \A q \in Reqs : ~req[q].stale =>
    /\ req[q].op \in {"remove", "leave"} => ~LastOwner(req[q].user)
    /\ req[q].op = "change" => req[q].rank = Owner \/ ~LastOwner(req[q].user)
    /\ req[q].op = "accept" => role[req[q].by] = req[q].seen

OwnerInv == MembersSignIn /\ ChecksStand /\ KeepsAnOwner

\* One redemption at a time of an invite, which stays open until it is over.
InviteInv ==
  /\ \A i \in DOMAIN invites : ~(invites[i].accepted /\ invites[i].revoked)
  /\ \A q \in Reqs : req[q].op = "accept" =>
       /\ Open(req[q].invite)
       /\ \A p \in Reqs \ {q} : req[p].op = "accept" => req[p].invite # req[q].invite

-----------------------------------------------------------------------------
(* The type invariant, and what requests are.                              *)

\* What the invariant needs of the constants.
LEMMA Domains ==
  /\ Idle \in Requests /\ Idle.op = "idle"
  /\ Roles \subseteq None..Owner /\ Roles \subseteq 0..3
  /\ None \in None..Owner /\ Owner \in None..Owner
  /\ None = -1 /\ Owner = 3 /\ None..Owner = -1..3
BY MembershipAssumption DEF Idle, Requests, Ops, None, Viewer, Owner

\* There are no requests and no invites.
LEMMA TypeInit == Init => TypeInv
<1> SUFFICES ASSUME Init PROVE TypeInv
  OBVIOUS
<1>1. Inviting = {}
  BY DEF Inviting, Init, Idle
<1>2. Counted
  <2>1. Len(invites) = 0 /\ Cardinality(Inviting) = 0
    BY <1>1, FS_EmptySet, EmptySeq DEF Init
  <2>2. QED
    BY MembershipAssumption, <2>1 DEF Counted
<1>3. RequestsOK
  BY DEF RequestsOK, Init, Idle
<1>4. invites \in Seq(Invites)
  BY EmptySeq DEF Init
<1>5. role \in [Users -> None..Owner] /\ row \in [Users -> Nat]
  BY Domains DEF Init
<1>6. req \in [Reqs -> Requests] /\ accounts \subseteq Users /\ requests \in 0..MaxRequests
  BY MembershipAssumption, Domains DEF Init
<1>7. QED
  BY <1>2, <1>3, <1>4, <1>5, <1>6 DEF TypeInv, Init

\* As long as no request is added that sends an invite, the bound is kept.
LEMMA CountKept ==
  ASSUME TypeInv, Inviting' \subseteq Inviting, Len(invites') = Len(invites)
  PROVE  Counted'
<1>1. IsFiniteSet(Inviting)
  BY MembershipAssumption, FS_Subset DEF Inviting
<1>2. Cardinality(Inviting') <= Cardinality(Inviting) /\ IsFiniteSet(Inviting')
  BY <1>1, FS_Subset
<1>3. Cardinality(Inviting) \in Nat /\ Cardinality(Inviting') \in Nat
  BY <1>1, <1>2, FS_CardinalityType
<1>4. Len(invites) \in Nat
  BY LenProperties DEF TypeInv
<1>5. QED
  BY MembershipAssumption, <1>2, <1>3, <1>4 DEF Counted, TypeInv

\* A request that passes its checks.
LEMMA AsksType ==
  ASSUME TypeInv, NEW q \in Reqs, NEW u \in Users, NEW r \in Requests,
         Asks(q, u, r),
         r.op = "accept" => r.user = u,
         r.op \in {"resend", "accept"} => r.invite \in DOMAIN invites,
         r.op \in {"invite", "accept"} => r.rank \in Roles,
         r.op = "invite" => Len(invites) + Cardinality(Inviting) < MaxInvites
  PROVE  TypeInv'
<1> DEFINE s == [r EXCEPT !.by = u]
<1>1. /\ s \in Requests /\ s.by = u /\ s.op = r.op /\ s.user = r.user
      /\ s.invite = r.invite /\ s.rank = r.rank
  BY DEF Requests
<1>2. req' = [req EXCEPT ![q] = s] /\ req' \in [Reqs -> Requests] /\ req[q].op = "idle"
  BY <1>1 DEF Asks, TypeInv
<1>3. requests' \in 0..MaxRequests
  BY MembershipAssumption DEF Asks, TypeInv
<1>4. RequestsOK'
  BY <1>1, <1>2 DEF Asks, TypeInv, RequestsOK
<1>5. Counted'
  <2>1. CASE r.op # "invite"
    BY <2>1, <1>1, <1>2, CountKept DEF Inviting, Asks, TypeInv
  <2>2. CASE r.op = "invite"
    <3>1. IsFiniteSet(Inviting) /\ q \notin Inviting
      BY MembershipAssumption, <1>2, FS_Subset DEF Inviting
    <3>2. Inviting' = Inviting \cup {q}
      BY <2>2, <1>1, <1>2 DEF Inviting, TypeInv
    <3>3. Cardinality(Inviting') = Cardinality(Inviting) + 1 /\ Cardinality(Inviting) \in Nat
      BY <3>1, <3>2, FS_AddElement, FS_CardinalityType
    <3>4. Len(invites) \in Nat /\ invites' = invites
      BY LenProperties DEF TypeInv, Asks
    <3>5. QED
      BY MembershipAssumption, <2>2, <3>3, <3>4 DEF Counted
  <2>3. QED
    BY <2>1, <2>2
<1>6. QED
  BY <1>2, <1>3, <1>4, <1>5 DEF TypeInv, Asks

\* A request that ends, or whose write outdates others, is no other request.
LEMMA EndsOrSets ==
  ASSUME TypeInv, NEW q \in Reqs, NEW v \in Users, NEW k \in None..Owner,
         Ends(q) \/ SetRole(q, v, k)
  PROVE  /\ req' \in [Reqs -> Requests] /\ req'[q] = Idle
         /\ role' \in [Users -> None..Owner] /\ raced' \in BOOLEAN
         /\ Inviting' \subseteq Inviting \ {q}
         /\ \A p \in Reqs \ {q} :
              /\ req'[p].op = req[p].op /\ req'[p].by = req[p].by /\ req'[p].user = req[p].user
              /\ req'[p].rank = req[p].rank /\ req'[p].seen = req[p].seen
              /\ req'[p].invite = req[p].invite
              /\ req'[p].stale \/ req[p].op = "idle" \/ (role' = role /\ ~req[p].stale)
<1> USE Domains
<1>1. CASE Ends(q)
  <2>1. req' = [req EXCEPT ![q] = Idle] /\ role' = role /\ raced' = raced
    BY <1>1 DEF Ends
  <2>2. req' \in [Reqs -> Requests] /\ req'[q] = Idle /\ \A p \in Reqs \ {q} : req'[p] = req[p]
    BY <2>1 DEF TypeInv
  <2>3. QED
    BY <2>1, <2>2 DEF TypeInv, Inviting
<1>2. CASE SetRole(q, v, k)
  <2> DEFINE later(p) == [req[p] EXCEPT !.stale = req[p].op # "idle"]
  <2>1. /\ req' = [p \in Reqs |-> IF p = q THEN Idle ELSE later(p)]
        /\ role' = [role EXCEPT ![v] = k] /\ raced' = (raced \/ req[q].stale)
    BY <1>2 DEF SetRole
  <2>2. \A p \in Reqs :
          /\ later(p) \in Requests /\ later(p).op = req[p].op /\ later(p).by = req[p].by
          /\ later(p).user = req[p].user /\ later(p).rank = req[p].rank
          /\ later(p).seen = req[p].seen /\ later(p).invite = req[p].invite
          /\ later(p).stale = (req[p].op # "idle")
    BY DEF TypeInv, Requests
  <2> HIDE DEF later
  <2>3. req' \in [Reqs -> Requests] /\ req'[q] = Idle /\ \A p \in Reqs \ {q} : req'[p] = later(p)
    BY <2>1, <2>2
  <2>4. Inviting' \subseteq Inviting \ {q}
    BY <2>2, <2>3 DEF Inviting
  <2>5. role' \in [Users -> None..Owner] /\ raced' \in BOOLEAN
    BY <2>1 DEF TypeInv, Requests
  <2>6. QED
    BY <2>2, <2>3, <2>4, <2>5, ZenonT(60)
<1>3. QED
  BY <1>1, <1>2

\* A write leaves the other requests what they are, so types are a matter of
\* invites, accounts and rows.
LEMMA WriteType ==
  ASSUME TypeInv, NEW q \in Reqs, NEW v \in Users, NEW k \in None..Owner,
         Ends(q) \/ SetRole(q, v, k),
         row' \in [Users -> Nat], invites' \in Seq(Invites),
         Len(invites') = Len(invites), UNCHANGED <<accounts, requests>>
  PROVE  TypeInv'
<1>1. Counted'
  BY EndsOrSets, CountKept
<1>2. DOMAIN invites' = DOMAIN invites
  BY LenProperties DEF TypeInv
<1>3. RequestsOK'
  BY <1>2, EndsOrSets, Domains, ZenonT(60) DEF TypeInv, RequestsOK
<1>4. QED
  BY <1>1, <1>3, EndsOrSets DEF TypeInv

\* Settling, resending, revoking or expiring an invite changes one flag of it.
LEMMA InviteTypes ==
  ASSUME TypeInv, NEW i \in DOMAIN invites
  PROVE  /\ Settled(i) \in Seq(Invites) /\ Len(Settled(i)) = Len(invites)
         /\ [invites EXCEPT ![i].expired = FALSE] \in Seq(Invites)
         /\ Len([invites EXCEPT ![i].expired = FALSE]) = Len(invites)
         /\ [invites EXCEPT ![i].expired = TRUE] \in Seq(Invites)
         /\ Len([invites EXCEPT ![i].expired = TRUE]) = Len(invites)
         /\ [invites EXCEPT ![i].revoked = TRUE] \in Seq(Invites)
         /\ Len([invites EXCEPT ![i].revoked = TRUE]) = Len(invites)
<1>1. i \in 1..Len(invites) /\ invites \in Seq(Invites) /\ invites[i] \in Invites
  BY LenProperties, ElementOfSeq DEF TypeInv
<1>2. /\ [invites[i] EXCEPT !.accepted = TRUE] \in Invites
      /\ [invites[i] EXCEPT !.expired = FALSE] \in Invites
      /\ [invites[i] EXCEPT !.expired = TRUE] \in Invites
      /\ [invites[i] EXCEPT !.revoked = TRUE] \in Invites
  BY <1>1 DEF Invites
<1>3. \A e \in Invites : [invites EXCEPT ![i] = e] \in Seq(Invites)
                         /\ Len([invites EXCEPT ![i] = e]) = Len(invites)
  BY <1>1, ExceptSeq
<1>4. QED
  BY <1>2, <1>3 DEF Settled

\* An invite that was sent.
LEMMA InviteIs ==
  ASSUME TypeInv, NEW i \in DOMAIN invites
  PROVE  /\ i \in 0..MaxInvites /\ invites[i] \in Invites
         /\ invites[i].to \in Users /\ invites[i].rank \in Roles /\ invites[i].rank \in None..Owner
<1>1. i \in 1..Len(invites) /\ Len(invites) \in Nat /\ invites[i] \in Invites
  BY LenProperties, ElementOfSeq DEF TypeInv
<1>2. Cardinality(Inviting) \in Nat
  BY MembershipAssumption, FS_Subset, FS_CardinalityType DEF Inviting
<1>3. i \in 0..MaxInvites
  BY MembershipAssumption, <1>1, <1>2 DEF TypeInv, Counted
<1>4. QED
  BY <1>1, <1>3, Domains DEF Invites

\* Every write of a request.
LEMMA WritesType ==
  ASSUME TypeInv, NEW q \in Reqs, Writes(q)
  PROVE  TypeInv'
<1> DEFINE r == req[q]
<1>0. /\ r \in Requests /\ r.by \in Users /\ r.user \in Users /\ r.rank \in None..Owner
      /\ r.seen \in None..Owner /\ r.row \in Nat /\ requests \in Nat
      /\ invites \in Seq(Invites) /\ row \in [Users -> Nat] /\ role \in [Users -> None..Owner]
  BY MembershipAssumption DEF TypeInv, Requests
<1>1. CASE SendInvite(q)
  <2> DEFINE e == [to |-> r.user, rank |-> r.rank, expired |-> FALSE, accepted |-> FALSE,
                   revoked |-> FALSE]
  <2>1. r.op = "invite" /\ r.rank \in Roles /\ e \in Invites
    BY <1>0, <1>1 DEF SendInvite, TypeInv, RequestsOK, Invites
  <2>2. invites' = Append(invites, e) /\ Ends(q) /\ UNCHANGED <<accounts, requests, row>>
    BY <1>1 DEF SendInvite, Ends
  <2>3. invites' \in Seq(Invites) /\ Len(invites') = Len(invites) + 1 /\ Len(invites) \in Nat
    BY <1>0, <2>1, <2>2, AppendProperties, LenProperties
  <2>4. DOMAIN invites = 1..Len(invites) /\ DOMAIN invites' = 1..Len(invites')
    BY <1>0, <2>3, LenProperties
  <2>5. Counted'
    <3>1. q \in Inviting /\ IsFiniteSet(Inviting) /\ Inviting' \subseteq Inviting \ {q}
      BY MembershipAssumption, <1>0, <2>1, <2>2, EndsOrSets, FS_Subset DEF Inviting
    <3>2. Cardinality(Inviting \ {q}) = Cardinality(Inviting) - 1 /\ IsFiniteSet(Inviting \ {q})
      BY <3>1, FS_RemoveElement
    <3>3. Cardinality(Inviting') <= Cardinality(Inviting \ {q}) /\ IsFiniteSet(Inviting')
      BY <3>1, <3>2, FS_Subset
    <3>4. Cardinality(Inviting) \in Nat /\ Cardinality(Inviting') \in Nat
      BY <3>1, <3>3, FS_CardinalityType
    <3>5. QED
      BY MembershipAssumption, <2>3, <3>2, <3>3, <3>4 DEF Counted, TypeInv
  <2>6. RequestsOK'
    <3>1. /\ req'[q] = Idle
          /\ \A p \in Reqs \ {q} :
               /\ req'[p].op = req[p].op /\ req'[p].by = req[p].by /\ req'[p].user = req[p].user
               /\ req'[p].rank = req[p].rank /\ req'[p].invite = req[p].invite
      BY <1>0, <2>2, EndsOrSets
    <3>2. DOMAIN invites \subseteq DOMAIN invites' /\ accounts' = accounts
      BY <2>2, <2>3, <2>4
    <3>3. QED
      BY <3>1, <3>2, Domains DEF TypeInv, RequestsOK
  <2>7. QED
    BY <1>0, <2>2, <2>3, <2>5, <2>6, EndsOrSets DEF TypeInv
<1>2. CASE Resend(q)
  <2>1. r.invite \in DOMAIN invites
    BY <1>2 DEF Resend, TypeInv, RequestsOK
  <2>2. QED
    BY <1>0, <1>2, <2>1, InviteTypes, WriteType DEF Resend, Ends
<1>3. CASE Delete(q) \/ Change(q)
  BY <1>0, <1>3, WriteType, Domains DEF Delete, Change, Ends
<1>4. CASE Join(q) \/ Upgrade(q) \/ KeepRole(q)
  <2>1. r.op = "accept" /\ r.invite \in DOMAIN invites
    BY <1>4 DEF Join, Upgrade, KeepRole, TypeInv, RequestsOK
  <2>2. Settled(r.invite) \in Seq(Invites) /\ Len(Settled(r.invite)) = Len(invites)
    BY <2>1, InviteTypes
  <2>3. Granted(q) \in None..Owner
    BY <1>0 DEF Granted, Higher
  <2>4. [row EXCEPT ![r.by] = requests] \in [Users -> Nat]
    BY <1>0
  <2>5. CASE Join(q)
    BY <1>0, <2>2, <2>4, <2>5, WriteType DEF Join
  <2>6. CASE Upgrade(q)
    BY <1>0, <2>2, <2>3, <2>6, WriteType DEF Upgrade, Ends
  <2>7. CASE KeepRole(q)
    BY <1>0, <2>2, <2>7, WriteType DEF KeepRole, Ends
  <2>8. QED
    BY <1>4, <2>5, <2>6, <2>7
<1>5. CASE JoinAgain(q)
  <2> DEFINE s == [r EXCEPT !.seen = role[r.by], !.row = row[r.by], !.stale = FALSE]
  <2>1. /\ s \in Requests /\ s.op = r.op /\ s.by = r.by /\ s.user = r.user
        /\ s.invite = r.invite /\ s.rank = r.rank
    BY <1>0 DEF Requests
  <2>2. req' = [req EXCEPT ![q] = s]
    BY <1>5 DEF JoinAgain
  <2> HIDE DEF s
  <2>3. req' \in [Reqs -> Requests] /\ \A p \in Reqs : req'[p] = IF p = q THEN s ELSE req[p]
    BY <2>1, <2>2 DEF TypeInv
  <2>4. Inviting' \subseteq Inviting
    BY <2>1, <2>3 DEF Inviting
  <2>5. Counted'
    BY <1>5, <2>4, CountKept DEF JoinAgain
  <2>6. RequestsOK'
    BY <1>5, <2>1, <2>3 DEF JoinAgain, TypeInv, RequestsOK
  <2>7. QED
    BY <1>5, <2>3, <2>5, <2>6 DEF JoinAgain, TypeInv
<1>6. QED
  BY <1>1, <1>2, <1>3, <1>4, <1>5 DEF Writes

\* What a request is about, and the role it read.
LEMMA AboutIs ==
  ASSUME TypeInv, NEW op \in Ops, NEW v \in Users, NEW k \in None..Owner
  PROVE  LET r == About(op, v, k) IN
         r \in Requests /\ r.op = op /\ r.user = v /\ r.rank = k /\ r.seen = role[v]
<1>1. role[v] \in None..Owner /\ row[v] \in Nat
  BY DEF TypeInv
<1>2. Idle \in Requests
  BY Domains
<1>3. QED
  BY <1>1, <1>2 DEF About, Requests

\* Every check of a request.
LEMMA ChecksType ==
  ASSUME TypeInv, NEW q \in Reqs, Checks(q)
  PROVE  TypeInv'
<1> USE Domains
<1>0. PICK u \in Users :
        \/ \E v \in Users, k \in Roles : AskInvite(q, u, v, k) \/ AskChange(q, u, v, k)
        \/ \E v \in Users : AskRemove(q, u, v)
        \/ AskLeave(q, u)
        \/ \E i \in DOMAIN invites : AskResend(q, u, i) \/ AskAccept(q, u, i)
  BY DEF Checks
<1>1. \A op \in Ops, v \in Users, k \in None..Owner :
        LET r == About(op, v, k) IN
        r \in Requests /\ r.op = op /\ r.user = v /\ r.rank = k
  BY AboutIs
<1>2. \A i \in DOMAIN invites :
        i \in 0..MaxInvites /\ invites[i].to \in Users /\ invites[i].rank \in Roles
  BY InviteIs
<1>3. ASSUME NEW v \in Users, NEW k \in Roles, AskInvite(q, u, v, k)
      PROVE  TypeInv'
  <2>1. Len(invites) + Cardinality(Inviting) < MaxInvites
    BY <1>3 DEF AskInvite, Inviting
  <2>2. "invite" \in Ops /\ k \in None..Owner /\ Asks(q, u, About("invite", v, k))
    BY <1>3 DEF AskInvite, Ops
  <2>3. QED
    BY <1>1, <2>1, <2>2, AsksType
<1>4. ASSUME NEW v \in Users, NEW k \in Roles, AskChange(q, u, v, k)
      PROVE  TypeInv'
  <2>1. "change" \in Ops /\ k \in None..Owner /\ Asks(q, u, About("change", v, k))
    BY <1>4 DEF AskChange, Ops
  <2>2. QED
    BY <1>1, <2>1, AsksType
<1>5. ASSUME NEW v \in Users, AskRemove(q, u, v) \/ AskLeave(q, u)
      PROVE  TypeInv'
  <2>1. {"remove", "leave"} \subseteq Ops
        /\ (Asks(q, u, About("remove", v, None)) \/ Asks(q, u, About("leave", u, None)))
    BY <1>5 DEF AskRemove, AskLeave, Ops
  <2>2. QED
    BY <1>1, <2>1, AsksType
<1>6. ASSUME NEW i \in DOMAIN invites, AskResend(q, u, i) \/ AskAccept(q, u, i)
      PROVE  TypeInv'
  <2> DEFINE r(op) == [About(op, IF op = "accept" THEN u ELSE invites[i].to, invites[i].rank)
                        EXCEPT !.invite = i]
  <2>2. \A op \in {"resend", "accept"} :
          /\ r(op) \in Requests /\ r(op).op = op /\ r(op).invite = i
          /\ r(op).rank \in Roles /\ (op = "accept" => r(op).user = u)
    BY <1>1, <1>2 DEF Requests, Ops
  <2>3. Asks(q, u, r("resend")) \/ Asks(q, u, r("accept"))
    BY <1>6, <1>2 DEF AskResend, AskAccept
  <2> HIDE DEF r
  <2>4. QED
    BY <2>2, <2>3, AsksType
<1>7. QED
  BY <1>0, <1>3, <1>4, <1>5, <1>6

\* What happens beside the requests: accounts, expiry and revocation.
LEMMA OthersType ==
  ASSUME TypeInv,
         \/ \E u \in Users : SignIn(u)
         \/ \E i \in DOMAIN invites :
              CreateAccount(i) \/ Expire(i) \/ \E u \in Users : Revoke(u, i)
  PROVE  TypeInv'
<1>1. ASSUME NEW u \in Users, SignIn(u)
      PROVE  TypeInv'
  <2>1. Counted' /\ RequestsOK'
    BY <1>1, CountKept DEF SignIn, Inviting, TypeInv, RequestsOK
  <2>2. QED
    BY <1>1, <2>1 DEF SignIn, TypeInv
<1>2. ASSUME NEW i \in DOMAIN invites, CreateAccount(i)
      PROVE  TypeInv'
  <2> DEFINE later(p) == [req[p] EXCEPT !.stale = req[p].op # "idle"]
  <2>1. invites[i].to \in Users /\ invites[i].rank \in None..Owner
    BY InviteIs
  <2>2. \A p \in Reqs :
          /\ later(p) \in Requests /\ later(p).op = req[p].op /\ later(p).by = req[p].by
          /\ later(p).user = req[p].user /\ later(p).rank = req[p].rank
          /\ later(p).invite = req[p].invite
    BY DEF TypeInv, Requests
  <2>3. req' = [p \in Reqs |-> later(p)]
    BY <1>2 DEF CreateAccount
  <2> HIDE DEF later
  <2>4. req' \in [Reqs -> Requests] /\ Inviting' = Inviting
    BY <2>2, <2>3 DEF Inviting
  <2>5. /\ invites' \in Seq(Invites) /\ Len(invites') = Len(invites)
        /\ DOMAIN invites' = DOMAIN invites
    <3>1. invites' \in Seq(Invites) /\ Len(invites') = Len(invites) /\ invites \in Seq(Invites)
      BY <1>2, InviteTypes DEF CreateAccount, TypeInv
    <3>2. QED
      BY <3>1, LenProperties
  <2>6. Counted'
    BY <2>4, <2>5, CountKept
  <2>7. RequestsOK'
    <3>1. accounts \subseteq accounts'
      BY <1>2 DEF CreateAccount
    <3>2. \A p \in Reqs :
            /\ req'[p].op = req[p].op /\ req'[p].by = req[p].by /\ req'[p].user = req[p].user
            /\ req'[p].rank = req[p].rank /\ req'[p].invite = req[p].invite
      BY <2>2, <2>3
    <3>3. QED
      BY <2>5, <3>1, <3>2 DEF RequestsOK, TypeInv
  <2>8. role' \in [Users -> None..Owner] /\ row' \in [Users -> Nat] /\ requests' \in 0..MaxRequests
    BY MembershipAssumption, <1>2, <2>1 DEF CreateAccount, TypeInv
  <2>9. QED
    BY <1>2, <2>1, <2>4, <2>5, <2>6, <2>7, <2>8 DEF TypeInv, CreateAccount
<1>3. ASSUME NEW i \in DOMAIN invites, Expire(i) \/ \E u \in Users : Revoke(u, i)
      PROVE  TypeInv'
  <2>1. invites' \in Seq(Invites) /\ Len(invites') = Len(invites) /\ invites \in Seq(Invites)
    <3>1. \/ invites' = [invites EXCEPT ![i].expired = TRUE]
          \/ invites' = [invites EXCEPT ![i].revoked = TRUE]
      BY <1>3 DEF Expire, Revoke
    <3>2. CASE invites' = [invites EXCEPT ![i].expired = TRUE]
      BY <3>2, InviteTypes DEF TypeInv
    <3>3. CASE invites' = [invites EXCEPT ![i].revoked = TRUE]
      BY <3>3, InviteTypes DEF TypeInv
    <3>4. QED
      BY <3>1, <3>2, <3>3
  <2>2. DOMAIN invites' = DOMAIN invites
    BY <2>1, LenProperties
  <2>3. UNCHANGED <<role, row, accounts, req, requests, raced>>
    BY <1>3 DEF Expire, Revoke
  <2>4. Counted' /\ RequestsOK'
    BY <2>1, <2>2, <2>3, CountKept DEF Inviting, RequestsOK, TypeInv
  <2>5. QED
    BY <2>1, <2>3, <2>4 DEF TypeInv
<1>4. QED
  BY <1>1, <1>2, <1>3

\* Every step keeps the types.
LEMMA TypeNext == TypeInv /\ [Next]_vars => TypeInv'
<1> SUFFICES ASSUME TypeInv, [Next]_vars PROVE TypeInv'
  OBVIOUS
<1>1. CASE Next
  BY <1>1, ChecksType, WritesType, OthersType DEF Next
<1>2. CASE UNCHANGED vars
  BY <1>2, SMTT(60) DEF vars, TypeInv, RequestsOK, Counted, Inviting
<1>3. QED
  BY <1>1, <1>2

\* The invariant has the types.
LEMMA TypeInvTypes == TypeInv => TypeOK
<1> SUFFICES ASSUME TypeInv PROVE TypeOK
  OBVIOUS
<1>1. invites \in [1..Len(invites) -> Invites] /\ Len(invites) \in Nat
  BY LenProperties DEF TypeInv
<1>2. Cardinality(Inviting) \in Nat
  BY MembershipAssumption, FS_Subset, FS_CardinalityType DEF Inviting
<1>3. Len(invites) \in 0..MaxInvites
  BY MembershipAssumption, <1>1, <1>2 DEF TypeInv, Counted
<1>4. QED
  BY <1>1, <1>3 DEF TypeInv, TypeOK

\* Whatever requests do, roles, rows, invites and requests are what they are
\* declared to be, and there are no more invites than the bound.
THEOREM TypeCorrect == Spec => []TypeOK
<1>1. Init => TypeInv
  BY TypeInit
<1>2. TypeInv /\ [Next]_vars => TypeInv'
  BY TypeNext
<1>3. TypeInv => TypeOK
  BY TypeInvTypes
<1>4. QED
  BY <1>1, <1>2, <1>3, PTL DEF Spec

-----------------------------------------------------------------------------
(* The owner.                                                              *)

\* Ending a request, or writing a role, leaves what the others checked: what a
\* write outdates is marked.
LEMMA ChecksKept ==
  ASSUME TypeInv, ChecksStand, NEW q \in Reqs, NEW v \in Users,
         NEW k \in None..Owner, Ends(q) \/ SetRole(q, v, k)
  PROVE  ChecksStand'
<1> SUFFICES ASSUME NEW p \in Reqs, ~req'[p].stale, req'[p].op # "idle"
             PROVE  /\ req'[p].op \in {"remove", "leave"} => ~LastOwner(req[p].user)'
                    /\ req'[p].op = "change" => req'[p].rank = Owner \/ ~LastOwner(req[p].user)'
                    /\ req'[p].op = "accept" => role'[req'[p].by] = req'[p].seen
  BY DEF ChecksStand
<1>1. p # q
  BY EndsOrSets, Domains
<1>2. /\ req'[p].op = req[p].op /\ req'[p].by = req[p].by /\ req'[p].user = req[p].user
      /\ req'[p].rank = req[p].rank /\ req'[p].seen = req[p].seen
      /\ role' = role /\ ~req[p].stale
  BY <1>1, EndsOrSets
<1>3. QED
  BY <1>2 DEF ChecksStand, LastOwner

\* A role that is written leaves an owner, if it is an owner's or another user
\* is one, and a member has an account.
LEMMA OwnerLeft ==
  ASSUME TypeInv, MembersSignIn, KeepsAnOwner,
         NEW q \in Reqs, NEW v \in Users, NEW k \in None..Owner, SetRole(q, v, k),
         ~req[q].stale => k = Owner \/ ~LastOwner(v),
         k # None => v \in accounts, UNCHANGED accounts
  PROVE  KeepsAnOwner' /\ MembersSignIn'
<1>1. role' = [role EXCEPT ![v] = k] /\ raced' = (raced \/ req[q].stale)
  BY DEF SetRole
<1>2. \A u \in Users : role'[u] = IF u = v THEN k ELSE role[u]
  BY <1>1 DEF TypeInv
<1>3. MembersSignIn'
  BY <1>2 DEF MembersSignIn
<1>4. ASSUME ~raced, ~req[q].stale PROVE \E u \in Users : role'[u] = Owner
  <2>1. PICK u \in Users : role[u] = Owner
    BY <1>4 DEF KeepsAnOwner
  <2>2. CASE k = Owner
    BY <2>2, <1>2
  <2>3. CASE ~LastOwner(v)
    <3>1. PICK w \in Users : w # v /\ role[w] = Owner
      BY <2>1, <2>3 DEF LastOwner
    <3>2. QED
      BY <3>1, <1>2
  <2>4. QED
    BY <1>4, <2>2, <2>3
<1>5. QED
  BY <1>1, <1>3, <1>4 DEF KeepsAnOwner

\* Every write of a request.
LEMMA WritesOwner ==
  ASSUME TypeInv, OwnerInv, NEW q \in Reqs, Writes(q)
  PROVE  OwnerInv'
<1> DEFINE r == req[q]
<1>0. /\ r \in Requests /\ r.by \in Users /\ r.user \in Users /\ r.rank \in None..Owner
      /\ r.seen \in None..Owner /\ role \in [Users -> None..Owner]
      /\ MembersSignIn /\ ChecksStand /\ KeepsAnOwner
      /\ r.op = "accept" => r.user = r.by /\ r.by \in accounts
  BY DEF TypeInv, Requests, OwnerInv, RequestsOK
<1>1. ASSUME Ends(q), UNCHANGED accounts
      PROVE  OwnerInv'
  <2>1. ChecksStand'
    BY <1>0, <1>1, ChecksKept
  <2>2. QED
    BY <1>0, <1>1, <2>1 DEF OwnerInv, Ends, MembersSignIn, KeepsAnOwner
<1>2. ASSUME NEW v \in Users, NEW k \in None..Owner, SetRole(q, v, k), UNCHANGED accounts,
             ~req[q].stale => k = Owner \/ ~LastOwner(v), k # None => v \in accounts
      PROVE  OwnerInv'
  <2>1. ChecksStand'
    BY <1>0, <1>2, ChecksKept
  <2>2. KeepsAnOwner' /\ MembersSignIn'
    BY <1>0, <1>2, OwnerLeft
  <2>3. QED
    BY <2>1, <2>2 DEF OwnerInv
<1>3. CASE SendInvite(q) \/ Resend(q) \/ KeepRole(q)
  BY <1>1, <1>3 DEF SendInvite, Resend, KeepRole
<1>4. CASE Delete(q)
  <2>1. ~r.stale => ~LastOwner(r.user)
    BY <1>0, <1>4 DEF Delete, ChecksStand
  <2>2. QED
    BY <1>0, <1>1, <1>2, <1>4, <2>1, Domains DEF Delete
<1>5. CASE Change(q)
  <2>1. ~r.stale => r.rank = Owner \/ ~LastOwner(r.user)
    BY <1>0, <1>5 DEF Change, ChecksStand
  <2>2. SameRow(q) => r.user \in accounts
    BY <1>0 DEF SameRow, MembersSignIn
  <2>3. QED
    BY <1>0, <1>1, <1>2, <1>5, <2>1, <2>2 DEF Change
<1>6. CASE Join(q)
  <2>1. ~LastOwner(r.by) /\ r.by \in accounts
    BY <1>0, <1>6, Domains DEF Join, LastOwner
  <2>2. QED
    BY <1>0, <1>2, <1>6, <2>1 DEF Join
<1>7. CASE Upgrade(q)
  <2>1. Granted(q) \in None..Owner /\ Granted(q) >= r.seen
    BY <1>0, Domains DEF Granted, Higher
  <2>2. r.op = "accept" /\ r.by \in accounts /\ (~r.stale => role[r.by] = r.seen)
    BY <1>0, <1>7 DEF Upgrade, ChecksStand
  <2>3. ~r.stale => Granted(q) = Owner \/ ~LastOwner(r.by)
    BY <2>1, <2>2, Domains DEF LastOwner
  <2>4. QED
    BY <1>0, <1>1, <1>2, <1>7, <2>1, <2>2, <2>3 DEF Upgrade
<1>8. CASE JoinAgain(q)
  <2>1. /\ r.op = "accept" /\ UNCHANGED <<role, accounts, raced>>
        /\ req' = [req EXCEPT ![q] = [r EXCEPT !.seen = role[r.by], !.row = row[r.by],
                                               !.stale = FALSE]]
    BY <1>8 DEF JoinAgain
  <2>2. /\ \A p \in Reqs \ {q} : req'[p] = req[p]
        /\ req'[q].op = "accept" /\ req'[q].by = r.by /\ req'[q].seen = role[r.by]
    BY <1>0, <2>1 DEF TypeInv, Requests
  <2>3. ChecksStand'
    BY <1>0, <2>1, <2>2 DEF ChecksStand, LastOwner
  <2>4. QED
    BY <1>0, <2>1, <2>3 DEF OwnerInv, MembersSignIn, KeepsAnOwner
<1>9. QED
  BY <1>3, <1>4, <1>5, <1>6, <1>7, <1>8 DEF Writes

\* Every check of a request: it leaves out the last owner, or reads the role.
LEMMA ChecksOwner ==
  ASSUME TypeInv, OwnerInv, NEW q \in Reqs, Checks(q)
  PROVE  OwnerInv'
<1> USE Domains
<1>0. PICK u \in Users :
        \/ \E v \in Users, k \in Roles : AskInvite(q, u, v, k) \/ AskChange(q, u, v, k)
        \/ \E v \in Users : AskRemove(q, u, v)
        \/ AskLeave(q, u)
        \/ \E i \in DOMAIN invites : AskResend(q, u, i) \/ AskAccept(q, u, i)
  BY DEF Checks
<1>1. \A op \in Ops, v \in Users, k \in None..Owner :
        LET r == About(op, v, k) IN
        r \in Requests /\ r.op = op /\ r.user = v /\ r.rank = k /\ r.seen = role[v]
  BY AboutIs
<1>2. ASSUME NEW r \in Requests, Asks(q, u, r),
             r.op \in {"remove", "leave"} => ~LastOwner(r.user),
             r.op = "change" => r.rank = Owner \/ ~LastOwner(r.user),
             r.op = "accept" => role[u] = r.seen
      PROVE  OwnerInv'
  <2> DEFINE s == [r EXCEPT !.by = u]
  <2>1. /\ s \in Requests /\ s.by = u /\ s.op = r.op /\ s.user = r.user
        /\ s.seen = r.seen /\ s.rank = r.rank
    BY DEF Requests
  <2>2. req' = [req EXCEPT ![q] = s] /\ UNCHANGED <<role, accounts, raced>>
    BY <1>2 DEF Asks
  <2> HIDE DEF s
  <2>3. \A p \in Reqs : req'[p] = IF p = q THEN s ELSE req[p]
    BY <2>2 DEF TypeInv
  <2>4. ChecksStand'
    BY <1>2, <2>1, <2>2, <2>3 DEF ChecksStand, OwnerInv, LastOwner
  <2>5. QED
    BY <2>2, <2>4 DEF OwnerInv, MembersSignIn, KeepsAnOwner
<1>3. ASSUME NEW v \in Users, NEW k \in Roles, AskInvite(q, u, v, k) \/ AskChange(q, u, v, k)
      PROVE  OwnerInv'
  <2>1. {"invite", "change"} \subseteq Ops /\ k \in None..Owner
    BY DEF Ops
  <2>2. CASE AskInvite(q, u, v, k)
    BY <1>1, <1>2, <2>1, <2>2 DEF AskInvite
  <2>3. CASE AskChange(q, u, v, k)
    BY <1>1, <1>2, <2>1, <2>3 DEF AskChange
  <2>4. QED
    BY <1>3, <2>2, <2>3
<1>4. ASSUME NEW v \in Users, AskRemove(q, u, v) \/ AskLeave(q, u)
      PROVE  OwnerInv'
  <2>1. {"remove", "leave"} \subseteq Ops
    BY DEF Ops
  <2>2. CASE AskRemove(q, u, v)
    BY <1>1, <1>2, <2>1, <2>2 DEF AskRemove
  <2>3. CASE AskLeave(q, u)
    BY <1>1, <1>2, <2>1, <2>3 DEF AskLeave
  <2>4. QED
    BY <1>4, <2>2, <2>3
<1>5. ASSUME NEW i \in DOMAIN invites, AskResend(q, u, i) \/ AskAccept(q, u, i)
      PROVE  OwnerInv'
  <2> DEFINE r(op) == [About(op, IF op = "accept" THEN u ELSE invites[i].to, invites[i].rank)
                        EXCEPT !.invite = i]
  <2>1. i \in 0..MaxInvites /\ invites[i].to \in Users /\ invites[i].rank \in None..Owner
    BY InviteIs
  <2>2. \A op \in {"resend", "accept"} :
          /\ r(op) \in Requests /\ r(op).op = op /\ (op = "accept" => r(op).seen = role[u])
    <3> TAKE op \in {"resend", "accept"}
    <3>1. PICK v : v = IF op = "accept" THEN u ELSE invites[i].to
      OBVIOUS
    <3>2. v \in Users /\ op \in Ops /\ (op = "accept" => v = u)
      BY <2>1, <3>1 DEF Ops
    <3>3. PICK w : w = About(op, v, invites[i].rank)
      OBVIOUS
    <3>4. w \in Requests /\ w.op = op /\ w.seen = role[v]
      BY <1>1, <2>1, <3>2, <3>3
    <3>5. r(op) = [w EXCEPT !.invite = i]
      BY <3>1, <3>3
    <3>6. r(op) \in Requests /\ r(op).op = w.op /\ r(op).seen = w.seen
      BY <2>1, <3>4, <3>5 DEF Requests
    <3>7. QED
      BY <3>2, <3>4, <3>6
  <2>3. Asks(q, u, r("resend")) \/ Asks(q, u, r("accept"))
    BY <1>5 DEF AskResend, AskAccept
  <2> HIDE DEF r
  <2>4. QED
    BY <1>2, <2>2, <2>3
<1>6. QED
  BY <1>0, <1>3, <1>4, <1>5

\* What happens beside the requests; an account that is created was nobody's,
\* so no owner's.
LEMMA OthersOwner ==
  ASSUME TypeInv, OwnerInv,
         \/ \E u \in Users : SignIn(u)
         \/ \E i \in DOMAIN invites :
              CreateAccount(i) \/ Expire(i) \/ \E u \in Users : Revoke(u, i)
  PROVE  OwnerInv'
<1>1. CASE UNCHANGED <<role, req, raced>> /\ accounts \subseteq accounts'
  BY <1>1 DEF OwnerInv, MembersSignIn, ChecksStand, KeepsAnOwner, LastOwner
<1>2. ASSUME NEW i \in DOMAIN invites, CreateAccount(i)
      PROVE  OwnerInv'
  <2> DEFINE v == invites[i].to
  <2>1. v \in Users /\ v \notin accounts /\ role[v] = None
    BY <1>2, InviteIs DEF CreateAccount, OwnerInv, MembersSignIn
  <2>2. role' = [role EXCEPT ![v] = invites[i].rank] /\ accounts' = accounts \cup {v}
        /\ raced' = raced
    BY <1>2 DEF CreateAccount
  <2> HIDE DEF v
  <2>3. \A u \in Users : u # v => role'[u] = role[u]
    BY <2>1, <2>2 DEF TypeInv
  <2>4. MembersSignIn' /\ KeepsAnOwner'
    BY <2>1, <2>2, <2>3, Domains DEF OwnerInv, MembersSignIn, KeepsAnOwner
  <2>5. \A p \in Reqs : req'[p].op = req[p].op /\ (req'[p].stale \/ req'[p].op = "idle")
    BY <1>2 DEF CreateAccount, TypeInv, Requests
  <2>6. QED
    BY <2>4, <2>5 DEF OwnerInv, ChecksStand
<1>3. QED
  BY <1>1, <1>2 DEF SignIn, Expire, Revoke

\* The founder owns the workspace, and there are no requests.
LEMMA OwnerInit == Init => OwnerInv
<1>1. Init => MembersSignIn /\ KeepsAnOwner
  BY MembershipAssumption DEF Init, MembersSignIn, KeepsAnOwner
<1>2. Init => ChecksStand
  BY DEF Init, ChecksStand, Idle
<1>3. QED
  BY <1>1, <1>2 DEF OwnerInv

\* Every step keeps an owner.
LEMMA OwnerNext == TypeInv /\ OwnerInv /\ [Next]_vars => OwnerInv'
<1> SUFFICES ASSUME TypeInv, OwnerInv, [Next]_vars PROVE OwnerInv'
  OBVIOUS
<1>1. CASE Next
  BY <1>1, ChecksOwner, WritesOwner, OthersOwner DEF Next
<1>2. CASE UNCHANGED vars
  BY <1>2 DEF vars, OwnerInv, MembersSignIn, ChecksStand, KeepsAnOwner, LastOwner
<1>3. QED
  BY <1>1, <1>2

\* As long as every write acts on checks that still hold, the workspace has an
\* owner, however many members leave, are removed, demoted, invited or join.
THEOREM OwnerRemains == Spec => []KeepsAnOwner
<1>1. Init => TypeInv /\ OwnerInv
  BY TypeInit, OwnerInit
<1>2. TypeInv /\ OwnerInv /\ [Next]_vars => (TypeInv /\ OwnerInv)'
  BY TypeNext, OwnerNext
<1>3. TypeInv /\ OwnerInv => KeepsAnOwner
  BY DEF OwnerInv
<1>4. QED
  BY <1>1, <1>2, <1>3, PTL DEF Spec

-----------------------------------------------------------------------------
(* The invites.                                                            *)

\* What a flag that is set leaves of the invites.
LEMMA FlagSet ==
  ASSUME TypeInv, NEW i \in DOMAIN invites, NEW j \in DOMAIN invites
  PROVE  /\ LET s == Settled(i) IN
              /\ s[j].to = invites[j].to /\ s[j].revoked = invites[j].revoked
              /\ j = i => s[j].accepted
              /\ j # i => s[j].accepted = invites[j].accepted
         /\ LET s == [invites EXCEPT ![i].revoked = TRUE] IN
              /\ s[j].to = invites[j].to /\ s[j].accepted = invites[j].accepted
              /\ j = i => s[j].revoked
              /\ j # i => s[j].revoked = invites[j].revoked
         /\ \A b \in BOOLEAN : LET s == [invites EXCEPT ![i].expired = b] IN
              /\ s[j].to = invites[j].to /\ s[j].accepted = invites[j].accepted
              /\ s[j].revoked = invites[j].revoked
<1>1. invites[i] \in Invites /\ invites[j] \in Invites
  BY ElementOfSeq, LenProperties DEF TypeInv
<1>2. QED
  BY <1>1 DEF Settled, Invites

\* What a step may do to the invites: send one, or set a flag of one that is
\* open, which stays the address's; its expiry is no fate.
Same(i, j) == /\ invites'[j].to = invites[j].to
              /\ j # i => /\ invites'[j].accepted = invites[j].accepted
                          /\ invites'[j].revoked = invites[j].revoked

Sent == /\ Len(invites') = Len(invites) + 1
        /\ \A j \in DOMAIN invites : invites'[j] = invites[j]
        /\ ~invites'[Len(invites')].accepted

SettledOf(i) ==
  \A j \in DOMAIN invites : Same(i, j) /\ (j = i => invites'[j].accepted
                                           /\ invites'[j].revoked = invites[j].revoked)
RevokedOf(i) ==
  \A j \in DOMAIN invites : Same(i, j) /\ (j = i => invites'[j].revoked
                                           /\ invites'[j].accepted = invites[j].accepted)
NoFate == \A j \in DOMAIN invites :
  /\ invites'[j].to = invites[j].to /\ invites'[j].accepted = invites[j].accepted
  /\ invites'[j].revoked = invites[j].revoked

\* No request starts or ends redeeming.
SameAccepts == \A p \in Reqs :
  /\ req'[p].op = "accept" <=> req[p].op = "accept"
  /\ req[p].op = "accept" => req'[p].invite = req[p].invite

\* Request q, and no other, stops redeeming.
Stops(q) ==
  /\ req'[q].op = "idle"
  /\ \A p \in Reqs \ {q} : req'[p].op = req[p].op /\ req'[p].invite = req[p].invite

\* Redeeming q lowers nobody, as long as what it read holds.
NotLowered(q) == ~req[q].stale => role'[req[q].by] >= role[req[q].by]

\* The steps, by what they do to invites and redemptions.
InviteStep ==
  \/ Len(invites') = Len(invites) /\ NoFate /\ SameAccepts
  \/ Len(invites') = Len(invites) /\ NoFate
     /\ \E q \in Reqs : Stops(q) /\ (req[q].op = "accept" => NotLowered(q))
  \/ Sent /\ \E q \in Reqs : req[q].op # "accept" /\ Stops(q)
  \/ \E q \in Reqs : /\ req[q].op = "accept" /\ Stops(q) /\ NotLowered(q)
                      /\ Len(invites') = Len(invites) /\ SettledOf(req[q].invite)
  \/ \E i \in DOMAIN invites :
       /\ Open(i) /\ ~Locked(i) /\ Len(invites') = Len(invites) /\ SameAccepts
       /\ SettledOf(i) \/ RevokedOf(i)
  \/ \E q \in Reqs, i \in DOMAIN invites :
       /\ Open(i) /\ ~Locked(i) /\ invites' = invites
       /\ req[q].op = "idle" /\ req'[q].op = "accept" /\ req'[q].invite = i
       /\ \A p \in Reqs \ {q} : req'[p].op = req[p].op /\ req'[p].invite = req[p].invite

\* Every write of a request.
LEMMA WritesInvite ==
  ASSUME TypeInv, OwnerInv, NEW q \in Reqs, Writes(q)
  PROVE  InviteStep
<1> DEFINE r == req[q]
<1>0. /\ r \in Requests /\ r.by \in Users /\ r.user \in Users /\ r.rank \in None..Owner
      /\ r.seen \in None..Owner /\ role \in [Users -> None..Owner] /\ invites \in Seq(Invites)
      /\ r.op \in {"accept", "resend"} => r.invite \in DOMAIN invites
      /\ r.op = "accept" => r.user = r.by
  BY DEF TypeInv, Requests, RequestsOK
<1>1. ASSUME NEW v \in Users, NEW k \in None..Owner, Ends(q) \/ SetRole(q, v, k)
      PROVE  Stops(q)
  BY <1>0, <1>1, EndsOrSets, Domains DEF Stops
<1>2. ASSUME NEW v \in Users, NEW k \in None..Owner, Ends(q) \/ SetRole(q, v, k),
             invites' = invites, r.op # "accept"
      PROVE  InviteStep
  BY <1>1, <1>2 DEF InviteStep, NoFate
<1>3. CASE SendInvite(q)
  <2> DEFINE e == [to |-> r.user, rank |-> r.rank, expired |-> FALSE, accepted |-> FALSE,
                   revoked |-> FALSE]
  <2>1. invites' = Append(invites, e) /\ r.op = "invite" /\ Ends(q)
    BY <1>3 DEF SendInvite
  <2>2. e \in Invites
    BY <1>0, <2>1 DEF TypeInv, RequestsOK, Invites
  <2>3. /\ Len(invites') = Len(invites) + 1 /\ DOMAIN invites = 1..Len(invites)
        /\ Len(invites) \in Nat
        /\ \A j \in 1..Len(invites) : invites'[j] = invites[j]
        /\ invites'[Len(invites) + 1] = e
    BY <1>0, <2>1, <2>2, AppendProperties, LenProperties
  <2>4. Sent
    BY <2>3 DEF Sent
  <2>5. QED
    BY <1>0, <1>1, <2>1, <2>4 DEF InviteStep
<1>4. CASE Resend(q)
  <2>1. /\ invites' = [invites EXCEPT ![r.invite].expired = FALSE] /\ r.op = "resend"
        /\ r.invite \in DOMAIN invites /\ Ends(q)
    BY <1>0, <1>4 DEF Resend
  <2>2. NoFate
    BY <2>1, FlagSet DEF NoFate
  <2>3. Len(invites') = Len(invites)
    BY <2>1, InviteTypes
  <2>4. QED
    BY <1>0, <1>1, <2>1, <2>2, <2>3 DEF InviteStep
<1>5. CASE Delete(q) \/ Change(q)
  BY <1>0, <1>2, <1>5, Domains DEF Delete, Change
<1>6. CASE JoinAgain(q)
  <2> DEFINE s == [r EXCEPT !.seen = role[r.by], !.row = row[r.by], !.stale = FALSE]
  <2>1. s.op = r.op /\ s.invite = r.invite
    BY <1>0 DEF Requests
  <2>2. req' = [req EXCEPT ![q] = s] /\ invites' = invites
    BY <1>6 DEF JoinAgain
  <2> HIDE DEF s
  <2>3. SameAccepts
    BY <2>1, <2>2 DEF SameAccepts, TypeInv
  <2>4. QED
    BY <2>2, <2>3 DEF InviteStep, NoFate
<1>7. ASSUME invites' = Settled(r.invite), r.op = "accept", NotLowered(q),
             NEW k \in None..Owner, Ends(q) \/ SetRole(q, r.by, k)
      PROVE  InviteStep
  <2>1. r.invite \in DOMAIN invites
    BY <1>0, <1>7
  <2>2. SettledOf(r.invite)
    BY <1>7, <2>1, FlagSet DEF SettledOf, Same
  <2>3. Len(invites') = Len(invites)
    BY <1>7, <2>1, InviteTypes
  <2>4. Stops(q)
    BY <1>0, <1>1, <1>7
  <2>5. QED
    BY <1>7, <2>2, <2>3, <2>4 DEF InviteStep
<1>8. ASSUME NEW k \in None..Owner, SetRole(q, r.by, k)
      PROVE  role'[r.by] = k
  BY <1>0, <1>8 DEF SetRole
<1>9. CASE Join(q)
  <2>1. NotLowered(q)
    BY <1>0, <1>8, <1>9, Domains DEF Join, NotLowered
  <2>2. QED
    BY <1>0, <1>7, <1>9, <2>1 DEF Join
<1>10. CASE Upgrade(q)
  <2>1. Granted(q) \in None..Owner /\ Granted(q) >= r.seen
    BY <1>0, Domains DEF Granted, Higher
  <2>2. r.op = "accept" /\ (~r.stale => role[r.by] = r.seen)
    BY <1>10 DEF Upgrade, ChecksStand, OwnerInv
  <2>3. CASE SameRow(q)
    <3>1. SetRole(q, r.by, Granted(q)) /\ invites' = Settled(r.invite)
      BY <1>10, <2>3 DEF Upgrade
    <3>2. NotLowered(q)
      BY <1>8, <2>1, <2>2, <3>1 DEF NotLowered
    <3>3. QED
      BY <1>7, <2>1, <2>2, <3>1, <3>2
  <2>4. CASE ~SameRow(q)
    <3>1. Ends(q) /\ invites' = invites
      BY <1>10, <2>4 DEF Upgrade
    <3>2. NotLowered(q)
      BY <1>0, <3>1, Domains DEF NotLowered, Ends
    <3>3. QED
      BY <1>0, <1>1, <3>1, <3>2 DEF InviteStep, NoFate
  <2>5. QED
    BY <2>3, <2>4
<1>11. CASE KeepRole(q)
  <2>1. NotLowered(q)
    BY <1>0, <1>11, Domains DEF KeepRole, Ends, NotLowered
  <2>2. QED
    BY <1>0, <1>7, <1>11, <2>1 DEF KeepRole
<1>12. QED
  BY <1>3, <1>4, <1>5, <1>6, <1>9, <1>10, <1>11 DEF Writes

\* Every check of a request: one of an open invite that nobody is redeeming may
\* start redeeming it.
LEMMA ChecksInvite ==
  ASSUME TypeInv, NEW q \in Reqs, Checks(q)
  PROVE  InviteStep
<1>0. PICK u \in Users :
        \/ \E v \in Users, k \in Roles : AskInvite(q, u, v, k) \/ AskChange(q, u, v, k)
        \/ \E v \in Users : AskRemove(q, u, v)
        \/ AskLeave(q, u)
        \/ \E i \in DOMAIN invites : AskResend(q, u, i) \/ AskAccept(q, u, i)
  BY DEF Checks
<1>1. \A op \in Ops, v \in Users, k \in None..Owner :
        About(op, v, k) \in Requests /\ About(op, v, k).op = op
  BY AboutIs
<1>2. ASSUME NEW r \in Requests, Asks(q, u, r)
      PROVE  /\ req[q].op = "idle" /\ req'[q].op = r.op /\ req'[q].invite = r.invite
             /\ \A p \in Reqs \ {q} : req'[p] = req[p]
             /\ invites' = invites
  <2> DEFINE s == [r EXCEPT !.by = u]
  <2>1. s.op = r.op /\ s.invite = r.invite
    BY DEF Requests
  <2>2. req' = [req EXCEPT ![q] = s]
    BY <1>2 DEF Asks
  <2> HIDE DEF s
  <2>3. QED
    BY <1>2, <2>1, <2>2 DEF Asks, TypeInv
<1>3. ASSUME NEW r \in Requests, Asks(q, u, r), r.op # "accept"
      PROVE  InviteStep
  <2>1. SameAccepts
    BY <1>2, <1>3 DEF SameAccepts
  <2>2. QED
    BY <1>2, <1>3, <2>1 DEF InviteStep, NoFate
<1>4. ASSUME NEW op \in {"invite", "change", "remove", "leave"}, NEW v \in Users,
             NEW k \in None..Owner, Asks(q, u, About(op, v, k))
      PROVE  InviteStep
  <2>1. op \in Ops /\ op # "accept"
    BY DEF Ops
  <2>2. QED
    BY <1>1, <1>3, <1>4, <2>1
<1>5. ASSUME NEW v \in Users, NEW k \in Roles, AskInvite(q, u, v, k) \/ AskChange(q, u, v, k)
      PROVE  InviteStep
  BY <1>4, <1>5, Domains DEF AskInvite, AskChange
<1>6. ASSUME NEW v \in Users, AskRemove(q, u, v) \/ AskLeave(q, u)
      PROVE  InviteStep
  BY <1>4, <1>6, Domains DEF AskRemove, AskLeave
<1>7. ASSUME NEW i \in DOMAIN invites, AskResend(q, u, i) \/ AskAccept(q, u, i)
      PROVE  InviteStep
  <2> DEFINE r(op) == [About(op, IF op = "accept" THEN u ELSE invites[i].to, invites[i].rank)
                        EXCEPT !.invite = i]
  <2>1. i \in 0..MaxInvites /\ invites[i].to \in Users /\ invites[i].rank \in None..Owner
    BY InviteIs
  <2>2. \A op \in {"resend", "accept"} :
          r(op) \in Requests /\ r(op).op = op /\ r(op).invite = i
    BY <1>1, <2>1 DEF Requests, Ops
  <2>3. \/ Asks(q, u, r("resend"))
        \/ Asks(q, u, r("accept")) /\ Open(i) /\ ~Locked(i)
    BY <1>7 DEF AskResend, AskAccept, Pending
  <2> HIDE DEF r
  <2>4. CASE Asks(q, u, r("resend"))
    BY <1>3, <2>2, <2>4
  <2>5. CASE Asks(q, u, r("accept")) /\ Open(i) /\ ~Locked(i)
    <3>1. /\ req[q].op = "idle" /\ req'[q].op = "accept" /\ req'[q].invite = i
          /\ \A p \in Reqs \ {q} : req'[p] = req[p]
          /\ invites' = invites
      BY <1>2, <2>2, <2>5
    <3>2. QED
      BY <2>5, <3>1 DEF InviteStep
  <2>6. QED
    BY <2>3, <2>4, <2>5
<1>8. QED
  BY <1>0, <1>5, <1>6, <1>7

\* What happens beside the requests: an invite is revoked, or settled with the
\* account it creates, while nobody is redeeming it.
LEMMA OthersInvite ==
  ASSUME TypeInv,
         \/ \E u \in Users : SignIn(u)
         \/ \E i \in DOMAIN invites :
              CreateAccount(i) \/ Expire(i) \/ \E u \in Users : Revoke(u, i)
  PROVE  InviteStep
<1>1. CASE UNCHANGED <<req, invites>>
  BY <1>1 DEF InviteStep, NoFate, SameAccepts
<1>2. ASSUME NEW i \in DOMAIN invites, CreateAccount(i)
      PROVE  InviteStep
  <2>1. invites' = Settled(i) /\ Open(i) /\ ~Locked(i)
    BY <1>2 DEF CreateAccount, Pending
  <2>2. SettledOf(i) /\ Len(invites') = Len(invites)
    BY <2>1, FlagSet, InviteTypes DEF SettledOf, Same
  <2>3. SameAccepts
    BY <1>2 DEF CreateAccount, SameAccepts, TypeInv, Requests
  <2>4. QED
    BY <2>1, <2>2, <2>3 DEF InviteStep
<1>3. ASSUME NEW i \in DOMAIN invites, Expire(i)
      PROVE  InviteStep
  <2>1. invites' = [invites EXCEPT ![i].expired = TRUE] /\ req' = req
    BY <1>3 DEF Expire
  <2>2. NoFate /\ Len(invites') = Len(invites)
    BY <2>1, FlagSet, InviteTypes DEF NoFate
  <2>3. QED
    BY <2>1, <2>2 DEF InviteStep, SameAccepts
<1>4. ASSUME NEW i \in DOMAIN invites, NEW u \in Users, Revoke(u, i)
      PROVE  InviteStep
  <2>1. invites' = [invites EXCEPT ![i].revoked = TRUE] /\ req' = req /\ Open(i) /\ ~Locked(i)
    BY <1>4 DEF Revoke
  <2>2. RevokedOf(i) /\ Len(invites') = Len(invites)
    BY <2>1, FlagSet, InviteTypes DEF RevokedOf, Same
  <2>3. QED
    BY <2>1, <2>2 DEF InviteStep, SameAccepts
<1>5. QED
  BY <1>1, <1>2, <1>3, <1>4 DEF SignIn

\* A step keeps one redemption of an open invite at a time, and gives an invite
\* its one fate.
LEMMA InviteKept ==
  ASSUME TypeInv, TypeInv', InviteInv, InviteStep
  PROVE  InviteInv' /\ OneFate /\ UpgradeOnly
<1>1. /\ DOMAIN invites = 1..Len(invites) /\ DOMAIN invites' = 1..Len(invites')
      /\ Len(invites) \in Nat /\ Len(invites') \in Nat
  BY LenProperties DEF TypeInv
<1>2. \A q \in Reqs : req[q].op = "accept" => req[q].invite \in DOMAIN invites
  BY DEF TypeInv, RequestsOK
<1> USE DEF Open
<1>3. CASE Len(invites') = Len(invites) /\ NoFate /\ SameAccepts
  BY <1>1, <1>2, <1>3 DEF NoFate, SameAccepts, InviteInv, OneFate, UpgradeOnly, Pending
<1>4. ASSUME NEW q \in Reqs, Stops(q), Len(invites') = Len(invites), NoFate,
             req[q].op = "accept" => NotLowered(q)
      PROVE  InviteInv' /\ OneFate /\ UpgradeOnly
  BY <1>1, <1>2, <1>4 DEF NoFate, Stops, InviteInv, OneFate, UpgradeOnly, NotLowered, Pending
<1>5. ASSUME NEW q \in Reqs, req[q].op # "accept", Stops(q), Sent
      PROVE  InviteInv' /\ OneFate /\ UpgradeOnly
  BY <1>1, <1>2, <1>5 DEF Sent, Stops, InviteInv, OneFate, UpgradeOnly, Pending
<1>6. ASSUME NEW q \in Reqs, req[q].op = "accept", Stops(q), NotLowered(q),
             Len(invites') = Len(invites), SettledOf(req[q].invite)
      PROVE  InviteInv' /\ OneFate /\ UpgradeOnly
  BY <1>1, <1>2, <1>6, SMTT(60)
     DEF SettledOf, Same, Stops, InviteInv, OneFate, UpgradeOnly, NotLowered, Pending
<1>7. ASSUME NEW i \in DOMAIN invites, Open(i), ~Locked(i), Len(invites') = Len(invites),
             SameAccepts, SettledOf(i) \/ RevokedOf(i)
      PROVE  InviteInv' /\ OneFate /\ UpgradeOnly
  BY <1>1, <1>2, <1>7 DEF SettledOf, RevokedOf, Same, SameAccepts, Locked, InviteInv, OneFate,
     UpgradeOnly, Pending
<1>8. ASSUME NEW q \in Reqs, NEW i \in DOMAIN invites, Open(i), ~Locked(i), invites' = invites,
             req[q].op = "idle", req'[q].op = "accept", req'[q].invite = i,
             \A p \in Reqs \ {q} : req'[p].op = req[p].op /\ req'[p].invite = req[p].invite
      PROVE  InviteInv' /\ OneFate /\ UpgradeOnly
  BY <1>1, <1>2, <1>8 DEF Locked, InviteInv, OneFate, UpgradeOnly, Pending
<1>9. QED
  BY <1>3, <1>4, <1>5, <1>6, <1>7, <1>8 DEF InviteStep

\* An invite is accepted or revoked, never both, and for good, and redeeming
\* one lowers nobody, whatever crosses it.
THEOREM InvitesAreKept == Spec => InvitesHold
<1>1. Init => TypeInv /\ OwnerInv /\ InviteInv
  <2>1. Init => InviteInv
    BY DEF Init, InviteInv, Idle
  <2>2. QED
    BY <2>1, OwnerInit, TypeInit
<1>2. TypeInv /\ OwnerInv /\ InviteInv /\ [Next]_vars
        => (TypeInv /\ OwnerInv /\ InviteInv)' /\ [OneFate /\ UpgradeOnly]_vars
  <2> SUFFICES ASSUME TypeInv, OwnerInv, InviteInv, [Next]_vars
               PROVE  TypeInv' /\ OwnerInv' /\ InviteInv' /\ [OneFate /\ UpgradeOnly]_vars
    OBVIOUS
  <2>1. TypeInv' /\ OwnerInv'
    BY TypeNext, OwnerNext
  <2>2. CASE Next
    <3>1. InviteStep
      BY <2>2, ChecksInvite, WritesInvite, OthersInvite DEF Next
    <3>2. QED
      BY <2>1, <3>1, InviteKept
  <2>3. CASE UNCHANGED vars
    BY <2>1, <2>3 DEF vars, InviteInv, Open
  <2>4. QED
    BY <2>2, <2>3
<1>3. QED
  BY <1>1, <1>2, PTL DEF Spec, InvitesHold

-----------------------------------------------------------------------------
(* VideoRuns: types.                                                       *)

\* A chain that runs does so on a host that renders.
ChainRecords == [pc : ChainSteps, host : Hosts \cup {NoChain.host}, full : BOOLEAN, got : Nat]
ServeRecords == [pc : ServeSteps, since : Nat, took : SUBSET Files, got : Nat]

DriveTyped == /\ spec \in 1..(MaxSaves + 1) /\ video \in Nat /\ archive \in Trees
              /\ edited \in BOOLEAN
RedisTyped == /\ seeded \in [Redises -> BOOLEAN] /\ busy \in [Redises -> BOOLEAN]
              /\ pending \in [Redises -> SUBSET Files] /\ index \in [Redises -> SUBSET Files]
DiskTyped  == /\ staged \in [Hosts -> Nat] /\ output \in [Hosts -> Nat]
              /\ linked \in [Hosts -> BOOLEAN] /\ newer \in [Hosts -> BOOLEAN]
              /\ explorer \in [Hosts -> Trees]
ChainsTyped == /\ chain \in [Chains -> ChainRecords]
               /\ \A c \in Chains : ~On(c, "idle") => Host(c) \in Renderers
ServeTyped == serve \in [Hosts -> ServeRecords]
CountersTyped == triggers \in 0..MaxTriggers /\ fails \in 0..MaxFails /\ blind \in BOOLEAN

VideoTypeInv == DriveTyped /\ RedisTyped /\ DiskTyped /\ ChainsTyped /\ ServeTyped /\ CountersTyped

\* The bounds are numbers.
LEMMA BoundsTyped == {MaxServed, MaxSaves, MaxTriggers, MaxFails} \subseteq Nat
BY VideoRunsAssumption DEF VideoRunsAssumption

\* A chain that does not run is one of the records a chain may be.
LEMMA NoChainTyped == NoChain \in ChainRecords /\ NoChain.pc = "idle" /\ NoChain.got = 0
<1>1. PICK k : k = CHOOSE h \in Hosts : TRUE
  OBVIOUS
<1>2. NoChain = [pc |-> "idle", host |-> k, full |-> FALSE, got |-> 0]
  BY <1>1 DEF NoChain
<1>3. NoChain.pc = "idle" /\ NoChain.host = k /\ NoChain.full = FALSE /\ NoChain.got = 0
  BY <1>2
<1> QED BY <1>2, <1>3 DEF ChainRecords, ChainSteps

\* A fresh deployment has the types.
LEMMA VideoInitTypes == VideoInit => VideoTypeInv
<1> SUFFICES ASSUME VideoInit PROVE VideoTypeInv
  OBVIOUS
<1> USE VideoRunsAssumption DEF VideoRunsAssumption, VideoInit
<1>1. DriveTyped /\ CountersTyped
  <2>1. spec \in 1..(MaxSaves + 1) /\ triggers \in 0..MaxTriggers /\ fails \in 0..MaxFails
    BY BoundsTyped
  <2> QED BY <2>1 DEF DriveTyped, CountersTyped, Trees
<1>2. RedisTyped
  BY DEF RedisTyped
<1>3. DiskTyped
  BY DEF DiskTyped, Trees
<1>4. ChainsTyped
  BY NoChainTyped DEF ChainsTyped, On
<1>5. ServeTyped
  BY DEF ServeTyped, ServeRecords, NoRequest, ServeSteps
<1> QED BY <1>1, <1>2, <1>3, <1>4, <1>5 DEF VideoTypeInv

\* What a move, an end and a reset leave behind.
LEMMA Followed ==
  ASSUME ChainsTyped, NEW c \in Chains, ~On(c, "idle"), NEW p \in ChainSteps, p # "idle", Follow(c, p)
  PROVE  /\ ChainsTyped'
         /\ chain'[c].pc = p /\ chain'[c].host = chain[c].host
         /\ chain'[c].full = chain[c].full /\ chain'[c].got = chain[c].got
         /\ \A d \in Chains : d # c => chain'[d] = chain[d]
<1>1. chain[c] \in ChainRecords /\ Host(c) \in Renderers
  BY DEF ChainsTyped
<1> DEFINE x == [chain[c] EXCEPT !.pc = p]
<1>2. x \in ChainRecords /\ x.pc = p /\ x.host = chain[c].host /\ x.full = chain[c].full
      /\ x.got = chain[c].got
  BY <1>1 DEF ChainRecords
<1>3. chain' = [chain EXCEPT ![c] = x]
  BY DEF Follow, ChainsTyped
<1> HIDE DEF x
<1> QED BY <1>1, <1>2, <1>3 DEF ChainsTyped, On, Host

\* A chain that ends leaves the others as they are.
LEMMA Ended ==
  ASSUME ChainsTyped, NEW c \in Chains, End(c)
  PROVE  ChainsTyped' /\ On(c, "idle")' /\ \A d \in Chains : d # c => chain'[d] = chain[d]
BY NoChainTyped DEF ChainsTyped, End, On, Host

\* A request that moves on keeps what it knows, and the others are untouched.
LEMMA Went ==
  ASSUME ServeTyped, NEW h \in Hosts, NEW p \in ServeSteps, Goto(h, p)
  PROVE  /\ ServeTyped'
         /\ serve'[h].pc = p /\ serve'[h].since = serve[h].since
         /\ serve'[h].took = serve[h].took /\ serve'[h].got = serve[h].got
         /\ \A g \in Hosts : g # h => serve'[g] = serve[g]
<1>1. serve[h] \in ServeRecords
  BY DEF ServeTyped
<1> DEFINE x == [serve[h] EXCEPT !.pc = p]
<1>2. x \in ServeRecords /\ x.pc = p /\ x.since = serve[h].since /\ x.took = serve[h].took
      /\ x.got = serve[h].got
  BY <1>1 DEF ServeRecords
<1>3. serve' = [serve EXCEPT ![h] = x]
  BY DEF Goto, ServeTyped
<1> HIDE DEF x
<1> QED BY <1>1, <1>2, <1>3 DEF ServeTyped

\* A request that is over leaves the others as they are.
LEMMA Answered ==
  ASSUME ServeTyped, NEW h \in Hosts, serve' = [serve EXCEPT ![h] = NoRequest]
  PROVE  ServeTyped' /\ At(h, "idle")' /\ \A g \in Hosts : g # h => serve'[g] = serve[g]
<1>1. NoRequest \in ServeRecords /\ NoRequest.pc = "idle"
  BY DEF NoRequest, ServeRecords, ServeSteps
<1> QED BY <1>1 DEF ServeTyped, At

\* A report reaches every Redis whose index is seeded.
LEMMA Reported ==
  ASSUME RedisTyped, NEW f \in Files, Reports(f)
  PROVE  /\ pending' \in [Redises -> SUBSET Files]
         /\ \A r \in Redises : seeded[r] => pending'[r] = pending[r] \cup {f}
<1>1. pending \in [Redises -> SUBSET Files]
  BY DEF RedisTyped
<1> QED BY <1>1 DEF Reports

\* A step of a render chain keeps the types.
LEMMA ChainTypes ==
  ASSUME VideoTypeInv, NEW c \in Chains, ChainStep(c)
  PROVE  VideoTypeInv'
<1> USE VideoRunsAssumption DEF VideoRunsAssumption
<1>1. ~On(c, "idle")
  BY DEF ChainStep, Stage, StageFails, Render, Build, Read, Upload, RecordVideo, Pack,
         RecordArchive, ChainFails, On
<1>2. ChainsTyped /\ chain[c] \in ChainRecords /\ Host(c) \in Hosts /\ Redis(c) \in Redises
  BY <1>1 DEF VideoTypeInv, ChainsTyped, Redis
<1>3. ChainsTyped'
  <2>1. CASE Read(c)
    <3> DEFINE x == [chain[c] EXCEPT !.pc = IF output[Host(c)] # 0 THEN "upload" ELSE "pack",
                                     !.got = output[Host(c)]]
    <3>1. x \in ChainRecords /\ x.host = chain[c].host
      BY <1>2 DEF ChainRecords, ChainSteps, VideoTypeInv, DiskTyped
    <3>2. chain' = [chain EXCEPT ![c] = x]
      BY <1>2, <2>1 DEF Read, ChainsTyped
    <3> HIDE DEF x
    <3> QED BY <1>1, <1>2, <3>1, <3>2 DEF ChainsTyped, On, Host
  <2>2. CASE Upload(c)
    <3> DEFINE x == [chain[c] EXCEPT !.pc = "record", !.got = 0]
    <3>1. x \in ChainRecords /\ x.host = chain[c].host
      BY <1>2 DEF ChainRecords, ChainSteps
    <3>2. chain' = [chain EXCEPT ![c] = x]
      BY <1>2, <2>2 DEF Upload, ChainsTyped
    <3> HIDE DEF x
    <3> QED BY <1>1, <1>2, <3>1, <3>2 DEF ChainsTyped, On, Host
  <2>3. CASE End(c)
    BY <1>2, <2>3, Ended
  <2>4. ASSUME NEW p \in ChainSteps, p # "idle", Follow(c, p) PROVE ChainsTyped'
    BY <1>1, <1>2, <2>4, Followed
  <2> QED BY <2>1, <2>2, <2>3, <2>4 DEF ChainStep, Stage, StageFails, Render, Build, RecordVideo,
             Pack, RecordArchive, ChainFails, ChainSteps
<1>4. DriveTyped'
  <2>1. DriveTyped /\ chain[c].got \in Nat /\ explorer[Host(c)] \in Trees
    BY <1>2 DEF VideoTypeInv, ChainRecords, DiskTyped
  <2>2. spec' = spec /\ video' \in {video, chain[c].got} /\ edited' \in {edited, FALSE}
        /\ archive' \in {archive, explorer[Host(c)]}
    BY DEF ChainStep, Stage, StageFails, Render, Build, Read, Upload, RecordVideo, Pack,
           RecordArchive, ChainFails, driveVars
  <2> QED BY <2>1, <2>2 DEF DriveTyped
<1>5. RedisTyped'
  <2>1. RedisTyped
    BY DEF VideoTypeInv
  <2>2. seeded' = seeded /\ (busy' = busy \/ busy' = [busy EXCEPT ![Redis(c)] = FALSE])
        /\ (pending' = pending \/ \E f \in Files : Reports(f))
        /\ (index' = index \/ \E f \in Files : index' = [index EXCEPT ![Redis(c)] = @ \cup {f}])
    BY DEF ChainStep, Stage, StageFails, Render, Build, Read, Upload, RecordVideo, Pack,
           RecordArchive, ChainFails, redisVars, Files
  <2>3. pending' \in [Redises -> SUBSET Files]
    BY <2>1, <2>2, Reported DEF RedisTyped
  <2>4. busy' \in [Redises -> BOOLEAN]
    BY <2>1, <2>2 DEF RedisTyped
  <2>5. index' \in [Redises -> SUBSET Files]
    BY <1>2, <2>1, <2>2 DEF RedisTyped
  <2> QED BY <2>1, <2>2, <2>3, <2>4, <2>5 DEF RedisTyped
<1>6. DiskTyped'
  <2>1. DiskTyped /\ DriveTyped
    BY DEF VideoTypeInv
  <2>2. CASE Stage(c)
    <3>1. staged' = [staged EXCEPT ![Host(c)] = spec] /\ spec \in Nat
      BY <2>1, <2>2, BoundsTyped DEF Stage, DriveTyped
    <3> QED BY <2>1, <2>2, <3>1 DEF Stage, DiskTyped
  <2>3. CASE Render(c)
    BY <1>2, <2>1, <2>3 DEF Render, DiskTyped
  <2>4. CASE Build(c)
    <3>1. linked' \in [Hosts -> BOOLEAN]
      BY <1>2, <2>1, <2>4 DEF Build, DiskTyped
    <3>2. explorer' \in [Hosts -> Trees]
      BY <1>2, <2>1, <2>4 DEF Build, DiskTyped, Trees
    <3> QED BY <2>1, <2>4, <3>1, <3>2 DEF Build, DiskTyped
  <2>5. CASE UNCHANGED diskVars
    BY <2>1, <2>5 DEF diskVars, DiskTyped
  <2> QED BY <2>2, <2>3, <2>4, <2>5 DEF ChainStep, StageFails, Read, Upload, RecordVideo, Pack,
             RecordArchive, ChainFails
<1>7. ServeTyped' /\ CountersTyped'
  <2>1. UNCHANGED <<serve, triggers, blind>> /\ (fails' = fails \/ (fails < MaxFails /\ fails' = fails + 1))
    BY DEF ChainStep, Stage, StageFails, Render, Build, Read, Upload, RecordVideo, Pack,
           RecordArchive, ChainFails, counters
  <2>2. ServeTyped'
    BY <2>1 DEF VideoTypeInv, ServeTyped
  <2>3. CountersTyped'
    BY <2>1 DEF VideoTypeInv, CountersTyped
  <2> QED BY <2>2, <2>3
<1> QED BY <1>3, <1>4, <1>5, <1>6, <1>7 DEF VideoTypeInv

\* A step of a request for a video keeps the types.
LEMMA ServeTypes ==
  ASSUME VideoTypeInv, NEW h \in Hosts, ServeStep(h)
  PROVE  VideoTypeInv'
<1> USE VideoRunsAssumption DEF VideoRunsAssumption
<1> DEFINE r == RedisOf[h]
<1>1. ServeTyped /\ serve[h] \in ServeRecords /\ r \in Redises /\ RedisTyped /\ DriveTyped /\ DiskTyped
      /\ CountersTyped /\ ChainsTyped
  BY DEF VideoTypeInv, ServeTyped
<1>2. ServeTyped'
  <2> DEFINE Became(x) == serve' = [serve EXCEPT ![h] = x]
  <2>1. ASSUME NEW x \in ServeRecords, Became(x) PROVE ServeTyped'
    BY <1>1, <2>1 DEF ServeTyped
  <2>2. CASE Get(h)
    <3>1. [NoRequest EXCEPT !.pc = "observe", !.since = video] \in ServeRecords
      BY <1>1 DEF NoRequest, ServeRecords, ServeSteps, DriveTyped
    <3> QED BY <2>1, <2>2, <3>1 DEF Get
  <2>3. CASE Observe(h)
    <3> DEFINE p == IF pending[r] = {} THEN "look" ELSE "invalidate"
               x == [serve[h] EXCEPT !.took = pending[r], !.pc = p]
    <3>1. x \in ServeRecords
      BY <1>1 DEF RedisTyped, ServeRecords, ServeSteps
    <3>2. Became(x)
      BY <1>1, <2>3 DEF Observe, ServeTyped
    <3> QED BY <2>1, <3>1, <3>2
  <2>4. CASE Invalidate(h)
    <3>1. [serve[h] EXCEPT !.pc = "look", !.took = {}] \in ServeRecords
      BY <1>1 DEF ServeRecords, ServeSteps
    <3>2. Became([serve[h] EXCEPT !.pc = "look", !.took = {}])
      BY <1>1, <2>4 DEF Invalidate, ServeTyped
    <3> QED BY <2>1, <3>1, <3>2
  <2>5. ASSUME NEW p \in {"reply", "write"}, NEW v \in Nat,
               serve' = [serve EXCEPT ![h].pc = p, ![h].got = v]
        PROVE  ServeTyped'
    <3>1. [serve[h] EXCEPT !.pc = p, !.got = v] \in ServeRecords
      BY <1>1 DEF ServeRecords, ServeSteps
    <3>2. Became([serve[h] EXCEPT !.pc = p, !.got = v])
      BY <1>1, <2>5 DEF ServeTyped
    <3> QED BY <2>1, <3>1, <3>2
  <2>6. ASSUME NEW p \in ServeSteps, Goto(h, p) PROVE ServeTyped'
    BY <1>1, <2>6, Went
  <2>7. CASE serve' = [serve EXCEPT ![h] = NoRequest]
    BY <1>1, <2>7, Answered
  <2>8. output[h] \in Nat /\ video \in Nat
    BY <1>1 DEF DiskTyped, DriveTyped
  <2>9. CASE Look(h)
    BY <2>5, <2>6, <2>8, <2>9 DEF Look, ServeSteps
  <2>10. CASE Pull(h)
    BY <2>5, <2>7, <2>8, <2>10 DEF Pull
  <2> QED BY <2>2, <2>3, <2>4, <2>6, <2>7, <2>9, <2>10
         DEF ServeStep, ObserveFails, TokenExpired, Write, Record, Reply, Dies, ServeSteps
<1>3. DriveTyped' /\ ChainsTyped'
  <2>1. UNCHANGED <<driveVars, chain>>
    BY DEF ServeStep, Get, Observe, ObserveFails, TokenExpired, Invalidate, Look, Pull, Write,
           Record, Reply, Dies
  <2> QED BY <1>1, <2>1 DEF driveVars, DriveTyped, ChainsTyped, On, Host
<1>4. CountersTyped'
  <2>1. UNCHANGED <<triggers, fails>> /\ blind' \in {blind, TRUE}
    BY DEF ServeStep, Get, Observe, ObserveFails, TokenExpired, Invalidate, Look, Pull, Write,
           Record, Reply, Dies, counters
  <2> QED BY <1>1, <2>1 DEF CountersTyped
<1>5. RedisTyped'
  <2>1. /\ busy' = busy /\ (seeded' = seeded \/ seeded' = [seeded EXCEPT ![r] = TRUE])
        /\ (pending' = pending \/ pending' = [pending EXCEPT ![r] = {}])
    BY DEF ServeStep, Get, Observe, ObserveFails, TokenExpired, Invalidate, Look, Pull, Write,
           Record, Reply, Dies, redisVars
  <2>2. index' \in [Redises -> SUBSET Files]
    <3>1. CASE TokenExpired(h)
      BY <1>1, <3>1 DEF TokenExpired, RedisTyped
    <3>2. CASE Invalidate(h)
      BY <1>1, <3>2 DEF Invalidate, RedisTyped
    <3>3. CASE Record(h)
      BY <1>1, <3>3 DEF Record, RedisTyped, Mapped, Files
    <3>4. CASE UNCHANGED index
      BY <1>1, <3>4 DEF RedisTyped
    <3> QED BY <3>1, <3>2, <3>3, <3>4
            DEF ServeStep, Get, Observe, ObserveFails, Look, Pull, Write, Reply, Dies, redisVars
  <2>3. pending' \in [Redises -> SUBSET Files]
    BY <1>1, <2>1 DEF RedisTyped
  <2> QED BY <1>1, <2>1, <2>2, <2>3 DEF RedisTyped
<1>6. DiskTyped'
  <2>1. CASE Invalidate(h)
    BY <1>1, <2>1 DEF Invalidate, DiskTyped, Trees
  <2>2. CASE Write(h)
    BY <1>1, <2>2 DEF Write, DiskTyped, Trees, ServeRecords
  <2>3. CASE UNCHANGED diskVars
    BY <1>1, <2>3 DEF diskVars, DiskTyped
  <2> QED BY <2>1, <2>2, <2>3 DEF ServeStep, Get, Observe, ObserveFails, TokenExpired, Look, Pull,
             Record, Reply, Dies
<1> QED BY <1>2, <1>3, <1>4, <1>5, <1>6 DEF VideoTypeInv

\* A save, a trigger and the end of the flag's hour keep the types.
LEMMA OtherTypes ==
  ASSUME VideoTypeInv,
         \/ \E ops \in {0, 1} : Save(ops)
         \/ \E c \in Chains, h \in Renderers, full \in BOOLEAN : Start(c, h, full)
         \/ \E r \in Redises : FlagExpires(r)
  PROVE  VideoTypeInv'
<1> USE VideoRunsAssumption DEF VideoRunsAssumption
<1>1. ASSUME NEW ops \in {0, 1}, Save(ops) PROVE VideoTypeInv'
  <2>1. DriveTyped' /\ DiskTyped'
    <3>1. spec' \in 1..(MaxSaves + 1)
      BY <1>1 DEF Save, VideoTypeInv, DriveTyped
    <3>2. newer' \in [Hosts -> BOOLEAN]
      BY <1>1 DEF Save, VideoTypeInv, DiskTyped
    <3> QED BY <1>1, <3>1, <3>2 DEF Save, VideoTypeInv, DriveTyped, DiskTyped
  <2> QED BY <1>1, <2>1 DEF Save, VideoTypeInv, redisVars, counters, RedisTyped, ChainsTyped, On, Host,
             ServeTyped, CountersTyped
<1>2. ASSUME NEW c \in Chains, NEW h \in Renderers, NEW full \in BOOLEAN, Start(c, h, full)
      PROVE  VideoTypeInv'
  <2> DEFINE x == [NoChain EXCEPT !.pc = "stage", !.host = h, !.full = full]
  <2>1. x \in ChainRecords /\ x.host \in Renderers
    BY NoChainTyped DEF ChainRecords, ChainSteps
  <2>2. chain' = [chain EXCEPT ![c] = x]
    BY <1>2 DEF Start
  <2> HIDE DEF x
  <2>3. ChainsTyped'
    BY <2>1, <2>2 DEF VideoTypeInv, ChainsTyped, On, Host
  <2>4. CountersTyped' /\ RedisTyped'
    <3>1. triggers' \in 0..MaxTriggers
      <4>1. triggers < MaxTriggers /\ triggers' = triggers + 1 /\ triggers \in 0..MaxTriggers
            /\ MaxTriggers \in Nat
        BY <1>2, BoundsTyped DEF Start, VideoTypeInv, CountersTyped
      <4> QED BY <4>1
    <3>2. busy' \in [Redises -> BOOLEAN]
      BY <1>2 DEF Start, VideoTypeInv, RedisTyped
    <3> QED BY <1>2, <3>1, <3>2 DEF Start, VideoTypeInv, CountersTyped, RedisTyped
  <2> QED BY <1>2, <2>3, <2>4 DEF Start, VideoTypeInv, driveVars, diskVars, DriveTyped, DiskTyped, ServeTyped
<1>3. ASSUME NEW r \in Redises, FlagExpires(r) PROVE VideoTypeInv'
  <2>1. busy' \in [Redises -> BOOLEAN]
    BY <1>3 DEF FlagExpires, VideoTypeInv, RedisTyped
  <2> QED BY <1>3, <2>1 DEF FlagExpires, VideoTypeInv, driveVars, diskVars, counters, DriveTyped, DiskTyped,
             ServeTyped, RedisTyped, ChainsTyped, On, Host, CountersTyped
<1> QED BY <1>1, <1>2, <1>3

\* Every step keeps the types.
LEMMA VideoStepTypes == VideoTypeInv /\ [VideoNext]_videoVars => VideoTypeInv'
<1> SUFFICES ASSUME VideoTypeInv, [VideoNext]_videoVars PROVE VideoTypeInv'
  OBVIOUS
<1>1. CASE UNCHANGED videoVars
  BY <1>1 DEF videoVars, driveVars, redisVars, diskVars, counters, VideoTypeInv, DriveTyped, RedisTyped,
              DiskTyped, ChainsTyped, On, Host, ServeTyped, CountersTyped
<1>2. CASE VideoNext
  BY <1>2, ChainTypes, ServeTypes, OtherTypes DEF VideoNext, TriggerRerender, TriggerBuildOnly
<1> QED BY <1>1, <1>2

\* VideoRuns' types hold of any number of hosts, Redises and chains.
THEOREM VideoTypesHold == VideoSpec => []VideoTypeInv
BY VideoInitTypes, VideoStepTypes, PTL DEF VideoSpec

-----------------------------------------------------------------------------
(* VideoRuns: what is published never goes back, when the hosts that       *)
(* render share their Redis.                                               *)

\* The hosts that render share one Redis, and with it the flag of a running chain.
OneRenderRedis == \A g, h \in Renderers : RedisOf[g] = RedisOf[h]

\* The steps of a chain up to its upload of the video.
Before == {"stage", "render", "build", "read", "upload"}

\* No video is newer than the spec.
SpecLeads == video <= spec /\ \A h \in Hosts : output[h] <= spec /\ staged[h] <= spec

\* A chain that runs holds the flag; what it is about to publish is as new as
\* what is published, or gone.
ChainOK(c) ==
  /\ ~On(c, "idle") => busy[Redis(c)]
  /\ On(c, "render") => staged[Host(c)] >= video
  /\ chain[c].full /\ chain[c].pc \in {"build", "read"} =>
       output[Host(c)] = 0 \/ output[Host(c)] >= video
  /\ chain[c].pc \in {"render", "read", "upload"} => chain[c].full
  /\ On(c, "upload") => chain[c].got >= video /\ chain[c].got <= spec

\* The flag admits one chain at a time.
Alone == \A c, d \in Chains : ~On(c, "idle") /\ ~On(d, "idle") => c = d

\* What a request knows was published by then.
RequestOK(h) ==
  /\ serve[h].since <= video
  /\ At(h, "write") => serve[h].since <= serve[h].got /\ serve[h].got <= video

\* Between a flag that is down and the upload, no video is published, and every
\* request in flight is about the one that is.
Unpublished(r) == ~busy[r] \/ \E c \in Chains : Redis(c) = r /\ chain[c].pc \in Before
Timely(h)      == At(h, "idle") \/ serve[h].since = video
Rendering(r)   == \E g \in Renderers : RedisOf[g] = r

RenderInv ==
  /\ SpecLeads /\ Alone
  /\ \A c \in Chains : ChainOK(c)
  /\ \A h \in Hosts : RequestOK(h)
  /\ \A h \in Hosts : Rendering(RedisOf[h]) /\ Unpublished(RedisOf[h]) => Timely(h)

\* Nothing has been rendered yet.
LEMMA RenderInitInv == VideoInit => RenderInv
<1> SUFFICES ASSUME VideoInit PROVE RenderInv
  OBVIOUS
<1> USE VideoRunsAssumption, NoChainTyped DEF VideoRunsAssumption, VideoInit
<1>1. \A c \in Chains : On(c, "idle")
  BY DEF On
<1>2. SpecLeads /\ Alone /\ \A c \in Chains : ChainOK(c)
  BY <1>1 DEF SpecLeads, Alone, ChainOK, On
<1>3. \A h \in Hosts : RequestOK(h) /\ Timely(h)
  BY DEF RequestOK, Timely, At, NoRequest
<1> QED BY <1>2, <1>3 DEF RenderInv

\* A step of a chain: the others are idle.
LEMMA ChainKeeps ==
  ASSUME VideoTypeInv, RenderInv, NEW c \in Chains, ~On(c, "idle"),
         UNCHANGED <<spec, serve>>, video' \in Nat, video <= video', video' <= spec,
         \A d \in Chains : d # c => chain'[d] = chain[d],
         \A h \in Hosts : output'[h] <= spec /\ staged'[h] <= spec,
         ChainOK(c)',
         \A h \in Hosts : Rendering(RedisOf[h]) /\ Unpublished(RedisOf[h])' =>
           Unpublished(RedisOf[h]) /\ video' = video
  PROVE  RenderInv'
<1>1. SpecLeads'
  BY DEF SpecLeads
<1>2. \A d \in Chains : d # c => On(d, "idle")' /\ ChainOK(d)'
  <2> TAKE d \in Chains
  <2> HAVE d # c
  <2>1. On(d, "idle") /\ chain'[d] = chain[d]
    BY DEF RenderInv, Alone
  <2> QED BY <2>1 DEF ChainOK, On
<1>3. Alone'
  BY <1>2 DEF Alone
<1>4. \A h \in Hosts : RequestOK(h)'
  <2> TAKE h \in Hosts
  <2>1. RequestOK(h) /\ serve[h].since \in Nat /\ serve[h].got \in Nat /\ video \in Nat
    BY DEF RenderInv, VideoTypeInv, ServeTyped, ServeRecords, DriveTyped
  <2> QED BY <2>1 DEF RequestOK, At
<1>5. \A h \in Hosts : Rendering(RedisOf[h]) /\ Unpublished(RedisOf[h])' => Timely(h)'
  BY DEF RenderInv, Timely, At
<1>6. \A h \in Hosts : Rendering(RedisOf[h])' <=> Rendering(RedisOf[h])
  BY DEF Rendering
<1> QED BY <1>1, <1>2, <1>3, <1>4, <1>5, <1>6 DEF RenderInv

\* A step of a request: its host's copy goes, or becomes what it pulled.
LEMMA RequestKeeps ==
  ASSUME VideoTypeInv, RenderInv, NEW h \in Hosts,
         UNCHANGED <<spec, video, staged, busy, chain>>,
         \A g \in Hosts : g # h => serve'[g] = serve[g] /\ output'[g] = output[g],
         output'[h] \in {0, output[h]} \/ (At(h, "write") /\ output'[h] = serve[h].got),
         \/ At(h, "idle")' /\ serve'[h].since = 0
         \/ serve'[h].since = serve[h].since /\ ~At(h, "idle")
         \/ serve'[h].since = video,
         At(h, "write")' => serve'[h].got = video
  PROVE  RenderInv'
<1>1. /\ serve[h] \in ServeRecords /\ video \in Nat /\ spec \in Nat
      /\ RequestOK(h) /\ output[h] \in Nat /\ SpecLeads
  BY BoundsTyped DEF VideoTypeInv, ServeTyped, DriveTyped, DiskTyped, RenderInv
<1>2. SpecLeads'
  BY <1>1 DEF SpecLeads, RequestOK, ServeRecords
<1>3. Alone'
  BY DEF RenderInv, Alone, On
<1>4. \A c \in Chains : ChainOK(c)'
  <2> TAKE c \in Chains
  <2>1. ChainOK(c)
    BY DEF RenderInv
  <2>2. ASSUME chain[c].full, chain[c].pc \in {"build", "read"}
        PROVE  output'[Host(c)] = 0 \/ output'[Host(c)] >= video
    <3>1. ~On(c, "idle")
      BY <2>2 DEF On
    <3>2. Host(c) \in Renderers /\ Host(c) \in Hosts
      BY <3>1, VideoRunsAssumption DEF VideoTypeInv, ChainsTyped, VideoRunsAssumption
    <3>3. CASE output'[Host(c)] \in {0, output[Host(c)]}
      BY <2>1, <2>2, <3>3 DEF ChainOK
    <3>4. CASE Host(c) = h /\ At(h, "write") /\ output'[h] = serve[h].got
      <4>1. Rendering(RedisOf[h]) /\ Unpublished(RedisOf[h])
        BY <2>2, <3>2, <3>4 DEF Rendering, Unpublished, Redis, Before
      <4>2. Timely(h)
        BY <4>1 DEF RenderInv
      <4>3. serve[h].since = video
        BY <3>4, <4>2 DEF Timely, At
      <4> QED BY <1>1, <3>4, <4>3 DEF RequestOK, ServeRecords
    <3> QED BY <3>2, <3>3, <3>4
  <2> QED BY <2>1, <2>2 DEF ChainOK, On, Host, Redis
<1>5. \A g \in Hosts : RequestOK(g)'
  <2>1. RequestOK(h)'
    BY <1>1 DEF RequestOK, ServeRecords
  <2>2. \A g \in Hosts : g # h => RequestOK(g)'
    BY DEF RenderInv, RequestOK, At
  <2> QED BY <2>1, <2>2
<1>6. \A g \in Hosts : Rendering(RedisOf[g]) /\ Unpublished(RedisOf[g])' => Timely(g)'
  <2> SUFFICES ASSUME NEW g \in Hosts, Rendering(RedisOf[g]), Unpublished(RedisOf[g])'
               PROVE  Timely(g)'
    OBVIOUS
  <2>1. Unpublished(RedisOf[g])
    BY DEF Unpublished, Redis, Host
  <2>2. Timely(g)
    BY <2>1 DEF RenderInv
  <2> QED BY <2>2 DEF Timely, At
<1>7. \A g \in Hosts : Rendering(RedisOf[g])' <=> Rendering(RedisOf[g])
  BY DEF Rendering
<1> QED BY <1>2, <1>3, <1>4, <1>5, <1>6, <1>7 DEF RenderInv

\* A step of a request publishes nothing.
LEMMA ServeRenders ==
  ASSUME VideoTypeInv, RenderInv, NEW h \in Hosts, ServeStep(h)
  PROVE  RenderInv'
<1> DEFINE same == \A g \in Hosts : g # h => serve'[g] = serve[g] /\ output'[g] = output[g]
<1>1. ServeTyped /\ serve[h] \in ServeRecords /\ DiskTyped
  BY DEF VideoTypeInv, ServeTyped
<1>2. UNCHANGED <<spec, video, staged, busy, chain>>
  BY DEF ServeStep, Get, Observe, ObserveFails, TokenExpired, Invalidate, Look, Pull, Write,
         Record, Reply, Dies, driveVars, diskVars, redisVars
<1>3. CASE Get(h)
  <2>1. serve'[h].since = video /\ serve'[h].pc = "observe" /\ \A g \in Hosts : g # h => serve'[g] = serve[g]
    BY <1>1, <1>3 DEF Get, ServeTyped, NoRequest
  <2>2. output' = output
    BY <1>3 DEF Get, diskVars
  <2> QED BY <1>2, <2>1, <2>2, RequestKeeps DEF At
<1>4. ASSUME NEW p, p # "write", ~At(h, "idle"), output' = output,
             serve'[h].pc = p, serve'[h].since = serve[h].since,
             \A g \in Hosts : g # h => serve'[g] = serve[g]
      PROVE  RenderInv'
  BY <1>2, <1>4, RequestKeeps DEF At
<1>5. ASSUME serve' = [serve EXCEPT ![h] = NoRequest], output' = output PROVE RenderInv'
  <2>1. serve'[h].pc = "idle" /\ serve'[h].since = 0 /\ \A g \in Hosts : g # h => serve'[g] = serve[g]
    BY <1>1, <1>5 DEF ServeTyped, NoRequest
  <2> QED BY <1>2, <1>5, <2>1, RequestKeeps DEF At
<1>6. ASSUME NEW p \in ServeSteps, p # "write", Goto(h, p), ~At(h, "idle"), output' = output
      PROVE  RenderInv'
  BY <1>1, <1>4, <1>6, Went
<1>7. CASE Observe(h)
  <2> DEFINE p == IF pending[RedisOf[h]] = {} THEN "look" ELSE "invalidate"
  <2>1. serve'[h].pc = p /\ serve'[h].since = serve[h].since
        /\ \A g \in Hosts : g # h => serve'[g] = serve[g]
    BY <1>1, <1>7 DEF Observe, ServeTyped, ServeRecords
  <2>2. output' = output /\ ~At(h, "idle") /\ p # "write"
    BY <1>7 DEF Observe, diskVars, At
  <2> QED BY <1>4, <2>1, <2>2
<1>8. CASE ObserveFails(h)
  BY <1>6, <1>8 DEF ObserveFails, At, diskVars, ServeSteps
<1>9. CASE TokenExpired(h)
  BY <1>6, <1>9 DEF TokenExpired, At, diskVars, ServeSteps
<1>10. CASE Invalidate(h)
  <2>1. serve'[h].pc = "look" /\ serve'[h].since = serve[h].since /\ ~At(h, "idle")
        /\ \A g \in Hosts : g # h => serve'[g] = serve[g]
    BY <1>1, <1>10 DEF Invalidate, ServeTyped, ServeRecords, At
  <2>2. output'[h] \in {0, output[h]} /\ \A g \in Hosts : g # h => output'[g] = output[g]
    BY <1>1, <1>10 DEF Invalidate, DiskTyped
  <2> QED BY <1>2, <2>1, <2>2, RequestKeeps DEF At
<1>11. CASE Look(h)
  <2>1. output' = output /\ ~At(h, "idle")
    BY <1>11 DEF Look, At, diskVars
  <2>2. \/ Goto(h, "pull")
        \/ serve'[h].pc = "reply" /\ serve'[h].since = serve[h].since
           /\ \A g \in Hosts : g # h => serve'[g] = serve[g]
    BY <1>1, <1>11 DEF Look, ServeTyped, ServeRecords
  <2> QED BY <1>4, <1>6, <2>1, <2>2 DEF ServeSteps
<1>12. CASE Pull(h)
  <2>1. output' = output /\ ~At(h, "idle")
    BY <1>12 DEF Pull, At, diskVars
  <2>2. CASE video = 0
    BY <1>5, <1>12, <2>1, <2>2 DEF Pull
  <2>3. CASE video # 0
    <3>1. serve'[h].pc = "write" /\ serve'[h].since = serve[h].since /\ serve'[h].got = video
          /\ \A g \in Hosts : g # h => serve'[g] = serve[g]
      BY <1>1, <1>12, <2>3 DEF Pull, ServeTyped, ServeRecords
    <3> QED BY <1>2, <2>1, <3>1, RequestKeeps
  <2> QED BY <2>2, <2>3
<1>13. CASE Write(h)
  <2>1. serve'[h].pc = "record" /\ serve'[h].since = serve[h].since /\ ~At(h, "idle") /\ At(h, "write")
        /\ \A g \in Hosts : g # h => serve'[g] = serve[g]
    BY <1>1, <1>13, Went DEF Write, At, ServeSteps
  <2>2. output'[h] = serve[h].got /\ \A g \in Hosts : g # h => output'[g] = output[g]
    BY <1>1, <1>13 DEF Write, DiskTyped
  <2> QED BY <1>2, <2>1, <2>2, RequestKeeps DEF At
<1>14. CASE Record(h)
  BY <1>6, <1>14 DEF Record, At, diskVars, ServeSteps
<1>15. CASE Reply(h) \/ Dies(h)
  BY <1>5, <1>15 DEF Reply, Dies, diskVars
<1> QED BY <1>3, <1>7, <1>8, <1>9, <1>10, <1>11, <1>12, <1>13, <1>14, <1>15 DEF ServeStep

\* A chain that ends early, or goes on without publishing the video.
LEMMA ChainGoesOn ==
  ASSUME VideoTypeInv, RenderInv, NEW c \in Chains, ~On(c, "idle"),
         UNCHANGED <<spec, video, serve, busy>>,
         \A d \in Chains : d # c => chain'[d] = chain[d],
         \A h \in Hosts : output'[h] <= spec /\ staged'[h] <= spec,
         On(c, "idle")' \/ chain'[c].host = chain[c].host,
         chain'[c].pc \in Before => chain[c].pc \in Before,
         ChainOK(c)'
  PROVE  RenderInv'
<1>1. video \in Nat /\ video <= spec
  BY DEF VideoTypeInv, DriveTyped, RenderInv, SpecLeads
<1>2. \A r : Unpublished(r)' => Unpublished(r)
  <2> TAKE r
  <2> HAVE Unpublished(r)'
  <2>1. CASE ~busy'[r]
    BY <2>1 DEF Unpublished
  <2>2. ASSUME NEW d \in Chains, Redis(d)' = r, chain'[d].pc \in Before PROVE Unpublished(r)
    <3>1. chain[d].pc \in Before /\ chain'[d].host = chain[d].host
      BY <2>2 DEF On, Before
    <3> QED BY <2>2, <3>1 DEF Unpublished, Redis, Host
  <2> QED BY <2>1, <2>2 DEF Unpublished
<1> QED BY <1>1, <1>2, ChainKeeps

\* A step of a chain keeps what the others hold about it.
LEMMA ChainRenders ==
  ASSUME OneRenderRedis, VideoTypeInv, VideoTypeInv', RenderInv, NEW c \in Chains, ChainStep(c)
  PROVE  RenderInv'
<1> DEFINE q == Host(c)
<1>1. ~On(c, "idle")
  BY DEF ChainStep, Stage, StageFails, Render, Build, Read, Upload, RecordVideo, Pack,
         RecordArchive, ChainFails, On
<1>2. /\ ChainsTyped /\ chain[c] \in ChainRecords /\ q \in Renderers /\ q \in Hosts
      /\ Redis(c) \in Redises /\ busy[Redis(c)] /\ busy \in [Redises -> BOOLEAN]
      /\ spec \in Nat /\ video \in Nat /\ staged \in [Hosts -> Nat] /\ output \in [Hosts -> Nat]
      /\ SpecLeads /\ ChainOK(c)
  BY <1>1, VideoRunsAssumption, BoundsTyped
     DEF VideoTypeInv, ChainsTyped, Redis, RenderInv, ChainOK, DriveTyped, DiskTyped, RedisTyped,
         VideoRunsAssumption
<1>3. \A h \in Hosts : output[h] <= spec /\ staged[h] <= spec
  BY <1>2 DEF SpecLeads
<1>4. ASSUME End(c), UNCHANGED <<spec, video, serve, busy, output, staged>> PROVE RenderInv'
  <2>1. On(c, "idle")' /\ \A d \in Chains : d # c => chain'[d] = chain[d]
    BY <1>2, <1>4, Ended
  <2>2. chain'[c].pc \notin Before /\ ChainOK(c)'
    BY <2>1 DEF On, Before, ChainOK
  <2> QED BY <1>1, <1>3, <1>4, <2>1, <2>2, ChainGoesOn
<1>5. CASE Stage(c)
  <2> DEFINE p == IF chain[c].full THEN "render" ELSE "build"
  <2>1. chain'[c].pc = p /\ chain'[c].host = q /\ chain'[c].full = chain[c].full
        /\ \A d \in Chains : d # c => chain'[d] = chain[d]
    BY <1>1, <1>2, <1>5, Followed DEF Stage, ChainSteps, Host
  <2>2. staged'[q] = spec /\ (\A h \in Hosts : staged'[h] <= spec) /\ output' = output
    BY <1>2, <1>3, <1>5 DEF Stage
  <2>3. UNCHANGED <<spec, video, serve, busy>>
    BY <1>5 DEF Stage, driveVars, redisVars
  <2>4. ChainOK(c)'
    BY <1>2, <2>1, <2>2, <2>3 DEF ChainOK, On, Host, Redis, SpecLeads
  <2> QED BY <1>1, <1>3, <1>5, <2>1, <2>2, <2>3, <2>4, ChainGoesOn DEF Stage, On, Before, Host
<1>6. CASE StageFails(c)
  <2>1. On(c, "idle")' /\ \A d \in Chains : d # c => chain'[d] = chain[d]
    BY <1>2, <1>6, Ended DEF StageFails
  <2>2. ChainOK(c)'
    BY <2>1 DEF On, ChainOK
  <2>3. UNCHANGED <<spec, video, serve, output, staged>> /\ busy' = [busy EXCEPT ![Redis(c)] = FALSE]
    BY <1>6 DEF StageFails, driveVars, diskVars
  <2>4. \A r \in Redises : Unpublished(r)' => Unpublished(r)
    <3> TAKE r \in Redises
    <3> HAVE Unpublished(r)'
    <3>1. CASE r = Redis(c)
      BY <1>6, <3>1 DEF StageFails, Unpublished, On, Before
    <3>2. CASE r # Redis(c)
      <4>1. busy'[r] = busy[r]
        BY <1>2, <2>3, <3>2
      <4>2. \A d \in Chains : chain'[d].pc \in Before => chain'[d] = chain[d]
        BY <2>1 DEF On, Before
      <4> QED BY <4>1, <4>2 DEF Unpublished, Redis, Host
    <3> QED BY <3>1, <3>2
  <2>5. \A h \in Hosts : RedisOf[h] \in Redises
    BY VideoRunsAssumption DEF VideoRunsAssumption
  <2>6. video <= spec
    BY <1>2 DEF SpecLeads
  <2> QED BY <1>1, <1>2, <1>3, <2>1, <2>2, <2>3, <2>4, <2>5, <2>6, ChainKeeps
<1>7. CASE Render(c)
  <2>1. chain'[c].pc = "build" /\ chain'[c].host = q /\ chain'[c].full = chain[c].full
        /\ \A d \in Chains : d # c => chain'[d] = chain[d]
    BY <1>1, <1>2, <1>7, Followed DEF Render, ChainSteps, Host
  <2>2. output'[q] = staged[q] /\ (\A h \in Hosts : output'[h] <= spec) /\ staged' = staged
    BY <1>2, <1>3, <1>7 DEF Render
  <2>3. UNCHANGED <<spec, video, serve, busy>>
    BY <1>7 DEF Render, driveVars, redisVars
  <2>4. ChainOK(c)'
    BY <1>2, <1>7, <2>1, <2>2, <2>3 DEF ChainOK, On, Host, Redis, Render
  <2> QED BY <1>1, <1>3, <1>7, <2>1, <2>2, <2>3, <2>4, ChainGoesOn DEF Render, On, Before, Host
<1>8. CASE Build(c)
  <2>1. UNCHANGED <<spec, video, serve, busy, output, staged>>
    BY <1>8 DEF Build, driveVars, redisVars
  <2>2. CASE ~chain[c].full
    BY <1>4, <1>8, <2>1, <2>2 DEF Build
  <2>3. CASE chain[c].full
    <3>1. chain'[c].pc = "read" /\ chain'[c].host = q /\ chain'[c].full = chain[c].full
          /\ \A d \in Chains : d # c => chain'[d] = chain[d]
      BY <1>1, <1>2, <1>8, <2>3, Followed DEF Build, ChainSteps, Host
    <3>2. ChainOK(c)'
      BY <1>2, <1>8, <2>1, <2>3, <3>1 DEF ChainOK, On, Host, Redis, Build
    <3> QED BY <1>1, <1>3, <1>8, <2>1, <3>1, <3>2, ChainGoesOn DEF Build, On, Before, Host
  <2> QED BY <2>2, <2>3
<1>9. CASE Read(c)
  <2> DEFINE p == IF output[q] # 0 THEN "upload" ELSE "pack"
  <2>1. UNCHANGED <<spec, video, serve, busy, output, staged>>
    BY <1>9 DEF Read, driveVars, redisVars, diskVars
  <2>2. chain'[c].pc = p /\ chain'[c].host = q /\ chain'[c].full = chain[c].full
        /\ chain'[c].got = output[q] /\ \A d \in Chains : d # c => chain'[d] = chain[d]
    BY <1>2, <1>9 DEF Read, ChainsTyped, ChainRecords, Host
  <2>3. ChainOK(c)'
    BY <1>2, <1>3, <1>9, <2>1, <2>2 DEF ChainOK, On, Host, Redis, Read
  <2> QED BY <1>1, <1>3, <1>9, <2>1, <2>2, <2>3, ChainGoesOn DEF Read, On, Before, Host
<1>10. CASE Upload(c)
  <2>1. UNCHANGED <<spec, serve, busy, output, staged>> /\ video' = chain[c].got
    BY <1>10 DEF Upload, diskVars
  <2>2. chain'[c].pc = "record" /\ chain'[c].host = q /\ chain'[c].full = chain[c].full
        /\ \A d \in Chains : d # c => chain'[d] = chain[d]
    BY <1>2, <1>10 DEF Upload, ChainsTyped, ChainRecords, Host
  <2>3. video' \in Nat /\ video <= video' /\ video' <= spec
    BY <1>2, <1>10, <2>1 DEF ChainOK, Upload, ChainRecords
  <2>4. ChainOK(c)'
    BY <1>2, <2>1, <2>2 DEF ChainOK, On, Host, Redis
  <2>5. \A h \in Hosts : Rendering(RedisOf[h]) => RedisOf[h] = Redis(c)
    BY <1>2 DEF Rendering, OneRenderRedis, Redis
  <2>6. \A d \in Chains : d # c => On(d, "idle")
    BY <1>1 DEF RenderInv, Alone
  <2>7. \A h \in Hosts : Rendering(RedisOf[h]) => ~Unpublished(RedisOf[h])'
    <3> TAKE h \in Hosts
    <3> HAVE Rendering(RedisOf[h])
    <3>1. RedisOf[h] = Redis(c) /\ Redis(c)' = Redis(c)
      BY <2>2, <2>5 DEF Redis, Host
    <3>2. ~(~busy'[Redis(c)] \/ \E d \in Chains : chain'[d].pc \in Before)
      BY <1>2, <2>1, <2>2, <2>6 DEF On, Before
    <3> QED BY <3>1, <3>2 DEF Unpublished
  <2> QED BY <1>1, <1>3, <2>1, <2>2, <2>3, <2>4, <2>7, ChainKeeps
<1>11. ASSUME NEW p \in {"pack", "note"}, Follow(c, p), UNCHANGED <<spec, video, serve, busy, output, staged>>
       PROVE  RenderInv'
  <2>1. chain'[c].pc = p /\ chain'[c].host = q /\ \A d \in Chains : d # c => chain'[d] = chain[d]
    BY <1>1, <1>2, <1>11, Followed DEF ChainSteps, Host
  <2>2. ChainOK(c)' /\ chain'[c].pc \notin Before
    BY <1>2, <1>11, <2>1 DEF ChainOK, On, Host, Redis, Before
  <2> QED BY <1>1, <1>3, <1>11, <2>1, <2>2, ChainGoesOn DEF Host
<1>12. CASE RecordVideo(c) \/ Pack(c) \/ RecordArchive(c) \/ ChainFails(c)
  <2>1. UNCHANGED <<spec, video, serve, busy, output, staged>>
        /\ (End(c) \/ \E p \in {"pack", "note"} : Follow(c, p))
    BY <1>12 DEF RecordVideo, Pack, RecordArchive, ChainFails, driveVars, diskVars, redisVars
  <2> QED BY <1>4, <1>11, <2>1
<1> QED BY <1>5, <1>6, <1>7, <1>8, <1>9, <1>10, <1>12 DEF ChainStep

\* A save, a trigger, and the end of the flag's hour.
LEMMA OtherRenders ==
  ASSUME OneRenderRedis, VideoTypeInv, RenderInv,
         \/ \E ops \in {0, 1} : Save(ops)
         \/ \E c \in Chains, h \in Renderers, full \in BOOLEAN : Start(c, h, full)
         \/ \E r \in Redises : FlagExpires(r)
  PROVE  RenderInv'
<1> USE VideoRunsAssumption DEF VideoRunsAssumption
<1>1. /\ spec \in Nat /\ video \in Nat /\ staged \in [Hosts -> Nat] /\ output \in [Hosts -> Nat]
      /\ busy \in [Redises -> BOOLEAN] /\ chain \in [Chains -> ChainRecords]
      /\ \A c \in Chains : chain[c].got \in Nat
  BY BoundsTyped DEF VideoTypeInv, DriveTyped, DiskTyped, RedisTyped, ChainsTyped, ChainRecords
<1>2. ASSUME NEW ops \in {0, 1}, Save(ops) PROVE RenderInv'
  <2>1. spec' >= spec /\ spec' \in Nat /\ UNCHANGED <<video, busy, staged, output, chain, serve>>
    BY <1>1, <1>2 DEF Save, redisVars
  <2>2. SpecLeads'
    BY <1>1, <2>1 DEF RenderInv, SpecLeads
  <2>3. \A c \in Chains : ChainOK(c)'
    BY <1>1, <2>1 DEF RenderInv, ChainOK, On, Host, Redis
  <2>4. Alone' /\ \A h \in Hosts : RequestOK(h)'
    BY <2>1 DEF RenderInv, Alone, On, RequestOK, At
  <2>5. \A h \in Hosts : Rendering(RedisOf[h]) /\ Unpublished(RedisOf[h])' => Timely(h)'
    BY <2>1 DEF RenderInv, Unpublished, Redis, Host, Timely, At
  <2> QED BY <2>2, <2>3, <2>4, <2>5 DEF RenderInv, Rendering
<1>3. ASSUME NEW c \in Chains, NEW h \in Renderers, NEW full \in BOOLEAN, Start(c, h, full)
      PROVE  RenderInv'
  <2> DEFINE r == RedisOf[h]
  <2>1. UNCHANGED <<spec, video, staged, output, serve>> /\ busy' = [busy EXCEPT ![r] = TRUE] /\ ~busy[r]
    BY <1>3 DEF Start, Free, driveVars, diskVars
  <2>2. chain'[c].pc = "stage" /\ chain'[c].host = h /\ \A d \in Chains : d # c => chain'[d] = chain[d]
    <3>1. PICK x : x = [NoChain EXCEPT !.pc = "stage", !.host = h, !.full = full]
      OBVIOUS
    <3>2. x.pc = "stage" /\ x.host = h
      BY <3>1, NoChainTyped DEF ChainRecords
    <3> QED BY <1>1, <1>3, <3>1, <3>2 DEF Start
  <2>3. \A d \in Chains : On(d, "idle")
    <3> SUFFICES ASSUME NEW d \in Chains, ~On(d, "idle") PROVE FALSE
      OBVIOUS
    <3>1. busy[Redis(d)] /\ Host(d) \in Renderers
      BY DEF RenderInv, ChainOK, VideoTypeInv, ChainsTyped
    <3> QED BY <2>1, <3>1 DEF OneRenderRedis, Redis
  <2>4. \A d \in Chains : ChainOK(d)'
    <3>1. ChainOK(c)'
      BY <1>1, <2>1, <2>2 DEF ChainOK, On, Redis, Host
    <3>2. \A d \in Chains : d # c => ChainOK(d)'
      BY <2>2, <2>3 DEF ChainOK, On
    <3> QED BY <3>1, <3>2
  <2>5. Alone'
    BY <2>2, <2>3 DEF Alone, On
  <2>6. SpecLeads' /\ \A g \in Hosts : RequestOK(g)'
    BY <2>1 DEF RenderInv, SpecLeads, RequestOK, At
  <2>7. \A g \in Hosts : Rendering(RedisOf[g]) /\ Unpublished(RedisOf[g])' => Timely(g)'
    <3> SUFFICES ASSUME NEW g \in Hosts, Rendering(RedisOf[g]) PROVE Timely(g)'
      OBVIOUS
    <3>1. RedisOf[g] = r
      BY DEF Rendering, OneRenderRedis
    <3>2. Timely(g)
      BY <2>1, <3>1 DEF RenderInv, Unpublished
    <3> QED BY <2>1, <3>2 DEF Timely, At
  <2> QED BY <2>4, <2>5, <2>6, <2>7 DEF RenderInv, Rendering
<1>4. ASSUME NEW r \in Redises, FlagExpires(r) PROVE RenderInv'
  <2>1. UNCHANGED <<spec, video, staged, output, serve, chain>> /\ busy' = [busy EXCEPT ![r] = FALSE]
    BY <1>4 DEF FlagExpires, driveVars, diskVars
  <2>2. \A c \in Chains : ChainOK(c)'
    <3> TAKE c \in Chains
    <3>1. ChainOK(c) /\ (~On(c, "idle") => Redis(c) # r)
      BY <1>4 DEF RenderInv, FlagExpires
    <3>2. ~On(c, "idle") => busy'[Redis(c)] = busy[Redis(c)]
      BY <1>1, <2>1, <3>1 DEF VideoTypeInv, ChainsTyped, Redis
    <3> QED BY <2>1, <3>1, <3>2 DEF ChainOK, On, Redis, Host
  <2>3. SpecLeads' /\ Alone' /\ \A g \in Hosts : RequestOK(g)'
    BY <2>1 DEF RenderInv, SpecLeads, Alone, On, RequestOK, At
  <2>4. \A g \in Hosts : Rendering(RedisOf[g]) /\ Unpublished(RedisOf[g])' => Timely(g)'
    <3> SUFFICES ASSUME NEW g \in Hosts, Rendering(RedisOf[g]), Unpublished(RedisOf[g])' PROVE Timely(g)
      BY <2>1 DEF Timely, At
    <3>1. CASE RedisOf[g] = r
      BY <1>4, <3>1 DEF FlagExpires, Timely
    <3>2. CASE RedisOf[g] # r
      <4>1. busy'[RedisOf[g]] = busy[RedisOf[g]]
        BY <1>1, <2>1, <3>2
      <4> QED BY <2>1, <4>1 DEF RenderInv, Unpublished, Redis, Host
    <3> QED BY <3>1, <3>2
  <2> QED BY <2>2, <2>3, <2>4 DEF RenderInv, Rendering
<1> QED BY <1>2, <1>3, <1>4

\* Every step keeps what the chains and requests hold.
LEMMA RenderStep ==
  ASSUME OneRenderRedis
  PROVE  VideoTypeInv /\ RenderInv /\ [VideoNext]_videoVars => RenderInv'
<1> SUFFICES ASSUME VideoTypeInv, RenderInv, [VideoNext]_videoVars PROVE RenderInv'
  OBVIOUS
<1>1. VideoTypeInv'
  BY VideoStepTypes
<1>2. CASE UNCHANGED videoVars
  BY <1>2 DEF videoVars, driveVars, redisVars, diskVars, RenderInv, SpecLeads, Alone, ChainOK, RequestOK,
              Rendering, Unpublished, Timely, On, At, Host, Redis
<1>3. CASE VideoNext
  BY <1>1, <1>3, ChainRenders, ServeRenders, OtherRenders
     DEF VideoNext, TriggerRerender, TriggerBuildOnly
<1> QED BY <1>2, <1>3

\* Only an upload publishes a video, and it is as new as the one it replaces.
LEMMA StepsForward ==
  ASSUME VideoTypeInv, RenderInv, [VideoNext]_videoVars
  PROVE  video' >= video /\ video' \in Nat
<1>1. video \in Nat
  BY DEF VideoTypeInv, DriveTyped
<1>2. ASSUME NEW c \in Chains, Upload(c) PROVE video' >= video /\ video' \in Nat
  BY <1>2 DEF Upload, RenderInv, ChainOK, VideoTypeInv, ChainsTyped, ChainRecords
<1>3. video' = video \/ \E c \in Chains : Upload(c)
  <2>1. ASSUME NEW c \in Chains, ChainStep(c) PROVE video' = video \/ Upload(c)
    BY <2>1 DEF ChainStep, Stage, StageFails, Render, Build, Read, RecordVideo, Pack,
           RecordArchive, ChainFails, driveVars
  <2>2. ASSUME NEW h \in Hosts, ServeStep(h) PROVE video' = video
    BY <2>2 DEF ServeStep, Get, Observe, ObserveFails, TokenExpired, Invalidate, Look, Pull, Write,
         Record, Reply, Dies, driveVars
  <2>3. ASSUME UNCHANGED videoVars PROVE video' = video
    BY <2>3 DEF videoVars, driveVars
  <2> QED BY <2>1, <2>2, <2>3
          DEF VideoNext, TriggerRerender, TriggerBuildOnly, Save, Start, FlagExpires, driveVars
<1> QED BY <1>1, <1>2, <1>3

\* The published video never goes back, whatever saves, triggers, chains,
\* expiries of the flag and requests cross.
THEOREM PublishedNeverRollsBack == OneRenderRedis /\ VideoSpec => NeverRollsBack
<1> SUFFICES ASSUME OneRenderRedis PROVE VideoSpec => NeverRollsBack
  OBVIOUS
<1>1. VideoTypeInv /\ RenderInv /\ [VideoNext]_videoVars => [video' >= video]_videoVars
  BY StepsForward
<1> QED BY <1>1, VideoInitTypes, VideoStepTypes, RenderInitInv, RenderStep, PTL
        DEF VideoSpec, NeverRollsBack

-----------------------------------------------------------------------------
(* VideoRuns: nobody is served what is older than what was published when  *)
(* the request came in, when each host has a Redis of its own.             *)

\* Each host has a Redis of its own, so it drains its own invalidations.
OwnRedis == \A g, h \in Hosts : RedisOf[g] = RedisOf[h] => g = h

\* What is on the disk was rendered there, and what is published of it is no newer.
Rendered(h) ==
  \/ output[h] = 0
  \/ /\ h \in Renderers /\ output[h] >= video
     /\ \A c \in Chains : On(c, "upload") => chain[c].got <= output[h]

Outdated(h) == output[h] # 0 /\ output[h] < video

\* A file that no entry of the index maps was rendered; of one that is outdated,
\* the host is still to hear, or holds the news; and past that point a request
\* finds nothing older than what was published when it came in.
ServeOK(h) ==
  LET r == RedisOf[h] IN
  /\ ~seeded[r] => serve[h].pc \in {"idle", "observe"}
  /\ ~seeded[r] => Rendered(h)
  /\ "video" \notin index[r] /\ ~At(h, "record") => Rendered(h)
  /\ Outdated(h) => \/ "video" \in pending[r]
                    \/ At(h, "invalidate") /\ "video" \in serve[h].took
  /\ At(h, "write") /\ serve[h].got < video => "video" \in pending[r]
  /\ At(h, "look") => output[h] = 0 \/ output[h] >= serve[h].since
  /\ At(h, "invalidate") /\ "video" \notin serve[h].took =>
       output[h] = 0 \/ output[h] >= serve[h].since
  /\ serve[h].pc \in {"write", "record", "reply"} => serve[h].got >= serve[h].since

\* As long as the index has not been blinded, this holds of every host.
ServeInv == ~blind => \A h \in Hosts : ServeOK(h)

\* No request is in flight and nothing is on the disks.
LEMMA ServeInitInv == VideoInit => ServeInv
<1> SUFFICES ASSUME VideoInit, NEW h \in Hosts PROVE ServeOK(h)
  BY DEF ServeInv
<1> USE VideoRunsAssumption DEF VideoRunsAssumption, VideoInit
<1>1. output[h] = 0 /\ serve[h].pc = "idle"
  BY DEF NoRequest
<1> QED BY <1>1 DEF ServeOK, Rendered, Outdated, At

\* The numbers these facts compare.
LEMMA ServeNumbers ==
  ASSUME VideoTypeInv, NEW h \in Hosts
  PROVE  /\ RedisOf[h] \in Redises /\ output[h] \in Nat /\ video \in Nat
         /\ serve[h] \in ServeRecords /\ serve[h].since \in Nat /\ serve[h].got \in Nat
         /\ pending[RedisOf[h]] \subseteq Files /\ index[RedisOf[h]] \subseteq Files
         /\ seeded[RedisOf[h]] \in BOOLEAN
BY VideoRunsAssumption
   DEF VideoRunsAssumption, VideoTypeInv, DiskTyped, DriveTyped, ServeTyped, RedisTyped, ServeRecords

\* Nothing a host's facts are about has changed for the worse.
LEMMA ServeStays ==
  ASSUME VideoTypeInv, NEW h \in Hosts, ServeOK(h),
         UNCHANGED <<seeded, video>>, serve'[h] = serve[h], output'[h] = output[h],
         index[RedisOf[h]] \subseteq index'[RedisOf[h]],
         seeded[RedisOf[h]] => pending[RedisOf[h]] \subseteq pending'[RedisOf[h]],
         Rendered(h) => Rendered(h)'
  PROVE  ServeOK(h)'
<1>1. ~seeded[RedisOf[h]] => ~Outdated(h)
  BY ServeNumbers DEF ServeOK, Rendered, Outdated
<1> QED BY <1>1 DEF ServeOK, Outdated, At

\* A step of a chain: what it publishes, every host is to hear of.
LEMMA ChainServes ==
  ASSUME OneRenderRedis, OwnRedis, VideoTypeInv, RenderInv, VideoTypeInv', RenderInv',
         NEW c \in Chains, ChainStep(c), NEW h \in Hosts, ServeOK(h)
  PROVE  ServeOK(h)'
<1> DEFINE q == Host(c)
<1>1. ~On(c, "idle")
  BY DEF ChainStep, Stage, StageFails, Render, Build, Read, Upload, RecordVideo, Pack,
         RecordArchive, ChainFails, On
<1>2. /\ ChainsTyped /\ chain[c] \in ChainRecords /\ q \in Renderers /\ q \in Hosts
      /\ spec \in Nat /\ video \in Nat /\ staged \in [Hosts -> Nat] /\ output \in [Hosts -> Nat]
      /\ ChainOK(c) /\ \A d \in Chains : d # c => On(d, "idle")
  BY <1>1, VideoRunsAssumption, BoundsTyped
     DEF VideoTypeInv, ChainsTyped, RenderInv, DriveTyped, DiskTyped, VideoRunsAssumption, Alone
<1>3. h \in Renderers => h = q
  BY <1>2 DEF OneRenderRedis, OwnRedis
<1>4. serve' = serve /\ seeded' = seeded
  BY DEF ChainStep, Stage, StageFails, Render, Build, Read, Upload, RecordVideo, Pack,
         RecordArchive, ChainFails, redisVars
<1>5. index[RedisOf[h]] \subseteq index'[RedisOf[h]]
  <2>1. index' = index \/ \E f : index' = [index EXCEPT ![Redis(c)] = @ \cup {f}]
    BY DEF ChainStep, Stage, StageFails, Render, Build, Read, Upload, RecordVideo, Pack,
           RecordArchive, ChainFails, redisVars
  <2>2. index \in [Redises -> SUBSET Files] /\ RedisOf[h] \in Redises
    BY ServeNumbers DEF VideoTypeInv, RedisTyped
  <2> QED BY <2>1, <2>2
<1>6. seeded[RedisOf[h]] => pending[RedisOf[h]] \subseteq pending'[RedisOf[h]]
  <2>1. pending' = pending \/ \E f : Reports(f)
    BY DEF ChainStep, Stage, StageFails, Render, Build, Read, Upload, RecordVideo, Pack,
           RecordArchive, ChainFails, redisVars
  <2>2. RedisOf[h] \in Redises
    BY ServeNumbers
  <2> QED BY <2>1, <2>2 DEF Reports
<1>7. \A d \in Chains : d # c => chain'[d] = chain[d]
  BY <1>2 DEF ChainStep, Stage, StageFails, Render, Build, Read, Upload, RecordVideo, Pack,
              RecordArchive, ChainFails, Follow, End, ChainsTyped
<1>8. CASE Upload(c)
  <2>1. video' = chain[c].got /\ output' = output /\ Reports("video") /\ On(c, "upload") /\ index' = index
    BY <1>8 DEF Upload, diskVars
  <2>2. \A d \in Chains : ~On(d, "upload")'
    <3>1. chain'[c].pc = "record"
      BY <1>2, <1>8 DEF Upload, ChainsTyped, ChainRecords
    <3> QED BY <1>2, <1>7, <3>1 DEF On
  <2>3. Rendered(h) => Rendered(h)' /\ ~Outdated(h)'
    <3>1. Rendered(h) => output[h] = 0 \/ (h \in Renderers /\ output[h] >= chain[c].got)
      BY <2>1 DEF Rendered
    <3> QED BY <1>2, <2>1, <2>2, <3>1 DEF Rendered, Outdated, ChainRecords
  <2>4. seeded[RedisOf[h]] => "video" \in pending'[RedisOf[h]]
    BY <2>1, ServeNumbers DEF Reports
  <2> QED BY <1>4, <2>1, <2>3, <2>4 DEF ServeOK, At
<1>9. CASE Render(c)
  <2>1. UNCHANGED <<video, index, pending>> /\ output' = [output EXCEPT ![q] = staged[q]]
        /\ staged[q] >= video
    BY <1>2, <1>9 DEF Render, ChainOK, redisVars, driveVars
  <2>2. CASE h # q
    <3>1. output'[h] = output[h]
      BY <1>2, <2>1, <2>2
    <3>2. Rendered(h) => Rendered(h)'
      BY <1>3, <2>2, <3>1 DEF Rendered
    <3> QED BY <1>4, <1>5, <1>6, <2>1, <3>1, <3>2, ServeStays
  <2>3. CASE h = q
    <3>1. output'[h] = staged[q]
      BY <1>2, <2>1, <2>3
    <3>2. \A d \in Chains : ~On(d, "upload")'
      <4>1. chain'[c].pc = "build"
        BY <1>2, <1>9 DEF Render, Follow, ChainsTyped, ChainRecords
      <4> QED BY <1>2, <1>7, <4>1 DEF On
    <3>3. Rendered(h)' /\ ~Outdated(h)'
      BY <1>2, <2>1, <2>3, <3>1, <3>2 DEF Rendered, Outdated
    <3>4. serve[h].since \in Nat /\ serve[h].since <= video
      BY ServeNumbers DEF RenderInv, RequestOK
    <3>5. output'[h] >= serve[h].since
      BY <1>2, <2>1, <3>1, <3>4
    <3> QED BY <1>4, <2>1, <3>3, <3>5 DEF ServeOK, At
  <2> QED BY <2>2, <2>3
<1>10. CASE Read(c)
  <2>1. UNCHANGED <<video, output>>
    BY <1>10 DEF Read, driveVars, diskVars
  <2>2. chain'[c].got = output[q]
    BY <1>2, <1>10 DEF Read, ChainsTyped, ChainRecords
  <2>3. Rendered(h) => Rendered(h)'
    BY <1>2, <1>3, <1>7, <2>1, <2>2 DEF Rendered, On
  <2> QED BY <1>4, <1>5, <1>6, <2>1, <2>3, ServeStays
<1>11. CASE ~Upload(c) /\ ~Render(c) /\ ~Read(c)
  <2>1. UNCHANGED <<video, output>>
    BY <1>11 DEF ChainStep, Stage, StageFails, Build, RecordVideo, Pack,
           RecordArchive, ChainFails, driveVars, diskVars
  <2>2. chain'[c].pc # "upload"
    <3>1. End(c) \/ \E p \in ChainSteps \ {"idle", "upload"} : Follow(c, p)
      BY <1>11 DEF ChainStep, Stage, StageFails, Build, RecordVideo, Pack,
           RecordArchive, ChainFails, ChainSteps
    <3> QED BY <1>1, <1>2, <3>1, Ended, Followed DEF On
  <2>3. Rendered(h) => Rendered(h)'
    BY <1>7, <2>1, <2>2 DEF Rendered, On
  <2> QED BY <1>4, <1>5, <1>6, <2>1, <2>3, ServeStays
<1> QED BY <1>8, <1>9, <1>10, <1>11

\* A step of a request says nothing of another host's disk, or of its Redis.
LEMMA OtherHost ==
  ASSUME OwnRedis, VideoTypeInv, NEW h \in Hosts, ServeStep(h), NEW g \in Hosts, g # h, ServeOK(g)
  PROVE  ServeOK(g)'
<1>1. RedisOf[g] # RedisOf[h] /\ RedisOf[g] \in Redises
  BY ServeNumbers DEF OwnRedis
<1>2. UNCHANGED <<video, chain>>
  BY DEF ServeStep, Get, Observe, ObserveFails, TokenExpired, Invalidate, Look, Pull, Write,
         Record, Reply, Dies, driveVars
<1>3. serve'[g] = serve[g] /\ output'[g] = output[g]
  BY DEF ServeStep, Get, Observe, ObserveFails, TokenExpired, Invalidate, Look, Pull, Write,
         Record, Reply, Dies, Goto, diskVars, VideoTypeInv, ServeTyped, DiskTyped
<1>4. seeded'[RedisOf[g]] = seeded[RedisOf[g]]
  BY <1>1 DEF ServeStep, Get, Observe, ObserveFails, TokenExpired, Invalidate, Look, Pull, Write,
         Record, Reply, Dies, redisVars, VideoTypeInv, RedisTyped
<1>5. pending'[RedisOf[g]] = pending[RedisOf[g]]
  BY <1>1 DEF ServeStep, Get, Observe, ObserveFails, TokenExpired, Invalidate, Look, Pull, Write,
         Record, Reply, Dies, redisVars, VideoTypeInv, RedisTyped
<1>6. index'[RedisOf[g]] = index[RedisOf[g]]
  BY <1>1 DEF ServeStep, Get, Observe, ObserveFails, TokenExpired, Invalidate, Look, Pull, Write,
         Record, Reply, Dies, redisVars, VideoTypeInv, RedisTyped
<1> QED BY <1>2, <1>3, <1>4, <1>5, <1>6 DEF ServeOK, Rendered, Outdated, At, On

\* A step of a request, for the host it is on.
LEMMA RequestServes ==
  ASSUME VideoTypeInv, RenderInv, NEW h \in Hosts, ServeOK(h), ServeStep(h), ~blind'
  PROVE  ServeOK(h)'
<1> DEFINE r == RedisOf[h]
<1>1. /\ r \in Redises /\ output[h] \in Nat /\ video \in Nat
      /\ serve[h] \in ServeRecords /\ serve[h].since \in Nat /\ serve[h].got \in Nat
      /\ ServeTyped /\ DiskTyped /\ RedisTyped
      /\ serve[h].since <= video
  BY ServeNumbers DEF VideoTypeInv, RenderInv, RequestOK
<1>2. UNCHANGED <<video, chain>>
  BY DEF ServeStep, Get, Observe, ObserveFails, TokenExpired, Invalidate, Look, Pull, Write,
         Record, Reply, Dies, driveVars
<1>3. output' = output => (Rendered(h)' <=> Rendered(h)) /\ (Outdated(h)' <=> Outdated(h))
  BY <1>2 DEF Rendered, Outdated, On
<1>4. CASE Get(h)
  <2>1. serve'[h].pc = "observe"
    BY <1>1, <1>4 DEF Get, ServeTyped, NoRequest
  <2>2. UNCHANGED <<output, seeded, pending, index>> /\ At(h, "idle")
    BY <1>4 DEF Get, diskVars, redisVars
  <2> QED BY <1>2, <1>3, <2>1, <2>2 DEF ServeOK, At
<1>5. CASE Observe(h)
  <2>1. UNCHANGED <<output, index>> /\ At(h, "observe")
    BY <1>5 DEF Observe, diskVars
  <2>2. serve'[h].pc = (IF pending[r] = {} THEN "look" ELSE "invalidate")
        /\ serve'[h].took = pending[r] /\ serve'[h].since = serve[h].since
    BY <1>1, <1>5 DEF Observe, ServeTyped, ServeRecords
  <2>3. Outdated(h) => "video" \in pending[r]
    BY <2>1 DEF ServeOK, At
  <2>4. "video" \notin pending[r] => output[h] = 0 \/ output[h] >= serve[h].since
    BY <1>1, <2>3 DEF Outdated
  <2>5. seeded'[r]
    BY <1>1, <1>5 DEF Observe, RedisTyped
  <2>6. "video" \notin index[r] => Rendered(h)
    BY <2>1 DEF ServeOK, At
  <2> QED BY <1>3, <2>1, <2>2, <2>3, <2>4, <2>5, <2>6 DEF ServeOK, At
<1>6. CASE Invalidate(h)
  <2> DEFINE gone == serve[h].took \cap index[r]
  <2>1. At(h, "invalidate") /\ UNCHANGED <<seeded, pending>> /\ serve'[h].pc = "look"
        /\ serve'[h].since = serve[h].since
    BY <1>1, <1>6 DEF Invalidate, ServeTyped, ServeRecords
  <2>2. output'[h] = (IF "video" \in gone THEN 0 ELSE output[h]) /\ index'[r] = index[r] \ gone
    BY <1>1, <1>6 DEF Invalidate, DiskTyped, RedisTyped
  <2>3. seeded'[r]
    BY <1>1, <2>1 DEF ServeOK, At, RedisTyped
  <2>4. CASE "video" \in gone
    BY <2>1, <2>2, <2>3, <2>4 DEF ServeOK, Rendered, Outdated, At
  <2>5. CASE "video" \notin gone
    <3>1. output'[h] = output[h] /\ ("video" \in index'[r] <=> "video" \in index[r])
      BY <2>2, <2>5
    <3>2. (Rendered(h)' <=> Rendered(h)) /\ (Outdated(h)' <=> Outdated(h))
      BY <1>2, <3>1 DEF Rendered, Outdated, On
    <3>3. "video" \in serve[h].took => Rendered(h)
      BY <2>1, <2>5 DEF ServeOK, At
    <3>4. Rendered(h) => ~Outdated(h) /\ (output[h] = 0 \/ output[h] >= serve[h].since)
      BY <1>1 DEF Rendered, Outdated
    <3>5. output[h] = 0 \/ output[h] >= serve[h].since
      BY <2>1, <3>3, <3>4 DEF ServeOK
    <3>6. Outdated(h) => "video" \in pending[r]
      BY <3>3, <3>4 DEF ServeOK
    <3>7. "video" \notin index[r] => Rendered(h)
      BY <2>1 DEF ServeOK, At
    <3> QED BY <2>1, <2>3, <3>1, <3>2, <3>5, <3>6, <3>7 DEF ServeOK, At
  <2> QED BY <2>4, <2>5
<1>7. CASE Look(h)
  <2>1. At(h, "look") /\ UNCHANGED <<output, seeded, pending, index>>
    BY <1>7 DEF Look, diskVars, redisVars
  <2>2. serve'[h].since = serve[h].since
        /\ \/ serve'[h].pc = "pull"
           \/ serve'[h].pc = "reply" /\ serve'[h].got = output[h] /\ output[h] # 0
    BY <1>1, <1>7, Went DEF Look, ServeTyped, ServeRecords, ServeSteps
  <2> QED BY <1>2, <1>3, <2>1, <2>2 DEF ServeOK, At
<1>8. CASE Pull(h)
  <2>1. At(h, "pull") /\ UNCHANGED <<output, seeded, pending, index>>
    BY <1>8 DEF Pull, diskVars, redisVars
  <2>2. \/ serve'[h].pc = "idle"
        \/ serve'[h].pc = "write" /\ serve'[h].got = video /\ serve'[h].since = serve[h].since
    BY <1>1, <1>8 DEF Pull, ServeTyped, ServeRecords, NoRequest
  <2> QED BY <1>1, <1>2, <1>3, <2>1, <2>2 DEF ServeOK, At
<1>9. CASE Write(h)
  <2>1. At(h, "write") /\ UNCHANGED <<seeded, pending, index>>
    BY <1>9 DEF Write, redisVars
  <2>2. serve'[h].pc = "record" /\ serve'[h].got = serve[h].got /\ serve'[h].since = serve[h].since
    BY <1>1, <1>9, Went DEF Write, ServeSteps
  <2>3. output'[h] = serve[h].got
    BY <1>1, <1>9 DEF Write, DiskTyped
  <2>4. Outdated(h)' => "video" \in pending[r]
    BY <1>2, <2>1, <2>3 DEF ServeOK, Outdated
  <2>5. seeded[r]
    BY <2>1 DEF ServeOK, At
  <2> QED BY <1>2, <2>1, <2>2, <2>4, <2>5 DEF ServeOK, At
<1>10. CASE Record(h)
  <2>1. At(h, "record") /\ UNCHANGED <<output, seeded, pending>>
    BY <1>10 DEF Record, diskVars
  <2>2. serve'[h].pc = "reply" /\ serve'[h].got = serve[h].got /\ serve'[h].since = serve[h].since
    BY <1>1, <1>10, Went DEF Record, ServeSteps
  <2>3. "video" \in index'[r]
    BY <1>1, <1>10 DEF Record, RedisTyped, Mapped
  <2> QED BY <1>2, <1>3, <2>1, <2>2, <2>3 DEF ServeOK, At
<1>11. CASE Reply(h)
  <2>1. At(h, "reply") /\ UNCHANGED <<output, seeded, pending, index>>
    BY <1>11 DEF Reply, diskVars, redisVars
  <2>2. serve'[h].pc = "idle"
    BY <1>1, <1>11 DEF Reply, ServeTyped, NoRequest
  <2> QED BY <1>2, <1>3, <2>1, <2>2 DEF ServeOK, At
<1> QED BY <1>4, <1>5, <1>6, <1>7, <1>8, <1>9, <1>10, <1>11
        DEF ServeStep, ObserveFails, TokenExpired, Dies

\* A save, a trigger and the end of the flag's hour touch no request.
LEMMA OtherServes ==
  ASSUME VideoTypeInv, NEW h \in Hosts, ServeOK(h),
         \/ \E ops \in {0, 1} : Save(ops)
         \/ \E c \in Chains, g \in Renderers, full \in BOOLEAN : Start(c, g, full)
         \/ \E r \in Redises : FlagExpires(r)
         \/ UNCHANGED videoVars
  PROVE  ServeOK(h)'
<1>1. UNCHANGED <<video, output, seeded, pending, index, serve>>
  BY DEF Save, Start, FlagExpires, videoVars, driveVars, diskVars, redisVars
<1>2. \A c \in Chains : On(c, "upload")' => On(c, "upload") /\ chain'[c] = chain[c]
  <2>1. CASE UNCHANGED chain
    BY <2>1 DEF On
  <2>2. ASSUME NEW c \in Chains, NEW g \in Renderers, NEW full \in BOOLEAN, Start(c, g, full)
        PROVE  \A d \in Chains : On(d, "upload")' => On(d, "upload") /\ chain'[d] = chain[d]
    <3>1. PICK x : x = [NoChain EXCEPT !.pc = "stage", !.host = g, !.full = full]
      OBVIOUS
    <3>2. x.pc = "stage"
      BY <3>1, NoChainTyped DEF ChainRecords
    <3> QED BY <2>2, <3>1, <3>2 DEF Start, VideoTypeInv, ChainsTyped, On
  <2> QED BY <2>1, <2>2 DEF Save, FlagExpires, videoVars
<1>3. Rendered(h) => Rendered(h)'
  BY <1>1, <1>2 DEF Rendered
<1> QED BY <1>1, <1>3, ServeStays

\* Every step keeps what a request may find.
LEMMA ServeInvStep ==
  ASSUME OneRenderRedis, OwnRedis
  PROVE  VideoTypeInv /\ RenderInv /\ ServeInv /\ [VideoNext]_videoVars => ServeInv'
<1> SUFFICES ASSUME VideoTypeInv, RenderInv, ServeInv, [VideoNext]_videoVars, ~blind', NEW h \in Hosts
             PROVE  ServeOK(h)'
  BY DEF ServeInv
<1>1. VideoTypeInv' /\ RenderInv'
  BY VideoStepTypes, RenderStep
<1>2. ASSUME NEW c \in Chains, ChainStep(c) PROVE ServeOK(h)'
  <2>1. ~blind
    BY <1>2 DEF ChainStep, Stage, StageFails, Render, Build, Read, Upload, RecordVideo, Pack,
         RecordArchive, ChainFails, counters
  <2> QED BY <1>1, <1>2, <2>1, ChainServes DEF ServeInv
<1>3. ASSUME NEW g \in Hosts, ServeStep(g) PROVE ServeOK(h)'
  <2>1. ~blind
    BY <1>3 DEF ServeStep, Get, Observe, ObserveFails, TokenExpired, Invalidate, Look, Pull, Write,
         Record, Reply, Dies, counters
  <2>2. ServeOK(h) /\ ServeOK(g)
    BY <2>1 DEF ServeInv
  <2> QED BY <1>3, <2>2, OtherHost, RequestServes
<1>4. ASSUME \/ \E ops \in {0, 1} : Save(ops)
             \/ \E c \in Chains, g \in Renderers, full \in BOOLEAN : Start(c, g, full)
             \/ \E r \in Redises : FlagExpires(r)
             \/ UNCHANGED videoVars
      PROVE  ServeOK(h)'
  <2>1. ~blind
    BY <1>4 DEF Save, Start, FlagExpires, videoVars, counters
  <2> QED BY <1>4, <2>1, OtherServes DEF ServeInv
<1> QED BY <1>2, <1>3, <1>4 DEF VideoNext, TriggerRerender, TriggerBuildOnly

\* While each host has a Redis of its own, no request is answered with a video
\* older than the one that was published when it came in, unless the index was blinded on the way.
THEOREM ViewersGetWhatIsPublished == OneRenderRedis /\ OwnRedis /\ VideoSpec => []ServesPublished
<1> SUFFICES ASSUME OneRenderRedis, OwnRedis PROVE VideoSpec => []ServesPublished
  OBVIOUS
<1>1. ServeInv => ServesPublished
  BY DEF ServeInv, ServeOK, ServesPublished, At
<1> QED BY <1>1, VideoInitTypes, VideoStepTypes, RenderInitInv, RenderStep, ServeInitInv, ServeInvStep, PTL
        DEF VideoSpec

=============================================================================
