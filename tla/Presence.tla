------------------------------ MODULE Presence ------------------------------
(***************************************************************************)
(* Viewer presence: PresenceConsumer (one per WebSocket) over the Redis    *)
(* hashes of presence/store.py and the channel-layer groups.               *)
(*                                                                         *)
(* A consumer handles one frame or group message at a time and awaits      *)
(* inside it: between two of its steps every other consumer may run.       *)
(* Redis calls may fail and are swallowed; clients vanish; fields expire.  *)
(***************************************************************************)
EXTENDS Naturals

CONSTANTS
  Conns,      \* connections; an id is never used twice
  Users,
  UserOf,     \* the user of each connection
  Pages,
  Tenants,    \* the pages that belong to a workspace (the rest are global)
  MaxActs     \* bound on enters, idle changes, preference and membership
              \* changes, failed calls, lapsed fields and lost clients

ASSUME PresenceAssumption ==
  /\ UserOf \in [Conns -> Users] /\ Tenants \subseteq Pages
  /\ Pages \cap {"nowhere", "end"} = {} /\ MaxActs \in Nat

VARIABLES
  hidden,   \* users with show_presence off
  members,  \* user and tenant page: may the user enter it
  hash,     \* hash[p][c]: the field of c in the hash of page p
  conn,     \* conn[c]: the consumer
  inbox,    \* inbox[c]: pages whose roster_changed waits for c
  strays,   \* history: fields that a failed forget left behind
  faulty,   \* history: has a call failed, a field lapsed, a client been lost
  acts      \* what MaxActs bounds, so far

presenceVars == <<hidden, members, hash, conn, inbox, strays, faulty, acts>>

Nowhere == "nowhere"
Fields  == {"absent", "active", "idle", "expired"}
Fresh   == {"active", "idle"}
Steps   == {"ready", "forget", "depart", "join", "write", "tell",
            "sweep", "gone", "lost"}

\* `goto` is where a departing connection goes on to; `told` the idle flag of
\* the last broadcast; `seen` and `stale` what a roster read found, `shown` the
\* roster on the client's screen, by user.
Rosters   == [Users -> {"absent", "active", "idle"}]
Empty     == [u \in Users |-> "absent"]
Consumers ==
  [pc : Steps, page : Pages \cup {Nowhere}, goto : Pages \cup {Nowhere, "end"},
   visible : BOOLEAN, idle : BOOLEAN, told : BOOLEAN, tell : BOOLEAN,
   seen : Rosters, stale : SUBSET Conns, shown : Rosters]

Connected == [pc |-> "ready", page |-> Nowhere, goto |-> Nowhere,
              visible |-> FALSE, idle |-> FALSE, told |-> FALSE, tell |-> FALSE,
              seen |-> Empty, stale |-> {}, shown |-> Empty]

PresenceTypeOK ==
  /\ hidden \subseteq Users /\ members \subseteq Users \X Tenants
  /\ hash \in [Pages -> [Conns -> Fields]]
  /\ conn \in [Conns -> Consumers]
  /\ inbox \in [Conns -> SUBSET Pages]
  /\ strays \subseteq Pages \X Conns
  /\ faulty \in BOOLEAN /\ acts \in 0..MaxActs

At(c, p)      == conn[c].pc = p
Allowed(u, p) == p \in Tenants => <<u, p>> \in members

\* One more act, or one more fault.
Act     == acts < MaxActs /\ acts' = acts + 1 /\ UNCHANGED faulty
Mishap  == acts < MaxActs /\ acts' = acts + 1 /\ faulty' = TRUE
NoFault == UNCHANGED <<faulty, acts>>

\* group_send reaches every connection that has joined the page's group.
Group(p) == {c \in Conns : conn[c].page = p}
Send(p)  == inbox' = [c \in Conns |-> inbox[c] \cup (IF c \in Group(p) THEN {p} ELSE {})]

-----------------------------------------------------------------------------
(* Frames *)

\* Where an enter of page p sends the connection next: out of the group it is
\* in when the key is rejected or another one, straight to the page otherwise.
Accepted(c, p) == p # Nowhere /\ Allowed(UserOf[c], p)

Route(c, p) ==
  IF Accepted(c, p)
    THEN IF conn[c].page \in {Nowhere, p} THEN "join" ELSE "forget"
    ELSE IF conn[c].page = Nowhere THEN "ready" ELSE "forget"

Enter(c, p) ==
  /\ At(c, "ready")
  /\ Act
  /\ conn' = [conn EXCEPT ![c].pc = Route(c, p),
                          ![c].goto = IF Route(c, p) # "ready" /\ Accepted(c, p)
                                        THEN p ELSE Nowhere]
  /\ UNCHANGED <<hidden, members, hash, inbox, strays>>

\* _leave_current forgets a connection that was listed, before the group is told.
MustForget(c) == conn[c].visible

Forgotten(c) == [hash EXCEPT ![conn[c].page][c] = "absent"]

\* An hdel of c's own field, that may fail.
Hdel(c) ==
  \/ /\ hash' = Forgotten(c)
     /\ strays' = strays \ {<<conn[c].page, c>>}
     /\ NoFault
  \/ /\ Mishap
     /\ strays' = strays \cup {<<conn[c].page, c>>}
     /\ UNCHANGED hash

Forget(c) ==
  /\ At(c, "forget")
  /\ IF MustForget(c) THEN Hdel(c) ELSE UNCHANGED <<hash, strays, faulty, acts>>
  /\ conn' = [conn EXCEPT ![c].pc = "depart"]
  /\ UNCHANGED <<hidden, members, inbox>>

\* An enter of the page the connection is on already is not broadcast.
OnToldOnce(c, p) ==
  IF conn[c].page = p
    THEN [conn[c] EXCEPT !.pc = "write", !.tell = FALSE, !.visible = UserOf[c] \notin hidden]
    ELSE [Connected EXCEPT !.pc = "write", !.tell = TRUE, !.page = p,
                           !.visible = UserOf[c] \notin hidden]

\* On page p from now on: a new page starts out not idle, and visibility is
\* read again on every enter.
On(c, p) ==
  IF conn[c].page = p
    THEN [conn[c] EXCEPT !.pc = "write", !.tell = TRUE, !.visible = UserOf[c] \notin hidden]
    ELSE [Connected EXCEPT !.pc = "write", !.tell = TRUE, !.page = p,
                           !.visible = UserOf[c] \notin hidden]

\* Out of the group: the others are told; then on to the next page, if any.
Depart(c) ==
  /\ At(c, "depart")
  /\ conn' = [conn EXCEPT ![c] =
       IF conn[c].goto \in Pages THEN On(c, conn[c].goto)
       ELSE [Connected EXCEPT !.pc = IF conn[c].goto = "end" THEN "gone" ELSE "ready"]]
  /\ inbox' = [d \in Conns |->
       IF d \in Group(conn[c].page) \ {c} THEN inbox[d] \cup {conn[c].page}
       ELSE IF d = c /\ conn[c].goto = "end" THEN {} ELSE inbox[d]]
  /\ UNCHANGED <<hidden, members, hash, strays, faulty, acts>>

Join(c) ==
  /\ At(c, "join")
  /\ conn' = [conn EXCEPT ![c] = On(c, conn[c].goto)]
  /\ UNCHANGED <<hidden, members, hash, inbox, strays, faulty, acts>>

\* _write: an opted-out connection removes its field instead of touching it.
Touch(c) ==
  \/ /\ hash' = [hash EXCEPT ![conn[c].page][c] =
                   IF conn[c].idle THEN "idle" ELSE "active"]
     /\ UNCHANGED <<strays, faulty, acts>>
  \/ /\ Mishap
     /\ UNCHANGED <<hash, strays>>

PutSkipsHidden(c) == IF conn[c].visible THEN Touch(c) ELSE UNCHANGED <<hash, strays, faulty, acts>>
Put(c) == IF conn[c].visible THEN Touch(c) ELSE Hdel(c)

Write(c) ==
  /\ At(c, "write")
  /\ Put(c)
  /\ conn' = [conn EXCEPT ![c].pc = IF conn[c].tell THEN "tell" ELSE "ready"]
  /\ UNCHANGED <<hidden, members, inbox>>

Broadcast(c) ==
  /\ At(c, "tell")
  /\ Send(conn[c].page)
  /\ conn' = [conn EXCEPT ![c].pc = "ready"]
  /\ UNCHANGED <<hidden, members, hash, strays, faulty, acts>>

\* A keepalive rewrites the field; only an idle transition is broadcast.
BeatOnChange(c, i) == [conn EXCEPT ![c].pc = IF i # conn[c].told THEN "write" ELSE "ready",
                                   ![c].idle = i, ![c].tell = i # conn[c].told,
                                   ![c].told = i]
Beat(c, i) == [conn EXCEPT ![c].pc = "write", ![c].idle = i,
                           ![c].tell = i # conn[c].told, ![c].told = i]

OnHeartbeat(c, i) ==
  /\ At(c, "ready") /\ conn[c].page # Nowhere
  /\ conn' = Beat(c, i)
  /\ \/ i = conn[c].idle /\ NoFault
     \/ i # conn[c].idle /\ Act
  /\ UNCHANGED <<hidden, members, hash, inbox, strays>>

\* The socket closes in an orderly way.
Disconnect(c) ==
  /\ At(c, "ready")
  /\ conn' = IF conn[c].page = Nowhere
               THEN [conn EXCEPT ![c] = [Connected EXCEPT !.pc = "gone"]]
               ELSE [conn EXCEPT ![c].pc = "forget", ![c].goto = "end"]
  /\ inbox' = IF conn[c].page = Nowhere THEN [inbox EXCEPT ![c] = {}] ELSE inbox
  /\ UNCHANGED <<hidden, members, hash, strays, faulty, acts>>

-----------------------------------------------------------------------------
(* roster_changed *)

\* roster(): users of the fresh fields; idle only if all their fields are.
FreshOf(p, u) == {c \in Conns : UserOf[c] = u /\ hash[p][c] \in Fresh}
Viewers(p) == [u \in Users |->
  CASE FreshOf(p, u) = {}                               -> "absent"
    [] \E c \in FreshOf(p, u) : hash[p][c] = "active"    -> "active"
    [] OTHER                                            -> "idle"]
Stale(p) == {c \in Conns : hash[p][c] = "expired"}

RosterChanged(c, p) ==
  /\ At(c, "ready") /\ p \in inbox[c]
  /\ inbox' = [inbox EXCEPT ![c] = @ \ {p}]
  /\ \/ /\ p # conn[c].page
        /\ UNCHANGED conn /\ NoFault
     \/ /\ p = conn[c].page
        /\ conn' = IF Stale(p) = {}
                     THEN [conn EXCEPT ![c].shown = Viewers(p)]
                     ELSE [conn EXCEPT ![c].pc = "sweep", ![c].seen = Viewers(p),
                                       ![c].stale = Stale(p)]
        /\ NoFault
     \/ /\ p = conn[c].page /\ Mishap
        /\ conn' = [conn EXCEPT ![c].shown = Empty]
  /\ UNCHANGED <<hidden, members, hash, strays>>

\* The fields found expired are deleted, whatever they hold by now.
Sweep(c) ==
  /\ At(c, "sweep")
  /\ \/ /\ hash' = [hash EXCEPT ![conn[c].page] =
                      [d \in Conns |-> IF d \in conn[c].stale THEN "absent" ELSE @[d]]]
        /\ strays' = strays \ ({conn[c].page} \X conn[c].stale)
        /\ conn' = [conn EXCEPT ![c].pc = "ready", ![c].shown = conn[c].seen,
                                ![c].seen = Empty, ![c].stale = {}]
        /\ NoFault
     \/ /\ Mishap
        /\ conn' = [conn EXCEPT ![c].pc = "ready", ![c].shown = Empty,
                                ![c].seen = Empty, ![c].stale = {}]
        /\ UNCHANGED <<hash, strays>>
  /\ UNCHANGED <<hidden, members, inbox>>

-----------------------------------------------------------------------------
(* The environment *)

\* A connection disappears without a disconnect (a deploy, a dead host).
Vanish(c) ==
  /\ conn[c].pc \notin {"gone", "lost"} /\ Mishap
  /\ conn' = [conn EXCEPT ![c] = [Connected EXCEPT !.pc = "lost"]]
  /\ inbox' = [inbox EXCEPT ![c] = {}]
  /\ UNCHANGED <<hidden, members, hash, strays>>

\* 60 s without a touch: a fault while the client beats every 20 s, certain
\* once it does not.
Unattended(p, c) == conn[c].page # p

Lapse(p, c) ==
  /\ hash[p][c] \in Fresh
  /\ hash' = [hash EXCEPT ![p][c] = "expired"]
  /\ strays' = strays \ {<<p, c>>}
  /\ IF Unattended(p, c) THEN NoFault ELSE Mishap
  /\ UNCHANGED <<hidden, members, conn, inbox>>

\* The key's own 120 s TTL: no field of it can be fresh.
KeyExpires(p) ==
  /\ Stale(p) # {} /\ \A c \in Conns : hash[p][c] \notin Fresh
  /\ hash' = [hash EXCEPT ![p] = [c \in Conns |-> "absent"]]
  /\ UNCHANGED <<hidden, members, conn, inbox, strays, faulty, acts>>

SetPreference(u) ==
  /\ Act
  /\ hidden' = IF u \in hidden THEN hidden \ {u} ELSE hidden \cup {u}
  /\ UNCHANGED <<members, hash, conn, inbox, strays>>

Revoke(u, p) ==
  /\ Act
  /\ <<u, p>> \in members
  /\ members' = members \ {<<u, p>>}
  /\ UNCHANGED <<hidden, hash, conn, inbox, strays>>

-----------------------------------------------------------------------------
PresenceInit ==
  /\ hidden = {} /\ members = Users \X Tenants
  /\ hash = [p \in Pages |-> [c \in Conns |-> "absent"]]
  /\ conn = [c \in Conns |-> Connected]
  /\ inbox = [c \in Conns |-> {}]
  /\ strays = {} /\ faulty = FALSE /\ acts = 0

Consumer(c) ==
  \/ Forget(c) \/ Depart(c) \/ Join(c) \/ Write(c) \/ Broadcast(c) \/ Sweep(c)
  \/ \E p \in Pages : RosterChanged(c, p)

PresenceNext ==
  \/ \E c \in Conns : Consumer(c) \/ Disconnect(c) \/ Vanish(c)
  \/ \E c \in Conns, p \in Pages \cup {Nowhere} : Enter(c, p)
  \/ \E c \in Conns, i \in BOOLEAN : OnHeartbeat(c, i)
  \/ \E p \in Pages, c \in Conns : Lapse(p, c)
  \/ \E p \in Pages : KeyExpires(p)
  \/ \E u \in Users : SetPreference(u) \/ \E p \in Tenants : Revoke(u, p)

\* The event loop runs every consumer, and a client on a page beats.
Fairness == \A c \in Conns :
  /\ WF_presenceVars(Consumer(c)) /\ WF_presenceVars(\E i \in BOOLEAN : OnHeartbeat(c, i))

PresenceSpec == PresenceInit /\ [][PresenceNext]_presenceVars /\ Fairness

-----------------------------------------------------------------------------
(* Properties *)

\* A field is fresh only on the page its connection is on, and only while the
\* user had agreed to be shown when that page was entered: the departure and
\* the opt-out each take the field away before anybody is told.  A field that
\* outlives them is one whose removal failed, or whose connection was lost.
NoGhosts == \A p \in Pages, c \in Conns :
  hash[p][c] \in Fresh =>
    \/ conn[c].page = p /\ (conn[c].visible \/ conn[c].pc = "write")
    \/ <<p, c>> \in strays
    \/ conn[c].pc = "lost"

\* When every message has been handled and nothing lapsed, failed or was lost,
\* every screen shows the viewers there are, idle flags included: no order of
\* enters, departures and heartbeats leaves an old roster on anybody's screen.
Quiet == \A c \in Conns : inbox[c] = {} /\ conn[c].pc \in {"ready", "gone"}

ScreensAgree == (Quiet /\ ~faulty) =>
  \A c \in Conns : conn[c].page # Nowhere =>
    conn[c].shown = [u \in Users |->
      LET here == {d \in Conns : UserOf[d] = u /\ conn[d].page = conn[c].page
                                   /\ conn[d].visible}
      IN CASE here = {} -> "absent"
           [] \E d \in here : ~conn[d].idle -> "active"
           [] OTHER -> "idle"]

\* A visible connection whose field lapsed, failed to be written, or was swept
\* away by a reader that saw the expired one (the race store.roster names) is
\* listed again, or leaves the page.
Missing(c) ==
  /\ conn[c].page # Nowhere /\ conn[c].visible
  /\ hash[conn[c].page][c] \notin Fresh

SelfHeals == \A c \in Conns : Missing(c) ~> ~Missing(c)

=============================================================================
