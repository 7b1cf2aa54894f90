-------------------------- MODULE FriendPanelProofs --------------------------
(***************************************************************************)
(* Proof that the friends and requests a tab shows are up to date when     *)
(* nothing is under way, for any number of users, of calls that overtake   *)
(* each other and of changes.                                              *)
(***************************************************************************)
EXTENDS FriendPanel, TLAPS

Both == {"list", "requests"}
Fetching == {"fetchFriends", "fetchFriendRequests", "refresh"}
Events ==
    {Social} \cup [type : {"presence"}, from : Others, online : BOOLEAN, version : Versions]
Calls ==
    [do : Clicks \cup Fetching \cup {"idle"}, other : Others \cup {None},
     list : {None, Failed} \cup ListPayloads, requests : {None, Failed} \cup RequestPayloads]

\* A call that is over is forgotten, and one that a click made names somebody.
WellMade(k) == (k.do = "idle" => k = Idle) /\ (k.do \in Clicks => k.other \in Others)

\* A call whose answer for part x is given, and will be shown.
Awaits(s, x) == slot[s].do \in Fetching /\ x \in Parts(slot[s].do)
Holds(s, x) == Awaits(s, x) /\ slot[s][x] \notin {None, Failed}

Types ==
    /\ TypeOK
    /\ wire \in Seq(Events)
    /\ slot \in [Slots -> Calls]
    /\ shown \in [list : Nat, requests : Nat]
    /\ seen \in [list : Nat, requests : Nat]
    /\ overtaken \in [list : Nat, requests : Nat]
    /\ \A s \in Slots : WellMade(slot[s])
    /\ \A s \in Slots, x \in Both : Holds(s, x) => slot[s][x].version <= version

Presence(i) == i \in DOMAIN wire /\ wire[i].type = "presence"
About(i, o) == Presence(i) /\ wire[i].from = o

\* Events about presence arrive in the order of the changes, and the last about
\* a user says what is true.
WireInv ==
    /\ ~up => wire = <<>>
    /\ \A i, j \in DOMAIN wire :
           Presence(i) /\ Presence(j) /\ i < j => wire[i].version < wire[j].version
    /\ \A i \in DOMAIN wire : Presence(i) => wire[i].version <= version
    /\ \A o \in Others : \A i \in DOMAIN wire :
           About(i, o) => \/ wire[i].online = (o \in online)
                          \/ \E j \in DOMAIN wire : i < j /\ About(j, o)

\* Part x as it was at version v is behind, and it shows: news of it were missed,
\* or the tab is about to ask, has asked, or has an answer that is newer.
Behind(x, v) ==
    /\ v < version
    /\ \/ v < missed
       \/ \E i \in DOMAIN wire : wire[i].type = "social_event"
       \/ \E s \in Slots : /\ Awaits(s, x)
                           /\ slot[s][x] \in {None, Failed} \/ v < slot[s][x].version

\* The friends as of version v are right, or will be when the events about
\* presence have arrived that are newer.
RightFriends(names, v) ==
    \A o \in Others :
        /\ names[o] = "absent" <=> relation[o] # "friend"
        /\ \/ names[o] = "absent"
           \/ names[o] = "online" <=> o \in online
           \/ \E i \in DOMAIN wire : About(i, o) /\ v < wire[i].version

RightRequests(names) == names = FriendRequestPayload.names

PanelInv ==
    /\ \/ shown.list < overtaken.list
       \/ Behind("list", shown.list)
       \/ RightFriends(friends, shown.list)
    /\ \/ shown.requests < overtaken.requests
       \/ Behind("requests", shown.requests)
       \/ RightRequests(pendings)

\* An answer that is to be shown is right, or it will be known to be late.
AnswersInv ==
    \A s \in Slots :
        /\ Holds(s, "list") => LET p == slot[s].list
                               IN  \/ p.version < seen.list
                                   \/ Behind("list", p.version)
                                   \/ RightFriends(p.names, p.version)
        /\ Holds(s, "requests") => LET p == slot[s].requests
                                   IN  \/ p.version < seen.requests
                                       \/ Behind("requests", p.version)
                                       \/ RightRequests(p.names)

IInv == Types /\ WireInv /\ PanelInv /\ AnswersInv

----------------------------------------------------------------------------
(* What the operators return. *)

LEMMA PartsOf ==
    /\ Parts("refresh") = Both
    /\ Parts("fetchFriends") = {"list"}
    /\ Parts("fetchFriendRequests") = {"requests"}
  BY DEF Parts, Both

LEMMA NewCalls ==
    ASSUME NEW do \in Clicks \cup Fetching
    PROVE  /\ Idle \in Calls
           /\ Idle.do = "idle" /\ Idle.list = None /\ Idle.requests = None
           /\ Fetch(do) \in Calls
           /\ Fetch(do).do = do
           /\ Fetch(do).list = None /\ Fetch(do).requests = None
           /\ \A o \in Others : /\ [Fetch(do) EXCEPT !.other = o] \in Calls
                                /\ [Fetch(do) EXCEPT !.other = o].do = do
  BY DEF Idle, Fetch, Calls, Clicks, Fetching

LEMMA Payloads ==
    ASSUME TypeOK
    PROVE  /\ FriendPayload \in ListPayloads
           /\ FriendRequestPayload \in RequestPayloads
           /\ FriendPayload.version = version
           /\ FriendRequestPayload.version = version
           /\ RightFriends(FriendPayload.names, version)
           /\ RightRequests(FriendRequestPayload.names)
<1>1. /\ FriendPayload.version = version
      /\ FriendRequestPayload.version = version
      /\ RightRequests(FriendRequestPayload.names)
  BY DEF FriendPayload, FriendRequestPayload, RightRequests
<1>2. FriendPayload \in ListPayloads
  BY DEF FriendPayload, ListPayloads, TypeOK
<1>3. FriendRequestPayload \in RequestPayloads
  BY DEF FriendRequestPayload, RequestPayloads, TypeOK
<1>4. RightFriends(FriendPayload.names, version)
  BY DEF FriendPayload, RightFriends
<1> QED
  BY <1>1, <1>2, <1>3, <1>4

LEMMA InitIInv == Init => IInv
<1> SUFFICES ASSUME Init PROVE IInv
  OBVIOUS
<1> DEFINE first == {Idle, Fetch("fetchFriends"), Fetch("fetchFriendRequests")}
<1>1. slot \in [Slots -> first] /\ \E s \in Slots : slot[s].do = "fetchFriends"
  <2>1. PICK f \in [Slots -> first] :
           slot = f /\ \E s \in Slots : \A t \in Slots : f[t].do = "fetchFriends" <=> t = s
    BY DEF Init
  <2> QED
    BY <2>1
<1>2. PICK q \in Slots : slot[q].do = "fetchFriendRequests"
  BY DEF Init
<1>8. PICK r \in Slots : slot[r].do = "fetchFriends"
  BY <1>1
<1>3. \A s \in Slots : slot[s] \in Calls /\ slot[s].list = None /\ slot[s].requests = None
                       /\ WellMade(slot[s])
  <2>1. "fetchFriends" \in Fetching /\ "fetchFriendRequests" \in Fetching
    BY DEF Fetching
  <2>2. \A k \in {Idle, Fetch("fetchFriends"), Fetch("fetchFriendRequests")} :
          k \in Calls /\ k.list = None /\ k.requests = None /\ WellMade(k)
    BY <2>1, NewCalls DEF WellMade, Clicks, Fetching
  <2> QED
    BY <1>1, <2>2
<1>4. Types
  <2>1. version \in Versions /\ version = 1
    BY BoundAssumption DEF Init, Versions
  <2>2. /\ slot \in [Slots -> Calls]
        /\ \A s \in Slots, x \in Both : ~Holds(s, x)
    BY <1>1, <1>3 DEF Holds, Both
  <2>3. /\ shown \in [list : Nat, requests : Nat]
        /\ seen \in [list : Nat, requests : Nat]
        /\ overtaken \in [list : Nat, requests : Nat]
        /\ \A x \in Both :
             shown[x] <= seen[x] /\ seen[x] <= version /\ overtaken[x] <= seen[x]
    BY <2>1 DEF Init, Both
  <2>4. /\ \A s \in Slots :
             /\ slot[s].do \in Clicks \cup {"idle", "fetchFriends", "fetchFriendRequests", "refresh"}
             /\ slot[s].other \in Others \cup {None}
             /\ slot[s].list \in {None, Failed} \cup ListPayloads
             /\ slot[s].requests \in {None, Failed} \cup RequestPayloads
    BY <2>2 DEF Calls, Fetching
  <2>5. /\ relation \in [Others -> {"none", "incoming", "outgoing", "friend"}]
        /\ friends \in [Others -> {"absent", "online", "offline"}]
        /\ pendings \in [incoming : SUBSET Others, outgoing : SUBSET Others]
    BY DEF Init
  <2>6. /\ online \subseteq Others /\ up \in BOOLEAN
        /\ missed \in 0..version /\ losses \in 0..MaxLosses
        /\ wire \in Seq(Events) /\ DOMAIN wire = {}
    <3>1. wire = <<>> /\ version = 1 /\ missed = 0 /\ losses = 0 /\ up = FALSE /\ online \subseteq Others
      BY DEF Init
    <3>2. up \in BOOLEAN
      BY <3>1
    <3>3. wire \in Seq(Events) /\ DOMAIN wire = {}
      BY <3>1
    <3>4. missed \in 0..version /\ losses \in 0..MaxLosses
      BY <3>1, BoundAssumption
    <3> QED
      BY <3>1, <3>2, <3>3, <3>4
  <2> QED
    <3>1. TypeOK
      BY <1>3, <2>1, <2>3, <2>4, <2>5, <2>6 DEF TypeOK, Both, WellMade
    <3> QED
      BY <1>3, <3>1, <2>2, <2>3, <2>6 DEF Types
<1>5. Awaits(r, "list") /\ Awaits(q, "requests")
  BY <1>8, <1>2, PartsOf DEF Awaits, Fetching
<1>6. Behind("list", shown.list) /\ Behind("requests", shown.requests)
  BY <1>3, <1>5 DEF Behind, Init
<1>7. \A s \in Slots, x \in Both : ~Holds(s, x)
  BY <1>3 DEF Holds, Both
<1> QED
  BY <1>4, <1>6, <1>7 DEF IInv, WireInv, PanelInv, AnswersInv, Init, Both

----------------------------------------------------------------------------
(* What the types say of the state. *)

LEMMA TypeFacts ==
    ASSUME Types
    PROVE  /\ version \in Nat /\ version <= MaxVersion /\ 1 <= version
           /\ missed \in Nat /\ missed <= version
           /\ shown.list \in Nat /\ shown.list <= seen.list /\ seen.list <= version
           /\ shown.requests \in Nat /\ shown.requests <= seen.requests
           /\ seen.requests <= version
           /\ seen.list \in Nat /\ seen.requests \in Nat
           /\ overtaken.list \in Nat /\ overtaken.requests \in Nat
           /\ Len(wire) \in Nat /\ DOMAIN wire = 1..Len(wire)
           /\ \A i \in DOMAIN wire : wire[i] \in Events
  BY BoundAssumption DEF Types, TypeOK, Versions

LEMMA HeldFacts ==
    ASSUME Types, NEW s \in Slots
    PROVE  /\ Holds(s, "list") => /\ slot[s].list \in ListPayloads
                                  /\ slot[s].list.version \in Nat
                                  /\ slot[s].list.version <= version
           /\ Holds(s, "requests") => /\ slot[s].requests \in RequestPayloads
                                      /\ slot[s].requests.version \in Nat
                                      /\ slot[s].requests.version <= version
<1>1. slot[s] \in Calls
  BY DEF Types
<1>2. /\ Holds(s, "list") => slot[s].list \in ListPayloads
      /\ Holds(s, "requests") => slot[s].requests \in RequestPayloads
  BY <1>1 DEF Holds, Calls
<1>3. /\ \A p \in ListPayloads : p.version \in Nat
      /\ \A p \in RequestPayloads : p.version \in Nat
  BY BoundAssumption DEF ListPayloads, RequestPayloads, Versions
<1> QED
  BY <1>2, <1>3 DEF Types, Both

LEMMA EventFacts ==
    ASSUME NEW e \in Events
    PROVE  /\ e.type \in {"social_event", "presence"}
           /\ e.type = "presence" => /\ e.from \in Others /\ e.online \in BOOLEAN
                                     /\ e.version \in Nat
  BY BoundAssumption DEF Events, Social, Versions

\* A step that changes calls only keeps the types if the calls have theirs.
LEMMA CallsKeepTypes ==
    ASSUME Types, slot' \in [Slots -> Calls], losses' \in 0..MaxLosses,
           \A s \in Slots : WellMade(slot'[s]),
           \A s \in Slots, x \in Both : Holds(s, x)' => slot'[s][x].version <= version,
           UNCHANGED <<server, up, wire, panel, missed>>
    PROVE  Types'
<1>1. TypeOK'
  <2>1. \A s \in Slots :
           /\ slot'[s].do \in Clicks \cup {"idle", "fetchFriends", "fetchFriendRequests", "refresh"}
           /\ slot'[s].other \in Others \cup {None}
           /\ slot'[s].list \in {None, Failed} \cup ListPayloads
           /\ slot'[s].requests \in {None, Failed} \cup RequestPayloads
    BY DEF Calls, Fetching
  <2> QED
    BY <2>1 DEF Types, TypeOK, server, panel, WellMade
<1> QED
  BY <1>1 DEF Types, server, panel

----------------------------------------------------------------------------
(* The server changes something. *)

\* A change of what is shown leaves everything that was shown behind.
LEMMA ChangeShows ==
    ASSUME Types, NEW o \in Others, NEW new, Becomes(o, new), UNCHANGED up,
           NEW x \in Both, NEW v \in Nat, v <= version
    PROVE  Behind(x, v)'
<1>1. version \in Nat /\ version' = version + 1 /\ v < version'
  BY TypeFacts DEF Becomes
<1>2. CASE up
  <2>1. wire' = Append(wire, Social)
    BY <1>2 DEF Becomes, Publish
  <2>2. /\ Len(wire) + 1 \in DOMAIN wire'
        /\ wire'[Len(wire) + 1].type = "social_event"
    BY <2>1, TypeFacts DEF Social, Types
  <2> QED
    BY <1>1, <2>2 DEF Behind
<1>3. CASE ~up
  BY <1>1, <1>3 DEF Becomes, Publish, Behind
<1> QED
  BY <1>2, <1>3

LEMMA BecomesKeeps ==
    ASSUME IInv, NEW o \in Others, NEW new \in {"none", "incoming", "outgoing", "friend"},
           Becomes(o, new), UNCHANGED <<up, panel>>, losses' \in 0..MaxLosses,
           slot' \in [Slots -> Calls],
           \A s \in Slots : WellMade(slot'[s]),
           \A s \in Slots, x \in Both : Holds(s, x)' => Holds(s, x) /\ slot'[s] = slot[s]
    PROVE  IInv'
<1> USE DEF IInv
<1>1. version' = version + 1 /\ version' \in Versions /\ version \in Nat
  BY TypeFacts, BoundAssumption DEF Becomes, Versions
<1>2. Types'
  <2>1. \A s \in Slots :
           /\ slot'[s].do \in Clicks \cup {"idle", "fetchFriends", "fetchFriendRequests", "refresh"}
           /\ slot'[s].other \in Others \cup {None}
           /\ slot'[s].list \in {None, Failed} \cup ListPayloads
           /\ slot'[s].requests \in {None, Failed} \cup RequestPayloads
    BY DEF Calls, Fetching
  <2>2. wire' \in Seq(Events)
    <3>1. Social \in Events /\ wire \in Seq(Events)
      BY DEF Events, Types
    <3>2. wire' = wire \/ wire' = Append(wire, Social)
      BY DEF Becomes, Publish
    <3> QED
      BY <3>1, <3>2
  <2>3. \A i \in DOMAIN wire' : wire'[i].type \in {"social_event", "presence"}
    BY <2>2, EventFacts
  <2>4. missed' \in 0..version'
    BY <1>1, TypeFacts DEF Becomes, Publish
  <2>5. relation' \in [Others -> {"none", "incoming", "outgoing", "friend"}]
    BY DEF Becomes, Types, TypeOK
  <2>6. TypeOK'
    BY <1>1, <2>1, <2>3, <2>4, <2>5, TypeFacts DEF Types, TypeOK, Becomes, panel, WellMade
  <2> QED
    BY <1>1, <2>2, <2>6, HeldFacts DEF Types, Becomes, panel, Both
<1>3. WireInv'
  <2>1. CASE up
    <3>1. wire' = Append(wire, Social) /\ online' = online /\ Social.type # "presence"
      BY <2>1 DEF Becomes, Publish, Social
    <3>2. /\ DOMAIN wire' = 1..(Len(wire) + 1) /\ Len(wire) \in Nat
          /\ \A i \in DOMAIN wire : i \in DOMAIN wire' /\ wire'[i] = wire[i]
          /\ wire'[Len(wire) + 1] = Social
          /\ \A i \in DOMAIN wire' : i \in DOMAIN wire \/ i = Len(wire) + 1
      BY <3>1, TypeFacts DEF Types
    <3>3. \A i \in DOMAIN wire' : Presence(i)' => Presence(i) /\ i \in DOMAIN wire
      BY <3>1, <3>2 DEF Presence
    <3>4. \A i \in DOMAIN wire : \A p \in Others : About(i, p) <=> About(i, p)'
      BY <3>1, <3>2 DEF About, Presence
    <3>5. \A i \in DOMAIN wire : Presence(i) => wire[i].version \in Nat
      BY EventFacts, TypeFacts DEF Presence
    <3>6. \A p \in Others : \A i \in DOMAIN wire' : About(i, p)' => i \in DOMAIN wire
      BY <3>3 DEF About
    <3> QED
      BY <1>1, <2>1, <3>1, <3>2, <3>3, <3>4, <3>5, <3>6 DEF WireInv
  <2>2. CASE ~up
    <3>1. wire' = <<>> /\ DOMAIN wire' = {}
      BY <2>2 DEF Becomes, Publish, WireInv
    <3> QED
      BY <3>1 DEF WireInv
  <2> QED
    BY <2>1, <2>2
<1>4. PanelInv'
  <2>1. Behind("list", shown.list)' /\ Behind("requests", shown.requests)'
    <3>1. \A x \in Both : \A v \in Nat : v <= version => Behind(x, v)'
      BY ChangeShows
    <3>2. PICK l, r : l = shown.list /\ r = shown.requests
      OBVIOUS
    <3>3. l \in Nat /\ l <= version /\ r \in Nat /\ r <= version
      BY <3>2, TypeFacts
    <3>4. Behind("list", l)' /\ Behind("requests", r)'
      BY <3>1, <3>3 DEF Both
    <3>5. shown'.list = l /\ shown'.requests = r
      BY <3>2 DEF panel
    <3> QED
      BY <3>4, <3>5
  <2> QED
    BY <2>1 DEF PanelInv
<1>5. AnswersInv'
  <2>1. \A x \in Both : \A v \in Nat : v <= version => Behind(x, v)'
    BY ChangeShows
  <2> QED
    BY <2>1, HeldFacts DEF AnswersInv, Both, Behind
<1> QED
  BY <1>2, <1>3, <1>4, <1>5

LEMMA OtherActsKeeps ==
    ASSUME IInv, NEW o \in Others, OtherActs(o)
    PROVE  IInv'
<1>1. PICK new \in {"incoming", "friend", "none"} : Becomes(o, new)
  BY DEF OtherActs
<1>2. /\ UNCHANGED <<up, slot, panel, losses>>
      /\ slot' \in [Slots -> Calls]
      /\ \A s \in Slots : WellMade(slot'[s])
      /\ losses' \in 0..MaxLosses
  BY DEF OtherActs, IInv, Types, TypeOK
<1>3. \A s \in Slots, x \in Both : Holds(s, x)' => Holds(s, x) /\ slot'[s] = slot[s]
  BY <1>2 DEF Holds, Awaits
<1> QED
  BY <1>1, <1>2, <1>3, BecomesKeeps

LEMMA PresenceChangesKeeps ==
    ASSUME IInv, NEW o \in Others, PresenceChanges(o)
    PROVE  IInv'
<1> USE DEF IInv
<1> DEFINE e == [type |-> "presence", from |-> o, online |-> o \in online', version |-> version']
<1>1. /\ version' = version + 1 /\ version' \in Versions /\ version \in Nat
      /\ UNCHANGED <<relation, up, slot, panel, losses>>
  BY TypeFacts, BoundAssumption DEF PresenceChanges, Versions
<1>2. /\ \A p \in Others \ {o} : p \in online' <=> p \in online
      /\ online' \subseteq Others
  BY DEF PresenceChanges, Types, TypeOK
<1>3. (o \in online') \in BOOLEAN
  OBVIOUS
<1>4. /\ e \in Events /\ e.type = "presence" /\ e.from = o /\ e.version = version'
      /\ e.online = (o \in online')
  BY <1>1, <1>3 DEF Events
<1>5. \/ up /\ wire' = Append(wire, e) /\ missed' = missed
      \/ ~up /\ wire' = wire /\ missed' = version'
  BY DEF PresenceChanges, Publish
<1> HIDE DEF e
<1>6. /\ wire \in Seq(Events) /\ wire' \in Seq(Events)
      /\ Len(wire) \in Nat /\ DOMAIN wire = 1..Len(wire)
      /\ \A i \in DOMAIN wire : i \in DOMAIN wire' /\ wire'[i] = wire[i]
  <2>1. wire \in Seq(Events) /\ Len(wire) \in Nat /\ DOMAIN wire = 1..Len(wire)
    BY TypeFacts DEF Types
  <2>2. CASE wire' = wire
    BY <2>1, <2>2
  <2>3. CASE wire' = Append(wire, e)
    BY <1>4, <2>1, <2>3
  <2> QED
    BY <1>5, <2>2, <2>3
<1> PICK n \in Nat : n = Len(wire) + 1
  BY <1>6
<1>7. up => /\ DOMAIN wire' = 1..n
            /\ wire'[n] = e
            /\ n \in DOMAIN wire' /\ n \notin DOMAIN wire
            /\ \A i \in DOMAIN wire' : i \in DOMAIN wire \/ i = n
            /\ \A i \in DOMAIN wire : i < n
  BY <1>5, <1>6
<1>8. Types'
  <2>1. \A i \in DOMAIN wire' : wire'[i].type \in {"social_event", "presence"}
    BY <1>6, EventFacts
  <2>2. missed' \in 0..version'
    BY <1>1, <1>5, TypeFacts
  <2>3. TypeOK'
    BY <1>1, <1>2, <2>1, <2>2, TypeFacts DEF Types, TypeOK, panel
  <2>4. \A s \in Slots, x \in Both : Holds(s, x)' => Holds(s, x)
    BY <1>1 DEF Holds, Awaits
  <2> QED
    BY <1>1, <1>6, <2>3, <2>4, HeldFacts DEF Types, panel, Both
<1>9. \A i \in DOMAIN wire : /\ Presence(i) <=> Presence(i)'
                             /\ \A p \in Others : About(i, p) <=> About(i, p)'
  BY <1>6 DEF Presence, About
<1>10. WireInv'
  <2>1. CASE up
    <3>1. \A i \in DOMAIN wire : Presence(i) => wire[i].version \in Nat
                                                /\ wire[i].version <= version
      BY EventFacts, TypeFacts DEF Presence, WireInv
    <3>2. \A i, j \in DOMAIN wire' :
             Presence(i)' /\ Presence(j)' /\ i < j => wire'[i].version < wire'[j].version
      BY <1>1, <1>4, <1>6, <1>7, <1>9, <2>1, <3>1 DEF WireInv
    <3>3. ASSUME NEW i \in DOMAIN wire', Presence(i)' PROVE wire'[i].version <= version'
      <4>1. CASE i = n
        BY <1>1, <1>4, <1>7, <2>1, <4>1
      <4>2. CASE i \in DOMAIN wire
        BY <1>1, <1>6, <1>9, <3>1, <3>3, <4>2
      <4> QED
        BY <1>7, <2>1, <4>1, <4>2
    <3>4. About(n, o)'
      BY <1>4, <1>7, <2>1 DEF About, Presence
    <3>5. ASSUME NEW p \in Others, NEW i \in DOMAIN wire', About(i, p)'
          PROVE  \/ wire'[i].online = (p \in online')
                 \/ \E j \in DOMAIN wire' : i < j /\ About(j, p)'
      <4>1. CASE i = n
        BY <1>4, <1>7, <2>1, <3>5, <4>1 DEF About
      <4>2. CASE i \in DOMAIN wire /\ p = o
        BY <1>7, <2>1, <3>4, <4>2
      <4>3. CASE i \in DOMAIN wire /\ p # o
        <5>1. About(i, p)
          BY <1>9, <3>5, <4>3
        <5>2. (p \in online') = (p \in online)
          BY <1>2, <4>3
        <5> QED
          BY <1>6, <1>9, <4>3, <5>1, <5>2 DEF WireInv
      <4> QED
        BY <1>7, <2>1, <4>1, <4>2, <4>3
    <3> QED
      BY <1>1, <2>1, <3>2, <3>3, <3>5 DEF WireInv
  <2>2. CASE ~up
    <3>1. wire' = <<>> /\ DOMAIN wire' = {}
      BY <1>5, <2>2 DEF WireInv
    <3> QED
      BY <3>1 DEF WireInv
  <2> QED
    BY <2>1, <2>2
<1>11. \A x \in Both : \A v \in Nat : v <= version /\ Behind(x, v) => Behind(x, v)'
  <2>1. \A s \in Slots, x \in Both : Awaits(s, x) <=> Awaits(s, x)'
    BY <1>1 DEF Awaits
  <2> QED
    BY <1>1, <1>5, <1>6, <2>1, TypeFacts DEF Behind
<1>12. \A names : \A v \in Nat :
          v <= version /\ RightFriends(names, v) => RightFriends(names, v)' \/ Behind("list", v)'
  <2> SUFFICES ASSUME NEW names, NEW v \in Nat, v <= version, RightFriends(names, v)
               PROVE  RightFriends(names, v)' \/ Behind("list", v)'
    OBVIOUS
  <2>1. CASE up
    <3>1. About(n, o)' /\ v < wire'[n].version
      BY <1>1, <1>4, <1>7, <2>1 DEF About, Presence
    <3> SUFFICES ASSUME NEW p \in Others
                 PROVE  /\ names[p] = "absent" <=> relation'[p] # "friend"
                        /\ \/ names[p] = "absent"
                           \/ names[p] = "online" <=> p \in online'
                           \/ \E i \in DOMAIN wire' : About(i, p)' /\ v < wire'[i].version
      BY DEF RightFriends
    <3>2. names[p] = "absent" <=> relation'[p] # "friend"
      BY <1>1 DEF RightFriends
    <3>3. CASE p = o
      BY <1>7, <2>1, <3>1, <3>2, <3>3
    <3>4. CASE p # o
      <4>1. (p \in online') <=> p \in online
        BY <1>2, <3>4
      <4>2. (\E i \in DOMAIN wire : About(i, p) /\ v < wire[i].version)
              => \E i \in DOMAIN wire' : About(i, p)' /\ v < wire'[i].version
        BY <1>6, <1>9
      <4> QED
        BY <3>2, <4>1, <4>2 DEF RightFriends
    <3> QED
      BY <3>3, <3>4
  <2>2. CASE ~up
    BY <1>1, <1>5, <2>2 DEF Behind
  <2> QED
    BY <2>1, <2>2
<1>13. \A names : RightRequests(names) => RightRequests(names)'
  BY <1>1 DEF RightRequests, FriendRequestPayload
<1>14. PanelInv'
  BY <1>1, <1>11, <1>12, <1>13, TypeFacts DEF PanelInv, panel, Both
<1>15. AnswersInv'
  <2>1. \A s \in Slots, x \in Both : Holds(s, x)' => Holds(s, x)
    BY <1>1 DEF Holds, Awaits
  <2> QED
    BY <1>1, <1>11, <1>12, <1>13, <2>1, HeldFacts DEF AnswersInv, panel, Both
<1> QED
  BY <1>8, <1>10, <1>14, <1>15

----------------------------------------------------------------------------
(* The socket. *)

LEMMA SocketOpensKeeps ==
    ASSUME IInv, SocketOpens
    PROVE  IInv'
<1>1. UNCHANGED <<server, wire, slot, panel, missed, losses>> /\ up' = TRUE
  BY DEF SocketOpens
<1>2. Types'
  BY <1>1 DEF IInv, Types, TypeOK, server, panel, Holds, Awaits
<1>3. WireInv'
  BY <1>1 DEF IInv, WireInv, server, panel, About, Presence
<1>4. PanelInv' /\ AnswersInv'
  BY <1>1 DEF IInv, PanelInv, AnswersInv, Behind, RightFriends, RightRequests, server,
              panel, About, Presence, Holds, Awaits, FriendRequestPayload
<1> QED
  BY <1>2, <1>3, <1>4 DEF IInv

LEMMA SocketBreaksKeeps ==
    ASSUME IInv, SocketBreaks
    PROVE  IInv'
<1> USE DEF IInv
<1>1. /\ UNCHANGED <<server, slot, panel>> /\ up' = FALSE /\ wire' = <<>>
      /\ losses' \in 0..MaxLosses
      /\ missed' = IF wire = <<>> THEN missed ELSE version
  BY BoundAssumption DEF SocketBreaks, Types, TypeOK
<1>2. wire' \in Seq(Events) /\ DOMAIN wire' = {}
  BY <1>1
<1>3. missed' \in 0..version
  BY <1>1, TypeFacts
<1>4. Types'
  BY <1>1, <1>2, <1>3 DEF Types, TypeOK, server, panel, Holds, Awaits
<1>5. WireInv'
  BY <1>1, <1>2 DEF WireInv
<1>6. ASSUME NEW i \in DOMAIN wire PROVE missed' = version
  BY <1>1, <1>6
<1>7. \A x \in Both : \A v \in Nat : Behind(x, v) => Behind(x, v)'
  BY <1>1, <1>3, <1>6, TypeFacts DEF Behind, Awaits, server
<1>8. \A names : \A v \in Nat :
         RightFriends(names, v) => RightFriends(names, v)' \/ Behind("list", v)'
  <2> SUFFICES ASSUME NEW names, NEW v \in Nat, RightFriends(names, v)
               PROVE  RightFriends(names, v)' \/ Behind("list", v)'
    OBVIOUS
  <2>1. CASE \E i \in DOMAIN wire : Presence(i) /\ v < wire[i].version
    <3>1. PICK i \in DOMAIN wire : Presence(i) /\ v < wire[i].version
      BY <2>1
    <3>2. wire[i].version \in Nat /\ wire[i].version <= version
      BY <3>1, TypeFacts, EventFacts DEF Presence, WireInv
    <3>3. v < version' /\ v < missed'
      BY <1>1, <1>6, <3>1, <3>2, TypeFacts DEF server
    <3> QED
      BY <3>3 DEF Behind
  <2>2. CASE ~\E i \in DOMAIN wire : Presence(i) /\ v < wire[i].version
    BY <1>1, <2>2 DEF RightFriends, About, server
  <2> QED
    BY <2>1, <2>2
<1>9. \A names : RightRequests(names) => RightRequests(names)'
  BY <1>1 DEF RightRequests, FriendRequestPayload, server
<1>10. PanelInv'
  BY <1>1, <1>7, <1>8, <1>9, TypeFacts DEF PanelInv, panel, Both
<1>11. AnswersInv'
  <2>1. \A s \in Slots, x \in Both : Holds(s, x)' => Holds(s, x)
    BY <1>1 DEF Holds, Awaits
  <2> QED
    BY <1>1, <1>7, <1>8, <1>9, <2>1, HeldFacts DEF AnswersInv, panel, Both
<1> QED
  BY <1>4, <1>5, <1>10, <1>11

----------------------------------------------------------------------------
(* Calls are made and answered. *)

\* Call s, which awaits no answer that is shown, ends or becomes another one.
LEMMA FreshCallKeeps ==
    ASSUME IInv, NEW s \in Slots, slot[s].do \notin Fetching, NEW k \in Calls,
           k.list = None, k.requests = None, WellMade(k),
           slot' = [slot EXCEPT ![s] = k], losses' \in 0..MaxLosses,
           UNCHANGED <<server, up, wire, panel, missed>>
    PROVE  IInv'
<1> USE DEF IInv
<1>1. /\ slot' \in [Slots -> Calls]
      /\ slot'[s] = k
      /\ \A t \in Slots \ {s} : slot'[t] = slot[t]
  BY DEF Types
<1>2. \A t \in Slots, x \in Both : Holds(t, x)' => Holds(t, x) /\ slot'[t] = slot[t]
  BY <1>1 DEF Holds, Awaits, Both
<1>3. Types'
  <2>1. \A t \in Slots : WellMade(slot'[t])
    BY <1>1 DEF Types
  <2>2. \A t \in Slots, x \in Both : Holds(t, x)' => slot'[t][x].version <= version
    BY <1>2 DEF Types
  <2> QED
    BY <1>1, <2>1, <2>2, CallsKeepTypes
<1>4. WireInv'
  BY DEF WireInv, About, Presence, server
<1>5. \A x \in Both : \A v \in Nat : Behind(x, v) => Behind(x, v)'
  <2>1. \A t \in Slots, x \in Both : Awaits(t, x) => Awaits(t, x)' /\ slot'[t] = slot[t]
    BY <1>1 DEF Awaits
  <2> QED
    BY <2>1 DEF Behind, server
<1>6. \A names : /\ \A v \in Nat : RightFriends(names, v) => RightFriends(names, v)'
                 /\ RightRequests(names) => RightRequests(names)'
  BY DEF RightFriends, RightRequests, About, Presence, server, FriendRequestPayload
<1>7. PanelInv'
  BY <1>5, <1>6, TypeFacts DEF PanelInv, panel, Both
<1>8. AnswersInv'
  BY <1>2, <1>5, <1>6, HeldFacts DEF AnswersInv, panel, Both
<1> QED
  BY <1>3, <1>4, <1>7, <1>8

LEMMA ClickKeeps ==
    ASSUME IInv, NEW s \in Slots, NEW o \in Others, NEW do \in Clicks, Click(s, do, o)
    PROVE  IInv'
<1> DEFINE k == [Fetch(do) EXCEPT !.other = o]
<1>1. k \in Calls /\ k.do = do /\ k.list = None /\ k.requests = None /\ WellMade(k)
  <2>1. do \in Clicks \cup Fetching
    OBVIOUS
  <2>2. k.list = None /\ k.requests = None /\ k.other = o /\ k.do = do
    BY DEF Fetch, Idle
  <2> QED
    BY <2>1, <2>2, NewCalls DEF WellMade, Clicks
<1>2. slot[s].do \notin Fetching /\ do # "idle"
  BY DEF Click, Idle, Fetching, Clicks
<1>3. slot' = [slot EXCEPT ![s] = k] /\ losses' \in 0..MaxLosses
      /\ UNCHANGED <<server, up, wire, panel, missed>>
  BY DEF Click, IInv, Types, TypeOK
<1> HIDE DEF k
<1> QED
  BY <1>1, <1>2, <1>3, FreshCallKeeps

LEMMA ServeClickKeeps ==
    ASSUME IInv, NEW s \in Slots, ServeClick(s)
    PROVE  IInv'
<1>1. PICK k \in {Idle, Refresh} : slot' = [slot EXCEPT ![s] = k]
  BY DEF ServeClick
<1>2. /\ slot[s].do \in Clicks /\ losses' \in 0..MaxLosses /\ UNCHANGED <<up, panel>>
  BY BoundAssumption DEF ServeClick, Clicks, IInv, Types, TypeOK
<1>3. /\ k \in Calls /\ k.list = None /\ k.requests = None /\ WellMade(k)
  <2>1. "refresh" \in Clicks \cup Fetching
    BY DEF Fetching
  <2> QED
    BY <2>1, NewCalls DEF Refresh, WellMade, Clicks
<1>4. slot[s].do \notin Fetching
  BY <1>2 DEF Clicks, Fetching
<1>8. slot[s].other \in Others
  BY <1>2 DEF IInv, Types, WellMade
<1>5. \/ UNCHANGED <<server, wire, missed>>
      \/ /\ slot[s].other \in Others
         /\ \E new \in {"none", "incoming", "outgoing", "friend"} : Becomes(slot[s].other, new)
  <2>1. relation[slot[s].other] \in {"none", "incoming", "outgoing", "friend"}
    BY <1>8 DEF IInv, Types, TypeOK
  <2> QED
    BY <1>8, <2>1 DEF ServeClick
<1>6. CASE UNCHANGED <<server, wire, missed>>
  BY <1>1, <1>2, <1>3, <1>4, <1>6, FreshCallKeeps
<1>7. CASE /\ slot[s].other \in Others
           /\ \E new \in {"none", "incoming", "outgoing", "friend"} : Becomes(slot[s].other, new)
  <2>1. /\ slot' \in [Slots -> Calls]
        /\ slot'[s] = k
        /\ \A t \in Slots \ {s} : slot'[t] = slot[t]
    BY <1>1, <1>3 DEF IInv, Types
  <2>2. \A t \in Slots, x \in Both : Holds(t, x)' => Holds(t, x) /\ slot'[t] = slot[t]
    BY <1>3, <2>1 DEF Holds, Awaits, Both
  <2>3. \A t \in Slots : WellMade(slot'[t])
    BY <1>3, <2>1 DEF IInv, Types
  <2> QED
    BY <1>2, <1>7, <2>1, <2>2, <2>3, BecomesKeeps
<1> QED
  BY <1>5, <1>6, <1>7

LEMMA AnswerKeeps ==
    ASSUME IInv, NEW s \in Slots, NEW part \in Both, Awaits(s, part), NEW payload,
           \/ part = "list" /\ payload = FriendPayload
           \/ part = "requests" /\ payload = FriendRequestPayload,
           Answer(s, part, payload)
    PROVE  IInv'
<1> USE DEF IInv
<1>1. PICK k \in {payload, Failed} : slot' = [slot EXCEPT ![s][part] = k]
  BY DEF Answer
<1>2. /\ UNCHANGED <<server, up, wire, panel, missed>> /\ losses' \in 0..MaxLosses
      /\ slot[s][part] = None
  BY BoundAssumption DEF Answer, Types, TypeOK
<1>3. payload.version = version
  BY Payloads DEF Types
<1>4. /\ \A t \in Slots \ {s} : slot'[t] = slot[t]
      /\ slot'[s] = [slot[s] EXCEPT ![part] = k]
      /\ slot'[s] \in Calls
      /\ slot'[s][part] = k
      /\ \A x \in Both \ {part} : slot'[s][x] = slot[s][x]
      /\ slot'[s].do = slot[s].do
  <2>1. slot[s] \in Calls
    BY DEF Types
  <2>2. /\ \A t \in Slots \ {s} : slot'[t] = slot[t]
        /\ slot'[s] = [slot[s] EXCEPT ![part] = k]
    BY <1>1 DEF Types
  <2>3. CASE part = "list"
    <3>1. k \in {None, Failed} \cup ListPayloads
      BY <1>1, <2>3, Payloads DEF Types
    <3> QED
      BY <2>1, <2>2, <2>3, <3>1 DEF Calls, Both
  <2>4. CASE part = "requests"
    <3>1. k \in {None, Failed} \cup RequestPayloads
      BY <1>1, <2>4, Payloads DEF Types
    <3> QED
      BY <2>1, <2>2, <2>4, <3>1 DEF Calls, Both
  <2> QED
    BY <2>3, <2>4 DEF Both
<1>5. \A t \in Slots, x \in Both : Awaits(t, x) <=> Awaits(t, x)'
  BY <1>4 DEF Awaits
<1>6. \A t \in Slots, x \in Both : Holds(t, x)' =>
         \/ t = s /\ x = part /\ k = payload
         \/ Holds(t, x) /\ slot'[t][x] = slot[t][x]
  BY <1>1, <1>4, <1>5 DEF Holds
<1>7. Types'
  <2>1. slot' \in [Slots -> Calls]
    BY <1>1, <1>4 DEF Types
  <2>2. \A t \in Slots : WellMade(slot'[t])
    <3>1. slot[s].do \notin Clicks \cup {"idle"}
      BY DEF Awaits, Fetching, Clicks
    <3> QED
      BY <1>4, <3>1 DEF WellMade, Types
  <2>3. ASSUME NEW t \in Slots, NEW x \in Both, Holds(t, x)'
        PROVE  slot'[t][x].version <= version
    <3>1. CASE t = s /\ x = part /\ k = payload
      <4>1. version \in Nat
        BY TypeFacts
      <4>2. slot'[t][x] = payload
        BY <1>4, <3>1
      <4> QED
        BY <1>3, <4>1, <4>2
    <3>2. CASE Holds(t, x) /\ slot'[t][x] = slot[t][x]
      BY <3>2 DEF Types
    <3> QED
      BY <1>6, <2>3, <3>1, <3>2
  <2> QED
    BY <1>2, <2>1, <2>2, <2>3, CallsKeepTypes
<1>8. WireInv'
  BY <1>2 DEF WireInv, About, Presence, server
<1>9. \A x \in Both : \A v \in Nat : Behind(x, v) => Behind(x, v)'
  <2> SUFFICES ASSUME NEW x \in Both, NEW v \in Nat, Behind(x, v) PROVE Behind(x, v)'
    OBVIOUS
  <2>1. ASSUME NEW t \in Slots, Awaits(t, x),
               slot[t][x] \in {None, Failed} \/ v < slot[t][x].version
        PROVE  slot'[t][x] \in {None, Failed} \/ v < slot'[t][x].version
    <3>1. CASE t = s /\ x = part
      BY <1>1, <1>3, <1>4, <3>1 DEF Behind
    <3>2. CASE ~(t = s /\ x = part)
      BY <1>4, <2>1, <3>2
    <3> QED
      BY <3>1, <3>2
  <2> QED
    BY <1>2, <1>5, <2>1 DEF Behind, server
<1>10. \A names : /\ \A v \in Nat : RightFriends(names, v) => RightFriends(names, v)'
                  /\ RightRequests(names) => RightRequests(names)'
  BY <1>2 DEF RightFriends, RightRequests, About, Presence, server, FriendRequestPayload
<1>11. PanelInv'
  BY <1>2, <1>9, <1>10, TypeFacts DEF PanelInv, panel, Both
<1>12. AnswersInv'
  <2>1. /\ RightFriends(FriendPayload.names, version)
        /\ RightRequests(FriendRequestPayload.names)
    BY Payloads DEF Types
  <2>2. ASSUME NEW t \in Slots, NEW p, p = slot'[t].list, Holds(t, "list")'
        PROVE  \/ p.version < seen'.list
               \/ Behind("list", p.version)'
               \/ RightFriends(p.names, p.version)'
    <3>1. CASE t = s /\ "list" = part /\ k = payload
      <4>1. p = FriendPayload /\ p.version = version
        BY <1>3, <1>4, <2>2, <3>1
      <4> QED
        BY <1>10, <2>1, <4>1, TypeFacts
    <3>2. CASE Holds(t, "list") /\ slot'[t].list = slot[t].list
      <4>1. /\ p.version \in Nat
            /\ \/ p.version < seen.list
               \/ Behind("list", p.version)
               \/ RightFriends(p.names, p.version)
        BY <2>2, <3>2, HeldFacts DEF AnswersInv
      <4> QED
        BY <1>2, <1>9, <1>10, <4>1 DEF panel, Both
    <3> QED
      BY <1>6, <2>2, <3>1, <3>2 DEF Both
  <2>3. ASSUME NEW t \in Slots, NEW p, p = slot'[t].requests, Holds(t, "requests")'
        PROVE  \/ p.version < seen'.requests
               \/ Behind("requests", p.version)'
               \/ RightRequests(p.names)'
    <3>1. CASE t = s /\ "requests" = part /\ k = payload
      <4>1. p = FriendRequestPayload
        BY <1>3, <1>4, <2>3, <3>1
      <4> QED
        BY <1>10, <2>1, <4>1, TypeFacts
    <3>2. CASE Holds(t, "requests") /\ slot'[t].requests = slot[t].requests
      <4>1. /\ p.version \in Nat
            /\ \/ p.version < seen.requests
               \/ Behind("requests", p.version)
               \/ RightRequests(p.names)
        BY <2>3, <3>2, HeldFacts DEF AnswersInv
      <4> QED
        BY <1>2, <1>9, <1>10, <4>1 DEF panel, Both
    <3> QED
      BY <1>6, <2>3, <3>1, <3>2 DEF Both
  <2> QED
    BY <2>2, <2>3 DEF AnswersInv
<1> QED
  BY <1>7, <1>8, <1>11, <1>12

LEMMA AnswersKeep ==
    ASSUME IInv, NEW s \in Slots, AnswerFriends(s) \/ AnswerRequests(s)
    PROVE  IInv'
<1>1. CASE AnswerFriends(s)
  <2>1. Awaits(s, "list") /\ Answer(s, "list", FriendPayload) /\ "list" \in Both
    BY <1>1, PartsOf DEF AnswerFriends, Awaits, Fetching, Both
  <2> QED
    BY <2>1, AnswerKeeps
<1>2. CASE AnswerRequests(s)
  <2>1. /\ Awaits(s, "requests") /\ Answer(s, "requests", FriendRequestPayload)
        /\ "requests" \in Both
    BY <1>2, PartsOf DEF AnswerRequests, Awaits, Fetching, Both
  <2> QED
    BY <2>1, AnswerKeeps
<1> QED
  BY <1>1, <1>2

----------------------------------------------------------------------------
(* An answer is shown. *)

LEMMA SettleKeeps ==
    ASSUME IInv, NEW s \in Slots, Settle(s)
    PROVE  IInv'
<1> USE DEF IInv
<1> DEFINE parts == Parts(slot[s].do)
           shows == Shows(s, parts)
<1>1. /\ UNCHANGED <<server, up, wire, losses>>
      /\ slot[s].do \in Fetching
      /\ slot' = [slot EXCEPT ![s] = Idle]
      /\ shows = parts \/ shows = {}
      /\ shows = {} \/ missed' = missed
      /\ parts \subseteq Both /\ parts # {}
      /\ \A x \in parts : slot[s][x] # None
  BY PartsOf DEF Settle, Finish, Fetching, Shows, Both
<1>2. \A x \in Both : x \in shows => Holds(s, x)
  BY <1>1 DEF Shows, Holds, Awaits
<1>3. shows # parts => missed' = version
  BY DEF Settle
<1>4. /\ shown' \in [list : Nat, requests : Nat]
      /\ seen' \in [list : Nat, requests : Nat]
      /\ overtaken' \in [list : Nat, requests : Nat]
      /\ \A x \in Both :
           /\ shown'[x] = IF x \in shows THEN slot[s][x].version ELSE shown[x]
           /\ seen'[x] = Latest(seen[x], shown'[x])
           /\ overtaken'[x] = IF x \in shows /\ slot[s][x].version < seen[x]
                              THEN seen[x] ELSE overtaken[x]
  <2>1. \A x \in Both :
           /\ shown'[x] = IF x \in shows THEN slot[s][x].version ELSE shown[x]
           /\ seen'[x] = Latest(seen[x], shown'[x])
           /\ overtaken'[x] = IF x \in shows /\ slot[s][x].version < seen[x]
                              THEN seen[x] ELSE overtaken[x]
    BY DEF Settle, Both
  <2>2. \A x \in Both : /\ shown[x] \in Nat /\ seen[x] \in Nat /\ overtaken[x] \in Nat
                        /\ x \in shows => slot[s][x].version \in Nat
    BY <1>2, TypeFacts, HeldFacts DEF Both
  <2>3. \A x \in Both : shown'[x] \in Nat /\ seen'[x] \in Nat /\ overtaken'[x] \in Nat
    BY <2>1, <2>2 DEF Latest
  <2>4. /\ shown' = [list |-> shown'["list"], requests |-> shown'["requests"]]
        /\ seen' = [list |-> seen'["list"], requests |-> seen'["requests"]]
        /\ overtaken' = [list |-> overtaken'["list"], requests |-> overtaken'["requests"]]
    BY DEF Settle
  <2> QED
    BY <2>1, <2>3, <2>4 DEF Both
<1>5. \A x \in Both :
        /\ seen[x] <= seen'[x] /\ shown'[x] <= seen'[x] /\ seen'[x] <= version
        /\ overtaken'[x] <= seen'[x]
        /\ x \in shows /\ shown'[x] < seen[x] => shown'[x] < overtaken'[x]
  <2> SUFFICES ASSUME NEW x \in Both
               PROVE  /\ seen[x] <= seen'[x] /\ shown'[x] <= seen'[x] /\ seen'[x] <= version
                      /\ overtaken'[x] <= seen'[x]
                      /\ x \in shows /\ shown'[x] < seen[x] => shown'[x] < overtaken'[x]
    OBVIOUS
  <2>1. /\ shown[x] \in Nat /\ seen[x] \in Nat /\ overtaken[x] \in Nat /\ version \in Nat
        /\ shown[x] <= seen[x] /\ seen[x] <= version /\ overtaken[x] <= seen[x]
    BY TypeFacts DEF Both, Types, TypeOK
  <2>2. x \in shows => slot[s][x].version \in Nat /\ slot[s][x].version <= version
    BY <1>2, HeldFacts DEF Both
  <2> QED
    BY <1>4, <2>1, <2>2 DEF Latest
<1>6. /\ slot' \in [Slots -> Calls]
      /\ slot'[s] = Idle /\ Idle.do \notin Fetching /\ WellMade(Idle)
      /\ \A t \in Slots \ {s} : slot'[t] = slot[t]
  <2>1. Idle \in Calls /\ Idle.do \notin Fetching /\ WellMade(Idle)
    BY NewCalls DEF Idle, Calls, WellMade, Fetching, Clicks
  <2> QED
    BY <1>1, <2>1 DEF Types
<1>7. \A t \in Slots, x \in Both :
         /\ t # s => (Awaits(t, x) <=> Awaits(t, x)')
         /\ Holds(t, x)' => t # s /\ Holds(t, x) /\ slot'[t] = slot[t]
  BY <1>6 DEF Awaits, Holds
<1>8. Types'
  <2>1. \A t \in Slots :
           /\ slot'[t].do \in Clicks \cup {"idle", "fetchFriends", "fetchFriendRequests", "refresh"}
           /\ slot'[t].other \in Others \cup {None}
           /\ slot'[t].list \in {None, Failed} \cup ListPayloads
           /\ slot'[t].requests \in {None, Failed} \cup RequestPayloads
    BY <1>6 DEF Calls, Fetching
  <2>2. \A t \in Slots : WellMade(slot'[t])
    BY <1>6 DEF Types
  <2>3. friends' \in [Others -> {"absent", "online", "offline"}]
    <3>1. CASE "list" \in shows
      <4>1. slot[s].list \in ListPayloads /\ friends' = slot[s].list.names
        BY <1>2, <3>1, HeldFacts DEF Settle, Both
      <4> QED
        BY <4>1 DEF ListPayloads
    <3>2. CASE "list" \notin shows
      BY <3>2 DEF Settle, Types, TypeOK
    <3> QED
      BY <3>1, <3>2
  <2>4. pendings' \in [incoming : SUBSET Others, outgoing : SUBSET Others]
    <3>1. CASE "requests" \in shows
      <4>1. slot[s].requests \in RequestPayloads /\ pendings' = slot[s].requests.names
        BY <1>2, <3>1, HeldFacts DEF Settle, Both
      <4> QED
        BY <4>1 DEF RequestPayloads
    <3>2. CASE "requests" \notin shows
      BY <3>2 DEF Settle, Types, TypeOK
    <3> QED
      BY <3>1, <3>2
  <2>5. missed' \in 0..version
    BY <1>1, <1>3, TypeFacts
  <2>6. TypeOK'
    BY <1>1, <1>5, <2>1, <2>2, <2>3, <2>4, <2>5 DEF Types, TypeOK, server, Both, WellMade
  <2>7. \A t \in Slots, x \in Both : Holds(t, x)' => slot'[t][x].version <= version'
    BY <1>1, <1>7 DEF Types, server
  <2> QED
    BY <1>1, <1>4, <1>6, <2>2, <2>6, <2>7 DEF Types
<1>9. WireInv'
  BY <1>1 DEF WireInv, About, Presence, server
<1>10. \A x \in Both : \A v \in Nat :
          Behind(x, v) => Behind(x, v)' \/ (x \in shows /\ v < shown'[x])
  <2> SUFFICES ASSUME NEW x \in Both, NEW v \in Nat, Behind(x, v)
               PROVE  Behind(x, v)' \/ (x \in shows /\ v < shown'[x])
    OBVIOUS
  <2>1. missed' = missed \/ missed' = version
    BY <1>1, <1>3
  <2>2. CASE v < missed \/ \E i \in DOMAIN wire : wire[i].type = "social_event"
    BY <1>1, <2>1, <2>2 DEF Behind, server
  <2>3. CASE missed' = version
    BY <1>1, <2>3 DEF Behind, server
  <2>4. CASE missed' # version /\ \E t \in Slots :
                /\ Awaits(t, x)
                /\ slot[t][x] \in {None, Failed} \/ v < slot[t][x].version
    <3>1. PICK t \in Slots : /\ Awaits(t, x)
                             /\ slot[t][x] \in {None, Failed} \/ v < slot[t][x].version
      BY <2>4
    <3>2. CASE t # s
      BY <1>1, <1>6, <1>7, <3>1, <3>2 DEF Behind, server
    <3>3. CASE t = s
      <4>1. x \in shows
        BY <1>3, <2>4, <3>1, <3>3 DEF Awaits
      <4> QED
        BY <1>2, <1>4, <3>1, <3>3, <4>1 DEF Holds
    <3> QED
      BY <3>2, <3>3
  <2> QED
    BY <2>2, <2>3, <2>4 DEF Behind
<1>11. \A names : /\ \A v \in Nat : RightFriends(names, v) => RightFriends(names, v)'
                  /\ RightRequests(names) => RightRequests(names)'
  BY <1>1 DEF RightFriends, RightRequests, About, Presence, server, FriendRequestPayload
<1>12. ASSUME NEW v, v = shown'.list, NEW names, names = friends'
       PROVE  v < overtaken'.list \/ Behind("list", v)' \/ RightFriends(names, v)'
  <2>1. v \in Nat
    BY <1>4, <1>12
  <2>2. CASE "list" \in shows
    <3>1. /\ Holds(s, "list")
          /\ v = slot[s].list.version /\ names = slot[s].list.names
      BY <1>2, <1>4, <1>12, <2>2 DEF Settle, Both
    <3>2. v < seen.list \/ Behind("list", v) \/ RightFriends(names, v)
      BY <3>1 DEF AnswersInv
    <3> QED
      BY <1>5, <1>10, <1>11, <1>12, <2>1, <2>2, <3>2 DEF Both
  <2>3. CASE "list" \notin shows
    <3>1. v = shown.list /\ names = friends /\ overtaken'.list = overtaken.list
      BY <1>4, <1>12, <2>3 DEF Settle, Both
    <3>2. v < overtaken.list \/ Behind("list", v) \/ RightFriends(names, v)
      BY <3>1 DEF PanelInv
    <3> QED
      BY <1>10, <1>11, <2>1, <2>3, <3>1, <3>2 DEF Both
  <2> QED
    BY <2>2, <2>3
<1>14. ASSUME NEW v, v = shown'.requests, NEW names, names = pendings'
       PROVE  v < overtaken'.requests \/ Behind("requests", v)' \/ RightRequests(names)'
  <2>1. v \in Nat
    BY <1>4, <1>14
  <2>2. CASE "requests" \in shows
    <3>1. /\ Holds(s, "requests")
          /\ v = slot[s].requests.version /\ names = slot[s].requests.names
      BY <1>2, <1>4, <1>14, <2>2 DEF Settle, Both
    <3>2. v < seen.requests \/ Behind("requests", v) \/ RightRequests(names)
      BY <3>1 DEF AnswersInv
    <3> QED
      BY <1>5, <1>10, <1>11, <1>14, <2>1, <2>2, <3>2 DEF Both
  <2>3. CASE "requests" \notin shows
    <3>1. v = shown.requests /\ names = pendings /\ overtaken'.requests = overtaken.requests
      BY <1>4, <1>14, <2>3 DEF Settle, Both
    <3>2. v < overtaken.requests \/ Behind("requests", v) \/ RightRequests(names)
      BY <3>1 DEF PanelInv
    <3> QED
      BY <1>10, <1>11, <2>1, <2>3, <3>1, <3>2 DEF Both
  <2> QED
    BY <2>2, <2>3
<1>15. PanelInv'
  BY <1>12, <1>14 DEF PanelInv
<1>13. AnswersInv'
  <2>1. ASSUME NEW t \in Slots, NEW p, p = slot'[t].list, Holds(t, "list")'
        PROVE  \/ p.version < seen'.list
               \/ Behind("list", p.version)'
               \/ RightFriends(p.names, p.version)'
    <3>1. /\ p.version \in Nat
          /\ \/ p.version < seen.list
             \/ Behind("list", p.version)
             \/ RightFriends(p.names, p.version)
      BY <1>7, <2>1, HeldFacts DEF AnswersInv, Both
    <3>2. /\ seen.list \in Nat /\ seen'.list \in Nat /\ shown'.list \in Nat
          /\ seen.list <= seen'.list /\ shown'.list <= seen'.list
      BY <1>4, <1>5, TypeFacts DEF Both
    <3>3. RightFriends(p.names, p.version) => RightFriends(p.names, p.version)'
      BY <1>11, <3>1
    <3>4. Behind("list", p.version) => Behind("list", p.version)' \/ p.version < shown'.list
      BY <1>10, <3>1 DEF Both
    <3> QED
      BY <3>1, <3>2, <3>3, <3>4
  <2>2. ASSUME NEW t \in Slots, NEW p, p = slot'[t].requests, Holds(t, "requests")'
        PROVE  \/ p.version < seen'.requests
               \/ Behind("requests", p.version)'
               \/ RightRequests(p.names)'
    <3>1. /\ p.version \in Nat
          /\ \/ p.version < seen.requests
             \/ Behind("requests", p.version)
             \/ RightRequests(p.names)
      BY <1>7, <2>2, HeldFacts DEF AnswersInv, Both
    <3>2. /\ seen.requests \in Nat /\ seen'.requests \in Nat /\ shown'.requests \in Nat
          /\ seen.requests <= seen'.requests /\ shown'.requests <= seen'.requests
      BY <1>4, <1>5, TypeFacts DEF Both
    <3>3. RightRequests(p.names) => RightRequests(p.names)'
      BY <1>11
    <3>4. Behind("requests", p.version)
            => Behind("requests", p.version)' \/ p.version < shown'.requests
      BY <1>10, <3>1 DEF Both
    <3> QED
      BY <3>1, <3>2, <3>3, <3>4
  <2> QED
    BY <2>1, <2>2 DEF AnswersInv
<1> QED
  BY <1>8, <1>9, <1>13, <1>15

----------------------------------------------------------------------------
(* Events arrive. *)

LEMMA TailOfWire ==
    ASSUME Types, wire # <<>>, wire' = Tail(wire)
    PROVE  /\ 1 \in DOMAIN wire /\ Head(wire) = wire[1]
           /\ wire' \in Seq(Events)
           /\ \A i \in DOMAIN wire' : i \in Nat /\ i + 1 \in DOMAIN wire /\ wire'[i] = wire[i + 1]
           /\ \A i \in DOMAIN wire : i # 1 => i - 1 \in DOMAIN wire' /\ wire'[i - 1] = wire[i]
           /\ \A i \in DOMAIN wire : i \in Nat /\ i >= 1
  BY DEF Types

LEMMA ReceiveFacts ==
    ASSUME IInv, NEW type, Receive(type)
    PROVE  /\ WireInv'
           /\ \A i \in DOMAIN wire : i # 1 => \A o \in Others : About(i, o) =>
                  i - 1 \in DOMAIN wire' /\ About(i - 1, o)' /\ wire'[i - 1] = wire[i]
           /\ (\E i \in DOMAIN wire : wire[i].type = "social_event") /\ type = "presence"
                => \E i \in DOMAIN wire' : wire'[i].type = "social_event"
<1>1. /\ 1 \in DOMAIN wire /\ Head(wire) = wire[1] /\ wire[1].type = type
      /\ wire' \in Seq(Events)
      /\ \A i \in DOMAIN wire' : i \in Nat /\ i + 1 \in DOMAIN wire /\ wire'[i] = wire[i + 1]
      /\ \A i \in DOMAIN wire : i # 1 => i - 1 \in DOMAIN wire' /\ wire'[i - 1] = wire[i]
      /\ \A i \in DOMAIN wire : i \in Nat /\ i >= 1
  BY TailOfWire DEF IInv, Receive
<1>2. UNCHANGED <<server, up>>
  BY DEF Receive
<1>3. \A i \in DOMAIN wire' : Presence(i)' <=> Presence(i + 1)
  BY <1>1 DEF Presence
<1>4. \A i \in DOMAIN wire' : \A o \in Others : About(i, o)' <=> About(i + 1, o)
  BY <1>1, <1>3 DEF About
<1>5. \A i \in DOMAIN wire : i # 1 => \A o \in Others : About(i, o) =>
         i - 1 \in DOMAIN wire' /\ About(i - 1, o)' /\ wire'[i - 1] = wire[i]
  BY <1>1, <1>4
<1>6. \A i \in DOMAIN wire' : Presence(i)' => wire'[i].version <= version'
  BY <1>1, <1>2, <1>3 DEF IInv, WireInv, server
<1>7. ASSUME NEW i \in DOMAIN wire', NEW j \in DOMAIN wire',
             Presence(i)', Presence(j)', i < j
      PROVE  wire'[i].version < wire'[j].version
  <2>1. /\ i + 1 \in DOMAIN wire /\ Presence(i + 1) /\ wire'[i] = wire[i + 1]
        /\ j + 1 \in DOMAIN wire /\ Presence(j + 1) /\ wire'[j] = wire[j + 1]
    BY <1>1, <1>3, <1>7
  <2>2. i + 1 < j + 1
    BY <1>1, <1>7
  <2>3. wire[i + 1].version < wire[j + 1].version
    BY <2>1, <2>2 DEF IInv, WireInv
  <2> QED
    BY <2>1, <2>3
<1>8. ASSUME NEW o \in Others, NEW i \in DOMAIN wire', About(i, o)'
      PROVE  \/ wire'[i].online = (o \in online')
             \/ \E j \in DOMAIN wire' : i < j /\ About(j, o)'
  <2>1. i + 1 \in DOMAIN wire /\ About(i + 1, o) /\ wire'[i] = wire[i + 1] /\ i \in Nat
    BY <1>1, <1>4, <1>8
  <2>2. CASE wire[i + 1].online = (o \in online)
    BY <1>2, <2>1, <2>2 DEF server
  <2>3. CASE \E j \in DOMAIN wire : i + 1 < j /\ About(j, o)
    <3>1. PICK j \in DOMAIN wire : i + 1 < j /\ About(j, o)
      BY <2>3
    <3>2. j - 1 \in DOMAIN wire' /\ About(j - 1, o)' /\ i < j - 1
      BY <1>1, <1>5, <2>1, <3>1
    <3> QED
      BY <3>2
  <2> QED
    BY <2>1, <2>2, <2>3 DEF IInv, WireInv
<1>9. ~up' => wire' = <<>>
  BY <1>2 DEF Receive, IInv, WireInv
<1> QED
  BY <1>1, <1>5, <1>6, <1>7, <1>8, <1>9 DEF WireInv

LEMMA ReceiveSocialEventKeeps ==
    ASSUME IInv, NEW s \in Slots, ReceiveSocialEvent(s)
    PROVE  IInv'
<1> USE DEF IInv
<1>1. /\ UNCHANGED <<server, up, panel, missed, losses>>
      /\ wire # <<>> /\ wire' = Tail(wire) /\ Head(wire).type = "social_event"
      /\ slot[s] = Idle /\ slot' = [slot EXCEPT ![s] = Refresh]
  BY DEF ReceiveSocialEvent, Receive, StartRefresh, panel
<1>2. wire' \in Seq(Events) /\ wire[1].type = "social_event"
  BY <1>1, TailOfWire
<1>3. /\ slot' \in [Slots -> Calls]
      /\ slot'[s] = Refresh
      /\ \A t \in Slots \ {s} : slot'[t] = slot[t]
      /\ WellMade(Refresh) /\ Refresh.list = None /\ Refresh.requests = None
      /\ Refresh.do = "refresh"
  <2>1. "refresh" \in Clicks \cup Fetching /\ "refresh" \notin Clicks
    BY DEF Fetching, Clicks
  <2>2. /\ Refresh \in Calls /\ WellMade(Refresh) /\ Refresh.list = None
        /\ Refresh.requests = None /\ Refresh.do = "refresh"
    BY <2>1, NewCalls DEF Refresh, WellMade
  <2> QED
    BY <1>1, <2>2 DEF Types
<1>4. \A t \in Slots, x \in Both : Holds(t, x)' => Holds(t, x) /\ slot'[t] = slot[t]
  BY <1>3 DEF Holds, Awaits, Both
<1>5. \A x \in Both : Awaits(s, x)' /\ slot'[s][x] = None
  BY <1>3, PartsOf DEF Awaits, Both, Fetching
<1>6. \A x \in Both : \A v \in Nat : Behind(x, v) => Behind(x, v)'
  BY <1>1, <1>5 DEF Behind, server
<1>7. WireInv'
  BY ReceiveFacts DEF ReceiveSocialEvent
<1>8. \A names : \A v \in Nat : RightFriends(names, v) => RightFriends(names, v)'
  <2>1. \A i \in DOMAIN wire, o \in Others : About(i, o) =>
           i - 1 \in DOMAIN wire' /\ About(i - 1, o)' /\ wire'[i - 1] = wire[i]
    BY <1>2, ReceiveFacts DEF ReceiveSocialEvent, About, Presence
  <2> QED
    BY <1>1, <2>1 DEF RightFriends, server
<1>9. \A names : RightRequests(names) => RightRequests(names)'
  BY <1>1 DEF RightRequests, FriendRequestPayload, server
<1>10. Types'
  <2>1. \A t \in Slots :
           /\ slot'[t].do \in Clicks \cup {"idle", "fetchFriends", "fetchFriendRequests", "refresh"}
           /\ slot'[t].other \in Others \cup {None}
           /\ slot'[t].list \in {None, Failed} \cup ListPayloads
           /\ slot'[t].requests \in {None, Failed} \cup RequestPayloads
    BY <1>3 DEF Calls, Fetching
  <2>2. \A t \in Slots : WellMade(slot'[t])
    BY <1>3 DEF Types
  <2>3. \A i \in DOMAIN wire' : wire'[i].type \in {"social_event", "presence"}
    BY <1>2, EventFacts
  <2>4. TypeOK'
    BY <1>1, <2>1, <2>2, <2>3 DEF Types, TypeOK, server, panel, WellMade
  <2>5. \A t \in Slots, x \in Both : Holds(t, x)' => slot'[t][x].version <= version'
    BY <1>1, <1>4 DEF Types, server
  <2> QED
    BY <1>1, <1>2, <1>3, <2>2, <2>4, <2>5 DEF Types, panel
<1>11. PanelInv'
  BY <1>1, <1>6, <1>8, <1>9, TypeFacts DEF PanelInv, panel, Both
<1>12. AnswersInv'
  BY <1>1, <1>4, <1>6, <1>8, <1>9, HeldFacts DEF AnswersInv, panel, Both
<1> QED
  BY <1>7, <1>10, <1>11, <1>12

LEMMA ReceivePresenceKeeps ==
    ASSUME IInv, ReceivePresence
    PROVE  IInv'
<1> USE DEF IInv
<1>1. PICK e : e = Head(wire)
  OBVIOUS
<1>2. /\ UNCHANGED <<server, up, slot, pendings, overtaken, missed, losses>>
      /\ wire # <<>> /\ wire' = Tail(wire) /\ e.type = "presence"
      /\ friends' = [friends EXCEPT ![e.from] =
                        IF @ = "absent" THEN @ ELSE IF e.online THEN "online" ELSE "offline"]
      /\ shown' = [shown EXCEPT !.list = IF e.version < @ THEN e.version ELSE @]
      /\ seen' = [seen EXCEPT !.list = Latest(@, e.version)]
  BY <1>1 DEF ReceivePresence, Receive
<1>3. /\ e = wire[1] /\ 1 \in DOMAIN wire /\ wire' \in Seq(Events)
      /\ \A i \in DOMAIN wire : i \in Nat /\ i >= 1
  BY <1>1, <1>2, TailOfWire
<1>4. /\ e.from \in Others /\ e.online \in BOOLEAN /\ e.version \in Nat
      /\ e.version <= version /\ Presence(1)
  BY <1>2, <1>3, TypeFacts, EventFacts DEF Presence, WireInv
<1>5. /\ shown' \in [list : Nat, requests : Nat] /\ seen' \in [list : Nat, requests : Nat]
      /\ shown'.requests = shown.requests /\ seen'.requests = seen.requests
      /\ shown'.list <= shown.list /\ shown'.list <= e.version
      /\ seen.list <= seen'.list /\ e.version <= seen'.list /\ seen'.list <= version
  <2>1. /\ shown.list \in Nat /\ seen.list \in Nat /\ version \in Nat
        /\ seen.list <= version
        /\ shown \in [list : Nat, requests : Nat] /\ seen \in [list : Nat, requests : Nat]
    BY TypeFacts DEF Types
  <2> QED
    BY <1>2, <1>4, <2>1 DEF Latest
<1>6. WireInv'
  BY ReceiveFacts DEF ReceivePresence
<1>7. \A i \in DOMAIN wire : i # 1 => \A o \in Others : About(i, o) =>
         i - 1 \in DOMAIN wire' /\ About(i - 1, o)' /\ wire'[i - 1] = wire[i]
  BY ReceiveFacts DEF ReceivePresence
<1>8. \A t \in Slots, x \in Both : Holds(t, x)' <=> Holds(t, x)
  BY <1>2 DEF Holds, Awaits
<1>9. \A x \in Both : \A v \in Nat : Behind(x, v) => Behind(x, v)'
  <2>1. (\E i \in DOMAIN wire : wire[i].type = "social_event")
           => \E i \in DOMAIN wire' : wire'[i].type = "social_event"
    BY ReceiveFacts DEF ReceivePresence
  <2>2. \A t \in Slots, x \in Both : Awaits(t, x)' <=> Awaits(t, x)
    BY <1>2 DEF Awaits
  <2> QED
    BY <1>2, <2>1, <2>2 DEF Behind, server
<1>10. \A names : RightRequests(names) => RightRequests(names)'
  BY <1>2 DEF RightRequests, FriendRequestPayload, server
<1>11. \A names : \A v \in Nat :
          RightFriends(names, v) => v < e.version \/ RightFriends(names, v)'
  BY <1>2, <1>3, <1>4, <1>7 DEF RightFriends, server
<1>12. Types'
  <2>1. friends' \in [Others -> {"absent", "online", "offline"}]
    BY <1>2 DEF Types, TypeOK
  <2>2. \A i \in DOMAIN wire' : wire'[i].type \in {"social_event", "presence"}
    BY <1>3, EventFacts
  <2>3. \A x \in Both : shown'[x] <= seen'[x] /\ seen'[x] <= version /\ overtaken[x] <= seen'[x]
    <3>1. /\ shown.list \in Nat /\ seen.list \in Nat /\ version \in Nat
          /\ overtaken.list \in Nat /\ shown'.list \in Nat /\ seen'.list \in Nat
      BY <1>5, TypeFacts
    <3>2. /\ shown.list <= seen.list /\ overtaken.list <= seen.list
          /\ shown.requests <= seen.requests /\ overtaken.requests <= seen.requests
          /\ seen.requests <= version
      BY DEF Types, TypeOK
    <3> QED
      BY <1>5, <3>1, <3>2 DEF Both
  <2>4. TypeOK'
    BY <1>2, <2>1, <2>2, <2>3 DEF Types, TypeOK, server, Both
  <2> QED
    BY <1>2, <1>3, <1>5, <1>8, <2>4 DEF Types, server
<1>13. ASSUME NEW v, v = shown'.list, NEW names, names = friends'
       PROVE  v < overtaken'.list \/ Behind("list", v)' \/ RightFriends(names, v)'
  <2>1. /\ v \in Nat /\ shown.list \in Nat /\ v <= shown.list /\ v <= e.version
        /\ overtaken.list \in Nat
    BY <1>5, <1>13, TypeFacts
  <2>2. CASE shown.list < overtaken.list
    BY <1>2, <2>1, <2>2
  <2>3. CASE Behind("list", shown.list)
    <3>1. Behind("list", v)
      <4>1. version \in Nat /\ missed \in Nat
        BY TypeFacts
      <4>2. \A t \in Slots : Holds(t, "list") => slot[t].list.version \in Nat
        BY HeldFacts
      <4>3. \A t \in Slots : Awaits(t, "list") /\ slot[t].list \notin {None, Failed}
              => Holds(t, "list")
        BY DEF Holds
      <4> QED
        BY <2>1, <2>3, <4>1, <4>2, <4>3 DEF Behind
    <3> QED
      BY <1>9, <2>1, <3>1 DEF Both
  <2>4. CASE RightFriends(friends, shown.list)
    <3> SUFFICES ASSUME NEW o \in Others
                 PROVE  /\ names[o] = "absent" <=> relation'[o] # "friend"
                        /\ \/ names[o] = "absent"
                           \/ names[o] = "online" <=> o \in online'
                           \/ \E i \in DOMAIN wire' : About(i, o)' /\ v < wire'[i].version
      BY DEF RightFriends
    <3>1. (names[o] = "absent") <=> friends[o] = "absent"
      <4>1. friends \in [Others -> {"absent", "online", "offline"}]
        BY DEF Types, TypeOK
      <4> QED
        BY <1>2, <1>13, <4>1
    <3>2. (names[o] = "absent") <=> relation'[o] # "friend"
      BY <1>2, <2>4, <3>1 DEF RightFriends, server
    <3>3. ASSUME names[o] # "absent", o = e.from
          PROVE  \/ names[o] = "online" <=> o \in online'
                 \/ \E i \in DOMAIN wire' : About(i, o)' /\ v < wire'[i].version
      <4>1. names[o] = "online" <=> e.online
        <5>1. friends \in [Others -> {"absent", "online", "offline"}]
          BY DEF Types, TypeOK
        <5> QED
          BY <1>2, <1>13, <3>1, <3>3, <5>1
      <4>2. About(1, o)
        BY <1>3, <1>4, <3>3 DEF About
      <4>3. CASE e.online = (o \in online)
        BY <1>2, <4>1, <4>3 DEF server
      <4>4. CASE \E j \in DOMAIN wire : 1 < j /\ About(j, o)
        <5>1. PICK j \in DOMAIN wire : 1 < j /\ About(j, o)
          BY <4>4
        <5>2. wire[1].version < wire[j].version /\ wire[j].version \in Nat
          BY <1>3, <1>4, <5>1, TypeFacts, EventFacts DEF WireInv, About, Presence
        <5>3. v < wire[j].version
          BY <1>3, <1>4, <2>1, <5>2
        <5>4. j # 1
          BY <5>1
        <5> QED
          BY <1>7, <5>1, <5>3, <5>4
      <4> QED
        BY <1>3, <4>2, <4>3, <4>4 DEF WireInv
    <3>4. ASSUME names[o] # "absent", o # e.from
          PROVE  \/ names[o] = "online" <=> o \in online'
                 \/ \E i \in DOMAIN wire' : About(i, o)' /\ v < wire'[i].version
      <4>1. names[o] = friends[o] /\ friends[o] # "absent"
        BY <1>2, <1>13, <3>1, <3>4 DEF Types, TypeOK
      <4>2. CASE friends[o] = "online" <=> o \in online
        BY <1>2, <4>1, <4>2 DEF server
      <4>3. CASE \E i \in DOMAIN wire : About(i, o) /\ shown.list < wire[i].version
        <5>1. PICK i \in DOMAIN wire : About(i, o) /\ shown.list < wire[i].version
          BY <4>3
        <5>2. wire[i].version \in Nat
          BY <5>1, TypeFacts, EventFacts DEF About, Presence
        <5>3. i # 1
          BY <1>3, <3>4, <5>1 DEF About
        <5> QED
          BY <1>7, <2>1, <5>1, <5>2, <5>3
      <4> QED
        BY <2>4, <4>1, <4>2, <4>3 DEF RightFriends
    <3> QED
      BY <3>2, <3>3, <3>4
  <2> QED
    BY <2>2, <2>3, <2>4, <1>13 DEF PanelInv
<1>14. PanelInv'
  BY <1>2, <1>5, <1>9, <1>10, <1>13, TypeFacts DEF PanelInv, Both
<1>15. AnswersInv'
  <2>1. ASSUME NEW t \in Slots, NEW p, p = slot'[t].list, Holds(t, "list")'
        PROVE  \/ p.version < seen'.list
               \/ Behind("list", p.version)'
               \/ RightFriends(p.names, p.version)'
    <3>1. /\ p.version \in Nat
          /\ \/ p.version < seen.list
             \/ Behind("list", p.version)
             \/ RightFriends(p.names, p.version)
      BY <1>2, <1>8, <2>1, HeldFacts DEF AnswersInv, Both
    <3>2. seen.list \in Nat /\ seen'.list \in Nat
      BY <1>5, TypeFacts
    <3> QED
      BY <1>4, <1>5, <1>9, <1>11, <3>1, <3>2 DEF Both
  <2>2. ASSUME NEW t \in Slots, NEW p, p = slot'[t].requests, Holds(t, "requests")'
        PROVE  \/ p.version < seen'.requests
               \/ Behind("requests", p.version)'
               \/ RightRequests(p.names)'
    <3>1. /\ p.version \in Nat
          /\ \/ p.version < seen.requests
             \/ Behind("requests", p.version)
             \/ RightRequests(p.names)
      BY <1>2, <1>8, <2>2, HeldFacts DEF AnswersInv, Both
    <3> QED
      BY <1>5, <1>9, <1>10, <3>1 DEF Both
  <2> QED
    BY <2>1, <2>2 DEF AnswersInv
<1> QED
  BY <1>6, <1>12, <1>14, <1>15

----------------------------------------------------------------------------
(* Theorems. *)

LEMMA StepIInv == IInv /\ [Next]_vars => IInv'
<1> SUFFICES ASSUME IInv, [Next]_vars PROVE IInv'
  OBVIOUS
<1>1. CASE UNCHANGED vars
  BY <1>1 DEF IInv, Types, TypeOK, WireInv, PanelInv, AnswersInv, Behind, RightFriends,
              RightRequests, About, Presence, Holds, Awaits, FriendRequestPayload, vars, server
<1>2. CASE SocketOpens
  BY <1>2, SocketOpensKeeps
<1>3. CASE SocketBreaks
  BY <1>3, SocketBreaksKeeps
<1>4. CASE ReceivePresence
  BY <1>4, ReceivePresenceKeeps
<1>5. ASSUME NEW o \in Others, OtherActs(o) PROVE IInv'
  BY <1>5, OtherActsKeeps
<1>6. ASSUME NEW o \in Others, PresenceChanges(o) PROVE IInv'
  BY <1>6, PresenceChangesKeeps
<1>7. ASSUME NEW s \in Slots, ServeClick(s) PROVE IInv'
  BY <1>7, ServeClickKeeps
<1>8. ASSUME NEW s \in Slots, AnswerFriends(s) \/ AnswerRequests(s) PROVE IInv'
  BY <1>8, AnswersKeep
<1>9. ASSUME NEW s \in Slots, Settle(s) PROVE IInv'
  BY <1>9, SettleKeeps
<1>10. ASSUME NEW s \in Slots, ReceiveSocialEvent(s) PROVE IInv'
  BY <1>10, ReceiveSocialEventKeeps
<1>11. ASSUME NEW s \in Slots, NEW o \in Others, NEW do \in Clicks, Click(s, do, o) PROVE IInv'
  BY <1>11, ClickKeeps
<1> QED
  BY <1>1, <1>2, <1>3, <1>4, <1>5, <1>6, <1>7, <1>8, <1>9, <1>10, <1>11 DEF Next

LEMMA AlwaysIInv == Spec => []IInv
<1>1. Init => IInv
  BY InitIInv
<1>2. IInv /\ [Next]_vars => IInv'
  BY StepIInv
<1> QED
  BY <1>1, <1>2, PTL DEF Spec

\* Whatever is answered late, lost or refused, the tab keeps the shape of its
\* lists, and what it shows is of a version that there was.
THEOREM TypeCorrectness == Spec => []TypeOK
<1>1. IInv => TypeOK
  BY DEF IInv, Types
<1> QED
  BY <1>1, AlwaysIInv, PTL

\* When no call is under way and no event is on its way, what
\* useWorkspaceController shows of friends and requests is what the server has,
\* unless one of the three losses happened that nothing makes up for.
THEOREM PanelCatchesUp == Spec => []UpToDate
<1>1. IInv => UpToDate
  <2> SUFFICES ASSUME IInv, Quiet PROVE UpToDate
    BY DEF UpToDate
  <2>1. \A s \in Slots, x \in Both : ~Awaits(s, x)
    BY DEF Quiet, Awaits, Idle, Fetching
  <2>2. \A x \in Both : \A v \in Nat : Behind(x, v) => v < missed
    BY <2>1 DEF Quiet, Behind
  <2>3. ASSUME Fresh("list") PROVE friends = FriendPayload.names
    <3>1. ~(shown.list < overtaken.list) /\ ~(shown.list < missed) /\ shown.list \in Nat
      BY <2>3, TypeFacts DEF Fresh, IInv
    <3>2. RightFriends(friends, shown.list)
      BY <2>2, <3>1 DEF IInv, PanelInv, Both
    <3>3. \A o \in Others : /\ friends[o] = "absent" <=> relation[o] # "friend"
                            /\ friends[o] = "absent" \/ (friends[o] = "online" <=> o \in online)
      <4>1. DOMAIN wire = {}
        BY DEF Quiet
      <4> QED
        BY <3>2, <4>1 DEF RightFriends
    <3>4. friends \in [Others -> {"absent", "online", "offline"}]
      BY DEF IInv, Types, TypeOK
    <3>5. \A o \in Others : friends[o] = IF relation[o] # "friend" THEN "absent"
                                         ELSE IF o \in online THEN "online" ELSE "offline"
      BY <3>3, <3>4
    <3> QED
      BY <3>4, <3>5 DEF FriendPayload
  <2>4. ASSUME Fresh("requests") PROVE pendings = FriendRequestPayload.names
    <3>1. /\ ~(shown.requests < overtaken.requests) /\ ~(shown.requests < missed)
          /\ shown.requests \in Nat
      BY <2>4, TypeFacts DEF Fresh, IInv
    <3> QED
      BY <2>2, <3>1 DEF IInv, PanelInv, RightRequests, Both
  <2> QED
    BY <2>3, <2>4 DEF UpToDate
<1> QED
  BY <1>1, AlwaysIInv, PTL

=============================================================================
