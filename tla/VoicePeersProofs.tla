------------------------- MODULE VoicePeersProofs -------------------------
(***************************************************************************)
(* Theorems about VoicePeers, for all bounds and with or without a relay.  *)
(***************************************************************************)
EXTENDS VoicePeers, TLAPS

----------------------------------------------------------------------------
(* Types.  Every part of the state has its type for given bounds of the    *)
(* numbers of connections and offers, and so for greater ones.             *)

TaskTypes(ids, ns) ==
    [do : {"offer", "retry"}, pc : ids, n : 0..3, far : {0}] \cup
    [do : {"rollback", "remote", "answer", "accept"}, pc : ids, n : ns, far : ids]
MessageTypes(ids, ns) ==
    [type : {"voice_join", "voice_leave", "screens", "webrtc_offer",
             "webrtc_answer", "webrtc_ice_candidate"},
     pc : ids, n : ns]

\* Only an open connection has something to settle: what the conjunct of TypeOK
\* about tasks says of a tab.
OfOpen(p, ts) == \A t \in ts : t.do = "retry" \/ (p # None /\ t.pc = p.id)

LEMMA OthersAre ==
    ASSUME NEW u \in Tabs
    PROVE  Other(u) \in Tabs /\ Other(u) # u /\ Other(Other(u)) = u /\ Tabs = {u, Other(u)}
BY TabAssumption DEF Tabs, Other

LEMMA WiderPeers ==
    ASSUME NEW m \in Nat, NEW m1 \in Nat, m <= m1, NEW n \in Nat, NEW n1 \in Nat, n <= n1
    PROVE  /\ 0..m \subseteq 0..m1
           /\ Peers(0..m, 0..n) \subseteq Peers(0..m1, 0..n1)
           /\ TaskTypes(0..m, 0..n) \subseteq TaskTypes(0..m1, 0..n1)
           /\ MessageTypes(0..m, 0..n) \subseteq MessageTypes(0..m1, 0..n1)
<1>1. 0..m \subseteq 0..m1 /\ 0..n \subseteq 0..n1
  OBVIOUS
<1>2. SUBSET (0..m) \subseteq SUBSET (0..m1) /\ (0..m) \ {0} \subseteq (0..m1) \ {0}
  BY <1>1
<1>3. Peers(0..m, 0..n) \subseteq Peers(0..m1, 0..n1)
  BY <1>1, <1>2, Zenon DEF Peers
<1>4. TaskTypes(0..m, 0..n) \subseteq TaskTypes(0..m1, 0..n1)
  BY <1>1 DEF TaskTypes
<1>5. MessageTypes(0..m, 0..n) \subseteq MessageTypes(0..m1, 0..n1)
  BY <1>1, Zenon DEF MessageTypes
<1>. QED  BY <1>1, <1>3, <1>4, <1>5

LEMMA PeersAreSome ==
    ASSUME NEW m \in Nat, NEW n \in Nat, NEW p \in Peers(0..m, 0..n)
    PROVE  p # None
<1>1. 0..m \subseteq Nat /\ 0..n \subseteq Nat
  OBVIOUS
<1>2. SUBSET (0..m) \subseteq SUBSET Nat /\ (0..m) \ {0} \subseteq Nat \ {0}
  BY <1>1
<1>3. Peers(0..m, 0..n) \subseteq Peers(Nat, Nat)
  BY <1>1, <1>2, Zenon DEF Peers
<1>. QED  BY <1>3, NoneAssumption

LEMMA NewPeerType ==
    ASSUME NEW m \in Nat, NEW n \in Nat, NEW r \in BOOLEAN
    PROVE  NewPeer(m + 1, r) \in Peers(0..(m + 1), 0..n)
BY DEF NewPeer, Peers

----------------------------------------------------------------------------
(* What a step does to the parts of the state that have to be typed anew:  *)
(* the connections, with what they have to settle, and the wires.          *)

\* The connections and tasks are right, for m connections and n offers.
Open(m, n, ps, ts) ==
    /\ ps \in [Tabs -> Peers(0..m, 0..n) \cup {None}]
    /\ ts \in [Tabs -> SUBSET TaskTypes(0..m, 0..n)]
    /\ \A u \in Tabs : OfOpen(ps[u], ts[u])

LEMMA TypesAre ==
    TypeOK <=>
    /\ call \in [Tabs -> BOOLEAN]
    /\ Open(made, offers, pc, tasks)
    /\ queued \in [Tabs -> SUBSET (0..made)]
    /\ timer \in [Tabs -> {"off", "set", "stale"}]
    /\ wire \in [Tabs -> Seq(MessageTypes(0..made, 0..offers))]
    /\ joins \in [Tabs -> Nat]
    /\ made \in Nat /\ offers \in Nat /\ shares \in Nat /\ faults \in Nat
    /\ stale \in BOOLEAN /\ hurried \in BOOLEAN
    /\ unheard \subseteq 0..made
BY DEF TypeOK, Open, OfOpen, Ids, Tasks, Messages, TaskTypes, MessageTypes

LEMMA InitTypes == Init => TypeOK
<1>. SUFFICES ASSUME Init PROVE TypeOK
  OBVIOUS
<1>1. made = 0 /\ offers = 0 /\ stale = FALSE /\ unheard = {}
      /\ shares = 0 /\ faults = 0 /\ hurried = FALSE
  BY DEF Init
<1>2. /\ call \in [Tabs -> BOOLEAN]
      /\ pc \in [Tabs -> Peers(0..made, 0..offers) \cup {None}]
      /\ tasks \in [Tabs -> SUBSET TaskTypes(0..made, 0..offers)]
      /\ queued \in [Tabs -> SUBSET (0..made)]
      /\ timer \in [Tabs -> {"off", "set", "stale"}]
      /\ wire \in [Tabs -> Seq(MessageTypes(0..made, 0..offers))]
      /\ joins \in [Tabs -> Nat]
  BY DEF Init
<1>3. \A u \in Tabs : OfOpen(pc[u], tasks[u])
  BY DEF Init, OfOpen
<1>. QED  BY <1>1, <1>2, <1>3, TypesAre DEF Open

LEMMA Renegotiates ==
    ASSUME NEW m \in Nat, NEW n \in Nat, NEW p \in Peers(0..m, 0..n), NEW k \in 0..3
    PROVE  /\ Renegotiation(p, k) \subseteq TaskTypes(0..m, 0..n)
           /\ OfOpen(p, Renegotiation(p, k))
<1>1. p.id \in 0..m /\ p # None
  BY PeersAreSome DEF Peers
<1>. QED  BY <1>1 DEF Renegotiation, Task, TaskTypes, OfOpen

LEMMA Waiting ==
    ASSUME NEW m \in Nat, NEW n \in Nat, NEW k \in Nat, NEW p
    PROVE  Wait(k) \subseteq TaskTypes(0..m, 0..n) /\ OfOpen(p, Wait(k))
BY DEF Wait, Task, TaskTypes, OfOpen

\* An attempt keeps the connection that is there, or makes the next one.
LEMMA ConnectTypes ==
    ASSUME TypeOK, NEW u \in Tabs, NEW old \in {pc[u], None}, NEW rest \in SUBSET tasks[u],
           NEW n \in 0..3, Connect(u, old, rest, n)
    PROVE  /\ made' \in Nat /\ made <= made' /\ stale' \in BOOLEAN
           /\ Open(made', offers, pc', tasks')
<1>. DEFINE relay == n = 2 /\ HasTurn
            kept == old # None /\ ~(relay /\ old.conn # "connected")
            p == IF kept THEN old ELSE NewPeer(made + 1, relay)
            fails == ~kept /\ queued[u] # {}
            ts == (IF kept THEN rest ELSE rest \cap Waits(u)) \cup
                  (IF fails THEN Wait(n)
                   ELSE IF ShouldInitiateOffer(u) THEN Renegotiation(p, n) ELSE {})
<1>1. /\ pc' = [pc EXCEPT ![u] = p]
      /\ made' = IF kept THEN made ELSE made + 1
      /\ stale' = (stale \/ fails)
      /\ tasks' = [tasks EXCEPT ![u] = ts]
  BY Zenon DEF Connect
<1>2. Open(made, offers, pc, tasks) /\ made \in Nat /\ offers \in Nat /\ stale \in BOOLEAN
  BY TypesAre
<1>3. made' \in Nat /\ made <= made' /\ stale' \in BOOLEAN
  BY <1>1, <1>2
<1>4. /\ Peers(0..made, 0..offers) \subseteq Peers(0..made', 0..offers)
      /\ TaskTypes(0..made, 0..offers) \subseteq TaskTypes(0..made', 0..offers)
  BY <1>2, <1>3, WiderPeers
<1>5. p \in Peers(0..made', 0..offers)
  <2>1. CASE kept
    BY <2>1, <1>2, <1>4 DEF Open
  <2>2. CASE ~kept
    BY <2>2, <1>1, <1>2, NewPeerType, TabAssumption
  <2>. QED  BY <2>1, <2>2
<1>6. /\ ts \subseteq TaskTypes(0..made', 0..offers)
      /\ OfOpen(p, ts)
  <2>1. rest \subseteq TaskTypes(0..made', 0..offers) /\ OfOpen(pc[u], rest)
    BY <1>2, <1>4 DEF Open, OfOpen
  <2>2. OfOpen(p, IF kept THEN rest ELSE rest \cap Waits(u))
    BY <2>1 DEF OfOpen, Waits
  <2>3. /\ Wait(n) \subseteq TaskTypes(0..made', 0..offers) /\ OfOpen(p, Wait(n))
        /\ Renegotiation(p, n) \subseteq TaskTypes(0..made', 0..offers)
        /\ OfOpen(p, Renegotiation(p, n))
    BY <1>2, <1>3, <1>5, Renegotiates, Waiting
  <2>. QED  BY <2>1, <2>2, <2>3, Zenon DEF OfOpen
<1>7. pc' \in [Tabs -> Peers(0..made', 0..offers) \cup {None}]
  <2>1. pc \in [Tabs -> Peers(0..made', 0..offers) \cup {None}]
    BY <1>2, <1>4 DEF Open
  <2>. QED  BY <2>1, <1>1, <1>5
<1>8. tasks' \in [Tabs -> SUBSET TaskTypes(0..made', 0..offers)]
  <2>1. tasks \in [Tabs -> SUBSET TaskTypes(0..made', 0..offers)]
    BY <1>2, <1>4 DEF Open
  <2>. QED  BY <2>1, <1>1, <1>6
<1>9. ASSUME NEW v \in Tabs PROVE OfOpen(pc'[v], tasks'[v])
  <2>1. CASE v = u
    BY <2>1, <1>1, <1>2, <1>6, Zenon DEF Open
  <2>2. CASE v # u
    BY <2>2, <1>1, <1>2, Zenon DEF Open
  <2>. QED  BY <2>1, <2>2
<1>. QED  BY <1>3, <1>7, <1>8, <1>9 DEF Open

LEMMA ShortSequences ==
    ASSUME NEW S, NEW x \in S
    PROVE  <<x>> \in Seq(S) /\ <<>> \in Seq(S)
OBVIOUS

LEMMA HeadTail ==
    ASSUME NEW S, NEW s \in Seq(S), s # <<>>
    PROVE  Head(s) \in S /\ Tail(s) \in Seq(S)
OBVIOUS

\* One tab has another connection, or other tasks.
LEMMA OpenSet ==
    ASSUME NEW m \in Nat, NEW n \in Nat, NEW m1 \in Nat, NEW n1 \in Nat, m <= m1, n <= n1,
           NEW ps, NEW ts, Open(m, n, ps, ts), NEW u \in Tabs,
           NEW p \in Peers(0..m1, 0..n1) \cup {None},
           NEW t \in SUBSET TaskTypes(0..m1, 0..n1), OfOpen(p, t)
    PROVE  Open(m1, n1, [ps EXCEPT ![u] = p], [ts EXCEPT ![u] = t])
<1>1. /\ ps \in [Tabs -> Peers(0..m1, 0..n1) \cup {None}]
      /\ ts \in [Tabs -> SUBSET TaskTypes(0..m1, 0..n1)]
  BY WiderPeers DEF Open
<1>2. \A v \in Tabs : OfOpen([ps EXCEPT ![u] = p][v], [ts EXCEPT ![u] = t][v])
  <2>. SUFFICES ASSUME NEW v \in Tabs
                PROVE  OfOpen([ps EXCEPT ![u] = p][v], [ts EXCEPT ![u] = t][v])
    OBVIOUS
  <2>1. CASE v = u
    BY <2>1, <1>1, Zenon
  <2>2. CASE v # u
    BY <2>2, <1>1, Zenon DEF Open
  <2>. QED  BY <2>1, <2>2
<1>. QED  BY <1>1, <1>2 DEF Open

LEMMA OpenHere ==
    ASSUME TypeOK, NEW u \in Tabs,
           NEW p \in Peers(0..made, 0..offers) \cup {None},
           NEW t \in SUBSET TaskTypes(0..made, 0..offers), OfOpen(p, t),
           pc' = [pc EXCEPT ![u] = p], tasks' = [tasks EXCEPT ![u] = t]
    PROVE  Open(made, offers, pc', tasks')
<1>1. Open(made, offers, pc, tasks) /\ made \in Nat /\ offers \in Nat
      /\ made <= made /\ offers <= offers
  BY TypesAre
<1>. HIDE DEF Open
<1>2. Open(made, offers, [pc EXCEPT ![u] = p], [tasks EXCEPT ![u] = t])
  BY <1>1, OpenSet
<1>. QED  BY <1>2

\* What is settled is settled for the connection that is there.
LEMMA OpenIs ==
    ASSUME NEW m \in Nat, NEW n \in Nat, Open(m, n, pc, tasks), NEW u \in Tabs,
           NEW t \in tasks[u], t.do # "retry"
    PROVE  /\ pc[u] # None /\ pc[u] \in Peers(0..m, 0..n)
           /\ t.pc = pc[u].id /\ t \in TaskTypes(0..m, 0..n)
BY DEF Open, OfOpen

\* The other tab is sent what has its type.
LEMMA SendTypes ==
    ASSUME NEW m \in Nat, NEW n \in Nat, NEW m1 \in Nat, NEW n1 \in Nat, m <= m1, n <= n1,
           wire \in [Tabs -> Seq(MessageTypes(0..m, 0..n))], NEW u \in Tabs,
           NEW ms \in Seq(MessageTypes(0..m1, 0..n1)), SendAll(u, ms)
    PROVE  wire' \in [Tabs -> Seq(MessageTypes(0..m1, 0..n1))]
<1>1. MessageTypes(0..m, 0..n) \subseteq MessageTypes(0..m1, 0..n1)
  BY WiderPeers
<1>2. wire \in [Tabs -> Seq(MessageTypes(0..m1, 0..n1))]
  BY <1>1
<1>3. Other(u) \in Tabs
  BY OthersAre
<1>4. wire[Other(u)] \o ms \in Seq(MessageTypes(0..m1, 0..n1))
  BY <1>2, <1>3
<1>. QED  BY <1>2, <1>3, <1>4 DEF SendAll

\* What a connection finds are candidates of its own.
LEMMA CandidatesAre ==
    ASSUME NEW m \in Nat, NEW n \in Nat, NEW p \in Peers(0..m, 0..n)
    PROVE  CandidateFound(p) \in Seq(MessageTypes(0..m, 0..n))
<1>1. Msg("webrtc_ice_candidate", p.id, 0) \in MessageTypes(0..m, 0..n)
  BY DEF Msg, MessageTypes, Peers
<1>. QED  BY <1>1, ShortSequences, Zenon DEF CandidateFound

\* A message that is read has its type; so have those behind it.
LEMMA ReceiveTypes ==
    ASSUME TypeOK, NEW u \in Tabs, NEW type, Receive(u, type)
    PROVE  /\ wire' \in [Tabs -> Seq(MessageTypes(0..made, 0..offers))]
           /\ Head(wire[u]) \in MessageTypes(0..made, 0..offers)
           /\ wire[u] # <<>> /\ Head(wire[u]).type = type
           /\ UNCHANGED <<call, offers, joins, shares, faults, hurried>>
<1>1. wire \in [Tabs -> Seq(MessageTypes(0..made, 0..offers))]
  BY TypesAre
<1>2. wire[u] \in Seq(MessageTypes(0..made, 0..offers)) /\ wire[u] # <<>>
  BY <1>1 DEF Receive
<1>3. /\ Tail(wire[u]) \in Seq(MessageTypes(0..made, 0..offers))
      /\ Head(wire[u]) \in MessageTypes(0..made, 0..offers)
  BY <1>2, HeadTail
<1>. QED  BY <1>1, <1>2, <1>3 DEF Receive, counters

\* Closing a connection, and leaving the call.
LEMMA ClosedTypes ==
    ASSUME TypeOK, NEW u \in Tabs, Closed(u)
    PROVE  Open(made, offers, pc', tasks')
<1>1. Open(made, offers, pc, tasks) /\ made \in Nat /\ offers \in Nat
  BY TypesAre
<1>2. Waits(u) \subseteq TaskTypes(0..made, 0..offers) /\ OfOpen(None, Waits(u))
  BY <1>1 DEF Open, OfOpen, Waits
<1>. QED  BY <1>2, OpenHere DEF Closed

LEMMA CleanupTypes ==
    ASSUME TypeOK, NEW u \in Tabs, Cleanup(u)
    PROVE  /\ Open(made, offers, pc', tasks')
           /\ call' \in [Tabs -> BOOLEAN]
           /\ queued' \in [Tabs -> SUBSET (0..made)]
           /\ timer' \in [Tabs -> {"off", "set", "stale"}]
<1>1. /\ call \in [Tabs -> BOOLEAN]
      /\ queued \in [Tabs -> SUBSET (0..made)]
      /\ timer \in [Tabs -> {"off", "set", "stale"}]
  BY TypesAre
<1>2. Open(made, offers, pc', tasks')
  BY ClosedTypes DEF Cleanup
<1>. QED  BY <1>1, <1>2 DEF Cleanup, ClearPeerDisconnectTimer

----------------------------------------------------------------------------
(* Every action keeps the types.                                           *)

\* Types are kept when the parts are.
LEMMA TypesKept ==
    ASSUME TypeOK,
           Open(made', offers', pc', tasks'),
           made' \in Nat, offers' \in Nat, made <= made', offers <= offers',
           stale' \in BOOLEAN,
           call' \in [Tabs -> BOOLEAN],
           queued' \in [Tabs -> SUBSET (0..made')],
           timer' \in [Tabs -> {"off", "set", "stale"}],
           wire' \in [Tabs -> Seq(MessageTypes(0..made', 0..offers'))],
           joins' \in [Tabs -> Nat], shares' \in Nat, faults' \in Nat, hurried' \in BOOLEAN,
           unheard' \subseteq 0..made'
    PROVE  TypeOK'
BY DEF TypeOK, Open, OfOpen, Ids, Tasks, Messages, TaskTypes, MessageTypes

\* What is typed stays so with more connections and offers.
LEMMA WiderTypes ==
    ASSUME TypeOK, NEW m \in Nat, NEW n \in Nat, made <= m, offers <= n
    PROVE  /\ queued \in [Tabs -> SUBSET (0..m)]
           /\ wire \in [Tabs -> Seq(MessageTypes(0..m, 0..n))]
           /\ unheard \subseteq 0..m
           /\ call \in [Tabs -> BOOLEAN] /\ timer \in [Tabs -> {"off", "set", "stale"}]
           /\ joins \in [Tabs -> Nat] /\ shares \in Nat /\ faults \in Nat
           /\ hurried \in BOOLEAN /\ stale \in BOOLEAN
           /\ made \in Nat /\ offers \in Nat
           /\ Open(made, offers, pc, tasks)
<1>1. made \in Nat /\ offers \in Nat /\ queued \in [Tabs -> SUBSET (0..made)]
      /\ wire \in [Tabs -> Seq(MessageTypes(0..made, 0..offers))] /\ unheard \subseteq 0..made
  BY TypesAre
<1>2. 0..made \subseteq 0..m /\ MessageTypes(0..made, 0..offers) \subseteq MessageTypes(0..m, 0..n)
  BY <1>1, WiderPeers
<1>3. queued \in [Tabs -> SUBSET (0..m)]
  BY <1>1, <1>2
<1>4. wire \in [Tabs -> Seq(MessageTypes(0..m, 0..n))]
  BY <1>1, <1>2
<1>. QED  BY <1>1, <1>2, <1>3, <1>4, TypesAre

LEMMA PlainMessages ==
    ASSUME NEW m \in Nat, NEW n \in Nat,
           NEW type \in {"voice_join", "voice_leave", "screens", "webrtc_offer",
                         "webrtc_answer", "webrtc_ice_candidate"},
           NEW p \in 0..m, NEW k \in 0..n
    PROVE  Msg(type, p, k) \in MessageTypes(0..m, 0..n)
BY DEF Msg, MessageTypes

LEMMA BareMessage ==
    ASSUME NEW m \in Nat, NEW n \in Nat, NEW type \in {"voice_join", "voice_leave", "screens"}
    PROVE  <<Msg(type, 0, 0)>> \in Seq(MessageTypes(0..m, 0..n))
<1>1. Msg(type, 0, 0) \in MessageTypes(0..m, 0..n)
  BY DEF Msg, MessageTypes
<1>. QED  BY <1>1, ShortSequences

LEMMA JoinTypes ==
    ASSUME TypeOK, NEW u \in Tabs, Join(u)
    PROVE  TypeOK'
<1>1. /\ Connect(u, pc[u], tasks[u], 1)
      /\ SendAll(u, <<Msg("voice_join", 0, 0)>>)
      /\ UNCHANGED <<queued, timer, offers, shares, faults, unheard>>
      /\ joins' = [joins EXCEPT ![u] = @ + 1]
      /\ hurried' = (hurried \/ TooSoon(u))
      /\ call' = [call EXCEPT ![u] = TRUE]
  BY DEF Join, Send
<1>2. /\ made \in Nat /\ offers \in Nat /\ call \in [Tabs -> BOOLEAN]
      /\ joins \in [Tabs -> Nat] /\ hurried \in BOOLEAN
      /\ wire \in [Tabs -> Seq(MessageTypes(0..made, 0..offers))]
  BY TypesAre
<1>3. /\ made' \in Nat /\ made <= made' /\ stale' \in BOOLEAN
      /\ Open(made', offers, pc', tasks')
  <2>1. pc[u] \in {pc[u], None} /\ tasks[u] \in SUBSET tasks[u] /\ 1 \in 0..3
    BY <1>2
  <2>. QED  BY <1>1, <2>1, ConnectTypes
<1>4. <<Msg("voice_join", 0, 0)>> \in Seq(MessageTypes(0..made', 0..offers))
  BY <1>2, <1>3, BareMessage
<1>5. wire' \in [Tabs -> Seq(MessageTypes(0..made', 0..offers))]
  <2>1. offers <= offers
    BY <1>2
  <2>. QED  BY <1>1, <1>2, <1>3, <1>4, <2>1, SendTypes
<1>6. joins' \in [Tabs -> Nat] /\ hurried' \in BOOLEAN /\ call' \in [Tabs -> BOOLEAN]
  <2>1. joins' \in [Tabs -> Nat] /\ call' \in [Tabs -> BOOLEAN]
    BY <1>1, <1>2
  <2>2. hurried' \in BOOLEAN
    BY <1>1, <1>2, Zenon DEF TooSoon
  <2>. QED  BY <2>1, <2>2
<1>7. /\ queued \in [Tabs -> SUBSET (0..made')] /\ unheard \subseteq 0..made'
      /\ timer \in [Tabs -> {"off", "set", "stale"}] /\ shares \in Nat /\ faults \in Nat
  BY <1>2, <1>3, WiderTypes
<1>. QED  BY <1>1, <1>2, <1>3, <1>5, <1>6, <1>7, TypesKept

LEMMA LeaveTypes ==
    ASSUME TypeOK, NEW u \in Tabs, Leave(u)
    PROVE  TypeOK'
<1>1. /\ Cleanup(u)
      /\ SendAll(u, <<Msg("voice_leave", 0, 0)>>)
      /\ UNCHANGED <<made, stale, offers, joins, shares, faults, hurried, unheard>>
  BY DEF Leave, Send, makings, counters
<1>2. made \in Nat /\ offers \in Nat /\ made <= made /\ offers <= offers
  BY TypesAre
<1>3. <<Msg("voice_leave", 0, 0)>> \in Seq(MessageTypes(0..made, 0..offers))
  BY <1>2, BareMessage
<1>4. wire' \in [Tabs -> Seq(MessageTypes(0..made, 0..offers))]
  BY <1>1, <1>2, <1>3, SendTypes, TypesAre
<1>5. /\ unheard \subseteq 0..made /\ stale \in BOOLEAN /\ hurried \in BOOLEAN
      /\ joins \in [Tabs -> Nat] /\ shares \in Nat /\ faults \in Nat
  BY TypesAre
<1>. QED  BY <1>1, <1>2, <1>4, <1>5, CleanupTypes, TypesKept

LEMMA ShareTypes ==
    ASSUME TypeOK, NEW u \in Tabs, Share(u)
    PROVE  TypeOK'
<1>1. /\ pc[u] # None
      /\ tasks' = [tasks EXCEPT ![u] = @ \cup Renegotiation(pc[u], 0)]
      /\ SendAll(u, <<Msg("screens", 0, 0)>>)
      /\ UNCHANGED <<call, pc, queued, timer, made, stale, offers, joins, faults, hurried, unheard>>
      /\ shares' = shares + 1
  BY DEF Share, Send, makings
<1>2. /\ made \in Nat /\ offers \in Nat /\ made <= made /\ offers <= offers
      /\ Open(made, offers, pc, tasks)
  BY TypesAre
<1>3. <<Msg("screens", 0, 0)>> \in Seq(MessageTypes(0..made, 0..offers))
  BY <1>2, BareMessage
<1>4. wire' \in [Tabs -> Seq(MessageTypes(0..made, 0..offers))]
  BY <1>1, <1>2, <1>3, SendTypes, TypesAre
<1>5. Open(made, offers, pc', tasks')
  <2>1. pc[u] \in Peers(0..made, 0..offers)
    BY <1>1, <1>2 DEF Open
  <2>2. /\ Renegotiation(pc[u], 0) \subseteq TaskTypes(0..made, 0..offers)
        /\ OfOpen(pc[u], Renegotiation(pc[u], 0))
    BY <1>2, <2>1, Renegotiates
  <2>3. /\ tasks[u] \cup Renegotiation(pc[u], 0) \subseteq TaskTypes(0..made, 0..offers)
        /\ OfOpen(pc[u], tasks[u] \cup Renegotiation(pc[u], 0))
    BY <1>2, <2>2 DEF Open, OfOpen
  <2>4. pc' = [pc EXCEPT ![u] = pc[u]]
    BY <1>1, <1>2 DEF Open
  <2>. QED  BY <1>1, <2>1, <2>3, <2>4, OpenHere
<1>6. /\ queued \in [Tabs -> SUBSET (0..made)] /\ unheard \subseteq 0..made
      /\ timer \in [Tabs -> {"off", "set", "stale"}] /\ call \in [Tabs -> BOOLEAN]
      /\ stale \in BOOLEAN /\ hurried \in BOOLEAN
      /\ joins \in [Tabs -> Nat] /\ shares' \in Nat /\ faults \in Nat
  BY <1>1, TypesAre
<1>. QED  BY <1>1, <1>2, <1>4, <1>5, <1>6, TypesKept

LEMMA VanishTypes ==
    ASSUME TypeOK, NEW u \in Tabs, Vanish(u)
    PROVE  TypeOK'
<1>1. /\ Cleanup(u)
      /\ wire' = [wire EXCEPT ![u] = <<>>]
      /\ UNCHANGED <<made, stale, offers, joins, shares, hurried, unheard>>
      /\ faults' = faults + 1
  BY DEF Vanish, makings
<1>2. /\ made \in Nat /\ offers \in Nat /\ made <= made /\ offers <= offers
      /\ wire \in [Tabs -> Seq(MessageTypes(0..made, 0..offers))]
  BY TypesAre
<1>3. wire' \in [Tabs -> Seq(MessageTypes(0..made, 0..offers))]
  BY <1>1, <1>2
<1>4. /\ unheard \subseteq 0..made /\ stale \in BOOLEAN /\ hurried \in BOOLEAN
      /\ joins \in [Tabs -> Nat] /\ shares \in Nat /\ faults' \in Nat
  BY <1>1, TypesAre
<1>. QED  BY <1>1, <1>2, <1>3, <1>4, CleanupTypes, TypesKept

\* Only what one tab has open, the offers and the wire change.
LEMMA SettledTypes ==
    ASSUME TypeOK, NEW u \in Tabs, NEW t, NEW do, Settles(u, t, do), do # "retry"
    PROVE  /\ pc[u] # None /\ pc[u] \in Peers(0..made, 0..offers) /\ t.pc = pc[u].id
           /\ t \in TaskTypes(0..made, 0..offers) /\ t \in tasks[u] /\ t.do = do
           /\ tasks[u] \subseteq TaskTypes(0..made, 0..offers) /\ OfOpen(pc[u], tasks[u])
           /\ UNCHANGED <<call, timer, joins, shares, faults, hurried, unheard>>
           /\ made \in Nat /\ offers \in Nat
           /\ pc[u].id \in 0..made /\ pc[u].heard \in 0..offers
<1>1. Open(made, offers, pc, tasks) /\ t \in tasks[u] /\ t.do = do
      /\ made \in Nat /\ offers \in Nat
  BY TypesAre DEF Settles
<1>2. /\ pc[u] # None /\ pc[u] \in Peers(0..made, 0..offers) /\ t.pc = pc[u].id
      /\ t \in TaskTypes(0..made, 0..offers)
  BY <1>1, OpenIs
<1>. QED  BY <1>1, <1>2 DEF Settles, counters, Open, Peers

LEMMA SettledKeeps ==
    ASSUME TypeOK,
           Open(made, offers', pc', tasks'), offers' \in Nat, offers <= offers',
           wire' \in [Tabs -> Seq(MessageTypes(0..made, 0..offers'))],
           queued' \in [Tabs -> SUBSET (0..made)],
           UNCHANGED <<call, timer, made, stale, joins, shares, faults, hurried, unheard>>
    PROVE  TypeOK'
<1>1. made \in Nat /\ made <= made
  BY TypesAre
<1>2. /\ unheard \subseteq 0..made /\ stale \in BOOLEAN /\ hurried \in BOOLEAN
      /\ joins \in [Tabs -> Nat] /\ shares \in Nat /\ faults \in Nat
      /\ call \in [Tabs -> BOOLEAN] /\ timer \in [Tabs -> {"off", "set", "stale"}]
  BY TypesAre
<1>. QED  BY <1>1, <1>2, TypesKept

\* A description of its own has been set: what is sent.
LEMMA OfferMadeTypes ==
    ASSUME TypeOK, NEW u \in Tabs, NEW t, OfferMade(u, t)
    PROVE  TypeOK'
<1>. DEFINE p == [pc[u] EXCEPT !.sig = "have-local-offer", !.offer = offers']
<1>1. /\ Settles(u, t, "offer")
      /\ offers' = offers + 1
      /\ tasks' = [tasks EXCEPT ![u] = @ \ {t}]
      /\ SendAll(u, <<Msg("webrtc_offer", t.pc, offers')>> \o CandidateFound(pc[u]))
      /\ UNCHANGED <<queued, made, stale>>
  BY DEF OfferMade, makings
<1>2. /\ pc[u] # None /\ pc[u] \in Peers(0..made, 0..offers) /\ t.pc = pc[u].id
      /\ tasks[u] \subseteq TaskTypes(0..made, 0..offers) /\ OfOpen(pc[u], tasks[u])
      /\ UNCHANGED <<call, timer, joins, shares, faults, hurried, unheard>>
      /\ made \in Nat /\ offers \in Nat /\ pc[u].id \in 0..made
  BY <1>1, SettledTypes
<1>3. pc' = [pc EXCEPT ![u] = p]
  BY <1>2 DEF OfferMade
<1>4. /\ offers' \in Nat /\ offers <= offers' /\ made <= made
      /\ 0..offers \subseteq 0..offers' /\ offers' \in 0..offers'
  BY <1>1, <1>2
<1>5. /\ Peers(0..made, 0..offers) \subseteq Peers(0..made, 0..offers')
      /\ TaskTypes(0..made, 0..offers) \subseteq TaskTypes(0..made, 0..offers')
  BY <1>2, <1>4, WiderPeers
<1>6. p \in Peers(0..made, 0..offers') /\ p.id = pc[u].id
  BY <1>2, <1>4, <1>5 DEF Peers
<1>7. /\ tasks[u] \ {t} \in SUBSET TaskTypes(0..made, 0..offers')
      /\ OfOpen(p, tasks[u] \ {t})
  <2>1. p # None
    BY <1>2, <1>4, <1>6, PeersAreSome
  <2>. QED  BY <2>1, <1>2, <1>5, <1>6 DEF OfOpen
<1>8. Open(made, offers', pc', tasks')
  <2>1. Open(made, offers, pc, tasks)
    BY TypesAre
  <2>. HIDE DEF Open, p
  <2>. QED  BY <2>1, <1>1, <1>2, <1>3, <1>4, <1>6, <1>7, OpenSet
<1>9. wire' \in [Tabs -> Seq(MessageTypes(0..made, 0..offers'))]
  <2>1. Msg("webrtc_offer", t.pc, offers') \in MessageTypes(0..made, 0..offers')
    BY <1>2, <1>4, PlainMessages
  <2>2. CandidateFound(pc[u]) \in Seq(MessageTypes(0..made, 0..offers'))
    BY <1>2, <1>4, <1>5, CandidatesAre
  <2>3. <<Msg("webrtc_offer", t.pc, offers')>> \o CandidateFound(pc[u])
            \in Seq(MessageTypes(0..made, 0..offers'))
    BY <2>1, <2>2
  <2>4. wire \in [Tabs -> Seq(MessageTypes(0..made, 0..offers))]
    BY TypesAre
  <2>. QED  BY <2>3, <2>4, <1>1, <1>2, <1>4, SendTypes
<1>10. queued' \in [Tabs -> SUBSET (0..made)]
  BY <1>1, TypesAre
<1>. QED  BY <1>1, <1>2, <1>4, <1>8, <1>9, <1>10, SettledKeeps

\* One tab has a changed connection and other tasks; nothing is sent.
LEMMA TabKeeps ==
    ASSUME TypeOK, NEW u \in Tabs, NEW p \in Peers(0..made, 0..offers) \cup {None},
           NEW ts \in SUBSET TaskTypes(0..made, 0..offers), OfOpen(p, ts),
           pc' = [pc EXCEPT ![u] = p], tasks' = [tasks EXCEPT ![u] = ts],
           queued' \in [Tabs -> SUBSET (0..made)],
           wire' \in [Tabs -> Seq(MessageTypes(0..made, 0..offers))],
           UNCHANGED <<call, timer, offers, made, stale, joins, shares, faults, hurried, unheard>>
    PROVE  TypeOK'
<1>1. Open(made, offers, pc', tasks')
  BY OpenHere
<1>2. offers \in Nat /\ offers <= offers
  BY TypesAre
<1>. QED  BY <1>1, <1>2, SettledKeeps

LEMMA OfferRefusedTypes ==
    ASSUME TypeOK, NEW u \in Tabs, NEW t, OfferRefused(u, t)
    PROVE  TypeOK'
<1>. DEFINE ts == (tasks[u] \ {t}) \cup (IF t.n = 0 THEN {} ELSE Wait(t.n))
<1>1. /\ Settles(u, t, "offer")
      /\ tasks' = [tasks EXCEPT ![u] = ts]
      /\ UNCHANGED <<pc, queued, wire, made, stale, offers>>
  BY DEF OfferRefused, makings
<1>2. /\ pc[u] # None /\ pc[u] \in Peers(0..made, 0..offers) /\ t.pc = pc[u].id
      /\ t \in TaskTypes(0..made, 0..offers)
      /\ tasks[u] \subseteq TaskTypes(0..made, 0..offers) /\ OfOpen(pc[u], tasks[u])
      /\ UNCHANGED <<call, timer, joins, shares, faults, hurried, unheard>>
      /\ made \in Nat /\ offers \in Nat
  BY <1>1, SettledTypes
<1>3. t.n \in Nat
  BY <1>2 DEF TaskTypes
<1>4. Wait(t.n) \subseteq TaskTypes(0..made, 0..offers) /\ OfOpen(pc[u], Wait(t.n))
  BY <1>2, <1>3, Waiting
<1>5. ts \in SUBSET TaskTypes(0..made, 0..offers) /\ OfOpen(pc[u], ts)
  BY <1>2, <1>4 DEF OfOpen
<1>6. /\ pc' = [pc EXCEPT ![u] = pc[u]]
      /\ queued' \in [Tabs -> SUBSET (0..made)]
      /\ wire' \in [Tabs -> Seq(MessageTypes(0..made, 0..offers))]
  BY <1>1, TypesAre DEF Open
<1>. QED  BY <1>1, <1>2, <1>5, <1>6, TabKeeps

LEMMA RetryTypes ==
    ASSUME TypeOK, NEW u \in Tabs, NEW t, Retry(u, t)
    PROVE  TypeOK'
<1>1. /\ t \in tasks[u] /\ Connect(u, pc[u], tasks[u] \ {t}, t.n)
      /\ UNCHANGED <<queued, wire, offers, call, timer, joins, shares, faults, hurried, unheard>>
  BY DEF Retry, Settles, counters
<1>2. t.n \in 0..3
  <2>1. t.do = "retry" /\ t \in tasks[u]
    BY DEF Retry, Settles
  <2>2. t \in TaskTypes(0..made, 0..offers)
    BY <2>1, TypesAre DEF Open
  <2>. QED  BY <2>1, <2>2 DEF TaskTypes
<1>3. /\ made' \in Nat /\ made <= made' /\ stale' \in BOOLEAN
      /\ Open(made', offers, pc', tasks')
  <2>1. pc[u] \in {pc[u], None} /\ tasks[u] \ {t} \in SUBSET tasks[u]
    OBVIOUS
  <2>. QED  BY <1>1, <1>2, <2>1, ConnectTypes
<1>4. offers \in Nat /\ offers <= offers
  BY TypesAre
<1>5. /\ queued \in [Tabs -> SUBSET (0..made')]
      /\ wire \in [Tabs -> Seq(MessageTypes(0..made', 0..offers))]
      /\ unheard \subseteq 0..made'
      /\ call \in [Tabs -> BOOLEAN] /\ timer \in [Tabs -> {"off", "set", "stale"}]
      /\ joins \in [Tabs -> Nat] /\ shares \in Nat /\ faults \in Nat
      /\ hurried \in BOOLEAN
  BY <1>3, <1>4, WiderTypes
<1>. QED  BY <1>1, <1>3, <1>4, <1>5, TypesKept

LEMMA RolledBackTypes ==
    ASSUME TypeOK, NEW u \in Tabs, NEW t, RolledBack(u, t)
    PROVE  TypeOK'
<1>1. /\ Settles(u, t, "rollback")
      /\ UNCHANGED <<queued, wire, made, stale, offers>>
  BY DEF RolledBack, makings
<1>2. /\ pc[u] # None /\ pc[u] \in Peers(0..made, 0..offers) /\ t.pc = pc[u].id
      /\ t \in TaskTypes(0..made, 0..offers)
      /\ tasks[u] \subseteq TaskTypes(0..made, 0..offers) /\ OfOpen(pc[u], tasks[u])
      /\ UNCHANGED <<call, timer, joins, shares, faults, hurried, unheard>>
      /\ made \in Nat /\ offers \in Nat
  BY <1>1, SettledTypes
<1>3. /\ pc = [pc EXCEPT ![u] = pc[u]]
      /\ queued' \in [Tabs -> SUBSET (0..made)]
      /\ wire' \in [Tabs -> Seq(MessageTypes(0..made, 0..offers))]
  BY <1>1, TypesAre DEF Open
<1>4. CASE /\ pc' = [pc EXCEPT ![u].sig = "stable"]
           /\ tasks' = [tasks EXCEPT ![u] = (@ \ {t}) \cup {[t EXCEPT !.do = "remote"]}]
  <2>. DEFINE p == [pc[u] EXCEPT !.sig = "stable"]
              ts == (tasks[u] \ {t}) \cup {[t EXCEPT !.do = "remote"]}
  <2>1. p \in Peers(0..made, 0..offers) /\ p.id = pc[u].id
    BY <1>2 DEF Peers
  <2>2. p # None
    BY <1>2, <2>1, PeersAreSome
  <2>3. /\ [t EXCEPT !.do = "remote"] \in TaskTypes(0..made, 0..offers)
        /\ [t EXCEPT !.do = "remote"].pc = t.pc
    BY <1>1, <1>2 DEF TaskTypes, Settles
  <2>4. ts \in SUBSET TaskTypes(0..made, 0..offers) /\ OfOpen(p, ts)
    BY <1>2, <2>1, <2>2, <2>3 DEF OfOpen
  <2>5. pc' = [pc EXCEPT ![u] = p] /\ tasks' = [tasks EXCEPT ![u] = ts]
    BY <1>4
  <2>. HIDE DEF p, ts
  <2>. QED  BY <1>1, <1>2, <1>3, <2>1, <2>4, <2>5, TabKeeps
<1>5. CASE tasks' = [tasks EXCEPT ![u] = @ \ {t}] /\ UNCHANGED pc
  <2>1. /\ tasks[u] \ {t} \in SUBSET TaskTypes(0..made, 0..offers)
        /\ OfOpen(pc[u], tasks[u] \ {t})
    BY <1>2 DEF OfOpen
  <2>2. pc' = [pc EXCEPT ![u] = pc[u]]
    BY <1>3, <1>5
  <2>. QED  BY <1>1, <1>2, <1>3, <1>5, <2>1, <2>2, TabKeeps
<1>. QED  BY <1>4, <1>5 DEF RolledBack

LEMMA RemoteOfferSetTypes ==
    ASSUME TypeOK, NEW u \in Tabs, NEW t, RemoteOfferSet(u, t)
    PROVE  TypeOK'
<1>. DEFINE p == [pc[u] EXCEPT !.sig = "have-remote-offer", !.far = t.far, !.heard = t.n,
                               !.cands = @ \cup queued[u]]
            ts == (tasks[u] \ {t}) \cup {[t EXCEPT !.do = "answer"]}
<1>1. /\ Settles(u, t, "remote")
      /\ tasks' = [tasks EXCEPT ![u] = ts]
      /\ queued' = [queued EXCEPT ![u] = {}]
      /\ UNCHANGED <<wire, made, stale, offers>>
  BY DEF RemoteOfferSet, FlushPendingCandidates, makings
<1>2. /\ pc[u] # None /\ pc[u] \in Peers(0..made, 0..offers) /\ t.pc = pc[u].id
      /\ t \in TaskTypes(0..made, 0..offers)
      /\ tasks[u] \subseteq TaskTypes(0..made, 0..offers) /\ OfOpen(pc[u], tasks[u])
      /\ UNCHANGED <<call, timer, joins, shares, faults, hurried, unheard>>
      /\ made \in Nat /\ offers \in Nat
  BY <1>1, SettledTypes
<1>3. /\ queued \in [Tabs -> SUBSET (0..made)]
      /\ wire' \in [Tabs -> Seq(MessageTypes(0..made, 0..offers))]
  BY <1>1, TypesAre
<1>4. pc' = [pc EXCEPT ![u] = p]
  BY <1>2 DEF RemoteOfferSet, FlushPendingCandidates, Peers
<1>5. t.far \in 0..made /\ t.n \in 0..offers
  BY <1>1, <1>2 DEF TaskTypes, Settles
<1>6. p \in Peers(0..made, 0..offers) /\ p.id = pc[u].id
  BY <1>2, <1>3, <1>5 DEF Peers
<1>7. ts \in SUBSET TaskTypes(0..made, 0..offers) /\ OfOpen(p, ts)
  <2>1. /\ [t EXCEPT !.do = "answer"] \in TaskTypes(0..made, 0..offers)
        /\ [t EXCEPT !.do = "answer"].pc = t.pc
    BY <1>1, <1>2 DEF TaskTypes, Settles
  <2>2. p # None
    BY <1>2, <1>6, PeersAreSome
  <2>. QED  BY <1>2, <1>6, <2>1, <2>2 DEF OfOpen
<1>8. queued' \in [Tabs -> SUBSET (0..made)]
  BY <1>1, <1>3
<1>. HIDE DEF p, ts
<1>. QED  BY <1>1, <1>2, <1>3, <1>4, <1>6, <1>7, <1>8, TabKeeps

LEMMA AnswerMadeTypes ==
    ASSUME TypeOK, NEW u \in Tabs, NEW t, AnswerMade(u, t)
    PROVE  TypeOK'
<1>1. /\ Settles(u, t, "answer")
      /\ tasks' = [tasks EXCEPT ![u] = @ \ {t}]
      /\ UNCHANGED <<queued, made, stale, offers>>
  BY DEF AnswerMade, makings
<1>2. /\ pc[u] # None /\ pc[u] \in Peers(0..made, 0..offers) /\ t.pc = pc[u].id
      /\ tasks[u] \subseteq TaskTypes(0..made, 0..offers) /\ OfOpen(pc[u], tasks[u])
      /\ UNCHANGED <<call, timer, joins, shares, faults, hurried, unheard>>
      /\ made \in Nat /\ offers \in Nat
      /\ pc[u].id \in 0..made /\ pc[u].heard \in 0..offers
  BY <1>1, SettledTypes
<1>3. /\ pc = [pc EXCEPT ![u] = pc[u]]
      /\ queued' \in [Tabs -> SUBSET (0..made)]
      /\ wire \in [Tabs -> Seq(MessageTypes(0..made, 0..offers))]
  BY <1>1, TypesAre DEF Open
<1>4. CASE /\ pc' = [pc EXCEPT ![u].sig = "stable", ![u].deal = pc[u].heard]
           /\ SendAll(u, <<Msg("webrtc_answer", t.pc, pc[u].heard)>> \o CandidateFound(pc[u]))
  <2>. DEFINE p == [pc[u] EXCEPT !.sig = "stable", !.deal = pc[u].heard]
              ts == tasks[u] \ {t}
  <2>1. p \in Peers(0..made, 0..offers) /\ p.id = pc[u].id
    BY <1>2 DEF Peers
  <2>2. p # None
    BY <1>2, <2>1, PeersAreSome
  <2>3. ts \in SUBSET TaskTypes(0..made, 0..offers) /\ OfOpen(p, ts)
    BY <1>2, <2>1, <2>2 DEF OfOpen
  <2>4. pc' = [pc EXCEPT ![u] = p] /\ tasks' = [tasks EXCEPT ![u] = ts]
    BY <1>1, <1>2, <1>4
  <2>5. wire' \in [Tabs -> Seq(MessageTypes(0..made, 0..offers))]
    <3>1. Msg("webrtc_answer", t.pc, pc[u].heard) \in MessageTypes(0..made, 0..offers)
      BY <1>2, PlainMessages
    <3>2. CandidateFound(pc[u]) \in Seq(MessageTypes(0..made, 0..offers))
      BY <1>2, CandidatesAre
    <3>3. <<Msg("webrtc_answer", t.pc, pc[u].heard)>> \o CandidateFound(pc[u])
              \in Seq(MessageTypes(0..made, 0..offers))
      BY <3>1, <3>2
    <3>4. made <= made /\ offers <= offers
      BY <1>2
    <3>. QED  BY <1>2, <1>3, <1>4, <3>3, <3>4, SendTypes
  <2>. HIDE DEF p, ts
  <2>. QED  BY <1>1, <1>2, <1>3, <2>1, <2>3, <2>4, <2>5, TabKeeps
<1>5. CASE UNCHANGED <<pc, wire>>
  <2>1. /\ tasks[u] \ {t} \in SUBSET TaskTypes(0..made, 0..offers)
        /\ OfOpen(pc[u], tasks[u] \ {t})
    BY <1>2 DEF OfOpen
  <2>2. pc' = [pc EXCEPT ![u] = pc[u]]
    BY <1>3, <1>5
  <2>. QED  BY <1>1, <1>2, <1>3, <1>5, <2>1, <2>2, TabKeeps
<1>. QED  BY <1>4, <1>5 DEF AnswerMade

LEMMA AnswerSetTypes ==
    ASSUME TypeOK, NEW u \in Tabs, NEW t, AnswerSet(u, t)
    PROVE  TypeOK'
<1>. DEFINE q == [pc[u] EXCEPT !.sig = "stable", !.far = t.far, !.deal = pc[u].offer]
            p == IF pc[u].sig # "have-local-offer" THEN pc[u] ELSE q
            ts == tasks[u] \ {t}
<1>1. /\ Settles(u, t, "accept")
      /\ tasks' = [tasks EXCEPT ![u] = ts]
      /\ UNCHANGED <<queued, wire, made, stale, offers>>
  BY DEF AnswerSet, makings
<1>2. /\ pc[u] # None /\ pc[u] \in Peers(0..made, 0..offers) /\ t.pc = pc[u].id
      /\ t \in TaskTypes(0..made, 0..offers)
      /\ tasks[u] \subseteq TaskTypes(0..made, 0..offers) /\ OfOpen(pc[u], tasks[u])
      /\ UNCHANGED <<call, timer, joins, shares, faults, hurried, unheard>>
      /\ made \in Nat /\ offers \in Nat
  BY <1>1, SettledTypes
<1>3. /\ pc = [pc EXCEPT ![u] = pc[u]]
      /\ queued' \in [Tabs -> SUBSET (0..made)]
      /\ wire' \in [Tabs -> Seq(MessageTypes(0..made, 0..offers))]
  BY <1>1, TypesAre DEF Open
<1>4. q \in Peers(0..made, 0..offers) /\ q.id = pc[u].id
  BY <1>1, <1>2 DEF Peers, TaskTypes, Settles
<1>5. p \in Peers(0..made, 0..offers) /\ p.id = pc[u].id /\ p # None
  BY <1>2, <1>4, PeersAreSome
<1>6. pc' = [pc EXCEPT ![u] = p]
  BY <1>2, <1>3 DEF AnswerSet
<1>7. ts \in SUBSET TaskTypes(0..made, 0..offers) /\ OfOpen(p, ts)
  BY <1>2, <1>5 DEF OfOpen
<1>. HIDE DEF p, ts
<1>. QED  BY <1>1, <1>2, <1>3, <1>5, <1>6, <1>7, TabKeeps

\* A message is read, and one tab has a changed connection and other tasks.
LEMMA ReadKeeps ==
    ASSUME TypeOK, NEW u \in Tabs, NEW type, Receive(u, type),
           Open(made', offers, pc', tasks'), made' \in Nat, made <= made', stale' \in BOOLEAN,
           queued' \in [Tabs -> SUBSET (0..made')],
           timer' \in [Tabs -> {"off", "set", "stale"}],
           unheard' \subseteq 0..made'
    PROVE  TypeOK'
<1>1. /\ wire' \in [Tabs -> Seq(MessageTypes(0..made, 0..offers))]
      /\ UNCHANGED <<call, offers, joins, shares, faults, hurried>>
  BY ReceiveTypes
<1>2. offers \in Nat /\ offers <= offers /\ made \in Nat
  BY TypesAre
<1>3. MessageTypes(0..made, 0..offers) \subseteq MessageTypes(0..made', 0..offers)
  BY <1>2, WiderPeers
<1>4. wire' \in [Tabs -> Seq(MessageTypes(0..made', 0..offers))]
  BY <1>1, <1>3
<1>5. /\ joins \in [Tabs -> Nat] /\ shares \in Nat /\ faults \in Nat
      /\ call \in [Tabs -> BOOLEAN] /\ hurried \in BOOLEAN
  BY TypesAre
<1>. QED  BY <1>1, <1>2, <1>4, <1>5, TypesKept

LEMMA ReceiveJoinTypes ==
    ASSUME TypeOK, NEW u \in Tabs, ReceiveJoin(u)
    PROVE  TypeOK'
<1>1. /\ Connect(u, pc[u], tasks[u], 1)
      /\ UNCHANGED <<queued, timer, unheard>>
  BY DEF ReceiveJoin
<1>2. PICK type : Receive(u, type)
  BY DEF ReceiveJoin
<1>3. /\ made' \in Nat /\ made <= made' /\ stale' \in BOOLEAN
      /\ Open(made', offers, pc', tasks')
  <2>1. pc[u] \in {pc[u], None} /\ tasks[u] \in SUBSET tasks[u] /\ 1 \in 0..3
    OBVIOUS
  <2>. QED  BY <1>1, <2>1, ConnectTypes
<1>4. offers \in Nat /\ offers <= offers
  BY TypesAre
<1>5. /\ queued \in [Tabs -> SUBSET (0..made')]
      /\ unheard \subseteq 0..made'
      /\ timer \in [Tabs -> {"off", "set", "stale"}]
  BY <1>3, <1>4, WiderTypes
<1>. QED  BY <1>1, <1>2, <1>3, <1>5, ReadKeeps

\* ... or keeps what it has, and the numbers of connections stay.
LEMMA ReadOpens ==
    ASSUME TypeOK, NEW u \in Tabs, NEW type, Receive(u, type),
           Open(made, offers, pc', tasks'), UNCHANGED <<made, stale>>,
           queued' \in [Tabs -> SUBSET (0..made)],
           timer' \in [Tabs -> {"off", "set", "stale"}],
           unheard' \subseteq 0..made
    PROVE  TypeOK'
<1>1. made \in Nat /\ made <= made /\ stale \in BOOLEAN
  BY TypesAre
<1>. QED  BY <1>1, ReadKeeps

LEMMA ReceiveNothingTypes ==
    ASSUME TypeOK, NEW u \in Tabs, ReceiveNothing(u)
    PROVE  TypeOK'
<1>1. UNCHANGED <<pc, queued, timer, tasks, made, stale, unheard>>
  BY DEF ReceiveNothing, makings
<1>2. PICK type : Receive(u, type)
  BY DEF ReceiveNothing
<1>3. /\ Open(made, offers, pc, tasks)
      /\ queued \in [Tabs -> SUBSET (0..made)]
      /\ timer \in [Tabs -> {"off", "set", "stale"}] /\ unheard \subseteq 0..made
  BY TypesAre
<1>4. Open(made, offers, pc', tasks')
  BY <1>1, <1>3
<1>. QED  BY <1>1, <1>2, <1>3, <1>4, ReadOpens

LEMMA DropTypes ==
    ASSUME TypeOK, NEW u \in Tabs, DropPeer(u)
    PROVE  /\ Open(made, offers, pc', tasks')
           /\ timer' \in [Tabs -> {"off", "set", "stale"}]
<1>1. Open(made, offers, pc', tasks')
  BY ClosedTypes DEF DropPeer
<1>2. timer \in [Tabs -> {"off", "set", "stale"}]
  BY TypesAre
<1>. QED  BY <1>1, <1>2 DEF DropPeer, ClearPeerDisconnectTimer

LEMMA ReceiveLeaveTypes ==
    ASSUME TypeOK, NEW u \in Tabs, ReceiveLeave(u)
    PROVE  TypeOK'
<1>1. UNCHANGED <<queued, made, stale, unheard>> /\ Receive(u, "voice_leave")
  BY DEF ReceiveLeave, makings
<1>2. /\ Open(made, offers, pc, tasks)
      /\ queued \in [Tabs -> SUBSET (0..made)]
      /\ timer \in [Tabs -> {"off", "set", "stale"}] /\ unheard \subseteq 0..made
  BY TypesAre
<1>3. /\ Open(made, offers, pc', tasks')
      /\ timer' \in [Tabs -> {"off", "set", "stale"}]
  <2>1. CASE DropPeer(u)
    BY <2>1, DropTypes
  <2>2. CASE UNCHANGED <<pc, tasks, timer>>
    BY <2>2, <1>2
  <2>. QED  BY <2>1, <2>2 DEF ReceiveLeave
<1>. QED  BY <1>1, <1>2, <1>3, ReadOpens

LEMMA ReceiveUnheardTypes ==
    ASSUME TypeOK, NEW u \in Tabs, ReceiveUnheard(u)
    PROVE  TypeOK'
<1>1. /\ UNCHANGED <<pc, queued, timer, tasks, made, stale>>
      /\ unheard' = unheard \cup {Head(wire[u]).pc}
  BY DEF ReceiveUnheard, makings
<1>2. PICK type : Receive(u, type)
  BY DEF ReceiveUnheard
<1>3. /\ Open(made, offers, pc, tasks)
      /\ queued \in [Tabs -> SUBSET (0..made)]
      /\ timer \in [Tabs -> {"off", "set", "stale"}] /\ unheard \subseteq 0..made
  BY TypesAre
<1>4. Head(wire[u]).pc \in 0..made
  BY <1>2, ReceiveTypes DEF MessageTypes
<1>5. Open(made, offers, pc', tasks')
  BY <1>1, <1>3
<1>. QED  BY <1>1, <1>2, <1>3, <1>4, <1>5, ReadOpens

LEMMA ReceiveOfferTypes ==
    ASSUME TypeOK, NEW u \in Tabs, ReceiveOffer(u)
    PROVE  TypeOK'
<1>. DEFINE m == Head(wire[u])
            p == IF pc[u] = None THEN NewPeer(made + 1, FALSE) ELSE pc[u]
            fails == pc[u] = None /\ queued[u] # {}
            do == IF p.sig = "stable" THEN "remote" ELSE "rollback"
            new == IF fails THEN {} ELSE {Task(do, p.id, m.n, m.pc)}
            ts == tasks[u] \cup new
<1>1. /\ Receive(u, "webrtc_offer")
      /\ pc' = [pc EXCEPT ![u] = p]
      /\ made' = IF pc[u] = None THEN made + 1 ELSE made
      /\ stale' = (stale \/ fails)
      /\ tasks' = [tasks EXCEPT ![u] = ts]
      /\ UNCHANGED <<queued, timer, unheard>>
  BY Zenon DEF ReceiveOffer
<1>2. /\ Open(made, offers, pc, tasks) /\ made \in Nat /\ offers \in Nat
      /\ stale \in BOOLEAN /\ offers <= offers
  BY TypesAre
<1>3. made' \in Nat /\ made <= made' /\ stale' \in BOOLEAN
  BY <1>1, <1>2
<1>4. /\ Peers(0..made, 0..offers) \subseteq Peers(0..made', 0..offers)
      /\ TaskTypes(0..made, 0..offers) \subseteq TaskTypes(0..made', 0..offers)
      /\ MessageTypes(0..made, 0..offers) \subseteq MessageTypes(0..made', 0..offers)
  BY <1>2, <1>3, WiderPeers
<1>5. p \in Peers(0..made', 0..offers) /\ p # None /\ p.id \in 0..made'
  <2>1. p \in Peers(0..made', 0..offers)
    BY <1>1, <1>2, <1>4, NewPeerType DEF Open
  <2>. QED  BY <1>2, <1>3, <2>1, PeersAreSome DEF Peers
<1>6. m \in MessageTypes(0..made', 0..offers)
  BY <1>1, <1>4, ReceiveTypes
<1>7. new \subseteq TaskTypes(0..made', 0..offers) /\ OfOpen(p, new)
  <2>1. m.n \in 0..offers /\ m.pc \in 0..made' /\ do \in {"remote", "rollback"}
    BY <1>6 DEF MessageTypes
  <2>2. /\ Task(do, p.id, m.n, m.pc) \in TaskTypes(0..made', 0..offers)
        /\ Task(do, p.id, m.n, m.pc).pc = p.id
    <3>. HIDE DEF do, p, m
    <3>. QED  BY <2>1, <1>5 DEF Task, TaskTypes
  <2>. HIDE DEF do, p, m, fails
  <2>. QED  BY <1>5, <2>2 DEF OfOpen
<1>8. ts \in SUBSET TaskTypes(0..made', 0..offers) /\ OfOpen(p, ts)
  <2>1. tasks[u] \subseteq TaskTypes(0..made', 0..offers)
    BY <1>2, <1>4 DEF Open
  <2>2. OfOpen(p, tasks[u])
    BY <1>2 DEF Open, OfOpen
  <2>. QED  BY <2>1, <2>2, <1>7, Zenon DEF OfOpen
<1>9. Open(made', offers, pc', tasks')
  <2>. HIDE DEF Open, p, ts
  <2>. QED  BY <1>1, <1>2, <1>3, <1>5, <1>8, OpenSet
<1>10. /\ queued \in [Tabs -> SUBSET (0..made')] /\ unheard \subseteq 0..made'
       /\ timer \in [Tabs -> {"off", "set", "stale"}]
  BY <1>2, <1>3, WiderTypes
<1>. QED  BY <1>1, <1>3, <1>9, <1>10, ReadKeeps

LEMMA ReceiveAnswerTypes ==
    ASSUME TypeOK, NEW u \in Tabs, ReceiveAnswer(u)
    PROVE  TypeOK'
<1>. DEFINE m == Head(wire[u])
            wanted == call[u] /\ pc[u] # None /\ pc[u].sig = "have-local-offer"
            new == IF wanted THEN {Task("accept", pc[u].id, m.n, m.pc)} ELSE {}
            ts == tasks[u] \cup new
<1>1. /\ Receive(u, "webrtc_answer")
      /\ tasks' = [tasks EXCEPT ![u] = ts]
      /\ UNCHANGED <<pc, queued, timer, made, stale, unheard>>
  BY Zenon DEF ReceiveAnswer, makings
<1>2. Open(made, offers, pc, tasks) /\ made \in Nat /\ offers \in Nat
  BY TypesAre
<1>3. m \in MessageTypes(0..made, 0..offers)
  BY <1>1, ReceiveTypes
<1>4. new \subseteq TaskTypes(0..made, 0..offers) /\ OfOpen(pc[u], new)
  BY <1>2, <1>3 DEF MessageTypes, TaskTypes, OfOpen, Task, Open, Peers
<1>5. ts \in SUBSET TaskTypes(0..made, 0..offers) /\ OfOpen(pc[u], ts)
  BY <1>2, <1>4 DEF OfOpen, Open
<1>6. pc' = [pc EXCEPT ![u] = pc[u]] /\ pc[u] \in Peers(0..made, 0..offers) \cup {None}
  BY <1>1, <1>2 DEF Open
<1>7. Open(made, offers, pc', tasks')
  <2>. HIDE DEF ts
  <2>. QED  BY <1>1, <1>5, <1>6, OpenHere
<1>8. /\ queued \in [Tabs -> SUBSET (0..made)]
      /\ timer \in [Tabs -> {"off", "set", "stale"}] /\ unheard \subseteq 0..made
  BY TypesAre
<1>. QED  BY <1>1, <1>7, <1>8, ReadOpens

LEMMA ReceiveCandidateTypes ==
    ASSUME TypeOK, NEW u \in Tabs, ReceiveCandidate(u)
    PROVE  TypeOK'
<1>. DEFINE c == Head(wire[u]).pc
<1>1. /\ Receive(u, "webrtc_ice_candidate")
      /\ AddOrQueue(u, c)
      /\ UNCHANGED <<timer, tasks, made, stale, unheard>>
  BY DEF ReceiveCandidate, makings
<1>2. /\ Open(made, offers, pc, tasks) /\ made \in Nat /\ offers \in Nat
      /\ queued \in [Tabs -> SUBSET (0..made)]
      /\ timer \in [Tabs -> {"off", "set", "stale"}] /\ unheard \subseteq 0..made
  BY TypesAre
<1>3. c \in 0..made
  BY <1>1, ReceiveTypes DEF MessageTypes
<1>4. Open(made, offers, pc', tasks') /\ queued' \in [Tabs -> SUBSET (0..made)]
  <2>1. CASE queued' = [queued EXCEPT ![u] = @ \cup {c}] /\ UNCHANGED pc
    BY <2>1, <1>1, <1>2, <1>3
  <2>2. CASE ~(pc[u] = None) /\ pc' = [pc EXCEPT ![u].cands = @ \cup {c}] /\ UNCHANGED queued
    <3>. DEFINE p == [pc[u] EXCEPT !.cands = @ \cup {c}]
    <3>1. p \in Peers(0..made, 0..offers) /\ p.id = pc[u].id
      BY <2>2, <1>2, <1>3 DEF Open, Peers
    <3>2. p # None
      BY <3>1, <1>2, PeersAreSome
    <3>3. tasks[u] \in SUBSET TaskTypes(0..made, 0..offers) /\ OfOpen(p, tasks[u])
      BY <3>1, <3>2, <1>2 DEF Open, OfOpen
    <3>4. pc' = [pc EXCEPT ![u] = p] /\ tasks' = [tasks EXCEPT ![u] = tasks[u]]
      BY <2>2, <1>1, <1>2 DEF Open
    <3>. HIDE DEF p
    <3>. QED  BY <2>2, <1>2, <3>1, <3>3, <3>4, OpenHere
  <2>. QED  BY <2>1, <2>2, <1>1 DEF AddOrQueue
<1>. QED  BY <1>1, <1>2, <1>4, ReadOpens

LEMMA ConnectionMadeTypes ==
    ASSUME TypeOK, NEW u \in Tabs, ConnectionMade(u)
    PROVE  TypeOK'
<1>. DEFINE p == [pc[u] EXCEPT !.conn = "connected"]
<1>1. /\ pc[u] # None /\ pc' = [pc EXCEPT ![u].conn = "connected"]
      /\ timer' = [timer EXCEPT ![u] = "off"]
      /\ UNCHANGED <<call, queued, tasks, wire, made, stale, offers, joins, shares, faults,
                     hurried, unheard>>
  BY DEF ConnectionMade, ClearPeerDisconnectTimer, Linked, makings, counters
<1>2. /\ Open(made, offers, pc, tasks) /\ made \in Nat /\ offers \in Nat
      /\ queued \in [Tabs -> SUBSET (0..made)] /\ call \in [Tabs -> BOOLEAN]
      /\ timer \in [Tabs -> {"off", "set", "stale"}] /\ unheard \subseteq 0..made
      /\ wire \in [Tabs -> Seq(MessageTypes(0..made, 0..offers))]
      /\ stale \in BOOLEAN /\ hurried \in BOOLEAN
      /\ joins \in [Tabs -> Nat] /\ shares \in Nat /\ faults \in Nat
      /\ made <= made /\ offers <= offers
  BY TypesAre
<1>3. p \in Peers(0..made, 0..offers) /\ p.id = pc[u].id
  BY <1>1, <1>2 DEF Open, Peers
<1>4. p # None
  BY <1>2, <1>3, PeersAreSome
<1>5. tasks[u] \in SUBSET TaskTypes(0..made, 0..offers) /\ OfOpen(p, tasks[u])
  BY <1>2, <1>3, <1>4 DEF Open, OfOpen
<1>6. pc' = [pc EXCEPT ![u] = p] /\ tasks' = [tasks EXCEPT ![u] = tasks[u]]
  BY <1>1, <1>2 DEF Open
<1>7. Open(made, offers, pc', tasks')
  <2>. HIDE DEF p
  <2>. QED  BY <1>3, <1>5, <1>6, OpenHere
<1>8. timer' \in [Tabs -> {"off", "set", "stale"}]
  BY <1>1, <1>2
<1>. QED  BY <1>1, <1>2, <1>7, <1>8, TypesKept

LEMMA LostTypes ==
    ASSUME TypeOK, NEW u \in Tabs, NEW s, ConnectionLost(u, s), faults' \in Nat
    PROVE  TypeOK'
<1>. DEFINE p == [pc[u] EXCEPT !.conn = s, !.restarted = TRUE]
            restart == ~pc[u].restarted /\ ShouldInitiateOffer(u)
            ts == tasks[u] \cup (IF restart THEN Renegotiation(p, 0) ELSE {})
<1>1. /\ pc[u] # None
      /\ UNCHANGED <<call, queued, wire, offers, joins, shares, hurried, unheard>>
  BY DEF ConnectionLost
<1>2. /\ Open(made, offers, pc, tasks) /\ made \in Nat /\ offers \in Nat
      /\ queued \in [Tabs -> SUBSET (0..made)] /\ call \in [Tabs -> BOOLEAN]
      /\ timer \in [Tabs -> {"off", "set", "stale"}] /\ unheard \subseteq 0..made
      /\ wire \in [Tabs -> Seq(MessageTypes(0..made, 0..offers))]
      /\ stale \in BOOLEAN /\ hurried \in BOOLEAN
      /\ joins \in [Tabs -> Nat] /\ shares \in Nat
      /\ made <= made /\ offers <= offers
  BY TypesAre
<1>3. CASE Connect(u, None, tasks[u], 1) /\ UNCHANGED timer
  <2>1. /\ made' \in Nat /\ made <= made' /\ stale' \in BOOLEAN
        /\ Open(made', offers, pc', tasks')
    <3>1. None \in {pc[u], None} /\ tasks[u] \in SUBSET tasks[u] /\ 1 \in 0..3
      OBVIOUS
    <3>. QED  BY <1>3, <3>1, ConnectTypes
  <2>2. /\ queued \in [Tabs -> SUBSET (0..made')] /\ unheard \subseteq 0..made'
        /\ wire \in [Tabs -> Seq(MessageTypes(0..made', 0..offers))]
    BY <1>2, <2>1, WiderTypes
  <2>. QED  BY <1>1, <1>2, <1>3, <2>1, <2>2, TypesKept
<1>4. CASE /\ s = "disconnected"
           /\ pc' = [pc EXCEPT ![u] = p]
           /\ timer' = [timer EXCEPT ![u] = IF @ = "off" THEN "set" ELSE @]
           /\ tasks' = [tasks EXCEPT ![u] = ts]
           /\ UNCHANGED makings
  <2>1. p \in Peers(0..made, 0..offers) /\ p.id = pc[u].id
    BY <1>1, <1>2, <1>4 DEF Open, Peers
  <2>2. p # None
    BY <1>2, <2>1, PeersAreSome
  <2>3. /\ Renegotiation(p, 0) \subseteq TaskTypes(0..made, 0..offers)
        /\ OfOpen(p, Renegotiation(p, 0))
    <3>1. 0 \in 0..3
      OBVIOUS
    <3>. HIDE DEF p
    <3>. QED  BY <3>1, <1>2, <2>1, Renegotiates
  <2>4. ts \in SUBSET TaskTypes(0..made, 0..offers) /\ OfOpen(p, ts)
    <3>1. tasks[u] \in SUBSET TaskTypes(0..made, 0..offers) /\ OfOpen(p, tasks[u])
      BY <1>2, <2>1, <2>2 DEF Open, OfOpen
    <3>. HIDE DEF p
    <3>. QED  BY <3>1, <2>3 DEF OfOpen
  <2>5. Open(made, offers, pc', tasks')
    <3>. HIDE DEF p, ts
    <3>. QED  BY <1>4, <2>1, <2>4, OpenHere
  <2>6. timer' \in [Tabs -> {"off", "set", "stale"}] /\ UNCHANGED <<made, stale>>
    BY <1>2, <1>4 DEF makings
  <2>. QED  BY <1>1, <1>2, <2>5, <2>6, TypesKept
<1>5. CASE DropPeer(u) /\ UNCHANGED makings
  <2>1. UNCHANGED <<made, stale>>
    BY <1>5 DEF makings
  <2>. QED  BY <1>1, <1>2, <1>5, <2>1, DropTypes, TypesKept
<1>. QED  BY <1>3, <1>4, <1>5, Zenon DEF ConnectionLost

LEMMA TimerFiresTypes ==
    ASSUME TypeOK, NEW u \in Tabs, TimerFires(u)
    PROVE  TypeOK'
<1>1. UNCHANGED <<call, queued, wire, made, stale, offers, joins, shares, faults, hurried, unheard>>
  BY DEF TimerFires, makings, counters
<1>2. /\ Open(made, offers, pc, tasks) /\ made \in Nat /\ offers \in Nat
      /\ queued \in [Tabs -> SUBSET (0..made)] /\ call \in [Tabs -> BOOLEAN]
      /\ timer \in [Tabs -> {"off", "set", "stale"}] /\ unheard \subseteq 0..made
      /\ wire \in [Tabs -> Seq(MessageTypes(0..made, 0..offers))]
      /\ stale \in BOOLEAN /\ hurried \in BOOLEAN
      /\ joins \in [Tabs -> Nat] /\ shares \in Nat /\ faults \in Nat
      /\ made <= made /\ offers <= offers
  BY TypesAre
<1>3. Open(made, offers, pc', tasks') /\ timer' \in [Tabs -> {"off", "set", "stale"}]
  <2>1. CASE DropPeer(u)
    BY <2>1, DropTypes
  <2>2. CASE timer' = [timer EXCEPT ![u] = "stale"] /\ UNCHANGED <<pc, tasks>>
    BY <2>2, <1>2
  <2>. QED  BY <2>1, <2>2 DEF TimerFires
<1>. QED  BY <1>1, <1>2, <1>3, TypesKept

\* Whatever happens next.
LEMMA StepTypes ==
    ASSUME TypeOK, [Next]_vars
    PROVE  TypeOK'
<1>1. CASE UNCHANGED vars
  BY <1>1 DEF vars, TypeOK, Ids, Tasks, Messages
<1>2. ASSUME NEW u \in Tabs, TaskDone(u) PROVE TypeOK'
  BY <1>2, OfferMadeTypes, OfferRefusedTypes, RetryTypes, RolledBackTypes,
     RemoteOfferSetTypes, AnswerMadeTypes, AnswerSetTypes DEF TaskDone
<1>3. ASSUME NEW u \in Tabs, MessageRead(u) PROVE TypeOK'
  BY <1>3, ReceiveJoinTypes, ReceiveNothingTypes, ReceiveLeaveTypes, ReceiveUnheardTypes,
     ReceiveOfferTypes, ReceiveAnswerTypes, ReceiveCandidateTypes DEF MessageRead
<1>4. ASSUME NEW u \in Tabs, NEW s, ConnectionLost(u, s), faults' \in {faults, faults + 1}
      PROVE  TypeOK'
  <2>1. faults' \in Nat
    BY <1>4, TypesAre
  <2>. QED  BY <1>4, <2>1, LostTypes
<1>5. CASE Progress
  <2>1. PICK u \in Tabs : TaskDone(u) \/ MessageRead(u) \/ ConnectionMade(u)
                          \/ FarEndNoticed(u) \/ TimerFires(u)
    BY <1>5 DEF Progress
  <2>2. CASE FarEndNoticed(u)
    BY <2>2, <1>4 DEF FarEndNoticed
  <2>. QED  BY <2>1, <2>2, <1>2, <1>3, ConnectionMadeTypes, TimerFiresTypes
<1>6. CASE \E u \in Tabs : Join(u) \/ Leave(u) \/ Share(u) \/ Vanish(u)
                           \/ NetworkFails(u) \/ NetworkStaysDown(u)
  <2>1. PICK u \in Tabs : Join(u) \/ Leave(u) \/ Share(u) \/ Vanish(u)
                          \/ NetworkFails(u) \/ NetworkStaysDown(u)
    BY <1>6
  <2>2. CASE NetworkFails(u)
    BY <2>2, <1>4 DEF NetworkFails
  <2>3. CASE NetworkStaysDown(u)
    BY <2>3, <1>4 DEF NetworkStaysDown
  <2>. QED  BY <2>1, <2>2, <2>3, JoinTypes, LeaveTypes, ShareTypes, VanishTypes
<1>. QED  BY <1>1, <1>5, <1>6 DEF Next

\* The types hold: the numbers of connections and of offers bound what is said of
\* them anywhere, and what a closed connection was asked for is gone with it.
THEOREM TypeCorrectness == Spec => []TypeOK
<1>1. Init => TypeOK
  BY InitTypes
<1>2. TypeOK /\ [Next]_vars => TypeOK'
  BY StepTypes
<1>. QED  BY <1>1, <1>2, PTL DEF Spec

----------------------------------------------------------------------------
(* Calm calls: nobody shares a screen, nothing fails, and no connection    *)
(* was made while candidates of an earlier one were waiting.  What the     *)
(* tabs do then is less than what they could do: Hi makes the offers, Lo   *)
(* answers them, and nobody waits to try again.                            *)

Calm == Undisturbed /\ ~stale

IsJoin(m) == m.type = "voice_join"
IsLeave(m) == m.type = "voice_leave"
IsOffer(m) == m.type = "webrtc_offer"
IsAnswer(m) == m.type = "webrtc_answer"
IsCandidate(m, c) == m.type = "webrtc_ice_candidate" /\ m.pc = c

\* What is on its way to a tab.
Coming(u) == {wire[u][i] : i \in DOMAIN wire[u]}
JoinComing(u) == \E m \in Coming(u) : IsJoin(m)
LeaveComing(u) == \E m \in Coming(u) : IsLeave(m)

\* Outside the call there is no connection.
CallInv == \A u \in Tabs : ~call[u] => pc[u] = None

\* Who asks for what, and who sends what.
RoleInv ==
    /\ \A t \in tasks[Hi] : (t.do = "offer" /\ t.n \in {0, 1}) \/ t.do = "accept"
    /\ \A t \in tasks[Lo] : t.do \in {"rollback", "remote", "answer"}
    /\ \A m \in Coming(Hi) : m.type \in {"voice_join", "voice_leave", "webrtc_answer",
                                         "webrtc_ice_candidate"}
    /\ \A m \in Coming(Lo) : m.type \in {"voice_join", "voice_leave", "webrtc_offer",
                                         "webrtc_ice_candidate"}
    /\ pc[Hi] # None => pc[Hi].sig \in {"stable", "have-local-offer"}
    /\ pc[Lo] # None => pc[Lo].sig \in {"stable", "have-remote-offer"} /\ pc[Lo].offer = 0

\* What is left at zero until a negotiation has come that far.
CountInv ==
    /\ \A u \in Tabs : \A m \in Coming(u) : IsOffer(m) \/ IsAnswer(m) => m.n # 0 /\ m.pc # 0
    /\ \A u \in Tabs : \A t \in tasks[u] : t.do # "offer" => t.n # 0 /\ t.far # 0
    /\ \A u \in Tabs : pc[u] # None =>
           /\ pc[u].conn # "new" => pc[u].deal # 0
           /\ pc[u].conn = "new" => ~pc[u].restarted
           /\ pc[u].deal # 0 => pc[u].far # 0
    /\ pc[Lo] # None /\ pc[Lo].sig = "have-remote-offer" => pc[Lo].heard # 0 /\ pc[Lo].far # 0
    /\ pc[Hi] # None /\ pc[Hi].sig = "have-local-offer" => pc[Hi].offer # 0

----------------------------------------------------------------------------
(* The steps of a calm call, for the tab u that takes one and the other, v. *)

\* The other tab has what it had, and is sent ms.
Elsewhere(v, ms) ==
    /\ pc'[v] = pc[v] /\ tasks'[v] = tasks[v] /\ queued'[v] = queued[v] /\ call'[v] = call[v]
    /\ wire'[v] = wire[v] \o ms

\* The tab reads its next message, or none.
Reads(u) == wire[u] # <<>> /\ wire'[u] = Tail(wire[u]) /\ call'[u] = call[u]
Works(u) == wire'[u] = wire[u] /\ call'[u] = call[u]

\* A new connection, and what is asked of it.
FirstTasks(u, id) == IF u = Hi THEN {Task("offer", id, 1, 0)} ELSE {}
Renewed(u) ==
    /\ made' = made + 1
    /\ pc'[u] = NewPeer(made + 1, FALSE)
    /\ tasks'[u] = FirstTasks(u, made + 1)

Gone(u) == pc'[u] = None /\ tasks'[u] = {} /\ made' = made

\* The same connection, as p, with the tasks ts.
Kept(u, p, ts) == pc[u] # None /\ pc'[u] = p /\ tasks'[u] = ts /\ made' = made

Joins(u, v) ==
    /\ ~call[u] /\ call'[u] /\ pc[u] = None
    /\ Renewed(u)
    /\ queued'[u] = queued[u] /\ wire'[u] = wire[u] /\ unheard' = unheard /\ offers' = offers
    /\ Elsewhere(v, <<Msg("voice_join", 0, 0)>>)

Leaves(u, v) ==
    /\ call[u] /\ ~call'[u]
    /\ Gone(u)
    /\ queued'[u] = {} /\ wire'[u] = wire[u] /\ unheard' = unheard /\ offers' = offers
    /\ Elsewhere(v, <<Msg("voice_leave", 0, 0)>>)

ReadsJoin(u, v) ==
    /\ Reads(u) /\ IsJoin(Head(wire[u])) /\ call[u]
    /\ \/ pc[u] = None /\ Renewed(u)
       \/ Kept(u, pc[u], tasks[u] \cup IF pc[u].sig = "stable" THEN FirstTasks(u, pc[u].id) ELSE {})
    /\ queued'[u] = queued[u] /\ unheard' = unheard /\ offers' = offers
    /\ Elsewhere(v, <<>>)

ReadsLeave(u, v) ==
    /\ Reads(u) /\ IsLeave(Head(wire[u]))
    /\ Gone(u)
    /\ queued'[u] = queued[u] /\ unheard' = unheard /\ offers' = offers
    /\ Elsewhere(v, <<>>)

\* What comes when the tab is not in the call.
ReadsInVain(u, v) ==
    /\ Reads(u) /\ ~call[u] /\ ~IsLeave(Head(wire[u]))
    /\ unheard' = IF IsJoin(Head(wire[u])) \/ IsAnswer(Head(wire[u])) THEN unheard
                  ELSE unheard \cup {Head(wire[u]).pc}
    /\ pc'[u] = None /\ pc[u] = None /\ tasks'[u] = tasks[u] /\ queued'[u] = queued[u]
    /\ made' = made /\ offers' = offers
    /\ Elsewhere(v, <<>>)

ReadsCandidate(u, v) ==
    LET c == Head(wire[u]).pc
    IN  /\ Reads(u) /\ IsCandidate(Head(wire[u]), c) /\ call[u]
        /\ tasks'[u] = tasks[u]
        /\ \/ pc'[u] = pc[u] /\ queued'[u] = queued[u] \cup {c}
           \/ /\ pc[u] # None /\ pc'[u] = [pc[u] EXCEPT !.cands = @ \cup {c}]
              /\ queued'[u] = queued[u]
        /\ made' = made /\ unheard' = unheard /\ offers' = offers
        /\ Elsewhere(v, <<>>)

\* The connection p of the tab changes, and the tasks are ts.
Changes(u, v, p, ts) ==
    /\ Works(u)
    /\ Kept(u, p, ts)
    /\ queued'[u] = queued[u] /\ unheard' = unheard /\ offers' = offers
    /\ Elsewhere(v, <<>>)

Connects(u, v) ==
    /\ Linked
    /\ Changes(u, v, [pc[u] EXCEPT !.conn = "connected"], tasks[u])

Disconnects(u, v) ==
    /\ pc[u] # None /\ pc[u].conn = "connected" /\ FarEndGone(u)
    /\ Changes(u, v, [pc[u] EXCEPT !.conn = "disconnected", !.restarted = TRUE],
               tasks[u] \cup IF u = Hi /\ ~pc[u].restarted /\ pc[u].sig = "stable"
                             THEN {Task("offer", pc[u].id, 0, 0)} ELSE {})

Forgets(u, v) == \E t \in tasks[u] : Changes(u, v, pc[u], tasks[u] \ {t})

Idles(u, v) ==
    /\ Works(u)
    /\ pc'[u] = pc[u] /\ tasks'[u] = tasks[u] /\ made' = made
    /\ queued'[u] = queued[u] /\ unheard' = unheard /\ offers' = offers
    /\ Elsewhere(v, <<>>)

\* The connection is closed, or replaced by another.
Drops(u, v) ==
    /\ pc[u] # None /\ (pc[u].conn = "disconnected" \/ FarEndGone(u))
    /\ Works(u)
    /\ Gone(u)
    /\ queued'[u] = queued[u] /\ unheard' = unheard /\ offers' = offers
    /\ Elsewhere(v, <<>>)

Replaces(u, v) ==
    /\ pc[u] # None /\ pc[u].restarted /\ pc[u].conn = "connected" /\ FarEndGone(u)
    /\ Works(u)
    /\ Renewed(u)
    /\ queued'[u] = queued[u] /\ unheard' = unheard /\ offers' = offers
    /\ Elsewhere(v, <<>>)

\* Hi offers, and hears the answer.
Offers ==
    \E t \in tasks[Hi] :
        /\ t.do = "offer"
        /\ Works(Hi) /\ offers' = offers + 1
        /\ Kept(Hi, [pc[Hi] EXCEPT !.sig = "have-local-offer", !.offer = offers + 1],
                tasks[Hi] \ {t})
        /\ queued'[Hi] = queued[Hi] /\ unheard' = unheard
        /\ Elsewhere(Lo, <<Msg("webrtc_offer", pc[Hi].id, offers + 1)>> \o CandidateFound(pc[Hi]))

ReadsAnswer ==
    LET m == Head(wire[Hi])
    IN  /\ Reads(Hi) /\ IsAnswer(m) /\ call[Hi]
        /\ pc'[Hi] = pc[Hi] /\ made' = made
        /\ tasks'[Hi] = tasks[Hi] \cup
               IF pc[Hi] # None /\ pc[Hi].sig = "have-local-offer"
               THEN {Task("accept", pc[Hi].id, m.n, m.pc)} ELSE {}
        /\ queued'[Hi] = queued[Hi] /\ unheard' = unheard /\ offers' = offers
        /\ Elsewhere(Lo, <<>>)

SetsAnswer ==
    \E t \in tasks[Hi] :
        /\ t.do = "accept" /\ pc[Hi].sig = "have-local-offer"
        /\ Changes(Hi, Lo, [pc[Hi] EXCEPT !.sig = "stable", !.far = t.far, !.deal = pc[Hi].offer],
                   tasks[Hi] \ {t})

\* Lo hears the offer, and answers.
ReadsOffer ==
    LET m == Head(wire[Lo])
    IN  /\ Reads(Lo) /\ IsOffer(m) /\ call[Lo]
        /\ \/ /\ pc[Lo] = None /\ made' = made + 1 /\ pc'[Lo] = NewPeer(made + 1, FALSE)
              /\ tasks'[Lo] = {Task("remote", made + 1, m.n, m.pc)}
           \/ \E do \in {"remote", "rollback"} :
                  Kept(Lo, pc[Lo], tasks[Lo] \cup {Task(do, pc[Lo].id, m.n, m.pc)})
        /\ queued'[Lo] = queued[Lo] /\ unheard' = unheard /\ offers' = offers
        /\ Elsewhere(Hi, <<>>)

SetsOffer ==
    \E t \in tasks[Lo] :
        /\ t.do = "remote"
        /\ Works(Lo)
        /\ Kept(Lo, [pc[Lo] EXCEPT !.sig = "have-remote-offer", !.far = t.far, !.heard = t.n,
                                   !.cands = @ \cup queued[Lo]],
                (tasks[Lo] \ {t}) \cup {[t EXCEPT !.do = "answer"]})
        /\ queued'[Lo] = {} /\ unheard' = unheard /\ offers' = offers
        /\ Elsewhere(Hi, <<>>)

Answers ==
    \E t \in tasks[Lo] :
        /\ t.do = "answer" /\ pc[Lo].sig = "have-remote-offer"
        /\ Works(Lo)
        /\ Kept(Lo, [pc[Lo] EXCEPT !.sig = "stable", !.deal = pc[Lo].heard], tasks[Lo] \ {t})
        /\ queued'[Lo] = queued[Lo] /\ unheard' = unheard /\ offers' = offers
        /\ Elsewhere(Hi, <<Msg("webrtc_answer", pc[Lo].id, pc[Lo].heard)>>
                             \o CandidateFound(pc[Lo]))

\* What either tab does, and what one of them does.
BothDo(u, v) ==
    \/ Joins(u, v) \/ Leaves(u, v) \/ ReadsJoin(u, v) \/ ReadsLeave(u, v) \/ ReadsInVain(u, v)
    \/ ReadsCandidate(u, v) \/ Connects(u, v) \/ Disconnects(u, v) \/ Forgets(u, v)
    \/ Idles(u, v) \/ Drops(u, v) \/ Replaces(u, v)
HiDoes == BothDo(Hi, Lo) \/ Offers \/ ReadsAnswer \/ SetsAnswer
LoDoes == BothDo(Lo, Hi) \/ ReadsOffer \/ SetsOffer \/ Answers

Roles == CallInv /\ RoleInv /\ CountInv

\* A step that ends calm began so.
LEMMA CalmBefore ==
    ASSUME TypeOK, Next, Calm'
    PROVE  Calm
<1>1. shares \in Nat /\ faults \in Nat /\ stale \in BOOLEAN
  BY TypesAre
<1>2. shares' = 0 /\ faults' = 0 /\ stale' = FALSE
  BY StepTypes, TypesAre DEF Calm, Undisturbed, TypeOK
<1>3. ASSUME NEW u, NEW old, NEW rest, NEW n, Connect(u, old, rest, n)
      PROVE  stale = FALSE
  BY <1>1, <1>2, <1>3 DEF Connect
<1>4. ASSUME NEW u, NEW s, ConnectionLost(u, s)
      PROVE  stale = FALSE /\ shares = 0
  <2>1. shares' = shares
    BY <1>4 DEF ConnectionLost
  <2>2. Connect(u, None, tasks[u], 1) \/ UNCHANGED makings
    BY <1>4, Zenon DEF ConnectionLost
  <2>. QED  BY <2>1, <2>2, <1>2, <1>3 DEF makings
<1>5. ASSUME NEW u \in Tabs, TaskDone(u) PROVE stale = FALSE /\ shares = 0 /\ faults = 0
  <2>1. UNCHANGED counters
    BY <1>5 DEF TaskDone, OfferMade, OfferRefused, Retry, RolledBack, RemoteOfferSet,
                AnswerMade, AnswerSet, Settles
  <2>2. stale' = stale \/ \E t \in tasks[u] : Connect(u, pc[u], tasks[u] \ {t}, t.n)
    BY <1>5 DEF TaskDone, OfferMade, OfferRefused, Retry, RolledBack, RemoteOfferSet,
                AnswerMade, AnswerSet, makings
  <2>. QED  BY <2>1, <2>2, <1>2, <1>3 DEF counters
<1>6. ASSUME NEW u \in Tabs, MessageRead(u) PROVE stale = FALSE /\ shares = 0 /\ faults = 0
  <2>1. UNCHANGED counters
    BY <1>6 DEF MessageRead, ReceiveJoin, ReceiveNothing, ReceiveLeave, ReceiveUnheard,
                ReceiveOffer, ReceiveAnswer, ReceiveCandidate, Receive
  <2>2. CASE ReceiveOffer(u)
    BY <1>1, <1>2, <2>1, <2>2 DEF ReceiveOffer, counters
  <2>3. CASE ReceiveJoin(u)
    BY <1>2, <1>3, <2>1, <2>3 DEF ReceiveJoin, counters
  <2>4. CASE ~ReceiveOffer(u) /\ ~ReceiveJoin(u)
    BY <1>6, <1>2, <2>1, <2>4 DEF MessageRead, ReceiveNothing, ReceiveLeave, ReceiveUnheard,
       ReceiveAnswer, ReceiveCandidate, counters, makings
  <2>. QED  BY <2>2, <2>3, <2>4
<1>7. CASE Progress
  <2>1. PICK u \in Tabs : TaskDone(u) \/ MessageRead(u) \/ ConnectionMade(u)
                          \/ FarEndNoticed(u) \/ TimerFires(u)
    BY <1>7 DEF Progress
  <2>2. CASE FarEndNoticed(u)
    BY <2>2, <1>2, <1>4 DEF FarEndNoticed, Calm, Undisturbed
  <2>3. CASE ConnectionMade(u) \/ TimerFires(u)
    BY <2>3, <1>2 DEF ConnectionMade, TimerFires, makings, counters, Calm, Undisturbed
  <2>. QED  BY <2>1, <2>2, <2>3, <1>5, <1>6 DEF Calm, Undisturbed
<1>8. CASE \E u \in Tabs : Join(u) \/ Leave(u) \/ Share(u) \/ Vanish(u)
                           \/ NetworkFails(u) \/ NetworkStaysDown(u)
  <2>1. PICK u \in Tabs : Join(u) \/ Leave(u) \/ Share(u) \/ Vanish(u)
                          \/ NetworkFails(u) \/ NetworkStaysDown(u)
    BY <1>8
  <2>2. CASE Join(u)
    BY <2>2, <1>2, <1>3 DEF Join, Calm, Undisturbed
  <2>3. CASE Leave(u)
    BY <2>3, <1>2 DEF Leave, makings, counters, Calm, Undisturbed
  <2>4. ~Share(u) /\ ~Vanish(u) /\ ~NetworkFails(u) /\ ~NetworkStaysDown(u)
    BY <1>1, <1>2 DEF Share, Vanish, NetworkFails, NetworkStaysDown
  <2>. QED  BY <2>1, <2>2, <2>3, <2>4
<1>. QED  BY <1>7, <1>8 DEF Next

\* What is done elsewhere, and what is sent.
LEMMA Untouched ==
    ASSUME TypeOK, NEW u \in Tabs, NEW p, NEW ts, NEW ms,
           pc' = [pc EXCEPT ![u] = p], tasks' = [tasks EXCEPT ![u] = ts],
           UNCHANGED queued \/ \E q : queued' = [queued EXCEPT ![u] = q],
           UNCHANGED call \/ \E b : call' = [call EXCEPT ![u] = b],
           SendAll(u, ms)
    PROVE  /\ Elsewhere(Other(u), ms)
           /\ wire'[u] = wire[u] /\ pc'[u] = p /\ tasks'[u] = ts
<1>1. Other(u) \in Tabs /\ Other(u) # u
  BY OthersAre
<1>2. /\ pc \in [Tabs -> Peers(0..made, 0..offers) \cup {None}]
      /\ tasks \in [Tabs -> SUBSET TaskTypes(0..made, 0..offers)]
      /\ queued \in [Tabs -> SUBSET (0..made)] /\ call \in [Tabs -> BOOLEAN]
      /\ wire \in [Tabs -> Seq(MessageTypes(0..made, 0..offers))]
  BY TypesAre DEF Open
<1>3. /\ pc'[Other(u)] = pc[Other(u)] /\ tasks'[Other(u)] = tasks[Other(u)]
      /\ queued'[Other(u)] = queued[Other(u)] /\ call'[Other(u)] = call[Other(u)]
  BY <1>1, <1>2
<1>4. wire'[Other(u)] = wire[Other(u)] \o ms /\ wire'[u] = wire[u]
  BY <1>1, <1>2 DEF SendAll
<1>. QED  BY <1>2, <1>3, <1>4 DEF Elsewhere

\* ... when nothing is sent.
LEMMA UntouchedBy ==
    ASSUME TypeOK, NEW u \in Tabs, NEW p, NEW ts, NEW w,
           pc' = [pc EXCEPT ![u] = p], tasks' = [tasks EXCEPT ![u] = ts],
           UNCHANGED queued \/ \E q : queued' = [queued EXCEPT ![u] = q],
           UNCHANGED call, wire' = [wire EXCEPT ![u] = w]
    PROVE  /\ Elsewhere(Other(u), <<>>)
           /\ wire'[u] = w /\ pc'[u] = p /\ tasks'[u] = ts /\ call'[u] = call[u]
<1>1. Other(u) \in Tabs /\ Other(u) # u
  BY OthersAre
<1>2. /\ pc \in [Tabs -> Peers(0..made, 0..offers) \cup {None}]
      /\ tasks \in [Tabs -> SUBSET TaskTypes(0..made, 0..offers)]
      /\ queued \in [Tabs -> SUBSET (0..made)] /\ call \in [Tabs -> BOOLEAN]
      /\ wire \in [Tabs -> Seq(MessageTypes(0..made, 0..offers))]
  BY TypesAre DEF Open
<1>3. /\ pc'[Other(u)] = pc[Other(u)] /\ tasks'[Other(u)] = tasks[Other(u)]
      /\ queued'[Other(u)] = queued[Other(u)] /\ call'[Other(u)] = call[Other(u)]
  BY <1>1, <1>2
<1>4. wire'[Other(u)] = wire[Other(u)] /\ wire'[u] = w
  BY <1>1, <1>2
<1>5. wire[Other(u)] \o <<>> = wire[Other(u)]
  BY <1>1, <1>2
<1>. QED  BY <1>2, <1>3, <1>4, <1>5 DEF Elsewhere

\* Nobody waits to try again, and so nothing outlives a connection.
LEMMA NothingWaits ==
    ASSUME TypeOK, Roles, NEW u \in Tabs
    PROVE  /\ Waits(u) = {} /\ \A t \in tasks[u] : t.do # "retry"
           /\ pc[u] = None => tasks[u] = {}
           /\ ~call[u] => pc[u] = None /\ tasks[u] = {}
<1>1. \A t \in tasks[u] : t.do # "retry"
  BY DEF Roles, RoleInv, Tabs
<1>2. OfOpen(pc[u], tasks[u])
  BY TypesAre DEF Open
<1>3. Waits(u) = {}
  BY <1>1 DEF Waits
<1>4. pc[u] = None => tasks[u] = {}
  BY <1>1, <1>2 DEF OfOpen
<1>5. ~call[u] => pc[u] = None
  BY DEF Roles, CallInv
<1>. QED  BY <1>1, <1>3, <1>4, <1>5

\* The first attempt to connect makes a connection, or keeps the one there is.
LEMMA ConnectsCalmly ==
    ASSUME TypeOK, Roles, NEW u \in Tabs, NEW old \in {pc[u], None},
           Connect(u, old, tasks[u], 1), ~stale'
    PROVE  LET p == IF old = None THEN NewPeer(made + 1, FALSE) ELSE old
               ts == IF old = None THEN FirstTasks(u, made + 1)
                     ELSE tasks[u] \cup IF old.sig = "stable" THEN FirstTasks(u, old.id) ELSE {}
           IN  /\ made' = IF old = None THEN made + 1 ELSE made
               /\ pc' = [pc EXCEPT ![u] = p] /\ tasks' = [tasks EXCEPT ![u] = ts]
<1>. DEFINE kept == old # None
            q == IF kept THEN old ELSE NewPeer(made + 1, FALSE)
            fails == ~kept /\ queued[u] # {}
            more == IF fails THEN Wait(1)
                    ELSE IF ShouldInitiateOffer(u) THEN Renegotiation(q, 1) ELSE {}
            ts0 == (IF kept THEN tasks[u] ELSE tasks[u] \cap Waits(u)) \cup more
<1>1. /\ pc' = [pc EXCEPT ![u] = q]
      /\ made' = IF kept THEN made ELSE made + 1
      /\ stale' = (stale \/ fails)
      /\ tasks' = [tasks EXCEPT ![u] = ts0]
  <2>1. (1 = 2 /\ HasTurn) = FALSE
    OBVIOUS
  <2>. QED  BY <2>1 DEF Connect
<1>2. ~fails
  BY <1>1
<1>3. Waits(u) = {}
  BY NothingWaits
<1>4. CASE kept
  <2>1. more = IF old.sig = "stable" THEN FirstTasks(u, old.id) ELSE {}
    BY <1>4 DEF ShouldInitiateOffer, Renegotiation, FirstTasks
  <2>. HIDE DEF more
  <2>. QED  BY <1>1, <1>4, <2>1
<1>5. CASE ~kept
  <2>1. more = FirstTasks(u, made + 1)
    BY <1>2, <1>5 DEF ShouldInitiateOffer, Renegotiation, FirstTasks, NewPeer
  <2>. HIDE DEF more
  <2>. QED  BY <1>1, <1>3, <1>5, <2>1
<1>. QED  BY <1>4, <1>5

LEMMA JoinDoes ==
    ASSUME TypeOK, Roles, Calm', NEW u \in Tabs, Join(u)
    PROVE  Joins(u, Other(u))
<1>1. /\ ~call[u] /\ Connect(u, pc[u], tasks[u], 1) /\ ~stale'
      /\ SendAll(u, <<Msg("voice_join", 0, 0)>>)
      /\ call' = [call EXCEPT ![u] = TRUE]
      /\ UNCHANGED <<queued, offers, unheard>>
  BY DEF Join, Send, Calm
<1>2. pc[u] = None
  BY <1>1, NothingWaits
<1>3. /\ made' = made + 1
      /\ pc' = [pc EXCEPT ![u] = NewPeer(made + 1, FALSE)]
      /\ tasks' = [tasks EXCEPT ![u] = FirstTasks(u, made + 1)]
  BY <1>1, <1>2, ConnectsCalmly
<1>4. /\ Elsewhere(Other(u), <<Msg("voice_join", 0, 0)>>)
      /\ wire'[u] = wire[u] /\ pc'[u] = NewPeer(made + 1, FALSE)
      /\ tasks'[u] = FirstTasks(u, made + 1)
  BY <1>1, <1>3, Untouched
<1>5. call'[u]
  BY <1>1, TypesAre
<1>. QED  BY <1>1, <1>2, <1>3, <1>4, <1>5 DEF Joins, Renewed

LEMMA LeaveDoes ==
    ASSUME TypeOK, Roles, NEW u \in Tabs, Leave(u)
    PROVE  Leaves(u, Other(u))
<1>1. /\ call[u]
      /\ SendAll(u, <<Msg("voice_leave", 0, 0)>>)
      /\ pc' = [pc EXCEPT ![u] = None] /\ tasks' = [tasks EXCEPT ![u] = Waits(u)]
      /\ queued' = [queued EXCEPT ![u] = {}] /\ call' = [call EXCEPT ![u] = FALSE]
      /\ UNCHANGED <<made, offers, unheard>>
  BY DEF Leave, Send, Cleanup, Closed, makings, counters
<1>2. /\ Elsewhere(Other(u), <<Msg("voice_leave", 0, 0)>>)
      /\ wire'[u] = wire[u] /\ pc'[u] = None /\ tasks'[u] = Waits(u)
  BY <1>1, Untouched
<1>3. ~call'[u] /\ queued'[u] = {}
  BY <1>1, TypesAre
<1>. QED  BY <1>1, <1>2, <1>3, NothingWaits DEF Leaves, Gone

\* Something is settled, of a connection that is there.
LEMMA SettlesCalmly ==
    ASSUME TypeOK, Roles, NEW u \in Tabs, NEW t, NEW do, Settles(u, t, do)
    PROVE  /\ do # "retry"
           /\ do \in {"offer", "accept"} => u = Hi
           /\ do \in {"rollback", "remote", "answer"} => u = Lo
           /\ t \in tasks[u] /\ t.do = do
           /\ pc[u] # None /\ pc[u] \in Peers(0..made, 0..offers) /\ t.pc = pc[u].id
           /\ UNCHANGED <<call, unheard>>
<1>1. t \in tasks[u] /\ t.do = do /\ UNCHANGED <<call, unheard>>
  BY DEF Settles
<1>2. do # "retry"
  BY <1>1, NothingWaits
<1>3. /\ do \in {"offer", "accept"} => u = Hi
      /\ do \in {"rollback", "remote", "answer"} => u = Lo
  BY <1>1 DEF Roles, RoleInv, Tabs
<1>. QED  BY <1>1, <1>2, <1>3, SettledTypes

LEMMA OfferDoes ==
    ASSUME TypeOK, Roles, NEW u \in Tabs, NEW t, OfferMade(u, t)
    PROVE  u = Hi /\ Offers
<1>. DEFINE p == [pc[u] EXCEPT !.sig = "have-local-offer", !.offer = offers + 1]
            ms == <<Msg("webrtc_offer", t.pc, offers + 1)>> \o CandidateFound(pc[u])
<1>1. /\ Settles(u, t, "offer")
      /\ offers' = offers + 1
      /\ tasks' = [tasks EXCEPT ![u] = @ \ {t}]
      /\ SendAll(u, ms)
      /\ UNCHANGED <<queued, made>>
  BY DEF OfferMade, makings
<1>2. /\ u = Hi /\ t \in tasks[u] /\ t.do = "offer"
      /\ pc[u] # None /\ pc[u] \in Peers(0..made, 0..offers) /\ t.pc = pc[u].id
      /\ UNCHANGED <<call, unheard>>
  BY <1>1, SettlesCalmly
<1>3. pc' = [pc EXCEPT ![u] = p]
  BY <1>1 DEF OfferMade
<1>4. /\ Elsewhere(Other(u), ms)
      /\ wire'[u] = wire[u] /\ pc'[u] = p /\ tasks'[u] = tasks[u] \ {t}
  <2>1. tasks' = [tasks EXCEPT ![u] = tasks[u] \ {t}] /\ UNCHANGED queued /\ UNCHANGED call
    BY <1>1, <1>2
  <2>. HIDE DEF p, ms
  <2>. QED  BY <2>1, <1>1, <1>3, Untouched
<1>. QED  BY <1>1, <1>2, <1>4 DEF Offers, Works, Kept, Other

LEMMA NothingRefused ==
    ASSUME TypeOK, Roles, NEW u \in Tabs, NEW t
    PROVE  ~OfferRefused(u, t) /\ ~Retry(u, t)
<1>1. ~Retry(u, t)
  BY SettlesCalmly DEF Retry
<1>2. ASSUME OfferRefused(u, t) PROVE FALSE
  <2>1. u = Hi /\ pc[u] # None
    BY <1>2, SettlesCalmly DEF OfferRefused
  <2>. QED  BY <2>1, <1>2 DEF Roles, RoleInv, OfferRefused
<1>. QED  BY <1>1, <1>2

\* Nothing is done but that a task is off the list.
LEMMA OnlyForgets ==
    ASSUME TypeOK, NEW u \in Tabs, NEW t \in tasks[u], pc[u] # None,
           tasks' = [tasks EXCEPT ![u] = @ \ {t}],
           UNCHANGED <<call, pc, queued, wire, made, offers, unheard>>
    PROVE  Forgets(u, Other(u))
<1>1. Other(u) \in Tabs /\ Other(u) # u
  BY OthersAre
<1>2. /\ Elsewhere(Other(u), <<>>)
      /\ wire'[u] = wire[u] /\ tasks'[u] = tasks[u] \ {t} /\ call'[u] = call[u]
  <2>1. tasks \in [Tabs -> SUBSET TaskTypes(0..made, 0..offers)]
    BY TypesAre DEF Open
  <2>2. tasks'[Other(u)] = tasks[Other(u)] /\ tasks'[u] = tasks[u] \ {t}
    BY <1>1, <2>1
  <2>3. wire[Other(u)] \in Seq(MessageTypes(0..made, 0..offers))
    BY <1>1, TypesAre DEF Open
  <2>4. wire[Other(u)] \o <<>> = wire[Other(u)]
    BY <2>3
  <2>. QED  BY <2>2, <2>4 DEF Elsewhere
<1>3. /\ pc'[u] = pc[u] /\ queued'[u] = queued[u] /\ made' = made /\ offers' = offers
      /\ unheard' = unheard
  OBVIOUS
<1>4. Changes(u, Other(u), pc[u], tasks[u] \ {t})
  BY <1>2, <1>3 DEF Changes, Works, Kept
<1>. QED  BY <1>4, Zenon DEF Forgets

LEMMA RolledBackDoes ==
    ASSUME TypeOK, Roles, NEW u \in Tabs, NEW t, RolledBack(u, t)
    PROVE  Forgets(u, Other(u))
<1>1. u = Lo /\ t \in tasks[u] /\ pc[u] # None /\ UNCHANGED <<call, unheard>>
  BY SettlesCalmly DEF RolledBack
<1>2. pc[u].sig # "have-local-offer"
  BY <1>1 DEF Roles, RoleInv
<1>. QED  BY <1>1, <1>2, OnlyForgets DEF RolledBack, makings

LEMMA RemoteOfferDoes ==
    ASSUME TypeOK, Roles, NEW u \in Tabs, NEW t, RemoteOfferSet(u, t)
    PROVE  u = Lo /\ SetsOffer
<1>. DEFINE p == [pc[u] EXCEPT !.sig = "have-remote-offer", !.far = t.far, !.heard = t.n,
                               !.cands = @ \cup queued[u]]
            ts == (tasks[u] \ {t}) \cup {[t EXCEPT !.do = "answer"]}
<1>1. /\ Settles(u, t, "remote")
      /\ tasks' = [tasks EXCEPT ![u] = ts]
      /\ queued' = [queued EXCEPT ![u] = {}]
      /\ UNCHANGED <<wire, made, offers>>
  BY DEF RemoteOfferSet, FlushPendingCandidates, makings
<1>2. /\ u = Lo /\ t \in tasks[u] /\ t.do = "remote"
      /\ pc[u] # None /\ pc[u] \in Peers(0..made, 0..offers)
      /\ UNCHANGED <<call, unheard>>
  BY <1>1, SettlesCalmly
<1>3. pc' = [pc EXCEPT ![u] = p]
  BY <1>2 DEF RemoteOfferSet, FlushPendingCandidates, Peers
<1>4. wire' = [wire EXCEPT ![u] = wire[u]] /\ queued'[u] = {}
  BY <1>1, TypesAre
<1>5. /\ Elsewhere(Other(u), <<>>)
      /\ wire'[u] = wire[u] /\ pc'[u] = p /\ tasks'[u] = ts /\ call'[u] = call[u]
  <2>1. (\E q : queued' = [queued EXCEPT ![u] = q]) /\ UNCHANGED call
    BY <1>1, <1>2
  <2>. HIDE DEF p, ts
  <2>. QED  BY <2>1, <1>1, <1>3, <1>4, UntouchedBy
<1>6. Other(Lo) = Hi
  BY TabAssumption DEF Other
<1>. QED  BY <1>1, <1>2, <1>4, <1>5, <1>6 DEF SetsOffer, Works, Kept

LEMMA AnswerDoes ==
    ASSUME TypeOK, Roles, NEW u \in Tabs, NEW t, AnswerMade(u, t)
    PROVE  u = Lo /\ (Answers \/ Forgets(u, Other(u)))
<1>. DEFINE p == [pc[u] EXCEPT !.sig = "stable", !.deal = pc[u].heard]
            ms == <<Msg("webrtc_answer", t.pc, pc[u].heard)>> \o CandidateFound(pc[u])
<1>1. /\ Settles(u, t, "answer")
      /\ tasks' = [tasks EXCEPT ![u] = @ \ {t}]
      /\ UNCHANGED <<queued, made, offers>>
  BY DEF AnswerMade, makings
<1>2. /\ u = Lo /\ t \in tasks[u] /\ t.do = "answer"
      /\ pc[u] # None /\ pc[u] \in Peers(0..made, 0..offers) /\ t.pc = pc[u].id
      /\ UNCHANGED <<call, unheard>>
  BY <1>1, SettlesCalmly
<1>3. CASE /\ pc[u].sig = "have-remote-offer"
           /\ pc' = [pc EXCEPT ![u].sig = "stable", ![u].deal = pc[u].heard]
           /\ SendAll(u, ms)
  <2>1. pc' = [pc EXCEPT ![u] = p]
    BY <1>2, <1>3
  <2>2. /\ Elsewhere(Other(u), ms)
        /\ wire'[u] = wire[u] /\ pc'[u] = p /\ tasks'[u] = tasks[u] \ {t}
    <3>1. tasks' = [tasks EXCEPT ![u] = tasks[u] \ {t}] /\ UNCHANGED queued /\ UNCHANGED call
      BY <1>1, <1>2
    <3>. HIDE DEF p, ms
    <3>. QED  BY <3>1, <1>3, <2>1, Untouched
  <2>3. Other(Lo) = Hi
    BY TabAssumption DEF Other
  <2>. QED  BY <1>1, <1>2, <1>3, <2>2, <2>3 DEF Answers, Works, Kept
<1>4. CASE UNCHANGED <<pc, wire>>
  BY <1>1, <1>2, <1>4, OnlyForgets
<1>. QED  BY <1>2, <1>3, <1>4 DEF AnswerMade

LEMMA AnswerSetDoes ==
    ASSUME TypeOK, Roles, NEW u \in Tabs, NEW t, AnswerSet(u, t)
    PROVE  u = Hi /\ (SetsAnswer \/ Forgets(u, Other(u)))
<1>. DEFINE p == [pc[u] EXCEPT !.sig = "stable", !.far = t.far, !.deal = pc[u].offer]
<1>1. /\ Settles(u, t, "accept")
      /\ tasks' = [tasks EXCEPT ![u] = @ \ {t}]
      /\ UNCHANGED <<queued, wire, made, offers>>
  BY DEF AnswerSet, makings
<1>2. /\ u = Hi /\ t \in tasks[u] /\ t.do = "accept"
      /\ pc[u] # None /\ pc[u] \in Peers(0..made, 0..offers)
      /\ UNCHANGED <<call, unheard>>
  BY <1>1, SettlesCalmly
<1>3. CASE pc[u].sig = "have-local-offer"
  <2>1. pc' = [pc EXCEPT ![u] = p]
    BY <1>2, <1>3 DEF AnswerSet
  <2>2. wire' = [wire EXCEPT ![u] = wire[u]] /\ queued'[u] = queued[u]
    BY <1>1, TypesAre
  <2>3. /\ Elsewhere(Other(u), <<>>) /\ call'[u] = call[u]
        /\ wire'[u] = wire[u] /\ pc'[u] = p /\ tasks'[u] = tasks[u] \ {t}
    <3>1. tasks' = [tasks EXCEPT ![u] = tasks[u] \ {t}] /\ UNCHANGED queued /\ UNCHANGED call
      BY <1>1, <1>2
    <3>. HIDE DEF p
    <3>. QED  BY <3>1, <2>1, <2>2, UntouchedBy
  <2>. QED  BY <1>1, <1>2, <1>3, <2>2, <2>3 DEF SetsAnswer, Changes, Works, Kept, Other
<1>4. CASE pc[u].sig # "have-local-offer"
  BY <1>1, <1>2, <1>4, OnlyForgets DEF AnswerSet
<1>. QED  BY <1>2, <1>3, <1>4

\* A message is read, and nothing sent.
LEMMA ReadsOne ==
    ASSUME TypeOK, NEW u \in Tabs, NEW type, Receive(u, type), NEW p, NEW ts,
           pc' = [pc EXCEPT ![u] = p], tasks' = [tasks EXCEPT ![u] = ts],
           UNCHANGED queued \/ \E q : queued' = [queued EXCEPT ![u] = q]
    PROVE  /\ Elsewhere(Other(u), <<>>) /\ Reads(u) /\ pc'[u] = p /\ tasks'[u] = ts
           /\ Head(wire[u]).type = type /\ Head(wire[u]) \in Coming(u)
           /\ UNCHANGED <<call, offers>>
<1>1. /\ wire[u] # <<>> /\ Head(wire[u]).type = type
      /\ wire' = [wire EXCEPT ![u] = Tail(wire[u])] /\ UNCHANGED <<call, offers>>
  BY DEF Receive
<1>2. /\ Elsewhere(Other(u), <<>>)
      /\ wire'[u] = Tail(wire[u]) /\ pc'[u] = p /\ tasks'[u] = ts /\ call'[u] = call[u]
  BY <1>1, UntouchedBy
<1>3. Head(wire[u]) \in Coming(u)
  <2>1. wire[u] \in Seq(MessageTypes(0..made, 0..offers))
    BY TypesAre
  <2>2. 1 \in DOMAIN wire[u] /\ Head(wire[u]) = wire[u][1]
    BY <1>1, <2>1
  <2>. QED  BY <2>2 DEF Coming
<1>. QED  BY <1>1, <1>2, <1>3 DEF Reads

\* ... and nothing else done.
LEMMA OnlyReads ==
    ASSUME TypeOK, NEW u \in Tabs, NEW type, Receive(u, type), UNCHANGED <<pc, tasks>>,
           UNCHANGED queued \/ \E q : queued' = [queued EXCEPT ![u] = q]
    PROVE  /\ Elsewhere(Other(u), <<>>) /\ Reads(u) /\ pc'[u] = pc[u] /\ tasks'[u] = tasks[u]
           /\ Head(wire[u]).type = type /\ Head(wire[u]) \in Coming(u)
           /\ UNCHANGED <<call, offers>>
<1>1. PICK p, ts : p = pc[u] /\ ts = tasks[u]
  OBVIOUS
<1>2. pc' = [pc EXCEPT ![u] = p] /\ tasks' = [tasks EXCEPT ![u] = ts]
  BY <1>1, TypesAre DEF Open
<1>3. /\ Elsewhere(Other(u), <<>>) /\ Reads(u) /\ pc'[u] = p /\ tasks'[u] = ts
      /\ Head(wire[u]).type = type /\ Head(wire[u]) \in Coming(u)
      /\ UNCHANGED <<call, offers>>
  BY <1>2, ReadsOne
<1>. QED  BY <1>1, <1>3

\* Nobody is told of screens.
LEMMA NoScreens ==
    ASSUME TypeOK, Roles, NEW u \in Tabs
    PROVE  ~Receive(u, "screens")
<1>. SUFFICES ASSUME Receive(u, "screens") PROVE FALSE
  OBVIOUS
<1>1. Head(wire[u]) \in Coming(u) /\ Head(wire[u]).type = "screens"
  <2>1. wire[u] \in Seq(MessageTypes(0..made, 0..offers)) /\ wire[u] # <<>>
    BY TypesAre DEF Receive
  <2>2. 1 \in DOMAIN wire[u] /\ Head(wire[u]) = wire[u][1]
    BY <2>1
  <2>. QED  BY <2>2 DEF Coming, Receive
<1>. QED  BY <1>1 DEF Roles, RoleInv, Tabs

LEMMA ReceiveJoinDoes ==
    ASSUME TypeOK, Roles, Calm', NEW u \in Tabs, ReceiveJoin(u)
    PROVE  ReadsJoin(u, Other(u))
<1>. DEFINE p == IF pc[u] = None THEN NewPeer(made + 1, FALSE) ELSE pc[u]
            ts == IF pc[u] = None THEN FirstTasks(u, made + 1)
                  ELSE tasks[u] \cup IF pc[u].sig = "stable" THEN FirstTasks(u, pc[u].id) ELSE {}
<1>1. /\ Receive(u, "voice_join") /\ call[u]
      /\ Connect(u, pc[u], tasks[u], 1) /\ ~stale'
      /\ UNCHANGED <<queued, unheard>>
  BY NoScreens DEF ReceiveJoin, Calm
<1>2. /\ made' = IF pc[u] = None THEN made + 1 ELSE made
      /\ pc' = [pc EXCEPT ![u] = p]
      /\ tasks' = [tasks EXCEPT ![u] = ts]
  BY <1>1, ConnectsCalmly
<1>3. /\ Elsewhere(Other(u), <<>>) /\ Reads(u) /\ pc'[u] = p /\ tasks'[u] = ts
      /\ IsJoin(Head(wire[u])) /\ offers' = offers
  <2>. HIDE DEF p, ts
  <2>1. UNCHANGED queued
    BY <1>1
  <2>. QED  BY <2>1, <1>1, <1>2, ReadsOne DEF IsJoin
<1>. QED  BY <1>1, <1>2, <1>3 DEF ReadsJoin, Renewed, Kept

LEMMA ReceiveNothingDoes ==
    ASSUME TypeOK, Roles, NEW u \in Tabs, ReceiveNothing(u)
    PROVE  ReadsInVain(u, Other(u))
<1>1. /\ Receive(u, "voice_join") /\ ~call[u]
      /\ UNCHANGED <<pc, queued, tasks, made, unheard>>
  BY NoScreens DEF ReceiveNothing, makings
<1>2. pc[u] = None
  BY <1>1, NothingWaits
<1>3. UNCHANGED queued
  BY <1>1
<1>4. /\ Elsewhere(Other(u), <<>>) /\ Reads(u) /\ pc'[u] = pc[u] /\ tasks'[u] = tasks[u]
      /\ Head(wire[u]).type = "voice_join" /\ offers' = offers
  BY <1>1, <1>3, OnlyReads
<1>. QED  BY <1>1, <1>2, <1>4 DEF ReadsInVain, IsJoin, IsLeave

LEMMA ReceiveLeaveDoes ==
    ASSUME TypeOK, Roles, NEW u \in Tabs, ReceiveLeave(u)
    PROVE  ReadsLeave(u, Other(u))
<1>1. Receive(u, "voice_leave") /\ UNCHANGED <<queued, made, unheard>>
  BY DEF ReceiveLeave, makings
<1>2. pc' = [pc EXCEPT ![u] = None] /\ tasks' = [tasks EXCEPT ![u] = {}]
  <2>1. CASE pc[u] # None
    BY <2>1, NothingWaits DEF ReceiveLeave, DropPeer, Closed
  <2>2. CASE pc[u] = None
    <3>1. tasks[u] = {} /\ UNCHANGED <<pc, tasks>>
      BY <2>2, NothingWaits DEF ReceiveLeave
    <3>. QED  BY <2>2, <3>1, TypesAre DEF Open
  <2>. QED  BY <2>1, <2>2
<1>3. UNCHANGED queued
  BY <1>1
<1>4. /\ Elsewhere(Other(u), <<>>) /\ Reads(u) /\ pc'[u] = None /\ tasks'[u] = {}
      /\ Head(wire[u]).type = "voice_leave" /\ offers' = offers
  BY <1>1, <1>2, <1>3, ReadsOne
<1>. QED  BY <1>1, <1>4 DEF ReadsLeave, Gone, IsLeave

LEMMA ReceiveUnheardDoes ==
    ASSUME TypeOK, Roles, NEW u \in Tabs, ReceiveUnheard(u)
    PROVE  ReadsInVain(u, Other(u))
<1>1. /\ ~call[u] /\ unheard' = unheard \cup {Head(wire[u]).pc}
      /\ UNCHANGED <<pc, queued, tasks, made>>
  BY DEF ReceiveUnheard, makings
<1>2. pc[u] = None
  BY <1>1, NothingWaits
<1>3. PICK type \in {"webrtc_offer", "webrtc_ice_candidate"} : Receive(u, type)
  BY DEF ReceiveUnheard
<1>4. UNCHANGED queued
  BY <1>1
<1>5. /\ Elsewhere(Other(u), <<>>) /\ Reads(u) /\ pc'[u] = pc[u] /\ tasks'[u] = tasks[u]
      /\ Head(wire[u]).type = type /\ offers' = offers
  BY <1>1, <1>3, <1>4, OnlyReads
<1>. QED  BY <1>1, <1>2, <1>5 DEF ReadsInVain, IsJoin, IsLeave, IsAnswer

LEMMA ReceiveCandidateDoes ==
    ASSUME TypeOK, Roles, NEW u \in Tabs, ReceiveCandidate(u)
    PROVE  ReadsCandidate(u, Other(u))
<1>. DEFINE c == Head(wire[u]).pc
            p == [pc[u] EXCEPT !.cands = @ \cup {c}]
<1>1. /\ Receive(u, "webrtc_ice_candidate") /\ call[u]
      /\ UNCHANGED <<tasks, made, unheard>>
      /\ AddOrQueue(u, c)
  BY DEF ReceiveCandidate, makings
<1>2. CASE queued' = [queued EXCEPT ![u] = @ \cup {c}] /\ UNCHANGED pc
  <2>1. \E q : queued' = [queued EXCEPT ![u] = q]
    BY <1>2
  <2>2. UNCHANGED <<pc, tasks>>
    BY <1>1, <1>2
  <2>3. /\ Elsewhere(Other(u), <<>>) /\ Reads(u) /\ pc'[u] = pc[u] /\ tasks'[u] = tasks[u]
        /\ Head(wire[u]).type = "webrtc_ice_candidate" /\ offers' = offers
    BY <1>1, <2>1, <2>2, OnlyReads
  <2>4. queued'[u] = queued[u] \cup {c}
    BY <1>2, TypesAre
  <2>. QED  BY <1>1, <2>3, <2>4 DEF ReadsCandidate, IsCandidate
<1>3. CASE pc[u] # None /\ pc' = [pc EXCEPT ![u].cands = @ \cup {c}] /\ UNCHANGED queued
  <2>1. pc' = [pc EXCEPT ![u] = p] /\ tasks' = [tasks EXCEPT ![u] = tasks[u]]
    BY <1>1, <1>3, TypesAre DEF Open
  <2>2. UNCHANGED queued
    BY <1>3
  <2>3. /\ Elsewhere(Other(u), <<>>) /\ Reads(u) /\ pc'[u] = p /\ tasks'[u] = tasks[u]
        /\ Head(wire[u]).type = "webrtc_ice_candidate" /\ offers' = offers
    <3>. HIDE DEF p
    <3>. QED  BY <1>1, <2>1, <2>2, ReadsOne
  <2>. QED  BY <1>1, <1>3, <2>2, <2>3 DEF ReadsCandidate, IsCandidate
<1>. QED  BY <1>1, <1>2, <1>3 DEF AddOrQueue

LEMMA ReceiveAnswerDoes ==
    ASSUME TypeOK, Roles, NEW u \in Tabs, ReceiveAnswer(u)
    PROVE  u = Hi /\ (ReadsAnswer \/ ReadsInVain(u, Other(u)))
<1>. DEFINE m == Head(wire[u])
            new == IF pc[u] # None /\ pc[u].sig = "have-local-offer"
                   THEN {Task("accept", pc[u].id, m.n, m.pc)} ELSE {}
            ts == tasks[u] \cup IF call[u] THEN new ELSE {}
<1>1. /\ Receive(u, "webrtc_answer")
      /\ UNCHANGED <<pc, queued, made, unheard>>
      /\ tasks' = [tasks EXCEPT ![u] = ts]
  BY DEF ReceiveAnswer, makings
<1>2. pc' = [pc EXCEPT ![u] = pc[u]] /\ UNCHANGED queued
  BY <1>1, TypesAre DEF Open
<1>3. /\ Elsewhere(Other(u), <<>>) /\ Reads(u) /\ pc'[u] = pc[u] /\ tasks'[u] = ts
      /\ Head(wire[u]).type = "webrtc_answer" /\ Head(wire[u]) \in Coming(u)
      /\ UNCHANGED <<call, offers>>
  <2>. HIDE DEF ts
  <2>. QED  BY <1>1, <1>2, ReadsOne
<1>4. u = Hi
  BY <1>3 DEF Roles, RoleInv, Tabs
<1>5. CASE call[u]
  BY <1>1, <1>3, <1>4, <1>5 DEF ReadsAnswer, IsAnswer, Other
<1>6. CASE ~call[u]
  BY <1>1, <1>3, <1>6, <1>4, NothingWaits DEF ReadsInVain, IsAnswer, IsLeave
<1>. QED  BY <1>4, <1>5, <1>6

LEMMA ReceiveOfferDoes ==
    ASSUME TypeOK, Roles, Calm', NEW u \in Tabs, ReceiveOffer(u)
    PROVE  u = Lo /\ ReadsOffer
<1>. DEFINE m == Head(wire[u])
            p == IF pc[u] = None THEN NewPeer(made + 1, FALSE) ELSE pc[u]
            do == IF p.sig = "stable" THEN "remote" ELSE "rollback"
            ts == tasks[u] \cup {Task(do, p.id, m.n, m.pc)}
<1>1. /\ Receive(u, "webrtc_offer") /\ call[u]
      /\ pc' = [pc EXCEPT ![u] = p]
      /\ made' = IF pc[u] = None THEN made + 1 ELSE made
      /\ UNCHANGED <<queued, unheard>>
  BY DEF ReceiveOffer
<1>2. tasks' = [tasks EXCEPT ![u] = ts]
  <2>1. ~(pc[u] = None /\ queued[u] # {})
    BY DEF ReceiveOffer, Calm
  <2>. QED  BY <2>1 DEF ReceiveOffer
<1>3. /\ Elsewhere(Other(u), <<>>) /\ Reads(u) /\ pc'[u] = p /\ tasks'[u] = ts
      /\ Head(wire[u]).type = "webrtc_offer" /\ Head(wire[u]) \in Coming(u)
      /\ UNCHANGED <<call, offers>>
  <2>1. UNCHANGED queued
    BY <1>1
  <2>. HIDE DEF p, ts
  <2>. QED  BY <2>1, <1>1, <1>2, ReadsOne
<1>4. u = Lo /\ Other(u) = Hi
  BY <1>3, TabAssumption DEF Roles, RoleInv, Tabs, Other
<1>5. CASE pc[u] = None
  <2>1. ts = {Task("remote", made + 1, m.n, m.pc)}
    BY <1>5, NothingWaits DEF NewPeer
  <2>. QED  BY <1>1, <1>3, <1>4, <1>5, <2>1 DEF ReadsOffer, IsOffer
<1>6. CASE pc[u] # None
  <2>1. do \in {"remote", "rollback"} /\ Kept(Lo, pc[Lo], ts)
    BY <1>1, <1>3, <1>4, <1>6 DEF Kept
  <2>. QED  BY <1>1, <1>3, <1>4, <1>6, <2>1 DEF ReadsOffer, IsOffer
<1>. QED  BY <1>4, <1>5, <1>6

\* Nothing is read or sent.
LEMMA DoneAlone ==
    ASSUME TypeOK, NEW u \in Tabs, NEW p, NEW ts,
           pc' = [pc EXCEPT ![u] = p], tasks' = [tasks EXCEPT ![u] = ts],
           UNCHANGED <<call, queued, wire>>
    PROVE  /\ Elsewhere(Other(u), <<>>) /\ Works(u) /\ pc'[u] = p /\ tasks'[u] = ts
           /\ queued'[u] = queued[u]
<1>1. wire' = [wire EXCEPT ![u] = wire[u]] /\ UNCHANGED queued /\ UNCHANGED call
  BY TypesAre
<1>2. /\ Elsewhere(Other(u), <<>>)
      /\ wire'[u] = wire[u] /\ pc'[u] = p /\ tasks'[u] = ts /\ call'[u] = call[u]
  BY <1>1, UntouchedBy
<1>. QED  BY <1>1, <1>2 DEF Works

LEMMA ConnectionMadeDoes ==
    ASSUME TypeOK, Roles, NEW u \in Tabs, ConnectionMade(u)
    PROVE  Connects(u, Other(u))
<1>. DEFINE p == [pc[u] EXCEPT !.conn = "connected"]
<1>1. /\ Linked /\ pc[u] # None
      /\ pc' = [pc EXCEPT ![u] = p]
      /\ UNCHANGED <<call, queued, tasks, wire, made, offers, unheard>>
  BY DEF ConnectionMade, makings, Linked
<1>2. PICK ts : ts = tasks[u]
  OBVIOUS
<1>3. tasks' = [tasks EXCEPT ![u] = ts] /\ UNCHANGED <<call, queued, wire>>
  BY <1>1, <1>2, TypesAre DEF Open
<1>4. /\ Elsewhere(Other(u), <<>>) /\ Works(u) /\ pc'[u] = p /\ tasks'[u] = ts
      /\ queued'[u] = queued[u]
  <2>. HIDE DEF p
  <2>. QED  BY <1>1, <1>3, DoneAlone
<1>. QED  BY <1>1, <1>2, <1>4 DEF Connects, Changes, Kept

\* A connection is closed.
LEMMA DropDoes ==
    ASSUME TypeOK, Roles, NEW u \in Tabs, DropPeer(u), UNCHANGED made,
           UNCHANGED <<call, queued, wire, offers, unheard>>,
           pc[u] # None, pc[u].conn = "disconnected" \/ FarEndGone(u)
    PROVE  Drops(u, Other(u))
<1>1. pc' = [pc EXCEPT ![u] = None] /\ tasks' = [tasks EXCEPT ![u] = {}]
  BY NothingWaits DEF DropPeer, Closed
<1>2. /\ Elsewhere(Other(u), <<>>) /\ Works(u) /\ pc'[u] = None /\ tasks'[u] = {}
      /\ queued'[u] = queued[u]
  BY <1>1, DoneAlone
<1>. QED  BY <1>2 DEF Drops, Gone

LEMMA TimerFiresDoes ==
    ASSUME TypeOK, Roles, NEW u \in Tabs, TimerFires(u)
    PROVE  Drops(u, Other(u)) \/ Idles(u, Other(u))
<1>1. UNCHANGED <<call, queued, wire, made, offers, unheard>>
  BY DEF TimerFires, makings
<1>2. CASE pc[u] # None /\ pc[u].conn \in {"disconnected", "failed"}
  <2>1. pc[u] \in Peers(0..made, 0..offers)
    BY <1>2, TypesAre DEF Open
  <2>2. pc[u].conn = "disconnected" \/ FarEndGone(u)
    BY <1>2, <2>1 DEF Peers
  <2>3. DropPeer(u) /\ UNCHANGED made
    BY <1>1, <1>2 DEF TimerFires
  <2>. QED  BY <1>1, <1>2, <2>2, <2>3, DropDoes
<1>3. CASE UNCHANGED <<pc, tasks>>
  <2>1. PICK p, ts : p = pc[u] /\ ts = tasks[u]
    OBVIOUS
  <2>2. pc' = [pc EXCEPT ![u] = p] /\ tasks' = [tasks EXCEPT ![u] = ts]
    BY <1>3, <2>1, TypesAre DEF Open
  <2>3. /\ Elsewhere(Other(u), <<>>) /\ Works(u) /\ pc'[u] = p /\ tasks'[u] = ts
        /\ queued'[u] = queued[u]
    BY <1>1, <2>2, DoneAlone
  <2>. QED  BY <1>1, <2>1, <2>3 DEF Idles
<1>. QED  BY <1>2, <1>3 DEF TimerFires

LEMMA FarEndNoticedDoes ==
    ASSUME TypeOK, Roles, Calm', NEW u \in Tabs, FarEndNoticed(u)
    PROVE  Drops(u, Other(u)) \/ Disconnects(u, Other(u)) \/ Replaces(u, Other(u))
<1>. DEFINE fallback == pc[u].restarted /\ HasTurn /\ ~pc[u].relay
            restart == ~pc[u].restarted /\ ShouldInitiateOffer(u)
            s == IF pc[u].conn = "connected" THEN "disconnected" ELSE "failed"
            p == [pc[u] EXCEPT !.conn = s, !.restarted = TRUE]
            more == IF restart THEN Renegotiation(p, 0) ELSE {}
<1>1. /\ pc[u] # None /\ FarEndGone(u) /\ pc[u].conn \in {"connected", "new"}
      /\ ConnectionLost(u, s)
  BY DEF FarEndNoticed, Trying
<1>2. UNCHANGED <<call, queued, wire, offers, unheard>>
  BY <1>1 DEF ConnectionLost
<1>3. pc[u] \in Peers(0..made, 0..offers) /\ u \in {Hi, Lo}
  BY <1>1, TypesAre DEF Open, Tabs
<1>4. CASE fallback /\ Connect(u, None, tasks[u], 1)
  <2>1. pc[u].conn = "connected"
    BY <1>1, <1>4 DEF Roles, CountInv
  <2>2. /\ made' = made + 1
        /\ pc' = [pc EXCEPT ![u] = NewPeer(made + 1, FALSE)]
        /\ tasks' = [tasks EXCEPT ![u] = FirstTasks(u, made + 1)]
    <3>1. ~stale' /\ None \in {pc[u], None}
      BY DEF Calm
    <3>. QED  BY <1>4, <3>1, ConnectsCalmly
  <2>3. /\ Elsewhere(Other(u), <<>>) /\ Works(u) /\ pc'[u] = NewPeer(made + 1, FALSE)
        /\ tasks'[u] = FirstTasks(u, made + 1) /\ queued'[u] = queued[u]
    BY <1>2, <2>2, DoneAlone
  <2>. QED  BY <1>1, <1>2, <1>4, <2>1, <2>2, <2>3 DEF Replaces, Renewed
<1>5. CASE /\ s = "disconnected"
           /\ pc' = [pc EXCEPT ![u] = p]
           /\ tasks' = [tasks EXCEPT ![u] = tasks[u] \cup more]
           /\ UNCHANGED makings
  <2>1. pc[u].conn = "connected" /\ p = [pc[u] EXCEPT !.conn = "disconnected", !.restarted = TRUE]
    BY <1>1, <1>5
  <2>2. more = IF u = Hi /\ ~pc[u].restarted /\ pc[u].sig = "stable"
               THEN {Task("offer", pc[u].id, 0, 0)} ELSE {}
    BY <1>3 DEF ShouldInitiateOffer, Renegotiation, Peers
  <2>3. /\ Elsewhere(Other(u), <<>>) /\ Works(u) /\ pc'[u] = p
        /\ tasks'[u] = tasks[u] \cup more /\ queued'[u] = queued[u]
    <3>. HIDE DEF p, more, s
    <3>. QED  BY <1>2, <1>5, DoneAlone
  <2>. HIDE DEF p, more, s
  <2>. QED  BY <1>1, <1>2, <1>5, <2>1, <2>2, <2>3 DEF Disconnects, Changes, Kept, makings
<1>6. CASE DropPeer(u) /\ UNCHANGED makings
  <2>1. UNCHANGED made /\ (pc[u].conn = "disconnected" \/ FarEndGone(u))
    BY <1>1, <1>6 DEF makings
  <2>. QED  BY <1>1, <1>2, <1>6, <2>1, DropDoes
<1>7. \/ fallback /\ Connect(u, None, tasks[u], 1)
      \/ /\ s = "disconnected"
         /\ pc' = [pc EXCEPT ![u] = p]
         /\ tasks' = [tasks EXCEPT ![u] = tasks[u] \cup more]
         /\ UNCHANGED makings
      \/ DropPeer(u) /\ UNCHANGED makings
  <2>. HIDE DEF s
  <2>. QED  BY <1>1, Zenon DEF ConnectionLost
<1>. QED  BY <1>4, <1>5, <1>6, <1>7

\* The steps of a calm call.
LEMMA CalmSteps ==
    ASSUME TypeOK, Roles, Calm', Next
    PROVE  HiDoes \/ LoDoes
<1>1. Other(Hi) = Lo /\ Other(Lo) = Hi
  BY TabAssumption DEF Other
<1>2. ASSUME NEW u \in Tabs, BothDo(u, Other(u)) PROVE HiDoes \/ LoDoes
  BY <1>1, <1>2 DEF Tabs, HiDoes, LoDoes
<1>3. ASSUME NEW u \in Tabs, NEW t \in tasks[u],
             \/ OfferMade(u, t) \/ OfferRefused(u, t) \/ Retry(u, t)
             \/ RolledBack(u, t) \/ RemoteOfferSet(u, t) \/ AnswerMade(u, t) \/ AnswerSet(u, t)
      PROVE  HiDoes \/ LoDoes
  <2>1. CASE OfferMade(u, t)
    BY <2>1, OfferDoes DEF HiDoes
  <2>2. ~OfferRefused(u, t) /\ ~Retry(u, t)
    BY NothingRefused
  <2>3. CASE RolledBack(u, t)
    BY <2>3, <1>2, RolledBackDoes DEF BothDo
  <2>4. CASE RemoteOfferSet(u, t)
    BY <2>4, RemoteOfferDoes DEF LoDoes
  <2>5. CASE AnswerMade(u, t)
    BY <2>5, <1>2, AnswerDoes DEF LoDoes, BothDo
  <2>6. CASE AnswerSet(u, t)
    BY <2>6, <1>2, AnswerSetDoes DEF HiDoes, BothDo
  <2>. QED  BY <1>3, <2>1, <2>2, <2>3, <2>4, <2>5, <2>6
<1>4. ASSUME NEW u \in Tabs, MessageRead(u) PROVE HiDoes \/ LoDoes
  <2>1. CASE ReceiveJoin(u)
    BY <2>1, <1>2, ReceiveJoinDoes DEF BothDo
  <2>2. CASE ReceiveNothing(u)
    BY <2>2, <1>2, ReceiveNothingDoes DEF BothDo
  <2>3. CASE ReceiveLeave(u)
    BY <2>3, <1>2, ReceiveLeaveDoes DEF BothDo
  <2>4. CASE ReceiveUnheard(u)
    BY <2>4, <1>2, ReceiveUnheardDoes DEF BothDo
  <2>5. CASE ReceiveOffer(u)
    BY <2>5, ReceiveOfferDoes DEF LoDoes
  <2>6. CASE ReceiveAnswer(u)
    BY <2>6, <1>2, ReceiveAnswerDoes DEF HiDoes, BothDo
  <2>7. CASE ReceiveCandidate(u)
    BY <2>7, <1>2, ReceiveCandidateDoes DEF BothDo
  <2>. QED  BY <1>4, <2>1, <2>2, <2>3, <2>4, <2>5, <2>6, <2>7 DEF MessageRead
<1>5. CASE Progress
  <2>1. PICK u \in Tabs : TaskDone(u) \/ MessageRead(u) \/ ConnectionMade(u)
                          \/ FarEndNoticed(u) \/ TimerFires(u)
    BY <1>5 DEF Progress
  <2>2. CASE TaskDone(u)
    BY <2>2, <1>3 DEF TaskDone
  <2>3. CASE ConnectionMade(u)
    BY <2>3, <1>2, ConnectionMadeDoes DEF BothDo
  <2>4. CASE FarEndNoticed(u)
    BY <2>4, <1>2, FarEndNoticedDoes DEF BothDo
  <2>5. CASE TimerFires(u)
    BY <2>5, <1>2, TimerFiresDoes DEF BothDo
  <2>. QED  BY <2>1, <2>2, <2>3, <2>4, <2>5, <1>4
<1>6. CASE \E u \in Tabs : Join(u) \/ Leave(u) \/ Share(u) \/ Vanish(u)
                           \/ NetworkFails(u) \/ NetworkStaysDown(u)
  <2>1. PICK u \in Tabs : Join(u) \/ Leave(u) \/ Share(u) \/ Vanish(u)
                          \/ NetworkFails(u) \/ NetworkStaysDown(u)
    BY <1>6
  <2>2. CASE Join(u)
    BY <2>2, <1>2, JoinDoes DEF BothDo
  <2>3. CASE Leave(u)
    BY <2>3, <1>2, LeaveDoes DEF BothDo
  <2>4. ~Share(u) /\ ~Vanish(u) /\ ~NetworkFails(u) /\ ~NetworkStaysDown(u)
    <3>1. shares \in Nat /\ faults \in Nat /\ shares' = 0 /\ faults' = 0
      BY TypesAre DEF Calm, Undisturbed
    <3>. QED  BY <3>1 DEF Share, Vanish, NetworkFails, NetworkStaysDown
  <2>. QED  BY <2>1, <2>2, <2>3, <2>4
<1>. QED  BY <1>5, <1>6 DEF Next

----------------------------------------------------------------------------
(* Wires, when a message is read and when messages are sent.               *)

AllMessages == MessageTypes(Nat, Nat)

LEMMA WiresAre ==
    ASSUME TypeOK, NEW u \in Tabs
    PROVE  wire[u] \in Seq(AllMessages) /\ \A m \in Coming(u) : m \in AllMessages
<1>1. wire[u] \in Seq(MessageTypes(0..made, 0..offers)) /\ made \in Nat /\ offers \in Nat
  BY TypesAre
<1>2. MessageTypes(0..made, 0..offers) \subseteq AllMessages
  <2>1. 0..made \subseteq Nat /\ 0..offers \subseteq Nat
    BY <1>1
  <2>. QED  BY <2>1, Zenon DEF MessageTypes, AllMessages
<1>3. wire[u] \in Seq(AllMessages)
  BY <1>1, <1>2
<1>. QED  BY <1>3 DEF Coming

LEMMA TailIs ==
    ASSUME NEW S, NEW s \in Seq(S), s # <<>>
    PROVE  /\ Len(s) \in Nat \ {0} /\ DOMAIN s = 1..Len(s) /\ Head(s) = s[1]
           /\ Len(Tail(s)) = Len(s) - 1 /\ DOMAIN Tail(s) = 1..(Len(s) - 1)
           /\ \A i \in 1..(Len(s) - 1) : i + 1 \in 1..Len(s) /\ Tail(s)[i] = s[i + 1]
OBVIOUS

\* The sequence w is s and then ms.
Joined(s, ms, w) ==
    /\ Len(s) \in Nat /\ DOMAIN s = 1..Len(s) /\ Len(ms) \in Nat /\ DOMAIN ms = 1..Len(ms)
    /\ Len(w) = Len(s) + Len(ms) /\ DOMAIN w = 1..(Len(s) + Len(ms))
    /\ \A i \in DOMAIN s : i \in DOMAIN w /\ w[i] = s[i]
    /\ \A i \in DOMAIN ms : Len(s) + i \in DOMAIN w /\ w[Len(s) + i] = ms[i]
    /\ \A i \in DOMAIN w :
           i \in DOMAIN s \/ (i - Len(s) \in DOMAIN ms /\ w[i] = ms[i - Len(s)])
    /\ {w[i] : i \in DOMAIN w} = {s[i] : i \in DOMAIN s} \cup {ms[i] : i \in DOMAIN ms}

LEMMA JoinedIs ==
    ASSUME NEW S, NEW s \in Seq(S), NEW ms \in Seq(S)
    PROVE  Joined(s, ms, s \o ms)
<1>. DEFINE w == s \o ms
<1>1. /\ Len(s) \in Nat /\ DOMAIN s = 1..Len(s) /\ Len(ms) \in Nat /\ DOMAIN ms = 1..Len(ms)
      /\ Len(w) = Len(s) + Len(ms) /\ DOMAIN w = 1..(Len(s) + Len(ms))
      /\ \A i \in DOMAIN s : i \in DOMAIN w /\ w[i] = s[i]
      /\ \A i \in DOMAIN ms : Len(s) + i \in DOMAIN w /\ w[Len(s) + i] = ms[i]
      /\ \A i \in DOMAIN w :
             i \in DOMAIN s \/ (i - Len(s) \in DOMAIN ms /\ w[i] = ms[i - Len(s)])
  OBVIOUS
<1>2. {w[i] : i \in DOMAIN w} \subseteq {s[i] : i \in DOMAIN s} \cup {ms[i] : i \in DOMAIN ms}
  BY <1>1
<1>3. {s[i] : i \in DOMAIN s} \subseteq {w[i] : i \in DOMAIN w}
  BY <1>1, Zenon
<1>4. {ms[i] : i \in DOMAIN ms} \subseteq {w[i] : i \in DOMAIN w}
  <2>1. ASSUME NEW i \in DOMAIN ms PROVE \E j \in DOMAIN w : ms[i] = w[j]
    BY <1>1
  <2>. QED  BY <2>1
<1>. QED  BY <1>1, <1>2, <1>3, <1>4 DEF Joined

LEMMA TailIsShorter ==
    ASSUME NEW S, NEW s \in Seq(S), s # <<>>
    PROVE  Tail(s) # s /\ (Len(s) = 1 => Tail(s) = <<>>)
<1>1. Len(s) \in Nat \ {0} /\ Len(Tail(s)) = Len(s) - 1
  BY TailIs
<1>2. Tail(s) # s
  <2>1. \A k \in Nat \ {0} : k - 1 # k
    OBVIOUS
  <2>2. Len(Tail(s)) # Len(s)
    BY <1>1, <2>1, Zenon
  <2>. QED  BY <2>2
<1>4. Tail(s) \in Seq(S)
  OBVIOUS
<1>5. \A t \in Seq(S) : Len(t) = 0 => t = <<>>
  OBVIOUS
<1>3. ASSUME Len(s) = 1 PROVE Tail(s) = <<>>
  <2>1. Len(Tail(s)) = 0
    BY <1>1, <1>3
  <2>. QED  BY <1>4, <1>5, <2>1
<1>. QED  BY <1>2, <1>3

LEMMA ReadFrom ==
    ASSUME TypeOK, NEW u \in Tabs, wire[u] # <<>>, wire'[u] = Tail(wire[u])
    PROVE  /\ Len(wire[u]) \in Nat \ {0} /\ DOMAIN wire[u] = 1..Len(wire[u])
           /\ Head(wire[u]) = wire[u][1] /\ Head(wire[u]) \in Coming(u)
           /\ Head(wire[u]) \in AllMessages
           /\ Len(wire'[u]) = Len(wire[u]) - 1 /\ DOMAIN wire'[u] = 1..(Len(wire[u]) - 1)
           /\ \A i \in 1..(Len(wire[u]) - 1) :
                  i + 1 \in 1..Len(wire[u]) /\ wire'[u][i] = wire[u][i + 1]
           /\ Coming(u)' \subseteq Coming(u)
           /\ \A m \in Coming(u) : m = Head(wire[u]) \/ m \in Coming(u)'
<1>1. /\ Len(wire[u]) \in Nat \ {0} /\ DOMAIN wire[u] = 1..Len(wire[u])
      /\ Head(wire[u]) = wire[u][1]
      /\ Len(wire'[u]) = Len(wire[u]) - 1 /\ DOMAIN wire'[u] = 1..(Len(wire[u]) - 1)
      /\ \A i \in 1..(Len(wire[u]) - 1) :
             i + 1 \in 1..Len(wire[u]) /\ wire'[u][i] = wire[u][i + 1]
  BY WiresAre, TailIs
<1>2. Head(wire[u]) \in Coming(u)
  BY <1>1 DEF Coming
<1>3. Coming(u)' \subseteq Coming(u)
  BY <1>1 DEF Coming
<1>4. ASSUME NEW i \in 1..Len(wire[u]), i # 1 PROVE wire[u][i] \in Coming(u)'
  <2>1. i - 1 \in 1..(Len(wire[u]) - 1) /\ (i - 1) + 1 = i
    BY <1>1, <1>4
  <2>2. wire'[u][i - 1] = wire[u][i]
    BY <1>1, <2>1
  <2>. QED  BY <1>1, <2>1, <2>2 DEF Coming
<1>5. \A m \in Coming(u) : m = Head(wire[u]) \/ m \in Coming(u)'
  BY <1>1, <1>4 DEF Coming
<1>. QED  BY <1>1, <1>2, <1>3, <1>5, WiresAre

LEMMA SentTo ==
    ASSUME TypeOK, NEW u \in Tabs, NEW ms \in Seq(AllMessages), wire'[u] = wire[u] \o ms
    PROVE  /\ Joined(wire[u], ms, wire'[u])
           /\ Coming(u)' = Coming(u) \cup {ms[i] : i \in DOMAIN ms}
<1>1. wire[u] \in Seq(AllMessages)
  BY WiresAre
<1>2. Joined(wire[u], ms, wire[u] \o ms)
  BY <1>1, JoinedIs
<1>3. Joined(wire[u], ms, wire'[u])
  BY <1>2
<1>4. {wire'[u][i] : i \in DOMAIN wire'[u]}
      = {wire[u][i] : i \in DOMAIN wire[u]} \cup {ms[i] : i \in DOMAIN ms}
  BY <1>3 DEF Joined
<1>. QED  BY <1>3, <1>4 DEF Coming

\* Nothing is sent.
LEMMA NothingSent ==
    ASSUME TypeOK, NEW u \in Tabs, wire'[u] = wire[u] \o <<>>
    PROVE  wire'[u] = wire[u]
BY WiresAre

----------------------------------------------------------------------------
(* What a step of a calm call does, in short.                              *)

Does(u) == IF u = Hi THEN HiDoes ELSE LoDoes

\* What a tab says with its step.
Says(u, m) ==
    \/ Joins(u, Other(u)) /\ m = Msg("voice_join", 0, 0)
    \/ Leaves(u, Other(u)) /\ m = Msg("voice_leave", 0, 0)
    \/ u = Hi /\ Offers /\ m = Msg("webrtc_offer", pc[u].id, offers + 1)
    \/ u = Lo /\ Answers /\ m = Msg("webrtc_answer", pc[u].id, pc[u].heard)
    \/ /\ (u = Hi /\ Offers) \/ (u = Lo /\ Answers)
       /\ m = Msg("webrtc_ice_candidate", pc[u].id, 0)

LEMMA TabsDo ==
    (HiDoes \/ LoDoes) => \E u \in Tabs : Does(u)
BY TabAssumption DEF Does, Tabs

\* What is said by a step.
Telling(u) == \E ms \in Seq(AllMessages) :
                  Elsewhere(Other(u), ms) /\ \A i \in DOMAIN ms : Says(u, ms[i])

LEMMA SaysOne ==
    ASSUME NEW u, NEW m \in AllMessages, Says(u, m), Elsewhere(Other(u), <<m>>)
    PROVE  Telling(u)
<1>1. <<m>> \in Seq(AllMessages) /\ DOMAIN <<m>> = {1} /\ <<m>>[1] = m
  OBVIOUS
<1>2. \A i \in DOMAIN <<m>> : Says(u, <<m>>[i])
  BY <1>1
<1>. QED  BY <1>1, <1>2 DEF Telling

LEMMA SaysTwo ==
    ASSUME NEW u, NEW m \in AllMessages, Says(u, m), NEW n \in AllMessages, Says(u, n),
           Elsewhere(Other(u), <<m>> \o <<n>>)
    PROVE  Telling(u)
<1>1. PICK ms : ms = <<m>> \o <<n>>
  OBVIOUS
<1>2. /\ ms \in Seq(AllMessages) /\ DOMAIN ms = {1, 2} /\ ms[1] = m /\ ms[2] = n
  BY <1>1
<1>3. \A i \in DOMAIN ms : Says(u, ms[i])
  BY <1>2
<1>. QED  BY <1>1, <1>2, <1>3 DEF Telling

LEMMA SaysWhat ==
    ASSUME TypeOK, NEW u \in Tabs, Does(u)
    PROVE  Telling(u)
<1>1. Other(Hi) = Lo /\ Other(Lo) = Hi /\ Hi # Lo /\ u \in {Hi, Lo}
  BY TabAssumption DEF Other, Tabs
<1>3. Msg("voice_join", 0, 0) \in AllMessages /\ Msg("voice_leave", 0, 0) \in AllMessages
  BY DEF Msg, AllMessages, MessageTypes
<1>4. CASE Elsewhere(Other(u), <<>>)
  <2>1. <<>> \in Seq(AllMessages) /\ DOMAIN <<>> = {}
    OBVIOUS
  <2>. QED  BY <1>4, <2>1 DEF Telling
<1>5. CASE Joins(u, Other(u))
  <2>1. Says(u, Msg("voice_join", 0, 0)) /\ Elsewhere(Other(u), <<Msg("voice_join", 0, 0)>>)
    BY <1>5 DEF Joins, Says
  <2>. QED  BY <1>3, <2>1, SaysOne
<1>6. CASE Leaves(u, Other(u))
  <2>1. Says(u, Msg("voice_leave", 0, 0)) /\ Elsewhere(Other(u), <<Msg("voice_leave", 0, 0)>>)
    BY <1>6 DEF Leaves, Says
  <2>. QED  BY <1>3, <2>1, SaysOne
<1>7. ASSUME pc[u] # None, NEW m \in AllMessages, Says(u, m),
             Elsewhere(Other(u), <<m>> \o CandidateFound(pc[u])),
             Says(u, Msg("webrtc_ice_candidate", pc[u].id, 0))
      PROVE  Telling(u)
  <2>. DEFINE n == Msg("webrtc_ice_candidate", pc[u].id, 0)
  <2>1. n \in AllMessages /\ Says(u, n)
    BY <1>7, TypesAre DEF Open, Peers, Msg, AllMessages, MessageTypes
  <2>2. CandidateFound(pc[u]) = <<>> \/ CandidateFound(pc[u]) = <<n>>
    BY DEF CandidateFound
  <2>. HIDE DEF n
  <2>3. CASE CandidateFound(pc[u]) = <<>>
    <3>1. <<m>> \o <<>> = <<m>>
      OBVIOUS
    <3>2. Elsewhere(Other(u), <<m>>)
      BY <1>7, <2>3, <3>1
    <3>. QED  BY <1>7, <3>2, SaysOne
  <2>4. CASE CandidateFound(pc[u]) = <<n>>
    <3>1. Elsewhere(Other(u), <<m>> \o <<n>>)
      BY <1>7, <2>4
    <3>. QED  BY <1>7, <2>1, <3>1, SaysTwo
  <2>. QED  BY <2>2, <2>3, <2>4
<1>8. CASE u = Hi /\ Offers
  <2>. DEFINE m == Msg("webrtc_offer", pc[u].id, offers + 1)
  <2>1. pc[u] # None /\ Elsewhere(Other(u), <<m>> \o CandidateFound(pc[u]))
    BY <1>1, <1>8 DEF Offers, Kept
  <2>2. m \in AllMessages
    BY <2>1, TypesAre DEF Open, Peers, Msg, AllMessages, MessageTypes
  <2>3. Says(u, m) /\ Says(u, Msg("webrtc_ice_candidate", pc[u].id, 0))
    BY <1>8 DEF Says
  <2>. HIDE DEF m
  <2>. QED  BY <1>7, <2>1, <2>2, <2>3
<1>9. CASE u = Lo /\ Answers
  <2>. DEFINE m == Msg("webrtc_answer", pc[u].id, pc[u].heard)
  <2>1. pc[u] # None /\ Elsewhere(Other(u), <<m>> \o CandidateFound(pc[u]))
    BY <1>1, <1>9 DEF Answers, Kept
  <2>2. m \in AllMessages
    BY <2>1, TypesAre DEF Open, Peers, Msg, AllMessages, MessageTypes
  <2>3. Says(u, m) /\ Says(u, Msg("webrtc_ice_candidate", pc[u].id, 0))
    BY <1>9 DEF Says
  <2>. HIDE DEF m
  <2>. QED  BY <1>7, <2>1, <2>2, <2>3
<1>10. ASSUME BothDo(u, Other(u)), ~Joins(u, Other(u)), ~Leaves(u, Other(u))
       PROVE  Elsewhere(Other(u), <<>>)
  BY <1>10 DEF BothDo, ReadsJoin, ReadsLeave, ReadsInVain, ReadsCandidate, Connects,
               Disconnects, Forgets, Idles, Drops, Replaces, Changes
<1>11. CASE u = Hi
  BY <1>1, <1>4, <1>5, <1>6, <1>8, <1>10, <1>11 DEF Does, HiDoes, ReadsAnswer, SetsAnswer, Changes
<1>12. CASE u = Lo
  BY <1>1, <1>4, <1>5, <1>6, <1>9, <1>10, <1>12 DEF Does, LoDoes, ReadsOffer, SetsOffer
<1>. QED  BY <1>1, <1>11, <1>12

\* What is said is on its way; what was on its way still is, unless it was read.
LEMMA WiresMove ==
    ASSUME TypeOK, NEW u \in Tabs, Does(u)
    PROVE  /\ pc'[Other(u)] = pc[Other(u)] /\ tasks'[Other(u)] = tasks[Other(u)]
           /\ queued'[Other(u)] = queued[Other(u)] /\ call'[Other(u)] = call[Other(u)]
           /\ Coming(Other(u)) \subseteq Coming(Other(u))'
           /\ \A m \in Coming(Other(u))' : m \in Coming(Other(u)) \/ Says(u, m)
           /\ Coming(u)' \subseteq Coming(u)
<1>1. PICK ms \in Seq(AllMessages) :
          Elsewhere(Other(u), ms) /\ \A i \in DOMAIN ms : Says(u, ms[i])
  BY SaysWhat DEF Telling
<1>2. Other(u) \in Tabs /\ wire'[Other(u)] = wire[Other(u)] \o ms
  BY <1>1, OthersAre DEF Elsewhere
<1>3. Coming(Other(u))' = Coming(Other(u)) \cup {ms[i] : i \in DOMAIN ms}
  BY <1>2, SentTo
<1>4. Coming(u)' \subseteq Coming(u)
  <2>1. wire'[u] = wire[u] \/ (wire[u] # <<>> /\ wire'[u] = Tail(wire[u]))
    <3>1. u \in {Hi, Lo}
      BY DEF Tabs
    <3>2. CASE BothDo(u, Other(u))
      BY <3>2 DEF BothDo, Joins, Leaves, ReadsJoin, ReadsLeave, ReadsInVain, ReadsCandidate,
         Connects, Disconnects, Forgets, Idles, Drops, Replaces, Changes, Reads, Works
    <3>3. CASE u = Hi /\ (Offers \/ ReadsAnswer \/ SetsAnswer)
      BY <3>3 DEF Offers, ReadsAnswer, SetsAnswer, Changes, Reads, Works
    <3>4. CASE u = Lo /\ (ReadsOffer \/ SetsOffer \/ Answers)
      BY <3>4 DEF ReadsOffer, SetsOffer, Answers, Changes, Reads, Works
    <3>. QED  BY <3>1, <3>2, <3>3, <3>4, OthersAre, TabAssumption DEF Does, HiDoes, LoDoes, Other
  <2>2. CASE wire'[u] = wire[u]
    BY <2>2 DEF Coming
  <2>3. CASE wire[u] # <<>> /\ wire'[u] = Tail(wire[u])
    BY <2>3, ReadFrom
  <2>. QED  BY <2>1, <2>2, <2>3
<1>. QED  BY <1>1, <1>3, <1>4 DEF Elsewhere

LEMMA TabDoes ==
    ASSUME NEW u \in Tabs, Does(u)
    PROVE  \/ BothDo(u, Other(u))
           \/ u = Hi /\ Other(u) = Lo /\ (Offers \/ ReadsAnswer \/ SetsAnswer)
           \/ u = Lo /\ Other(u) = Hi /\ (ReadsOffer \/ SetsOffer \/ Answers)
BY TabAssumption DEF Does, HiDoes, LoDoes, Tabs, Other

----------------------------------------------------------------------------
(* The roles are kept.                                                     *)

\* What Roles says of the tab u: whether it is in the call, its connection, its
\* tasks, and what is on its way to it.
RoleOf(u, in, p, ts, ms) ==
    /\ ~in => p = None
    /\ \A t \in ts : IF u = Hi THEN (t.do = "offer" /\ t.n \in {0, 1}) \/ t.do = "accept"
                     ELSE t.do \in {"rollback", "remote", "answer"}
    /\ \A t \in ts : t.do # "offer" => t.n # 0 /\ t.far # 0
    /\ \A m \in ms : /\ \/ m.type \in {"voice_join", "voice_leave", "webrtc_ice_candidate"}
                        \/ m.type = IF u = Hi THEN "webrtc_answer" ELSE "webrtc_offer"
                     /\ IsOffer(m) \/ IsAnswer(m) => m.n # 0 /\ m.pc # 0
    /\ p # None =>
           /\ p.conn # "new" => p.deal # 0
           /\ p.conn = "new" => ~p.restarted
           /\ p.deal # 0 => p.far # 0
           /\ u = Hi => p.sig \in {"stable", "have-local-offer"}
           /\ u = Lo => p.sig \in {"stable", "have-remote-offer"} /\ p.offer = 0
           /\ u = Lo /\ p.sig = "have-remote-offer" => p.heard # 0 /\ p.far # 0
           /\ u = Hi /\ p.sig = "have-local-offer" => p.offer # 0

LEMMA RolesApart ==
    Roles <=> \A u \in Tabs : RoleOf(u, call[u], pc[u], tasks[u], Coming(u))
BY TabAssumption DEF Roles, CallInv, RoleInv, CountInv, RoleOf, Tabs, IsOffer, IsAnswer

LEMMA RolesApartNext ==
    Roles' <=> \A u \in Tabs : RoleOf(u, call'[u], pc'[u], tasks'[u], Coming(u)')
BY TabAssumption DEF Roles, CallInv, RoleInv, CountInv, RoleOf, Tabs, IsOffer, IsAnswer

LEMMA RolesStay ==
    ASSUME TypeOK, Roles, NEW u \in Tabs, Does(u)
    PROVE  Roles'
<1>. DEFINE v == Other(u)
<1>1. u \in {Hi, Lo} /\ v \in {Hi, Lo} /\ Hi # Lo /\ v \in Tabs /\ u # v /\ Tabs = {u, v}
  BY OthersAre, TabAssumption DEF Tabs
<1>2. /\ pc[u] # None => pc[u] \in Peers(0..made, 0..offers)
      /\ made \in Nat /\ offers \in Nat
      /\ \A t \in tasks[u] : t \in TaskTypes(0..made, 0..offers) /\ (t.do # "retry" => pc[u] # None)
  BY TypesAre DEF Open, OfOpen
<1>3. /\ RoleOf(u, call[u], pc[u], tasks[u], Coming(u))
      /\ RoleOf(v, call[v], pc[v], tasks[v], Coming(v))
  BY <1>1, RolesApart
<1>4. RoleOf(v, call'[v], pc'[v], tasks'[v], Coming(v)')
  <2>1. ASSUME NEW m, Says(u, m)
        PROVE  /\ \/ m.type \in {"voice_join", "voice_leave", "webrtc_ice_candidate"}
                  \/ m.type = IF v = Hi THEN "webrtc_answer" ELSE "webrtc_offer"
               /\ IsOffer(m) \/ IsAnswer(m) => m.n # 0 /\ m.pc # 0
    <3>1. CASE Joins(u, v) /\ m = Msg("voice_join", 0, 0)
      BY <3>1 DEF Msg, IsOffer, IsAnswer
    <3>2. CASE Leaves(u, v) /\ m = Msg("voice_leave", 0, 0)
      BY <3>2 DEF Msg, IsOffer, IsAnswer
    <3>3. CASE u = Hi /\ Offers /\ m = Msg("webrtc_offer", pc[u].id, offers + 1)
      <4>1. pc[u] # None
        BY <3>3 DEF Offers, Kept
      <4>. QED  BY <1>1, <1>2, <3>3, <4>1 DEF Msg, IsOffer, IsAnswer, Peers
    <3>4. CASE u = Lo /\ Answers /\ m = Msg("webrtc_answer", pc[u].id, pc[u].heard)
      <4>1. pc[u] # None /\ pc[u].sig = "have-remote-offer"
        BY <3>4 DEF Answers, Kept
      <4>2. pc[u].heard # 0
        BY <1>3, <3>4, <4>1 DEF RoleOf
      <4>3. pc[u].id # 0
        BY <1>2, <4>1 DEF Peers
      <4>. QED  BY <1>1, <3>4, <4>2, <4>3 DEF Msg, IsOffer, IsAnswer
    <3>5. CASE m = Msg("webrtc_ice_candidate", pc[u].id, 0)
      BY <3>5 DEF Msg, IsOffer, IsAnswer
    <3>. QED  BY <2>1, <3>1, <3>2, <3>3, <3>4, <3>5 DEF Says
  <2>2. /\ pc'[v] = pc[v] /\ tasks'[v] = tasks[v] /\ call'[v] = call[v]
        /\ \A m \in Coming(v)' : m \in Coming(v) \/ Says(u, m)
    BY WiresMove
  <2>. HIDE DEF v
  <2>. QED  BY <1>3, <2>1, <2>2 DEF RoleOf
<1>5. RoleOf(u, call'[u], pc'[u], tasks'[u], Coming(u))
  <2>1. CASE Joins(u, v) \/ Leaves(u, v) \/ ReadsLeave(u, v) \/ ReadsInVain(u, v) \/ Drops(u, v)
             \/ Replaces(u, v) \/ Forgets(u, v) \/ Idles(u, v)
    BY <1>3, <2>1 DEF RoleOf, Joins, Leaves, ReadsLeave, ReadsInVain, Drops, Replaces, Forgets,
       Idles, Changes, Gone, Renewed, Kept, Reads, Works, NewPeer, FirstTasks, Task
  <2>2. CASE ReadsJoin(u, v)
    BY <1>3, <2>2 DEF RoleOf, ReadsJoin, Renewed, Kept, Reads, NewPeer, FirstTasks, Task
  <2>3. CASE ReadsCandidate(u, v)
    BY <1>2, <1>3, <2>3 DEF RoleOf, ReadsCandidate, Reads, Peers
  <2>4. CASE Connects(u, v)
    <3>1. pc[u].deal # 0 /\ pc[u] # None
      BY <2>4 DEF Connects, Linked
    <3>. QED  BY <1>2, <1>3, <2>4, <3>1 DEF RoleOf, Connects, Changes, Kept, Works, Peers
  <2>5. CASE Disconnects(u, v)
    BY <1>2, <1>3, <2>5 DEF RoleOf, Disconnects, Changes, Kept, Works, Peers, Task
  <2>6. CASE u = Hi /\ Offers
    <3>1. /\ pc[u] # None /\ call'[u] = call[u] /\ tasks'[u] \subseteq tasks[u]
          /\ pc'[u] = [pc[u] EXCEPT !.sig = "have-local-offer", !.offer = offers + 1]
      BY <2>6 DEF Offers, Kept, Works
    <3>2. /\ pc'[u].conn = pc[u].conn /\ pc'[u].restarted = pc[u].restarted
          /\ pc'[u].deal = pc[u].deal /\ pc'[u].far = pc[u].far
          /\ pc'[u].sig = "have-local-offer" /\ pc'[u].offer # 0
      BY <1>2, <3>1 DEF Peers
    <3>. QED  BY <1>1, <1>3, <2>6, <3>1, <3>2 DEF RoleOf
  <2>7. CASE u = Hi /\ ReadsAnswer
    <3>. DEFINE m == Head(wire[Hi])
    <3>1. m.n # 0 /\ m.pc # 0
      <4>1. m \in Coming(Hi) /\ IsAnswer(m)
        BY <2>7, ReadFrom DEF ReadsAnswer, Reads, Tabs
      <4>. QED  BY <1>3, <2>7, <4>1 DEF RoleOf
    <3>2. tasks'[u] \subseteq tasks[u] \cup {Task("accept", pc[u].id, m.n, m.pc)}
          /\ pc'[u] = pc[u] /\ call'[u] = call[u]
      BY <2>7 DEF ReadsAnswer, Reads
    <3>. QED  BY <1>1, <1>3, <2>7, <3>1, <3>2 DEF RoleOf, Task
  <2>8. CASE u = Hi /\ SetsAnswer
    <3>1. PICK t \in tasks[u] :
              /\ t.do = "accept" /\ pc[u].sig = "have-local-offer"
              /\ Changes(u, Lo, [pc[u] EXCEPT !.sig = "stable", !.far = t.far, !.deal = pc[u].offer],
                         tasks[u] \ {t})
      BY <2>8 DEF SetsAnswer
    <3>2. t.far # 0
      BY <1>3, <3>1 DEF RoleOf
    <3>. QED  BY <1>1, <1>2, <1>3, <2>8, <3>1, <3>2 DEF RoleOf, Changes, Kept, Works, Peers
  <2>9. CASE u = Lo /\ ReadsOffer
    <3>. DEFINE m == Head(wire[Lo])
    <3>1. m.n # 0 /\ m.pc # 0
      <4>1. m \in Coming(Lo) /\ IsOffer(m)
        BY <2>9, ReadFrom DEF ReadsOffer, Reads, Tabs
      <4>. QED  BY <1>3, <2>9, <4>1 DEF RoleOf
    <3>2. /\ call'[u] = call[u] /\ call[u]
          /\ \/ pc'[u] = NewPeer(made + 1, FALSE) /\ tasks'[u] = {Task("remote", made + 1, m.n, m.pc)}
             \/ /\ pc'[u] = pc[u]
                /\ \E do \in {"remote", "rollback"} :
                       tasks'[u] = tasks[u] \cup {Task(do, pc[u].id, m.n, m.pc)}
      BY <2>9 DEF ReadsOffer, Reads, Kept
    <3>. HIDE DEF m
    <3>. QED  BY <1>1, <1>3, <2>9, <3>1, <3>2 DEF RoleOf, Task, NewPeer
  <2>10. CASE u = Lo /\ SetsOffer
    <3>1. PICK t \in tasks[u] :
              /\ t.do = "remote" /\ call'[u] = call[u]
              /\ Kept(u, [pc[u] EXCEPT !.sig = "have-remote-offer", !.far = t.far, !.heard = t.n,
                                       !.cands = @ \cup queued[u]],
                      (tasks[u] \ {t}) \cup {[t EXCEPT !.do = "answer"]})
      BY <2>10 DEF SetsOffer, Works
    <3>2. t.far # 0 /\ t.n # 0
      BY <1>3, <3>1 DEF RoleOf
    <3>. DEFINE a == [t EXCEPT !.do = "answer"]
    <3>3. a.do = "answer" /\ a.n = t.n /\ a.far = t.far
      BY <1>2, <3>1 DEF TaskTypes
    <3>4. /\ pc[u] # None /\ call'[u] = call[u]
          /\ tasks'[u] \subseteq tasks[u] \cup {a}
          /\ pc'[u].conn = pc[u].conn /\ pc'[u].restarted = pc[u].restarted
          /\ pc'[u].deal = pc[u].deal /\ pc'[u].far = t.far /\ pc'[u].heard = t.n
          /\ pc'[u].sig = "have-remote-offer" /\ pc'[u].offer = pc[u].offer
      BY <1>2, <3>1 DEF Kept, Peers
    <3>. HIDE DEF a
    <3>5. \A s \in tasks'[u] : s.do \in {"rollback", "remote", "answer"} /\ s.n # 0 /\ s.far # 0
      BY <1>1, <1>3, <2>10, <3>2, <3>3, <3>4 DEF RoleOf
    <3>. QED  BY <1>1, <1>3, <2>10, <3>2, <3>4, <3>5 DEF RoleOf
  <2>11. CASE u = Lo /\ Answers
    <3>1. PICK t \in tasks[u] :
              /\ pc[u].sig = "have-remote-offer" /\ call'[u] = call[u]
              /\ Kept(u, [pc[u] EXCEPT !.sig = "stable", !.deal = pc[u].heard], tasks[u] \ {t})
      BY <2>11 DEF Answers, Works
    <3>2. /\ pc[u] # None /\ tasks'[u] \subseteq tasks[u]
          /\ pc'[u].conn = pc[u].conn /\ pc'[u].restarted = pc[u].restarted
          /\ pc'[u].deal = pc[u].heard /\ pc'[u].far = pc[u].far
          /\ pc'[u].sig = "stable" /\ pc'[u].offer = pc[u].offer
      BY <1>2, <3>1 DEF Kept, Peers
    <3>. QED  BY <1>1, <1>3, <2>11, <3>1, <3>2 DEF RoleOf
  <2>. QED  BY <2>1, <2>2, <2>3, <2>4, <2>5, <2>6, <2>7, <2>8, <2>9, <2>10, <2>11, TabDoes DEF BothDo
<1>6. Coming(u)' \subseteq Coming(u)
  BY WiresMove
<1>7. RoleOf(u, call'[u], pc'[u], tasks'[u], Coming(u)')
  BY <1>5, <1>6 DEF RoleOf
<1>. QED  BY <1>1, <1>4, <1>7, RolesApartNext

----------------------------------------------------------------------------
(* Who has left, and who comes.                                            *)

\* The tab has no connection, or has heard nothing for the one it has.
FreshTab(u) ==
    /\ pc[u] # None => pc[u].deal = 0 /\ pc[u].far = 0
    /\ \A t \in tasks[u] : t.do = "offer"

\* What comes last from a tab that is not in the call is that it leaves, if
\* anything comes or is known.
LeftFor(u) ==
    \/ wire[u] = <<>> /\ FreshTab(u)
    \/ wire[u] # <<>> /\ IsLeave(wire[u][Len(wire[u])])
LeaveInv == \A u \in Tabs : ~call[Other(u)] => LeftFor(u)

\* Before a tab is told that the other joins, it has heard of the leaving.
JoinInv ==
    \A u \in Tabs : \A j \in DOMAIN wire[u] :
        IsJoin(wire[u][j]) => \/ j = 1 /\ FreshTab(u)
                              \/ j > 1 /\ IsLeave(wire[u][j - 1])

LEMMA ReadsAre ==
    ASSUME TypeOK, NEW u \in Tabs, Does(u), wire'[u] # wire[u]
    PROVE  /\ Reads(u)
           /\ \/ ReadsJoin(u, Other(u)) \/ ReadsLeave(u, Other(u)) \/ ReadsInVain(u, Other(u))
              \/ ReadsCandidate(u, Other(u))
              \/ u = Hi /\ Other(u) = Lo /\ ReadsAnswer
              \/ u = Lo /\ Other(u) = Hi /\ ReadsOffer
<1>1. CASE BothDo(u, Other(u))
  BY <1>1 DEF BothDo, Joins, Leaves, ReadsJoin, ReadsLeave, ReadsInVain, ReadsCandidate,
     Connects, Disconnects, Forgets, Idles, Drops, Replaces, Changes, Works
<1>2. CASE u = Hi /\ Other(u) = Lo /\ (Offers \/ ReadsAnswer \/ SetsAnswer)
  BY <1>2 DEF Offers, ReadsAnswer, SetsAnswer, Changes, Works
<1>3. CASE u = Lo /\ Other(u) = Hi /\ (ReadsOffer \/ SetsOffer \/ Answers)
  BY <1>3 DEF ReadsOffer, SetsOffer, Answers, Works
<1>. QED  BY <1>1, <1>2, <1>3, TabDoes

\* A leaving that is read takes all with it.
LEMMA LeaveRead ==
    ASSUME TypeOK, NEW u \in Tabs, Does(u), wire'[u] # wire[u], IsLeave(Head(wire[u]))
    PROVE  Gone(u)
BY ReadsAre DEF ReadsJoin, ReadsLeave, ReadsInVain, ReadsCandidate, ReadsAnswer, ReadsOffer,
   IsLeave, IsJoin, IsAnswer, IsOffer, IsCandidate

LEMMA FreshStays ==
    ASSUME TypeOK, Roles, NEW u \in Tabs, Does(u), FreshTab(u), wire'[u] = wire[u]
    PROVE  FreshTab(u)'
<1>1. /\ pc[u] # None => pc[u] \in Peers(0..made, 0..offers)
      /\ wire[u] # <<>> => Tail(wire[u]) # wire[u]
  <2>1. wire[u] # <<>> => Tail(wire[u]) # wire[u]
    <3>1. wire[u] \in Seq(AllMessages)
      BY WiresAre
    <3>. QED  BY <3>1, TailIsShorter
  <2>. QED  BY <2>1, TypesAre DEF Open
<1>2. ~Reads(u)
  BY <1>1 DEF Reads
<1>3. pc[u] # None => pc[u].conn = "new"
  BY RolesApart DEF RoleOf, FreshTab
<1>4. CASE Joins(u, Other(u)) \/ Leaves(u, Other(u)) \/ Drops(u, Other(u)) \/ Replaces(u, Other(u))
           \/ Forgets(u, Other(u)) \/ Idles(u, Other(u))
  BY <1>4 DEF FreshTab, Joins, Leaves, Drops, Replaces, Forgets, Idles, Changes, Gone, Renewed,
     Kept, NewPeer, FirstTasks, Task
<1>5. CASE u = Hi /\ Offers
  <2>1. /\ pc[u] # None /\ tasks'[u] \subseteq tasks[u]
        /\ pc'[u] = [pc[u] EXCEPT !.sig = "have-local-offer", !.offer = offers + 1]
    BY <1>5 DEF Offers, Kept
  <2>2. pc'[u].deal = pc[u].deal /\ pc'[u].far = pc[u].far
    BY <1>1, <2>1 DEF Peers
  <2>. QED  BY <2>1, <2>2 DEF FreshTab
<1>6. ~Connects(u, Other(u)) /\ ~Disconnects(u, Other(u))
  BY <1>3 DEF FreshTab, Connects, Linked, Disconnects
<1>7. ~(u = Hi /\ SetsAnswer) /\ ~(u = Lo /\ (SetsOffer \/ Answers))
  BY DEF FreshTab, SetsAnswer, SetsOffer, Answers
<1>8. ~ReadsJoin(u, Other(u)) /\ ~ReadsLeave(u, Other(u)) /\ ~ReadsInVain(u, Other(u))
      /\ ~ReadsCandidate(u, Other(u)) /\ ~(u = Hi /\ ReadsAnswer) /\ ~(u = Lo /\ ReadsOffer)
  BY <1>2 DEF ReadsJoin, ReadsLeave, ReadsInVain, ReadsCandidate, ReadsAnswer, ReadsOffer
<1>. QED  BY <1>4, <1>5, <1>6, <1>7, <1>8, TabDoes DEF BothDo

LEMMA GoneIsFresh ==
    ASSUME NEW u, Gone(u)
    PROVE  FreshTab(u)'
BY DEF Gone, FreshTab

LEMMA LeaveStays ==
    ASSUME TypeOK, Roles, LeaveInv, NEW u \in Tabs, Does(u)
    PROVE  LeaveInv'
<1>. DEFINE v == Other(u)
<1>1. u \in {Hi, Lo} /\ v \in Tabs /\ u # v /\ Tabs = {u, v} /\ Other(v) = u
  BY OthersAre DEF Tabs
<1>2. ASSUME ~call'[v] PROVE LeftFor(u)'
  <2>1. LeftFor(u)
    BY <1>1, <1>2, WiresMove DEF LeaveInv
  <2>2. CASE wire'[u] = wire[u]
    BY <2>1, <2>2, FreshStays DEF LeftFor
  <2>3. CASE wire'[u] # wire[u]
    <3>1. wire[u] # <<>> /\ wire'[u] = Tail(wire[u]) /\ IsLeave(wire[u][Len(wire[u])])
      BY <2>1, <2>3, ReadsAre DEF Reads, LeftFor
    <3>2. /\ Len(wire[u]) \in Nat \ {0} /\ Head(wire[u]) = wire[u][1]
          /\ Len(wire'[u]) = Len(wire[u]) - 1
          /\ \A i \in 1..(Len(wire[u]) - 1) : wire'[u][i] = wire[u][i + 1]
      BY <3>1, ReadFrom
    <3>3. CASE Len(wire[u]) = 1
      <4>1. FreshTab(u)'
        BY <2>3, <3>1, <3>2, <3>3, LeaveRead, GoneIsFresh
      <4>2. wire'[u] = <<>>
        <5>1. wire[u] \in Seq(AllMessages)
          BY WiresAre
        <5>2. Len(wire[u]) = 1 => Tail(wire[u]) = <<>>
          BY <3>1, <5>1, TailIsShorter
        <5>. QED  BY <3>1, <3>3, <5>2
      <4>. QED  BY <4>1, <4>2 DEF LeftFor
    <3>4. CASE Len(wire[u]) # 1
      <4>1. Len(wire'[u]) \in 1..(Len(wire[u]) - 1) /\ Len(wire'[u]) + 1 = Len(wire[u])
        <5>1. \A n, k : n \in Nat \ {0} /\ n # 1 /\ k = n - 1 => k \in 1..(n - 1) /\ k + 1 = n
          OBVIOUS
        <5>. QED  BY <3>2, <3>4, <5>1
      <4>2. wire'[u][Len(wire'[u])] = wire[u][Len(wire[u])]
        BY <3>2, <4>1
      <4>3. wire'[u] # <<>>
        BY <4>1
      <4>. QED  BY <3>1, <4>2, <4>3 DEF LeftFor
    <3>. QED  BY <3>3, <3>4
  <2>. QED  BY <2>2, <2>3
<1>3. ASSUME ~call'[u] PROVE LeftFor(v)'
  <2>1. CASE Leaves(u, v)
    <3>. DEFINE m == Msg("voice_leave", 0, 0)
    <3>1. wire'[v] = wire[v] \o <<m>>
      BY <2>1 DEF Leaves, Elsewhere
    <3>2. wire[v] \in Seq(AllMessages)
      BY <1>1, WiresAre
    <3>3. IsLeave(m)
      BY DEF Msg, IsLeave
    <3>. HIDE DEF m
    <3>4. wire'[v] # <<>> /\ wire'[v][Len(wire'[v])] = m
      <4>1. PICK s : s = wire[v]
        OBVIOUS
      <4>2. s \in Seq(AllMessages) /\ wire'[v] = Append(s, m)
        BY <3>1, <3>2, <4>1
      <4>. QED  BY <4>2
    <3>. QED  BY <3>3, <3>4 DEF LeftFor
  <2>2. CASE ~Leaves(u, v)
    <3>1. ~call[u]
      <4>1. CASE BothDo(u, v)
        BY <1>3, <2>2, <4>1 DEF BothDo, Joins, ReadsJoin, ReadsLeave, ReadsInVain, ReadsCandidate,
           Connects, Disconnects, Forgets, Idles, Drops, Replaces, Changes, Works, Reads
      <4>2. CASE u = Hi /\ Other(u) = Lo /\ (Offers \/ ReadsAnswer \/ SetsAnswer)
        BY <1>3, <4>2 DEF Offers, ReadsAnswer, SetsAnswer, Changes, Works, Reads
      <4>3. CASE u = Lo /\ Other(u) = Hi /\ (ReadsOffer \/ SetsOffer \/ Answers)
        BY <1>3, <4>3 DEF ReadsOffer, SetsOffer, Answers, Works, Reads
      <4>. QED  BY <4>1, <4>2, <4>3, TabDoes
    <3>2. LeftFor(v)
      BY <1>1, <3>1 DEF LeaveInv
    <3>3. pc[u] = None
      BY <1>1, <3>1 DEF Roles, CallInv
    <3>4. PICK ms \in Seq(AllMessages) :
              Elsewhere(v, ms) /\ \A i \in DOMAIN ms : Says(u, ms[i])
      BY SaysWhat DEF Telling
    <3>5. ~Joins(u, v) /\ ~(u = Hi /\ Offers) /\ ~(u = Lo /\ Answers)
      BY <1>3, <3>3 DEF Joins, Offers, Answers, Kept
    <3>6. ms = <<>>
      <4>1. DOMAIN ms = {}
        BY <2>2, <3>4, <3>5 DEF Says
      <4>. QED  BY <4>1
    <3>7. wire'[v] = wire[v] /\ pc'[v] = pc[v] /\ tasks'[v] = tasks[v]
      <4>1. wire'[v] = wire[v] \o <<>> /\ pc'[v] = pc[v] /\ tasks'[v] = tasks[v]
        BY <3>4, <3>6 DEF Elsewhere
      <4>. HIDE DEF v
      <4>. QED  BY <1>1, <4>1, NothingSent
    <3>. QED  BY <3>2, <3>7 DEF LeftFor, FreshTab
  <2>. QED  BY <2>1, <2>2
<1>. QED  BY <1>1, <1>2, <1>3 DEF LeaveInv

LEMMA JoinStays ==
    ASSUME TypeOK, Roles, LeaveInv, JoinInv, NEW u \in Tabs, Does(u)
    PROVE  JoinInv'
<1>. DEFINE v == Other(u)
<1>1. u \in {Hi, Lo} /\ v \in Tabs /\ u # v /\ Tabs = {u, v} /\ Other(v) = u
  BY OthersAre DEF Tabs
<1>2. ASSUME NEW j \in DOMAIN wire'[u], IsJoin(wire'[u][j])
      PROVE  (j = 1 /\ FreshTab(u)') \/ (j > 1 /\ IsLeave(wire'[u][j - 1]))
  <2>1. CASE wire'[u] = wire[u]
    <3>1. (j = 1 /\ FreshTab(u)) \/ (j > 1 /\ IsLeave(wire[u][j - 1]))
      <4>1. j \in DOMAIN wire[u] /\ IsJoin(wire[u][j])
        BY <1>2, <2>1, Zenon
      <4>. QED  BY <4>1, Zenon DEF JoinInv
    <3>. QED  BY <2>1, <3>1, FreshStays
  <2>2. CASE wire'[u] # wire[u]
    <3>1. wire[u] # <<>> /\ wire'[u] = Tail(wire[u])
      BY <2>2, ReadsAre DEF Reads
    <3>2. /\ Len(wire[u]) \in Nat \ {0} /\ Head(wire[u]) = wire[u][1]
          /\ DOMAIN wire[u] = 1..Len(wire[u]) /\ DOMAIN wire'[u] = 1..(Len(wire[u]) - 1)
          /\ \A i \in 1..(Len(wire[u]) - 1) :
                 i + 1 \in 1..Len(wire[u]) /\ wire'[u][i] = wire[u][i + 1]
      BY <3>1, ReadFrom
    <3>3. j \in Nat \ {0} /\ j + 1 > 1 /\ j + 1 # 1 /\ (j + 1) - 1 = j
      BY <3>2
    <3>4. j + 1 \in DOMAIN wire[u] /\ IsJoin(wire[u][j + 1])
      BY <1>2, <3>2
    <3>5. IsLeave(wire[u][j])
      BY <3>3, <3>4, Zenon DEF JoinInv
    <3>6. CASE j = 1
      <4>1. IsLeave(Head(wire[u]))
        BY <3>2, <3>5, <3>6
      <4>2. FreshTab(u)'
        BY <2>2, <4>1, LeaveRead, GoneIsFresh
      <4>. QED  BY <3>6, <4>2
    <3>7. CASE j # 1
      <4>1. j > 1 /\ j - 1 \in 1..(Len(wire[u]) - 1) /\ (j - 1) + 1 = j
        BY <3>2, <3>3, <3>7
      <4>. QED  BY <3>2, <3>5, <4>1
    <3>. QED  BY <3>6, <3>7
  <2>. QED  BY <2>1, <2>2
<1>3. ASSUME NEW j \in DOMAIN wire'[v], IsJoin(wire'[v][j])
      PROVE  (j = 1 /\ FreshTab(v)') \/ (j > 1 /\ IsLeave(wire'[v][j - 1]))
  <2>1. PICK ms \in Seq(AllMessages) :
            Elsewhere(v, ms) /\ \A i \in DOMAIN ms : Says(u, ms[i])
    BY SaysWhat DEF Telling
  <2>. HIDE DEF v
  <2>2. Joined(wire[v], ms, wire'[v]) /\ (FreshTab(v) => FreshTab(v)')
    BY <1>1, <2>1, SentTo DEF Elsewhere, FreshTab
  <2>3. CASE j \in DOMAIN wire[v]
    <3>1. \/ j = 1 /\ FreshTab(v)
          \/ j > 1 /\ IsLeave(wire[v][j - 1])
      BY <1>1, <1>3, <2>2, <2>3 DEF JoinInv, Joined
    <3>2. ASSUME j > 1 PROVE wire'[v][j - 1] = wire[v][j - 1]
      <4>1. j - 1 \in DOMAIN wire[v]
        <5>1. DOMAIN wire[v] = 1..Len(wire[v]) /\ Len(wire[v]) \in Nat
          BY <2>2 DEF Joined
        <5>. QED  BY <2>3, <3>2, <5>1
      <4>. QED  BY <2>2, <4>1 DEF Joined
    <3>3. CASE j = 1 /\ FreshTab(v)
      BY <2>2, <3>3
    <3>4. CASE j > 1 /\ IsLeave(wire[v][j - 1])
      BY <3>2, <3>4
    <3>. QED  BY <3>1, <3>3, <3>4
  <2>4. CASE j \notin DOMAIN wire[v]
    <3>1. Len(wire[v]) \in Nat /\ j - Len(wire[v]) \in DOMAIN ms
          /\ wire'[v][j] = ms[j - Len(wire[v])] /\ j \in Nat /\ DOMAIN wire[v] = 1..Len(wire[v])
      BY <1>3, <2>2, <2>4 DEF Joined
    <3>2. Joins(u, v)
      BY <1>3, <2>1, <3>1 DEF Says, IsJoin, Msg, v
    <3>3. wire'[v] = wire[v] \o <<Msg("voice_join", 0, 0)>> /\ ~call[u]
      BY <3>2 DEF Joins, Elsewhere
    <3>4. Len(wire'[v]) = Len(wire[v]) + 1
      <4>1. \A s \in Seq(AllMessages) : \A m : Len(s \o <<m>>) = Len(s) + 1
        OBVIOUS
      <4>. QED  BY <1>1, <3>3, <4>1, WiresAre
    <3>5. j = Len(wire[v]) + 1
      <4>1. DOMAIN wire'[v] = 1..(Len(wire[v]) + 1)
        BY <2>2, <3>4 DEF Joined
      <4>. QED  BY <1>3, <2>4, <3>1, <4>1
    <3>6. LeftFor(v)
      BY <1>1, <3>3 DEF LeaveInv
    <3>7. CASE wire[v] = <<>> /\ FreshTab(v)
      <4>1. Len(wire[v]) = 0
        BY <3>7
      <4>2. j = 1 /\ FreshTab(v)'
        BY <2>2, <3>5, <3>7, <4>1
      <4>. QED  BY <4>2
    <3>8. CASE wire[v] # <<>> /\ IsLeave(wire[v][Len(wire[v])])
      <4>1. Len(wire[v]) \in Nat \ {0}
        BY <1>1, <3>8, WiresAre, TailIs
      <4>2. j > 1 /\ j - 1 = Len(wire[v]) /\ j - 1 \in DOMAIN wire[v]
        BY <3>1, <3>5, <4>1
      <4>3. wire'[v][j - 1] = wire[v][j - 1]
        BY <2>2, <4>2 DEF Joined
      <4>. QED  BY <3>8, <4>2, <4>3
    <3>. QED  BY <3>6, <3>7, <3>8 DEF LeftFor
  <2>. QED  BY <2>3, <2>4
<1>. HIDE DEF v
<1>. QED  BY <1>1, <1>2, <1>3 DEF JoinInv

----------------------------------------------------------------------------
(* What a tab knows of the other's present connection.                     *)

\* The tab's connection is c.
Has(u, c) == pc[u] # None /\ pc[u].id = c

\* The tab has heard of connection c.
Knows(u, c) ==
    \/ c \in queued[u]
    \/ \E t \in tasks[u] : t.far = c
    \/ pc[u] # None /\ (pc[u].far = c \/ c \in pc[u].cands)

\* Who is about to be told that the other leaves knows nothing of the connection
\* that the other has made since; neither does what was said before the leaving.
SinceInv ==
    \A u \in Tabs : \A c : Has(Other(u), c) =>
        /\ LeaveComing(u) => ~Knows(u, c)
        /\ \A i, j \in DOMAIN wire[u] : i < j /\ IsLeave(wire[u][j]) => wire[u][i].pc # c

\* Nothing is known of a connection of Lo before it has answered.
NotYetInv ==
    \A c : Has(Lo, c) /\ pc[Lo].deal = 0 =>
        ~Knows(Hi, c) /\ \A m \in Coming(Hi) : m.pc # c

LEMMA KnowsAre ==
    ASSUME TypeOK, NEW u \in Tabs, NEW c
    PROVE  /\ Knows(u, c) => c \in 0..made
           /\ \A m \in Coming(u) : m.pc \in 0..made
           /\ \A i \in DOMAIN wire[u] : wire[u][i].pc \in 0..made
<1>1. /\ pc[u] # None => pc[u] \in Peers(0..made, 0..offers)
      /\ tasks[u] \subseteq TaskTypes(0..made, 0..offers)
      /\ queued[u] \subseteq 0..made /\ made \in Nat
      /\ wire[u] \in Seq(MessageTypes(0..made, 0..offers))
  BY TypesAre DEF Open
<1>2. ASSUME NEW t \in tasks[u] PROVE t.far \in 0..made
  BY <1>1 DEF TaskTypes
<1>3. \A i \in DOMAIN wire[u] : wire[u][i] \in MessageTypes(0..made, 0..offers)
  BY <1>1
<1>4. \A i \in DOMAIN wire[u] : wire[u][i].pc \in 0..made
  BY <1>3 DEF MessageTypes
<1>5. pc[u] # None => pc[u].far \in 0..made /\ pc[u].cands \subseteq 0..made
  BY <1>1 DEF Peers
<1>. QED  BY <1>1, <1>2, <1>4, <1>5 DEF Knows, Coming

----------------------------------------------------------------------------
(* What a step changes of a connection that stays.                         *)

SameTalk(p, q) ==
    /\ q.sig = p.sig /\ q.offer = p.offer /\ q.heard = p.heard
    /\ q.far = p.far /\ q.deal = p.deal
SameWay(p, q) == q.conn = p.conn /\ q.restarted = p.restarted

LEMMA PeerIs ==
    ASSUME TypeOK, NEW u \in Tabs, pc[u] # None
    PROVE  pc[u] \in Peers(Nat, Nat)
<1>1. made \in Nat /\ offers \in Nat /\ pc[u] \in Peers(0..made, 0..offers)
  BY TypesAre DEF Open
<1>2. 0..made \subseteq Nat /\ 0..offers \subseteq Nat
  BY <1>1
<1>3. SUBSET (0..made) \subseteq SUBSET Nat /\ (0..made) \ {0} \subseteq Nat \ {0}
  BY <1>2
<1>4. Peers(0..made, 0..offers) \subseteq Peers(Nat, Nat)
  BY <1>2, <1>3, Zenon DEF Peers
<1>. QED  BY <1>1, <1>4

LEMMA NewFields ==
    ASSUME NEW n \in Nat
    PROVE  LET p == NewPeer(n + 1, FALSE)
           IN  /\ p # None /\ p.id = n + 1 /\ p.sig = "stable" /\ p.offer = 0 /\ p.heard = 0
               /\ p.far = 0 /\ p.deal = 0 /\ p.cands = {} /\ p.conn = "new" /\ ~p.restarted
<1>1. NewPeer(n + 1, FALSE) \in Peers(Nat, Nat)
  BY DEF NewPeer, Peers
<1>. QED  BY <1>1, NoneAssumption DEF NewPeer

LEMMA CandidateFields ==
    ASSUME TypeOK, NEW u \in Tabs, ReadsCandidate(u, Other(u))
    PROVE  LET c == Head(wire[u]).pc
           IN  /\ tasks'[u] = tasks[u] /\ made' = made
               /\ \/ pc'[u] = pc[u] /\ queued'[u] = queued[u] \cup {c}
                  \/ /\ pc[u] # None /\ pc'[u] # None /\ queued'[u] = queued[u]
                     /\ pc'[u].id = pc[u].id /\ SameTalk(pc[u], pc'[u]) /\ SameWay(pc[u], pc'[u])
                     /\ pc'[u].cands = pc[u].cands \cup {c}
<1>. DEFINE c == Head(wire[u]).pc
            p == [pc[u] EXCEPT !.cands = @ \cup {c}]
<1>1. c \in Nat
  <2>1. Head(wire[u]) \in AllMessages
    BY ReadFrom DEF ReadsCandidate, Reads
  <2>. QED  BY <2>1 DEF AllMessages, MessageTypes
<1>2. /\ tasks'[u] = tasks[u] /\ made' = made
      /\ \/ pc'[u] = pc[u] /\ queued'[u] = queued[u] \cup {c}
         \/ pc[u] # None /\ pc'[u] = p /\ queued'[u] = queued[u]
  BY DEF ReadsCandidate
<1>3. ASSUME pc[u] # None
      PROVE  /\ p # None /\ p.id = pc[u].id /\ SameTalk(pc[u], p) /\ SameWay(pc[u], p)
             /\ p.cands = pc[u].cands \cup {c}
  <2>1. pc[u] \in Peers(Nat, Nat)
    BY <1>3, PeerIs
  <2>2. /\ p \in Peers(Nat, Nat) /\ p.id = pc[u].id /\ SameTalk(pc[u], p) /\ SameWay(pc[u], p)
        /\ p.cands = pc[u].cands \cup {c}
    BY <1>1, <2>1 DEF Peers, SameTalk, SameWay
  <2>. QED  BY <2>2, NoneAssumption
<1>. HIDE DEF p
<1>. QED  BY <1>2, <1>3

LEMMA ConnectsFields ==
    ASSUME TypeOK, NEW u \in Tabs, Connects(u, Other(u))
    PROVE  /\ Linked /\ pc[u] # None /\ pc'[u] # None /\ pc'[u].id = pc[u].id /\ made' = made
           /\ SameTalk(pc[u], pc'[u]) /\ pc'[u].cands = pc[u].cands
           /\ pc'[u].conn = "connected" /\ pc'[u].restarted = pc[u].restarted
           /\ tasks'[u] = tasks[u] /\ queued'[u] = queued[u]
<1>1. /\ Linked /\ pc[u] # None /\ pc'[u] = [pc[u] EXCEPT !.conn = "connected"]
      /\ made' = made /\ tasks'[u] = tasks[u] /\ queued'[u] = queued[u]
  BY DEF Connects, Changes, Kept
<1>2. pc[u] \in Peers(Nat, Nat)
  BY <1>1, PeerIs
<1>3. /\ pc'[u] \in Peers(Nat, Nat) /\ pc'[u].id = pc[u].id /\ SameTalk(pc[u], pc'[u])
      /\ pc'[u].cands = pc[u].cands
      /\ pc'[u].conn = "connected" /\ pc'[u].restarted = pc[u].restarted
  BY <1>1, <1>2 DEF Peers, SameTalk
<1>. QED  BY <1>1, <1>3, NoneAssumption

LEMMA DisconnectsFields ==
    ASSUME TypeOK, NEW u \in Tabs, Disconnects(u, Other(u))
    PROVE  /\ pc[u] # None /\ pc[u].conn = "connected" /\ FarEndGone(u)
           /\ pc'[u] # None /\ pc'[u].id = pc[u].id /\ made' = made
           /\ SameTalk(pc[u], pc'[u]) /\ pc'[u].cands = pc[u].cands
           /\ pc'[u].conn = "disconnected" /\ pc'[u].restarted
           /\ queued'[u] = queued[u] /\ tasks[u] \subseteq tasks'[u]
           /\ \A t \in tasks'[u] : t \in tasks[u] \/ (/\ t = Task("offer", pc[u].id, 0, 0)
                                                     /\ u = Hi /\ pc[u].sig = "stable")
<1>1. /\ pc[u] # None /\ pc[u].conn = "connected" /\ FarEndGone(u)
      /\ pc'[u] = [pc[u] EXCEPT !.conn = "disconnected", !.restarted = TRUE]
      /\ made' = made /\ queued'[u] = queued[u]
      /\ tasks'[u] = tasks[u] \cup IF u = Hi /\ ~pc[u].restarted /\ pc[u].sig = "stable"
                                   THEN {Task("offer", pc[u].id, 0, 0)} ELSE {}
  BY DEF Disconnects, Changes, Kept
<1>2. pc[u] \in Peers(Nat, Nat)
  BY <1>1, PeerIs
<1>3. /\ pc'[u] \in Peers(Nat, Nat) /\ pc'[u].id = pc[u].id /\ SameTalk(pc[u], pc'[u])
      /\ pc'[u].cands = pc[u].cands /\ pc'[u].conn = "disconnected" /\ pc'[u].restarted
  BY <1>1, <1>2 DEF Peers, SameTalk
<1>. QED  BY <1>1, <1>3, NoneAssumption

LEMMA OffersFields ==
    ASSUME TypeOK, Offers
    PROVE  \E t \in tasks[Hi] :
               /\ t.do = "offer" /\ pc[Hi] # None /\ pc'[Hi] # None
               /\ pc'[Hi].id = pc[Hi].id /\ made' = made
               /\ pc'[Hi].sig = "have-local-offer" /\ pc'[Hi].offer = offers + 1
               /\ pc'[Hi].heard = pc[Hi].heard /\ pc'[Hi].far = pc[Hi].far
               /\ pc'[Hi].deal = pc[Hi].deal
               /\ pc'[Hi].cands = pc[Hi].cands /\ SameWay(pc[Hi], pc'[Hi])
               /\ queued'[Hi] = queued[Hi] /\ tasks'[Hi] = tasks[Hi] \ {t}
               /\ Elsewhere(Lo, <<Msg("webrtc_offer", pc[Hi].id, offers + 1)>>
                                \o CandidateFound(pc[Hi]))
<1>1. PICK t \in tasks[Hi] :
          /\ t.do = "offer" /\ pc[Hi] # None /\ made' = made
          /\ pc'[Hi] = [pc[Hi] EXCEPT !.sig = "have-local-offer", !.offer = offers + 1]
          /\ queued'[Hi] = queued[Hi] /\ tasks'[Hi] = tasks[Hi] \ {t}
          /\ Elsewhere(Lo, <<Msg("webrtc_offer", pc[Hi].id, offers + 1)>>
                           \o CandidateFound(pc[Hi]))
  BY DEF Offers, Kept
<1>2. pc[Hi] \in Peers(Nat, Nat) /\ offers \in Nat
  BY <1>1, PeerIs, TypesAre DEF Tabs
<1>3. /\ pc'[Hi] \in Peers(Nat, Nat) /\ pc'[Hi].id = pc[Hi].id
      /\ pc'[Hi].sig = "have-local-offer" /\ pc'[Hi].offer = offers + 1
      /\ pc'[Hi].heard = pc[Hi].heard /\ pc'[Hi].far = pc[Hi].far
      /\ pc'[Hi].deal = pc[Hi].deal
      /\ pc'[Hi].cands = pc[Hi].cands /\ SameWay(pc[Hi], pc'[Hi])
  <2>1. PICK n \in Nat : n = offers + 1
    BY <1>2
  <2>2. pc'[Hi] = [pc[Hi] EXCEPT !.sig = "have-local-offer", !.offer = n]
    BY <1>1, <2>1
  <2>. QED  BY <1>2, <2>1, <2>2 DEF Peers, SameWay
<1>4. pc'[Hi] # None
  BY <1>3, NoneAssumption
<1>. QED  BY <1>1, <1>3, <1>4

LEMMA SetsAnswerFields ==
    ASSUME TypeOK, SetsAnswer
    PROVE  \E t \in tasks[Hi] :
               /\ t.do = "accept" /\ pc[Hi] # None /\ pc[Hi].sig = "have-local-offer"
               /\ pc'[Hi] # None /\ pc'[Hi].id = pc[Hi].id /\ made' = made
               /\ pc'[Hi].sig = "stable" /\ pc'[Hi].far = t.far /\ pc'[Hi].deal = pc[Hi].offer
               /\ pc'[Hi].heard = pc[Hi].heard /\ pc'[Hi].offer = pc[Hi].offer
               /\ pc'[Hi].cands = pc[Hi].cands /\ SameWay(pc[Hi], pc'[Hi])
               /\ queued'[Hi] = queued[Hi] /\ tasks'[Hi] = tasks[Hi] \ {t}
<1>1. PICK t \in tasks[Hi] :
          /\ t.do = "accept" /\ pc[Hi].sig = "have-local-offer" /\ pc[Hi] # None /\ made' = made
          /\ pc'[Hi] = [pc[Hi] EXCEPT !.sig = "stable", !.far = t.far, !.deal = pc[Hi].offer]
          /\ queued'[Hi] = queued[Hi] /\ tasks'[Hi] = tasks[Hi] \ {t}
  BY DEF SetsAnswer, Changes, Kept
<1>2. pc[Hi] \in Peers(Nat, Nat) /\ t.far \in Nat
  <2>1. Hi \in Tabs /\ t \in TaskTypes(0..made, 0..offers) /\ made \in Nat
    BY TypesAre DEF Open, Tabs
  <2>2. t.far \in Nat
    BY <2>1 DEF TaskTypes
  <2>. QED  BY <1>1, <2>1, <2>2, PeerIs
<1>3. /\ pc'[Hi] \in Peers(Nat, Nat) /\ pc'[Hi].id = pc[Hi].id
      /\ pc'[Hi].sig = "stable" /\ pc'[Hi].far = t.far /\ pc'[Hi].deal = pc[Hi].offer
      /\ pc'[Hi].heard = pc[Hi].heard /\ pc'[Hi].offer = pc[Hi].offer
      /\ pc'[Hi].cands = pc[Hi].cands /\ SameWay(pc[Hi], pc'[Hi])
  BY <1>1, <1>2 DEF Peers, SameWay
<1>4. pc'[Hi] # None
  BY <1>3, NoneAssumption
<1>. QED  BY <1>1, <1>3, <1>4

LEMMA SetsOfferFields ==
    ASSUME TypeOK, SetsOffer
    PROVE  \E t \in tasks[Lo] :
               /\ t.do = "remote" /\ pc[Lo] # None /\ pc'[Lo] # None
               /\ pc'[Lo].id = pc[Lo].id /\ made' = made
               /\ pc'[Lo].sig = "have-remote-offer" /\ pc'[Lo].far = t.far
               /\ pc'[Lo].heard = t.n /\ pc'[Lo].offer = pc[Lo].offer
               /\ pc'[Lo].deal = pc[Lo].deal /\ SameWay(pc[Lo], pc'[Lo])
               /\ pc'[Lo].cands = pc[Lo].cands \cup queued[Lo] /\ queued'[Lo] = {}
               /\ \A a \in tasks'[Lo] : \E b \in tasks[Lo] : a.far = b.far
<1>1. PICK t \in tasks[Lo] :
          /\ t.do = "remote" /\ pc[Lo] # None /\ made' = made
          /\ pc'[Lo] = [pc[Lo] EXCEPT !.sig = "have-remote-offer", !.far = t.far, !.heard = t.n,
                                      !.cands = @ \cup queued[Lo]]
          /\ queued'[Lo] = {} /\ tasks'[Lo] = (tasks[Lo] \ {t}) \cup {[t EXCEPT !.do = "answer"]}
  BY DEF SetsOffer, Kept
<1>2. /\ pc[Lo] \in Peers(Nat, Nat) /\ t.far \in Nat /\ t.n \in Nat /\ queued[Lo] \subseteq Nat
      /\ [t EXCEPT !.do = "answer"].far = t.far
  <2>1. /\ Lo \in Tabs /\ t \in TaskTypes(0..made, 0..offers) /\ made \in Nat /\ offers \in Nat
        /\ queued[Lo] \subseteq 0..made
    BY TypesAre DEF Open, Tabs
  <2>2. t.far \in Nat /\ t.n \in Nat /\ [t EXCEPT !.do = "answer"].far = t.far
    BY <2>1 DEF TaskTypes
  <2>. QED  BY <1>1, <2>1, <2>2, PeerIs
<1>3. /\ pc'[Lo] \in Peers(Nat, Nat) /\ pc'[Lo].id = pc[Lo].id
      /\ pc'[Lo].sig = "have-remote-offer" /\ pc'[Lo].far = t.far
      /\ pc'[Lo].heard = t.n /\ pc'[Lo].offer = pc[Lo].offer
      /\ pc'[Lo].deal = pc[Lo].deal /\ SameWay(pc[Lo], pc'[Lo])
      /\ pc'[Lo].cands = pc[Lo].cands \cup queued[Lo]
  <2>1. PICK q : q = pc[Lo].cands \cup queued[Lo]
    OBVIOUS
  <2>2. q \in SUBSET Nat
    <3>1. pc[Lo].cands \subseteq Nat
      BY <1>2 DEF Peers
    <3>. QED  BY <1>2, <2>1, <3>1
  <2>3. pc'[Lo] = [pc[Lo] EXCEPT !.sig = "have-remote-offer", !.far = t.far, !.heard = t.n,
                                 !.cands = q]
    BY <1>1, <2>1
  <2>. QED  BY <1>2, <2>1, <2>2, <2>3 DEF Peers, SameWay
<1>4. pc'[Lo] # None
  BY <1>3, NoneAssumption
<1>5. \A a \in tasks'[Lo] : \E b \in tasks[Lo] : a.far = b.far
  BY <1>1, <1>2
<1>. QED  BY <1>1, <1>3, <1>4, <1>5

LEMMA AnswersFields ==
    ASSUME TypeOK, Answers
    PROVE  /\ pc[Lo] # None /\ pc[Lo].sig = "have-remote-offer" /\ pc'[Lo] # None
           /\ pc'[Lo].id = pc[Lo].id /\ made' = made
           /\ pc'[Lo].sig = "stable" /\ pc'[Lo].deal = pc[Lo].heard
           /\ pc'[Lo].far = pc[Lo].far /\ pc'[Lo].heard = pc[Lo].heard
           /\ pc'[Lo].offer = pc[Lo].offer
           /\ pc'[Lo].cands = pc[Lo].cands /\ SameWay(pc[Lo], pc'[Lo])
           /\ queued'[Lo] = queued[Lo] /\ tasks'[Lo] \subseteq tasks[Lo]
           /\ Elsewhere(Hi, <<Msg("webrtc_answer", pc[Lo].id, pc[Lo].heard)>>
                            \o CandidateFound(pc[Lo]))
<1>1. /\ pc[Lo].sig = "have-remote-offer" /\ pc[Lo] # None /\ made' = made
      /\ pc'[Lo] = [pc[Lo] EXCEPT !.sig = "stable", !.deal = pc[Lo].heard]
      /\ queued'[Lo] = queued[Lo] /\ tasks'[Lo] \subseteq tasks[Lo]
      /\ Elsewhere(Hi, <<Msg("webrtc_answer", pc[Lo].id, pc[Lo].heard)>>
                       \o CandidateFound(pc[Lo]))
  BY DEF Answers, Kept
<1>2. pc[Lo] \in Peers(Nat, Nat)
  BY <1>1, PeerIs DEF Tabs
<1>3. /\ pc'[Lo] \in Peers(Nat, Nat) /\ pc'[Lo].id = pc[Lo].id
      /\ pc'[Lo].sig = "stable" /\ pc'[Lo].deal = pc[Lo].heard
      /\ pc'[Lo].far = pc[Lo].far /\ pc'[Lo].heard = pc[Lo].heard
      /\ pc'[Lo].offer = pc[Lo].offer
      /\ pc'[Lo].cands = pc[Lo].cands /\ SameWay(pc[Lo], pc'[Lo])
  BY <1>1, <1>2 DEF Peers, SameWay
<1>4. pc'[Lo] # None
  BY <1>3, NoneAssumption
<1>. QED  BY <1>1, <1>3, <1>4

LEMMA HasIs ==
    ASSUME TypeOK, NEW u \in Tabs, NEW c, Has(u, c)
    PROVE  c \in Nat /\ c # 0 /\ c \in 0..made
BY TypesAre DEF Open, Peers, Has

\* What a step makes of the tab's connection.
LEMMA PeerMoves ==
    ASSUME TypeOK, Roles, NEW u \in Tabs, Does(u)
    PROVE  \/ pc'[u] = None /\ made' = made
           \/ /\ pc'[u] = NewPeer(made + 1, FALSE) /\ made' = made + 1
              /\ \A c : Has(u, c)' <=> c = made + 1
           \/ /\ pc[u] # None /\ pc'[u] # None /\ made' = made
              /\ pc[u].deal # 0 => pc'[u].deal # 0
              /\ pc'[u].conn # "new" => pc[u].conn # "new" \/ Linked
              /\ \A c : Has(u, c)' <=> Has(u, c)
<1>1. /\ made \in Nat /\ u \in {Hi, Lo} /\ Hi # Lo
      /\ RoleOf(u, call[u], pc[u], tasks[u], Coming(u))
  BY TypesAre, TabAssumption, RolesApart DEF Tabs
<1>2. ASSUME pc'[u] = NewPeer(made + 1, FALSE) PROVE \A c : Has(u, c)' <=> c = made + 1
  BY <1>1, <1>2, NewFields DEF Has
<1>3. ASSUME pc[u] # None, pc'[u] # None, pc'[u].id = pc[u].id PROVE \A c : Has(u, c)' <=> Has(u, c)
  BY <1>3 DEF Has
<1>4. CASE BothDo(u, Other(u))
  <2>1. CASE \/ Joins(u, Other(u)) \/ Leaves(u, Other(u)) \/ ReadsLeave(u, Other(u))
             \/ ReadsInVain(u, Other(u)) \/ Drops(u, Other(u)) \/ Replaces(u, Other(u))
             \/ ReadsJoin(u, Other(u)) \/ Forgets(u, Other(u)) \/ Idles(u, Other(u))
    <3>1. \/ pc'[u] = None /\ made' = made
          \/ pc'[u] = NewPeer(made + 1, FALSE) /\ made' = made + 1
          \/ pc'[u] = pc[u] /\ made' = made
      BY <2>1 DEF Joins, Leaves, ReadsLeave, ReadsInVain, Drops, Replaces, ReadsJoin, Forgets,
         Idles, Changes, Gone, Renewed, Kept
    <3>. QED  BY <1>2, <1>3, <3>1
  <2>2. CASE ReadsCandidate(u, Other(u))
    BY <1>3, <2>2, CandidateFields DEF SameTalk, SameWay
  <2>3. CASE Connects(u, Other(u))
    BY <1>3, <2>3, ConnectsFields DEF SameTalk
  <2>4. CASE Disconnects(u, Other(u))
    BY <1>3, <2>4, DisconnectsFields DEF SameTalk
  <2>. QED  BY <1>4, <2>1, <2>2, <2>3, <2>4 DEF BothDo
<1>5. CASE u = Hi /\ (Offers \/ ReadsAnswer \/ SetsAnswer)
  <2>1. CASE Offers
    BY <1>3, <1>5, <2>1, OffersFields DEF SameWay
  <2>2. CASE ReadsAnswer
    BY <1>3, <1>5, <2>2 DEF ReadsAnswer
  <2>3. CASE SetsAnswer
    BY <1>1, <1>3, <1>5, <2>3, SetsAnswerFields DEF RoleOf, SameWay
  <2>. QED  BY <1>5, <2>1, <2>2, <2>3
<1>6. CASE u = Lo /\ (ReadsOffer \/ SetsOffer \/ Answers)
  <2>1. CASE ReadsOffer
    BY <1>2, <1>3, <1>6, <2>1 DEF ReadsOffer, Kept
  <2>2. CASE SetsOffer
    BY <1>3, <1>6, <2>2, SetsOfferFields DEF SameWay
  <2>3. CASE Answers
    BY <1>1, <1>3, <1>6, <2>3, AnswersFields DEF RoleOf, SameWay
  <2>. QED  BY <1>6, <2>1, <2>2, <2>3
<1>. QED  BY <1>4, <1>5, <1>6, TabDoes

\* A tab learns of connections from what it reads.
LEMMA KnowsLater ==
    ASSUME TypeOK, NEW u \in Tabs, Does(u), NEW c, c # 0, Knows(u, c)'
    PROVE  Knows(u, c) \/ (wire'[u] # wire[u] /\ c = Head(wire[u]).pc)
<1>1. made \in Nat
  BY TypesAre
<1>2. NewPeer(made + 1, FALSE).far = 0 /\ NewPeer(made + 1, FALSE).cands = {}
  BY DEF NewPeer
<1>3. ASSUME NEW id, NEW t \in FirstTasks(u, id) PROVE t.far = 0
  BY <1>3 DEF FirstTasks, Task
<1>4. ASSUME NEW do, NEW p, NEW n, NEW k PROVE Task(do, p, n, k).far = k
  BY DEF Task
<1>5. Reads(u) => wire'[u] # wire[u]
  <2>1. wire[u] \in Seq(AllMessages)
    BY WiresAre
  <2>. QED  BY <2>1, TailIsShorter DEF Reads
<1>6. CASE BothDo(u, Other(u))
  <2>1. CASE \/ Joins(u, Other(u)) \/ Leaves(u, Other(u)) \/ ReadsLeave(u, Other(u))
             \/ Drops(u, Other(u)) \/ Replaces(u, Other(u))
    BY <1>2, <1>3, <2>1 DEF Knows, Joins, Leaves, ReadsLeave, Drops, Replaces, Gone, Renewed
  <2>2. CASE ReadsInVain(u, Other(u)) \/ Forgets(u, Other(u)) \/ Idles(u, Other(u))
    BY <2>2 DEF Knows, ReadsInVain, Forgets, Idles, Changes, Kept
  <2>3. CASE ReadsJoin(u, Other(u))
    <3>1. \/ Renewed(u)
          \/ /\ pc'[u] = pc[u]
             /\ \A t \in tasks'[u] : t \in tasks[u] \/ t \in FirstTasks(u, pc[u].id)
      BY <2>3 DEF ReadsJoin, Kept
    <3>. QED  BY <1>2, <1>3, <2>3, <3>1 DEF Knows, ReadsJoin, Renewed
  <2>4. CASE ReadsCandidate(u, Other(u))
    <3>1. wire'[u] # wire[u]
      BY <1>5, <2>4 DEF ReadsCandidate
    <3>. QED  BY <2>4, <3>1, CandidateFields DEF Knows, SameTalk
  <2>5. CASE Connects(u, Other(u))
    BY <2>5, ConnectsFields DEF Knows, SameTalk
  <2>6. CASE Disconnects(u, Other(u))
    BY <1>4, <2>6, DisconnectsFields DEF Knows, SameTalk
  <2>. QED  BY <1>6, <2>1, <2>2, <2>3, <2>4, <2>5, <2>6 DEF BothDo
<1>7. CASE u = Hi /\ Offers
  BY <1>7, OffersFields DEF Knows
<1>8. CASE u = Hi /\ SetsAnswer
  BY <1>8, SetsAnswerFields DEF Knows
<1>9. CASE u = Hi /\ ReadsAnswer
  <2>1. /\ wire'[u] # wire[u] /\ pc'[u] = pc[u] /\ queued'[u] = queued[u]
        /\ \A t \in tasks'[u] : t \in tasks[u]
                                \/ t = Task("accept", pc[u].id, Head(wire[u]).n, Head(wire[u]).pc)
    BY <1>5, <1>9 DEF ReadsAnswer
  <2>. QED  BY <1>4, <2>1 DEF Knows
<1>10. CASE u = Lo /\ ReadsOffer
  <2>. DEFINE m == Head(wire[u])
  <2>1. /\ wire'[u] # wire[u] /\ queued'[u] = queued[u]
        /\ pc'[u] = pc[u] \/ pc'[u] = NewPeer(made + 1, FALSE)
        /\ \A t \in tasks'[u] : t \in tasks[u] \/ t.far = m.pc
    <3>1. Reads(u) /\ queued'[u] = queued[u]
          /\ \/ /\ pc'[u] = NewPeer(made + 1, FALSE)
                /\ tasks'[u] = {Task("remote", made + 1, m.n, m.pc)}
             \/ \E do : /\ pc'[u] = pc[u]
                        /\ tasks'[u] = tasks[u] \cup {Task(do, pc[u].id, m.n, m.pc)}
      BY <1>10 DEF ReadsOffer, Kept
    <3>2. Task("remote", made + 1, m.n, m.pc).far = m.pc
          /\ \A do : Task(do, pc[u].id, m.n, m.pc).far = m.pc
      BY <1>4
    <3>. HIDE DEF m
    <3>. QED  BY <1>5, <3>1, <3>2, Zenon
  <2>. HIDE DEF m
  <2>2. m.pc = c => Knows(u, c) \/ (wire'[u] # wire[u] /\ c = Head(wire[u]).pc)
    BY <2>1 DEF m
  <2>. QED  BY <1>2, <2>1, <2>2 DEF Knows
<1>11. CASE u = Lo /\ SetsOffer
  BY <1>11, SetsOfferFields DEF Knows
<1>12. CASE u = Lo /\ Answers
  BY <1>12, AnswersFields DEF Knows
<1>. QED  BY <1>6, <1>7, <1>8, <1>9, <1>10, <1>11, <1>12, TabDoes

\* What is said is of the connection that there is, or of none.
LEMMA SaysOf ==
    ASSUME TypeOK, NEW u \in Tabs, NEW m, Says(u, m)
    PROVE  /\ m.pc = 0 \/ Has(u, m.pc)
           /\ IsLeave(m) => pc'[u] = None
           /\ u = Lo /\ m.pc # 0 => Answers
<1>1. CASE Joins(u, Other(u)) /\ m = Msg("voice_join", 0, 0)
  BY <1>1 DEF Msg, IsLeave
<1>2. CASE Leaves(u, Other(u)) /\ m = Msg("voice_leave", 0, 0)
  BY <1>2 DEF Leaves, Gone, Msg, IsLeave
<1>3. CASE ~(Joins(u, Other(u)) /\ m = Msg("voice_join", 0, 0))
           /\ ~(Leaves(u, Other(u)) /\ m = Msg("voice_leave", 0, 0))
  <2>1. (u = Hi /\ Offers) \/ (u = Lo /\ Answers)
    BY <1>3 DEF Says
  <2>2. m.pc = pc[u].id /\ ~IsLeave(m)
    BY <1>3 DEF Says, Msg, IsLeave
  <2>3. pc[u] # None
    BY <2>1 DEF Offers, Answers, Kept
  <2>. QED  BY <2>1, <2>2, <2>3, TabAssumption DEF Has
<1>. QED  BY <1>1, <1>2, <1>3

LEMMA SinceStays ==
    ASSUME TypeOK, Roles, SinceInv, NEW u \in Tabs, Does(u)
    PROVE  SinceInv'
<1>. DEFINE v == Other(u)
<1>1. u \in {Hi, Lo} /\ v \in Tabs /\ u # v /\ Tabs = {u, v} /\ Other(v) = u /\ made \in Nat
  BY OthersAre, TypesAre DEF Tabs
<1>2. /\ pc'[v] = pc[v] /\ tasks'[v] = tasks[v] /\ queued'[v] = queued[v]
      /\ Coming(u)' \subseteq Coming(u)
      /\ \A m \in Coming(v)' : m \in Coming(v) \/ Says(u, m)
  BY WiresMove
<1>. HIDE DEF v
<1>3. ASSUME NEW c, Has(v, c)'
      PROVE  /\ LeaveComing(u)' => ~Knows(u, c)'
             /\ \A i, j \in DOMAIN wire'[u] : i < j /\ IsLeave(wire'[u][j]) => wire'[u][i].pc # c
  <2>1. Has(v, c)
    BY <1>2, <1>3 DEF Has
  <2>2. /\ LeaveComing(u) => ~Knows(u, c)
        /\ \A i, j \in DOMAIN wire[u] : i < j /\ IsLeave(wire[u][j]) => wire[u][i].pc # c
    BY <2>1 DEF SinceInv, v
  <2>3. c # 0
    BY <1>1, <2>1, HasIs
  <2>4. CASE wire'[u] = wire[u]
    <3>1. LeaveComing(u)' => LeaveComing(u)
      BY <1>2 DEF LeaveComing
    <3>2. Knows(u, c)' => Knows(u, c)
      BY <2>3, <2>4, KnowsLater
    <3>. QED  BY <2>2, <2>4, <3>1, <3>2
  <2>5. CASE wire'[u] # wire[u]
    <3>1. wire[u] # <<>> /\ wire'[u] = Tail(wire[u])
      BY <2>5, ReadsAre DEF Reads
    <3>2. /\ Len(wire[u]) \in Nat \ {0} /\ Head(wire[u]) = wire[u][1]
          /\ DOMAIN wire[u] = 1..Len(wire[u]) /\ DOMAIN wire'[u] = 1..(Len(wire[u]) - 1)
          /\ \A i \in 1..(Len(wire[u]) - 1) :
                 i + 1 \in 1..Len(wire[u]) /\ wire'[u][i] = wire[u][i + 1]
      BY <3>1, ReadFrom
    <3>3. ASSUME NEW i \in DOMAIN wire'[u], NEW j \in DOMAIN wire'[u], i < j,
                 IsLeave(wire'[u][j])
          PROVE  wire'[u][i].pc # c
      <4>1. i + 1 \in DOMAIN wire[u] /\ j + 1 \in DOMAIN wire[u] /\ i + 1 < j + 1
        BY <3>2, <3>3
      <4>2. wire'[u][i] = wire[u][i + 1] /\ IsLeave(wire[u][j + 1])
        BY <3>2, <3>3
      <4>. QED  BY <2>2, <4>1, <4>2
    <3>4. ASSUME LeaveComing(u)', Knows(u, c)' PROVE FALSE
      <4>1. PICK j \in DOMAIN wire'[u] : IsLeave(wire'[u][j])
        BY <3>4 DEF LeaveComing, Coming
      <4>2. j + 1 \in DOMAIN wire[u] /\ IsLeave(wire[u][j + 1]) /\ 1 \in DOMAIN wire[u] /\ 1 < j + 1
        BY <3>2, <4>1
      <4>3. wire[u][1].pc # c
        BY <2>2, <4>2
      <4>4. LeaveComing(u)
        BY <1>2, <3>4 DEF LeaveComing
      <4>5. Knows(u, c)
        BY <2>3, <3>2, <3>4, <4>3, KnowsLater
      <4>. QED  BY <2>2, <4>4, <4>5
    <3>. QED  BY <3>3, <3>4
  <2>. QED  BY <2>4, <2>5
<1>4. ASSUME NEW c, Has(u, c)'
      PROVE  /\ LeaveComing(v)' => ~Knows(v, c)'
             /\ \A i, j \in DOMAIN wire'[v] : i < j /\ IsLeave(wire'[v][j]) => wire'[v][i].pc # c
  <2>1. PICK ms \in Seq(AllMessages) :
            Elsewhere(v, ms) /\ \A i \in DOMAIN ms : Says(u, ms[i])
    BY SaysWhat DEF Telling, v
  <2>2. Joined(wire[v], ms, wire'[v]) /\ pc'[u] # None
    BY <1>1, <1>4, <2>1, SentTo DEF Elsewhere, Has
  <2>3. \A i \in DOMAIN ms : ~IsLeave(ms[i])
    BY <2>1, <2>2, SaysOf
  <2>4. LeaveComing(v)' => LeaveComing(v)
    BY <1>2, <2>2, SaysOf DEF LeaveComing
  <2>5. ASSUME NEW i \in DOMAIN wire'[v], NEW j \in DOMAIN wire'[v], i < j, IsLeave(wire'[v][j])
        PROVE  /\ i \in DOMAIN wire[v] /\ j \in DOMAIN wire[v] /\ IsLeave(wire[v][j])
               /\ wire'[v][i] = wire[v][i]
    <3>1. j \in DOMAIN wire[v]
      BY <2>2, <2>3, <2>5 DEF Joined
    <3>2. i \in DOMAIN wire[v]
      <4>1. /\ DOMAIN wire[v] = 1..Len(wire[v]) /\ Len(wire[v]) \in Nat /\ Len(ms) \in Nat
            /\ DOMAIN wire'[v] = 1..(Len(wire[v]) + Len(ms))
        BY <2>2 DEF Joined
      <4>. QED  BY <2>5, <3>1, <4>1
    <3>. QED  BY <2>2, <2>5, <3>1, <3>2 DEF Joined
  <2>6. Knows(v, c)' => Knows(v, c)
    BY <1>2 DEF Knows
  <2>7. CASE Has(u, c)
    <3>1. /\ LeaveComing(v) => ~Knows(v, c)
          /\ \A i, j \in DOMAIN wire[v] : i < j /\ IsLeave(wire[v][j]) => wire[v][i].pc # c
      BY <1>1, <2>7 DEF SinceInv
    <3>. QED  BY <2>4, <2>5, <2>6, <3>1
  <2>8. CASE c = made + 1
    <3>1. c \notin 0..made
      BY <1>1, <2>8
    <3>2. ~Knows(v, c) /\ \A i \in DOMAIN wire[v] : wire[v][i].pc # c
      BY <1>1, <3>1, KnowsAre
    <3>. QED  BY <2>5, <2>6, <3>2
  <2>. QED  BY <1>4, <2>2, <2>7, <2>8, PeerMoves
<1>. QED  BY <1>1, <1>3, <1>4 DEF SinceInv, v

LEMMA NotYetStays ==
    ASSUME TypeOK, Roles, NotYetInv, NEW u \in Tabs, Does(u)
    PROVE  NotYetInv'
<1>. SUFFICES ASSUME NEW c, Has(Lo, c)', pc'[Lo].deal = 0
              PROVE  ~Knows(Hi, c)' /\ \A m \in Coming(Hi)' : m.pc # c
  BY DEF NotYetInv
<1>1. /\ Hi \in Tabs /\ Lo \in Tabs /\ Hi # Lo /\ Other(Hi) = Lo /\ Other(Lo) = Hi /\ made \in Nat
      /\ u \in {Hi, Lo} /\ pc'[Lo] # None
  BY TabAssumption, TypesAre DEF Tabs, Other, Has
<1>2. CASE u = Hi
  <2>1. pc'[Lo] = pc[Lo] /\ Coming(Hi)' \subseteq Coming(Hi)
    BY <1>1, <1>2, WiresMove
  <2>2. Has(Lo, c)
    BY <2>1 DEF Has
  <2>3. ~Knows(Hi, c) /\ \A m \in Coming(Hi) : m.pc # c
    BY <2>1, <2>2 DEF NotYetInv
  <2>4. c # 0
    BY <1>1, <2>2, HasIs
  <2>5. wire'[Hi] # wire[Hi] => Head(wire[Hi]) \in Coming(Hi)
    BY <1>1, <1>2, ReadsAre, ReadFrom DEF Reads
  <2>6. ~Knows(Hi, c)'
    BY <1>1, <1>2, <2>3, <2>4, <2>5, KnowsLater
  <2>. QED  BY <2>1, <2>3, <2>6
<1>3. CASE u = Lo
  <2>1. /\ pc'[Hi] = pc[Hi] /\ tasks'[Hi] = tasks[Hi] /\ queued'[Hi] = queued[Hi]
        /\ \A m \in Coming(Hi)' : m \in Coming(Hi) \/ Says(Lo, m)
    BY <1>1, <1>3, WiresMove
  <2>2. ~Answers
    BY <1>1, AnswersFields, RolesApart DEF RoleOf
  <2>3. \A m : Says(Lo, m) => m.pc = 0
    BY <1>1, <2>2, SaysOf
  <2>4. Knows(Hi, c)' => Knows(Hi, c)
    BY <2>1 DEF Knows
  <2>5. CASE c = made + 1
    <3>1. c \notin 0..made /\ c # 0
      BY <1>1, <2>5
    <3>2. ~Knows(Hi, c) /\ \A m \in Coming(Hi) : m.pc # c
      BY <1>1, <3>1, KnowsAre
    <3>. QED  BY <2>1, <2>3, <2>4, <3>1, <3>2
  <2>6. CASE Has(Lo, c) /\ pc[Lo].deal = 0
    <3>1. c # 0 /\ ~Knows(Hi, c) /\ \A m \in Coming(Hi) : m.pc # c
      BY <1>1, <2>6, HasIs DEF NotYetInv
    <3>. QED  BY <2>1, <2>3, <2>4, <3>1
  <2>. QED  BY <1>1, <1>3, <2>5, <2>6, PeerMoves
<1>. QED  BY <1>1, <1>2, <1>3

----------------------------------------------------------------------------
(* Hi's offers.                                                            *)

\* Hi has offered once for a connection that is new, and once more for one that
\* broke, because Lo has another since; it is about to offer for nothing else.
OfferInv ==
    pc[Hi] # None =>
        /\ pc[Hi].sig = "stable" /\ pc[Hi].deal = 0 => pc[Hi].offer = 0
        /\ pc[Hi].sig = "have-local-offer" /\ pc[Hi].deal # 0 => pc[Hi].restarted
        /\ pc[Hi].sig = "have-local-offer" /\ pc[Hi].restarted =>
               pc[Hi].conn = "disconnected" /\ FarEndGone(Hi)
        /\ \A t \in tasks[Hi] : t.do = "offer" =>
               /\ pc[Hi].sig = "stable"
               /\ t.n = 1 => pc[Hi].offer = 0 /\ pc[Hi].deal = 0 /\ pc[Hi].far = 0
               /\ t.n = 0 => pc[Hi].conn = "disconnected" /\ pc[Hi].restarted /\ FarEndGone(Hi)

\* The far end of a connection does not come back.
LEMMA GoneStays ==
    ASSUME TypeOK, Roles, NEW u \in Tabs, Does(u), pc[Other(u)] # None, FarEndGone(Other(u))
    PROVE  pc'[Other(u)] = pc[Other(u)] /\ FarEndGone(Other(u))'
<1>. DEFINE v == Other(u)
<1>1. v \in Tabs /\ Other(v) = u /\ made \in Nat /\ pc'[v] = pc[v]
  BY OthersAre, TypesAre, WiresMove
<1>2. PICK c : c = pc[v].far
  OBVIOUS
<1>3. c \in 0..made /\ ~Has(u, c)
  <2>1. Knows(v, c)
    BY <1>2 DEF Knows
  <2>2. c \in 0..made
    BY <1>1, <2>1, KnowsAre
  <2>. QED  BY <1>1, <1>2, <2>2 DEF FarEndGone, Has
<1>. HIDE DEF v
<1>4. ~Has(u, c)'
  <2>1. c # made + 1
    BY <1>1, <1>3
  <2>. QED  BY <1>3, <2>1, PeerMoves DEF Has
<1>5. ~(pc'[u] # None /\ pc'[u].id = pc'[v].far)
  BY <1>1, <1>2, <1>4 DEF Has
<1>. QED  BY <1>1, <1>5 DEF FarEndGone, v

\* Hi is never about to offer twice.
LEMMA OneOffer ==
    ASSUME TypeOK, Roles, OfferInv, NEW s \in tasks[Hi], s.do = "offer",
           NEW t \in tasks[Hi], t.do = "offer"
    PROVE  s = t
<1>1. Hi \in Tabs
  BY DEF Tabs
<1>2. /\ RoleOf(Hi, call[Hi], pc[Hi], tasks[Hi], Coming(Hi))
      /\ s \in TaskTypes(0..made, 0..offers) /\ t \in TaskTypes(0..made, 0..offers)
      /\ pc[Hi] # None /\ s.pc = pc[Hi].id /\ t.pc = pc[Hi].id
  BY <1>1, RolesApart, TypesAre DEF Open, OfOpen
<1>3. s.n \in {0, 1} /\ t.n \in {0, 1} /\ (pc[Hi].conn # "new" => pc[Hi].deal # 0)
  BY <1>2 DEF RoleOf
<1>4. s.n = t.n
  BY <1>2, <1>3 DEF OfferInv
<1>5. s.far = 0 /\ t.far = 0
  BY <1>2 DEF TaskTypes
<1>. QED  BY <1>2, <1>4, <1>5 DEF TaskTypes

LEMMA OfferStays ==
    ASSUME TypeOK, Roles, JoinInv, OfferInv, NEW u \in Tabs, Does(u)
    PROVE  OfferInv'
<1>1. /\ Hi \in Tabs /\ Lo \in Tabs /\ Hi # Lo /\ Other(Hi) = Lo /\ Other(Lo) = Hi /\ made \in Nat
      /\ u \in {Hi, Lo}
      /\ RoleOf(Hi, call[Hi], pc[Hi], tasks[Hi], Coming(Hi))
  BY TabAssumption, TypesAre, RolesApart DEF Tabs, Other
<1>2. CASE u = Lo
  <2>1. pc'[Hi] = pc[Hi] /\ tasks'[Hi] = tasks[Hi]
    BY <1>1, <1>2, WiresMove
  <2>2. pc[Hi] # None /\ FarEndGone(Hi) => FarEndGone(Hi)'
    BY <1>1, <1>2, GoneStays
  <2>. QED  BY <2>1, <2>2 DEF OfferInv
<1>3. CASE u = Hi
  <2>1. pc'[Lo] = pc[Lo]
    BY <1>1, <1>3, WiresMove
  <2>2. ASSUME pc[Hi] # None, pc'[Hi] # None, pc'[Hi].far = pc[Hi].far
        PROVE  FarEndGone(Hi)' <=> FarEndGone(Hi)
    BY <1>1, <2>1, <2>2 DEF FarEndGone
  <2>3. CASE BothDo(Hi, Lo)
    <3>1. CASE \/ Joins(Hi, Lo) \/ Leaves(Hi, Lo) \/ ReadsLeave(Hi, Lo) \/ ReadsInVain(Hi, Lo)
               \/ Drops(Hi, Lo) \/ Replaces(Hi, Lo) \/ (ReadsJoin(Hi, Lo) /\ pc[Hi] = None)
      <4>1. pc'[Hi] = None \/ Renewed(Hi)
        BY <3>1 DEF Joins, Leaves, ReadsLeave, ReadsInVain, Drops, Replaces, ReadsJoin, Gone, Kept
      <4>2. CASE pc'[Hi] = None
        BY <4>2 DEF OfferInv
      <4>3. CASE Renewed(Hi)
        <5>1. /\ pc'[Hi].sig = "stable" /\ pc'[Hi].offer = 0 /\ pc'[Hi].deal = 0
              /\ pc'[Hi].far = 0 /\ tasks'[Hi] = {Task("offer", made + 1, 1, 0)}
          BY <1>1, <4>3, NewFields DEF Renewed, FirstTasks
        <5>2. \A t \in tasks'[Hi] : t.n = 1
          BY <5>1 DEF Task
        <5>. QED  BY <5>1, <5>2 DEF OfferInv
      <4>. QED  BY <4>1, <4>2, <4>3
    <3>2. CASE ReadsJoin(Hi, Lo) /\ pc[Hi] # None
      <4>1. /\ pc'[Hi] = pc[Hi]
            /\ tasks'[Hi] = tasks[Hi] \cup (IF pc[Hi].sig = "stable"
                                            THEN {Task("offer", pc[Hi].id, 1, 0)} ELSE {})
        BY <3>2 DEF ReadsJoin, Kept, FirstTasks
      <4>2. FreshTab(Hi)
        <5>1. wire[Hi] # <<>> /\ wire'[Hi] = Tail(wire[Hi]) /\ IsJoin(Head(wire[Hi]))
          BY <3>2 DEF ReadsJoin, Reads
        <5>2. 1 \in DOMAIN wire[Hi] /\ IsJoin(wire[Hi][1])
          BY <1>1, <5>1, ReadFrom
        <5>. QED  BY <1>1, <5>2 DEF JoinInv
      <4>3. \A t \in tasks'[Hi] : \/ t \in tasks[Hi]
                                  \/ pc[Hi].sig = "stable" /\ t.n = 1
        BY <4>1 DEF Task
      <4>4. FarEndGone(Hi)' <=> FarEndGone(Hi)
        BY <2>2, <3>2, <4>1
      <4>5. pc[Hi].deal = 0 /\ pc[Hi].far = 0
        BY <3>2, <4>2 DEF FreshTab
      <4>. QED  BY <3>2, <4>1, <4>3, <4>4, <4>5 DEF OfferInv
    <3>3. CASE ReadsCandidate(Hi, Lo)
      <4>1. /\ tasks'[Hi] = tasks[Hi]
            /\ \/ pc'[Hi] = pc[Hi]
               \/ /\ pc[Hi] # None /\ pc'[Hi] # None
                  /\ SameTalk(pc[Hi], pc'[Hi]) /\ SameWay(pc[Hi], pc'[Hi])
        BY <1>1, <3>3, CandidateFields
      <4>. QED  BY <2>2, <4>1 DEF OfferInv, SameTalk, SameWay
    <3>4. CASE Connects(Hi, Lo)
      <4>1. /\ Linked /\ pc[Hi] # None /\ pc'[Hi] # None /\ SameTalk(pc[Hi], pc'[Hi])
            /\ pc'[Hi].restarted = pc[Hi].restarted /\ tasks'[Hi] = tasks[Hi]
        BY <1>1, <3>4, ConnectsFields
      <4>2. ~FarEndGone(Hi) /\ pc[Hi].deal # 0
        BY <1>1, <4>1 DEF Linked, FarEndGone
      <4>3. \A t \in tasks[Hi] : t.do # "offer"
        BY <1>1, <4>1, <4>2 DEF OfferInv, RoleOf
      <4>. QED  BY <4>1, <4>2, <4>3 DEF OfferInv, SameTalk
    <3>5. CASE Disconnects(Hi, Lo)
      <4>1. /\ pc[Hi] # None /\ pc'[Hi] # None /\ SameTalk(pc[Hi], pc'[Hi]) /\ FarEndGone(Hi)
            /\ pc[Hi].conn = "connected" /\ pc'[Hi].conn = "disconnected" /\ pc'[Hi].restarted
            /\ \A t \in tasks'[Hi] :
                   \/ t \in tasks[Hi]
                   \/ t = Task("offer", pc[Hi].id, 0, 0) /\ pc[Hi].sig = "stable"
        BY <1>1, <3>5, DisconnectsFields
      <4>2. FarEndGone(Hi)'
        BY <2>2, <4>1 DEF SameTalk
      <4>3. \A t \in tasks'[Hi] : t \in tasks[Hi] \/ (t.n = 0 /\ pc[Hi].sig = "stable")
        BY <4>1 DEF Task
      <4>. QED  BY <4>1, <4>2, <4>3 DEF OfferInv, SameTalk
    <3>6. CASE Forgets(Hi, Lo) \/ Idles(Hi, Lo)
      <4>1. pc'[Hi] = pc[Hi] /\ tasks'[Hi] \subseteq tasks[Hi]
        BY <3>6 DEF Forgets, Idles, Changes, Kept
      <4>. QED  BY <2>2, <4>1 DEF OfferInv
    <3>. QED  BY <2>3, <3>1, <3>2, <3>3, <3>4, <3>5, <3>6 DEF BothDo
  <2>4. CASE Offers
    <3>1. PICK t \in tasks[Hi] :
              /\ t.do = "offer" /\ pc[Hi] # None /\ pc'[Hi] # None
              /\ pc'[Hi].sig = "have-local-offer" /\ pc'[Hi].far = pc[Hi].far
              /\ pc'[Hi].deal = pc[Hi].deal /\ SameWay(pc[Hi], pc'[Hi])
              /\ tasks'[Hi] = tasks[Hi] \ {t}
      BY <2>4, OffersFields
    <3>2. \A s \in tasks'[Hi] : s.do # "offer"
      BY <3>1, OneOffer
    <3>3. /\ t.n \in {0, 1} /\ (pc[Hi].conn # "new" => pc[Hi].deal # 0)
          /\ (pc[Hi].conn = "new" => ~pc[Hi].restarted)
      BY <1>1, <3>1 DEF RoleOf
    <3>4. /\ pc[Hi].deal # 0 => pc[Hi].restarted
          /\ pc[Hi].restarted => pc[Hi].conn = "disconnected" /\ FarEndGone(Hi)
      BY <3>1, <3>3 DEF OfferInv
    <3>. QED  BY <2>2, <3>1, <3>2, <3>4 DEF OfferInv, SameWay
  <2>5. CASE ReadsAnswer
    <3>1. pc'[Hi] = pc[Hi] /\ \A t \in tasks'[Hi] : t \in tasks[Hi] \/ t.do # "offer"
      BY <2>5 DEF ReadsAnswer, Task
    <3>. QED  BY <2>2, <3>1 DEF OfferInv
  <2>6. CASE SetsAnswer
    <3>1. /\ pc[Hi] # None /\ pc'[Hi] # None /\ pc[Hi].sig = "have-local-offer"
          /\ pc'[Hi].sig = "stable" /\ pc'[Hi].deal = pc[Hi].offer
          /\ tasks'[Hi] \subseteq tasks[Hi]
      BY <2>6, SetsAnswerFields
    <3>2. pc[Hi].offer # 0
      BY <1>1, <3>1 DEF RoleOf
    <3>. QED  BY <3>1, <3>2 DEF OfferInv
  <2>. QED  BY <1>1, <1>3, <2>3, <2>4, <2>5, <2>6, TabDoes
<1>. QED  BY <1>1, <1>2, <1>3

\* Each offer is followed by the candidate of its connection.
FollowInv ==
    \A i \in DOMAIN wire[Lo] : IsOffer(wire[Lo][i]) =>
        i + 1 \in DOMAIN wire[Lo] /\ IsCandidate(wire[Lo][i + 1], wire[Lo][i].pc)

LEMMA FollowStays ==
    ASSUME TypeOK, Roles, OfferInv, FollowInv, NEW u \in Tabs, Does(u)
    PROVE  FollowInv'
<1>1. /\ Hi \in Tabs /\ Lo \in Tabs /\ Hi # Lo /\ Other(Hi) = Lo /\ Other(Lo) = Hi /\ made \in Nat
      /\ u \in {Hi, Lo} /\ offers \in Nat
      /\ RoleOf(Hi, call[Hi], pc[Hi], tasks[Hi], Coming(Hi))
  BY TabAssumption, TypesAre, RolesApart DEF Tabs, Other
<1>2. CASE u = Lo
  <2>1. CASE wire'[Lo] = wire[Lo]
    BY <2>1 DEF FollowInv
  <2>2. CASE wire'[Lo] # wire[Lo]
    <3>1. wire[Lo] # <<>> /\ wire'[Lo] = Tail(wire[Lo])
      BY <1>2, <2>2, ReadsAre DEF Reads
    <3>2. /\ Len(wire[Lo]) \in Nat \ {0}
          /\ DOMAIN wire[Lo] = 1..Len(wire[Lo]) /\ DOMAIN wire'[Lo] = 1..(Len(wire[Lo]) - 1)
          /\ \A i \in 1..(Len(wire[Lo]) - 1) :
                 i + 1 \in 1..Len(wire[Lo]) /\ wire'[Lo][i] = wire[Lo][i + 1]
      BY <1>1, <3>1, ReadFrom
    <3>3. ASSUME NEW i \in DOMAIN wire'[Lo], IsOffer(wire'[Lo][i])
          PROVE  i + 1 \in DOMAIN wire'[Lo] /\ IsCandidate(wire'[Lo][i + 1], wire'[Lo][i].pc)
      <4>1. i + 1 \in DOMAIN wire[Lo] /\ wire'[Lo][i] = wire[Lo][i + 1]
        BY <3>2
      <4>2. /\ (i + 1) + 1 \in DOMAIN wire[Lo]
            /\ IsCandidate(wire[Lo][(i + 1) + 1], wire[Lo][i + 1].pc)
        BY <3>3, <4>1 DEF FollowInv
      <4>3. i + 1 \in 1..(Len(wire[Lo]) - 1)
        BY <3>2, <4>2
      <4>. QED  BY <3>2, <4>1, <4>2, <4>3
    <3>. QED  BY <3>3 DEF FollowInv
  <2>. QED  BY <2>1, <2>2
<1>3. CASE u = Hi
  <2>1. PICK ms \in Seq(AllMessages) :
            Elsewhere(Lo, ms) /\ \A i \in DOMAIN ms : Says(Hi, ms[i])
    BY <1>1, <1>3, SaysWhat DEF Telling
  <2>2. Joined(wire[Lo], ms, wire'[Lo])
    BY <1>1, <2>1, SentTo DEF Elsewhere
  <2>3. ASSUME NEW i \in DOMAIN wire[Lo], IsOffer(wire'[Lo][i])
        PROVE  i + 1 \in DOMAIN wire'[Lo] /\ IsCandidate(wire'[Lo][i + 1], wire'[Lo][i].pc)
    <3>1. wire'[Lo][i] = wire[Lo][i]
      BY <2>2 DEF Joined
    <3>2. i + 1 \in DOMAIN wire[Lo] /\ IsCandidate(wire[Lo][i + 1], wire[Lo][i].pc)
      BY <2>3, <3>1 DEF FollowInv
    <3>3. i + 1 \in DOMAIN wire'[Lo] /\ wire'[Lo][i + 1] = wire[Lo][i + 1]
      BY <2>2, <3>2 DEF Joined
    <3>. QED  BY <3>1, <3>2, <3>3
  <2>4. ASSUME NEW i \in DOMAIN wire'[Lo], i \notin DOMAIN wire[Lo], IsOffer(wire'[Lo][i])
        PROVE  i + 1 \in DOMAIN wire'[Lo] /\ IsCandidate(wire'[Lo][i + 1], wire'[Lo][i].pc)
    <3>1. Offers
      <4>1. PICK m : m = wire'[Lo][i] /\ Says(Hi, m) /\ IsOffer(m)
        BY <2>1, <2>2, <2>4 DEF Joined
      <4>. QED  BY <1>1, <4>1 DEF Says, Msg, IsOffer
    <3>. DEFINE o == Msg("webrtc_offer", pc[Hi].id, offers + 1)
                n == Msg("webrtc_ice_candidate", pc[Hi].id, 0)
    <3>2. PICK t \in tasks[Hi] :
              t.do = "offer" /\ pc[Hi] # None /\ Elsewhere(Lo, <<o>> \o CandidateFound(pc[Hi]))
      BY <3>1, OffersFields
    <3>3. CandidateFound(pc[Hi]) = <<n>>
      <4>1. t.n \in {0, 1}
        BY <1>1, <3>2 DEF RoleOf
      <4>. QED  BY <3>2, <4>1 DEF OfferInv, CandidateFound
    <3>4. o \in AllMessages /\ n \in AllMessages /\ IsCandidate(n, o.pc) /\ ~IsOffer(n)
      <4>1. pc[Hi].id \in Nat
        BY <1>1, <3>2, PeerIs DEF Peers
      <4>. QED  BY <1>1, <4>1 DEF Msg, AllMessages, MessageTypes, IsCandidate, IsOffer
    <3>. HIDE DEF o, n
    <3>5. PICK ns : ns = <<o>> \o <<n>>
      OBVIOUS
    <3>6. ns \in Seq(AllMessages) /\ DOMAIN ns = {1, 2} /\ ns[1] = o /\ ns[2] = n
      BY <3>4, <3>5
    <3>7. wire'[Lo] = wire[Lo] \o ns
      BY <3>2, <3>3, <3>5 DEF Elsewhere
    <3>8. Joined(wire[Lo], ns, wire'[Lo])
      BY <1>1, <3>6, <3>7, SentTo
    <3>9. i - Len(wire[Lo]) \in DOMAIN ns /\ wire'[Lo][i] = ns[i - Len(wire[Lo])]
      BY <2>4, <3>8 DEF Joined
    <3>10. i - Len(wire[Lo]) = 1
      BY <2>4, <3>4, <3>6, <3>9
    <3>11. i + 1 = Len(wire[Lo]) + 2 /\ wire'[Lo][i] = o
      <4>1. Len(wire[Lo]) \in Nat /\ i \in Nat
        BY <2>4, <3>8 DEF Joined
      <4>. QED  BY <3>6, <3>9, <3>10, <4>1
    <3>12. i + 1 \in DOMAIN wire'[Lo] /\ wire'[Lo][i + 1] = n
      BY <3>6, <3>8, <3>11 DEF Joined
    <3>. QED  BY <3>4, <3>11, <3>12
  <2>. QED  BY <2>3, <2>4 DEF FollowInv
<1>. QED  BY <1>1, <1>2, <1>3

----------------------------------------------------------------------------
(* The candidates of Hi.                                                   *)

\* Lo has been offered connection c, for the connection it has.
Hears(c) == (\E t \in tasks[Lo] : t.far = c) \/ (pc[Lo] # None /\ pc[Lo].far = c)

\* The candidate of connection c is on its way to the tab, or with it.
CandidateComing(u, c) == \E m \in Coming(u) : IsCandidate(m, c)
HasCandidate(u, c) == c \in queued[u] \/ (pc[u] # None /\ c \in pc[u].cands)

\* Lo has, or will have, the candidate of each connection it was offered.
LoInv == \A c : c # 0 /\ Hears(c) =>
             c \in unheard \/ CandidateComing(Lo, c) \/ HasCandidate(Lo, c)

\* How Lo comes to hear of a connection.
LEMMA HearsLater ==
    ASSUME TypeOK, Roles, NEW u \in Tabs, Does(u), NEW c, c # 0, Hears(c)'
    PROVE  \/ Hears(c)
           \/ u = Lo /\ ReadsOffer /\ c = Head(wire[Lo]).pc
<1>1. /\ Hi \in Tabs /\ Lo \in Tabs /\ Hi # Lo /\ Other(Hi) = Lo /\ Other(Lo) = Hi /\ made \in Nat
      /\ u \in {Hi, Lo}
  BY TabAssumption, TypesAre DEF Tabs, Other
<1>2. CASE u = Hi
  BY <1>1, <1>2, WiresMove DEF Hears
<1>3. CASE u = Lo
  <2>1. NewPeer(made + 1, FALSE).far = 0
    BY DEF NewPeer
  <2>2. CASE \/ Joins(Lo, Hi) \/ Leaves(Lo, Hi) \/ ReadsLeave(Lo, Hi) \/ Drops(Lo, Hi)
             \/ Replaces(Lo, Hi) \/ (ReadsJoin(Lo, Hi) /\ pc[Lo] = None)
    <3>1. (pc'[Lo] = None \/ pc'[Lo] = NewPeer(made + 1, FALSE)) /\ tasks'[Lo] = {}
      BY <1>1, <2>2 DEF Joins, Leaves, ReadsLeave, Drops, Replaces, ReadsJoin, Gone, Renewed, Kept,
         FirstTasks
    <3>. QED  BY <2>1, <3>1 DEF Hears
  <2>3. CASE ReadsInVain(Lo, Hi) \/ Forgets(Lo, Hi) \/ Idles(Lo, Hi)
             \/ (ReadsJoin(Lo, Hi) /\ pc[Lo] # None)
    <3>1. pc'[Lo] = pc[Lo] /\ tasks'[Lo] \subseteq tasks[Lo]
      BY <1>1, <2>3 DEF ReadsInVain, Forgets, Idles, ReadsJoin, Changes, Kept, FirstTasks
    <3>. QED  BY <3>1 DEF Hears
  <2>4. CASE ReadsCandidate(Lo, Hi)
    BY <1>1, <2>4, CandidateFields DEF Hears, SameTalk
  <2>5. CASE Connects(Lo, Hi)
    BY <1>1, <2>5, ConnectsFields DEF Hears, SameTalk
  <2>6. CASE Disconnects(Lo, Hi)
    <3>1. tasks'[Lo] = tasks[Lo]
      BY <1>1, <2>6, DisconnectsFields
    <3>. QED  BY <1>1, <2>6, <3>1, DisconnectsFields DEF Hears, SameTalk
  <2>7. CASE ReadsOffer
    <3>. DEFINE m == Head(wire[Lo])
    <3>1. /\ pc'[Lo] = pc[Lo] \/ pc'[Lo] = NewPeer(made + 1, FALSE)
          /\ \A t \in tasks'[Lo] : t \in tasks[Lo] \/ t.far = m.pc
      <4>1. \A do, p, n, k : Task(do, p, n, k).far = k
        BY DEF Task
      <4>2. /\ pc'[Lo] = pc[Lo] \/ pc'[Lo] = NewPeer(made + 1, FALSE)
            /\ \E do, p : tasks'[Lo] \subseteq tasks[Lo] \cup {Task(do, p, m.n, m.pc)}
        BY <2>7, Zenon DEF ReadsOffer, Kept
      <4>. HIDE DEF m
      <4>3. PICK do, p : tasks'[Lo] \subseteq tasks[Lo] \cup {Task(do, p, m.n, m.pc)}
        BY <4>2
      <4>4. Task(do, p, m.n, m.pc).far = m.pc
        BY <4>1
      <4>5. \A t \in tasks'[Lo] : t \in tasks[Lo] \/ t.far = m.pc
        BY <4>3, <4>4
      <4>. QED  BY <4>2, <4>5
    <3>. HIDE DEF m
    <3>. QED  BY <1>3, <2>1, <2>7, <3>1 DEF Hears, m
  <2>8. CASE SetsOffer
    BY <2>8, SetsOfferFields DEF Hears
  <2>9. CASE Answers
    BY <2>9, AnswersFields DEF Hears
  <2>. QED  BY <1>1, <1>3, <2>2, <2>3, <2>4, <2>5, <2>6, <2>7, <2>8, <2>9, TabDoes DEF BothDo
<1>. QED  BY <1>1, <1>2, <1>3

\* What became of a candidate that was on its way.
LEMMA CandidateRead ==
    ASSUME TypeOK, NEW u \in Tabs, Does(u), NEW c, CandidateComing(u, c)
    PROVE  \/ CandidateComing(u, c)'
           \/ c \in unheard'
           \/ /\ ReadsCandidate(u, Other(u)) /\ IsCandidate(Head(wire[u]), c)
              /\ HasCandidate(u, c)'
<1>1. CASE wire'[u] = wire[u]
  BY <1>1 DEF CandidateComing, Coming
<1>2. CASE wire'[u] # wire[u]
  <2>1. PICK m \in Coming(u) : IsCandidate(m, c)
    BY DEF CandidateComing
  <2>2. wire[u] # <<>> /\ wire'[u] = Tail(wire[u])
    BY <1>2, ReadsAre DEF Reads
  <2>3. m = Head(wire[u]) \/ m \in Coming(u)'
    BY <2>1, <2>2, ReadFrom
  <2>4. CASE m \in Coming(u)'
    BY <2>1, <2>4 DEF CandidateComing
  <2>5. CASE m = Head(wire[u])
    <3>1. ReadsInVain(u, Other(u)) \/ ReadsCandidate(u, Other(u))
      BY <1>2, <2>1, <2>5, ReadsAre DEF ReadsJoin, ReadsLeave, ReadsAnswer, ReadsOffer, IsJoin,
         IsLeave, IsAnswer, IsOffer, IsCandidate
    <3>2. CASE ReadsInVain(u, Other(u))
      BY <2>1, <2>5, <3>2 DEF ReadsInVain, IsJoin, IsAnswer, IsCandidate
    <3>3. CASE ReadsCandidate(u, Other(u))
      BY <2>1, <2>5, <3>3, CandidateFields DEF HasCandidate, IsCandidate
    <3>. QED  BY <3>1, <3>2, <3>3
  <2>. QED  BY <2>3, <2>4, <2>5
<1>. QED  BY <1>1, <1>2

LEMMA UnheardGrows ==
    ASSUME NEW u \in Tabs, Does(u)
    PROVE  unheard \subseteq unheard'
<1>1. CASE BothDo(u, Other(u))
  BY <1>1 DEF BothDo, Joins, Leaves, ReadsJoin, ReadsLeave, ReadsInVain, ReadsCandidate,
     Connects, Disconnects, Forgets, Idles, Drops, Replaces, Changes
<1>2. CASE Offers \/ ReadsAnswer \/ SetsAnswer \/ ReadsOffer \/ SetsOffer \/ Answers
  BY <1>2 DEF Offers, ReadsAnswer, SetsAnswer, ReadsOffer, SetsOffer, Answers, Changes
<1>. QED  BY <1>1, <1>2, TabDoes

\* What a tab has stays with the connection, or waits for one.
LEMMA CandidateKept ==
    ASSUME TypeOK, NEW u \in Tabs, Does(u), NEW c, HasCandidate(u, c)
    PROVE  HasCandidate(u, c)' \/ Gone(u) \/ Replaces(u, Other(u))
<1>1. CASE BothDo(u, Other(u))
  <2>1. CASE \/ Leaves(u, Other(u)) \/ ReadsLeave(u, Other(u)) \/ Drops(u, Other(u))
             \/ Replaces(u, Other(u))
    BY <2>1 DEF Leaves, ReadsLeave, Drops
  <2>2. CASE \/ Joins(u, Other(u)) \/ (ReadsJoin(u, Other(u)) /\ pc[u] = None)
             \/ ReadsInVain(u, Other(u))
    BY <2>2 DEF HasCandidate, Joins, ReadsJoin, ReadsInVain
  <2>3. CASE \/ (ReadsJoin(u, Other(u)) /\ pc[u] # None)
             \/ Forgets(u, Other(u)) \/ Idles(u, Other(u))
    BY <2>3 DEF HasCandidate, ReadsJoin, Forgets, Idles, Changes, Kept
  <2>4. CASE ReadsCandidate(u, Other(u))
    BY <2>4, CandidateFields DEF HasCandidate
  <2>5. CASE Connects(u, Other(u))
    BY <2>5, ConnectsFields DEF HasCandidate
  <2>6. CASE Disconnects(u, Other(u))
    BY <2>6, DisconnectsFields DEF HasCandidate
  <2>. QED  BY <1>1, <2>1, <2>2, <2>3, <2>4, <2>5, <2>6 DEF BothDo
<1>2. CASE u = Hi /\ (Offers \/ ReadsAnswer \/ SetsAnswer)
  BY <1>2, OffersFields, SetsAnswerFields DEF HasCandidate, ReadsAnswer
<1>3. CASE u = Lo /\ ReadsOffer
  BY <1>3 DEF HasCandidate, ReadsOffer, Kept
<1>4. CASE u = Lo /\ (SetsOffer \/ Answers)
  BY <1>4, SetsOfferFields, AnswersFields DEF HasCandidate
<1>. QED  BY <1>1, <1>2, <1>3, <1>4, TabDoes

LEMMA LoStays ==
    ASSUME TypeOK, Roles, FollowInv, LoInv, NEW u \in Tabs, Does(u)
    PROVE  LoInv'
<1>. SUFFICES ASSUME NEW c, c # 0, Hears(c)'
              PROVE  c \in unheard' \/ CandidateComing(Lo, c)' \/ HasCandidate(Lo, c)'
  BY DEF LoInv
<1>1. /\ Hi \in Tabs /\ Lo \in Tabs /\ Hi # Lo /\ Other(Hi) = Lo /\ Other(Lo) = Hi /\ made \in Nat
      /\ u \in {Hi, Lo}
  BY TabAssumption, TypesAre DEF Tabs, Other
<1>2. CASE u = Lo /\ ReadsOffer /\ c = Head(wire[Lo]).pc
  <2>1. wire[Lo] # <<>> /\ wire'[Lo] = Tail(wire[Lo]) /\ IsOffer(Head(wire[Lo]))
    BY <1>2 DEF ReadsOffer, Reads
  <2>2. /\ DOMAIN wire[Lo] = 1..Len(wire[Lo]) /\ DOMAIN wire'[Lo] = 1..(Len(wire[Lo]) - 1)
        /\ Len(wire[Lo]) \in Nat \ {0} /\ Head(wire[Lo]) = wire[Lo][1]
        /\ \A i \in 1..(Len(wire[Lo]) - 1) : wire'[Lo][i] = wire[Lo][i + 1]
    BY <1>1, <2>1, ReadFrom
  <2>3. 1 \in DOMAIN wire[Lo]
    BY <2>2
  <2>4. 1 + 1 \in DOMAIN wire[Lo] /\ IsCandidate(wire[Lo][1 + 1], c)
    BY <1>2, <2>1, <2>2, <2>3 DEF FollowInv
  <2>5. 1 \in DOMAIN wire'[Lo] /\ IsCandidate(wire'[Lo][1], c)
    BY <2>2, <2>4
  <2>. QED  BY <2>5 DEF CandidateComing, Coming
<1>3. CASE Hears(c)
  <2>1. c \in unheard \/ CandidateComing(Lo, c) \/ HasCandidate(Lo, c)
    BY <1>3 DEF LoInv
  <2>2. CASE u = Hi
    <3>1. /\ pc'[Lo] = pc[Lo] /\ queued'[Lo] = queued[Lo] /\ Coming(Lo) \subseteq Coming(Lo)'
          /\ unheard \subseteq unheard'
      BY <1>1, <2>2, WiresMove, UnheardGrows
    <3>. QED  BY <2>1, <3>1 DEF CandidateComing, HasCandidate
  <2>3. CASE u = Lo
    <3>1. CASE c \in unheard
      BY <3>1, UnheardGrows
    <3>2. CASE CandidateComing(Lo, c)
      BY <2>3, <3>2, CandidateRead
    <3>3. CASE HasCandidate(Lo, c)
      <4>1. ~Gone(Lo)
        BY DEF Hears, Gone
      <4>2. ~Replaces(Lo, Hi)
        <5>1. ASSUME Replaces(Lo, Hi)
              PROVE  tasks'[Lo] = {} /\ pc'[Lo] # None /\ pc'[Lo].far = 0
          BY <1>1, <5>1, NewFields DEF Replaces, Renewed, FirstTasks
        <5>. QED  BY <5>1 DEF Hears
      <4>. QED  BY <1>1, <2>3, <3>3, <4>1, <4>2, CandidateKept
    <3>. QED  BY <2>1, <3>1, <3>2, <3>3
  <2>. QED  BY <1>1, <2>2, <2>3
<1>. QED  BY <1>2, <1>3, HearsLater

----------------------------------------------------------------------------
(* The offers of earlier connections.                                      *)

\* When Lo was offered Hi's present connection, or Hi's was connected, all offers
\* on their way are of that connection; and all that come after one of it are.
OldOfferInv ==
    \A h : Has(Hi, h) =>
        /\ Hears(h) \/ pc[Hi].conn # "new" => \A m \in Coming(Lo) : IsOffer(m) => m.pc = h
        /\ \A i, j \in DOMAIN wire[Lo] :
               i < j /\ IsOffer(wire[Lo][i]) /\ wire[Lo][i].pc = h /\ IsOffer(wire[Lo][j])
               => wire[Lo][j].pc = h

LEMMA OldOfferStays ==
    ASSUME TypeOK, Roles, OldOfferInv, NEW u \in Tabs, Does(u)
    PROVE  OldOfferInv'
<1>. SUFFICES
       ASSUME NEW h, Has(Hi, h)'
       PROVE  /\ Hears(h)' \/ pc'[Hi].conn # "new" => \A m \in Coming(Lo)' : IsOffer(m) => m.pc = h
              /\ \A i, j \in DOMAIN wire'[Lo] :
                     i < j /\ IsOffer(wire'[Lo][i]) /\ wire'[Lo][i].pc = h /\ IsOffer(wire'[Lo][j])
                     => wire'[Lo][j].pc = h
  BY DEF OldOfferInv
<1>1. /\ Hi \in Tabs /\ Lo \in Tabs /\ Hi # Lo /\ Other(Hi) = Lo /\ Other(Lo) = Hi /\ made \in Nat
      /\ u \in {Hi, Lo} /\ pc'[Hi] # None
  BY TabAssumption, TypesAre DEF Tabs, Other, Has
<1>2. CASE u = Hi
  <2>1. PICK ms \in Seq(AllMessages) :
            Elsewhere(Lo, ms) /\ \A i \in DOMAIN ms : Says(Hi, ms[i])
    BY <1>1, <1>2, SaysWhat DEF Telling
  <2>2. Joined(wire[Lo], ms, wire'[Lo])
    BY <1>1, <2>1, SentTo DEF Elsewhere
  <2>3. \A m \in Coming(Lo)' : m \in Coming(Lo) \/ Says(Hi, m)
    BY <1>1, <1>2, WiresMove
  <2>4. ASSUME NEW m, Says(Hi, m), IsOffer(m) PROVE Offers /\ Has(Hi, m.pc)
    <3>1. Offers /\ m = Msg("webrtc_offer", pc[Hi].id, offers + 1)
      BY <1>1, <2>4 DEF Says, IsOffer, Msg
    <3>. QED  BY <3>1 DEF Offers, Kept, Has, Msg
  <2>5. Hears(h)' <=> Hears(h)
    BY <1>1, <1>2, WiresMove DEF Hears
  <2>6. CASE pc'[Hi] = NewPeer(made + 1, FALSE) /\ h = made + 1
    <3>1. h \notin 0..made /\ h # 0 /\ pc'[Hi].conn = "new"
      <4>1. pc'[Hi].conn = "new"
        BY <2>6 DEF NewPeer
      <4>2. \A n \in Nat : n + 1 \notin 0..n /\ n + 1 # 0
        OBVIOUS
      <4>. QED  BY <1>1, <2>6, <4>1, <4>2, Zenon
    <3>2. ~Hears(h)
      <4>1. Hears(h) => Knows(Lo, h)
        BY DEF Hears, Knows
      <4>. QED  BY <1>1, <3>1, <4>1, KnowsAre
    <3>3. \A m \in Coming(Lo)' : IsOffer(m) => m.pc # h
      <4>1. \A m \in Coming(Lo) : m.pc # h
        BY <1>1, <3>1, KnowsAre
      <4>2. \A c : Has(Hi, c) => c # h
        BY <1>1, <3>1, HasIs
      <4>. QED  BY <2>3, <2>4, <4>1, <4>2
    <3>4. \A i \in DOMAIN wire'[Lo] : IsOffer(wire'[Lo][i]) => wire'[Lo][i].pc # h
      BY <3>3 DEF Coming
    <3>. QED  BY <2>5, <3>1, <3>2, <3>4
  <2>7. CASE pc[Hi] # None /\ (pc'[Hi].conn # "new" => pc[Hi].conn # "new" \/ Linked) /\ Has(Hi, h)
    <3>1. \A m : Says(Hi, m) /\ IsOffer(m) => m.pc = h
      BY <2>4, <2>7 DEF Has
    <3>2. Linked => Hears(h)
      BY <1>1, <2>7 DEF Linked, Hears, Has
    <3>3. Hears(h) \/ pc[Hi].conn # "new" => \A m \in Coming(Lo) : IsOffer(m) => m.pc = h
      BY <2>7 DEF OldOfferInv
    <3>4. Hears(h)' \/ pc'[Hi].conn # "new" => \A m \in Coming(Lo)' : IsOffer(m) => m.pc = h
      BY <2>3, <2>5, <2>7, <3>1, <3>2, <3>3
    <3>5. ASSUME NEW i \in DOMAIN wire'[Lo], NEW j \in DOMAIN wire'[Lo], i < j,
                 IsOffer(wire'[Lo][i]), wire'[Lo][i].pc = h, IsOffer(wire'[Lo][j])
          PROVE  wire'[Lo][j].pc = h
      <4>1. CASE j \notin DOMAIN wire[Lo]
        <5>1. Says(Hi, wire'[Lo][j])
          BY <2>1, <2>2, <3>5, <4>1 DEF Joined
        <5>. QED  BY <3>1, <3>5, <5>1
      <4>2. CASE j \in DOMAIN wire[Lo]
        <5>1. i \in DOMAIN wire[Lo]
          <6>1. DOMAIN wire[Lo] = 1..Len(wire[Lo]) /\ Len(wire[Lo]) \in Nat /\ Len(ms) \in Nat
                /\ DOMAIN wire'[Lo] = 1..(Len(wire[Lo]) + Len(ms))
            BY <2>2 DEF Joined
          <6>. QED  BY <3>5, <4>2, <6>1
        <5>2. wire'[Lo][i] = wire[Lo][i] /\ wire'[Lo][j] = wire[Lo][j]
          BY <2>2, <4>2, <5>1 DEF Joined
        <5>. QED  BY <2>7, <3>5, <4>2, <5>1, <5>2 DEF OldOfferInv
      <4>. QED  BY <4>1, <4>2
    <3>. QED  BY <3>4, <3>5
  <2>. QED  BY <1>1, <1>2, <2>6, <2>7, PeerMoves
<1>3. CASE u = Lo
  <2>1. pc'[Hi] = pc[Hi] /\ Coming(Lo)' \subseteq Coming(Lo)
    BY <1>1, <1>3, WiresMove
  <2>2. Has(Hi, h) /\ h # 0
    BY <1>1, <2>1, HasIs DEF Has
  <2>3. /\ Hears(h) \/ pc[Hi].conn # "new" => \A m \in Coming(Lo) : IsOffer(m) => m.pc = h
        /\ \A i, j \in DOMAIN wire[Lo] :
               i < j /\ IsOffer(wire[Lo][i]) /\ wire[Lo][i].pc = h /\ IsOffer(wire[Lo][j])
               => wire[Lo][j].pc = h
    BY <2>2 DEF OldOfferInv
  <2>4. CASE wire'[Lo] = wire[Lo]
    <3>1. ~ReadsOffer
      <4>1. wire[Lo] \in Seq(AllMessages)
        BY <1>1, WiresAre
      <4>. QED  BY <2>4, <4>1, TailIsShorter DEF ReadsOffer, Reads
    <3>2. Hears(h)' => Hears(h)
      BY <2>2, <3>1, HearsLater
    <3>. QED  BY <2>1, <2>3, <2>4, <3>2
  <2>5. CASE wire'[Lo] # wire[Lo]
    <3>1. wire[Lo] # <<>> /\ wire'[Lo] = Tail(wire[Lo])
      BY <1>3, <2>5, ReadsAre DEF Reads
    <3>2. /\ Len(wire[Lo]) \in Nat \ {0} /\ Head(wire[Lo]) = wire[Lo][1]
          /\ DOMAIN wire[Lo] = 1..Len(wire[Lo]) /\ DOMAIN wire'[Lo] = 1..(Len(wire[Lo]) - 1)
          /\ \A i \in 1..(Len(wire[Lo]) - 1) :
                 i + 1 \in 1..Len(wire[Lo]) /\ wire'[Lo][i] = wire[Lo][i + 1]
      BY <1>1, <3>1, ReadFrom
    <3>3. ASSUME NEW i \in DOMAIN wire'[Lo], NEW j \in DOMAIN wire'[Lo], i < j,
                 IsOffer(wire'[Lo][i]), wire'[Lo][i].pc = h, IsOffer(wire'[Lo][j])
          PROVE  wire'[Lo][j].pc = h
      <4>1. i + 1 \in DOMAIN wire[Lo] /\ j + 1 \in DOMAIN wire[Lo] /\ i + 1 < j + 1
        BY <3>2, <3>3
      <4>2. wire'[Lo][i] = wire[Lo][i + 1] /\ wire'[Lo][j] = wire[Lo][j + 1]
        BY <3>2
      <4>. QED  BY <2>3, <3>3, <4>1, <4>2
    <3>4. ASSUME Hears(h)' \/ pc'[Hi].conn # "new", NEW m \in Coming(Lo)', IsOffer(m)
          PROVE  m.pc = h
      <4>1. CASE Hears(h) \/ pc[Hi].conn # "new"
        BY <2>1, <2>3, <3>4, <4>1
      <4>2. CASE ReadsOffer /\ h = Head(wire[Lo]).pc
        <5>1. PICK j \in DOMAIN wire'[Lo] : m = wire'[Lo][j]
          BY <3>4 DEF Coming
        <5>2. 1 \in DOMAIN wire[Lo] /\ j + 1 \in DOMAIN wire[Lo] /\ 1 < j + 1
              /\ m = wire[Lo][j + 1]
          BY <3>2, <5>1
        <5>3. IsOffer(wire[Lo][1]) /\ wire[Lo][1].pc = h
          BY <3>2, <4>2 DEF ReadsOffer
        <5>. QED  BY <2>3, <3>4, <5>2, <5>3
      <4>. QED  BY <2>1, <2>2, <3>4, <4>1, <4>2, HearsLater
    <3>. QED  BY <3>3, <3>4
  <2>. QED  BY <2>4, <2>5
<1>. QED  BY <1>1, <1>2, <1>3

----------------------------------------------------------------------------
(* Connections that break.                                                 *)

\* What a step makes of how far a connection has come.
LEMMA WayMoves ==
    ASSUME TypeOK, NEW u \in Tabs, Does(u)
    PROVE  \/ pc'[u] = None
           \/ pc'[u] = NewPeer(made + 1, FALSE) /\ (u = Lo /\ ~ReadsOffer => tasks'[u] = {})
           \/ /\ pc[u] # None /\ pc'[u] # None /\ pc'[u].id = pc[u].id
              /\ pc'[u].far = pc[u].far /\ SameWay(pc[u], pc'[u])
              /\ u = Lo /\ ~ReadsOffer => tasks'[u] \subseteq tasks[u]
           \/ Connects(u, Other(u)) \/ Disconnects(u, Other(u))
           \/ u = Hi /\ SetsAnswer
           \/ u = Lo /\ SetsOffer
<1>1. /\ u \in {Hi, Lo} /\ Hi # Lo /\ u \in Tabs
  BY TabAssumption DEF Tabs
<1>2. CASE BothDo(u, Other(u))
  <2>1. CASE \/ Joins(u, Other(u)) \/ Leaves(u, Other(u)) \/ ReadsLeave(u, Other(u))
             \/ ReadsInVain(u, Other(u)) \/ Drops(u, Other(u)) \/ Replaces(u, Other(u))
             \/ (ReadsJoin(u, Other(u)) /\ pc[u] = None)
    BY <1>1, <2>1 DEF Joins, Leaves, ReadsLeave, ReadsInVain, Drops, Replaces, ReadsJoin,
       Gone, Renewed, Kept, FirstTasks
  <2>2. CASE \/ (ReadsJoin(u, Other(u)) /\ pc[u] # None)
             \/ Forgets(u, Other(u)) \/ Idles(u, Other(u))
    <3>1. pc'[u] = pc[u] /\ (u = Lo => tasks'[u] \subseteq tasks[u])
      BY <1>1, <2>2 DEF ReadsJoin, Forgets, Idles, Changes, Kept, FirstTasks
    <3>. QED  BY <3>1 DEF SameWay
  <2>3. CASE ReadsCandidate(u, Other(u))
    <3>1. /\ tasks'[u] = tasks[u]
          /\ \/ pc'[u] = pc[u]
             \/ /\ pc[u] # None /\ pc'[u] # None /\ pc'[u].id = pc[u].id
                /\ SameTalk(pc[u], pc'[u]) /\ SameWay(pc[u], pc'[u])
      BY <2>3, CandidateFields
    <3>. QED  BY <3>1 DEF SameTalk, SameWay
  <2>. QED  BY <1>2, <2>1, <2>2, <2>3 DEF BothDo
<1>3. CASE u = Hi /\ (Offers \/ ReadsAnswer)
  BY <1>1, <1>3, OffersFields DEF ReadsAnswer, SameWay
<1>4. CASE u = Lo /\ ReadsOffer
  BY <1>4 DEF ReadsOffer, Kept, SameWay
<1>5. CASE u = Lo /\ Answers
  BY <1>1, <1>5, AnswersFields
<1>. QED  BY <1>2, <1>3, <1>4, <1>5, TabDoes

\* Once Hi's connection had broken, or Lo had another one since, what Lo hears of
\* is the connection that Hi has now, and Lo's own does not break.
RestartInv ==
    \A h : /\ Has(Hi, h) /\ pc[Hi].conn # "new"
           /\ pc[Lo] # None /\ (pc[Hi].restarted \/ pc[Lo].id # pc[Hi].far)
           => /\ pc[Lo].far \in {0, h} /\ \A t \in tasks[Lo] : t.far = h
              /\ pc[Lo].conn # "disconnected"

LEMMA RestartStays ==
    ASSUME TypeOK, Roles, OfferInv, OldOfferInv, RestartInv, NEW u \in Tabs, Does(u)
    PROVE  RestartInv'
<1>. SUFFICES
       ASSUME NEW h, Has(Hi, h)', pc'[Hi].conn # "new", pc'[Lo] # None,
              pc'[Hi].restarted \/ pc'[Lo].id # pc'[Hi].far
       PROVE  /\ pc'[Lo].far \in {0, h} /\ \A t \in tasks'[Lo] : t.far = h
              /\ pc'[Lo].conn # "disconnected"
  BY DEF RestartInv
<1>1. /\ Hi \in Tabs /\ Lo \in Tabs /\ Hi # Lo /\ Other(Hi) = Lo /\ Other(Lo) = Hi /\ made \in Nat
      /\ u \in {Hi, Lo} /\ pc'[Hi] # None
      /\ RoleOf(Hi, call[Hi], pc[Hi], tasks[Hi], Coming(Hi))
      /\ RoleOf(Lo, call[Lo], pc[Lo], tasks[Lo], Coming(Lo))
  BY TabAssumption, TypesAre, RolesApart DEF Tabs, Other, Has
<1>2. CASE u = Hi
  <2>1. pc'[Lo] = pc[Lo] /\ tasks'[Lo] = tasks[Lo]
    BY <1>1, <1>2, WiresMove
  <2>2. pc'[Hi] # NewPeer(made + 1, FALSE)
    BY <1>1, NewFields
  <2>3. Has(Hi, h)
    BY <1>1, <1>2, <2>2, PeerMoves
  <2>4. CASE pc[Hi].conn # "new" /\ (pc[Hi].restarted \/ pc[Lo].id # pc[Hi].far)
    BY <2>1, <2>3, <2>4 DEF RestartInv
  <2>5. CASE pc'[Hi].far = pc[Hi].far /\ SameWay(pc[Hi], pc'[Hi])
    BY <2>1, <2>4, <2>5 DEF SameWay
  <2>6. CASE Connects(Hi, Lo)
    <3>1. /\ pc[Hi] # None /\ pc'[Hi].far = pc[Hi].far /\ pc'[Hi].restarted = pc[Hi].restarted
          /\ Linked
      BY <1>1, <2>6, ConnectsFields DEF SameTalk
    <3>2. pc[Lo].id = pc[Hi].far
      BY <1>1, <3>1 DEF Linked
    <3>3. pc[Hi].restarted
      BY <2>1, <3>1, <3>2
    <3>4. pc[Hi].conn # "new"
      BY <1>1, <3>1, <3>3 DEF RoleOf
    <3>. QED  BY <2>4, <3>3, <3>4
  <2>7. CASE Disconnects(Hi, Lo)
    <3>1. pc[Hi].conn = "connected" /\ FarEndGone(Hi)
      BY <1>1, <2>7, DisconnectsFields
    <3>2. pc[Lo].id # pc[Hi].far
      BY <1>1, <2>1, <3>1 DEF FarEndGone
    <3>. QED  BY <2>4, <3>1, <3>2
  <2>8. CASE SetsAnswer
    <3>1. pc[Hi] # None /\ pc[Hi].sig = "have-local-offer" /\ SameWay(pc[Hi], pc'[Hi])
      BY <2>8, SetsAnswerFields
    <3>2. pc[Hi].conn # "new" /\ pc[Hi].deal # 0
      BY <1>1, <3>1 DEF RoleOf, SameWay
    <3>3. pc[Hi].restarted
      BY <3>1, <3>2 DEF OfferInv
    <3>. QED  BY <2>4, <3>2, <3>3
  <2>. QED  BY <1>1, <1>2, <2>2, <2>5, <2>6, <2>7, <2>8, WayMoves
<1>3. CASE u = Lo
  <2>1. pc'[Hi] = pc[Hi]
    BY <1>1, <1>3, WiresMove
  <2>2. Has(Hi, h)
    BY <2>1 DEF Has
  <2>3. \A m \in Coming(Lo) : IsOffer(m) => m.pc = h
    BY <2>1, <2>2 DEF OldOfferInv
  <2>4. ASSUME ReadsOffer
        PROVE  \A t \in tasks'[Lo] : t \in tasks[Lo] \/ t.far = h
    <3>. DEFINE m == Head(wire[Lo])
    <3>1. m.pc = h
      BY <1>1, <2>3, <2>4, ReadFrom DEF ReadsOffer, Reads
    <3>2. \E do, p : tasks'[Lo] \subseteq tasks[Lo] \cup {Task(do, p, m.n, m.pc)}
      BY <2>4, Zenon DEF ReadsOffer, Kept
    <3>3. \A do, p, n, k : Task(do, p, n, k).far = k
      BY DEF Task
    <3>. HIDE DEF m
    <3>4. PICK do, p : tasks'[Lo] \subseteq tasks[Lo] \cup {Task(do, p, m.n, m.pc)}
      BY <3>2
    <3>5. Task(do, p, m.n, m.pc).far = h
      BY <3>1, <3>3
    <3>. QED  BY <3>4, <3>5
  <2>5. CASE pc'[Lo] = NewPeer(made + 1, FALSE) /\ (~ReadsOffer => tasks'[Lo] = {})
    <3>1. pc'[Lo].far = 0 /\ pc'[Lo].conn = "new"
      BY <2>5 DEF NewPeer
    <3>2. \A t \in tasks'[Lo] : t.far = h
      <4>1. CASE ReadsOffer
        <5>1. pc[Lo] = None \/ pc'[Lo] = pc[Lo]
          BY <4>1 DEF ReadsOffer, Kept
        <5>2. CASE pc[Lo] = None
          <6>1. tasks[Lo] = {}
            <7>1. \A t \in tasks[Lo] : t.do # "retry"
              BY <1>1 DEF RoleOf
            <7>. QED  BY <1>1, <5>2, <7>1, TypesAre DEF Open, OfOpen
          <6>. QED  BY <2>4, <4>1, <6>1
        <5>3. CASE pc[Lo] # None
          <6>1. pc[Lo].id # made + 1
            <7>1. Has(Lo, pc[Lo].id)
              BY <5>3 DEF Has
            <7>2. pc[Lo].id \in 0..made
              BY <1>1, <7>1, HasIs
            <7>. QED  BY <1>1, <7>2
          <6>2. pc'[Lo].id = made + 1
            BY <1>1, <2>5, NewFields
          <6>. QED  BY <5>1, <5>3, <6>1, <6>2
        <5>. QED  BY <5>2, <5>3
      <4>. QED  BY <2>5, <4>1
    <3>. QED  BY <3>1, <3>2
  <2>6. ASSUME pc[Lo] # None, pc'[Lo].id = pc[Lo].id
        PROVE  /\ pc[Lo].far \in {0, h} /\ \A t \in tasks[Lo] : t.far = h
               /\ pc[Lo].conn # "disconnected"
    BY <2>1, <2>2, <2>6 DEF RestartInv
  <2>7. CASE /\ pc[Lo] # None /\ pc'[Lo].id = pc[Lo].id
             /\ pc'[Lo].far = pc[Lo].far /\ SameWay(pc[Lo], pc'[Lo])
             /\ ~ReadsOffer => tasks'[Lo] \subseteq tasks[Lo]
    BY <2>4, <2>6, <2>7 DEF SameWay
  <2>8. CASE Connects(Lo, Hi)
    BY <1>1, <2>6, <2>8, ConnectsFields DEF SameTalk
  <2>9. ~Disconnects(Lo, Hi)
    <3>1. ASSUME Disconnects(Lo, Hi) PROVE FALSE
      <4>1. /\ pc[Lo] # None /\ pc[Lo].conn = "connected" /\ FarEndGone(Lo)
            /\ pc'[Lo].id = pc[Lo].id
        BY <1>1, <3>1, DisconnectsFields
      <4>2. pc[Lo].far \in {0, h}
        BY <2>6, <4>1
      <4>3. pc[Lo].far # h
        BY <1>1, <2>2, <4>1 DEF FarEndGone, Has
      <4>4. pc[Lo].far # 0
        BY <1>1, <4>1 DEF RoleOf
      <4>. QED  BY <4>2, <4>3, <4>4
    <3>. QED  BY <3>1
  <2>10. CASE SetsOffer
    <3>1. PICK t \in tasks[Lo] :
              /\ pc[Lo] # None /\ pc'[Lo].id = pc[Lo].id /\ pc'[Lo].far = t.far
              /\ SameWay(pc[Lo], pc'[Lo])
              /\ \A a \in tasks'[Lo] : \E b \in tasks[Lo] : a.far = b.far
      BY <2>10, SetsOfferFields
    <3>. QED  BY <2>6, <3>1 DEF SameWay
  <2>. QED  BY <1>1, <1>3, <2>5, <2>7, <2>8, <2>9, <2>10, WayMoves
<1>. QED  BY <1>1, <1>2, <1>3

\* How a connection ends.
LEMMA Ends ==
    ASSUME TypeOK, NEW u \in Tabs, Does(u), NEW c, Has(u, c), ~Has(u, c)'
    PROVE  Leaves(u, Other(u)) \/ ReadsLeave(u, Other(u)) \/ Drops(u, Other(u))
           \/ Replaces(u, Other(u))
<1>1. CASE BothDo(u, Other(u))
  <2>1. ~Joins(u, Other(u)) /\ ~ReadsInVain(u, Other(u)) /\ ~Idles(u, Other(u))
        /\ ~ReadsJoin(u, Other(u)) /\ ~Forgets(u, Other(u))
    BY DEF Has, Joins, ReadsInVain, Idles, ReadsJoin, Forgets, Changes, Kept
  <2>2. ~ReadsCandidate(u, Other(u))
    BY CandidateFields DEF Has
  <2>3. ~Connects(u, Other(u)) /\ ~Disconnects(u, Other(u))
    BY ConnectsFields, DisconnectsFields DEF Has
  <2>. QED  BY <1>1, <2>1, <2>2, <2>3 DEF BothDo
<1>2. CASE u = Hi /\ (Offers \/ ReadsAnswer \/ SetsAnswer)
  BY <1>2, OffersFields, SetsAnswerFields DEF Has, ReadsAnswer
<1>3. CASE u = Lo /\ (ReadsOffer \/ SetsOffer \/ Answers)
  BY <1>3, SetsOfferFields, AnswersFields DEF Has, ReadsOffer, Kept
<1>. QED  BY <1>1, <1>2, <1>3, TabDoes

\* A leaving is known to the other tab, or on its way.
LEMMA LeavesTell ==
    ASSUME TypeOK, NEW u \in Tabs, Leaves(u, Other(u))
    PROVE  LeaveComing(Other(u))'
<1>. DEFINE m == Msg("voice_leave", 0, 0)
<1>1. Other(u) \in Tabs /\ wire'[Other(u)] = wire[Other(u)] \o <<m>>
  BY OthersAre DEF Leaves, Elsewhere
<1>2. m \in AllMessages /\ IsLeave(m)
  BY DEF Msg, AllMessages, MessageTypes, IsLeave
<1>. HIDE DEF m
<1>3. <<m>> \in Seq(AllMessages) /\ 1 \in DOMAIN <<m>> /\ <<m>>[1] = m
  BY <1>2
<1>4. Coming(Other(u))' = Coming(Other(u)) \cup {<<m>>[i] : i \in DOMAIN <<m>>}
  BY <1>1, <1>3, SentTo
<1>5. m \in Coming(Other(u))'
  BY <1>3, <1>4
<1>. QED  BY <1>2, <1>5 DEF LeaveComing

\* A leaving is forgotten only with the connection.
LEMMA LeaveKept ==
    ASSUME TypeOK, NEW u \in Tabs, NEW w \in Tabs, Does(w), LeaveComing(u)
    PROVE  LeaveComing(u)' \/ (u = w /\ Gone(u))
<1>1. PICK m \in Coming(u) : IsLeave(m)
  BY DEF LeaveComing
<1>2. CASE u # w
  <2>1. u = Other(w)
    BY <1>2, OthersAre
  <2>2. m \in Coming(u)'
    BY <1>1, <2>1, WiresMove
  <2>. QED  BY <1>1, <2>2 DEF LeaveComing
<1>3. CASE u = w
  <2>1. CASE wire'[u] = wire[u]
    BY <1>1, <2>1 DEF LeaveComing, Coming
  <2>2. CASE wire'[u] # wire[u]
    <3>1. wire[u] # <<>> /\ wire'[u] = Tail(wire[u])
      BY <1>3, <2>2, ReadsAre DEF Reads
    <3>2. m = Head(wire[u]) \/ m \in Coming(u)'
      BY <1>1, <3>1, ReadFrom
    <3>3. CASE m = Head(wire[u])
      BY <1>1, <1>3, <2>2, <3>3, LeaveRead
    <3>4. CASE m \in Coming(u)'
      BY <1>1, <3>4 DEF LeaveComing
    <3>. QED  BY <3>2, <3>3, <3>4
  <2>. QED  BY <2>1, <2>2
<1>. QED  BY <1>2, <1>3

\* Where Hi's connection came back, Lo's end of it did, or Hi is about to hear
\* that Lo left.
Mutual(h) == pc[Lo] # None /\ pc[Lo].id = pc[Hi].far /\ pc[Lo].far = h
MutualInv ==
    \A h : Has(Hi, h) /\ pc[Hi].restarted /\ pc[Hi].conn = "connected" =>
        Mutual(h) \/ LeaveComing(Hi)

LEMMA MutualStays ==
    ASSUME TypeOK, Roles, SinceInv, OfferInv, RestartInv, MutualInv, NEW u \in Tabs, Does(u)
    PROVE  MutualInv'
<1>. SUFFICES
       ASSUME NEW h, Has(Hi, h)', pc'[Hi].restarted, pc'[Hi].conn = "connected"
       PROVE  Mutual(h)' \/ LeaveComing(Hi)'
  BY DEF MutualInv
<1>1. /\ Hi \in Tabs /\ Lo \in Tabs /\ Hi # Lo /\ Other(Hi) = Lo /\ Other(Lo) = Hi /\ made \in Nat
      /\ u \in {Hi, Lo} /\ pc'[Hi] # None
  BY TabAssumption, TypesAre DEF Tabs, Other, Has
<1>2. CASE u = Hi
  <2>1. pc'[Lo] = pc[Lo]
    BY <1>1, <1>2, WiresMove
  <2>2. pc'[Hi] # NewPeer(made + 1, FALSE)
    BY <1>1, NewFields
  <2>3. Has(Hi, h)
    BY <1>1, <1>2, <2>2, PeerMoves
  <2>4. CASE pc'[Hi].far = pc[Hi].far /\ SameWay(pc[Hi], pc'[Hi])
    <3>1. Mutual(h) \/ LeaveComing(Hi)
      BY <2>3, <2>4 DEF MutualInv, SameWay
    <3>2. LeaveComing(Hi) => LeaveComing(Hi)'
      BY <1>1, <1>2, LeaveKept DEF Gone
    <3>. QED  BY <2>1, <2>4, <3>1, <3>2 DEF Mutual
  <2>5. CASE Connects(Hi, Lo)
    <3>1. pc'[Hi].far = pc[Hi].far /\ Linked
      BY <1>1, <2>5, ConnectsFields DEF SameTalk
    <3>. QED  BY <1>1, <2>1, <2>3, <3>1 DEF Linked, Mutual, Has
  <2>6. ~Disconnects(Hi, Lo)
    BY <1>1, DisconnectsFields
  <2>7. ~SetsAnswer
    <3>1. ASSUME SetsAnswer PROVE FALSE
      <4>1. pc[Hi] # None /\ pc[Hi].sig = "have-local-offer" /\ SameWay(pc[Hi], pc'[Hi])
        BY <3>1, SetsAnswerFields
      <4>. QED  BY <4>1 DEF OfferInv, SameWay
    <3>. QED  BY <3>1
  <2>. QED  BY <1>1, <1>2, <2>2, <2>4, <2>5, <2>6, <2>7, WayMoves
<1>3. CASE u = Lo
  <2>1. pc'[Hi] = pc[Hi]
    BY <1>1, <1>3, WiresMove
  <2>2. Has(Hi, h)
    BY <2>1 DEF Has
  <2>3. Mutual(h) \/ LeaveComing(Hi)
    BY <2>1, <2>2 DEF MutualInv
  <2>4. CASE LeaveComing(Hi)
    BY <1>1, <1>3, <2>4, LeaveKept
  <2>5. CASE Mutual(h)
    <3>1. PICK l : Has(Lo, l) /\ l = pc[Hi].far
      BY <2>5 DEF Mutual, Has
    <3>2. CASE Has(Lo, l)'
      <4>1. pc'[Lo] # None /\ pc'[Lo].id = pc[Lo].id /\ pc[Lo].far = h
        BY <2>5, <3>1, <3>2 DEF Has, Mutual
      <4>2. pc'[Lo].far = h
        <5>1. pc'[Lo] # NewPeer(made + 1, FALSE)
          <6>1. l # made + 1
            <7>1. l \in 0..made
              BY <1>1, <3>1, HasIs
            <7>. QED  BY <1>1, <7>1
          <6>. QED  BY <1>1, <3>2, <6>1, NewFields DEF Has
        <5>2. CASE Connects(Lo, Hi) \/ Disconnects(Lo, Hi)
          BY <1>1, <4>1, <5>2, ConnectsFields, DisconnectsFields DEF SameTalk
        <5>3. CASE SetsOffer
          <6>1. PICK t \in tasks[Lo] : pc'[Lo].far = t.far
            BY <5>3, SetsOfferFields
          <6>2. \A s \in tasks[Lo] : s.far = h
            BY <2>1, <2>2, <3>1 DEF RestartInv, Has
          <6>. QED  BY <6>1, <6>2
        <5>. QED  BY <1>1, <1>3, <4>1, <5>1, <5>2, <5>3, WayMoves
      <4>. QED  BY <2>1, <2>5, <4>1, <4>2 DEF Mutual
    <3>3. CASE ~Has(Lo, l)'
      <4>1. ~FarEndGone(Lo)
        BY <1>1, <2>2, <2>5 DEF FarEndGone, Mutual, Has
      <4>2. pc[Lo].conn # "disconnected"
        BY <2>1, <2>2, <3>1 DEF RestartInv, Has
      <4>3. ~Drops(Lo, Hi) /\ ~Replaces(Lo, Hi)
        BY <4>1, <4>2 DEF Drops, Replaces
      <4>4. ~ReadsLeave(Lo, Hi)
        <5>1. ASSUME ReadsLeave(Lo, Hi) PROVE FALSE
          <6>1. LeaveComing(Lo)
            BY <1>1, <5>1, ReadFrom DEF ReadsLeave, Reads, LeaveComing
          <6>2. Knows(Lo, h)
            BY <2>5 DEF Mutual, Knows
          <6>. QED  BY <1>1, <2>2, <6>1, <6>2 DEF SinceInv
        <5>. QED  BY <5>1
      <4>5. Leaves(Lo, Hi)
        BY <1>1, <1>3, <3>1, <3>3, <4>3, <4>4, Ends
      <4>. QED  BY <1>1, <4>5, LeavesTell
    <3>. QED  BY <3>2, <3>3
  <2>. QED  BY <2>3, <2>4, <2>5
<1>. QED  BY <1>1, <1>2, <1>3

----------------------------------------------------------------------------
(* The candidates of Lo.                                                   *)

\* When Lo has answered, the candidate of its connection is on its way to Hi or
\* came when Hi was not in the call; or Hi has it, unless it is out of the call
\* or Lo is about to hear that it left.
HiInv ==
    \A l : Has(Lo, l) /\ pc[Lo].deal # 0 =>
        \/ l \in unheard
        \/ CandidateComing(Hi, l)
        \/ ~JoinComing(Hi) /\ (HasCandidate(Hi, l) \/ pc[Hi] = None \/ LeaveComing(Lo))

LEMMA HiStays ==
    ASSUME TypeOK, Roles, LeaveInv, JoinInv, SinceInv, MutualInv, HiInv, NEW u \in Tabs, Does(u)
    PROVE  HiInv'
<1>. SUFFICES
       ASSUME NEW l, Has(Lo, l)', pc'[Lo].deal # 0
       PROVE  \/ l \in unheard'
              \/ CandidateComing(Hi, l)'
              \/ ~JoinComing(Hi)' /\ (HasCandidate(Hi, l)' \/ pc'[Hi] = None \/ LeaveComing(Lo)')
  BY DEF HiInv
<1>1. /\ Hi \in Tabs /\ Lo \in Tabs /\ Hi # Lo /\ Other(Hi) = Lo /\ Other(Lo) = Hi /\ made \in Nat
      /\ u \in {Hi, Lo} /\ pc'[Lo] # None
      /\ RoleOf(Lo, call[Lo], pc[Lo], tasks[Lo], Coming(Lo))
  BY TabAssumption, TypesAre, RolesApart DEF Tabs, Other, Has
<1>2. ASSUME Has(Lo, l), pc[Lo].deal # 0
      PROVE  \/ l \in unheard'
             \/ CandidateComing(Hi, l)
             \/ ~JoinComing(Hi) /\ (HasCandidate(Hi, l) \/ pc[Hi] = None \/ LeaveComing(Lo))
  BY <1>2, UnheardGrows DEF HiInv
<1>3. CASE u = Lo
  <2>1. /\ pc'[Hi] = pc[Hi] /\ queued'[Hi] = queued[Hi]
        /\ Coming(Hi) \subseteq Coming(Hi)'
        /\ \A m \in Coming(Hi)' : m \in Coming(Hi) \/ Says(Lo, m)
    BY <1>1, <1>3, WiresMove
  <2>2. pc'[Lo] # NewPeer(made + 1, FALSE)
    BY <1>1, NewFields
  <2>3. Has(Lo, l)
    BY <1>1, <1>3, <2>2, PeerMoves
  <2>4. CASE pc[Lo].deal = 0
    <3>1. Answers
      <4>1. SameTalk(pc[Lo], pc'[Lo]) => FALSE
        BY <2>4 DEF SameTalk
      <4>2. pc'[Lo] # pc[Lo]
        BY <2>4
      <4>3. CASE BothDo(Lo, Hi)
        <5>1. ~ReadsCandidate(Lo, Hi) /\ ~Connects(Lo, Hi) /\ ~Disconnects(Lo, Hi)
          BY <1>1, <4>1, <4>2, CandidateFields, ConnectsFields, DisconnectsFields
        <5>. QED  BY <1>1, <2>2, <4>2, <4>3, <5>1 DEF BothDo, Joins, Leaves, ReadsJoin, ReadsLeave,
                  ReadsInVain, Forgets, Idles, Drops, Replaces, Changes, Gone, Renewed, Kept
      <4>4. ~SetsOffer
        BY <2>4, SetsOfferFields
      <4>5. ~ReadsOffer
        BY <2>2, <4>2 DEF ReadsOffer, Kept
      <4>. QED  BY <1>1, <1>3, <4>3, <4>4, <4>5, TabDoes
    <3>. DEFINE a == Msg("webrtc_answer", pc[Lo].id, pc[Lo].heard)
                n == Msg("webrtc_ice_candidate", pc[Lo].id, 0)
    <3>2. Elsewhere(Hi, <<a>> \o CandidateFound(pc[Lo])) /\ pc[Lo] # None
      BY <3>1, AnswersFields
    <3>3. CandidateFound(pc[Lo]) = <<n>>
      BY <1>1, <2>4, <3>2 DEF RoleOf, CandidateFound
    <3>4. a \in AllMessages /\ n \in AllMessages /\ IsCandidate(n, l)
      <4>1. pc[Lo].id \in Nat /\ pc[Lo].heard \in Nat /\ pc[Lo].id = l
        BY <1>1, <2>3, <3>2, PeerIs DEF Peers, Has
      <4>. QED  BY <4>1 DEF Msg, AllMessages, MessageTypes, IsCandidate
    <3>. HIDE DEF a, n
    <3>5. PICK ns : ns = <<a>> \o <<n>>
      OBVIOUS
    <3>6. ns \in Seq(AllMessages) /\ DOMAIN ns = {1, 2} /\ ns[2] = n
      BY <3>4, <3>5
    <3>7. wire'[Hi] = wire[Hi] \o ns
      BY <3>2, <3>3, <3>5 DEF Elsewhere
    <3>8. Coming(Hi)' = Coming(Hi) \cup {ns[i] : i \in DOMAIN ns}
      BY <1>1, <3>6, <3>7, SentTo
    <3>9. n \in Coming(Hi)'
      BY <3>6, <3>8
    <3>. QED  BY <3>4, <3>9 DEF CandidateComing
  <2>5. CASE pc[Lo].deal # 0
    <3>1. CASE CandidateComing(Hi, l)
      BY <2>1, <3>1 DEF CandidateComing
    <3>2. CASE ~JoinComing(Hi) /\ (HasCandidate(Hi, l) \/ pc[Hi] = None \/ LeaveComing(Lo))
      <4>1. ~JoinComing(Hi)'
        <5>1. ~Joins(Lo, Hi)
          BY <2>3 DEF Joins, Has
        <5>2. \A m : Says(Lo, m) => ~IsJoin(m)
          BY <1>1, <5>1 DEF Says, IsJoin, Msg
        <5>. QED  BY <2>1, <3>2, <5>2 DEF JoinComing
      <4>2. HasCandidate(Hi, l)' \/ pc'[Hi] = None \/ LeaveComing(Lo)'
        <5>1. LeaveComing(Lo) => LeaveComing(Lo)'
          BY <1>1, <1>3, LeaveKept DEF Gone
        <5>. QED  BY <2>1, <3>2, <5>1 DEF HasCandidate
      <4>. QED  BY <4>1, <4>2
    <3>. QED  BY <1>2, <2>3, <2>5, <3>1, <3>2
  <2>. QED  BY <2>4, <2>5
<1>4. CASE u = Hi
  <2>1. pc'[Lo] = pc[Lo] /\ Coming(Hi)' \subseteq Coming(Hi)
    BY <1>1, <1>4, WiresMove
  <2>2. Has(Lo, l) /\ pc[Lo].deal # 0
    BY <2>1 DEF Has
  <2>3. CASE CandidateComing(Hi, l)
    <3>1. CASE /\ ReadsCandidate(Hi, Lo) /\ IsCandidate(Head(wire[Hi]), l)
               /\ HasCandidate(Hi, l)'
      <4>1. ASSUME JoinComing(Hi)' PROVE FALSE
        <5>1. wire[Hi] # <<>> /\ wire'[Hi] = Tail(wire[Hi])
          BY <3>1 DEF ReadsCandidate, Reads
        <5>2. /\ Len(wire[Hi]) \in Nat \ {0} /\ Head(wire[Hi]) = wire[Hi][1]
              /\ DOMAIN wire[Hi] = 1..Len(wire[Hi]) /\ DOMAIN wire'[Hi] = 1..(Len(wire[Hi]) - 1)
              /\ \A i \in 1..(Len(wire[Hi]) - 1) : wire'[Hi][i] = wire[Hi][i + 1]
          BY <1>1, <5>1, ReadFrom
        <5>3. PICK j \in DOMAIN wire'[Hi] : IsJoin(wire'[Hi][j])
          BY <4>1 DEF JoinComing, Coming
        <5>4. /\ j + 1 \in DOMAIN wire[Hi] /\ IsJoin(wire[Hi][j + 1]) /\ j + 1 # 1
              /\ (j + 1) - 1 = j /\ j \in DOMAIN wire[Hi] /\ 1 \in DOMAIN wire[Hi]
              /\ (j # 1 => 1 < j)
          BY <5>2, <5>3
        <5>5. IsLeave(wire[Hi][j])
          BY <1>1, <5>4, Zenon DEF JoinInv
        <5>6. j # 1
          BY <3>1, <5>2, <5>5 DEF IsLeave, IsCandidate
        <5>7. wire[Hi][1].pc = l
          BY <3>1, <5>2 DEF IsCandidate
        <5>. QED  BY <1>1, <2>2, <5>4, <5>5, <5>6, <5>7 DEF SinceInv
      <4>. QED  BY <3>1, <4>1
    <3>. QED  BY <1>1, <1>4, <2>3, <3>1, CandidateRead
  <2>4. CASE ~JoinComing(Hi) /\ (HasCandidate(Hi, l) \/ pc[Hi] = None \/ LeaveComing(Lo))
    <3>1. ~JoinComing(Hi)'
      BY <2>1, <2>4 DEF JoinComing
    <3>2. CASE LeaveComing(Lo)
      BY <1>1, <1>4, <3>1, <3>2, LeaveKept
    <3>3. CASE HasCandidate(Hi, l)
      <4>1. ~Replaces(Hi, Lo)
        <5>1. ASSUME Replaces(Hi, Lo) PROVE FALSE
          <6>1. pc[Hi] # None /\ pc[Hi].restarted /\ pc[Hi].conn = "connected" /\ FarEndGone(Hi)
            BY <5>1 DEF Replaces
          <6>2. PICK h : Has(Hi, h)
            BY <6>1 DEF Has
          <6>3. ~Mutual(h)
            BY <1>1, <6>1 DEF Mutual, FarEndGone
          <6>4. LeaveComing(Hi)
            BY <6>1, <6>2, <6>3 DEF MutualInv
          <6>5. Knows(Hi, l)
            BY <3>3 DEF Knows, HasCandidate
          <6>. QED  BY <1>1, <2>2, <6>4, <6>5 DEF SinceInv
        <5>. QED  BY <5>1
      <4>2. HasCandidate(Hi, l)' \/ Gone(Hi)
        BY <1>1, <1>4, <3>3, <4>1, CandidateKept
      <4>. QED  BY <3>1, <4>2 DEF Gone
    <3>4. CASE pc[Hi] = None /\ pc'[Hi] # None
      <4>1. ~ReadsJoin(Hi, Lo)
        <5>1. ReadsJoin(Hi, Lo) => JoinComing(Hi)
          BY <1>1, ReadFrom DEF ReadsJoin, Reads, JoinComing
        <5>. QED  BY <2>4, <5>1
      <4>2. Joins(Hi, Lo)
        <5>1. CASE BothDo(Hi, Lo)
          <6>1. ~ReadsCandidate(Hi, Lo)
            BY <3>4 DEF ReadsCandidate
          <6>. QED  BY <3>4, <4>1, <5>1, <6>1 DEF BothDo, Leaves, ReadsLeave, ReadsInVain, Connects,
                    Disconnects, Forgets, Idles, Drops, Replaces, Changes, Gone, Kept
        <5>2. ~Offers /\ ~ReadsAnswer /\ ~SetsAnswer
          BY <3>4 DEF Offers, ReadsAnswer, SetsAnswer, Changes, Kept
        <5>. QED  BY <1>1, <1>4, <5>1, <5>2, TabDoes
      <4>3. LeftFor(Lo)
        BY <1>1, <4>2 DEF Joins, LeaveInv
      <4>4. ~FreshTab(Lo)
        BY <2>1, <2>2, <1>1 DEF FreshTab
      <4>5. LeaveComing(Lo)
        <5>1. wire[Lo] # <<>> /\ IsLeave(wire[Lo][Len(wire[Lo])])
          BY <4>3, <4>4 DEF LeftFor
        <5>2. wire[Lo] \in Seq(AllMessages)
          BY <1>1, WiresAre
        <5>3. Len(wire[Lo]) \in DOMAIN wire[Lo]
          BY <5>1, <5>2
        <5>. QED  BY <5>1, <5>3 DEF LeaveComing, Coming
      <4>. QED  BY <3>2, <4>5
    <3>. QED  BY <2>4, <3>1, <3>2, <3>3, <3>4
  <2>. QED  BY <1>2, <2>2, <2>3, <2>4
<1>. QED  BY <1>1, <1>3, <1>4

----------------------------------------------------------------------------
(* The inductive invariant, and what follows from it.                      *)

CalmInv ==
    /\ Roles /\ LeaveInv /\ JoinInv /\ SinceInv /\ NotYetInv /\ OfferInv /\ FollowInv
    /\ LoInv /\ OldOfferInv /\ RestartInv /\ MutualInv /\ HiInv
IInv == TypeOK /\ (Calm => CalmInv)

LEMMA InitCalmInv == Init => CalmInv
<1>. SUFFICES ASSUME Init PROVE CalmInv
  OBVIOUS
<1>1. /\ Hi \in Tabs /\ Lo \in Tabs /\ \A u \in Tabs : Other(u) \in Tabs
  BY OthersAre DEF Tabs
<1>2. \A u \in Tabs : pc[u] = None /\ tasks[u] = {} /\ wire[u] = <<>> /\ Coming(u) = {}
  BY DEF Init, Coming
<1>3. \A u \in Tabs : ~LeaveComing(u) /\ ~JoinComing(u) /\ FreshTab(u) /\ \A c : ~Has(u, c)
  BY <1>2 DEF LeaveComing, JoinComing, FreshTab, Has
<1>4. \A u \in Tabs : DOMAIN wire[u] = {}
  BY <1>2
<1>5. Roles
  BY <1>1, <1>2 DEF Roles, CallInv, RoleInv, CountInv
<1>6. LeaveInv /\ JoinInv
  BY <1>2, <1>3, <1>4 DEF LeaveInv, LeftFor, JoinInv
<1>7. SinceInv /\ NotYetInv
  BY <1>1, <1>3 DEF SinceInv, NotYetInv
<1>8. OfferInv /\ FollowInv /\ LoInv /\ OldOfferInv /\ RestartInv /\ MutualInv /\ HiInv
  BY <1>1, <1>2, <1>3, <1>4 DEF OfferInv, FollowInv, LoInv, Hears, OldOfferInv, RestartInv, MutualInv, HiInv
<1>. QED  BY <1>5, <1>6, <1>7, <1>8 DEF CalmInv

LEMMA CalmInvStays ==
    ASSUME TypeOK, CalmInv, Calm', Next
    PROVE  CalmInv'
<1>1. PICK u \in Tabs : Does(u)
  BY CalmSteps, TabsDo DEF CalmInv
<1>2. Roles' /\ LeaveInv' /\ JoinInv'
  BY <1>1, RolesStay, LeaveStays, JoinStays DEF CalmInv
<1>3. SinceInv' /\ NotYetInv'
  BY <1>1, SinceStays, NotYetStays DEF CalmInv
<1>4. OfferInv' /\ FollowInv'
  BY <1>1, OfferStays, FollowStays DEF CalmInv
<1>5. LoInv' /\ OldOfferInv'
  BY <1>1, LoStays, OldOfferStays DEF CalmInv
<1>6. RestartInv' /\ MutualInv' /\ HiInv'
  BY <1>1, RestartStays, MutualStays, HiStays DEF CalmInv
<1>. QED  BY <1>2, <1>3, <1>4, <1>5, <1>6 DEF CalmInv

LEMMA IInvStays == IInv /\ [Next]_vars => IInv'
<1>1. ASSUME IInv, Next PROVE IInv'
  <2>1. TypeOK'
    BY <1>1, StepTypes DEF IInv
  <2>2. ASSUME Calm' PROVE CalmInv'
    BY <1>1, <2>2, CalmBefore, CalmInvStays DEF IInv
  <2>. QED  BY <2>1, <2>2 DEF IInv
<1>2. ASSUME IInv, UNCHANGED vars PROVE IInv'
  <2>1. /\ call' = call /\ pc' = pc /\ queued' = queued /\ tasks' = tasks /\ wire' = wire
        /\ stale' = stale /\ shares' = shares /\ faults' = faults /\ unheard' = unheard
    BY <1>2 DEF vars
  <2>2. TypeOK'
    BY <1>2, StepTypes DEF IInv
  <2>3. Calm' => Calm
    BY <2>1 DEF Calm, Undisturbed
  <2>4. CalmInv => CalmInv'
    <3>1. \A u : Coming(u)' = Coming(u) /\ (FreshTab(u)' <=> FreshTab(u))
      BY <2>1 DEF Coming, FreshTab
    <3>2. \A u : (LeaveComing(u)' <=> LeaveComing(u)) /\ (JoinComing(u)' <=> JoinComing(u))
                 /\ (FarEndGone(u)' <=> FarEndGone(u))
      BY <2>1, <3>1 DEF LeaveComing, JoinComing, FarEndGone
    <3>3. \A u, c : (Has(u, c)' <=> Has(u, c)) /\ (Knows(u, c)' <=> Knows(u, c))
                    /\ (CandidateComing(u, c)' <=> CandidateComing(u, c))
                    /\ (HasCandidate(u, c)' <=> HasCandidate(u, c))
      BY <2>1, <3>1 DEF Has, Knows, CandidateComing, HasCandidate
    <3>4. Roles => Roles'
      BY <2>1, <3>1 DEF Roles, CallInv, RoleInv, CountInv
    <3>5. (LeaveInv => LeaveInv') /\ (JoinInv => JoinInv')
      BY <2>1, <3>1 DEF LeaveInv, LeftFor, JoinInv
    <3>6. (SinceInv => SinceInv') /\ (NotYetInv => NotYetInv')
      BY <2>1, <3>1, <3>2, <3>3 DEF SinceInv, NotYetInv
    <3>7. (OfferInv => OfferInv') /\ (FollowInv => FollowInv')
      BY <2>1, <3>2 DEF OfferInv, FollowInv
    <3>8. (LoInv => LoInv') /\ (OldOfferInv => OldOfferInv')
      BY <2>1, <3>1, <3>3 DEF LoInv, Hears, OldOfferInv
    <3>9. (RestartInv => RestartInv') /\ (MutualInv => MutualInv') /\ (HiInv => HiInv')
      BY <2>1, <3>2, <3>3 DEF RestartInv, MutualInv, Mutual, HiInv
    <3>. QED  BY <3>4, <3>5, <3>6, <3>7, <3>8, <3>9 DEF CalmInv
  <2>. QED  BY <1>2, <2>2, <2>3, <2>4 DEF IInv
<1>. QED  BY <1>1, <1>2

LEMMA AlwaysIInv == Spec => []IInv
<1>1. Init => IInv
  BY InitTypes, InitCalmInv DEF IInv
<1>. QED  BY <1>1, IInvStays, PTL DEF Spec

\* When all has been said in a calm call, nobody is in a finished negotiation
\* with a tab that has left (the handler of voice_leave drops the connection).
THEOREM NobodyStays == Spec => []LeftIsGone
<1>1. IInv => LeftIsGone
  <2>. SUFFICES ASSUME IInv, Quiet, Undisturbed, ~stale, NEW u \in Tabs, ~call[u]
                PROVE  pc[Other(u)] = None \/ pc[Other(u)].deal = 0
    BY DEF LeftIsGone
  <2>1. Other(u) \in Tabs /\ Other(Other(u)) = u
    BY OthersAre
  <2>2. LeftFor(Other(u))
    BY <2>1 DEF IInv, Calm, CalmInv, LeaveInv
  <2>3. FreshTab(Other(u))
    BY <2>1, <2>2 DEF Quiet, LeftFor
  <2>. QED  BY <2>3 DEF FreshTab
<1>. QED  BY <1>1, AlwaysIInv, PTL

\* In a calm call the candidate of the other's present connection is with the
\* connection, or waits for it, when all has been said: queueCandidate and
\* flushPendingCandidates lose none, in whatever order descriptions and
\* candidates come, however often the tabs leave and come back, and although a
\* connection that breaks is restarted and replaced.
THEOREM CandidatesArrive == Spec => []NoCandidateLost
<1>1. IInv => NoCandidateLost
  <2>. SUFFICES ASSUME IInv, Quiet, Undisturbed, ~stale, NEW u \in Tabs,
                       pc[u] # None, pc[Other(u)] # None,
                       pc[u].far = pc[Other(u)].id, pc[u].far \notin unheard
                PROVE  pc[u].far \in pc[u].cands \cup queued[u]
    BY DEF NoCandidateLost
  <2>1. /\ Hi \in Tabs /\ Lo \in Tabs /\ Other(Hi) = Lo /\ Other(Lo) = Hi /\ u \in {Hi, Lo}
        /\ TypeOK /\ CalmInv
    BY TabAssumption DEF Tabs, Other, IInv, Calm
  <2>2. PICK c : c = pc[u].far
    OBVIOUS
  <2>3. Has(Other(u), c) /\ c # 0 /\ c \notin unheard
    <3>1. Has(Other(u), c)
      BY <2>2 DEF Has
    <3>. QED  BY <2>1, <2>2, <3>1, OthersAre, HasIs
  <2>4. \A w \in Tabs : Coming(w) = {}
    BY DEF Quiet, Coming
  <2>5. \A w \in Tabs : ~CandidateComing(w, c) /\ ~LeaveComing(w)
    BY <2>4 DEF CandidateComing, LeaveComing
  <2>6. HasCandidate(u, c)
    <3>1. CASE u = Lo
      BY <2>1, <2>2, <2>3, <2>5, <3>1 DEF CalmInv, LoInv, Hears
    <3>2. CASE u = Hi
      <4>1. Knows(Hi, c)
        BY <2>2, <3>2 DEF Knows
      <4>2. pc[Lo].deal # 0
        BY <2>1, <2>3, <3>2, <4>1 DEF CalmInv, NotYetInv
      <4>. QED  BY <2>1, <2>3, <2>5, <3>2, <4>2 DEF CalmInv, HiInv
    <3>. QED  BY <2>1, <3>1, <3>2
  <2>. QED  BY <2>2, <2>6 DEF HasCandidate
<1>. QED  BY <1>1, AlwaysIInv, PTL

----------------------------------------------------------------------------
(* Orderly calls: nobody shares a screen, nothing fails, and nobody joins  *)
(* again before all has been said.  Candidates of an earlier connection    *)
(* may wait, so that attempts fail and are repeated.  Hi makes the offers  *)
(* and Lo answers them, one negotiation at a time.                         *)

Orderly == Undisturbed /\ ~hurried

OfferComing == \E m \in Coming(Lo) : IsOffer(m)
AnswerComing == \E m \in Coming(Hi) : IsAnswer(m)
Working == \E t \in tasks[Lo] : t.do # "retry"

\* A negotiation is under way, or waits to be tried again.
Pending == tasks[Hi] # {} \/ OfferComing \/ Working \/ AnswerComing

Blank(u) ==
    /\ pc[u] # None => pc[u].deal = 0 /\ pc[u].far = 0
    /\ \A t \in tasks[u] : t.do \in {"offer", "retry"}

\* Who asks for what, who sends what, and what is zero at first.
CastInv ==
    /\ \A t \in tasks[Hi] : t.do \in {"offer", "accept", "retry"}
    /\ \A t \in tasks[Lo] : t.do \in {"remote", "answer", "retry"}
    /\ \A m \in Coming(Hi) : m.type \in {"voice_join", "voice_leave", "webrtc_answer",
                                         "webrtc_ice_candidate"}
    /\ \A m \in Coming(Lo) : m.type \in {"voice_join", "voice_leave", "webrtc_offer",
                                         "webrtc_ice_candidate"}
    /\ pc[Hi] # None => /\ pc[Hi].sig \in {"stable", "have-local-offer"}
                        /\ pc[Hi].conn # "new" => pc[Hi].deal # 0
                        /\ pc[Hi].sig = "have-local-offer" => pc[Hi].offer # 0
    /\ pc[Lo] # None => pc[Lo].sig \in {"stable", "have-remote-offer"}

\* One thing at a time.
OneInv ==
    /\ \A s, t \in tasks[Hi] : s = t
    /\ \A s, t \in tasks[Lo] : s.do # "retry" /\ t.do # "retry" => s = t
    /\ \A i, j \in DOMAIN wire[Lo] : IsOffer(wire[Lo][i]) /\ IsOffer(wire[Lo][j]) => i = j
    /\ \A i, j \in DOMAIN wire[Hi] : IsAnswer(wire[Hi][i]) /\ IsAnswer(wire[Hi][j]) => i = j
    /\ tasks[Hi] # {} => ~OfferComing /\ ~Working /\ ~AnswerComing
    /\ OfferComing => ~Working /\ ~AnswerComing
    /\ Working => ~AnswerComing

\* A tab that has never been in the call.
Newcomer(u, v) ==
    joins[u] = 0 => /\ ~call[u] /\ pc[u] = None /\ tasks[u] = {}
                    /\ wire[v] = <<>> /\ Blank(v)
FirstInv == /\ Newcomer(Hi, Lo) /\ Newcomer(Lo, Hi)
            /\ joins[Hi] = 0 => ~AnswerComing

\* A tab that is not in the call, and what Hi has of Lo.
OutOfCall(u) == ~call[u] => Blank(u) /\ queued[u] = {}
LastLeave == wire[Hi] # <<>> /\ IsLeave(wire[Hi][Len(wire[Hi])])
OutInv == /\ OutOfCall(Hi) /\ OutOfCall(Lo)
          /\ ~call[Lo] => LastLeave \/ (wire[Hi] = <<>> /\ Blank(Hi))

\* Hi is told that Lo joins when it knows nothing of it.
HeadInv == \A j \in DOMAIN wire[Hi] : IsJoin(wire[Hi][j]) => j = 1 /\ Blank(Hi)

\* What is under way when Lo joins is what is asked for then.
Meets ==
    /\ pc[Hi] # None
    /\ \/ pc[Hi].sig = "have-local-offer" /\ tasks[Hi] = {}
       \/ pc[Hi].sig = "stable" /\ tasks[Hi] = {Task("offer", pc[Hi].id, 1, 0)}
MeetInv == call[Hi] /\ Pending /\ (joins[Lo] = 0 \/ JoinComing(Hi)) => Meets

\* What a negotiation that is over has agreed on.
DoneInv ==
    /\ pc[Hi] # None =>
           /\ pc[Hi].deal # 0 /\ Pending => pc[Hi].conn = "disconnected" /\ FarEndGone(Hi)
           /\ pc[Hi].sig = "stable" => pc[Hi].deal = pc[Hi].offer
    /\ pc[Lo] # None =>
           /\ pc[Lo].sig = "stable" => pc[Lo].deal = pc[Lo].heard
           /\ pc[Lo].sig = "have-remote-offer" => Working

\* What is offered is the offer of Hi's connection, if it has one.
PassInv ==
    /\ \A t \in tasks[Lo] : t.do = "answer" =>
           pc[Lo].sig = "have-remote-offer" /\ pc[Lo].far = t.far /\ pc[Lo].heard = t.n
    /\ pc[Hi] # None =>
           /\ \A m \in Coming(Lo) : IsOffer(m) =>
                  m.pc = pc[Hi].id /\ m.n = pc[Hi].offer /\ pc[Hi].sig = "have-local-offer"
           /\ \A t \in tasks[Lo] : t.do # "retry" =>
                  t.far = pc[Hi].id /\ t.n = pc[Hi].offer /\ pc[Hi].sig = "have-local-offer"

\* If Lo still has the connection l, that has answered the offer of Hi's.
Answered(l) ==
    pc[Lo] # None =>
        IF pc[Lo].id = l
        THEN pc[Lo].sig = "stable" /\ pc[Lo].heard = pc[Hi].offer /\ pc[Lo].far = pc[Hi].id
        ELSE pc[Lo].heard = 0 /\ pc[Lo].far = 0 /\ pc[Lo].deal = 0

HeardInv ==
    pc[Hi] # None =>
        /\ \A m \in Coming(Hi) : IsAnswer(m) =>
               pc[Hi].sig = "have-local-offer" /\ Answered(m.pc)
        /\ \A t \in tasks[Hi] :
               /\ t.do = "accept" => pc[Hi].sig = "have-local-offer" /\ Answered(t.far)
               /\ t.do = "offer" => pc[Hi].sig = "stable"
        /\ pc[Hi].sig = "stable" /\ pc[Hi].deal # 0 => Answered(pc[Hi].far)

InOrder == /\ CastInv /\ OneInv /\ FirstInv /\ OutInv /\ HeadInv
           /\ MeetInv /\ DoneInv /\ PassInv /\ HeardInv

----------------------------------------------------------------------------
(* Messages that are read and sent, and what there is one of.              *)

LEMMA OnceRead ==
    ASSUME NEW s \in Seq(AllMessages), s # <<>>, NEW type,
           \A i, j \in DOMAIN s : s[i].type = type /\ s[j].type = type => i = j
    PROVE  /\ \A i, j \in DOMAIN Tail(s) : Tail(s)[i].type = type /\ Tail(s)[j].type = type => i = j
           /\ Head(s).type = type => \A i \in DOMAIN Tail(s) : Tail(s)[i].type # type
<1>1. /\ Len(s) \in Nat \ {0} /\ DOMAIN s = 1..Len(s) /\ Head(s) = s[1]
      /\ DOMAIN Tail(s) = 1..(Len(s) - 1)
      /\ \A i \in 1..(Len(s) - 1) : i + 1 \in 1..Len(s) /\ Tail(s)[i] = s[i + 1]
  BY TailIs
<1>2. ASSUME NEW i \in DOMAIN Tail(s), NEW j \in DOMAIN Tail(s),
             Tail(s)[i].type = type, Tail(s)[j].type = type
      PROVE  i = j
  <2>1. i + 1 = j + 1
    BY <1>1, <1>2, Zenon
  <2>. QED  BY <1>1, <2>1
<1>3. ASSUME Head(s).type = type, NEW i \in DOMAIN Tail(s), Tail(s)[i].type = type
      PROVE  FALSE
  <2>1. 1 \in DOMAIN s /\ i + 1 \in DOMAIN s /\ i + 1 # 1
    BY <1>1
  <2>2. s[1].type = type /\ s[i + 1].type = type
    BY <1>1, <1>3
  <2>. QED  BY <2>1, <2>2, Zenon
<1>. QED  BY <1>2, <1>3

\* What comes last, and is not read, still comes last.
LEMMA LastRead ==
    ASSUME NEW s \in Seq(AllMessages), s # <<>>
    PROVE  \/ Tail(s) = <<>> /\ Head(s) = s[Len(s)]
           \/ Tail(s) # <<>> /\ Tail(s)[Len(Tail(s))] = s[Len(s)]
<1>1. /\ Len(s) \in Nat \ {0} /\ DOMAIN s = 1..Len(s) /\ Head(s) = s[1]
      /\ Len(Tail(s)) = Len(s) - 1
      /\ \A i \in 1..(Len(s) - 1) : i + 1 \in 1..Len(s) /\ Tail(s)[i] = s[i + 1]
  BY TailIs
<1>2. CASE Len(s) = 1
  BY <1>1, <1>2, TailIsShorter
<1>3. CASE Len(s) # 1
  <2>1. Len(Tail(s)) \in 1..(Len(s) - 1) /\ Len(Tail(s)) + 1 = Len(s)
    <3>1. \A n, k : n \in Nat \ {0} /\ n # 1 /\ k = n - 1 => k \in 1..(n - 1) /\ k + 1 = n
      OBVIOUS
    <3>. QED  BY <1>1, <1>3, <3>1
  <2>2. Tail(s)[Len(Tail(s))] = s[Len(Tail(s)) + 1]
    BY <1>1, <2>1, Zenon
  <2>3. Tail(s) # <<>>
    BY <2>1
  <2>. QED  BY <2>1, <2>2, <2>3
<1>. QED  BY <1>2, <1>3

\* Lo reads a message, or none.
LEMMA LoReads ==
    ASSUME TypeOK, OneInv, wire'[Lo] = wire[Lo] \/ (wire[Lo] # <<>> /\ wire'[Lo] = Tail(wire[Lo]))
    PROVE  /\ Coming(Lo)' \subseteq Coming(Lo)
           /\ \A i, j \in DOMAIN wire'[Lo] : IsOffer(wire'[Lo][i]) /\ IsOffer(wire'[Lo][j]) => i = j
           /\ wire[Lo] = <<>> => wire'[Lo] = <<>>
           /\ wire'[Lo] # wire[Lo] /\ IsOffer(Head(wire[Lo])) => ~OfferComing'
<1>1. Lo \in Tabs /\ wire[Lo] \in Seq(AllMessages)
  BY WiresAre DEF Tabs
<1>2. CASE wire'[Lo] = wire[Lo]
  BY <1>2 DEF Coming, OneInv
<1>3. CASE wire[Lo] # <<>> /\ wire'[Lo] = Tail(wire[Lo])
  <2>1. Coming(Lo)' \subseteq Coming(Lo)
    BY <1>1, <1>3, ReadFrom
  <2>2. \A i, j \in DOMAIN wire[Lo] :
            wire[Lo][i].type = "webrtc_offer" /\ wire[Lo][j].type = "webrtc_offer" => i = j
    BY DEF OneInv, IsOffer
  <2>3. /\ \A i, j \in DOMAIN Tail(wire[Lo]) : Tail(wire[Lo])[i].type = "webrtc_offer"
                                               /\ Tail(wire[Lo])[j].type = "webrtc_offer" => i = j
        /\ Head(wire[Lo]).type = "webrtc_offer" =>
               \A i \in DOMAIN Tail(wire[Lo]) : Tail(wire[Lo])[i].type # "webrtc_offer"
    BY <1>1, <1>3, <2>2, OnceRead
  <2>4. \A i, j \in DOMAIN wire'[Lo] : IsOffer(wire'[Lo][i]) /\ IsOffer(wire'[Lo][j]) => i = j
    BY <1>3, <2>3 DEF IsOffer
  <2>5. IsOffer(Head(wire[Lo])) => ~OfferComing'
    BY <1>3, <2>3 DEF IsOffer, OfferComing, Coming
  <2>. QED  BY <1>3, <2>1, <2>4, <2>5
<1>. QED  BY <1>2, <1>3

\* Hi reads a message, or none.
LEMMA HiReads ==
    ASSUME TypeOK, OneInv, HeadInv,
           wire'[Hi] = wire[Hi] \/ (wire[Hi] # <<>> /\ wire'[Hi] = Tail(wire[Hi]))
    PROVE  /\ Coming(Hi)' \subseteq Coming(Hi)
           /\ \A i, j \in DOMAIN wire'[Hi] :
                  IsAnswer(wire'[Hi][i]) /\ IsAnswer(wire'[Hi][j]) => i = j
           /\ wire[Hi] = <<>> => wire'[Hi] = <<>>
           /\ wire'[Hi] # wire[Hi] => /\ wire[Hi] # <<>> /\ Head(wire[Hi]) \in Coming(Hi)
                                      /\ IsAnswer(Head(wire[Hi])) => ~AnswerComing'
                                      /\ IsJoin(Head(wire[Hi])) => Blank(Hi)
                                      /\ JoinComing(Hi) => IsJoin(Head(wire[Hi]))
                                      /\ ~JoinComing(Hi)'
           /\ LastLeave => \/ LastLeave'
                           \/ wire'[Hi] = <<>> /\ wire'[Hi] # wire[Hi] /\ IsLeave(Head(wire[Hi]))
           /\ \A j \in DOMAIN wire'[Hi] : IsJoin(wire'[Hi][j]) => j = 1 /\ wire'[Hi] = wire[Hi]
                                                                  /\ Blank(Hi)
<1>1. Hi \in Tabs /\ wire[Hi] \in Seq(AllMessages)
  BY WiresAre DEF Tabs
<1>2. CASE wire'[Hi] = wire[Hi]
  BY <1>2, Zenon DEF Coming, OneInv, HeadInv, LastLeave
<1>3. CASE wire[Hi] # <<>> /\ wire'[Hi] = Tail(wire[Hi])
  <2>1. /\ Coming(Hi)' \subseteq Coming(Hi) /\ Head(wire[Hi]) \in Coming(Hi)
        /\ Head(wire[Hi]) = wire[Hi][1]
        /\ Len(wire[Hi]) \in Nat \ {0} /\ DOMAIN wire[Hi] = 1..Len(wire[Hi])
        /\ DOMAIN wire'[Hi] = 1..(Len(wire[Hi]) - 1)
        /\ \A i \in 1..(Len(wire[Hi]) - 1) :
               i + 1 \in 1..Len(wire[Hi]) /\ wire'[Hi][i] = wire[Hi][i + 1]
    BY <1>1, <1>3, ReadFrom
  <2>2. \A i, j \in DOMAIN wire[Hi] :
            wire[Hi][i].type = "webrtc_answer" /\ wire[Hi][j].type = "webrtc_answer" => i = j
    BY DEF OneInv, IsAnswer
  <2>3. /\ \A i, j \in DOMAIN Tail(wire[Hi]) : Tail(wire[Hi])[i].type = "webrtc_answer"
                                               /\ Tail(wire[Hi])[j].type = "webrtc_answer" => i = j
        /\ Head(wire[Hi]).type = "webrtc_answer" =>
               \A i \in DOMAIN Tail(wire[Hi]) : Tail(wire[Hi])[i].type # "webrtc_answer"
    BY <1>1, <1>3, <2>2, OnceRead
  <2>4. \A i, j \in DOMAIN wire'[Hi] : IsAnswer(wire'[Hi][i]) /\ IsAnswer(wire'[Hi][j]) => i = j
    BY <1>3, <2>3 DEF IsAnswer
  <2>5. IsAnswer(Head(wire[Hi])) => ~AnswerComing'
    BY <1>3, <2>3 DEF IsAnswer, AnswerComing, Coming
  <2>6. \A j \in DOMAIN wire'[Hi] : ~IsJoin(wire'[Hi][j])
    <3>1. \A j \in DOMAIN wire'[Hi] : j + 1 # 1
      BY <2>1
    <3>2. \A j \in DOMAIN wire'[Hi] : j + 1 \in DOMAIN wire[Hi] /\ wire'[Hi][j] = wire[Hi][j + 1]
      BY <2>1
    <3>. QED  BY <3>1, <3>2, Zenon DEF HeadInv
  <2>7. ~JoinComing(Hi)' /\ (IsJoin(Head(wire[Hi])) => Blank(Hi))
    <3>1. ~JoinComing(Hi)'
      BY <2>6 DEF JoinComing, Coming
    <3>2. 1 \in DOMAIN wire[Hi]
      BY <2>1
    <3>. QED  BY <2>1, <3>1, <3>2, Zenon DEF HeadInv
  <2>8. JoinComing(Hi) => IsJoin(Head(wire[Hi]))
    BY <2>1 DEF JoinComing, Coming, HeadInv
  <2>9. LastLeave => \/ LastLeave'
                     \/ wire'[Hi] = <<>> /\ IsLeave(Head(wire[Hi]))
    BY <1>1, <1>3, LastRead DEF LastLeave
  <2>10. wire'[Hi] # wire[Hi]
    BY <1>1, <1>3, TailIsShorter
  <2>. QED  BY <1>3, <2>1, <2>4, <2>5, <2>6, <2>7, <2>8, <2>9, <2>10
<1>. QED  BY <1>2, <1>3

----------------------------------------------------------------------------
(* The steps of an orderly call.                                           *)

\* The connection is as it was, but for what it does to find the other end.
Still(p, q) == \/ p = None /\ q = None
               \/ p # None /\ q # None /\ q.id = p.id /\ SameTalk(p, q)

\* A new connection.
New(q) == /\ q # None /\ q.id = made + 1 /\ q.sig = "stable" /\ q.conn = "new"
          /\ q.offer = 0 /\ q.heard = 0 /\ q.far = 0 /\ q.deal = 0

\* Nobody joins or leaves.
Steady(u) ==
    /\ call'[u] = call[u] /\ joins' = joins
    /\ ~call[u] => queued'[u] = queued[u] \/ queued'[u] = {}

Idle(u) == wire'[u] = wire[u]
Takes(u) == wire[u] # <<>> /\ wire'[u] = Tail(wire[u])
OnlyWaits(ts) == \A t \in ts : t.do = "retry"

HiRests ==
    /\ Steady(Hi) /\ (Idle(Hi) \/ (Takes(Hi) /\ ~IsLeave(Head(wire[Hi]))))
    /\ Elsewhere(Lo, <<>>)
    /\ Still(pc[Hi], pc'[Hi]) /\ tasks'[Hi] \subseteq tasks[Hi]
    /\ pc[Hi] # None =>
           \/ pc'[Hi].conn = pc[Hi].conn
           \/ pc'[Hi].conn = "connected" /\ Linked
           \/ pc'[Hi].conn = "disconnected" /\ pc[Hi].conn = "connected" /\ FarEndGone(Hi)

HiCloses ==
    /\ pc'[Hi] = None /\ tasks'[Hi] \subseteq tasks[Hi] /\ OnlyWaits(tasks'[Hi])
    /\ joins' = joins
    /\ \/ /\ call[Hi] /\ ~call'[Hi] /\ queued'[Hi] = {} /\ Idle(Hi)
          /\ Elsewhere(Lo, <<Msg("voice_leave", 0, 0)>>)
       \/ /\ Steady(Hi) /\ Elsewhere(Lo, <<>>)
          /\ \/ Idle(Hi) /\ pc[Hi] # None /\ pc[Hi].deal # 0
             \/ Takes(Hi) /\ IsLeave(Head(wire[Hi]))

\* Nothing else is under way than what Hi is asked to do.
HiAlone == ~OfferComing /\ ~Working /\ ~AnswerComing

HiAsks ==
    /\ Steady(Hi) /\ joins[Hi] # 0 /\ HiAlone
    /\ Idle(Hi) \/ (Takes(Hi) /\ IsJoin(Head(wire[Hi])))
    /\ call[Hi] /\ Idle(Hi) => joins[Lo] # 0 /\ ~JoinComing(Hi)
    /\ Elsewhere(Lo, <<>>)
    /\ \/ New(pc'[Hi])
       \/ /\ pc[Hi] # None /\ Still(pc[Hi], pc'[Hi])
          /\ pc[Hi].deal = 0 => pc'[Hi].conn = pc[Hi].conn
          /\ pc[Hi].deal # 0 => pc'[Hi].conn = "disconnected" /\ FarEndGone(Hi)
    /\ \A s, t \in tasks'[Hi] : s = t
    /\ \A t \in tasks'[Hi] : t.do = "retry" \/ (t.do = "offer" /\ pc'[Hi].sig = "stable")

HiJoins ==
    /\ ~call[Hi] /\ joins'[Hi] # 0 /\ joins'[Lo] = joins[Lo]
    /\ HiAlone /\ tasks[Hi] = {}
    /\ Idle(Hi) /\ Elsewhere(Lo, <<Msg("voice_join", 0, 0)>>)
    /\ New(pc'[Hi]) \/ (pc[Hi] # None /\ pc'[Hi] = pc[Hi])
    /\ call'[Hi]
    /\ tasks'[Hi] = IF pc'[Hi].sig = "stable" THEN {Task("offer", pc'[Hi].id, 1, 0)} ELSE {}

HiOffers ==
    \E t \in tasks[Hi] :
        /\ t.do = "offer" /\ Steady(Hi) /\ Idle(Hi)
        /\ pc[Hi] # None /\ pc'[Hi] # None /\ pc'[Hi].id = pc[Hi].id
        /\ pc'[Hi].sig = "have-local-offer" /\ pc'[Hi].offer = offers + 1
        /\ pc'[Hi].far = pc[Hi].far /\ pc'[Hi].deal = pc[Hi].deal /\ pc'[Hi].conn = pc[Hi].conn
        /\ tasks'[Hi] = tasks[Hi] \ {t}
        /\ Elsewhere(Lo, <<Msg("webrtc_offer", pc[Hi].id, offers + 1)>> \o CandidateFound(pc[Hi]))

HiHears ==
    /\ Takes(Hi) /\ IsAnswer(Head(wire[Hi])) /\ Steady(Hi) /\ call[Hi]
    /\ pc[Hi] # None /\ pc[Hi].sig = "have-local-offer" /\ pc'[Hi] = pc[Hi]
    /\ \E t : /\ t.do = "accept" /\ t.far = Head(wire[Hi]).pc
              /\ tasks'[Hi] = tasks[Hi] \cup {t}
    /\ Elsewhere(Lo, <<>>)

HiAccepts ==
    \E t \in tasks[Hi] :
        /\ t.do = "accept" /\ Steady(Hi) /\ Idle(Hi)
        /\ pc[Hi] # None /\ pc[Hi].sig = "have-local-offer"
        /\ pc'[Hi] # None /\ pc'[Hi].id = pc[Hi].id /\ pc'[Hi].sig = "stable"
        /\ pc'[Hi].offer = pc[Hi].offer /\ pc'[Hi].far = t.far
        /\ pc'[Hi].deal = pc[Hi].offer /\ pc'[Hi].conn = pc[Hi].conn
        /\ tasks'[Hi] = tasks[Hi] \ {t}
        /\ Elsewhere(Lo, <<>>)

LoRests ==
    /\ Steady(Lo) /\ (Idle(Lo) \/ Takes(Lo)) /\ Elsewhere(Hi, <<>>)
    /\ Still(pc[Lo], pc'[Lo]) /\ tasks'[Lo] \subseteq tasks[Lo]
    /\ OnlyWaits(tasks[Lo] \ tasks'[Lo])

LoRenews ==
    /\ Steady(Lo) /\ joins[Lo] # 0 /\ (Idle(Lo) \/ Takes(Lo)) /\ Elsewhere(Hi, <<>>)
    /\ New(pc'[Lo]) /\ OnlyWaits(tasks'[Lo])

LoCloses ==
    /\ pc'[Lo] = None /\ tasks'[Lo] \subseteq tasks[Lo] /\ OnlyWaits(tasks'[Lo])
    /\ joins' = joins
    /\ \/ /\ call[Lo] /\ ~call'[Lo] /\ queued'[Lo] = {} /\ Idle(Lo)
          /\ Elsewhere(Hi, <<Msg("voice_leave", 0, 0)>>)
       \/ Steady(Lo) /\ (Idle(Lo) \/ Takes(Lo)) /\ Elsewhere(Hi, <<>>)

LoJoins ==
    /\ ~call[Lo] /\ call'[Lo] /\ joins'[Lo] # 0 /\ joins'[Hi] = joins[Hi]
    /\ wire[Hi] = <<>> /\ Blank(Hi) /\ (call[Hi] /\ Pending => Meets)
    /\ Idle(Lo) /\ Elsewhere(Hi, <<Msg("voice_join", 0, 0)>>)
    /\ \/ New(pc'[Lo]) /\ OnlyWaits(tasks'[Lo])
       \/ pc'[Lo] = pc[Lo] /\ tasks'[Lo] = tasks[Lo]

LoHears ==
    LET m == Head(wire[Lo])
    IN  /\ Takes(Lo) /\ IsOffer(m) /\ Steady(Lo) /\ call[Lo]
        /\ \/ New(pc'[Lo])
           \/ pc[Lo] # None /\ pc[Lo].sig = "stable" /\ pc'[Lo] = pc[Lo]
        /\ \E t : /\ t.do = "remote" /\ t.n = m.n /\ t.far = m.pc
                  /\ tasks'[Lo] = tasks[Lo] \cup {t}
        /\ Elsewhere(Hi, <<>>)

LoSets ==
    \E t \in tasks[Lo] :
        /\ t.do = "remote" /\ Steady(Lo) /\ Idle(Lo) /\ Elsewhere(Hi, <<>>)
        /\ pc[Lo] # None /\ pc'[Lo] # None /\ pc'[Lo].id = pc[Lo].id
        /\ pc'[Lo].sig = "have-remote-offer" /\ pc'[Lo].far = t.far /\ pc'[Lo].heard = t.n
        /\ \E s : /\ s.do = "answer" /\ s.n = t.n /\ s.far = t.far
                  /\ tasks'[Lo] = (tasks[Lo] \ {t}) \cup {s}

LoAnswers ==
    \E t \in tasks[Lo] :
        /\ t.do = "answer" /\ Steady(Lo) /\ Idle(Lo)
        /\ pc[Lo] # None /\ pc'[Lo] # None /\ pc'[Lo].id = pc[Lo].id
        /\ pc'[Lo].sig = "stable" /\ pc'[Lo].far = pc[Lo].far
        /\ pc'[Lo].heard = pc[Lo].heard /\ pc'[Lo].deal = pc[Lo].heard
        /\ tasks'[Lo] = tasks[Lo] \ {t}
        /\ Elsewhere(Hi, <<Msg("webrtc_answer", pc[Lo].id, pc[Lo].heard)>>
                             \o CandidateFound(pc[Lo]))

\* What a step of Hi leaves as it was.
LEMMA LoUntouched ==
    ASSUME TypeOK, Elsewhere(Lo, <<>>)
    PROVE  /\ pc'[Lo] = pc[Lo] /\ tasks'[Lo] = tasks[Lo] /\ queued'[Lo] = queued[Lo]
           /\ call'[Lo] = call[Lo] /\ wire'[Lo] = wire[Lo] /\ Coming(Lo)' = Coming(Lo)
           /\ (OfferComing' <=> OfferComing) /\ (Working' <=> Working) /\ (Blank(Lo)' <=> Blank(Lo))
<1>1. /\ pc'[Lo] = pc[Lo] /\ tasks'[Lo] = tasks[Lo] /\ queued'[Lo] = queued[Lo]
      /\ call'[Lo] = call[Lo] /\ wire'[Lo] = wire[Lo]
  BY NothingSent DEF Elsewhere, Tabs
<1>. QED  BY <1>1 DEF Coming, OfferComing, Working, Blank

LEMMA HiUntouched ==
    ASSUME TypeOK, Elsewhere(Hi, <<>>)
    PROVE  /\ pc'[Hi] = pc[Hi] /\ tasks'[Hi] = tasks[Hi] /\ queued'[Hi] = queued[Hi]
           /\ call'[Hi] = call[Hi] /\ wire'[Hi] = wire[Hi] /\ Coming(Hi)' = Coming(Hi)
           /\ (AnswerComing' <=> AnswerComing) /\ (JoinComing(Hi)' <=> JoinComing(Hi))
           /\ (Blank(Hi)' <=> Blank(Hi))
<1>1. /\ pc'[Hi] = pc[Hi] /\ tasks'[Hi] = tasks[Hi] /\ queued'[Hi] = queued[Hi]
      /\ call'[Hi] = call[Hi] /\ wire'[Hi] = wire[Hi]
  BY NothingSent DEF Elsewhere, Tabs
<1>. QED  BY <1>1 DEF Coming, AnswerComing, JoinComing, Blank

LEMMA HiRestsInOrder ==
    ASSUME TypeOK, InOrder, HiRests
    PROVE  InOrder'
<1>1. /\ pc'[Lo] = pc[Lo] /\ tasks'[Lo] = tasks[Lo] /\ queued'[Lo] = queued[Lo]
      /\ call'[Lo] = call[Lo] /\ wire'[Lo] = wire[Lo] /\ Coming(Lo)' = Coming(Lo)
      /\ (OfferComing' <=> OfferComing) /\ (Working' <=> Working) /\ (Blank(Lo)' <=> Blank(Lo))
      /\ Hi # Lo /\ joins' = joins /\ call'[Hi] = call[Hi]
  BY LoUntouched, TabAssumption DEF HiRests, Steady
<1>2. /\ Coming(Hi)' \subseteq Coming(Hi)
      /\ \A i, j \in DOMAIN wire'[Hi] : IsAnswer(wire'[Hi][i]) /\ IsAnswer(wire'[Hi][j]) => i = j
      /\ wire[Hi] = <<>> => wire'[Hi] = <<>>
      /\ LastLeave => LastLeave'
      /\ \A j \in DOMAIN wire'[Hi] : IsJoin(wire'[Hi][j]) => j = 1 /\ Blank(Hi)
  <2>1. /\ wire'[Hi] = wire[Hi] \/ (wire[Hi] # <<>> /\ wire'[Hi] = Tail(wire[Hi]))
        /\ wire'[Hi] # wire[Hi] => ~IsLeave(Head(wire[Hi]))
    BY DEF HiRests, Idle, Takes
  <2>. QED  BY <2>1, HiReads DEF InOrder
<1>3. /\ AnswerComing' => AnswerComing
      /\ JoinComing(Hi)' => JoinComing(Hi)
      /\ Pending' => Pending
  <2>1. (AnswerComing' => AnswerComing) /\ (JoinComing(Hi)' => JoinComing(Hi))
    BY <1>2 DEF AnswerComing, JoinComing
  <2>. QED  BY <1>1, <2>1 DEF Pending, HiRests
<1>4. /\ pc'[Hi] = None <=> pc[Hi] = None
      /\ pc[Hi] # None => /\ pc'[Hi].id = pc[Hi].id /\ pc'[Hi].sig = pc[Hi].sig
                          /\ pc'[Hi].offer = pc[Hi].offer /\ pc'[Hi].far = pc[Hi].far
                          /\ pc'[Hi].deal = pc[Hi].deal
      /\ tasks'[Hi] \subseteq tasks[Hi]
  BY DEF HiRests, Still, SameTalk
<1>5. Blank(Hi) => Blank(Hi)'
  BY <1>4 DEF Blank
<1>6. pc[Hi] # None => /\ pc'[Hi].conn # "new" => pc[Hi].deal # 0
                       /\ pc[Hi].conn = "disconnected" /\ FarEndGone(Hi)
                              => pc'[Hi].conn = "disconnected"
                       /\ FarEndGone(Hi)' <=> FarEndGone(Hi)
  <2>1. Other(Hi) = Lo
    BY DEF Other
  <2>2. pc[Hi] # None => (FarEndGone(Hi)' <=> FarEndGone(Hi))
    BY <1>1, <1>4, <2>1 DEF FarEndGone
  <2>3. ASSUME pc[Hi] # None, Linked PROVE pc[Hi].deal # 0 /\ ~FarEndGone(Hi)
    BY <2>1, <2>3 DEF Linked, FarEndGone, Tabs
  <2>4. pc[Hi] # None => (pc[Hi].conn # "new" => pc[Hi].deal # 0)
    BY DEF InOrder, CastInv
  <2>. QED  BY <2>2, <2>3, <2>4 DEF HiRests
<1>7. CastInv'
  BY <1>1, <1>2, <1>4, <1>6 DEF InOrder, CastInv
<1>8. OneInv'
  BY <1>1, <1>2, <1>3, <1>4 DEF InOrder, OneInv
<1>9. FirstInv'
  BY <1>1, <1>2, <1>3, <1>4, <1>5 DEF InOrder, FirstInv, Newcomer
<1>10. OutInv'
  BY <1>1, <1>2, <1>5 DEF InOrder, OutInv, OutOfCall, HiRests, Steady
<1>11. HeadInv'
  BY <1>2, <1>5 DEF HeadInv
<1>12. MeetInv'
  <2>1. ASSUME tasks'[Hi] # tasks[Hi], Pending' PROVE tasks'[Hi] = tasks[Hi]
    BY <1>1, <1>3, <1>4, <2>1 DEF InOrder, OneInv, Pending
  <2>. QED  BY <1>1, <1>3, <1>4, <2>1 DEF InOrder, MeetInv, Meets
<1>13. DoneInv'
  BY <1>1, <1>3, <1>4, <1>6 DEF InOrder, DoneInv
<1>14. PassInv'
  BY <1>1, <1>4 DEF InOrder, PassInv
<1>15. HeardInv'
  <2>1. ASSUME pc[Hi] # None, NEW l, Answered(l) PROVE Answered(l)'
    BY <1>1, <1>4, <2>1 DEF Answered
  <2>. QED  BY <1>2, <1>4, <2>1 DEF InOrder, HeardInv
<1>. QED  BY <1>7, <1>8, <1>9, <1>10, <1>11, <1>12, <1>13, <1>14, <1>15 DEF InOrder

\* Lo is sent something else than an offer.
LEMMA LoTold ==
    ASSUME TypeOK, OneInv, NEW m \in AllMessages, ~IsOffer(m), wire'[Lo] = wire[Lo] \o <<m>>
    PROVE  /\ Coming(Lo)' = Coming(Lo) \cup {m} /\ (OfferComing' <=> OfferComing)
           /\ \A i, j \in DOMAIN wire'[Lo] : IsOffer(wire'[Lo][i]) /\ IsOffer(wire'[Lo][j]) => i = j
           /\ \A x \in Coming(Lo)' : IsOffer(x) => x \in Coming(Lo)
<1>1. <<m>> \in Seq(AllMessages) /\ DOMAIN <<m>> = {1} /\ <<m>>[1] = m /\ Lo \in Tabs
  BY DEF Tabs
<1>2. PICK ms : ms = <<m>>
  OBVIOUS
<1>3. /\ Joined(wire[Lo], ms, wire'[Lo])
      /\ Coming(Lo)' = Coming(Lo) \cup {ms[i] : i \in DOMAIN ms}
  <2>1. ms \in Seq(AllMessages) /\ wire'[Lo] = wire[Lo] \o ms
    BY <1>1, <1>2
  <2>. QED  BY <1>1, <2>1, SentTo
<1>4. {ms[i] : i \in DOMAIN ms} = {m}
  BY <1>1, <1>2
<1>5. \A i \in DOMAIN wire'[Lo] : IsOffer(wire'[Lo][i])
          => i \in DOMAIN wire[Lo] /\ wire'[Lo][i] = wire[Lo][i]
  BY <1>1, <1>2, <1>3 DEF Joined
<1>6. \A i, j \in DOMAIN wire'[Lo] : IsOffer(wire'[Lo][i]) /\ IsOffer(wire'[Lo][j]) => i = j
  BY <1>5, Zenon DEF OneInv
<1>7. Coming(Lo)' = Coming(Lo) \cup {m}
  BY <1>3, <1>4
<1>. QED  BY <1>6, <1>7 DEF OfferComing

\* Hi is sent something else than an answer.
LEMMA HiTold ==
    ASSUME TypeOK, OneInv, NEW m \in AllMessages, ~IsAnswer(m), wire'[Hi] = wire[Hi] \o <<m>>
    PROVE  /\ Coming(Hi)' = Coming(Hi) \cup {m} /\ (AnswerComing' <=> AnswerComing)
           /\ \A i, j \in DOMAIN wire'[Hi] :
                  IsAnswer(wire'[Hi][i]) /\ IsAnswer(wire'[Hi][j]) => i = j
           /\ wire'[Hi] # <<>> /\ wire'[Hi][Len(wire'[Hi])] = m
           /\ \A i \in DOMAIN wire'[Hi] :
                  \/ i \in DOMAIN wire[Hi] /\ wire'[Hi][i] = wire[Hi][i]
                  \/ wire'[Hi][i] = m /\ (wire[Hi] = <<>> => i = 1)
           /\ \A x \in Coming(Hi)' : IsAnswer(x) => x \in Coming(Hi)
<1>1. <<m>> \in Seq(AllMessages) /\ DOMAIN <<m>> = {1} /\ <<m>>[1] = m /\ Hi \in Tabs
      /\ Len(<<m>>) = 1
  BY DEF Tabs
<1>2. PICK ms : ms = <<m>>
  OBVIOUS
<1>3. /\ Joined(wire[Hi], ms, wire'[Hi])
      /\ Coming(Hi)' = Coming(Hi) \cup {ms[i] : i \in DOMAIN ms}
  <2>1. ms \in Seq(AllMessages) /\ wire'[Hi] = wire[Hi] \o ms
    BY <1>1, <1>2
  <2>. QED  BY <1>1, <2>1, SentTo
<1>4. {ms[i] : i \in DOMAIN ms} = {m}
  BY <1>1, <1>2
<1>5. \A i \in DOMAIN wire'[Hi] :
          \/ i \in DOMAIN wire[Hi] /\ wire'[Hi][i] = wire[Hi][i]
          \/ i - Len(wire[Hi]) = 1 /\ wire'[Hi][i] = m
  BY <1>1, <1>2, <1>3 DEF Joined
<1>6. \A i \in DOMAIN wire'[Hi] :
          \/ i \in DOMAIN wire[Hi] /\ wire'[Hi][i] = wire[Hi][i]
          \/ wire'[Hi][i] = m /\ (wire[Hi] = <<>> => i = 1)
  <2>1. wire[Hi] = <<>> => Len(wire[Hi]) = 0
    OBVIOUS
  <2>2. \A i \in DOMAIN wire'[Hi] : i \in Nat
    BY <1>3 DEF Joined
  <2>3. \A i \in DOMAIN wire'[Hi] : i - Len(wire[Hi]) = 1 /\ wire[Hi] = <<>> => i = 1
    BY <2>1, <2>2
  <2>. QED  BY <1>5, <2>3, Zenon
<1>7. \A i, j \in DOMAIN wire'[Hi] : IsAnswer(wire'[Hi][i]) /\ IsAnswer(wire'[Hi][j]) => i = j
  BY <1>6, Zenon DEF OneInv
<1>8. Coming(Hi)' = Coming(Hi) \cup {m}
  BY <1>3, <1>4
<1>9. wire'[Hi] # <<>> /\ wire'[Hi][Len(wire'[Hi])] = m
  <2>1. PICK s : s = wire[Hi]
    OBVIOUS
  <2>2. s \in Seq(AllMessages) /\ wire'[Hi] = Append(s, m)
    BY <1>1, <2>1, WiresAre
  <2>. QED  BY <2>2
<1>. QED  BY <1>6, <1>7, <1>8, <1>9 DEF AnswerComing

LEMMA Tidings ==
    /\ Msg("voice_join", 0, 0) \in AllMessages /\ Msg("voice_leave", 0, 0) \in AllMessages
    /\ IsJoin(Msg("voice_join", 0, 0)) /\ IsLeave(Msg("voice_leave", 0, 0))
    /\ ~IsOffer(Msg("voice_join", 0, 0)) /\ ~IsAnswer(Msg("voice_join", 0, 0))
    /\ ~IsOffer(Msg("voice_leave", 0, 0)) /\ ~IsAnswer(Msg("voice_leave", 0, 0))
    /\ Msg("voice_join", 0, 0).type = "voice_join"
    /\ Msg("voice_leave", 0, 0).type = "voice_leave"
BY DEF Msg, AllMessages, MessageTypes, IsJoin, IsLeave, IsOffer, IsAnswer

LEMMA HiClosesInOrder ==
    ASSUME TypeOK, InOrder, HiCloses
    PROVE  InOrder'
<1>1. /\ pc'[Lo] = pc[Lo] /\ tasks'[Lo] = tasks[Lo] /\ queued'[Lo] = queued[Lo]
      /\ call'[Lo] = call[Lo] /\ Hi # Lo /\ joins' = joins /\ pc'[Hi] = None
      /\ tasks'[Hi] \subseteq tasks[Hi] /\ OnlyWaits(tasks'[Hi])
  BY TabAssumption DEF HiCloses, Elsewhere
<1>2. /\ \A m \in Coming(Lo)' : m \in Coming(Lo) \/ m.type = "voice_leave"
      /\ \A i, j \in DOMAIN wire'[Lo] : IsOffer(wire'[Lo][i]) /\ IsOffer(wire'[Lo][j]) => i = j
      /\ (OfferComing' <=> OfferComing)
      /\ wire'[Lo] = wire[Lo] \/ call[Hi]
  <2>1. CASE Elsewhere(Lo, <<>>)
    BY <2>1, LoUntouched DEF InOrder, OneInv
  <2>2. CASE Elsewhere(Lo, <<Msg("voice_leave", 0, 0)>>) /\ call[Hi]
    <3>1. wire'[Lo] = wire[Lo] \o <<Msg("voice_leave", 0, 0)>>
      BY <2>2 DEF Elsewhere
    <3>2. /\ Coming(Lo)' = Coming(Lo) \cup {Msg("voice_leave", 0, 0)}
          /\ (OfferComing' <=> OfferComing)
          /\ \A i, j \in DOMAIN wire'[Lo] :
                 IsOffer(wire'[Lo][i]) /\ IsOffer(wire'[Lo][j]) => i = j
      BY <3>1, Tidings, LoTold DEF InOrder
    <3>. QED  BY <2>2, <3>2, Tidings
  <2>. QED  BY <2>1, <2>2 DEF HiCloses
<1>3. /\ Coming(Hi)' \subseteq Coming(Hi)
      /\ \A i, j \in DOMAIN wire'[Hi] : IsAnswer(wire'[Hi][i]) /\ IsAnswer(wire'[Hi][j]) => i = j
      /\ wire[Hi] = <<>> => wire'[Hi] = <<>>
      /\ LastLeave => LastLeave' \/ wire'[Hi] = <<>>
      /\ \A j \in DOMAIN wire'[Hi] : IsJoin(wire'[Hi][j]) => j = 1
      /\ Takes(Hi) => ~JoinComing(Hi)' /\ wire[Hi] # <<>>
      /\ Idle(Hi) => (JoinComing(Hi)' <=> JoinComing(Hi))
  <2>1. wire'[Hi] = wire[Hi] \/ (wire[Hi] # <<>> /\ wire'[Hi] = Tail(wire[Hi]))
    BY DEF HiCloses, Idle, Takes
  <2>2. Takes(Hi) => wire'[Hi] # wire[Hi]
    BY WiresAre, TailIsShorter DEF Takes, Tabs
  <2>3. Idle(Hi) => (JoinComing(Hi)' <=> JoinComing(Hi))
    BY DEF Idle, JoinComing, Coming
  <2>. QED  BY <2>1, <2>2, <2>3, HiReads DEF InOrder
<1>4. /\ AnswerComing' => AnswerComing
      /\ (Working' <=> Working) /\ (Blank(Lo)' <=> Blank(Lo))
      /\ Blank(Hi)'
  <2>1. AnswerComing' => AnswerComing
    BY <1>3 DEF AnswerComing
  <2>2. (Working' <=> Working) /\ (Blank(Lo)' <=> Blank(Lo))
    BY <1>1 DEF Working, Blank
  <2>3. Blank(Hi)'
    BY <1>1 DEF Blank, OnlyWaits
  <2>. QED  BY <2>1, <2>2, <2>3
<1>7. CastInv'
  BY <1>1, <1>2, <1>3 DEF InOrder, CastInv
<1>8. OneInv'
  BY <1>1, <1>2, <1>3, <1>4 DEF InOrder, OneInv
<1>9. FirstInv'
  <2>1. joins[Hi] = 0 => ~call[Hi] /\ ~call'[Hi]
    BY DEF InOrder, FirstInv, Newcomer, HiCloses, Steady
  <2>. QED  BY <1>1, <1>2, <1>3, <1>4, <2>1 DEF InOrder, FirstInv, Newcomer
<1>10. OutInv'
  <2>1. ~call'[Hi] => queued'[Hi] = {}
    BY DEF InOrder, OutInv, OutOfCall, HiCloses, Steady
  <2>. QED  BY <1>1, <1>3, <1>4, <2>1 DEF InOrder, OutInv, OutOfCall
<1>11. HeadInv'
  BY <1>3, <1>4 DEF HeadInv
<1>12. MeetInv'
  <2>1. SUFFICES ASSUME call'[Hi], joins[Lo] = 0 \/ JoinComing(Hi)' PROVE FALSE
    BY <1>1 DEF MeetInv, Meets
  <2>2. CASE Idle(Hi) /\ pc[Hi] # None /\ pc[Hi].deal # 0
    <3>1. joins[Lo] = 0 \/ JoinComing(Hi)
      BY <1>3, <2>1, <2>2
    <3>2. Blank(Hi)
      BY <3>1 DEF InOrder, FirstInv, Newcomer, HeadInv, JoinComing, Coming
    <3>. QED  BY <2>2, <3>2 DEF Blank
  <2>3. CASE Takes(Hi)
    BY <1>3, <2>1, <2>3 DEF InOrder, FirstInv, Newcomer
  <2>. QED  BY <2>1, <2>2, <2>3 DEF HiCloses
<1>13. DoneInv'
  BY <1>1, <1>4 DEF InOrder, DoneInv
<1>14. PassInv'
  BY <1>1 DEF InOrder, PassInv
<1>15. HeardInv'
  BY <1>1 DEF HeardInv
<1>. QED  BY <1>7, <1>8, <1>9, <1>10, <1>11, <1>12, <1>13, <1>14, <1>15 DEF InOrder

LEMMA HiAsksInOrder ==
    ASSUME TypeOK, InOrder, HiAsks
    PROVE  InOrder'
<1>1. /\ pc'[Lo] = pc[Lo] /\ tasks'[Lo] = tasks[Lo] /\ queued'[Lo] = queued[Lo]
      /\ call'[Lo] = call[Lo] /\ wire'[Lo] = wire[Lo] /\ Coming(Lo)' = Coming(Lo)
      /\ (OfferComing' <=> OfferComing) /\ (Working' <=> Working) /\ (Blank(Lo)' <=> Blank(Lo))
      /\ Hi # Lo /\ joins' = joins /\ call'[Hi] = call[Hi] /\ joins[Hi] # 0 /\ HiAlone
  BY LoUntouched, TabAssumption DEF HiAsks, Steady
<1>2. /\ Coming(Hi)' \subseteq Coming(Hi)
      /\ \A i, j \in DOMAIN wire'[Hi] : IsAnswer(wire'[Hi][i]) /\ IsAnswer(wire'[Hi][j]) => i = j
      /\ wire[Hi] = <<>> => wire'[Hi] = <<>>
      /\ LastLeave => LastLeave'
      /\ \A j \in DOMAIN wire'[Hi] : IsJoin(wire'[Hi][j]) => j = 1 /\ Blank(Hi)
      /\ call[Hi] => joins[Lo] # 0 /\ ~JoinComing(Hi)'
  <2>1. /\ wire'[Hi] = wire[Hi] \/ (wire[Hi] # <<>> /\ wire'[Hi] = Tail(wire[Hi]))
        /\ wire'[Hi] # wire[Hi] => ~IsLeave(Head(wire[Hi]))
    BY DEF HiAsks, Idle, Takes, IsLeave, IsJoin
  <2>2. CASE Idle(Hi)
    <3>1. JoinComing(Hi)' <=> JoinComing(Hi)
      BY <2>2 DEF Idle, JoinComing, Coming
    <3>. QED  BY <2>1, <2>2, <3>1, HiReads DEF InOrder, HiAsks
  <2>3. CASE Takes(Hi)
    <3>1. wire'[Hi] # wire[Hi] /\ wire[Hi] # <<>>
      BY <2>3, WiresAre, TailIsShorter DEF Takes, Tabs
    <3>. QED  BY <2>1, <3>1, HiReads DEF InOrder, FirstInv, Newcomer
  <2>. QED  BY <2>2, <2>3 DEF HiAsks
<1>3. ~AnswerComing' /\ ~OfferComing' /\ ~Working'
  BY <1>1, <1>2 DEF HiAlone, AnswerComing
<1>4. /\ pc'[Hi] # None
      /\ \/ New(pc'[Hi])
         \/ /\ pc[Hi] # None /\ pc'[Hi].id = pc[Hi].id /\ pc'[Hi].sig = pc[Hi].sig
            /\ pc'[Hi].offer = pc[Hi].offer /\ pc'[Hi].far = pc[Hi].far
            /\ pc'[Hi].deal = pc[Hi].deal
            /\ pc[Hi].deal = 0 => pc'[Hi].conn = pc[Hi].conn
            /\ pc[Hi].deal # 0 => pc'[Hi].conn = "disconnected" /\ FarEndGone(Hi)
      /\ \A s, t \in tasks'[Hi] : s = t
      /\ \A t \in tasks'[Hi] : t.do = "retry" \/ (t.do = "offer" /\ pc'[Hi].sig = "stable")
  BY DEF HiAsks, Still, SameTalk, New
<1>5. Blank(Hi) => Blank(Hi)'
  BY <1>4 DEF Blank, New
<1>6. pc'[Hi].deal # 0 => pc'[Hi].conn = "disconnected" /\ FarEndGone(Hi)'
  <2>1. Other(Hi) = Lo
    BY DEF Other
  <2>. QED  BY <1>1, <1>4, <2>1 DEF FarEndGone, New
<1>7. CastInv'
  BY <1>1, <1>2, <1>4 DEF InOrder, CastInv, New
<1>8. OneInv'
  BY <1>1, <1>2, <1>3, <1>4 DEF InOrder, OneInv
<1>9. FirstInv'
  BY <1>1, <1>2, <1>3, <1>4, <1>5 DEF InOrder, FirstInv, Newcomer
<1>10. OutInv'
  BY <1>1, <1>2, <1>5 DEF InOrder, OutInv, OutOfCall, HiAsks, Steady
<1>11. HeadInv'
  BY <1>2, <1>5 DEF HeadInv
<1>12. MeetInv'
  BY <1>1, <1>2 DEF MeetInv, Meets
<1>13. DoneInv'
  BY <1>1, <1>3, <1>4, <1>6 DEF InOrder, DoneInv, New
<1>14. PassInv'
  BY <1>1, <1>3 DEF InOrder, PassInv, OfferComing, Working
<1>15. HeardInv'
  <2>1. ASSUME pc'[Hi].deal # 0, Answered(pc[Hi].far) PROVE Answered(pc[Hi].far)'
    <3>. PICK l : l = pc[Hi].far
      OBVIOUS
    <3>1. pc'[Hi].far = l /\ Answered(l)
      BY <1>4, <2>1 DEF New
    <3>2. Answered(l)'
      BY <1>1, <1>4, <2>1, <3>1 DEF Answered, New
    <3>. QED  BY <3>1, <3>2
  <2>. QED  BY <1>3, <1>4, <2>1 DEF InOrder, HeardInv, New, AnswerComing
<1>. QED  BY <1>7, <1>8, <1>9, <1>10, <1>11, <1>12, <1>13, <1>14, <1>15 DEF InOrder

LEMMA HiJoinsInOrder ==
    ASSUME TypeOK, InOrder, HiJoins
    PROVE  InOrder'
<1>1. /\ pc'[Lo] = pc[Lo] /\ tasks'[Lo] = tasks[Lo] /\ queued'[Lo] = queued[Lo]
      /\ call'[Lo] = call[Lo] /\ Hi # Lo
      /\ joins'[Hi] # 0 /\ joins'[Lo] = joins[Lo] /\ HiAlone
      /\ wire'[Hi] = wire[Hi] /\ Coming(Hi)' = Coming(Hi)
      /\ (Working' <=> Working) /\ (Blank(Lo)' <=> Blank(Lo))
  BY TabAssumption DEF HiJoins, Elsewhere, Idle, Coming, Working, Blank
<1>2. /\ \A m \in Coming(Lo)' : m \in Coming(Lo) \/ m.type = "voice_join"
      /\ \A i, j \in DOMAIN wire'[Lo] : IsOffer(wire'[Lo][i]) /\ IsOffer(wire'[Lo][j]) => i = j
      /\ (OfferComing' <=> OfferComing)
  <2>1. wire'[Lo] = wire[Lo] \o <<Msg("voice_join", 0, 0)>>
    BY DEF HiJoins, Elsewhere
  <2>2. /\ Coming(Lo)' = Coming(Lo) \cup {Msg("voice_join", 0, 0)}
        /\ (OfferComing' <=> OfferComing)
        /\ \A i, j \in DOMAIN wire'[Lo] :
               IsOffer(wire'[Lo][i]) /\ IsOffer(wire'[Lo][j]) => i = j
    BY <2>1, Tidings, LoTold DEF InOrder
  <2>. QED  BY <2>2, Tidings
<1>3. ~AnswerComing' /\ ~OfferComing' /\ ~Working'
  BY <1>1, <1>2 DEF HiAlone, AnswerComing
<1>4. /\ pc'[Hi] # None /\ pc'[Hi].deal = 0 /\ pc'[Hi].far = 0
      /\ pc'[Hi].sig \in {"stable", "have-local-offer"} /\ pc'[Hi].conn = "new"
      /\ pc'[Hi].sig = "have-local-offer" => pc'[Hi].offer # 0
      /\ pc'[Hi].sig = "stable" => pc'[Hi].offer = 0
  <2>1. CASE New(pc'[Hi])
    BY <2>1 DEF New
  <2>2. CASE pc[Hi] # None /\ pc'[Hi] = pc[Hi]
    <3>1. Blank(Hi)
      BY DEF InOrder, OutInv, OutOfCall, HiJoins
    <3>. QED  BY <2>2, <3>1 DEF Blank, InOrder, CastInv, DoneInv
  <2>. QED  BY <2>1, <2>2 DEF HiJoins
<1>5. /\ tasks'[Hi] = IF pc'[Hi].sig = "stable" THEN {Task("offer", pc'[Hi].id, 1, 0)} ELSE {}
      /\ \A t \in tasks'[Hi] : t.do = "offer" /\ pc'[Hi].sig = "stable"
      /\ \A s, t \in tasks'[Hi] : s = t
  BY DEF HiJoins, Task
<1>6. Blank(Hi)'
  BY <1>4, <1>5 DEF Blank
<1>7. CastInv'
  BY <1>1, <1>2, <1>4, <1>5 DEF InOrder, CastInv
<1>8. OneInv'
  BY <1>1, <1>2, <1>3, <1>5 DEF InOrder, OneInv
<1>9. FirstInv'
  BY <1>1, <1>6 DEF InOrder, FirstInv, Newcomer
<1>10. OutInv'
  <2>1. call'[Hi]
    BY DEF HiJoins
  <2>2. OutOfCall(Lo)'
    BY <1>1 DEF InOrder, OutInv, OutOfCall
  <2>. QED  BY <1>1, <1>6, <2>1, <2>2 DEF InOrder, OutInv, OutOfCall, LastLeave
<1>11. HeadInv'
  BY <1>1, <1>6 DEF InOrder, HeadInv
<1>12. MeetInv'
  BY <1>4, <1>5 DEF MeetInv, Meets
<1>13. DoneInv'
  BY <1>1, <1>4 DEF InOrder, DoneInv
<1>14. PassInv'
  BY <1>1, <1>3 DEF InOrder, PassInv, OfferComing, Working
<1>15. HeardInv'
  BY <1>3, <1>4, <1>5 DEF HeardInv, AnswerComing
<1>. QED  BY <1>7, <1>8, <1>9, <1>10, <1>11, <1>12, <1>13, <1>14, <1>15 DEF InOrder

\* A description is sent, with the candidate that is found or without.
LEMMA Described ==
    ASSUME TypeOK, NEW u \in Tabs, pc[u] # None, NEW v \in Tabs, NEW m \in AllMessages,
           wire'[v] = wire[v] \o (<<m>> \o CandidateFound(pc[u]))
    PROVE  /\ \A x \in Coming(v)' : x \in Coming(v) \/ x = m \/ x.type = "webrtc_ice_candidate"
           /\ m \in Coming(v)' /\ Coming(v) \subseteq Coming(v)'
           /\ wire'[v] # <<>>
           /\ \A i \in DOMAIN wire'[v] :
                  \/ i \in DOMAIN wire[v] /\ wire'[v][i] = wire[v][i]
                  \/ i = Len(wire[v]) + 1 /\ wire'[v][i] = m
                  \/ wire'[v][i].type = "webrtc_ice_candidate"
<1>1. PICK c : c = Msg("webrtc_ice_candidate", pc[u].id, 0)
  OBVIOUS
<1>2. c \in AllMessages /\ c.type = "webrtc_ice_candidate"
  BY <1>1, PeerIs DEF Peers, Msg, AllMessages, MessageTypes
<1>3. CandidateFound(pc[u]) \in {<<>>, <<c>>}
  BY <1>1 DEF CandidateFound
<1>4. PICK ms : ms = <<m>> \o CandidateFound(pc[u])
  OBVIOUS
<1>5. /\ ms \in Seq(AllMessages) /\ 1 \in DOMAIN ms /\ ms[1] = m
      /\ \A i \in DOMAIN ms : i = 1 \/ ms[i] = c
  <2>1. CASE CandidateFound(pc[u]) = <<>>
    <3>1. ms = <<m>>
      BY <1>4, <2>1
    <3>. QED  BY <3>1
  <2>2. CASE CandidateFound(pc[u]) = <<c>>
    <3>1. ms = <<m>> \o <<c>>
      BY <1>4, <2>2
    <3>2. ms \in Seq(AllMessages) /\ DOMAIN ms = {1, 2} /\ ms[1] = m /\ ms[2] = c
      BY <1>2, <3>1
    <3>. QED  BY <3>2
  <2>. QED  BY <1>3, <2>1, <2>2
<1>6. wire'[v] = wire[v] \o ms
  BY <1>4
<1>7. Joined(wire[v], ms, wire'[v]) /\ Coming(v)' = Coming(v) \cup {ms[i] : i \in DOMAIN ms}
  BY <1>5, <1>6, SentTo
<1>8. \A i \in DOMAIN wire'[v] :
          \/ i \in DOMAIN wire[v] /\ wire'[v][i] = wire[v][i]
          \/ i = Len(wire[v]) + 1 /\ wire'[v][i] = m
          \/ wire'[v][i].type = "webrtc_ice_candidate"
  <2>. SUFFICES ASSUME NEW i \in DOMAIN wire'[v], i \notin DOMAIN wire[v]
                PROVE  \/ i = Len(wire[v]) + 1 /\ wire'[v][i] = m
                       \/ wire'[v][i].type = "webrtc_ice_candidate"
    BY <1>7 DEF Joined
  <2>1. /\ Len(wire[v]) \in Nat /\ i \in Nat
        /\ i - Len(wire[v]) \in DOMAIN ms /\ wire'[v][i] = ms[i - Len(wire[v])]
    <3>1. /\ Len(wire[v]) \in Nat /\ Len(ms) \in Nat
          /\ DOMAIN wire'[v] = 1..(Len(wire[v]) + Len(ms))
      BY <1>7, Zenon DEF Joined
    <3>2. i - Len(wire[v]) \in DOMAIN ms /\ wire'[v][i] = ms[i - Len(wire[v])]
      <4>1. \A j \in DOMAIN wire'[v] :
                j \in DOMAIN wire[v] \/ (/\ j - Len(wire[v]) \in DOMAIN ms
                                        /\ wire'[v][j] = ms[j - Len(wire[v])])
        BY <1>7, Zenon DEF Joined
      <4>. QED  BY <4>1
    <3>3. i \in 1..(Len(wire[v]) + Len(ms))
      BY <3>1
    <3>4. i \in Nat
      BY <3>1, <3>3
    <3>. QED  BY <3>1, <3>2, <3>4, Zenon
  <2>2. i - Len(wire[v]) = 1 => i = Len(wire[v]) + 1
    BY <2>1
  <2>. QED  BY <1>2, <1>5, <2>1, <2>2, Zenon
<1>9. \A x \in Coming(v)' : x \in Coming(v) \/ x = m \/ x.type = "webrtc_ice_candidate"
  BY <1>2, <1>5, <1>7
<1>10. m \in Coming(v)' /\ Coming(v) \subseteq Coming(v)'
  BY <1>5, <1>7
<1>11. wire'[v] # <<>>
  BY <1>10 DEF Coming
<1>. QED  BY <1>8, <1>9, <1>10, <1>11

LEMMA HiOffersInOrder ==
    ASSUME TypeOK, InOrder, HiOffers
    PROVE  InOrder'
<1>1. PICK t \in tasks[Hi] :
          /\ t.do = "offer" /\ pc[Hi] # None /\ pc'[Hi] # None /\ pc'[Hi].id = pc[Hi].id
          /\ pc'[Hi].sig = "have-local-offer" /\ pc'[Hi].offer = offers + 1
          /\ pc'[Hi].far = pc[Hi].far /\ pc'[Hi].deal = pc[Hi].deal
          /\ pc'[Hi].conn = pc[Hi].conn
          /\ tasks'[Hi] = tasks[Hi] \ {t}
          /\ Elsewhere(Lo, <<Msg("webrtc_offer", pc[Hi].id, offers + 1)>>
                           \o CandidateFound(pc[Hi]))
          /\ Steady(Hi) /\ Idle(Hi)
  BY DEF HiOffers
<1>2. /\ pc'[Lo] = pc[Lo] /\ tasks'[Lo] = tasks[Lo] /\ queued'[Lo] = queued[Lo]
      /\ call'[Lo] = call[Lo] /\ Hi # Lo /\ joins' = joins /\ call'[Hi] = call[Hi]
      /\ wire'[Hi] = wire[Hi] /\ Coming(Hi)' = Coming(Hi)
      /\ (Working' <=> Working) /\ (Blank(Lo)' <=> Blank(Lo))
      /\ Hi \in Tabs /\ Lo \in Tabs
  BY <1>1, TabAssumption DEF Steady, Elsewhere, Idle, Coming, Working, Blank, Tabs
<1>3. tasks'[Hi] = {} /\ ~OfferComing /\ ~Working /\ ~AnswerComing /\ joins[Hi] # 0
  BY <1>1 DEF InOrder, OneInv, FirstInv, Newcomer
<1>4. PICK m : m = Msg("webrtc_offer", pc[Hi].id, offers + 1)
  OBVIOUS
<1>5. /\ m \in AllMessages /\ IsOffer(m) /\ m.type = "webrtc_offer"
      /\ m.pc = pc[Hi].id /\ m.n = offers + 1 /\ offers + 1 # 0
  BY <1>1, <1>2, <1>4, PeerIs, TypesAre DEF Peers, Msg, AllMessages, MessageTypes, IsOffer
<1>6. /\ \A x \in Coming(Lo)' : x \in Coming(Lo) \/ x = m \/ x.type = "webrtc_ice_candidate"
      /\ \A i \in DOMAIN wire'[Lo] :
             \/ i \in DOMAIN wire[Lo] /\ wire'[Lo][i] = wire[Lo][i]
             \/ i = Len(wire[Lo]) + 1 /\ wire'[Lo][i] = m
             \/ wire'[Lo][i].type = "webrtc_ice_candidate"
  <2>1. wire'[Lo] = wire[Lo] \o (<<m>> \o CandidateFound(pc[Hi]))
    BY <1>1, <1>4 DEF Elsewhere
  <2>. QED  BY <1>1, <1>2, <1>5, <2>1, Described
<1>7. \A i, j \in DOMAIN wire'[Lo] : IsOffer(wire'[Lo][i]) /\ IsOffer(wire'[Lo][j]) => i = j
  <2>1. \A i \in DOMAIN wire'[Lo] : IsOffer(wire'[Lo][i]) => i = Len(wire[Lo]) + 1
    BY <1>3, <1>6 DEF IsOffer, OfferComing, Coming
  <2>. QED  BY <2>1, Zenon
<1>8. \A x \in Coming(Lo)' : IsOffer(x) => x = m
  BY <1>3, <1>6 DEF IsOffer, OfferComing
<1>9. Blank(Hi) => Blank(Hi)'
  BY <1>1, <1>3 DEF Blank
<1>10. CastInv'
  BY <1>1, <1>2, <1>3, <1>5, <1>6 DEF InOrder, CastInv
<1>11. OneInv'
  BY <1>2, <1>3, <1>7 DEF InOrder, OneInv, AnswerComing
<1>12. FirstInv'
  BY <1>2, <1>3, <1>9 DEF InOrder, FirstInv, Newcomer
<1>13. OutInv'
  BY <1>1, <1>2, <1>9 DEF InOrder, OutInv, OutOfCall, LastLeave, Steady
<1>14. HeadInv'
  BY <1>2, <1>9 DEF InOrder, HeadInv
<1>15. MeetInv'
  BY <1>1, <1>3 DEF MeetInv, Meets
<1>16. DoneInv'
  <2>1. FarEndGone(Hi)' <=> FarEndGone(Hi)
    BY <1>1, <1>2 DEF FarEndGone, Other
  <2>2. Pending
    BY <1>1 DEF Pending
  <2>. QED  BY <1>1, <1>2, <2>1, <2>2 DEF InOrder, DoneInv
<1>17. PassInv'
  BY <1>1, <1>2, <1>3, <1>5, <1>8 DEF InOrder, PassInv, Working
<1>18. HeardInv'
  BY <1>1, <1>2, <1>3 DEF HeardInv, AnswerComing
<1>. QED  BY <1>10, <1>11, <1>12, <1>13, <1>14, <1>15, <1>16, <1>17, <1>18 DEF InOrder

LEMMA HiHearsInOrder ==
    ASSUME TypeOK, InOrder, HiHears
    PROVE  InOrder'
<1>1. /\ pc'[Lo] = pc[Lo] /\ tasks'[Lo] = tasks[Lo] /\ queued'[Lo] = queued[Lo]
      /\ call'[Lo] = call[Lo] /\ wire'[Lo] = wire[Lo] /\ Coming(Lo)' = Coming(Lo)
      /\ (OfferComing' <=> OfferComing) /\ (Working' <=> Working) /\ (Blank(Lo)' <=> Blank(Lo))
      /\ Hi # Lo /\ joins' = joins /\ call'[Hi] = call[Hi] /\ pc'[Hi] = pc[Hi]
      /\ pc[Hi] # None /\ pc[Hi].sig = "have-local-offer"
  BY LoUntouched, TabAssumption DEF HiHears, Steady
<1>2. PICK m : m = Head(wire[Hi])
  OBVIOUS
<1>3. /\ Coming(Hi)' \subseteq Coming(Hi) /\ m \in Coming(Hi) /\ IsAnswer(m)
      /\ ~AnswerComing' /\ wire[Hi] # <<>> /\ ~JoinComing(Hi)'
      /\ LastLeave => LastLeave'
      /\ \A j \in DOMAIN wire'[Hi] : ~IsJoin(wire'[Hi][j])
  <2>1. wire'[Hi] # wire[Hi] /\ wire[Hi] # <<>> /\ wire'[Hi] = Tail(wire[Hi])
    BY WiresAre, TailIsShorter DEF HiHears, Takes, Tabs
  <2>2. IsAnswer(m) /\ ~IsLeave(m)
    BY <1>2 DEF HiHears, IsAnswer, IsLeave
  <2>. QED  BY <1>2, <2>1, <2>2, HiReads DEF InOrder
<1>4. ~OfferComing /\ ~Working /\ tasks[Hi] = {} /\ joins[Lo] # 0 /\ joins[Hi] # 0
  <2>1. AnswerComing
    BY <1>3 DEF AnswerComing
  <2>. QED  BY <2>1, <1>3 DEF InOrder, OneInv, FirstInv, Newcomer
<1>5. PICK t : t.do = "accept" /\ t.far = m.pc /\ tasks'[Hi] = {t}
  BY <1>2, <1>4 DEF HiHears
<1>6. Answered(t.far)'
  <2>1. PICK l : l = t.far
    OBVIOUS
  <2>2. Answered(l)
    BY <1>1, <1>3, <1>5, <2>1 DEF InOrder, HeardInv
  <2>3. Answered(l)'
    BY <1>1, <2>2 DEF Answered
  <2>. QED  BY <2>1, <2>3
<1>7. CastInv'
  BY <1>1, <1>3, <1>5 DEF InOrder, CastInv
<1>8. OneInv'
  BY <1>1, <1>3, <1>4, <1>5 DEF InOrder, OneInv, AnswerComing, Coming
<1>9. FirstInv'
  BY <1>1, <1>4 DEF InOrder, FirstInv, Newcomer
<1>10. OutInv'
  <2>1. call[Hi]
    BY DEF HiHears
  <2>. QED  BY <1>1, <1>3, <2>1 DEF InOrder, OutInv, OutOfCall
<1>11. HeadInv'
  BY <1>3 DEF HeadInv
<1>12. MeetInv'
  BY <1>1, <1>3, <1>4 DEF MeetInv, Meets
<1>13. DoneInv'
  <2>1. FarEndGone(Hi)' <=> FarEndGone(Hi)
    BY <1>1 DEF FarEndGone, Other
  <2>2. Pending
    BY <1>3 DEF Pending, AnswerComing
  <2>. QED  BY <1>1, <2>1, <2>2 DEF InOrder, DoneInv
<1>14. PassInv'
  BY <1>1 DEF InOrder, PassInv
<1>15. HeardInv'
  BY <1>1, <1>3, <1>5, <1>6 DEF HeardInv, AnswerComing
<1>. QED  BY <1>7, <1>8, <1>9, <1>10, <1>11, <1>12, <1>13, <1>14, <1>15 DEF InOrder

LEMMA HiAcceptsInOrder ==
    ASSUME TypeOK, InOrder, HiAccepts
    PROVE  InOrder'
<1>1. PICK t \in tasks[Hi] :
          /\ t.do = "accept" /\ pc[Hi] # None /\ pc[Hi].sig = "have-local-offer"
          /\ pc'[Hi] # None /\ pc'[Hi].id = pc[Hi].id /\ pc'[Hi].sig = "stable"
          /\ pc'[Hi].offer = pc[Hi].offer /\ pc'[Hi].far = t.far
          /\ pc'[Hi].deal = pc[Hi].offer /\ pc'[Hi].conn = pc[Hi].conn
          /\ tasks'[Hi] = tasks[Hi] \ {t}
          /\ Steady(Hi) /\ Idle(Hi) /\ Elsewhere(Lo, <<>>)
  BY DEF HiAccepts
<1>2. /\ pc'[Lo] = pc[Lo] /\ tasks'[Lo] = tasks[Lo] /\ queued'[Lo] = queued[Lo]
      /\ call'[Lo] = call[Lo] /\ wire'[Lo] = wire[Lo] /\ Coming(Lo)' = Coming(Lo)
      /\ (OfferComing' <=> OfferComing) /\ (Working' <=> Working) /\ (Blank(Lo)' <=> Blank(Lo))
      /\ Hi # Lo /\ joins' = joins /\ call'[Hi] = call[Hi]
      /\ wire'[Hi] = wire[Hi] /\ Coming(Hi)' = Coming(Hi)
      /\ (AnswerComing' <=> AnswerComing) /\ (LastLeave' <=> LastLeave)
  BY <1>1, LoUntouched, TabAssumption DEF Steady, Idle, Coming, AnswerComing, LastLeave
<1>3. ~Blank(Hi) /\ tasks'[Hi] = {} /\ ~OfferComing /\ ~Working /\ ~AnswerComing
      /\ joins[Hi] # 0 /\ joins[Lo] # 0
  BY <1>1 DEF InOrder, OneInv, FirstInv, Newcomer, Blank
<1>4. Answered(t.far)'
  <2>1. PICK l : l = t.far
    OBVIOUS
  <2>2. Answered(l)
    BY <1>1, <2>1 DEF InOrder, HeardInv
  <2>3. Answered(l)'
    BY <1>1, <1>2, <2>2 DEF Answered
  <2>. QED  BY <2>1, <2>3
<1>5. CastInv'
  BY <1>1, <1>2, <1>3 DEF InOrder, CastInv
<1>6. OneInv'
  BY <1>2, <1>3 DEF InOrder, OneInv
<1>7. FirstInv'
  BY <1>2, <1>3 DEF FirstInv, Newcomer
<1>8. OutInv'
  BY <1>2, <1>3 DEF InOrder, OutInv, OutOfCall
<1>9. HeadInv'
  BY <1>2, <1>3 DEF InOrder, HeadInv
<1>10. ~Pending'
  BY <1>2, <1>3 DEF Pending
<1>11. MeetInv'
  BY <1>10 DEF MeetInv, Meets
<1>12. DoneInv'
  BY <1>1, <1>2, <1>10 DEF InOrder, DoneInv
<1>13. PassInv'
  BY <1>1, <1>2, <1>3 DEF InOrder, PassInv, OfferComing, Working
<1>14. HeardInv'
  <2>1. Answered(pc[Hi].far)'
    BY <1>1, <1>4
  <2>. QED  BY <1>1, <1>2, <1>3, <2>1 DEF HeardInv, AnswerComing
<1>. QED  BY <1>5, <1>6, <1>7, <1>8, <1>9, <1>11, <1>12, <1>13, <1>14 DEF InOrder

\* Lo reads, or not, and Hi is told nothing: what stays.
LEMMA LoAlone ==
    ASSUME TypeOK, InOrder, Elsewhere(Hi, <<>>), Steady(Lo), Idle(Lo) \/ Takes(Lo)
    PROVE  /\ pc'[Hi] = pc[Hi] /\ tasks'[Hi] = tasks[Hi] /\ queued'[Hi] = queued[Hi]
           /\ call'[Hi] = call[Hi] /\ wire'[Hi] = wire[Hi] /\ Coming(Hi)' = Coming(Hi)
           /\ (AnswerComing' <=> AnswerComing) /\ (JoinComing(Hi)' <=> JoinComing(Hi))
           /\ (Blank(Hi)' <=> Blank(Hi)) /\ (LastLeave' <=> LastLeave)
           /\ Hi # Lo /\ joins' = joins /\ call'[Lo] = call[Lo]
           /\ Coming(Lo)' \subseteq Coming(Lo) /\ (OfferComing' => OfferComing)
           /\ \A i, j \in DOMAIN wire'[Lo] :
                  IsOffer(wire'[Lo][i]) /\ IsOffer(wire'[Lo][j]) => i = j
           /\ wire[Lo] = <<>> => wire'[Lo] = <<>>
           /\ HeadInv'
<1>1. /\ pc'[Hi] = pc[Hi] /\ tasks'[Hi] = tasks[Hi] /\ queued'[Hi] = queued[Hi]
      /\ call'[Hi] = call[Hi] /\ wire'[Hi] = wire[Hi] /\ Coming(Hi)' = Coming(Hi)
      /\ (AnswerComing' <=> AnswerComing) /\ (JoinComing(Hi)' <=> JoinComing(Hi))
      /\ (Blank(Hi)' <=> Blank(Hi))
  BY HiUntouched
<1>2. /\ Coming(Lo)' \subseteq Coming(Lo)
      /\ \A i, j \in DOMAIN wire'[Lo] : IsOffer(wire'[Lo][i]) /\ IsOffer(wire'[Lo][j]) => i = j
      /\ wire[Lo] = <<>> => wire'[Lo] = <<>>
  BY LoReads DEF InOrder, Idle, Takes
<1>3. (OfferComing' => OfferComing) /\ (LastLeave' <=> LastLeave) /\ HeadInv'
  BY <1>1, <1>2 DEF OfferComing, LastLeave, InOrder, HeadInv
<1>4. Hi # Lo /\ joins' = joins /\ call'[Lo] = call[Lo]
  BY TabAssumption DEF Steady
<1>. QED  BY <1>1, <1>2, <1>3, <1>4

\* No connection has heard of the one that is made next.
LEMMA Unknown ==
    ASSUME TypeOK
    PROVE  /\ pc[Hi] # None => pc[Hi].far # made + 1
           /\ \A m \in Coming(Hi) : m.pc # made + 1
           /\ \A t \in tasks[Hi] : t.far # made + 1
<1>1. /\ Hi \in Tabs /\ made \in Nat
      /\ pc[Hi] # None => pc[Hi] \in Peers(0..made, 0..offers)
      /\ tasks[Hi] \subseteq TaskTypes(0..made, 0..offers)
      /\ wire[Hi] \in Seq(MessageTypes(0..made, 0..offers))
  BY TypesAre DEF Open, Tabs
<1>2. made + 1 \notin 0..made
  BY <1>1
<1>3. pc[Hi] # None => pc[Hi].far \in 0..made
  BY <1>1 DEF Peers
<1>4. \A t \in tasks[Hi] : t.far \in 0..made
  BY <1>1 DEF TaskTypes
<1>5. \A m \in Coming(Hi) : m.pc \in 0..made
  <2>1. \A i \in DOMAIN wire[Hi] : wire[Hi][i] \in MessageTypes(0..made, 0..offers)
    BY <1>1
  <2>. QED  BY <2>1 DEF Coming, MessageTypes
<1>. QED  BY <1>2, <1>3, <1>4, <1>5

LEMMA LoRestsInOrder ==
    ASSUME TypeOK, InOrder, LoRests
    PROVE  InOrder'
<1>1. /\ pc'[Hi] = pc[Hi] /\ tasks'[Hi] = tasks[Hi] /\ queued'[Hi] = queued[Hi]
      /\ call'[Hi] = call[Hi] /\ wire'[Hi] = wire[Hi] /\ Coming(Hi)' = Coming(Hi)
      /\ (AnswerComing' <=> AnswerComing) /\ (JoinComing(Hi)' <=> JoinComing(Hi))
      /\ (Blank(Hi)' <=> Blank(Hi)) /\ (LastLeave' <=> LastLeave)
      /\ Hi # Lo /\ joins' = joins /\ call'[Lo] = call[Lo]
      /\ Coming(Lo)' \subseteq Coming(Lo) /\ (OfferComing' => OfferComing)
      /\ \A i, j \in DOMAIN wire'[Lo] :
             IsOffer(wire'[Lo][i]) /\ IsOffer(wire'[Lo][j]) => i = j
      /\ wire[Lo] = <<>> => wire'[Lo] = <<>>
      /\ HeadInv'
  BY LoAlone DEF LoRests
<1>2. /\ tasks'[Lo] \subseteq tasks[Lo]
      /\ \A t \in tasks[Lo] : t.do # "retry" => t \in tasks'[Lo]
      /\ pc'[Lo] = None <=> pc[Lo] = None
      /\ pc[Lo] # None => /\ pc'[Lo].id = pc[Lo].id /\ pc'[Lo].sig = pc[Lo].sig
                          /\ pc'[Lo].heard = pc[Lo].heard /\ pc'[Lo].far = pc[Lo].far
                          /\ pc'[Lo].deal = pc[Lo].deal
  BY DEF LoRests, OnlyWaits, Still, SameTalk
<1>3. (Working' <=> Working) /\ (Blank(Lo) => Blank(Lo)')
  BY <1>2 DEF Working, Blank
<1>4. Pending' => Pending
  BY <1>1, <1>3 DEF Pending
<1>5. CastInv'
  BY <1>1, <1>2 DEF InOrder, CastInv
<1>6. OneInv'
  BY <1>1, <1>2, <1>3 DEF InOrder, OneInv
<1>7. FirstInv'
  BY <1>1, <1>2, <1>3 DEF InOrder, FirstInv, Newcomer
<1>8. OutInv'
  BY <1>1, <1>3 DEF InOrder, OutInv, OutOfCall, LoRests, Steady
<1>9. MeetInv'
  BY <1>1, <1>4 DEF InOrder, MeetInv, Meets
<1>10. DoneInv'
  <2>1. pc[Hi] # None => (FarEndGone(Hi)' <=> FarEndGone(Hi))
    BY <1>1, <1>2 DEF FarEndGone, Other
  <2>. QED  BY <1>1, <1>2, <1>3, <1>4, <2>1 DEF InOrder, DoneInv
<1>11. PassInv'
  BY <1>1, <1>2 DEF InOrder, PassInv, CastInv
<1>12. HeardInv'
  <2>1. ASSUME NEW l, Answered(l) PROVE Answered(l)'
    BY <1>1, <1>2, <2>1 DEF Answered
  <2>. QED  BY <1>1, <2>1 DEF InOrder, HeardInv
<1>. QED  BY <1>1, <1>5, <1>6, <1>7, <1>8, <1>9, <1>10, <1>11, <1>12 DEF InOrder

\* A new connection of Lo knows nothing of Hi's, and Hi's nothing of it.
LEMMA RenewedIsUnknown ==
    ASSUME TypeOK, New(pc'[Lo]), pc'[Hi] = pc[Hi]
    PROVE  /\ pc[Hi] # None => FarEndGone(Hi)'
           /\ \A l : l # made + 1 => Answered(l)'
<1>1. pc[Hi] # None => pc[Hi].far # made + 1
  BY Unknown
<1>2. pc[Hi] # None => FarEndGone(Hi)'
  BY <1>1 DEF FarEndGone, Other, New
<1>3. ASSUME NEW l, l # made + 1 PROVE Answered(l)'
  BY <1>3 DEF Answered, New
<1>. QED  BY <1>2, <1>3

LEMMA LoRenewsInOrder ==
    ASSUME TypeOK, InOrder, LoRenews
    PROVE  InOrder'
<1>1. /\ pc'[Hi] = pc[Hi] /\ tasks'[Hi] = tasks[Hi] /\ queued'[Hi] = queued[Hi]
      /\ call'[Hi] = call[Hi] /\ wire'[Hi] = wire[Hi] /\ Coming(Hi)' = Coming(Hi)
      /\ (AnswerComing' <=> AnswerComing) /\ (JoinComing(Hi)' <=> JoinComing(Hi))
      /\ (Blank(Hi)' <=> Blank(Hi)) /\ (LastLeave' <=> LastLeave)
      /\ Hi # Lo /\ joins' = joins /\ call'[Lo] = call[Lo]
      /\ Coming(Lo)' \subseteq Coming(Lo) /\ (OfferComing' => OfferComing)
      /\ \A i, j \in DOMAIN wire'[Lo] :
             IsOffer(wire'[Lo][i]) /\ IsOffer(wire'[Lo][j]) => i = j
      /\ wire[Lo] = <<>> => wire'[Lo] = <<>>
      /\ HeadInv'
  BY LoAlone DEF LoRenews
<1>2. /\ pc'[Lo] # None /\ pc'[Lo].sig = "stable" /\ pc'[Lo].deal = pc'[Lo].heard
      /\ \A t \in tasks'[Lo] : t.do = "retry"
      /\ ~Working' /\ Blank(Lo)' /\ joins[Lo] # 0
  BY DEF LoRenews, New, OnlyWaits, Working, Blank
<1>3. Pending' => Pending
  BY <1>1, <1>2 DEF Pending
<1>4. CastInv'
  BY <1>1, <1>2 DEF InOrder, CastInv
<1>5. OneInv'
  BY <1>1, <1>2 DEF InOrder, OneInv
<1>6. FirstInv'
  BY <1>1, <1>2 DEF InOrder, FirstInv, Newcomer
<1>7. OutInv'
  BY <1>1, <1>2 DEF InOrder, OutInv, OutOfCall, LoRenews, Steady
<1>8. MeetInv'
  BY <1>1, <1>3 DEF InOrder, MeetInv, Meets
<1>9. (pc[Hi] # None => FarEndGone(Hi)') /\ \A l : l # made + 1 => Answered(l)'
  BY <1>1, RenewedIsUnknown DEF LoRenews
<1>10. DoneInv'
  BY <1>1, <1>2, <1>3, <1>9 DEF InOrder, DoneInv
<1>11. PassInv'
  BY <1>1, <1>2 DEF InOrder, PassInv
<1>12. HeardInv'
  BY <1>1, <1>9, Unknown DEF InOrder, HeardInv
<1>. QED  BY <1>1, <1>4, <1>5, <1>6, <1>7, <1>8, <1>10, <1>11, <1>12 DEF InOrder

LEMMA LoClosesInOrder ==
    ASSUME TypeOK, InOrder, LoCloses
    PROVE  InOrder'
<1>1. /\ pc'[Hi] = pc[Hi] /\ tasks'[Hi] = tasks[Hi] /\ queued'[Hi] = queued[Hi]
      /\ call'[Hi] = call[Hi] /\ Hi # Lo /\ joins' = joins /\ pc'[Lo] = None
      /\ tasks'[Lo] \subseteq tasks[Lo] /\ (\A t \in tasks'[Lo] : t.do = "retry")
      /\ (Blank(Hi)' <=> Blank(Hi)) /\ Blank(Lo)' /\ ~Working'
  BY TabAssumption DEF LoCloses, Elsewhere, OnlyWaits, Blank, Working
<1>2. /\ \A m \in Coming(Hi)' : m \in Coming(Hi) \/ m.type = "voice_leave"
      /\ \A m \in Coming(Hi)' : IsAnswer(m) => m \in Coming(Hi)
      /\ \A i, j \in DOMAIN wire'[Hi] : IsAnswer(wire'[Hi][i]) /\ IsAnswer(wire'[Hi][j]) => i = j
      /\ (AnswerComing' <=> AnswerComing)
      /\ \A j \in DOMAIN wire'[Hi] : IsJoin(wire'[Hi][j]) => j = 1 /\ Blank(Hi)
      /\ (call'[Lo] = call[Lo] /\ wire'[Hi] = wire[Hi]) \/ (call[Lo] /\ LastLeave')
  <2>1. CASE Elsewhere(Hi, <<>>) /\ Steady(Lo)
    <3>1. wire'[Hi] = wire[Hi] /\ Coming(Hi)' = Coming(Hi) /\ (AnswerComing' <=> AnswerComing)
      BY <2>1, HiUntouched
    <3>. QED  BY <2>1, <3>1 DEF InOrder, OneInv, HeadInv, Steady
  <2>2. CASE Elsewhere(Hi, <<Msg("voice_leave", 0, 0)>>) /\ call[Lo]
    <3>1. PICK m : m = Msg("voice_leave", 0, 0)
      OBVIOUS
    <3>2. m \in AllMessages /\ ~IsAnswer(m) /\ IsLeave(m) /\ m.type = "voice_leave" /\ ~IsJoin(m)
      BY <3>1, Tidings DEF IsJoin
    <3>3. wire'[Hi] = wire[Hi] \o <<m>>
      BY <2>2, <3>1 DEF Elsewhere
    <3>4. /\ Coming(Hi)' = Coming(Hi) \cup {m} /\ (AnswerComing' <=> AnswerComing)
          /\ \A i, j \in DOMAIN wire'[Hi] :
                 IsAnswer(wire'[Hi][i]) /\ IsAnswer(wire'[Hi][j]) => i = j
          /\ wire'[Hi] # <<>> /\ wire'[Hi][Len(wire'[Hi])] = m
          /\ \A i \in DOMAIN wire'[Hi] :
                 \/ i \in DOMAIN wire[Hi] /\ wire'[Hi][i] = wire[Hi][i]
                 \/ wire'[Hi][i] = m /\ (wire[Hi] = <<>> => i = 1)
          /\ \A x \in Coming(Hi)' : IsAnswer(x) => x \in Coming(Hi)
      BY <3>2, <3>3, HiTold DEF InOrder
    <3>5. \A j \in DOMAIN wire'[Hi] : IsJoin(wire'[Hi][j]) => j = 1 /\ Blank(Hi)
      BY <3>2, <3>4 DEF InOrder, HeadInv
    <3>. QED  BY <2>2, <3>2, <3>4, <3>5 DEF LastLeave
  <2>. QED  BY <2>1, <2>2 DEF LoCloses
<1>3. /\ Coming(Lo)' \subseteq Coming(Lo) /\ (OfferComing' => OfferComing)
      /\ \A i, j \in DOMAIN wire'[Lo] :
             IsOffer(wire'[Lo][i]) /\ IsOffer(wire'[Lo][j]) => i = j
      /\ wire[Lo] = <<>> => wire'[Lo] = <<>>
  <2>1. wire'[Lo] = wire[Lo] \/ (wire[Lo] # <<>> /\ wire'[Lo] = Tail(wire[Lo]))
    BY DEF LoCloses, Idle, Takes
  <2>2. /\ Coming(Lo)' \subseteq Coming(Lo)
        /\ \A i, j \in DOMAIN wire'[Lo] :
               IsOffer(wire'[Lo][i]) /\ IsOffer(wire'[Lo][j]) => i = j
        /\ wire[Lo] = <<>> => wire'[Lo] = <<>>
    BY <2>1, LoReads DEF InOrder
  <2>. QED  BY <2>2 DEF OfferComing
<1>4. Pending' => Pending
  BY <1>1, <1>2, <1>3 DEF Pending
<1>5. JoinComing(Hi)' => JoinComing(Hi)
  BY <1>2 DEF JoinComing, IsJoin
<1>6. CastInv'
  BY <1>1, <1>2, <1>3 DEF InOrder, CastInv
<1>7. OneInv'
  BY <1>1, <1>2, <1>3 DEF InOrder, OneInv
<1>8. FirstInv'
  <2>1. joins[Lo] = 0 => ~call[Lo] /\ ~call'[Lo]
    BY DEF InOrder, FirstInv, Newcomer, LoCloses, Steady
  <2>. QED  BY <1>1, <1>2, <1>3, <2>1 DEF InOrder, FirstInv, Newcomer
<1>9. OutInv'
  <2>1. ~call'[Lo] => queued'[Lo] = {}
    BY DEF InOrder, OutInv, OutOfCall, LoCloses, Steady
  <2>. QED  BY <1>1, <1>2, <2>1 DEF InOrder, OutInv, OutOfCall, LastLeave
<1>10. HeadInv'
  BY <1>1, <1>2 DEF HeadInv
<1>11. MeetInv'
  BY <1>1, <1>4, <1>5 DEF InOrder, MeetInv, Meets
<1>12. DoneInv'
  <2>1. FarEndGone(Hi)'
    BY <1>1 DEF FarEndGone, Other
  <2>. QED  BY <1>1, <1>4, <2>1 DEF InOrder, DoneInv
<1>13. PassInv'
  BY <1>1, <1>3 DEF InOrder, PassInv
<1>14. HeardInv'
  <2>1. \A l : Answered(l)'
    BY <1>1 DEF Answered
  <2>. QED  BY <1>1, <1>2, <2>1 DEF InOrder, HeardInv
<1>. QED  BY <1>6, <1>7, <1>8, <1>9, <1>10, <1>11, <1>12, <1>13, <1>14 DEF InOrder

LEMMA LoJoinsInOrder ==
    ASSUME TypeOK, InOrder, LoJoins
    PROVE  InOrder'
<1>1. /\ pc'[Hi] = pc[Hi] /\ tasks'[Hi] = tasks[Hi] /\ queued'[Hi] = queued[Hi]
      /\ call'[Hi] = call[Hi] /\ Hi # Lo /\ call'[Lo] /\ ~call[Lo]
      /\ joins'[Lo] # 0 /\ joins'[Hi] = joins[Hi]
      /\ wire'[Lo] = wire[Lo] /\ Coming(Lo)' = Coming(Lo) /\ (OfferComing' <=> OfferComing)
      /\ (Blank(Hi)' <=> Blank(Hi)) /\ Blank(Hi) /\ wire[Hi] = <<>>
      /\ call[Hi] /\ Pending => Meets
  BY TabAssumption DEF LoJoins, Elsewhere, Idle, Coming, OfferComing, Blank
<1>2. /\ \A m \in Coming(Hi)' : m \in Coming(Hi) \/ m.type = "voice_join"
      /\ \A m \in Coming(Hi)' : IsAnswer(m) => m \in Coming(Hi)
      /\ \A i, j \in DOMAIN wire'[Hi] : IsAnswer(wire'[Hi][i]) /\ IsAnswer(wire'[Hi][j]) => i = j
      /\ (AnswerComing' <=> AnswerComing)
      /\ \A j \in DOMAIN wire'[Hi] : j = 1
  <2>1. PICK m : m = Msg("voice_join", 0, 0)
    OBVIOUS
  <2>2. m \in AllMessages /\ ~IsAnswer(m) /\ m.type = "voice_join"
    BY <2>1, Tidings
  <2>3. wire'[Hi] = wire[Hi] \o <<m>>
    BY <2>1 DEF LoJoins, Elsewhere
  <2>4. /\ Coming(Hi)' = Coming(Hi) \cup {m} /\ (AnswerComing' <=> AnswerComing)
        /\ \A i, j \in DOMAIN wire'[Hi] :
               IsAnswer(wire'[Hi][i]) /\ IsAnswer(wire'[Hi][j]) => i = j
        /\ \A i \in DOMAIN wire'[Hi] :
               \/ i \in DOMAIN wire[Hi] /\ wire'[Hi][i] = wire[Hi][i]
               \/ wire'[Hi][i] = m /\ (wire[Hi] = <<>> => i = 1)
        /\ \A x \in Coming(Hi)' : IsAnswer(x) => x \in Coming(Hi)
    BY <2>2, <2>3, HiTold DEF InOrder
  <2>5. DOMAIN wire[Hi] = {}
    BY <1>1
  <2>. QED  BY <1>1, <2>2, <2>4, <2>5
<1>3. Blank(Lo) /\ queued[Lo] = {} /\ ~Working
  <2>1. Blank(Lo) /\ queued[Lo] = {}
    BY <1>1 DEF InOrder, OutInv, OutOfCall
  <2>. QED  BY <2>1 DEF Blank, InOrder, CastInv, Working
<1>4. /\ pc'[Lo] # None => pc'[Lo].sig = "stable" /\ pc'[Lo].deal = pc'[Lo].heard
      /\ \A t \in tasks'[Lo] : t.do = "retry"
      /\ ~Working' /\ Blank(Lo)'
  <2>1. CASE New(pc'[Lo]) /\ OnlyWaits(tasks'[Lo])
    BY <2>1 DEF New, OnlyWaits, Working, Blank
  <2>2. CASE pc'[Lo] = pc[Lo] /\ tasks'[Lo] = tasks[Lo]
    BY <1>3, <2>2 DEF InOrder, CastInv, DoneInv, Working, Blank
  <2>. QED  BY <2>1, <2>2 DEF LoJoins
<1>5. (Pending' <=> Pending) /\ Coming(Hi) = {} /\ ~AnswerComing
  <2>1. Coming(Hi) = {}
    BY <1>1 DEF Coming
  <2>. QED  BY <1>1, <1>2, <1>3, <1>4, <2>1 DEF Pending, AnswerComing
<1>6. CastInv'
  BY <1>1, <1>2, <1>4 DEF InOrder, CastInv
<1>7. OneInv'
  BY <1>1, <1>2, <1>4 DEF InOrder, OneInv
<1>8. FirstInv'
  BY <1>1, <1>2, <1>4, <1>5 DEF InOrder, FirstInv, Newcomer
<1>9. OutInv'
  BY <1>1 DEF InOrder, OutInv, OutOfCall
<1>10. HeadInv'
  BY <1>1, <1>2 DEF HeadInv
<1>11. MeetInv'
  BY <1>1, <1>5 DEF MeetInv, Meets
<1>12. DoneInv'
  <2>1. pc[Hi] # None => pc[Hi].deal = 0
    BY <1>1 DEF Blank
  <2>. QED  BY <1>1, <1>4, <2>1 DEF InOrder, DoneInv
<1>13. PassInv'
  BY <1>1, <1>4 DEF InOrder, PassInv
<1>14. HeardInv'
  <2>1. /\ \A t \in tasks'[Hi] : t.do # "accept"
        /\ pc'[Hi] # None => pc'[Hi].deal = 0
        /\ \A t \in tasks'[Hi] : t.do = "offer" /\ pc'[Hi] # None => pc'[Hi].sig = "stable"
    BY <1>1 DEF Blank, InOrder, HeardInv
  <2>2. ~AnswerComing'
    BY <1>2, <1>5
  <2>. QED  BY <2>1, <2>2 DEF HeardInv, AnswerComing
<1>. QED  BY <1>6, <1>7, <1>8, <1>9, <1>10, <1>11, <1>12, <1>13, <1>14 DEF InOrder

LEMMA LoHearsInOrder ==
    ASSUME TypeOK, InOrder, LoHears
    PROVE  InOrder'
<1>1. Elsewhere(Hi, <<>>) /\ Steady(Lo) /\ Takes(Lo) /\ call[Lo] /\ IsOffer(Head(wire[Lo]))
  BY DEF LoHears
<1>2. /\ pc'[Hi] = pc[Hi] /\ tasks'[Hi] = tasks[Hi] /\ queued'[Hi] = queued[Hi]
      /\ call'[Hi] = call[Hi] /\ wire'[Hi] = wire[Hi] /\ Coming(Hi)' = Coming(Hi)
      /\ (AnswerComing' <=> AnswerComing) /\ (JoinComing(Hi)' <=> JoinComing(Hi))
      /\ (Blank(Hi)' <=> Blank(Hi)) /\ (LastLeave' <=> LastLeave)
      /\ Hi # Lo /\ joins' = joins /\ call'[Lo] = call[Lo]
      /\ Coming(Lo)' \subseteq Coming(Lo)
      /\ \A i, j \in DOMAIN wire'[Lo] :
             IsOffer(wire'[Lo][i]) /\ IsOffer(wire'[Lo][j]) => i = j
      /\ HeadInv'
  BY <1>1, LoAlone
<1>3. PICK m : m = Head(wire[Lo])
  OBVIOUS
<1>4. m \in Coming(Lo) /\ IsOffer(m) /\ OfferComing /\ ~OfferComing'
  <2>1. Lo \in Tabs
    BY DEF Tabs
  <2>2. wire[Lo] # <<>> /\ wire'[Lo] = Tail(wire[Lo]) /\ wire'[Lo] # wire[Lo]
    BY <1>1, <2>1, WiresAre, TailIsShorter DEF Takes
  <2>3. m \in Coming(Lo)
    BY <1>3, <2>1, <2>2, ReadFrom
  <2>4. ~OfferComing'
    BY <1>1, <2>2, LoReads DEF InOrder
  <2>. QED  BY <1>1, <1>3, <2>3, <2>4 DEF OfferComing
<1>5. tasks[Hi] = {} /\ ~Working /\ ~AnswerComing /\ joins[Hi] # 0 /\ joins[Lo] # 0
  BY <1>1, <1>4 DEF InOrder, OneInv, FirstInv, Newcomer, Coming
<1>6. PICK t : /\ t.do = "remote" /\ t.n = m.n /\ t.far = m.pc
               /\ tasks'[Lo] = tasks[Lo] \cup {t}
  BY <1>3 DEF LoHears
<1>7. /\ Working'
      /\ \A s \in tasks[Lo] : s.do = "retry"
      /\ \A s \in tasks'[Lo] : s = t \/ s.do = "retry"
  BY <1>5, <1>6 DEF Working
<1>8. /\ pc'[Lo] # None
      /\ New(pc'[Lo]) \/ (pc[Lo] # None /\ pc[Lo].sig = "stable" /\ pc'[Lo] = pc[Lo])
  BY DEF LoHears, New
<1>9. Pending' /\ Pending
  BY <1>4, <1>7 DEF Pending
<1>10. CastInv'
  BY <1>2, <1>6, <1>8 DEF InOrder, CastInv, New
<1>11. OneInv'
  BY <1>2, <1>4, <1>5, <1>7 DEF InOrder, OneInv
<1>12. FirstInv'
  BY <1>2, <1>5 DEF InOrder, FirstInv, Newcomer
<1>13. OutInv'
  BY <1>1, <1>2 DEF InOrder, OutInv, OutOfCall
<1>14. MeetInv'
  BY <1>2, <1>9 DEF InOrder, MeetInv, Meets
<1>15. DoneInv'
  <2>1. pc[Hi] # None /\ FarEndGone(Hi) => FarEndGone(Hi)'
    <3>1. CASE New(pc'[Lo])
      BY <1>2, <3>1, RenewedIsUnknown
    <3>2. CASE pc'[Lo] = pc[Lo]
      BY <1>2, <3>2 DEF FarEndGone, Other
    <3>. QED  BY <1>8, <3>1, <3>2
  <2>2. pc'[Lo].sig = "stable" /\ pc'[Lo].deal = pc'[Lo].heard
    BY <1>8 DEF InOrder, DoneInv, New
  <2>. QED  BY <1>2, <1>9, <2>1, <2>2 DEF InOrder, DoneInv
<1>16. PassInv'
  <2>1. pc[Hi] # None => /\ t.far = pc[Hi].id /\ t.n = pc[Hi].offer
                         /\ pc[Hi].sig = "have-local-offer"
    BY <1>4, <1>6 DEF InOrder, PassInv
  <2>. QED  BY <1>2, <1>6, <1>7, <2>1 DEF InOrder, PassInv
<1>17. HeardInv'
  <2>1. ASSUME pc[Hi] # None, pc[Hi].sig = "stable" PROVE FALSE
    BY <1>4, <2>1 DEF InOrder, PassInv
  <2>. QED  BY <1>2, <1>5, <2>1 DEF HeardInv, AnswerComing
<1>. QED  BY <1>2, <1>10, <1>11, <1>12, <1>13, <1>14, <1>15, <1>16, <1>17 DEF InOrder

LEMMA LoSetsInOrder ==
    ASSUME TypeOK, InOrder, LoSets
    PROVE  InOrder'
<1>1. PICK t \in tasks[Lo] :
          /\ t.do = "remote" /\ Steady(Lo) /\ Idle(Lo) /\ Elsewhere(Hi, <<>>)
          /\ pc[Lo] # None /\ pc'[Lo] # None /\ pc'[Lo].id = pc[Lo].id
          /\ pc'[Lo].sig = "have-remote-offer" /\ pc'[Lo].far = t.far /\ pc'[Lo].heard = t.n
          /\ \E s : /\ s.do = "answer" /\ s.n = t.n /\ s.far = t.far
                    /\ tasks'[Lo] = (tasks[Lo] \ {t}) \cup {s}
  BY DEF LoSets
<1>2. PICK s : /\ s.do = "answer" /\ s.n = t.n /\ s.far = t.far
               /\ tasks'[Lo] = (tasks[Lo] \ {t}) \cup {s}
  BY <1>1
<1>3. /\ pc'[Hi] = pc[Hi] /\ tasks'[Hi] = tasks[Hi] /\ queued'[Hi] = queued[Hi]
      /\ call'[Hi] = call[Hi] /\ wire'[Hi] = wire[Hi] /\ Coming(Hi)' = Coming(Hi)
      /\ (AnswerComing' <=> AnswerComing) /\ (JoinComing(Hi)' <=> JoinComing(Hi))
      /\ (Blank(Hi)' <=> Blank(Hi)) /\ (LastLeave' <=> LastLeave)
      /\ Hi # Lo /\ joins' = joins /\ call'[Lo] = call[Lo]
      /\ HeadInv'
  BY <1>1, LoAlone
<1>4. wire'[Lo] = wire[Lo] /\ Coming(Lo)' = Coming(Lo) /\ (OfferComing' <=> OfferComing)
  BY <1>1 DEF Idle, Coming, OfferComing
<1>5. /\ Working /\ Working' /\ Pending /\ Pending'
      /\ tasks[Hi] = {} /\ ~OfferComing /\ ~AnswerComing
      /\ ~Blank(Lo) /\ call[Lo] /\ joins[Lo] # 0 /\ joins[Hi] # 0
  <2>1. Working /\ Working' /\ ~Blank(Lo)
    BY <1>1, <1>2 DEF Working, Blank
  <2>. QED  BY <1>1, <2>1 DEF Pending, InOrder, OneInv, OutInv, OutOfCall, FirstInv, Newcomer
<1>6. \A r \in tasks'[Lo] : r = s \/ r.do = "retry"
  BY <1>1, <1>2 DEF InOrder, OneInv
<1>7. pc[Hi] # None => t.far = pc[Hi].id /\ t.n = pc[Hi].offer /\ pc[Hi].sig = "have-local-offer"
  BY <1>1 DEF InOrder, PassInv
<1>8. CastInv'
  BY <1>1, <1>2, <1>3, <1>4 DEF InOrder, CastInv
<1>9. OneInv'
  BY <1>3, <1>4, <1>5, <1>6 DEF InOrder, OneInv
<1>10. FirstInv'
  BY <1>3, <1>5 DEF InOrder, FirstInv, Newcomer
<1>11. OutInv'
  BY <1>3, <1>5 DEF InOrder, OutInv, OutOfCall
<1>12. MeetInv'
  BY <1>3, <1>5 DEF InOrder, MeetInv, Meets
<1>13. DoneInv'
  <2>1. FarEndGone(Hi)' <=> FarEndGone(Hi)
    BY <1>1, <1>3 DEF FarEndGone, Other
  <2>. QED  BY <1>1, <1>3, <1>5, <2>1 DEF InOrder, DoneInv
<1>14. PassInv'
  BY <1>1, <1>2, <1>3, <1>4, <1>6, <1>7 DEF InOrder, PassInv
<1>15. HeardInv'
  BY <1>3, <1>5, <1>7 DEF HeardInv, AnswerComing
<1>. QED  BY <1>3, <1>8, <1>9, <1>10, <1>11, <1>12, <1>13, <1>14, <1>15 DEF InOrder

LEMMA LoAnswersInOrder ==
    ASSUME TypeOK, InOrder, LoAnswers
    PROVE  InOrder'
<1>1. PICK t \in tasks[Lo] :
          /\ t.do = "answer" /\ Steady(Lo) /\ Idle(Lo)
          /\ pc[Lo] # None /\ pc'[Lo] # None /\ pc'[Lo].id = pc[Lo].id
          /\ pc'[Lo].sig = "stable" /\ pc'[Lo].far = pc[Lo].far
          /\ pc'[Lo].heard = pc[Lo].heard /\ pc'[Lo].deal = pc[Lo].heard
          /\ tasks'[Lo] = tasks[Lo] \ {t}
          /\ Elsewhere(Hi, <<Msg("webrtc_answer", pc[Lo].id, pc[Lo].heard)>>
                           \o CandidateFound(pc[Lo]))
  BY DEF LoAnswers
<1>2. /\ pc'[Hi] = pc[Hi] /\ tasks'[Hi] = tasks[Hi] /\ queued'[Hi] = queued[Hi]
      /\ call'[Hi] = call[Hi] /\ Hi # Lo /\ joins' = joins /\ call'[Lo] = call[Lo]
      /\ wire'[Lo] = wire[Lo] /\ Coming(Lo)' = Coming(Lo) /\ (OfferComing' <=> OfferComing)
      /\ (Blank(Hi)' <=> Blank(Hi)) /\ Lo \in Tabs /\ Hi \in Tabs
  BY <1>1, TabAssumption DEF Elsewhere, Steady, Idle, Coming, OfferComing, Blank, Tabs
<1>3. /\ Working /\ Pending /\ tasks[Hi] = {} /\ ~OfferComing /\ ~AnswerComing
      /\ ~Blank(Lo) /\ call[Lo] /\ joins[Lo] # 0 /\ joins[Hi] # 0
  <2>1. Working /\ ~Blank(Lo)
    BY <1>1 DEF Working, Blank
  <2>. QED  BY <1>1, <2>1 DEF Pending, InOrder, OneInv, OutInv, OutOfCall, FirstInv, Newcomer
<1>4. \A r \in tasks'[Lo] : r.do = "retry"
  BY <1>1 DEF InOrder, OneInv
<1>5. PICK m : m = Msg("webrtc_answer", pc[Lo].id, pc[Lo].heard)
  OBVIOUS
<1>6. /\ m \in AllMessages /\ IsAnswer(m) /\ m.type = "webrtc_answer" /\ m.pc = pc[Lo].id
      /\ ~IsJoin(m)
  BY <1>1, <1>2, <1>5, PeerIs DEF Peers, Msg, AllMessages, MessageTypes, IsAnswer, IsJoin
<1>7. /\ \A x \in Coming(Hi)' : x \in Coming(Hi) \/ x = m \/ x.type = "webrtc_ice_candidate"
      /\ \A i \in DOMAIN wire'[Hi] :
             \/ i \in DOMAIN wire[Hi] /\ wire'[Hi][i] = wire[Hi][i]
             \/ i = Len(wire[Hi]) + 1 /\ wire'[Hi][i] = m
             \/ wire'[Hi][i].type = "webrtc_ice_candidate"
  <2>1. wire'[Hi] = wire[Hi] \o (<<m>> \o CandidateFound(pc[Lo]))
    BY <1>1, <1>5 DEF Elsewhere
  <2>. QED  BY <1>1, <1>2, <1>6, <2>1, Described
<1>8. \A i, j \in DOMAIN wire'[Hi] : IsAnswer(wire'[Hi][i]) /\ IsAnswer(wire'[Hi][j]) => i = j
  <2>1. \A i \in DOMAIN wire'[Hi] : IsAnswer(wire'[Hi][i]) => i = Len(wire[Hi]) + 1
    BY <1>3, <1>7 DEF IsAnswer, AnswerComing, Coming
  <2>. QED  BY <2>1, Zenon
<1>9. \A x \in Coming(Hi)' : IsAnswer(x) => x = m
  BY <1>3, <1>7 DEF IsAnswer, AnswerComing
<1>10. \A j \in DOMAIN wire'[Hi] : IsJoin(wire'[Hi][j]) => j = 1 /\ Blank(Hi)
  <2>1. \A j \in DOMAIN wire'[Hi] : IsJoin(wire'[Hi][j])
            => j \in DOMAIN wire[Hi] /\ wire'[Hi][j] = wire[Hi][j]
    BY <1>6, <1>7 DEF IsJoin
  <2>. QED  BY <2>1 DEF InOrder, HeadInv
<1>11. JoinComing(Hi)' => JoinComing(Hi)
  BY <1>6, <1>7 DEF JoinComing, IsJoin
<1>12. ~Working'
  BY <1>4 DEF Working
<1>13. pc[Hi] # None => /\ pc[Lo].far = pc[Hi].id /\ pc[Lo].heard = pc[Hi].offer
                        /\ pc[Hi].sig = "have-local-offer"
  BY <1>1 DEF InOrder, PassInv
<1>14. pc[Hi] # None => Answered(m.pc)'
  <2>1. PICK l : l = pc[Lo].id
    OBVIOUS
  <2>2. pc[Hi] # None => Answered(l)'
    BY <1>1, <1>2, <1>13, <2>1 DEF Answered
  <2>. QED  BY <1>6, <2>1, <2>2
<1>15. CastInv'
  BY <1>1, <1>2, <1>4, <1>6, <1>7 DEF InOrder, CastInv
<1>16. OneInv'
  BY <1>2, <1>3, <1>4, <1>8, <1>12 DEF InOrder, OneInv
<1>17. FirstInv'
  BY <1>2, <1>3 DEF InOrder, FirstInv, Newcomer
<1>18. OutInv'
  BY <1>2, <1>3 DEF InOrder, OutInv, OutOfCall
<1>19. HeadInv'
  BY <1>2, <1>10 DEF HeadInv
<1>20. MeetInv'
  BY <1>2, <1>3, <1>11 DEF InOrder, MeetInv, Meets
<1>21. DoneInv'
  <2>1. FarEndGone(Hi)' <=> FarEndGone(Hi)
    BY <1>1, <1>2 DEF FarEndGone, Other
  <2>. QED  BY <1>1, <1>2, <1>3, <2>1 DEF InOrder, DoneInv
<1>22. PassInv'
  BY <1>2, <1>4 DEF InOrder, PassInv
<1>23. HeardInv'
  <2>1. pc[Hi] # None => \A x \in Coming(Hi)' : IsAnswer(x)
            => pc[Hi].sig = "have-local-offer" /\ Answered(x.pc)'
    BY <1>9, <1>13, <1>14
  <2>. QED  BY <1>2, <1>3, <1>13, <2>1 DEF HeardInv
<1>. QED  BY <1>15, <1>16, <1>17, <1>18, <1>19, <1>20, <1>21, <1>22, <1>23 DEF InOrder

----------------------------------------------------------------------------
(* Every step of an orderly call is one of these.                          *)

HiMoves == HiRests \/ HiCloses \/ HiAsks \/ HiJoins \/ HiOffers \/ HiHears \/ HiAccepts
LoMoves == LoRests \/ LoRenews \/ LoCloses \/ LoJoins \/ LoHears \/ LoSets \/ LoAnswers
Moves(u) == IF u = Hi THEN HiMoves ELSE LoMoves

LEMMA OrderlyBefore ==
    ASSUME TypeOK, Next, Orderly'
    PROVE  /\ Orderly
           /\ \A u \in Tabs : /\ ~Share(u) /\ ~Vanish(u)
                              /\ ~NetworkFails(u) /\ ~NetworkStaysDown(u)
                              /\ Join(u) => ~TooSoon(u)
<1>1. /\ shares \in Nat /\ faults \in Nat /\ hurried \in BOOLEAN
      /\ shares' = 0 /\ faults' = 0 /\ hurried' = FALSE
  <2>1. hurried' \in BOOLEAN
    BY StepTypes DEF TypeOK
  <2>. QED  BY <2>1, TypesAre DEF Orderly, Undisturbed, TypeOK
<1>2. ASSUME NEW u \in Tabs
      PROVE  ~Share(u) /\ ~Vanish(u) /\ ~NetworkFails(u) /\ ~NetworkStaysDown(u)
  BY <1>1 DEF Share, Vanish, NetworkFails, NetworkStaysDown
<1>3. ASSUME NEW u \in Tabs, Join(u) PROVE ~TooSoon(u) /\ Orderly
  BY <1>1, <1>3 DEF Join, Orderly, Undisturbed
<1>4. ASSUME UNCHANGED counters PROVE Orderly
  BY <1>1, <1>4 DEF counters, Orderly, Undisturbed
<1>5. ASSUME NEW u \in Tabs, TaskDone(u) PROVE Orderly
  BY <1>4, <1>5 DEF TaskDone, OfferMade, OfferRefused, Retry, RolledBack, RemoteOfferSet,
                    AnswerMade, AnswerSet, Settles
<1>6. ASSUME NEW u \in Tabs, MessageRead(u) PROVE Orderly
  BY <1>4, <1>6 DEF MessageRead, ReceiveJoin, ReceiveNothing, ReceiveLeave, ReceiveUnheard,
                    ReceiveOffer, ReceiveAnswer, ReceiveCandidate, Receive
<1>7. ASSUME NEW u \in Tabs, ConnectionMade(u) \/ TimerFires(u) \/ Leave(u) PROVE Orderly
  BY <1>4, <1>7 DEF ConnectionMade, TimerFires, Leave
<1>8. ASSUME NEW u \in Tabs, FarEndNoticed(u) PROVE Orderly
  BY <1>1, <1>8 DEF FarEndNoticed, ConnectionLost, Orderly, Undisturbed
<1>. QED  BY <1>2, <1>3, <1>5, <1>6, <1>7, <1>8 DEF Next, Progress

\* What attempt n asks of the browser.
Asked(u, p, n) == IF u = Hi /\ p.sig = "stable" THEN {Task("offer", p.id, n, 0)} ELSE {}

\* The attempt keeps the connection old, or makes the connection p.
Attempt(u, old, rest, n, p, ts) ==
    /\ pc' = [pc EXCEPT ![u] = p] /\ tasks' = [tasks EXCEPT ![u] = ts]
    /\ \/ old # None /\ p = old /\ ts = rest \cup Asked(u, old, n)
       \/ /\ old = None \/ n = 2
          /\ New(p)
          /\ ts = (rest \cap Waits(u)) \cup
                  (IF queued[u] # {} THEN Wait(n) ELSE Asked(u, p, n))

LEMMA Attempted ==
    ASSUME TypeOK, NEW u \in Tabs, NEW old \in {pc[u], None}, NEW rest, NEW n \in 0..3,
           Connect(u, old, rest, n)
    PROVE  \E p, ts : Attempt(u, old, rest, n, p, ts)
<1>. DEFINE relay == n = 2 /\ HasTurn
            kept == old # None /\ ~(relay /\ old.conn # "connected")
            p == IF kept THEN old ELSE NewPeer(made + 1, relay)
            fails == ~kept /\ queued[u] # {}
            more == IF fails THEN Wait(n)
                    ELSE IF ShouldInitiateOffer(u) THEN Renegotiation(p, n) ELSE {}
            ts == (IF kept THEN rest ELSE rest \cap Waits(u)) \cup more
<1>1. pc' = [pc EXCEPT ![u] = p] /\ tasks' = [tasks EXCEPT ![u] = ts]
  BY Zenon DEF Connect
<1>2. (IF ShouldInitiateOffer(u) THEN Renegotiation(p, n) ELSE {}) = Asked(u, p, n)
  BY DEF ShouldInitiateOffer, Renegotiation, Asked
<1>3. CASE kept
  <2>1. p = old /\ more = Asked(u, old, n)
    BY <1>2, <1>3
  <2>. HIDE DEF more
  <2>. QED  BY <1>1, <1>3, <2>1, Zenon DEF Attempt
<1>4. CASE ~kept
  <2>1. NewPeer(made + 1, relay) \in Peers(Nat, Nat)
    BY TypesAre, TabAssumption DEF NewPeer, Peers
  <2>2. New(p)
    BY <1>4, <2>1, NoneAssumption DEF New, NewPeer
  <2>3. more = IF queued[u] # {} THEN Wait(n) ELSE Asked(u, p, n)
    BY <1>2, <1>4
  <2>4. old = None \/ n = 2
    BY <1>4
  <2>5. Attempt(u, old, rest, n, p, ts)
    <3>. HIDE DEF more, p
    <3>. QED  BY <1>1, <1>4, <2>2, <2>3, <2>4 DEF Attempt
  <2>. QED  BY <2>5, Zenon
<1>. QED  BY <1>3, <1>4

\* What is left waits for an attempt, or is asked for.
LEMMA AskedOnce ==
    ASSUME NEW u, NEW p, NEW n \in Nat
    PROVE  /\ \A s, t \in Wait(n) : s = t
           /\ \A t \in Wait(n) : t.do = "retry"
           /\ \A s, t \in Asked(u, p, n) : s = t
           /\ \A t \in Asked(u, p, n) : u = Hi /\ t.do = "offer" /\ p.sig = "stable"
BY DEF Wait, Asked, Task

\* A tab does nothing that matters, ...
Rests(u) ==
    /\ Steady(u) /\ (Idle(u) \/ (Takes(u) /\ ~IsLeave(Head(wire[u]))))
    /\ Elsewhere(Other(u), <<>>)
    /\ Still(pc[u], pc'[u]) /\ tasks'[u] = tasks[u]
    /\ pc[u] # None => pc'[u].conn = pc[u].conn \/ (pc'[u].conn = "connected" /\ Linked)

\* ... or closes its connection.
Closes(u) ==
    /\ pc'[u] = None /\ tasks'[u] \subseteq tasks[u] /\ OnlyWaits(tasks'[u])
    /\ joins' = joins
    /\ \/ /\ call[u] /\ ~call'[u] /\ queued'[u] = {} /\ Idle(u)
          /\ Elsewhere(Other(u), <<Msg("voice_leave", 0, 0)>>)
       \/ /\ Steady(u) /\ Elsewhere(Other(u), <<>>)
          /\ \/ Idle(u) /\ (u = Hi => pc[u] # None /\ pc[u].deal # 0)
             \/ Takes(u) /\ IsLeave(Head(wire[u]))

LEMMA RestsMoves ==
    ASSUME NEW u \in Tabs, Rests(u)
    PROVE  Moves(u)
<1>1. Other(Hi) = Lo /\ Other(Lo) = Hi /\ Hi # Lo
  BY TabAssumption DEF Other
<1>2. CASE u = Hi
  <2>1. HiRests
    BY <1>1, <1>2 DEF Rests, HiRests
  <2>. QED  BY <1>2, <2>1 DEF Moves, HiMoves
<1>3. CASE u = Lo
  <2>1. LoRests
    BY <1>1, <1>3 DEF Rests, LoRests, OnlyWaits
  <2>. QED  BY <1>1, <1>3, <2>1 DEF Moves, LoMoves
<1>. QED  BY <1>2, <1>3 DEF Tabs

LEMMA ClosesMoves ==
    ASSUME NEW u \in Tabs, Closes(u)
    PROVE  Moves(u)
<1>1. Other(Hi) = Lo /\ Other(Lo) = Hi /\ Hi # Lo
  BY TabAssumption DEF Other
<1>2. CASE u = Hi
  <2>1. HiCloses
    BY <1>1, <1>2 DEF Closes, HiCloses
  <2>. QED  BY <1>2, <2>1 DEF Moves, HiMoves
<1>3. CASE u = Lo
  <2>1. LoCloses
    BY <1>1, <1>3 DEF Closes, LoCloses
  <2>. QED  BY <1>1, <1>3, <2>1 DEF Moves, LoMoves
<1>. QED  BY <1>2, <1>3 DEF Tabs

LEMMA LeaveMoves ==
    ASSUME TypeOK, NEW u \in Tabs, Leave(u)
    PROVE  Moves(u)
<1>1. /\ pc' = [pc EXCEPT ![u] = None] /\ tasks' = [tasks EXCEPT ![u] = Waits(u)]
      /\ queued' = [queued EXCEPT ![u] = {}] /\ call' = [call EXCEPT ![u] = FALSE]
      /\ SendAll(u, <<Msg("voice_leave", 0, 0)>>) /\ call[u] /\ joins' = joins
  BY DEF Leave, Cleanup, Closed, Send, counters
<1>2. /\ Elsewhere(Other(u), <<Msg("voice_leave", 0, 0)>>)
      /\ wire'[u] = wire[u] /\ pc'[u] = None /\ tasks'[u] = Waits(u)
  <2>1. /\ \E q : queued' = [queued EXCEPT ![u] = q]
        /\ \E b : call' = [call EXCEPT ![u] = b]
    BY <1>1
  <2>. QED  BY <1>1, <2>1, Untouched
<1>3. queued'[u] = {} /\ ~call'[u]
  BY <1>1, TypesAre
<1>4. Closes(u)
  BY <1>1, <1>2, <1>3 DEF Closes, Idle, Waits, OnlyWaits
<1>. QED  BY <1>4, ClosesMoves

\* A tab joins that was never in the call, or when all has been said.
LEMMA JoinMoves ==
    ASSUME TypeOK, InOrder, NEW u \in Tabs, Join(u), ~TooSoon(u)
    PROVE  Moves(u)
<1>1. /\ ~call[u] /\ Connect(u, pc[u], tasks[u], 1)
      /\ SendAll(u, <<Msg("voice_join", 0, 0)>>)
      /\ call' = [call EXCEPT ![u] = TRUE] /\ joins' = [joins EXCEPT ![u] = @ + 1]
      /\ UNCHANGED queued
  BY DEF Join, Send
<1>2. joins[u] = 0 \/ Quiet
  BY TypesAre DEF TooSoon, TypeOK
<1>3. /\ queued[u] = {}
      /\ u = Hi => HiAlone /\ tasks[Hi] = {}
      /\ u = Lo => wire[Hi] = <<>> /\ Blank(Hi) /\ (call[Hi] /\ Pending => Meets)
  <2>1. queued[u] = {}
    BY <1>1 DEF Tabs, InOrder, OutInv, OutOfCall
  <2>2. CASE Quiet
    <3>1. /\ wire[Hi] = <<>> /\ wire[Lo] = <<>> /\ tasks[Hi] = {} /\ tasks[Lo] = {}
          /\ ~AnswerComing /\ ~OfferComing /\ ~Working
      BY <2>2 DEF Quiet, Tabs, AnswerComing, OfferComing, Working, Coming
    <3>. QED  BY <1>1, <2>1, <3>1 DEF HiAlone, Pending, InOrder, OutInv, LastLeave
  <2>3. CASE u = Hi /\ joins[u] = 0
    <3>1. tasks[Hi] = {} /\ wire[Lo] = <<>> /\ Blank(Lo) /\ ~AnswerComing
      BY <2>3 DEF InOrder, FirstInv, Newcomer
    <3>. QED  BY <2>1, <2>3, <3>1, TabAssumption
              DEF HiAlone, OfferComing, Working, Coming, Blank, InOrder, CastInv
  <2>4. CASE u = Lo /\ joins[u] = 0
    BY <2>1, <2>4, TabAssumption DEF InOrder, FirstInv, Newcomer, MeetInv
  <2>. QED  BY <1>2, <2>2, <2>3, <2>4 DEF Tabs
<1>4. PICK p, ts :
          /\ pc' = [pc EXCEPT ![u] = p] /\ tasks' = [tasks EXCEPT ![u] = ts]
          /\ \/ pc[u] # None /\ p = pc[u] /\ ts = tasks[u] \cup Asked(u, p, 1)
             \/ New(p) /\ ts = (tasks[u] \cap Waits(u)) \cup Asked(u, p, 1)
  <2>1. PICK old, rest, n : old = pc[u] /\ rest = tasks[u] /\ n = 1
    OBVIOUS
  <2>2. old \in {pc[u], None} /\ n \in 0..3 /\ Connect(u, old, rest, n)
    BY <1>1, <2>1
  <2>3. PICK p, ts : Attempt(u, old, rest, n, p, ts)
    BY <2>2, Attempted
  <2>4. \/ pc[u] # None /\ p = pc[u] /\ ts = tasks[u] \cup Asked(u, p, 1)
        \/ New(p) /\ ts = (tasks[u] \cap Waits(u)) \cup Asked(u, p, 1)
    BY <1>3, <2>1, <2>3 DEF Attempt
  <2>5. pc' = [pc EXCEPT ![u] = p] /\ tasks' = [tasks EXCEPT ![u] = ts]
    BY <2>3 DEF Attempt
  <2>. QED  BY <2>4, <2>5, Zenon
<1>5. /\ Elsewhere(Other(u), <<Msg("voice_join", 0, 0)>>)
      /\ wire'[u] = wire[u] /\ pc'[u] = p /\ tasks'[u] = ts
  <2>1. (UNCHANGED queued) /\ \E b : call' = [call EXCEPT ![u] = b]
    BY <1>1
  <2>. QED  BY <1>1, <1>4, <2>1, Untouched
<1>6. /\ call'[u] /\ joins'[u] # 0 /\ joins'[Other(u)] = joins[Other(u)]
  <2>1. joins \in [Tabs -> Nat] /\ call \in [Tabs -> BOOLEAN]
    BY TypesAre DEF TypeOK
  <2>2. Other(u) \in Tabs /\ Other(u) # u
    BY OthersAre
  <2>. QED  BY <1>1, <2>1, <2>2
<1>7. Other(Hi) = Lo /\ Other(Lo) = Hi /\ Hi # Lo
  BY TabAssumption DEF Other
<1>8. CASE u = Hi
  <2>1. tasks'[Hi] = IF pc'[Hi].sig = "stable" THEN {Task("offer", pc'[Hi].id, 1, 0)} ELSE {}
    BY <1>3, <1>4, <1>5, <1>8 DEF Asked
  <2>2. HiJoins
    BY <1>1, <1>3, <1>4, <1>5, <1>6, <1>7, <1>8, <2>1 DEF HiJoins, Idle
  <2>. QED  BY <1>8, <2>2 DEF Moves, HiMoves
<1>9. CASE u = Lo
  <2>1. \/ New(pc'[Lo]) /\ OnlyWaits(tasks'[Lo])
        \/ pc'[Lo] = pc[Lo] /\ tasks'[Lo] = tasks[Lo]
    BY <1>4, <1>5, <1>7, <1>9 DEF Asked, Waits, OnlyWaits
  <2>2. LoJoins
    BY <1>1, <1>3, <1>5, <1>6, <1>7, <1>9, <2>1 DEF LoJoins, Idle
  <2>. QED  BY <1>7, <1>9, <2>2 DEF Moves, LoMoves
<1>. QED  BY <1>8, <1>9 DEF Tabs

\* Who is asked for what.
LEMMA SettlesWhose ==
    ASSUME TypeOK, InOrder, NEW u \in Tabs, NEW t, NEW do, Settles(u, t, do), do # "retry"
    PROVE  /\ do \in {"offer", "accept"} => u = Hi
           /\ do \in {"remote", "answer"} => u = Lo
           /\ do # "rollback"
           /\ t \in tasks[u] /\ t.do = do
           /\ pc[u] # None /\ pc[u] \in Peers(0..made, 0..offers) /\ t.pc = pc[u].id
           /\ UNCHANGED <<call, joins>>
<1>1. t \in tasks[u] /\ t.do = do /\ UNCHANGED <<call, joins>>
  BY DEF Settles, counters
<1>2. /\ do \in {"offer", "accept"} => u = Hi
      /\ do \in {"remote", "answer"} => u = Lo
      /\ do # "rollback"
  BY <1>1 DEF InOrder, CastInv, Tabs
<1>. QED  BY <1>1, <1>2, SettledTypes

LEMMA OfferMadeMoves ==
    ASSUME TypeOK, InOrder, NEW u \in Tabs, NEW t, OfferMade(u, t)
    PROVE  Moves(u)
<1>. DEFINE p == [pc[u] EXCEPT !.sig = "have-local-offer", !.offer = offers + 1]
            ms == <<Msg("webrtc_offer", t.pc, offers + 1)>> \o CandidateFound(pc[u])
<1>1. /\ Settles(u, t, "offer") /\ offers' = offers + 1
      /\ tasks' = [tasks EXCEPT ![u] = tasks[u] \ {t}]
      /\ SendAll(u, ms) /\ UNCHANGED queued
  BY DEF OfferMade
<1>2. /\ u = Hi /\ t \in tasks[u] /\ t.do = "offer"
      /\ pc[u] # None /\ pc[u] \in Peers(0..made, 0..offers) /\ t.pc = pc[u].id
      /\ UNCHANGED <<call, joins>>
  BY <1>1, SettlesWhose
<1>3. pc' = [pc EXCEPT ![u] = p]
  BY <1>1 DEF OfferMade
<1>4. /\ Elsewhere(Other(u), ms)
      /\ wire'[u] = wire[u] /\ pc'[u] = p /\ tasks'[u] = tasks[u] \ {t}
  <2>1. UNCHANGED queued /\ UNCHANGED call
    BY <1>1, <1>2
  <2>. HIDE DEF p, ms
  <2>. QED  BY <2>1, <1>1, <1>3, Untouched
<1>5. /\ p # None /\ p.id = pc[u].id /\ p.sig = "have-local-offer" /\ p.offer = offers + 1
      /\ p.far = pc[u].far /\ p.deal = pc[u].deal /\ p.conn = pc[u].conn
  <2>1. p \in Peers(Nat, Nat)
    <3>1. PICK q, k : q = pc[u] /\ k = offers + 1
      OBVIOUS
    <3>2. q \in Peers(Nat, Nat) /\ k \in Nat /\ p = [q EXCEPT !.sig = "have-local-offer", !.offer = k]
      BY <1>2, <3>1, PeerIs, TypesAre
    <3>3. [q EXCEPT !.sig = "have-local-offer", !.offer = k] \in Peers(Nat, Nat)
      BY <3>2 DEF Peers
    <3>. QED  BY <3>2, <3>3
  <2>. QED  BY <1>2, <2>1, NoneAssumption DEF Peers
<1>6. HiOffers
  <2>1. Steady(u) /\ Idle(u) /\ Other(u) = Lo
    BY <1>1, <1>2, <1>4 DEF Steady, Idle, Other
  <2>2. Elsewhere(Lo, <<Msg("webrtc_offer", pc[u].id, offers + 1)>> \o CandidateFound(pc[u]))
    BY <1>2, <1>4, <2>1
  <2>. HIDE DEF p
  <2>. QED  BY <1>2, <1>4, <1>5, <2>1, <2>2 DEF HiOffers
<1>. QED  BY <1>2, <1>6 DEF Moves, HiMoves

LEMMA RemoteOfferSetMoves ==
    ASSUME TypeOK, InOrder, NEW u \in Tabs, NEW t, RemoteOfferSet(u, t)
    PROVE  Moves(u)
<1>. DEFINE p == [pc[u] EXCEPT !.sig = "have-remote-offer", !.far = t.far, !.heard = t.n,
                               !.cands = @ \cup queued[u]]
            s == [t EXCEPT !.do = "answer"]
            ts == (tasks[u] \ {t}) \cup {s}
<1>1. /\ Settles(u, t, "remote")
      /\ tasks' = [tasks EXCEPT ![u] = ts]
      /\ queued' = [queued EXCEPT ![u] = {}]
      /\ UNCHANGED wire
  BY DEF RemoteOfferSet, FlushPendingCandidates
<1>2. /\ u = Lo /\ t \in tasks[u] /\ t.do = "remote"
      /\ pc[u] # None /\ pc[u] \in Peers(0..made, 0..offers)
      /\ UNCHANGED <<call, joins>> /\ t \in TaskTypes(0..made, 0..offers)
  BY <1>1, SettlesWhose, SettledTypes
<1>3. pc' = [pc EXCEPT ![u] = p]
  BY <1>2 DEF RemoteOfferSet, FlushPendingCandidates, Peers
<1>4. wire' = [wire EXCEPT ![u] = wire[u]] /\ queued'[u] = {}
  BY <1>1, TypesAre
<1>5. /\ Elsewhere(Other(u), <<>>)
      /\ wire'[u] = wire[u] /\ pc'[u] = p /\ tasks'[u] = ts /\ call'[u] = call[u]
  <2>1. (\E q : queued' = [queued EXCEPT ![u] = q]) /\ UNCHANGED call
    BY <1>1, <1>2
  <2>. HIDE DEF p, ts
  <2>. QED  BY <2>1, <1>1, <1>3, <1>4, UntouchedBy
<1>6. /\ p # None /\ p.id = pc[u].id /\ p.sig = "have-remote-offer"
      /\ p.far = t.far /\ p.heard = t.n
  <2>1. p \in Peers(Nat, Nat)
    <3>1. /\ pc[u] \in Peers(Nat, Nat) /\ t.far \in Nat /\ t.n \in Nat
          /\ pc[u].cands \cup queued[u] \subseteq Nat
      <4>1. pc[u] \in Peers(Nat, Nat) /\ queued[u] \subseteq 0..made
        BY <1>2, PeerIs, TypesAre
      <4>2. t.far \in 0..made /\ t.n \in 0..offers
        BY <1>2 DEF TaskTypes
      <4>. QED  BY <4>1, <4>2, TypesAre DEF Peers
    <3>. QED  BY <3>1 DEF Peers
  <2>. QED  BY <1>2, <2>1, NoneAssumption DEF Peers
<1>7. s.do = "answer" /\ s.n = t.n /\ s.far = t.far
  BY <1>2 DEF TaskTypes
<1>8. LoSets
  <2>1. Steady(u) /\ Idle(u) /\ Other(u) = Hi
    BY <1>2, <1>4, <1>5, TabAssumption DEF Steady, Idle, Other
  <2>. HIDE DEF p, s
  <2>. QED  BY <1>2, <1>5, <1>6, <1>7, <2>1 DEF LoSets
<1>. QED  BY <1>2, <1>8, TabAssumption DEF Moves, LoMoves

LEMMA AnswerMadeMoves ==
    ASSUME TypeOK, InOrder, NEW u \in Tabs, NEW t, AnswerMade(u, t)
    PROVE  Moves(u)
<1>. DEFINE p == [pc[u] EXCEPT !.sig = "stable", !.deal = pc[u].heard]
            ms == <<Msg("webrtc_answer", t.pc, pc[u].heard)>> \o CandidateFound(pc[u])
<1>1. /\ Settles(u, t, "answer")
      /\ tasks' = [tasks EXCEPT ![u] = tasks[u] \ {t}]
      /\ UNCHANGED queued
  BY DEF AnswerMade
<1>2. /\ u = Lo /\ t \in tasks[u] /\ t.do = "answer"
      /\ pc[u] # None /\ pc[u] \in Peers(0..made, 0..offers) /\ t.pc = pc[u].id
      /\ UNCHANGED <<call, joins>>
  BY <1>1, SettlesWhose
<1>3. pc[u].sig = "have-remote-offer"
  BY <1>2 DEF InOrder, PassInv
<1>4. pc' = [pc EXCEPT ![u] = p] /\ SendAll(u, ms)
  <2>1. /\ pc' = [pc EXCEPT ![u].sig = "stable", ![u].deal = pc[u].heard]
        /\ SendAll(u, ms)
    BY <1>3, Zenon DEF AnswerMade
  <2>. QED  BY <2>1
<1>5. /\ Elsewhere(Other(u), ms)
      /\ wire'[u] = wire[u] /\ pc'[u] = p /\ tasks'[u] = tasks[u] \ {t}
  <2>1. UNCHANGED queued /\ UNCHANGED call
    BY <1>1, <1>2
  <2>. HIDE DEF p, ms
  <2>. QED  BY <1>1, <1>4, <2>1, Untouched
<1>6. /\ p # None /\ p.id = pc[u].id /\ p.sig = "stable" /\ p.far = pc[u].far
      /\ p.heard = pc[u].heard /\ p.deal = pc[u].heard
  <2>1. p \in Peers(Nat, Nat)
    <3>1. pc[u] \in Peers(Nat, Nat)
      BY <1>2, PeerIs
    <3>. QED  BY <3>1 DEF Peers
  <2>. QED  BY <1>2, <2>1, NoneAssumption DEF Peers
<1>7. LoAnswers
  <2>1. Steady(u) /\ Idle(u) /\ Other(u) = Hi
    BY <1>1, <1>2, <1>5, TabAssumption DEF Steady, Idle, Other
  <2>2. Elsewhere(Hi, <<Msg("webrtc_answer", pc[u].id, pc[u].heard)>> \o CandidateFound(pc[u]))
    BY <1>2, <1>5, <2>1
  <2>. HIDE DEF p
  <2>. QED  BY <1>2, <1>5, <1>6, <2>1, <2>2 DEF LoAnswers
<1>. QED  BY <1>2, <1>7, TabAssumption DEF Moves, LoMoves

LEMMA AnswerSetMoves ==
    ASSUME TypeOK, InOrder, NEW u \in Tabs, NEW t, AnswerSet(u, t)
    PROVE  Moves(u)
<1>. DEFINE p == [pc[u] EXCEPT !.sig = "stable", !.far = t.far, !.deal = pc[u].offer]
<1>1. /\ Settles(u, t, "accept")
      /\ tasks' = [tasks EXCEPT ![u] = tasks[u] \ {t}]
      /\ UNCHANGED <<queued, wire>>
  BY DEF AnswerSet
<1>2. /\ u = Hi /\ t \in tasks[u] /\ t.do = "accept"
      /\ pc[u] # None /\ pc[u] \in Peers(0..made, 0..offers)
      /\ UNCHANGED <<call, joins>> /\ t \in TaskTypes(0..made, 0..offers)
  BY <1>1, SettlesWhose, SettledTypes
<1>3. pc[u].sig = "have-local-offer"
  BY <1>2 DEF InOrder, HeardInv
<1>4. pc' = [pc EXCEPT ![u] = p]
  BY <1>2, <1>3 DEF AnswerSet
<1>5. wire' = [wire EXCEPT ![u] = wire[u]] /\ queued'[u] = queued[u]
  BY <1>1, TypesAre
<1>6. /\ Elsewhere(Other(u), <<>>) /\ call'[u] = call[u]
      /\ wire'[u] = wire[u] /\ pc'[u] = p /\ tasks'[u] = tasks[u] \ {t}
  <2>1. UNCHANGED queued /\ UNCHANGED call
    BY <1>1, <1>2
  <2>. HIDE DEF p
  <2>. QED  BY <1>1, <1>4, <1>5, <2>1, UntouchedBy
<1>7. /\ p # None /\ p.id = pc[u].id /\ p.sig = "stable" /\ p.offer = pc[u].offer
      /\ p.far = t.far /\ p.deal = pc[u].offer /\ p.conn = pc[u].conn
  <2>1. p \in Peers(Nat, Nat)
    <3>1. pc[u] \in Peers(Nat, Nat) /\ t.far \in Nat
      <4>1. t.far \in 0..made
        BY <1>2 DEF TaskTypes
      <4>. QED  BY <1>2, <4>1, PeerIs, TypesAre
    <3>. QED  BY <3>1 DEF Peers
  <2>. QED  BY <1>2, <2>1, NoneAssumption DEF Peers
<1>8. HiAccepts
  <2>1. Steady(u) /\ Idle(u) /\ Other(u) = Lo
    BY <1>2, <1>5, <1>6 DEF Steady, Idle, Other
  <2>. HIDE DEF p
  <2>. QED  BY <1>2, <1>3, <1>6, <1>7, <2>1 DEF HiAccepts
<1>. QED  BY <1>2, <1>8 DEF Moves, HiMoves

LEMMA RetryMoves ==
    ASSUME TypeOK, InOrder, NEW u \in Tabs, NEW t, Retry(u, t)
    PROVE  Moves(u)
<1>1. /\ t \in tasks[u] /\ t.do = "retry" /\ Connect(u, pc[u], tasks[u] \ {t}, t.n)
      /\ UNCHANGED <<call, joins, queued, wire>>
  BY DEF Retry, Settles, counters
<1>2. PICK old, rest, n : old = pc[u] /\ rest = tasks[u] \ {t} /\ n = t.n
  OBVIOUS
<1>3. n \in 0..3 /\ old \in {pc[u], None} /\ Connect(u, old, rest, n)
  <2>1. t \in TaskTypes(0..made, 0..offers)
    BY <1>1, TypesAre DEF Open
  <2>2. t.n \in 0..3
    BY <1>1, <2>1 DEF TaskTypes
  <2>. QED  BY <1>1, <1>2, <2>2
<1>4. PICK p, ts : Attempt(u, old, rest, n, p, ts)
  BY <1>3, Attempted
<1>5. /\ pc' = [pc EXCEPT ![u] = p] /\ tasks' = [tasks EXCEPT ![u] = ts]
      /\ \/ old # None /\ p = old /\ ts = rest \cup Asked(u, old, n)
         \/ New(p) /\ ts = (rest \cap Waits(u)) \cup
                           (IF queued[u] # {} THEN Wait(n) ELSE Asked(u, p, n))
  BY <1>4 DEF Attempt
<1>6. /\ Elsewhere(Other(u), <<>>) /\ Works(u) /\ pc'[u] = p /\ tasks'[u] = ts
      /\ queued'[u] = queued[u]
  BY <1>1, <1>5, DoneAlone
<1>7. Steady(u) /\ Idle(u) /\ joins[u] # 0 /\ Hi # Lo
  BY <1>1, <1>6, TabAssumption DEF Steady, Idle, Works, InOrder, FirstInv, Newcomer, Tabs
<1>8. n \in Nat
  BY <1>3
<1>9. CASE u = Hi
  <2>1. rest = {} /\ HiAlone
    BY <1>1, <1>2, <1>9 DEF InOrder, OneInv, HiAlone
  <2>2. call[Hi] => joins[Lo] # 0 /\ ~JoinComing(Hi)
    <3>1. Pending /\ ~Meets
      BY <1>1, <1>9 DEF Pending, Meets, Task
    <3>. QED  BY <3>1 DEF InOrder, MeetInv
  <2>3. ts \in {{}, Wait(n), Asked(u, p, n)}
    BY <1>5, <2>1
  <2>4. /\ \A x, y \in ts : x = y
        /\ \A x \in ts : x.do = "retry" \/ (x.do = "offer" /\ p.sig = "stable")
    BY <1>8, <2>3, AskedOnce
  <2>5. \/ New(p)
        \/ /\ pc[Hi] # None /\ p = pc[Hi]
           /\ pc[Hi].deal # 0 => pc[Hi].conn = "disconnected" /\ FarEndGone(Hi)
    <3>1. Pending
      BY <1>1, <1>9 DEF Pending
    <3>. QED  BY <1>2, <1>5, <1>9, <3>1 DEF InOrder, DoneInv
  <2>6. Other(u) = Lo
    BY <1>9 DEF Other
  <2>7. HiAsks
    BY <1>6, <1>7, <1>9, <2>1, <2>2, <2>4, <2>5, <2>6 DEF HiAsks, Still, SameTalk
  <2>. QED  BY <1>9, <2>7 DEF Moves, HiMoves
<1>10. CASE u = Lo
  <2>1. Asked(u, p, n) = {} /\ Asked(u, old, n) = {} /\ Other(u) = Hi
    BY <1>7, <1>10 DEF Asked, Other
  <2>2. CASE old # None /\ p = old /\ ts = rest \cup Asked(u, old, n)
    <3>1. LoRests
      BY <1>1, <1>2, <1>6, <1>7, <1>10, <2>1, <2>2 DEF LoRests, Still, SameTalk, OnlyWaits
    <3>. QED  BY <1>7, <1>10, <3>1 DEF Moves, LoMoves
  <2>3. CASE New(p) /\ ts = (rest \cap Waits(u)) \cup
                            (IF queued[u] # {} THEN Wait(n) ELSE Asked(u, p, n))
    <3>1. OnlyWaits(ts)
      BY <1>8, <2>1, <2>3, AskedOnce DEF OnlyWaits, Waits
    <3>2. LoRenews
      BY <1>6, <1>7, <1>10, <2>1, <2>3, <3>1 DEF LoRenews
    <3>. QED  BY <1>7, <1>10, <3>2 DEF Moves, LoMoves
  <2>. QED  BY <1>5, <2>2, <2>3
<1>. QED  BY <1>9, <1>10 DEF Tabs

LEMMA TaskDoneMoves ==
    ASSUME TypeOK, InOrder, NEW u \in Tabs, TaskDone(u)
    PROVE  Moves(u)
<1>1. PICK t \in tasks[u] :
          \/ OfferMade(u, t) \/ OfferRefused(u, t) \/ Retry(u, t)
          \/ RolledBack(u, t) \/ RemoteOfferSet(u, t) \/ AnswerMade(u, t) \/ AnswerSet(u, t)
  BY DEF TaskDone
<1>2. ~OfferRefused(u, t)
  <2>. SUFFICES ASSUME OfferRefused(u, t) PROVE FALSE
    OBVIOUS
  <2>1. u = Hi /\ pc[u] # None /\ pc[u].sig = "have-remote-offer"
    BY SettlesWhose DEF OfferRefused
  <2>. QED  BY <2>1 DEF InOrder, CastInv
<1>3. ~RolledBack(u, t)
  BY SettlesWhose DEF RolledBack
<1>. QED  BY <1>1, <1>2, <1>3, OfferMadeMoves, RetryMoves, RemoteOfferSetMoves,
          AnswerMadeMoves, AnswerSetMoves

\* A message is read, and nothing done about it.
LEMMA IgnoredMoves ==
    ASSUME TypeOK, NEW u \in Tabs, NEW type, Receive(u, type), type # "voice_leave",
           UNCHANGED <<pc, queued, tasks>>
    PROVE  Moves(u)
<1>1. UNCHANGED <<pc, tasks>> /\ UNCHANGED queued /\ joins' = joins
  BY DEF Receive, counters
<1>2. /\ Elsewhere(Other(u), <<>>) /\ Reads(u) /\ pc'[u] = pc[u] /\ tasks'[u] = tasks[u]
      /\ Head(wire[u]).type = type
  BY <1>1, OnlyReads
<1>3. Rests(u)
  BY <1>1, <1>2 DEF Rests, Steady, Takes, Reads, IsLeave, Still, SameTalk
<1>. QED  BY <1>3, RestsMoves

\* Who is sent what.
LEMMA ReadsWhose ==
    ASSUME TypeOK, InOrder, NEW u \in Tabs, NEW type, Receive(u, type)
    PROVE  /\ type # "screens"
           /\ type = "webrtc_offer" => u = Lo
           /\ type = "webrtc_answer" => u = Hi
           /\ wire[u] # <<>> /\ Head(wire[u]) \in Coming(u) /\ Head(wire[u]).type = type
           /\ joins' = joins /\ call' = call
<1>1. /\ wire[u] # <<>> /\ Head(wire[u]).type = type /\ joins' = joins /\ call' = call
  BY DEF Receive, counters
<1>2. Head(wire[u]) \in Coming(u)
  <2>1. wire[u] \in Seq(MessageTypes(0..made, 0..offers))
    BY TypesAre
  <2>2. 1 \in DOMAIN wire[u] /\ Head(wire[u]) = wire[u][1]
    BY <1>1, <2>1
  <2>. QED  BY <2>2 DEF Coming
<1>. QED  BY <1>1, <1>2 DEF InOrder, CastInv, Tabs

LEMMA ReceiveJoinMoves ==
    ASSUME TypeOK, InOrder, NEW u \in Tabs, ReceiveJoin(u)
    PROVE  Moves(u)
<1>1. /\ Receive(u, "voice_join") /\ call[u] /\ Connect(u, pc[u], tasks[u], 1)
      /\ UNCHANGED queued
  BY ReadsWhose DEF ReceiveJoin
<1>2. PICK old, rest, n : old = pc[u] /\ rest = tasks[u] /\ n = 1
  OBVIOUS
<1>3. n \in 0..3 /\ old \in {pc[u], None} /\ Connect(u, old, rest, n)
  BY <1>1, <1>2
<1>4. PICK p, ts : Attempt(u, old, rest, n, p, ts)
  BY <1>3, Attempted
<1>5. /\ pc' = [pc EXCEPT ![u] = p] /\ tasks' = [tasks EXCEPT ![u] = ts]
      /\ \/ old # None /\ p = old /\ ts = rest \cup Asked(u, old, 1)
         \/ /\ old = None /\ New(p)
            /\ ts = (rest \cap Waits(u)) \cup
                    (IF queued[u] # {} THEN Wait(1) ELSE Asked(u, p, 1))
  BY <1>2, <1>4 DEF Attempt
<1>6. /\ Elsewhere(Other(u), <<>>) /\ Reads(u) /\ pc'[u] = p /\ tasks'[u] = ts
      /\ Head(wire[u]).type = "voice_join" /\ Head(wire[u]) \in Coming(u)
  BY <1>1, <1>5, ReadsOne
<1>7. /\ Steady(u) /\ Takes(u) /\ joins[u] # 0 /\ Hi # Lo
      /\ IsJoin(Head(wire[u])) /\ ~IsLeave(Head(wire[u])) /\ JoinComing(u)
  BY <1>1, <1>6, ReadsWhose, TabAssumption
     DEF Steady, Takes, Reads, InOrder, FirstInv, Newcomer, Tabs, IsJoin, IsLeave, JoinComing
<1>8. CASE u = Hi /\ Pending
  <2>1. Meets
    BY <1>1, <1>7, <1>8 DEF InOrder, MeetInv
  <2>2. p = pc[u] /\ ts = tasks[u]
    BY <1>2, <1>5, <1>8, <2>1 DEF Meets, Asked
  <2>3. Rests(u)
    BY <1>6, <1>7, <2>2 DEF Rests, Still, SameTalk
  <2>. QED  BY <2>3, RestsMoves
<1>9. CASE u = Hi /\ ~Pending
  <2>1. rest = {} /\ HiAlone /\ Other(u) = Lo
    BY <1>2, <1>9 DEF Pending, HiAlone, Other
  <2>2. ts \in {{}, Wait(1), Asked(u, p, 1)}
    BY <1>5, <2>1
  <2>3. /\ \A x, y \in ts : x = y
        /\ \A x \in ts : x.do = "retry" \/ (x.do = "offer" /\ p.sig = "stable")
    BY <2>2, AskedOnce
  <2>4. New(p) \/ (pc[Hi] # None /\ p = pc[Hi] /\ pc[Hi].deal = 0)
    <3>1. pc[Hi] # None => pc[Hi].deal = 0
      BY <1>7, <1>9 DEF InOrder, HeadInv, JoinComing, Coming, Blank
    <3>. QED  BY <1>2, <1>5, <1>9, <3>1
  <2>5. ~Idle(Hi)
    BY <1>7, <1>9, WiresAre, TailIsShorter DEF Takes, Idle
  <2>6. HiAsks
    BY <1>6, <1>7, <1>9, <2>1, <2>3, <2>4, <2>5 DEF HiAsks, Still, SameTalk
  <2>. QED  BY <1>9, <2>6 DEF Moves, HiMoves
<1>10. CASE u = Lo
  <2>1. Asked(u, p, 1) = {} /\ Asked(u, old, 1) = {} /\ Other(u) = Hi
    BY <1>7, <1>10 DEF Asked, Other
  <2>2. CASE old # None /\ p = old /\ ts = rest \cup Asked(u, old, 1)
    <3>1. Rests(u)
      BY <1>2, <1>6, <1>7, <2>1, <2>2 DEF Rests, Still, SameTalk
    <3>. QED  BY <3>1, RestsMoves
  <2>3. CASE New(p) /\ ts = (rest \cap Waits(u)) \cup
                            (IF queued[u] # {} THEN Wait(1) ELSE Asked(u, p, 1))
    <3>1. OnlyWaits(ts)
      BY <2>1, <2>3, AskedOnce DEF OnlyWaits, Waits
    <3>2. LoRenews
      BY <1>6, <1>7, <1>10, <2>1, <2>3, <3>1 DEF LoRenews
    <3>. QED  BY <1>7, <1>10, <3>2 DEF Moves, LoMoves
  <2>. QED  BY <1>5, <2>2, <2>3
<1>. QED  BY <1>8, <1>9, <1>10 DEF Tabs

LEMMA ReceiveLeaveMoves ==
    ASSUME TypeOK, InOrder, NEW u \in Tabs, ReceiveLeave(u)
    PROVE  Moves(u)
<1>1. Receive(u, "voice_leave") /\ UNCHANGED queued
  BY DEF ReceiveLeave
<1>2. PICK ts : /\ pc' = [pc EXCEPT ![u] = None] /\ tasks' = [tasks EXCEPT ![u] = ts]
                /\ ts \subseteq tasks[u] /\ OnlyWaits(ts)
  <2>1. CASE pc[u] # None
    <3>1. PICK ts : ts = Waits(u)
      OBVIOUS
    <3>2. pc' = [pc EXCEPT ![u] = None] /\ tasks' = [tasks EXCEPT ![u] = ts]
      BY <2>1, <3>1 DEF ReceiveLeave, DropPeer, Closed
    <3>3. ts \subseteq tasks[u] /\ OnlyWaits(ts)
      BY <3>1 DEF Waits, OnlyWaits
    <3>. QED  BY <3>2, <3>3, Zenon
  <2>2. CASE pc[u] = None
    <3>1. PICK ts : ts = tasks[u]
      OBVIOUS
    <3>2. OnlyWaits(ts)
      <4>1. OfOpen(pc[u], tasks[u])
        BY TypesAre DEF Open
      <4>. QED  BY <2>2, <3>1, <4>1 DEF OfOpen, OnlyWaits
    <3>3. pc' = [pc EXCEPT ![u] = None] /\ tasks' = [tasks EXCEPT ![u] = ts]
      BY <2>2, <3>1, TypesAre DEF ReceiveLeave, Open
    <3>. QED  BY <3>1, <3>2, <3>3, Zenon
  <2>. QED  BY <2>1, <2>2
<1>3. PICK p : p = None
  OBVIOUS
<1>4. /\ Elsewhere(Other(u), <<>>) /\ Reads(u) /\ pc'[u] = p /\ tasks'[u] = ts
      /\ Head(wire[u]).type = "voice_leave"
  <2>1. pc' = [pc EXCEPT ![u] = p]
    BY <1>2, <1>3
  <2>. QED  BY <1>1, <1>2, <2>1, ReadsOne
<1>5. Closes(u)
  <2>1. Steady(u) /\ Takes(u) /\ IsLeave(Head(wire[u])) /\ joins' = joins
    BY <1>1, <1>4, ReadsWhose DEF Steady, Takes, Reads, IsLeave
  <2>. QED  BY <1>2, <1>3, <1>4, <2>1 DEF Closes
<1>. QED  BY <1>5, ClosesMoves

LEMMA ReceiveCandidateMoves ==
    ASSUME TypeOK, InOrder, NEW u \in Tabs, ReceiveCandidate(u)
    PROVE  Moves(u)
<1>1. /\ Receive(u, "webrtc_ice_candidate") /\ call[u] /\ UNCHANGED tasks
      /\ AddOrQueue(u, Head(wire[u]).pc)
  BY DEF ReceiveCandidate
<1>2. /\ joins' = joins /\ call' = call
  BY <1>1, ReadsWhose
<1>3. PICK c : c = Head(wire[u]).pc
  OBVIOUS
<1>4. CASE queued' = [queued EXCEPT ![u] = @ \cup {c}] /\ UNCHANGED pc
  <2>1. \E q : queued' = [queued EXCEPT ![u] = q]
    BY <1>4
  <2>2. UNCHANGED <<pc, tasks>>
    BY <1>1, <1>4
  <2>3. /\ Elsewhere(Other(u), <<>>) /\ Reads(u) /\ pc'[u] = pc[u] /\ tasks'[u] = tasks[u]
        /\ Head(wire[u]).type = "webrtc_ice_candidate"
    BY <1>1, <2>1, <2>2, OnlyReads
  <2>4. Rests(u)
    BY <1>1, <1>2, <2>3 DEF Rests, Steady, Takes, Reads, IsLeave, Still, SameTalk
  <2>. QED  BY <2>4, RestsMoves
<1>5. CASE pc[u] # None /\ pc' = [pc EXCEPT ![u].cands = @ \cup {c}] /\ UNCHANGED queued
  <2>1. PICK p, ts : p = [pc[u] EXCEPT !.cands = @ \cup {c}] /\ ts = tasks[u]
    OBVIOUS
  <2>2. pc' = [pc EXCEPT ![u] = p] /\ tasks' = [tasks EXCEPT ![u] = ts] /\ UNCHANGED queued
    BY <1>1, <1>5, <2>1, TypesAre DEF Open
  <2>3. /\ Elsewhere(Other(u), <<>>) /\ Reads(u) /\ pc'[u] = p /\ tasks'[u] = ts
        /\ Head(wire[u]).type = "webrtc_ice_candidate"
    BY <1>1, <2>2, ReadsOne
  <2>4. p # None /\ p.id = pc[u].id /\ SameTalk(pc[u], p) /\ p.conn = pc[u].conn
    <3>1. PICK q : q = pc[u]
      OBVIOUS
    <3>2. q \in Peers(Nat, Nat) /\ c \in Nat
      <4>1. Head(wire[u]) \in AllMessages
        BY <1>1, WiresAre, ReadsWhose
      <4>. QED  BY <1>3, <1>5, <3>1, <4>1, PeerIs DEF AllMessages, MessageTypes
    <3>3. p = [q EXCEPT !.cands = @ \cup {c}] /\ q.cands \cup {c} \subseteq Nat
      BY <2>1, <3>1, <3>2 DEF Peers
    <3>4. p \in Peers(Nat, Nat) /\ p.id = q.id /\ SameTalk(q, p) /\ p.conn = q.conn
      BY <3>2, <3>3 DEF Peers, SameTalk
    <3>. QED  BY <3>1, <3>4, NoneAssumption
  <2>5. Rests(u)
    BY <1>1, <1>2, <1>5, <2>1, <2>3, <2>4 DEF Rests, Steady, Takes, Reads, IsLeave, Still
  <2>. QED  BY <2>5, RestsMoves
<1>. QED  BY <1>1, <1>3, <1>4, <1>5 DEF AddOrQueue

LEMMA ReceiveAnswerMoves ==
    ASSUME TypeOK, InOrder, NEW u \in Tabs, ReceiveAnswer(u)
    PROVE  Moves(u)
<1>1. /\ Receive(u, "webrtc_answer") /\ UNCHANGED <<pc, queued>>
  BY DEF ReceiveAnswer
<1>2. u = Hi /\ joins' = joins /\ call' = call
  BY <1>1, ReadsWhose
<1>3. PICK m : m = Head(wire[u])
  OBVIOUS
<1>4. CASE call[u] /\ pc[u] # None /\ pc[u].sig = "have-local-offer"
  <2>1. PICK p, t, ts : /\ p = pc[u] /\ t = Task("accept", pc[u].id, m.n, m.pc)
                        /\ ts = tasks[u] \cup {t}
    OBVIOUS
  <2>2. pc' = [pc EXCEPT ![u] = p] /\ tasks' = [tasks EXCEPT ![u] = ts] /\ UNCHANGED queued
    BY <1>1, <1>3, <1>4, <2>1, TypesAre DEF ReceiveAnswer, Open
  <2>3. /\ Elsewhere(Other(u), <<>>) /\ Reads(u) /\ pc'[u] = p /\ tasks'[u] = ts
        /\ Head(wire[u]).type = "webrtc_answer"
    BY <1>1, <2>2, ReadsOne
  <2>4. Steady(u) /\ Takes(u) /\ IsAnswer(Head(wire[u])) /\ Other(u) = Lo
    BY <1>1, <1>2, <2>3 DEF Steady, Takes, Reads, IsAnswer, Other
  <2>5. t.do = "accept" /\ t.far = Head(wire[u]).pc
    BY <1>3, <2>1 DEF Task
  <2>6. HiHears
    BY <1>2, <1>4, <2>1, <2>3, <2>4, <2>5 DEF HiHears
  <2>. QED  BY <1>2, <2>6 DEF Moves, HiMoves
<1>5. CASE ~(call[u] /\ pc[u] # None /\ pc[u].sig = "have-local-offer")
  <2>1. UNCHANGED tasks
    BY <1>5, TypesAre DEF ReceiveAnswer, Open
  <2>. QED  BY <1>1, <2>1, IgnoredMoves
<1>. QED  BY <1>4, <1>5

LEMMA ReceiveOfferMoves ==
    ASSUME TypeOK, InOrder, NEW u \in Tabs, ReceiveOffer(u)
    PROVE  Moves(u)
<1>1. /\ Receive(u, "webrtc_offer") /\ call[u] /\ UNCHANGED queued
  BY DEF ReceiveOffer
<1>2. /\ u = Lo /\ Hi # Lo /\ joins' = joins /\ call' = call /\ Head(wire[u]) \in Coming(u)
      /\ Head(wire[u]).type = "webrtc_offer"
  BY <1>1, ReadsWhose, TabAssumption
<1>3. ~Working /\ joins[Lo] # 0
  <2>1. OfferComing
    BY <1>2 DEF OfferComing, IsOffer
  <2>. QED  BY <1>1, <1>2, <2>1 DEF InOrder, OneInv, FirstInv, Newcomer
<1>4. pc[u] # None => pc[u].sig = "stable"
  BY <1>2, <1>3 DEF InOrder, CastInv, DoneInv
<1>5. PICK m, p : m = Head(wire[u]) /\ p = IF pc[u] = None THEN NewPeer(made + 1, FALSE) ELSE pc[u]
  OBVIOUS
<1>6. p.sig = "stable" /\ (pc[u] = None => New(p)) /\ (pc[u] # None => p = pc[u])
  BY <1>4, <1>5, NewFields, TypesAre DEF New
<1>7. PICK t, ts : /\ t = Task("remote", p.id, m.n, m.pc)
                   /\ ts = tasks[u] \cup (IF pc[u] = None /\ queued[u] # {} THEN {} ELSE {t})
  OBVIOUS
<1>8. pc' = [pc EXCEPT ![u] = p] /\ tasks' = [tasks EXCEPT ![u] = ts]
  BY <1>5, <1>6, <1>7 DEF ReceiveOffer
<1>9. /\ Elsewhere(Other(u), <<>>) /\ Reads(u) /\ pc'[u] = p /\ tasks'[u] = ts
  BY <1>1, <1>8, ReadsOne
<1>10. Steady(u) /\ Takes(u) /\ IsOffer(Head(wire[u])) /\ Other(u) = Hi
  BY <1>1, <1>2, <1>9 DEF Steady, Takes, Reads, IsOffer, Other
<1>11. CASE pc[u] = None /\ queued[u] # {}
  <2>1. OnlyWaits(ts)
    <3>1. OfOpen(pc[u], tasks[u])
      BY TypesAre DEF Open
    <3>. QED  BY <1>7, <1>11, <3>1 DEF OfOpen, OnlyWaits
  <2>2. LoRenews
    BY <1>2, <1>3, <1>6, <1>9, <1>10, <1>11, <2>1 DEF LoRenews
  <2>. QED  BY <1>2, <2>2 DEF Moves, LoMoves
<1>12. CASE ~(pc[u] = None /\ queued[u] # {})
  <2>1. ts = tasks[u] \cup {t} /\ t.do = "remote" /\ t.n = m.n /\ t.far = m.pc
    BY <1>7, <1>12 DEF Task
  <2>2. LoHears
    BY <1>1, <1>2, <1>4, <1>5, <1>6, <1>9, <1>10, <2>1 DEF LoHears
  <2>. QED  BY <1>2, <2>2 DEF Moves, LoMoves
<1>. QED  BY <1>11, <1>12

LEMMA MessageReadMoves ==
    ASSUME TypeOK, InOrder, NEW u \in Tabs, MessageRead(u)
    PROVE  Moves(u)
<1>1. CASE ReceiveNothing(u)
  <2>1. Receive(u, "voice_join") /\ UNCHANGED <<pc, queued, tasks>>
    BY <1>1, ReadsWhose DEF ReceiveNothing
  <2>. QED  BY <2>1, IgnoredMoves
<1>2. CASE ReceiveUnheard(u)
  <2>1. PICK type \in {"webrtc_offer", "webrtc_ice_candidate"} : Receive(u, type)
    BY <1>2 DEF ReceiveUnheard
  <2>2. UNCHANGED <<pc, queued, tasks>>
    BY <1>2 DEF ReceiveUnheard
  <2>. QED  BY <2>1, <2>2, IgnoredMoves
<1>. QED  BY <1>1, <1>2, ReceiveJoinMoves, ReceiveLeaveMoves, ReceiveOfferMoves,
          ReceiveAnswerMoves, ReceiveCandidateMoves DEF MessageRead

LEMMA ConnectionMadeMoves ==
    ASSUME TypeOK, NEW u \in Tabs, ConnectionMade(u)
    PROVE  Moves(u)
<1>1. /\ Linked /\ pc[u] # None /\ joins' = joins
      /\ pc' = [pc EXCEPT ![u] = [pc[u] EXCEPT !.conn = "connected"]]
      /\ UNCHANGED <<call, queued, tasks, wire>>
  BY DEF ConnectionMade, counters, Linked
<1>2. PICK q, p, ts : q = pc[u] /\ p = [q EXCEPT !.conn = "connected"] /\ ts = tasks[u]
  OBVIOUS
<1>3. /\ pc' = [pc EXCEPT ![u] = p] /\ tasks' = [tasks EXCEPT ![u] = ts]
      /\ UNCHANGED <<call, queued, wire>>
  BY <1>1, <1>2, TypesAre DEF Open
<1>4. /\ Elsewhere(Other(u), <<>>) /\ Works(u) /\ pc'[u] = p /\ tasks'[u] = ts
      /\ queued'[u] = queued[u]
  BY <1>3, DoneAlone
<1>5. p # None /\ p.id = q.id /\ SameTalk(q, p) /\ p.conn = "connected"
  <2>1. q \in Peers(Nat, Nat)
    BY <1>1, <1>2, PeerIs
  <2>2. p \in Peers(Nat, Nat) /\ p.id = q.id /\ SameTalk(q, p) /\ p.conn = "connected"
    BY <1>2, <2>1 DEF Peers, SameTalk
  <2>. QED  BY <2>2, NoneAssumption
<1>6. Rests(u)
  BY <1>1, <1>2, <1>4, <1>5 DEF Rests, Steady, Idle, Works, Still
<1>. QED  BY <1>6, RestsMoves

LEMMA DropMoves ==
    ASSUME TypeOK, NEW u \in Tabs, DropPeer(u), UNCHANGED <<call, queued, wire, joins>>,
           u = Hi => pc[u] # None /\ pc[u].deal # 0
    PROVE  Moves(u)
<1>1. PICK p, ts : p = None /\ ts = Waits(u)
  OBVIOUS
<1>2. /\ pc' = [pc EXCEPT ![u] = p] /\ tasks' = [tasks EXCEPT ![u] = ts]
      /\ UNCHANGED <<call, queued, wire>>
  BY <1>1 DEF DropPeer, Closed
<1>3. /\ Elsewhere(Other(u), <<>>) /\ Works(u) /\ pc'[u] = p /\ tasks'[u] = ts
      /\ queued'[u] = queued[u]
  BY <1>2, DoneAlone
<1>4. Closes(u)
  BY <1>1, <1>3 DEF Closes, Steady, Idle, Works, Waits, OnlyWaits
<1>. QED  BY <1>4, ClosesMoves

LEMMA TimerFiresMoves ==
    ASSUME TypeOK, InOrder, NEW u \in Tabs, TimerFires(u)
    PROVE  Moves(u)
<1>1. UNCHANGED <<call, queued, wire, joins>>
  BY DEF TimerFires, counters
<1>2. CASE pc[u] # None /\ pc[u].conn \in {"disconnected", "failed"}
  <2>1. DropPeer(u)
    BY <1>2 DEF TimerFires
  <2>2. u = Hi => pc[u].deal # 0
    BY <1>2 DEF InOrder, CastInv
  <2>. QED  BY <1>1, <1>2, <2>1, <2>2, DropMoves
<1>3. CASE UNCHANGED <<pc, tasks>>
  <2>1. PICK p, ts : p = pc[u] /\ ts = tasks[u]
    OBVIOUS
  <2>2. /\ pc' = [pc EXCEPT ![u] = p] /\ tasks' = [tasks EXCEPT ![u] = ts]
        /\ UNCHANGED <<call, queued, wire>>
    BY <1>1, <1>3, <2>1, TypesAre DEF Open
  <2>3. /\ Elsewhere(Other(u), <<>>) /\ Works(u) /\ pc'[u] = p /\ tasks'[u] = ts
        /\ queued'[u] = queued[u]
    BY <2>2, DoneAlone
  <2>4. Rests(u)
    BY <1>1, <2>1, <2>3 DEF Rests, Steady, Idle, Works, Still, SameTalk
  <2>. QED  BY <2>4, RestsMoves
<1>. QED  BY <1>2, <1>3 DEF TimerFires

\* The far end that Hi finds gone is one that it has agreed with, and nothing
\* else is under way.
LEMMA FarEndNoticedMoves ==
    ASSUME TypeOK, InOrder, NEW u \in Tabs, FarEndNoticed(u)
    PROVE  Moves(u)
<1>1. PICK old, s, q :
          /\ old = pc[u] /\ s = (IF old.conn = "connected" THEN "disconnected" ELSE "failed")
          /\ q = [old EXCEPT !.conn = s, !.restarted = TRUE]
  OBVIOUS
<1>2. /\ old # None /\ FarEndGone(u) /\ old.conn \in {"connected", "new"}
      /\ old.conn = "new" => old.deal # 0
      /\ ConnectionLost(u, s)
  BY <1>1 DEF FarEndNoticed, Trying
<1>3. UNCHANGED <<call, queued, wire, joins>>
  BY <1>2 DEF ConnectionLost
<1>4. joins[u] # 0 /\ Hi # Lo
  BY <1>1, <1>2, TabAssumption DEF InOrder, FirstInv, Newcomer, Tabs
<1>5. u = Hi => /\ old.deal # 0 /\ ~Pending /\ tasks[Hi] = {} /\ HiAlone
                /\ joins[Lo] # 0 /\ ~JoinComing(Hi)
  <2>. SUFFICES ASSUME u = Hi
                PROVE  /\ old.deal # 0 /\ ~Pending /\ tasks[Hi] = {} /\ HiAlone
                       /\ joins[Lo] # 0 /\ ~JoinComing(Hi)
    OBVIOUS
  <2>1. old.deal # 0
    BY <1>1, <1>2 DEF InOrder, CastInv
  <2>2. ~Pending
    BY <1>1, <1>2, <2>1 DEF InOrder, DoneInv
  <2>3. ~Blank(Hi)
    BY <1>1, <1>2, <2>1 DEF Blank
  <2>4. joins[Lo] # 0 /\ ~JoinComing(Hi)
    BY <2>3 DEF InOrder, FirstInv, Newcomer, HeadInv, JoinComing, Coming
  <2>. QED  BY <2>1, <2>2, <2>4 DEF Pending, HiAlone
<1>6. CASE Connect(u, None, tasks[u], 1)
  <2>1. PICK new, rest, n : new = None /\ rest = tasks[u] /\ n = 1
    OBVIOUS
  <2>2. n \in 0..3 /\ new \in {pc[u], None} /\ Connect(u, new, rest, n)
    BY <1>6, <2>1
  <2>3. PICK p, ts : Attempt(u, new, rest, n, p, ts)
    BY <2>2, Attempted
  <2>4. /\ pc' = [pc EXCEPT ![u] = p] /\ tasks' = [tasks EXCEPT ![u] = ts]
        /\ New(p)
        /\ ts = (rest \cap Waits(u)) \cup (IF queued[u] # {} THEN Wait(1) ELSE Asked(u, p, 1))
    BY <2>1, <2>3 DEF Attempt
  <2>5. /\ Elsewhere(Other(u), <<>>) /\ Works(u) /\ pc'[u] = p /\ tasks'[u] = ts
        /\ queued'[u] = queued[u]
    BY <1>3, <2>4, DoneAlone
  <2>6. Steady(u) /\ Idle(u)
    BY <1>3, <2>5 DEF Steady, Idle, Works
  <2>7. CASE u = Hi
    <3>1. ts \in {Wait(1), Asked(u, p, 1)} /\ Other(u) = Lo
      BY <1>5, <2>1, <2>4, <2>7 DEF Other
    <3>2. /\ \A x, y \in ts : x = y
          /\ \A x \in ts : x.do = "retry" \/ (x.do = "offer" /\ p.sig = "stable")
      BY <3>1, AskedOnce
    <3>3. HiAsks
      BY <1>4, <1>5, <2>4, <2>5, <2>6, <2>7, <3>1, <3>2 DEF HiAsks
    <3>. QED  BY <2>7, <3>3 DEF Moves, HiMoves
  <2>8. CASE u = Lo
    <3>1. Asked(u, p, 1) = {} /\ Other(u) = Hi
      BY <1>4, <2>8 DEF Asked, Other
    <3>2. OnlyWaits(ts)
      BY <2>4, <3>1, AskedOnce DEF OnlyWaits, Waits
    <3>3. LoRenews
      BY <1>4, <2>4, <2>5, <2>6, <2>8, <3>1, <3>2 DEF LoRenews
    <3>. QED  BY <1>4, <2>8, <3>3 DEF Moves, LoMoves
  <2>. QED  BY <2>7, <2>8 DEF Tabs
<1>7. ASSUME NEW more, s = "disconnected", pc' = [pc EXCEPT ![u] = q],
             tasks' = [tasks EXCEPT ![u] = tasks[u] \cup more],
             more = {} \/ (u = Hi /\ more = Asked(u, q, 0))
      PROVE  Moves(u)
  <2>1. PICK ts : ts = tasks[u] \cup more
    OBVIOUS
  <2>2. /\ Elsewhere(Other(u), <<>>) /\ Works(u) /\ pc'[u] = q /\ tasks'[u] = ts
        /\ queued'[u] = queued[u]
    BY <1>3, <1>7, <2>1, DoneAlone
  <2>3. Steady(u) /\ Idle(u)
    BY <1>3, <2>2 DEF Steady, Idle, Works
  <2>4. q # None /\ q.id = old.id /\ SameTalk(old, q) /\ q.conn = "disconnected"
    <3>1. old \in Peers(Nat, Nat)
      BY <1>1, <1>2, PeerIs
    <3>2. q \in Peers(Nat, Nat) /\ q.id = old.id /\ SameTalk(old, q) /\ q.conn = "disconnected"
      BY <1>1, <1>7, <3>1 DEF Peers, SameTalk
    <3>. QED  BY <3>2, NoneAssumption
  <2>5. CASE u = Hi
    <3>1. ts \in {{}, Asked(u, q, 0)} /\ Other(u) = Lo
      BY <1>5, <1>7, <2>1, <2>5 DEF Other
    <3>2. /\ \A x, y \in ts : x = y
          /\ \A x \in ts : x.do = "retry" \/ (x.do = "offer" /\ q.sig = "stable")
      BY <3>1, AskedOnce
    <3>3. HiAsks
      BY <1>1, <1>2, <1>4, <1>5, <2>2, <2>3, <2>4, <2>5, <3>1, <3>2 DEF HiAsks, Still
    <3>. QED  BY <2>5, <3>3 DEF Moves, HiMoves
  <2>6. CASE u = Lo
    <3>1. tasks'[u] = tasks[u] /\ Other(u) = Hi
      BY <1>4, <1>7, <2>1, <2>2, <2>6 DEF Other
    <3>2. LoRests
      BY <1>1, <1>2, <2>2, <2>3, <2>4, <2>6, <3>1 DEF LoRests, Still, OnlyWaits
    <3>. QED  BY <1>4, <2>6, <3>2 DEF Moves, LoMoves
  <2>. QED  BY <2>5, <2>6 DEF Tabs
<1>8. CASE DropPeer(u)
  BY <1>1, <1>2, <1>3, <1>5, <1>8, DropMoves
<1>9. \/ Connect(u, None, tasks[u], 1)
      \/ DropPeer(u)
      \/ /\ s = "disconnected" /\ pc' = [pc EXCEPT ![u] = q]
         /\ tasks' = [tasks EXCEPT ![u] = @ \cup
                         (IF ~pc[u].restarted /\ ShouldInitiateOffer(u)
                          THEN Renegotiation(q, 0) ELSE {})]
  BY <1>1, <1>2, Zenon DEF ConnectionLost
<1>10. ASSUME s = "disconnected", pc' = [pc EXCEPT ![u] = q],
              tasks' = [tasks EXCEPT ![u] = @ \cup
                           (IF ~pc[u].restarted /\ ShouldInitiateOffer(u)
                            THEN Renegotiation(q, 0) ELSE {})]
       PROVE  Moves(u)
  <2>1. PICK more : more = IF ~pc[u].restarted /\ ShouldInitiateOffer(u)
                           THEN Renegotiation(q, 0) ELSE {}
    OBVIOUS
  <2>2. more = {} \/ (u = Hi /\ more = Asked(u, q, 0))
    BY <2>1 DEF ShouldInitiateOffer, Renegotiation, Asked
  <2>3. tasks' = [tasks EXCEPT ![u] = tasks[u] \cup more]
    BY <1>10, <2>1
  <2>. QED  BY <1>7, <1>10, <2>2, <2>3
<1>. QED  BY <1>6, <1>8, <1>9, <1>10

----------------------------------------------------------------------------
(* Who finished negotiating agrees.                                        *)

LEMMA OrderlySteps ==
    ASSUME TypeOK, InOrder, Orderly', Next
    PROVE  \E u \in Tabs : Moves(u)
<1>1. \A u \in Tabs : /\ ~Share(u) /\ ~Vanish(u) /\ ~NetworkFails(u) /\ ~NetworkStaysDown(u)
                      /\ Join(u) => ~TooSoon(u)
  BY OrderlyBefore
<1>2. CASE Progress
  <2>1. PICK u \in Tabs : TaskDone(u) \/ MessageRead(u) \/ ConnectionMade(u)
                          \/ FarEndNoticed(u) \/ TimerFires(u)
    BY <1>2 DEF Progress
  <2>2. Moves(u)
    BY <2>1, TaskDoneMoves, MessageReadMoves, ConnectionMadeMoves, FarEndNoticedMoves,
       TimerFiresMoves
  <2>. QED  BY <2>2
<1>3. CASE \E u \in Tabs : Join(u) \/ Leave(u)
  <2>1. PICK u \in Tabs : Join(u) \/ Leave(u)
    BY <1>3
  <2>2. Moves(u)
    BY <1>1, <2>1, JoinMoves, LeaveMoves
  <2>. QED  BY <2>2
<1>. QED  BY <1>1, <1>2, <1>3 DEF Next

LEMMA MovesInOrder ==
    ASSUME TypeOK, InOrder, NEW u \in Tabs, Moves(u)
    PROVE  InOrder'
<1>1. CASE HiMoves
  BY <1>1, HiRestsInOrder, HiClosesInOrder, HiAsksInOrder, HiJoinsInOrder, HiOffersInOrder,
     HiHearsInOrder, HiAcceptsInOrder DEF HiMoves
<1>2. CASE LoMoves
  BY <1>2, LoRestsInOrder, LoRenewsInOrder, LoClosesInOrder, LoJoinsInOrder, LoHearsInOrder,
     LoSetsInOrder, LoAnswersInOrder DEF LoMoves
<1>. QED  BY <1>1, <1>2 DEF Moves

LEMMA InitInOrder == Init => InOrder
<1>. SUFFICES ASSUME Init PROVE InOrder
  OBVIOUS
<1>1. Hi \in Tabs /\ Lo \in Tabs
  BY DEF Tabs
<1>2. \A u \in Tabs : /\ pc[u] = None /\ tasks[u] = {} /\ queued[u] = {} /\ ~call[u]
                      /\ wire[u] = <<>> /\ DOMAIN wire[u] = {} /\ Coming(u) = {}
  BY DEF Init, Coming
<1>3. Blank(Hi) /\ Blank(Lo) /\ ~OfferComing /\ ~AnswerComing /\ ~Working
  BY <1>1, <1>2 DEF Blank, OfferComing, AnswerComing, Working
<1>4. CastInv /\ OneInv
  BY <1>1, <1>2, <1>3 DEF CastInv, OneInv
<1>5. FirstInv /\ OutInv /\ HeadInv
  BY <1>1, <1>2, <1>3 DEF FirstInv, Newcomer, OutInv, OutOfCall, HeadInv
<1>6. MeetInv /\ DoneInv /\ PassInv /\ HeardInv
  BY <1>1, <1>2 DEF MeetInv, DoneInv, PassInv, HeardInv
<1>. QED  BY <1>4, <1>5, <1>6 DEF InOrder

LEMMA StillInOrder ==
    ASSUME InOrder, UNCHANGED vars
    PROVE  InOrder'
<1>1. /\ call' = call /\ pc' = pc /\ queued' = queued /\ tasks' = tasks /\ wire' = wire
      /\ joins' = joins
  BY DEF vars
<1>2. \A u : /\ Coming(u)' = Coming(u) /\ (Blank(u)' <=> Blank(u))
             /\ (FarEndGone(u)' <=> FarEndGone(u)) /\ (OutOfCall(u)' <=> OutOfCall(u))
  BY <1>1 DEF Coming, Blank, FarEndGone, OutOfCall
<1>3. /\ JoinComing(Hi)' <=> JoinComing(Hi)
      /\ OfferComing' <=> OfferComing
      /\ AnswerComing' <=> AnswerComing
      /\ Working' <=> Working
      /\ Meets' <=> Meets
      /\ \A l : Answered(l)' <=> Answered(l)
  BY <1>1, <1>2 DEF JoinComing, OfferComing, AnswerComing, Working, Meets, Answered
<1>4. Pending' <=> Pending
  BY <1>1, <1>3 DEF Pending
<1>5. CastInv'
  BY <1>1, <1>2 DEF InOrder, CastInv
<1>6. OneInv'
  BY <1>1, <1>3 DEF InOrder, OneInv
<1>7. FirstInv'
  BY <1>1, <1>2, <1>3 DEF InOrder, FirstInv, Newcomer
<1>8. OutInv' /\ HeadInv'
  BY <1>1, <1>2 DEF InOrder, OutInv, LastLeave, HeadInv
<1>9. MeetInv' /\ DoneInv'
  BY <1>1, <1>2, <1>3, <1>4 DEF InOrder, MeetInv, DoneInv
<1>10. PassInv' /\ HeardInv'
  BY <1>1, <1>2, <1>3 DEF InOrder, PassInv, HeardInv
<1>. QED  BY <1>5, <1>6, <1>7, <1>8, <1>9, <1>10 DEF InOrder

\* The inductive invariant.
OrderInv == TypeOK /\ (Orderly => InOrder)

LEMMA OrderInvStays == OrderInv /\ [Next]_vars => OrderInv'
<1>. SUFFICES ASSUME OrderInv, [Next]_vars PROVE OrderInv'
  OBVIOUS
<1>1. TypeOK /\ TypeOK'
  BY StepTypes DEF OrderInv
<1>2. ASSUME Next, Orderly' PROVE InOrder'
  <2>1. InOrder
    BY <1>1, <1>2, OrderlyBefore DEF OrderInv
  <2>2. PICK u \in Tabs : Moves(u)
    BY <1>1, <1>2, <2>1, OrderlySteps
  <2>. QED  BY <1>1, <2>1, <2>2, MovesInOrder
<1>3. ASSUME UNCHANGED vars, Orderly' PROVE InOrder'
  <2>1. Orderly
    BY <1>3 DEF vars, Orderly, Undisturbed
  <2>. QED  BY <1>3, <2>1, StillInOrder DEF OrderInv
<1>. QED  BY <1>1, <1>2, <1>3 DEF OrderInv

LEMMA AlwaysOrderInv == Spec => []OrderInv
<1>1. Init => OrderInv
  BY InitTypes, InitInOrder DEF OrderInv
<1>. QED  BY <1>1, OrderInvStays, PTL DEF Spec

\* While nobody shares a screen and nobody came back in a hurry, two tabs that
\* have finished negotiating mean each other's connection and the same offer:
\* shouldInitiateOffer, the three attempts of connectVoicePeerWithRetry and the
\* handlers of webrtc_offer and webrtc_answer leave no half of an old
\* negotiation, whatever leaves, comes back, is repeated or replaced.
THEOREM TabsAgree == Spec => []Agreement
<1>1. OrderInv => Agreement
  <2>. SUFFICES ASSUME OrderInv, Quiet, Undisturbed, ~hurried, Negotiated(Hi), Negotiated(Lo)
                PROVE  /\ pc[Hi].deal = pc[Lo].deal
                       /\ \A u \in Tabs : pc[u].far = pc[Other(u)].id
    BY DEF Agreement
  <2>1. InOrder /\ Other(Hi) = Lo /\ Other(Lo) = Hi
    BY TabAssumption DEF OrderInv, Orderly, Other
  <2>2. /\ pc[Hi] # None /\ pc[Hi].sig = "stable" /\ pc[Hi].deal # 0
        /\ pc[Lo] # None /\ pc[Lo].sig = "stable" /\ pc[Lo].deal # 0
    BY DEF Negotiated
  <2>3. pc[Hi].deal = pc[Hi].offer /\ pc[Lo].deal = pc[Lo].heard
    BY <2>1, <2>2 DEF InOrder, DoneInv
  <2>4. PICK l : l = pc[Hi].far
    OBVIOUS
  <2>5. Answered(l)
    BY <2>1, <2>2, <2>4 DEF InOrder, HeardInv
  <2>6. pc[Lo].id = l /\ pc[Lo].heard = pc[Hi].offer /\ pc[Lo].far = pc[Hi].id
    BY <2>2, <2>5 DEF Answered
  <2>. QED  BY <2>1, <2>3, <2>4, <2>6 DEF Tabs
<1>. QED  BY <1>1, AlwaysOrderInv, PTL

=============================================================================
