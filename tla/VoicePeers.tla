---------------------------- MODULE VoicePeers ----------------------------
(***************************************************************************)
(* The peer connection between two tabs that are in one room: what         *)
(* useWorkspaceController does to set it up, to repair it and to take it   *)
(* down.  Hi is the tab whose user name sorts after that of Lo.            *)
(*                                                                         *)
(* The server relays what one tab sends to the other, in order.  Of the    *)
(* browser's RTCPeerConnection a description that is being applied takes   *)
(* effect in a later step, a closed connection never settles what was      *)
(* asked of it, and each connection finds one ICE candidate, as soon as it *)
(* has a description of its own.                                           *)
(***************************************************************************)
EXTENDS Naturals, Sequences, FiniteSets

CONSTANTS
    Hi, Lo,
    None,       \* no connection
    HasTurn,    \* hasTurnServer()
    MaxEvents,  \* bound: how often, in all, the call is joined, a screen is
                \* shared or not any more, a connection breaks, a tab vanishes
    MaxFaults   \* bound: connections that break, tabs that vanish

ASSUME TabAssumption == Hi # Lo /\ HasTurn \in BOOLEAN
ASSUME BoundAssumption == {MaxEvents, MaxFaults} \subseteq Nat

\* The connections that have their numbers in ids, and those of offers in ns.
Peers(ids, ns) ==
    [id : ids \ {0}, relay : BOOLEAN,
     sig : {"stable", "have-local-offer", "have-remote-offer"},
     offer : ns, heard : ns, far : ids, deal : ns, cands : SUBSET ids,
     conn : {"new", "connected", "disconnected"}, restarted : BOOLEAN]

ASSUME NoneAssumption == None \notin Peers(Nat, Nat)

Tabs == {Hi, Lo}
Other(u) == IF u = Hi THEN Lo ELSE Hi

VARIABLES
    call,    \* voiceConnectedRef
    pc,      \* peerConnectionsRef, the entry of the other tab
    queued,  \* pendingCandidatesRef, the candidates of the other tab
    timer,   \* peerDisconnectTimeoutsRef: off, set, or stale: fired but kept
    tasks,   \* what a tab has asked of the browser, or waits for
    wire,    \* messages on their way to a tab
    made,    \* how many connections were made
    stale,   \* history: a connection was made while candidates of an earlier
             \* one were waiting
    offers,  \* how many offers were made
    joins, shares, faults,  \* how often, against the bounds
    hurried, \* history: the call was joined again while signals were under way,
             \* or before the other's leaving it was known
    unheard  \* history: the connections of which an offer or a candidate came
             \* when the other was not in the call

vars == <<call, pc, queued, timer, tasks, wire, made, stale, offers, joins,
          shares, faults, hurried, unheard>>
makings == <<made, stale>>
counters == <<joins, shares, faults, hurried>>

\* A connection: heard is the last offer set as its remote description, far
\* the connection that its remote description is of, deal the offer that its
\* last finished negotiation was about.
NewPeer(id, relay) ==
    [id |-> id, relay |-> relay, sig |-> "stable", offer |-> 0, heard |-> 0,
     far |-> 0, deal |-> 0, cands |-> {}, conn |-> "new", restarted |-> FALSE]

Init ==
    /\ call = [u \in Tabs |-> FALSE]
    /\ pc = [u \in Tabs |-> None]
    /\ queued = [u \in Tabs |-> {}]
    /\ timer = [u \in Tabs |-> "off"]
    /\ tasks = [u \in Tabs |-> {}]
    /\ wire = [u \in Tabs |-> <<>>]
    /\ made = 0
    /\ stale = FALSE
    /\ offers = 0
    /\ joins = [u \in Tabs |-> 0]
    /\ shares = 0
    /\ faults = 0
    /\ hurried = FALSE
    /\ unheard = {}

MoreMayHappen == joins[Hi] + joins[Lo] + shares + faults < MaxEvents

Quiet == \A u \in Tabs : wire[u] = <<>> /\ tasks[u] = {}

----------------------------------------------------------------------------
(* Helpers. *)

\* A bug: either tab makes the offer.
AlwaysInitiate(u) == TRUE

\* shouldInitiateOffer, so that one of two tabs makes the offer.
ShouldInitiateOffer(u) == u = Hi

Msg(type, p, n) == [type |-> type, pc |-> p, n |-> n]
Task(do, p, n, far) == [do |-> do, pc |-> p, n |-> n, far |-> far]

\* The wait before the attempt that comes after attempt n, if there is one.
Wait(n) == {Task("retry", 0, m, 0) : m \in {n + 1} \cap 2..3}

\* The server relays messages to the other tab.
SendAll(u, ms) == wire' = [wire EXCEPT ![Other(u)] = @ \o ms]
Send(u, m) == SendAll(u, <<m>>)

\* What is left of the tasks of u when its connection is closed: a wait for
\* the next attempt.
Waits(u) == {t \in tasks[u] : t.do = "retry"}

\* A bug: out of the map, but not closed.
OnlyForgotten(u) == pc' = [pc EXCEPT ![u] = None] /\ UNCHANGED tasks

\* peer.close(), and out of the map.
Closed(u) ==
    /\ pc' = [pc EXCEPT ![u] = None]
    /\ tasks' = [tasks EXCEPT ![u] = Waits(u)]

\* clearPeerDisconnectTimer.
ClearPeerDisconnectTimer(u) == timer' = [timer EXCEPT ![u] = "off"]

\* renegotiateWith up to its first await, on connection p: an offer is asked
\* for, unless a negotiation is under way.  attempt is 0 if nobody retries.
Renegotiation(p, attempt) ==
    IF p.sig = "stable" THEN {Task("offer", p.id, attempt, 0)} ELSE {}

\* Attempt n of connectVoicePeerWithRetry, from the connection old or none,
\* while the tasks rest go on.  ensurePeerConnection gives a new connection
\* the candidates that wait for one, which fails before it has a remote
\* description; the connection stays in the map.
Connect(u, old, rest, n) ==
    LET relay == n = 2 /\ HasTurn
        kept == old # None /\ ~(relay /\ old.conn # "connected")
        p == IF kept THEN old ELSE NewPeer(made + 1, relay)
        fails == ~kept /\ queued[u] # {}
    IN  /\ pc' = [pc EXCEPT ![u] = p]
        /\ made' = IF kept THEN made ELSE made + 1
        /\ stale' = (stale \/ fails)
        /\ tasks' = [tasks EXCEPT ![u] =
               (IF kept THEN rest ELSE rest \cap Waits(u)) \cup
               (IF fails THEN Wait(n)
                ELSE IF ShouldInitiateOffer(u) THEN Renegotiation(p, n) ELSE {})]

\* cleanupVoiceConnections.
Cleanup(u) ==
    /\ Closed(u)
    /\ queued' = [queued EXCEPT ![u] = {}]
    /\ ClearPeerDisconnectTimer(u)
    /\ call' = [call EXCEPT ![u] = FALSE]

----------------------------------------------------------------------------
(* The user joins and leaves the call, shares a screen or stops sharing, or *)
(* the tab goes away without a word.                                        *)

TooSoon(u) ==
    \/ joins[u] > 0 /\ ~Quiet
    \/ \E i \in DOMAIN wire[u] : wire[u][i].type = "voice_leave"

Join(u) ==
    /\ ~call[u]
    /\ MoreMayHappen
    /\ joins' = [joins EXCEPT ![u] = @ + 1]
    /\ hurried' = (hurried \/ TooSoon(u))
    /\ call' = [call EXCEPT ![u] = TRUE]
    /\ Send(u, Msg("voice_join", 0, 0))
    /\ Connect(u, pc[u], tasks[u], 1)
    /\ UNCHANGED <<queued, timer, offers, shares, faults, unheard>>

Leave(u) ==
    /\ call[u]
    /\ Send(u, Msg("voice_leave", 0, 0))
    /\ Cleanup(u)
    /\ UNCHANGED <<makings, offers, counters, unheard>>

\* startVideoShare and stopScreenShare towards the other tab.
Share(u) ==
    /\ call[u]
    /\ pc[u] # None
    /\ MoreMayHappen
    /\ shares' = shares + 1
    /\ tasks' = [tasks EXCEPT ![u] = @ \cup Renegotiation(pc[u], 0)]
    /\ Send(u, Msg("screens", 0, 0))
    /\ UNCHANGED <<call, pc, queued, timer, makings, offers, joins, faults, hurried, unheard>>

\* The socket is lost: ws.onclose.
Vanish(u) ==
    /\ call[u]
    /\ MoreMayHappen
    /\ faults < MaxFaults
    /\ faults' = faults + 1
    /\ Cleanup(u)
    /\ wire' = [wire EXCEPT ![u] = <<>>]
    /\ UNCHANGED <<makings, offers, joins, shares, hurried, unheard>>

----------------------------------------------------------------------------
(* What was asked of the browser is done. *)

Settles(u, t, do) ==
    /\ t \in tasks[u]
    /\ t.do = do
    /\ UNCHANGED <<call, timer, counters, unheard>>

\* onicecandidate: the first description of its own makes a connection look for
\* candidates, and so does that of a restart.
CandidateFound(p) ==
    IF (p.offer = 0 /\ p.deal = 0) \/ p.conn = "disconnected"
    THEN <<Msg("webrtc_ice_candidate", p.id, 0)>> ELSE <<>>

\* The end of renegotiateWith: the offer is the local description, and sent.
OfferMade(u, t) ==
    /\ Settles(u, t, "offer")
    /\ pc[u].sig \in {"stable", "have-local-offer"}
    /\ offers' = offers + 1
    /\ pc' = [pc EXCEPT ![u].sig = "have-local-offer", ![u].offer = offers']
    /\ tasks' = [tasks EXCEPT ![u] = @ \ {t}]
    /\ SendAll(u, <<Msg("webrtc_offer", t.pc, offers')>> \o CandidateFound(pc[u]))
    /\ UNCHANGED <<queued, makings>>

\* ... or it is refused, because an offer of the other tab came first.
OfferRefused(u, t) ==
    /\ Settles(u, t, "offer")
    /\ pc[u].sig = "have-remote-offer"
    /\ tasks' = [tasks EXCEPT ![u] = (@ \ {t}) \cup (IF t.n = 0 THEN {} ELSE Wait(t.n))]
    /\ UNCHANGED <<pc, queued, wire, makings, offers>>

\* The wait before an attempt is over, whether or not the call goes on.
Retry(u, t) ==
    /\ Settles(u, t, "retry")
    /\ Connect(u, pc[u], tasks[u] \ {t}, t.n)
    /\ UNCHANGED <<queued, wire, offers>>

\* The handler of webrtc_offer has its own offer rolled back, or gives up.
RolledBack(u, t) ==
    /\ Settles(u, t, "rollback")
    /\ \/ /\ pc[u].sig = "have-local-offer"
          /\ pc' = [pc EXCEPT ![u].sig = "stable"]
          /\ tasks' = [tasks EXCEPT ![u] = (@ \ {t}) \cup {[t EXCEPT !.do = "remote"]}]
       \/ /\ pc[u].sig # "have-local-offer"
          /\ tasks' = [tasks EXCEPT ![u] = @ \ {t}]
          /\ UNCHANGED pc
    /\ UNCHANGED <<queued, wire, makings, offers>>

\* A bug: the candidates that were early stay where they are.
KeepPending(u, p) ==
    /\ pc' = [pc EXCEPT ![u] = p]
    /\ UNCHANGED queued

\* flushPendingCandidates, of a connection p that has a remote description.
FlushPendingCandidates(u, p) ==
    /\ pc' = [pc EXCEPT ![u] = [p EXCEPT !.cands = @ \cup queued[u]]]
    /\ queued' = [queued EXCEPT ![u] = {}]

\* The other's offer is the remote description; an offer that was made in the
\* meantime is rolled back by the browser.
RemoteOfferSet(u, t) ==
    /\ Settles(u, t, "remote")
    /\ FlushPendingCandidates(u,
           [pc[u] EXCEPT !.sig = "have-remote-offer", !.far = t.far, !.heard = t.n])
    /\ tasks' = [tasks EXCEPT ![u] = (@ \ {t}) \cup {[t EXCEPT !.do = "answer"]}]
    /\ UNCHANGED <<wire, makings, offers>>

\* The answer is made and sent, unless the offer was answered already.
AnswerMade(u, t) ==
    /\ Settles(u, t, "answer")
    /\ tasks' = [tasks EXCEPT ![u] = @ \ {t}]
    /\ \/ /\ pc[u].sig = "have-remote-offer"
          /\ pc' = [pc EXCEPT ![u].sig = "stable", ![u].deal = pc[u].heard]
          /\ SendAll(u, <<Msg("webrtc_answer", t.pc, pc[u].heard)>> \o CandidateFound(pc[u]))
       \/ /\ pc[u].sig # "have-remote-offer"
          /\ UNCHANGED <<pc, wire>>
    /\ UNCHANGED <<queued, makings, offers>>

\* The other's answer is the remote description, unless it came too late.
\* Candidates that were early are not flushed here.
AnswerSet(u, t) ==
    /\ Settles(u, t, "accept")
    /\ pc' = IF pc[u].sig # "have-local-offer" THEN pc
             ELSE [pc EXCEPT ![u].sig = "stable", ![u].far = t.far, ![u].deal = pc[u].offer]
    /\ tasks' = [tasks EXCEPT ![u] = @ \ {t}]
    /\ UNCHANGED <<queued, wire, makings, offers>>

----------------------------------------------------------------------------
(* ws.onmessage. *)

Receive(u, type) ==
    /\ wire[u] # <<>>
    /\ Head(wire[u]).type = type
    /\ wire' = [wire EXCEPT ![u] = Tail(@)]
    /\ UNCHANGED <<call, offers, counters>>

\* voice_join; screen_share_state too, when there is no connection yet.
ReceiveJoin(u) ==
    /\ \/ Receive(u, "voice_join")
       \/ Receive(u, "screens") /\ pc[u] = None
    /\ call[u]
    /\ Connect(u, pc[u], tasks[u], 1)
    /\ UNCHANGED <<queued, timer, unheard>>

ReceiveNothing(u) ==
    /\ \/ Receive(u, "voice_join") /\ ~call[u]
       \/ Receive(u, "screens") /\ ~(call[u] /\ pc[u] = None)
    /\ UNCHANGED <<pc, queued, timer, tasks, makings, unheard>>

\* A bug: the connection stays in the map.
KeepPeer(u) == UNCHANGED <<pc, tasks, timer>>

\* The other has left: its connection goes, with its timer.
DropPeer(u) == Closed(u) /\ ClearPeerDisconnectTimer(u)

ReceiveLeave(u) ==
    /\ Receive(u, "voice_leave")
    /\ IF pc[u] # None THEN DropPeer(u) ELSE UNCHANGED <<pc, tasks, timer>>
    /\ UNCHANGED <<queued, makings, unheard>>

\* Outside the call an offer is not answered, and not asked for again later,
\* and a candidate is not kept.
ReceiveUnheard(u) ==
    /\ \E type \in {"webrtc_offer", "webrtc_ice_candidate"} : Receive(u, type)
    /\ ~call[u]
    /\ unheard' = unheard \cup {Head(wire[u]).pc}
    /\ UNCHANGED <<pc, queued, timer, tasks, makings>>

ReceiveOffer(u) ==
    /\ Receive(u, "webrtc_offer")
    /\ call[u]
    /\ LET m == Head(wire[u])
           p == IF pc[u] = None THEN NewPeer(made + 1, FALSE) ELSE pc[u]
           fails == pc[u] = None /\ queued[u] # {}
           do == IF p.sig = "stable" THEN "remote" ELSE "rollback"
       IN  /\ pc' = [pc EXCEPT ![u] = p]
           /\ made' = IF pc[u] = None THEN made + 1 ELSE made
           /\ stale' = (stale \/ fails)
           /\ tasks' = [tasks EXCEPT ![u] =
                           @ \cup (IF fails THEN {} ELSE {Task(do, p.id, m.n, m.pc)})]
    /\ UNCHANGED <<queued, timer, unheard>>

ReceiveAnswer(u) ==
    /\ Receive(u, "webrtc_answer")
    /\ LET m == Head(wire[u])
           wanted == call[u] /\ pc[u] # None /\ pc[u].sig = "have-local-offer"
       IN  tasks' = [tasks EXCEPT ![u] =
                        @ \cup (IF wanted THEN {Task("accept", pc[u].id, m.n, m.pc)} ELSE {})]
    /\ UNCHANGED <<pc, queued, timer, makings, unheard>>

\* A bug: a connection without a remote description is given the candidate,
\* and refuses it.
AddAtOnce(u, c) ==
    /\ pc' = IF pc[u] = None \/ pc[u].far = 0 THEN pc ELSE [pc EXCEPT ![u].cands = @ \cup {c}]
    /\ UNCHANGED queued

\* queueCandidate, unless there is a remote description already.
AddOrQueue(u, c) ==
    IF pc[u] = None \/ pc[u].far = 0
    THEN /\ queued' = [queued EXCEPT ![u] = @ \cup {c}]
         /\ UNCHANGED pc
    ELSE /\ pc' = [pc EXCEPT ![u].cands = @ \cup {c}]
         /\ UNCHANGED queued

ReceiveCandidate(u) ==
    /\ Receive(u, "webrtc_ice_candidate")
    /\ call[u]
    /\ AddOrQueue(u, Head(wire[u]).pc)
    /\ UNCHANGED <<timer, tasks, makings, unheard>>

----------------------------------------------------------------------------
(* The state of a connection changes: oniceconnectionstatechange, and then  *)
(* onconnectionstatechange.                                                 *)

\* Each end has the other's description, and one has the other's candidate.
Linked == /\ \A u \in Tabs : pc[u] # None
          /\ \A u \in Tabs : pc[u].deal # 0 /\ pc[u].far = pc[Other(u)].id
          /\ \E u \in Tabs : pc[u].far \in pc[u].cands

\* It looks for a way to the other end.
Trying(p) == p.conn = "new" /\ p.deal # 0 /\ p.cands # {}

FarEndGone(u) == ~(pc[Other(u)] # None /\ pc[Other(u)].id = pc[u].far)

ConnectionMade(u) ==
    /\ Linked
    /\ pc[u].conn \in {"new", "disconnected"}
    /\ pc' = [pc EXCEPT ![u].conn = "connected"]
    /\ ClearPeerDisconnectTimer(u)
    /\ UNCHANGED <<call, queued, tasks, wire, makings, offers, counters, unheard>>

\* A connection that is lost is repaired once by a restart, then replaced by
\* a relayed one, if there is a relay.
ConnectionLost(u, s) ==
    /\ pc[u] # None
    /\ <<pc[u].conn, s>> \in {<<"connected", "disconnected">>,
                              <<"disconnected", "failed">>, <<"new", "failed">>}
    /\ LET p == [pc[u] EXCEPT !.conn = s, !.restarted = TRUE]
           fallback == pc[u].restarted /\ HasTurn /\ ~pc[u].relay
           restart == ~pc[u].restarted /\ ShouldInitiateOffer(u)
       IN  \/ /\ fallback
              /\ Connect(u, None, tasks[u], 1)
              /\ UNCHANGED timer
           \/ /\ ~fallback
              /\ s = "disconnected"
              /\ pc' = [pc EXCEPT ![u] = p]
              /\ timer' = [timer EXCEPT ![u] = IF @ = "off" THEN "set" ELSE @]
              /\ tasks' = [tasks EXCEPT ![u] = @ \cup (IF restart THEN Renegotiation(p, 0) ELSE {})]
              /\ UNCHANGED makings
           \/ /\ ~fallback
              /\ s = "failed"
              /\ DropPeer(u)
              /\ UNCHANGED makings
    /\ UNCHANGED <<call, queued, wire, offers, joins, shares, hurried, unheard>>

\* The network breaks a connection, or one end finds that the other is gone.
NetworkFails(u) ==
    /\ MoreMayHappen
    /\ faults < MaxFaults
    /\ faults' = faults + 1
    /\ pc[u] # None
    /\ ConnectionLost(u, IF pc[u].conn = "new" THEN "failed" ELSE "disconnected")

\* What was disconnected does not come back.
NetworkStaysDown(u) ==
    /\ faults \in 1..(MaxFaults - 1)
    /\ faults' = faults + 1
    /\ pc[u] # None
    /\ pc[u].conn = "disconnected"
    /\ ConnectionLost(u, "failed")

FarEndNoticed(u) ==
    /\ pc[u] # None
    /\ FarEndGone(u)
    /\ \/ pc[u].conn = "connected" /\ ConnectionLost(u, "disconnected")
       \/ Trying(pc[u]) /\ ConnectionLost(u, "failed")
    /\ UNCHANGED faults

\* The 25 s are over.
TimerFires(u) ==
    /\ timer[u] = "set"
    /\ IF pc[u] # None /\ pc[u].conn \in {"disconnected", "failed"}
       THEN DropPeer(u)
       ELSE /\ timer' = [timer EXCEPT ![u] = "stale"]
            /\ UNCHANGED <<pc, tasks>>
    /\ UNCHANGED <<call, queued, wire, makings, offers, counters, unheard>>

----------------------------------------------------------------------------
TaskDone(u) ==
    \E t \in tasks[u] :
        \/ OfferMade(u, t) \/ OfferRefused(u, t) \/ Retry(u, t)
        \/ RolledBack(u, t) \/ RemoteOfferSet(u, t) \/ AnswerMade(u, t) \/ AnswerSet(u, t)

MessageRead(u) ==
    \/ ReceiveJoin(u) \/ ReceiveNothing(u) \/ ReceiveLeave(u)
    \/ ReceiveUnheard(u) \/ ReceiveOffer(u) \/ ReceiveAnswer(u) \/ ReceiveCandidate(u)

Progress == \E u \in Tabs : TaskDone(u) \/ MessageRead(u) \/ ConnectionMade(u)
                            \/ FarEndNoticed(u) \/ TimerFires(u)

Next ==
    \/ \E u \in Tabs : Join(u) \/ Leave(u) \/ Share(u) \/ Vanish(u)
                       \/ NetworkFails(u) \/ NetworkStaysDown(u)
    \/ Progress

\* What was sent arrives, what was asked of the browser is done, timers fire.
Spec == Init /\ [][Next]_vars /\ WF_vars(Progress)

----------------------------------------------------------------------------
(* Properties. *)

Ids == 0..made
Tasks == [do : {"offer", "retry"}, pc : Ids, n : 0..3, far : {0}] \cup
         [do : {"rollback", "remote", "answer", "accept"},
          pc : Ids, n : 0..offers, far : Ids]
Messages == [type : {"voice_join", "voice_leave", "screens", "webrtc_offer",
                     "webrtc_answer", "webrtc_ice_candidate"},
             pc : Ids, n : 0..offers]

\* The type invariant; what a closed connection was asked for is gone with it.
TypeOK ==
    /\ call \in [Tabs -> BOOLEAN]
    /\ pc \in [Tabs -> Peers(Ids, 0..offers) \cup {None}]
    /\ queued \in [Tabs -> SUBSET Ids]
    /\ timer \in [Tabs -> {"off", "set", "stale"}]
    /\ tasks \in [Tabs -> SUBSET Tasks]
    /\ wire \in [Tabs -> Seq(Messages)]
    /\ joins \in [Tabs -> Nat]
    /\ {made, offers, shares, faults} \subseteq Nat
    /\ {stale, hurried} \subseteq BOOLEAN
    /\ unheard \subseteq Ids
    /\ \A u \in Tabs : \A t \in tasks[u] :
           t.do = "retry" \/ (pc[u] # None /\ t.pc = pc[u].id)

Undisturbed == shares = 0 /\ faults = 0
Negotiated(u) == pc[u] # None /\ pc[u].sig = "stable" /\ pc[u].deal # 0

\* While nobody shares a screen and nobody came back in a hurry, two tabs that
\* have finished negotiating mean each other's connection and the same offer.
Agreement ==
    Quiet /\ Undisturbed /\ ~hurried /\ Negotiated(Hi) /\ Negotiated(Lo)
        => /\ pc[Hi].deal = pc[Lo].deal
           /\ \A u \in Tabs : pc[u].far = pc[Other(u)].id

\* A candidate of the other's present connection that has arrived is used or
\* kept, however early it came, unless it came before the call was joined.  The
\* candidates that make a new connection fail go with it when it is replaced.
NoCandidateLost ==
    Quiet /\ Undisturbed /\ ~stale => \A u \in Tabs :
        /\ call[u] /\ pc[u] # None /\ pc[Other(u)] # None
        /\ pc[u].far = pc[Other(u)].id /\ pc[u].far \notin unheard
        => pc[u].far \in pc[u].cands \cup queued[u]

\* When all has been said, nobody is in a finished negotiation with a tab that
\* has left the call.  One that has vanished is found out later; and leaving does
\* not call off an attempt that waits to be repeated, as when a screen was
\* shared at once or candidates were left behind.
LeftIsGone ==
    Quiet /\ Undisturbed /\ ~stale => \A u \in Tabs :
        ~call[u] => pc[Other(u)] = None \/ pc[Other(u)].deal = 0

BothInCall == call[Hi] /\ call[Lo]
Connected == \A u \in Tabs : pc[u] # None /\ pc[u].conn = "connected"

\* Two tabs in the call hear each other in the end, or one of them leaves;
\* unless an offer went to a tab that was not in the call yet, somebody came
\* back in a hurry or left candidates behind, shares a screen, or there was a
\* fault.
CallConnects ==
    BothInCall ~> \/ Connected \/ ~BothInCall \/ ~Undisturbed \/ hurried \/ stale
                  \/ (pc[Hi] # None /\ pc[Hi].id \in unheard)

\* A connection to a tab that is not there any more, because it vanished or
\* left, does not stay: it is dropped or set up anew, or the tab is back (perhaps
\* with a connection only: leaving does not call off an attempt that waits).
VanishedIsDropped ==
    \A u \in Tabs :
        LET gone == ~call[u] /\ pc[u] = None
            p == pc[Other(u)]
        IN  gone /\ p # None /\ (p.conn = "connected" \/ Trying(p))
            ~> ~gone \/ p = None \/ p.deal = 0

=============================================================================
