--------------------------- MODULE StreamQuality ---------------------------
(***************************************************************************)
(* The video that one tab of a call sends, and how useWorkspaceController  *)
(* fits it to the network: a loop measures the stream to every remote      *)
(* user, publishes what it found and tunes the sender.  A viewer, a member *)
(* of the room outside the call, shows what was published.                 *)
(*                                                                         *)
(* A stream uses what its profile and the network allow; the smoothing of  *)
(* its frame rate and bitrate is left out.  getStats answers in a step of  *)
(* its own.                                                                *)
(***************************************************************************)
EXTENDS VideoProfiles, Sequences

CONSTANTS
    Peers,    \* remote users
    None,     \* no profile, no sender, nothing under way
    Networks, \* the networks: [latency, fps, loss, capacity]
    MaxWire   \* bound: messages on their way to the viewer

ASSUME NoneAssumption == None \notin NetworkProfiles
ASSUME BoundAssumption == MaxWire \in Nat
ASSUME NetworkAssumption ==
    Networks \subseteq [latency : Nat, fps : Nat, loss : Nat, capacity : Nat]

VARIABLES
    inCall,     \* voiceConnectedRef
    sharing,    \* screenStreamRef holds a stream
    mode,       \* activeVideoModeRef
    looping,    \* streamMetricsIntervalRef
    peers,      \* peerConnectionsRef
    tuned,      \* the profile that the sender of a share was tuned to last
    profile,    \* peerNetworkProfileRef
    candidate,  \* peerProfileStabilityRef
    pending,    \* the measurement that getStats is about to give, and whether
                \* its connection is still there
    net,        \* the network to each remote user
    run,        \* history: how often in a row the last measurement was made
    adrift,     \* history: the users whose sender started at "excellent" while
                \* another profile was remembered, or whose profile was set by
                \* a measurement of a connection that was gone
    wire,       \* messages on their way to the viewer
    row,        \* the viewer's streamStatsByUser
    orphaned    \* history: a measurement was published after the end of the
                \* share, or the share ended without a word

vars == <<inCall, sharing, mode, looping, peers, tuned, profile, candidate,
          pending, net, run, adrift, wire, row, orphaned>>
view == <<wire, row, orphaned>>

NoHits == [candidate |-> None, hits |-> 0]
Nobody == [p \in Peers |-> None]

\* The promise, of the profiles that are remembered and of the measurements made.
Steady == INSTANCE SteadyProfile WITH profile <- profile, run <- run

Init ==
    /\ inCall = FALSE /\ sharing = FALSE /\ looping = FALSE
    /\ mode = "screen"
    /\ peers = {}
    /\ tuned = Nobody
    /\ profile = Nobody
    /\ candidate = [p \in Peers |-> NoHits]
    /\ pending = Nobody
    /\ net \in [Peers -> Networks]
    /\ run = [p \in Peers |-> Steady!NoRun]
    /\ adrift = {}
    /\ wire = <<>> /\ row = None /\ orphaned = FALSE

----------------------------------------------------------------------------
(* The call and the share. *)

JoinCall ==
    /\ ~inCall
    /\ inCall' = TRUE
    /\ UNCHANGED <<sharing, mode, looping, peers, tuned, profile, candidate,
                   pending, net, run, adrift, view>>

\* ensureMetricsLoop, at the end of handleToggleVoice.
EnsureMetricsLoop ==
    /\ inCall /\ ~looping
    /\ looping' = TRUE
    /\ UNCHANGED <<inCall, sharing, mode, peers, tuned, profile, candidate,
                   pending, net, run, adrift, view>>

\* Those who remember another profile than the one that a sender starts with.
Remembering == {p \in Peers : profile[p] \notin {None, "excellent"}}

\* ensurePeerConnection, which adds the tracks of a share.
ConnectPeer(p) ==
    /\ inCall
    /\ p \notin peers
    /\ peers' = peers \cup {p}
    /\ IF sharing
       THEN /\ tuned' = [tuned EXCEPT ![p] = "excellent"]
            /\ adrift' = adrift \cup ({p} \cap Remembering)
       ELSE UNCHANGED <<tuned, adrift>>
    /\ UNCHANGED <<inCall, sharing, mode, looping, profile, candidate, pending,
                   net, run, view>>

\* A measurement whose connection was closed goes on.
Outlived(s) == IF s = None THEN None ELSE [s EXCEPT !.live = FALSE]

\* voice_leave, or the connection is lost: it is closed and forgotten, but not
\* the profile.
PeerLeaves(p) ==
    /\ p \in peers
    /\ peers' = peers \ {p}
    /\ tuned' = [tuned EXCEPT ![p] = None]
    /\ pending' = [pending EXCEPT ![p] = Outlived(@)]
    /\ adrift' = adrift \ {p}
    /\ UNCHANGED <<inCall, sharing, mode, looping, profile, candidate, net, run, view>>

\* startVideoShare.
ShareStarts(m) ==
    /\ inCall /\ ~sharing
    /\ sharing' = TRUE
    /\ mode' = m
    /\ looping' = TRUE
    /\ tuned' = [p \in Peers |-> IF p \in peers THEN "excellent" ELSE None]
    /\ adrift' = peers \cap Remembering
    /\ UNCHANGED <<inCall, peers, profile, candidate, pending, net, run, view>>

\* stopScreenShare.
ShareStops ==
    /\ sharing
    /\ Len(wire) < MaxWire
    /\ sharing' = FALSE
    /\ tuned' = Nobody
    /\ adrift' = {}
    /\ wire' = Append(wire, "stop")
    /\ orphaned' = FALSE
    /\ UNCHANGED <<inCall, mode, looping, peers, profile, candidate, pending,
                   net, run, row>>

\* handleToggleVoice leaves the call without a word about the share.
LeaveCall ==
    /\ inCall
    /\ inCall' = FALSE /\ sharing' = FALSE /\ looping' = FALSE
    /\ peers' = {}
    /\ tuned' = Nobody
    /\ profile' = Nobody
    /\ candidate' = [p \in Peers |-> NoHits]
    /\ pending' = [p \in Peers |-> Outlived(pending[p])]
    /\ run' = [p \in Peers |-> Steady!NoRun]
    /\ adrift' = {}
    /\ orphaned' = (orphaned \/ sharing)
    /\ UNCHANGED <<mode, net, wire, row>>

----------------------------------------------------------------------------
(* The measurements. *)

NetworkShifts(p) ==
    /\ net' \in {[net EXCEPT ![p] = n] : n \in Networks}
    /\ UNCHANGED <<inCall, sharing, mode, looping, peers, tuned, profile,
                   candidate, pending, run, adrift, view>>

Least(m, n) == IF m < n THEN m ELSE n

\* What publishLocalStreamMetrics finds of the stream to p.
Quality(p) ==
    ClassifyNetworkQuality(net[p].latency, net[p].fps, net[p].loss,
                           Least(net[p].capacity, MaxBitrate[mode][tuned[p]]))

\* The interval calls publishLocalStreamMetrics; without video there is nothing
\* to publish.
Tick ==
    /\ looping
    /\ \E p \in peers : tuned[p] # None /\ pending[p] = None
    /\ pending' = [p \in Peers |->
           IF p \in peers /\ tuned[p] # None /\ pending[p] = None
           THEN [live |-> TRUE, quality |-> Quality(p)] ELSE pending[p]]
    /\ UNCHANGED <<inCall, sharing, mode, looping, peers, tuned, profile,
                   candidate, net, run, adrift, view>>

\* A bug: a candidate inherits the hits of the one before.
CountAll(c, q) == [candidate |-> q, hits |-> c.hits + 1]

\* A bug: the first hit counts for nothing.
CountFromZero(c, q) ==
    [candidate |-> q, hits |-> IF c.candidate = q THEN c.hits + 1 ELSE 0]

\* A bug: the hits are not counted.
CountOnce(c, q) == [candidate |-> q, hits |-> 1]

\* The candidate for the next profile, after a measurement that differs from
\* the present one.
StableCandidate(c, q) ==
    [candidate |-> q, hits |-> IF c.candidate = q THEN c.hits + 1 ELSE 1]

\* The sender of p is tuned, if the connection measured is still there and has
\* one.  A profile that no sender was tuned to sets the two apart.
TunePeerSender(p, q, live) ==
    IF live /\ tuned[p] # None
    THEN /\ tuned' = [tuned EXCEPT ![p] = q]
         /\ adrift' = adrift \ {p}
    ELSE /\ adrift' = IF tuned[p] # None THEN adrift \cup {p} ELSE adrift
         /\ UNCHANGED tuned

\* The profile of p is q from now on.
SetProfile(p, q, live) ==
    /\ profile' = [profile EXCEPT ![p] = q]
    /\ candidate' = [candidate EXCEPT ![p] = NoHits]
    /\ TunePeerSender(p, q, live)

\* adaptVideoSenderForNetwork.
AdaptVideoSenderForNetwork(p, q, live) ==
    LET c == StableCandidate(candidate[p], q)
    IN  \/ /\ profile[p] = None
           /\ SetProfile(p, q, live)
        \/ /\ profile[p] = q
           /\ candidate' = [candidate EXCEPT ![p] = NoHits]
           /\ UNCHANGED <<profile, tuned, adrift>>
        \/ /\ profile[p] \notin {None, q}
           /\ c.hits < RequiredHits(profile[p], q)
           /\ candidate' = [candidate EXCEPT ![p] = c]
           /\ UNCHANGED <<profile, tuned, adrift>>
        \/ /\ profile[p] \notin {None, q}
           /\ c.hits >= RequiredHits(profile[p], q)
           /\ SetProfile(p, q, live)

\* getStats has answered: the result is published and adapted to, whatever has
\* become of the share and of the call.
Measured(p) ==
    /\ pending[p] # None
    /\ Len(wire) < MaxWire
    /\ pending' = [pending EXCEPT ![p] = None]
    /\ run' = [run EXCEPT ![p] = Steady!Longer(@, pending[p].quality)]
    /\ AdaptVideoSenderForNetwork(p, pending[p].quality, pending[p].live)
    /\ wire' = Append(wire, pending[p].quality)
    /\ orphaned' = (orphaned \/ ~sharing)
    /\ UNCHANGED <<inCall, sharing, mode, looping, peers, net, row>>

----------------------------------------------------------------------------
(* The viewer. *)

\* A bug: the end of a share leaves the row.
KeepRow(m) == IF m = "stop" THEN row ELSE m

\* stream_metrics fills the row, screen_share_stop deletes it.
StreamStats(m) == IF m = "stop" THEN None ELSE m

ViewerReceives ==
    /\ wire # <<>>
    /\ row' = StreamStats(Head(wire))
    /\ wire' = Tail(wire)
    /\ UNCHANGED <<inCall, sharing, mode, looping, peers, tuned, profile,
                   candidate, pending, net, run, adrift, orphaned>>

\* connectionQuality of the chat panel, over the rows that there are.
ConnectionQuality(rows) ==
    IF rows = {} THEN "unknown"
    ELSE IF "poor" \in rows THEN "poor"
    ELSE IF rows \cap {"degraded", "fair"} # {} THEN "medium"
    ELSE "good"

Shown == ConnectionQuality({row} \ {None})

----------------------------------------------------------------------------
Next ==
    \/ JoinCall \/ EnsureMetricsLoop \/ ShareStops \/ LeaveCall \/ Tick \/ ViewerReceives
    \/ \E m \in VideoModes : ShareStarts(m)
    \/ \E p \in Peers : ConnectPeer(p) \/ PeerLeaves(p) \/ NetworkShifts(p) \/ Measured(p)

\* The interval goes on, getStats answers, messages arrive.
Spec == /\ Init /\ [][Next]_vars
        /\ WF_vars(Tick) /\ WF_vars(ViewerReceives)
        /\ \A p \in Peers : WF_vars(Measured(p))

----------------------------------------------------------------------------
(* Properties. *)

Samples == [live : BOOLEAN, quality : NetworkProfiles]

\* The type invariant; hits are counted from one, and never reach those required.
TypeOK ==
    /\ {inCall, sharing, looping, orphaned} \subseteq BOOLEAN
    /\ mode \in VideoModes
    /\ peers \subseteq Peers /\ adrift \subseteq Peers
    /\ tuned \in [Peers -> NetworkProfiles \cup {None}]
    /\ profile \in [Peers -> NetworkProfiles \cup {None}]
    /\ candidate \in [Peers -> {NoHits} \cup [candidate : NetworkProfiles, hits : 1..3]]
    /\ pending \in [Peers -> Samples \cup {None}]
    /\ net \in [Peers -> Networks]
    /\ run \in [Peers -> {Steady!NoRun} \cup [of : NetworkProfiles, len : 1..MostHits]]
    /\ wire \in Seq(NetworkProfiles \cup {"stop"}) /\ Len(wire) <= MaxWire
    /\ row \in NetworkProfiles \cup {None}

\* The counters keep the promise of SteadyProfile: a profile changes after four
\* worse or three better measurements in a row, then at once, and not before.
IsSteady == Steady!Spec

\* When all was delivered, the viewer's badge says that there is no data unless
\* somebody shares, except after a share that ended without a word or whose
\* last measurement came too late.
BadgeIsHonest ==
    wire = <<>> /\ ~sharing /\ ~orphaned => Shown = "unknown"

\* A screen that is shared over a network that stays as good as can be is sent
\* at its best in the end, however bad the network was before.
ClimbsBack ==
    \A p \in Peers :
        <>[](/\ sharing /\ mode = "screen" /\ p \in peers /\ p \notin adrift
             /\ net[p].latency <= 110 /\ net[p].fps >= 28 /\ net[p].loss < 13
             /\ net[p].capacity >= 2000)
        => <>[](tuned[p] = "excellent" \/ p \in adrift)
=============================================================================
