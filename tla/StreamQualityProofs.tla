------------------------ MODULE StreamQualityProofs ------------------------
(***************************************************************************)
(* Proofs about StreamQuality: its counters implement SteadyProfile, and a *)
(* viewer's badge goes when the share does.                                *)
(***************************************************************************)
EXTENDS StreamQuality, SequenceTheorems, TLAPS

(* What the thresholds say. *)

\* A stream that is no worse in any respect is classified no worse.
THEOREM ClassifyMonotone ==
    ASSUME NEW l1 \in Nat, NEW f1 \in Nat, NEW x1 \in Nat, NEW b1 \in Nat,
           NEW l2 \in Nat, NEW f2 \in Nat, NEW x2 \in Nat, NEW b2 \in Nat,
           l2 <= l1, f1 <= f2, x2 <= x1, b1 <= b2
    PROVE  NetworkProfileOrder[ClassifyNetworkQuality(l1, f1, x1, b1)]
               <= NetworkProfileOrder[ClassifyNetworkQuality(l2, f2, x2, b2)]
BY DEF ClassifyNetworkQuality, Reaches, NetworkProfileOrder

LEMMA ClassifyType ==
    ASSUME NEW l, NEW f, NEW x, NEW b
    PROVE  ClassifyNetworkQuality(l, f, x, b) \in NetworkProfiles
BY DEF ClassifyNetworkQuality, NetworkProfiles

LEMMA RequiredHitsType ==
    ASSUME NEW a \in NetworkProfiles, NEW b \in NetworkProfiles
    PROVE  RequiredHits(a, b) \in {3, 4}
BY DEF RequiredHits

\* A camera that was tuned down to "good" or worse never measures "excellent",
\* and one tuned down to "fair" or worse never "good", over any network: its own
\* bitrate limit is below what they ask for, so that it never climbs back.
THEOREM CameraIsTrapped ==
    ASSUME NetworkAssumption, TypeOK, mode = "camera", NEW p \in Peers
    PROVE  /\ tuned[p] = "good" => Quality(p) # "excellent"
           /\ tuned[p] \in {"fair", "degraded", "poor"} => Quality(p) \notin {"good", "excellent"}
<1> DEFINE limit == MaxBitrate[mode][tuned[p]]
           rate == Least(net[p].capacity, limit)
<1>1. net[p].capacity \in Nat
  BY DEF TypeOK, NetworkAssumption
<1>2. ASSUME tuned[p] = "good" PROVE Quality(p) # "excellent"
  <2>1. limit = 1500
    BY <1>2 DEF MaxBitrate
  <2>2. rate \in Nat /\ rate < 2000
    BY <1>1, <2>1 DEF Least
  <2> QED BY <2>2 DEF Quality, ClassifyNetworkQuality, Reaches
<1>3. ASSUME tuned[p] \in {"fair", "degraded", "poor"}
      PROVE  Quality(p) \notin {"good", "excellent"}
  <2>1. limit \in {700, 900, 1150}
    BY <1>3 DEF MaxBitrate
  <2>2. rate \in Nat /\ rate < 1300
    BY <1>1, <2>1 DEF Least
  <2> QED BY <2>2 DEF Quality, ClassifyNetworkQuality, Reaches
<1> QED BY <1>2, <1>3

----------------------------------------------------------------------------
(* The counters. *)

\* What the counters have to do with the measurements: no candidate means that
\* the last measurement was the profile, and a candidate was measured as often in
\* a row as it has hits, which are not enough yet.
Counted(p) ==
    /\ profile[p] = None => candidate[p] = NoHits /\ run[p] = Steady!NoRun
    /\ profile[p] # None /\ candidate[p] = NoHits => run[p].of = profile[p]
    /\ profile[p] # None /\ candidate[p] # NoHits =>
           /\ candidate[p].candidate = run[p].of
           /\ run[p].of # profile[p]
           /\ candidate[p].hits = run[p].len
           /\ run[p].len < RequiredHits(profile[p], run[p].of)

RunTypes == {Steady!NoRun} \cup [of : NetworkProfiles, len : 1..MostHits]

\* Without a share, unless a measurement or the end of it went astray, the last
\* that the viewer gets is the end of the share.
LastIsStop ==
    ~sharing /\ ~orphaned =>
        IF wire = <<>> THEN row = None ELSE wire[Len(wire)] = "stop"

\* The inductive invariant.
IInv == TypeOK /\ (\A p \in Peers : Counted(p)) /\ LastIsStop

\* The variables that the counters are about.
counters == <<profile, candidate, run>>

LEMMA CountedUnchanged ==
    ASSUME \A p \in Peers : Counted(p), UNCHANGED counters
    PROVE  \A p \in Peers : Counted(p)'
BY DEF Counted, counters

LEMMA LongerType ==
    ASSUME NEW r \in RunTypes, NEW q \in NetworkProfiles
    PROVE  Steady!Longer(r, q) \in [of : NetworkProfiles, len : 1..MostHits]
BY DEF RunTypes, Steady!Longer, Steady!MostHits, MostHits, Steady!NoRun

\* The thresholds are the same in the promise and in its implementation.
LEMMA SameThresholds ==
    /\ Steady!MostHits = MostHits
    /\ Steady!NetworkProfiles = NetworkProfiles
    /\ \A a, b : Steady!RequiredHits(a, b) = RequiredHits(a, b)
BY DEF Steady!MostHits, MostHits, Steady!NetworkProfiles, NetworkProfiles,
       Steady!RequiredHits, RequiredHits, Steady!NetworkProfileOrder, NetworkProfileOrder

LEMMA NoHitsIsNone ==
    ASSUME NoneAssumption, NEW q \in NetworkProfiles, NEW n
    PROVE  [candidate |-> q, hits |-> n] # NoHits
BY DEF NoHits, NoneAssumption

\* What one measurement does to the memory of the user measured.
LEMMA MeasuredSteps ==
    ASSUME NoneAssumption, IInv, NEW p \in Peers, Measured(p)
    PROVE  LET q == pending[p].quality
               r == Steady!Longer(run[p], q)
           IN  /\ q \in NetworkProfiles
               /\ r \in [of : NetworkProfiles, len : 1..MostHits]
               /\ r.of = q
               /\ run' = [run EXCEPT ![p] = r]
               /\ profile' = [profile EXCEPT ![p] = IF Steady!Convincing(@, r) THEN q ELSE @]
               /\ \E c \in {NoHits} \cup [candidate : NetworkProfiles, hits : 1..3] :
                      /\ candidate' = [candidate EXCEPT ![p] = c]
                      /\ c = NoHits => q = profile'[p]
                      /\ c # NoHits => /\ c.candidate = q /\ q # profile'[p]
                                       /\ c.hits = r.len
                                       /\ r.len < RequiredHits(profile'[p], q)
<1> DEFINE q == pending[p].quality
           r == Steady!Longer(run[p], q)
           c == StableCandidate(candidate[p], q)
<1>1. q \in NetworkProfiles
  BY DEF IInv, TypeOK, Measured, Samples
<1>2. run[p] \in RunTypes /\ profile[p] \in NetworkProfiles \cup {None} /\ Counted(p)
  BY DEF IInv, TypeOK, RunTypes
<1>3. r \in [of : NetworkProfiles, len : 1..MostHits] /\ r.of = q
  BY <1>1, <1>2, LongerType DEF Steady!Longer
<1>4. run' = [run EXCEPT ![p] = r]
  BY DEF Measured
<1>5. AdaptVideoSenderForNetwork(p, q, pending[p].live)
  BY DEF Measured
<1>6. profile \in [Peers -> NetworkProfiles \cup {None}]
  BY DEF IInv, TypeOK
<1>7. ASSUME profile[p] \notin {None, q}
      PROVE  /\ c.candidate = q
             /\ c.hits = r.len
  <2>1. CASE candidate[p] = NoHits
    <3>1. c = [candidate |-> q, hits |-> 1]
      BY <2>1, <1>1, NoneAssumption DEF StableCandidate, NoHits
    <3>2. r.len = 1
      BY <2>1, <1>2, <1>7 DEF Counted, Steady!Longer
    <3> QED BY <3>1, <3>2
  <2>2. CASE candidate[p] # NoHits
    <3>1. /\ candidate[p].candidate = run[p].of
          /\ candidate[p].hits = run[p].len
          /\ run[p].len < RequiredHits(profile[p], run[p].of)
      BY <2>2, <1>2, <1>7 DEF Counted
    <3>2. run[p].of \in NetworkProfiles /\ run[p].len \in 1..MostHits
      <4>1. run[p] # Steady!NoRun
        BY <3>1, <2>2, <1>2 DEF IInv, TypeOK, Steady!NoRun, NoHits
      <4> QED BY <4>1, <1>2 DEF RunTypes
    <3>3. run[p].len < MostHits
      BY <3>1, <3>2, <1>2, <1>7, RequiredHitsType DEF MostHits
    <3>4. c = [candidate |-> q, hits |-> IF run[p].of = q THEN run[p].len + 1 ELSE 1]
      BY <3>1 DEF StableCandidate
    <3>5. r.len = IF run[p].of = q THEN run[p].len + 1 ELSE 1
      BY <3>3, SameThresholds DEF Steady!Longer
    <3> QED BY <3>4, <3>5
  <2> QED BY <2>1, <2>2
<1>8. Steady!Convincing(profile[p], r) <=>
          profile[p] = None \/ r.len >= RequiredHits(profile[p], q)
  BY <1>3, SameThresholds DEF Steady!Convincing
<1>9. ASSUME profile[p] \notin {None, q}, r.len < RequiredHits(profile[p], q)
      PROVE  c \in [candidate : NetworkProfiles, hits : 1..3]
  BY <1>9, <1>7, <1>3, <1>1, <1>2, RequiredHitsType DEF StableCandidate, MostHits
<1>10. CASE profile[p] = None
  <2>1. profile' = [profile EXCEPT ![p] = q] /\ candidate' = [candidate EXCEPT ![p] = NoHits]
    BY <1>10, <1>5, <1>1 DEF AdaptVideoSenderForNetwork, SetProfile, NoneAssumption
  <2>2. profile'[p] = q
    BY <2>1, <1>6
  <2> QED BY <2>1, <2>2, <1>1, <1>3, <1>4, <1>8, <1>10
<1>11. CASE profile[p] = q
  <2>1. profile' = profile /\ candidate' = [candidate EXCEPT ![p] = NoHits]
    BY <1>11, <1>5, <1>1, NoneAssumption DEF AdaptVideoSenderForNetwork, NoneAssumption
  <2>2. profile' = [profile EXCEPT ![p] = IF Steady!Convincing(@, r) THEN q ELSE @]
    BY <2>1, <1>11, <1>6
  <2> QED BY <2>1, <2>2, <1>1, <1>3, <1>4, <1>11
<1>12. CASE profile[p] \notin {None, q} /\ r.len < RequiredHits(profile[p], q)
  <2>1. profile' = profile /\ candidate' = [candidate EXCEPT ![p] = c]
    BY <1>12, <1>5, <1>7, <1>3, <1>2, <1>1, RequiredHitsType
       DEF AdaptVideoSenderForNetwork, MostHits
  <2>2. profile' = [profile EXCEPT ![p] = IF Steady!Convincing(@, r) THEN q ELSE @]
    BY <2>1, <1>12, <1>8, <1>6, <1>3, <1>2, <1>1, RequiredHitsType DEF MostHits
  <2>3. c \in [candidate : NetworkProfiles, hits : 1..3] /\ c # NoHits
    <3>1. c \in [candidate : NetworkProfiles, hits : 1..3]
      BY <1>12, <1>9
    <3>2. c.hits # 0
      BY <3>1
    <3> QED BY <3>1, <3>2 DEF NoHits
  <2> QED BY <2>1, <2>2, <2>3, <1>1, <1>3, <1>4, <1>7, <1>12
<1>13. CASE profile[p] \notin {None, q} /\ ~(r.len < RequiredHits(profile[p], q))
  <2>1. profile' = [profile EXCEPT ![p] = q] /\ candidate' = [candidate EXCEPT ![p] = NoHits]
    BY <1>13, <1>5, <1>7 DEF AdaptVideoSenderForNetwork, SetProfile
  <2>2. r.len >= RequiredHits(profile[p], q)
    BY <1>13, <1>3, <1>2, <1>1, RequiredHitsType DEF MostHits
  <2>3. profile'[p] = q
    BY <2>1, <1>6
  <2> QED BY <2>1, <2>2, <2>3, <1>1, <1>3, <1>4, <1>8, <1>13
<1> QED BY <1>10, <1>11, <1>12, <1>13

----------------------------------------------------------------------------
(* The invariant. *)

LEMMA AppendLast ==
    ASSUME NEW S, NEW s \in Seq(S), NEW e \in S
    PROVE  /\ Append(s, e) \in Seq(S) /\ Len(Append(s, e)) = Len(s) + 1
           /\ Append(s, e) # <<>> /\ Append(s, e)[Len(Append(s, e))] = e
OBVIOUS

LEMMA TailKeepsLast ==
    ASSUME NEW S, NEW s \in Seq(S), s # <<>>
    PROVE  /\ Head(s) \in S
           /\ Tail(s) \in Seq(S) /\ Len(Tail(s)) = Len(s) - 1
           /\ Tail(s) = <<>> => Head(s) = s[Len(s)]
           /\ Tail(s) # <<>> => Tail(s)[Len(Tail(s))] = s[Len(s)]
<1>1. /\ Len(s) \in Nat \ {0} /\ Head(s) = s[1] /\ Head(s) \in S
      /\ Tail(s) \in Seq(S) /\ Len(Tail(s)) = Len(s) - 1
      /\ \A i \in 1..Len(Tail(s)) : Tail(s)[i] = s[i + 1]
  OBVIOUS
<1>2. ASSUME Tail(s) # <<>> PROVE Len(Tail(s)) \in 1..Len(Tail(s))
  BY <1>1, <1>2, EmptySeq
<1>3. ASSUME Tail(s) = <<>> PROVE Len(s) = 1
  <2>1. Len(<<>>) = 0
    OBVIOUS
  <2>2. Len(Tail(s)) = 0
    BY ONLY <1>3, <2>1, Zenon
  <2>3. Len(s) - 1 = 0
    BY ONLY <1>1, <2>2, Zenon
  <2>4. Len(s) \in Nat
    OBVIOUS
  <2> QED BY ONLY <2>3, <2>4, SMT
<1> QED BY <1>1, <1>2, <1>3

\* What may be on the wire.
Sent == NetworkProfiles \cup {"stop"}

LEMMA InitIInv ==
    ASSUME Init, NoneAssumption, BoundAssumption
    PROVE  IInv
<1>1. TypeOK
  <2>1. wire \in Seq(NetworkProfiles \cup {"stop"}) /\ Len(wire) <= MaxWire
    BY DEF Init, BoundAssumption
  <2>2. /\ profile \in [Peers -> NetworkProfiles \cup {None}]
        /\ tuned \in [Peers -> NetworkProfiles \cup {None}]
        /\ pending \in [Peers -> Samples \cup {None}]
        /\ candidate \in [Peers -> {NoHits} \cup [candidate : NetworkProfiles, hits : 1..3]]
        /\ run \in [Peers -> {Steady!NoRun} \cup [of : NetworkProfiles, len : 1..MostHits]]
    BY DEF Init, Nobody
  <2> QED BY <2>1, <2>2 DEF Init, TypeOK, VideoModes
<1>2. \A p \in Peers : Counted(p)
  BY DEF Init, Counted, Nobody
<1>3. LastIsStop
  BY DEF Init, LastIsStop
<1> QED BY <1>1, <1>2, <1>3 DEF IInv

\* A quality is a profile.
LEMMA QualityType ==
    ASSUME NEW p
    PROVE  Quality(p) \in NetworkProfiles
BY ClassifyType DEF Quality

LEMMA NextTypeOK ==
    ASSUME NoneAssumption, BoundAssumption, IInv, Next
    PROVE  TypeOK'
<1> USE DEF view
<1>1. CASE JoinCall
  BY <1>1 DEF IInv, TypeOK, JoinCall
<1>2. CASE EnsureMetricsLoop
  BY <1>2 DEF IInv, TypeOK, EnsureMetricsLoop
<1>3. CASE ShareStops
  <2>1. wire' \in Seq(Sent) /\ Len(wire') <= MaxWire
    BY <1>3, AppendLast DEF IInv, TypeOK, ShareStops, Sent, BoundAssumption
  <2> QED BY <1>3, <2>1 DEF IInv, TypeOK, ShareStops, Nobody, Sent
<1>4. CASE LeaveCall
  BY <1>4 DEF IInv, TypeOK, LeaveCall, Nobody, Outlived, Samples
<1>5. CASE Tick
  BY <1>5, QualityType DEF IInv, TypeOK, Tick, Samples
<1>6. CASE ViewerReceives
  <2>1. wire' \in Seq(Sent) /\ Len(wire') <= MaxWire /\ Head(wire) \in Sent
    BY <1>6, TailKeepsLast DEF IInv, TypeOK, ViewerReceives, Sent, BoundAssumption
  <2> QED BY <1>6, <2>1 DEF IInv, TypeOK, ViewerReceives, StreamStats, Sent
<1>7. ASSUME NEW m \in VideoModes, ShareStarts(m)
      PROVE  TypeOK'
  BY <1>7 DEF IInv, TypeOK, ShareStarts, NetworkProfiles
<1>8. ASSUME NEW p \in Peers, ConnectPeer(p)
      PROVE  TypeOK'
  BY <1>8 DEF IInv, TypeOK, ConnectPeer, NetworkProfiles
<1>9. ASSUME NEW p \in Peers, PeerLeaves(p)
      PROVE  TypeOK'
  BY <1>9 DEF IInv, TypeOK, PeerLeaves, Outlived, Samples
<1>10. ASSUME NEW p \in Peers, NetworkShifts(p)
       PROVE  TypeOK'
  BY <1>10 DEF IInv, TypeOK, NetworkShifts
<1>11. ASSUME NEW p \in Peers, Measured(p)
       PROVE  TypeOK'
  <2> DEFINE q == pending[p].quality
             r == Steady!Longer(run[p], q)
  <2>1. /\ q \in NetworkProfiles
        /\ r \in [of : NetworkProfiles, len : 1..MostHits]
        /\ run' = [run EXCEPT ![p] = r]
        /\ profile' = [profile EXCEPT ![p] = IF Steady!Convincing(@, r) THEN q ELSE @]
        /\ \E c \in {NoHits} \cup [candidate : NetworkProfiles, hits : 1..3] :
               candidate' = [candidate EXCEPT ![p] = c]
    BY <1>11, MeasuredSteps
  <2>2. wire' \in Seq(Sent) /\ Len(wire') <= MaxWire
    BY <1>11, <2>1, AppendLast DEF IInv, TypeOK, Measured, Sent, BoundAssumption
  <2>3. /\ tuned' \in [Peers -> NetworkProfiles \cup {None}]
        /\ adrift' \subseteq Peers
    <3>1. TunePeerSender(p, q, pending[p].live) \/ UNCHANGED <<tuned, adrift>>
      BY <1>11 DEF Measured, AdaptVideoSenderForNetwork, SetProfile
    <3> QED BY <3>1, <2>1 DEF IInv, TypeOK, TunePeerSender
  <2>4. /\ run' \in [Peers -> {Steady!NoRun} \cup [of : NetworkProfiles, len : 1..MostHits]]
        /\ profile' \in [Peers -> NetworkProfiles \cup {None}]
        /\ candidate' \in [Peers -> {NoHits} \cup [candidate : NetworkProfiles, hits : 1..3]]
    BY <2>1 DEF IInv, TypeOK
  <2>5. pending' \in [Peers -> Samples \cup {None}]
    BY <1>11 DEF IInv, TypeOK, Measured
  <2>6. orphaned' \in BOOLEAN
    BY <1>11 DEF IInv, TypeOK, Measured
  <2> QED BY <1>11, <2>2, <2>3, <2>4, <2>5, <2>6 DEF IInv, TypeOK, Measured, Sent
<1> QED
  BY <1>1, <1>2, <1>3, <1>4, <1>5, <1>6, <1>7, <1>8, <1>9, <1>10, <1>11 DEF Next

LEMMA NextCounted ==
    ASSUME NoneAssumption, IInv, Next
    PROVE  \A p \in Peers : Counted(p)'
<1>1. CASE LeaveCall
  BY <1>1 DEF LeaveCall, Counted, Nobody
<1>2. ASSUME NEW p \in Peers, Measured(p)
      PROVE  \A o \in Peers : Counted(o)'
  <2> DEFINE q == pending[p].quality
             r == Steady!Longer(run[p], q)
  <2>1. \A o \in Peers \ {p} : profile'[o] = profile[o] /\ candidate'[o] = candidate[o]
                                  /\ run'[o] = run[o]
    BY <1>2, MeasuredSteps DEF IInv, TypeOK
  <2>2. /\ q \in NetworkProfiles /\ r.of = q /\ run'[p] = r
        /\ profile'[p] = IF Steady!Convincing(profile[p], r) THEN q ELSE profile[p]
        /\ candidate'[p] = NoHits => q = profile'[p]
        /\ candidate'[p] # NoHits => /\ candidate'[p].candidate = q /\ q # profile'[p]
                                     /\ candidate'[p].hits = r.len
                                     /\ r.len < RequiredHits(profile'[p], q)
    BY <1>2, MeasuredSteps DEF IInv, TypeOK
  <2>3. profile'[p] # None
    BY <2>2, NoneAssumption DEF Steady!Convincing, NoneAssumption
  <2>4. Counted(p)'
    BY <2>2, <2>3 DEF Counted
  <2>5. ASSUME NEW o \in Peers \ {p} PROVE Counted(o)'
    BY <2>1 DEF IInv, Counted
  <2> QED BY <2>4, <2>5
<1>3. ASSUME ~LeaveCall, \A p \in Peers : ~Measured(p)
      PROVE  UNCHANGED counters
  BY <1>3 DEF Next, JoinCall, EnsureMetricsLoop, ShareStops, Tick, ViewerReceives, ShareStarts,
       ConnectPeer, PeerLeaves, NetworkShifts, counters
<1> QED BY <1>1, <1>2, <1>3, CountedUnchanged DEF IInv

LEMMA NextLastIsStop ==
    ASSUME IInv, Next
    PROVE  LastIsStop'
<1> USE DEF view
<1>1. CASE JoinCall
  BY <1>1 DEF IInv, LastIsStop, JoinCall
<1>2. CASE EnsureMetricsLoop
  BY <1>2 DEF IInv, LastIsStop, EnsureMetricsLoop
<1>3. CASE ShareStops
  <2>1. wire' # <<>> /\ wire'[Len(wire')] = "stop"
    BY <1>3, AppendLast DEF IInv, TypeOK, ShareStops
  <2> QED BY <2>1 DEF LastIsStop
<1>4. CASE LeaveCall
  BY <1>4 DEF IInv, TypeOK, LastIsStop, LeaveCall
<1>5. CASE Tick
  BY <1>5 DEF IInv, LastIsStop, Tick
<1>6. CASE ViewerReceives
  <2>1. /\ wire # <<>> /\ wire' = Tail(wire) /\ row' = StreamStats(Head(wire))
        /\ sharing' = sharing /\ orphaned' = orphaned
    BY <1>6 DEF ViewerReceives
  <2>2. SUFFICES ASSUME ~sharing, ~orphaned
                 PROVE  IF wire' = <<>> THEN row' = None ELSE wire'[Len(wire')] = "stop"
    BY <2>1 DEF LastIsStop
  <2>3. wire[Len(wire)] = "stop"
    BY <2>1, <2>2 DEF IInv, LastIsStop
  <2>4. wire \in Seq(Sent)
    BY DEF IInv, TypeOK, Sent
  <2> QED BY <2>1, <2>3, <2>4, TailKeepsLast DEF StreamStats
<1>7. ASSUME NEW m \in VideoModes, ShareStarts(m)
      PROVE  LastIsStop'
  BY <1>7 DEF LastIsStop, ShareStarts
<1>8. ASSUME NEW p \in Peers, ConnectPeer(p) \/ PeerLeaves(p) \/ NetworkShifts(p)
      PROVE  LastIsStop'
  BY <1>8 DEF IInv, LastIsStop, ConnectPeer, PeerLeaves, NetworkShifts
<1>9. ASSUME NEW p \in Peers, Measured(p)
      PROVE  LastIsStop'
  BY <1>9 DEF LastIsStop, Measured
<1> QED
  BY <1>1, <1>2, <1>3, <1>4, <1>5, <1>6, <1>7, <1>8, <1>9 DEF Next

\* A step that changes no variable.
LEMMA StutterIInv ==
    ASSUME IInv, UNCHANGED vars
    PROVE  IInv'
BY DEF IInv, TypeOK, Counted, LastIsStop, vars, view

THEOREM Invariance ==
    ASSUME NoneAssumption, BoundAssumption
    PROVE  Spec => []IInv
<1>1. Init => IInv
  BY InitIInv
<1>2. IInv /\ [Next]_vars => IInv'
  BY NextTypeOK, NextCounted, NextLastIsStop, StutterIInv DEF IInv
<1> QED BY <1>1, <1>2, PTL DEF Spec

----------------------------------------------------------------------------
(* The theorems. *)

\* TypeOK for every set of remote users, networks and bound of the wire: hits
\* start at one and stay below what a change of profile takes.
THEOREM TypeCorrect ==
    ASSUME NoneAssumption, BoundAssumption
    PROVE  Spec => []TypeOK
<1>1. IInv => TypeOK
  BY DEF IInv
<1> QED BY <1>1, Invariance, PTL

\* When all was delivered, the badge of a viewer is honest about a share that is
\* over, but for the two ways named by orphaned.
THEOREM BadgeCorrect ==
    ASSUME NoneAssumption, BoundAssumption
    PROVE  Spec => []BadgeIsHonest
<1>1. IInv => BadgeIsHonest
  BY DEF IInv, LastIsStop, BadgeIsHonest, Shown, ConnectionQuality
<1> QED BY <1>1, Invariance, PTL

\* A step of StreamQuality is a step of SteadyProfile, or leaves it alone.
LEMMA StepImplements ==
    ASSUME NoneAssumption, IInv, Next
    PROVE  [Steady!Next]_<<profile, run>>
<1>1. CASE LeaveCall
  BY <1>1 DEF LeaveCall, Nobody, Steady!Next, Steady!Forget
<1>2. ASSUME NEW p \in Peers, Measured(p)
      PROVE  Steady!Next
  <2> DEFINE q == pending[p].quality
  <2>1. q \in NetworkProfiles /\ Steady!Measure(p, q)
    BY <1>2, MeasuredSteps DEF Steady!Measure
  <2> QED BY <2>1, SameThresholds DEF Steady!Next
<1>3. ASSUME ~LeaveCall, \A p \in Peers : ~Measured(p)
      PROVE  UNCHANGED <<profile, run>>
  BY <1>3 DEF Next, JoinCall, EnsureMetricsLoop, ShareStops, Tick, ViewerReceives, ShareStarts,
       ConnectPeer, PeerLeaves, NetworkShifts
<1> QED BY <1>1, <1>2, <1>3

\* The hysteresis of adaptVideoSenderForNetwork, with its candidate and its hits,
\* implements the promise of SteadyProfile, which has neither.
THEOREM Refinement ==
    ASSUME NoneAssumption, BoundAssumption
    PROVE  Spec => IsSteady
<1>1. Init => Steady!Init
  BY DEF Init, Nobody, Steady!Init
<1>2. IInv /\ [Next]_vars => [Steady!Next]_<<profile, run>>
  BY StepImplements DEF vars
<1> QED BY <1>1, <1>2, Invariance, PTL DEF Spec, IsSteady, Steady!Spec
=============================================================================
