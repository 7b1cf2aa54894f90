--------------------------- MODULE VideoProfiles ---------------------------
(***************************************************************************)
(* The network profiles of webrtc/videoProfiles.ts and the thresholds that *)
(* useWorkspaceController measures a video stream by.  Packet loss is in   *)
(* tenths of a percent, bitrates are in kbit/s.                            *)
(***************************************************************************)
EXTENDS Naturals

NetworkProfiles == {"poor", "degraded", "fair", "good", "excellent"}

\* NETWORK_PROFILE_ORDER.
NetworkProfileOrder ==
    [poor |-> 1, degraded |-> 2, fair |-> 3, good |-> 4, excellent |-> 5]

VideoModes == {"screen", "camera"}

\* VIDEO_PROFILE_SETTINGS: what a sender may use of the network.
MaxBitrate ==
    [camera |-> [excellent |-> 2000, good |-> 1500, fair |-> 1150, degraded |-> 900, poor |-> 700],
     screen |-> [excellent |-> 3200, good |-> 2500, fair |-> 1800, degraded |-> 1250, poor |-> 900]]

\* What has to be reached for a profile.
Reaches(latency, fps, loss, bitrate, profile) ==
    CASE profile = "excellent" -> latency <= 110 /\ fps >= 28 /\ loss < 13 /\ bitrate >= 2000
      [] profile = "good"      -> latency <= 180 /\ fps >= 26 /\ loss < 25 /\ bitrate >= 1300
      [] profile = "fair"      -> latency <= 280 /\ fps >= 22 /\ loss < 45 /\ bitrate >= 900
      [] profile = "degraded"  -> latency <= 420 /\ fps >= 18 /\ loss < 75 /\ bitrate >= 600
      [] OTHER                 -> TRUE

ClassifyNetworkQuality(latency, fps, loss, bitrate) ==
    LET reaches(profile) == Reaches(latency, fps, loss, bitrate, profile)
    IN  IF reaches("excellent") THEN "excellent"
        ELSE IF reaches("good") THEN "good"
        ELSE IF reaches("fair") THEN "fair"
        ELSE IF reaches("degraded") THEN "degraded"
        ELSE "poor"

\* How many measurements in a row it takes to go from one profile to another.
RequiredHits(from, to) ==
    IF NetworkProfileOrder[to] < NetworkProfileOrder[from] THEN 4 ELSE 3

MostHits == 4
=============================================================================
