---------------------------- MODULE MCVoicePeers ----------------------------
\* Instances of VoicePeers: two tabs, with the bounds of the configurations.
EXTENDS VoicePeers, TLC
=============================================================================
