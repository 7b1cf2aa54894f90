-------------------------- MODULE MCStreamQuality --------------------------
\* An instance of StreamQuality: one remote user, over a clear, a slow and a
\* bad network.
EXTENDS StreamQuality, TLC

MCNetworks ==
    {[latency |-> 40, fps |-> 30, loss |-> 0, capacity |-> 4000],
     [latency |-> 150, fps |-> 30, loss |-> 10, capacity |-> 1400],
     [latency |-> 500, fps |-> 12, loss |-> 90, capacity |-> 300]}
=============================================================================
