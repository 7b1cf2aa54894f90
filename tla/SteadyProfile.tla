--------------------------- MODULE SteadyProfile ---------------------------
(***************************************************************************)
(* What the adaptation of the video senders promises, without its          *)
(* counters: the profile of a remote user follows the measurements, but    *)
(* only one that was repeated without a break, four times for a worse      *)
(* profile and three times for a better one.                               *)
(***************************************************************************)
EXTENDS VideoProfiles

CONSTANTS
    Peers,  \* remote users
    None    \* no profile

VARIABLES
    profile,  \* the profile of each remote user
    run       \* the last measurement, and how often in a row it was made, of
              \* which more than MostHits is not told apart

NoRun == [of |-> None, len |-> 0]

Init ==
    /\ profile = [p \in Peers |-> None]
    /\ run = [p \in Peers |-> NoRun]

\* A run, with one more measurement.
Longer(r, q) ==
    [of |-> q, len |-> IF r.of # q THEN 1 ELSE IF r.len < MostHits THEN r.len + 1 ELSE MostHits]

\* The first measurement counts at once, any other only after enough of its kind.
Convincing(old, r) == old = None \/ r.len >= RequiredHits(old, r.of)

Measure(p, q) ==
    LET r == Longer(run[p], q)
    IN  /\ run' = [run EXCEPT ![p] = r]
        /\ profile' = [profile EXCEPT ![p] = IF Convincing(@, r) THEN q ELSE @]

\* The call ends: nothing is remembered.
Forget ==
    /\ profile' = [p \in Peers |-> None]
    /\ run' = [p \in Peers |-> NoRun]

Next == Forget \/ \E p \in Peers, q \in NetworkProfiles : Measure(p, q)

Spec == Init /\ [][Next]_<<profile, run>>
=============================================================================
