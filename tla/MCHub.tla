------------------------------ MODULE MCHub ------------------------------
(* Small instances of Hub for TLC. *)
EXTENDS Hub, TLC

CONSTANTS c1, c2, c3, alice, bob, r1

\* Three connections, two of them of one account.
TwoOfAlice == c1 :> alice @@ c2 :> alice @@ c3 :> bob
JustAlice == c1 :> alice
\* One connection each.
OneEach == c1 :> alice @@ c2 :> bob

BothWays == {<<alice, bob>>, <<bob, alice>>}

\* What an earlier process left: nothing, alice's room with her in it alone, or
\* nothing or a room of either with both users in it.
NoRows == {[owner |-> NoOne, members |-> {}]}
AlicesRoom == {[owner |-> alice, members |-> {alice}]}
OldRoom == NoRows \cup {[owner |-> o, members |-> Usernames] : o \in Usernames}

\* Alice with her connection and bob with his are interchangeable.
SwapAll == {p \in Permutations({c1, c2, alice, bob}) :
              \A c \in {c1, c2} : /\ p[c] \in {c1, c2}
                                  /\ p[OneEach[c]] = OneEach[p[c]]}

\* The two connections of alice are interchangeable.
AlicesConns == Permutations({c1, c2})
=============================================================================
