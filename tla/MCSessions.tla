----------------------------- MODULE MCSessions -----------------------------
(* Small instances of Sessions for TLC. *)
EXTENDS Sessions, TLC

CONSTANTS alice, bob, w1, w2, b1, b2, b3, t1, t2, t3

\* Two tabs of one browser, and a browser with one tab.
ThreeTabs == b1 :> w1 @@ b2 :> w1 @@ b3 :> w2
TwoTabs == b1 :> w1 @@ b2 :> w1

\* Tokens are interchangeable, and so are users and the tabs of w1.
Interchangeable ==
    Permutations(Tokens) \cup Permutations(Users) \cup Permutations({b1, b2})
=============================================================================
