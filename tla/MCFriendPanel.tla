--------------------------- MODULE MCFriendPanel ---------------------------
\* Instances of FriendPanel, with the bounds of the configuration.
EXTENDS FriendPanel, TLC

\* Which call is which makes no difference.
SlotSymmetry == Permutations(Slots)
=============================================================================
