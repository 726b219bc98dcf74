---------------------------- MODULE MCFriendRelay ----------------------------
(* FriendRelay with one caller at each of two nodes. *)
EXTENDS FriendRelay, TLC
CONSTANTS n1, n2, t1, t2
CallsMC == t1 :> 2 @@ t2 :> 1
HomeMC == t1 :> n1 @@ t2 :> n2
=============================================================================
