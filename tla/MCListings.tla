----------------------------- MODULE MCListings -----------------------------
(* Listings with one invite of another room among those of the panel.      *)
EXTENDS Listings

CONSTANTS here, there

Membership ==
  [l \in Lists |-> [r \in Rows |-> IF l = "room-invites" /\ r = 2 THEN there ELSE here]]
=============================================================================
