---------------------------- MODULE MCRoomInvites ----------------------------
(* RoomInvites with two invites, two users and three requests.              *)
EXTENDS RoomInvites, TLC

InviteSymmetry ==
  Permutations(Invites) \cup Permutations(Users) \cup Permutations(Requests)
=============================================================================
