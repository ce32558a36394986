---------------------------- MODULE MCRoomMembers ----------------------------
(* RoomMembers with an admin and another user.                             *)
EXTENDS RoomMembers, TLC

CONSTANTS anna, bob, a1, b1, A, B

\* bob can come back once, on another socket.
Tabs == [s \in Sockets |-> IF s = a1 THEN anna ELSE bob]
OneServer == [s \in Sockets |-> A]
\* bob's first socket is on another server than anna's.
TwoServers == [s \in Sockets |-> IF s = b1 THEN B ELSE A]
AdminAndEditor == (anna :> "ADMIN") @@ (bob :> "EDITOR")
=============================================================================
