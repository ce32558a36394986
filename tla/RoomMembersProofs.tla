-------------------------- MODULE RoomMembersProofs --------------------------
(***************************************************************************)
(* For any users, sockets, servers and commands. Whatever fails, the state *)
(* keeps its type and a row is locked by one command that is still in its  *)
(* transaction. When the things that happen to a user happen one after the *)
(* other and nothing fails, the four places that hold a role agree: the    *)
(* invariant says which one thing is going on for a user, how far it has   *)
(* brought the row, the entry and the sockets, and which pages are still   *)
(* to be told.                                                             *)
(***************************************************************************)
EXTENDS RoomMembers, TLAPS

\* Transactions of handleRemove and handlePromote.
Inside == {"unlist", "hget", "hset", "commit"}
Ended == {"new", "done"}

\* What a command that is under way has been called with.
ArgInv ==
  \A c \in Commands :
    /\ cpc[c] \notin Ended => /\ arg[c].kind # "none" /\ arg[c].by \in Sockets
                              /\ arg[c].user \in Users
    /\ cpc[c] \in Ended => arg[c] = NoArg
    /\ cpc[c] = "find" => arg[c].kind = "remove"

LEMMA InitType == Init => TypeOK /\ ArgInv
  BY NoneAssumption, RightsAssumption, FaultAssumption
     DEF Init, TypeOK, ArgInv, Ended, Nobody, NoArg, Args, RoleOrNone

\* A page stays a list of users with their roles when a message is shown on it.
LEMMA ReceivedType ==
  ASSUME TypeOK, NEW v \in Servers, NEW m \in Messages, NEW except, m.kind # "kick"
  PROVE  Received(v, m, except) \in [Sockets -> [Users -> RoleOrNone]]
  <1>1. ASSUME NEW s \in Sockets PROVE Shown(s, m) \in [Users -> RoleOrNone]
    BY DEF Shown, TypeOK, Messages, RoleOrNone
  <1>2. QED
    BY <1>1 DEF Received, TypeOK

LEMMA PublishType ==
  ASSUME TypeOK, NEW v \in Servers, NEW m \in Messages, Publish(v, m)
  PROVE  channel' \in [Servers -> Seq(Messages)]
  BY DEF Publish, TypeOK

LEMMA BroadcastType ==
  ASSUME TypeOK, NEW v \in Servers, NEW kind \in {"joined", "left", "promoted"},
         NEW u \in Users, NEW role \in RoleOrNone, NEW except, Broadcast(v, kind, u, role, except)
  PROVE  /\ channel' \in [Servers -> Seq(Messages)]
         /\ page' \in [Sockets -> [Users -> RoleOrNone]]
  <1> DEFINE m == [kind |-> kind, user |-> u, role |-> role, socket |-> None]
  <1>1. m \in Messages /\ m.kind # "kick"
    BY DEF Messages
  <1>2. page' = Received(v, m, except) /\ Publish(v, m)
    BY DEF Broadcast
  <1> HIDE DEF m
  <1>3. QED
    BY <1>1, <1>2, ReceivedType, PublishType

LEMMA CloseType ==
  ASSUME TypeOK, NEW s, Close(s)
  PROVE  live' \in [Sockets -> BOOLEAN] /\ bye' \in [Sockets -> {"no", "del", "tell"}]
  BY DEF Close, TypeOK

LEMMA DisconnectType ==
  ASSUME TypeOK, NEW v \in Servers, NEW s \in Sockets, Disconnect(v, s)
  PROVE  /\ live' \in [Sockets -> BOOLEAN] /\ bye' \in [Sockets -> {"no", "del", "tell"}]
         /\ channel' \in [Servers -> Seq(Messages)]
  <1> DEFINE m == [kind |-> "kick", user |-> OwnerOf[s], role |-> None, socket |-> s]
  <1>1. m \in Messages
    BY SocketAssumption DEF Messages, RoleOrNone
  <1>2. CASE Home[s] = v
    BY <1>2, CloseType DEF Disconnect, TypeOK
  <1>3. CASE Home[s] # v
    <2>1. channel' = [channel EXCEPT ![Home[s]] = Append(@, m)] /\ UNCHANGED <<live, bye>>
      BY <1>3 DEF Disconnect
    <2>2. Home[s] \in Servers
      BY SocketAssumption
    <2> HIDE DEF m
    <2>3. QED
      BY <1>1, <2>1, <2>2 DEF TypeOK
  <1>4. QED
    BY <1>2, <1>3

LEMMA RelistType ==
  ASSUME TypeOK, NEW S, S \subseteq [Users -> RoleOrNone], Relist(S)
  PROVE  active' \in [Users -> RoleOrNone] /\ blurred' \in [Sockets -> SUBSET Users]
  BY DEF Relist, TypeOK

Labels == {"new", "fetch", "find", "write", "unlist", "hget", "hset", "commit", "after", "done"}

\* A command that goes on keeps its arguments, one that ends forgets them.
LEMMA GotoArgs ==
  ASSUME TypeOK, ArgInv, NEW c \in Commands, cpc[c] \notin Ended,
         NEW label \in Labels \ {"new", "done", "find"}, Goto(c, label), UNCHANGED arg
  PROVE  cpc' \in [Commands -> Labels] /\ arg' \in [Commands -> Args] /\ ArgInv'
  BY DEF TypeOK, Labels, Goto, ArgInv, Ended

LEMMA EndArgs ==
  ASSUME TypeOK, ArgInv, NEW c \in Commands, End(c)
  PROVE  cpc' \in [Commands -> Labels] /\ arg' \in [Commands -> Args] /\ ArgInv'
  BY DEF TypeOK, Labels, End, ArgInv, Ended, NoArg, Args, RoleOrNone

LEMMA OutcomeType ==
  ASSUME TypeOK, NEW ok, Outcome(ok)
  PROVE  faults' \in 0..MaxFaults
  BY FaultAssumption DEF Outcome, TypeOK

-----------------------------------------------------------------------------
LEMMA TypeStep == TypeOK /\ ArgInv /\ [Next]_vars => TypeOK' /\ ArgInv'
  <1> SUFFICES ASSUME TypeOK, ArgInv, [Next]_vars PROVE TypeOK' /\ ArgInv'
    OBVIOUS
  <1> USE NoneAssumption, SocketAssumption, FaultAssumption
      DEF database, connecting, sockets, commands, entries
  <1>1. ASSUME NEW s \in Sockets, Connect(s) PROVE TypeOK' /\ ArgInv'
    BY <1>1 DEF Connect, TypeOK, ArgInv
  <1>2. ASSUME NEW s \in Sockets, Leave(s) PROVE TypeOK' /\ ArgInv'
    BY <1>2, CloseType DEF Leave, TypeOK, ArgInv
  <1>3. ASSUME NEW s \in Sockets, CheckMember(s) PROVE TypeOK' /\ ArgInv'
    <2>1. faults' \in 0..MaxFaults
      BY <1>3, OutcomeType DEF CheckMember, TypeOK
    <2>2. live' \in [Sockets -> BOOLEAN] /\ bye' \in [Sockets -> {"no", "del", "tell"}]
      BY <1>3, CloseType DEF CheckMember, GiveUp, TypeOK
    <2>3. pc' \in [Sockets -> {"off", "check", "list", "join", "add", "tell", "in", "end"}]
      BY <1>3 DEF CheckMember, GiveUp, TypeOK
    <2>4. row' \in [Sockets -> RoleOrNone]
      BY <1>3 DEF CheckMember, TypeOK
    <2>5. UNCHANGED <<member, locked, active, blurred, data, list, page, channel, cpc, arg>>
      BY <1>3 DEF CheckMember
    <2>6. QED
      BY <2>1, <2>2, <2>3, <2>4, <2>5 DEF TypeOK, ArgInv
  <1>4. ASSUME NEW s \in Sockets, ReadActive(s) PROVE TypeOK' /\ ArgInv'
    <2>1. faults' \in 0..MaxFaults
      BY <1>4, OutcomeType DEF ReadActive, TypeOK
    <2>2. live' \in [Sockets -> BOOLEAN] /\ bye' \in [Sockets -> {"no", "del", "tell"}]
      BY <1>4, CloseType DEF ReadActive, GiveUp, TypeOK
    <2>3. pc' \in [Sockets -> {"off", "check", "list", "join", "add", "tell", "in", "end"}]
      BY <1>4 DEF ReadActive, GiveUp, TypeOK
    <2>4. list' \in [Sockets -> [Users -> RoleOrNone]]
      BY <1>4 DEF ReadActive, TypeOK
    <2>5. UNCHANGED <<member, locked, active, blurred, data, row, page, channel, cpc, arg>>
      BY <1>4 DEF ReadActive
    <2>6. QED
      BY <2>1, <2>2, <2>3, <2>4, <2>5 DEF TypeOK, ArgInv
  <1>5. ASSUME NEW s \in Sockets, JoinRoom(s) PROVE TypeOK' /\ ArgInv'
    BY <1>5 DEF JoinRoom, TypeOK, ArgInv
  <1>6. ASSUME NEW s \in Sockets, AddToActive(s) PROVE TypeOK' /\ ArgInv'
    <2>1. PICK ok \in BOOLEAN :
            /\ Outcome(ok)
            /\ Relist(Applied(ok, [active EXCEPT ![OwnerOf[s]] = row[s]], active))
            /\ IF ok THEN pc' = [pc EXCEPT ![s] = "tell"] /\ UNCHANGED <<live, bye>>
                     ELSE GiveUp(s)
      BY <1>6 DEF AddToActive
    <2>2. live' \in [Sockets -> BOOLEAN] /\ bye' \in [Sockets -> {"no", "del", "tell"}]
      BY <2>1, CloseType DEF GiveUp, TypeOK
    <2>3. active' \in [Users -> RoleOrNone] /\ blurred' \in [Sockets -> SUBSET Users]
      <3>1. Applied(ok, [active EXCEPT ![OwnerOf[s]] = row[s]], active) \subseteq [Users -> RoleOrNone]
        BY DEF Applied, TypeOK
      <3>2. QED
        BY <2>1, <3>1, RelistType
    <2>4. faults' \in 0..MaxFaults
      BY <2>1, OutcomeType
    <2>5. pc' \in [Sockets -> {"off", "check", "list", "join", "add", "tell", "in", "end"}]
      BY <2>1 DEF GiveUp, TypeOK
    <2>6. QED
      BY <1>6, <2>2, <2>3, <2>4, <2>5 DEF AddToActive, TypeOK, ArgInv
  <1>7. ASSUME NEW s \in Sockets, Announce(s) PROVE TypeOK' /\ ArgInv'
    <2> DEFINE m == [kind |-> "joined", user |-> OwnerOf[s], role |-> row[s], socket |-> None]
    <2>1. m \in Messages /\ m.kind # "kick" /\ Home[s] \in Servers
      BY DEF Messages, TypeOK
    <2>2. /\ page' = [Received(Home[s], m, s) EXCEPT ![s] = IF live[s] THEN list[s] ELSE @]
          /\ Publish(Home[s], m)
      BY <1>7 DEF Announce
    <2> HIDE DEF m
    <2>3. Received(Home[s], m, s) \in [Sockets -> [Users -> RoleOrNone]]
      BY <2>1, ReceivedType
    <2>4. page' \in [Sockets -> [Users -> RoleOrNone]]
      BY <2>2, <2>3 DEF TypeOK
    <2>5. channel' \in [Servers -> Seq(Messages)]
      BY <2>1, <2>2, PublishType
    <2>6. Nobody \in [Users -> RoleOrNone]
      BY DEF Nobody, RoleOrNone
    <2>7. QED
      BY <1>7, <2>4, <2>5, <2>6 DEF Announce, TypeOK, RoleOrNone, ArgInv
  <1>8. ASSUME NEW s \in Sockets, RemoveFromActive(s) PROVE TypeOK' /\ ArgInv'
    <2>1. PICK ok \in BOOLEAN :
            Outcome(ok) /\ Relist(Applied(ok, [active EXCEPT ![OwnerOf[s]] = None], active))
      BY <1>8 DEF RemoveFromActive
    <2>2. Applied(ok, [active EXCEPT ![OwnerOf[s]] = None], active) \subseteq [Users -> RoleOrNone]
      BY DEF Applied, TypeOK, RoleOrNone
    <2>3. active' \in [Users -> RoleOrNone] /\ blurred' \in [Sockets -> SUBSET Users]
      BY <2>1, <2>2, RelistType
    <2>4. faults' \in 0..MaxFaults
      BY <2>1, OutcomeType
    <2>5. QED
      BY <1>8, <2>3, <2>4 DEF RemoveFromActive, TypeOK, ArgInv
  <1>9. ASSUME NEW s \in Sockets, TellDisconnected(s) PROVE TypeOK' /\ ArgInv'
    <2>1. Broadcast(Home[s], "left", OwnerOf[s], None, s)
      BY <1>9 DEF TellDisconnected
    <2>2. OwnerOf[s] \in Users /\ Home[s] \in Servers /\ None \in RoleOrNone
      BY DEF RoleOrNone
    <2>3. channel' \in [Servers -> Seq(Messages)] /\ page' \in [Sockets -> [Users -> RoleOrNone]]
      BY <2>1, <2>2, BroadcastType
    <2>4. QED
      BY <1>9, <2>3 DEF TellDisconnected, TypeOK, ArgInv
  <1>10. ASSUME NEW c \in Commands, Issue(c) PROVE TypeOK' /\ ArgInv'
    <2>1. PICK s \in {t \in Sockets : InRoom(t)}, u \in Users,
               kind \in {"remove", "leave", "promote"}, role \in RoleOrNone :
            /\ arg' = [arg EXCEPT ![c] = [kind |-> kind, by |-> s, user |-> u,
                                          role |-> role, socket |-> None]]
            /\ Goto(c, IF kind = "leave" THEN "write" ELSE "fetch")
      BY <1>10 DEF Issue
    <2>2. arg'[c].kind # "none" /\ arg'[c].by \in Sockets /\ arg'[c].user \in Users
      BY <2>1 DEF TypeOK
    <2>3. arg' \in [Commands -> Args]
      BY <2>1 DEF TypeOK, Args
    <2>4. cpc'[c] \in {"write", "fetch"} /\ \A d \in Commands : d # c => cpc'[d] = cpc[d] /\ arg'[d] = arg[d]
      BY <2>1 DEF TypeOK, Goto
    <2>5. ArgInv'
      BY <2>2, <2>4 DEF ArgInv, Ended
    <2>6. QED
      BY <1>10, <2>1, <2>3, <2>5 DEF Issue, Goto, TypeOK
  <1>11. ASSUME NEW c \in Commands, FetchSocket(c) PROVE TypeOK' /\ ArgInv'
    <2>1. faults' \in 0..MaxFaults
      BY <1>11, OutcomeType DEF FetchSocket, TypeOK
    <2>2. CASE End(c)
      BY <1>11, <2>1, <2>2, EndArgs DEF FetchSocket, TypeOK, Labels
    <2>3. CASE \E s \in Sockets \cup {None} :
                 /\ arg' = [arg EXCEPT ![c].socket = s]
                 /\ Goto(c, IF arg[c].kind = "remove" THEN "find" ELSE "write")
      <3>1. arg' \in [Commands -> Args]
        <4>1. PICK s \in Sockets \cup {None} : arg' = [arg EXCEPT ![c].socket = s]
          BY <2>3
        <4>2. arg[c] \in Args
          BY DEF TypeOK
        <4>3. [arg[c] EXCEPT !.socket = s] \in Args
          BY <4>2 DEF Args
        <4>4. QED
          BY <4>1, <4>3 DEF TypeOK
      <3>2. cpc' \in [Commands -> Labels]
        BY <2>3 DEF TypeOK, Labels, Goto
      <3>3. /\ arg'[c].kind = arg[c].kind /\ arg'[c].by = arg[c].by /\ arg'[c].user = arg[c].user
            /\ \A d \in Commands : d # c => cpc'[d] = cpc[d] /\ arg'[d] = arg[d]
            /\ cpc'[c] \in {"find", "write"} /\ (cpc'[c] = "find" => arg[c].kind = "remove")
        BY <2>3 DEF TypeOK, Args, Goto
      <3>4. ArgInv'
        BY <1>11, <3>3 DEF FetchSocket, ArgInv, Ended
      <3>5. QED
        BY <1>11, <2>1, <3>1, <3>2, <3>4 DEF FetchSocket, TypeOK, Labels
    <2>4. QED
      BY <1>11, <2>2, <2>3 DEF FetchSocket, SocketsOf
  <1>12. ASSUME NEW c \in Commands, FindRow(c) PROVE TypeOK' /\ ArgInv'
    <2>1. cpc[c] = "find" /\ arg[c].by \in Sockets /\ arg[c] \in Args
      BY <1>12 DEF FindRow, ArgInv, Ended, TypeOK
    <2>2. /\ live' \in [Sockets -> BOOLEAN] /\ bye' \in [Sockets -> {"no", "del", "tell"}]
          /\ channel' \in [Servers -> Seq(Messages)]
      BY <1>12, <2>1, DisconnectType DEF FindRow, TypeOK, Args
    <2>3. faults' \in 0..MaxFaults
      BY <1>12, OutcomeType DEF FindRow, TypeOK
    <2>4. cpc' \in [Commands -> Labels] /\ arg' \in [Commands -> Args] /\ ArgInv'
      BY <1>12, GotoArgs, EndArgs DEF FindRow, Ended, Labels
    <2>5. QED
      BY <1>12, <2>2, <2>3, <2>4 DEF FindRow, TypeOK, Labels
  <1>13. ASSUME NEW c \in Commands, WriteRow(c) PROVE TypeOK' /\ ArgInv'
    <2>1. cpc[c] = "write" /\ arg[c].by \in Sockets /\ arg[c].user \in Users
      BY <1>13 DEF WriteRow, ArgInv, Ended
    <2>2. live' \in [Sockets -> BOOLEAN] /\ bye' \in [Sockets -> {"no", "del", "tell"}]
      BY <1>13, CloseType DEF WriteRow, TypeOK
    <2>3. faults' \in 0..MaxFaults
      BY <1>13, OutcomeType DEF WriteRow, TypeOK
    <2>4. cpc' \in [Commands -> Labels] /\ arg' \in [Commands -> Args] /\ ArgInv'
      BY <1>13, GotoArgs, EndArgs DEF WriteRow, Ended, Labels
    <2>5. member' \in [Users -> RoleOrNone]
      <3>1. member' \in {member, [member EXCEPT ![arg[c].user] = None]}
        BY <1>13 DEF WriteRow
      <3>2. QED
        BY <3>1 DEF TypeOK, RoleOrNone
    <2>6. locked' \subseteq Users
      BY <1>13, <2>1 DEF WriteRow, TypeOK
    <2>7. QED
      BY <1>13, <2>2, <2>3, <2>4, <2>5, <2>6 DEF WriteRow, TypeOK, Labels
  <1>14. ASSUME NEW c \in Commands, Unlist(c) PROVE TypeOK' /\ ArgInv'
    <2>1. [active EXCEPT ![arg[c].user] = None] \in [Users -> RoleOrNone]
      BY DEF TypeOK, RoleOrNone
    <2>2. active' \in [Users -> RoleOrNone] /\ blurred' \in [Sockets -> SUBSET Users]
      BY <1>14, <2>1, RelistType DEF Unlist, TypeOK
    <2>3. cpc' \in [Commands -> Labels] /\ arg' \in [Commands -> Args] /\ ArgInv'
      BY <1>14, GotoArgs, EndArgs DEF Unlist, Rollback, Ended, Labels
    <2>4. faults' \in 0..MaxFaults /\ locked' \subseteq Users
      BY <1>14, OutcomeType DEF Unlist, Rollback, TypeOK
    <2>5. QED
      BY <1>14, <2>2, <2>3, <2>4 DEF Unlist, TypeOK, Labels
  <1>15. ASSUME NEW c \in Commands, ReadEntry(c) PROVE TypeOK' /\ ArgInv'
    <2>1. cpc' \in [Commands -> Labels] /\ arg' \in [Commands -> Args] /\ ArgInv'
      BY <1>15, GotoArgs, EndArgs DEF ReadEntry, Rollback, Ended, Labels
    <2>2. faults' \in 0..MaxFaults /\ locked' \subseteq Users
      BY <1>15, OutcomeType DEF ReadEntry, Rollback, TypeOK
    <2>3. QED
      BY <1>15, <2>1, <2>2 DEF ReadEntry, TypeOK, Labels
  <1>16. ASSUME NEW c \in Commands, WriteEntry(c) PROVE TypeOK' /\ ArgInv'
    <2>1. [active EXCEPT ![arg[c].user] = arg[c].role] \in [Users -> RoleOrNone]
      BY DEF TypeOK, Args
    <2>2. active' \in [Users -> RoleOrNone] /\ blurred' \in [Sockets -> SUBSET Users]
      BY <1>16, <2>1, RelistType DEF WriteEntry, TypeOK
    <2>3. data' \in [Sockets -> RoleOrNone]
      <3>1. data' = [data EXCEPT ![arg[c].socket] = arg[c].role] \/ data' = data
        BY <1>16 DEF WriteEntry
      <3>2. arg[c].role \in RoleOrNone
        BY DEF TypeOK, Args
      <3>3. QED
        BY <3>1, <3>2 DEF TypeOK
    <2>4. cpc' \in [Commands -> Labels] /\ arg' \in [Commands -> Args] /\ ArgInv'
      BY <1>16, GotoArgs, EndArgs DEF WriteEntry, Rollback, Ended, Labels
    <2>5. faults' \in 0..MaxFaults /\ locked' \subseteq Users
      BY <1>16, OutcomeType DEF WriteEntry, Rollback, TypeOK
    <2>6. QED
      BY <1>16, <2>2, <2>3, <2>4, <2>5 DEF WriteEntry, TypeOK, Labels
  <1>17. ASSUME NEW c \in Commands, Commit(c) PROVE TypeOK' /\ ArgInv'
    <2>1. member' \in [Users -> RoleOrNone]
      <3>1. member' = [member EXCEPT ![arg[c].user] = arg[c].role] \/ member' = member
        BY <1>17 DEF Commit
      <3>2. arg[c].role \in RoleOrNone
        BY DEF TypeOK, Args
      <3>3. QED
        BY <3>1, <3>2 DEF TypeOK
    <2>2. cpc' \in [Commands -> Labels] /\ arg' \in [Commands -> Args] /\ ArgInv'
      BY <1>17, GotoArgs, EndArgs DEF Commit, Rollback, Ended, Labels
    <2>3. faults' \in 0..MaxFaults /\ locked' \subseteq Users
      BY <1>17, OutcomeType DEF Commit, Rollback, TypeOK
    <2>4. QED
      BY <1>17, <2>1, <2>2, <2>3 DEF Commit, TypeOK, Labels
  <1>18. ASSUME NEW c \in Commands, Conclude(c) PROVE TypeOK' /\ ArgInv'
    <2>1. arg[c] \in Args /\ arg[c].by \in Sockets /\ arg[c].user \in Users /\ Home[arg[c].by] \in Servers
      BY <1>18 DEF Conclude, ArgInv, Ended, TypeOK
    <2>2. /\ live' \in [Sockets -> BOOLEAN] /\ bye' \in [Sockets -> {"no", "del", "tell"}]
          /\ channel' \in [Servers -> Seq(Messages)] /\ page' \in [Sockets -> [Users -> RoleOrNone]]
      <3>1. CASE arg[c].kind = "promote"
        <4>1. Broadcast(Home[arg[c].by], "promoted", arg[c].user, arg[c].role, None)
              /\ UNCHANGED <<live, bye>>
          BY <1>18, <3>1 DEF Conclude
        <4>2. arg[c].role \in RoleOrNone
          BY <2>1 DEF Args
        <4>3. QED
          BY <4>1, <4>2, <2>1, BroadcastType DEF TypeOK
      <3>2. CASE arg[c].kind = "leave"
        BY <1>18, <3>2, CloseType DEF Conclude, TypeOK
      <3>3. CASE arg[c].kind = "remove" /\ arg[c].socket # None
        <4>1. arg[c].socket \in Sockets
          BY <2>1, <3>3 DEF Args
        <4>2. Disconnect(Home[arg[c].by], arg[c].socket) /\ UNCHANGED page
          BY <1>18, <3>3 DEF Conclude
        <4>3. QED
          BY <4>1, <4>2, <2>1, DisconnectType DEF TypeOK
      <3>4. CASE /\ arg[c].kind \notin {"promote", "leave"}
                 /\ ~(arg[c].kind = "remove" /\ arg[c].socket # None)
        BY <1>18, <3>4 DEF Conclude, TypeOK
      <3>5. QED
        BY <3>1, <3>2, <3>3, <3>4
    <2>3. ArgInv' /\ arg' \in [Commands -> Args]
      BY <1>18 DEF Conclude, End, TypeOK, NoArg, Args, RoleOrNone, ArgInv, Ended
    <2>4. QED
      BY <1>18, <2>2, <2>3 DEF Conclude, End, TypeOK
  <1>19. ASSUME NEW v \in Servers, Receive(v) PROVE TypeOK' /\ ArgInv'
    <2>1. Head(channel[v]) \in Messages
      BY <1>19 DEF Receive, TypeOK
    <2>2. channel' \in [Servers -> Seq(Messages)]
      <3>1. channel' = [channel EXCEPT ![v] = Tail(@)] /\ channel[v] # <<>>
        BY <1>19 DEF Receive
      <3>2. Tail(channel[v]) \in Seq(Messages)
        BY <3>1 DEF TypeOK
      <3>3. QED
        BY <3>1, <3>2 DEF TypeOK
    <2>3. live' \in [Sockets -> BOOLEAN] /\ bye' \in [Sockets -> {"no", "del", "tell"}]
      BY <1>19, CloseType DEF Receive, TypeOK
    <2>4. page' \in [Sockets -> [Users -> RoleOrNone]]
      BY <1>19, <2>1, ReceivedType DEF Receive, TypeOK
    <2>5. QED
      BY <1>19, <2>2, <2>3, <2>4 DEF Receive, TypeOK, ArgInv
  <1>20. ASSUME NEW v \in Servers, Crash(v) PROVE TypeOK' /\ ArgInv'
    <2>1. faults' \in 0..MaxFaults
      BY <1>20, OutcomeType DEF Crash
    <2>2. /\ arg' \in [Commands -> Args]
          /\ cpc' \in [Commands -> {"new", "fetch", "find", "write", "unlist", "hget",
                                    "hset", "commit", "after", "done"}]
      BY <1>20 DEF Crash, TypeOK, Args, NoArg, RoleOrNone
    <2>3. ArgInv'
      BY <1>20 DEF Crash, TypeOK, NoArg, ArgInv, Ended
    <2>4. channel' \in [Servers -> Seq(Messages)]
      BY <1>20 DEF Crash, TypeOK
    <2>5. QED
      BY <1>20, <2>1, <2>2, <2>3, <2>4 DEF Crash, TypeOK
  <1>21. CASE UNCHANGED vars
    BY <1>21 DEF vars, TypeOK, ArgInv
  <1>22. QED
    BY <1>1, <1>2, <1>3, <1>4, <1>5, <1>6, <1>7, <1>8, <1>9, <1>10, <1>11, <1>12, <1>13,
       <1>14, <1>15, <1>16, <1>17, <1>18, <1>19, <1>20, <1>21
       DEF Next, HandleConnection, HandleDisconnect, HandleCommand

\* The state keeps its type, whatever fails: no handler goes on without the arguments
\* it was called with, and pages and the list hold roles only
\* (rooms-gateway.service.ts, handleConnection to handlePromote).
THEOREM MembersTypeCorrect == Spec => []TypeOK
  <1>1. TypeOK /\ ArgInv /\ [Next]_vars => (TypeOK /\ ArgInv)'
    BY TypeStep
  <1>2. QED
    BY InitType, <1>1, PTL DEF Spec

-----------------------------------------------------------------------------
(* Rows that are locked.                                                   *)

LockInv ==
  /\ \A u \in locked : \E c \in Commands : cpc[c] \in Inside /\ arg[c].user = u
  /\ \A c \in Commands : cpc[c] \in Inside => arg[c].user \in locked
  /\ \A c, d \in Commands :
       cpc[c] \in Inside /\ cpc[d] \in Inside /\ arg[c].user = arg[d].user => c = d

\* The three ways in which a command deals with the lock: leave it alone, take it, give
\* it back.
LEMMA LockMove ==
  ASSUME TypeOK, LockInv, NEW c \in Commands,
         \A d \in Commands : d # c => cpc'[d] = cpc[d] /\ arg'[d] = arg[d],
         \/ /\ cpc[c] \in Inside <=> cpc'[c] \in Inside
            /\ cpc[c] \in Inside => arg'[c].user = arg[c].user
            /\ UNCHANGED locked
         \/ /\ cpc[c] \notin Inside /\ cpc'[c] \in Inside /\ arg'[c].user \notin locked
            /\ locked' = locked \cup {arg'[c].user}
         \/ /\ cpc[c] \in Inside /\ cpc'[c] \notin Inside
            /\ locked' = locked \ {arg[c].user}
  PROVE  LockInv'
  BY DEF LockInv

LEMMA LockStep == TypeOK /\ ArgInv /\ LockInv /\ [Next]_vars => LockInv'
  <1> SUFFICES ASSUME TypeOK, ArgInv, LockInv, [Next]_vars PROVE LockInv'
    OBVIOUS
  <1> USE DEF database, commands
  <1> DEFINE Only(c) == \A d \in Commands : d # c => cpc'[d] = cpc[d] /\ arg'[d] = arg[d]
  <1>1. ASSUME UNCHANGED <<locked, cpc, arg>> PROVE LockInv'
    BY <1>1 DEF LockInv
  <1>2. ASSUME NEW s \in Sockets,
               Connect(s) \/ Leave(s) \/ HandleConnection(s) \/ HandleDisconnect(s)
        PROVE  LockInv'
    BY <1>1, <1>2 DEF Connect, Leave, HandleConnection, HandleDisconnect, CheckMember, ReadActive,
       JoinRoom, AddToActive, Announce, RemoveFromActive, TellDisconnected
  <1>3. ASSUME NEW c \in Commands, Issue(c) PROVE LockInv'
    <2>1. Only(c) /\ cpc[c] = "new" /\ cpc'[c] \in {"write", "fetch"} /\ UNCHANGED locked
      BY <1>3 DEF Issue, Goto, TypeOK
    <2>2. QED
      BY <2>1, LockMove DEF Inside
  <1>4. ASSUME NEW c \in Commands, FetchSocket(c) \/ FindRow(c) \/ Conclude(c) PROVE LockInv'
    <2>1. Only(c) /\ cpc[c] \in {"fetch", "find", "after"} /\ UNCHANGED locked
      BY <1>4 DEF FetchSocket, FindRow, Conclude, End, Goto, TypeOK
    <2>2. cpc'[c] \in {"done", "find", "write"}
      BY <1>4 DEF FetchSocket, FindRow, Conclude, End, Goto, TypeOK
    <2>3. QED
      BY <2>1, <2>2, LockMove DEF Inside
  <1>5. ASSUME NEW c \in Commands, WriteRow(c) PROVE LockInv'
    <2>1. Only(c) /\ cpc[c] = "write" /\ arg[c].user \notin locked
      BY <1>5 DEF WriteRow, End, Goto, TypeOK
    <2>2. \/ cpc'[c] \in {"done", "after"} /\ UNCHANGED locked
          \/ /\ cpc'[c] \in {"unlist", "hget"} /\ UNCHANGED arg
             /\ locked' = locked \cup {arg[c].user}
      BY <1>5 DEF WriteRow, End, Goto, TypeOK
    <2>3. QED
      BY <2>1, <2>2, LockMove DEF Inside
  <1>6. ASSUME NEW c \in Commands, Unlist(c) \/ ReadEntry(c) \/ WriteEntry(c) \/ Commit(c)
        PROVE  LockInv'
    <2>1. Only(c) /\ cpc[c] \in Inside
      BY <1>6 DEF Unlist, ReadEntry, WriteEntry, Commit, Rollback, End, Goto, TypeOK, Inside
    <2>2. \/ cpc'[c] \in Inside /\ UNCHANGED <<arg, locked>>
          \/ cpc'[c] \in {"done", "after"} /\ locked' = locked \ {arg[c].user}
      BY <1>6 DEF Unlist, ReadEntry, WriteEntry, Commit, Rollback, End, Goto, TypeOK, Inside
    <2>3. QED
      BY <2>1, <2>2, LockMove DEF Inside
  <1>7. ASSUME NEW v \in Servers, Receive(v) PROVE LockInv'
    BY <1>1, <1>7 DEF Receive
  <1>8. ASSUME NEW v \in Servers, Crash(v) PROVE LockInv'
    <2> DEFINE lost == {c \in Commands : cpc[c] \notin {"new", "done"} /\ Home[arg[c].by] = v}
    <2>1. locked' = locked \ {arg[c].user : c \in {d \in lost : cpc[d] \in Inside}}
      BY <1>8 DEF Crash, Inside
    <2>2. \A c \in Commands : cpc'[c] = (IF c \in lost THEN "done" ELSE cpc[c])
                               /\ arg'[c] = (IF c \in lost THEN NoArg ELSE arg[c])
      BY <1>8 DEF Crash
    <2> HIDE DEF lost
    <2>3. \A c \in Commands : cpc'[c] \in Inside => c \notin lost
      BY <2>2 DEF Inside
    <2>4. \A c \in Commands : cpc'[c] \in Inside => cpc'[c] = cpc[c] /\ arg'[c] = arg[c]
      BY <2>2, <2>3
    <2>5. ASSUME NEW c \in Commands, cpc'[c] \in Inside PROVE arg'[c].user \in locked'
      BY <2>1, <2>3, <2>4, <2>5 DEF LockInv, lost
    <2>6. ASSUME NEW u \in locked'
          PROVE  \E c \in Commands : cpc'[c] \in Inside /\ arg'[c].user = u
      <3>1. PICK c \in Commands : cpc[c] \in Inside /\ arg[c].user = u
        BY <2>1, <2>6 DEF LockInv
      <3>2. c \notin lost
        BY <2>1, <2>6, <3>1
      <3>3. QED
        BY <2>2, <3>1, <3>2
    <2>7. QED
      BY <2>4, <2>5, <2>6 DEF LockInv
  <1>9. CASE UNCHANGED vars
    BY <1>1, <1>9 DEF vars
  <1>10. QED
    BY <1>2, <1>3, <1>4, <1>5, <1>6, <1>7, <1>8, <1>9 DEF Next, HandleCommand

\* Whatever fails and whichever server dies, a row of RoomMember is locked by exactly
\* one command, and that one is in the transaction of handleRemove or handlePromote
\* (rooms-gateway.service.ts 690, 826): the lock never outlives its handler.
LockedByOneCommand ==
  \A u \in locked : \E c \in Commands :
    /\ cpc[c] \in Inside /\ arg[c].user = u
    /\ \A d \in Commands : cpc[d] \in Inside /\ arg[d].user = u => d = c

THEOREM LocksEndWithTheirCommand == Spec => []LockedByOneCommand
  <1>1. Init => LockInv
    BY DEF Init, LockInv, Inside
  <1>2. TypeOK /\ ArgInv /\ LockInv /\ [Next]_vars => (TypeOK /\ ArgInv /\ LockInv)'
    BY TypeStep, LockStep
  <1>3. LockInv => LockedByOneCommand
    BY DEF LockInv, LockedByOneCommand
  <1>4. QED
    BY InitType, <1>1, <1>2, <1>3, PTL DEF Spec

-----------------------------------------------------------------------------
(* One thing at a time for each user, and no failures.                     *)

Connecting == {"check", "list", "join", "add", "tell"}
Busy(s) == pc[s] \in Connecting \/ bye[s] # "no"

\* What is on its way between the servers.
Sent == {m \in Messages : \E v \in Servers : \E i \in 1..Len(channel[v]) : channel[v][i] = m}

\* How far a socket is, and what it knows; a user has one live socket.
SocketInv(u) ==
  /\ \A s \in SocketsOf(u) :
       /\ data[s] # None <=> pc[s] \in {"add", "tell", "in"}
       /\ pc[s] \in {"off", "end"} => ~live[s]
       /\ pc[s] \in Connecting => live[s]
       /\ bye[s] # "no" => pc[s] = "in"
       /\ pc[s] \in {"list", "join", "add", "tell"} => row[s] = member[u] /\ row[s] # None
       /\ pc[s] \in {"add", "tell"} => data[s] = row[s]
  /\ \A s, t \in SocketsOf(u) : live[s] /\ live[t] => s = t

\* One connection, one disconnection or one command, or what was published by it.
Alone(u) ==
  /\ \A s, t \in SocketsOf(u) : Busy(s) /\ Busy(t) => s = t
  /\ \A c, d \in Commands : arg[c].user = u /\ arg[d].user = u => c = d
  /\ \A c \in Commands, s \in SocketsOf(u) : arg[c].user = u => ~Busy(s)
  /\ \A m \in Sent, s \in SocketsOf(u) : m.user = u => ~Busy(s)
  /\ \A m \in Sent, c \in Commands : m.user = u => arg[c].user # u

\* All sockets so far have been on the server of s.
OneHome(s) == \A t \in Sockets : pc[t] # "off" => Home[t] = Home[s]

\* The row, the entry and the sockets of a user agree.
Agree(u) ==
  /\ active[u] # None <=> There(u)
  /\ There(u) => active[u] = member[u]
  /\ \A s \in SocketsOf(u) : InRoom(s) /\ OneHome(s) => data[s] = member[u]

Settled(u) ==
  /\ \A s \in SocketsOf(u) : ~Busy(s)
  /\ \A c \in Commands : arg[c].user # u
  /\ \A m \in Sent : m.user = u => m.kind # "kick"

\* What is known while a user connects, disconnects or is about to be disconnected by
\* another server, and that all agree when none of this is so.
EntryInv(u) ==
  /\ \A s \in SocketsOf(u) :
       /\ pc[s] \in {"check", "list", "join", "add"} => active[u] = None
       /\ pc[s] = "tell" => active[u] = member[u]
       /\ bye[s] # "no" => \A t \in SocketsOf(u) : ~live[t]
       /\ bye[s] = "tell" => active[u] = None
  /\ \A m \in Sent : m.user = u /\ m.kind = "kick" =>
       /\ active[u] = None /\ member[u] = None /\ m.socket \in SocketsOf(u)
       /\ \A t \in SocketsOf(u) : live[t] => t = m.socket
  /\ Settled(u) => Agree(u)

RemoveInv(c, u) ==
  /\ arg[c].role = None /\ cpc[c] \in {"fetch", "find", "write", "unlist", "commit", "after"}
  /\ cpc[c] # "fetch" => /\ arg[c].socket \in SocketsOf(u) \cup {None}
                         /\ \A t \in SocketsOf(u) : live[t] => t = arg[c].socket
  /\ cpc[c] \in {"commit", "after"} => active[u] = None
  /\ cpc[c] = "after" => member[u] = None

LeaveInv(c, u) ==
  /\ cpc[c] \in {"write", "after"}
  /\ arg[c].by \in SocketsOf(u) /\ InRoom(arg[c].by)
  /\ cpc[c] = "after" => member[u] = None

PromoteInv(c, u) ==
  /\ arg[c].role # None /\ cpc[c] \in {"fetch", "write", "hget", "hset", "commit", "after"}
  /\ cpc[c] # "fetch" => arg[c].socket \in SocketsOf(u) /\ InRoom(arg[c].socket)
  /\ cpc[c] \in {"commit", "after"} =>
       active[u] = arg[c].role /\ (OneHome(arg[c].socket) => data[arg[c].socket] = arg[c].role)
  /\ cpc[c] = "after" => member[u] = arg[c].role

\* What a command has done about its user.
CommandInv(u) ==
  \A c \in Commands : arg[c].user = u =>
    /\ pc[arg[c].by] # "off"
    /\ cpc[c] \in {"fetch", "find", "write", "unlist", "hget", "hset"} => Agree(u)
    /\ arg[c].kind = "remove" => RemoveInv(c, u)
    /\ arg[c].kind = "leave" => LeaveInv(c, u)
    /\ arg[c].kind = "promote" => PromoteInv(c, u)

\* A server that has to disconnect a socket hears nothing else about its user.
KickAlone ==
  \A v, w \in Servers : \A i \in 1..Len(channel[v]), j \in 1..Len(channel[w]) :
    channel[v][i].kind = "kick" /\ channel[w][j].user = channel[v][i].user => v = w /\ i = j

UserInv(u) == SocketInv(u) /\ Alone(u) /\ EntryInv(u) /\ CommandInv(u)
Base == TypeOK /\ ArgInv /\ KickAlone

-----------------------------------------------------------------------------
(* The messages between servers.                                           *)

LEMMA SentAt ==
  ASSUME TypeOK, NEW v \in Servers, NEW i \in 1..Len(channel[v])
  PROVE  channel[v][i] \in Sent
  BY DEF TypeOK, Sent

LEMMA SentSame == UNCHANGED channel => Sent' = Sent /\ (KickAlone => KickAlone')
  BY DEF Sent, KickAlone

\* A message about a user about whom there is none.
LEMMA SentPublish ==
  ASSUME TypeOK, NEW v \in Servers, NEW m \in Messages, Publish(v, m)
  PROVE  /\ \A x \in Messages : x # m => (x \in Sent' <=> x \in Sent)
         /\ KickAlone /\ (\A x \in Sent : x.user # m.user) /\ m.kind # "kick" => KickAlone'
  <1>1. ASSUME NEW w \in Servers
        PROVE  \/ channel'[w] = channel[w]
               \/ /\ Len(channel'[w]) = Len(channel[w]) + 1
                  /\ channel'[w][Len(channel[w]) + 1] = m
                  /\ \A i \in 1..Len(channel[w]) : channel'[w][i] = channel[w][i]
    BY DEF Publish, TypeOK
  <1>2. ASSUME NEW w \in Servers PROVE Len(channel[w]) \in Nat
    BY DEF TypeOK
  <1>3. ASSUME NEW w \in Servers, NEW i \in 1..Len(channel'[w])
        PROVE  \/ i \in 1..Len(channel[w]) /\ channel'[w][i] = channel[w][i]
               \/ channel'[w][i] = m
    BY <1>1, <1>2
  <1>4. ASSUME NEW w \in Servers, NEW i \in 1..Len(channel[w])
        PROVE  i \in 1..Len(channel'[w]) /\ channel'[w][i] = channel[w][i]
    BY <1>1, <1>2
  <1>5. \A x \in Messages : x # m => (x \in Sent' <=> x \in Sent)
    BY <1>3, <1>4 DEF Sent
  <1>6. ASSUME KickAlone, \A x \in Sent : x.user # m.user, m.kind # "kick" PROVE KickAlone'
    <2> SUFFICES ASSUME NEW w \in Servers, NEW x \in Servers,
                        NEW i \in 1..Len(channel'[w]), NEW j \in 1..Len(channel'[x]),
                        channel'[w][i].kind = "kick",
                        channel'[x][j].user = channel'[w][i].user
                 PROVE  w = x /\ i = j
      BY DEF KickAlone
    <2>1. i \in 1..Len(channel[w]) /\ channel'[w][i] = channel[w][i]
      BY <1>3, <1>6
    <2>2. channel[w][i].user # m.user
      BY <1>6, <2>1, SentAt
    <2>3. j \in 1..Len(channel[x]) /\ channel'[x][j] = channel[x][j]
      BY <1>3, <2>1, <2>2
    <2>4. QED
      BY <1>6, <2>1, <2>3 DEF KickAlone
  <1>7. QED
    BY <1>5, <1>6

LEMMA SentKick ==
  ASSUME TypeOK, NEW v \in Servers, NEW m \in Messages,
         channel' = [channel EXCEPT ![v] = Append(@, m)]
  PROVE  /\ \A x \in Messages : x # m => (x \in Sent' <=> x \in Sent)
         /\ KickAlone /\ (\A x \in Sent : x.user # m.user) => KickAlone'
  <1>1. /\ Len(channel'[v]) = Len(channel[v]) + 1 /\ channel'[v][Len(channel[v]) + 1] = m
        /\ \A i \in 1..Len(channel[v]) : channel'[v][i] = channel[v][i]
        /\ \A w \in Servers : w # v => channel'[w] = channel[w]
    BY DEF TypeOK
  <1>2. ASSUME NEW w \in Servers PROVE Len(channel[w]) \in Nat
    BY DEF TypeOK
  <1>3. ASSUME NEW w \in Servers, NEW i \in 1..Len(channel'[w])
        PROVE  \/ i \in 1..Len(channel[w]) /\ channel'[w][i] = channel[w][i]
               \/ w = v /\ i = Len(channel[v]) + 1 /\ channel'[w][i] = m
    BY <1>1, <1>2
  <1>4. ASSUME NEW w \in Servers, NEW i \in 1..Len(channel[w])
        PROVE  i \in 1..Len(channel'[w]) /\ channel'[w][i] = channel[w][i]
    BY <1>1, <1>2
  <1>5. \A x \in Messages : x # m => (x \in Sent' <=> x \in Sent)
    BY <1>3, <1>4 DEF Sent
  <1>6. ASSUME KickAlone, \A x \in Sent : x.user # m.user PROVE KickAlone'
    <2> SUFFICES ASSUME NEW w \in Servers, NEW x \in Servers,
                        NEW i \in 1..Len(channel'[w]), NEW j \in 1..Len(channel'[x]),
                        channel'[w][i].kind = "kick",
                        channel'[x][j].user = channel'[w][i].user
                 PROVE  w = x /\ i = j
      BY DEF KickAlone
    <2>1. CASE channel'[w][i] = m /\ channel'[x][j] = m
      <3>1. i \in 1..Len(channel[w]) => FALSE
        BY <1>4, <1>6, <2>1, SentAt
      <3>2. j \in 1..Len(channel[x]) => FALSE
        BY <1>4, <1>6, <2>1, SentAt
      <3>3. QED
        BY <1>3, <3>1, <3>2
    <2>2. CASE channel'[w][i] # m
      <3>1. i \in 1..Len(channel[w]) /\ channel'[w][i] = channel[w][i]
        BY <1>3, <2>2
      <3>2. j \in 1..Len(channel[x]) /\ channel'[x][j] = channel[x][j]
        BY <1>3, <1>6, <3>1, SentAt
      <3>3. QED
        BY <1>6, <3>1, <3>2 DEF KickAlone
    <2>3. CASE channel'[x][j] # m
      <3>1. j \in 1..Len(channel[x]) /\ channel'[x][j] = channel[x][j]
        BY <1>3, <2>3
      <3>2. i \in 1..Len(channel[w]) /\ channel'[w][i] = channel[w][i]
        BY <1>3, <1>6, <3>1, SentAt
      <3>3. QED
        BY <1>6, <3>1, <3>2 DEF KickAlone
    <2>4. QED
      BY <2>1, <2>2, <2>3
  <1>7. QED
    BY <1>5, <1>6

LEMMA KickAloneNext ==
  ASSUME \A w, x \in Servers : \A i \in 1..Len(channel'[w]), j \in 1..Len(channel'[x]) :
           channel'[w][i].kind = "kick" /\ channel'[x][j].user = channel'[w][i].user
             => w = x /\ i = j
  PROVE  KickAlone'
  BY DEF KickAlone

LEMMA SentReceive ==
  ASSUME TypeOK, NEW v \in Servers, channel[v] # <<>>,
         channel' = [channel EXCEPT ![v] = Tail(@)]
  PROVE  /\ Head(channel[v]) \in Sent
         /\ \A x \in Messages : x # Head(channel[v]) => (x \in Sent' <=> x \in Sent)
         /\ Sent' \subseteq Sent
         /\ KickAlone => KickAlone'
         /\ KickAlone /\ Head(channel[v]).kind = "kick" =>
              \A x \in Sent' : x.user # Head(channel[v]).user
  <1> DEFINE n == Len(channel[v])
  <1>1. /\ n \in Nat \ {0} /\ Head(channel[v]) = channel[v][1] /\ 1 \in 1..n
        /\ Len(channel'[v]) = n - 1 /\ \A i \in 1..(n - 1) : channel'[v][i] = channel[v][i + 1]
        /\ \A w \in Servers : w # v => channel'[w] = channel[w]
    BY DEF TypeOK
  <1>2. Head(channel[v]) \in Sent
    BY <1>1, SentAt
  <1>3. ASSUME NEW w \in Servers, NEW i \in 1..Len(channel'[w])
        PROVE  /\ w = v => i + 1 \in 1..n /\ i + 1 # 1 /\ channel'[w][i] = channel[v][i + 1]
               /\ w # v => i \in 1..Len(channel[w]) /\ channel'[w][i] = channel[w][i]
    BY <1>1
  <1>4. ASSUME NEW i \in 1..n, i # 1
        PROVE  i - 1 \in 1..Len(channel'[v]) /\ channel'[v][i - 1] = channel[v][i]
    BY <1>1, <1>4
  <1>5. Sent' \subseteq Sent
    BY <1>3 DEF Sent
  <1>6. ASSUME NEW x \in Messages, x # Head(channel[v]), x \in Sent PROVE x \in Sent'
    <2> PICK w \in Servers : \E i \in 1..Len(channel[w]) : channel[w][i] = x
      BY <1>6 DEF Sent
    <2>1. PICK i \in 1..Len(channel[w]) : channel[w][i] = x
      OBVIOUS
    <2>2. CASE w = v
      <3>1. i \in 1..n /\ i # 1
        BY <1>1, <1>6, <2>1, <2>2
      <3>2. QED
        BY <1>4, <2>1, <2>2, <3>1 DEF Sent
    <2>3. CASE w # v
      BY <1>1, <2>1, <2>3 DEF Sent
    <2>4. QED
      BY <2>2, <2>3
  <1>7. ASSUME KickAlone, NEW w \in Servers, NEW x \in Servers,
               NEW i \in 1..Len(channel'[w]), NEW j \in 1..Len(channel'[x]),
               channel'[w][i].kind = "kick", channel'[x][j].user = channel'[w][i].user
        PROVE  w = x /\ i = j
    <2>1. CASE w = v /\ x = v
      <3>1. i + 1 = j + 1
        BY <1>3, <1>7, <2>1 DEF KickAlone
      <3>2. QED
        BY <1>1, <2>1, <3>1
    <2>2. CASE w = v /\ x # v
      BY <1>3, <1>7, <2>2 DEF KickAlone
    <2>3. CASE w # v /\ x = v
      BY <1>3, <1>7, <2>3 DEF KickAlone
    <2>4. CASE w # v /\ x # v
      BY <1>3, <1>7, <2>4 DEF KickAlone
    <2>5. QED
      BY <2>1, <2>2, <2>3, <2>4
  <1>8. ASSUME KickAlone, Head(channel[v]).kind = "kick", NEW x \in Sent'
        PROVE  x.user # Head(channel[v]).user
    <2> PICK w \in Servers : \E i \in 1..Len(channel'[w]) : channel'[w][i] = x
      BY DEF Sent
    <2>1. PICK i \in 1..Len(channel'[w]) : channel'[w][i] = x
      OBVIOUS
    <2>2. CASE w = v
      BY <1>1, <1>3, <1>8, <2>1, <2>2 DEF KickAlone
    <2>3. CASE w # v
      BY <1>1, <1>3, <1>8, <2>1, <2>3 DEF KickAlone
    <2>4. QED
      BY <2>2, <2>3
  <1>9. KickAlone => KickAlone'
    BY ONLY <1>7, KickAloneNext
  <1>10. QED
    BY <1>2, <1>5, <1>6, <1>8, <1>9

-----------------------------------------------------------------------------
(* Steps that are not about a user.                                        *)

Same(u) ==
  /\ member'[u] = member[u] /\ active'[u] = active[u]
  /\ \A s \in SocketsOf(u) : /\ pc'[s] = pc[s] /\ bye'[s] = bye[s] /\ live'[s] = live[s]
                             /\ data'[s] = data[s] /\ row'[s] = row[s]
  /\ \A c \in Commands : arg[c].user = u \/ arg'[c].user = u =>
                           arg'[c] = arg[c] /\ cpc'[c] = cpc[c]
  /\ \A m \in Messages : m.user = u => (m \in Sent' <=> m \in Sent)

\* A socket connects once.
Opened == \A s \in Sockets : pc[s] # "off" => pc'[s] # "off"

LEMMA SameUser ==
  ASSUME TypeOK, ArgInv, NEW u \in Users, UserInv(u), Same(u), Opened
  PROVE  UserInv(u)'
  <1> USE DEF Same
  <1>1. SocketInv(u)'
    BY DEF UserInv, SocketInv, Connecting
  <1>2. \A s \in SocketsOf(u) : Busy(s)' <=> Busy(s)
    BY DEF Busy
  <1>3. Sent' \subseteq Messages /\ Sent \subseteq Messages
    BY DEF Sent
  <1>4. Alone(u)'
    BY <1>2, <1>3 DEF UserInv, Alone
  <1>5. There(u)' <=> There(u)
    BY DEF There, InRoom
  <1>6. \A s \in Sockets : OneHome(s)' => OneHome(s)
    BY DEF OneHome, Opened
  <1>7. Agree(u) => Agree(u)'
    BY <1>5, <1>6 DEF Agree, InRoom, SocketsOf
  <1>8. Settled(u)' => Settled(u)
    BY <1>2, <1>3 DEF Settled
  <1>9. EntryInv(u)'
    BY <1>3, <1>7, <1>8 DEF UserInv, EntryInv
  <1>10. CommandInv(u)'
    <2> SUFFICES ASSUME NEW c \in Commands, arg'[c].user = u
                 PROVE  /\ pc'[arg'[c].by] # "off"
                        /\ cpc'[c] \in {"fetch", "find", "write", "unlist", "hget", "hset"} => Agree(u)'
                        /\ arg'[c].kind = "remove" => RemoveInv(c, u)'
                        /\ arg'[c].kind = "leave" => LeaveInv(c, u)'
                        /\ arg'[c].kind = "promote" => PromoteInv(c, u)'
      BY DEF CommandInv
    <2>1. arg'[c] = arg[c] /\ cpc'[c] = cpc[c] /\ arg[c].user = u
      OBVIOUS
    <2>2. arg[c].by \in Sockets
      BY <2>1, NoneAssumption DEF ArgInv, NoArg
    <2>3. pc'[arg'[c].by] # "off"
      BY <2>1, <2>2 DEF Opened, UserInv, CommandInv
    <2>4. arg[c].kind = "remove" => RemoveInv(c, u)'
      BY <2>1 DEF UserInv, CommandInv, RemoveInv
    <2>5. arg[c].kind = "leave" => LeaveInv(c, u)'
      BY <2>1 DEF UserInv, CommandInv, LeaveInv, InRoom
    <2>6. arg[c].kind = "promote" => PromoteInv(c, u)'
      BY <2>1, <1>6 DEF UserInv, CommandInv, PromoteInv, InRoom, SocketsOf
    <2>7. QED
      BY <1>7, <2>1, <2>3, <2>4, <2>5, <2>6 DEF UserInv, CommandInv
  <1>11. QED
    BY <1>1, <1>4, <1>9, <1>10 DEF UserInv

-----------------------------------------------------------------------------
(* Steps of a socket.                                                      *)

LEMMA NoFailure ==
  ASSUME TypeOK, MaxFaults = 0, NEW ok, Outcome(ok)
  PROVE  ok /\ faults' = faults
  BY DEF TypeOK, Outcome

LEMMA SentUser ==
  ASSUME TypeOK, NEW u \in Users, Undisturbed(u)
  PROVE  \A m \in Sent : m.user # u
  BY DEF Undisturbed, Sent

LEMMA Quiet ==
  ASSUME TypeOK, NEW u \in Users, UserInv(u), Undisturbed(u)
  PROVE  /\ \A s \in SocketsOf(u) : ~Busy(s) /\ bye[s] = "no" /\ pc[s] \in {"off", "in", "end"}
         /\ \A c \in Commands : arg[c].user # u
         /\ \A m \in Sent : m.user # u
         /\ Agree(u)
  <1>1. \A s \in SocketsOf(u) : ~Busy(s) /\ bye[s] = "no" /\ pc[s] \in {"off", "in", "end"}
    BY DEF Undisturbed, Busy, Connecting
  <1>2. \A c \in Commands : arg[c].user # u
    BY DEF Undisturbed
  <1>3. \A m \in Sent : m.user # u
    BY SentUser
  <1>4. Settled(u)
    BY <1>1, <1>2, <1>3 DEF Settled
  <1>5. QED
    BY <1>1, <1>2, <1>3, <1>4 DEF UserInv, EntryInv

LEMMA BusyAlone ==
  ASSUME NEW u, UserInv(u), NEW s \in SocketsOf(u), Busy(s)
  PROVE  /\ \A t \in SocketsOf(u) : t # s => ~Busy(t)
         /\ \A c \in Commands : arg[c].user # u
         /\ \A m \in Sent : m.user # u
  BY DEF UserInv, Alone

\* A step of socket s is about the user of s only.
SocketMoves(s) ==
  /\ UNCHANGED <<member, cpc, arg>>
  /\ \A u \in Users : u # OwnerOf[s] => active'[u] = active[u]
  /\ \A t \in Sockets : t # s => /\ pc'[t] = pc[t] /\ bye'[t] = bye[t] /\ live'[t] = live[t]
                                 /\ data'[t] = data[t] /\ row'[t] = row[t]
  /\ pc'[s] # "off"
  /\ \A m \in Messages : m.user # OwnerOf[s] => (m \in Sent' <=> m \in Sent)

LEMMA SocketStep ==
  ASSUME TypeOK, ArgInv, \A u \in Users : UserInv(u), NEW s \in Sockets, SocketMoves(s),
         UserInv(OwnerOf[s])'
  PROVE  \A u \in Users : UserInv(u)'
  <1> SUFFICES ASSUME NEW u \in Users, u # OwnerOf[s] PROVE UserInv(u)'
    BY SocketAssumption
  <1>1. Opened
    BY DEF Opened, SocketMoves
  <1>2. Same(u)
    BY DEF Same, SocketMoves, SocketsOf
  <1>3. QED
    BY <1>1, <1>2, SameUser

\* Nothing about user u but what the sockets of u say.
LEMMA SocketsOnly ==
  ASSUME NEW u \in Users, SocketInv(u)',
         \A c \in Commands : arg'[c].user # u,
         \A m \in Sent' : m.user # u,
         \A s, t \in SocketsOf(u) : Busy(s)' /\ Busy(t)' => s = t,
         \A s \in SocketsOf(u) :
           /\ pc'[s] \in {"check", "list", "join", "add"} => active'[u] = None
           /\ pc'[s] = "tell" => active'[u] = member'[u]
           /\ bye'[s] # "no" => \A t \in SocketsOf(u) : ~live'[t]
           /\ bye'[s] = "tell" => active'[u] = None,
         (\A s \in SocketsOf(u) : ~Busy(s)') => Agree(u)'
  PROVE  UserInv(u)'
  BY DEF UserInv, Alone, EntryInv, CommandInv, Settled

LEMMA ConnectStep ==
  ASSUME Base, \A u \in Users : UserInv(u), Unhurried, OneTab, NEW s \in Sockets, Connect(s)
  PROVE  KickAlone' /\ \A u \in Users : UserInv(u)'
  <1> DEFINE u == OwnerOf[s]
  <1> USE DEF Base
  <1>1. u \in Users /\ s \in SocketsOf(u) /\ UserInv(u) /\ Undisturbed(u)
    BY SocketAssumption DEF Connect, MayStart, SocketsOf
  <1>2. /\ pc[s] = "off" /\ pc' = [pc EXCEPT ![s] = "check"] /\ live' = [live EXCEPT ![s] = TRUE]
        /\ \A t \in SocketsOf(u) : ~live[t]
        /\ UNCHANGED <<member, active, bye, data, row, channel, cpc, arg>>
    BY DEF Connect, database, entries, commands
  <1>3. Sent' = Sent /\ KickAlone'
    BY <1>2, SentSame
  <1>4. SocketMoves(s)
    BY <1>2, <1>3 DEF SocketMoves, TypeOK
  <1>5. UserInv(u)'
    <2>1. /\ \A t \in SocketsOf(u) : ~Busy(t) /\ bye[t] = "no" /\ pc[t] \in {"off", "in", "end"}
          /\ \A c \in Commands : arg[c].user # u
          /\ \A m \in Sent : m.user # u
          /\ Agree(u)
      BY <1>1, Quiet
    <2>2. pc'[s] = "check" /\ live'[s] /\ \A t \in SocketsOf(u) : t # s => pc'[t] = pc[t] /\ live'[t] = live[t]
      BY <1>1, <1>2 DEF TypeOK, SocketsOf
    <2>3. SocketInv(u)'
      BY <1>1, <1>2, <2>1, <2>2 DEF UserInv, SocketInv, Connecting
    <2>4. active[u] = None
      BY <1>2, <2>1 DEF Agree, There, InRoom
    <2>5. \A t \in SocketsOf(u) : Busy(t)' => t = s
      BY <1>2, <2>1, <2>2 DEF Busy, Connecting
    <2>6. Busy(s)'
      BY <2>2 DEF Busy, Connecting
    <2> HIDE DEF u
    <2>7. QED
      BY <1>1, <1>2, <1>3, <2>1, <2>2, <2>3, <2>4, <2>5, <2>6, SocketsOnly
  <1>6. QED
    BY <1>3, <1>4, <1>5, SocketStep

LEMMA CheckStep ==
  ASSUME Base, \A u \in Users : UserInv(u), MaxFaults = 0, NEW s \in Sockets, CheckMember(s)
  PROVE  KickAlone' /\ \A u \in Users : UserInv(u)'
  <1> DEFINE u == OwnerOf[s]
  <1> USE DEF Base
  <1>1. u \in Users /\ s \in SocketsOf(u) /\ UserInv(u) /\ Busy(s) /\ pc[s] = "check"
    BY SocketAssumption DEF CheckMember, SocketsOf, Busy, Connecting
  <1>2. bye[s] = "no" /\ data[s] = None /\ live[s] /\ active[u] = None
    BY <1>1 DEF UserInv, SocketInv, EntryInv, Connecting
  <1>3. UNCHANGED <<member, active, bye, data, channel, cpc, arg>>
    BY <1>1, <1>2 DEF CheckMember, GiveUp, Close, database, entries, commands
  <1>4. \/ /\ member[u] # None /\ pc' = [pc EXCEPT ![s] = "list"]
           /\ row' = [row EXCEPT ![s] = member[u]] /\ UNCHANGED live
        \/ /\ member[u] = None /\ pc' = [pc EXCEPT ![s] = "end"]
           /\ live' = [live EXCEPT ![s] = FALSE] /\ UNCHANGED row
    BY NoFailure DEF CheckMember, GiveUp, Close
  <1>5. Sent' = Sent /\ KickAlone'
    BY <1>3, SentSame
  <1>6. SocketMoves(s)
    BY <1>3, <1>4, <1>5 DEF SocketMoves, TypeOK
  <1>7. UserInv(u)'
    <2>1. /\ \A t \in SocketsOf(u) : t # s => ~Busy(t)
          /\ \A c \in Commands : arg[c].user # u
          /\ \A m \in Sent : m.user # u
      BY <1>1, BusyAlone
    <2>2. \A t \in SocketsOf(u) : t # s => ~live[t]
      BY <1>1, <1>2 DEF UserInv, SocketInv
    <2>3. \A t \in SocketsOf(u) : t # s => pc'[t] = pc[t] /\ live'[t] = live[t] /\ row'[t] = row[t]
      BY <1>4 DEF TypeOK, SocketsOf
    <2>4. \/ pc'[s] = "list" /\ live'[s] /\ row'[s] = member[u] /\ member[u] # None
          \/ pc'[s] = "end" /\ ~live'[s] /\ row'[s] = row[s]
      BY <1>2, <1>4 DEF TypeOK
    <2>5. SocketInv(u)'
      BY <1>1, <1>2, <1>3, <2>2, <2>3, <2>4 DEF UserInv, SocketInv, Connecting
    <2>6. /\ \A t \in SocketsOf(u) : Busy(t)' => t = s
          /\ pc'[s] = "list" => Busy(s)'
          /\ \A t \in SocketsOf(u) : bye'[t] = "no"
      BY <1>2, <1>3, <2>1, <2>3 DEF Busy, Connecting
    <2>7. pc'[s] = "end" => Agree(u)'
      BY <1>2, <1>3, <2>2, <2>3, <2>4 DEF Agree, There, InRoom
    <2>8. \A t \in SocketsOf(u) : t # s => pc'[t] \notin Connecting
      BY <2>1, <2>3 DEF Busy
    <2> HIDE DEF u
    <2>9. QED
      BY <1>1, <1>2, <1>3, <1>5, <2>1, <2>4, <2>5, <2>6, <2>7, <2>8, SocketsOnly DEF Connecting
  <1>8. QED
    BY <1>5, <1>6, <1>7, SocketStep

\* The steps of handleConnection between the reading of the row and USER_JOINED.
LEMMA ConnectingMove ==
  ASSUME Base, \A u \in Users : UserInv(u), NEW s \in Sockets,
         pc[s] \in {"list", "join", "add"}, NEW next \in {"join", "add", "tell"},
         pc' = [pc EXCEPT ![s] = next],
         UNCHANGED <<member, bye, live, row, channel, cpc, arg>>,
         \A t \in Sockets : t # s => data'[t] = data[t],
         next = "join" => data'[s] = None,
         next \in {"add", "tell"} => data'[s] = row[s],
         \A u \in Users : u # OwnerOf[s] => active'[u] = active[u],
         active'[OwnerOf[s]] = IF next = "tell" THEN row[s] ELSE None
  PROVE  KickAlone' /\ \A u \in Users : UserInv(u)'
  <1> DEFINE u == OwnerOf[s]
  <1> USE DEF Base
  <1>1. u \in Users /\ s \in SocketsOf(u) /\ UserInv(u) /\ Busy(s)
    BY SocketAssumption DEF SocketsOf, Busy, Connecting
  <1>2. bye[s] = "no" /\ live[s] /\ row[s] = member[u] /\ row[s] # None
    BY <1>1 DEF UserInv, SocketInv, Connecting
  <1>3. Sent' = Sent /\ KickAlone'
    BY SentSame
  <1>4. pc'[s] = next /\ \A t \in Sockets : t # s => pc'[t] = pc[t]
    BY DEF TypeOK
  <1>5. SocketMoves(s)
    BY <1>3, <1>4 DEF SocketMoves
  <1>6. UserInv(u)'
    <2>1. /\ \A t \in SocketsOf(u) : t # s => ~Busy(t)
          /\ \A c \in Commands : arg[c].user # u
          /\ \A m \in Sent : m.user # u
      BY <1>1, BusyAlone
    <2>2. \A t \in SocketsOf(u) : t # s => pc'[t] = pc[t] /\ data'[t] = data[t]
      BY <1>4 DEF SocketsOf
    <2>3. SocketInv(u)'
      BY <1>1, <1>2, <1>4, <2>2 DEF UserInv, SocketInv, Connecting
    <2>4. /\ \A t \in SocketsOf(u) : Busy(t)' => t = s
          /\ Busy(s)'
          /\ \A t \in SocketsOf(u) : bye'[t] = "no"
      BY <1>2, <1>4, <2>1, <2>2 DEF Busy, Connecting
    <2>5. \A t \in SocketsOf(u) : t # s => pc'[t] \notin Connecting
      BY <2>1, <2>2 DEF Busy
    <2>6. (pc'[s] = "tell" => active'[u] = member[u]) /\ (pc'[s] # "tell" => active'[u] = None)
      BY <1>2, <1>4
    <2> HIDE DEF u
    <2>7. QED
      BY <1>1, <1>3, <2>1, <2>3, <2>4, <2>5, <2>6, SocketsOnly DEF Connecting
  <1>7. QED
    BY <1>3, <1>5, <1>6, SocketStep

LEMMA ReadActiveStep ==
  ASSUME Base, \A u \in Users : UserInv(u), MaxFaults = 0, NEW s \in Sockets, ReadActive(s)
  PROVE  KickAlone' /\ \A u \in Users : UserInv(u)'
  <1>1. OwnerOf[s] \in Users /\ s \in SocketsOf(OwnerOf[s]) /\ pc[s] = "list"
    BY SocketAssumption DEF ReadActive, SocketsOf
  <1>2. data[s] = None /\ active[OwnerOf[s]] = None
    BY <1>1 DEF UserInv, SocketInv, EntryInv
  <1>3. /\ pc' = [pc EXCEPT ![s] = "join"]
        /\ UNCHANGED <<member, active, bye, live, data, row, channel, cpc, arg>>
    BY NoFailure DEF ReadActive, database, entries, commands, Base
  <1>4. QED
    BY <1>1, <1>2, <1>3, ConnectingMove

LEMMA JoinRoomStep ==
  ASSUME Base, \A u \in Users : UserInv(u), NEW s \in Sockets, JoinRoom(s)
  PROVE  KickAlone' /\ \A u \in Users : UserInv(u)'
  <1>1. OwnerOf[s] \in Users /\ s \in SocketsOf(OwnerOf[s]) /\ pc[s] = "join"
    BY SocketAssumption DEF JoinRoom, SocketsOf
  <1>2. active[OwnerOf[s]] = None
    BY <1>1 DEF UserInv, EntryInv
  <1>3. /\ pc' = [pc EXCEPT ![s] = "add"] /\ data' = [data EXCEPT ![s] = row[s]]
        /\ UNCHANGED <<member, active, bye, live, row, channel, cpc, arg>>
    BY DEF JoinRoom, database, entries, commands
  <1>4. data'[s] = row[s] /\ \A t \in Sockets : t # s => data'[t] = data[t]
    BY <1>3 DEF Base, TypeOK
  <1>5. QED
    BY <1>1, <1>2, <1>3, <1>4, ConnectingMove

LEMMA AddToActiveStep ==
  ASSUME Base, \A u \in Users : UserInv(u), MaxFaults = 0, NEW s \in Sockets, AddToActive(s)
  PROVE  KickAlone' /\ \A u \in Users : UserInv(u)'
  <1>1. OwnerOf[s] \in Users /\ s \in SocketsOf(OwnerOf[s]) /\ pc[s] = "add"
    BY SocketAssumption DEF AddToActive, SocketsOf
  <1>2. data[s] = row[s]
    BY <1>1 DEF UserInv, SocketInv
  <1>3. /\ pc' = [pc EXCEPT ![s] = "tell"] /\ active' = [active EXCEPT ![OwnerOf[s]] = row[s]]
        /\ UNCHANGED <<member, bye, live, data, row, channel, cpc, arg>>
    BY NoFailure DEF AddToActive, Relist, Applied, database, commands, Base
  <1>4. active'[OwnerOf[s]] = row[s] /\ \A u \in Users : u # OwnerOf[s] => active'[u] = active[u]
    BY <1>1, <1>3 DEF Base, TypeOK
  <1>5. QED
    BY <1>1, <1>2, <1>3, <1>4, ConnectingMove

LEMMA AnnounceStep ==
  ASSUME Base, \A u \in Users : UserInv(u), NEW s \in Sockets, Announce(s)
  PROVE  KickAlone' /\ \A u \in Users : UserInv(u)'
  <1> DEFINE u == OwnerOf[s]
             m == [kind |-> "joined", user |-> OwnerOf[s], role |-> row[s], socket |-> None]
  <1> USE DEF Base
  <1>1. u \in Users /\ s \in SocketsOf(u) /\ UserInv(u) /\ Busy(s) /\ pc[s] = "tell"
    BY SocketAssumption DEF Announce, SocketsOf, Busy, Connecting
  <1>2. /\ bye[s] = "no" /\ live[s] /\ data[s] = member[u] /\ member[u] # None
        /\ active[u] = member[u]
    BY <1>1 DEF UserInv, SocketInv, EntryInv, Connecting
  <1>3. /\ pc' = [pc EXCEPT ![s] = "in"] /\ row' = [row EXCEPT ![s] = None]
        /\ Publish(Home[s], m) /\ UNCHANGED <<member, active, bye, live, data, cpc, arg>>
    BY DEF Announce, database, entries, commands
  <1>4. /\ \A t \in SocketsOf(u) : t # s => ~Busy(t)
        /\ \A c \in Commands : arg[c].user # u
        /\ \A x \in Sent : x.user # u
    BY <1>1, BusyAlone
  <1>5. m \in Messages /\ m.user = u /\ m.kind = "joined" /\ Home[s] \in Servers
    BY <1>1, SocketAssumption DEF Messages, TypeOK
  <1> HIDE DEF m
  <1>6. KickAlone' /\ \A x \in Messages : x # m => (x \in Sent' <=> x \in Sent)
    BY <1>3, <1>4, <1>5, SentPublish
  <1>7. /\ pc'[s] = "in" /\ row'[s] = None
        /\ \A t \in Sockets : t # s => pc'[t] = pc[t] /\ row'[t] = row[t]
    BY <1>3 DEF TypeOK
  <1>8. SocketMoves(s)
    BY <1>3, <1>5, <1>6, <1>7 DEF SocketMoves
  <1>9. UserInv(u)'
    <2>1. \A t \in SocketsOf(u) : t # s => pc'[t] = pc[t] /\ row'[t] = row[t] /\ ~live[t]
      BY <1>1, <1>2, <1>7 DEF SocketsOf, UserInv, SocketInv
    <2>2. SocketInv(u)'
      BY <1>1, <1>2, <1>3, <1>7, <2>1 DEF UserInv, SocketInv, Connecting
    <2>3. \A t \in SocketsOf(u) : ~Busy(t)'
      BY <1>2, <1>3, <1>4, <1>7, <2>1 DEF Busy, Connecting
    <2>4. Agree(u)'
      BY <1>1, <1>2, <1>3, <2>1 DEF Agree, There, InRoom
    <2>5. \A x \in Sent' : x.user = u => x = m
      BY <1>4, <1>6 DEF Sent
    <2> HIDE DEF u
    <2>6. QED
      BY <1>3, <1>4, <1>5, <2>2, <2>3, <2>4, <2>5
         DEF UserInv, Alone, EntryInv, CommandInv, Busy, Connecting
  <1>10. QED
    BY <1>6, <1>8, <1>9, SocketStep

LEMMA LeaveStep ==
  ASSUME Base, \A u \in Users : UserInv(u), Unhurried, NEW s \in Sockets, Leave(s)
  PROVE  KickAlone' /\ \A u \in Users : UserInv(u)'
  <1> DEFINE u == OwnerOf[s]
  <1> USE DEF Base
  <1>1. u \in Users /\ s \in SocketsOf(u) /\ UserInv(u) /\ Undisturbed(u) /\ live[s]
    BY SocketAssumption DEF Leave, MayStart, SocketsOf
  <1>2. /\ \A t \in SocketsOf(u) : ~Busy(t) /\ bye[t] = "no" /\ pc[t] \in {"off", "in", "end"}
        /\ \A c \in Commands : arg[c].user # u
        /\ \A m \in Sent : m.user # u
    BY <1>1, Quiet
  <1>3. pc[s] = "in" /\ data[s] # None /\ \A t \in SocketsOf(u) : t # s => ~live[t]
    BY <1>1, <1>2 DEF UserInv, SocketInv
  <1>4. /\ live' = [live EXCEPT ![s] = FALSE] /\ bye' = [bye EXCEPT ![s] = "del"]
        /\ UNCHANGED <<member, active, pc, data, row, channel, cpc, arg>>
    BY <1>1, <1>3 DEF Leave, Close, database, entries, connecting, commands
  <1>5. Sent' = Sent /\ KickAlone'
    BY <1>4, SentSame
  <1>6. SocketMoves(s)
    BY <1>3, <1>4, <1>5 DEF SocketMoves, TypeOK
  <1>7. UserInv(u)'
    <2>1. /\ ~live'[s] /\ bye'[s] = "del"
          /\ \A t \in SocketsOf(u) : t # s => live'[t] = live[t] /\ bye'[t] = bye[t]
      BY <1>4 DEF TypeOK, SocketsOf
    <2>2. SocketInv(u)'
      BY <1>1, <1>3, <1>4, <2>1 DEF UserInv, SocketInv, Connecting
    <2>3. Busy(s)' /\ \A t \in SocketsOf(u) : Busy(t)' => t = s
      BY <1>2, <1>4, <2>1 DEF Busy
    <2> HIDE DEF u
    <2>4. QED
      BY <1>1, <1>2, <1>3, <1>4, <1>5, <2>1, <2>2, <2>3, SocketsOnly
  <1>8. QED
    BY <1>5, <1>6, <1>7, SocketStep

LEMMA RemoveFromActiveStep ==
  ASSUME Base, \A u \in Users : UserInv(u), MaxFaults = 0, NEW s \in Sockets, RemoveFromActive(s)
  PROVE  KickAlone' /\ \A u \in Users : UserInv(u)'
  <1> DEFINE u == OwnerOf[s]
  <1> USE DEF Base
  <1>1. u \in Users /\ s \in SocketsOf(u) /\ UserInv(u) /\ Busy(s) /\ bye[s] = "del"
    BY SocketAssumption DEF RemoveFromActive, SocketsOf, Busy
  <1>2. pc[s] = "in" /\ \A t \in SocketsOf(u) : ~live[t]
    BY <1>1 DEF UserInv, SocketInv, EntryInv
  <1>3. /\ \A t \in SocketsOf(u) : t # s => ~Busy(t)
        /\ \A c \in Commands : arg[c].user # u
        /\ \A m \in Sent : m.user # u
    BY <1>1, BusyAlone
  <1>4. /\ bye' = [bye EXCEPT ![s] = "tell"] /\ active' = [active EXCEPT ![u] = None]
        /\ UNCHANGED <<member, pc, live, data, row, channel, cpc, arg>>
    BY NoFailure DEF RemoveFromActive, Relist, Applied, database, connecting, commands
  <1>5. Sent' = Sent /\ KickAlone'
    BY <1>4, SentSame
  <1>6. SocketMoves(s)
    BY <1>2, <1>4, <1>5 DEF SocketMoves, TypeOK
  <1>7. UserInv(u)'
    <2>1. /\ bye'[s] = "tell" /\ active'[u] = None
          /\ \A t \in SocketsOf(u) : t # s => bye'[t] = bye[t]
      BY <1>1, <1>4 DEF TypeOK, SocketsOf
    <2>2. SocketInv(u)'
      BY <1>1, <1>2, <1>4, <2>1 DEF UserInv, SocketInv
    <2>3. Busy(s)' /\ \A t \in SocketsOf(u) : Busy(t)' => t = s
      BY <1>3, <1>4, <2>1 DEF Busy
    <2>4. \A t \in SocketsOf(u) : pc'[t] \notin Connecting
      BY <1>2, <1>3, <1>4 DEF Busy, Connecting
    <2> HIDE DEF u
    <2>5. QED
      BY <1>1, <1>2, <1>3, <1>4, <1>5, <2>1, <2>2, <2>3, <2>4, SocketsOnly DEF Connecting
  <1>8. QED
    BY <1>5, <1>6, <1>7, SocketStep

LEMMA TellDisconnectedStep ==
  ASSUME Base, \A u \in Users : UserInv(u), NEW s \in Sockets, TellDisconnected(s)
  PROVE  KickAlone' /\ \A u \in Users : UserInv(u)'
  <1> DEFINE u == OwnerOf[s]
             m == [kind |-> "left", user |-> OwnerOf[s], role |-> None, socket |-> None]
  <1> USE DEF Base
  <1>1. u \in Users /\ s \in SocketsOf(u) /\ UserInv(u) /\ Busy(s) /\ bye[s] = "tell"
    BY SocketAssumption DEF TellDisconnected, SocketsOf, Busy
  <1>2. pc[s] = "in" /\ active[u] = None /\ \A t \in SocketsOf(u) : ~live[t]
    BY <1>1 DEF UserInv, SocketInv, EntryInv
  <1>3. /\ bye' = [bye EXCEPT ![s] = "no"] /\ Publish(Home[s], m)
        /\ UNCHANGED <<member, active, pc, live, data, row, cpc, arg>>
    BY DEF TellDisconnected, Broadcast, database, entries, connecting, commands
  <1>4. /\ \A t \in SocketsOf(u) : t # s => ~Busy(t)
        /\ \A c \in Commands : arg[c].user # u
        /\ \A x \in Sent : x.user # u
    BY <1>1, BusyAlone
  <1>5. m \in Messages /\ m.user = u /\ m.kind = "left" /\ Home[s] \in Servers
    BY <1>1, SocketAssumption DEF Messages, RoleOrNone
  <1> HIDE DEF m
  <1>6. KickAlone' /\ \A x \in Messages : x # m => (x \in Sent' <=> x \in Sent)
    BY <1>3, <1>4, <1>5, SentPublish
  <1>7. bye'[s] = "no" /\ \A t \in Sockets : t # s => bye'[t] = bye[t]
    BY <1>3 DEF TypeOK
  <1>8. SocketMoves(s)
    BY <1>2, <1>3, <1>5, <1>6, <1>7 DEF SocketMoves
  <1>9. UserInv(u)'
    <2>1. \A t \in SocketsOf(u) : t # s => bye'[t] = bye[t]
      BY <1>7 DEF SocketsOf
    <2>2. SocketInv(u)'
      BY <1>1, <1>3, <1>7, <2>1 DEF UserInv, SocketInv
    <2>3. \A t \in SocketsOf(u) : ~Busy(t)'
      BY <1>2, <1>3, <1>4, <1>7, <2>1 DEF Busy, Connecting
    <2>4. Agree(u)'
      BY <1>2, <1>3 DEF Agree, There, InRoom
    <2>5. \A x \in Sent' : x.user = u => x = m
      BY <1>4, <1>6 DEF Sent
    <2> HIDE DEF u
    <2>6. QED
      BY <1>3, <1>4, <1>5, <2>2, <2>3, <2>4, <2>5
         DEF UserInv, Alone, EntryInv, CommandInv, Busy, Connecting
  <1>10. QED
    BY <1>6, <1>8, <1>9, SocketStep

-----------------------------------------------------------------------------
(* Steps of a command about user u.                                        *)

CommandMoves(c, u) ==
  /\ \A x \in Users : x # u => member'[x] = member[x] /\ active'[x] = active[x]
  /\ \A t \in Sockets : OwnerOf[t] # u => /\ bye'[t] = bye[t] /\ live'[t] = live[t]
                                          /\ data'[t] = data[t]
  /\ UNCHANGED <<pc, row>>
  /\ \A d \in Commands : d # c => cpc'[d] = cpc[d] /\ arg'[d] = arg[d]
  /\ arg[c].user \in {u, None} /\ arg'[c].user \in {u, None}
  /\ \A m \in Messages : m.user # u => (m \in Sent' <=> m \in Sent)

LEMMA CommandStep ==
  ASSUME TypeOK, ArgInv, \A x \in Users : UserInv(x), NEW u \in Users, NEW c \in Commands,
         CommandMoves(c, u), UserInv(u)'
  PROVE  \A x \in Users : UserInv(x)'
  <1> SUFFICES ASSUME NEW x \in Users, x # u PROVE UserInv(x)'
    OBVIOUS
  <1>1. Opened
    BY DEF Opened, CommandMoves
  <1>2. Same(x)
    BY NoneAssumption DEF Same, CommandMoves, SocketsOf
  <1>3. QED
    BY <1>1, <1>2, SameUser

\* A command about a user is the only thing that goes on.
LEMMA CommandAlone ==
  ASSUME TypeOK, NEW u \in Users, UserInv(u), NEW c \in Commands, arg[c].user = u
  PROVE  /\ \A t \in SocketsOf(u) : /\ ~Busy(t) /\ bye[t] = "no" /\ pc[t] \in {"off", "in", "end"}
                                    /\ live[t] => InRoom(t) /\ pc[t] = "in"
         /\ \A s, t \in SocketsOf(u) : live[s] /\ live[t] => s = t
         /\ \A d \in Commands : d # c => arg[d].user # u
         /\ \A m \in Sent : m.user # u
  <1>1. \A t \in SocketsOf(u) : ~Busy(t)
    BY DEF UserInv, Alone
  <1>2. \A t \in SocketsOf(u) : bye[t] = "no" /\ pc[t] \in {"off", "in", "end"}
    BY <1>1 DEF Busy, Connecting, TypeOK, SocketsOf
  <1>3. \A t \in SocketsOf(u) : live[t] => InRoom(t) /\ pc[t] = "in"
    BY <1>2 DEF UserInv, SocketInv, InRoom
  <1>4. \A s, t \in SocketsOf(u) : live[s] /\ live[t] => s = t
    BY DEF UserInv, SocketInv
  <1>5. QED
    BY <1>1, <1>2, <1>3, <1>4 DEF UserInv, Alone

\* The command goes on.
LEMMA GoesOn ==
  ASSUME Base, \A x \in Users : UserInv(x), NEW u \in Users, NEW c \in Commands,
         arg[c].user = u \/ (arg[c].user = None /\ Undisturbed(u)), arg'[c].user = u,
         \A x \in Users : x # u => member'[x] = member[x] /\ active'[x] = active[x],
         \A t \in Sockets : OwnerOf[t] # u => data'[t] = data[t],
         \A t \in Sockets : data'[t] = None <=> data[t] = None,
         UNCHANGED <<pc, bye, live, row, channel>>,
         \A d \in Commands : d # c => cpc'[d] = cpc[d] /\ arg'[d] = arg[d],
         /\ pc[arg'[c].by] # "off"
         /\ cpc'[c] \in {"fetch", "find", "write", "unlist", "hget", "hset"} => Agree(u)'
         /\ arg'[c].kind = "remove" => RemoveInv(c, u)'
         /\ arg'[c].kind = "leave" => LeaveInv(c, u)'
         /\ arg'[c].kind = "promote" => PromoteInv(c, u)'
  PROVE  KickAlone' /\ \A x \in Users : UserInv(x)'
  <1> USE DEF Base
  <1>1. Sent' = Sent /\ KickAlone'
    BY SentSame
  <1>2. /\ \A t \in SocketsOf(u) : ~Busy(t) /\ bye[t] = "no" /\ pc[t] \in {"off", "in", "end"}
        /\ \A d \in Commands : d # c => arg[d].user # u
        /\ \A m \in Sent : m.user # u
    <2>1. CASE arg[c].user = u
      BY <2>1, CommandAlone
    <2>2. CASE Undisturbed(u)
      BY <2>2, Quiet
    <2>3. QED
      BY <2>1, <2>2
  <1>3. CommandMoves(c, u)
    BY <1>1 DEF CommandMoves
  <1>4. SocketInv(u)'
    BY <1>2 DEF UserInv, SocketInv, Connecting, SocketsOf
  <1>5. \A t \in SocketsOf(u) : ~Busy(t)'
    BY <1>2 DEF Busy
  <1>6. Alone(u)'
    BY <1>1, <1>2, <1>5 DEF Alone
  <1>7. EntryInv(u)'
    BY <1>1, <1>2 DEF EntryInv, Settled
  <1>8. CommandInv(u)'
    BY <1>2 DEF CommandInv
  <1>9. UserInv(u)'
    BY <1>4, <1>6, <1>7, <1>8 DEF UserInv
  <1>10. QED
    BY <1>1, <1>3, <1>9, CommandStep

\* The command ends and leaves everything as it is.
LEMMA EndsQuietly ==
  ASSUME Base, \A x \in Users : UserInv(x), NEW u \in Users, NEW c \in Commands,
         arg[c].user = u, End(c), Agree(u),
         UNCHANGED <<member, active, pc, bye, live, data, row, channel>>
  PROVE  KickAlone' /\ \A x \in Users : UserInv(x)'
  <1> USE DEF Base
  <1>1. Sent' = Sent /\ KickAlone'
    BY SentSame
  <1>2. /\ \A t \in SocketsOf(u) : ~Busy(t) /\ bye[t] = "no" /\ pc[t] \in {"off", "in", "end"}
        /\ \A d \in Commands : d # c => arg[d].user # u
        /\ \A m \in Sent : m.user # u
    BY CommandAlone
  <1>3. /\ arg'[c].user = None
        /\ \A d \in Commands : d # c => cpc'[d] = cpc[d] /\ arg'[d] = arg[d]
    BY DEF End, NoArg, TypeOK
  <1>4. CommandMoves(c, u)
    BY <1>1, <1>3 DEF CommandMoves
  <1>5. SocketInv(u)' /\ Agree(u)'
    BY DEF UserInv, SocketInv, Agree, There, InRoom, OneHome
  <1>6. \A t \in SocketsOf(u) : ~Busy(t)'
    BY <1>2 DEF Busy
  <1>7. \A d \in Commands : arg'[d].user # u
    BY <1>2, <1>3, NoneAssumption
  <1>8. UserInv(u)'
    BY <1>1, <1>2, <1>5, <1>6, <1>7, SocketsOnly
  <1>9. QED
    BY <1>1, <1>4, <1>8, CommandStep

\* The command ends with the socket of a user who is neither in the list nor a member.
LEMMA EndsWithKick ==
  ASSUME Base, \A x \in Users : UserInv(x), NEW u \in Users, NEW c \in Commands,
         arg[c].user = u, End(c), NEW v \in Servers, NEW s \in SocketsOf(u), Disconnect(v, s),
         active[u] = None, member[u] = None, \A t \in SocketsOf(u) : live[t] => t = s,
         UNCHANGED <<member, active, pc, data, row>>
  PROVE  KickAlone' /\ \A x \in Users : UserInv(x)'
  <1> USE DEF Base
  <1>1. /\ \A t \in SocketsOf(u) : /\ ~Busy(t) /\ bye[t] = "no" /\ pc[t] \in {"off", "in", "end"}
                                   /\ live[t] => InRoom(t) /\ pc[t] = "in"
        /\ \A d \in Commands : d # c => arg[d].user # u
        /\ \A m \in Sent : m.user # u
    BY CommandAlone
  <1>2. /\ arg'[c].user = None
        /\ \A d \in Commands : d # c => cpc'[d] = cpc[d] /\ arg'[d] = arg[d]
    BY DEF End, NoArg, TypeOK
  <1>3. \A d \in Commands : arg'[d].user # u
    BY <1>1, <1>2, NoneAssumption
  <1>4. s \in Sockets /\ OwnerOf[s] = u /\ Home[s] \in Servers
    BY SocketAssumption DEF SocketsOf
  <1>5. CASE Home[s] = v
    <2>1. Close(s) /\ UNCHANGED channel
      BY <1>5 DEF Disconnect
    <2>2. Sent' = Sent /\ KickAlone'
      BY <2>1, SentSame
    <2>3. /\ ~live'[s] /\ \A t \in Sockets : t # s => live'[t] = live[t] /\ bye'[t] = bye[t]
          /\ IF live[s] THEN bye'[s] = "del" ELSE bye'[s] = "no"
      BY <1>1, <1>4, <2>1 DEF Close, InRoom, TypeOK
    <2>4. CommandMoves(c, u)
      BY <1>2, <1>4, <2>2, <2>3 DEF CommandMoves
    <2>5. \A t \in SocketsOf(u) : ~live'[t]
      BY <2>3 DEF SocketsOf
    <2>6. \A t \in SocketsOf(u) : t # s => bye'[t] = "no"
      BY <1>1, <2>3 DEF SocketsOf
    <2>7. SocketInv(u)'
      BY <1>1, <2>3, <2>5, <2>6 DEF UserInv, SocketInv, Connecting
    <2>8. Agree(u)'
      BY <2>5 DEF Agree, There, InRoom
    <2>9. \A t \in SocketsOf(u) : Busy(t)' => t = s
      BY <1>1, <2>6 DEF Busy
    <2>10. UserInv(u)'
      BY <1>1, <1>3, <2>2, <2>3, <2>5, <2>6, <2>7, <2>8, <2>9, SocketsOnly
    <2>11. QED
      BY <2>2, <2>4, <2>10, CommandStep
  <1>6. CASE Home[s] # v
    <2> DEFINE m == [kind |-> "kick", user |-> OwnerOf[s], role |-> None, socket |-> s]
    <2>1. channel' = [channel EXCEPT ![Home[s]] = Append(@, m)] /\ UNCHANGED <<live, bye>>
      BY <1>6 DEF Disconnect
    <2>2. m \in Messages /\ m.user = u /\ m.kind = "kick" /\ m.socket = s
      BY <1>4 DEF Messages, RoleOrNone
    <2> HIDE DEF m
    <2>3. KickAlone' /\ \A x \in Messages : x # m => (x \in Sent' <=> x \in Sent)
      <3>1. \A x \in Sent : x.user # m.user
        BY <1>1, <2>2
      <3>2. PICK w \in Servers : w = Home[s]
        BY <1>4
      <3>3. channel' = [channel EXCEPT ![w] = Append(@, m)]
        BY <2>1, <3>2
      <3>4. m \in Messages
        BY <2>2
      <3>5. QED
        BY <3>1, <3>3, <3>4, SentKick
    <2>4. CommandMoves(c, u)
      BY <1>2, <2>1, <2>2, <2>3 DEF CommandMoves
    <2>5. \A x \in Sent' : x.user = u => x = m
      BY <1>1, <2>3 DEF Sent
    <2>6. SocketInv(u)' /\ \A t \in SocketsOf(u) : ~Busy(t)'
      BY <1>1, <2>1 DEF UserInv, SocketInv, Busy
    <2>7. Alone(u)'
      BY <1>3, <2>6 DEF Alone
    <2>8. m \in Sent'
      <3>1. Len(channel[Home[s]]) + 1 \in 1..Len(channel'[Home[s]])
            /\ channel'[Home[s]][Len(channel[Home[s]]) + 1] = m
        BY <1>4, <2>1, <2>2 DEF TypeOK
      <3>2. QED
        BY <1>4, <2>2, <3>1 DEF Sent
    <2>9. ~Settled(u)'
      BY <2>2, <2>8 DEF Settled
    <2>10. EntryInv(u)'
      BY <1>1, <2>1, <2>2, <2>5, <2>6, <2>9 DEF EntryInv
    <2>11. UserInv(u)'
      BY <1>3, <2>6, <2>7, <2>10 DEF UserInv, CommandInv
    <2>12. QED
      BY <2>3, <2>4, <2>11, CommandStep
  <1>7. QED
    BY <1>5, <1>6

LEMMA IssueStep ==
  ASSUME Base, \A x \in Users : UserInv(x), Unhurried, NEW c \in Commands, Issue(c)
  PROVE  KickAlone' /\ \A x \in Users : UserInv(x)'
  <1> USE DEF Base
  <1> PICK s \in {t \in Sockets : InRoom(t)}, u \in Users,
           kind \in {"remove", "leave", "promote"}, role \in RoleOrNone :
        /\ kind = "leave" => u = OwnerOf[s]
        /\ kind = "promote" <=> role # None
        /\ MayStart(u)
        /\ arg' = [arg EXCEPT ![c] = [kind |-> kind, by |-> s, user |-> u,
                                      role |-> role, socket |-> None]]
        /\ Goto(c, IF kind = "leave" THEN "write" ELSE "fetch")
    BY DEF Issue
  <1>1. cpc[c] = "new" /\ UNCHANGED <<member, active, pc, bye, live, data, row, channel>>
    BY DEF Issue, database, entries, sockets
  <1>2. arg[c].user = None /\ Undisturbed(u)
    BY <1>1 DEF ArgInv, Ended, NoArg, MayStart
  <1>3. /\ arg'[c] = [kind |-> kind, by |-> s, user |-> u, role |-> role, socket |-> None]
        /\ cpc'[c] = IF kind = "leave" THEN "write" ELSE "fetch"
        /\ \A d \in Commands : d # c => cpc'[d] = cpc[d] /\ arg'[d] = arg[d]
    BY DEF Goto, TypeOK
  <1>4. Agree(u)'
    <2>1. Agree(u)
      BY <1>2, Quiet
    <2>2. QED
      BY <1>1, <2>1 DEF Agree, There, InRoom, OneHome
  <1>5. pc[s] # "off"
    <2>1. OwnerOf[s] \in Users /\ s \in SocketsOf(OwnerOf[s])
      BY SocketAssumption DEF SocketsOf
    <2>2. QED
      BY <2>1 DEF UserInv, SocketInv, InRoom
  <1>6. /\ kind = "remove" => RemoveInv(c, u)'
        /\ kind = "leave" => LeaveInv(c, u)'
        /\ kind = "promote" => PromoteInv(c, u)'
    BY <1>1, <1>3 DEF RemoveInv, LeaveInv, PromoteInv, SocketsOf, InRoom
  <1>7. QED
    BY <1>1, <1>2, <1>3, <1>4, <1>5, <1>6, GoesOn

\* What is known of a command that is under way.
LEMMA CommandFacts ==
  ASSUME TypeOK, ArgInv, \A x \in Users : UserInv(x), NEW c \in Commands, cpc[c] \notin Ended
  PROVE  /\ arg[c] \in Args /\ arg[c].user \in Users /\ arg[c].by \in Sockets
         /\ arg[c].kind \in {"remove", "leave", "promote"}
         /\ pc[arg[c].by] # "off"
         /\ cpc[c] \in {"fetch", "find", "write", "unlist", "hget", "hset"} => Agree(arg[c].user)
         /\ arg[c].kind = "remove" => RemoveInv(c, arg[c].user)
         /\ arg[c].kind = "leave" => LeaveInv(c, arg[c].user)
         /\ arg[c].kind = "promote" => PromoteInv(c, arg[c].user)
  <1>1. /\ arg[c] \in Args /\ arg[c].user \in Users /\ arg[c].by \in Sockets
        /\ arg[c].kind # "none"
    BY DEF TypeOK, ArgInv
  <1>2. arg[c].kind \in {"remove", "leave", "promote"}
    BY <1>1 DEF Args
  <1>3. QED
    BY <1>1, <1>2 DEF UserInv, CommandInv

\* A handler goes on to its next call and changes nothing else.
LEMMA NextCall ==
  ASSUME Base, \A x \in Users : UserInv(x), NEW c \in Commands, cpc[c] \notin Ended,
         NEW label, Goto(c, label), UNCHANGED arg,
         UNCHANGED <<member, active, pc, bye, live, data, row, channel>>,
         Agree(arg[c].user), label \notin {"commit", "after"},
         arg[c].kind = "remove" => RemoveInv(c, arg[c].user)',
         arg[c].kind = "leave" => LeaveInv(c, arg[c].user)',
         arg[c].kind = "promote" => PromoteInv(c, arg[c].user)'
  PROVE  KickAlone' /\ \A x \in Users : UserInv(x)'
  <1> DEFINE u == arg[c].user
  <1> USE DEF Base
  <1>1. u \in Users /\ pc[arg[c].by] # "off"
    BY CommandFacts
  <1>2. Agree(u)'
    BY DEF Agree, There, InRoom, OneHome
  <1>3. \A d \in Commands : d # c => cpc'[d] = cpc[d] /\ arg'[d] = arg[d]
    BY DEF Goto, TypeOK
  <1> HIDE DEF u
  <1>4. QED
    BY <1>1, <1>2, <1>3, GoesOn DEF u

LEMMA FetchStep ==
  ASSUME Base, \A x \in Users : UserInv(x), MaxFaults = 0, NEW c \in Commands, FetchSocket(c)
  PROVE  KickAlone' /\ \A x \in Users : UserInv(x)'
  <1> DEFINE u == arg[c].user
             there == {s \in SocketsOf(u) : InRoom(s)}
  <1> USE DEF Base
  <1>1. cpc[c] = "fetch" /\ cpc[c] \notin Ended
        /\ UNCHANGED <<member, active, pc, bye, live, data, row, channel>>
    BY DEF FetchSocket, database, entries, sockets, Ended
  <1>2. /\ arg[c] \in Args /\ u \in Users /\ arg[c].by \in Sockets
        /\ arg[c].kind \in {"remove", "leave", "promote"}
        /\ pc[arg[c].by] # "off" /\ Agree(u)
        /\ arg[c].kind = "remove" => RemoveInv(c, u)
        /\ arg[c].kind = "leave" => LeaveInv(c, u)
        /\ arg[c].kind = "promote" => PromoteInv(c, u)
    BY <1>1, CommandFacts
  <1>3. CASE End(c)
    BY <1>1, <1>2, <1>3, EndsQuietly
  <1>4. CASE \E s \in IF there = {} THEN {None} ELSE there :
               /\ arg[c].kind = "promote" => s # None
               /\ arg' = [arg EXCEPT ![c].socket = s]
               /\ Goto(c, IF arg[c].kind = "remove" THEN "find" ELSE "write")
    <2> PICK s \in IF there = {} THEN {None} ELSE there :
               /\ arg[c].kind = "promote" => s # None
               /\ arg' = [arg EXCEPT ![c].socket = s]
               /\ Goto(c, IF arg[c].kind = "remove" THEN "find" ELSE "write")
      BY <1>4
    <2>1. /\ arg'[c] = [arg[c] EXCEPT !.socket = s]
          /\ cpc'[c] = IF arg[c].kind = "remove" THEN "find" ELSE "write"
          /\ \A d \in Commands : d # c => cpc'[d] = cpc[d] /\ arg'[d] = arg[d]
      BY DEF Goto, TypeOK
    <2>2. /\ arg'[c].kind = arg[c].kind /\ arg'[c].by = arg[c].by /\ arg'[c].user = u
          /\ arg'[c].role = arg[c].role /\ arg'[c].socket = s
      BY <1>2, <2>1 DEF Args
    <2>3. Agree(u)'
      BY <1>1, <1>2 DEF Agree, There, InRoom, OneHome
    <2>4. s \in SocketsOf(u) \cup {None} /\ (s # None => InRoom(s))
      BY DEF there
    <2>5. \A t \in SocketsOf(u) : live[t] => t = s
      <3>1. /\ \A t \in SocketsOf(u) : live[t] => InRoom(t)
            /\ \A t, x \in SocketsOf(u) : live[t] /\ live[x] => t = x
        BY <1>2, CommandAlone
      <3>2. ASSUME NEW t \in SocketsOf(u), live[t] PROVE t = s
        <4>1. t \in there
          BY <3>1, <3>2
        <4>2. s \in there
          BY <4>1
        <4>3. QED
          BY <3>1, <3>2, <4>2 DEF InRoom
      <3>3. QED
        BY <3>2
    <2>6. arg[c].kind # "leave"
      BY <1>1, <1>2 DEF LeaveInv
    <2>7. arg[c].kind = "remove" => RemoveInv(c, u)'
      BY <1>1, <1>2, <2>1, <2>2, <2>4, <2>5 DEF RemoveInv
    <2>8. arg[c].kind = "promote" => PromoteInv(c, u)'
      BY <1>1, <1>2, <2>1, <2>2, <2>4 DEF PromoteInv, InRoom
    <2> HIDE DEF u, there
    <2>9. QED
      BY <1>1, <1>2, <2>1, <2>2, <2>3, <2>6, <2>7, <2>8, GoesOn DEF u
  <1>5. QED
    BY <1>3, <1>4 DEF FetchSocket

LEMMA FindStep ==
  ASSUME Base, \A x \in Users : UserInv(x), MaxFaults = 0, NEW c \in Commands, FindRow(c)
  PROVE  KickAlone' /\ \A x \in Users : UserInv(x)'
  <1> DEFINE u == arg[c].user
  <1> USE DEF Base
  <1>1. cpc[c] = "find" /\ cpc[c] \notin Ended /\ UNCHANGED <<member, active, pc, data, row>>
    BY DEF FindRow, database, entries, connecting, Ended
  <1>2. /\ u \in Users /\ arg[c].by \in Sockets /\ arg[c].kind = "remove"
        /\ Agree(u) /\ RemoveInv(c, u)
    BY <1>1, CommandFacts DEF ArgInv
  <1>3. CASE /\ member[u] = None /\ arg[c].socket # None
             /\ End(c) /\ Disconnect(Home[arg[c].by], arg[c].socket)
    <2>1. arg[c].socket \in SocketsOf(u) /\ \A t \in SocketsOf(u) : live[t] => t = arg[c].socket
      BY <1>1, <1>2, <1>3 DEF RemoveInv
    <2>2. active[u] = None
      BY <1>2, <1>3 DEF Agree
    <2>3. Home[arg[c].by] \in Servers
      BY <1>2, SocketAssumption
    <2>4. QED
      BY <1>1, <1>2, <1>3, <2>1, <2>2, <2>3, EndsWithKick
  <1>4. CASE Goto(c, "write") /\ UNCHANGED <<arg, live, bye, channel>>
    <2>1. cpc'[c] = "write"
      BY <1>4 DEF Goto, TypeOK
    <2>2. RemoveInv(c, u)'
      BY <1>1, <1>2, <1>4, <2>1 DEF RemoveInv
    <2>3. QED
      BY <1>1, <1>2, <1>4, <2>2, NextCall
  <1>5. QED
    BY <1>3, <1>4, NoFailure DEF FindRow

LEMMA WriteStep ==
  ASSUME Base, \A x \in Users : UserInv(x), MaxFaults = 0, NEW c \in Commands, WriteRow(c)
  PROVE  KickAlone' /\ \A x \in Users : UserInv(x)'
  <1> DEFINE u == arg[c].user
  <1> USE DEF Base
  <1>1. cpc[c] = "write" /\ cpc[c] \notin Ended /\ UNCHANGED <<active, pc, data, row, channel>>
    BY DEF WriteRow, entries, connecting, Ended
  <1>2. /\ u \in Users /\ arg[c].by \in Sockets /\ pc[arg[c].by] # "off" /\ Agree(u)
        /\ arg[c].kind \in {"remove", "leave", "promote"}
        /\ arg[c].kind = "remove" => RemoveInv(c, u)
        /\ arg[c].kind = "leave" => LeaveInv(c, u)
        /\ arg[c].kind = "promote" => PromoteInv(c, u)
    BY <1>1, CommandFacts
  <1>3. CASE /\ member[u] # None /\ arg[c].kind = "leave"
             /\ member' = [member EXCEPT ![u] = None] /\ Goto(c, "after")
             /\ UNCHANGED <<arg, live, bye>>
    <2>1. /\ cpc'[c] = "after" /\ member'[u] = None
          /\ \A x \in Users : x # u => member'[x] = member[x]
          /\ \A d \in Commands : d # c => cpc'[d] = cpc[d] /\ arg'[d] = arg[d]
      BY <1>2, <1>3 DEF Goto, TypeOK
    <2>2. LeaveInv(c, u)'
      BY <1>1, <1>2, <1>3, <2>1 DEF LeaveInv, InRoom
    <2> HIDE DEF u
    <2>3. QED
      BY <1>1, <1>2, <1>3, <2>1, <2>2, GoesOn DEF u
  <1>4. CASE /\ arg[c].kind # "leave" /\ UNCHANGED <<member, arg, live, bye>>
             /\ Goto(c, IF arg[c].kind = "remove" THEN "unlist" ELSE "hget")
    <2>1. cpc'[c] = IF arg[c].kind = "remove" THEN "unlist" ELSE "hget"
      BY <1>4 DEF Goto, TypeOK
    <2>2. /\ arg[c].kind = "remove" => RemoveInv(c, u)'
          /\ arg[c].kind = "promote" => PromoteInv(c, u)'
      BY <1>1, <1>2, <1>4, <2>1 DEF RemoveInv, PromoteInv, InRoom
    <2>3. QED
      BY <1>1, <1>2, <1>4, <2>2, NextCall
  <1>5. CASE member[u] = None /\ End(c) /\ UNCHANGED member
             /\ IF arg[c].kind = "leave" THEN Close(arg[c].by) ELSE UNCHANGED <<live, bye>>
    <2>1. arg[c].kind # "leave"
      BY <1>2, <1>5 DEF LeaveInv, Agree, There
    <2>2. QED
      BY <1>1, <1>2, <1>5, <2>1, EndsQuietly
  <1>6. QED
    BY <1>3, <1>4, <1>5, NoFailure DEF WriteRow

LEMMA UnlistStep ==
  ASSUME Base, \A x \in Users : UserInv(x), MaxFaults = 0, NEW c \in Commands, Unlist(c)
  PROVE  KickAlone' /\ \A x \in Users : UserInv(x)'
  <1> DEFINE u == arg[c].user
  <1> USE DEF Base
  <1>1. /\ cpc[c] = "unlist" /\ cpc[c] \notin Ended
        /\ UNCHANGED <<member, pc, bye, live, data, row, channel, arg>>
        /\ active' = [active EXCEPT ![u] = None] /\ Goto(c, "commit")
    BY NoFailure DEF Unlist, Relist, Rollback, sockets, Ended
  <1>2. /\ u \in Users /\ pc[arg[c].by] # "off"
        /\ arg[c].kind = "remove" /\ RemoveInv(c, u)
    BY <1>1, CommandFacts DEF LeaveInv, PromoteInv
  <1>3. /\ cpc'[c] = "commit" /\ active'[u] = None
        /\ \A x \in Users : x # u => active'[x] = active[x]
        /\ \A d \in Commands : d # c => cpc'[d] = cpc[d] /\ arg'[d] = arg[d]
    BY <1>1, <1>2 DEF Goto, TypeOK
  <1>4. RemoveInv(c, u)'
    BY <1>1, <1>2, <1>3 DEF RemoveInv
  <1> HIDE DEF u
  <1>5. QED
    BY <1>1, <1>2, <1>3, <1>4, GoesOn DEF u

LEMMA ReadEntryStep ==
  ASSUME Base, \A x \in Users : UserInv(x), MaxFaults = 0, NEW c \in Commands, ReadEntry(c)
  PROVE  KickAlone' /\ \A x \in Users : UserInv(x)'
  <1> DEFINE u == arg[c].user
  <1> USE DEF Base
  <1>1. /\ cpc[c] = "hget" /\ cpc[c] \notin Ended
        /\ UNCHANGED <<member, active, pc, bye, live, data, row, channel, arg>>
        /\ Goto(c, IF active[u] = None THEN "commit" ELSE "hset")
    BY NoFailure DEF ReadEntry, Rollback, entries, sockets, Ended
  <1>2. u \in Users /\ Agree(u) /\ arg[c].kind = "promote" /\ PromoteInv(c, u)
    BY <1>1, CommandFacts DEF LeaveInv, RemoveInv
  <1>3. active[u] # None
    BY <1>1, <1>2 DEF PromoteInv, Agree, There
  <1>4. PromoteInv(c, u)'
    <2>1. cpc'[c] = "hset"
      BY <1>1, <1>3 DEF Goto, TypeOK
    <2>2. QED
      BY <1>1, <1>2, <2>1 DEF PromoteInv, InRoom
  <1>5. QED
    BY <1>1, <1>2, <1>3, <1>4, NextCall

LEMMA WriteEntryStep ==
  ASSUME Base, \A x \in Users : UserInv(x), MaxFaults = 0, NEW c \in Commands, WriteEntry(c)
  PROVE  KickAlone' /\ \A x \in Users : UserInv(x)'
  <1> DEFINE u == arg[c].user
             s == arg[c].socket
  <1> USE DEF Base
  <1>1. /\ cpc[c] = "hset" /\ cpc[c] \notin Ended
        /\ UNCHANGED <<member, pc, bye, live, row, channel, arg>>
        /\ active' = [active EXCEPT ![u] = arg[c].role] /\ Goto(c, "commit")
        /\ data' = IF Home[s] = Home[arg[c].by] THEN [data EXCEPT ![s] = arg[c].role] ELSE data
    BY NoFailure DEF WriteEntry, Relist, Rollback, connecting, Ended
  <1>2. /\ u \in Users /\ arg[c].by \in Sockets /\ pc[arg[c].by] # "off"
        /\ arg[c].kind = "promote" /\ PromoteInv(c, u)
    BY <1>1, CommandFacts DEF LeaveInv, RemoveInv
  <1>3. s \in SocketsOf(u) /\ s \in Sockets /\ OwnerOf[s] = u /\ InRoom(s) /\ arg[c].role # None
    BY <1>1, <1>2 DEF PromoteInv, SocketsOf
  <1>4. /\ cpc'[c] = "commit" /\ active'[u] = arg[c].role
        /\ \A x \in Users : x # u => active'[x] = active[x]
        /\ \A d \in Commands : d # c => cpc'[d] = cpc[d] /\ arg'[d] = arg[d]
    BY <1>1, <1>2 DEF Goto, TypeOK
  <1>5. /\ \A t \in Sockets : t # s => data'[t] = data[t]
        /\ data'[s] = IF Home[s] = Home[arg[c].by] THEN arg[c].role ELSE data[s]
    BY <1>1, <1>3 DEF TypeOK
  <1>6. \A t \in Sockets : data'[t] = None <=> data[t] = None
    BY <1>3, <1>5 DEF InRoom
  <1>7. PromoteInv(c, u)'
    <2>1. OneHome(s)' => data'[s] = arg[c].role
      BY <1>1, <1>2, <1>5 DEF OneHome
    <2>2. InRoom(s)'
      BY <1>1, <1>3, <1>6 DEF InRoom
    <2>3. QED
      BY <1>1, <1>3, <1>4, <2>1, <2>2 DEF PromoteInv
  <1> HIDE DEF u, s
  <1>8. QED
    BY <1>1, <1>2, <1>3, <1>4, <1>5, <1>6, <1>7, GoesOn DEF u

LEMMA CommitStep ==
  ASSUME Base, \A x \in Users : UserInv(x), MaxFaults = 0, NEW c \in Commands, Commit(c)
  PROVE  KickAlone' /\ \A x \in Users : UserInv(x)'
  <1> DEFINE u == arg[c].user
  <1> USE DEF Base
  <1>1. /\ cpc[c] = "commit" /\ cpc[c] \notin Ended
        /\ UNCHANGED <<active, pc, bye, live, data, row, channel, arg>>
        /\ member' = [member EXCEPT ![u] = arg[c].role] /\ Goto(c, "after")
    BY NoFailure DEF Commit, Rollback, entries, sockets, Ended
  <1>2. /\ u \in Users /\ arg[c].by \in Sockets /\ pc[arg[c].by] # "off"
        /\ arg[c].kind \in {"remove", "leave", "promote"}
        /\ arg[c].kind = "remove" => RemoveInv(c, u)
        /\ arg[c].kind = "leave" => LeaveInv(c, u)
        /\ arg[c].kind = "promote" => PromoteInv(c, u)
    BY <1>1, CommandFacts
  <1>3. /\ cpc'[c] = "after" /\ member'[u] = arg[c].role
        /\ \A x \in Users : x # u => member'[x] = member[x]
        /\ \A d \in Commands : d # c => cpc'[d] = cpc[d] /\ arg'[d] = arg[d]
    BY <1>1, <1>2 DEF Goto, TypeOK
  <1>4. /\ arg[c].kind = "remove" => RemoveInv(c, u)'
        /\ arg[c].kind = "promote" => PromoteInv(c, u)'
        /\ arg[c].kind # "leave"
    BY <1>1, <1>2, <1>3 DEF RemoveInv, PromoteInv, LeaveInv, InRoom, OneHome
  <1> HIDE DEF u
  <1>5. QED
    BY <1>1, <1>2, <1>3, <1>4, GoesOn DEF u

LEMMA ConcludeStep ==
  ASSUME Base, \A x \in Users : UserInv(x), NEW c \in Commands, Conclude(c)
  PROVE  KickAlone' /\ \A x \in Users : UserInv(x)'
  <1> DEFINE v == Home[arg[c].by]
  <1> USE DEF Base
  <1>1. /\ cpc[c] = "after" /\ cpc[c] \notin Ended /\ End(c)
        /\ UNCHANGED <<member, active, pc, data, row>>
    BY DEF Conclude, database, entries, connecting, Ended
  <1> PICK u \in Users : u = arg[c].user
    BY <1>1, CommandFacts
  <1>2. /\ arg[c] \in Args /\ arg[c].by \in Sockets
        /\ arg[c].kind \in {"remove", "leave", "promote"}
        /\ arg[c].kind = "remove" => RemoveInv(c, u)
        /\ arg[c].kind = "leave" => LeaveInv(c, u)
        /\ arg[c].kind = "promote" => PromoteInv(c, u)
    BY <1>1, CommandFacts
  <1>3. v \in Servers
    BY <1>2, SocketAssumption
  <1>4. /\ \A t \in SocketsOf(u) : /\ ~Busy(t) /\ bye[t] = "no" /\ pc[t] \in {"off", "in", "end"}
                                   /\ live[t] => InRoom(t) /\ pc[t] = "in"
        /\ \A s, t \in SocketsOf(u) : live[s] /\ live[t] => s = t
        /\ \A d \in Commands : d # c => arg[d].user # u
        /\ \A m \in Sent : m.user # u
    BY <1>2, CommandAlone
  <1>5. /\ arg'[c].user = None
        /\ \A d \in Commands : d # c => cpc'[d] = cpc[d] /\ arg'[d] = arg[d]
    BY <1>1 DEF End, NoArg, TypeOK
  <1>6. \A d \in Commands : arg'[d].user # u
    BY <1>2, <1>4, <1>5, NoneAssumption
  <1>7. CASE arg[c].kind = "promote"
    <2> DEFINE m == [kind |-> "promoted", user |-> u, role |-> arg[c].role, socket |-> None]
    <2>1. Publish(v, m) /\ UNCHANGED <<live, bye>>
      BY <1>1, <1>7 DEF Conclude, Broadcast
    <2>2. m \in Messages /\ m.user = u /\ m.kind = "promoted"
      BY <1>2 DEF Messages, Args
    <2> HIDE DEF m
    <2>3. \A x \in Sent : x.user # m.user
      BY <1>4, <2>2
    <2>4. KickAlone' /\ \A x \in Messages : x # m => (x \in Sent' <=> x \in Sent)
      BY <1>3, <2>1, <2>2, <2>3, SentPublish
    <2>5. CommandMoves(c, u)
      BY <1>1, <1>5, <2>1, <2>2, <2>4 DEF CommandMoves
    <2>6. Agree(u)'
      <3>1. /\ arg[c].socket \in SocketsOf(u) /\ InRoom(arg[c].socket) /\ arg[c].role # None
            /\ active[u] = arg[c].role /\ member[u] = arg[c].role
            /\ OneHome(arg[c].socket) => data[arg[c].socket] = arg[c].role
        BY <1>1, <1>2, <1>7 DEF PromoteInv
      <3>2. \A t \in SocketsOf(u) : InRoom(t) => t = arg[c].socket
        BY <1>4, <3>1 DEF InRoom
      <3>3. QED
        BY <1>1, <2>1, <3>1, <3>2 DEF Agree, There, InRoom, OneHome
    <2>7. SocketInv(u)' /\ \A t \in SocketsOf(u) : ~Busy(t)' /\ pc[t] \notin Connecting
      BY <1>1, <1>2, <1>4, <2>1 DEF UserInv, SocketInv, Busy
    <2>8. \A x \in Sent' : x.user = u => x = m
      BY <1>4, <2>4 DEF Sent
    <2>9. UserInv(u)'
      BY <1>1, <1>4, <1>6, <2>1, <2>2, <2>6, <2>7, <2>8
         DEF UserInv, Alone, EntryInv, CommandInv, Connecting
    <2>10. QED
      BY <1>2, <2>4, <2>5, <2>9, CommandStep
  <1>8. CASE arg[c].kind = "leave"
    <2> DEFINE s == arg[c].by
    <2>1. Close(s) /\ UNCHANGED channel
      BY <1>1, <1>8 DEF Conclude
    <2>2. s \in SocketsOf(u) /\ s \in Sockets /\ OwnerOf[s] = u /\ live[s] /\ data[s] # None /\ pc[s] = "in"
      BY <1>2, <1>4, <1>8 DEF LeaveInv, InRoom, SocketsOf
    <2>3. Sent' = Sent /\ KickAlone'
      BY <2>1, SentSame
    <2>4. /\ ~live'[s] /\ bye'[s] = "del"
          /\ \A t \in Sockets : t # s => live'[t] = live[t] /\ bye'[t] = bye[t]
      BY <2>1, <2>2 DEF Close, TypeOK
    <2>5. CommandMoves(c, u)
      BY <1>1, <1>5, <2>2, <2>3, <2>4 DEF CommandMoves
    <2>6. \A t \in SocketsOf(u) : ~live'[t] /\ (t # s => bye'[t] = "no")
      BY <1>4, <2>2, <2>4 DEF SocketsOf
    <2> HIDE DEF s
    <2>7. SocketInv(u)'
      BY <1>1, <1>2, <1>4, <2>2, <2>4, <2>6 DEF UserInv, SocketInv, Connecting
    <2>8. \A t \in SocketsOf(u) : Busy(t)' <=> t = s
      BY <1>1, <1>4, <2>4, <2>6 DEF Busy
    <2>9. UserInv(u)'
      BY <1>1, <1>2, <1>4, <1>6, <2>2, <2>3, <2>4, <2>6, <2>7, <2>8, SocketsOnly
    <2>10. QED
      BY <1>2, <2>3, <2>5, <2>9, CommandStep
  <1>9. CASE arg[c].kind = "remove"
    <2>1. /\ active[u] = None /\ member[u] = None
          /\ arg[c].socket \in SocketsOf(u) \cup {None}
          /\ \A t \in SocketsOf(u) : live[t] => t = arg[c].socket
      BY <1>1, <1>2, <1>9 DEF RemoveInv
    <2>2. CASE arg[c].socket # None
      <3>1. Disconnect(v, arg[c].socket) /\ arg[c].socket \in SocketsOf(u)
        BY <1>9, <2>1, <2>2 DEF Conclude
      <3> HIDE DEF v
      <3>2. QED
        BY <1>1, <1>2, <1>3, <2>1, <3>1, EndsWithKick
    <2>3. CASE arg[c].socket = None
      <3>1. UNCHANGED <<live, bye, channel>>
        BY <1>9, <2>3 DEF Conclude
      <3>2. Agree(u)
        BY <2>1, <2>3, NoneAssumption DEF Agree, There, InRoom, SocketsOf
      <3>3. QED
        BY <1>1, <1>2, <3>1, <3>2, EndsQuietly
    <2>4. QED
      BY <2>2, <2>3
  <1>10. QED
    BY <1>2, <1>7, <1>8, <1>9

-----------------------------------------------------------------------------
(* What other servers published arrives.                                   *)

LEMMA ReceiveStep ==
  ASSUME Base, \A x \in Users : UserInv(x), NEW v \in Servers, Receive(v)
  PROVE  KickAlone' /\ \A x \in Users : UserInv(x)'
  <1> USE DEF Base
  <1>1. /\ channel[v] # <<>> /\ channel' = [channel EXCEPT ![v] = Tail(@)]
        /\ UNCHANGED <<member, active, pc, data, row, cpc, arg>>
        /\ IF Head(channel[v]).kind = "kick" THEN Close(Head(channel[v]).socket)
                                             ELSE UNCHANGED <<live, bye>>
    BY DEF Receive, database, entries, connecting, commands
  <1>2. PICK m \in Sent : m = Head(channel[v])
    BY <1>1, SentReceive
  <1>3. /\ \A x \in Messages : x # m => (x \in Sent' <=> x \in Sent)
        /\ Sent' \subseteq Sent /\ KickAlone'
        /\ m.kind = "kick" => \A x \in Sent' : x.user # m.user
    BY <1>1, <1>2, SentReceive
  <1>4. PICK u \in Users : u = m.user
    BY DEF Sent, Messages
  <1>5. UserInv(u) /\ (\A t \in SocketsOf(u) : ~Busy(t)) /\ \A c \in Commands : arg[c].user # u
    BY <1>4 DEF UserInv, Alone
  <1>6. \A t \in SocketsOf(u) : bye[t] = "no" /\ (live[t] => pc[t] = "in" /\ data[t] # None)
    BY <1>5 DEF UserInv, SocketInv, Busy, Connecting, TypeOK, SocketsOf
  <1>7. CASE m.kind # "kick"
    <2>1. UNCHANGED <<live, bye>>
      BY <1>1, <1>2, <1>7
    <2>2. Opened
      BY <1>1 DEF Opened
    <2>3. ASSUME NEW x \in Users, x # u PROVE UserInv(x)'
      <3>1. Same(x)
        BY <1>1, <1>3, <1>4, <2>1, <2>3 DEF Same
      <3>2. QED
        BY <2>2, <3>1, SameUser
    <2>4. SocketInv(u)' /\ \A t \in SocketsOf(u) : ~Busy(t)'
      BY <1>1, <1>5, <2>1 DEF UserInv, SocketInv, Busy
    <2>5. Settled(u)' => Settled(u)
      BY <1>3, <1>5, <1>7 DEF Settled, Sent
    <2>6. Agree(u) => Agree(u)'
      BY <1>1, <2>1 DEF Agree, There, InRoom, OneHome
    <2>7. Alone(u)'
      BY <1>1, <1>5, <2>4 DEF Alone
    <2>8. EntryInv(u)'
      BY <1>1, <1>3, <1>5, <2>1, <2>4, <2>5, <2>6 DEF UserInv, EntryInv
    <2>9. UserInv(u)'
      BY <1>1, <1>5, <2>4, <2>7, <2>8 DEF UserInv, CommandInv
    <2>10. QED
      BY <1>3, <2>3, <2>9
  <1>8. CASE m.kind = "kick"
    <2>1. PICK s \in SocketsOf(u) : s = m.socket
      BY <1>4, <1>5, <1>8 DEF UserInv, EntryInv
    <2>2. /\ active[u] = None /\ member[u] = None
          /\ \A t \in SocketsOf(u) : live[t] => t = s
      BY <1>4, <1>5, <1>8, <2>1 DEF UserInv, EntryInv
    <2>3. s \in Sockets /\ OwnerOf[s] = u /\ Close(s)
      BY <1>1, <1>2, <1>8, <2>1 DEF SocketsOf
    <2>4. /\ ~live'[s] /\ \A t \in Sockets : t # s => live'[t] = live[t] /\ bye'[t] = bye[t]
          /\ bye'[s] = IF live[s] THEN "del" ELSE "no"
      BY <1>6, <2>1, <2>3 DEF Close, TypeOK
    <2>5. \A t \in SocketsOf(u) : ~live'[t] /\ (t # s => bye'[t] = "no")
      BY <1>6, <2>2, <2>4 DEF SocketsOf
    <2>6. SocketInv(u)'
      BY <1>1, <1>5, <1>6, <2>4, <2>5 DEF UserInv, SocketInv, Connecting
    <2>7. \A t \in SocketsOf(u) : Busy(t)' => t = s
      BY <1>1, <1>5, <2>5 DEF Busy
    <2>8. Agree(u)'
      BY <1>1, <2>2, <2>5 DEF Agree, There, InRoom
    <2>9. \A t \in SocketsOf(u) : pc'[t] \notin Connecting
      BY <1>1, <1>5 DEF Busy
    <2>10. UserInv(u)'
      BY <1>1, <1>3, <1>4, <1>5, <1>8, <2>2, <2>4, <2>5, <2>6, <2>7, <2>8, <2>9, SocketsOnly
         DEF Connecting
    <2>11. Opened
      BY <1>1 DEF Opened
    <2>12. ASSUME NEW x \in Users, x # u PROVE UserInv(x)'
      <3>1. Same(x)
        BY <1>1, <1>3, <1>4, <2>3, <2>4, <2>12 DEF Same, SocketsOf
      <3>2. QED
        BY <2>11, <3>1, SameUser
    <2>13. QED
      BY <1>3, <2>10, <2>12
  <1>9. QED
    BY <1>7, <1>8

-----------------------------------------------------------------------------
(* The invariant.                                                          *)

MembersInv == Base /\ \A u \in Users : UserInv(u)

LEMMA MembersInit == Init => MembersInv
  <1> SUFFICES ASSUME Init PROVE MembersInv
    OBVIOUS
  <1>1. TypeOK /\ ArgInv
    BY InitType
  <1>2. \A v \in Servers : Len(channel[v]) = 0
    BY DEF Init
  <1>3. KickAlone /\ Sent = {}
    BY <1>2 DEF KickAlone, Sent
  <1>4. ASSUME NEW u \in Users PROVE UserInv(u)
    <2>1. \A s \in SocketsOf(u) : /\ ~Busy(s) /\ ~live[s] /\ data[s] = None
                                  /\ pc[s] = "off" /\ bye[s] = "no"
      BY DEF Init, SocketsOf, Busy, Connecting
    <2>2. \A c \in Commands : arg[c].user # u
      BY NoneAssumption DEF Init, NoArg
    <2>3. SocketInv(u)
      BY <2>1 DEF SocketInv, Connecting
    <2>4. Agree(u)
      BY <2>1 DEF Init, Nobody, Agree, There, InRoom
    <2>5. QED
      BY <1>3, <2>1, <2>2, <2>3, <2>4 DEF UserInv, Alone, EntryInv, CommandInv
  <1>5. QED
    BY <1>1, <1>3, <1>4 DEF MembersInv, Base

LEMMA MembersStep ==
  ASSUME Unhurried, OneTab, MaxFaults = 0, MembersInv, [Next]_vars
  PROVE  MembersInv'
  <1> SUFFICES KickAlone' /\ \A u \in Users : UserInv(u)'
    BY TypeStep DEF MembersInv, Base
  <1>0. Base /\ \A u \in Users : UserInv(u)
    BY DEF MembersInv
  <1>1. ASSUME NEW s \in Sockets, Connect(s) \/ Leave(s)
        PROVE  KickAlone' /\ \A u \in Users : UserInv(u)'
    BY <1>0, <1>1, ConnectStep, LeaveStep
  <1>2. ASSUME NEW s \in Sockets, HandleConnection(s)
        PROVE  KickAlone' /\ \A u \in Users : UserInv(u)'
    BY <1>0, <1>2, CheckStep, ReadActiveStep, JoinRoomStep, AddToActiveStep, AnnounceStep
       DEF HandleConnection
  <1>3. ASSUME NEW s \in Sockets, HandleDisconnect(s)
        PROVE  KickAlone' /\ \A u \in Users : UserInv(u)'
    BY <1>0, <1>3, RemoveFromActiveStep, TellDisconnectedStep DEF HandleDisconnect
  <1>4. ASSUME NEW c \in Commands, Issue(c) \/ HandleCommand(c)
        PROVE  KickAlone' /\ \A u \in Users : UserInv(u)'
    BY <1>0, <1>4, IssueStep, FetchStep, FindStep, WriteStep, UnlistStep, ReadEntryStep,
       WriteEntryStep, CommitStep, ConcludeStep DEF HandleCommand
  <1>5. ASSUME NEW v \in Servers, Receive(v) PROVE KickAlone' /\ \A u \in Users : UserInv(u)'
    BY <1>0, <1>5, ReceiveStep
  <1>6. ASSUME NEW v \in Servers, Crash(v) PROVE FALSE
    BY <1>0, <1>6, NoFailure DEF Crash, Base
  <1>7. CASE UNCHANGED vars
    <2>1. Sent' = Sent /\ KickAlone'
      BY <1>0, <1>7, SentSame DEF vars, Base
    <2>2. Opened
      BY <1>7 DEF Opened, vars
    <2>3. \A u \in Users : Same(u)
      BY <1>7, <2>1 DEF Same, vars
    <2>4. QED
      BY <1>0, <2>1, <2>2, <2>3, SameUser DEF Base
  <1>8. QED
    BY <1>1, <1>2, <1>3, <1>4, <1>5, <1>6, <1>7 DEF Next

LEMMA AllAgree ==
  ASSUME MembersInv, NEW u \in Users, Undisturbed(u)
  PROVE  Agree(u)
  BY Quiet DEF MembersInv, Base

LEMMA MembersAlways ==
  ASSUME Unhurried, OneTab, MaxFaults = 0
  PROVE  Spec => []MembersInv
  <1>1. Init => MembersInv
    BY MembersInit
  <1>2. MembersInv /\ [Next]_vars => MembersInv'
    BY MembersStep
  <1>3. QED
    BY <1>1, <1>2, PTL DEF Spec

\* When a user connects, leaves, is removed and is promoted one after the other, from
\* one tab and without a failure, the list of currently active users is exactly who
\* has a socket in the room, on whichever servers the sockets are
\* (rooms-gateway.service.ts 1126-1185 and the calls of them).
THEOREM PresenceStaysExact ==
  ASSUME Unhurried, OneTab, MaxFaults = 0
  PROVE  Spec => []PresenceIsExact
  <1>1. MembersInv => PresenceIsExact
    BY AllAgree DEF PresenceIsExact, Agree
  <1>2. QED
    BY <1>1, MembersAlways, PTL

\* Under the same conditions nobody is in the room without a row in RoomMember: who
\* leaves or is removed is disconnected, by another server too.
THEOREM NobodyStaysWithoutARow ==
  ASSUME Unhurried, OneTab, MaxFaults = 0
  PROVE  Spec => []OnlyMembersAreThere
  <1>1. MembersInv => OnlyMembersAreThere
    BY AllAgree DEF OnlyMembersAreThere, Agree
  <1>2. QED
    BY <1>1, MembersAlways, PTL

\* The list of currently active users gives the role of the database after promotions.
THEOREM ListedRoleStaysCurrent ==
  ASSUME Unhurried, OneTab, MaxFaults = 0
  PROVE  Spec => []ListedRoleIsCurrent
  <1>1. MembersInv => ListedRoleIsCurrent
    BY AllAgree DEF ListedRoleIsCurrent, Agree
  <1>2. QED
    BY <1>1, MembersAlways, PTL

\* The role that RoomRoleGuard reads from client.data is the role of the database, as
\* long as one server has had all sockets: a promotion does not reach the client.data
\* of another one.
THEOREM GuardedRoleStaysCurrent ==
  ASSUME Unhurried, OneTab, MaxFaults = 0
  PROVE  Spec => []GuardedRoleIsCurrent
  <1>1. MembersInv => GuardedRoleIsCurrent
    <2> SUFFICES ASSUME MembersInv, NEW s \in Sockets, InRoom(s), Undisturbed(OwnerOf[s]),
                        OneHome(s)
                 PROVE  data[s] = member[OwnerOf[s]]
      BY DEF GuardedRoleIsCurrent, OneHome
    <2>1. OwnerOf[s] \in Users /\ s \in SocketsOf(OwnerOf[s])
      BY SocketAssumption DEF SocketsOf
    <2>2. QED
      BY <2>1, AllAgree DEF Agree
  <1>2. QED
    BY <1>1, MembersAlways, PTL

-----------------------------------------------------------------------------
(* The pages. Everything that changes the entry of a user ends with the    *)
(* news of it, and until then it is known what is still owed to a page.    *)

\* What another server has published and v has not received.
SentTo(v) == {m \in Messages : \E i \in 1..Len(channel[v]) : channel[v][i] = m}

\* What a socket has read of an entry is the entry, or the user is blurred.
ListInv ==
  \A s \in Sockets, u \in Users :
    pc[s] \in {"join", "add", "tell"} /\ u \notin blurred[s] => list[s][u] = active[u]

\* News on its way is true.
NewsInv(u) ==
  \A m \in Sent : m.user = u =>
    /\ m.kind \in {"joined", "promoted"} => m.role = active[u]
    /\ m.kind = "promoted" => active[u] # None
    /\ m.kind = "left" => active[u] = None

\* PagesShowTheOthers is about the entry of u on the page of s.
Views(s, u) == InRoom(s) /\ pc[s] = "in" /\ u # OwnerOf[s] /\ u \notin blurred[s]

Telling(s) == pc[s] = "tell" \/ bye[s] # "no"
Written(c, u) == arg[c].user = u /\ cpc[c] \in {"commit", "after"}

\* The page of s is still to be told about u.
Owed(s, u) ==
  \/ \E t \in SocketsOf(u) : Telling(t)
  \/ \E c \in Commands : Written(c, u)
  \/ \E m \in Sent : m.user = u /\ m.kind = "kick"
  \/ \E m \in SentTo(Home[s]) : m.user = u /\ m.kind # "kick"

\* A promotion is of a user on the page; who is taken off the list is not on it, or has
\* a socket whose disconnection will be told.
PageInv(s, u) ==
  Views(s, u) =>
    /\ page[s][u] = active[u] \/ Owed(s, u)
    /\ \A c \in Commands : Written(c, u) /\ arg[c].kind = "promote" => page[s][u] # None
    /\ \A c \in Commands : Written(c, u) /\ arg[c].kind = "remove" =>
         page[s][u] = None \/ \E t \in SocketsOf(u) : t = arg[c].socket /\ InRoom(t)
    /\ \A m \in Sent : m.user = u /\ m.kind = "promoted" => page[s][u] # None
    /\ \A m \in Sent : m.user = u /\ m.kind = "kick" =>
         page[s][u] = None \/ \E t \in SocketsOf(u) : t = m.socket /\ InRoom(t)

PagesInv == \A u \in Users : NewsInv(u) /\ \A s \in Sockets : PageInv(s, u)

\* Whatever fails.
LEMMA ListKept ==
  ASSUME TypeOK, TypeOK', ListInv,
         UNCHANGED <<active, blurred>> \/ \E S : Relist(S),
         \A s \in Sockets : pc'[s] \in {"join", "add", "tell"} =>
           pc[s] \in {"join", "add", "tell"} /\ list'[s] = list[s]
  PROVE  ListInv'
  <1>1. CASE UNCHANGED <<active, blurred>>
    BY <1>1 DEF ListInv
  <1>2. CASE \E S : Relist(S)
    <2>1. \A s \in Sockets : pc[s] \in {"join", "add", "tell"} =>
            blurred'[s] = blurred[s] \cup {u \in Users : active'[u] # active[u]}
      BY <1>2 DEF Relist
    <2>2. QED
      BY <2>1 DEF ListInv
  <1>3. QED
    BY <1>1, <1>2

LEMMA ListStep == TypeOK /\ TypeOK' /\ ListInv /\ [Next]_vars => ListInv'
  <1> SUFFICES ASSUME TypeOK, TypeOK', ListInv, [Next]_vars PROVE ListInv'
    OBVIOUS
  <1> USE DEF database, connecting, sockets, commands, entries
  <1>1. ASSUME UNCHANGED <<active, blurred, pc, list>> PROVE ListInv'
    BY <1>1, ListKept
  <1>2. ASSUME NEW s \in Sockets, Connect(s) \/ Leave(s) \/ CheckMember(s) \/ JoinRoom(s)
                                  \/ Announce(s) \/ TellDisconnected(s)
        PROVE  ListInv'
    <2>1. UNCHANGED <<active, blurred>>
      BY <1>2 DEF Connect, Leave, CheckMember, JoinRoom, Announce, TellDisconnected
    <2>2. \A t \in Sockets : pc'[t] \in {"join", "add", "tell"} =>
            pc[t] \in {"join", "add", "tell"} /\ list'[t] = list[t]
      BY <1>2 DEF Connect, Leave, CheckMember, JoinRoom, Announce, TellDisconnected, GiveUp, TypeOK
    <2>3. QED
      BY <2>1, <2>2, ListKept
  <1>3. ASSUME NEW s \in Sockets, ReadActive(s) PROVE ListInv'
    <2>1. /\ UNCHANGED <<active, blurred>>
          /\ \A t \in Sockets : t # s => pc'[t] = pc[t] /\ list'[t] = list[t]
          /\ pc'[s] \in {"join", "add", "tell"} => list'[s] = active
      BY <1>3 DEF ReadActive, GiveUp, TypeOK
    <2>2. QED
      BY <2>1 DEF ListInv
  <1>4. ASSUME NEW s \in Sockets, AddToActive(s) \/ RemoveFromActive(s) PROVE ListInv'
    <2>1. \E S : Relist(S)
      BY <1>4 DEF AddToActive, RemoveFromActive
    <2>2. \A t \in Sockets : pc'[t] \in {"join", "add", "tell"} =>
            pc[t] \in {"join", "add", "tell"} /\ list'[t] = list[t]
      BY <1>4 DEF AddToActive, RemoveFromActive, GiveUp, TypeOK
    <2>3. QED
      BY <2>1, <2>2, ListKept
  <1>5. ASSUME NEW c \in Commands, Unlist(c) \/ WriteEntry(c) PROVE ListInv'
    <2>1. \E S : Relist(S)
      BY <1>5 DEF Unlist, WriteEntry
    <2>2. UNCHANGED <<pc, list>>
      BY <1>5 DEF Unlist, WriteEntry
    <2>3. QED
      BY <2>1, <2>2, ListKept
  <1>6. ASSUME NEW c \in Commands, Issue(c) \/ FetchSocket(c) \/ FindRow(c) \/ WriteRow(c)
                                   \/ ReadEntry(c) \/ Commit(c) \/ Conclude(c)
        PROVE  ListInv'
    BY <1>1, <1>6 DEF Issue, FetchSocket, FindRow, WriteRow, ReadEntry, Commit, Conclude
  <1>7. ASSUME NEW v \in Servers, Receive(v) PROVE ListInv'
    BY <1>1, <1>7 DEF Receive
  <1>8. ASSUME NEW v \in Servers, Crash(v) PROVE ListInv'
    <2>1. UNCHANGED <<active, blurred, list>>
      BY <1>8 DEF Crash
    <2>2. \A t \in Sockets : pc'[t] = "end" \/ pc'[t] = pc[t]
      BY <1>8 DEF Crash
    <2>3. QED
      BY <2>1, <2>2, ListKept
  <1>9. CASE UNCHANGED vars
    BY <1>1, <1>9 DEF vars
  <1>10. QED
    BY <1>2, <1>3, <1>4, <1>5, <1>6, <1>7, <1>8, <1>9
       DEF Next, HandleConnection, HandleDisconnect, HandleCommand

-----------------------------------------------------------------------------
(* Channels, one by one.                                                   *)

LEMMA SentSplit ==
  ASSUME NEW m PROVE m \in Sent <=> \E v \in Servers : m \in SentTo(v)
  BY DEF Sent, SentTo

LEMMA ToSame == UNCHANGED channel => Sent' = Sent /\ \A v : SentTo(v)' = SentTo(v)
  BY DEF Sent, SentTo

LEMMA ToPublish ==
  ASSUME TypeOK, NEW v \in Servers, NEW m \in Messages, Publish(v, m)
  PROVE  /\ SentTo(v)' = SentTo(v)
         /\ \A w \in Servers : w # v => SentTo(w)' = SentTo(w) \cup {m}
  <1>1. SentTo(v)' = SentTo(v)
    BY DEF SentTo, Publish
  <1>2. ASSUME NEW w \in Servers, w # v PROVE SentTo(w)' = SentTo(w) \cup {m}
    <2>1. /\ Len(channel[w]) \in Nat /\ Len(channel'[w]) = Len(channel[w]) + 1
          /\ channel'[w][Len(channel[w]) + 1] = m
          /\ \A i \in 1..Len(channel[w]) : channel'[w][i] = channel[w][i]
      BY <1>2 DEF Publish, TypeOK
    <2>2. \A i \in 1..Len(channel'[w]) : i \in 1..Len(channel[w]) \/ i = Len(channel[w]) + 1
      BY <2>1
    <2>3. \A i \in 1..Len(channel[w]) : i \in 1..Len(channel'[w])
      BY <2>1
    <2>4. Len(channel[w]) + 1 \in 1..Len(channel'[w])
      BY <2>1
    <2>5. SentTo(w)' \subseteq SentTo(w) \cup {m}
      BY <2>1, <2>2 DEF SentTo
    <2>6. SentTo(w) \cup {m} \subseteq SentTo(w)'
      BY <2>1, <2>3, <2>4 DEF SentTo
    <2>7. QED
      BY <2>5, <2>6
  <1>3. QED
    BY <1>1, <1>2

LEMMA ToKick ==
  ASSUME TypeOK, NEW v \in Servers, NEW m \in Messages,
         channel' = [channel EXCEPT ![v] = Append(@, m)]
  PROVE  /\ SentTo(v)' = SentTo(v) \cup {m}
         /\ \A w \in Servers : w # v => SentTo(w)' = SentTo(w)
  <1>1. ASSUME NEW w \in Servers, w # v PROVE SentTo(w)' = SentTo(w)
    <2>1. channel'[w] = channel[w]
      BY <1>1 DEF TypeOK
    <2>2. QED
      BY <2>1 DEF SentTo
  <1>2. /\ Len(channel[v]) \in Nat /\ Len(channel'[v]) = Len(channel[v]) + 1
        /\ channel'[v][Len(channel[v]) + 1] = m
        /\ \A i \in 1..Len(channel[v]) : channel'[v][i] = channel[v][i]
    BY DEF TypeOK
  <1>3. \A i \in 1..Len(channel'[v]) : i \in 1..Len(channel[v]) \/ i = Len(channel[v]) + 1
    BY <1>2
  <1>4. /\ \A i \in 1..Len(channel[v]) : i \in 1..Len(channel'[v])
        /\ Len(channel[v]) + 1 \in 1..Len(channel'[v])
    BY <1>2
  <1>5. SentTo(v)' \subseteq SentTo(v) \cup {m}
    BY <1>2, <1>3 DEF SentTo
  <1>6. SentTo(v) \cup {m} \subseteq SentTo(v)'
    BY <1>2, <1>4 DEF SentTo
  <1>7. QED
    BY <1>1, <1>5, <1>6

LEMMA ToReceive ==
  ASSUME TypeOK, NEW v \in Servers, channel[v] # <<>>,
         channel' = [channel EXCEPT ![v] = Tail(@)]
  PROVE  /\ SentTo(v)' \subseteq SentTo(v)
         /\ SentTo(v) \subseteq SentTo(v)' \cup {Head(channel[v])}
         /\ \A w \in Servers : w # v => SentTo(w)' = SentTo(w)
  <1> DEFINE n == Len(channel[v])
  <1>1. ASSUME NEW w \in Servers, w # v PROVE SentTo(w)' = SentTo(w)
    <2>1. channel'[w] = channel[w]
      BY <1>1 DEF TypeOK
    <2>2. QED
      BY <2>1 DEF SentTo
  <1>2. /\ n \in Nat \ {0} /\ Head(channel[v]) = channel[v][1]
        /\ Len(channel'[v]) = n - 1 /\ \A i \in 1..(n - 1) : channel'[v][i] = channel[v][i + 1]
    BY DEF TypeOK
  <1>3. \A i \in 1..Len(channel'[v]) : i + 1 \in 1..n /\ channel'[v][i] = channel[v][i + 1]
    BY <1>2
  <1>4. ASSUME NEW i \in 1..n, i # 1
        PROVE  i - 1 \in 1..Len(channel'[v]) /\ channel'[v][i - 1] = channel[v][i]
    BY <1>2, <1>4
  <1>5. SentTo(v)' \subseteq SentTo(v)
    BY <1>3 DEF SentTo
  <1>6. SentTo(v) \subseteq SentTo(v)' \cup {Head(channel[v])}
    BY <1>2, <1>4 DEF SentTo
  <1>7. QED
    BY <1>1, <1>5, <1>6

-----------------------------------------------------------------------------
(* A message changes the entry of its user on a page.                      *)

LEMMA ShownElse ==
  ASSUME TypeOK, NEW v, NEW m \in Messages, NEW except, NEW s \in Sockets,
         NEW u \in Users, u # m.user
  PROVE  Received(v, m, except)[s][u] = page[s][u]
  BY DEF Received, Shown, TypeOK

LEMMA ShownHere ==
  ASSUME TypeOK, NEW v, NEW m \in Messages, NEW except, NEW s \in Sockets,
         Home[s] = v, InRoom(s), s # except, m.user # OwnerOf[s]
  PROVE  /\ m.kind = "joined" => Received(v, m, except)[s][m.user] = m.role
         /\ m.kind = "left" => Received(v, m, except)[s][m.user] = None
         /\ m.kind = "promoted" /\ page[s][m.user] # None =>
              Received(v, m, except)[s][m.user] = m.role
  <1>1. m.user \in Users /\ page[s] \in [Users -> RoleOrNone]
    BY DEF TypeOK, Messages
  <1>2. QED
    BY <1>1 DEF Received, Shown

LEMMA ShownAway ==
  ASSUME NEW v, NEW m, NEW except, NEW s \in Sockets, Home[s] # v \/ s = except
  PROVE  Received(v, m, except)[s] = page[s]
  BY DEF Received

\* The step is not about user u.
Bystander(u) ==
  /\ active'[u] = active[u]
  /\ \A t \in SocketsOf(u) : pc'[t] = pc[t] /\ bye'[t] = bye[t] /\ (InRoom(t)' <=> InRoom(t))
  /\ \A c \in Commands : arg[c].user = u \/ arg'[c].user = u =>
                           arg'[c] = arg[c] /\ cpc'[c] = cpc[c]
  /\ \A v \in Servers, m \in Messages : m.user = u => (m \in SentTo(v)' <=> m \in SentTo(v))

LEMMA BystanderSent ==
  ASSUME NEW u, Bystander(u), NEW m \in Messages, m.user = u
  PROVE  m \in Sent' <=> m \in Sent
  <1>1. m \in Sent' <=> \E v \in Servers : m \in SentTo(v)'
    BY DEF Sent, SentTo
  <1>2. QED
    BY <1>1, SentSplit DEF Bystander

LEMMA BystanderNews ==
  ASSUME NEW u \in Users, NewsInv(u), Bystander(u)
  PROVE  NewsInv(u)'
  <1>1. Sent' \subseteq Messages
    BY DEF Sent
  <1>2. QED
    BY <1>1, BystanderSent DEF NewsInv, Bystander

LEMMA BystanderPage ==
  ASSUME NEW u \in Users, NEW s \in Sockets, PageInv(s, u), Bystander(u),
         Views(s, u)' => Views(s, u) /\ page'[s][u] = page[s][u]
  PROVE  PageInv(s, u)'
  <1>1. Sent' \subseteq Messages /\ Sent \subseteq Messages /\ SentTo(Home[s]) \subseteq Messages
    BY DEF Sent, SentTo
  <1>2. Home[s] \in Servers
    BY SocketAssumption
  <1>3. \A c \in Commands : Written(c, u)' <=> Written(c, u)
    BY DEF Written, Bystander
  <1>4. \A t \in SocketsOf(u) : Telling(t)' <=> Telling(t)
    BY DEF Telling, Bystander
  <1>5. Owed(s, u) => Owed(s, u)'
    <2>1. CASE \E m \in SentTo(Home[s]) : m.user = u /\ m.kind # "kick"
      BY <1>1, <1>2, <2>1 DEF Owed, Bystander
    <2>2. CASE \E m \in Sent : m.user = u /\ m.kind = "kick"
      BY <1>1, <2>2, BystanderSent DEF Owed
    <2>3. QED
      BY <1>3, <1>4, <2>1, <2>2 DEF Owed
  <1>6. \A c \in Commands : Written(c, u) => arg'[c] = arg[c]
    BY DEF Written, Bystander
  <1>7. \A m \in Sent' : m.user = u => m \in Sent
    BY <1>1, BystanderSent
  <1>8. \A t \in SocketsOf(u) : InRoom(t)' <=> InRoom(t)
    BY DEF Bystander
  <1> SUFFICES ASSUME Views(s, u)' 
               PROVE  /\ page'[s][u] = active'[u] \/ Owed(s, u)'
                      /\ \A c \in Commands :
                           Written(c, u)' /\ arg'[c].kind = "promote" => page'[s][u] # None
                      /\ \A c \in Commands : Written(c, u)' /\ arg'[c].kind = "remove" =>
                           \/ page'[s][u] = None
                           \/ \E t \in SocketsOf(u) : t = arg'[c].socket /\ InRoom(t)'
                      /\ \A m \in Sent' : m.user = u /\ m.kind = "promoted" => page'[s][u] # None
                      /\ \A m \in Sent' : m.user = u /\ m.kind = "kick" =>
                           page'[s][u] = None \/ \E t \in SocketsOf(u) : t = m.socket /\ InRoom(t)'
    BY DEF PageInv
  <1>9. QED
    BY <1>3, <1>5, <1>6, <1>7, <1>8 DEF PageInv, Bystander

-----------------------------------------------------------------------------
(* Steps of a socket, and the pages.                                       *)

\* A step of socket s that sends nothing and changes no page.
SilentStep(s) ==
  /\ UNCHANGED <<page, channel, cpc, arg>>
  /\ \A x \in Users : x # OwnerOf[s] => active'[x] = active[x]
  /\ \A t \in Sockets : blurred[t] \subseteq blurred'[t]
  /\ \A t \in Sockets : t # s => /\ pc'[t] = pc[t] /\ bye'[t] = bye[t]
                                 /\ (InRoom(t)' <=> InRoom(t))
  /\ InRoom(s)' /\ pc'[s] = "in" => InRoom(s) /\ pc[s] = "in"
  /\ Telling(s)' \/ (~Telling(s) /\ active' = active)

LEMMA SilentPages ==
  ASSUME TypeOK, PagesInv, NEW s \in Sockets, SilentStep(s),
         \A c \in Commands : arg[c].user # OwnerOf[s],
         \A m \in Sent : m.user # OwnerOf[s]
  PROVE  PagesInv'
  <1> DEFINE u == OwnerOf[s]
  <1> USE DEF SilentStep
  <1>1. Sent' = Sent /\ \A v \in Servers : SentTo(v)' = SentTo(v)
    BY ToSame
  <1>2. \A t \in Sockets, x \in Users : Views(t, x)' => Views(t, x) /\ page'[t][x] = page[t][x]
    BY DEF Views
  <1>3. ASSUME NEW x \in Users, x # u PROVE NewsInv(x)' /\ \A t \in Sockets : PageInv(t, x)'
    <2>1. Bystander(x)
      BY <1>1, <1>3 DEF Bystander, SocketsOf
    <2>2. QED
      BY <1>2, <2>1, BystanderNews, BystanderPage DEF PagesInv
  <1>4. NewsInv(u)'
    BY <1>1 DEF NewsInv
  <1>5. ASSUME NEW t \in Sockets PROVE PageInv(t, u)'
    <2>1. u \in Users /\ s \in SocketsOf(u)
      BY SocketAssumption DEF SocketsOf
    <2>2. \A c \in Commands : ~Written(c, u)' /\ ~Written(c, u)
      BY DEF Written
    <2>3. CASE Telling(s)'
      BY <1>1, <2>1, <2>2, <2>3 DEF PageInv, Owed
    <2>4. CASE ~Telling(s) /\ active' = active
      <3>1. \A r \in SocketsOf(u) : Telling(r) => Telling(r)'
        BY <2>4 DEF Telling, SocketsOf
      <3>2. SentTo(Home[t])' = SentTo(Home[t])
        BY <1>1, SocketAssumption
      <3>3. Owed(t, u) => Owed(t, u)'
        BY <1>1, <2>2, <3>1, <3>2 DEF Owed
      <3>4. QED
        BY <1>1, <1>2, <2>1, <2>2, <2>4, <3>3 DEF PageInv, PagesInv
    <2>5. QED
      BY <2>3, <2>4
  <1> HIDE DEF u
  <1>6. QED
    BY <1>3, <1>4, <1>5 DEF PagesInv

LEMMA BlurredGrows ==
  ASSUME TypeOK, NEW S, Relist(S), NEW t \in Sockets
  PROVE  blurred[t] \subseteq blurred'[t]
  BY DEF Relist

LEMMA ConnectPages ==
  ASSUME MembersInv, PagesInv, NEW s \in Sockets,
         \/ Unhurried /\ (Connect(s) \/ Leave(s))
         \/ MaxFaults = 0 /\ (CheckMember(s) \/ ReadActive(s) \/ JoinRoom(s))
  PROVE  PagesInv'
  <1> DEFINE u == OwnerOf[s]
  <1> USE DEF database, connecting, sockets, commands, entries
  <1>1. u \in Users /\ s \in SocketsOf(u) /\ UserInv(u) /\ TypeOK
    BY SocketAssumption DEF SocketsOf, MembersInv, Base
  <1>2. (\A c \in Commands : arg[c].user # u) /\ \A m \in Sent : m.user # u
    <2>1. CASE Unhurried /\ (Connect(s) \/ Leave(s))
      BY <1>1, <2>1, Quiet DEF Connect, Leave, MayStart
    <2>2. CASE CheckMember(s) \/ ReadActive(s) \/ JoinRoom(s)
      <3>1. Busy(s)
        BY <2>2 DEF CheckMember, ReadActive, JoinRoom, Busy, Connecting
      <3>2. QED
        BY <1>1, <3>1, BusyAlone
    <2>3. QED
      BY <2>1, <2>2
  <1>3. SilentStep(s)
    <2>1. CASE Unhurried /\ Connect(s)
      <3>1. /\ UNCHANGED <<page, channel, cpc, arg, active, blurred, bye, data>>
            /\ pc[s] = "off" /\ pc'[s] = "check" /\ bye[s] = "no"
        BY <1>1, <2>1, Quiet DEF Connect, MayStart, TypeOK
      <3>2. \A t \in Sockets : t # s => pc'[t] = pc[t] /\ live'[t] = live[t]
        BY <2>1 DEF Connect, TypeOK
      <3>3. QED
        BY <3>1, <3>2 DEF SilentStep, InRoom, Telling
    <2>2. CASE Unhurried /\ Leave(s)
      <3>1. /\ UNCHANGED <<page, channel, cpc, arg, active, blurred, pc, data>>
            /\ Close(s) /\ live[s]
        BY <2>2 DEF Leave
      <3>2. pc[s] \in {"off", "in", "end"}
        BY <1>1, <2>2, Quiet DEF Leave, MayStart
      <3>3. data[s] # None
        BY <1>1, <3>1, <3>2 DEF UserInv, SocketInv
      <3>4. bye'[s] = "del" /\ ~live'[s]
            /\ \A t \in Sockets : t # s => bye'[t] = bye[t] /\ live'[t] = live[t]
        BY <1>1, <3>1, <3>3 DEF Close, TypeOK
      <3>5. QED
        BY <3>1, <3>4 DEF SilentStep, InRoom, Telling
    <2>3. CASE MaxFaults = 0 /\ (CheckMember(s) \/ ReadActive(s) \/ JoinRoom(s))
      <3>1. pc[s] \in {"check", "list", "join"} /\ bye[s] = "no" /\ data[s] = None
        BY <1>1, <2>3 DEF CheckMember, ReadActive, JoinRoom, UserInv, SocketInv, Connecting
      <3>2. UNCHANGED <<page, channel, cpc, arg, active, blurred, bye>>
        BY <2>3, <3>1 DEF CheckMember, ReadActive, JoinRoom, GiveUp, Close
      <3>3. /\ pc'[s] \in {"list", "join", "add", "end"}
            /\ \A t \in Sockets : t # s => /\ pc'[t] = pc[t] /\ live'[t] = live[t]
                                           /\ data'[t] = data[t]
        BY <1>1, <2>3 DEF CheckMember, ReadActive, JoinRoom, GiveUp, Close, TypeOK
      <3>4. QED
        BY <3>1, <3>2, <3>3 DEF SilentStep, InRoom, Telling
    <2>4. QED
      BY <2>1, <2>2, <2>3
  <1>4. QED
    BY <1>1, <1>2, <1>3, SilentPages

LEMMA EntryPages ==
  ASSUME MembersInv, PagesInv, MaxFaults = 0, NEW s \in Sockets,
         AddToActive(s) \/ RemoveFromActive(s)
  PROVE  PagesInv'
  <1> DEFINE u == OwnerOf[s]
  <1> USE DEF database, connecting, sockets, commands, entries
  <1>1. u \in Users /\ s \in SocketsOf(u) /\ UserInv(u) /\ TypeOK
    BY SocketAssumption DEF SocketsOf, MembersInv, Base
  <1>2. Busy(s)
    BY DEF AddToActive, RemoveFromActive, Busy, Connecting
  <1>3. (\A c \in Commands : arg[c].user # u) /\ \A m \in Sent : m.user # u
    BY <1>1, <1>2, BusyAlone
  <1>4. \A t \in Sockets : blurred[t] \subseteq blurred'[t]
    BY <1>1, BlurredGrows DEF AddToActive, RemoveFromActive
  <1>5. CASE AddToActive(s)
    <2>1. /\ UNCHANGED <<page, channel, cpc, arg, bye, live, data>>
          /\ active' = [active EXCEPT ![u] = row[s]] /\ pc' = [pc EXCEPT ![s] = "tell"]
      BY <1>1, <1>5, NoFailure DEF AddToActive, Relist, Applied
    <2>2. QED
      BY <1>1, <1>3, <1>4, <2>1, SilentPages DEF SilentStep, InRoom, Telling, TypeOK
  <1>6. CASE RemoveFromActive(s)
    <2>1. /\ UNCHANGED <<page, channel, cpc, arg, pc, live, data>>
          /\ active' = [active EXCEPT ![u] = None] /\ bye' = [bye EXCEPT ![s] = "tell"]
      BY <1>1, <1>6, NoFailure DEF RemoveFromActive, Relist, Applied
    <2>2. QED
      BY <1>1, <1>3, <1>4, <2>1, SilentPages DEF SilentStep, InRoom, Telling, TypeOK
  <1>7. QED
    BY <1>5, <1>6


\* News about the user of s, true when it is sent, and nothing else about that user.
LEMMA ToldPages ==
  ASSUME TypeOK, PagesInv, NEW s \in Sockets, NEW m \in Messages, m.user = OwnerOf[s],
         \/ m.kind = "joined" /\ m.role = active[OwnerOf[s]]
         \/ m.kind = "left" /\ active[OwnerOf[s]] = None,
         Publish(Home[s], m),
         \A t \in Sockets : t # s => /\ page'[t] = Received(Home[s], m, s)[t]
                                     /\ pc'[t] = pc[t] /\ bye'[t] = bye[t],
         UNCHANGED <<active, blurred, live, data, cpc, arg>>,
         \A c \in Commands : arg[c].user # OwnerOf[s],
         \A x \in Sent : x.user # OwnerOf[s]
  PROVE  \A x \in Users : NewsInv(x)' /\ \A t \in Sockets : t # s => PageInv(t, x)'
  <1> DEFINE u == OwnerOf[s]
             v == Home[s]
  <1>1. u \in Users /\ s \in SocketsOf(u) /\ v \in Servers /\ \A t \in Sockets : Home[t] \in Servers
    BY SocketAssumption DEF SocketsOf
  <1>2. /\ SentTo(v)' = SentTo(v)
        /\ \A w \in Servers : w # v => SentTo(w)' = SentTo(w) \cup {m}
    BY <1>1, ToPublish
  <1>3. \A x \in Sent' : x.user = u => x = m
    <2>1. \A x \in Sent' : \E w \in Servers : x \in SentTo(w)'
      BY DEF Sent, SentTo
    <2>2. QED
      BY <1>2, <2>1, SentSplit
  <1>4. \A t \in Sockets, x \in Users : t # s => (Views(t, x)' <=> Views(t, x))
    BY DEF Views, InRoom
  <1>5. ASSUME NEW x \in Users, x # u
        PROVE  NewsInv(x)' /\ \A t \in Sockets : t # s => PageInv(t, x)'
    <2>1. \A r \in SocketsOf(x) : pc'[r] = pc[r] /\ bye'[r] = bye[r] /\ (InRoom(r)' <=> InRoom(r))
      BY <1>5 DEF SocketsOf, InRoom
    <2>2. Bystander(x)
      BY <1>2, <1>5, <2>1 DEF Bystander
    <2>3. \A t \in Sockets : t # s => page'[t][x] = page[t][x]
      BY <1>5, ShownElse
    <2>4. QED
      BY <1>4, <2>2, <2>3, BystanderNews, BystanderPage DEF PagesInv
  <1>6. NewsInv(u)'
    BY <1>3 DEF NewsInv
  <1>7. ASSUME NEW t \in Sockets, t # s PROVE PageInv(t, u)'
    <2>1. Views(t, u)' => page'[t][u] = active'[u] \/ Owed(t, u)'
      <3>1. CASE Home[t] = v
        BY <1>4, <1>7, <3>1, <1>1, ShownHere DEF Views
      <3>2. CASE Home[t] # v
        BY <1>1, <1>2, <3>2 DEF Owed
      <3>3. QED
        BY <3>1, <3>2
    <2>2. \A c \in Commands : ~Written(c, u)'
      BY DEF Written
    <2>3. QED
      BY <1>3, <2>1, <2>2 DEF PageInv
  <1> HIDE DEF u, v
  <1>8. QED
    BY <1>5, <1>6, <1>7

LEMMA AnnouncePages ==
  ASSUME MembersInv, ListInv, PagesInv, NEW s \in Sockets, Announce(s)
  PROVE  PagesInv'
  <1> DEFINE u == OwnerOf[s]
             m == [kind |-> "joined", user |-> OwnerOf[s], role |-> row[s], socket |-> None]
  <1>1. /\ u \in Users /\ s \in SocketsOf(u) /\ UserInv(u) /\ TypeOK /\ ArgInv
        /\ Busy(s) /\ pc[s] = "tell"
    BY SocketAssumption DEF Announce, SocketsOf, Busy, Connecting, MembersInv, Base
  <1>2. live[s] /\ row[s] = active[u]
    BY <1>1 DEF UserInv, SocketInv, EntryInv, Connecting
  <1>3. /\ \A c \in Commands : arg[c].user # u
        /\ \A x \in Sent : x.user # u
    BY <1>1, BusyAlone
  <1>4. m \in Messages /\ m.user = u /\ m.kind = "joined" /\ m.role = active[u]
    BY <1>1, <1>2 DEF Messages, TypeOK
  <1>5. /\ pc' = [pc EXCEPT ![s] = "in"] /\ Publish(Home[s], m)
        /\ page' = [Received(Home[s], m, s) EXCEPT ![s] = list[s]]
        /\ UNCHANGED <<active, blurred, bye, live, data, cpc, arg>>
    BY <1>2 DEF Announce, database, entries, commands
  <1>6. /\ \A t \in Sockets : t # s => pc'[t] = pc[t] /\ page'[t] = Received(Home[s], m, s)[t]
        /\ page'[s] = list[s]
    <2>1. DOMAIN Received(Home[s], m, s) = Sockets
      BY DEF Received
    <2>2. QED
      BY <1>1, <1>5, <2>1 DEF TypeOK
  <1> HIDE DEF m
  <1>7. \A x \in Users : NewsInv(x)' /\ \A t \in Sockets : t # s => PageInv(t, x)'
    BY <1>1, <1>3, <1>4, <1>5, <1>6, ToldPages
  <1>8. ASSUME NEW x \in Users PROVE PageInv(s, x)'
    <2> SUFFICES ASSUME x # u, x \notin blurred[s] PROVE PageInv(s, x)'
      BY <1>5 DEF PageInv, Views
    <2>1. page'[s][x] = active[x]
      BY <1>1, <1>6 DEF ListInv
    <2>2. UserInv(x) /\ NewsInv(x)
      BY DEF MembersInv, PagesInv
    <2>3. \A r \in Sent' : r.user = x => r \in Sent
      <3>1. \A r \in Sent' : \E w \in Servers : r \in SentTo(w)'
        BY DEF Sent, SentTo
      <3>2. QED
        BY <1>1, <1>4, <1>5, <3>1, ToPublish, SentSplit, SocketAssumption
    <2>4. \A c \in Commands : Written(c, x)' => Written(c, x) /\ cpc[c] \in {"commit", "after"}
      BY <1>5 DEF Written
    <2>5. \A c \in Commands : Written(c, x) =>
            /\ arg[c].kind = "promote" => active[x] # None
            /\ arg[c].kind = "remove" => active[x] = None
      BY <2>2 DEF Written, UserInv, CommandInv, PromoteInv, RemoveInv
    <2>6. \A r \in Sent : r.user = x /\ r.kind = "promoted" => active[x] # None
      BY <2>2 DEF NewsInv
    <2>7. \A r \in Sent : r.user = x /\ r.kind = "kick" => active[x] = None
      BY <2>2 DEF UserInv, EntryInv
    <2>8. QED
      BY <1>5, <2>1, <2>3, <2>4, <2>5, <2>6, <2>7 DEF PageInv
  <1>9. QED
    BY <1>7, <1>8 DEF PagesInv

LEMMA TellDisconnectedPages ==
  ASSUME MembersInv, PagesInv, NEW s \in Sockets, TellDisconnected(s)
  PROVE  PagesInv'
  <1> DEFINE u == OwnerOf[s]
             m == [kind |-> "left", user |-> OwnerOf[s], role |-> None, socket |-> None]
  <1>1. /\ u \in Users /\ s \in SocketsOf(u) /\ UserInv(u) /\ TypeOK
        /\ Busy(s) /\ bye[s] = "tell"
    BY SocketAssumption DEF TellDisconnected, SocketsOf, Busy, MembersInv, Base
  <1>2. ~live[s] /\ active[u] = None
    BY <1>1 DEF UserInv, EntryInv
  <1>3. /\ \A c \in Commands : arg[c].user # u
        /\ \A x \in Sent : x.user # u
    BY <1>1, BusyAlone
  <1>4. m \in Messages /\ m.user = u /\ m.kind = "left"
    BY <1>1 DEF Messages, RoleOrNone
  <1>5. /\ bye' = [bye EXCEPT ![s] = "no"] /\ Publish(Home[s], m)
        /\ page' = Received(Home[s], m, s)
        /\ UNCHANGED <<active, blurred, pc, live, data, cpc, arg>>
    BY DEF TellDisconnected, Broadcast, database, entries, connecting, commands
  <1>6. \A t \in Sockets : t # s => bye'[t] = bye[t]
    BY <1>1, <1>5 DEF TypeOK
  <1> HIDE DEF m
  <1>7. \A x \in Users : NewsInv(x)' /\ \A t \in Sockets : t # s => PageInv(t, x)'
    BY <1>1, <1>2, <1>3, <1>4, <1>5, <1>6, ToldPages
  <1>8. \A x \in Users : PageInv(s, x)'
    BY <1>2, <1>5 DEF PageInv, Views, InRoom
  <1>9. QED
    BY <1>7, <1>8 DEF PagesInv

-----------------------------------------------------------------------------
(* Steps of a command, and the pages.                                      *)

\* A step about user u.
AboutOnly(u) ==
  /\ \A x \in Users : x # u => active'[x] = active[x]
  /\ \A t \in Sockets : blurred[t] \subseteq blurred'[t]
  /\ pc' = pc
  /\ \A t \in Sockets : OwnerOf[t] # u => bye'[t] = bye[t] /\ (InRoom(t)' <=> InRoom(t))
  /\ \A t \in Sockets : InRoom(t)' => InRoom(t)
  /\ \A d \in Commands, x \in Users : x # u /\ (arg[d].user = x \/ arg'[d].user = x) =>
       arg'[d] = arg[d] /\ cpc'[d] = cpc[d]
  /\ \A v \in Servers, m \in Messages : m.user # u => (m \in SentTo(v)' <=> m \in SentTo(v))
  /\ \A t \in Sockets, x \in Users : x # u => page'[t][x] = page[t][x]

LEMMA AboutPages ==
  ASSUME PagesInv, NEW u \in Users, AboutOnly(u),
         NewsInv(u)', \A s \in Sockets : PageInv(s, u)'
  PROVE  PagesInv'
  <1>1. \A t \in Sockets, x \in Users : Views(t, x)' => Views(t, x)
    BY DEF AboutOnly, Views
  <1>2. ASSUME NEW x \in Users, x # u PROVE NewsInv(x)' /\ \A t \in Sockets : PageInv(t, x)'
    <2>1. Bystander(x)
      BY <1>2 DEF AboutOnly, Bystander, SocketsOf
    <2>2. \A t \in Sockets : page'[t][x] = page[t][x]
      BY <1>2 DEF AboutOnly
    <2>3. QED
      BY <1>1, <2>1, <2>2, BystanderNews, BystanderPage DEF PagesInv
  <1>3. QED
    BY <1>2 DEF PagesInv

\* As long as no one has written, the pages are right.
LEMMA PageUntilWritten ==
  ASSUME TypeOK, PagesInv, NEW u \in Users, UserInv(u), NEW c \in Commands,
         (arg[c].user = u /\ ~Written(c, u)) \/ Undisturbed(u)
  PROVE  /\ \A m \in Sent : m.user # u
         /\ \A d \in Commands : d # c => arg[d].user # u
         /\ \A s \in Sockets : Views(s, u) => page[s][u] = active[u]
  <1>1. /\ \A t \in SocketsOf(u) : ~Telling(t)
        /\ \A d \in Commands : d # c => arg[d].user # u
        /\ \A m \in Sent : m.user # u
    <2>1. CASE arg[c].user = u
      <3>1. /\ \A t \in SocketsOf(u) : bye[t] = "no" /\ pc[t] \in {"off", "in", "end"}
            /\ \A d \in Commands : d # c => arg[d].user # u
            /\ \A m \in Sent : m.user # u
        BY <2>1, CommandAlone
      <3>2. QED
        BY <3>1 DEF Telling
    <2>2. CASE Undisturbed(u)
      BY <2>2, Quiet DEF Telling
    <2>3. QED
      BY <2>1, <2>2
  <1>2. ~Written(c, u)
    BY Quiet DEF Written
  <1>3. \A s \in Sockets : \A m \in SentTo(Home[s]) : m.user # u
    BY <1>1, SentSplit, SocketAssumption
  <1>4. \A s \in Sockets : ~Owed(s, u)
    BY <1>1, <1>2, <1>3 DEF Owed, Written
  <1>5. QED
    BY <1>1, <1>4 DEF PagesInv, PageInv

\* A call after which nothing is written yet, or nothing has to be.
LEMMA StillPages ==
  ASSUME TypeOK, PagesInv, NEW u \in Users, UserInv(u), NEW c \in Commands,
         \/ arg[c].user = u /\ ~Written(c, u)
         \/ arg[c].user = None /\ Undisturbed(u),
         ~Written(c, u)', arg'[c].user \in {u, None},
         \A d \in Commands : d # c => cpc'[d] = cpc[d] /\ arg'[d] = arg[d],
         UNCHANGED <<page, active, blurred, channel, pc, live, bye, data>>
  PROVE  PagesInv'
  <1>1. Sent' = Sent /\ \A v \in Servers : SentTo(v)' = SentTo(v)
    BY ToSame
  <1>2. AboutOnly(u)
    BY <1>1, NoneAssumption DEF AboutOnly, InRoom
  <1>3. /\ \A m \in Sent : m.user # u
        /\ \A d \in Commands : d # c => arg[d].user # u
        /\ \A s \in Sockets : Views(s, u) => page[s][u] = active[u]
    BY PageUntilWritten
  <1>4. \A d \in Commands : ~Written(d, u)'
    BY <1>3 DEF Written
  <1>5. NewsInv(u)'
    BY <1>1, <1>3 DEF NewsInv
  <1>6. \A s \in Sockets : PageInv(s, u)'
    BY <1>1, <1>3, <1>4 DEF PageInv, Views, InRoom
  <1>7. QED
    BY <1>2, <1>5, <1>6, AboutPages

LEMMA IssuePages ==
  ASSUME MembersInv, PagesInv, Unhurried, NEW c \in Commands, Issue(c)
  PROVE  PagesInv'
  <1>1. PICK s \in {t \in Sockets : InRoom(t)}, u \in Users,
             kind \in {"remove", "leave", "promote"}, role \in RoleOrNone :
          /\ MayStart(u)
          /\ arg' = [arg EXCEPT ![c] = [kind |-> kind, by |-> s, user |-> u,
                                        role |-> role, socket |-> None]]
          /\ Goto(c, IF kind = "leave" THEN "write" ELSE "fetch")
    BY DEF Issue
  <1>2. UNCHANGED <<page, active, blurred, channel, pc, live, bye, data>> /\ cpc[c] = "new"
    BY DEF Issue, entries, sockets
  <1>3. TypeOK /\ UserInv(u) /\ Undisturbed(u) /\ arg[c].user = None
    BY <1>1, <1>2 DEF MembersInv, Base, MayStart, ArgInv, Ended, NoArg
  <1>4. /\ arg'[c].user = u /\ cpc'[c] \in {"write", "fetch"}
        /\ \A d \in Commands : d # c => cpc'[d] = cpc[d] /\ arg'[d] = arg[d]
    BY <1>1, <1>3 DEF TypeOK, Goto
  <1>5. ~Written(c, u)'
    BY <1>4 DEF Written
  <1>6. QED
    BY <1>2, <1>3, <1>4, <1>5, StillPages

\* The end of a command, and a call of it that comes before the write.
LEMMA CallPages ==
  ASSUME MembersInv, PagesInv, NEW c \in Commands, cpc[c] \in {"fetch", "find", "write", "hget"},
         \/ End(c)
         \/ /\ arg'[c].user = arg[c].user /\ cpc'[c] \notin {"commit", "after"}
            /\ \A d \in Commands : d # c => cpc'[d] = cpc[d] /\ arg'[d] = arg[d],
         UNCHANGED <<page, active, blurred, channel, pc, live, bye, data>>
  PROVE  PagesInv'
  <1> PICK u \in Users : u = arg[c].user
    BY CommandFacts DEF MembersInv, Base, Ended
  <1>1. TypeOK /\ UserInv(u)
    BY DEF MembersInv, Base
  <1>2. /\ arg'[c].user \in {u, None} /\ (arg'[c].user = u => cpc'[c] \notin {"commit", "after"})
        /\ \A d \in Commands : d # c => cpc'[d] = cpc[d] /\ arg'[d] = arg[d]
    BY <1>1, NoneAssumption DEF End, NoArg, TypeOK
  <1>3. ~Written(c, u) /\ ~Written(c, u)'
    BY <1>2 DEF Written
  <1>4. QED
    BY <1>1, <1>2, <1>3, StillPages

\* A command ends by having the socket closed that it found.
LEMMA KickPages ==
  ASSUME MembersInv, PagesInv, NEW c \in Commands, cpc[c] \notin Ended, End(c),
         NEW v \in Servers, NEW t \in SocketsOf(arg[c].user), Disconnect(v, t),
         active[arg[c].user] = None,
         \A s \in Sockets : Views(s, arg[c].user) => page[s][arg[c].user] = None \/ InRoom(t),
         UNCHANGED <<page, active, blurred, pc, data>>
  PROVE  PagesInv'
  <1> PICK u \in Users : u = arg[c].user
    BY CommandFacts DEF MembersInv, Base, Ended
  <1>1. TypeOK /\ UserInv(u) /\ t \in Sockets /\ OwnerOf[t] = u /\ Home[t] \in Servers
    BY SocketAssumption DEF MembersInv, Base, SocketsOf
  <1>2. /\ \A x \in SocketsOf(u) : bye[x] = "no"
        /\ \A d \in Commands : d # c => arg[d].user # u
        /\ \A m \in Sent : m.user # u
    BY <1>1, CommandAlone
  <1>3. /\ arg'[c].user = None
        /\ \A d \in Commands : d # c => cpc'[d] = cpc[d] /\ arg'[d] = arg[d]
    BY <1>1 DEF End, NoArg, TypeOK
  <1>4. \A d \in Commands : ~Written(d, u)'
    BY <1>2, <1>3, NoneAssumption DEF Written
  <1>5. CASE Home[t] = v
    <2>1. Close(t) /\ UNCHANGED channel
      BY <1>5 DEF Disconnect
    <2>2. /\ ~live'[t] /\ \A x \in Sockets : x # t => live'[x] = live[x] /\ bye'[x] = bye[x]
          /\ InRoom(t) => bye'[t] = "del"
      BY <1>1, <2>1 DEF Close, InRoom, TypeOK
    <2>3. Sent' = Sent /\ \A w \in Servers : SentTo(w)' = SentTo(w)
      BY <2>1, ToSame
    <2>4. AboutOnly(u)
      BY <1>1, <1>3, <2>2, <2>3, NoneAssumption DEF AboutOnly, InRoom
    <2>5. NewsInv(u)'
      BY <1>2, <2>3 DEF NewsInv
    <2>6. ASSUME NEW s \in Sockets PROVE PageInv(s, u)'
      <3>1. Views(s, u)' => Views(s, u)
        BY <2>4 DEF Views, AboutOnly
      <3>2. InRoom(t) => Owed(s, u)'
        BY <1>1, <2>2 DEF Owed, Telling
      <3>3. QED
        BY <1>2, <1>4, <2>3, <3>1, <3>2 DEF PageInv
    <2>7. QED
      BY <2>4, <2>5, <2>6, AboutPages
  <1>6. CASE Home[t] # v
    <2> DEFINE m == [kind |-> "kick", user |-> OwnerOf[t], role |-> None, socket |-> t]
    <2>1. channel' = [channel EXCEPT ![Home[t]] = Append(@, m)] /\ UNCHANGED <<live, bye>>
      BY <1>6 DEF Disconnect
    <2>2. m \in Messages /\ m.user = u /\ m.kind = "kick" /\ m.socket = t
      BY <1>1 DEF Messages, RoleOrNone
    <2> HIDE DEF m
    <2>3. /\ SentTo(Home[t])' = SentTo(Home[t]) \cup {m}
          /\ \A w \in Servers : w # Home[t] => SentTo(w)' = SentTo(w)
      BY <1>1, <2>1, <2>2, ToKick
    <2>4. \A x \in Sent' : x.user = u => x = m
      <3>1. \A x \in Sent' : \E w \in Servers : x \in SentTo(w)'
        BY DEF Sent, SentTo
      <3>2. QED
        BY <1>2, <2>3, <3>1, SentSplit
    <2>5. AboutOnly(u)
      BY <1>1, <1>3, <2>1, <2>2, <2>3, NoneAssumption DEF AboutOnly, InRoom
    <2>6. NewsInv(u)'
      BY <2>2, <2>4 DEF NewsInv
    <2>7. ASSUME NEW s \in Sockets PROVE PageInv(s, u)'
      <3>1. Views(s, u)' => Views(s, u)
        BY <2>5 DEF Views, AboutOnly
      <3>2. m \in Sent'
        BY <1>1, <2>2, <2>3 DEF Sent, SentTo
      <3>3. Owed(s, u)'
        BY <2>2, <3>2 DEF Owed
      <3>4. InRoom(t)' <=> InRoom(t)
        BY <2>1 DEF InRoom
      <3>5. QED
        BY <1>4, <2>2, <2>4, <3>1, <3>3, <3>4 DEF PageInv
    <2>8. QED
      BY <2>5, <2>6, <2>7, AboutPages
  <1>7. QED
    BY <1>5, <1>6

LEMMA FetchPages ==
  ASSUME MembersInv, PagesInv, NEW c \in Commands, FetchSocket(c)
  PROVE  PagesInv'
  <1>1. TypeOK /\ ArgInv /\ cpc[c] = "fetch"
        /\ UNCHANGED <<page, active, blurred, channel, pc, live, bye, data>>
    BY DEF FetchSocket, entries, sockets, MembersInv, Base
  <1>2. CASE End(c)
    BY <1>1, <1>2, CallPages
  <1>3. CASE \E s \in Sockets \cup {None} :
               /\ arg' = [arg EXCEPT ![c].socket = s]
               /\ Goto(c, IF arg[c].kind = "remove" THEN "find" ELSE "write")
    <2>1. arg[c] \in Args
      BY <1>1 DEF TypeOK
    <2>2. /\ arg'[c].user = arg[c].user /\ cpc'[c] \notin {"commit", "after"}
          /\ \A d \in Commands : d # c => cpc'[d] = cpc[d] /\ arg'[d] = arg[d]
      BY <1>1, <1>3, <2>1 DEF TypeOK, Goto, Args
    <2>3. QED
      BY <1>1, <2>2, CallPages
  <1>4. QED
    BY <1>2, <1>3 DEF FetchSocket, SocketsOf

LEMMA FindPages ==
  ASSUME MembersInv, PagesInv, MaxFaults = 0, NEW c \in Commands, FindRow(c)
  PROVE  PagesInv'
  <1> PICK u \in Users : u = arg[c].user
    BY CommandFacts DEF FindRow, MembersInv, Base, Ended
  <1>1. TypeOK /\ ArgInv /\ UserInv(u) /\ cpc[c] = "find" /\ arg[c].kind = "remove"
        /\ UNCHANGED <<page, active, blurred, pc, data>>
    BY DEF FindRow, database, entries, connecting, MembersInv, Base, ArgInv
  <1>2. Agree(u) /\ arg[c].socket \in SocketsOf(u) \cup {None}
    BY <1>1 DEF UserInv, CommandInv, RemoveInv
  <1>3. CASE Goto(c, "write") /\ UNCHANGED <<arg, live, bye, channel, faults>>
    <2>1. cpc'[c] = "write" /\ \A d \in Commands : d # c => cpc'[d] = cpc[d] /\ arg'[d] = arg[d]
      BY <1>1, <1>3 DEF Goto, TypeOK
    <2>2. QED
      BY <1>1, <1>3, <2>1, CallPages
  <1>4. CASE /\ member[u] = None /\ arg[c].socket # None
             /\ End(c) /\ Disconnect(Home[arg[c].by], arg[c].socket)
    <2>1. active[u] = None
      BY <1>2, <1>4, NoneAssumption DEF Agree
    <2>2. \A s \in Sockets : Views(s, u) => page[s][u] = active[u]
      BY <1>1, PageUntilWritten DEF MembersInv, Written
    <2>3. Home[arg[c].by] \in Servers
      BY <1>1, CommandFacts, SocketAssumption DEF MembersInv, Base, Ended
    <2>4. QED
      BY <1>1, <1>2, <1>4, <2>1, <2>2, <2>3, KickPages DEF Ended
  <1>5. QED
    BY <1>1, <1>3, <1>4, NoFailure DEF FindRow

LEMMA WritePages ==
  ASSUME MembersInv, PagesInv, MaxFaults = 0, NEW c \in Commands, WriteRow(c)
  PROVE  PagesInv'
  <1> PICK u \in Users : u = arg[c].user
    BY CommandFacts DEF WriteRow, MembersInv, Base, Ended
  <1>1. TypeOK /\ UserInv(u) /\ cpc[c] = "write"
        /\ UNCHANGED <<page, active, blurred, channel, pc, data>>
    BY DEF WriteRow, entries, connecting, MembersInv, Base
  <1>2. arg[c].kind = "leave" => member[u] # None
    BY <1>1 DEF UserInv, CommandInv, LeaveInv, Agree, There
  <1>3. CASE /\ UNCHANGED <<live, bye>>
             /\ End(c) \/ (UNCHANGED arg /\ \E l \in {"unlist", "hget"} : Goto(c, l))
    <2>1. CASE End(c)
      BY <1>1, <1>3, <2>1, CallPages
    <2>2. CASE UNCHANGED arg /\ \E l \in {"unlist", "hget"} : Goto(c, l)
      <3>1. /\ cpc'[c] \notin {"commit", "after"}
            /\ \A d \in Commands : d # c => cpc'[d] = cpc[d] /\ arg'[d] = arg[d]
        BY <1>1, <2>2 DEF Goto, TypeOK
      <3>2. QED
        BY <1>1, <1>3, <2>2, <3>1, CallPages
    <2>3. QED
      BY <1>3, <2>1, <2>2
  <1>4. CASE arg[c].kind = "leave" /\ Goto(c, "after") /\ UNCHANGED <<arg, live, bye>>
    <2>1. /\ cpc'[c] = "after"
          /\ \A d \in Commands : d # c => cpc'[d] = cpc[d] /\ arg'[d] = arg[d]
      BY <1>1, <1>4 DEF Goto, TypeOK
    <2>2. Sent' = Sent /\ \A v \in Servers : SentTo(v)' = SentTo(v)
      BY <1>1, ToSame
    <2>3. AboutOnly(u)
      BY <1>1, <1>4, <2>1, <2>2 DEF AboutOnly, InRoom
    <2>4. /\ \A m \in Sent : m.user # u
          /\ \A d \in Commands : d # c => arg[d].user # u
      BY <1>1, PageUntilWritten DEF Written
    <2>5. NewsInv(u)'
      BY <2>2, <2>4 DEF NewsInv
    <2>6. \A s \in Sockets : Owed(s, u)'
      BY <1>4, <2>1 DEF Owed, Written
    <2>7. \A d \in Commands : Written(d, u)' => arg'[d].kind = "leave"
      BY <1>4, <2>4 DEF Written
    <2>8. \A s \in Sockets : PageInv(s, u)'
      BY <2>2, <2>4, <2>6, <2>7 DEF PageInv
    <2>9. QED
      BY <2>3, <2>5, <2>8, AboutPages
  <1>5. QED
    BY <1>1, <1>2, <1>3, <1>4, NoFailure DEF WriteRow

\* The entry is written: what a page shows is then about to be told, and a user whose
\* entry was there has a socket in the room.
LEMMA UnlistPages ==
  ASSUME MembersInv, PagesInv, MaxFaults = 0, NEW c \in Commands, Unlist(c) \/ WriteEntry(c)
  PROVE  PagesInv'
  <1> PICK u \in Users : u = arg[c].user
    BY CommandFacts DEF Unlist, WriteEntry, MembersInv, Base, Ended
  <1>1. TypeOK /\ ArgInv /\ UserInv(u) /\ cpc[c] \in {"unlist", "hset"} /\ cpc[c] \notin Ended
        /\ UNCHANGED <<page, channel, pc, live, bye>>
    BY DEF Unlist, WriteEntry, connecting, sockets, MembersInv, Base, Ended
  <1>2. /\ arg[c].kind \in {"remove", "leave", "promote"} /\ Agree(u)
        /\ arg[c].kind = "remove" => RemoveInv(c, u)
        /\ arg[c].kind = "leave" => LeaveInv(c, u)
        /\ arg[c].kind = "promote" => PromoteInv(c, u)
    BY <1>1, CommandFacts DEF MembersInv, Base
  <1>3. /\ \A m \in Sent : m.user # u
        /\ \A d \in Commands : d # c => arg[d].user # u
        /\ \A s \in Sockets : Views(s, u) => page[s][u] = active[u]
    BY <1>1, PageUntilWritten DEF Written
  <1>4. UNCHANGED arg /\ Goto(c, "commit") /\ \A x \in Users : x # u => active'[x] = active[x]
    BY <1>1, NoFailure DEF Unlist, WriteEntry, Rollback, Relist, TypeOK
  <1>5. /\ cpc'[c] = "commit"
        /\ \A d \in Commands : d # c => cpc'[d] = cpc[d] /\ arg'[d] = arg[d]
    BY <1>1, <1>4 DEF Goto, TypeOK
  <1>6. \A t \in Sockets : \/ data'[t] = data[t]
                           \/ OwnerOf[t] = u /\ data[t] # None /\ data'[t] # None
    <2>1. CASE Unlist(c)
      BY <2>1 DEF Unlist, sockets
    <2>2. CASE WriteEntry(c)
      <3>1. arg[c].kind = "promote" /\ arg[c].role # None
        BY <1>1, <1>2, <2>2 DEF WriteEntry, RemoveInv, LeaveInv, PromoteInv
      <3>2. arg[c].socket \in SocketsOf(u) /\ InRoom(arg[c].socket)
        BY <1>1, <1>2, <2>2, <3>1 DEF WriteEntry, PromoteInv
      <3>3. data' = [data EXCEPT ![arg[c].socket] = arg[c].role] \/ data' = data
        BY <2>2 DEF WriteEntry
      <3>4. QED
        BY <1>1, <3>1, <3>2, <3>3 DEF InRoom, SocketsOf, TypeOK
    <2>3. QED
      BY <2>1, <2>2
  <1>7. \A t \in Sockets : InRoom(t)' <=> InRoom(t)
    BY <1>1, <1>6 DEF InRoom
  <1>8. \A t \in Sockets : blurred[t] \subseteq blurred'[t]
    BY <1>1, BlurredGrows DEF Unlist, WriteEntry
  <1>9. Sent' = Sent /\ \A v \in Servers : SentTo(v)' = SentTo(v)
    BY <1>1, ToSame
  <1>10. AboutOnly(u)
    BY <1>1, <1>4, <1>5, <1>6, <1>7, <1>8, <1>9 DEF AboutOnly, InRoom
  <1>11. NewsInv(u)'
    BY <1>3, <1>9 DEF NewsInv
  <1>12. ASSUME NEW s \in Sockets PROVE PageInv(s, u)'
    <2> SUFFICES ASSUME Views(s, u)' PROVE PageInv(s, u)'
      BY DEF PageInv
    <2>1. Views(s, u) /\ page'[s][u] = active[u]
      BY <1>1, <1>3, <1>7, <1>8 DEF Views
    <2>2. Owed(s, u)'
      BY <1>4, <1>5 DEF Owed, Written
    <2>3. \A d \in Commands : Written(d, u)' => d = c
      BY <1>3, <1>4 DEF Written
    <2>4. arg[c].kind = "promote" => active[u] # None
      BY <1>1, <1>2 DEF PromoteInv, Agree, There
    <2>5. arg[c].kind = "remove" /\ active[u] # None =>
            \E t \in SocketsOf(u) : t = arg[c].socket /\ InRoom(t)'
      <3>1. arg[c].kind = "remove" => \A t \in SocketsOf(u) : live[t] => t = arg[c].socket
        BY <1>1, <1>2 DEF RemoveInv
      <3>2. QED
        BY <1>2, <1>7, <3>1 DEF Agree, There, InRoom, SocketsOf
    <2>6. QED
      BY <1>3, <1>4, <1>9, <2>1, <2>2, <2>3, <2>4, <2>5 DEF PageInv
  <1>13. QED
    BY <1>10, <1>11, <1>12, AboutPages

LEMMA ReadEntryPages ==
  ASSUME MembersInv, PagesInv, MaxFaults = 0, NEW c \in Commands, ReadEntry(c)
  PROVE  PagesInv'
  <1>1. TypeOK /\ ArgInv /\ cpc[c] = "hget" /\ cpc[c] \notin Ended /\ UNCHANGED arg
        /\ UNCHANGED <<page, active, blurred, channel, pc, live, bye, data>>
    BY NoFailure DEF ReadEntry, Rollback, entries, sockets, MembersInv, Base, Ended
  <1>2. arg[c].user \in Users /\ Agree(arg[c].user) /\ There(arg[c].user)
    BY <1>1, CommandFacts DEF RemoveInv, LeaveInv, PromoteInv, There, MembersInv, Base
  <1>3. Goto(c, "hset")
    BY <1>1, <1>2, NoFailure DEF ReadEntry, Rollback, Agree
  <1>4. cpc'[c] = "hset" /\ \A d \in Commands : d # c => cpc'[d] = cpc[d] /\ arg'[d] = arg[d]
    BY <1>1, <1>3 DEF Goto, TypeOK
  <1>5. QED
    BY <1>1, <1>4, CallPages

LEMMA CommitPages ==
  ASSUME MembersInv, PagesInv, MaxFaults = 0, NEW c \in Commands, Commit(c)
  PROVE  PagesInv'
  <1> PICK u \in Users : u = arg[c].user
    BY CommandFacts DEF Commit, MembersInv, Base, Ended
  <1>1. TypeOK /\ cpc[c] = "commit" /\ UNCHANGED arg /\ Goto(c, "after")
        /\ UNCHANGED <<page, active, blurred, channel, pc, live, bye, data>>
    BY NoFailure DEF Commit, Rollback, entries, sockets, MembersInv, Base
  <1>2. /\ cpc'[c] = "after" /\ \A d \in Commands : d # c => cpc'[d] = cpc[d]
    BY <1>1 DEF Goto, TypeOK
  <1>3. Sent' = Sent /\ \A v \in Servers : SentTo(v)' = SentTo(v)
    BY <1>1, ToSame
  <1>4. AboutOnly(u)
    BY <1>1, <1>2, <1>3 DEF AboutOnly, InRoom
  <1>5. NewsInv(u) => NewsInv(u)'
    BY <1>1, <1>3 DEF NewsInv
  <1>6. \A d \in Commands : Written(d, u)' <=> Written(d, u)
    BY <1>1, <1>2 DEF Written
  <1>7. ASSUME NEW s \in Sockets, PageInv(s, u) PROVE PageInv(s, u)'
    <2>1. SentTo(Home[s])' = SentTo(Home[s])
      BY <1>3, SocketAssumption
    <2>2. Owed(s, u)' <=> Owed(s, u)
      BY <1>1, <1>3, <1>6, <2>1 DEF Owed, Telling
    <2>3. QED
      BY <1>1, <1>3, <1>6, <1>7, <2>2 DEF PageInv, Views, InRoom
  <1>8. QED
    BY <1>4, <1>5, <1>7, AboutPages DEF PagesInv

LEMMA PromotedPages ==
  ASSUME MembersInv, PagesInv, NEW c \in Commands, Conclude(c), arg[c].kind = "promote"
  PROVE  PagesInv'
  <1> PICK u \in Users : u = arg[c].user
    BY CommandFacts DEF Conclude, MembersInv, Base, Ended
  <1> PICK v \in Servers : v = Home[arg[c].by]
    BY CommandFacts, SocketAssumption DEF Conclude, MembersInv, Base, Ended
  <1> DEFINE m == [kind |-> "promoted", user |-> u, role |-> arg[c].role, socket |-> None]
  <1>1. /\ TypeOK /\ ArgInv /\ UserInv(u) /\ cpc[c] = "after" /\ cpc[c] \notin Ended /\ End(c)
        /\ UNCHANGED <<active, blurred, pc, data, live, bye>>
        /\ Publish(v, m) /\ page' = Received(v, m, None)
    BY DEF Conclude, Broadcast, entries, connecting, MembersInv, Base, Ended
  <1>2. /\ arg[c] \in Args
        /\ active[u] = arg[c].role /\ arg[c].role # None
    BY <1>1, CommandFacts DEF PromoteInv, MembersInv, Base
  <1>3. m \in Messages /\ m.user = u /\ m.kind = "promoted" /\ m.role = active[u]
    BY <1>2 DEF Messages, Args
  <1>4. /\ \A d \in Commands : d # c => arg[d].user # u
        /\ \A x \in Sent : x.user # u
    BY <1>1, CommandAlone
  <1>5. /\ arg'[c].user = None
        /\ \A d \in Commands : d # c => cpc'[d] = cpc[d] /\ arg'[d] = arg[d]
    BY <1>1 DEF End, NoArg, TypeOK
  <1> HIDE DEF m
  <1>6. /\ SentTo(v)' = SentTo(v)
        /\ \A w \in Servers : w # v => SentTo(w)' = SentTo(w) \cup {m}
    BY <1>1, <1>2, <1>3, ToPublish
  <1>7. \A x \in Sent' : x.user = u => x = m
    <2>1. \A x \in Sent' : \E w \in Servers : x \in SentTo(w)'
      BY DEF Sent, SentTo
    <2>2. QED
      BY <1>2, <1>4, <1>6, <2>1, SentSplit
  <1>8. AboutOnly(u)
    <2>1. \A t \in Sockets, x \in Users : x # u => page'[t][x] = page[t][x]
      BY <1>1, <1>3, ShownElse
    <2>2. QED
      BY <1>1, <1>3, <1>5, <1>6, <2>1, NoneAssumption DEF AboutOnly, InRoom
  <1>9. NewsInv(u)'
    BY <1>1, <1>2, <1>3, <1>7 DEF NewsInv
  <1>10. ASSUME NEW s \in Sockets PROVE PageInv(s, u)'
    <2> SUFFICES ASSUME Views(s, u)' PROVE PageInv(s, u)'
      BY DEF PageInv
    <2>1. Views(s, u) /\ page[s][u] # None
      BY <1>1 DEF Views, InRoom, PagesInv, PageInv, Written
    <2>2. page'[s][u] = active[u] \/ (Home[s] # v /\ page'[s][u] = page[s][u])
      <3>1. s # None
        BY NoneAssumption
      <3>2. CASE Home[s] = v
        BY <1>1, <1>3, <2>1, <3>1, <3>2, ShownHere DEF Views
      <3>3. CASE Home[s] # v
        BY <1>1, <3>3, ShownAway
      <3>4. QED
        BY <3>2, <3>3
    <2>3. Home[s] # v => Owed(s, u)'
      BY <1>3, <1>6, SocketAssumption DEF Owed
    <2>4. \A d \in Commands : ~Written(d, u)'
      BY <1>4, <1>5, NoneAssumption DEF Written
    <2>5. QED
      BY <1>1, <1>2, <1>3, <1>7, <2>1, <2>2, <2>3, <2>4 DEF PageInv
  <1>11. QED
    BY <1>8, <1>9, <1>10, AboutPages

LEMMA ConcludePages ==
  ASSUME MembersInv, PagesInv, NEW c \in Commands, Conclude(c)
  PROVE  PagesInv'
  <1> PICK u \in Users : u = arg[c].user
    BY CommandFacts DEF Conclude, MembersInv, Base, Ended
  <1>1. /\ TypeOK /\ ArgInv /\ UserInv(u) /\ cpc[c] = "after" /\ cpc[c] \notin Ended /\ End(c)
        /\ UNCHANGED <<active, blurred, pc, data>>
    BY DEF Conclude, entries, connecting, MembersInv, Base, Ended
  <1>2. /\ arg[c].by \in Sockets /\ Home[arg[c].by] \in Servers
        /\ arg[c].kind \in {"remove", "leave", "promote"}
        /\ arg[c].kind = "remove" => RemoveInv(c, u)
        /\ arg[c].kind = "leave" => LeaveInv(c, u)
    BY <1>1, CommandFacts, SocketAssumption DEF MembersInv, Base
  <1>3. /\ \A d \in Commands : d # c => arg[d].user # u
        /\ \A x \in Sent : x.user # u
    BY <1>1, CommandAlone
  <1>4. /\ arg'[c].user = None
        /\ \A d \in Commands : d # c => cpc'[d] = cpc[d] /\ arg'[d] = arg[d]
    BY <1>1 DEF End, NoArg, TypeOK
  <1>5. \A d \in Commands : ~Written(d, u)'
    BY <1>3, <1>4, NoneAssumption DEF Written
  <1>6. CASE arg[c].kind = "leave"
    <2> DEFINE t == arg[c].by
    <2>1. Close(t) /\ UNCHANGED <<page, channel>>
      BY <1>1, <1>6 DEF Conclude
    <2>2. t \in SocketsOf(u) /\ t \in Sockets /\ OwnerOf[t] = u /\ live[t] /\ data[t] # None
      BY <1>2, <1>6 DEF LeaveInv, InRoom, SocketsOf
    <2>3. /\ ~live'[t] /\ bye'[t] = "del"
          /\ \A x \in Sockets : x # t => live'[x] = live[x] /\ bye'[x] = bye[x]
      BY <1>1, <2>1, <2>2 DEF Close, TypeOK
    <2> HIDE DEF t
    <2>4. Sent' = Sent /\ \A w \in Servers : SentTo(w)' = SentTo(w)
      BY <2>1, ToSame
    <2>5. AboutOnly(u)
      BY <1>1, <1>4, <2>1, <2>2, <2>3, <2>4, NoneAssumption DEF AboutOnly, InRoom
    <2>6. NewsInv(u)'
      BY <1>3, <2>4 DEF NewsInv
    <2>7. \A s \in Sockets : Owed(s, u)'
      BY <2>2, <2>3 DEF Owed, Telling
    <2>8. \A s \in Sockets : PageInv(s, u)'
      BY <1>3, <1>5, <2>4, <2>7 DEF PageInv
    <2>9. QED
      BY <2>5, <2>6, <2>8, AboutPages
  <1>7. CASE arg[c].kind = "remove"
    <2>1. active[u] = None /\ arg[c].socket \in SocketsOf(u) \cup {None}
      BY <1>1, <1>2, <1>7 DEF RemoveInv
    <2>2. \A s \in Sockets : Views(s, u) =>
            page[s][u] = None \/ \E t \in SocketsOf(u) : t = arg[c].socket /\ InRoom(t)
      BY <1>1, <1>7 DEF PagesInv, PageInv, Written
    <2>3. CASE arg[c].socket # None
      <3>1. Disconnect(Home[arg[c].by], arg[c].socket) /\ UNCHANGED page
        BY <1>1, <1>7, <2>3 DEF Conclude
      <3>2. QED
        BY <1>1, <1>2, <2>1, <2>2, <2>3, <3>1, KickPages
    <2>4. CASE arg[c].socket = None
      <3>1. UNCHANGED <<live, bye, page, channel>>
        BY <1>1, <1>7, <2>4 DEF Conclude
      <3>2. Sent' = Sent /\ \A w \in Servers : SentTo(w)' = SentTo(w)
        BY <3>1, ToSame
      <3>3. AboutOnly(u)
        BY <1>1, <1>4, <3>1, <3>2, NoneAssumption DEF AboutOnly, InRoom
      <3>4. NewsInv(u)'
        BY <1>3, <3>2 DEF NewsInv
      <3>5. \A s \in Sockets : Views(s, u)' => page'[s][u] = active'[u]
        BY <1>1, <2>1, <2>2, <2>4, <3>1, NoneAssumption DEF Views, InRoom, SocketsOf
      <3>6. \A s \in Sockets : PageInv(s, u)'
        BY <1>3, <1>5, <3>2, <3>5 DEF PageInv
      <3>7. QED
        BY <3>3, <3>4, <3>6, AboutPages
    <2>5. QED
      BY <2>3, <2>4
  <1>8. QED
    BY <1>2, <1>6, <1>7, PromotedPages

LEMMA ReceivePages ==
  ASSUME MembersInv, PagesInv, NEW v \in Servers, Receive(v)
  PROVE  PagesInv'
  <1> DEFINE m == Head(channel[v])
  <1>1. /\ TypeOK /\ KickAlone /\ channel[v] # <<>> /\ channel' = [channel EXCEPT ![v] = Tail(@)]
        /\ UNCHANGED <<active, blurred, pc, data, cpc, arg>>
        /\ \/ m.kind = "kick" /\ Close(m.socket) /\ UNCHANGED page
           \/ m.kind # "kick" /\ page' = Received(v, m, None) /\ UNCHANGED <<live, bye>>
    BY DEF Receive, entries, connecting, commands, MembersInv, Base
  <1>2. /\ m \in Sent /\ Sent' \subseteq Sent
        /\ \A x \in Messages : x # m => (x \in Sent' <=> x \in Sent)
        /\ m.kind = "kick" => \A x \in Sent' : x.user # m.user
    BY <1>1, SentReceive
  <1>3. /\ SentTo(v)' \subseteq SentTo(v) /\ SentTo(v) \subseteq SentTo(v)' \cup {m}
        /\ \A w \in Servers : w # v => SentTo(w)' = SentTo(w)
    BY <1>1, ToReceive
  <1> HIDE DEF m
  <1>4. m \in Messages
    BY <1>2 DEF Sent
  <1> PICK u \in Users : u = m.user
    BY <1>4 DEF Messages
  <1>5. /\ UserInv(u) /\ \A c \in Commands : arg[c].user # u
        /\ \A t \in SocketsOf(u) : ~Busy(t)
    BY <1>2 DEF UserInv, Alone, MembersInv
  <1>6. \A c \in Commands : ~Written(c, u)'
    BY <1>1, <1>5 DEF Written
  <1>7. CASE m.kind # "kick"
    <2>1. page' = Received(v, m, None) /\ UNCHANGED <<live, bye>>
      BY <1>1, <1>7
    <2>2. AboutOnly(u)
      <3>1. \A t \in Sockets, x \in Users : x # u => page'[t][x] = page[t][x]
        BY <1>1, <1>4, <2>1, ShownElse
      <3>2. QED
        BY <1>1, <1>3, <2>1, <3>1 DEF AboutOnly, InRoom
    <2>3. NewsInv(u) /\ NewsInv(u)'
      BY <1>1, <1>2 DEF PagesInv, NewsInv
    <2>4. ASSUME NEW s \in Sockets PROVE PageInv(s, u)'
      <3> SUFFICES ASSUME Views(s, u)' PROVE PageInv(s, u)'
        BY DEF PageInv
      <3>1. Views(s, u)
        BY <1>1, <2>1 DEF Views, InRoom
      <3>2. m.kind = "promoted" => page[s][u] # None
        BY <1>2, <3>1 DEF PagesInv, PageInv
      <3>3. CASE Home[s] = v
        <4>1. s # None
          BY NoneAssumption
        <4>2. /\ m.kind = "joined" => page'[s][u] = m.role
              /\ m.kind = "left" => page'[s][u] = None
              /\ m.kind = "promoted" => page'[s][u] = m.role
          BY <1>1, <1>4, <2>1, <3>1, <3>2, <3>3, <4>1, ShownHere DEF Views
        <4>3. m.kind \in {"joined", "left", "promoted"}
          BY <1>4, <1>7 DEF Messages
        <4>4. page'[s][u] = active[u]
          BY <1>2, <2>3, <4>2, <4>3 DEF NewsInv
        <4>5. \A x \in Sent : x.user = u /\ x.kind = "promoted" => active[u] # None
          BY <2>3 DEF NewsInv
        <4>6. \A x \in Sent : x.user = u /\ x.kind = "kick" => active[u] = None
          BY <1>5 DEF UserInv, EntryInv
        <4>7. QED
          BY <1>1, <1>2, <1>6, <4>4, <4>5, <4>6 DEF PageInv
      <3>4. CASE Home[s] # v
        <4>1. page'[s] = page[s] /\ SentTo(Home[s])' = SentTo(Home[s])
          BY <1>3, <2>1, <3>4, ShownAway, SocketAssumption
        <4>2. Sent \subseteq Messages
          BY DEF Sent
        <4>3. Owed(s, u) => Owed(s, u)'
          BY <1>1, <1>2, <1>7, <2>1, <4>1, <4>2 DEF Owed, Telling, Written
        <4>4. \A t \in Sockets : InRoom(t)' <=> InRoom(t)
          BY <1>1, <2>1 DEF InRoom
        <4>5. QED
          BY <1>1, <1>2, <1>6, <3>1, <4>1, <4>3, <4>4 DEF PagesInv, PageInv, SocketsOf
      <3>5. QED
        BY <3>3, <3>4
    <2>5. QED
      BY <2>2, <2>3, <2>4, AboutPages
  <1>8. CASE m.kind = "kick"
    <2>1. Close(m.socket) /\ UNCHANGED page
      BY <1>1, <1>8
    <2>2. active[u] = None /\ m.socket \in SocketsOf(u)
      BY <1>2, <1>5, <1>8 DEF UserInv, EntryInv
    <2>3. m.socket \in Sockets /\ OwnerOf[m.socket] = u
      BY <2>2 DEF SocketsOf
    <2>4. /\ ~live'[m.socket]
          /\ \A x \in Sockets : x # m.socket => live'[x] = live[x] /\ bye'[x] = bye[x]
          /\ InRoom(m.socket) => bye'[m.socket] = "del"
      BY <1>1, <2>1, <2>3 DEF Close, InRoom, TypeOK
    <2>5. AboutOnly(u)
      BY <1>1, <1>3, <2>1, <2>3, <2>4 DEF AboutOnly, InRoom
    <2>6. NewsInv(u)'
      BY <1>2, <1>8 DEF NewsInv
    <2>7. ASSUME NEW s \in Sockets PROVE PageInv(s, u)'
      <3>1. Views(s, u)' => Views(s, u)
        BY <2>5 DEF Views, AboutOnly
      <3>2. Views(s, u) => page[s][u] = None \/ InRoom(m.socket)
        BY <1>2, <1>8 DEF PagesInv, PageInv
      <3>3. InRoom(m.socket) => Owed(s, u)'
        BY <2>2, <2>4 DEF Owed, Telling
      <3>4. QED
        BY <1>1, <1>2, <1>6, <1>8, <2>1, <2>2, <3>1, <3>2, <3>3 DEF PageInv
    <2>8. QED
      BY <2>5, <2>6, <2>7, AboutPages
  <1>9. QED
    BY <1>7, <1>8

LEMMA PagesStep ==
  ASSUME Unhurried, OneTab, MaxFaults = 0, MembersInv, ListInv, PagesInv, [Next]_vars
  PROVE  PagesInv'
  <1>1. ASSUME NEW s \in Sockets, Connect(s) \/ Leave(s) PROVE PagesInv'
    BY <1>1, ConnectPages
  <1>2. ASSUME NEW s \in Sockets, HandleConnection(s) PROVE PagesInv'
    BY <1>2, ConnectPages, EntryPages, AnnouncePages DEF HandleConnection
  <1>3. ASSUME NEW s \in Sockets, HandleDisconnect(s) PROVE PagesInv'
    BY <1>3, EntryPages, TellDisconnectedPages DEF HandleDisconnect
  <1>4. ASSUME NEW c \in Commands, Issue(c) \/ HandleCommand(c) PROVE PagesInv'
    BY <1>4, IssuePages, FetchPages, FindPages, WritePages, UnlistPages, ReadEntryPages,
       CommitPages, ConcludePages DEF HandleCommand
  <1>5. ASSUME NEW v \in Servers, Receive(v) PROVE PagesInv'
    BY <1>5, ReceivePages
  <1>6. ASSUME NEW v \in Servers, Crash(v) PROVE FALSE
    BY <1>6, NoFailure DEF Crash, MembersInv, Base
  <1>7. CASE UNCHANGED vars
    <2>1. UNCHANGED <<active, blurred, pc, bye, live, data, channel, page, cpc, arg>>
      BY <1>7 DEF vars
    <2>2. \A v \in Servers : SentTo(v)' = SentTo(v)
      BY <2>1, ToSame
    <2>3. \A x \in Users : Bystander(x)
      BY <2>1, <2>2 DEF Bystander, InRoom
    <2>4. \A s \in Sockets, x \in Users : Views(s, x)' => Views(s, x) /\ page'[s][x] = page[s][x]
      BY <2>1 DEF Views, InRoom
    <2>5. QED
      BY <2>3, <2>4, BystanderNews, BystanderPage DEF PagesInv
  <1>8. QED
    BY <1>1, <1>2, <1>3, <1>4, <1>5, <1>6, <1>7 DEF Next

\* Under the same conditions the page of a user shows the others as the list of currently
\* active users has them, but for users whose entry changed while the page's own
\* connection was under way (USER_JOINED, USER_DISCONNECTED, USER_PROMOTED and USER_LIST
\* of rooms-gateway.service.ts), on whichever servers they are.
THEOREM PagesKeepShowingTheOthers ==
  ASSUME Unhurried, OneTab, MaxFaults = 0
  PROVE  Spec => []PagesShowTheOthers
  <1> DEFINE Inv == MembersInv /\ ListInv /\ PagesInv
  <1>1. Init => Inv
    <2> SUFFICES ASSUME Init PROVE Inv
      OBVIOUS
    <2>1. Sent = {}
      BY DEF Init, Sent
    <2>2. QED
      BY <2>1, MembersInit DEF Init, ListInv, PagesInv, NewsInv, PageInv, Views, InRoom
  <1>2. Inv /\ [Next]_vars => Inv'
    <2>1. MembersInv /\ MembersInv' => TypeOK /\ TypeOK'
      BY DEF MembersInv, Base
    <2>2. QED
      BY <2>1, MembersStep, ListStep, PagesStep
  <1>3. Inv => PagesShowTheOthers
    <2> SUFFICES ASSUME Inv, NEW s \in Sockets, NEW u \in Users, Views(s, u), Undisturbed(u)
                 PROVE  page[s][u] = active[u]
      BY DEF PagesShowTheOthers, Views
    <2>1. /\ TypeOK /\ UserInv(u)
          /\ page[s][u] = active[u] \/ Owed(s, u)
      BY DEF MembersInv, Base, PagesInv, PageInv
    <2>2. /\ \A t \in SocketsOf(u) : bye[t] = "no" /\ pc[t] \in {"off", "in", "end"}
          /\ \A c \in Commands : arg[c].user # u
          /\ \A m \in Sent : m.user # u
      BY <2>1, Quiet
    <2>3. ~Owed(s, u)
      BY <2>2, SentSplit, SocketAssumption DEF Owed, Written, Telling
    <2>4. QED
      BY <2>1, <2>3
  <1> HIDE DEF Inv
  <1>4. QED
    BY <1>1, <1>2, <1>3, PTL DEF Spec
=============================================================================
