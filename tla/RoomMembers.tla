----------------------------- MODULE RoomMembers -----------------------------
(***************************************************************************)
(* Who is in a room and with which role: the membership checks and         *)
(* announcements of handleConnection, handleDisconnect, handleRemove,      *)
(* handleLeave and handlePromote, on any number of servers behind the      *)
(* Redis adapter of Socket.IO. A role is kept in four places: the row in   *)
(* RoomMember, the Redis list of currently active users, client.data of    *)
(* the user's socket (where RoomRoleGuard reads it), and the pages.        *)
(*                                                                         *)
(* Simplifications:                                                        *)
(*  - a page takes what its server emits at once; what another server      *)
(*    publishes waits in that server's channel, in order;                  *)
(*  - fetchSockets looks at all servers at one moment;                     *)
(*  - a socket connects once; a user who comes back has another one;       *)
(*  - a failed write may have been carried out; failures and crashes are   *)
(*    bounded by MaxFaults.                                                *)
(***************************************************************************)
EXTENDS Integers, Sequences, FiniteSets

CONSTANTS
  Users, Sockets, Servers, Commands,
  OwnerOf,    \* [Sockets -> Users]
  Home,       \* [Sockets -> Servers]
  Rights,     \* the rows of RoomMember at the start: [Users -> Roles \cup {None}]
  None,       \* no row, no entry, no socket
  MaxFaults,  \* how many calls may fail or servers crash
  Unhurried,  \* nothing starts for a user while something is going on for that user
  OneTab      \* a user has one socket at a time

Roles == {"ADMIN", "EDITOR", "VIEWER"}
RoleOrNone == Roles \cup {None}

ASSUME NoneAssumption == None \notin Roles \cup Users \cup Sockets
ASSUME SocketAssumption ==
  OwnerOf \in [Sockets -> Users] /\ Home \in [Sockets -> Servers]
ASSUME RightsAssumption == Rights \in [Users -> RoleOrNone]
ASSUME FaultAssumption == MaxFaults \in Nat
ASSUME SwitchAssumption == Unhurried \in BOOLEAN /\ OneTab \in BOOLEAN

VARIABLES
  member,   \* rows of RoomMember
  locked,   \* rows that an open transaction has written
  active,   \* the Redis hash of currently active users, with the role it holds
  pc,       \* where handleConnection of a socket is
  bye,      \* where handleDisconnect of a socket is
  live,     \* the socket is connected
  data,     \* the role in client.data, None while client.data is empty
  row,      \* userIsMember.role in handleConnection
  list,     \* usersCurrentlyInRoom in handleConnection
  page,     \* connectedUsers on the page of a socket
  channel,  \* what other servers published and this one has not received
  cpc,      \* where the handler of an admin's or leaver's command is
  arg,      \* its arguments and the socket it found
  faults,
  blurred   \* users whose entry changed between usersCurrentlyInRoom and USER_LIST

database == <<member, locked>>
connecting == <<pc, row, list>>
sockets == <<pc, bye, live, data, row, list>>
commands == <<cpc, arg>>
entries == <<active, blurred>>
vars == <<member, locked, active, pc, bye, live, data, row, list, page, channel,
          cpc, arg, faults, blurred>>

Nobody == [u \in Users |-> None]
NoArg == [kind |-> "none", by |-> None, user |-> None, role |-> None, socket |-> None]

Messages == [kind : {"joined", "left", "promoted", "kick"}, user : Users,
             role : RoleOrNone, socket : Sockets \cup {None}]
Args == [kind : {"none", "remove", "leave", "promote"}, by : Sockets \cup {None},
         user : Users \cup {None}, role : RoleOrNone, socket : Sockets \cup {None}]

\* client.join and client.data are set together, and a closed socket leaves.
InRoom(s) == live[s] /\ data[s] # None
SocketsOf(u) == {s \in Sockets : OwnerOf[s] = u}

TypeOK ==
  /\ member \in [Users -> RoleOrNone] /\ locked \subseteq Users
  /\ active \in [Users -> RoleOrNone]
  /\ pc \in [Sockets -> {"off", "check", "list", "join", "add", "tell", "in", "end"}]
  /\ bye \in [Sockets -> {"no", "del", "tell"}]
  /\ live \in [Sockets -> BOOLEAN]
  /\ data \in [Sockets -> RoleOrNone] /\ row \in [Sockets -> RoleOrNone]
  /\ list \in [Sockets -> [Users -> RoleOrNone]]
  /\ page \in [Sockets -> [Users -> RoleOrNone]]
  /\ channel \in [Servers -> Seq(Messages)]
  /\ cpc \in [Commands -> {"new", "fetch", "find", "write", "unlist", "hget",
                           "hset", "commit", "after", "done"}]
  /\ arg \in [Commands -> Args]
  /\ faults \in 0..MaxFaults
  /\ blurred \in [Sockets -> SUBSET Users]

Init ==
  /\ member = Rights /\ locked = {} /\ active = Nobody
  /\ pc = [s \in Sockets |-> "off"] /\ bye = [s \in Sockets |-> "no"]
  /\ live = [s \in Sockets |-> FALSE]
  /\ data = [s \in Sockets |-> None] /\ row = [s \in Sockets |-> None]
  /\ list = [s \in Sockets |-> Nobody] /\ page = [s \in Sockets |-> Nobody]
  /\ channel = [v \in Servers |-> <<>>]
  /\ cpc = [c \in Commands |-> "new"] /\ arg = [c \in Commands |-> NoArg]
  /\ faults = 0
  /\ blurred = [s \in Sockets |-> {}]

-----------------------------------------------------------------------------
(* Steps shared by the handlers.                                           *)

Outcome(ok) ==
  IF ok THEN UNCHANGED faults ELSE faults < MaxFaults /\ faults' = faults + 1

Applied(ok, new, old) == {new} \cup IF ok THEN {} ELSE {old}

\* The list of active users becomes one of those given. What a handler between
\* usersCurrentlyInRoom and USER_LIST has read goes stale.
Relist(outcomes) ==
  /\ active' \in outcomes
  /\ blurred' = [s \in Sockets |->
       IF pc[s] \in {"join", "add", "tell"}
       THEN blurred[s] \cup {u \in Users : active'[u] # active[u]} ELSE blurred[s]]

\* Nothing is going on for user u: no handler, no command, no message.
Undisturbed(u) ==
  /\ \A s \in SocketsOf(u) : pc[s] \in {"off", "in", "end"} /\ bye[s] = "no"
  /\ \A c \in Commands : arg[c].user # u
  /\ \A v \in Servers : \A i \in 1..Len(channel[v]) : channel[v][i].user # u

MayStart(u) == Unhurried => Undisturbed(u)

\* USER_JOINED, USER_DISCONNECTED and USER_PROMOTED on the page of s. A page
\* ignores the promotion of its own user.
Shown(s, message) ==
  LET u == message.user IN
  IF message.kind = "promoted" /\ (u = OwnerOf[s] \/ page[s][u] = None)
  THEN page[s]
  ELSE [page[s] EXCEPT ![u] = IF message.kind = "left" THEN None ELSE message.role]

\* A server receives a message for the room: the pages of its sockets in it.
Received(v, message, except) ==
  [s \in Sockets |->
     IF Home[s] = v /\ InRoom(s) /\ s # except THEN Shown(s, message) ELSE page[s]]

Publish(v, message) ==
  channel' = [w \in Servers |->
                IF w = v THEN channel[w] ELSE Append(channel[w], message)]

\* Faulty variant: server.local.to(roomId).emit.
BroadcastHere(v, kind, u, role, except) ==
  LET message == [kind |-> kind, user |-> u, role |-> role, socket |-> None]
  IN  page' = Received(v, message, except) /\ UNCHANGED channel

\* server.to(roomId).emit, or client.to(roomId).emit which leaves the client out.
Broadcast(v, kind, u, role, except) ==
  LET message == [kind |-> kind, user |-> u, role |-> role, socket |-> None]
  IN  page' = Received(v, message, except) /\ Publish(v, message)

\* Faulty variant: handleDisconnect takes a closed socket for one that never joined.
CloseUnnoticed(s) == live' = [live EXCEPT ![s] = FALSE] /\ UNCHANGED bye

\* The socket closes, for any reason: it leaves the room and handleDisconnect
\* starts, which returns at once when client.data has no userId.
Close(s) ==
  /\ live' = [live EXCEPT ![s] = FALSE]
  /\ bye' = IF live[s] /\ data[s] # None THEN [bye EXCEPT ![s] = "del"] ELSE bye

\* handleConnection gives up: client.disconnect(true).
GiveUp(s) == pc' = [pc EXCEPT ![s] = "end"] /\ Close(s)

-----------------------------------------------------------------------------
(* handleConnection, up to USER_LIST; it goes on when the socket has closed *)
(* meanwhile.                                                              *)

Connect(s) ==
  /\ pc[s] = "off"
  /\ MayStart(OwnerOf[s])
  /\ OneTab => \A t \in SocketsOf(OwnerOf[s]) : ~live[t]
  /\ pc' = [pc EXCEPT ![s] = "check"]
  /\ live' = [live EXCEPT ![s] = TRUE]
  /\ UNCHANGED <<database, entries, bye, data, row, list, page, channel, commands, faults>>

\* roomMember.findUnique.
CheckMember(s) ==
  /\ pc[s] = "check"
  /\ \/ /\ member[OwnerOf[s]] # None
        /\ pc' = [pc EXCEPT ![s] = "list"]
        /\ row' = [row EXCEPT ![s] = member[OwnerOf[s]]]
        /\ UNCHANGED <<live, bye, faults>>
     \/ /\ \E found \in BOOLEAN : (found => member[OwnerOf[s]] = None) /\ Outcome(found)
        /\ GiveUp(s) /\ UNCHANGED row
  /\ UNCHANGED <<database, entries, data, list, page, channel, commands>>

\* getAllCurrentlyActiveUsersInRoom.
ReadActive(s) ==
  /\ pc[s] = "list"
  /\ \/ /\ pc' = [pc EXCEPT ![s] = "join"]
        /\ list' = [list EXCEPT ![s] = active]
        /\ UNCHANGED <<live, bye, faults>>
     \/ Outcome(FALSE) /\ GiveUp(s) /\ UNCHANGED list
  /\ UNCHANGED <<database, entries, data, row, page, channel, commands>>

\* client.join and client.data; nothing asks whether the socket is connected.
JoinRoom(s) ==
  /\ pc[s] = "join"
  /\ pc' = [pc EXCEPT ![s] = "add"]
  /\ data' = [data EXCEPT ![s] = row[s]]
  /\ UNCHANGED <<database, entries, bye, live, row, list, page, channel, commands, faults>>

\* addUserToCurrentlyActiveUsersList: client.data at the time of the call.
AddToActive(s) ==
  /\ pc[s] = "add"
  /\ \E ok \in BOOLEAN :
       /\ Outcome(ok)
       /\ Relist(Applied(ok, [active EXCEPT ![OwnerOf[s]] = row[s]], active))
       /\ IF ok THEN pc' = [pc EXCEPT ![s] = "tell"] /\ UNCHANGED <<live, bye>>
                ELSE GiveUp(s)
  /\ UNCHANGED <<database, data, row, list, page, channel, commands>>

\* USER_JOINED to the others, then USER_LIST to the socket, which replaces the
\* users on its page.
Announce(s) ==
  /\ pc[s] = "tell"
  /\ pc' = [pc EXCEPT ![s] = "in"]
  /\ LET joined == [kind |-> "joined", user |-> OwnerOf[s], role |-> row[s], socket |-> None]
     IN  /\ page' = [Received(Home[s], joined, s) EXCEPT ![s] = IF live[s] THEN list[s] ELSE @]
         /\ Publish(Home[s], joined)
  /\ row' = [row EXCEPT ![s] = None] /\ list' = [list EXCEPT ![s] = Nobody]
  /\ UNCHANGED <<database, entries, bye, live, data, commands, faults>>

HandleConnection(s) ==
  CheckMember(s) \/ ReadActive(s) \/ JoinRoom(s) \/ AddToActive(s) \/ Announce(s)

-----------------------------------------------------------------------------
(* handleDisconnect.                                                       *)

\* The tab closes, the connection breaks or the ping times out.
Leave(s) ==
  /\ live[s]
  /\ MayStart(OwnerOf[s])
  /\ Close(s)
  /\ UNCHANGED <<database, entries, connecting, data, page, channel, commands, faults>>

\* removeUserFromCurrentlyActiveList; a failure is logged. The commands of one
\* server reach Redis in the order it issues them.
RemoveFromActive(s) ==
  /\ bye[s] = "del" /\ pc[s] # "add"
  /\ bye' = [bye EXCEPT ![s] = "tell"]
  /\ \E ok \in BOOLEAN :
       /\ Outcome(ok)
       /\ Relist(Applied(ok, [active EXCEPT ![OwnerOf[s]] = None], active))
  /\ UNCHANGED <<database, connecting, live, data, page, channel, commands>>

TellDisconnected(s) ==
  /\ bye[s] = "tell"
  /\ bye' = [bye EXCEPT ![s] = "no"]
  /\ Broadcast(Home[s], "left", OwnerOf[s], None, s)
  /\ UNCHANGED <<database, entries, connecting, live, data, commands, faults>>

HandleDisconnect(s) == RemoveFromActive(s) \/ TellDisconnected(s)

-----------------------------------------------------------------------------
(* handleRemove, handleLeave and handlePromote.                            *)

Goto(c, label) == cpc' = [cpc EXCEPT ![c] = label]
End(c) == cpc' = [cpc EXCEPT ![c] = "done"] /\ arg' = [arg EXCEPT ![c] = NoArg]

\* RoomRoleGuard looks at client.data; leaving needs no role.
Issue(c) ==
  /\ cpc[c] = "new"
  /\ \E s \in {t \in Sockets : InRoom(t)}, u \in Users,
        kind \in {"remove", "leave", "promote"}, role \in RoleOrNone :
       /\ kind = "leave" => u = OwnerOf[s]
       /\ kind # "leave" => data[s] = "ADMIN"
       /\ kind = "remove" => u # OwnerOf[s]
       /\ kind = "promote" <=> role # None
       /\ MayStart(u)
       /\ arg' = [arg EXCEPT ![c] = [kind |-> kind, by |-> s, user |-> u,
                                     role |-> role, socket |-> None]]
       /\ Goto(c, IF kind = "leave" THEN "write" ELSE "fetch")
  /\ UNCHANGED <<database, entries, sockets, page, channel, faults>>

\* Faulty variant: what is kept is the userId of the socket found.
FetchSocketUser(c) ==
  LET there == {s \in SocketsOf(arg[c].user) : InRoom(s)} IN
  /\ cpc[c] = "fetch"
  /\ there # {}
  /\ arg' = [arg EXCEPT ![c].socket = arg[c].user]
  /\ Goto(c, IF arg[c].kind = "remove" THEN "find" ELSE "write")
  /\ UNCHANGED <<database, entries, sockets, page, channel, faults>>

\* getUserSocket: the first of the user's sockets in the room, if there is one.
FetchSocket(c) ==
  LET there == {s \in SocketsOf(arg[c].user) : InRoom(s)} IN
  /\ cpc[c] = "fetch"
  /\ \/ \E s \in IF there = {} THEN {None} ELSE there :
          /\ arg[c].kind = "promote" => s # None
          /\ arg' = [arg EXCEPT ![c].socket = s]
          /\ Goto(c, IF arg[c].kind = "remove" THEN "find" ELSE "write")
          /\ UNCHANGED faults
     \/ /\ \E found \in BOOLEAN :
             (found => arg[c].kind = "promote" /\ there = {}) /\ Outcome(found)
        /\ End(c)
  /\ UNCHANGED <<database, entries, sockets, page, channel>>

\* Faulty variant: only a socket of this server is disconnected.
DisconnectHere(v, s) ==
  /\ IF Home[s] = v THEN Close(s) ELSE UNCHANGED <<live, bye>>
  /\ UNCHANGED channel

\* socket.disconnect(true), through the adapter when another server has it.
Disconnect(v, s) ==
  IF Home[s] = v
  THEN Close(s) /\ UNCHANGED channel
  ELSE /\ channel' = [channel EXCEPT ![Home[s]] =
                        Append(@, [kind |-> "kick", user |-> OwnerOf[s],
                                   role |-> None, socket |-> s])]
       /\ UNCHANGED <<live, bye>>

\* handleRemove looks for the row; a socket without one is disconnected.
FindRow(c) ==
  LET stray == member[arg[c].user] = None /\ arg[c].socket # None IN
  /\ cpc[c] = "find"
  /\ \/ stray /\ End(c) /\ Disconnect(Home[arg[c].by], arg[c].socket) /\ UNCHANGED faults
     \/ ~stray /\ Goto(c, "write") /\ UNCHANGED <<arg, live, bye, channel, faults>>
     \/ Outcome(FALSE) /\ End(c) /\ UNCHANGED <<live, bye, channel>>
  /\ UNCHANGED <<database, entries, connecting, data, page>>

\* The write of the row, in a transaction except for handleLeave. Without a row
\* it throws P2025, on which handleLeave disconnects the client.
WriteRow(c) ==
  LET u == arg[c].user
      leaving == arg[c].kind = "leave"
  IN
  /\ cpc[c] = "write" /\ u \notin locked
  /\ \/ /\ member[u] # None
        /\ IF leaving
           THEN member' = [member EXCEPT ![u] = None] /\ Goto(c, "after") /\ UNCHANGED locked
           ELSE /\ locked' = locked \cup {u}
                /\ Goto(c, IF arg[c].kind = "remove" THEN "unlist" ELSE "hget")
                /\ UNCHANGED member
        /\ UNCHANGED <<arg, live, bye, faults>>
     \/ /\ member[u] = None
        /\ End(c)
        /\ IF leaving THEN Close(arg[c].by) ELSE UNCHANGED <<live, bye>>
        /\ UNCHANGED <<member, locked, faults>>
     \/ /\ Outcome(FALSE)
        /\ member' \in {member} \cup IF leaving THEN {[member EXCEPT ![u] = None]} ELSE {}
        /\ End(c) /\ UNCHANGED <<locked, live, bye>>
  /\ UNCHANGED <<entries, connecting, data, page, channel>>

\* Faulty variant: the transaction is left open.
RollbackForgotten(c) == Outcome(FALSE) /\ End(c) /\ UNCHANGED locked

\* A call inside the transaction fails.
Rollback(c) == Outcome(FALSE) /\ End(c) /\ locked' = locked \ {arg[c].user}

\* handleRemove: removeUserFromCurrentlyActiveList.
Unlist(c) ==
  LET removed == [active EXCEPT ![arg[c].user] = None] IN
  /\ cpc[c] = "unlist"
  /\ \/ Relist({removed}) /\ Goto(c, "commit") /\ UNCHANGED <<arg, locked, faults>>
     \/ Relist({active, removed}) /\ Rollback(c)
  /\ UNCHANGED <<member, sockets, page, channel>>

\* handlePromote: getUserFromCurrentlyActiveList; a user who is not in the list
\* is promoted in the database only.
ReadEntry(c) ==
  /\ cpc[c] = "hget"
  /\ \/ /\ Goto(c, IF active[arg[c].user] = None THEN "commit" ELSE "hset")
        /\ UNCHANGED <<arg, locked, faults>>
     \/ Rollback(c)
  /\ UNCHANGED <<member, entries, sockets, page, channel>>

\* Faulty variant: { role, ...entry } in place of { ...entry, role }.
WriteEntryKeepsRole(c) ==
  LET s == arg[c].socket IN
  /\ cpc[c] = "hset"
  /\ Relist({active}) /\ Goto(c, "commit")
  /\ data' = IF Home[s] = Home[arg[c].by] THEN [data EXCEPT ![s] = arg[c].role] ELSE data
  /\ UNCHANGED <<arg, locked, faults, member, connecting, bye, live, page, channel>>

\* Faulty variant: the role is changed in the list only.
WriteEntryListOnly(c) ==
  /\ cpc[c] = "hset"
  /\ Relist({[active EXCEPT ![arg[c].user] = arg[c].role]}) /\ Goto(c, "commit")
  /\ UNCHANGED <<arg, locked, faults, member, connecting, bye, live, data, page, channel>>

\* handlePromote: the entry read is written back with the new role, and so is
\* client.data, or the copy of it that another server sent.
WriteEntry(c) ==
  LET u == arg[c].user
      s == arg[c].socket
      promoted == [active EXCEPT ![u] = arg[c].role]
  IN
  /\ cpc[c] = "hset"
  /\ \/ /\ Relist({promoted}) /\ Goto(c, "commit")
        /\ data' = IF Home[s] = Home[arg[c].by]
                   THEN [data EXCEPT ![s] = arg[c].role] ELSE data
        /\ UNCHANGED <<arg, locked, faults>>
     \/ Relist({active, promoted}) /\ Rollback(c) /\ UNCHANGED data
  /\ UNCHANGED <<member, connecting, bye, live, page, channel>>

Commit(c) ==
  LET u == arg[c].user
      written == [member EXCEPT ![u] = arg[c].role]
  IN
  /\ cpc[c] = "commit"
  /\ \/ member' = written /\ locked' = locked \ {u} /\ Goto(c, "after")
        /\ UNCHANGED <<arg, faults>>
     \/ member' \in {member, written} /\ Rollback(c)
  /\ UNCHANGED <<entries, sockets, page, channel>>

\* After the write: the socket is disconnected, or the room is told.
Conclude(c) ==
  LET v == Home[arg[c].by] IN
  /\ cpc[c] = "after"
  /\ End(c)
  /\ CASE arg[c].kind = "promote" ->
            Broadcast(v, "promoted", arg[c].user, arg[c].role, None) /\ UNCHANGED <<live, bye>>
       [] arg[c].kind = "leave" -> Close(arg[c].by) /\ UNCHANGED <<page, channel>>
       [] arg[c].kind = "remove" /\ arg[c].socket # None ->
            Disconnect(v, arg[c].socket) /\ UNCHANGED page
       [] OTHER -> UNCHANGED <<live, bye, page, channel>>
  /\ UNCHANGED <<database, entries, connecting, data, faults>>

HandleCommand(c) ==
  \/ FetchSocket(c) \/ FindRow(c) \/ WriteRow(c) \/ Unlist(c) \/ ReadEntry(c)
  \/ WriteEntry(c) \/ Commit(c) \/ Conclude(c)

-----------------------------------------------------------------------------
\* A server receives what another one published.
Receive(v) ==
  /\ channel[v] # <<>>
  /\ LET message == Head(channel[v]) IN
       IF message.kind = "kick"
       THEN Close(message.socket) /\ channel' = [channel EXCEPT ![v] = Tail(@)] /\ UNCHANGED page
       ELSE /\ page' = Received(v, message, None)
            /\ channel' = [channel EXCEPT ![v] = Tail(@)] /\ UNCHANGED <<live, bye>>
  /\ UNCHANGED <<database, entries, connecting, data, commands, faults>>

\* A server dies with its sockets and handlers; Postgres rolls back.
Crash(v) ==
  LET lost == {c \in Commands : cpc[c] \notin {"new", "done"} /\ Home[arg[c].by] = v}
      here == {s \in Sockets : Home[s] = v /\ pc[s] # "off"}
  IN
  /\ Outcome(FALSE)
  /\ live' = [s \in Sockets |-> live[s] /\ s \notin here]
  /\ pc' = [s \in Sockets |-> IF s \in here THEN "end" ELSE pc[s]]
  /\ bye' = [s \in Sockets |-> IF s \in here THEN "no" ELSE bye[s]]
  /\ channel' = [channel EXCEPT ![v] = <<>>]
  /\ locked' = locked \ {arg[c].user : c \in {d \in lost : cpc[d] \in {"unlist", "hget", "hset", "commit"}}}
  /\ cpc' = [c \in Commands |-> IF c \in lost THEN "done" ELSE cpc[c]]
  /\ arg' = [c \in Commands |-> IF c \in lost THEN NoArg ELSE arg[c]]
  /\ UNCHANGED <<member, entries, data, row, list, page>>

Next ==
  \/ \E s \in Sockets :
       Connect(s) \/ Leave(s) \/ HandleConnection(s) \/ HandleDisconnect(s)
  \/ \E c \in Commands : Issue(c) \/ HandleCommand(c)
  \/ \E v \in Servers : Receive(v) \/ Crash(v)

Spec == Init /\ [][Next]_vars

\* Calls return, the event loop is fair, and Redis delivers what was published.
Fairness ==
  /\ \A s \in Sockets : WF_vars(HandleConnection(s)) /\ WF_vars(HandleDisconnect(s))
  /\ \A c \in Commands : WF_vars(HandleCommand(c))
  /\ \A v \in Servers : WF_vars(Receive(v))

FairSpec == Spec /\ Fairness

-----------------------------------------------------------------------------
(* Properties. They speak of a user for whom nothing is going on.          *)

There(u) == \E s \in SocketsOf(u) : InRoom(s)

\* The list of currently active users is exactly who has a socket in the room,
\* after any connections, disconnections, removals and promotions of users one
\* after the other.
PresenceIsExact == \A u \in Users : Undisturbed(u) => (active[u] # None <=> There(u))

\* Who has no row in RoomMember has no socket in the room: handleRemove and
\* handleLeave disconnect, and handleConnection asks for the row before it joins.
OnlyMembersAreThere ==
  \A u \in Users : Undisturbed(u) /\ There(u) => member[u] # None

\* The list gives the role of the database.
ListedRoleIsCurrent ==
  \A u \in Users : Undisturbed(u) /\ There(u) => active[u] = member[u]

\* The role RoomRoleGuard looks at is the role of the database, as long as every
\* socket has been on the server of this one: handlePromote can change client.data
\* on its own server only.
GuardedRoleIsCurrent ==
  \A s \in Sockets :
    InRoom(s) /\ Undisturbed(OwnerOf[s]) /\ (\A t \in Sockets : pc[t] # "off" => Home[t] = Home[s])
      => data[s] = member[OwnerOf[s]]

\* The page of a user shows the others with their roles, but for users whose entry
\* changed while the page's own socket was between usersCurrentlyInRoom and
\* USER_LIST.
PagesShowTheOthers ==
  \A s \in Sockets, u \in Users :
    InRoom(s) /\ pc[s] = "in" /\ u # OwnerOf[s] /\ u \notin blurred[s] /\ Undisturbed(u)
      => page[s][u] = active[u]

\* Whatever fails, whichever server dies and however two commands meet on a row,
\* every command comes to an end: no row stays locked by a transaction whose handler
\* is gone.
CommandsEnd == \A c \in Commands : cpc[c] # "new" ~> cpc[c] = "done"

=============================================================================
