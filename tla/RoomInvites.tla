----------------------------- MODULE RoomInvites -----------------------------
(***************************************************************************)
(* The invites of one room: inviteUser and revokeInvite of RoomsService,   *)
(* updateInvite of AccountsService. Revoking and answering read the status *)
(* in one call and write in the next. A transaction is one step: Postgres  *)
(* runs it on one version of the rows it writes, and it leaves nothing     *)
(* when it fails.                                                          *)
(*                                                                         *)
(* An answer comes from a user who is signed in and has the id of the      *)
(* invite, and makes that caller a member: updateInvite does not read the  *)
(* email the invite was sent to, so this module does not have it either.   *)
(*                                                                         *)
(* Simplifications: the role of an invite is the role of the row it        *)
(* creates and is left out, as is expires_at, which neither request reads; *)
(* a write that fails for the caller may have been carried out.            *)
(***************************************************************************)
EXTENDS Integers

CONSTANTS
  Invites, Users, Requests,
  MaxFaults   \* how many calls may fail

ASSUME FaultAssumption == MaxFaults \in Nat

VARIABLES
  status,   \* rows of Invite: "none" yet, InviteStatus, "revoked", or "gone" with the room
  mail,     \* inviteUser: not asked, sent before the commit, sent and over, or refused
  members,  \* rows of RoomMember
  pc,       \* what a request does next
  about,    \* its invite
  caller,   \* the user who is signed in: req.user.id
  wants,    \* the status it asks for, or "revoked"
  faults,
  overlapped  \* history: invites that two requests were about at the same time

vars == <<status, mail, members, pc, about, caller, wants, faults, overlapped>>

Answers == {"PENDING", "ACCEPTED", "REJECTED"}
Row(i) == status[i] \in Answers

TypeOK ==
  /\ status \in [Invites -> Answers \cup {"none", "revoked", "gone"}]
  /\ mail \in [Invites -> {"none", "sent", "over", "refused"}]
  /\ members \subseteq Users
  /\ pc \in [Requests -> {"new", "check", "write", "done"}]
  /\ about \in [Requests -> Invites] /\ caller \in [Requests -> Users]
  /\ wants \in [Requests -> Answers \cup {"revoked"}]
  /\ faults \in 0..MaxFaults /\ overlapped \subseteq Invites

Init ==
  /\ status = [i \in Invites |-> "none"] /\ mail = [i \in Invites |-> "none"]
  /\ members = {}
  /\ pc = [r \in Requests |-> "new"]
  /\ about \in [Requests -> Invites] /\ caller \in [Requests -> Users]
  /\ wants \in [Requests -> Answers \cup {"revoked"}]
  /\ faults = 0 /\ overlapped = {}

Outcome(ok) ==
  IF ok THEN UNCHANGED faults ELSE faults < MaxFaults /\ faults' = faults + 1

requests == <<pc, about, caller, wants, overlapped>>

-----------------------------------------------------------------------------
(* inviteUser.                                                             *)

\* The row is created, not committed, and the mail is sent; the transaction is
\* given up when it cannot be.
SendMail(i) ==
  /\ mail[i] = "none"
  /\ \E ok \in BOOLEAN :
       Outcome(ok) /\ mail' = [mail EXCEPT ![i] = IF ok THEN "sent" ELSE "refused"]
  /\ UNCHANGED <<status, members, requests>>

\* The commit, which fails when the mail took longer than a transaction may.
CommitInvite(i) ==
  /\ mail[i] = "sent"
  /\ mail' = [mail EXCEPT ![i] = "over"]
  /\ \E ok \in BOOLEAN :
       /\ Outcome(ok)
       /\ status' \in {[status EXCEPT ![i] = "PENDING"]} \cup IF ok THEN {} ELSE {status}
  /\ UNCHANGED <<members, requests>>

-----------------------------------------------------------------------------
(* updateInvite and revokeInvite.                                          *)

InProgress(i) == \E r \in Requests : about[r] = i /\ pc[r] \in {"check", "write"}

\* A page that has the id of the invite asks.
Request(r) ==
  /\ pc[r] = "new" /\ status[about[r]] # "none"
  /\ pc' = [pc EXCEPT ![r] = "check"]
  /\ overlapped' = overlapped \cup {i \in {about[r]} : InProgress(i)}
  /\ UNCHANGED <<status, mail, members, about, caller, wants, faults>>

\* Faulty variant: any invite that exists will do.
CheckPendingRowOnly(r) ==
  /\ pc[r] = "check"
  /\ pc' = [pc EXCEPT ![r] = IF Row(about[r]) THEN "write" ELSE "done"]
  /\ UNCHANGED <<status, mail, members, about, caller, wants, faults, overlapped>>

\* findUniqueOrThrow, and the request is refused unless the invite is PENDING.
CheckPending(r) ==
  /\ pc[r] = "check"
  /\ \E ok \in BOOLEAN :
       /\ Outcome(ok)
       /\ pc' = [pc EXCEPT ![r] =
                   IF ok /\ status[about[r]] = "PENDING" THEN "write" ELSE "done"]
  /\ UNCHANGED <<status, mail, members, about, caller, wants, overlapped>>

\* Faulty variant: a status that the enum InviteStatus does not have.
DeleteSoftly(r) ==
  /\ wants[r] = "revoked" /\ Row(about[r])
  /\ status' = [status EXCEPT ![about[r]] = "REVOKED"]
  /\ UNCHANGED members

\* revokeInvite: the row is deleted whatever its status is by now.
Delete(r) ==
  LET i == about[r] IN
  /\ wants[r] = "revoked" /\ Row(i)
  /\ status' = [status EXCEPT ![i] = "revoked"]
  /\ UNCHANGED members

\* Faulty variant: the two writes of updateInvite in no transaction.
AnswerUnguarded(r) ==
  /\ wants[r] \in Answers /\ Row(about[r])
  /\ status' = [status EXCEPT ![about[r]] = wants[r]]
  /\ \/ wants[r] = "ACCEPTED" /\ members' = members \cup {caller[r]}
     \/ UNCHANGED members

\* updateInvite: the row is updated whatever its status is by now; who accepts
\* becomes a member. A caller who is a member already fails the transaction.
Answer(r) ==
  /\ wants[r] \in Answers /\ Row(about[r])
  /\ status' = [status EXCEPT ![about[r]] = wants[r]]
  /\ \/ /\ wants[r] = "ACCEPTED" /\ caller[r] \notin members
        /\ members' = members \cup {caller[r]}
     \/ wants[r] # "ACCEPTED" /\ UNCHANGED members

\* There is no row to write, or the caller is a member already.
Refused(r) ==
  \/ ~Row(about[r])
  \/ wants[r] = "ACCEPTED" /\ caller[r] \in members

Write(r) ==
  /\ pc[r] = "write"
  /\ pc' = [pc EXCEPT ![r] = "done"]
  /\ \/ (Delete(r) \/ Answer(r)) /\ UNCHANGED faults
     \/ Refused(r) /\ UNCHANGED <<status, members, faults>>
     \/ (Delete(r) \/ Answer(r) \/ UNCHANGED <<status, members>>) /\ Outcome(FALSE)
  /\ UNCHANGED <<mail, about, caller, wants, overlapped>>

-----------------------------------------------------------------------------
\* handleRemove or handleLeave deletes the row.
Depart(u) ==
  /\ u \in members
  /\ members' = members \ {u}
  /\ UNCHANGED <<status, mail, requests, faults>>

\* deleteRoom deletes the room, and the invites and members with it.
DeleteRoom ==
  /\ status' = [i \in Invites |-> IF status[i] = "none" THEN "none" ELSE "gone"]
  /\ members' = {}
  /\ mail' = [i \in Invites |-> IF mail[i] = "sent" THEN "over"
                                ELSE IF mail[i] = "none" THEN "refused" ELSE mail[i]]
  /\ UNCHANGED <<requests, faults>>

Next ==
  \/ \E i \in Invites : SendMail(i) \/ CommitInvite(i)
  \/ \E r \in Requests : Request(r) \/ CheckPending(r) \/ Write(r)
  \/ \E u \in Users : Depart(u)
  \/ DeleteRoom

Spec == Init /\ [][Next]_vars
-----------------------------------------------------------------------------
(* Properties.                                                             *)

\* Requests keep the promise of InviteContract: one answer or revocation, whatever is
\* retried after a failure of unknown outcome, one member at most by an invite, and no
\* membership without one. About an invite whose requests overlapped the promise is
\* only that each answer takes effect as a whole, and none after a revocation.
Contract == INSTANCE InviteContract
ImplementsInviteContract == Contract!Spec

\* However requests overlap and fail, an invite becomes ACCEPTED only with a caller
\* who accepts it becoming a member, and nobody becomes a member in another way:
\* the two writes of updateInvite go together.
Admits(r) == pc[r] = "write" /\ wants[r] = "ACCEPTED" /\ caller[r] \in members' \ members
AcceptingAdmits ==
  [][/\ \A i \in Invites : status[i] # "ACCEPTED" /\ status'[i] = "ACCEPTED"
          => \E r \in Requests : about[r] = i /\ Admits(r)
     /\ \A u \in members' \ members :
          \E r \in Requests : caller[r] = u /\ Admits(r) /\ status'[about[r]] = "ACCEPTED"]_vars

=============================================================================
