-------------------------- MODULE RoomInvitesProofs --------------------------
(***************************************************************************)
(* Requests implement InviteContract, for any invites, users, requests,    *)
(* overlaps and failures. The invariant: an invite whose requests did not  *)
(* overlap has at most one in progress, and a request that is about to     *)
(* write found the invite PENDING, which it still is unless the room has   *)
(* gone.                                                                   *)
(***************************************************************************)
EXTENDS RoomInvites, TLAPS

Busy(r) == pc[r] \in {"check", "write"}

\* One request at a time for an invite.
Alone ==
  \A r, q \in Requests :
    Busy(r) /\ Busy(q) /\ about[r] = about[q] => r = q \/ about[r] \in overlapped

\* What CheckPending saw still holds.
Checked ==
  \A r \in Requests :
    pc[r] = "write" => status[about[r]] \in {"PENDING", "gone"} \/ about[r] \in overlapped

\* An invite whose mail is out before the commit has no row yet.
Unsent == \A i \in Invites : mail[i] \in {"none", "sent"} => status[i] = "none"

IInv == TypeOK /\ Alone /\ Checked /\ Unsent

LEMMA InitInv == Init => IInv
  BY FaultAssumption DEF Init, IInv, TypeOK, Alone, Checked, Unsent, Busy, Answers

\* Every variable keeps its type, however requests overlap.
LEMMA TypeStep == TypeOK /\ [Next]_vars => TypeOK'
  <1> SUFFICES ASSUME TypeOK, [Next]_vars PROVE TypeOK'
    OBVIOUS
  <1> USE FaultAssumption DEF TypeOK, Answers
  <1>1. ASSUME NEW i \in Invites, SendMail(i) PROVE TypeOK'
    BY <1>1 DEF SendMail, Outcome, requests
  <1>2. ASSUME NEW i \in Invites, CommitInvite(i) PROVE TypeOK'
    BY <1>2 DEF CommitInvite, Outcome, requests
  <1>4. ASSUME NEW r \in Requests, Request(r) PROVE TypeOK'
    BY <1>4 DEF Request
  <1>5. ASSUME NEW r \in Requests, CheckPending(r) PROVE TypeOK'
    BY <1>5 DEF CheckPending, Outcome
  <1>6. ASSUME NEW r \in Requests, Write(r) PROVE TypeOK'
    BY <1>6 DEF Write, Delete, Answer, Refused, Outcome, Row
  <1>7. ASSUME NEW u \in Users, Depart(u) PROVE TypeOK'
    BY <1>7 DEF Depart, requests
  <1>8. ASSUME DeleteRoom PROVE TypeOK'
    BY <1>8 DEF DeleteRoom, requests
  <1>9. ASSUME UNCHANGED vars PROVE TypeOK'
    BY <1>9 DEF vars
  <1> QED
    BY <1>1, <1>2, <1>4, <1>5, <1>6, <1>7, <1>8, <1>9 DEF Next

LEMMA AloneStep ==
  ASSUME TypeOK, Alone, [Next]_vars PROVE Alone'
  <1> USE DEF TypeOK, Alone, Busy
  <1>1. ASSUME NEW r \in Requests, Request(r) PROVE Alone'
    BY <1>1 DEF Request, InProgress
  <1>2. ASSUME NEW r \in Requests, CheckPending(r) PROVE Alone'
    <2>1. \A q \in Requests : Busy(q)' => Busy(q)
      BY <1>2 DEF CheckPending
    <2>2. UNCHANGED <<about, overlapped>>
      BY <1>2 DEF CheckPending
    <2> QED
      BY <2>1, <2>2
  <1>3. ASSUME NEW r \in Requests, Write(r) PROVE Alone'
    <2>1. \A q \in Requests : Busy(q)' => Busy(q)
      BY <1>3 DEF Write
    <2>2. UNCHANGED <<about, overlapped>>
      BY <1>3 DEF Write
    <2> QED
      BY <2>1, <2>2
  <1>4. ASSUME UNCHANGED requests PROVE Alone'
    BY <1>4 DEF requests
  <1> QED
    BY <1>1, <1>2, <1>3, <1>4
       DEF Next, vars, requests, SendMail, CommitInvite, Depart, DeleteRoom

LEMMA CheckedStep ==
  ASSUME TypeOK, Alone, Checked, Unsent, [Next]_vars PROVE Checked'
  <1> USE DEF TypeOK, Checked
  <1>1. ASSUME NEW i \in Invites, SendMail(i) PROVE Checked'
    BY <1>1 DEF SendMail, requests
  <1>2. ASSUME NEW i \in Invites, CommitInvite(i) PROVE Checked'
    BY <1>2 DEF CommitInvite, requests
  <1>4. ASSUME NEW r \in Requests, Request(r) PROVE Checked'
    BY <1>4 DEF Request
  <1>5. ASSUME NEW r \in Requests, CheckPending(r) PROVE Checked'
    BY <1>5 DEF CheckPending
  <1>6. ASSUME NEW r \in Requests, Write(r) PROVE Checked'
    \* Only r's own invite changes, and no other request is busy with it.
    <2>1. /\ pc' = [pc EXCEPT ![r] = "done"] /\ UNCHANGED <<about, overlapped>>
          /\ \A i \in Invites : i # about[r] => status'[i] = status[i]
      BY <1>6 DEF Write, Delete, Answer
    <2>2. \A q \in Requests : pc'[q] = "write" =>
            /\ q # r /\ pc[q] = "write"
            /\ about[q] # about[r] \/ about[q] \in overlapped
      BY <1>6, <2>1 DEF Alone, Busy, Write
    <2> QED
      BY <2>1, <2>2
  <1>7. ASSUME NEW u \in Users, Depart(u) PROVE Checked'
    BY <1>7 DEF Depart, requests
  <1>8. ASSUME DeleteRoom PROVE Checked'
    BY <1>8 DEF DeleteRoom, requests
  <1>9. ASSUME UNCHANGED vars PROVE Checked'
    BY <1>9 DEF vars
  <1> QED
    BY <1>1, <1>2, <1>4, <1>5, <1>6, <1>7, <1>8, <1>9 DEF Next

LEMMA UnsentStep ==
  ASSUME TypeOK, Unsent, [Next]_vars PROVE Unsent'
  <1> USE DEF TypeOK, Unsent, Answers
  <1>1. ASSUME NEW i \in Invites, SendMail(i) PROVE Unsent'
    BY <1>1 DEF SendMail
  <1>2. ASSUME NEW i \in Invites, CommitInvite(i) PROVE Unsent'
    BY <1>2 DEF CommitInvite
  <1>3. ASSUME NEW r \in Requests, Write(r) PROVE Unsent'
    BY <1>3 DEF Write, Delete, Answer, Row
  <1>4. ASSUME DeleteRoom PROVE Unsent'
    BY <1>4 DEF DeleteRoom
  <1>5. ASSUME UNCHANGED <<status, mail>> PROVE Unsent'
    BY <1>5
  <1> QED
    BY <1>1, <1>2, <1>3, <1>4, <1>5
       DEF Next, vars, Request, CheckPending, Depart

\* Type correctness of RoomInvites, for any invites, users, requests and bounds.
THEOREM TypeCorrect == Spec => []TypeOK
  <1>1. Init => TypeOK
    BY InitInv DEF IInv
  <1> QED
    BY <1>1, TypeStep, PTL DEF Spec

LEMMA InvHolds == Spec => []IInv
  <1>1. IInv /\ [Next]_vars => IInv'
    BY TypeStep, AloneStep, CheckedStep, UnsentStep DEF IInv
  <1> QED
    BY <1>1, InitInv, PTL DEF Spec

-----------------------------------------------------------------------------
LEMMA WriteImplements ==
  ASSUME IInv, NEW r \in Requests, Write(r)
  PROVE  Contract!Next \/ UNCHANGED <<status, members, overlapped>>
  <1> DEFINE i == about[r]
  <1>1. i \in Invites /\ caller[r] \in Users /\ UNCHANGED overlapped
    BY DEF IInv, TypeOK, Write
  <1>2. Row(i) => Contract!Open(i)
    BY DEF Write, IInv, Checked, Row, Answers, Contract!Open
  <1>3. ASSUME Delete(r) PROVE Contract!Close(i)
    BY <1>1, <1>2, <1>3 DEF Delete, Contract!Close
  <1>4. ASSUME Answer(r), wants[r] = "ACCEPTED" PROVE Contract!Accept(i)
    BY <1>1, <1>2, <1>4 DEF Answer, Contract!Accept
  <1>5. ASSUME Answer(r), wants[r] # "ACCEPTED" PROVE Contract!Close(i)
    BY <1>1, <1>2, <1>5 DEF Answer, Answers, Contract!Close
  <1>6. Delete(r) \/ Answer(r) \/ UNCHANGED <<status, members>>
    BY DEF Write
  <1> QED
    BY <1>1, <1>3, <1>4, <1>5, <1>6 DEF Contract!Next

LEMMA RequestImplements ==
  ASSUME IInv, NEW r \in Requests, Request(r)
  PROVE  Contract!Next \/ UNCHANGED <<status, members, overlapped>>
  <1>1. about[r] \in Invites /\ UNCHANGED <<status, members>>
    BY DEF IInv, TypeOK, Request
  <1>2. overlapped' = overlapped \cup {about[r]} \/ UNCHANGED overlapped
    BY DEF Request
  <1> QED
    BY <1>1, <1>2 DEF Contract!Next, Contract!Overlap

LEMMA StepImplements ==
  ASSUME IInv, [Next]_vars PROVE [Contract!Next]_<<status, members, overlapped>>
  <1>1. ASSUME NEW i \in Invites, SendMail(i) PROVE UNCHANGED <<status, members, overlapped>>
    BY <1>1 DEF SendMail, requests
  <1>2. ASSUME NEW i \in Invites, CommitInvite(i)
        PROVE  Contract!Send(i) \/ UNCHANGED <<status, members, overlapped>>
    BY <1>2 DEF CommitInvite, requests, IInv, Unsent, Contract!Send
  <1>3. ASSUME NEW r \in Requests, Request(r) \/ Write(r)
        PROVE  Contract!Next \/ UNCHANGED <<status, members, overlapped>>
    BY <1>3, RequestImplements, WriteImplements
  <1>4. ASSUME NEW r \in Requests, CheckPending(r)
        PROVE  UNCHANGED <<status, members, overlapped>>
    BY <1>4 DEF CheckPending
  <1>5. ASSUME NEW u \in Users, Depart(u) PROVE Contract!Depart(u)
    BY <1>5 DEF Depart, requests, Contract!Depart
  <1>6. ASSUME DeleteRoom PROVE Contract!End
    BY <1>6 DEF DeleteRoom, requests, Contract!End
  <1> QED
    BY <1>1, <1>2, <1>3, <1>4, <1>5, <1>6 DEF Next, Contract!Next, vars

\* Requests keep the promise of InviteContract: an invite is answered or revoked once
\* unless requests about it overlapped, and only accepting it makes a member, the caller.
THEOREM KeepsContract == Spec => ImplementsInviteContract
  <1>1. Init => Contract!Init
    BY DEF Init, Contract!Init
  <1>2. IInv /\ [Next]_vars => [Contract!Next]_<<status, members, overlapped>>
    BY StepImplements
  <1> QED
    BY <1>1, <1>2, InvHolds, PTL DEF Spec, ImplementsInviteContract, Contract!Spec

-----------------------------------------------------------------------------
\* What AcceptingAdmits asks of one step.
Together ==
  /\ \A i \in Invites : status[i] # "ACCEPTED" /\ status'[i] = "ACCEPTED"
       => \E r \in Requests : about[r] = i /\ Admits(r)
  /\ \A u \in members' \ members :
       \E r \in Requests : caller[r] = u /\ Admits(r) /\ status'[about[r]] = "ACCEPTED"

\* A step that accepts nothing and admits nobody.
NoneAdmitted ==
  /\ \A i \in Invites : status'[i] = "ACCEPTED" => status[i] = "ACCEPTED"
  /\ members' \subseteq members

LEMMA AdmitStep ==
  ASSUME TypeOK, Unsent, [Next]_vars PROVE Together
  <1> USE DEF TypeOK
  <1>1. ASSUME NEW r \in Requests, Answer(r), pc[r] = "write" PROVE Together
    <2>1. CASE wants[r] = "ACCEPTED"
      <3>1. Admits(r) /\ members' = members \cup {caller[r]}
        BY <1>1, <2>1 DEF Answer, Admits
      <3>2. status' = [status EXCEPT ![about[r]] = "ACCEPTED"]
        BY <1>1, <2>1 DEF Answer
      <3> QED
        BY <3>1, <3>2 DEF Together
    <2>2. CASE wants[r] # "ACCEPTED"
      BY <1>1, <2>2 DEF Answer, Together
    <2> QED
      BY <2>1, <2>2
  <1>2. ASSUME NEW r \in Requests, Delete(r) PROVE NoneAdmitted
    BY <1>2 DEF Delete, NoneAdmitted
  <1>3. ASSUME NEW i \in Invites, CommitInvite(i) PROVE NoneAdmitted
    BY <1>3 DEF CommitInvite, NoneAdmitted
  <1>4. ASSUME DeleteRoom PROVE NoneAdmitted
    BY <1>4 DEF DeleteRoom, NoneAdmitted
  <1>5. ASSUME UNCHANGED status, members' \subseteq members PROVE NoneAdmitted
    BY <1>5 DEF NoneAdmitted
  <1>6. NoneAdmitted => Together
    BY DEF NoneAdmitted, Together
  <1> QED
    BY <1>1, <1>2, <1>3, <1>4, <1>5, <1>6
       DEF Next, vars, SendMail, Request, CheckPending, Write, Depart

\* The two writes of updateInvite go together, with any overlap and any failures:
\* who accepts becomes a member, and nobody else does.
THEOREM AcceptanceAndMembershipGoTogether == Spec => AcceptingAdmits
  <1>1. Init => TypeOK /\ Unsent
    BY InitInv DEF IInv
  <1>2. TypeOK /\ Unsent /\ [Next]_vars => TypeOK' /\ Unsent'
    BY TypeStep, UnsentStep
  <1>3. TypeOK /\ Unsent /\ [Next]_vars => [Together]_vars
    BY AdmitStep
  <1>4. [Together]_vars <=>
          [/\ \A i \in Invites : status[i] # "ACCEPTED" /\ status'[i] = "ACCEPTED"
                => \E r \in Requests : about[r] = i /\ Admits(r)
           /\ \A u \in members' \ members :
                \E r \in Requests : caller[r] = u /\ Admits(r) /\ status'[about[r]] = "ACCEPTED"]_vars
    BY DEF Together
  <1> QED
    BY <1>1, <1>2, <1>3, <1>4, PTL DEF Spec, AcceptingAdmits

=============================================================================
