--------------------------- MODULE InviteContract ---------------------------
(* What inviting promises: an invite is answered or revoked once, and a     *)
(* user becomes a member by accepting one, alone, and in no other way. When *)
(* requests about an invite overlap, a later answer may replace an earlier  *)
(* one, but none comes after a revocation.                                  *)
CONSTANTS Invites, Users

VARIABLES status, members, overlapped

Init == status = [i \in Invites |-> "none"] /\ members = {} /\ overlapped = {}

Send(i) ==
  /\ status[i] = "none"
  /\ status' = [status EXCEPT ![i] = "PENDING"]
  /\ UNCHANGED <<members, overlapped>>

Overlap(i) ==
  /\ overlapped' = overlapped \cup {i}
  /\ UNCHANGED <<status, members>>

Open(i) ==
  status[i] = "PENDING" \/ (i \in overlapped /\ status[i] \in {"ACCEPTED", "REJECTED"})

Accept(i) ==
  /\ Open(i)
  /\ status' = [status EXCEPT ![i] = "ACCEPTED"]
  /\ \E u \in Users \ members : members' = members \cup {u}
  /\ UNCHANGED overlapped

\* An answer may also be PENDING, which says nothing of an invite that is.
Close(i) ==
  /\ Open(i)
  /\ \E outcome \in {"PENDING", "REJECTED", "revoked"} :
       status' = [status EXCEPT ![i] = outcome]
  /\ UNCHANGED <<members, overlapped>>

\* A member leaves or is removed.
Depart(u) == members' = members \ {u} /\ UNCHANGED <<status, overlapped>>

\* The room goes with its rows.
End ==
  /\ status' = [i \in Invites |-> IF status[i] = "none" THEN "none" ELSE "gone"]
  /\ members' = {} /\ UNCHANGED overlapped

Next ==
  \/ \E i \in Invites : Send(i) \/ Overlap(i) \/ Accept(i) \/ Close(i)
  \/ \E u \in Users : Depart(u)
  \/ End

Spec == Init /\ [][Next]_<<status, members, overlapped>>
=============================================================================
