----------------------------- MODULE Admission -----------------------------
(***************************************************************************)
(* What the platform promises of the invitations to one e-mail address,    *)
(* with no calls, queues, workers or failures in sight.                    *)
(*                                                                         *)
(* Any organisation may invite the address, with one invitation open at a  *)
(* time.  It is closed once, by somebody who is admitted by it or by       *)
(* nobody, and does not come back.  However many try to join, and by       *)
(* whatever invitations, the address gets one user.  A mail is confirmed   *)
(* after it went out; to ask for another takes mail and confirmation back. *)
(*                                                                         *)
(* OrgInvites is shown to implement this module.                           *)
(***************************************************************************)
CONSTANTS
  Invites,
  InvitedTo, \* InvitedTo[i]: the organisation that invitation i is of
  Users      \* who tries to join with the address

VARIABLES
  open,      \* invitations that may be used
  closed,    \* those that were, or were taken back
  admitted,  \* admitted[i]: who has used invitation i
  user,      \* the user the address belongs to
  mailed,    \* invitations mailed since that was last asked for
  confirmed  \* those whose mail has been confirmed

vars == <<open, closed, admitted, user, mailed, confirmed>>

Init ==
  /\ open = {} /\ closed = {}
  /\ admitted = [i \in Invites |-> {}]
  /\ user = {}
  /\ mailed = {} /\ confirmed = {}

Close(gone) == open' = open \ gone /\ closed' = closed \cup gone

-----------------------------------------------------------------------------
Invite(i) ==
  /\ i \notin closed
  /\ \A j \in open : InvitedTo[j] # InvitedTo[i]
  /\ open' = open \cup {i}
  /\ UNCHANGED <<closed, admitted, user, mailed, confirmed>>

\* Revoked, or expired.
TakeBack(gone) ==
  /\ Close(gone)
  /\ UNCHANGED <<admitted, user, mailed, confirmed>>

Admit(i, u) ==
  /\ i \in open /\ Close({i})
  /\ \A j \in Invites : u \notin admitted[j]
  /\ admitted' = [admitted EXCEPT ![i] = {u}]
  /\ UNCHANGED <<user, mailed, confirmed>>

\* With an invitation or without one.
Join(u) ==
  /\ user = {} /\ user' = {u}
  /\ UNCHANGED <<open, closed, admitted, mailed, confirmed>>

Mail(i) ==
  /\ i \in open \cup closed
  /\ mailed' = mailed \cup {i}
  /\ UNCHANGED <<open, closed, admitted, user, confirmed>>

Confirm(i) ==
  /\ i \in mailed
  /\ confirmed' = confirmed \cup {i}
  /\ UNCHANGED <<open, closed, admitted, user, mailed>>

\* The mail is asked for again.
Again(i) ==
  /\ mailed' = mailed \ {i} /\ confirmed' = confirmed \ {i}
  /\ UNCHANGED <<open, closed, admitted, user>>

Next ==
  \/ \E i \in Invites : Invite(i) \/ Mail(i) \/ Confirm(i) \/ Again(i)
  \/ \E gone \in SUBSET open : TakeBack(gone)
  \/ \E u \in Users : Join(u) \/ \E i \in Invites : Admit(i, u)

Spec == Init /\ [][Next]_vars

=============================================================================
