---------------------------- MODULE OrgInvites ----------------------------
(***************************************************************************)
(* Invitations and signups of one e-mail address, which any organisation   *)
(* may invite: the calls that create, revoke and send again an invitation  *)
(* (pkg/services/org_invite_service.go, pkg/stores/pgstore/                *)
(* org_invite_store.go), the workers that mail pending invitations and     *)
(* delete expired ones (pkg/worker/invite), and the signups that use one   *)
(* or make an organisation of their own (pkg/services/signup_service.go,   *)
(* user_service.go, project_service.go, pkg/auth/oauth_github.go).  Roles  *)
(* are kept by Casbin, which writes outside the transactions of the        *)
(* database.                                                               *)
(***************************************************************************)
EXTENDS Naturals, FiniteSets

CONSTANTS
  Invites,      \* ids of invitations of the address
  InvitedTo,    \* InvitedTo[i]: the organisation that invitation i is of
  Users,        \* ids of users: one for each attempt to sign up with the address
  Requests,     \* calls of administrators that may be in flight at once
  MaxFailures   \* bound on failed steps and crashes of the hub

VARIABLES
  invites,      \* rows of org_invites: status, whether it was mailed, and is past its expiry
  row,          \* the committed row of users with the address, if any
  members,      \* users with a project membership
  grants,       \* the roles of each user in Casbin
  signup,       \* of each user: the step its signup is at, and the invitation it uses
  request,      \* the call each administrator is in
  queued,       \* the queue of the mailing worker
  sending,      \* of each invitation: the step its execution of the mailing worker is at
  expired,      \* what the cleanup worker has listed and not yet deleted
  failures,     \* failed steps and crashes so far
  mailed,       \* history: invitations mailed since they were created or asked for again
  consumed,     \* history: users whose signup has accepted an invitation
  doubt         \* history: users whose signup was cut off or could not be undone

tables == <<invites, row, members, grants>>
mailing == <<queued, sending, expired>>
history == <<mailed, consumed, doubt>>
vars == <<tables, signup, request, mailing, failures, history>>

NoUser == "no user"
NoInvite == "no invite"
Roles == {"OrgAdmin", "OrgMember", "Project"}
Steps == {"new", "begun", "valid", "accepted", "created", "member", "project",
          "inserted", "admin", "granted", "undo", "undone", "end"}
NoCall == [step |-> "none", invite |-> NoInvite]

TypeOK ==
  /\ invites \in [Invites -> [status : {"none", "pending", "accepted", "revoked", "deleted"},
                              sent : BOOLEAN, late : BOOLEAN]]
  /\ row \in Users \cup {NoUser}
  /\ members \subseteq Users /\ consumed \subseteq Users /\ doubt \subseteq Users
  /\ grants \in [Users -> SUBSET Roles]
  /\ signup \in [Users -> [step : Steps, invite : Invites \cup {NoInvite}]]
  /\ request \in [Requests -> [step : {"none", "create", "revoke", "resend", "enqueue"},
                               invite : Invites \cup {NoInvite}]]
  /\ queued \subseteq Invites /\ expired \subseteq Invites /\ mailed \subseteq Invites
  /\ sending \in [Invites -> {"idle", "loaded", "marked", "mailed"}]
  /\ failures \in 0..MaxFailures

Init ==
  /\ invites = [i \in Invites |-> [status |-> "none", sent |-> FALSE, late |-> FALSE]]
  /\ row = NoUser /\ members = {} /\ grants = [u \in Users |-> {}]
  /\ signup = [u \in Users |-> [step |-> "new", invite |-> NoInvite]]
  /\ request = [r \in Requests |-> NoCall]
  /\ queued = {} /\ sending = [i \in Invites |-> "idle"] /\ expired = {}
  /\ failures = 0
  /\ mailed = {} /\ consumed = {} /\ doubt = {}

\* The transaction of the mailing worker holds the row it has marked.
Locked(i) == sending[i] \in {"marked", "mailed"}

Fail == failures < MaxFailures /\ failures' = failures + 1

-----------------------------------------------------------------------------
(***************************************************************************)
(* Calls of administrators.                                                *)
(***************************************************************************)
\* No pending invitation to the organisation of i.
Unrivalled(i) == \A j \in Invites : InvitedTo[j] = InvitedTo[i] => invites[j].status # "pending"

\* Create looks for a user and for a pending invitation of the organisation, Revoke and
\* Resend at the row of the invitation, none of them in a transaction.
CreateCheck(r, i) ==
  /\ request[r] = NoCall
  /\ row = NoUser
  /\ invites[i].status = "none"
  /\ Unrivalled(i)
  /\ request' = [request EXCEPT ![r] = [step |-> "create", invite |-> i]]
  /\ UNCHANGED <<tables, signup, mailing, failures, history>>

RevokeCheck(r, i) ==
  /\ request[r] = NoCall
  /\ invites[i].status = "pending"
  /\ request' = [request EXCEPT ![r] = [step |-> "revoke", invite |-> i]]
  /\ UNCHANGED <<tables, signup, mailing, failures, history>>

ResendCheck(r, i) ==
  /\ request[r] = NoCall
  /\ invites[i].status = "pending" /\ ~invites[i].late
  /\ request' = [request EXCEPT ![r] = [step |-> "resend", invite |-> i]]
  /\ UNCHANGED <<tables, signup, mailing, failures, history>>

\* A partial unique index refuses a second pending invitation of an organisation.
Create(r, i) ==
  /\ request[r] = [step |-> "create", invite |-> i]
  /\ invites[i].status = "none"
  /\ Unrivalled(i)
  /\ invites' = [invites EXCEPT ![i].status = "pending"]
  /\ request' = [request EXCEPT ![r] = [step |-> "enqueue", invite |-> i]]
  /\ UNCHANGED <<row, members, grants, signup, mailing, failures, history>>

\* UpdateStatus looks at the id only.
Revoke(r, i) ==
  /\ request[r] = [step |-> "revoke", invite |-> i]
  /\ ~Locked(i)
  /\ request' = [request EXCEPT ![r] = NoCall]
  /\ invites' = IF invites[i].status = "deleted" THEN invites
                ELSE [invites EXCEPT ![i].status = "revoked"]
  /\ UNCHANGED <<row, members, grants, signup, mailing, failures, history>>

\* ResetEmailStatus looks at the id only.
Resend(r, i) ==
  /\ request[r] = [step |-> "resend", invite |-> i]
  /\ ~Locked(i)
  /\ request' = [request EXCEPT ![r].step = "enqueue"]
  /\ invites' = [invites EXCEPT ![i].sent = FALSE]
  /\ mailed' = mailed \ {i}
  /\ UNCHANGED <<row, members, grants, signup, mailing, failures, consumed, doubt>>

Enqueue(r) ==
  /\ request[r].step = "enqueue"
  /\ request' = [request EXCEPT ![r] = NoCall]
  /\ queued' = queued \cup {request[r].invite}
  /\ UNCHANGED <<tables, signup, sending, expired, failures, history>>

\* A call that is refused or fails.
CallFails(r) ==
  /\ request[r] # NoCall
  /\ request[r].step # "enqueue"
  /\ request' = [request EXCEPT ![r] = NoCall]
  /\ UNCHANGED <<tables, signup, mailing, failures, history>>

Administrator(r) ==
  \/ Enqueue(r) \/ CallFails(r)
  \/ \E i \in Invites : \/ CreateCheck(r, i) \/ RevokeCheck(r, i) \/ ResendCheck(r, i)
                          \/ Create(r, i) \/ Revoke(r, i) \/ Resend(r, i)

-----------------------------------------------------------------------------
(***************************************************************************)
(* Signups.                                                                *)
(***************************************************************************)
GoTo(u, step) == signup' = [signup EXCEPT ![u].step = step]

\* A transaction that has inserted a user with the address makes others wait.
Inserting == \E u \in Users : signup[u].step \in {"inserted", "admin", "granted"}

\* Signup, createInvitedUser and findOrCreateUser look for a user first.
Begin(u) ==
  /\ signup[u].step = "new"
  /\ row = NoUser
  /\ GoTo(u, "begun")
  /\ UNCHANGED <<tables, request, mailing, failures, history>>

\* ValidateAndConsume reads the row, checks it, and then accepts it if it is pending.
Validate(u, i) ==
  /\ signup[u].step = "begun"
  /\ invites[i].status = "pending" /\ ~invites[i].late
  /\ signup' = [signup EXCEPT ![u] = [step |-> "valid", invite |-> i]]
  /\ UNCHANGED <<tables, request, mailing, failures, history>>

AcceptedNow(u, i) ==
  /\ invites' = [invites EXCEPT ![i].status = "accepted"]
  /\ consumed' = consumed \cup {u}
  /\ GoTo(u, "accepted")
  /\ UNCHANGED <<row, members, grants, request, mailing, failures, mailed, doubt>>

\* Seeded fault: the status that was checked is not a condition of the update.
AcceptUnconditional(u, i) ==
  /\ signup[u] = [step |-> "valid", invite |-> i]
  /\ ~Locked(i)
  /\ invites[i].status # "deleted"
  /\ AcceptedNow(u, i)

\* MarkAccepted.
Accept(u, i) ==
  /\ signup[u] = [step |-> "valid", invite |-> i]
  /\ ~Locked(i)
  /\ invites[i].status = "pending"
  /\ AcceptedNow(u, i)

\* InternalCreateInvitedUser, without a transaction: the user, its membership of
\* the project, and the two roles.
CreateInvited(u) ==
  /\ signup[u].step = "accepted"
  /\ row = NoUser
  /\ ~Inserting
  /\ row' = u
  /\ GoTo(u, "created")
  /\ UNCHANGED <<invites, members, grants, request, mailing, failures, history>>

AddMember(u) ==
  /\ signup[u].step = "created"
  /\ members' = members \cup {u}
  /\ GoTo(u, "member")
  /\ UNCHANGED <<invites, row, grants, request, mailing, failures, history>>

GrantInvited(u) ==
  /\ \/ signup[u].step = "member" /\ GoTo(u, "project")
        /\ grants' = [grants EXCEPT ![u] = @ \cup {"Project"}]
     \/ signup[u].step = "project" /\ GoTo(u, "end")
        /\ grants' = [grants EXCEPT ![u] = @ \cup {"OrgMember"}]
  /\ UNCHANGED <<invites, row, members, request, mailing, failures, history>>

\* Without an invitation the organisation, its first project and the user are made
\* in a transaction, and the roles of its administrator are granted inside it.
InsertUser(u) ==
  /\ signup[u].step = "begun"
  /\ row = NoUser
  /\ ~Inserting
  /\ GoTo(u, "inserted")
  /\ UNCHANGED <<tables, request, mailing, failures, history>>

\* grantOrgAdminRoles.
Grant(u) ==
  /\ \/ signup[u].step = "inserted" /\ GoTo(u, "admin")
        /\ grants' = [grants EXCEPT ![u] = @ \cup {"OrgAdmin"}]
     \/ signup[u].step = "admin" /\ GoTo(u, "granted")
        /\ grants' = [grants EXCEPT ![u] = @ \cup {"OrgMember"}]
  /\ UNCHANGED <<invites, row, members, request, mailing, failures, history>>

\* Seeded fault: the roles count as granted when both have been.
GrantFailsUnmarked(u) ==
  /\ signup[u].step \in {"inserted", "admin"}
  /\ Fail
  /\ GoTo(u, "end")
  /\ UNCHANGED <<tables, request, mailing, history>>

\* A role that could not be granted, or was but for the cache of the enforcer, rolls
\* the transaction back.
GrantFails(u) ==
  /\ signup[u].step \in {"inserted", "admin"}
  /\ Fail
  /\ GoTo(u, "undo")
  /\ \/ grants' = grants
     \/ signup[u].step = "inserted" /\ grants' = [grants EXCEPT ![u] = @ \cup {"OrgAdmin"}]
     \/ signup[u].step = "admin" /\ grants' = [grants EXCEPT ![u] = @ \cup {"OrgMember"}]
  /\ UNCHANGED <<invites, row, members, request, mailing, history>>

Commit(u) ==
  /\ signup[u].step = "granted"
  /\ row' = u
  /\ GoTo(u, "end")
  /\ UNCHANGED <<invites, members, grants, request, mailing, failures, history>>

\* The answer to a commit may be an error although it took place.
CommitFails(u) ==
  /\ signup[u].step = "granted"
  /\ Fail
  /\ GoTo(u, "undo")
  /\ \/ UNCHANGED <<row, doubt>>
     \/ row' = u /\ doubt' = doubt \cup {u}
  /\ UNCHANGED <<invites, members, grants, request, mailing, mailed, consumed>>

\* revokeOrgAdminRoles, one role after the other; the error of a removal is dropped.
Undo(u) ==
  /\ \/ signup[u].step = "undo" /\ GoTo(u, "undone")
        /\ grants' = [grants EXCEPT ![u] = @ \ {"OrgAdmin"}]
     \/ signup[u].step = "undone" /\ GoTo(u, "end")
        /\ grants' = [grants EXCEPT ![u] = @ \ {"OrgMember"}]
  /\ UNCHANGED <<invites, row, members, request, mailing, failures, history>>

UndoFails(u) ==
  /\ \/ signup[u].step = "undo" /\ GoTo(u, "undone")
     \/ signup[u].step = "undone" /\ GoTo(u, "end")
  /\ Fail
  /\ doubt' = doubt \cup {u}
  /\ UNCHANGED <<tables, request, mailing, mailed, consumed>>

\* A signup that is refused: the address is taken or the invitation is not valid.
Refused(u) ==
  /\ \/ signup[u].step \in {"begun", "accepted"} /\ row # NoUser
     \/ signup[u].step = "valid" /\ invites[signup[u].invite].status # "pending"
  /\ GoTo(u, "end")
  /\ UNCHANGED <<tables, request, mailing, failures, history>>

\* A step of an invited signup fails, and nothing before it is undone.
InvitedFails(u) ==
  /\ signup[u].step \in {"valid", "accepted", "created", "member", "project"}
  /\ Fail
  /\ GoTo(u, "end")
  /\ doubt' = doubt \cup {u}
  /\ UNCHANGED <<tables, request, mailing, mailed, consumed>>

Signup(u) ==
  \/ Begin(u) \/ CreateInvited(u) \/ AddMember(u) \/ GrantInvited(u)
  \/ InsertUser(u) \/ Grant(u) \/ GrantFails(u) \/ Commit(u) \/ CommitFails(u)
  \/ Undo(u) \/ UndoFails(u) \/ Refused(u) \/ InvitedFails(u)
  \/ \E i \in Invites : Validate(u, i) \/ Accept(u, i)

-----------------------------------------------------------------------------
(***************************************************************************)
(* The workers.                                                            *)
(***************************************************************************)
\* ListPendingUnsent, every 30 seconds.
ListInput ==
  /\ queued' = queued \cup {i \in Invites : /\ invites[i].status = "pending"
                                            /\ ~invites[i].sent /\ ~invites[i].late}
  /\ UNCHANGED <<tables, signup, request, sending, expired, failures, history>>

\* Execute loads the row; it looks at the status, not at the expiry.
Execute(i) ==
  /\ i \in queued
  /\ sending[i] = "idle"
  /\ queued' = queued \ {i}
  /\ sending' = [sending EXCEPT ![i] = IF invites[i].status = "pending" /\ ~invites[i].sent
                                       THEN "loaded" ELSE "idle"]
  /\ UNCHANGED <<tables, signup, request, expired, failures, history>>

\* MarkEmailSent, in a transaction that then sends the mail.
MarkSent(i) ==
  /\ sending[i] = "loaded"
  /\ sending' = [sending EXCEPT ![i] = "marked"]
  /\ UNCHANGED <<tables, signup, request, queued, expired, failures, history>>

SendMail(i) ==
  /\ sending[i] = "marked"
  /\ sending' = [sending EXCEPT ![i] = "mailed"]
  /\ mailed' = mailed \cup {i}
  /\ UNCHANGED <<tables, signup, request, queued, expired, failures, consumed, doubt>>

SentNow(i) == invites' = [invites EXCEPT ![i].sent = @ \/ invites[i].status # "deleted"]

CommitSent(i) ==
  /\ sending[i] = "mailed"
  /\ sending' = [sending EXCEPT ![i] = "idle"]
  /\ SentNow(i)
  /\ UNCHANGED <<row, members, grants, signup, request, queued, expired, failures, history>>

\* Seeded fault: the error of the mail is logged in the transaction, which commits.
MailFailsQuietly(i) ==
  /\ sending[i] = "marked"
  /\ Fail
  /\ sending' = [sending EXCEPT ![i] = "idle"]
  /\ SentNow(i)
  /\ UNCHANGED <<row, members, grants, signup, request, queued, expired, history>>

\* The mail cannot be sent, or the transaction not committed: back in five minutes.
MailFails(i) ==
  /\ sending[i] \in {"marked", "mailed"}
  /\ Fail
  /\ sending' = [sending EXCEPT ![i] = "idle"]
  /\ queued' = queued \cup {i}
  /\ \/ UNCHANGED invites
     \/ sending[i] = "mailed" /\ SentNow(i)
  /\ UNCHANGED <<row, members, grants, signup, request, expired, history>>

Mailer(i) ==
  Execute(i) \/ MarkSent(i) \/ SendMail(i) \/ CommitSent(i) \/ MailFails(i)

\* The cleanup worker lists the pending invitations past their expiry and deletes
\* those ids, whatever their status is by then.
ListExpired ==
  /\ expired = {}
  /\ expired' = {i \in Invites : invites[i].status = "pending" /\ invites[i].late}
  /\ UNCHANGED <<tables, signup, request, queued, sending, failures, history>>

DeleteExpired ==
  /\ expired # {}
  /\ \A i \in expired : ~Locked(i)
  /\ expired' = {}
  /\ invites' = [i \in Invites |-> IF i \in expired THEN [invites[i] EXCEPT !.status = "deleted"]
                                   ELSE invites[i]]
  /\ UNCHANGED <<row, members, grants, signup, request, queued, sending, failures, history>>

-----------------------------------------------------------------------------
Expire(i) ==
  /\ invites[i].status # "none" /\ ~invites[i].late
  /\ invites' = [invites EXCEPT ![i].late = TRUE]
  /\ UNCHANGED <<row, members, grants, signup, request, mailing, failures, history>>

\* The hub stops: transactions are rolled back, calls and queues are lost.
Crash ==
  /\ Fail
  /\ signup' = [u \in Users |-> IF signup[u].step = "new" THEN signup[u]
                                ELSE [signup[u] EXCEPT !.step = "end"]]
  /\ doubt' = doubt \cup {u \in Users : signup[u].step \notin {"new", "end"}}
  /\ request' = [r \in Requests |-> NoCall]
  /\ queued' = {} /\ sending' = [i \in Invites |-> "idle"] /\ expired' = {}
  /\ UNCHANGED <<tables, mailed, consumed>>

Next ==
  \/ \E r \in Requests : Administrator(r)
  \/ \E u \in Users : Signup(u)
  \/ \E i \in Invites : Mailer(i) \/ Expire(i)
  \/ ListInput \/ ListExpired \/ DeleteExpired \/ Crash

\* A worker that has an operand goes on, and its input is listed periodically.
Fairness ==
  /\ \A i \in Invites : WF_vars(Mailer(i))
  /\ WF_vars(ListInput)

Spec == Init /\ [][Next]_vars /\ Fairness

-----------------------------------------------------------------------------
\* An invitation makes at most one user: of the signups that have found it pending
\* one accepts it (MarkAccepted), however they interleave with revocations.
ConsumedOnce ==
  \A u, v \in consumed : signup[u].invite = signup[v].invite => u = v

\* A row marked as sent has been mailed since it was created or, when the mail was
\* asked for again, since then: the mark is made before the mail and holds the row,
\* so that a reset cannot come in between and be overwritten.
SentMeansMailed ==
  \A i \in Invites : invites[i].sent => i \in mailed

\* The roles of a user are those its signup gives it, and a signup that failed "leav[es]
\* no orphan grouping" (signup_service.go), although roles are not part of the
\* transaction. Not so for a signup cut off by a crash, one whose removal of roles
\* failed, and one whose commit took place and was answered with an error.
GrantsMatchRows ==
  \A u \in Users \ doubt : signup[u].step = "end" =>
    grants[u] = IF row # u THEN {}
                ELSE {IF u \in consumed THEN "Project" ELSE "OrgAdmin", "OrgMember"}

\* What each invitation and the address come to.
Open == {i \in Invites : invites[i].status = "pending"}
Closed == {i \in Invites : invites[i].status \in {"accepted", "revoked", "deleted"}}
Sent == {i \in Invites : invites[i].sent}
Admitted == [i \in Invites |-> {u \in consumed : signup[u].invite = i}]
Owner == IF row = NoUser THEN {} ELSE {row}

Entry == INSTANCE Admission WITH
  open <- Open, closed <- Closed, admitted <- Admitted, user <- Owner, confirmed <- Sent

\* Of the signups, calls and workers that have all found an invitation pending one closes
\* it, and the others do not open it again; an organisation has one invitation open at a
\* time, and the address gets one user, whoever has invited it; and a row is marked as sent
\* by a mail that went out since one was last asked for.
ImplementsAdmission == Entry!Spec

\* Every invitation that may be used is mailed, and again when that is asked for,
\* although calls stop before they enqueue it and mails fail.
InvitationMailed ==
  \A i \in Invites :
    ~<>[](invites[i].status = "pending" /\ ~invites[i].late /\ i \notin mailed)

\* Not so: an accepted invitation is not revoked (Revoke looks at the status and then
\* overwrites it), nor deleted (it may expire between Validate and Accept).
AcceptedStays ==
  [][\A i \in Invites : invites[i].status = "accepted" => invites'[i].status = "accepted"]_vars
=============================================================================
