---------------------------- MODULE MCServices ----------------------------
(* Small instances, for TLC, of the components of Services and of ReleaseGC: each *)
(* behaviour is one of the component that "component" names, and the others stand *)
(* still. StackEdits is here with the cloud policy.                               *)
EXTENDS MCReleaseGC, Services

VARIABLE component

Node(type, name) == [type |-> type, name |-> name]

Shape(ports, public, deps, self, env) ==
  [ports |-> ports, public |-> public, deps |-> deps, self |-> self, env |-> env]

Connection(kind, from, to, variables, template, outputs) ==
  [kind |-> kind, from |-> from, to |-> to, variables |-> variables, template |-> template,
   outputs |-> outputs]

\* The address of "a" for "b", in a variable that "b" may have of its own.
AddressOfA ==
  Connection("env", Node("resource", "a"), Node("resource", "b"), <<"URL">>, FALSE,
             {<<"public">>})
SecretInA ==
  Connection("env", Node("secret", "s"), Node("resource", "a"), <<"KEY">>, TRUE, {"key"})
ArtifactOfB ==
  Connection("artifact", Node("resource", "b"), Node("volume", "v"), <<>>, FALSE, {})
MountInB ==
  Connection("mount", Node("volume", "v"), Node("resource", "b"), <<>>, FALSE, {})

\* A stack of one resource, and one of two of which the first has a public port.
SmallStack ==
  [resources |-> [n \in {"b"} |-> Shape({"http"}, {}, {}, {}, {})], connections |-> {MountInB}]
LargeStack ==
  [resources |-> [n \in {"a", "b"} |->
                    IF n = "a" THEN Shape({"http"}, {"http"}, {}, {}, {})
                    ELSE Shape({"http"}, {}, {"a"}, {<<"port">>}, {"PORT"})],
   connections |-> {SecretInA, ArtifactOfB}]

TwoShapes ==
  {Shape({"http"}, {"http"}, {"b"}, {}, {}),
   Shape({"http", "grpc"}, {"http"}, {}, {<<"public", "http">>}, {"URL"})}
OneConnection == {AddressOfA}
TwoStackfiles == {SmallStack, LargeStack}

\* Two organisations that may invite, one of them twice.
Inviters == [i \in {"i", "j", "k"} |-> IF i = "j" THEN "o2" ELSE "o1"]

services == <<component, vars, accessVars, editVars, teardownVars, addonVars, inviteVars,
              draftVars>>

-----------------------------------------------------------------------------
(* OrgInvites has three instances: "invites" is one invitation with mails, expiry and *)
(* failures; "rivals" are two calls that invite, of two organisations or of one, and  *)
(* "guests" two users who use the invitations.                                        *)
InvitesInPlay == IF component = "invites" THEN {"i"} ELSE Invites
CallsInPlay == IF component = "rivals" THEN InviteRequests ELSE {"r1"}
UsersInPlay == IF component = "rivals" THEN {} ELSE Users

InvitationsNext ==
  /\ Invitations!Next
  /\ \A r \in InviteRequests :
       \/ UNCHANGED inviteRequest[r]
       \/ /\ r \in CallsInPlay
          /\ inviteRequest'[r].invite \in InvitesInPlay \cup {Invitations!NoInvite}
  /\ \A u \in Users \ UsersInPlay : UNCHANGED signup[u]
  /\ \A i \in Invites \ InvitesInPlay : UNCHANGED invites[i]
  /\ component # "invites" =>
       /\ UNCHANGED <<inviteFailures, sending>>
       /\ \A i \in Invites : ~invites'[i].late
       /\ inviteQueue' # inviteQueue => inviteRequest' # inviteRequest

ServicesInit ==
  /\ component \in {"gc", "access", "quota", "teardown", "addon", "invites", "rivals", "guests",
                    "draft"}
  /\ Init /\ Access!Init /\ Edits!Init /\ Teardown!Init /\ Addon!Init /\ Invitations!Init
  /\ Draft!Init
  /\ component # "gc" => settings = Pair(2, 1)
  /\ component # "access" => \A r \in {"r1", "r2"} : accessRequest[r].org = "o1"
  /\ component # "draft" => draftConnections = SmallStack.connections

ServicesNext ==
  /\ UNCHANGED component
  /\ IF component = "gc" THEN Next ELSE UNCHANGED vars
  /\ IF component = "access" THEN Access!Next ELSE UNCHANGED accessVars
  /\ IF component = "quota" THEN Edits!Next ELSE UNCHANGED editVars
  /\ IF component = "teardown" THEN Teardown!Next ELSE UNCHANGED teardownVars
  /\ IF component = "addon" THEN Addon!Next ELSE UNCHANGED addonVars
  /\ IF component \in {"invites", "rivals", "guests"} THEN InvitationsNext
                                                     ELSE UNCHANGED inviteVars
  /\ IF component = "draft" THEN Draft!Next ELSE UNCHANGED draftVars

\* The fairness of the components that have some.
ServicesFairness ==
  /\ WF_teardownVars(component = "teardown" /\ Teardown!StackWorker)
  /\ WF_teardownVars(component = "teardown" /\ Teardown!Enqueue)
  /\ WF_inviteVars(component = "invites" /\ Invitations!Mailer("i"))
  /\ WF_inviteVars(component = "invites" /\ Invitations!ListInput)

\* InvitationMailed, where mails are sent.
InvitationMailedHere == component = "invites" => InvitationMailed

ServicesSpec == ServicesInit /\ [][ServicesNext]_services /\ ServicesFairness
=============================================================================
