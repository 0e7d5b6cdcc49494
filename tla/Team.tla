------------------------------- MODULE Team -------------------------------
(* Accounts, invitation codes, collections and their members: the rows the  *)
(* handlers of users.go, collections.go and Register write, and the         *)
(* requests in flight between the middleware and their write.               *)
(*                                                                          *)
(* A database transaction is one step (the DSN asks for BEGIN IMMEDIATE),   *)
(* and so is a statement outside one.  What a request learned before its    *)
(* transaction is kept in req and may be stale when it is used: the admin   *)
(* claim the middleware put in the context, the invitation found before the *)
(* password was hashed, the seats read before they are claimed.             *)
(*                                                                          *)
(* Ids are random and never reused: a user or a collection that is gone     *)
(* stays gone, and an address that comes back gets another id.              *)
EXTENDS Naturals, FiniteSets

CONSTANTS
    Users,            \* account ids
    Emails,           \* canonical addresses
    EmailOf,          \* the address an id is created with
    Founders,         \* admins that exist at the start ({}: a fresh instance)
    Collections,      \* collection ids
    MemberRoles,      \* roles an invitation may name
    Policies,         \* private-access policies in use
    Codes,            \* invitation codes
    Requests,         \* requests in flight at once
    Doors,            \* the routes the callers of this instance use
    PrivateListener,  \* is the private listener configured?
    SeatErrors        \* may clearing an answered seat fail?

AllDoors == {"register", "create_user", "role", "disable", "delete_user", "invite",
             "revoke_invite", "redeem", "create_collection", "policy",
             "delete_collection", "accept", "decline", "add_member", "rescind",
             "remove_member"}

ASSUME TeamAssumption ==
    /\ EmailOf \in [Users -> Emails]
    /\ Founders \subseteq Users
    /\ \A u, v \in Founders : EmailOf[u] = EmailOf[v] => u = v
    /\ "manager" \in MemberRoles /\ "none" \notin MemberRoles
    /\ Policies \subseteq {"standard", "sensitive_private", "fully_private"}
    /\ Codes \cap {"none", "setup", "admin"} = {}
    /\ Doors \subseteq AllDoors
    /\ PrivateListener \in BOOLEAN /\ SeatErrors \in BOOLEAN

VARIABLES
    status,   \* of an account: unborn, live, disabled, gone
    role,     \* of an account: admin, user (vault_only counts as user here)
    via,      \* history: what created the account, a code or setup or an admin
    code,     \* the invitations table
    policy,   \* of a collection: a policy, or unborn, or gone
    member,   \* collection_members: role and acceptance, NoMember without a row
    seat,     \* collection_invitations: the role on offer, "none" without a row
    req       \* the requests in flight

accountVars == <<status, role, via>>
collectionVars == <<policy, member, seat>>
vars == <<status, role, via, code, policy, member, seat, req>>

Roles == {"admin", "user"}
NoMember == [role |-> "none", accepted |-> FALSE]
Members == [role : MemberRoles, accepted : BOOLEAN] \cup {NoMember}
NoCode == [state |-> "unissued"]
CodeRows == {NoCode} \cup
    [state : {"pending", "redeemed", "expired", "deleted"}, email : Emails, role : Roles]
Idle == [pc |-> "idle"]

(* A request past the middleware; the rest of users.Update; the claim of a   *)
(* new account's seats, before and after they were read; an unauthenticated  *)
(* registration and redemption past their first check.                       *)
ReqRows == {Idle}
    \cup [pc : {"api"}, user : Users, admin : BOOLEAN, private : BOOLEAN]
    \cup [pc : {"disable"}, user : Users, target : Users, to : {"live", "disabled"}]
    \cup [pc : {"list"}, user : Users]
    \cup [pc : {"claim"}, user : Users, todo : SUBSET (Collections \X MemberRoles)]
    \cup [pc : {"register"}]
    \cup [pc : {"redeem"}, code : Codes]

(* Every variable holds a value of the column or of the request it models. *)
TypeOK ==
    /\ status \in [Users -> {"unborn", "live", "disabled", "gone"}]
    /\ role \in [Users -> Roles]
    /\ via \in [Users -> Codes \cup {"none", "setup", "admin"}]
    /\ code \in [Codes -> CodeRows]
    /\ policy \in [Collections -> Policies \cup {"unborn", "gone"}]
    /\ member \in [Collections -> [Users -> Members]]
    /\ seat \in [Collections -> [Emails -> MemberRoles \cup {"none"}]]
    /\ req \in [Requests -> ReqRows]

Init ==
    /\ status = [u \in Users |-> IF u \in Founders THEN "live" ELSE "unborn"]
    /\ role = [u \in Users |-> IF u \in Founders THEN "admin" ELSE "user"]
    /\ via = [u \in Users |-> "none"]
    /\ code = [k \in Codes |-> NoCode]
    /\ policy = [c \in Collections |-> "unborn"]
    /\ member = [c \in Collections |-> [u \in Users |-> NoMember]]
    /\ seat = [c \in Collections |-> [e \in Emails |-> "none"]]
    /\ req = [r \in Requests |-> Idle]

-----------------------------------------------------------------------------
(* Rows as the queries read them. *)

Exists(u) == status[u] \in {"live", "disabled"}
LiveAdmin(u) == status[u] = "live" /\ role[u] = "admin"
NoUsers == \A u \in Users : ~Exists(u)
Holder(e) == {u \in Users : Exists(u) /\ EmailOf[u] = e}
Fresh(u) == status[u] = "unborn" /\ Holder(EmailOf[u]) = {}

CollectionExists(c) == policy[c] \notin {"unborn", "gone"}
IsMember(c, u) == member[c][u] # NoMember
GetCollectionMemberRole(c, u) == IF member[c][u].accepted THEN member[c][u].role ELSE "none"
Managers(c) == {u \in Users : GetCollectionMemberRole(c, u) = "manager"}

(* Mutant: the last-admin condition is dropped from the statements. *)
Unconditional(t) == TRUE
(* Mutant: the last-manager check counts a pending invitation. *)
CountsPending(c, u) ==
    GetCollectionMemberRole(c, u) = "manager" =>
        \E v \in Users \ {u} : member[c][v].role = "manager"

(* Would the account's demotion, disabling or removal leave an admin? *)
NotLastAdmin(t) == ~LiveAdmin(t) \/ \E u \in Users \ {t} : LiveAdmin(u)

NotLastManager(c, u) ==
    GetCollectionMemberRole(c, u) = "manager" => Managers(c) \ {u} # {}

-----------------------------------------------------------------------------
(* Ingress. *)

privateIngressRequired(p) == p # "standard"

(* Mutant: the policy of the row is not asked. *)
AnyIngress(p, private) == TRUE
enforcePrivateAccessPolicy(p, private) == private \/ ~privateIngressRequired(p)

requireConfiguredPrivateControlPlaneIngress(private) == ~PrivateListener \/ private

(* The middleware looks the account up once; its answer travels with the     *)
(* request.                                                                  *)
Authenticate(r, u, private) ==
    /\ req[r] = Idle
    /\ status[u] = "live"
    /\ private => PrivateListener
    /\ req' = [req EXCEPT ![r] = [pc |-> "api", user |-> u,
                                  admin |-> role[u] = "admin", private |-> private]]
    /\ UNCHANGED <<accountVars, code, collectionVars>>

(* A refusal, an error, a rollback, a client that hangs up, a server that    *)
(* stops: the request ends and what it has not written is never written.     *)
Abandon(r) ==
    /\ req[r] # Idle
    /\ req' = [req EXCEPT ![r] = Idle]
    /\ UNCHANGED <<accountVars, code, collectionVars>>

Api(r) == req[r].pc = "api"
AdminApi(r) == Api(r) /\ req[r].admin
Done(r) == req' = [req EXCEPT ![r] = Idle]

-----------------------------------------------------------------------------
(* Creating accounts. *)

Insert(u, newRole, how) ==
    /\ Fresh(u)
    /\ status' = [status EXCEPT ![u] = "live"]
    /\ role' = [role EXCEPT ![u] = newRole]
    /\ via' = [via EXCEPT ![u] = how]

(* Mutant: a seat counts as accepted once its address has an account. *)
AcceptedAtOnce(m, newRole) == [role |-> newRole, accepted |-> TRUE]

(* A new row is pending; on conflict only the role changes. *)
AddCollectionMember(m, newRole) == [role |-> newRole, accepted |-> m.accepted]

Register(r, private) ==
    /\ req[r] = Idle
    /\ private => PrivateListener
    /\ requireConfiguredPrivateControlPlaneIngress(private)
    /\ NoUsers
    /\ req' = [req EXCEPT ![r] = [pc |-> "register"]]
    /\ UNCHANGED <<accountVars, code, collectionVars>>

(* Mutant: the INSERT trusts the count that was read before. *)
TrustsTheCount == TRUE
WhereNoUsers == NoUsers

CreateFirstAdmin(r, u) ==
    /\ req[r].pc = "register"
    /\ WhereNoUsers
    /\ Insert(u, "admin", "setup")
    /\ req' = [req EXCEPT ![r] = [pc |-> "list", user |-> u]]
    /\ UNCHANGED <<code, collectionVars>>

CreateUser(r, u, newRole) ==
    /\ AdminApi(r)
    /\ newRole = "admin" => requireConfiguredPrivateControlPlaneIngress(req[r].private)
    /\ Insert(u, newRole, "admin")
    /\ req' = [req EXCEPT ![r] = [pc |-> "list", user |-> u]]
    /\ UNCHANGED <<code, collectionVars>>

(* claimCollectionInvitationsBestEffort: the seats of the address are read,  *)
(* then each is written on its own; the first failure ends the claim.        *)
ListCollectionInvitationsForEmail(r) ==
    /\ req[r].pc = "list"
    /\ LET u == req[r].user
           seats == {s \in Collections \X MemberRoles : seat[s[1]][EmailOf[u]] = s[2]}
       IN  req' = [req EXCEPT ![r] = IF seats = {} THEN Idle
                                     ELSE [pc |-> "claim", user |-> u, todo |-> seats]]
    /\ UNCHANGED <<accountVars, code, collectionVars>>

ClaimSeat(r, s) ==
    /\ req[r].pc = "claim"
    /\ s \in req[r].todo
    /\ CollectionExists(s[1]) /\ Exists(req[r].user)
    /\ member' = [member EXCEPT ![s[1]][req[r].user] = AddCollectionMember(@, s[2])]
    /\ req' = [req EXCEPT ![r] = IF req[r].todo = {s} THEN Idle
                                 ELSE [pc |-> "claim", user |-> req[r].user,
                                       todo |-> req[r].todo \ {s}]]
    /\ UNCHANGED <<accountVars, code, policy, seat>>

-----------------------------------------------------------------------------
(* Invitation codes. *)

CreateInvitation(r, k, e, newRole) ==
    /\ AdminApi(r)
    /\ newRole = "admin" => requireConfiguredPrivateControlPlaneIngress(req[r].private)
    /\ Exists(req[r].user)
    /\ code[k] = NoCode
    /\ code' = [code EXCEPT ![k] = [state |-> "pending", email |-> e, role |-> newRole]]
    /\ Done(r)
    /\ UNCHANGED <<accountVars, collectionVars>>

Pending(k) == code[k].state = "pending"

DeleteInvitation(r, k) ==
    /\ AdminApi(r)
    /\ Pending(k)
    /\ code' = [code EXCEPT ![k].state = "deleted"]
    /\ Done(r)
    /\ UNCHANGED <<accountVars, collectionVars>>

(* expires_at passes; every later lookup finds the code expired. *)
ExpireStaleInvitations(k) ==
    /\ Pending(k)
    /\ code' = [code EXCEPT ![k].state = "expired"]
    /\ UNCHANGED <<accountVars, collectionVars, req>>

RedeemPreflight(r, k, private) ==
    /\ req[r] = Idle
    /\ private => PrivateListener
    /\ Pending(k)
    /\ code[k].role = "admin" => requireConfiguredPrivateControlPlaneIngress(private)
    /\ req' = [req EXCEPT ![r] = [pc |-> "redeem", code |-> k]]
    /\ UNCHANGED <<accountVars, code, collectionVars>>

(* Mutant: the transaction trusts the preflight. *)
TrustsPreflight(k) == TRUE
MarkInvitationRedeemedIfPending(k) == Pending(k)

(* Mutant: a new account's seats are left where they are. *)
ClaimsNothing(u) == member
claimCollectionInvitations(u) ==
    [c \in Collections |->
        IF seat[c][EmailOf[u]] = "none" THEN member[c]
        ELSE [member[c] EXCEPT ![u] = AddCollectionMember(@, seat[c][EmailOf[u]])]]

(* The transaction of RedeemInvitation: account, seats and code together. *)
RedeemInvitation(r, u) ==
    /\ req[r].pc = "redeem"
    /\ LET k == req[r].code
       IN  /\ MarkInvitationRedeemedIfPending(k)
           /\ EmailOf[u] = code[k].email
           /\ Insert(u, code[k].role, k)
           /\ code' = [code EXCEPT ![k].state = "redeemed"]
    /\ member' = claimCollectionInvitations(u)
    /\ Done(r)
    /\ UNCHANGED <<policy, seat>>

-----------------------------------------------------------------------------
(* Changing and removing accounts. *)

(* users.Update: the role is one statement, the disabled flag the next. *)
UpdateUser(r, t, newRole, to) ==
    /\ AdminApi(r)
    /\ (newRole = "admin" \/ to = "live")
         => requireConfiguredPrivateControlPlaneIngress(req[r].private)
    /\ Exists(t)
    /\ newRole # "keep" =>
         /\ t = req[r].user => newRole = "admin"
         /\ newRole = "admin" \/ NotLastAdmin(t)
    /\ role' = IF newRole = "keep" THEN role ELSE [role EXCEPT ![t] = newRole]
    /\ req' = [req EXCEPT ![r] =
                 IF to = "keep" THEN Idle
                 ELSE [pc |-> "disable", user |-> req[r].user, target |-> t, to |-> to]]
    /\ UNCHANGED <<status, via, code, collectionVars>>

SetUserDisabled(r) ==
    /\ req[r].pc = "disable"
    /\ LET t == req[r].target
       IN  /\ Exists(t)
           /\ req[r].to = "disabled" => t # req[r].user /\ NotLastAdmin(t)
           /\ status' = [status EXCEPT ![t] = req[r].to]
    /\ Done(r)
    /\ UNCHANGED <<role, via, code, collectionVars>>

UserHasProtectedCollectionImpact(t) ==
    \E c \in Collections : IsMember(c, t) /\ privateIngressRequired(policy[c])

(* users.Delete: one transaction, and the memberships cascade.  The deleting *)
(* principal is looked up again, by its row.                                 *)
DeleteUser(r, t) ==
    /\ AdminApi(r)
    /\ requireConfiguredPrivateControlPlaneIngress(req[r].private)
    /\ t # req[r].user
    /\ Exists(t)
    /\ NotLastAdmin(t)
    /\ UserHasProtectedCollectionImpact(t) =>
         enforcePrivateAccessPolicy("sensitive_private", req[r].private)
    /\ LiveAdmin(req[r].user)
    /\ status' = [status EXCEPT ![t] = "gone"]
    /\ member' = [c \in Collections |-> [member[c] EXCEPT ![t] = NoMember]]
    /\ Done(r)
    /\ UNCHANGED <<role, via, code, policy, seat>>

-----------------------------------------------------------------------------
(* Collections. *)

(* The caller's role: the claim of the context, else the row. *)
roleWithQueries(r, c) ==
    IF req[r].admin THEN "manager" ELSE GetCollectionMemberRole(c, req[r].user)

(* What the mutating handlers check first, in their transaction. *)
MayManage(r, c) ==
    /\ Api(r)
    /\ CollectionExists(c)
    /\ roleWithQueries(r, c) = "manager"
    /\ enforcePrivateAccessPolicy(policy[c], req[r].private)

CreateCollection(r, c, p) ==
    /\ Api(r)
    /\ enforcePrivateAccessPolicy(p, req[r].private)
    /\ policy[c] = "unborn"
    /\ Exists(req[r].user)
    /\ policy' = [policy EXCEPT ![c] = p]
    /\ member' = [member EXCEPT ![c][req[r].user] = [role |-> "manager", accepted |-> TRUE]]
    /\ Done(r)
    /\ UNCHANGED <<accountVars, code, seat>>

UpdateCollection(r, c, p) ==
    /\ MayManage(r, c)
    /\ enforcePrivateAccessPolicy(p, req[r].private)
    /\ policy' = [policy EXCEPT ![c] = p]
    /\ Done(r)
    /\ UNCHANGED <<accountVars, code, member, seat>>

DeleteCollection(r, c) ==
    /\ MayManage(r, c)
    /\ policy' = [policy EXCEPT ![c] = "gone"]
    /\ member' = [member EXCEPT ![c] = [u \in Users |-> NoMember]]
    /\ seat' = [seat EXCEPT ![c] = [e \in Emails |-> "none"]]
    /\ Done(r)
    /\ UNCHANGED <<accountVars, code>>

(* The seat of a settled membership goes in the same transaction, but an     *)
(* error there is only logged.                                               *)
dropInvitationSeat(c, u) ==
    \/ seat' = [seat EXCEPT ![c][EmailOf[u]] = "none"]
    \/ SeatErrors /\ UNCHANGED seat

AcceptInvite(r, c) ==
    /\ Api(r)
    /\ CollectionExists(c)
    /\ LET u == req[r].user
       IN  /\ IsMember(c, u) /\ ~member[c][u].accepted
           /\ enforcePrivateAccessPolicy(policy[c], req[r].private)
           /\ member' = [member EXCEPT ![c][u].accepted = TRUE]
           /\ dropInvitationSeat(c, u)
    /\ Done(r)
    /\ UNCHANGED <<accountVars, code, policy>>

(* Declining an invitation and leaving a collection are one operation. *)
DeclineInvite(r, c) ==
    /\ Api(r)
    /\ CollectionExists(c)
    /\ LET u == req[r].user
       IN  /\ IsMember(c, u)
           /\ enforcePrivateAccessPolicy(policy[c], req[r].private)
           /\ NotLastManager(c, u)
           /\ member' = [member EXCEPT ![c][u] = NoMember]
           /\ dropInvitationSeat(c, u)
    /\ Done(r)
    /\ UNCHANGED <<accountVars, code, policy>>

(* An invitation, or a change of a member's role.  The foreign key of        *)
(* invited_by needs the inviter's account, unless an accepted row keeps the  *)
(* one it has.                                                               *)
AddMember(r, c, e, newRole) ==
    LET accepted == \E u \in Holder(e) : member[c][u].accepted
    IN  /\ MayManage(r, c)
        /\ accepted \/ Exists(req[r].user)
        /\ newRole # "manager" => \A u \in Holder(e) : NotLastManager(c, u)
        /\ seat' = IF accepted THEN seat ELSE [seat EXCEPT ![c][e] = newRole]
        /\ member' = [member EXCEPT ![c] = [u \in Users |->
              IF u \in Holder(e) THEN AddCollectionMember(@[u], newRole) ELSE @[u]]]
        /\ Done(r)
        /\ UNCHANGED <<accountVars, code, policy>>

(* Mutants: withdrawing takes the seat and leaves the pending row; it clears *)
(* the role of whatever row there is.                                        *)
SeatOnly(m) == m
ClearsRole(m) == [m EXCEPT !.role = "none"]
Withdraw(m) == IF m.accepted THEN m ELSE NoMember

RescindInvitation(r, c, e) ==
    /\ MayManage(r, c)
    /\ seat' = [seat EXCEPT ![c][e] = "none"]
    /\ member' = [member EXCEPT ![c] = [u \in Users |->
          IF u \in Holder(e) THEN Withdraw(@[u]) ELSE @[u]]]
    /\ Done(r)
    /\ UNCHANGED <<accountVars, code, policy>>

RemoveMember(r, c, t) ==
    /\ MayManage(r, c)
    /\ IsMember(c, t)
    /\ NotLastManager(c, t)
    /\ member' = [member EXCEPT ![c][t] = NoMember]
    /\ dropInvitationSeat(c, t)
    /\ Done(r)
    /\ UNCHANGED <<accountVars, code, policy>>

-----------------------------------------------------------------------------
AccountStep(r) ==
    \/ "register" \in Doors /\
         ((\E p \in BOOLEAN : Register(r, p)) \/ \E u \in Users : CreateFirstAdmin(r, u))
    \/ "create_user" \in Doors /\ \E u \in Users, q \in Roles : CreateUser(r, u, q)
    \/ ListCollectionInvitationsForEmail(r)
    \/ \E s \in Collections \X MemberRoles : ClaimSeat(r, s)
    \/ "role" \in Doors /\
         \E t \in Users, q \in Roles, to \in {"keep", "live", "disabled"} : UpdateUser(r, t, q, to)
    \/ "disable" \in Doors /\
         \E t \in Users, to \in {"live", "disabled"} : UpdateUser(r, t, "keep", to)
    \/ SetUserDisabled(r)
    \/ "delete_user" \in Doors /\ \E t \in Users : DeleteUser(r, t)

CodeStep(r) ==
    \E k \in Codes :
      \/ "invite" \in Doors /\ \E e \in Emails, q \in Roles : CreateInvitation(r, k, e, q)
      \/ "revoke_invite" \in Doors /\ DeleteInvitation(r, k)
      \/ "redeem" \in Doors /\ \E p \in BOOLEAN : RedeemPreflight(r, k, p)

CollectionStep(r, c) ==
    \/ "create_collection" \in Doors /\ \E p \in Policies : CreateCollection(r, c, p)
    \/ "policy" \in Doors /\ \E p \in Policies : UpdateCollection(r, c, p)
    \/ "delete_collection" \in Doors /\ DeleteCollection(r, c)
    \/ "accept" \in Doors /\ AcceptInvite(r, c)
    \/ "decline" \in Doors /\ DeclineInvite(r, c)
    \/ "add_member" \in Doors /\
         \E e \in Emails, q \in MemberRoles : AddMember(r, c, e, q)
    \/ "rescind" \in Doors /\ \E e \in Emails : RescindInvitation(r, c, e)
    \/ "remove_member" \in Doors /\ \E t \in Users : RemoveMember(r, c, t)

Step(r) ==
    \/ \E u \in Users, p \in BOOLEAN : Authenticate(r, u, p)
    \/ Abandon(r)
    \/ AccountStep(r)
    \/ CodeStep(r)
    \/ \E u \in Users : RedeemInvitation(r, u)
    \/ \E c \in Collections : CollectionStep(r, c)

Next ==
    \/ \E r \in Requests : Step(r)
    \/ \E k \in Codes : ExpireStaleInvitations(k)

Spec == Init /\ [][Next]_vars

-----------------------------------------------------------------------------
(* Properties. *)

(* Once the first account exists, an enabled administrator exists at every   *)
(* moment, whatever demotions, disablings and deletions race: nothing in the *)
(* product could make one again (users.sql, the ...IfNotLastAdmin            *)
(* statements).                                                              *)
AdminRemains ==
    (\E u \in Users : status[u] # "unborn") => \E u \in Users : LiveAdmin(u)

(* First-run setup mints at most one account in the life of the instance,    *)
(* however many registrations passed the count of zero before the first one  *)
(* was written, and whoever is deleted later (auth.go, Register).            *)
SetupOnce ==
    \A u, v \in Users : via[u] = "setup" /\ via[v] = "setup" => u = v

(* An invitation code makes one account, ever: not a second one by a         *)
(* redemption that was past its preflight, and not again after the account   *)
(* it made was deleted (users.go, RedeemInvitation).                         *)
OneAccountPerCode ==
    \A u, v \in Users : via[u] \in Codes /\ via[u] = via[v] => u = v

(* A pending membership is the seat of its address, with the same role: what *)
(* an invitee may accept is what the manager sees on offer, and withdrawing  *)
(* the seat withdraws it (collections.go, RescindInvitation).                *)
PendingMatchesSeat ==
    \A c \in Collections, u \in Users :
        IsMember(c, u) /\ ~member[c][u].accepted => seat[c][EmailOf[u]] = member[c][u].role

(* A seat whose address has an account can be answered: the account holds    *)
(* the pending membership AcceptInvite and DeclineInvite look for            *)
(* (collection_invitation_claim.go).                                         *)
SeatIsRedeemable ==
    \A c \in Collections, u \in Users :
        Exists(u) /\ seat[c][EmailOf[u]] # "none" => IsMember(c, u) /\ ~member[c][u].accepted

(* Access is never pushed on anyone: a membership becomes accepted only in a *)
(* step of a request of the member's own (collections.go, AcceptInvite).     *)
Consent ==
    [][\A c \in Collections, u \in Users :
          ~member[c][u].accepted /\ member'[c][u].accepted =>
              \E r \in Requests : Api(r) /\ req[r].user = u /\ req'[r] = Idle]_vars

(* A collection that lives on loses its last manager only together with the  *)
(* manager's account: leaving, removal and demotion all stop before it, also *)
(* when two managers act on each other (collections.go, CountCollectionManagers). *)
LastManagerStays ==
    [][\A c \in Collections :
          Managers(c) # {} /\ CollectionExists(c)' /\ Managers(c)' = {} =>
              \A u \in Managers(c) : ~Exists(u)']_vars

(* Who has which access to a protected collection, and its protection,       *)
(* change only in a step of a request that came through the private          *)
(* listener, the cascade of an account's deletion included                   *)
(* (private_access.go, users.go Delete).                                     *)
Access(c) == <<policy[c], [u \in Users |-> GetCollectionMemberRole(c, u)]>>
ProtectedNeedsPrivate ==
    [][\A c \in Collections :
          CollectionExists(c) /\ privateIngressRequired(policy[c]) /\ Access(c)' # Access(c) =>
              \E r \in Requests : Api(r) /\ req[r].private /\ req'[r] # req[r]]_vars

(* Whoever changes another account's place in a collection manages the       *)
(* collection, or is an administrator, at the moment of the write: the       *)
(* comment of roleWithQueries says that no demotion or removal can land      *)
(* between the check and the write it authorised.  No run checks this one;   *)
(* the README tells how TLC refutes it.                                      *)
AuthorisedAtWrite ==
    [][\A r \in Requests, c \in Collections, u \in Users :
          /\ Api(r) /\ req'[r] = Idle /\ CollectionExists(c)'
          /\ req[r].user # u /\ member'[c][u] # member[c][u] /\ Exists(u)'
          => LiveAdmin(req[r].user) \/ req[r].user \in Managers(c)]_vars

=============================================================================
