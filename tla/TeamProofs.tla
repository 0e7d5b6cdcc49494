----------------------------- MODULE TeamProofs -----------------------------
(* What Team promises for every number of accounts, collections, codes and  *)
(* requests in flight.                                                      *)
EXTENDS Team, TLAPS

-----------------------------------------------------------------------------
(* Types. *)

(* What the state of a request says of its fields. *)
LEMMA ReqFields ==
    ASSUME TypeOK, NEW r \in Requests
    PROVE  /\ req[r] \in ReqRows
           /\ req[r].pc = "api" => /\ req[r].user \in Users
                                   /\ req[r].admin \in BOOLEAN
                                   /\ req[r].private \in BOOLEAN
           /\ req[r].pc = "disable" => /\ req[r].target \in Users
                                       /\ req[r].user \in Users
                                       /\ req[r].to \in {"live", "disabled"}
           /\ req[r].pc = "list" => req[r].user \in Users
           /\ req[r].pc = "claim" => /\ req[r].user \in Users
                                     /\ req[r].todo \subseteq Collections \X MemberRoles
           /\ req[r].pc = "redeem" => req[r].code \in Codes
<1>1. req[r] \in ReqRows
  BY DEF TypeOK
<1>2. CASE req[r] = Idle
  BY <1>1, <1>2 DEF Idle
<1>3. CASE req[r] \in [pc : {"api"}, user : Users, admin : BOOLEAN, private : BOOLEAN]
  BY <1>1, <1>3
<1>4. CASE req[r] \in [pc : {"disable"}, user : Users, target : Users, to : {"live", "disabled"}]
  BY <1>1, <1>4
<1>5. CASE req[r] \in [pc : {"list"}, user : Users]
  BY <1>1, <1>5
<1>6. CASE req[r] \in [pc : {"claim"}, user : Users, todo : SUBSET (Collections \X MemberRoles)]
  BY <1>1, <1>6
<1>7. CASE req[r] \in [pc : {"register"}]
  BY <1>1, <1>7
<1>8. CASE req[r] \in [pc : {"redeem"}, code : Codes]
  BY <1>1, <1>8
<1>9. QED
  BY <1>1, <1>2, <1>3, <1>4, <1>5, <1>6, <1>7, <1>8 DEF ReqRows

(* What a membership row is, before and after the statements that write it. *)
LEMMA MemberFacts ==
    ASSUME NEW m \in Members
    PROVE  /\ m.accepted \in BOOLEAN
           /\ m # NoMember => m.role \in MemberRoles
           /\ m.accepted => m # NoMember
           /\ \A q \in MemberRoles : AddCollectionMember(m, q) \in Members
           /\ Withdraw(m) \in Members
           /\ m # NoMember => [m EXCEPT !.accepted = TRUE] \in Members
<1>1. CASE m = NoMember
  BY <1>1 DEF Members, NoMember, AddCollectionMember, Withdraw
<1>2. CASE m \in [role : MemberRoles, accepted : BOOLEAN]
  <2>1. /\ m.accepted \in BOOLEAN /\ m.role \in MemberRoles
        /\ m # NoMember
    BY <1>2, TeamAssumption DEF NoMember
  <2>2. \A q \in MemberRoles : AddCollectionMember(m, q) \in Members
    BY <2>1 DEF Members, AddCollectionMember
  <2>3. Withdraw(m) \in Members
    BY <1>2, <2>1 DEF Members, Withdraw
  <2>4. [m EXCEPT !.accepted = TRUE] \in Members
    BY <1>2 DEF Members
  <2>5. QED
    BY <2>1, <2>2, <2>3, <2>4
<1>3. QED
  BY <1>1, <1>2 DEF Members

(* The step of a request that ends or moves to another of its states. *)
LEMMA ReqTyped ==
    ASSUME TypeOK, NEW r \in Requests, NEW x \in ReqRows,
           req' = [req EXCEPT ![r] = x]
    PROVE  req' \in [Requests -> ReqRows]
BY DEF TypeOK

LEMMA ReqStates ==
    /\ Idle \in ReqRows
    /\ \A u \in Users, a, p \in BOOLEAN :
          [pc |-> "api", user |-> u, admin |-> a, private |-> p] \in ReqRows
    /\ \A u, t \in Users, to \in {"live", "disabled"} :
          [pc |-> "disable", user |-> u, target |-> t, to |-> to] \in ReqRows
    /\ \A u \in Users : [pc |-> "list", user |-> u] \in ReqRows
    /\ \A u \in Users, todo \in SUBSET (Collections \X MemberRoles) :
          [pc |-> "claim", user |-> u, todo |-> todo] \in ReqRows
    /\ [pc |-> "register"] \in ReqRows
    /\ \A k \in Codes : [pc |-> "redeem", code |-> k] \in ReqRows
BY DEF ReqRows, Idle

LEMMA TypeInit == Init => TypeOK
<1>1. NoMember \in Members
  BY DEF Members
<1>2. NoCode \in CodeRows /\ Idle \in ReqRows
  BY DEF CodeRows, ReqRows
<1>3. QED
  BY <1>1, <1>2 DEF Init, TypeOK, Roles

(* Steps of accounts. *)
LEMMA TypeAccount ==
    ASSUME TypeOK, NEW r \in Requests, AccountStep(r)
    PROVE  TypeOK'
<1>0. Idle \in ReqRows /\ req[r] \in ReqRows
  BY ReqStates, ReqFields
<1>1. CASE \E p \in BOOLEAN : Register(r, p)
  <2>1. req' \in [Requests -> ReqRows]
    BY <1>1, ReqTyped, ReqStates DEF Register
  <2>2. QED
    BY <1>1, <2>1 DEF Register, TypeOK, accountVars, collectionVars
<1>2. CASE \E u \in Users : CreateFirstAdmin(r, u)
  <2>1. PICK u \in Users : CreateFirstAdmin(r, u)
    BY <1>2
  <2>2. req' \in [Requests -> ReqRows]
    BY <2>1, ReqTyped, ReqStates DEF CreateFirstAdmin
  <2>3. QED
    BY <2>1, <2>2 DEF CreateFirstAdmin, Insert, TypeOK, collectionVars, Roles
<1>3. CASE \E u \in Users, q \in Roles : CreateUser(r, u, q)
  <2>1. PICK u \in Users, q \in Roles : CreateUser(r, u, q)
    BY <1>3
  <2>2. req' \in [Requests -> ReqRows]
    BY <2>1, ReqTyped, ReqStates DEF CreateUser
  <2>3. QED
    BY <2>1, <2>2 DEF CreateUser, Insert, TypeOK, collectionVars
<1>4. CASE ListCollectionInvitationsForEmail(r)
  <2> DEFINE seats == {s \in Collections \X MemberRoles : seat[s[1]][EmailOf[req[r].user]] = s[2]}
  <2>1. req[r].user \in Users
    BY <1>4, ReqFields DEF ListCollectionInvitationsForEmail
  <2>2. [pc |-> "claim", user |-> req[r].user, todo |-> seats] \in ReqRows
    BY <2>1, ReqStates
  <2>3. req' = [req EXCEPT ![r] = IF seats = {} THEN Idle
                 ELSE [pc |-> "claim", user |-> req[r].user, todo |-> seats]]
    BY <1>4 DEF ListCollectionInvitationsForEmail
  <2> HIDE DEF seats
  <2>4. req' \in [Requests -> ReqRows]
    BY <2>2, <2>3, <1>0 DEF TypeOK
  <2>5. QED
    BY <1>4, <2>4 DEF ListCollectionInvitationsForEmail, TypeOK, accountVars, collectionVars
<1>5. CASE \E s \in Collections \X MemberRoles : ClaimSeat(r, s)
  <2>1. PICK s \in Collections \X MemberRoles : ClaimSeat(r, s)
    BY <1>5
  <2>2. s[1] \in Collections /\ s[2] \in MemberRoles
    BY <2>1
  <2>3. req[r].user \in Users /\ req[r].todo \subseteq Collections \X MemberRoles
    BY <2>1, ReqFields DEF ClaimSeat
  <2>4. AddCollectionMember(member[s[1]][req[r].user], s[2]) \in Members
    BY <2>2, <2>3, MemberFacts DEF TypeOK
  <2>5. member' \in [Collections -> [Users -> Members]]
    BY <2>1, <2>2, <2>3, <2>4 DEF ClaimSeat, TypeOK
  <2>6. [pc |-> "claim", user |-> req[r].user, todo |-> req[r].todo \ {s}] \in ReqRows
    BY <2>3, ReqStates
  <2>7. req' \in [Requests -> ReqRows]
    BY <2>1, <2>6, <1>0 DEF ClaimSeat, TypeOK
  <2>8. QED
    BY <2>1, <2>5, <2>7 DEF ClaimSeat, TypeOK, accountVars
<1>6. ASSUME NEW t \in Users, NEW q \in Roles \cup {"keep"},
             NEW to \in {"keep", "live", "disabled"}, UpdateUser(r, t, q, to)
      PROVE  TypeOK'
  <2>1. req[r].user \in Users
    BY <1>6, ReqFields DEF UpdateUser, AdminApi, Api
  <2>2. to # "keep" => [pc |-> "disable", user |-> req[r].user, target |-> t, to |-> to] \in ReqRows
    BY <1>6, <2>1, ReqStates
  <2>3. req' \in [Requests -> ReqRows]
    BY <1>6, <2>2, <1>0 DEF UpdateUser, TypeOK
  <2>4. role' \in [Users -> Roles]
    BY <1>6 DEF UpdateUser, TypeOK
  <2>5. QED
    BY <1>6, <2>3, <2>4 DEF UpdateUser, TypeOK, collectionVars
<1>7. CASE SetUserDisabled(r)
  <2>1. req[r].target \in Users /\ req[r].to \in {"live", "disabled"}
    BY <1>7, ReqFields DEF SetUserDisabled
  <2>2. req' \in [Requests -> ReqRows]
    BY <1>7, ReqTyped, <1>0 DEF SetUserDisabled, Done
  <2>3. status' \in [Users -> {"unborn", "live", "disabled", "gone"}]
    BY <1>7, <2>1 DEF SetUserDisabled, TypeOK
  <2>4. QED
    BY <1>7, <2>2, <2>3 DEF SetUserDisabled, TypeOK, collectionVars
<1>8. CASE \E t \in Users : DeleteUser(r, t)
  <2>1. PICK t \in Users : DeleteUser(r, t)
    BY <1>8
  <2>2. req' \in [Requests -> ReqRows]
    BY <2>1, ReqTyped, <1>0 DEF DeleteUser, Done
  <2>3. member' \in [Collections -> [Users -> Members]]
    BY <2>1 DEF DeleteUser, TypeOK, Members
  <2>4. QED
    BY <2>1, <2>2, <2>3 DEF DeleteUser, TypeOK
<1>9. QED
  BY <1>1, <1>2, <1>3, <1>4, <1>5, <1>6, <1>7, <1>8 DEF AccountStep

(* Steps of invitation codes. *)
LEMMA CodeTyped ==
    ASSUME TypeOK, NEW k \in Codes, code[k] # NoCode,
           NEW st \in {"pending", "redeemed", "expired", "deleted"}
    PROVE  /\ [code EXCEPT ![k].state = st] \in [Codes -> CodeRows]
           /\ code[k].email \in Emails /\ code[k].role \in Roles
<1>1. code[k] \in [state : {"pending", "redeemed", "expired", "deleted"},
                   email : Emails, role : Roles]
  BY DEF TypeOK, CodeRows
<1>2. [code[k] EXCEPT !.state = st] \in CodeRows
  BY <1>1 DEF CodeRows
<1>3. QED
  BY <1>1, <1>2 DEF TypeOK

LEMMA TypeCode ==
    ASSUME TypeOK, NEW r \in Requests, CodeStep(r)
    PROVE  TypeOK'
<1>0. Idle \in ReqRows
  BY ReqStates
<1>1. PICK k \in Codes :
         \/ \E e \in Emails, q \in Roles : CreateInvitation(r, k, e, q)
         \/ DeleteInvitation(r, k)
         \/ \E p \in BOOLEAN : RedeemPreflight(r, k, p)
  BY DEF CodeStep
<1>2. ASSUME NEW e \in Emails, NEW q \in Roles, CreateInvitation(r, k, e, q)
      PROVE  TypeOK'
  <2>1. [state |-> "pending", email |-> e, role |-> q] \in CodeRows
    BY DEF CodeRows
  <2>2. req' \in [Requests -> ReqRows]
    BY <1>2, ReqTyped, <1>0 DEF CreateInvitation, Done
  <2>3. QED
    BY <1>2, <2>1, <2>2 DEF CreateInvitation, TypeOK, accountVars, collectionVars
<1>3. CASE DeleteInvitation(r, k)
  <2>1. code[k] # NoCode
    BY <1>3 DEF DeleteInvitation, Pending, NoCode
  <2>2. code' \in [Codes -> CodeRows]
    BY <1>3, <2>1, CodeTyped DEF DeleteInvitation
  <2>3. req' \in [Requests -> ReqRows]
    BY <1>3, ReqTyped, <1>0 DEF DeleteInvitation, Done
  <2>4. QED
    BY <1>3, <2>2, <2>3 DEF DeleteInvitation, TypeOK, accountVars, collectionVars
<1>4. ASSUME NEW p \in BOOLEAN, RedeemPreflight(r, k, p)
      PROVE  TypeOK'
  <2>1. req' \in [Requests -> ReqRows]
    BY <1>4, ReqTyped, ReqStates DEF RedeemPreflight
  <2>2. QED
    BY <1>4, <2>1 DEF RedeemPreflight, TypeOK, accountVars, collectionVars
<1>5. QED
  BY <1>1, <1>2, <1>3, <1>4

LEMMA TypeRedeem ==
    ASSUME TypeOK, NEW r \in Requests, NEW u \in Users, RedeemInvitation(r, u)
    PROVE  TypeOK'
<1> DEFINE k == req[r].code
<1>1. k \in Codes /\ Pending(k)
  BY ReqFields DEF RedeemInvitation, MarkInvitationRedeemedIfPending
<1>2. code[k] # NoCode
  BY <1>1 DEF Pending, NoCode
<1>3. code' \in [Codes -> CodeRows] /\ code[k].role \in Roles
  BY <1>1, <1>2, CodeTyped DEF RedeemInvitation
<1>4. /\ status' \in [Users -> {"unborn", "live", "disabled", "gone"}]
      /\ role' \in [Users -> Roles]
      /\ via' \in [Users -> Codes \cup {"none", "setup", "admin"}]
  BY <1>1, <1>3 DEF RedeemInvitation, Insert, TypeOK
<1>5. ASSUME NEW c \in Collections, seat[c][EmailOf[u]] # "none"
      PROVE  AddCollectionMember(member[c][u], seat[c][EmailOf[u]]) \in Members
  <2>1. EmailOf[u] \in Emails
    BY TeamAssumption
  <2>2. seat[c][EmailOf[u]] \in MemberRoles /\ member[c][u] \in Members
    BY <1>5, <2>1 DEF TypeOK
  <2>3. QED
    BY <2>2, MemberFacts
<1>6. member' \in [Collections -> [Users -> Members]]
  BY <1>5 DEF RedeemInvitation, claimCollectionInvitations, TypeOK
<1>7. req' \in [Requests -> ReqRows]
  BY ReqTyped, ReqStates DEF RedeemInvitation, Done
<1>8. QED
  BY <1>3, <1>4, <1>6, <1>7 DEF RedeemInvitation, TypeOK

(* Steps of collections. *)
LEMMA SeatTyped ==
    ASSUME TypeOK, NEW c \in Collections, NEW u \in Users, dropInvitationSeat(c, u)
    PROVE  seat' \in [Collections -> [Emails -> MemberRoles \cup {"none"}]]
<1>1. EmailOf[u] \in Emails
  BY TeamAssumption
<1>2. CASE seat' = [seat EXCEPT ![c][EmailOf[u]] = "none"]
  BY <1>1, <1>2 DEF TypeOK
<1>3. CASE UNCHANGED seat
  BY <1>3 DEF TypeOK
<1>4. QED
  BY <1>2, <1>3 DEF dropInvitationSeat

LEMMA TypeCollection ==
    ASSUME TypeOK, NEW r \in Requests, NEW c \in Collections, CollectionStep(r, c)
    PROVE  TypeOK'
<1>0. Idle \in ReqRows /\ NoMember \in Members
  BY ReqStates DEF Members
<1>1. req[r].pc = "api" => req[r].user \in Users
  BY ReqFields
<1>2. ASSUME NEW p \in Policies, CreateCollection(r, c, p)
      PROVE  TypeOK'
  <2>1. [role |-> "manager", accepted |-> TRUE] \in Members
    BY TeamAssumption DEF Members
  <2>2. req' \in [Requests -> ReqRows]
    BY <1>2, ReqTyped, <1>0 DEF CreateCollection, Done
  <2>3. QED
    BY <1>1, <1>2, <2>1, <2>2 DEF CreateCollection, Api, TypeOK, accountVars
<1>3. ASSUME NEW p \in Policies, UpdateCollection(r, c, p)
      PROVE  TypeOK'
  <2>1. req' \in [Requests -> ReqRows]
    BY <1>3, ReqTyped, <1>0 DEF UpdateCollection, Done
  <2>2. QED
    BY <1>3, <2>1 DEF UpdateCollection, TypeOK, accountVars
<1>4. CASE DeleteCollection(r, c)
  <2>1. req' \in [Requests -> ReqRows]
    BY <1>4, ReqTyped, <1>0 DEF DeleteCollection, Done
  <2>2. QED
    BY <1>4, <2>1, <1>0 DEF DeleteCollection, TypeOK, accountVars
<1>5. CASE AcceptInvite(r, c)
  <2>1. req[r].user \in Users
    BY <1>1, <1>5 DEF AcceptInvite, Api
  <2>2. [member[c][req[r].user] EXCEPT !.accepted = TRUE] \in Members
    BY <1>5, <2>1, MemberFacts DEF AcceptInvite, IsMember, TypeOK
  <2>3. req' \in [Requests -> ReqRows]
    BY <1>5, ReqTyped, <1>0 DEF AcceptInvite, Done
  <2>4. member' \in [Collections -> [Users -> Members]]
    BY <1>5, <2>1, <2>2 DEF AcceptInvite, TypeOK
  <2>5. QED
    BY <1>5, <2>1, <2>3, <2>4, SeatTyped DEF AcceptInvite, TypeOK, accountVars
<1>6. CASE DeclineInvite(r, c)
  <2>1. req[r].user \in Users
    BY <1>1, <1>6 DEF DeclineInvite, Api
  <2>2. req' \in [Requests -> ReqRows]
    BY <1>6, ReqTyped, <1>0 DEF DeclineInvite, Done
  <2>3. member' \in [Collections -> [Users -> Members]]
    BY <1>6, <2>1, <1>0 DEF DeclineInvite, TypeOK
  <2>4. QED
    BY <1>6, <2>1, <2>2, <2>3, SeatTyped DEF DeclineInvite, TypeOK, accountVars
<1>7. ASSUME NEW e \in Emails, NEW q \in MemberRoles, AddMember(r, c, e, q)
      PROVE  TypeOK'
  <2>1. req' \in [Requests -> ReqRows]
    BY <1>7, ReqTyped, <1>0 DEF AddMember, Done
  <2>2. seat' \in [Collections -> [Emails -> MemberRoles \cup {"none"}]]
    BY <1>7 DEF AddMember, TypeOK
  <2>3. \A u \in Users : AddCollectionMember(member[c][u], q) \in Members
    BY MemberFacts DEF TypeOK
  <2>4. member' \in [Collections -> [Users -> Members]]
    BY <1>7, <2>3 DEF AddMember, TypeOK
  <2>5. QED
    BY <1>7, <2>1, <2>2, <2>4 DEF AddMember, TypeOK, accountVars
<1>8. ASSUME NEW e \in Emails, RescindInvitation(r, c, e)
      PROVE  TypeOK'
  <2>1. req' \in [Requests -> ReqRows]
    BY <1>8, ReqTyped, <1>0 DEF RescindInvitation, Done
  <2>2. \A u \in Users : Withdraw(member[c][u]) \in Members
    BY MemberFacts DEF TypeOK
  <2>3. member' \in [Collections -> [Users -> Members]]
    BY <1>8, <2>2 DEF RescindInvitation, TypeOK
  <2>4. QED
    BY <1>8, <2>1, <2>3 DEF RescindInvitation, TypeOK, accountVars
<1>9. ASSUME NEW t \in Users, RemoveMember(r, c, t)
      PROVE  TypeOK'
  <2>1. req' \in [Requests -> ReqRows]
    BY <1>9, ReqTyped, <1>0 DEF RemoveMember, Done
  <2>2. member' \in [Collections -> [Users -> Members]]
    BY <1>9, <1>0 DEF RemoveMember, TypeOK
  <2>3. QED
    BY <1>9, <2>1, <2>2, SeatTyped DEF RemoveMember, TypeOK, accountVars
<1>10. QED
  BY <1>2, <1>3, <1>4, <1>5, <1>6, <1>7, <1>8, <1>9 DEF CollectionStep

LEMMA TypeNext == TypeOK /\ [Next]_vars => TypeOK'
<1> SUFFICES ASSUME TypeOK, [Next]_vars PROVE TypeOK'
  OBVIOUS
<1>1. ASSUME NEW r \in Requests, NEW u \in Users, NEW p \in BOOLEAN, Authenticate(r, u, p)
      PROVE  TypeOK'
  <2>1. (role[u] = "admin") \in BOOLEAN
    OBVIOUS
  <2>2. req' \in [Requests -> ReqRows]
    BY <1>1, <2>1, ReqTyped, ReqStates DEF Authenticate
  <2>3. QED
    BY <1>1, <2>2 DEF Authenticate, TypeOK, accountVars, collectionVars
<1>2. ASSUME NEW r \in Requests, Abandon(r)
      PROVE  TypeOK'
  <2>1. req' \in [Requests -> ReqRows]
    BY <1>2, ReqTyped, ReqStates DEF Abandon
  <2>2. QED
    BY <1>2, <2>1 DEF Abandon, TypeOK, accountVars, collectionVars
<1>3. ASSUME NEW k \in Codes, ExpireStaleInvitations(k)
      PROVE  TypeOK'
  <2>1. code[k] # NoCode
    BY <1>3 DEF ExpireStaleInvitations, Pending, NoCode
  <2>2. code' \in [Codes -> CodeRows]
    BY <1>3, <2>1, CodeTyped DEF ExpireStaleInvitations
  <2>3. QED
    BY <1>3, <2>2 DEF ExpireStaleInvitations, TypeOK, accountVars, collectionVars
<1>4. CASE UNCHANGED vars
  BY <1>4 DEF vars, TypeOK
<1>5. QED
  BY <1>1, <1>2, <1>3, <1>4, TypeAccount, TypeCode, TypeRedeem, TypeCollection DEF Next, Step

(* The rows and the requests in flight keep their types: in particular a     *)
(* membership never has a role without a row or a row without a role, and a  *)
(* request in flight names accounts and codes that were issued.              *)
THEOREM TypeCorrect == Spec => []TypeOK
BY TypeInit, TypeNext, PTL DEF Spec

-----------------------------------------------------------------------------
(* Accounts.  The three promises hold together with two facts about how an   *)
(* account came to be: an id nobody was given has no history, and a code     *)
(* that made an account is redeemed.                                         *)

AccountInv ==
    /\ AdminRemains
    /\ SetupOnce
    /\ OneAccountPerCode
    /\ \A u \in Users : status[u] = "unborn" => via[u] = "none"
    /\ \A u \in Users : via[u] \in Codes => code[via[u]].state = "redeemed"

LEMMA AccountInit == Init => AccountInv
BY TeamAssumption DEF Init, AccountInv, AdminRemains, SetupOnce, OneAccountPerCode, LiveAdmin

(* A new account, of whatever origin: no admin goes, and its origin is new.  *)
LEMMA AccountInsert ==
    ASSUME TypeOK, AccountInv, NEW u \in Users, NEW q \in Roles,
           NEW how \in Codes \cup {"setup", "admin"}, Insert(u, q, how),
           how = "setup" => q = "admin" /\ NoUsers,
           how \in Codes => Pending(how) /\ code' = [code EXCEPT ![how].state = "redeemed"],
           how \notin Codes => code' = code,
           how # "setup" => \E v \in Users : status[v] # "unborn"
    PROVE  AccountInv'
<1>1. /\ status[u] = "unborn"
      /\ status' = [status EXCEPT ![u] = "live"]
      /\ role' = [role EXCEPT ![u] = q]
      /\ via' = [via EXCEPT ![u] = how]
  BY DEF Insert, Fresh
<1>2. AdminRemains'
  <2>1. CASE how = "setup"
    BY <1>1, <2>1 DEF AdminRemains, LiveAdmin, TypeOK
  <2>2. CASE how # "setup"
    <3>1. PICK w \in Users : LiveAdmin(w)
      BY <2>2 DEF AccountInv, AdminRemains
    <3>2. w # u
      BY <1>1, <3>1 DEF LiveAdmin
    <3>3. LiveAdmin(w)'
      BY <1>1, <3>1, <3>2 DEF LiveAdmin, TypeOK
    <3>4. QED
      BY <3>3 DEF AdminRemains
  <2>3. QED
    BY <2>1, <2>2
<1>3. SetupOnce'
  <2>1. how = "setup" => \A v \in Users : via[v] = "none"
    BY DEF AccountInv, AdminRemains, LiveAdmin, NoUsers, Exists
  <2>2. QED
    BY <1>1, <2>1 DEF AccountInv, SetupOnce, TypeOK
<1>4. \A v \in Users : via[v] \in Codes => via[v] # how
  BY DEF AccountInv, Pending
<1>5. OneAccountPerCode'
  BY <1>1, <1>4 DEF AccountInv, OneAccountPerCode, TypeOK
<1>6. (\A v \in Users : status[v] = "unborn" => via[v] = "none")'
  BY <1>1 DEF AccountInv, TypeOK
<1>7. ASSUME NEW v \in Users, via'[v] \in Codes
      PROVE  code'[via'[v]].state = "redeemed"
  <2>1. CASE how \in Codes
    <3>1. code[how] \in [state : {"pending", "redeemed", "expired", "deleted"},
                         email : Emails, role : Roles]
      BY <2>1 DEF Pending, TypeOK, CodeRows, NoCode
    <3>2. QED
      BY <1>1, <1>7, <2>1, <3>1 DEF AccountInv, TypeOK
  <2>2. CASE how \notin Codes
    BY <1>1, <1>7, <2>2 DEF AccountInv, TypeOK
  <2>3. QED
    BY <2>1, <2>2
<1>8. QED
  BY <1>2, <1>3, <1>5, <1>6, <1>7 DEF AccountInv

(* An account that loses its rights is not the last one that has them. *)
LEMMA AccountLosing ==
    ASSUME TypeOK, AccountInv, NEW t \in Users,
           NotLastAdmin(t) \/ LiveAdmin(t)',
           \A u \in Users \ {t} : status'[u] = status[u] /\ role'[u] = role[u],
           status[t] # "unborn", status'[t] # "unborn",
           UNCHANGED <<via, code>>
    PROVE  AccountInv'
<1>1. AdminRemains'
  <2>1. PICK w \in Users : LiveAdmin(w)
    BY DEF AccountInv, AdminRemains
  <2>2. PICK v \in Users : (LiveAdmin(v) /\ v # t) \/ LiveAdmin(v)'
    BY <2>1 DEF NotLastAdmin
  <2>3. LiveAdmin(v)'
    BY <2>2 DEF LiveAdmin
  <2>4. QED
    BY <2>3 DEF AdminRemains
<1>2. QED
  BY <1>1 DEF AccountInv, SetupOnce, OneAccountPerCode

(* Codes change state without an account: a redeemed one never does. *)
LEMMA AccountCode ==
    ASSUME TypeOK, AccountInv, NEW k \in Codes, code[k].state # "redeemed",
           \A j \in Codes \ {k} : code'[j] = code[j],
           UNCHANGED accountVars
    PROVE  AccountInv'
BY DEF AccountInv, AdminRemains, SetupOnce, OneAccountPerCode, LiveAdmin, accountVars

LEMMA AccountSame ==
    ASSUME AccountInv, UNCHANGED <<accountVars, code>>
    PROVE  AccountInv'
BY DEF AccountInv, AdminRemains, SetupOnce, OneAccountPerCode, LiveAdmin, accountVars

(* Before the first account there is no code, and nothing in flight but      *)
(* registrations.                                                            *)
Quiet ==
    (\A u \in Users : status[u] = "unborn") =>
        /\ \A k \in Codes : code[k] = NoCode
        /\ \A r \in Requests : req[r].pc \in {"idle", "register"}

LEMMA NotQuiet ==
    ASSUME Quiet, NEW r \in Requests, req[r].pc \notin {"idle", "register"}
    PROVE  \E u \in Users : status[u] # "unborn"
BY DEF Quiet

(* One step per action: each inserts an account, takes rights from one, or   *)
(* leaves the accounts alone.                                                *)
LEMMA AccountNext ==
    ASSUME TypeOK, AccountInv, Quiet, Next
    PROVE  AccountInv' /\ Quiet'
<1>0. ASSUME NEW u \in Users, status'[u] # "unborn"
      PROVE  Quiet'
  BY <1>0 DEF Quiet
<1>1. ASSUME NEW r \in Requests, NEW u \in Users, NEW p \in BOOLEAN, Authenticate(r, u, p)
      PROVE  AccountInv' /\ Quiet'
  <2>1. AccountInv'
    BY <1>1, AccountSame DEF Authenticate
  <2>2. status'[u] # "unborn"
    BY <1>1 DEF Authenticate, accountVars
  <2>3. QED
    BY <2>1, <2>2, <1>0
<1>2. ASSUME NEW r \in Requests, Abandon(r)
      PROVE  AccountInv' /\ Quiet'
  <2>1. AccountInv'
    BY <1>2, AccountSame DEF Abandon
  <2>2. QED
    BY <1>2, <2>1 DEF Abandon, Quiet, Idle, accountVars, TypeOK
<1>3. ASSUME NEW r \in Requests, AccountStep(r)
      PROVE  AccountInv' /\ Quiet'
  <2>1. ASSUME NEW p \in BOOLEAN, Register(r, p)
        PROVE  AccountInv' /\ Quiet'
    <3>1. AccountInv'
      BY <2>1, AccountSame DEF Register
    <3>2. QED
      BY <2>1, <3>1 DEF Register, Quiet, accountVars, TypeOK
  <2>2. ASSUME NEW u \in Users, CreateFirstAdmin(r, u)
        PROVE  AccountInv' /\ Quiet'
    <3>1. "setup" \notin Codes
      BY TeamAssumption
    <3>2. AccountInv'
      BY <2>2, <3>1, AccountInsert DEF CreateFirstAdmin, WhereNoUsers, Roles
    <3>3. status'[u] # "unborn"
      BY <2>2 DEF CreateFirstAdmin, Insert, TypeOK
    <3>4. QED
      BY <3>2, <3>3, <1>0
  <2>3. ASSUME NEW u \in Users, NEW q \in Roles, CreateUser(r, u, q)
        PROVE  AccountInv' /\ Quiet'
    <3>1. "admin" \notin Codes
      BY TeamAssumption
    <3>2. \E v \in Users : status[v] # "unborn"
      BY <2>3, NotQuiet DEF CreateUser, AdminApi, Api
    <3>3. AccountInv'
      BY <2>3, <3>1, <3>2, AccountInsert DEF CreateUser
    <3>4. status'[u] # "unborn"
      BY <2>3 DEF CreateUser, Insert, TypeOK
    <3>5. QED
      BY <3>3, <3>4, <1>0
  <2>4. CASE ListCollectionInvitationsForEmail(r)
    <3>1. AccountInv'
      BY <2>4, AccountSame DEF ListCollectionInvitationsForEmail
    <3>2. \E v \in Users : status'[v] # "unborn"
      BY <2>4, NotQuiet DEF ListCollectionInvitationsForEmail, accountVars
    <3>3. QED
      BY <3>1, <3>2, <1>0
  <2>5. ASSUME NEW s \in Collections \X MemberRoles, ClaimSeat(r, s)
        PROVE  AccountInv' /\ Quiet'
    <3>1. AccountInv'
      BY <2>5, AccountSame DEF ClaimSeat
    <3>2. \E v \in Users : status'[v] # "unborn"
      BY <2>5, NotQuiet DEF ClaimSeat, accountVars
    <3>3. QED
      BY <3>1, <3>2, <1>0
  <2>6. ASSUME NEW t \in Users, NEW q \in Roles \cup {"keep"},
               NEW to \in {"keep", "live", "disabled"}, UpdateUser(r, t, q, to)
        PROVE  AccountInv' /\ Quiet'
    <3>1. status[t] # "unborn" /\ status' = status
      BY <2>6 DEF UpdateUser, Exists
    <3>2. CASE q = "keep"
      <4>1. role' = role
        BY <2>6, <3>2 DEF UpdateUser
      <4>2. AccountInv'
        BY <2>6, <3>1, <4>1, AccountSame DEF UpdateUser, accountVars
      <4>3. QED
        BY <3>1, <4>2, <1>0
    <3>3. CASE q # "keep"
      <4>1. role' = [role EXCEPT ![t] = q] /\ (q = "admin" \/ NotLastAdmin(t))
        BY <2>6, <3>3 DEF UpdateUser
      <4>2. NotLastAdmin(t) \/ LiveAdmin(t)'
        BY <3>1, <4>1 DEF NotLastAdmin, LiveAdmin, TypeOK
      <4>3. \A u \in Users \ {t} : status'[u] = status[u] /\ role'[u] = role[u]
        BY <3>1, <4>1 DEF TypeOK
      <4>4. AccountInv'
        BY <2>6, <3>1, <4>2, <4>3, AccountLosing DEF UpdateUser
      <4>5. QED
        BY <3>1, <4>4, <1>0
    <3>4. QED
      BY <3>2, <3>3
  <2>7. CASE SetUserDisabled(r)
    <3>0. PICK t : t = req[r].target
      OBVIOUS
    <3>1. t \in Users /\ req[r].to \in {"live", "disabled"}
      BY <2>7, <3>0, ReqFields DEF SetUserDisabled
    <3>2. /\ Exists(t) /\ role' = role
          /\ status' = [status EXCEPT ![t] = req[r].to]
          /\ req[r].to = "disabled" => NotLastAdmin(t)
      BY <2>7, <3>0 DEF SetUserDisabled
    <3>3. NotLastAdmin(t) \/ LiveAdmin(t)'
      BY <3>1, <3>2 DEF NotLastAdmin, LiveAdmin, TypeOK
    <3>4. /\ \A u \in Users \ {t} : status'[u] = status[u] /\ role'[u] = role[u]
          /\ status[t] # "unborn" /\ status'[t] # "unborn"
      BY <3>1, <3>2 DEF Exists, TypeOK
    <3>5. UNCHANGED <<via, code>>
      BY <2>7 DEF SetUserDisabled
    <3>6. AccountInv'
      BY <3>1, <3>3, <3>4, <3>5, AccountLosing
    <3>7. QED
      BY <3>1, <3>4, <3>6, <1>0
  <2>8. ASSUME NEW t \in Users, DeleteUser(r, t)
        PROVE  AccountInv' /\ Quiet'
    <3>1. /\ \A u \in Users \ {t} : status'[u] = status[u] /\ role'[u] = role[u]
          /\ status[t] # "unborn" /\ status'[t] # "unborn" /\ NotLastAdmin(t)
          /\ UNCHANGED <<via, code>>
      BY <2>8 DEF DeleteUser, Exists, TypeOK
    <3>2. AccountInv'
      BY <3>1, AccountLosing
    <3>3. QED
      BY <3>1, <3>2, <1>0
  <2>9. QED
    BY <1>3, <2>1, <2>2, <2>3, <2>4, <2>5, <2>6, <2>7, <2>8 DEF AccountStep
<1>4. ASSUME NEW r \in Requests, CodeStep(r)
      PROVE  AccountInv' /\ Quiet'
  <2>1. PICK k \in Codes :
           \/ \E e \in Emails, q \in Roles : CreateInvitation(r, k, e, q)
           \/ DeleteInvitation(r, k)
           \/ \E p \in BOOLEAN : RedeemPreflight(r, k, p)
    BY <1>4 DEF CodeStep
  <2>2. \/ UNCHANGED code
        \/ code[k].state # "redeemed" /\ \A j \in Codes \ {k} : code'[j] = code[j]
    BY <2>1 DEF CreateInvitation, DeleteInvitation, RedeemPreflight, Pending, NoCode, TypeOK
  <2>3. UNCHANGED accountVars
    BY <2>1 DEF CreateInvitation, DeleteInvitation, RedeemPreflight
  <2>4. AccountInv'
    BY <2>2, <2>3, AccountCode, AccountSame
  <2>5. \E v \in Users : status[v] # "unborn"
    BY <2>1, NotQuiet DEF CreateInvitation, DeleteInvitation, RedeemPreflight, Pending,
                          AdminApi, Api, NoCode, Quiet
  <2>6. QED
    BY <2>3, <2>4, <2>5, <1>0 DEF accountVars
<1>5. ASSUME NEW r \in Requests, NEW u \in Users, RedeemInvitation(r, u)
      PROVE  AccountInv' /\ Quiet'
  <2>0. PICK k : k = req[r].code
    OBVIOUS
  <2>1. k \in Codes /\ Pending(k)
    BY <1>5, <2>0, ReqFields DEF RedeemInvitation, MarkInvitationRedeemedIfPending
  <2>2. code[k].role \in Roles
    <3>1. code[k] # NoCode
      BY <2>1 DEF Pending, NoCode
    <3>2. QED
      BY <2>1, <3>1 DEF TypeOK, CodeRows
  <2>3. Insert(u, code[k].role, k) /\ code' = [code EXCEPT ![k].state = "redeemed"]
    BY <1>5, <2>0 DEF RedeemInvitation
  <2>4. k # "setup"
    BY <2>1, TeamAssumption
  <2>5. \E v \in Users : status[v] # "unborn"
    BY <1>5, NotQuiet DEF RedeemInvitation
  <2>6. status'[u] # "unborn"
    BY <2>3 DEF Insert, TypeOK
  <2>7. AccountInv'
    BY <2>1, <2>2, <2>3, <2>4, <2>5, AccountInsert
  <2>8. QED
    BY <2>6, <2>7, <1>0
<1>6. ASSUME NEW r \in Requests, NEW c \in Collections, CollectionStep(r, c)
      PROVE  AccountInv' /\ Quiet'
  <2>1. UNCHANGED <<accountVars, code>> /\ req[r].pc = "api"
    BY <1>6 DEF CollectionStep, CreateCollection, UpdateCollection, DeleteCollection,
                AcceptInvite, DeclineInvite, AddMember, RescindInvitation, RemoveMember,
                MayManage, Api
  <2>2. AccountInv'
    BY <2>1, AccountSame
  <2>3. \E v \in Users : status'[v] # "unborn"
    BY <2>1, NotQuiet DEF accountVars
  <2>4. QED
    BY <2>2, <2>3, <1>0
<1>7. ASSUME NEW k \in Codes, ExpireStaleInvitations(k)
      PROVE  AccountInv' /\ Quiet'
  <2>1. code[k].state # "redeemed" /\ \A j \in Codes \ {k} : code'[j] = code[j]
    BY <1>7 DEF ExpireStaleInvitations, Pending, TypeOK
  <2>2. AccountInv'
    BY <1>7, <2>1, AccountCode DEF ExpireStaleInvitations
  <2>3. \E v \in Users : status'[v] # "unborn"
    BY <1>7 DEF ExpireStaleInvitations, Pending, NoCode, Quiet, accountVars
  <2>4. QED
    BY <2>2, <2>3, <1>0
<1>8. QED
  BY <1>1, <1>2, <1>3, <1>4, <1>5, <1>6, <1>7 DEF Next, Step

LEMMA QuietInit == Init => Quiet
BY DEF Init, Quiet, Idle

LEMMA AccountCorrect == Spec => [](AccountInv /\ Quiet)
<1>1. TypeOK /\ AccountInv /\ Quiet /\ [Next]_vars => (AccountInv /\ Quiet)'
  <2>1. CASE UNCHANGED vars
    BY <2>1, AccountSame DEF vars, accountVars, Quiet
  <2>2. QED
    BY <2>1, AccountNext
<1>2. QED
  BY <1>1, AccountInit, QuietInit, TypeCorrect, PTL DEF Spec

(* However many requests demote, disable and delete each other's accounts,   *)
(* an instance that was set up keeps an enabled administrator.               *)
THEOREM AdminAlwaysRemains == Spec => []AdminRemains
BY AccountCorrect, PTL DEF AccountInv

(* However many registrations pass the count of zero at once, first-run      *)
(* setup makes one account, because the last administrator is never removed  *)
(* and the table never empties again.                                        *)
THEOREM SetupRunsOnce == Spec => []SetupOnce
BY AccountCorrect, PTL DEF AccountInv

(* However many redemptions of a code pass the preflight, it makes one       *)
(* account, also after that account is deleted.                              *)
THEOREM CodeMakesOneAccount == Spec => []OneAccountPerCode
BY AccountCorrect, PTL DEF AccountInv

=============================================================================
