----------------------------- MODULE SeatProofs -----------------------------
(* Seats, pending memberships and managers, for every number of accounts,   *)
(* collections and requests, where accounts are made by redeeming codes.    *)
EXTENDS TeamProofs

(* The routes that claim seats outside a transaction are not used. *)
ClaimsAreAtomic == {"create_user", "register"} \cap Doors = {}

NoLateClaim == \A r \in Requests : req[r].pc \notin {"register", "list", "claim"}

(* Addresses are unique among the accounts there are, rows belong to         *)
(* accounts and collections there are, and seats match pending rows.         *)
OneAddress ==
    \A u, v \in Users : Exists(u) /\ Exists(v) /\ EmailOf[u] = EmailOf[v] => u = v
MembersExist ==
    \A c \in Collections, u \in Users : IsMember(c, u) => Exists(u) /\ CollectionExists(c)
SeatsExist ==
    \A c \in Collections, e \in Emails : seat[c][e] # "none" => CollectionExists(c)
SeatInv ==
    /\ OneAddress
    /\ MembersExist
    /\ SeatsExist
    /\ PendingMatchesSeat
    /\ ~SeatErrors => SeatIsRedeemable

LEMMA SeatInit == Init => SeatInv /\ NoLateClaim
<1> SUFFICES ASSUME Init PROVE SeatInv /\ NoLateClaim
  OBVIOUS
<1>1. NoLateClaim
  BY DEF Init, NoLateClaim, Idle
<1>2. OneAddress
  BY TeamAssumption DEF Init, OneAddress, Exists
<1>3. \A c \in Collections, u \in Users : ~IsMember(c, u)
  BY DEF Init, IsMember
<1>4. \A c \in Collections, e \in Emails : seat[c][e] = "none"
  BY DEF Init
<1>5. QED
  BY <1>1, <1>2, <1>3, <1>4, TeamAssumption
     DEF SeatInv, MembersExist, SeatsExist, PendingMatchesSeat, SeatIsRedeemable

(* What a row is: no row is neither accepted nor of a role. *)
LEMMA Rows ==
    ASSUME TypeOK, NEW c \in Collections, NEW u \in Users
    PROVE  /\ member[c][u] \in Members
           /\ member[c][u].accepted \in BOOLEAN
           /\ member[c][u].accepted => IsMember(c, u)
           /\ seat[c][EmailOf[u]] \in MemberRoles \cup {"none"}
           /\ EmailOf[u] \in Emails
<1>1. member[c][u] \in Members /\ EmailOf[u] \in Emails
  BY TeamAssumption DEF TypeOK
<1>2. QED
  BY <1>1, MemberFacts DEF IsMember, TypeOK

(* The effect of the statement that writes a membership. *)
LEMMA Added ==
    ASSUME NEW m \in Members, NEW q \in MemberRoles
    PROVE  /\ AddCollectionMember(m, q) # NoMember
           /\ AddCollectionMember(m, q).role = q
           /\ AddCollectionMember(m, q).accepted = m.accepted
BY TeamAssumption DEF AddCollectionMember, NoMember

(* Nothing here notices a request that changes no row, or an account that    *)
(* is disabled and enabled.                                                  *)
LEMMA SeatSame ==
    ASSUME SeatInv, UNCHANGED collectionVars,
           \A u \in Users : Exists(u)' = Exists(u)
    PROVE  SeatInv'
BY DEF SeatInv, OneAddress, MembersExist, SeatsExist, PendingMatchesSeat, SeatIsRedeemable,
       IsMember, CollectionExists, collectionVars

LEMMA SeatRedeem ==
    ASSUME TypeOK, SeatInv, NEW r \in Requests, NEW u \in Users, RedeemInvitation(r, u)
    PROVE  SeatInv'
<1>1. /\ ~Exists(u) /\ Holder(EmailOf[u]) = {}
      /\ status' = [status EXCEPT ![u] = "live"]
      /\ member' = claimCollectionInvitations(u)
      /\ UNCHANGED <<policy, seat>>
  BY DEF RedeemInvitation, Insert, Fresh, Exists
<1>2. \A v \in Users : Exists(v)' <=> Exists(v) \/ v = u
  BY <1>1 DEF Exists, TypeOK
<1>3. \A v \in Users : Exists(v) => EmailOf[v] # EmailOf[u]
  BY <1>1 DEF Holder
<1>4. \A c \in Collections : member[c][u] = NoMember
  BY <1>1 DEF SeatInv, MembersExist, IsMember
<1>5. \A c \in Collections, v \in Users \ {u} : member'[c][v] = member[c][v]
  BY <1>1 DEF claimCollectionInvitations, TypeOK
<1>6. \A c \in Collections :
         member'[c][u] = IF seat[c][EmailOf[u]] = "none" THEN NoMember
                         ELSE AddCollectionMember(NoMember, seat[c][EmailOf[u]])
  BY <1>1, <1>4 DEF claimCollectionInvitations, TypeOK
<1>7. \A c \in Collections : seat[c][EmailOf[u]] # "none" =>
         /\ member'[c][u] # NoMember
         /\ member'[c][u].role = seat[c][EmailOf[u]]
         /\ ~member'[c][u].accepted
         /\ CollectionExists(c)
  BY <1>6, Rows, Added DEF Members, NoMember, SeatInv, SeatsExist
<1>8. OneAddress'
  BY <1>2, <1>3 DEF SeatInv, OneAddress
<1>9. MembersExist'
  BY <1>1, <1>2, <1>5, <1>6, <1>7 DEF SeatInv, MembersExist, IsMember, CollectionExists
<1>10. SeatsExist'
  BY <1>1 DEF SeatInv, SeatsExist, CollectionExists
<1>11. PendingMatchesSeat'
  BY <1>1, <1>5, <1>6, <1>7 DEF SeatInv, PendingMatchesSeat, IsMember
<1>12. ASSUME ~SeatErrors PROVE SeatIsRedeemable'
  BY <1>1, <1>2, <1>5, <1>7, <1>12 DEF SeatInv, SeatIsRedeemable, IsMember
<1>13. QED
  BY <1>8, <1>9, <1>10, <1>11, <1>12 DEF SeatInv

LEMMA SeatDeleteUser ==
    ASSUME TypeOK, SeatInv, NEW r \in Requests, NEW t \in Users, DeleteUser(r, t)
    PROVE  SeatInv'
<1>1. /\ status' = [status EXCEPT ![t] = "gone"]
      /\ UNCHANGED <<policy, seat>>
      /\ \A c \in Collections : member'[c][t] = NoMember
      /\ \A c \in Collections, v \in Users \ {t} : member'[c][v] = member[c][v]
  BY DEF DeleteUser, TypeOK
<1>2. \A v \in Users : Exists(v)' <=> Exists(v) /\ v # t
  BY <1>1 DEF Exists, TypeOK
<1>3. QED
  BY <1>1, <1>2 DEF SeatInv, OneAddress, MembersExist, SeatsExist, PendingMatchesSeat,
       SeatIsRedeemable, IsMember, CollectionExists

(* A row that settles takes its seat along, or the seat stays on an error.   *)
LEMMA SeatSettles ==
    ASSUME TypeOK, SeatInv, NEW c \in Collections, NEW t \in Users, IsMember(c, t),
           NEW m \in Members, m = NoMember \/ m.accepted,
           member' = [member EXCEPT ![c][t] = m],
           dropInvitationSeat(c, t), UNCHANGED <<status, policy>>
    PROVE  SeatInv'
<1>1. /\ member'[c][t] = m
      /\ \A d \in Collections, v \in Users : d # c \/ v # t => member'[d][v] = member[d][v]
  BY DEF TypeOK
<1>2. /\ \A d \in Collections, e \in Emails :
            d # c \/ e # EmailOf[t] => seat'[d][e] = seat[d][e]
      /\ seat'[c][EmailOf[t]] \in {"none", seat[c][EmailOf[t]]}
      /\ ~SeatErrors => seat'[c][EmailOf[t]] = "none"
  BY Rows DEF dropInvitationSeat, TypeOK
<1>3. Exists(t) /\ CollectionExists(c)
  BY DEF SeatInv, MembersExist
<1>4. \A v \in Users : EmailOf[v] = EmailOf[t] /\ Exists(v) => v = t
  BY <1>3 DEF SeatInv, OneAddress
<1>5. \A u \in Users : Exists(u)' = Exists(u)
  BY DEF Exists
<1>6. \A d \in Collections : CollectionExists(d)' = CollectionExists(d)
  BY DEF CollectionExists
<1>7. OneAddress'
  BY <1>5 DEF SeatInv, OneAddress
<1>8. MembersExist'
  BY <1>1, <1>3, <1>5, <1>6 DEF SeatInv, MembersExist, IsMember
<1>9. SeatsExist'
  BY <1>2, <1>3, <1>6 DEF SeatInv, SeatsExist
<1>10. ASSUME NEW d \in Collections, NEW v \in Users,
              IsMember(d, v)', ~member'[d][v].accepted
       PROVE  seat'[d][EmailOf[v]] = member'[d][v].role
  <2>1. d # c \/ v # t
    BY <1>1, <1>10 DEF IsMember
  <2>2. member'[d][v] = member[d][v]
    BY <1>1, <2>1
  <2>3. IsMember(d, v) /\ Exists(v)
    BY <1>10, <2>2 DEF IsMember, SeatInv, MembersExist
  <2>4. d # c \/ EmailOf[v] # EmailOf[t]
    BY <1>4, <2>1, <2>3
  <2>5. QED
    BY <1>2, <1>10, <2>2, <2>3, <2>4, Rows DEF SeatInv, PendingMatchesSeat
<1>11. ASSUME ~SeatErrors, NEW d \in Collections, NEW v \in Users,
              Exists(v)', seat'[d][EmailOf[v]] # "none"
       PROVE  IsMember(d, v)' /\ ~member'[d][v].accepted
  <2>1. d # c \/ EmailOf[v] # EmailOf[t]
    BY <1>2, <1>11
  <2>2. seat[d][EmailOf[v]] # "none" /\ Exists(v) /\ member'[d][v] = member[d][v]
    BY <1>1, <1>2, <1>5, <1>11, <2>1, Rows
  <2>3. QED
    BY <1>11, <2>2 DEF SeatInv, SeatIsRedeemable, IsMember
<1>12. QED
  BY <1>7, <1>8, <1>9, <1>10, <1>11 DEF SeatInv, PendingMatchesSeat, SeatIsRedeemable

LEMMA SeatCreate ==
    ASSUME TypeOK, SeatInv, NEW r \in Requests, NEW c \in Collections, NEW p \in Policies,
           CreateCollection(r, c, p)
    PROVE  SeatInv'
<1>1. PICK t : t = req[r].user
  OBVIOUS
<1>2. /\ t \in Users /\ Exists(t) /\ policy[c] = "unborn"
      /\ policy' = [policy EXCEPT ![c] = p]
      /\ member' = [member EXCEPT ![c][t] = [role |-> "manager", accepted |-> TRUE]]
      /\ UNCHANGED <<status, seat>>
  BY <1>1, ReqFields DEF CreateCollection, Api, accountVars
<1>3. \A d \in Collections : CollectionExists(d)' <=> CollectionExists(d) \/ d = c
  BY <1>2, TeamAssumption DEF CollectionExists, TypeOK
<1>4. \A u \in Users : Exists(u)' = Exists(u)
  BY <1>2 DEF Exists
<1>5. ~CollectionExists(c)
  BY <1>2 DEF CollectionExists
<1>6. \A e \in Emails : seat[c][e] = "none"
  BY <1>5 DEF SeatInv, SeatsExist
<1>7. \A d \in Collections, v \in Users : d # c \/ v # t => member'[d][v] = member[d][v]
  BY <1>2 DEF TypeOK
<1>8. member'[c][t] = [role |-> "manager", accepted |-> TRUE]
  BY <1>2 DEF TypeOK
<1>9. \A v \in Users : ~IsMember(c, v)
  BY <1>5 DEF SeatInv, MembersExist
<1>10. OneAddress'
  BY <1>4 DEF SeatInv, OneAddress
<1>11. MembersExist'
  BY <1>2, <1>3, <1>4, <1>7 DEF SeatInv, MembersExist, IsMember
<1>12. SeatsExist'
  BY <1>2, <1>3 DEF SeatInv, SeatsExist
<1>13. PendingMatchesSeat'
  BY <1>2, <1>7, <1>8 DEF SeatInv, PendingMatchesSeat, IsMember
<1>14. ASSUME ~SeatErrors, NEW d \in Collections, NEW v \in Users,
              Exists(v)', seat'[d][EmailOf[v]] # "none"
       PROVE  IsMember(d, v)' /\ ~member'[d][v].accepted
  <2>1. d # c
    BY <1>2, <1>6, <1>14, TeamAssumption
  <2>2. QED
    BY <1>2, <1>4, <1>7, <1>14, <2>1 DEF SeatInv, SeatIsRedeemable, IsMember
<1>15. QED
  BY <1>10, <1>11, <1>12, <1>13, <1>14 DEF SeatInv, SeatIsRedeemable

LEMMA SeatUpdate ==
    ASSUME TypeOK, SeatInv, NEW r \in Requests, NEW c \in Collections, NEW p \in Policies,
           UpdateCollection(r, c, p)
    PROVE  SeatInv'
<1>1. \A d \in Collections : CollectionExists(d)' = CollectionExists(d)
  BY TeamAssumption DEF UpdateCollection, MayManage, CollectionExists, TypeOK
<1>2. QED
  BY <1>1 DEF UpdateCollection, accountVars, SeatInv, OneAddress, MembersExist, SeatsExist,
       PendingMatchesSeat, SeatIsRedeemable, IsMember, Exists

LEMMA SeatDelete ==
    ASSUME TypeOK, SeatInv, NEW r \in Requests, NEW c \in Collections, DeleteCollection(r, c)
    PROVE  SeatInv'
<1>1. /\ \A v \in Users : member'[c][v] = NoMember
      /\ \A e \in Emails : seat'[c][e] = "none"
      /\ \A d \in Collections \ {c} : /\ member'[d] = member[d] /\ seat'[d] = seat[d]
                                      /\ policy'[d] = policy[d]
      /\ status' = status
  BY DEF DeleteCollection, accountVars, TypeOK
<1>2. \A u \in Users : Exists(u)' = Exists(u) /\ EmailOf[u] \in Emails
  BY <1>1, TeamAssumption DEF Exists
<1>3. \A d \in Collections \ {c} : CollectionExists(d)' = CollectionExists(d)
  BY <1>1 DEF CollectionExists
<1>4. QED
  BY <1>1, <1>2, <1>3 DEF SeatInv, OneAddress, MembersExist, SeatsExist,
       PendingMatchesSeat, SeatIsRedeemable, IsMember

(* The holder of an address, if there is one, is the only one; whoever has a *)
(* row has an account.                                                       *)
LEMMA OneHolder ==
    ASSUME SeatInv, NEW e \in Emails
    PROVE  /\ \A u, v \in Holder(e) : u = v
           /\ \A c \in Collections, u \in Users :
                 IsMember(c, u) /\ EmailOf[u] = e => u \in Holder(e)
           /\ \A u \in Users : u \in Holder(e) <=> Exists(u) /\ EmailOf[u] = e
BY DEF SeatInv, OneAddress, MembersExist, Holder

LEMMA SeatAdd ==
    ASSUME TypeOK, SeatInv, NEW r \in Requests, NEW c \in Collections, NEW e \in Emails,
           NEW q \in MemberRoles, AddMember(r, c, e, q)
    PROVE  SeatInv'
<1> DEFINE accepted == \E u \in Holder(e) : member[c][u].accepted
<1>1. /\ CollectionExists(c) /\ UNCHANGED <<status, policy>>
      /\ seat' = IF accepted THEN seat ELSE [seat EXCEPT ![c][e] = q]
      /\ member' = [member EXCEPT ![c] = [u \in Users |->
            IF u \in Holder(e) THEN AddCollectionMember(@[u], q) ELSE @[u]]]
  BY DEF AddMember, MayManage, accountVars
<1>2. /\ \A u \in Holder(e) : member'[c][u] = AddCollectionMember(member[c][u], q)
      /\ \A d \in Collections, u \in Users :
            d # c \/ u \notin Holder(e) => member'[d][u] = member[d][u]
  BY <1>1 DEF TypeOK, Holder
<1>3. /\ ~accepted => seat'[c][e] = q
      /\ accepted => seat' = seat
      /\ \A d \in Collections, f \in Emails : d # c \/ f # e => seat'[d][f] = seat[d][f]
  BY <1>1 DEF TypeOK
<1>4. \A u \in Holder(e) : /\ member'[c][u] # NoMember /\ member'[c][u].role = q
                           /\ member'[c][u].accepted = member[c][u].accepted
  BY <1>2, Rows, Added DEF Holder
<1>5. /\ \A u \in Users : Exists(u)' = Exists(u) /\ EmailOf[u] \in Emails
      /\ \A d \in Collections : CollectionExists(d)' = CollectionExists(d)
  BY <1>1, TeamAssumption DEF Exists, CollectionExists
<1> HIDE DEF accepted
<1>6. OneAddress'
  BY <1>5 DEF SeatInv, OneAddress
<1>7. MembersExist'
  BY <1>1, <1>2, <1>5, OneHolder DEF SeatInv, MembersExist, IsMember
<1>8. SeatsExist'
  BY <1>1, <1>3, <1>5 DEF SeatInv, SeatsExist
<1>9. ASSUME NEW d \in Collections, NEW v \in Users,
             IsMember(d, v)', ~member'[d][v].accepted
      PROVE  seat'[d][EmailOf[v]] = member'[d][v].role
  <2>1. CASE d = c /\ v \in Holder(e)
    <3>1. ~accepted
      BY <1>4, <1>9, <2>1, OneHolder DEF accepted
    <3>2. EmailOf[v] = e
      BY <2>1 DEF Holder
    <3>3. QED
      BY <1>3, <1>4, <2>1, <3>1, <3>2
  <2>2. CASE d # c \/ v \notin Holder(e)
    <3>1. member'[d][v] = member[d][v] /\ IsMember(d, v)
      BY <1>2, <1>9, <2>2 DEF IsMember
    <3>2. d # c \/ EmailOf[v] # e
      BY <2>2, <3>1, OneHolder
    <3>3. QED
      BY <1>3, <1>5, <1>9, <3>1, <3>2 DEF SeatInv, PendingMatchesSeat
  <2>3. QED
    BY <2>1, <2>2
<1>10. ASSUME ~SeatErrors, NEW d \in Collections, NEW v \in Users,
              Exists(v)', seat'[d][EmailOf[v]] # "none"
       PROVE  IsMember(d, v)' /\ ~member'[d][v].accepted
  <2>1. CASE d = c /\ v \in Holder(e)
    <3>1. EmailOf[v] = e /\ Exists(v)
      BY <2>1 DEF Holder
    <3>2. ~member[c][v].accepted
      BY <1>3, <1>10, <2>1, <3>1, OneHolder DEF accepted, SeatInv, SeatIsRedeemable
    <3>3. QED
      BY <1>4, <2>1, <3>2 DEF IsMember
  <2>2. CASE d # c \/ v \notin Holder(e)
    <3>1. d # c \/ EmailOf[v] # e
      BY <1>5, <1>10, <2>2, OneHolder
    <3>2. QED
      BY <1>2, <1>3, <1>5, <1>10, <2>2, <3>1 DEF SeatInv, SeatIsRedeemable, IsMember
  <2>3. QED
    BY <2>1, <2>2
<1>11. QED
  BY <1>6, <1>7, <1>8, <1>9, <1>10 DEF SeatInv, PendingMatchesSeat, SeatIsRedeemable

LEMMA SeatRescind ==
    ASSUME TypeOK, SeatInv, NEW r \in Requests, NEW c \in Collections, NEW e \in Emails,
           RescindInvitation(r, c, e)
    PROVE  SeatInv'
<1>1. /\ UNCHANGED <<status, policy>>
      /\ seat' = [seat EXCEPT ![c][e] = "none"]
      /\ member' = [member EXCEPT ![c] = [u \in Users |->
            IF u \in Holder(e) THEN Withdraw(@[u]) ELSE @[u]]]
  BY DEF RescindInvitation, accountVars
<1>2. /\ \A u \in Holder(e) : member'[c][u] = Withdraw(member[c][u])
      /\ \A d \in Collections, u \in Users :
            d # c \/ u \notin Holder(e) => member'[d][u] = member[d][u]
  BY <1>1 DEF TypeOK, Holder
<1>3. /\ seat'[c][e] = "none"
      /\ \A d \in Collections, f \in Emails : d # c \/ f # e => seat'[d][f] = seat[d][f]
  BY <1>1 DEF TypeOK
<1>4. \A u \in Holder(e) : \/ member'[c][u] = NoMember
                           \/ member'[c][u] = member[c][u] /\ member[c][u].accepted
  BY <1>2 DEF Withdraw
<1>5. /\ \A u \in Users : Exists(u)' = Exists(u) /\ EmailOf[u] \in Emails
      /\ \A d \in Collections : CollectionExists(d)' = CollectionExists(d)
  BY <1>1, TeamAssumption DEF Exists, CollectionExists
<1>6. OneAddress'
  BY <1>5 DEF SeatInv, OneAddress
<1>7. MembersExist'
  BY <1>2, <1>4, <1>5 DEF SeatInv, MembersExist, IsMember
<1>8. SeatsExist'
  BY <1>3, <1>5 DEF SeatInv, SeatsExist
<1>9. ASSUME NEW d \in Collections, NEW v \in Users,
             IsMember(d, v)', ~member'[d][v].accepted
      PROVE  seat'[d][EmailOf[v]] = member'[d][v].role
  <2>1. d # c \/ v \notin Holder(e)
    BY <1>4, <1>9 DEF IsMember
  <2>2. member'[d][v] = member[d][v] /\ IsMember(d, v)
    BY <1>2, <1>9, <2>1 DEF IsMember
  <2>3. d # c \/ EmailOf[v] # e
    BY <2>1, <2>2, OneHolder
  <2>4. QED
    BY <1>3, <1>5, <1>9, <2>2, <2>3 DEF SeatInv, PendingMatchesSeat
<1>10. ASSUME ~SeatErrors, NEW d \in Collections, NEW v \in Users,
              Exists(v)', seat'[d][EmailOf[v]] # "none"
       PROVE  IsMember(d, v)' /\ ~member'[d][v].accepted
  <2>1. d # c \/ EmailOf[v] # e
    BY <1>3, <1>10
  <2>2. member'[d][v] = member[d][v] /\ seat[d][EmailOf[v]] # "none" /\ Exists(v)
    BY <1>2, <1>3, <1>5, <1>10, <2>1, OneHolder
  <2>3. QED
    BY <1>10, <2>2 DEF SeatInv, SeatIsRedeemable, IsMember
<1>11. QED
  BY <1>6, <1>7, <1>8, <1>9, <1>10 DEF SeatInv, PendingMatchesSeat, SeatIsRedeemable

LEMMA SeatCollection ==
    ASSUME TypeOK, SeatInv, NEW r \in Requests, NEW c \in Collections, CollectionStep(r, c)
    PROVE  SeatInv'
<1>1. CASE AcceptInvite(r, c)
  <2>1. PICK t : t = req[r].user
    OBVIOUS
  <2>2. /\ t \in Users /\ IsMember(c, t)
        /\ member' = [member EXCEPT ![c][t].accepted = TRUE]
        /\ dropInvitationSeat(c, t) /\ UNCHANGED <<status, policy>>
    BY <1>1, <2>1, ReqFields DEF AcceptInvite, Api, accountVars
  <2>3. PICK m : m = [member[c][t] EXCEPT !.accepted = TRUE]
    OBVIOUS
  <2>4. m \in Members /\ m.accepted
    BY <2>2, <2>3, Rows, MemberFacts DEF IsMember, Members, NoMember
  <2>5. member' = [member EXCEPT ![c][t] = m]
    BY <2>2, <2>3 DEF TypeOK
  <2>6. QED
    BY <2>2, <2>4, <2>5, SeatSettles
<1>2. CASE DeclineInvite(r, c)
  <2>1. PICK t : t = req[r].user
    OBVIOUS
  <2>2. /\ t \in Users /\ IsMember(c, t)
        /\ member' = [member EXCEPT ![c][t] = NoMember]
        /\ dropInvitationSeat(c, t) /\ UNCHANGED <<status, policy>>
    BY <1>2, <2>1, ReqFields DEF DeclineInvite, Api, accountVars
  <2>3. QED
    BY <2>2, SeatSettles DEF Members
<1>3. ASSUME NEW t \in Users, RemoveMember(r, c, t)
      PROVE  SeatInv'
  BY <1>3, SeatSettles DEF RemoveMember, Members, accountVars
<1>4. QED
  BY <1>1, <1>2, <1>3, SeatCreate, SeatUpdate, SeatDelete, SeatAdd, SeatRescind
     DEF CollectionStep

LEMMA SeatNext ==
    ASSUME ClaimsAreAtomic, TypeOK, SeatInv, NoLateClaim, Next
    PROVE  SeatInv' /\ NoLateClaim'
<1>0. ASSUME NEW r \in Requests, NEW x, req' = [req EXCEPT ![r] = x],
             x.pc \notin {"register", "list", "claim"}
      PROVE  NoLateClaim'
  BY <1>0 DEF NoLateClaim, TypeOK
<1>1. ASSUME NEW r \in Requests, NEW u \in Users, NEW p \in BOOLEAN, Authenticate(r, u, p)
      PROVE  SeatInv' /\ NoLateClaim'
  <2>1. SeatInv'
    BY <1>1, SeatSame DEF Authenticate, accountVars, Exists
  <2>2. PICK x : x = [pc |-> "api", user |-> u, admin |-> role[u] = "admin", private |-> p]
    OBVIOUS
  <2>3. req' = [req EXCEPT ![r] = x] /\ x.pc = "api"
    BY <1>1, <2>2 DEF Authenticate
  <2>4. QED
    BY <2>1, <2>3, <1>0
<1>2. ASSUME NEW r \in Requests, Abandon(r)
      PROVE  SeatInv' /\ NoLateClaim'
  <2>1. SeatInv'
    BY <1>2, SeatSame DEF Abandon, accountVars, Exists
  <2>2. QED
    BY <1>2, <2>1, <1>0 DEF Abandon, Idle
<1>3. ASSUME NEW r \in Requests, AccountStep(r)
      PROVE  SeatInv' /\ NoLateClaim'
  <2>1. /\ "register" \notin Doors /\ "create_user" \notin Doors
        /\ ~ListCollectionInvitationsForEmail(r)
        /\ \A s \in Collections \X MemberRoles : ~ClaimSeat(r, s)
    BY DEF ClaimsAreAtomic, NoLateClaim, ListCollectionInvitationsForEmail, ClaimSeat
  <2>2. ASSUME NEW t \in Users, NEW q \in Roles \cup {"keep"},
               NEW to \in {"keep", "live", "disabled"}, UpdateUser(r, t, q, to)
        PROVE  SeatInv' /\ NoLateClaim'
    <3>1. SeatInv'
      BY <2>2, SeatSame DEF UpdateUser, Exists
    <3>2. PICK x : x = IF to = "keep" THEN Idle
                       ELSE [pc |-> "disable", user |-> req[r].user, target |-> t, to |-> to]
      OBVIOUS
    <3>3. req' = [req EXCEPT ![r] = x] /\ x.pc \in {"idle", "disable"}
      BY <2>2, <3>2 DEF UpdateUser, Idle
    <3>4. QED
      BY <3>1, <3>3, <1>0
  <2>3. CASE SetUserDisabled(r)
    <3>1. req[r].to \in {"live", "disabled"} /\ req[r].target \in Users
      BY <2>3, ReqFields DEF SetUserDisabled
    <3>2. \A u \in Users : Exists(u)' = Exists(u)
      BY <2>3, <3>1 DEF SetUserDisabled, Exists, TypeOK
    <3>3. SeatInv'
      BY <2>3, <3>2, SeatSame DEF SetUserDisabled
    <3>4. QED
      BY <2>3, <3>3, <1>0 DEF SetUserDisabled, Done, Idle
  <2>4. ASSUME NEW t \in Users, DeleteUser(r, t)
        PROVE  SeatInv' /\ NoLateClaim'
    BY <2>4, SeatDeleteUser, <1>0 DEF DeleteUser, Done, Idle
  <2>5. QED
    BY <1>3, <2>1, <2>2, <2>3, <2>4 DEF AccountStep
<1>4. ASSUME NEW r \in Requests, CodeStep(r)
      PROVE  SeatInv' /\ NoLateClaim'
  <2>1. /\ UNCHANGED <<accountVars, collectionVars>>
        /\ \E x : req' = [req EXCEPT ![r] = x] /\ x.pc \in {"idle", "redeem"}
    BY <1>4 DEF CodeStep, CreateInvitation, DeleteInvitation, RedeemPreflight, Done, Idle
  <2>2. SeatInv'
    BY <2>1, SeatSame DEF accountVars, Exists
  <2>3. QED
    BY <2>1, <2>2, <1>0
<1>5. ASSUME NEW r \in Requests, NEW u \in Users, RedeemInvitation(r, u)
      PROVE  SeatInv' /\ NoLateClaim'
  BY <1>5, SeatRedeem, <1>0 DEF RedeemInvitation, Done, Idle
<1>6. ASSUME NEW r \in Requests, NEW c \in Collections, CollectionStep(r, c)
      PROVE  SeatInv' /\ NoLateClaim'
  <2>1. req' = [req EXCEPT ![r] = Idle]
    BY <1>6 DEF CollectionStep, CreateCollection, UpdateCollection, DeleteCollection,
                AcceptInvite, DeclineInvite, AddMember, RescindInvitation, RemoveMember, Done
  <2>2. QED
    BY <1>6, <2>1, SeatCollection, <1>0 DEF Idle
<1>7. ASSUME NEW k \in Codes, ExpireStaleInvitations(k)
      PROVE  SeatInv' /\ NoLateClaim'
  BY <1>7, SeatSame DEF ExpireStaleInvitations, accountVars, Exists, NoLateClaim
<1>8. QED
  BY <1>1, <1>2, <1>3, <1>4, <1>5, <1>6, <1>7 DEF Next, Step

LEMMA SeatCorrect ==
    ASSUME ClaimsAreAtomic
    PROVE  Spec => [](SeatInv /\ NoLateClaim)
<1>1. TypeOK /\ SeatInv /\ NoLateClaim /\ [Next]_vars => (SeatInv /\ NoLateClaim)'
  <2>1. CASE UNCHANGED vars
    BY <2>1, SeatSame DEF vars, collectionVars, Exists, NoLateClaim
  <2>2. QED
    BY <2>1, SeatNext
<1>2. QED
  BY <1>1, SeatInit, TypeCorrect, PTL DEF Spec

(* Where accounts come from codes, a pending membership is always the seat   *)
(* of its address with the role on offer, even when clearing seats fails.    *)
THEOREM PendingIsOnOffer ==
    ASSUME ClaimsAreAtomic
    PROVE  Spec => []PendingMatchesSeat
BY SeatCorrect, PTL DEF SeatInv

(* Where accounts come from codes and clearing a seat does not fail, every   *)
(* seat of a registered address can be answered by its account.              *)
THEOREM SeatsCanBeAnswered ==
    ASSUME ClaimsAreAtomic, ~SeatErrors
    PROVE  Spec => []SeatIsRedeemable
<1>1. SeatInv => SeatIsRedeemable
  BY DEF SeatInv
<1>2. QED
  BY <1>1, SeatCorrect, PTL

-----------------------------------------------------------------------------
(* Managers. *)

ManagersStep ==
    \A c \in Collections :
        Managers(c) # {} /\ CollectionExists(c)' /\ Managers(c)' = {} =>
            \A u \in Managers(c) : ~Exists(u)'

(* Managers whose rows a step leaves alone, or only adds to, are still there. *)
LEMMA ManagersKept ==
    ASSUME \A c \in Collections, u \in Users :
               GetCollectionMemberRole(c, u) = "manager" =>
                   GetCollectionMemberRole(c, u)' = "manager"
    PROVE  ManagersStep
BY DEF ManagersStep, Managers

(* One row goes, and it is not the last manager's. *)
LEMMA ManagerLeaves ==
    ASSUME TypeOK, NEW c \in Collections, NEW t \in Users, NotLastManager(c, t),
           member' = [member EXCEPT ![c][t] = NoMember]
    PROVE  ManagersStep
<1>1. \A d \in Collections, v \in Users : d # c \/ v # t =>
         GetCollectionMemberRole(d, v)' = GetCollectionMemberRole(d, v)
  BY DEF GetCollectionMemberRole, TypeOK
<1>2. QED
  BY <1>1 DEF ManagersStep, Managers, NotLastManager

LEMMA ManagersCollection ==
    ASSUME TypeOK, SeatInv, NEW r \in Requests, NEW c \in Collections, CollectionStep(r, c)
    PROVE  ManagersStep
<1>1. ASSUME NEW p \in Policies, CreateCollection(r, c, p)
      PROVE  ManagersStep
  <2>1. req[r].user \in Users
    BY <1>1, ReqFields DEF CreateCollection, Api
  <2>2. QED
    BY <1>1, <2>1, ManagersKept DEF CreateCollection, GetCollectionMemberRole, TypeOK
<1>2. ASSUME NEW p \in Policies, UpdateCollection(r, c, p)
      PROVE  ManagersStep
  BY <1>2, ManagersKept DEF UpdateCollection, GetCollectionMemberRole
<1>3. CASE DeleteCollection(r, c)
  <2>1. ~CollectionExists(c)'
    BY <1>3 DEF DeleteCollection, CollectionExists, TypeOK
  <2>2. \A d \in Collections \ {c}, u \in Users :
           GetCollectionMemberRole(d, u)' = GetCollectionMemberRole(d, u)
    BY <1>3 DEF DeleteCollection, GetCollectionMemberRole, TypeOK
  <2>3. QED
    BY <2>1, <2>2 DEF ManagersStep, Managers
<1>4. CASE AcceptInvite(r, c)
  <2>1. req[r].user \in Users
    BY <1>4, ReqFields DEF AcceptInvite, Api
  <2>2. ~member[c][req[r].user].accepted
    BY <1>4 DEF AcceptInvite
  <2>3. \A d \in Collections, u \in Users : d # c \/ u # req[r].user =>
           member'[d][u] = member[d][u]
    BY <1>4, <2>1 DEF AcceptInvite, TypeOK
  <2>4. \A d \in Collections, u \in Users : GetCollectionMemberRole(d, u) = "manager" =>
           GetCollectionMemberRole(d, u)' = "manager"
    BY <2>2, <2>3 DEF GetCollectionMemberRole
  <2>5. QED
    BY <2>4, ManagersKept
<1>5. CASE DeclineInvite(r, c)
  <2>1. PICK t : t = req[r].user
    OBVIOUS
  <2>2. QED
    BY <1>5, <2>1, ReqFields, ManagerLeaves DEF DeclineInvite, Api
<1>6. ASSUME NEW e \in Emails, NEW q \in MemberRoles, AddMember(r, c, e, q)
      PROVE  ManagersStep
  <2>1. /\ \A u \in Holder(e) : member'[c][u] = AddCollectionMember(member[c][u], q)
        /\ \A d \in Collections, u \in Users :
              d # c \/ u \notin Holder(e) => member'[d][u] = member[d][u]
    BY <1>6 DEF AddMember, TypeOK, Holder
  <2>2. \A u \in Holder(e) : /\ member'[c][u].role = q
                             /\ member'[c][u].accepted = member[c][u].accepted
    BY <2>1, Rows, Added DEF Holder
  <2>3. CASE q = "manager"
    BY <2>1, <2>2, <2>3, ManagersKept DEF GetCollectionMemberRole
  <2>4. CASE q # "manager"
    <3>1. \A u \in Holder(e) : NotLastManager(c, u)
      BY <1>6, <2>4 DEF AddMember
    <3>2. \A d \in Collections, u \in Users : d # c \/ u \notin Holder(e) =>
             GetCollectionMemberRole(d, u)' = GetCollectionMemberRole(d, u)
      BY <2>1 DEF GetCollectionMemberRole
    <3>3. QED
      BY <3>1, <3>2, OneHolder DEF ManagersStep, Managers, NotLastManager
  <2>5. QED
    BY <2>3, <2>4
<1>7. ASSUME NEW e \in Emails, RescindInvitation(r, c, e)
      PROVE  ManagersStep
  <2>1. \A d \in Collections, u \in Users :
           member[d][u].accepted => member'[d][u] = member[d][u]
    BY <1>7 DEF RescindInvitation, Withdraw, TypeOK
  <2>2. \A d \in Collections, u \in Users : GetCollectionMemberRole(d, u) = "manager" =>
           GetCollectionMemberRole(d, u)' = "manager"
    BY <2>1 DEF GetCollectionMemberRole
  <2>3. QED
    BY <2>2, ManagersKept
<1>8. ASSUME NEW t \in Users, RemoveMember(r, c, t)
      PROVE  ManagersStep
  BY <1>8, ManagerLeaves DEF RemoveMember
<1>9. QED
  BY <1>1, <1>2, <1>3, <1>4, <1>5, <1>6, <1>7, <1>8 DEF CollectionStep

LEMMA ManagersNext ==
    ASSUME TypeOK, SeatInv, NoLateClaim, ClaimsAreAtomic, Next
    PROVE  ManagersStep
<1>1. CASE UNCHANGED member
  BY <1>1, ManagersKept DEF GetCollectionMemberRole
<1>2. ASSUME NEW r \in Requests, NEW t \in Users, DeleteUser(r, t)
      PROVE  ManagersStep
  <2>1. ~Exists(t)'
    BY <1>2 DEF DeleteUser, Exists, TypeOK
  <2>2. \A d \in Collections, u \in Users \ {t} :
           GetCollectionMemberRole(d, u)' = GetCollectionMemberRole(d, u)
    BY <1>2 DEF DeleteUser, GetCollectionMemberRole, TypeOK
  <2>3. QED
    BY <2>1, <2>2 DEF ManagersStep, Managers
<1>3. ASSUME NEW r \in Requests, NEW u \in Users, RedeemInvitation(r, u)
      PROVE  ManagersStep
  <2>1. \A d \in Collections, v \in Users \ {u} : member'[d][v] = member[d][v]
    BY <1>3 DEF RedeemInvitation, claimCollectionInvitations, TypeOK
  <2>2. \A d \in Collections : ~member[d][u].accepted
    BY <1>3, Rows DEF RedeemInvitation, Insert, Fresh, Exists, SeatInv, MembersExist
  <2>3. \A d \in Collections, v \in Users : GetCollectionMemberRole(d, v) = "manager" =>
           GetCollectionMemberRole(d, v)' = "manager"
    BY <2>1, <2>2 DEF GetCollectionMemberRole
  <2>4. QED
    BY <2>3, ManagersKept
<1>4. ASSUME NEW r \in Requests, AccountStep(r)
      PROVE  ManagersStep
  <2>1. \/ UNCHANGED member
        \/ \E t \in Users : DeleteUser(r, t)
    BY <1>4 DEF AccountStep, ClaimsAreAtomic, NoLateClaim, ClaimSeat, UpdateUser,
                SetUserDisabled, ListCollectionInvitationsForEmail, collectionVars
  <2>2. QED
    BY <2>1, <1>1, <1>2
<1>5. ASSUME NEW r \in Requests, CodeStep(r)
      PROVE  UNCHANGED member
  BY <1>5 DEF CodeStep, CreateInvitation, DeleteInvitation, RedeemPreflight, collectionVars
<1>6. QED
  BY <1>1, <1>3, <1>4, <1>5, ManagersCollection
     DEF Next, Step, Authenticate, Abandon, ExpireStaleInvitations, collectionVars

(* Where accounts come from codes, a collection that lives on loses its last *)
(* manager only with the manager's account, however many managers act on     *)
(* each other at once.                                                       *)
THEOREM ManagersStay ==
    ASSUME ClaimsAreAtomic
    PROVE  Spec => LastManagerStays
<1>1. /\ TypeOK /\ SeatInv /\ NoLateClaim /\ [Next]_vars => [ManagersStep]_vars
  BY ManagersNext
<1>2. Spec => [][ManagersStep]_vars
  BY <1>1, TypeCorrect, SeatCorrect, PTL DEF Spec
<1>3. QED
  BY <1>2, PTL DEF LastManagerStays, ManagersStep

-----------------------------------------------------------------------------
(* Consent, for every route of the program. *)

ConsentStep ==
    \A c \in Collections, u \in Users :
        ~member[c][u].accepted /\ member'[c][u].accepted =>
            \E r \in Requests : Api(r) /\ req[r].user = u /\ req'[r] = Idle

(* A step that accepts nothing. *)
LEMMA AcceptsNothing ==
    ASSUME \A c \in Collections, u \in Users :
               \/ member'[c][u] \in {member[c][u], NoMember}
               \/ member'[c][u].accepted = member[c][u].accepted
    PROVE  ConsentStep
BY DEF ConsentStep, NoMember

LEMMA ConsentNext ==
    ASSUME TypeOK, Next
    PROVE  ConsentStep
<1>1. CASE UNCHANGED member
  BY <1>1, AcceptsNothing
<1>2. ASSUME NEW r \in Requests, NEW s \in Collections \X MemberRoles, ClaimSeat(r, s)
      PROVE  ConsentStep
  <2>1. req[r].user \in Users /\ s[1] \in Collections
    BY <1>2, ReqFields DEF ClaimSeat
  <2>2. QED
    BY <1>2, <2>1, AcceptsNothing DEF ClaimSeat, AddCollectionMember, TypeOK
<1>3. ASSUME NEW r \in Requests, NEW u \in Users, RedeemInvitation(r, u)
      PROVE  ConsentStep
  BY <1>3, AcceptsNothing DEF RedeemInvitation, claimCollectionInvitations,
                              AddCollectionMember, TypeOK
<1>4. ASSUME NEW r \in Requests, NEW t \in Users, DeleteUser(r, t)
      PROVE  ConsentStep
  BY <1>4, AcceptsNothing DEF DeleteUser, TypeOK
<1>5. ASSUME NEW r \in Requests, NEW c \in Collections, CollectionStep(r, c)
      PROVE  ConsentStep
  <2>1. Api(r) => req[r].user \in Users
    BY ReqFields DEF Api
  <2>2. ASSUME NEW p \in Policies, CreateCollection(r, c, p)
        PROVE  ConsentStep
    <3>1. \A d \in Collections, u \in Users : d # c \/ u # req[r].user =>
             member'[d][u] = member[d][u]
      BY <2>1, <2>2 DEF CreateCollection, TypeOK
    <3>2. Api(r) /\ req'[r] = Idle
      BY <2>2 DEF CreateCollection, Done, TypeOK
    <3>3. QED
      BY <3>1, <3>2 DEF ConsentStep
  <2>3. CASE AcceptInvite(r, c)
    <3>1. \A d \in Collections, u \in Users : d # c \/ u # req[r].user =>
             member'[d][u] = member[d][u]
      BY <2>1, <2>3 DEF AcceptInvite, TypeOK
    <3>2. Api(r) /\ req'[r] = Idle
      BY <2>3 DEF AcceptInvite, Done, TypeOK
    <3>3. QED
      BY <3>1, <3>2 DEF ConsentStep
  <2>4. CASE DeclineInvite(r, c)
    BY <2>1, <2>4, AcceptsNothing DEF DeclineInvite, TypeOK
  <2>5. ASSUME NEW e \in Emails, NEW q \in MemberRoles, AddMember(r, c, e, q)
        PROVE  ConsentStep
    BY <2>5, AcceptsNothing DEF AddMember, AddCollectionMember, TypeOK
  <2>6. ASSUME NEW e \in Emails, RescindInvitation(r, c, e)
        PROVE  ConsentStep
    BY <2>6, AcceptsNothing DEF RescindInvitation, Withdraw, TypeOK
  <2>7. ASSUME NEW t \in Users, RemoveMember(r, c, t)
        PROVE  ConsentStep
    BY <2>7, AcceptsNothing DEF RemoveMember, TypeOK
  <2>8. CASE DeleteCollection(r, c)
    BY <2>8, AcceptsNothing DEF DeleteCollection, TypeOK
  <2>9. ASSUME NEW p \in Policies, UpdateCollection(r, c, p)
        PROVE  ConsentStep
    BY <2>9, <1>1 DEF UpdateCollection
  <2>10. QED
    BY <1>5, <2>2, <2>3, <2>4, <2>5, <2>6, <2>7, <2>8, <2>9 DEF CollectionStep
<1>6. ASSUME NEW r \in Requests, AccountStep(r)
      PROVE  ConsentStep
  <2>1. \/ UNCHANGED member
        \/ \E t \in Users : DeleteUser(r, t)
        \/ \E s \in Collections \X MemberRoles : ClaimSeat(r, s)
    BY <1>6 DEF AccountStep, Register, CreateFirstAdmin, CreateUser, UpdateUser,
                SetUserDisabled, ListCollectionInvitationsForEmail, collectionVars
  <2>2. QED
    BY <2>1, <1>1, <1>2, <1>4
<1>7. ASSUME NEW r \in Requests, CodeStep(r)
      PROVE  UNCHANGED member
  BY <1>7 DEF CodeStep, CreateInvitation, DeleteInvitation, RedeemPreflight, collectionVars
<1>8. QED
  BY <1>1, <1>3, <1>5, <1>6, <1>7
     DEF Next, Step, Authenticate, Abandon, ExpireStaleInvitations, collectionVars

(* Whatever routes are used and however requests interleave, a membership    *)
(* becomes accepted only in a step of the member's own request.              *)
THEOREM AccessNeedsConsent == Spec => Consent
<1>1. TypeOK /\ [Next]_vars => [ConsentStep]_vars
  BY ConsentNext
<1>2. Spec => [][ConsentStep]_vars
  BY <1>1, TypeCorrect, PTL DEF Spec
<1>3. QED
  BY <1>2, PTL DEF Consent, ConsentStep

-----------------------------------------------------------------------------
(* The listener, where accounts come from codes. *)

IngressStep ==
    \A c \in Collections :
        CollectionExists(c) /\ privateIngressRequired(policy[c]) /\ Access(c)' # Access(c) =>
            \E r \in Requests : Api(r) /\ req[r].private /\ req'[r] # req[r]

LEMMA AccessKept ==
    ASSUME NEW c \in Collections, policy'[c] = policy[c],
           \A u \in Users : \/ member'[c][u] = member[c][u]
                            \/ ~member[c][u].accepted /\ ~member'[c][u].accepted
    PROVE  Access(c)' = Access(c)
BY DEF Access, GetCollectionMemberRole

(* A step of a request that has passed the policy of the one collection that *)
(* it touches.                                                               *)
LEMMA PolicyAsked ==
    ASSUME TypeOK, NEW r \in Requests, NEW c \in Collections, Api(r), Done(r),
           \A d \in Collections \ {c} : policy'[d] = policy[d] /\ member'[d] = member[d],
           CollectionExists(c) => enforcePrivateAccessPolicy(policy[c], req[r].private)
    PROVE  IngressStep
<1> SUFFICES ASSUME NEW d \in Collections, CollectionExists(d),
                    privateIngressRequired(policy[d]), Access(d)' # Access(d)
             PROVE  \E q \in Requests : Api(q) /\ req[q].private /\ req'[q] # req[q]
  BY DEF IngressStep
<1>1. d = c
  BY AccessKept
<1>2. req[r].private
  BY <1>1 DEF enforcePrivateAccessPolicy
<1>3. req'[r] # req[r]
  BY DEF Done, Idle, Api, TypeOK
<1> QED BY <1>2, <1>3

LEMMA IngressCollection ==
    ASSUME TypeOK, NEW r \in Requests, NEW c \in Collections, CollectionStep(r, c)
    PROVE  IngressStep
<1>0. Api(r) => req[r].user \in Users
  BY ReqFields DEF Api
<1>1. Api(r) /\ Done(r)
  BY DEF CollectionStep, CreateCollection, UpdateCollection, DeleteCollection, AcceptInvite,
         DeclineInvite, AddMember, RescindInvitation, RemoveMember, MayManage
<1>2. CollectionExists(c) => enforcePrivateAccessPolicy(policy[c], req[r].private)
  BY DEF CollectionStep, CreateCollection, UpdateCollection, DeleteCollection, AcceptInvite,
         DeclineInvite, AddMember, RescindInvitation, RemoveMember, MayManage, CollectionExists
<1>3. \A d \in Collections \ {c} : policy'[d] = policy[d]
  BY DEF CollectionStep, CreateCollection, UpdateCollection, DeleteCollection, AcceptInvite,
         DeclineInvite, AddMember, RescindInvitation, RemoveMember, TypeOK
<1>4. \A d \in Collections \ {c} : member'[d] = member[d]
  <2> USE DEF TypeOK
  <2>1. CASE \E p \in Policies : CreateCollection(r, c, p) \/ UpdateCollection(r, c, p)
    BY <2>1 DEF CreateCollection, UpdateCollection
  <2>2. CASE DeleteCollection(r, c) \/ AcceptInvite(r, c) \/ DeclineInvite(r, c)
    BY <2>2 DEF DeleteCollection, AcceptInvite, DeclineInvite
  <2>3. CASE \E e \in Emails : RescindInvitation(r, c, e) \/ \E q \in MemberRoles : AddMember(r, c, e, q)
    BY <2>3 DEF RescindInvitation, AddMember
  <2>4. CASE \E t \in Users : RemoveMember(r, c, t)
    BY <2>4 DEF RemoveMember
  <2> QED BY <2>1, <2>2, <2>3, <2>4 DEF CollectionStep
<1> QED BY <1>1, <1>2, <1>3, <1>4, PolicyAsked

LEMMA IngressDelete ==
    ASSUME TypeOK, NEW r \in Requests, NEW t \in Users, DeleteUser(r, t)
    PROVE  IngressStep
<1> SUFFICES ASSUME NEW d \in Collections, CollectionExists(d),
                    privateIngressRequired(policy[d]), Access(d)' # Access(d)
             PROVE  \E q \in Requests : Api(q) /\ req[q].private /\ req'[q] # req[q]
  BY DEF IngressStep
<1>1. /\ \A u \in Users \ {t} : member'[d][u] = member[d][u]
      /\ member'[d][t] = NoMember /\ policy'[d] = policy[d]
  BY DEF DeleteUser, TypeOK
<1>2. IsMember(d, t)
  BY <1>1, AccessKept DEF IsMember
<1>3. req[r].private /\ Api(r)
  BY <1>2 DEF DeleteUser, UserHasProtectedCollectionImpact, enforcePrivateAccessPolicy,
              privateIngressRequired, AdminApi
<1>4. req'[r] # req[r]
  BY <1>3 DEF DeleteUser, Done, Idle, Api, TypeOK
<1> QED BY <1>3, <1>4

LEMMA IngressNext ==
    ASSUME TypeOK, SeatInv, NoLateClaim, ClaimsAreAtomic, Next
    PROVE  IngressStep
<1>1. CASE UNCHANGED <<policy, member>>
  BY <1>1, AccessKept DEF IngressStep
<1>2. ASSUME NEW r \in Requests, NEW u \in Users, RedeemInvitation(r, u)
      PROVE  IngressStep
  <2>1. \A d \in Collections, v \in Users \ {u} : member'[d][v] = member[d][v]
    BY <1>2 DEF RedeemInvitation, claimCollectionInvitations, TypeOK
  <2>2. \A d \in Collections : member[d][u] = NoMember
    BY <1>2 DEF RedeemInvitation, Insert, Fresh, Exists, SeatInv, MembersExist, IsMember
  <2>3. \A d \in Collections : member'[d][u] \in {NoMember, AddCollectionMember(NoMember, seat[d][EmailOf[u]])}
    BY <1>2, <2>2 DEF RedeemInvitation, claimCollectionInvitations, TypeOK
  <2>4. \A d \in Collections : ~member[d][u].accepted /\ ~member'[d][u].accepted
    BY <2>2, <2>3 DEF NoMember, AddCollectionMember
  <2>5. UNCHANGED policy
    BY <1>2 DEF RedeemInvitation
  <2> QED BY <2>1, <2>4, <2>5, AccessKept DEF IngressStep
<1>3. ASSUME NEW r \in Requests, AccountStep(r)
      PROVE  IngressStep
  <2>1. \/ UNCHANGED <<policy, member>>
        \/ \E t \in Users : DeleteUser(r, t)
    BY <1>3 DEF AccountStep, ClaimsAreAtomic, NoLateClaim, ClaimSeat, UpdateUser,
                SetUserDisabled, ListCollectionInvitationsForEmail, collectionVars
  <2> QED BY <2>1, <1>1, IngressDelete
<1>4. ASSUME NEW r \in Requests, CodeStep(r)
      PROVE  UNCHANGED <<policy, member>>
  BY <1>4 DEF CodeStep, CreateInvitation, DeleteInvitation, RedeemPreflight, collectionVars
<1> QED
  BY <1>1, <1>2, <1>3, <1>4, IngressCollection
     DEF Next, Step, Authenticate, Abandon, ExpireStaleInvitations, collectionVars

(* Where accounts come from codes, nothing that is done through the public   *)
(* listener, on any route and in any interleaving, changes who has access to *)
(* a protected collection or lifts its protection.                           *)
THEOREM ProtectionHolds ==
    ASSUME ClaimsAreAtomic
    PROVE  Spec => ProtectedNeedsPrivate
<1>1. /\ TypeOK /\ SeatInv /\ NoLateClaim /\ [Next]_vars => [IngressStep]_vars
  BY IngressNext
<1>2. Spec => [][IngressStep]_vars
  BY <1>1, TypeCorrect, SeatCorrect, PTL DEF Spec
<1> QED BY <1>2, PTL DEF ProtectedNeedsPrivate, IngressStep
=============================================================================
