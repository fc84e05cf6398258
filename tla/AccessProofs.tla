---------------------------- MODULE AccessProofs ----------------------------
(***************************************************************************)
(* Proofs about Access, for any people, super admins, names and phones.    *)
(***************************************************************************)
EXTENDS Access, TLAPS

(* The tables start empty. *)
LEMMA AccessStartsWell == AccessInit => AccessInv /\ ActiveWereLetIn
  BY DEF AccessInit, AccessInv, AccessTypeOK, RowsComeFromPeople, InvitesAreVouched,
         RolesFollowSettings, ActiveWereLetIn, IsActive, Exists

(* A row read from the table is a user without a phone. *)
LEMMA LoadedIsUser ==
  ASSUME AccessTypeOK, NEW p \in Person, Exists(p)
  PROVE  /\ account[p] \in User
         /\ Loaded(p) = [username |-> account[p].username, phone |-> NoPhone,
                         role |-> account[p].role, status |-> account[p].status]
         /\ Loaded(p) \in User
  BY DEF AccessTypeOK, Exists, Loaded, User

(* Writing one row: if the new row is well-formed, comes from its person,  *)
(* has the role of the settings and is active only for someone let in, the *)
(* invariant survives, as long as no history is forgotten.                 *)
LEMMA WritingOneRow ==
  ASSUME AccessInv, ActiveWereLetIn,
         NEW p \in Person, NEW user \in User,
         account' = [account EXCEPT ![p] = user],
         nameInvites' \in SUBSET Name, phoneInvites' \in SUBSET Phone,
         nameInvites' \subseteq vouched', phoneInvites' \subseteq vouched',
         holds' \in [Person -> Name \cup {NoName}],
         seen' \in [Person -> SUBSET (Name \cup Phone)],
         \A q \in Person : seen[q] \subseteq seen'[q],
         vouched' \in SUBSET (Person \cup Name \cup Phone),
         vouched \subseteq vouched',
         user.username # NoName => user.username \in seen'[p],
         user.phone # NoPhone => user.phone \in seen'[p],
         user.role = "super_admin" <=> p \in Boss,
         user.status = "active" =>
             p \in Boss \/ p \in vouched' \/ seen'[p] \cap vouched' # {}
  PROVE  AccessInv' /\ ActiveWereLetIn'
<1>1. user # NoAccount
  BY NoAccountAssumption
<1>2. \A q \in Person : account'[q] = IF q = p THEN user ELSE account[q]
  BY DEF AccessInv, AccessTypeOK
<1>3. AccessTypeOK'
  BY DEF AccessInv, AccessTypeOK
<1>4. RowsComeFromPeople'
  BY <1>1, <1>2 DEF AccessInv, RowsComeFromPeople, Exists
<1>5. InvitesAreVouched' /\ RolesFollowSettings'
  BY <1>1, <1>2 DEF AccessInv, InvitesAreVouched, RolesFollowSettings, Exists
<1>6. ActiveWereLetIn'
  BY <1>1, <1>2 DEF ActiveWereLetIn, IsActive, Exists
<1> QED
  BY <1>3, <1>4, <1>5, <1>6 DEF AccessInv

(* A step that leaves the rows alone and forgets nothing. *)
LEMMA WritingNoRow ==
  ASSUME AccessInv, ActiveWereLetIn, account' = account,
         nameInvites' \in SUBSET Name, phoneInvites' \in SUBSET Phone,
         nameInvites' \subseteq vouched', phoneInvites' \subseteq vouched',
         holds' \in [Person -> Name \cup {NoName}],
         seen' \in [Person -> SUBSET (Name \cup Phone)],
         \A q \in Person : seen[q] \subseteq seen'[q],
         vouched' \in SUBSET (Person \cup Name \cup Phone),
         vouched \subseteq vouched'
  PROVE  AccessInv' /\ ActiveWereLetIn'
<1>1. AccessTypeOK' /\ RowsComeFromPeople' /\ InvitesAreVouched' /\ RolesFollowSettings'
  BY DEF AccessInv, AccessTypeOK, RowsComeFromPeople, InvitesAreVouched,
         RolesFollowSettings, Exists
<1>2. ActiveWereLetIn'
  BY DEF ActiveWereLetIn, IsActive, Exists
<1> QED
  BY <1>1, <1>2 DEF AccessInv

LEMMA StartKeeps ==
  ASSUME AccessInv, ActiveWereLetIn, NEW p \in Person, Start(p)
  PROVE  AccessInv' /\ ActiveWereLetIn'
<1>0. /\ seen' = [seen EXCEPT ![p] = @ \cup ({holds[p]} \ {NoName})]
      /\ UNCHANGED <<nameInvites, phoneInvites, holds, vouched>>
      /\ AccessTypeOK /\ InvitesAreVouched
  BY DEF Start, AccessInv
<1>1. /\ seen' \in [Person -> SUBSET (Name \cup Phone)]
      /\ \A q \in Person : seen[q] \subseteq seen'[q]
      /\ holds[p] \in Name \cup {NoName}
      /\ holds[p] # NoName => holds[p] \in seen'[p]
  BY <1>0 DEF AccessTypeOK
<1>2. CASE ~Exists(p)
  <2> DEFINE user == [username |-> holds[p], phone |-> NoPhone, role |-> RoleOf(p),
                      status |-> IF p \in Boss \/ holds[p] \in nameInvites
                                 THEN "active" ELSE "pending"]
  <2>1. account' = [account EXCEPT ![p] = user]
    BY <1>2 DEF Start, Add
  <2>2. user \in User
    BY <1>1 DEF User, RoleOf
  <2>3. user.status = "active" =>
            p \in Boss \/ p \in vouched' \/ seen'[p] \cap vouched' # {}
    BY <1>0, <1>1, AccessAssumption DEF InvitesAreVouched, AccessTypeOK
  <2>4. /\ user.role = "super_admin" <=> p \in Boss
        /\ user.username = holds[p] /\ user.phone = NoPhone
    BY DEF RoleOf
  <2> HIDE DEF user
  <2> QED
    BY <1>0, <1>1, <2>1, <2>2, <2>3, <2>4, WritingOneRow DEF AccessTypeOK, InvitesAreVouched
<1>3. CASE Exists(p)
  <2>1. CASE holds[p] \in {NoName, account[p].username}
    <3>1. account' = account
      BY <1>3, <2>1 DEF Start, Exists
    <3> QED
      BY <1>0, <1>1, <3>1, WritingNoRow DEF AccessTypeOK, InvitesAreVouched
  <2>2. CASE holds[p] \notin {NoName, account[p].username}
    <3> DEFINE user == [Loaded(p) EXCEPT !.username = holds[p]]
    <3>1. account' = [account EXCEPT ![p] = user]
      BY <1>3, <2>2 DEF Start, Update
    <3>2. /\ user \in User
          /\ user.username = holds[p] /\ user.phone = NoPhone
          /\ user.role = account[p].role /\ user.status = account[p].status
      BY <1>0, <1>1, <1>3, LoadedIsUser DEF User
    <3>3. user.status = "active" =>
              p \in Boss \/ p \in vouched' \/ seen'[p] \cap vouched' # {}
      BY <1>0, <1>1, <1>3, <3>2 DEF ActiveWereLetIn, IsActive
    <3>4. user.role = "super_admin" <=> p \in Boss
      BY <1>3, <3>2 DEF AccessInv, RolesFollowSettings
    <3> HIDE DEF user
    <3> QED
      BY <1>0, <1>1, <3>1, <3>2, <3>3, <3>4, WritingOneRow
         DEF AccessTypeOK, InvitesAreVouched
  <2> QED
    BY <2>1, <2>2
<1> QED
  BY <1>2, <1>3

LEMMA ReceiveContactKeeps ==
  ASSUME AccessInv, ActiveWereLetIn, NEW p \in Person, NEW n \in Phone, ReceiveContact(p, n)
  PROVE  AccessInv' /\ ActiveWereLetIn'
<1>0. /\ n \in phoneInvites
      /\ seen' = [seen EXCEPT ![p] = @ \cup ({n, holds[p]} \ {NoName})]
      /\ UNCHANGED <<nameInvites, phoneInvites, holds, vouched>>
      /\ AccessTypeOK /\ InvitesAreVouched
  BY DEF ReceiveContact, AccessInv
<1>1. /\ seen' \in [Person -> SUBSET (Name \cup Phone)]
      /\ \A q \in Person : seen[q] \subseteq seen'[q]
      /\ holds[p] \in Name \cup {NoName}
      /\ holds[p] # NoName => holds[p] \in seen'[p]
      /\ n # NoName => n \in seen'[p]
  BY <1>0 DEF AccessTypeOK
<1>2. n # NoName
  BY AccessAssumption
<1>3. n \in seen'[p] \cap vouched'
  BY <1>0, <1>1, <1>2 DEF InvitesAreVouched
<1>4. CASE ~Exists(p)
  <2> DEFINE user == [username |-> holds[p], phone |-> n, role |-> RoleOf(p),
                      status |-> "active"]
  <2>1. account' = [account EXCEPT ![p] = user]
    BY <1>4 DEF ReceiveContact, Add
  <2>2. /\ user \in User
        /\ user.role = "super_admin" <=> p \in Boss
        /\ user.username = holds[p] /\ user.phone = n
    BY <1>1 DEF User, RoleOf
  <2> HIDE DEF user
  <2> QED
    BY <1>0, <1>1, <1>3, <2>1, <2>2, WritingOneRow DEF AccessTypeOK, InvitesAreVouched
<1>5. CASE Exists(p)
  <2> DEFINE user == [Loaded(p) EXCEPT !.username = Or(holds[p], NoName, @),
                                       !.phone = n, !.status = "active"]
  <2>1. account' = [account EXCEPT ![p] = user]
    BY <1>5 DEF ReceiveContact, Update
  <2>5. user = [username |-> Or(holds[p], NoName, account[p].username), phone |-> n,
                role |-> account[p].role, status |-> "active"]
    <3> DEFINE row == Loaded(p)
               old == account[p]
               x == Or(holds[p], NoName, row.username)
               r == n
    <3>1. row = [username |-> old.username, phone |-> NoPhone,
                 role |-> old.role, status |-> old.status]
      BY <1>0, <1>5, LoadedIsUser
    <3>2. user = [row EXCEPT !["username"] = x, !["phone"] = r, !["status"] = "active"]
      OBVIOUS
    <3>3. x = Or(holds[p], NoName, old.username)
      BY <3>1
    <3> HIDE DEF user, row, old, x, r
    <3>4. user = [username |-> x, phone |-> r, role |-> old.role, status |-> "active"]
      BY <3>1, <3>2
    <3> QED
      BY <3>3, <3>4 DEF old, r
  <2>6. account[p] \in User
    BY <1>0, <1>5, LoadedIsUser
  <2> HIDE DEF user
  <2>2. /\ user \in User
        /\ user.username \in {holds[p], account[p].username}
        /\ user.phone = n /\ user.role = account[p].role
    BY <1>1, <2>5, <2>6 DEF User, Or
  <2>3. user.username # NoName => user.username \in seen'[p]
    BY <1>1, <1>5, <2>2 DEF AccessInv, RowsComeFromPeople
  <2>4. user.role = "super_admin" <=> p \in Boss
    BY <1>5, <2>2 DEF AccessInv, RolesFollowSettings
  <2> HIDE DEF user
  <2> QED
    BY <1>0, <1>1, <1>3, <2>1, <2>2, <2>3, <2>4, WritingOneRow
       DEF AccessTypeOK, InvitesAreVouched
<1> QED
  BY <1>4, <1>5

LEMMA RenameKeeps ==
  ASSUME AccessInv, ActiveWereLetIn, NEW p \in Person, NEW n \in Name \cup {NoName},
         Rename(p, n)
  PROVE  AccessInv' /\ ActiveWereLetIn'
<1>1. /\ holds' = [holds EXCEPT ![p] = n]
      /\ UNCHANGED <<account, nameInvites, phoneInvites, seen, vouched>>
      /\ AccessTypeOK /\ InvitesAreVouched
  BY DEF Rename, tables, AccessInv
<1> QED
  BY <1>1, WritingNoRow DEF AccessTypeOK, InvitesAreVouched

LEMMA AddByIdKeeps ==
  ASSUME AccessInv, ActiveWereLetIn, NEW a \in Person, NEW p \in Person,
         NEW forwarded \in BOOLEAN, AddById(a, p, forwarded)
  PROVE  AccessInv' /\ ActiveWereLetIn'
<1> DEFINE name == IF forwarded THEN holds[p] ELSE NoName
<1>0. /\ seen' = [seen EXCEPT ![p] = @ \cup ({name} \ {NoName})]
      /\ vouched' = vouched \cup {p}
      /\ UNCHANGED <<nameInvites, phoneInvites, holds>>
      /\ AccessTypeOK /\ InvitesAreVouched
      /\ name \in Name \cup {NoName}
  BY DEF AddById, AccessInv, AccessTypeOK
<1>1. /\ seen' \in [Person -> SUBSET (Name \cup Phone)]
      /\ \A q \in Person : seen[q] \subseteq seen'[q]
      /\ name # NoName => name \in seen'[p]
  BY <1>0 DEF AccessTypeOK
<1>2. /\ vouched' \in SUBSET (Person \cup Name \cup Phone)
      /\ vouched \subseteq vouched' /\ p \in vouched'
  BY <1>0 DEF AccessTypeOK
<1>3. CASE ~Exists(p)
  <2> DEFINE user == [username |-> name, phone |-> NoPhone, role |-> RoleOf(p),
                      status |-> "active"]
  <2>1. account' = [account EXCEPT ![p] = user]
    BY <1>3 DEF AddById, Add
  <2>2. /\ user \in User
        /\ user.role = "super_admin" <=> p \in Boss
        /\ user.username = name /\ user.phone = NoPhone
    BY <1>0 DEF User, RoleOf
  <2> HIDE DEF user, name
  <2> QED
    BY <1>0, <1>1, <1>2, <2>1, <2>2, WritingOneRow DEF AccessTypeOK, InvitesAreVouched
<1>4. CASE Exists(p)
  <2> DEFINE user == [Loaded(p) EXCEPT !.username = Or(name, NoName, @),
                                       !.role = RoleOf(p), !.status = "active"]
  <2>1. account' = [account EXCEPT ![p] = user]
    BY <1>4 DEF AddById, Update
  <2> HIDE DEF name
  <2>5. user = [username |-> Or(name, NoName, account[p].username), phone |-> NoPhone,
                role |-> RoleOf(p), status |-> "active"]
    <3> DEFINE row == Loaded(p)
               old == account[p]
               x == Or(name, NoName, row.username)
               r == RoleOf(p)
    <3>1. row = [username |-> old.username, phone |-> NoPhone,
                 role |-> old.role, status |-> old.status]
      BY <1>0, <1>4, LoadedIsUser
    <3>2. user = [row EXCEPT !["username"] = x, !["role"] = r, !["status"] = "active"]
      OBVIOUS
    <3>3. x = Or(name, NoName, old.username)
      BY <3>1
    <3> HIDE DEF user, row, old, x, r
    <3>4. user = [username |-> x, phone |-> NoPhone, role |-> r, status |-> "active"]
      BY <3>1, <3>2
    <3> QED
      BY <3>3, <3>4 DEF old, r
  <2>6. account[p].username \in Name \cup {NoName}
    BY <1>0, <1>4, LoadedIsUser DEF User
  <2>2. /\ user \in User
        /\ user.username \in {name, account[p].username}
        /\ user.phone = NoPhone
        /\ user.role = "super_admin" <=> p \in Boss
    BY <1>0, <2>5, <2>6 DEF User, Or, RoleOf
  <2>3. user.username # NoName => user.username \in seen'[p]
    BY <1>1, <1>4, <2>2 DEF AccessInv, RowsComeFromPeople
  <2> HIDE DEF user
  <2> QED
    BY <1>0, <1>1, <1>2, <2>1, <2>2, <2>3, WritingOneRow
       DEF AccessTypeOK, InvitesAreVouched
<1> QED
  BY <1>3, <1>4

(* An admin's decision about an existing row only changes its status. *)
LEMMA NewStatusKeeps ==
  ASSUME AccessInv, ActiveWereLetIn, NEW p \in Person, Exists(p),
         NEW status \in {"pending", "active", "rejected", "suspended"},
         account' = [account EXCEPT ![p] = [Loaded(p) EXCEPT !.status = status]],
         nameInvites' \in SUBSET Name, phoneInvites' \in SUBSET Phone,
         nameInvites' \subseteq vouched', phoneInvites' \subseteq vouched',
         UNCHANGED <<holds, seen>>,
         vouched' \in SUBSET (Person \cup Name \cup Phone),
         vouched \subseteq vouched',
         status = "active" => p \in vouched' \/ seen[p] \cap vouched' # {}
  PROVE  AccessInv' /\ ActiveWereLetIn'
<1> DEFINE user == [Loaded(p) EXCEPT !.status = status]
<1>1. account' = [account EXCEPT ![p] = user]
  OBVIOUS
<1>2. /\ user \in User
      /\ user.username = account[p].username /\ user.phone = NoPhone
      /\ user.role = account[p].role /\ user.status = status
  BY LoadedIsUser DEF AccessInv, User
<1>3. /\ user.username # NoName => user.username \in seen'[p]
      /\ user.role = "super_admin" <=> p \in Boss
  BY <1>2 DEF AccessInv, RowsComeFromPeople, RolesFollowSettings
<1> HIDE DEF user
<1> QED
  BY <1>1, <1>2, <1>3, WritingOneRow DEF AccessInv, AccessTypeOK

LEMMA AddByNameKeeps ==
  ASSUME AccessInv, ActiveWereLetIn, NEW a \in Person, NEW n \in Name, AddByName(a, n)
  PROVE  AccessInv' /\ ActiveWereLetIn'
<1>0. /\ vouched' = vouched \cup {n}
      /\ UNCHANGED <<phoneInvites, holds, seen>>
      /\ AccessTypeOK /\ InvitesAreVouched
      /\ n # NoName
  BY AccessAssumption DEF AddByName, AccessInv
<1>1. CASE nameInvites' = nameInvites \cup {n} /\ account' = account
  BY <1>0, <1>1, WritingNoRow DEF AccessTypeOK, InvitesAreVouched
<1>2. ASSUME NEW p \in Person, Exists(p), account[p].username = n,
             Update(p, [Loaded(p) EXCEPT !.status = "active"]),
             nameInvites' = nameInvites
      PROVE  AccessInv' /\ ActiveWereLetIn'
  <2>1. n \in seen[p] \cap vouched'
    BY <1>0, <1>2 DEF AccessInv, RowsComeFromPeople
  <2> QED
    BY <1>0, <1>2, <2>1, NewStatusKeeps DEF Update, AccessTypeOK, InvitesAreVouched
<1> QED
  BY <1>1, <1>2 DEF AddByName

LEMMA AddByPhoneKeeps ==
  ASSUME AccessInv, ActiveWereLetIn, NEW a \in Person, NEW n \in Phone, AddByPhone(a, n)
  PROVE  AccessInv' /\ ActiveWereLetIn'
<1>0. /\ vouched' = vouched \cup {n}
      /\ UNCHANGED <<nameInvites, holds, seen>>
      /\ AccessTypeOK /\ InvitesAreVouched
      /\ n # NoPhone
  BY AccessAssumption DEF AddByPhone, AccessInv
<1>1. CASE phoneInvites' = phoneInvites \cup {n} /\ account' = account
  BY <1>0, <1>1, WritingNoRow DEF AccessTypeOK, InvitesAreVouched
<1>2. ASSUME NEW p \in Person, Exists(p), account[p].phone = n,
             Update(p, [Loaded(p) EXCEPT !.status = "active"]),
             phoneInvites' = phoneInvites
      PROVE  AccessInv' /\ ActiveWereLetIn'
  <2>1. n \in seen[p] \cap vouched'
    BY <1>0, <1>2 DEF AccessInv, RowsComeFromPeople
  <2> QED
    BY <1>0, <1>2, <2>1, NewStatusKeeps DEF Update, AccessTypeOK, InvitesAreVouched
<1> QED
  BY <1>1, <1>2 DEF AddByPhone

LEMMA UnrejectKeeps ==
  ASSUME AccessInv, ActiveWereLetIn, NEW a \in Person, NEW p \in Person, Unreject(a, p)
  PROVE  AccessInv' /\ ActiveWereLetIn'
<1>1. /\ account' = [account EXCEPT ![p] = NoAccount]
      /\ UNCHANGED <<nameInvites, phoneInvites, holds, seen, vouched>>
  BY DEF Unreject
<1>2. \A q \in Person : account'[q] = IF q = p THEN NoAccount ELSE account[q]
  BY <1>1 DEF AccessInv, AccessTypeOK
<1>3. AccessTypeOK' /\ InvitesAreVouched'
  BY <1>1 DEF AccessInv, AccessTypeOK, InvitesAreVouched
<1>4. RowsComeFromPeople' /\ RolesFollowSettings'
  BY <1>1, <1>2 DEF AccessInv, RowsComeFromPeople, RolesFollowSettings, Exists
<1>5. ActiveWereLetIn'
  BY <1>1, <1>2 DEF ActiveWereLetIn, IsActive, Exists
<1> QED
  BY <1>3, <1>4, <1>5 DEF AccessInv

LEMMA AccessStepKeeps ==
  ASSUME AccessInv, ActiveWereLetIn, [AccessNext]_accessVars
  PROVE  AccessInv' /\ ActiveWereLetIn'
<1>1. CASE UNCHANGED accessVars
  BY <1>1, WritingNoRow DEF accessVars, AccessInv, AccessTypeOK, InvitesAreVouched
<1>2. ASSUME NEW p \in Person, PersonNext(p)
      PROVE  AccessInv' /\ ActiveWereLetIn'
  BY <1>2, StartKeeps, ReceiveContactKeeps, RenameKeeps DEF PersonNext
<1>3. ASSUME NEW a \in Person, AdminNext(a)
      PROVE  AccessInv' /\ ActiveWereLetIn'
  <2>1. ASSUME NEW p \in Person, NEW status \in {"active", "rejected", "suspended"},
               Decide(a, p, status), vouched \subseteq vouched',
               vouched' \subseteq vouched \cup {p},
               status = "active" => p \in vouched'
        PROVE  AccessInv' /\ ActiveWereLetIn'
    <3>1. /\ Exists(p)
          /\ account' = [account EXCEPT ![p] = [Loaded(p) EXCEPT !.status = status]]
          /\ UNCHANGED <<nameInvites, phoneInvites, holds, seen>>
          /\ vouched' \in SUBSET (Person \cup Name \cup Phone)
      BY <2>1 DEF Decide, Update, AccessInv, AccessTypeOK
    <3> QED
      BY <2>1, <3>1, NewStatusKeeps DEF AccessInv, AccessTypeOK, InvitesAreVouched
  <2>2. ASSUME NEW p \in Person, Approve(a, p) \/ Reject(a, p) \/ Suspend(a, p)
        PROVE  AccessInv' /\ ActiveWereLetIn'
    BY <2>1, <2>2 DEF Approve, Reject, Suspend
  <2> QED
    BY <1>3, <2>2, AddByIdKeeps, UnrejectKeeps, AddByNameKeeps, AddByPhoneKeeps
       DEF AdminNext
<1> QED
  BY <1>1, <1>2, <1>3 DEF AccessNext

(* The tables are well-formed; rows and invitations have the origin they   *)
(* claim, and the settings alone make super admins.                        *)
THEOREM AccessInvariant == AccessSpec => []AccessInv
<1>1. AccessInv /\ ActiveWereLetIn /\ [AccessNext]_accessVars
      => (AccessInv /\ ActiveWereLetIn)'
  BY AccessStepKeeps
<1> QED
  BY <1>1, AccessStartsWell, PTL DEF AccessSpec

(* Whoever may use the bot was let in. *)
THEOREM OnlyThoseLetIn == AccessSpec => []ActiveWereLetIn
<1>1. AccessInv /\ ActiveWereLetIn /\ [AccessNext]_accessVars
      => (AccessInv /\ ActiveWereLetIn)'
  BY AccessStepKeeps
<1> QED
  BY <1>1, AccessStartsWell, PTL DEF AccessSpec

(* Someone rejected or suspended is let in again by an admin or by a phone *)
(* an admin has approved, never by what that person does alone.            *)
THEOREM SentAwayIsForGood == AccessSpec => SentAwayStaysAway
<1>1. ASSUME AccessInv, [AccessNext]_accessVars, NEW p \in Person,
             Exists(p), account[p].status \in {"rejected", "suspended"},
             account'[p] # account[p], account'[p] # NoAccount,
             account'[p].status = "active", \A a \in Person : ~AdminNext(a)
      PROVE  account'[p].phone \in phoneInvites
  <2>1. account' # account
    BY <1>1
  <2>2. PICK q \in Person : PersonNext(q)
    BY <1>1, <2>1 DEF AccessNext, accessVars
  <2>3. /\ account \in [Person -> User \cup {NoAccount}]
        /\ Loaded(p).status = account[p].status
    BY <1>1, LoadedIsUser DEF AccessInv, AccessTypeOK
  <2>4. CASE Start(q)
    <3>1. \A user : account' = [account EXCEPT ![q] = user] => q = p /\ account'[p] = user
      BY <1>1, <2>3
    <3>2. q = p
      BY <2>1, <2>4, <3>1 DEF Start, Add, Update
    <3>3. account' = [account EXCEPT ![p] = [Loaded(p) EXCEPT !.username = holds[p]]]
      BY <1>1, <2>1, <2>4, <3>2 DEF Start, Update, Exists
    <3>4. account'[p].status = account[p].status
      BY <1>1, <2>3, <3>3, LoadedIsUser DEF AccessInv, User
    <3> QED
      BY <1>1, <3>4
  <2>5. ASSUME NEW n \in Phone, ReceiveContact(q, n)
        PROVE  account'[p].phone \in phoneInvites
    <3>1. /\ n \in phoneInvites
          /\ \E user : account' = [account EXCEPT ![q] = user] /\ (q = p => user.phone = n)
      <4>1. CASE ~Exists(q)
        <5> DEFINE user == [username |-> holds[q], phone |-> n, role |-> RoleOf(q),
                            status |-> "active"]
        <5>1. account' = [account EXCEPT ![q] = user] /\ user.phone = n
          BY <2>5, <4>1 DEF ReceiveContact, Add
        <5> HIDE DEF user
        <5> QED
          BY <2>5, <5>1 DEF ReceiveContact
      <4>2. CASE Exists(q)
        <5> DEFINE user == [Loaded(q) EXCEPT !.username = Or(holds[q], NoName, @),
                                             !.phone = n, !.status = "active"]
        <5>1. account' = [account EXCEPT ![q] = user]
          BY <2>5, <4>2 DEF ReceiveContact, Update
        <5>2. ASSUME q = p PROVE user.phone = n
          <6> DEFINE row == Loaded(p)
          <6>1. /\ row = [username |-> account[p].username, phone |-> NoPhone,
                          role |-> account[p].role, status |-> account[p].status]
                /\ DOMAIN row = {"username", "phone", "role", "status"}
            BY <1>1, LoadedIsUser DEF AccessInv
          <6>2. user = [row EXCEPT !["username"] = Or(holds[q], NoName, row.username),
                                   !["phone"] = n, !["status"] = "active"]
            BY <5>2
          <6> HIDE DEF user, row
          <6> QED
            BY <6>1, <6>2
        <5> HIDE DEF user
        <5> QED
          BY <2>5, <5>1, <5>2 DEF ReceiveContact
      <4> QED
        BY <4>1, <4>2
    <3>2. PICK user : account' = [account EXCEPT ![q] = user] /\ (q = p => user.phone = n)
      BY <3>1
    <3>3. q = p /\ account'[p] = user
      BY <1>1, <2>3, <3>2
    <3> QED
      BY <3>1, <3>2, <3>3
  <2>6. CASE \E n \in Name \cup {NoName} : Rename(q, n)
    BY <2>1, <2>6 DEF Rename, tables
  <2> QED
    BY <2>2, <2>4, <2>5, <2>6 DEF PersonNext
<1>2. AccessInv /\ [AccessNext]_accessVars =>
        [\A p \in Person :
            /\ Exists(p) /\ account[p].status \in {"rejected", "suspended"}
            /\ account'[p] # account[p] /\ account'[p] # NoAccount
            /\ account'[p].status = "active"
            => account'[p].phone \in phoneInvites \/ \E a \in Person : AdminNext(a)
        ]_accessVars
  BY <1>1
<1> QED
  BY <1>2, AccessInvariant, PTL DEF AccessSpec, SentAwayStaysAway

----------------------------------------------------------------------------
(* The tables and the promise of Membership.                               *)

(* What somebody is, when a row is written. *)
LEMMA WrittenStanding ==
  ASSUME AccessTypeOK, NEW p \in Person, NEW status,
         \E user \in User : account' = [account EXCEPT ![p] = user] /\ user.status = status
  PROVE  [q \in Person |-> StandingOf(q)]'
             = [[q \in Person |-> StandingOf(q)] EXCEPT ![p] = status]
<1>1. PICK user \in User : account' = [account EXCEPT ![p] = user] /\ user.status = status
  OBVIOUS
<1>2. account'[p] = user /\ user # NoAccount
  BY <1>1, NoAccountAssumption DEF AccessTypeOK
<1> QED
  BY <1>1, <1>2 DEF AccessTypeOK, StandingOf, Exists

(* What somebody is, when a row is removed or left alone. *)
LEMMA StandingsChange ==
  ASSUME AccessTypeOK, NEW p \in Person
  PROVE  /\ account' = [account EXCEPT ![p] = NoAccount] =>
              [q \in Person |-> StandingOf(q)]'
                  = [[q \in Person |-> StandingOf(q)] EXCEPT ![p] = "none"]
         /\ account' = account =>
              [q \in Person |-> StandingOf(q)]' = [q \in Person |-> StandingOf(q)]
         /\ [q \in Person |-> StandingOf(q)][p] = StandingOf(p)
         /\ StandingOf(p) = "none" <=> ~Exists(p)
<1>1. ASSUME account' = [account EXCEPT ![p] = NoAccount]
      PROVE  [q \in Person |-> StandingOf(q)]'
                 = [[q \in Person |-> StandingOf(q)] EXCEPT ![p] = "none"]
  BY <1>1 DEF AccessTypeOK, StandingOf, Exists
<1>2. ASSUME account' = account
      PROVE  [q \in Person |-> StandingOf(q)]' = [q \in Person |-> StandingOf(q)]
  BY <1>2 DEF StandingOf, Exists
<1>3. StandingOf(p) = "none" <=> ~Exists(p)
  BY DEF AccessTypeOK, StandingOf, Exists, User
<1> QED
  BY <1>1, <1>2, <1>3

(* Whoever passes require_super_admin() is an admin by the settings. *)
LEMMA AdminsDecide ==
  ASSUME AccessInv, NEW a \in Person, MayAdminister(a)
  PROVE  a \in Boss /\ Members!Decides(a)
BY DEF AccessInv, RolesFollowSettings, MayAdminister, IsActive, Members!Decides, StandingOf, Exists

LEMMA StartApplies ==
  ASSUME AccessInv, NEW p \in Person, Start(p)
  PROVE  Members!MembershipNext
<1> DEFINE S == {holds[p]} \ {NoName}
<1>0. /\ AccessTypeOK /\ S \in SUBSET (Name \cup Phone)
      /\ seen' = [seen EXCEPT ![p] = @ \cup S]
      /\ UNCHANGED <<nameInvites, phoneInvites, vouched>>
      /\ S \cap nameInvites # {} <=> holds[p] \in nameInvites
  BY AccessAssumption DEF Start, AccessInv, AccessTypeOK
<1>1. CASE ~Exists(p)
  <2> DEFINE status == IF p \in Boss \/ holds[p] \in nameInvites THEN "active" ELSE "pending"
             user == [username |-> holds[p], phone |-> NoPhone, role |-> RoleOf(p),
                      status |-> status]
  <2>1. account' = [account EXCEPT ![p] = user]
    BY <1>1 DEF Start, Add
  <2>2. user \in User /\ user.status = status
    BY <1>0 DEF User, RoleOf, AccessTypeOK
  <2> HIDE DEF user
  <2>3. Members!Becomes(p, status)
    BY <1>0, <2>1, <2>2, WrittenStanding DEF Members!Becomes
  <2>4. Members!Apply(p, S)
    BY <1>0, <1>1, <2>3, StandingsChange DEF Members!Apply, Members!Shows
  <2> QED
    BY <1>0, <2>4 DEF Members!MembershipNext
<1>2. CASE Exists(p)
  <2>1. [q \in Person |-> StandingOf(q)]' = [q \in Person |-> StandingOf(q)]
    <3>1. CASE account' = account
      BY <1>0, <3>1, StandingsChange
    <3>2. CASE account' # account
      <4> DEFINE user == [Loaded(p) EXCEPT !.username = holds[p]]
      <4>1. account' = [account EXCEPT ![p] = user]
        BY <1>2, <3>2 DEF Start, Update, Exists
      <4>2. holds[p] \in Name
        BY <1>0, <1>2, <3>2 DEF Start, Exists, AccessTypeOK
      <4>3. user \in User /\ user.status = account[p].status
        BY <1>0, <1>2, <4>2, LoadedIsUser DEF User
      <4> HIDE DEF user
      <4>4. account[p].status = StandingOf(p)
        BY <1>2 DEF StandingOf
      <4>5. [q \in Person |-> StandingOf(q)]'
                = [[q \in Person |-> StandingOf(q)] EXCEPT ![p] = user.status]
        BY <1>0, <4>1, <4>3, WrittenStanding
      <4>6. user.status = StandingOf(p)
        BY <4>3, <4>4
      <4>7. [[q \in Person |-> StandingOf(q)] EXCEPT ![p] = StandingOf(p)]
                = [q \in Person |-> StandingOf(q)]
        OBVIOUS
      <4> QED
        BY <4>5, <4>6, <4>7
    <3> QED
      BY <3>1, <3>2
  <2>2. Members!Greet(p, S)
    BY <1>0, <1>2, <2>1, StandingsChange DEF Members!Greet, Members!Shows
  <2> QED
    BY <1>0, <2>2 DEF Members!MembershipNext
<1> QED
  BY <1>1, <1>2

LEMMA ContactShowsPhone ==
  ASSUME AccessInv, NEW p \in Person, NEW n \in Phone, ReceiveContact(p, n)
  PROVE  Members!MembershipNext
<1> DEFINE S == {n, holds[p]} \ {NoName}
<1>0. /\ AccessTypeOK /\ S \in SUBSET (Name \cup Phone) /\ n \in S /\ n \in phoneInvites
      /\ seen' = [seen EXCEPT ![p] = @ \cup S]
      /\ UNCHANGED <<nameInvites, phoneInvites, vouched>>
  BY AccessAssumption DEF ReceiveContact, AccessInv, AccessTypeOK
<1>1. \E user \in User : account' = [account EXCEPT ![p] = user] /\ user.status = "active"
  <2>1. CASE ~Exists(p)
    <3> DEFINE user == [username |-> holds[p], phone |-> n, role |-> RoleOf(p),
                        status |-> "active"]
    <3>1. account' = [account EXCEPT ![p] = user] /\ user \in User /\ user.status = "active"
      BY <1>0, <2>1 DEF ReceiveContact, Add, User, RoleOf, AccessTypeOK
    <3> QED
      BY <3>1
  <2>2. CASE Exists(p)
    <3> DEFINE name == IF holds[p] = NoName THEN Loaded(p).username ELSE holds[p]
               user == [Loaded(p) EXCEPT !.username = name, !.phone = n, !.status = "active"]
    <3>1. account' = [account EXCEPT ![p] = user]
      BY <2>2 DEF ReceiveContact, Update, Or
    <3>2. user \in User /\ user.status = "active"
      BY <1>0, <2>2, LoadedIsUser DEF User, AccessTypeOK
    <3> QED
      BY <3>1, <3>2
  <2> QED
    BY <2>1, <2>2
<1>2. Members!Becomes(p, "active")
  BY <1>0, <1>1, WrittenStanding DEF Members!Becomes
<1>3. Members!ShowPhone(p, S)
  BY <1>0, <1>2 DEF Members!ShowPhone, Members!Shows
<1> QED
  BY <1>0, <1>3 DEF Members!MembershipNext

(* An admin who lets in stands for the person, or for a sign of theirs. *)
LEMMA LettingIn ==
  ASSUME AccessInv, NEW a \in Person, NEW p \in Person, NEW S \in SUBSET Name,
         NEW x \in {p} \cup Name \cup Phone, NEW user \in User,
         MayAdminister(a), x = p \/ x \in seen[p] \cup S,
         account' = [account EXCEPT ![p] = user], user.status = "active",
         seen' = [seen EXCEPT ![p] = @ \cup S], vouched' = vouched \cup {x},
         UNCHANGED <<nameInvites, phoneInvites>>
  PROVE  Members!MembershipNext
<1>1. AccessTypeOK /\ a \in Boss /\ Members!Decides(a)
  BY AdminsDecide DEF AccessInv
<1>2. Members!Becomes(p, "active")
  BY <1>1, WrittenStanding DEF Members!Becomes
<1>3. Members!LetIn(a, p, S, x)
  BY <1>1, <1>2 DEF Members!LetIn, Members!Shows
<1> QED
  BY <1>1, <1>3 DEF Members!MembershipNext

LEMMA AddingLetsIn ==
  ASSUME AccessInv, NEW a \in Person, NEW p \in Person, NEW forwarded \in BOOLEAN,
         AddById(a, p, forwarded)
  PROVE  Members!MembershipNext
<1> DEFINE name == IF forwarded THEN holds[p] ELSE NoName
           S == {name} \ {NoName}
<1>0. /\ AccessTypeOK /\ MayAdminister(a) /\ name \in Name \cup {NoName} /\ S \in SUBSET Name
      /\ seen' = [seen EXCEPT ![p] = @ \cup S] /\ vouched' = vouched \cup {p}
      /\ UNCHANGED <<nameInvites, phoneInvites>>
  BY DEF AddById, AccessInv, AccessTypeOK
<1>1. \E user \in User : account' = [account EXCEPT ![p] = user] /\ user.status = "active"
  <2>1. CASE ~Exists(p)
    <3> DEFINE user == [username |-> name, phone |-> NoPhone, role |-> RoleOf(p),
                        status |-> "active"]
    <3>1. account' = [account EXCEPT ![p] = user] /\ user \in User /\ user.status = "active"
      BY <1>0, <2>1 DEF AddById, Add, User, RoleOf
    <3> QED
      BY <3>1
  <2>2. CASE Exists(p)
    <3> DEFINE kept == IF name = NoName THEN Loaded(p).username ELSE name
               user == [Loaded(p) EXCEPT !.username = kept, !.role = RoleOf(p),
                                         !.status = "active"]
    <3>1. account' = [account EXCEPT ![p] = user]
      BY <2>2 DEF AddById, Update, Or
    <3>2. user \in User /\ user.status = "active"
      BY <1>0, <2>2, LoadedIsUser DEF User, RoleOf
    <3> QED
      BY <3>1, <3>2
  <2> QED
    BY <2>1, <2>2
<1> HIDE DEF S
<1> QED
  BY <1>0, <1>1, LettingIn

(* A row is given another status, and what the bot knows stays. *)
LEMMA StatusIsWritten ==
  ASSUME AccessInv, NEW p \in Person, Exists(p),
         NEW status \in {"pending", "active", "rejected", "suspended"},
         Update(p, [Loaded(p) EXCEPT !.status = status]), seen' = seen
  PROVE  /\ \E user \in User : account' = [account EXCEPT ![p] = user] /\ user.status = status
         /\ seen' = [seen EXCEPT ![p] = @ \cup {}]
<1>1. AccessTypeOK
  BY DEF AccessInv
<1>2. [Loaded(p) EXCEPT !.status = status] \in User
  BY <1>1, LoadedIsUser DEF User
<1>3. [Loaded(p) EXCEPT !.status = status].status = status
  BY <1>1, LoadedIsUser
<1> QED
  BY <1>1, <1>2, <1>3 DEF Update, AccessTypeOK

(* A username or a phone is invited, or brings in who has shown it. *)
LEMMA SignsInvite ==
  ASSUME AccessInv, NEW a \in Person,
         \/ \E n \in Name : AddByName(a, n)
         \/ \E n \in Phone : AddByPhone(a, n)
  PROVE  Members!MembershipNext
<1>0. AccessTypeOK /\ RowsComeFromPeople
  BY DEF AccessInv
<1>1. ASSUME NEW n \in Name, AddByName(a, n)
      PROVE  Members!MembershipNext
  <2>0. a \in Boss /\ Members!Decides(a) /\ MayAdminister(a)
    BY <1>1, AdminsDecide DEF AddByName
  <2>1. CASE account' = account /\ nameInvites' = nameInvites \cup {n}
    <3>1. Members!InviteName(a, n)
      BY <1>0, <1>1, <2>0, <2>1, StandingsChange DEF AddByName, Members!InviteName
    <3> QED
      BY <2>0, <3>1 DEF Members!MembershipNext
  <2>2. ASSUME NEW p \in Person, Exists(p), account[p].username = n,
               Update(p, [Loaded(p) EXCEPT !.status = "active"]), nameInvites' = nameInvites
        PROVE  Members!MembershipNext
    <3>1. n \in seen[p]
      BY <1>0, <2>2, AccessAssumption DEF RowsComeFromPeople
    <3>2. seen' = seen /\ vouched' = vouched \cup {n} /\ phoneInvites' = phoneInvites
      BY <1>1 DEF AddByName
    <3>3. /\ \E user \in User : account' = [account EXCEPT ![p] = user] /\ user.status = "active"
          /\ seen' = [seen EXCEPT ![p] = @ \cup {}]
      BY <2>2, <3>2, StatusIsWritten
    <3> QED
      BY <2>0, <2>2, <3>1, <3>2, <3>3, LettingIn
  <2> QED
    BY <1>1, <2>1, <2>2 DEF AddByName
<1>2. ASSUME NEW n \in Phone, AddByPhone(a, n)
      PROVE  Members!MembershipNext
  <2>0. a \in Boss /\ Members!Decides(a) /\ MayAdminister(a)
    BY <1>2, AdminsDecide DEF AddByPhone
  <2>1. CASE account' = account /\ phoneInvites' = phoneInvites \cup {n}
    <3>1. Members!InvitePhone(a, n)
      BY <1>0, <1>2, <2>0, <2>1, StandingsChange DEF AddByPhone, Members!InvitePhone
    <3> QED
      BY <2>0, <3>1 DEF Members!MembershipNext
  <2>2. ASSUME NEW p \in Person, Exists(p), account[p].phone = n,
               Update(p, [Loaded(p) EXCEPT !.status = "active"]), phoneInvites' = phoneInvites
        PROVE  Members!MembershipNext
    <3>1. n \in seen[p]
      BY <1>0, <2>2, AccessAssumption DEF RowsComeFromPeople
    <3>2. seen' = seen /\ vouched' = vouched \cup {n} /\ nameInvites' = nameInvites
      BY <1>2 DEF AddByPhone
    <3>3. /\ \E user \in User : account' = [account EXCEPT ![p] = user] /\ user.status = "active"
          /\ seen' = [seen EXCEPT ![p] = @ \cup {}]
      BY <2>2, <3>2, StatusIsWritten
    <3> QED
      BY <2>0, <2>2, <3>1, <3>2, <3>3, LettingIn
  <2> QED
    BY <1>2, <2>1, <2>2 DEF AddByPhone
<1> QED
  BY <1>1, <1>2

(* An admin decides on an account, or removes it. *)
LEMMA DecidingDecides ==
  ASSUME AccessInv, NEW a \in Person, NEW p \in Person,
         Approve(a, p) \/ Reject(a, p) \/ Suspend(a, p) \/ Unreject(a, p)
  PROVE  Members!MembershipNext
<1>0. /\ AccessTypeOK /\ MayAdminister(a) /\ Exists(p) /\ StandingOf(p) # "none"
      /\ a \in Boss /\ Members!Decides(a)
  BY AdminsDecide, StandingsChange
     DEF AccessInv, Approve, Reject, Suspend, Unreject, Decide
<1>1. CASE Approve(a, p)
  <2>1. /\ \E user \in User : account' = [account EXCEPT ![p] = user] /\ user.status = "active"
        /\ seen' = [seen EXCEPT ![p] = @ \cup {}]
    BY <1>0, <1>1, StatusIsWritten DEF Approve, Decide
  <2> QED
    BY <1>0, <1>1, <2>1, LettingIn DEF Approve, Decide
<1>2. ASSUME NEW s \in {"rejected", "suspended"}, Decide(a, p, s), vouched' = vouched
      PROVE  Members!MembershipNext
  <2>1. \E user \in User : account' = [account EXCEPT ![p] = user] /\ user.status = s
    <3>1. /\ Update(p, [Loaded(p) EXCEPT !.status = s]) /\ seen' = seen
          /\ s \in {"pending", "active", "rejected", "suspended"}
      BY <1>2 DEF Decide
    <3> QED
      BY <1>0, <3>1, StatusIsWritten
  <2>2. Members!Becomes(p, s)
    BY <1>0, <2>1, WrittenStanding DEF Members!Becomes
  <2>3. Members!SendAway(a, p, s)
    BY <1>0, <1>2, <2>2, StandingsChange DEF Members!SendAway, Decide
  <2> QED
    BY <1>0, <1>2, <2>3 DEF Members!MembershipNext, Members!SentAway
<1>3. CASE Unreject(a, p)
  <2>1. Members!Becomes(p, "none")
    BY <1>0, <1>3, StandingsChange DEF Members!Becomes, Unreject
  <2>2. Members!Forget(a, p)
    BY <1>0, <1>3, <2>1, StandingsChange DEF Members!Forget, Unreject
  <2> QED
    BY <1>0, <2>2 DEF Members!MembershipNext
<1> QED
  BY <1>1, <1>2, <1>3 DEF Reject, Suspend

(* The tables of users and invitations keep the promise of Membership: it  *)
(* needs the roles to be those of the settings, and the signs in a row to  *)
(* be its person's own.                                                    *)
THEOREM AccessImplementsMembership == AccessSpec => ImplementsMembership
<1>1. AccessInit => Members!MembershipInit
  BY DEF AccessInit, Members!MembershipInit, StandingOf, Exists
<1>2. AccessInv /\ [AccessNext]_accessVars
          => [Members!MembershipNext]_Members!membershipVars
  <2> SUFFICES ASSUME AccessInv, [AccessNext]_accessVars
               PROVE  [Members!MembershipNext]_Members!membershipVars
    OBVIOUS
  <2>1. ASSUME NEW p \in Person, Start(p) \/ (\E n \in Phone : ReceiveContact(p, n))
        PROVE  Members!MembershipNext
    BY <2>1, StartApplies, ContactShowsPhone
  <2>2. CASE UNCHANGED accessVars \/ (\E p \in Person, n \in Name \cup {NoName} : Rename(p, n))
    BY <2>2 DEF accessVars, Rename, tables, Members!membershipVars, StandingOf, Exists
  <2>3. ASSUME NEW a \in Person, AdminNext(a)
        PROVE  Members!MembershipNext
    BY <2>3, AddingLetsIn, DecidingDecides, SignsInvite DEF AdminNext
  <2> QED
    BY <2>1, <2>2, <2>3 DEF AccessNext, PersonNext
<1> QED
  BY <1>1, <1>2, AccessInvariant, PTL
     DEF AccessSpec, ImplementsMembership, Members!MembershipSpec
=============================================================================
