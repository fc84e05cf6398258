------------------------------- MODULE Access -------------------------------
(***************************************************************************)
(* application/use_cases/access.py with the handlers that call it and the  *)
(* tables users, username_invites and phone_invites on SQLite.  A handler  *)
(* does its database work without suspending: each is one step.  Of a row  *)
(* the full name is left out, and names and phones stand for their         *)
(* normalized form.                                                        *)
(***************************************************************************)
CONSTANTS
    Person,    \* Telegram ids
    Boss,      \* settings.super_admin_ids
    Name,      \* Telegram usernames
    Phone,
    NoName, NoPhone, NoAccount

ASSUME AccessAssumption ==
    /\ Boss \subseteq Person
    /\ NoName \notin Name \cup Phone /\ NoPhone \notin Phone

VARIABLES
    account,       \* the table users, by telegram_id
    nameInvites,   \* the table username_invites
    phoneInvites,  \* the table phone_invites
    holds,         \* holds[p]: the username p has on Telegram
    seen,          \* seen[p]: the usernames and phones the bot has got from p
    vouched        \* the ids, usernames and phones an admin has let in

tables == <<account, nameInvites, phoneInvites>>
accessVars == <<account, nameInvites, phoneInvites, holds, seen, vouched>>

User == [username : Name \cup {NoName}, phone : Phone \cup {NoPhone},
         role : {"super_admin", "user"},
         status : {"pending", "active", "rejected", "suspended"}]

ASSUME NoAccountAssumption == NoAccount \notin User

AccessTypeOK ==
    /\ account \in [Person -> User \cup {NoAccount}]
    /\ nameInvites \in SUBSET Name
    /\ phoneInvites \in SUBSET Phone
    /\ holds \in [Person -> Name \cup {NoName}]
    /\ seen \in [Person -> SUBSET (Name \cup Phone)]
    /\ vouched \in SUBSET (Person \cup Name \cup Phone)

AccessInit ==
    /\ account = [p \in Person |-> NoAccount]
    /\ nameInvites = {} /\ phoneInvites = {}
    /\ holds = [p \in Person |-> NoName]
    /\ seen = [p \in Person |-> {}]
    /\ vouched = {}

----------------------------------------------------------------------------
Exists(p) == account[p] # NoAccount
IsActive(p) == Exists(p) /\ account[p].status = "active"

(* require_super_admin() *)
MayAdminister(a) == IsActive(a) /\ account[a].role = "super_admin"

(* Mutant: the settings are not looked at. *)
RoleForgotten(p) == "user"

RoleOf(p) == IF p \in Boss THEN "super_admin" ELSE "user"

(* _row_to_user(): `in` looks among the values of a sqlite3.Row, so the    *)
(* phone is never loaded.                                                  *)
Loaded(p) == [account[p] EXCEPT !.phone = NoPhone]

(* update() writes all columns of the object back. *)
Update(p, user) == account' = [account EXCEPT ![p] = user]
Add(p, user) == account' = [account EXCEPT ![p] = user]

Or(new, none, old) == IF new = none THEN old ELSE new

----------------------------------------------------------------------------
(* What a person does. *)

(* Mutant: whoever is invited gets in, also after a suspension. *)
StartReadmits(p) ==
    /\ IF ~Exists(p)
       THEN Add(p, [username |-> holds[p], phone |-> NoPhone, role |-> RoleOf(p),
                    status |-> IF p \in Boss \/ holds[p] \in nameInvites
                               THEN "active" ELSE "pending"])
       ELSE Update(p, [Loaded(p) EXCEPT
                    !.username = Or(holds[p], NoName, @),
                    !.status = IF holds[p] \in nameInvites THEN "active" ELSE @])
    /\ seen' = [seen EXCEPT ![p] = @ \cup ({holds[p]} \ {NoName})]
    /\ UNCHANGED <<nameInvites, phoneInvites, holds, vouched>>

(* /start: someone new is let in by the settings or an invitation, or has  *)
(* to wait; someone known is only asked for a new username.                *)
Start(p) ==
    /\ \/ /\ ~Exists(p)
          /\ Add(p, [username |-> holds[p], phone |-> NoPhone, role |-> RoleOf(p),
                     status |-> IF p \in Boss \/ holds[p] \in nameInvites
                                THEN "active" ELSE "pending"])
       \/ /\ Exists(p)
          /\ IF holds[p] \notin {NoName, account[p].username}
             THEN Update(p, [Loaded(p) EXCEPT !.username = holds[p]])
             ELSE UNCHANGED account
    /\ seen' = [seen EXCEPT ![p] = @ \cup ({holds[p]} \ {NoName})]
    /\ UNCHANGED <<nameInvites, phoneInvites, holds, vouched>>

(* Mutant: a phone nobody has approved. *)
ReceiveAnyContact(p, n) ==
    /\ IF Exists(p)
       THEN Update(p, [Loaded(p) EXCEPT !.username = Or(holds[p], NoName, @),
                                        !.phone = n, !.status = "active"])
       ELSE Add(p, [username |-> holds[p], phone |-> n, role |-> RoleOf(p),
                    status |-> "active"])
    /\ seen' = [seen EXCEPT ![p] = @ \cup ({n, holds[p]} \ {NoName})]
    /\ UNCHANGED <<nameInvites, phoneInvites, holds, vouched>>

(* "Share phone": a contact that is not another account's. *)
ReceiveContact(p, n) ==
    /\ n \in phoneInvites
    /\ IF Exists(p)
       THEN Update(p, [Loaded(p) EXCEPT !.username = Or(holds[p], NoName, @),
                                        !.phone = n, !.status = "active"])
       ELSE Add(p, [username |-> holds[p], phone |-> n, role |-> RoleOf(p),
                    status |-> "active"])
    /\ seen' = [seen EXCEPT ![p] = @ \cup ({n, holds[p]} \ {NoName})]
    /\ UNCHANGED <<nameInvites, phoneInvites, holds, vouched>>

(* On Telegram, where no two people have the same username. *)
Rename(p, n) ==
    /\ n = NoName \/ \A q \in Person : holds[q] # n
    /\ holds' = [holds EXCEPT ![p] = n]
    /\ UNCHANGED <<tables, seen, vouched>>

----------------------------------------------------------------------------
(* What an admin a does. *)

(* add_active_user(): by number, or by a forwarded message that shows the  *)
(* username too.                                                           *)
AddById(a, p, forwarded) ==
    /\ MayAdminister(a)
    /\ LET name == IF forwarded THEN holds[p] ELSE NoName IN
       /\ IF Exists(p)
          THEN Update(p, [Loaded(p) EXCEPT !.username = Or(name, NoName, @),
                                           !.role = RoleOf(p), !.status = "active"])
          ELSE Add(p, [username |-> name, phone |-> NoPhone, role |-> RoleOf(p),
                       status |-> "active"])
       /\ seen' = [seen EXCEPT ![p] = @ \cup ({name} \ {NoName})]
    /\ vouched' = vouched \cup {p}
    /\ UNCHANGED <<nameInvites, phoneInvites, holds>>

(* add_allowed_username(): several rows may hold a name that has changed   *)
(* hands; any of them is fetched.                                          *)
AddByName(a, n) ==
    /\ MayAdminister(a)
    /\ LET named == {p \in Person : Exists(p) /\ account[p].username = n} IN
       \/ /\ named = {}
          /\ nameInvites' = nameInvites \cup {n}
          /\ UNCHANGED account
       \/ \E p \in named :
             /\ Update(p, [Loaded(p) EXCEPT !.status = "active"])
             /\ UNCHANGED nameInvites
    /\ vouched' = vouched \cup {n}
    /\ UNCHANGED <<phoneInvites, holds, seen>>

(* add_allowed_phone() *)
AddByPhone(a, n) ==
    /\ MayAdminister(a)
    /\ LET known == {p \in Person : Exists(p) /\ account[p].phone = n} IN
       \/ /\ known = {}
          /\ phoneInvites' = phoneInvites \cup {n}
          /\ UNCHANGED account
       \/ \E p \in known :
             /\ Update(p, [Loaded(p) EXCEPT !.status = "active"])
             /\ UNCHANGED phoneInvites
    /\ vouched' = vouched \cup {n}
    /\ UNCHANGED <<nameInvites, holds, seen>>

Decide(a, p, status) ==
    /\ MayAdminister(a) /\ Exists(p)
    /\ Update(p, [Loaded(p) EXCEPT !.status = status])
    /\ UNCHANGED <<nameInvites, phoneInvites, holds, seen>>

Approve(a, p) == Decide(a, p, "active") /\ vouched' = vouched \cup {p}
Reject(a, p) == Decide(a, p, "rejected") /\ UNCHANGED vouched
Suspend(a, p) == Decide(a, p, "suspended") /\ UNCHANGED vouched

(* unreject(): the row goes, whatever its status. *)
Unreject(a, p) ==
    /\ MayAdminister(a) /\ Exists(p)
    /\ account' = [account EXCEPT ![p] = NoAccount]
    /\ UNCHANGED <<nameInvites, phoneInvites, holds, seen, vouched>>

PersonNext(p) ==
    \/ Start(p)
    \/ \E n \in Phone : ReceiveContact(p, n)
    \/ \E n \in Name \cup {NoName} : Rename(p, n)

AdminNext(a) ==
    \/ \E p \in Person :
           \/ \E forwarded \in BOOLEAN : AddById(a, p, forwarded)
           \/ Approve(a, p) \/ Reject(a, p) \/ Suspend(a, p) \/ Unreject(a, p)
    \/ \E n \in Name : AddByName(a, n)
    \/ \E n \in Phone : AddByPhone(a, n)

AccessNext == \E p \in Person : PersonNext(p) \/ AdminNext(p)

AccessSpec == AccessInit /\ [][AccessNext]_accessVars

----------------------------------------------------------------------------
(* What a row knows of a person was shown by that person, and an           *)
(* invitation is an admin's.                                               *)
RowsComeFromPeople ==
    \A p \in Person : Exists(p) =>
        /\ account[p].username # NoName => account[p].username \in seen[p]
        /\ account[p].phone # NoPhone => account[p].phone \in seen[p]

InvitesAreVouched == nameInvites \subseteq vouched /\ phoneInvites \subseteq vouched

(* The settings alone make super admins: no way into the table, and no way *)
(* of changing a row, gives or takes that role.                            *)
RolesFollowSettings ==
    \A p \in Person : Exists(p) => (account[p].role = "super_admin" <=> p \in Boss)

AccessInv ==
    AccessTypeOK /\ RowsComeFromPeople /\ InvitesAreVouched /\ RolesFollowSettings

(* Whoever may use the bot is a super admin by the settings, or an admin   *)
(* has let in this account, or a username or a phone that came from it -   *)
(* whatever names have changed hands and whoever was deleted or suspended  *)
(* in between.                                                             *)
ActiveWereLetIn ==
    \A p \in Person : IsActive(p) =>
        p \in Boss \/ p \in vouched \/ seen[p] \cap vouched # {}

(* Someone rejected or suspended comes back only by an admin, or by a      *)
(* phone an admin has approved; pressing Start again changes nothing, nor  *)
(* does taking a username that is invited.                                 *)
SentAwayStaysAway ==
    [][\A p \in Person :
          /\ Exists(p) /\ account[p].status \in {"rejected", "suspended"}
          /\ account'[p] # account[p] /\ account'[p] # NoAccount
          /\ account'[p].status = "active"
          => account'[p].phone \in phoneInvites \/ \E a \in Person : AdminNext(a)
      ]_accessVars

(* Refinement: what somebody is. *)
StandingOf(p) == IF Exists(p) THEN account[p].status ELSE "none"

Members == INSTANCE Membership WITH
               standing <- [p \in Person |-> StandingOf(p)],
               shown <- seen,
               names <- nameInvites,
               phones <- phoneInvites

(* The tables keep the promise of Membership, although a row may hold a    *)
(* username that has gone to somebody else, loses its phone whenever it is *)
(* read, and carries the role that decides who is an admin.                *)
ImplementsMembership == Members!MembershipSpec

----------------------------------------------------------------------------
(* "@... will be activated automatically when they press Start", the bot   *)
(* answers an admin who has added a username.                              *)
InvitedStartActivates ==
    [][\A p \in Person :
          Start(p) /\ holds[p] \in nameInvites
          /\ ~(Exists(p) /\ account[p].status \in {"rejected", "suspended"})
          => account'[p].status = "active"]_accessVars
=============================================================================
