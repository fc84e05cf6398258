----------------------------- MODULE Membership -----------------------------
(***************************************************************************)
(* What access control promises, without rows, roles and the usernames and *)
(* phones that are stored in them: nobody becomes a member but a super     *)
(* admin of the settings, someone an active one lets in, and someone with  *)
(* a sign - a username, a phone - such a one has invited.  A username      *)
(* helps only who comes for the first time; a phone helps anybody, also    *)
(* who was sent away.  Invitations are not taken back, and what a super    *)
(* admin has stood for is not forgotten.                                   *)
(***************************************************************************)
CONSTANTS Person, Boss,   \* Telegram ids; the super admins of the settings
          Name, Phone     \* signs that people show

VARIABLES standing,       \* standing[p]: what p is, "none" before and after
          shown,          \* shown[p]: the signs the bot has got from p
          names, phones,  \* the signs that are invited
          vouched         \* the people and signs a super admin has stood for

membershipVars == <<standing, shown, names, phones, vouched>>

SentAway == {"rejected", "suspended"}

MembershipInit ==
    /\ standing = [p \in Person |-> "none"]
    /\ shown = [p \in Person |-> {}]
    /\ names = {} /\ phones = {} /\ vouched = {}

Becomes(p, s) == standing' = [standing EXCEPT ![p] = s]
Shows(p, S) == shown' = [shown EXCEPT ![p] = @ \cup S]

(* What p does alone, showing the signs S. *)
Apply(p, S) ==
    /\ standing[p] = "none"
    /\ Shows(p, S)
    /\ Becomes(p, IF p \in Boss \/ S \cap names # {} THEN "active" ELSE "pending")
    /\ UNCHANGED <<names, phones, vouched>>

Greet(p, S) ==
    /\ standing[p] # "none"
    /\ Shows(p, S)
    /\ UNCHANGED <<standing, names, phones, vouched>>

ShowPhone(p, S) ==
    /\ S \cap phones # {}
    /\ Shows(p, S)
    /\ Becomes(p, "active")
    /\ UNCHANGED <<names, phones, vouched>>

(* What a super admin a does, who has to be a member. *)
Decides(a) == standing[a] = "active"

(* He stands for p, or for a sign that p has shown. *)
LetIn(a, p, S, x) ==
    /\ Decides(a)
    /\ x = p \/ x \in shown[p] \cup S
    /\ Shows(p, S)
    /\ vouched' = vouched \cup {x}
    /\ Becomes(p, "active")
    /\ UNCHANGED <<names, phones>>

SendAway(a, p, s) ==
    /\ Decides(a) /\ standing[p] # "none"
    /\ Becomes(p, s)
    /\ UNCHANGED <<shown, names, phones, vouched>>

Forget(a, p) ==
    /\ Decides(a) /\ standing[p] # "none"
    /\ Becomes(p, "none")
    /\ UNCHANGED <<shown, names, phones, vouched>>

InviteName(a, n) ==
    /\ Decides(a)
    /\ names' = names \cup {n}
    /\ vouched' = vouched \cup {n}
    /\ UNCHANGED <<standing, shown, phones>>

InvitePhone(a, n) ==
    /\ Decides(a)
    /\ phones' = phones \cup {n}
    /\ vouched' = vouched \cup {n}
    /\ UNCHANGED <<standing, shown, names>>

MembershipNext ==
    \/ \E p \in Person, S \in SUBSET (Name \cup Phone) :
           Apply(p, S) \/ Greet(p, S) \/ ShowPhone(p, S)
    \/ \E a \in Boss, p \in Person :
           \/ \E S \in SUBSET Name, x \in {p} \cup Name \cup Phone : LetIn(a, p, S, x)
           \/ Forget(a, p)
           \/ \E s \in SentAway : SendAway(a, p, s)
    \/ \E a \in Boss :
           (\E n \in Name : InviteName(a, n)) \/ (\E n \in Phone : InvitePhone(a, n))

MembershipSpec == MembershipInit /\ [][MembershipNext]_membershipVars
=============================================================================
