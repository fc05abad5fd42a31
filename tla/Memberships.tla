------------------------------ MODULE Memberships ------------------------------
(***************************************************************************)
(* Who has access to a company, and as what.  Administrators onboard       *)
(* staff, link payroll profiles, change memberships with PATCH and remove  *)
(* them with DELETE.  A request authenticates once, then reads and writes  *)
(* rows without a lock: a PATCH reads its membership, reads it again to    *)
(* check it, and saves all columns of the first copy.                      *)
(***************************************************************************)
EXTENDS Integers, FiniteSets

CONSTANTS
    Member,    \* ids of memberships
    Founder,   \* the owners the company starts with
    Call       \* requests served at once

VARIABLES
    member,    \* Membership rows: none, or one per id
    profile,   \* the members whose user is linked to a Worker
    call,      \* the request of each process: none, or one
    grantor,   \* history: the role of who last changed an access with privileges
    restored,  \* history: members saved from a copy that was out of date
    patchedOut,  \* history: a PATCH took the role or the access of an active owner
    overlapped   \* history: two removals of owners were checked at once

accountVars == <<member, profile, call, grantor, restored, patchedOut, overlapped>>

Role == {"owner", "admin", "staff"}
Privileged == {"owner", "admin"}

Access(role, active) == [role |-> role, active |-> active]

HasPrivileges(rows) == \E m \in rows : m.role \in Privileged /\ m.active

ActiveOwners ==
    {m \in Member : \E row \in member[m] : row.role = "owner" /\ row.active}

CountAnyOwners ==
    Cardinality({m \in Member : \E row \in member[m] : row.role = "owner"})

CountOwners == Cardinality(ActiveOwners)

Serves(q, to) == call' = [call EXCEPT ![q] = {to}]
Over(q) == call' = [call EXCEPT ![q] = {}]

(* History: a request whose copy was read before another one's write. *)
Wrote(q, m) ==
    call' = [p \in Call |->
                IF p = q THEN {}
                ELSE {[c EXCEPT !.fresh = @ /\ m \notin c.target] : c \in call[p]}]

(* CompanyJWTAuthentication and IsCompanyAdmin: the role of the actor is   *)
(* read once.                                                              *)
Authenticate(q, m) ==
    /\ call[q] = {}
    /\ \E row \in member[m] :
          /\ row.active /\ row.role \in Privileged
          /\ Serves(q, [actor |-> row.role, stage |-> "admitted",
                        target |-> {}, copy |-> {}, to |-> {}, fresh |-> TRUE])
    /\ UNCHANGED <<member, profile, grantor, restored, patchedOut, overlapped>>

MayGrantAny(actor, role) == TRUE

(* validate_role: only an owner can grant owner or admin access. *)
MayGrant(actor, role) == role \in Privileged => actor = "owner"

(* perform_update and perform_destroy: nor change or remove it. *)
MayChange(actor, role) == role \in Privileged => actor = "owner"

(* A new user with a new phone number, and perhaps a payroll profile. *)
Onboard(q, c, m, role) ==
    /\ c.stage = "admitted"
    /\ member[m] = {}
    /\ MayGrant(c.actor, role)
    /\ member' = [member EXCEPT ![m] = {Access(role, TRUE)}]
    /\ grantor' = [grantor EXCEPT ![m] = c.actor]
    /\ profile' = profile \/ profile' = profile \cup {m}
    /\ Over(q)
    /\ UNCHANGED <<restored, patchedOut, overlapped>>

(* Of two requests at once the second fails: user_account is unique. *)
LinkProfile(q, c, m) ==
    /\ c.stage = "admitted"
    /\ member[m] # {}
    /\ m \notin profile
    /\ profile' = profile \cup {m}
    /\ Over(q)
    /\ UNCHANGED <<member, grantor, restored, patchedOut, overlapped>>

Fetch(q, c, m, stage, to) ==
    /\ c.stage = "admitted"
    /\ member[m] # {}
    /\ Serves(q, [c EXCEPT !.stage = stage, !.target = {m}, !.copy = member[m], !.to = to])
    /\ UNCHANGED <<member, profile, grantor, restored, patchedOut, overlapped>>

(* The PATCH names a new role, a new activity, or both: what it does not   *)
(* name keeps the value of the copy.                                       *)
PatchFetch(q, c, m, role, active) ==
    /\ \/ MayGrant(c.actor, role)
       \/ \E row \in member[m] : row.role = role
    /\ Fetch(q, c, m, "patch", {Access(role, active)})

(* perform_update reads the membership again. *)
PatchCheck(q, c, m) ==
    /\ c.stage = "patch"
    /\ m \in c.target
    /\ \A row \in member[m] : MayChange(c.actor, row.role)
    /\ Serves(q, [c EXCEPT !.stage = "save"])
    /\ UNCHANGED <<member, profile, grantor, restored, patchedOut, overlapped>>

PatchSave(q, c, m) ==
    /\ c.stage = "save"
    /\ m \in c.target
    /\ member' = [member EXCEPT ![m] = c.to]
    /\ grantor' = IF HasPrivileges(member[m] \cup c.to) /\ member[m] # c.to
                  THEN [grantor EXCEPT ![m] = c.actor] ELSE grantor
    /\ restored' = IF c.fresh THEN restored ELSE restored \cup {m}
    /\ patchedOut' = (patchedOut \/ (m \in ActiveOwners /\ Access("owner", TRUE) \notin c.to))
    /\ Wrote(q, m)
    /\ UNCHANGED <<profile, overlapped>>

RemoveFetch(q, c, m) == Fetch(q, c, m, "remove", {})

(* Removals of active owners that have counted and not saved yet. *)
Removing ==
    {q \in Call : \E c \in call[q] :
        c.stage = "removal" /\ Access("owner", TRUE) \in c.copy}

(* perform_destroy: the role and activity of the copy, then the count. *)
RemoveCheck(q, c, m) ==
    /\ c.stage = "remove"
    /\ m \in c.target
    /\ \A row \in c.copy :
          /\ MayChange(c.actor, row.role)
          /\ row.role = "owner" /\ row.active => CountOwners > 1
    /\ Serves(q, [c EXCEPT !.stage = "removal"])
    /\ overlapped' = (overlapped \/ Removing # {})
    /\ UNCHANGED <<member, profile, grantor, restored, patchedOut>>

(* Only is_active is written. *)
RemoveSave(q, c, m) ==
    /\ c.stage = "removal"
    /\ m \in c.target
    /\ member' = [member EXCEPT ![m] = {[row EXCEPT !.active = FALSE] : row \in @}]
    /\ grantor' = IF HasPrivileges(member[m])
                  THEN [grantor EXCEPT ![m] = c.actor] ELSE grantor
    /\ restored' = IF c.fresh THEN restored ELSE restored \cup {m}
    /\ Wrote(q, m)
    /\ UNCHANGED <<profile, patchedOut, overlapped>>

(* Refused at any check, or finished without a change. *)
Refuse(q) ==
    /\ call[q] # {}
    /\ Over(q)
    /\ UNCHANGED <<member, profile, grantor, restored, patchedOut, overlapped>>

-----------------------------------------------------------------------------
AccountsInit ==
    /\ member = [m \in Member |-> IF m \in Founder THEN {Access("owner", TRUE)} ELSE {}]
    /\ profile = {}
    /\ call = [q \in Call |-> {}]
    /\ grantor = [m \in Member |-> IF m \in Founder THEN "owner" ELSE "none"]
    /\ restored = {}
    /\ patchedOut = FALSE
    /\ overlapped = FALSE

CallStep(q) ==
    \/ \E m \in Member : Authenticate(q, m)
    \/ \E c \in call[q], m \in Member :
          \/ \E role \in Role : Onboard(q, c, m, role)
          \/ LinkProfile(q, c, m)
          \/ \E role \in Role, active \in BOOLEAN : PatchFetch(q, c, m, role, active)
          \/ PatchCheck(q, c, m)
          \/ PatchSave(q, c, m)
          \/ RemoveFetch(q, c, m)
          \/ RemoveCheck(q, c, m)
          \/ RemoveSave(q, c, m)
    \/ Refuse(q)

AccountsNext == \E q \in Call : CallStep(q)

AccountsSpec == AccountsInit /\ [][AccountsNext]_accountVars

-----------------------------------------------------------------------------
(* Properties *)

AccessRow == [role : Role, active : BOOLEAN]
Serving ==
    [actor : Privileged,
     stage : {"admitted", "patch", "save", "remove", "removal"},
     target : SUBSET Member, copy : SUBSET AccessRow, to : SUBSET AccessRow,
     fresh : BOOLEAN]

AccountsTypeOK ==
    /\ member \in [Member -> SUBSET AccessRow]
    /\ profile \in SUBSET Member
    /\ call \in [Call -> SUBSET Serving]
    /\ grantor \in [Member -> Privileged \cup {"none"}]
    /\ restored \in SUBSET Member
    /\ patchedOut \in BOOLEAN /\ overlapped \in BOOLEAN

(* Who has owner or admin access has it from an owner, and only an owner   *)
(* last changed or removed it ("Only an owner can grant owner or admin     *)
(* access."), unless a save wrote back or passed over a change it had not  *)
(* read.                                                                   *)
PrivilegesComeFromOwners ==
    \A m \in Member \ restored :
        HasPrivileges(member[m]) => grantor[m] = "owner"

(* Removals leave an owner, one after the other and mixed with everything  *)
(* else; only a PATCH of the last owner, which nothing checks, two         *)
(* removals at once, and one that has not read its member's promotion can  *)
(* take the last one.                                                      *)
RemovalsLeaveAnOwner ==
    patchedOut \/ overlapped \/ restored # {} \/ ActiveOwners # {}

(* "The company must retain at least one active owner." (accounts/views.py)*)
AnOwnerRemains == ActiveOwners # {}
=============================================================================
