-------------------------------- MODULE Grants --------------------------------
(***************************************************************************)
(* Who may hand out what: lib/auth/grant-guard.ts, and the calls of          *)
(* grant-service.ts, role-service.ts and account-service.ts that it guards. *)
(*                                                                         *)
(* A call compares what it touches with what its actor holds, reads what it *)
(* is to keep, and replaces the rows in one transaction, with awaits        *)
(* between.  One call is followed; Elsewhere is whatever the others write   *)
(* meanwhile.  The permission that lets the call run at all is the gate's,   *)
(* as is whether the actor is a superuser.                                  *)
(***************************************************************************)
CONSTANTS
    Members,       \* accounts
    Permissions,   \* permissions that can be granted
    Roles

VARIABLES
    direct,    \* UserPermission: what each account was given itself
    carries,   \* RolePermission: what each role that exists gives
    assigned,  \* UserRole: who has each role
    call       \* the call that is followed

grantVars == <<direct, carries, assigned, call>>

NoRole == {"no such role"}
ASSUME PermissionsAssumption == "no such role" \notin Permissions

Idle   == [at |-> "idle"]
Exist  == {r \in Roles : carries[r] # NoRole}
RolesOf(u) == {r \in Exist : u \in assigned[r]}
Carried(rs) == UNION {carries[r] : r \in rs \cap Exist}

\* effectivePermissions
Held(u) == direct[u] \cup Carried(RolesOf(u))

Differ(A, B) == (A \ B) \cup (B \ A)

\* What a form may ask for.
Forms ==
    [op : {"permissions"}, user : Members, perms : SUBSET Permissions] \cup
    [op : {"roles"}, user : Members, roles : SUBSET Roles] \cup
    [op : {"account"}, user : Members, perms : SUBSET Permissions, roles : SUBSET Roles] \cup
    [op : {"createRole", "updateRole"}, role : Roles, perms : SUBSET Permissions, who : SUBSET Members] \cup
    [op : {"deleteRole"}, role : Roles]

GrantsInit ==
    /\ direct = [u \in Members |-> {}] /\ carries = [r \in Roles |-> NoRole]
    /\ assigned = [r \in Roles |-> {}] /\ call = Idle

\* What is there for the form to be about; the rows a transaction needs are
\* looked for again when it runs.
Stands(f) ==
    CASE f.op = "permissions" -> TRUE
      [] f.op = "roles" -> f.roles \subseteq Exist
      [] f.op = "account" -> /\ Held(f.user) = {} /\ RolesOf(f.user) = {}
                             /\ f.roles \subseteq Exist
      [] f.op = "createRole" -> f.role \notin Exist
      [] f.op \in {"updateRole", "deleteRole"} -> f.role \in Exist

\* What the guards compare with what the actor holds.
Touches(f) ==
    CASE f.op = "permissions" -> f.perms
      [] f.op = "roles" -> Carried(f.roles)
      [] f.op = "account" -> f.perms \cup Carried(f.roles)
      [] f.op = "createRole" -> f.perms
      [] f.op = "updateRole" -> carries[f.role] \cup f.perms
      [] f.op = "deleteRole" -> carries[f.role]

\* assertMayGrant, assertMayAssignRoles, assertMayEditRole
CallAction(actor, super, form) ==
    /\ call = Idle /\ Stands(form) /\ (super \/ Touches(form) \subseteq Held(actor))
    /\ call' = [at |-> "look", actor |-> actor, super |-> super, form |-> form,
                held |-> Held(actor), keep |-> {}, fresh |-> TRUE]
    /\ UNCHANGED <<direct, carries, assigned>>

\* The mutant: a form replaces whatever the account had.
MistakeKeepsNothing(f) == {}

\* permissionsActorMayNotTouch: what stays whatever the form says.
Keeps(f) ==
    IF call.super THEN {}
    ELSE CASE f.op = "permissions" -> direct[f.user] \ call.held
           [] f.op = "roles" -> {r \in RolesOf(f.user) : ~(carries[r] \subseteq call.held)}
           [] OTHER -> {}

LookUpGrants ==
    /\ call.at = "look"
    /\ call' = [call EXCEPT !.at = "write", !.keep = Keeps(call.form)]
    /\ UNCHANGED <<direct, carries, assigned>>

\* Gives u exactly the roles rs.
AssignOnly(u, rs) ==
    assigned' = [r \in Roles |-> IF r \in rs THEN assigned[r] \cup {u} ELSE assigned[r] \ {u}]

\* The transaction of each call.
Replace(f) ==
    CASE f.op = "permissions" ->
            /\ direct' = [direct EXCEPT ![f.user] = call.keep \cup f.perms]
            /\ UNCHANGED <<carries, assigned>>
      [] f.op = "roles" ->
            /\ call.keep \subseteq Exist /\ AssignOnly(f.user, call.keep \cup f.roles)
            /\ UNCHANGED <<direct, carries>>
      [] f.op = "account" ->
            /\ direct' = [direct EXCEPT ![f.user] = f.perms] /\ AssignOnly(f.user, f.roles)
            /\ UNCHANGED carries
      [] f.op \in {"createRole", "updateRole"} ->
            /\ carries' = [carries EXCEPT ![f.role] = f.perms]
            /\ assigned' = [assigned EXCEPT ![f.role] = f.who]
            /\ UNCHANGED direct
      [] f.op = "deleteRole" ->
            /\ carries' = [carries EXCEPT ![f.role] = NoRole]
            /\ assigned' = [assigned EXCEPT ![f.role] = {}]
            /\ UNCHANGED direct

Write == call.at = "write" /\ Stands(call.form) /\ Replace(call.form) /\ call' = Idle

\* A transaction that finds a row gone, or a name taken, throws.
Throw == call # Idle /\ call' = Idle /\ UNCHANGED <<direct, carries, assigned>>

Toggled(S, x) == Differ(S, {x})

\* What other calls write.  Any tables are some calls' work, so one change at a
\* time reaches what a form that changes many would leave.
Elsewhere ==
    /\ \/ \E u \in Members, p \in Permissions :
             direct' = [direct EXCEPT ![u] = Toggled(@, p)] /\ UNCHANGED <<carries, assigned>>
       \/ \E r \in Exist, p \in Permissions :
             carries' = [carries EXCEPT ![r] = Toggled(@, p)] /\ UNCHANGED <<direct, assigned>>
       \/ \E r \in Exist, u \in Members :
             assigned' = [assigned EXCEPT ![r] = Toggled(@, u)] /\ UNCHANGED <<direct, carries>>
       \/ \E r \in Roles :
             /\ carries' = [carries EXCEPT ![r] = IF r \in Exist THEN NoRole ELSE {}]
             /\ assigned' = [assigned EXCEPT ![r] = {}] /\ UNCHANGED direct
    /\ call' = IF call = Idle THEN Idle ELSE [call EXCEPT !.fresh = FALSE]

GrantsNext ==
    \/ \E actor \in Members, super \in BOOLEAN, form \in Forms : CallAction(actor, super, form)
    \/ LookUpGrants \/ Write \/ Throw \/ Elsewhere

GrantsSpec == GrantsInit /\ [][GrantsNext]_grantVars

(***************************************************************************)
(* Properties                                                               *)
(***************************************************************************)

\* A call gives nobody a permission, and takes none from anybody, that its actor
\* did not hold ("What is replaced is only the part the editor has authority
\* over", grant-service.ts:20), as long as nothing else was written since it was
\* checked.  Whatever was written, what it adds to an account is its actor's or
\* what it read there: it may give back what another call has just taken away.
GrantsStayWithinAuthority ==
    [][Write => \/ call.super
                \/ \A u \in Members :
                      /\ call.fresh => Differ(Held(u), Held(u)') \subseteq call.held
                      /\ direct'[u] \ direct[u] \subseteq call.held \cup call.keep]_grantVars
=============================================================================
