------------------------------- MODULE Access --------------------------------
(***************************************************************************)
(* Who may do what, while administrators change it: the entry and role     *)
(* decision of every Streamlit rerun (auth/session.py, auth/roles.py), the *)
(* role assignments of concurrent administrators (admin/roles_service.py), *)
(* the runtime settings (admin/config_service.py) and the audit rows they  *)
(* leave (audit/recorder.py).                                              *)
(*                                                                         *)
(* A role change is one transaction, here cut where another may come       *)
(* between: the read of the old role, the lock of the administrators' rows *)
(* (FOR UPDATE, as PostgreSQL serves it), the write and commit, and the    *)
(* audit row in a transaction of its own.                                  *)
(***************************************************************************)
EXTENDS Common, Integers, FiniteSets, Bags

CONSTANTS Sessions,        \* browser sessions
          Owner,           \* Owner[s]: the verified address of session s
          People,          \* addresses the role table may hold
          SeededRoles,     \* the role table when the behaviour begins
          Environments,    \* [admins, allowed, production] of a deployment
          SettingValues,   \* values of one editable setting
          MaxAccess        \* bound on reruns, restarts and changes together

VARIABLES
    roleTable,    \* user_roles: a role per address, or None
    authEnv,      \* ADMIN_EMAILS, ALLOWED_EMAILS and the production flag
    rerun,        \* per session, the rerun under way, or None
    marked,       \* dedup keys a session has recorded, per session
    roleTx,       \* per session, its role change, or None
    auditRows,    \* bag of audit_logs rows
    override,     \* the app_config row of the setting, or None
    liveSetting,  \* os.environ of the web process
    saving,       \* per session, a stored value not yet in os.environ
    accessMoves

accessChange == <<roleTx, rerun, marked, auditRows>>
settingState == <<override, liveSetting, saving>>
AccessVars == <<roleTable, authEnv, accessChange, settingState, accessMoves>>

-----------------------------------------------------------------------------
Roles == {"viewer", "analyst", "admin"}

ASSUME AccessAssumption ==
    /\ Owner \in [Sessions -> People] /\ IsFiniteSet(People) /\ MaxAccess \in Nat
    /\ SeededRoles \in [People -> Roles \cup {None}]
    /\ \E e \in Environments : e.admins = {} /\ e.production
    /\ SettingValues # {}

\* The tables: one role per address, one override per setting, and audit rows
\* that name the event and its actor.
UserRoles == [People -> Roles \cup {None}]

AppConfig == SettingValues \cup {None}

AuditLog ==
    {row \in BagToSet(auditRows) :
        /\ row.event \in {"login_success", "login_denied", "role_denied",
                          "role_changed", "config_changed"}
        /\ row.email \in {Owner[s] : s \in Sessions}}

Rank(role) == CASE role = "denied" -> 0
                [] role = "viewer" -> 1
                [] role = "analyst" -> 2
                [] role = "admin" -> 3

MinRole ==
    [view_results |-> "viewer", run_scan |-> "analyst", export_results |-> "analyst",
     create_watchlist |-> "analyst", refresh_data |-> "admin",
     manage_universes |-> "admin", modify_config |-> "admin", view_health |-> "admin",
     view_audit_log |-> "admin", manage_roles |-> "admin", manage_ipo_data |-> "admin"]

RoleHasCapability(role, capability) == Rank(role) >= Rank(MinRole[capability])

IsEmailAuthorized(email, inTable) ==
    \/ email \in authEnv.admins
    \/ inTable
    \/ authEnv.allowed # {} /\ email \in authEnv.allowed
    \/ authEnv.allowed = {} /\ ~authEnv.production

ResolveRole(email, row) ==
    CASE email \in authEnv.admins -> "admin"
      [] email \notin authEnv.admins /\ row # None -> row
      [] OTHER -> "analyst"

\* A table that cannot be read, or holds a name that is no role, lets nobody
\* in and lends nobody more than the lowest role.
OutageAsMissing(email, row, readable) ==
    IF ~IsEmailAuthorized(email, readable /\ row # None) THEN "denied"
    ELSE ResolveRole(email, IF readable THEN row ELSE None)

GrantedRole(email, row, readable) ==
    CASE ~IsEmailAuthorized(email, readable /\ row # None) -> "denied"
      [] /\ IsEmailAuthorized(email, readable /\ row # None)
         /\ ~readable /\ email \notin authEnv.admins -> "viewer"
      [] OTHER -> ResolveRole(email, row)

TableAdmins == {p \in People : roleTable[p] = "admin"}

EffectiveAdmins == authEnv.admins \cup TableAdmins

-----------------------------------------------------------------------------
(* record_audit_event and record_audit_event_once: a row that cannot be    *)
(* written is not marked, so that the next rerun tries again.              *)

AuditRow(row) == auditRows' \in {auditRows, auditRows (+) SetToBag({row})}

AuditOnce(s, row) ==
    IF row \in marked[s] THEN UNCHANGED <<auditRows, marked>>
    ELSE \/ /\ auditRows' = auditRows (+) SetToBag({row})
            /\ marked' = [marked EXCEPT ![s] = @ \cup {row}]
         \/ UNCHANGED <<auditRows, marked>>

AccessMove == accessMoves < MaxAccess /\ accessMoves' = accessMoves + 1

-----------------------------------------------------------------------------
(* A rerun: the gate at its top, the replay of the settings, what it does. *)

\* "full" is what a readable table would have granted; nothing reads it.
Rerun(s, readable) ==
    LET email == Owner[s]
        role == GrantedRole(email, roleTable[email], readable)
        row == [event |-> IF role = "denied" THEN "login_denied" ELSE "login_success",
                email |-> email]
    IN
    /\ AccessMove
    /\ roleTx[s] = None
    /\ saving[s] = None
    /\ rerun' = [rerun EXCEPT ![s] =
            [role |-> role, readable |-> readable,
             full |-> GrantedRole(email, roleTable[email], TRUE)]]
    /\ AuditOnce(s, row)
    /\ liveSetting' = IF role # "denied" /\ readable /\ override # None
                      THEN override ELSE liveSetting
    /\ UNCHANGED <<roleTable, authEnv, roleTx, override, saving>>

InRerun(s) == rerun[s] # None /\ rerun[s].role # "denied"

May(s, capability) == InRerun(s) /\ RoleHasCapability(rerun[s].role, capability)

\* require_capability on a page or button that the role does not have.
DenyCapability(s, capability) ==
    /\ InRerun(s)
    /\ ~May(s, capability)
    /\ AuditOnce(s, [event |-> "role_denied", email |-> Owner[s],
                     capability |-> capability])
    /\ rerun' = [rerun EXCEPT ![s] = None]
    /\ UNCHANGED <<roleTable, authEnv, roleTx, settingState, accessMoves>>

Redeploy(env) ==
    /\ AccessMove
    /\ authEnv' = env
    /\ rerun' = [s \in Sessions |-> None]
    /\ marked' = [s \in Sessions |-> {}]
    /\ roleTx' = [s \in Sessions |-> None]
    /\ saving' = [s \in Sessions |-> None]
    /\ liveSetting' \in SettingValues
    /\ UNCHANGED <<roleTable, auditRows, override>>

-----------------------------------------------------------------------------
(* assign_role (new a role) and revoke_role (new = None).                  *)

\* An early return, a refusal or an error ends the rerun with nothing done.
EndChange(s) ==
    /\ roleTx' = [roleTx EXCEPT ![s] = None]
    /\ rerun' = [rerun EXCEPT ![s] = None]

Losing(old, new) == old = "admin" /\ new # "admin"

ReadOldRole(s, target, new) ==
    LET old == roleTable[target]
        self == target = Owner[s] /\ (new = None \/ Losing(old, new))
    IN
    /\ May(s, "manage_roles")
    /\ roleTx[s] = None
    /\ saving[s] = None
    /\ IF old = new \/ self THEN EndChange(s)
       ELSE /\ roleTx' = [roleTx EXCEPT ![s] =
                [target |-> target, old |-> old, new |-> new, locks |-> {},
                 pc |-> IF Losing(old, new) THEN "lock" ELSE "write"]]
            /\ UNCHANGED rerun
    /\ UNCHANGED <<roleTable, authEnv, marked, auditRows, settingState, accessMoves>>

TxAt(s, pc) == roleTx[s] # None /\ roleTx[s].pc = pc

LockedByOthers(s) ==
    UNION {roleTx[o].locks : o \in {o \in Sessions \ {s} : roleTx[o] # None}}

CountAdminsUnlocked(s) ==
    /\ TxAt(s, "lock")
    /\ IF authEnv.admins = {} /\ Cardinality(TableAdmins) <= 1 THEN EndChange(s)
       ELSE /\ roleTx' = [roleTx EXCEPT ![s].pc = "write"]
            /\ UNCHANGED rerun
    /\ UNCHANGED <<roleTable, authEnv, marked, auditRows, settingState, accessMoves>>

\* list_user_role_admins_for_update waits for the rows, then counts those
\* that are administrators' now; _guard_last_admin.
LockAdmins(s) ==
    /\ TxAt(s, "lock")
    /\ TableAdmins \cap LockedByOthers(s) = {}
    /\ IF authEnv.admins = {} /\ Cardinality(TableAdmins) <= 1 THEN EndChange(s)
       ELSE /\ roleTx' = [roleTx EXCEPT ![s].pc = "write", ![s].locks = TableAdmins]
            /\ UNCHANGED rerun
    /\ UNCHANGED <<roleTable, authEnv, marked, auditRows, settingState, accessMoves>>

\* The row as first read decides between UPDATE and INSERT; an UPDATE that
\* finds no row is an error, a DELETE that finds none is not.
WriteRole(s) ==
    LET tx == roleTx[s] IN
    /\ TxAt(s, "write")
    /\ tx.target \notin LockedByOthers(s)
    /\ IF tx.old # None /\ tx.new # None /\ roleTable[tx.target] = None
       THEN EndChange(s) /\ UNCHANGED roleTable
       ELSE /\ roleTable' = [roleTable EXCEPT ![tx.target] = tx.new]
            /\ roleTx' = [roleTx EXCEPT ![s].pc = "audit", ![s].locks = {}]
            /\ UNCHANGED rerun
    /\ UNCHANGED <<authEnv, marked, auditRows, settingState, accessMoves>>

AuditRoleChange(s) ==
    LET tx == roleTx[s] IN
    /\ TxAt(s, "audit")
    /\ AuditRow([event |-> "role_changed", email |-> Owner[s], target |-> tx.target,
                 old |-> tx.old, new |-> tx.new])
    /\ EndChange(s)
    /\ UNCHANGED <<roleTable, authEnv, marked, settingState, accessMoves>>

-----------------------------------------------------------------------------
(* update_config_value: compared with the process environment, stored,     *)
(* and set in the environment after the commit.                            *)

StoreSetting(s, value) ==
    /\ May(s, "modify_config")
    /\ roleTx[s] = None
    /\ saving[s] = None
    /\ IF value = liveSetting
       THEN rerun' = [rerun EXCEPT ![s] = None] /\ UNCHANGED <<override, saving>>
       ELSE /\ override' = value
            /\ saving' = [saving EXCEPT ![s] = value]
            /\ UNCHANGED rerun
    /\ UNCHANGED <<roleTable, authEnv, marked, roleTx, auditRows, liveSetting,
                   accessMoves>>

SetEnvironment(s) ==
    /\ saving[s] # None
    /\ liveSetting' = saving[s]
    /\ saving' = [saving EXCEPT ![s] = None]
    /\ AuditRow([event |-> "config_changed", email |-> Owner[s], new |-> saving[s]])
    /\ rerun' = [rerun EXCEPT ![s] = None]
    /\ UNCHANGED <<roleTable, authEnv, marked, roleTx, override, accessMoves>>

-----------------------------------------------------------------------------
AccessInit ==
    /\ roleTable = SeededRoles
    /\ authEnv = CHOOSE e \in Environments : e.admins = {} /\ e.production
    /\ rerun = [s \in Sessions |-> None]
    /\ marked = [s \in Sessions |-> {}]
    /\ roleTx = [s \in Sessions |-> None]
    /\ auditRows = EmptyBag
    /\ override = None
    /\ liveSetting = CHOOSE v \in SettingValues : TRUE
    /\ saving = [s \in Sessions |-> None]
    /\ accessMoves = 0

SessionStep(s) ==
    \/ \E readable \in BOOLEAN : Rerun(s, readable)
    \/ \E c \in {"run_scan", "manage_roles"} : DenyCapability(s, c)
    \/ \E p \in People, new \in Roles \cup {None} : ReadOldRole(s, p, new)
    \/ LockAdmins(s)
    \/ WriteRole(s)
    \/ AuditRoleChange(s)
    \/ \E v \in SettingValues : StoreSetting(s, v)
    \/ SetEnvironment(s)

AccessNext ==
    \/ \E s \in Sessions : SessionStep(s)
    \/ \E e \in Environments : Redeploy(e)

AccessSpec == AccessInit /\ [][AccessNext]_AccessVars

-----------------------------------------------------------------------------
AccessTypeOK ==
    /\ roleTable \in UserRoles
    /\ BagToSet(auditRows) = AuditLog
    /\ authEnv \in Environments
    /\ override \in AppConfig
    /\ liveSetting \in SettingValues
    /\ \A s \in Sessions : rerun[s] # None =>
            rerun[s].role \in Roles \cup {"denied"}
    /\ \A s \in Sessions : roleTx[s] # None =>
            /\ roleTx[s].pc \in {"lock", "write", "audit"}
            /\ rerun[s].role = "admin"

\* While the role table cannot be read nobody is let in, and nobody has a
\* role, that the table as it stands would have refused: a demoted or
\* revoked user gains nothing from an outage (require_authorized_user).
OutageNeverElevates ==
    \A s \in Sessions : rerun[s] # None /\ ~rerun[s].readable =>
        Rank(rerun[s].role) <= Rank(rerun[s].full)

Overtaken(s) == TxAt(s, "write") /\ roleTx[s].old # roleTable[roleTx[s].target]

\* Two administrators who demote or revoke each other at the same time do
\* not leave the deployment without one (_guard_last_admin under the row
\* locks).  Excepted is a change whose target has been given another role
\* since the change read it: that one was never guarded.
AdminRemains ==
    [][ EffectiveAdmins # {} /\ authEnv' = authEnv
          => \/ EffectiveAdmins' # {}
             \/ \E s \in Sessions : Overtaken(s) /\ ~TxAt(s, "write")' ]_AccessVars
=============================================================================
