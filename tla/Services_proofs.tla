--------------------------- MODULE Services_proofs ---------------------------
(***************************************************************************)
(* Machine-checked theorems about five of the services that MCServices     *)
(* composes, and about all of them side by side.  Access, for any number   *)
(* of sessions, people, deployments and settings: an outage of the role    *)
(* table elevates nobody, and concurrent administrators leave the          *)
(* deployment with one.  AgentVerdicts, for any number of calls, models    *)
(* and candle contents, and any digest in the names of the files: a        *)
(* verdict that is served stands on the evidence of the request.           *)
(* IpoCitations, for any papers, drafts and prices: what is approved was   *)
(* found on the pages it cites.  RunHistory, for any frames, candles and   *)
(* universe files: what the pages tell of the runs is so, scores are       *)
(* percentages and the panels of a dashboard agree.  Signals, for any      *)
(* candles and parameters: no finding is taken back.                       *)
(***************************************************************************)
EXTENDS MCServices, IpoScoring_proofs, IpoIntake_proofs, FiniteSetTheorems,
        SequenceTheorems, TLAPS

-----------------------------------------------------------------------------
(* Access: the inductive invariant.                                        *)

AnyRole == Roles \cup {"denied"}
Setting == SettingValues \cup {None}
Change  == [target : People, old : Roles \cup {None}, new : Roles \cup {None},
            locks : SUBSET People, pc : {"lock", "write", "audit"}]

Decision == [role : AnyRole, readable : BOOLEAN, full : AnyRole]

StateTypes ==
    /\ roleTable \in [People -> Roles \cup {None}]
    /\ authEnv \in Environments
    /\ rerun \in [Sessions -> Decision \cup {None}]
    /\ roleTx \in [Sessions -> Change \cup {None}]
    /\ saving \in [Sessions -> Setting]
    /\ override \in Setting /\ liveSetting \in SettingValues
    /\ BagToSet(auditRows) = AuditLog

\* A role change belongs to a rerun of an administrator that is doing nothing else.
ChangesByAdmins ==
    \A s \in Sessions : roleTx[s] # None =>
        rerun[s] # None /\ rerun[s].role = "admin" /\ saving[s] = None

\* A change that takes a role of administrator away, past its guard, holds the rows of
\* all that were administrators then: they still are, and more than one.
GuardedByLocks ==
    \A s \in Sessions :
        TxAt(s, "write") /\ Losing(roleTx[s].old, roleTx[s].new) =>
            /\ roleTx[s].locks \subseteq TableAdmins
            /\ authEnv.admins # {} \/ \E a, b \in roleTx[s].locks : a # b

AccessInv ==
    StateTypes /\ ChangesByAdmins /\ GuardedByLocks /\ OutageNeverElevates

-----------------------------------------------------------------------------
(* Roles and their ranks.                                                  *)

\* The ranks of ROLE_RANK, with 0 for somebody who is not let in.
LEMMA RankValues ==
  /\ Rank("denied") = 0 /\ Rank("viewer") = 1 /\ Rank("analyst") = 2 /\ Rank("admin") = 3
  BY Zenon DEF Rank

\* Being the lowest of the roles is less than any of them, and more than being refused.
LEMMA RankBounds ==
  /\ \A r \in AnyRole : Rank(r) \in 0 .. 3
  /\ \A r \in Roles : Rank(r) >= 1
  BY RankValues DEF AnyRole, Roles

\* Nobody is let in who is not authorized.
LEMMA RefusedRole ==
  ASSUME NEW email, NEW row, NEW readable,
         ~IsEmailAuthorized(email, readable /\ row # None)
  PROVE  GrantedRole(email, row, readable) = "denied"
  BY Zenon DEF GrantedRole

\* An administrator of the environment is one whatever the table says.
LEMMA EnvAdminRole ==
  ASSUME NEW email \in authEnv.admins, NEW row, NEW readable
  PROVE  GrantedRole(email, row, readable) = "admin"
<1>1. IsEmailAuthorized(email, readable /\ row # None)
  BY DEF IsEmailAuthorized
<1>2. ResolveRole(email, row) = "admin"
  BY Zenon DEF ResolveRole
<1> QED BY Zenon, <1>1, <1>2 DEF GrantedRole

\* Without the table somebody who is let in has the lowest role.
LEMMA OutageRole ==
  ASSUME NEW email, email \notin authEnv.admins, NEW row,
         IsEmailAuthorized(email, FALSE)
  PROVE  GrantedRole(email, row, FALSE) = "viewer"
<1>1. IsEmailAuthorized(email, FALSE /\ row # None)
  BY DEF IsEmailAuthorized
<1> QED BY Zenon, <1>1 DEF GrantedRole

\* With the table somebody who is let in has the role of the row, or the default.
LEMMA TableRole ==
  ASSUME NEW email, email \notin authEnv.admins, NEW row \in Roles \cup {None},
         IsEmailAuthorized(email, row # None)
  PROVE  GrantedRole(email, row, TRUE) \in Roles
<1>1. IsEmailAuthorized(email, TRUE /\ row # None)
  BY DEF IsEmailAuthorized
<1>2. GrantedRole(email, row, TRUE) = ResolveRole(email, row)
  BY Zenon, <1>1 DEF GrantedRole
<1>3. CASE row # None
  <2>1. ResolveRole(email, row) = row
    BY Zenon, <1>3 DEF ResolveRole
  <2> QED BY <1>2, <1>3, <2>1
<1>4. CASE row = None
  <2>1. ResolveRole(email, row) = "analyst"
    BY Zenon, <1>4 DEF ResolveRole
  <2> QED BY <1>2, <2>1 DEF Roles
<1> QED BY <1>3, <1>4

\* What a role is at most.
LEMMA RankOrder ==
  ASSUME NEW full \in AnyRole, NEW role,
         role = full \/ role = "denied" \/ (role = "viewer" /\ full \in Roles)
  PROVE  role \in AnyRole /\ Rank(role) <= Rank(full)
  BY RankValues, RankBounds DEF AnyRole, Roles

\* The gate of a rerun grants a role or refuses, and without the table it grants no more
\* than with it.
LEMMA OutageGrantsLess ==
  ASSUME NEW email, NEW row \in Roles \cup {None}, NEW readable \in BOOLEAN,
         NEW role, role = GrantedRole(email, row, readable),
         NEW full, full = GrantedRole(email, row, TRUE)
  PROVE  role \in AnyRole /\ full \in AnyRole /\ Rank(role) <= Rank(full)
<1>1. full \in AnyRole
  <2>1. CASE email \in authEnv.admins
    BY Zenon, <2>1, EnvAdminRole DEF AnyRole, Roles
  <2>2. CASE email \notin authEnv.admins /\ IsEmailAuthorized(email, row # None)
    BY Zenon, <2>2, TableRole DEF AnyRole
  <2>3. CASE ~IsEmailAuthorized(email, row # None)
    <3>1. ~IsEmailAuthorized(email, TRUE /\ row # None)
      BY <2>3 DEF IsEmailAuthorized
    <3> QED BY Zenon, <3>1, RefusedRole DEF AnyRole
  <2> QED BY Zenon, <2>1, <2>2, <2>3
<1>2. role = full \/ role = "denied" \/ (role = "viewer" /\ full \in Roles)
  <2>1. CASE email \in authEnv.admins
    BY Zenon, <2>1, EnvAdminRole
  <2>2. CASE readable = TRUE
    BY Zenon, <2>2
  <2>3. CASE email \notin authEnv.admins /\ readable = FALSE /\ IsEmailAuthorized(email, FALSE)
    <3>1. role = "viewer"
      BY Zenon, <2>3, OutageRole
    <3>2. IsEmailAuthorized(email, row # None)
      BY <2>3 DEF IsEmailAuthorized
    <3> QED BY Zenon, <2>3, <3>1, <3>2, TableRole
  <2>4. CASE readable = FALSE /\ ~IsEmailAuthorized(email, FALSE)
    <3>1. ~IsEmailAuthorized(email, readable /\ row # None)
      BY <2>4 DEF IsEmailAuthorized
    <3> QED BY Zenon, <3>1, RefusedRole
  <2> QED BY Zenon, <2>1, <2>2, <2>3, <2>4
<1> QED BY Zenon, <1>1, <1>2, RankOrder

\* Only administrators may change roles.
LEMMA OnlyAdminsManage ==
  ASSUME StateTypes, NEW s \in Sessions, May(s, "manage_roles")
  PROVE  rerun[s] # None /\ rerun[s].role = "admin"
<1>1. rerun[s] # None /\ rerun[s].role \in AnyRole
  BY DEF StateTypes, May, InRerun, Decision
<1>2. Rank(rerun[s].role) >= Rank("admin")
  BY DEF May, RoleHasCapability, MinRole
<1> QED BY <1>1, <1>2, RankValues DEF AnyRole, Roles

\* Administrators are denied nothing.
LEMMA AdminsMay ==
  ASSUME NEW s \in Sessions, rerun[s] # None, rerun[s].role = "admin",
         NEW c \in {"run_scan", "manage_roles"}
  PROVE  May(s, c)
<1>1. Rank(MinRole[c]) \in 0 .. 3
  BY RankBounds DEF MinRole, AnyRole, Roles
<1> QED BY <1>1, RankValues DEF May, InRerun, RoleHasCapability

-----------------------------------------------------------------------------
(* Audit rows.                                                             *)

Events == {"login_success", "login_denied", "role_denied", "role_changed", "config_changed"}

\* Another row joins those of the log.
LEMMA RowsAdd ==
  ASSUME NEW B, NEW row
  PROVE  BagToSet(B (+) SetToBag({row})) = BagToSet(B) \cup {row}
  BY DEF BagToSet, SetToBag, (+)

\* A recorded event of a session belongs to the audit log, whether or not its row could
\* be written.
LEMMA LogKeeps ==
  ASSUME BagToSet(auditRows) = AuditLog, NEW s \in Sessions, NEW row,
         row.event \in Events, row.email = Owner[s],
         auditRows' \in {auditRows, auditRows (+) SetToBag({row})}
  PROVE  BagToSet(auditRows') = AuditLog'
<1>1. CASE auditRows' = auditRows
  BY <1>1 DEF AuditLog
<1>2. CASE auditRows' = auditRows (+) SetToBag({row})
  <2>1. BagToSet(auditRows') = BagToSet(auditRows) \cup {row}
    BY <1>2, RowsAdd
  <2> QED BY <2>1 DEF AuditLog, Events
<1> QED BY <1>1, <1>2

\* An event recorded at most once in a session leaves the log as it was or adds its row.
LEMMA OnceIsARow ==
  ASSUME NEW s, NEW row, AuditOnce(s, row)
  PROVE  auditRows' \in {auditRows, auditRows (+) SetToBag({row})}
  BY DEF AuditOnce

-----------------------------------------------------------------------------
(* Every step keeps the invariant.                                         *)

\* The gate: the session is doing nothing else.
LEMMA RerunKeeps ==
  ASSUME AccessInv, NEW s \in Sessions, NEW readable \in BOOLEAN, Rerun(s, readable)
  PROVE  AccessInv'
<1> DEFINE row  == roleTable[Owner[s]]
           role == GrantedRole(Owner[s], row, readable)
           full == GrantedRole(Owner[s], row, TRUE)
           now  == [role |-> role, readable |-> readable, full |-> full]
           event == IF role = "denied" THEN "login_denied" ELSE "login_success"
           entry == [event |-> event, email |-> Owner[s]]
<1>1. row \in Roles \cup {None}
  BY AccessAssumption DEF AccessInv, StateTypes
<1>2. role \in AnyRole /\ full \in AnyRole /\ Rank(role) <= Rank(full)
  BY Zenon, <1>1, OutageGrantsLess
<1>3. rerun' = [rerun EXCEPT ![s] = now] /\ AuditOnce(s, entry) /\ roleTx[s] = None
  BY Zenon DEF Rerun
<1>4. /\ UNCHANGED <<roleTable, authEnv, roleTx, override, saving>>
      /\ liveSetting' \in {liveSetting, override} /\ (override = None => liveSetting' = liveSetting)
  BY DEF Rerun
<1>5. entry.event \in Events /\ entry.email = Owner[s]
  BY Zenon DEF Events
<1> HIDE DEF entry, event
<1>6. BagToSet(auditRows') = AuditLog'
  <2>1. auditRows' \in {auditRows, auditRows (+) SetToBag({entry})}
    BY <1>3, OnceIsARow
  <2> QED BY <2>1, <1>5, LogKeeps DEF AccessInv, StateTypes
<1>7. now \in Decision /\ now.role = role /\ now.full = full /\ now.readable = readable
  BY Zenon, <1>2 DEF Decision
<1>8. Rank(now.role) <= Rank(now.full)
  BY Zenon, <1>2, <1>7
<1> HIDE DEF now
<1>9. StateTypes'
  <2>1. rerun' \in [Sessions -> Decision \cup {None}]
    BY <1>3, <1>7 DEF AccessInv, StateTypes
  <2>2. liveSetting' \in SettingValues
    BY <1>4 DEF AccessInv, StateTypes, Setting
  <2> QED BY <2>1, <2>2, <1>4, <1>6 DEF AccessInv, StateTypes
<1>10. ChangesByAdmins'
  BY <1>3, <1>4 DEF AccessInv, StateTypes, ChangesByAdmins
<1>11. GuardedByLocks'
  BY <1>4 DEF AccessInv, GuardedByLocks, TxAt, TableAdmins
<1>12. OutageNeverElevates'
  <2>1. ASSUME NEW o \in Sessions, rerun'[o] # None, ~rerun'[o].readable
        PROVE  Rank(rerun'[o].role) <= Rank(rerun'[o].full)
    <3>1. CASE o = s
      BY <3>1, <1>3, <1>8 DEF AccessInv, StateTypes
    <3>2. CASE o # s
      BY <2>1, <3>2, <1>3 DEF AccessInv, StateTypes, OutageNeverElevates
    <3> QED BY <3>1, <3>2
  <2> QED BY <2>1 DEF OutageNeverElevates
<1> QED BY <1>9, <1>10, <1>11, <1>12 DEF AccessInv

\* A session that loses its rerun, and with it what the rerun was doing, leaves the others'.
LEMMA RerunEnds ==
  ASSUME AccessInv, NEW s \in Sessions, rerun' = [rerun EXCEPT ![s] = None],
         \/ roleTx' = [roleTx EXCEPT ![s] = None]
         \/ roleTx[s] = None /\ UNCHANGED roleTx,
         UNCHANGED <<roleTable, authEnv>>,
         \/ UNCHANGED saving
         \/ saving' = [saving EXCEPT ![s] = None]
  PROVE  /\ rerun' \in [Sessions -> Decision \cup {None}]
         /\ roleTx' \in [Sessions -> Change \cup {None}]
         /\ saving' \in [Sessions -> Setting]
         /\ ChangesByAdmins' /\ GuardedByLocks' /\ OutageNeverElevates'
<1>1. \A o \in Sessions : roleTx'[o] = IF o = s THEN None ELSE roleTx[o]
  BY DEF AccessInv, StateTypes
<1>2. \A o \in Sessions : rerun'[o] = IF o = s THEN None ELSE rerun[o]
  BY DEF AccessInv, StateTypes
<1>3. /\ rerun' \in [Sessions -> Decision \cup {None}]
      /\ roleTx' \in [Sessions -> Change \cup {None}]
      /\ saving' \in [Sessions -> Setting]
  BY DEF AccessInv, StateTypes, Setting
<1>4. \A o \in Sessions \ {s} : saving'[o] = saving[o]
  BY DEF AccessInv, StateTypes
<1>5. ChangesByAdmins'
  BY <1>1, <1>2, <1>4 DEF AccessInv, ChangesByAdmins
<1>6. GuardedByLocks'
  BY <1>1 DEF AccessInv, GuardedByLocks, TxAt, TableAdmins
<1>7. OutageNeverElevates'
  BY <1>2 DEF AccessInv, OutageNeverElevates
<1> QED BY <1>3, <1>5, <1>6, <1>7

\* Only a session without a role change, for its role is not admin, is denied a capability.
LEMMA DenyKeeps ==
  ASSUME AccessInv, NEW s \in Sessions, NEW c \in {"run_scan", "manage_roles"},
         DenyCapability(s, c)
  PROVE  AccessInv'
<1> DEFINE entry == [event |-> "role_denied", email |-> Owner[s], capability |-> c]
<1>1. roleTx[s] = None
  BY AdminsMay DEF AccessInv, ChangesByAdmins, DenyCapability
<1>2. entry.event \in Events /\ entry.email = Owner[s] /\ AuditOnce(s, entry)
  BY DEF Events, DenyCapability
<1> HIDE DEF entry
<1>3. BagToSet(auditRows') = AuditLog'
  <2>1. auditRows' \in {auditRows, auditRows (+) SetToBag({entry})}
    BY <1>2, OnceIsARow
  <2> QED BY <2>1, <1>2, LogKeeps DEF AccessInv, StateTypes
<1>4. /\ UNCHANGED <<roleTable, authEnv, roleTx, override, liveSetting, saving>>
      /\ rerun' = [rerun EXCEPT ![s] = None]
  BY DEF DenyCapability, settingState
<1> QED BY <1>1, <1>3, <1>4, RerunEnds DEF AccessInv, StateTypes

\* A change that goes on at its session keeps the invariant, if its record is right.
LEMMA ChangeKeeps ==
  ASSUME AccessInv, NEW s \in Sessions, NEW tx \in Change,
         roleTx' = [roleTx EXCEPT ![s] = tx],
         rerun[s] # None, rerun[s].role = "admin", saving[s] = None,
         UNCHANGED <<roleTable, authEnv, rerun, auditRows, override, liveSetting, saving>>,
         tx.pc = "write" /\ Losing(tx.old, tx.new) =>
            /\ tx.locks \subseteq TableAdmins
            /\ authEnv.admins # {} \/ \E a, b \in tx.locks : a # b
  PROVE  AccessInv'
<1>1. \A o \in Sessions : roleTx'[o] = IF o = s THEN tx ELSE roleTx[o]
  BY DEF AccessInv, StateTypes
<1>2. StateTypes'
  BY DEF AccessInv, StateTypes, AuditLog
<1>3. ChangesByAdmins'
  BY <1>1 DEF AccessInv, ChangesByAdmins
<1>4. GuardedByLocks'
  BY <1>1 DEF AccessInv, GuardedByLocks, TxAt, TableAdmins
<1>5. OutageNeverElevates'
  BY DEF AccessInv, OutageNeverElevates
<1> QED BY <1>2, <1>3, <1>4, <1>5 DEF AccessInv

\* A change that ends without a row written.
LEMMA EndKeeps ==
  ASSUME AccessInv, NEW s \in Sessions, EndChange(s),
         UNCHANGED <<roleTable, authEnv, auditRows, override, liveSetting, saving>>
  PROVE  AccessInv'
  BY RerunEnds DEF EndChange, AccessInv, StateTypes, AuditLog

\* The first read of the role to be changed.
LEMMA ReadKeeps ==
  ASSUME AccessInv, NEW s \in Sessions, NEW p \in People, NEW new \in Roles \cup {None},
         ReadOldRole(s, p, new)
  PROVE  AccessInv'
<1> DEFINE old == roleTable[p]
           tx  == [target |-> p, old |-> old, new |-> new, locks |-> {},
                   pc |-> IF Losing(old, new) THEN "lock" ELSE "write"]
<1>1. UNCHANGED <<roleTable, authEnv, auditRows, override, liveSetting, saving>>
  BY DEF ReadOldRole, settingState
<1>2. CASE EndChange(s)
  BY <1>1, <1>2, EndKeeps
<1>3. CASE roleTx' = [roleTx EXCEPT ![s] = tx] /\ UNCHANGED rerun
  <2>1. rerun[s] # None /\ rerun[s].role = "admin" /\ saving[s] = None
    BY OnlyAdminsManage DEF AccessInv, ReadOldRole
  <2>2. old \in Roles \cup {None}
    BY DEF AccessInv, StateTypes
  <2>3. tx \in Change /\ ~(tx.pc = "write" /\ Losing(tx.old, tx.new))
    BY <2>2 DEF Change
  <2> HIDE DEF tx
  <2> QED BY <1>1, <1>3, <2>1, <2>3, ChangeKeeps
<1> QED BY <1>2, <1>3 DEF ReadOldRole

\* A set of people with more than one member has two that differ.
LEMMA TwoOfMany ==
  ASSUME NEW S \in SUBSET People, ~(Cardinality(S) <= 1)
  PROVE  \E a, b \in S : a # b
<1>1. SUFFICES ASSUME \A a, b \in S : a = b PROVE FALSE
  OBVIOUS
<1>2. CASE S = {}
  BY <1>2, FS_EmptySet
<1>3. ASSUME NEW a \in S PROVE FALSE
  <2>1. S = {a}
    BY <1>1
  <2>2. Cardinality({a}) = 1
    BY FS_Singleton
  <2> QED BY <2>1, <2>2
<1> QED BY <1>2, <1>3

\* The guard of the last administrator, with the rows of all of them locked.
LEMMA LockKeeps ==
  ASSUME AccessInv, NEW s \in Sessions, LockAdmins(s)
  PROVE  AccessInv'
<1> DEFINE tx == [roleTx[s] EXCEPT !.pc = "write", !.locks = TableAdmins]
<1>1. UNCHANGED <<roleTable, authEnv, auditRows, override, liveSetting, saving>>
  BY DEF LockAdmins, settingState
<1>2. roleTx[s] # None /\ roleTx[s] \in Change
  BY DEF LockAdmins, TxAt, AccessInv, StateTypes
<1>3. CASE EndChange(s)
  BY <1>1, <1>3, EndKeeps
<1>4. CASE /\ ~(authEnv.admins = {} /\ Cardinality(TableAdmins) <= 1)
           /\ roleTx' = [roleTx EXCEPT ![s].pc = "write", ![s].locks = TableAdmins]
           /\ UNCHANGED rerun
  <2>1. roleTx' = [roleTx EXCEPT ![s] = tx]
    BY <1>4, <1>2 DEF AccessInv, StateTypes
  <2>2. TableAdmins \in SUBSET People
    BY DEF TableAdmins
  <2>3. tx \in Change /\ tx.locks = TableAdmins
    BY <1>2, <2>2 DEF Change
  <2>4. authEnv.admins # {} \/ \E a, b \in TableAdmins : a # b
    BY <1>4, <2>2, TwoOfMany
  <2>5. rerun[s] # None /\ rerun[s].role = "admin" /\ saving[s] = None
    BY <1>2 DEF AccessInv, ChangesByAdmins
  <2> HIDE DEF tx
  <2> QED BY <1>1, <1>4, <2>1, <2>3, <2>4, <2>5, ChangeKeeps
<1> QED BY <1>3, <1>4 DEF LockAdmins

\* A written role is on a row nobody else has locked.
LEMMA WriteKeeps ==
  ASSUME AccessInv, NEW s \in Sessions, WriteRole(s)
  PROVE  AccessInv'
<1> DEFINE tx == [roleTx[s] EXCEPT !.pc = "audit", !.locks = {}]
           target == roleTx[s].target
<1>1. UNCHANGED <<authEnv, auditRows, override, liveSetting, saving>>
  BY DEF WriteRole, settingState
<1>2. /\ roleTx[s] # None /\ roleTx[s] \in Change /\ target \notin LockedByOthers(s)
  BY DEF WriteRole, TxAt, AccessInv, StateTypes
<1>3. CASE EndChange(s) /\ UNCHANGED roleTable
  BY <1>1, <1>3, EndKeeps
<1>4. CASE /\ roleTable' = [roleTable EXCEPT ![target] = roleTx[s].new]
           /\ roleTx' = [roleTx EXCEPT ![s].pc = "audit", ![s].locks = {}]
           /\ UNCHANGED rerun
  <2>1. roleTx' = [roleTx EXCEPT ![s] = tx]
    BY <1>4, <1>2 DEF AccessInv, StateTypes
  <2>2. tx \in Change /\ tx.pc = "audit" /\ target \in People
    BY <1>2 DEF Change
  <2> HIDE DEF tx
  <2>3. \A o \in Sessions : roleTx'[o] = IF o = s THEN tx ELSE roleTx[o]
    BY <2>1 DEF AccessInv, StateTypes
  <2>4. StateTypes'
    <3>1. roleTable' \in [People -> Roles \cup {None}]
      BY <1>2, <1>4 DEF AccessInv, StateTypes, Change
    <3>2. roleTx' \in [Sessions -> Change \cup {None}] /\ rerun' = rerun
      BY Zenon, <1>4, <2>1, <2>2 DEF AccessInv, StateTypes
    <3> QED BY <1>1, <3>1, <3>2 DEF AccessInv, StateTypes, AuditLog
  <2>5. ChangesByAdmins'
    BY <1>1, <1>2, <1>4, <2>3 DEF AccessInv, ChangesByAdmins
  <2>6. GuardedByLocks'
    <3>1. ASSUME NEW o \in Sessions, TxAt(o, "write")', Losing(roleTx'[o].old, roleTx'[o].new)
          PROVE  /\ roleTx'[o].locks \subseteq TableAdmins'
                 /\ authEnv.admins # {} \/ \E a, b \in roleTx'[o].locks : a # b
      <4>1. o # s /\ roleTx'[o] = roleTx[o] /\ roleTx[o] # None
        BY <3>1, <2>2, <2>3 DEF TxAt
      <4>2. /\ roleTx[o].locks \subseteq TableAdmins
            /\ authEnv.admins # {} \/ \E a, b \in roleTx[o].locks : a # b
        BY <3>1, <4>1 DEF TxAt, AccessInv, GuardedByLocks
      <4>3. target \notin roleTx[o].locks
        BY <1>2, <4>1 DEF LockedByOthers
      <4>4. roleTx[o].locks \subseteq TableAdmins'
        BY <1>4, <4>2, <4>3 DEF TableAdmins, AccessInv, StateTypes
      <4> QED BY <4>1, <4>2, <4>4
    <3> QED BY <3>1, <1>1 DEF GuardedByLocks
  <2>7. OutageNeverElevates'
    BY <1>4 DEF AccessInv, OutageNeverElevates
  <2> QED BY <2>4, <2>5, <2>6, <2>7 DEF AccessInv
<1> QED BY <1>3, <1>4 DEF WriteRole

\* The audit row of a role change, in a transaction of its own.
LEMMA AuditKeeps ==
  ASSUME AccessInv, NEW s \in Sessions, AuditRoleChange(s)
  PROVE  AccessInv'
<1> DEFINE entry == [event |-> "role_changed", email |-> Owner[s], target |-> roleTx[s].target,
                     old |-> roleTx[s].old, new |-> roleTx[s].new]
<1>1. entry.event \in Events /\ entry.email = Owner[s] /\ AuditRow(entry)
  BY DEF Events, AuditRoleChange
<1> HIDE DEF entry
<1>2. BagToSet(auditRows') = AuditLog'
  BY <1>1, LogKeeps DEF AccessInv, StateTypes, AuditRow
<1>3. EndChange(s) /\ UNCHANGED <<roleTable, authEnv, override, liveSetting, saving>>
  BY DEF AuditRoleChange, settingState
<1> QED BY <1>2, <1>3, RerunEnds DEF EndChange, AccessInv, StateTypes

\* A setting is stored by a session with no role change under way.
LEMMA StoreKeeps ==
  ASSUME AccessInv, NEW s \in Sessions, NEW v \in SettingValues, StoreSetting(s, v)
  PROVE  AccessInv'
<1>1. UNCHANGED <<roleTable, authEnv, roleTx, auditRows, liveSetting>> /\ roleTx[s] = None
  BY DEF StoreSetting
<1>2. CASE rerun' = [rerun EXCEPT ![s] = None] /\ UNCHANGED <<override, saving>>
  BY <1>1, <1>2, RerunEnds DEF AccessInv, StateTypes, AuditLog
<1>3. CASE override' = v /\ saving' = [saving EXCEPT ![s] = v] /\ UNCHANGED rerun
  <2>1. StateTypes'
    BY <1>1, <1>3 DEF AccessInv, StateTypes, AuditLog, Setting
  <2>2. ChangesByAdmins'
    BY <1>1, <1>3 DEF AccessInv, StateTypes, ChangesByAdmins
  <2>3. GuardedByLocks' /\ OutageNeverElevates'
    BY <1>1, <1>3 DEF AccessInv, GuardedByLocks, OutageNeverElevates, TxAt, TableAdmins
  <2> QED BY <2>1, <2>2, <2>3 DEF AccessInv
<1> QED BY <1>2, <1>3 DEF StoreSetting

\* A stored setting reaches the environment, and its audit row the log.
LEMMA SetKeeps ==
  ASSUME AccessInv, NEW s \in Sessions, SetEnvironment(s)
  PROVE  AccessInv'
<1> DEFINE entry == [event |-> "config_changed", email |-> Owner[s], new |-> saving[s]]
<1>1. entry.event \in Events /\ entry.email = Owner[s] /\ AuditRow(entry)
  BY DEF Events, SetEnvironment
<1> HIDE DEF entry
<1>2. BagToSet(auditRows') = AuditLog'
  BY <1>1, LogKeeps DEF AccessInv, StateTypes, AuditRow
<1>3. /\ UNCHANGED <<roleTable, authEnv, roleTx, override>>
      /\ rerun' = [rerun EXCEPT ![s] = None] /\ saving' = [saving EXCEPT ![s] = None]
      /\ liveSetting' = saving[s] /\ saving[s] # None
  BY DEF SetEnvironment
<1>4. roleTx[s] = None /\ saving[s] \in SettingValues
  BY <1>3 DEF AccessInv, StateTypes, ChangesByAdmins, Setting
<1> QED BY <1>2, <1>3, <1>4, RerunEnds DEF AccessInv, StateTypes

\* A new deployment starts with fresh sessions.
LEMMA RedeployKeeps ==
  ASSUME AccessInv, NEW e \in Environments, Redeploy(e)
  PROVE  AccessInv'
  BY DEF Redeploy, AccessInv, StateTypes, ChangesByAdmins, GuardedByLocks, OutageNeverElevates,
         TxAt, AuditLog, Setting

-----------------------------------------------------------------------------
(* The theorems.                                                           *)

\* A deployment begins with nobody at work.
LEMMA AccessStarts == AccessInit => AccessInv
<1> SUFFICES ASSUME AccessInit PROVE AccessInv
  OBVIOUS
<1>1. \E e \in Environments : e.admins = {} /\ e.production
  BY AccessAssumption
<1>2. \E v \in SettingValues : TRUE
  BY AccessAssumption
<1>3. authEnv \in Environments /\ liveSetting \in SettingValues
  BY <1>1, <1>2 DEF AccessInit
<1>4. BagToSet(auditRows) = {} /\ AuditLog = {}
  BY DEF AccessInit, BagToSet, EmptyBag, SetToBag, AuditLog
<1>5. StateTypes
  BY <1>3, <1>4, AccessAssumption DEF AccessInit, StateTypes, Setting
<1> QED
  BY <1>5 DEF AccessInit, AccessInv, ChangesByAdmins, GuardedByLocks, OutageNeverElevates, TxAt

\* The step lemmas together.
LEMMA AccessStep == AccessInv /\ [AccessNext]_AccessVars => AccessInv'
<1> SUFFICES ASSUME AccessInv, [AccessNext]_AccessVars PROVE AccessInv'
  OBVIOUS
<1>1. ASSUME NEW s \in Sessions, SessionStep(s) PROVE AccessInv'
  BY <1>1, RerunKeeps, DenyKeeps, ReadKeeps, LockKeeps, WriteKeeps, AuditKeeps, StoreKeeps,
     SetKeeps DEF SessionStep
<1>2. ASSUME NEW e \in Environments, Redeploy(e) PROVE AccessInv'
  BY <1>2, RedeployKeeps
<1>3. CASE UNCHANGED AccessVars
  BY <1>3 DEF AccessVars, accessChange, settingState, AccessInv, StateTypes, AuditLog,
     ChangesByAdmins, GuardedByLocks, TxAt, TableAdmins, OutageNeverElevates
<1> QED BY <1>1, <1>2, <1>3 DEF AccessNext

\* Reruns, role changes and settings of any number of sessions keep the types, the link of a
\* change to its administrator, and the promise of the locks that guard the last one.
THEOREM AccessInvariant == AccessSpec => []AccessInv
  BY AccessStarts, AccessStep, PTL DEF AccessSpec

\* In every reachable state roles, environments, settings and audit rows are what the tables
\* may hold, and only a session whose rerun is an administrator's changes a role.
THEOREM AccessTypeCorrect == AccessSpec => []AccessTypeOK
<1>1. AccessInv => AccessTypeOK
  BY DEF AccessInv, StateTypes, ChangesByAdmins, AccessTypeOK, UserRoles, AppConfig, Setting,
     Decision, Change, AnyRole
<1> QED BY <1>1, AccessInvariant, PTL

\* While the role table cannot be read, nobody has a role that the table would have refused
\* (require_authorized_user, _lookup_role_row).
THEOREM OutageIsNoPromotion == AccessSpec => []OutageNeverElevates
<1>1. AccessInv => OutageNeverElevates
  BY DEF AccessInv
<1> QED BY <1>1, AccessInvariant, PTL

\* A write that takes the last administrator away is one whose target was given another role
\* since it was read.
LEMMA LastAdmin ==
  ASSUME AccessInv, NEW s \in Sessions, WriteRole(s), EffectiveAdmins # {},
         EffectiveAdmins' = {}
  PROVE  Overtaken(s) /\ ~TxAt(s, "write")'
<1> DEFINE target == roleTx[s].target
<1>1. roleTx[s] \in Change /\ TxAt(s, "write")
  BY DEF WriteRole, TxAt, AccessInv, StateTypes
<1>2. authEnv.admins = {} /\ TableAdmins # {} /\ TableAdmins' = {}
  BY DEF EffectiveAdmins, WriteRole
<1>3. roleTable' # roleTable
  BY <1>2 DEF TableAdmins
<1>4. /\ roleTable' = [roleTable EXCEPT ![target] = roleTx[s].new]
      /\ roleTx' = [roleTx EXCEPT ![s].pc = "audit", ![s].locks = {}]
  BY <1>3 DEF WriteRole
<1>5. roleTx'[s].pc = "audit"
  BY <1>1, <1>4 DEF AccessInv, StateTypes, Change
<1>6. \A p \in TableAdmins : p = target
  BY <1>2, <1>4 DEF TableAdmins, AccessInv, StateTypes
<1>7. roleTable[target] = "admin" /\ roleTx[s].new # "admin"
  BY <1>1, <1>2, <1>4, <1>6 DEF TableAdmins, AccessInv, StateTypes, Change
<1>8. roleTx[s].old # "admin"
  <2>1. ASSUME roleTx[s].old = "admin" PROVE FALSE
    <3>1. \E a, b \in TableAdmins : a # b
      BY <1>1, <1>2, <1>7, <2>1 DEF AccessInv, GuardedByLocks, Losing
    <3> QED BY <3>1, <1>6
  <2> QED BY <2>1
<1> QED BY <1>1, <1>5, <1>7, <1>8 DEF Overtaken, TxAt

\* Concurrent administrators who demote or revoke each other leave the deployment with one,
\* unless a change has been overtaken (_guard_last_admin, list_user_role_admins_for_update).
THEOREM AnAdminRemains == AccessSpec => AdminRemains
<1>1. ASSUME AccessInv, AccessNext, EffectiveAdmins # {}, authEnv' = authEnv,
             EffectiveAdmins' = {}
      PROVE  \E s \in Sessions : Overtaken(s) /\ ~TxAt(s, "write")'
  <2>1. roleTable' # roleTable
    BY <1>1 DEF EffectiveAdmins, TableAdmins
  <2>2. \E s \in Sessions : WriteRole(s)
    BY <1>1, <2>1 DEF AccessNext, SessionStep, Rerun, DenyCapability, ReadOldRole, LockAdmins,
       AuditRoleChange, StoreSetting, SetEnvironment, Redeploy
  <2> QED BY <1>1, <2>2, LastAdmin
<1>2. AccessInv /\ [AccessNext]_AccessVars
      => [ EffectiveAdmins # {} /\ authEnv' = authEnv
           => \/ EffectiveAdmins' # {}
              \/ \E s \in Sessions : Overtaken(s) /\ ~TxAt(s, "write")' ]_AccessVars
  BY <1>1
<1> QED BY <1>2, AccessInvariant, PTL DEF AccessSpec, AdminRemains
-----------------------------------------------------------------------------
(* AgentVerdicts: the inductive invariant.                                 *)

Payloads == [page : Nat \cup {None}, quality : {"ok", "unsafe", "error"}]

Contexts == Candles \cup {None}

Working ==
    [pc : {"lookup", "tools", "save"}, answer : {None}, kind : Kinds, model : Models,
     context : Contexts, force : BOOLEAN, attempt : 0 .. MaxAttempts,
     seen : Seq(Payloads), collected : Seq(Payloads),
     draft : [kind : Kinds, model : Models, context : Contexts, seen : Seq(Payloads)]
             \cup {None}]

\* The receipts of a 67 ka funda call are what its conversation has seen so far, and a draft
\* is the call's own, of a conversation that saw one page if it must.
CallOK(x) ==
    \/ x.pc = "rest"
    \/ /\ x \in Working
       /\ x.kind = "sixty_seven" => x.collected = x.seen
       /\ x.pc = "lookup" => x.attempt = 0
       /\ x.pc = "save" =>
            /\ x.draft = [kind |-> x.kind, model |-> x.model, context |-> x.context,
                          seen |-> x.seen]
            /\ x.kind = "sixty_seven" => Len(x.seen) = 1

\* What an answer must be for the two promises to hold of it.
AnswerOK(a) ==
    a.verdict # None =>
        /\ a.verdict.kind \in {"technical", "sixty_seven"} =>
            a.verdict.model = a.model /\ a.verdict.context = a.context
        /\ a.verdict.kind = "sixty_seven" =>
            a.receipts = a.verdict.seen /\ Len(a.receipts) = 1
        /\ a.verdict.kind = "fundamental" /\ a.status = "served" /\ ~a.mixed =>
            \E i \in DOMAIN a.verdict.seen : a.verdict.seen[i].page = a.page

\* A file is named after its agent, a fundamental verdict's also after the page its model
\* saw, and a 67 ka funda verdict keeps the receipts of what its model saw.
FileOK(f) ==
    /\ f.path[1] = f.verdict.kind
    /\ f.verdict.kind = "fundamental" /\ ~f.mixed =>
        \E i \in DOMAIN f.verdict.seen : f.verdict.seen[i].page = f.path[3]
    /\ f.verdict.kind = "sixty_seven" => f.receipts = f.verdict.seen /\ Len(f.receipts) = 1

Days ==
    /\ page \in 1 .. agentDay \cup {None}
    /\ agentDay \in Nat \ {0} /\ signingKey \in Nat
    /\ candles \in Candles /\ model \in Models

Files ==
    /\ \A f \in verdicts : FileOK(f) /\ f.key \in 0 .. signingKey
    /\ \A f, g \in verdicts : f.path = g.path => f = g

CallsInOrder ==
    /\ call = [c \in Calls |-> call[c]]
    /\ \A c \in Calls : CallOK(call[c])
    /\ \A c \in Calls : call[c].answer # None => AnswerOK(call[c].answer)

AgentInv == Days /\ Files /\ CallsInOrder

-----------------------------------------------------------------------------
(* Lemmas about the operators.                                             *)

\* The invariant holds what the run checks.
LEMMA PromisesKept ==
  AgentInv => AgentTypeOK /\ VerdictStandsOnItsEvidence /\ ServedForTheCachedPage
<1> SUFFICES ASSUME AgentInv
             PROVE  AgentTypeOK /\ VerdictStandsOnItsEvidence /\ ServedForTheCachedPage
  OBVIOUS
<1>1. \A a \in Answers : AnswerOK(a)
  BY DEF Answers, AgentInv, CallsInOrder
<1>2. AgentTypeOK
  BY DEF AgentTypeOK, AgentInv, Days, Files, CallsInOrder, CallOK, Working
<1>3. VerdictStandsOnItsEvidence
  BY <1>1 DEF VerdictStandsOnItsEvidence, Delivered, AnswerOK
<1>4. ServedForTheCachedPage
  BY <1>1 DEF ServedForTheCachedPage, Delivered, AnswerOK
<1> QED BY <1>2, <1>3, <1>4

\* One call moves on, the others stay.
LEMMA CallMoves ==
  ASSUME CallsInOrder, NEW c \in Calls, NEW x, call' = [call EXCEPT ![c] = x],
         CallOK(x), x.answer # None => AnswerOK(x.answer)
  PROVE  CallsInOrder'
<1>1. \A b \in Calls : call'[b] = IF b = c THEN x ELSE call[b]
  BY DEF CallsInOrder
<1>2. call' = [b \in Calls |-> call'[b]]
  BY DEF CallsInOrder
<1> QED BY <1>1, <1>2 DEF CallsInOrder

\* Calls that end without an answer, or with a failure.
LEMMA EndOK ==
  ASSUME CallsInOrder, NEW c \in Calls, Fail(c)
  PROVE  CallsInOrder'
<1> DEFINE x == Ended([status |-> "failed", verdict |-> None])
<1>1. CallOK(x) /\ AnswerOK(x.answer)
  BY DEF CallOK, AnswerOK, Ended
<1> QED BY <1>1, CallMoves DEF Fail

\* A file that fits is a right answer.
LEMMA DeliverOK ==
  ASSUME CallsInOrder, NEW c \in Calls, NEW status, NEW file, Deliver(c, status, file),
         file.verdict.kind \in {"technical", "sixty_seven"} =>
            file.verdict.model = call[c].model /\ file.verdict.context = call[c].context,
         file.verdict.kind = "sixty_seven" =>
            file.receipts = file.verdict.seen /\ Len(file.receipts) = 1,
         file.verdict.kind = "fundamental" /\ status = "served" /\ ~file.mixed =>
            \E i \in DOMAIN file.verdict.seen : file.verdict.seen[i].page = GetData
  PROVE  CallsInOrder'
<1> DEFINE a == [status |-> status, model |-> call[c].model, context |-> call[c].context,
                 verdict |-> file.verdict, receipts |-> file.receipts, mixed |-> file.mixed,
                 page |-> GetData]
<1>1. AnswerOK(a)
  BY DEF AnswerOK
<1> HIDE DEF a
<1>2. CallOK(Ended(a)) /\ Ended(a).answer = a
  BY DEF CallOK, Ended
<1>3. call' = [call EXCEPT ![c] = Ended(a)]
  BY DEF Deliver, a
<1> QED BY <1>1, <1>2, <1>3, CallMoves

\* A new conversation has seen and collected nothing.
LEMMA ConversationOK ==
  ASSUME NEW x \in Working, x.attempt < MaxAttempts
  PROVE  CallOK(Conversation(x)) /\ Conversation(x).answer = None
<1>1. <<>> \in Seq(Payloads)
  BY EmptySeq
<1>2. x.attempt + 1 \in 0 .. MaxAttempts
  BY AgentAssumption DEF Working
<1>3. /\ Conversation(x) \in Working
      /\ Conversation(x).pc = "tools" /\ Conversation(x).answer = None
      /\ Conversation(x).collected = <<>> /\ Conversation(x).seen = <<>>
  BY <1>1, <1>2 DEF Conversation, Working
<1> QED BY <1>3 DEF CallOK

-----------------------------------------------------------------------------
(* Every step keeps the invariant.                                         *)

\* A call begins; a forced fundamental check forgets the stock.
LEMMA BeginKeeps ==
  ASSUME AgentInv, NEW c \in Calls, NEW kind \in Kinds, NEW force \in BOOLEAN,
         Begin(c, kind, force)
  PROVE  AgentInv'
<1> DEFINE new == [pc |-> "lookup", answer |-> None, kind |-> kind, model |-> model,
                   context |-> IF kind = "fundamental" THEN None ELSE candles,
                   force |-> force, attempt |-> 0, seen |-> <<>>,
                   collected |-> <<>>, draft |-> None]
<1>1. <<>> \in Seq(Payloads)
  BY EmptySeq
<1>2. new \in Working /\ new.attempt < MaxAttempts
  BY <1>1, AgentAssumption DEF Working, Contexts, AgentInv, Days
<1>3. new.pc = "lookup" /\ new.collected = new.seen /\ new.answer = None /\ new.attempt = 0
  OBVIOUS
<1>4. call' = [call EXCEPT ![c] = IF force THEN Conversation(new) ELSE new]
  BY DEF Begin
<1> HIDE DEF new
<1>5. CallOK(new)
  BY <1>2, <1>3 DEF CallOK
<1>6. CallsInOrder'
  BY <1>2, <1>3, <1>4, <1>5, ConversationOK, CallMoves DEF AgentInv
<1>7. Days' /\ Files'
  BY DEF Begin, environment, AgentInv, Days, Files, FileOK
<1> QED BY <1>6, <1>7 DEF AgentInv

\* A file served from the cache fits the request, whatever its name.
LEMMA ServedFits ==
  ASSUME AgentInv, NEW c \in Calls, call[c] \in Working, NEW f \in Cached(c)
  PROVE  /\ f.verdict.kind \in {"technical", "sixty_seven"} =>
              f.verdict.model = call[c].model /\ f.verdict.context = call[c].context
         /\ f.verdict.kind = "sixty_seven" =>
              f.receipts = f.verdict.seen /\ Len(f.receipts) = 1
         /\ f.verdict.kind = "fundamental" /\ ~f.mixed =>
              \E i \in DOMAIN f.verdict.seen : f.verdict.seen[i].page = GetData
<1>1. f \in verdicts /\ f.path = Path(c)
  BY DEF Cached, CachedCheck, CachedEvaluation, AnySignedFile, Stored
<1>2. FileOK(f)
  BY <1>1 DEF AgentInv, Files
<1>3. CASE call[c].kind = "fundamental"
  <2>1. GetData # None
    BY <1>3 DEF Cached, CachedCheck
  <2>2. f.path[1] = "fundamental" /\ f.path[3] = GetData
    BY <1>1, <1>3, <2>1 DEF Path
  <2> QED BY <1>2, <2>2 DEF FileOK
<1>4. CASE call[c].kind # "fundamental"
  <2>1. f.path[1] = call[c].kind
    BY <1>1, <1>4 DEF Path
  <2>2. f.verdict.model = call[c].model /\ f.verdict.context = call[c].context
    BY <1>4 DEF Cached, CachedEvaluation
  <2> QED BY <1>2, <1>4, <2>1, <2>2 DEF FileOK
<1> QED BY <1>3, <1>4

\* The lookup serves a file or starts the model.
LEMMA LookupKeeps ==
  ASSUME AgentInv, NEW c \in Calls, Lookup(c)
  PROVE  AgentInv'
<1>1. call[c] \in Working /\ CallOK(call[c])
  BY DEF Lookup, InCall, AgentInv, CallsInOrder, CallOK
<1>2. Days' /\ Files'
  BY DEF Lookup, environment, AgentInv, Days, Files, FileOK
<1>3. ASSUME NEW f \in Cached(c), Deliver(c, "served", f) PROVE CallsInOrder'
  BY <1>1, <1>3, ServedFits, DeliverOK DEF AgentInv
<1>4. ASSUME call' = [call EXCEPT ![c] = Conversation(call[c])] PROVE CallsInOrder'
  <2>1. call[c].attempt < MaxAttempts
    BY <1>1, AgentAssumption DEF CallOK, Lookup, InCall
  <2>2. CallOK(Conversation(call[c])) /\ Conversation(call[c]).answer = None
    BY <1>1, <2>1, ConversationOK
  <2>3. CallsInOrder
    BY DEF AgentInv
  <2> QED BY <1>4, <2>2, <2>3, CallMoves
<1>5. \/ call' = [call EXCEPT ![c] = Conversation(call[c])]
      \/ \E f \in Cached(c) : Deliver(c, "served", f)
  BY DEF Lookup
<1>6. CallsInOrder'
  BY Zenon, <1>3, <1>4, <1>5
<1> QED BY <1>2, <1>6 DEF AgentInv

\* A tool's payload reaches the receipts of a 67 ka funda call whatever it is.
LEMMA CollectOK ==
  ASSUME AgentInv, NEW c \in Calls, InCall(c, "tools"), NEW payload \in Payloads,
         NEW recorded \in BOOLEAN, Collect(c, payload, recorded),
         call[c].kind = "sixty_seven" => recorded
  PROVE  CallsInOrder'
<1> DEFINE x == [call[c] EXCEPT !.seen = Append(@, payload),
                                !.collected = IF recorded THEN Append(@, payload) ELSE @]
<1>1. /\ call[c] \in Working /\ call[c].pc = "tools"
      /\ call[c].kind = "sixty_seven" => call[c].collected = call[c].seen
  BY DEF InCall, AgentInv, CallsInOrder, CallOK
<1>2. call' = [call EXCEPT ![c] = x]
  BY DEF Collect
<1>3. Append(call[c].seen, payload) \in Seq(Payloads)
      /\ Append(call[c].collected, payload) \in Seq(Payloads)
  BY <1>1, AppendProperties DEF Working
<1>4. /\ x \in Working /\ x.pc = "tools" /\ x.answer = None
      /\ x.kind = "sixty_seven" => x.collected = x.seen
  BY <1>1, <1>3 DEF Working
<1> HIDE DEF x
<1>5. CallOK(x)
  BY <1>4 DEF CallOK
<1> QED BY <1>2, <1>4, <1>5, CallMoves DEF AgentInv

\* A tool fetches the company page, from the cache or into it, or fails.
LEMMA FetchKeeps ==
  ASSUME AgentInv, NEW c \in Calls, FetchTool(c)
  PROVE  AgentInv'
<1> DEFINE cached == IF call[c].force THEN None ELSE GetData
           day == IF cached = None THEN agentDay ELSE cached
<1>1. cached \in 1 .. agentDay \cup {None} /\ day \in Nat
  BY DEF GetData, AgentInv, Days
<1>2. Files'
  BY DEF FetchTool, environment, AgentInv, Files, FileOK
<1>3. InCall(c, "tools") /\ UNCHANGED environment
  BY DEF FetchTool
<1>4. \/ \E quality \in {"ok", "unsafe", "error"} :
            Collect(c, Payload(day, quality), TRUE) /\ page' \in {page, agentDay}
      \/ Collect(c, Payload(None, "error"), call[c].kind = "sixty_seven") /\ page' = page
  BY DEF FetchTool
<1>5. \A quality \in {"ok", "unsafe", "error"} : Payload(day, quality) \in Payloads
  BY <1>1 DEF Payload, Payloads
<1>6. Payload(None, "error") \in Payloads
  BY DEF Payload, Payloads
<1> HIDE DEF day
<1>7. CallsInOrder'
  BY <1>3, <1>4, <1>5, <1>6, CollectOK
<1>8. page' \in {page, agentDay}
  BY Zenon, <1>4
<1>9. Days'
  BY <1>3, <1>8 DEF environment, AgentInv, Days
<1> QED BY <1>2, <1>7, <1>9 DEF AgentInv

\* The model's answer is drafted, tried again or given up.
LEMMA AnswerKeeps ==
  ASSUME AgentInv, NEW c \in Calls, NEW outcome \in {"fails", "garbled", "parses"},
         ModelAnswers(c, outcome)
  PROVE  AgentInv'
<1> DEFINE draft == [kind |-> call[c].kind, model |-> call[c].model,
                     context |-> call[c].context, seen |-> call[c].seen]
           x == [call[c] EXCEPT !.pc = "save", !.draft = draft]
<1>1. /\ call[c] \in Working /\ call[c].pc = "tools"
      /\ call[c].kind = "sixty_seven" => call[c].collected = call[c].seen
  BY DEF ModelAnswers, InCall, AgentInv, CallsInOrder, CallOK
<1>2. Days' /\ Files'
  BY DEF ModelAnswers, environment, AgentInv, Days, Files, FileOK
<1>3. \/ Fail(c)
      \/ Grounded(c) /\ call' = [call EXCEPT ![c] = x]
      \/ call[c].attempt < MaxAttempts /\ call' = [call EXCEPT ![c] = Conversation(call[c])]
  BY Zenon DEF ModelAnswers
<1>4. ASSUME Fail(c) PROVE CallsInOrder'
  BY <1>4, EndOK DEF AgentInv
<1>5. ASSUME Grounded(c) /\ call' = [call EXCEPT ![c] = x] PROVE CallsInOrder'
  <2>1. call[c].kind = "sixty_seven" => Len(call[c].collected) = 1
    BY Zenon, <1>5 DEF Grounded
  <2>2. draft \in [kind : Kinds, model : Models, context : Contexts, seen : Seq(Payloads)]
    BY <1>1 DEF Working
  <2>3. /\ x \in Working /\ x.pc = "save" /\ x.answer = None /\ x.draft = draft
        /\ x.kind = call[c].kind /\ x.model = call[c].model /\ x.context = call[c].context
        /\ x.seen = call[c].seen /\ x.collected = call[c].collected
    BY <1>1, <2>2 DEF Working
  <2>4. x.draft = [kind |-> x.kind, model |-> x.model, context |-> x.context, seen |-> x.seen]
    BY Zenon, <2>3
  <2> HIDE DEF x, draft
  <2>5. CallOK(x)
    BY <1>1, <2>1, <2>3, <2>4 DEF CallOK
  <2>6. CallsInOrder /\ call' = [call EXCEPT ![c] = x]
    BY <1>5 DEF AgentInv
  <2> QED BY <2>3, <2>5, <2>6, CallMoves
<1>6. ASSUME call[c].attempt < MaxAttempts,
             call' = [call EXCEPT ![c] = Conversation(call[c])]
      PROVE  CallsInOrder'
  <2>1. CallOK(Conversation(call[c])) /\ Conversation(call[c]).answer = None
    BY <1>1, <1>6, ConversationOK
  <2>2. CallsInOrder
    BY DEF AgentInv
  <2> QED BY <1>6, <2>1, <2>2, CallMoves
<1>7. CallsInOrder'
  BY Zenon, <1>3, <1>4, <1>5, <1>6
<1> QED BY <1>2, <1>7 DEF AgentInv

\* The verdict is delivered, and its file written, lost or cut short.
LEMMA SaveKeeps ==
  ASSUME AgentInv, NEW c \in Calls, Save(c)
  PROVE  AgentInv'
<1> DEFINE file == [path |-> Path(c), verdict |-> call[c].draft, key |-> signingKey,
                    receipts |-> call[c].collected, mixed |-> Mixed(c)]
<1>1. /\ call[c] \in Working /\ call[c].pc = "save"
      /\ call[c].kind = "sixty_seven" => call[c].collected = call[c].seen /\ Len(call[c].seen) = 1
      /\ call[c].draft = [kind |-> call[c].kind, model |-> call[c].model,
                          context |-> call[c].context, seen |-> call[c].seen]
  BY DEF Save, InCall, AgentInv, CallsInOrder, CallOK
<1>2. /\ call[c].draft.kind = call[c].kind /\ call[c].draft.model = call[c].model
      /\ call[c].draft.context = call[c].context /\ call[c].draft.seen = call[c].seen
  BY <1>1
<1>3. /\ file.path = Path(c) /\ file.verdict = call[c].draft /\ file.key = signingKey
      /\ file.receipts = call[c].collected /\ (file.mixed <=> Mixed(c))
  OBVIOUS
<1>4. /\ Deliver(c, "drafted", file)
      /\ verdicts' \in {verdicts, SetVerdict(file), verdicts \ Stored(file.path)}
      /\ UNCHANGED <<page, environment, agentMoves>>
  BY DEF Save
<1> HIDE DEF file
<1>5. FileOK(file)
  <2>1. file.path[1] = call[c].kind
    BY <1>3 DEF Path
  <2>2. ASSUME call[c].kind = "fundamental", ~Mixed(c)
        PROVE  \E i \in DOMAIN call[c].seen : call[c].seen[i].page = file.path[3]
    BY <1>3, <2>2 DEF Mixed, Path
  <2> QED BY <1>1, <1>2, <1>3, <2>1, <2>2 DEF FileOK
<1>6. CallsInOrder'
  BY <1>1, <1>2, <1>3, <1>4, DeliverOK DEF AgentInv
<1>7. Days'
  BY <1>4 DEF environment, AgentInv, Days
<1>8. Files'
  <2>1. file.key \in 0 .. signingKey
    BY <1>3 DEF AgentInv, Days
  <2>2. \A f \in verdicts' : f \in verdicts \/ f = file
    BY <1>4 DEF SetVerdict
  <2>3. \A f, g \in verdicts' : f.path = g.path => f = g
    BY <1>4 DEF SetVerdict, AgentInv, Files
  <2>4. \A f \in verdicts' : FileOK(f)
    BY <1>5, <2>2 DEF AgentInv, Files
  <2>5. \A f \in verdicts' : f.key \in 0 .. signingKey
    BY <2>1, <2>2 DEF AgentInv, Files
  <2> QED BY <1>4, <2>3, <2>4, <2>5 DEF Files, environment
<1> QED BY <1>6, <1>7, <1>8 DEF AgentInv

\* The environment moves: a day, other candles, another process and model.
LEMMA EnvironmentKeeps ==
  ASSUME AgentInv,
         \/ NewDay
         \/ \E x \in Candles : NewCandles(x)
         \/ \E m \in Models : RestartProcess(m)
         \/ UNCHANGED AgentVars
  PROVE  AgentInv'
<1>1. CASE NewDay
  BY <1>1 DEF NewDay, AgentInv, Days, Files, CallsInOrder
<1>2. ASSUME NEW x \in Candles, NewCandles(x) PROVE AgentInv'
  BY <1>2 DEF NewCandles, AgentInv, Days, Files, CallsInOrder
<1>3. ASSUME NEW m \in Models, RestartProcess(m) PROVE AgentInv'
  <2>1. CallsInOrder'
    <3>1. \A c \in Calls : call'[c].pc = "rest" /\ call'[c].answer = None
      BY <1>3 DEF RestartProcess, Ended
    <3>2. call' = [c \in Calls |-> call'[c]]
      BY <1>3 DEF RestartProcess
    <3> QED BY <3>1, <3>2 DEF CallsInOrder, CallOK
  <2>2. Days'
    BY <1>3 DEF RestartProcess, AgentInv, Days
  <2>3. Files'
    BY <1>3 DEF RestartProcess, AgentInv, Days, Files
  <2> QED BY <2>1, <2>2, <2>3 DEF AgentInv
<1>4. CASE UNCHANGED AgentVars
  BY <1>4 DEF AgentVars, environment, AgentInv, Days, Files, CallsInOrder
<1> QED BY <1>1, <1>2, <1>3, <1>4

-----------------------------------------------------------------------------
(* The theorems.                                                           *)

\* What an earlier process may have left is in order.
LEMMA AgentStarts == AgentInit => AgentInv
<1> SUFFICES ASSUME AgentInit PROVE AgentInv
  OBVIOUS
<1>1. Days
  <2>1. /\ model = CHOOSE m \in Models : TRUE
        /\ candles = CHOOSE x \in Candles : TRUE
    BY DEF AgentInit
  <2>2. model \in Models /\ candles \in Candles
    BY Zenon, <2>1, AgentAssumption
  <2>3. page \in {None, 1} /\ agentDay = 1 /\ signingKey = 1
    BY DEF AgentInit
  <2>4. page \in 1 .. agentDay \cup {None}
    BY <2>3
  <2> QED BY <2>2, <2>3, <2>4 DEF Days
<1>2. CallsInOrder
  <2>1. call = [c \in Calls |-> Ended(None)]
    BY DEF AgentInit
  <2> QED BY <2>1 DEF CallsInOrder, CallOK, Ended
<1>3. Files
  <2>1. FileOK(LeftVerdict(model)) /\ LeftVerdict(model).key = 0
    BY DEF FileOK, LeftVerdict, Payload
  <2>2. signingKey = 1 /\ verdicts \subseteq {LeftVerdict(model)}
    BY DEF AgentInit
  <2> QED BY <2>1, <2>2 DEF Files
<1> QED BY <1>1, <1>2, <1>3 DEF AgentInv

\* The step lemmas together.
LEMMA AgentStep == AgentInv /\ [AgentNext]_AgentVars => AgentInv'
<1> SUFFICES ASSUME AgentInv, [AgentNext]_AgentVars PROVE AgentInv'
  OBVIOUS
<1>1. ASSUME NEW c \in Calls, CallStep(c) PROVE AgentInv'
  BY <1>1, BeginKeeps, LookupKeeps, FetchKeeps, AnswerKeeps, SaveKeeps DEF CallStep
<1> QED BY <1>1, EnvironmentKeeps DEF AgentNext

\* Files and calls stay in order: each file named after what it holds, each call with the
\* receipts of its own conversation.
THEOREM AgentInvariant == AgentSpec => []AgentInv
  BY AgentStarts, AgentStep, PTL DEF AgentSpec

\* One file for a name, pages no newer than today, attempts within the limit.
THEOREM AgentTypeCorrect == AgentSpec => []AgentTypeOK
  BY AgentInvariant, PromisesKept, PTL

\* No colliding file name, repaired candle, other process's key or earlier attempt's research
\* makes a verdict stand on anything but its request's evidence (evaluate,
\* _cached_evaluation, _run_once).
THEOREM VerdictsStand == AgentSpec => []VerdictStandsOnItsEvidence
  BY AgentInvariant, PromisesKept, PTL

\* A fundamental verdict served from a file was drafted on the page that is in the cache
\* (FundamentalAgent.check, FundamentalsCache.verdict_path).
THEOREM ServedOnTheCachedPage == AgentSpec => []ServedForTheCachedPage
  BY AgentInvariant, PromisesKept, PTL

-----------------------------------------------------------------------------
(* IpoCitations: the inductive invariant.                                  *)

ProposalFields == {"payload", "sha", "confidence", "status"}

QueueIsTable ==
    /\ \E R : queue \in Seq(R)
    /\ \A i \in DOMAIN queue : DOMAIN queue[i] = ProposalFields

Extraction ==
    verified # None => verified.sha \in DOMAIN Papers /\ verified.confidence \in {"medium", "high"}

\* What the agent may have answered, now or under an earlier release.
KnownDrafts ==
    Drafts \cup UNION {{table[i].payload.draft : i \in DOMAIN table} : table \in LegacyQueues}

DraftsAreKnown ==
    /\ verified # None => verified.draft \in KnownDrafts
    /\ \A i \in DOMAIN queue : queue[i].payload.draft \in KnownDrafts
    /\ \A r \in revisions : r.draft \in KnownDrafts /\ r.sha \in DOMAIN Papers

BandOrdered ==
    /\ band = [low |-> band.low, high |-> band.high]
    /\ band.low # None /\ band.high # None => band.low <= band.high

\* What the two checks of the receipts find, of the content the draft was read from.
Supported(payload, sha) ==
    /\ CitedFactBinding(payload, sha)
    /\ ManualData(payload.draft)
    /\ ReceiptsResolve(payload, Papers[sha], sha)

PendingSupported ==
    \A i \in DOMAIN queue :
        IsPending(i) /\ queue[i].payload.schema = "v3" => Supported(queue[i].payload, queue[i].sha)

\* Every figure of an approved draft is found by the search on the page it cites, in the
\* content of the document the draft was read from, with the text of the objects.
RevisionSupported(r) ==
    /\ ManualData(r.draft) /\ ProposalModel(r.draft) /\ InRange(r.draft, Papers[r.sha])
    /\ \A l \in Labels(r.draft) :
        Sources(r.draft, l, Papers[r.sha][r.draft.figures[l].page]) # {}
    /\ MatchingTextSource(r.draft, Papers[r.sha][r.draft.objectsPage]) # {}

ApprovedIsSupported == \A r \in revisions : RevisionSupported(r)

CitationInv ==
    /\ paper \in DOMAIN Papers
    /\ Extraction
    /\ QueueIsTable
    /\ \A i \in DOMAIN queue : ProposalRow(i)
    /\ DraftsAreKnown
    /\ PendingSupported
    /\ BandOrdered
    /\ ApprovedIsSupported

-----------------------------------------------------------------------------
\* The search ends with a confidence that the queue accepts, or raises.
LEMMA ConfidenceValues ==
  ASSUME NEW d, NEW pages
  PROVE  VerifyProposal(d, pages) \in {"high", "medium", None}
<1>1. ASSUME NEW missing, NEW total
      PROVE  Confidence(missing, total) \in {"high", "medium", None}
  BY Zenon DEF Confidence
<1> QED BY Zenon, <1>1 DEF VerifyProposal

\* A draft whose receipts resolve is supported by the pages they were found on.
LEMMA ApprovableIsSupported ==
  ASSUME NEW p, ReceiptsStand(p)
  PROVE  RevisionSupported(ManualRevision(p))
<1> DEFINE d == p.payload.draft
<1>1. /\ ManualRevision(p).draft = d /\ ManualRevision(p).sha = paper
      /\ ManualData(d) /\ ReceiptsResolve(p.payload, Papers[paper], p.sha)
  BY DEF ManualRevision, ReceiptsStand
<1>2. /\ ProposalModel(d) /\ InRange(d, Papers[paper])
      /\ Found(d, Papers[paper]) = Labels(d)
      /\ MatchingTextSource(d, Papers[paper][d.objectsPage]) # {}
  BY <1>1 DEF ReceiptsResolve
<1>3. \A l \in Labels(d) : Sources(d, l, Papers[paper][d.figures[l].page]) # {}
  BY <1>2, Zenon DEF Found
<1> HIDE DEF d
<1> QED BY <1>1, <1>2, <1>3 DEF RevisionSupported

\* A decision changes the status of one proposal.
LEMMA Decided ==
  ASSUME QueueIsTable, NEW i \in DOMAIN queue, NEW s,
         queue' = [queue EXCEPT ![i].status = s]
  PROVE  /\ QueueIsTable'
         /\ DOMAIN queue' = DOMAIN queue
         /\ \A j \in DOMAIN queue :
              /\ queue'[j].payload = queue[j].payload /\ queue'[j].sha = queue[j].sha
              /\ queue'[j].confidence = queue[j].confidence
              /\ queue'[j].status = IF j = i THEN s ELSE queue[j].status
<1> DEFINE row == [queue[i] EXCEPT !.status = s]
<1>1. PICK R : queue \in Seq(R)
  BY DEF QueueIsTable
<1>2. /\ DOMAIN row = ProposalFields /\ row.payload = queue[i].payload
      /\ row.sha = queue[i].sha /\ row.confidence = queue[i].confidence /\ row.status = s
  BY DEF QueueIsTable, ProposalFields
<1>3. queue' = [queue EXCEPT ![i] = row]
  OBVIOUS
<1> HIDE DEF row
<1>4. queue \in Seq(R \cup {row})
  BY <1>1
<1>5. queue' \in Seq(R \cup {row})
  BY <1>3, <1>4
<1>6. /\ DOMAIN queue' = DOMAIN queue
      /\ \A j \in DOMAIN queue : queue'[j] = IF j = i THEN row ELSE queue[j]
  BY <1>1, <1>3
<1>7. QueueIsTable'
  BY <1>2, <1>5, <1>6 DEF QueueIsTable
<1> QED BY <1>2, <1>6, <1>7

\* A decided proposal stands as it was proposed.
LEMMA DecidedKeeps ==
  ASSUME CitationInv, NEW i \in DOMAIN queue, IsPending(i), NEW s \in {"approved", "rejected"},
         queue' = [queue EXCEPT ![i].status = s], revisions \subseteq revisions',
         s = "approved" => ManualRevision(queue[i]) \in revisions'
  PROVE  /\ QueueIsTable'
         /\ (\A j \in DOMAIN queue : ProposalRow(j))'
         /\ PendingSupported'
         /\ \A j \in DOMAIN queue' : queue'[j].payload.draft \in KnownDrafts
<1>1. /\ QueueIsTable'
      /\ DOMAIN queue' = DOMAIN queue
      /\ \A j \in DOMAIN queue :
           /\ queue'[j].payload = queue[j].payload /\ queue'[j].sha = queue[j].sha
           /\ queue'[j].confidence = queue[j].confidence
           /\ queue'[j].status = IF j = i THEN s ELSE queue[j].status
  BY Decided DEF CitationInv
<1>2. \A j \in DOMAIN queue : /\ IsPending(j)' => IsPending(j)
                              /\ Fingerprint(queue'[j]) = Fingerprint(queue[j])
                              /\ ManualRevision(queue'[j]) = ManualRevision(queue[j])
  BY <1>1 DEF IsPending, Fingerprint, ManualRevision
<1>3. ASSUME NEW j \in DOMAIN queue
      PROVE  ProposalRow(j)'
  <2>1. ProposalRow(j)
    BY DEF CitationInv
  <2>2. queue'[j].status = "approved" => ManualRevision(queue[j]) \in revisions'
    BY <1>1, <2>1 DEF ProposalRow
  <2>3. \A k \in DOMAIN queue \ {j} : /\ ~(IsPending(j) /\ IsPending(k))
                                      /\ Fingerprint(queue[j]) # Fingerprint(queue[k])
    BY <2>1 DEF ProposalRow
  <2>4. \A k \in DOMAIN queue' \ {j} : /\ ~(IsPending(j) /\ IsPending(k))'
                                       /\ Fingerprint(queue'[j]) # Fingerprint(queue'[k])
    BY <1>1, <1>2, <2>3
  <2> QED BY <1>1, <1>2, <2>1, <2>2, <2>4 DEF ProposalRow
<1>4. PendingSupported'
  BY <1>1, <1>2 DEF PendingSupported, CitationInv
<1>5. \A j \in DOMAIN queue' : queue'[j].payload.draft \in KnownDrafts
  BY <1>1 DEF CitationInv, DraftsAreKnown
<1> QED BY <1>1, <1>3, <1>4, <1>5

\* A verification writes nothing: the draft is held with the content it was read from.
LEMMA ProposeKeeps ==
  ASSUME CitationInv, NEW d \in Drafts, Propose(d)
  PROVE  CitationInv'
<1>1. PICK c \in {VerifyProposal(d, Papers[paper])} \ {None} :
         verified' = [draft |-> d, sha |-> paper, confidence |-> c]
  BY DEF Propose
<1>2. c \in {"medium", "high"}
  BY <1>1, ConfidenceValues
<1>3. Extraction'
  BY <1>1, <1>2 DEF Extraction, CitationInv, Propose
<1>4. /\ paper' = paper /\ queue' = queue /\ band' = band /\ revisions' = revisions
  BY DEF Propose
<1>5. DraftsAreKnown'
  BY <1>1, <1>4 DEF CitationInv, DraftsAreKnown, KnownDrafts
<1> QED BY <1>3, <1>4, <1>5 DEF CitationInv, QueueIsTable, ProposalRow, IsPending,
                                DraftsAreKnown, PendingSupported, BandOrdered, ApprovedIsSupported

\* What is queued has been checked against the content the document has then.
LEMMA SubmitKeeps ==
  ASSUME CitationInv, Submit
  PROVE  CitationInv'
<1> DEFINE payload == PayloadFromModel
           row == [payload |-> payload, sha |-> verified.sha,
                   confidence |-> verified.confidence, status |-> "pending"]
<1>1. /\ verified # None /\ verified' = None /\ queue' = Queued(payload)
      /\ paper' = paper /\ band' = band /\ revisions' = revisions
  BY DEF Submit
<1>2. /\ paper \in DOMAIN Papers /\ Extraction /\ QueueIsTable /\ PendingSupported
      /\ BandOrdered /\ ApprovedIsSupported /\ DraftsAreKnown
      /\ \A i \in DOMAIN queue : ProposalRow(i)
  BY DEF CitationInv
<1>3. Extraction' /\ BandOrdered' /\ ApprovedIsSupported' /\ paper' \in DOMAIN Papers
  BY <1>1, <1>2 DEF Extraction, BandOrdered, ApprovedIsSupported
<1>4. CASE ~Submittable(payload)
  <2>1. queue' = queue
    BY <1>1, <1>4 DEF Queued
  <2> QED BY <1>1, <1>2, <1>3, <2>1 DEF CitationInv, QueueIsTable, ProposalRow, IsPending,
                                        PendingSupported, DraftsAreKnown
<1>5. CASE Submittable(payload)
  <2>0. PICK n : n = Len(queue) + 1
    OBVIOUS
  <2>1. payload.schema = "v3" /\ payload.draft = verified.draft
    BY DEF PayloadFromModel
  <2> HIDE DEF payload
  <2>2. PICK R : queue \in Seq(R)
    BY <1>2 DEF QueueIsTable
  <2>3. queue' = Append(queue, row)
    BY <1>1, <1>5 DEF Queued
  <2>4. /\ DOMAIN row = ProposalFields /\ row.payload = payload /\ row.sha = verified.sha
        /\ row.confidence = verified.confidence /\ row.status = "pending"
    BY DEF ProposalFields
  <2> HIDE DEF row
  <2>5. /\ queue \in Seq(R \cup {row}) /\ queue' \in Seq(R \cup {row})
        /\ Len(queue) \in Nat /\ DOMAIN queue = 1 .. Len(queue)
    BY <2>2, <2>3
  <2>6. /\ DOMAIN queue' = DOMAIN queue \cup {n} /\ n \notin DOMAIN queue
        /\ queue'[n] = row
        /\ \A i \in DOMAIN queue : queue'[i] = queue[i]
    BY <2>0, <2>3, <2>5
  <2>7. QueueIsTable'
    BY <1>2, <2>4, <2>5, <2>6 DEF QueueIsTable
  <2>8. /\ CitedFactBinding(payload, verified.sha) /\ ManualData(payload.draft)
        /\ verified.sha = paper /\ ReceiptsResolve(payload, Papers[paper], verified.sha)
        /\ \A i \in DOMAIN queue :
            ~IsPending(i) /\ Fingerprint(queue[i]) # <<verified.sha, payload>>
    BY <1>5 DEF Submittable
  <2>9. Supported(payload, verified.sha)
    BY <2>8 DEF Supported
  <2>10. PendingSupported'
    BY <1>2, <2>4, <2>6, <2>9 DEF PendingSupported, IsPending
  <2>11. Fingerprint(row) = <<verified.sha, payload>>
    BY <2>4 DEF Fingerprint
  <2>12. \A i \in DOMAIN queue : ~IsPending(i)' /\ Fingerprint(queue'[i]) # Fingerprint(row)
    BY <2>6, <2>8, <2>11 DEF IsPending
  <2>13. ASSUME NEW i \in DOMAIN queue
         PROVE  ProposalRow(i)'
    <3>1. ProposalRow(i)
      BY <1>2
    <3>2. \A k \in DOMAIN queue' \ {i} : /\ ~(IsPending(i) /\ IsPending(k))'
                                         /\ Fingerprint(queue'[i]) # Fingerprint(queue'[k])
      BY <2>6, <2>12, <3>1 DEF ProposalRow
    <3> QED BY <1>1, <2>6, <3>1, <3>2 DEF ProposalRow
  <2>14. ProposalRow(n)'
    <3>1. \A k \in DOMAIN queue' \ {n} : /\ ~(IsPending(n) /\ IsPending(k))'
                                         /\ Fingerprint(queue'[n]) # Fingerprint(queue'[k])
      BY <2>6, <2>12
    <3> QED BY <1>1, <1>2, <2>1, <2>4, <2>6, <3>1 DEF ProposalRow, Extraction
  <2>15. DraftsAreKnown'
    BY <1>1, <1>2, <2>1, <2>4, <2>6 DEF DraftsAreKnown
  <2> QED BY <1>3, <2>6, <2>7, <2>10, <2>13, <2>14, <2>15 DEF CitationInv
<1> QED BY <1>4, <1>5

\* Other bytes of the document are no reason for what was read from the former ones.
LEMMA ContentKeeps ==
  ASSUME CitationInv, NewContent
  PROVE  CitationInv'
<1>1. /\ paper' \in DOMAIN Papers
      /\ verified' = verified /\ queue' = queue /\ band' = band /\ revisions' = revisions
  BY DEF NewContent
<1> QED BY <1>1 DEF CitationInv, Extraction, QueueIsTable, ProposalRow, IsPending,
                    DraftsAreKnown, PendingSupported, BandOrdered, ApprovedIsSupported

\* record_price_band refuses a floor over the cap.
LEMMA BandKeeps ==
  ASSUME CitationInv, UpdateBand
  PROVE  CitationInv'
<1>1. /\ paper' = paper /\ verified' = verified /\ queue' = queue /\ revisions' = revisions
  BY DEF UpdateBand
<1>2. PICK low \in Prices \cup {None}, high \in Prices \cup {None} :
         /\ low # None /\ high # None => low <= high
         /\ band' = [low |-> low, high |-> high]
  BY DEF UpdateBand
<1>3. BandOrdered'
  BY <1>2 DEF BandOrdered
<1> QED BY <1>1, <1>3 DEF CitationInv, Extraction, QueueIsTable, ProposalRow, IsPending,
                          DraftsAreKnown, PendingSupported, ApprovedIsSupported

\* The approval: the revision is what the search has found, and the cap is over the floor.
LEMMA ApproveKeeps ==
  ASSUME CitationInv, NEW i \in DOMAIN queue, Approve(i)
  PROVE  CitationInv'
<1> DEFINE cap == CapOf(queue[i].payload.draft)
<1>1. /\ IsPending(i) /\ ReceiptsStand(queue[i])
      /\ cap # None /\ band.low # None => band.low <= cap
      /\ revisions' = revisions \cup {ManualRevision(queue[i])}
      /\ band' = IF cap = None THEN band ELSE [band EXCEPT !.high = cap]
      /\ queue' = [queue EXCEPT ![i].status = "approved"]
      /\ paper' = paper /\ verified' = verified
  BY DEF Approve, Approvable, UnderTheFloor
<1> HIDE DEF cap
<1>2. /\ QueueIsTable' /\ (\A j \in DOMAIN queue : ProposalRow(j))' /\ PendingSupported'
      /\ \A j \in DOMAIN queue' : queue'[j].payload.draft \in KnownDrafts
  BY <1>1, DecidedKeeps
<1>3. BandOrdered'
  BY <1>1 DEF CitationInv, BandOrdered
<1>4. RevisionSupported(ManualRevision(queue[i]))
  BY <1>1, ApprovableIsSupported
<1>5. ApprovedIsSupported'
  BY <1>1, <1>4 DEF CitationInv, ApprovedIsSupported
<1>6. DraftsAreKnown'
  BY <1>1, <1>2 DEF CitationInv, DraftsAreKnown, ManualRevision, ProposalRow
<1> QED BY <1>1, <1>2, <1>3, <1>5, <1>6 DEF CitationInv, Extraction

\* A rejection only takes the proposal out of the queue.
LEMMA RejectKeeps ==
  ASSUME CitationInv, NEW i \in DOMAIN queue, Reject(i)
  PROVE  CitationInv'
<1>1. /\ IsPending(i) /\ queue' = [queue EXCEPT ![i].status = "rejected"]
      /\ paper' = paper /\ verified' = verified /\ band' = band /\ revisions' = revisions
  BY DEF Reject
<1>2. /\ QueueIsTable' /\ (\A j \in DOMAIN queue : ProposalRow(j))' /\ PendingSupported'
      /\ \A j \in DOMAIN queue' : queue'[j].payload.draft \in KnownDrafts
  BY <1>1, DecidedKeeps
<1> QED BY <1>1, <1>2 DEF CitationInv, DraftsAreKnown, Extraction, BandOrdered,
                          ApprovedIsSupported

\* The proposals an earlier release left are not of this release's schema.
LEMMA CitationStarts == CitationInit => CitationInv
<1> SUFFICES ASSUME CitationInit
             PROVE  CitationInv
  OBVIOUS
<1> USE DEF CitationInit
<1>1. /\ queue \in Seq(ToSet(queue))
      /\ \A i \in DOMAIN queue :
           /\ DOMAIN queue[i] = {"payload", "sha", "confidence", "status"}
           /\ queue[i].payload.schema \in {"v1", "v2"}
           /\ queue[i].status \in {"pending", "rejected"}
           /\ queue[i].confidence \in {"low", "medium", "high"}
           /\ queue[i].sha \in DOMAIN Papers
           /\ \A j \in DOMAIN queue \ {i} :
               /\ queue[i].status # "pending" \/ queue[j].status # "pending"
               /\ <<queue[i].sha, queue[i].payload>> # <<queue[j].sha, queue[j].payload>>
  BY CitationAssumption, Zenon
<1>2. QueueIsTable
  BY <1>1 DEF QueueIsTable, ProposalFields
<1>3. ASSUME NEW i \in DOMAIN queue
      PROVE  ProposalRow(i)
  BY <1>1 DEF ProposalRow, IsPending, Fingerprint
<1>4. PendingSupported
  BY <1>1 DEF PendingSupported
<1>5. BandOrdered
  BY DEF BandOrdered
<1>6. paper \in DOMAIN Papers
  BY CitationAssumption
<1>7. DraftsAreKnown
  <2> DEFINE Left(waiting) == {waiting[k].payload.draft : k \in DOMAIN waiting}
  <2>1. ASSUME NEW i \in DOMAIN queue
        PROVE  queue[i].payload.draft \in KnownDrafts
    <3>1. queue[i].payload.draft \in Left(queue)
      OBVIOUS
    <3>2. queue \in LegacyQueues
      OBVIOUS
    <3>3. Left(queue) \in {Left(waiting) : waiting \in LegacyQueues}
      BY <3>2
    <3> QED BY <3>1, <3>3 DEF KnownDrafts
  <2> QED BY <2>1 DEF DraftsAreKnown
<1> QED BY <1>2, <1>3, <1>4, <1>5, <1>6, <1>7 DEF CitationInv, Extraction, ApprovedIsSupported

\* Every step of the extractor, the queue, the administrator and the document's cache.
LEMMA CitationStep == CitationInv /\ [CitationNext]_CitationVars => CitationInv'
<1> SUFFICES ASSUME CitationInv, [CitationNext]_CitationVars
             PROVE  CitationInv'
  OBVIOUS
<1>1. CASE UNCHANGED CitationVars
  BY <1>1 DEF CitationVars, CitationInv, Extraction, QueueIsTable, ProposalRow, IsPending,
              DraftsAreKnown, PendingSupported, BandOrdered, ApprovedIsSupported
<1>2. CASE CitationNext
  BY <1>2, ProposeKeeps, SubmitKeeps, ContentKeeps, BandKeeps, ApproveKeeps, RejectKeeps
     DEF CitationNext, AutoApprove
<1> QED BY <1>1, <1>2

\* Every state of the extraction queue has the invariant: a proposal of this release that is
\* still pending is supported by the content it was read from, whatever the cache holds now.
THEOREM CitationInvariant == CitationSpec => []CitationInv
  BY CitationStarts, CitationStep, PTL DEF CitationSpec

\* The extractor's answer names a content of the document and a confidence the queue
\* accepts, at most one proposal is pending, and the recorded band is in order: the shape
\* of what ipo/repository.py stores.
THEOREM CitationTypeCorrect == CitationSpec => []CitationTypeOK
<1>1. CitationInv => CitationTypeOK
  BY DEF CitationInv, CitationTypeOK, Extraction, BandOrdered
<1> QED BY <1>1, CitationInvariant, PTL

\* While the bytes of its document are the same, nothing but a floor above its cap stands
\* between a pending proposal of this release and its approval: the receipts that
\* submit_extraction_proposal accepts are those that approve_extraction_proposal finds
\* again, also when the document was another one in between.
THEOREM QueueStaysApprovable == CitationSpec => []QueueIsApprovable
<1>1. CitationInv => QueueIsApprovable
  BY DEF CitationInv, QueueIsApprovable, PendingSupported, Supported, Approvable, ReceiptsStand
<1> QED BY <1>1, CitationInvariant, PTL

\* Every figure of an approved revision is found, as what the draft calls it, on the page the
\* draft cites, in the content of the document it was read from; so is the text of the
\* objects of the issue.  The two checks of the receipts (_validated_proposal and the one
\* before the approval) let nothing else through, however the operations interleave.
THEOREM ApprovedFiguresAreFound == CitationSpec => []ApprovedIsSupported
<1>1. CitationInv => ApprovedIsSupported
  BY DEF CitationInv
<1> QED BY <1>1, CitationInvariant, PTL

-----------------------------------------------------------------------------
(* Finite sets of numbers.                                                 *)

Lower(i, set) == {j \in set : j < i}

\* Not all members are below one of them.
LEMMA BelowIsPart ==
  ASSUME NEW set \in SUBSET Int, IsFiniteSet(set), NEW i \in set
  PROVE  /\ IsFiniteSet(Lower(i, set))
         /\ Cardinality(set) \in Nat
         /\ Cardinality(Lower(i, set)) \in 0 .. Cardinality(set) - 1
<1>1. Lower(i, set) \in SUBSET (set \ {i})
  BY DEF Lower
<1>2. /\ IsFiniteSet(set \ {i}) /\ Cardinality(set \ {i}) = Cardinality(set) - 1
      /\ Cardinality(set) \in Nat
  BY FS_RemoveElement, FS_CardinalityType
<1>3. /\ IsFiniteSet(Lower(i, set))
      /\ Cardinality(Lower(i, set)) <= Cardinality(set \ {i})
  BY <1>1, <1>2, FS_Subset
<1> QED BY <1>2, <1>3, FS_CardinalityType

\* The smaller of two has fewer below it.
LEMMA FewerBelow ==
  ASSUME NEW set \in SUBSET Int, IsFiniteSet(set), NEW i \in set, NEW j \in set, i < j
  PROVE  Cardinality(Lower(i, set)) < Cardinality(Lower(j, set))
<1> DEFINE a == Lower(i, set)
           b == Lower(j, set)
<1>1. a \in SUBSET b /\ i \in b /\ i \notin a
  <2>1. \A k \in set : k < i => k < j
    OBVIOUS
  <2>2. ~(i < i)
    OBVIOUS
  <2> QED BY <2>1, <2>2 DEF Lower
<1>2. IsFiniteSet(a) /\ IsFiniteSet(b)
  BY BelowIsPart
<1> HIDE DEF a, b
<1>3. /\ Cardinality(a) <= Cardinality(b) /\ Cardinality(a) # Cardinality(b)
      /\ Cardinality(a) \in Nat /\ Cardinality(b) \in Nat
  BY <1>1, <1>2, FS_Subset, FS_CardinalityType
<1>4. Cardinality(a) < Cardinality(b)
  BY <1>3
<1> QED BY <1>4 DEF a, b

\* The places are told apart by how many are below them, and there is one for each number.
LEMMA NthPlace ==
  ASSUME NEW set \in SUBSET Int, IsFiniteSet(set)
  PROVE  LET rank == [i \in set |-> Cardinality(Lower(i, set))]
         IN  /\ rank \in Injection(set, 0 .. Cardinality(set) - 1)
             /\ \A n \in 1 .. Cardinality(set) : \E i \in set : rank[i] = n - 1
<1> DEFINE m == Cardinality(set)
           rank == [i \in set |-> Cardinality(Lower(i, set))]
<1>1. m \in Nat
  BY FS_CardinalityType
<1>2. rank \in [set -> 0 .. m - 1]
  BY BelowIsPart
<1>3. ASSUME NEW i \in set, NEW j \in set, i # j PROVE rank[i] # rank[j]
  <2>1. \A k \in set : rank[k] = Cardinality(Lower(k, set)) /\ rank[k] \in Int
    BY <1>2
  <2>2. CASE i < j
    BY <2>1, <2>2, FewerBelow
  <2>3. CASE j < i
    BY <2>1, <2>3, FewerBelow
  <2> QED BY <1>3, <2>2, <2>3
<1> HIDE DEF rank
<1>4. rank \in Injection(set, 0 .. m - 1)
  BY <1>2, <1>3 DEF Injection, IsInjective
<1>5. IsFiniteSet(0 .. m - 1) /\ Cardinality(0 .. m - 1) = m
  BY <1>1, FS_Interval
<1>6. rank \in Surjection(set, 0 .. m - 1)
  BY <1>4, <1>5, FS_Injection
<1>7. \A n \in 1 .. m : \E i \in set : rank[i] = n - 1
  <2> SUFFICES ASSUME NEW n \in 1 .. m PROVE \E i \in set : rank[i] = n - 1
    OBVIOUS
  <2>1. n - 1 \in 0 .. m - 1
    BY <1>1
  <2> QED BY <1>6, <2>1 DEF Surjection
<1> QED BY <1>4, <1>7 DEF rank

\* A finite set of numbers has a largest.
LEMMA LargestIsOne ==
  ASSUME NEW set \in SUBSET Int, IsFiniteSet(set), set # {}
  PROVE  Max(set) \in set /\ \A i \in set : i <= Max(set)
<1> DEFINE m == Cardinality(set)
<1>1. m \in Nat /\ m # 0
  BY FS_CardinalityType, FS_EmptySet
<1>2. m \in 1 .. m
  BY <1>1
<1>3. PICK i \in set : Cardinality(Lower(i, set)) = m - 1
  BY <1>2, NthPlace
<1>4. \A j \in set : j <= i
  <2>1. Lower(i, set) \in SUBSET (set \ {i})
    BY DEF Lower
  <2>2. /\ IsFiniteSet(set \ {i}) /\ Cardinality(set \ {i}) = m - 1
    BY FS_RemoveElement
  <2>3. Lower(i, set) = set \ {i}
    BY <1>3, <2>1, <2>2, FS_Subset
  <2> QED BY <2>3 DEF Lower
<1>5. \E x \in set : \A y \in set : x >= y
  BY <1>4
<1> QED BY <1>5 DEF Max

\* PickedFrom takes the elements at the places, and nothing else.
LEMMA PickedIsThere ==
  ASSUME NEW series, NEW places \in SUBSET Int, IsFiniteSet(places)
  PROVE  LET picked == PickedFrom(series, places)
         IN  /\ picked = [n \in 1 .. Cardinality(places) |-> picked[n]]
             /\ \A n \in 1 .. Cardinality(places) : \E i \in places : picked[n] = series[i]
<1> SUFFICES ASSUME NEW n \in 1 .. Cardinality(places)
             PROVE  \E i \in places : PickedFrom(series, places)[n] = series[i]
  BY DEF PickedFrom
<1>1. \E i \in places : Cardinality({j \in places : j < i}) = n - 1
  BY NthPlace DEF Lower
<1> QED BY <1>1 DEF PickedFrom

\* What is added after the places does not matter.
LEMMA PickedStays ==
  ASSUME NEW series, NEW longer, NEW places \in SUBSET Int, IsFiniteSet(places),
         \A i \in places : longer[i] = series[i]
  PROVE  PickedFrom(longer, places) = PickedFrom(series, places)
<1> SUFFICES ASSUME NEW n \in 1 .. Cardinality(places)
             PROVE  LET i == CHOOSE x \in places : Cardinality({j \in places : j < x}) = n - 1
                    IN  longer[i] = series[i]
  BY DEF PickedFrom
<1>1. \E i \in places : Cardinality({j \in places : j < i}) = n - 1
  BY NthPlace DEF Lower
<1> QED BY <1>1

-----------------------------------------------------------------------------
(* RunHistory: the inductive invariant.                                    *)

\* The candle cache and the date.
CacheOK ==
    /\ marketDay \in 0 .. LastMarketDay
    /\ \A s \in Symbols : /\ \E R : quotes[s] \in Seq(R)
                          /\ \A i \in DOMAIN quotes[s] : quotes[s][i].day \in Int

RunsOK ==
    /\ \E R : scans \in Seq(R)
    /\ \A k \in DOMAIN scans :
        /\ scans[k].snapshot \in Int /\ \E R : scans[k].rows \in Seq(R)
        /\ ScanRunRow(scans[k])

MeasurementsOK ==
    /\ IsFiniteSet(measured)
    /\ \A m \in measured : ForwardReturnRow(m)
    /\ \A x, y \in measured :
        x.run = y.run /\ x.result = y.result /\ x.horizon = y.horizon => x = y

ObservationsOK ==
    /\ \E R : observations \in Seq(R)
    /\ \A i \in DOMAIN observations :
        /\ observations[i].file \in UniverseFiles
        /\ observations[i].health = CollectUniverseHealth(observations[i].file)

HistoryInv ==
    /\ CacheOK /\ RunsOK /\ MeasurementsOK /\ ObservationsOK
    /\ ScoresAreOfTheirDay /\ RegressionsAreReal

-----------------------------------------------------------------------------
(* Scores.                                                                 *)

\* Scores are made of the candles that are read.
LEMMA ScoresOfWhatIsRead ==
  ASSUME NEW frame, NEW snapshot,
         \A s : ReadCachedCandles(s, snapshot)' = ReadCachedCandles(s, snapshot)
  PROVE  ScoreCandidates(frame, snapshot)' = ScoreCandidates(frame, snapshot)
<1>1. \A i \in DOMAIN frame :
         ReadCachedCandles(frame[i].symbol, snapshot)' = ReadCachedCandles(frame[i].symbol, snapshot)
  OBVIOUS
<1>2. ComponentFrames(frame, snapshot)' = ComponentFrames(frame, snapshot)
  <2>1. [i \in DOMAIN frame |-> LiquidityRaw(ReadCachedCandles(frame[i].symbol, snapshot))]'
        = [i \in DOMAIN frame |-> LiquidityRaw(ReadCachedCandles(frame[i].symbol, snapshot))]
    BY <1>1
  <2>2. [i \in DOMAIN frame |-> RiskScore(ReadCachedCandles(frame[i].symbol, snapshot))]'
        = [i \in DOMAIN frame |-> RiskScore(ReadCachedCandles(frame[i].symbol, snapshot))]
    BY <1>1
  <2> QED BY <2>1, <2>2 DEF ComponentFrames
<1> QED BY <1>2 DEF ScoreCandidates

\* As long as the candles stay, so do the scores.
LEMMA SameScores ==
  ASSUME UNCHANGED quotes
  PROVE  \A frame, snapshot : ScoreCandidates(frame, snapshot)' = ScoreCandidates(frame, snapshot)
<1> SUFFICES ASSUME NEW frame, NEW snapshot
             PROVE  ScoreCandidates(frame, snapshot)' = ScoreCandidates(frame, snapshot)
  OBVIOUS
<1>1. \A s : ReadCachedCandles(s, snapshot)' = ReadCachedCandles(s, snapshot)
  BY DEF ReadCachedCandles
<1> QED BY <1>1, ScoresOfWhatIsRead

\* A later day's candles are not read.
LEMMA LaterCandlesAreNotRead ==
  ASSUME CacheOK, NextMarketDay, NEW snapshot \in Int, snapshot <= marketDay
  PROVE  \A s : ReadCachedCandles(s, snapshot)' = ReadCachedCandles(s, snapshot)
<1> SUFFICES ASSUME NEW s PROVE ReadCachedCandles(s, snapshot)' = ReadCachedCandles(s, snapshot)
  OBVIOUS
<1>1. CASE s \notin SecurityIds
  BY <1>1 DEF ReadCachedCandles
<1>2. CASE s \in SecurityIds
  <2> DEFINE read == {i \in DOMAIN quotes[s] : quotes[s][i].day <= snapshot}
             again == {i \in DOMAIN quotes'[s] : quotes'[s][i].day <= snapshot}
  <2>1. s \in Symbols
    BY <1>2, HistoryAssumption
  <2>2. PICK R : quotes[s] \in Seq(R)
    BY <2>1 DEF CacheOK
  <2>3. PICK q \in NextQuotes :
          quotes' = [x \in Symbols |->
              IF q[x] = None THEN quotes[x]
              ELSE Append(quotes[x], [day |-> marketDay', open |-> q[x].open,
                                      close |-> q[x].close, volume |-> q[x].volume])]
    BY DEF NextMarketDay
  <2>4. marketDay' > snapshot /\ marketDay' \in Int
    BY DEF NextMarketDay, CacheOK
  <2>5. Len(quotes[s]) \in Nat /\ DOMAIN quotes[s] = 1 .. Len(quotes[s])
    BY <2>2
  <2>6. again = read /\ \A i \in read : quotes'[s][i] = quotes[s][i]
    <3>1. CASE q[s] = None
      BY <2>1, <2>3, <3>1
    <3>2. CASE q[s] # None
      <4> DEFINE bar == [day |-> marketDay', open |-> q[s].open, close |-> q[s].close,
                         volume |-> q[s].volume]
      <4>1. quotes'[s] = Append(quotes[s], bar) /\ bar.day = marketDay'
        BY <2>1, <2>3, <3>2
      <4> HIDE DEF bar
      <4>2. /\ DOMAIN quotes'[s] = 1 .. Len(quotes[s]) + 1
            /\ quotes'[s][Len(quotes[s]) + 1] = bar
            /\ \A i \in 1 .. Len(quotes[s]) : quotes'[s][i] = quotes[s][i]
        <5>1. quotes[s] \in Seq(R \cup {bar})
          BY <2>2
        <5> QED BY <4>1, <5>1, AppendProperties
      <4> QED BY <2>4, <2>5, <4>1, <4>2
    <3> QED BY <3>1, <3>2
  <2>7. read \in SUBSET Int /\ IsFiniteSet(read)
    <3>1. read \in SUBSET (1 .. Len(quotes[s]))
      BY <2>5
    <3>2. IsFiniteSet(1 .. Len(quotes[s]))
      BY <2>5, FS_Interval
    <3> HIDE DEF read
    <3>3. IsFiniteSet(read)
      BY <3>1, <3>2, FS_Subset
    <3> QED BY <2>5, <3>1, <3>3
  <2>8. ReadCachedCandles(s, snapshot) = PickedFrom(quotes[s], read)
    BY <1>2 DEF ReadCachedCandles
  <2>9. ReadCachedCandles(s, snapshot)' = PickedFrom(quotes'[s], again)
    BY <1>2 DEF ReadCachedCandles
  <2> HIDE DEF read, again
  <2> QED BY <2>6, <2>7, <2>8, <2>9, PickedStays
<1> QED BY <1>1, <1>2

-----------------------------------------------------------------------------
(* Universe health.                                                        *)

\* The unmapped rows and their names are finitely many.
LEMMA UnmappedIsFinite ==
  ASSUME NEW file \in UniverseFiles
  PROVE  /\ IsFiniteSet(UnmappedRows(file)) /\ Cardinality(UnmappedRows(file)) \in Nat
         /\ UnmappedNames(file) \in SUBSET Nat /\ IsFiniteSet(UnmappedNames(file))
         /\ Cardinality(UnmappedNames(file)) \in Nat
         /\ Cardinality(UnmappedNames(file)) <= Cardinality(UnmappedRows(file))
<1> DEFINE places == UnmappedRows(file)
           all == {file.rows[i].name : i \in places}
<1>1. file.rows \in Seq([name : Nat, mapped : BOOLEAN])
  BY HistoryAssumption
<1>2. /\ Len(file.rows) \in Nat /\ DOMAIN file.rows = 1 .. Len(file.rows)
      /\ \A i \in DOMAIN file.rows : file.rows[i].name \in Nat
  <2> DEFINE Instrument == [name : Nat, mapped : BOOLEAN]
  <2>1. file.rows \in Seq(Instrument) /\ \A r \in Instrument : r.name \in Nat
    BY <1>1
  <2> HIDE DEF Instrument
  <2> QED BY <2>1
<1>3. IsFiniteSet(1 .. Len(file.rows))
  BY <1>2, FS_Interval
<1>4. places \in SUBSET (1 .. Len(file.rows))
  BY <1>2 DEF UnmappedRows
<1>5. IsFiniteSet(places)
  BY <1>3, <1>4, FS_Subset
<1>6. Cardinality(places) \in Nat
  BY <1>5, FS_CardinalityType
<1>7. all \in SUBSET Nat
  BY <1>2, <1>4
<1>8. UnmappedNames(file) = all \ {0}
  BY DEF UnmappedNames
<1> HIDE DEF places
<1>9. IsFiniteSet(all) /\ Cardinality(all) <= Cardinality(places)
  <2> DEFINE name == [i \in places |-> file.rows[i].name]
  <2>1. name \in Surjection(places, all)
    BY DEF Surjection
  <2> QED BY <1>5, <2>1, FS_Surjection
<1> HIDE DEF all
<1>10. all \ {0} \in SUBSET all
  OBVIOUS
<1>11. IsFiniteSet(all \ {0}) /\ Cardinality(all \ {0}) <= Cardinality(all)
  BY <1>9, <1>10, FS_Subset
<1>12. Cardinality(all \ {0}) \in Nat /\ Cardinality(all) \in Nat
  BY <1>9, <1>11, FS_CardinalityType
<1>13. Cardinality(all \ {0}) <= Cardinality(places)
  BY <1>6, <1>9, <1>11, <1>12
<1> QED BY <1>5, <1>6, <1>7, <1>8, <1>11, <1>12, <1>13 DEF places

Truncated(file) == Cardinality(UnmappedNames(file)) > MaxNames
Complete(file)  == ~Truncated(file) /\ \A i \in UnmappedRows(file) : file.rows[i].name # 0
Kept(file) ==
    {x \in UnmappedNames(file) : Cardinality(Lower(x, UnmappedNames(file))) < MaxNames}

\* What is collected of a file that can be read, and of one that cannot.
LEMMA Collected ==
  ASSUME NEW file \in UniverseFiles
  PROVE  LET h == CollectUniverseHealth(file)
         IN  /\ file.state = "valid" => /\ h.status = "valid"
                                        /\ h.unmapped = Cardinality(UnmappedRows(file))
                                        /\ h.names = Kept(file)
                                        /\ h.truncated = Truncated(file)
                                        /\ h.complete = Complete(file)
             /\ file.state # "valid" => /\ h.status = file.state /\ h.unmapped = 0
                                        /\ h.names = {} /\ h.truncated = FALSE
                                        /\ h.complete = FALSE
  BY Zenon DEF CollectUniverseHealth, Truncated, Complete, Kept, Lower

\* No more than the limit are kept, and every name when there are no more.
LEMMA KeptNames ==
  ASSUME NEW file \in UniverseFiles
  PROVE  /\ Kept(file) \in SUBSET UnmappedNames(file)
         /\ ~Truncated(file) => Kept(file) = UnmappedNames(file)
         /\ Cardinality(Kept(file)) <= MaxNames
         /\ Cardinality(Kept(file)) <= Cardinality(UnmappedRows(file))
         /\ Cardinality(Kept(file)) \in Nat
<1> DEFINE names == UnmappedNames(file)
           rank == [x \in names |-> Cardinality(Lower(x, names))]
           low == [x \in Kept(file) |-> rank[x]]
<1>1. /\ names \in SUBSET Int /\ IsFiniteSet(names) /\ Cardinality(names) \in Nat
      /\ Cardinality(names) <= Cardinality(UnmappedRows(file))
      /\ Cardinality(UnmappedRows(file)) \in Nat /\ MaxNames \in Nat
  BY UnmappedIsFinite, HistoryAssumption
<1>2. Kept(file) \in SUBSET names
  BY DEF Kept
<1>3. IsFiniteSet(Kept(file)) /\ Cardinality(Kept(file)) <= Cardinality(names)
  BY <1>1, <1>2, FS_Subset
<1>4. Cardinality(Kept(file)) \in Nat
  BY <1>3, FS_CardinalityType
<1>5. ~Truncated(file) => Kept(file) = names
  <2> SUFFICES ASSUME ~Truncated(file), NEW x \in names
               PROVE  Cardinality(Lower(x, names)) < MaxNames
    BY DEF Kept
  <2> HIDE DEF names
  <2>1. Cardinality(Lower(x, names)) \in 0 .. Cardinality(names) - 1
    BY <1>1, BelowIsPart
  <2>2. Cardinality(names) <= MaxNames
    BY <1>1 DEF Truncated, names
  <2> QED BY <1>1, <2>1, <2>2
<1>6. rank \in Injection(names, 0 .. Cardinality(names) - 1)
  <2> HIDE DEF names
  <2> QED BY <1>1, NthPlace
<1>7. \A x \in Kept(file) : low[x] = Cardinality(Lower(x, names)) /\ low[x] \in 0 .. MaxNames - 1
  <2> SUFFICES ASSUME NEW x \in Kept(file)
               PROVE  Cardinality(Lower(x, names)) \in 0 .. MaxNames - 1
    BY <1>2
  <2>1. Cardinality(Lower(x, names)) < MaxNames /\ x \in names
    BY DEF Kept
  <2> HIDE DEF names
  <2>2. Cardinality(Lower(x, names)) \in 0 .. Cardinality(names) - 1
    BY <1>1, <2>1, BelowIsPart
  <2> QED BY <1>1, <2>1, <2>2
<1> HIDE DEF rank
<1>8. low \in Injection(Kept(file), 0 .. MaxNames - 1)
  <2>1. \A x \in names : \A y \in names : rank[x] = rank[y] => x = y
    BY <1>6 DEF Injection, IsInjective
  <2>2. \A x \in Kept(file) : \A y \in Kept(file) : low[x] = low[y] => x = y
    BY <1>2, <2>1
  <2>3. low \in [Kept(file) -> 0 .. MaxNames - 1]
    BY <1>7
  <2> HIDE DEF low
  <2> QED BY <2>2, <2>3 DEF Injection, IsInjective
<1> HIDE DEF low, names
<1>9. IsFiniteSet(0 .. MaxNames - 1) /\ Cardinality(0 .. MaxNames - 1) = MaxNames
  <2>1. MaxNames \in Nat
    BY <1>1
  <2> QED BY <2>1, FS_Interval
<1>10. Cardinality(Kept(file)) <= MaxNames
  BY <1>8, <1>9, FS_Injection
<1>11. Cardinality(Kept(file)) <= Cardinality(UnmappedRows(file))
  BY <1>1, <1>3, <1>4
<1> QED BY <1>2, <1>4, <1>5, <1>10, <1>11 DEF names

\* What is collected can be stored.
LEMMA SnapshotIsOne ==
  ASSUME NEW file \in UniverseFiles
  PROVE  UniverseHealthSnapshot(CollectUniverseHealth(file))
<1> DEFINE h == CollectUniverseHealth(file)
           u == h.unmapped
<1>1. file.state \in {"valid", "missing", "unreadable"} /\ MaxNames \in Nat
  BY HistoryAssumption
<1>2. /\ u \in Nat /\ Cardinality(h.names) \in Nat
      /\ Cardinality(h.names) <= MaxNames /\ Cardinality(h.names) <= u
  <2>1. CASE file.state = "valid"
    BY <2>1, Collected, KeptNames, UnmappedIsFinite
  <2>2. CASE file.state # "valid"
    <3>1. u = 0 /\ h.names = {}
      BY <2>2, Collected
    <3>2. Cardinality({}) = 0
      BY FS_EmptySet
    <3> QED BY <1>1, <3>1, <3>2
  <2> QED BY <2>1, <2>2
<1>3. h.status \in {"valid", "missing", "unreadable"}
  BY <1>1, Collected
<1>4. h.complete => ~h.truncated
  BY Collected, Zenon DEF Complete
<1>5. h.status # "valid" => h.unmapped = 0 /\ ~h.complete
  BY Collected, Zenon
<1> HIDE DEF h
<1>6. Cardinality(h.names) <= Min({MaxNames, h.unmapped})
  <2>1. Min({MaxNames, u}) = IF MaxNames <= u THEN MaxNames ELSE u
    <3> HIDE DEF u
    <3> QED BY <1>1, <1>2 DEF Min
  <2> QED BY <1>2, <2>1
<1> QED BY <1>3, <1>4, <1>5, <1>6, Zenon DEF UniverseHealthSnapshot, h

\* A regression between two files that can be read.
LEMMA Detected ==
  ASSUME NEW now \in UniverseFiles, NEW last \in UniverseFiles,
         now.state = "valid", last.state = "valid"
  PROVE  LET r == DetectMappingRegression(CollectUniverseHealth(now), CollectUniverseHealth(last))
         IN  /\ (r # None) <=> Cardinality(UnmappedRows(now)) > Cardinality(UnmappedRows(last))
             /\ r # None => r.newly \subseteq UnmappedNames(now) \ UnmappedNames(last)
<1> DEFINE h == CollectUniverseHealth(now)
           b == CollectUniverseHealth(last)
           full == h.complete /\ b.complete /\ ~b.truncated
           regression == [from |-> b.unmapped, to |-> h.unmapped,
                          newly |-> IF full THEN h.names \ b.names ELSE {}]
           r == DetectMappingRegression(h, b)
<1>1. /\ h.status = "valid" /\ h.unmapped = Cardinality(UnmappedRows(now)) /\ h.names = Kept(now)
      /\ b.unmapped = Cardinality(UnmappedRows(last)) /\ b.names = Kept(last)
      /\ b.status = "valid"
  BY Collected
<1>2. b.truncated = Truncated(last)
  BY Collected
<1>3. full => Kept(last) = UnmappedNames(last)
  BY <1>2, KeptNames, Zenon
<1>4. b # None
  <2>1. b.truncated \in BOOLEAN
    BY <1>2 DEF Truncated
  <2>2. b.complete \in BOOLEAN
    <3>1. b.complete = Complete(last)
      BY Collected
    <3>2. Complete(last) \in BOOLEAN
      BY DEF Complete
    <3> QED BY <3>1, <3>2, Zenon
  <2>3. b.unmapped \in Nat /\ b.names \in SUBSET Nat
    BY <1>1, KeptNames, UnmappedIsFinite
  <2>4. b = [status |-> b.status, unmapped |-> b.unmapped, names |-> b.names,
             truncated |-> b.truncated, complete |-> b.complete]
    BY Zenon DEF CollectUniverseHealth
  <2> HIDE DEF b
  <2>5. b \in [status : {"valid"}, unmapped : Nat, names : SUBSET Nat,
               truncated : BOOLEAN, complete : BOOLEAN]
    <3> DEFINE record == [status |-> b.status, unmapped |-> b.unmapped, names |-> b.names,
                          truncated |-> b.truncated, complete |-> b.complete]
    <3>1. b.status \in {"valid"}
      BY <1>1
    <3>2. record \in [status : {"valid"}, unmapped : Nat, names : SUBSET Nat,
                      truncated : BOOLEAN, complete : BOOLEAN]
      BY <2>1, <2>2, <2>3, <3>1, Zenon
    <3>3. b = record
      BY <2>4
    <3> HIDE DEF record
    <3> QED BY <3>2, <3>3
  <2> QED BY <2>5, HistoryAssumption
<1>5. regression # None
  <2>1. h.unmapped \in Nat /\ b.unmapped \in Nat /\ h.names \in SUBSET Nat
    BY <1>1, KeptNames, UnmappedIsFinite
  <2> HIDE DEF h, b, full
  <2>2. regression \in [from : Nat, to : Nat, newly : SUBSET Nat]
    BY <2>1
  <2> HIDE DEF regression
  <2> QED BY <2>2, HistoryAssumption
<1>6. r = IF h.unmapped <= b.unmapped THEN None ELSE regression
  <2> HIDE DEF h, b
  <2> QED BY <1>1, <1>4, Zenon DEF DetectMappingRegression
<1>7. regression.newly \subseteq UnmappedNames(now) \ UnmappedNames(last)
  <2>1. regression.newly = IF full THEN h.names \ b.names ELSE {}
    BY Zenon
  <2>2. Kept(now) \in SUBSET UnmappedNames(now)
    BY KeptNames
  <2> HIDE DEF full, regression, h, b
  <2> QED BY <1>1, <1>3, <2>1, <2>2
<1>8. Cardinality(UnmappedRows(now)) \in Nat /\ Cardinality(UnmappedRows(last)) \in Nat
  BY UnmappedIsFinite
<1>9. (r # None) <=> h.unmapped > b.unmapped
  <2> HIDE DEF regression, h, b, r
  <2> QED BY <1>1, <1>5, <1>6, <1>8
<1>10. r # None => r.newly \subseteq UnmappedNames(now) \ UnmappedNames(last)
  <2> HIDE DEF regression, h, b, r
  <2> QED BY <1>6, <1>7
<1> QED BY <1>1, <1>9, <1>10

\* What an observation finds is set against the last file that could be read.
LEMMA CheckKeeps ==
  ASSUME ObservationsOK, RegressionsAreReal, NEW file \in UniverseFiles, CheckUniverseHealth(file)
  PROVE  ObservationsOK' /\ RegressionsAreReal'
<1> DEFINE h == CollectUniverseHealth(file)
           base == LatestBaseline(observations)
           row == [health |-> h, file |-> file, regression |-> DetectMappingRegression(h, base)]
<1>1. PICK R : observations \in Seq(R)
  BY DEF ObservationsOK
<1>2. PICK n : n = Len(observations) + 1
  OBVIOUS
<1>3. observations' = Append(observations, row)
  BY DEF CheckUniverseHealth, Recorded
<1>4. row.health = h /\ row.file = file /\ row.regression = DetectMappingRegression(h, base)
  OBVIOUS
<1> HIDE DEF row
<1>5. /\ Len(observations) \in Nat /\ DOMAIN observations = 1 .. Len(observations)
      /\ observations' \in Seq(R \cup {row})
      /\ DOMAIN observations' = DOMAIN observations \cup {n} /\ n \notin DOMAIN observations
      /\ observations'[n] = row
      /\ \A i \in DOMAIN observations : observations'[i] = observations[i]
  <2>1. observations \in Seq(R \cup {row})
    BY <1>1
  <2> QED BY <1>1, <1>2, <1>3, <2>1
<1>6. ObservationsOK'
  BY <1>4, <1>5 DEF ObservationsOK
<1> DEFINE Valid(seen, i) == {j \in 1..(i - 1) : seen[j].file.state = "valid"}
<1>7. ASSUME NEW i \in DOMAIN observations'
      PROVE  /\ Valid(observations', i) = Valid(observations, i)
             /\ \A j \in Valid(observations, i) :
                  observations'[j] = observations[j] /\ j \in DOMAIN observations
  BY <1>2, <1>5
<1>8. ASSUME NEW i \in DOMAIN observations', Valid(observations, i) # {}
      PROVE  Max(Valid(observations, i)) \in Valid(observations, i)
  <2> DEFINE v == Valid(observations, i)
  <2>1. v \in SUBSET (1 .. Len(observations))
    BY <1>5, <1>7
  <2>2. IsFiniteSet(1 .. Len(observations)) /\ 1 .. Len(observations) \in SUBSET Int
    <3>1. Len(observations) \in Nat
      BY <1>5
    <3> QED BY <3>1, FS_Interval
  <2> HIDE DEF v
  <2>3. IsFiniteSet(v) /\ v \in SUBSET Int
    BY <2>1, <2>2, FS_Subset
  <2>4. v # {}
    BY <1>8 DEF v
  <2>5. Max(v) \in v
    BY <2>3, <2>4, LargestIsOne
  <2> QED BY <2>5 DEF v
<1> DEFINE v == Valid(observations, n)
<1>9. v = {i \in DOMAIN observations : observations[i].health.status = "valid"}
  <2>1. \A i \in DOMAIN observations :
          observations[i].health.status = "valid" <=> observations[i].file.state = "valid"
    BY Collected DEF ObservationsOK
  <2>2. 1 .. (n - 1) = DOMAIN observations
    BY <1>2, <1>5
  <2> QED BY <2>1, <2>2
<1>10. base = IF v = {} THEN None ELSE observations[Max(v)].health
  <2> HIDE DEF v
  <2> QED BY <1>9, Zenon DEF LatestBaseline
<1>11. file.state # "valid" \/ v = {} => row.regression = None
  <2>1. CASE file.state # "valid"
    <3>1. h.status # "valid"
      BY <2>1, Collected
    <3> HIDE DEF h, base
    <3> QED BY <1>4, <3>1 DEF DetectMappingRegression
  <2>2. CASE v = {}
    <3> HIDE DEF h, v
    <3>1. base = None
      BY <1>10, <2>2
    <3> HIDE DEF base
    <3> QED BY <1>4, <3>1 DEF DetectMappingRegression
  <2> QED BY <2>1, <2>2
<1>12. ASSUME file.state = "valid", v # {}
       PROVE  LET last == observations[Max(v)].file
              IN  /\ (row.regression # None) <=>
                        Cardinality(UnmappedRows(file)) > Cardinality(UnmappedRows(last))
                  /\ row.regression # None =>
                        row.regression.newly \subseteq UnmappedNames(file) \ UnmappedNames(last)
  <2> DEFINE last == observations[Max(v)].file
  <2>1. Max(v) \in v /\ Max(v) \in DOMAIN observations
    BY <1>5, <1>7, <1>8, <1>12
  <2>2. last.state = "valid" /\ last \in UniverseFiles
    BY <2>1 DEF ObservationsOK
  <2>3. base = CollectUniverseHealth(last)
    BY <1>10, <1>12, <2>1 DEF ObservationsOK
  <2> HIDE DEF last
  <2> DEFINE r == DetectMappingRegression(h, CollectUniverseHealth(last))
  <2>4. row.regression = r
    BY <1>4, <2>3
  <2>5. /\ (r # None) <=> Cardinality(UnmappedRows(file)) > Cardinality(UnmappedRows(last))
        /\ r # None => r.newly \subseteq UnmappedNames(file) \ UnmappedNames(last)
    BY <1>12, <2>2, Detected
  <2> HIDE DEF r
  <2>6. /\ (row.regression # None) <=>
              Cardinality(UnmappedRows(file)) > Cardinality(UnmappedRows(last))
        /\ row.regression # None =>
              row.regression.newly \subseteq UnmappedNames(file) \ UnmappedNames(last)
    BY <2>4, <2>5
  <2> QED BY <2>6 DEF last
<1>13. RegressionsAreReal'
  <2> SUFFICES ASSUME NEW i \in DOMAIN observations'
               PROVE  LET now == observations'[i]
                          before == Valid(observations', i)
                          last == observations'[Max(before)].file
                      IN /\ now.file.state # "valid" \/ before = {} => now.regression = None
                         /\ now.file.state = "valid" /\ before # {} =>
                              /\ (now.regression # None) <=>
                                   Cardinality(UnmappedRows(now.file)) > Cardinality(UnmappedRows(last))
                              /\ now.regression # None =>
                                   now.regression.newly
                                     \subseteq UnmappedNames(now.file) \ UnmappedNames(last)
    BY DEF RegressionsAreReal
  <2>1. Valid(observations', i) = Valid(observations, i)
    BY <1>7
  <2>2. Valid(observations, i) # {} =>
           observations'[Max(Valid(observations, i))] = observations[Max(Valid(observations, i))]
    BY <1>7, <1>8
  <2>3. CASE i = n
    <3> HIDE DEF Valid, h, base
    <3> QED BY <1>4, <1>5, <1>11, <1>12, <2>1, <2>2, <2>3
  <2>4. CASE i \in DOMAIN observations
    <3>1. observations'[i] = observations[i]
      BY <1>5, <2>4
    <3>2. LET now == observations[i]
              before == Valid(observations, i)
              last == observations[Max(before)].file
          IN /\ now.file.state # "valid" \/ before = {} => now.regression = None
             /\ now.file.state = "valid" /\ before # {} =>
                  /\ (now.regression # None) <=>
                       Cardinality(UnmappedRows(now.file)) > Cardinality(UnmappedRows(last))
                  /\ now.regression # None =>
                       now.regression.newly \subseteq UnmappedNames(now.file) \ UnmappedNames(last)
      BY <2>4 DEF RegressionsAreReal
    <3> HIDE DEF Valid
    <3> QED BY <2>1, <2>2, <3>1, <3>2
  <2> QED BY <1>5, <2>3, <2>4
<1> QED BY <1>6, <1>13

-----------------------------------------------------------------------------
(* The steps of the runs.                                                  *)

\* No more rows are stored than were emitted.
LEMMA StoredRows ==
  ASSUME NEW n \in Nat, NEW frame, DOMAIN frame = 1 .. n, NEW snapshot
  PROVE  LET stored == ResultRows(frame, snapshot)
         IN  /\ \E R : stored \in Seq(R)
             /\ Len(stored) \in 0 .. n
<1> DEFINE places == {i \in DOMAIN frame : SatisfiesContract(frame[i])}
           kept == PickedFrom(frame, places)
           m == Cardinality(places)
           stored == [i \in DOMAIN kept |-> NormalizeScreenerRow(kept[i], snapshot)]
<1>1. IsFiniteSet(1 .. n) /\ Cardinality(1 .. n) = n
  BY FS_Interval
<1>2. places \in SUBSET (1 .. n)
  OBVIOUS
<1> HIDE DEF places
<1>3. IsFiniteSet(places) /\ m <= n
  <2>1. IsFiniteSet(places) /\ Cardinality(places) <= Cardinality(1 .. n)
    BY <1>1, <1>2, FS_Subset
  <2> QED BY <1>1, <2>1
<1>4. m \in Nat
  BY <1>3, FS_CardinalityType
<1>5. DOMAIN kept = 1 .. m
  BY DEF PickedFrom
<1> HIDE DEF m, kept
<1>6. /\ stored = [i \in 1 .. m |-> stored[i]]
  BY <1>5
<1>7. ResultRows(frame, snapshot) = stored
  BY Zenon DEF ResultRows, kept, places
<1> HIDE DEF stored
<1>8. stored \in Seq({stored[i] : i \in 1 .. m}) /\ Len(stored) = m
  BY <1>4, <1>6
<1> QED BY <1>3, <1>4, <1>7, <1>8

\* A run is scored row by row.
LEMMA ScoredRows ==
  ASSUME NEW frame, NEW snapshot, NEW outcome
  PROVE  DOMAIN ScoredSafely(frame, snapshot, outcome) = DOMAIN frame
<1>1. DOMAIN ScoreCandidates(frame, snapshot) = DOMAIN frame
  <2> DEFINE scored ==
        [i \in DOMAIN frame |-> WithScore(frame[i], FinalScore(ComponentFrames(frame, snapshot), i))]
  <2>1. DOMAIN scored = DOMAIN frame /\ ScoreCandidates(frame, snapshot) = SortByFinalScore(scored)
    BY DEF ScoreCandidates
  <2> HIDE DEF scored
  <2>2. DOMAIN SortByFinalScore(scored) = DOMAIN scored
    BY DEF SortByFinalScore
  <2> QED BY <2>1, <2>2
<1>2. DOMAIN WithNullFinalScore(frame) = DOMAIN frame
  BY DEF WithNullFinalScore
<1> QED BY <1>1, <1>2 DEF ScoredSafely

\* A run that stores nothing of what it emitted has failed, and one that failed has nothing.
LEMMA StatusOfRun ==
  ASSUME NEW frame, NEW stored, NEW outcome, NEW R, stored \in Seq(R),
         Len(frame) \in Nat, Len(stored) \in 0 .. Len(frame)
  PROVE  /\ RunStatus(frame, stored, outcome) \in {"success", "partial", "failed"}
         /\ RunStatus(frame, stored, outcome) = "failed" => stored = <<>>
<1>1. CASE Len(stored) < Len(frame) /\ stored = <<>>
  BY <1>1 DEF RunStatus
<1>2. CASE Len(stored) < Len(frame) /\ stored # <<>>
  BY <1>2 DEF RunStatus
<1>3. CASE Len(stored) = Len(frame)
  BY <1>3 DEF RunStatus
<1> QED BY <1>1, <1>2, <1>3

\* One more run leaves what is known of the others.
LEMMA RunIsAdded ==
  ASSUME RunsOK, MeasurementsOK, ScoresAreOfTheirDay,
         NEW run, scans' = Append(scans, run),
         run.snapshot \in Int, NEW S, run.rows \in Seq(S), ScanRunRow(run),
         run.scored => run.rows = ResultRows(ScoreCandidates(run.emitted, run.snapshot), run.snapshot),
         UNCHANGED <<marketDay, quotes, measured>>
  PROVE  RunsOK' /\ MeasurementsOK' /\ ScoresAreOfTheirDay'
<1>1. PICK R : scans \in Seq(R)
  BY DEF RunsOK
<1>2. PICK n : n = Len(scans) + 1
  OBVIOUS
<1>3. /\ Len(scans) \in Nat /\ DOMAIN scans = 1 .. Len(scans)
      /\ scans' \in Seq(R \cup {run})
      /\ DOMAIN scans' = DOMAIN scans \cup {n} /\ n \notin DOMAIN scans
      /\ scans'[n] = run
      /\ \A k \in DOMAIN scans : scans'[k] = scans[k]
  <2>1. scans \in Seq(R \cup {run})
    BY <1>1
  <2> QED BY <1>1, <1>2, <2>1
<1>4. RunsOK'
  <2>1. ASSUME NEW k \in DOMAIN scans'
        PROVE  /\ scans'[k].snapshot \in Int /\ \E T : scans'[k].rows \in Seq(T)
               /\ ScanRunRow(scans'[k])
    BY <1>3 DEF RunsOK
  <2> QED BY <1>3, <2>1 DEF RunsOK, ScanRunRow
<1>5. MeasurementsOK'
  <2>1. ASSUME NEW m \in measured
        PROVE  ForwardReturnRow(m)'
    BY <1>3 DEF MeasurementsOK, ForwardReturnRow
  <2> QED BY <2>1 DEF MeasurementsOK
<1>6. ScoresAreOfTheirDay'
  <2>1. \A frame, snapshot :
          ScoreCandidates(frame, snapshot)' = ScoreCandidates(frame, snapshot)
    BY SameScores
  <2>2. ASSUME NEW k \in DOMAIN scans', scans'[k].scored
        PROVE  scans'[k].rows =
                 ResultRows(ScoreCandidates(scans'[k].emitted, scans'[k].snapshot), scans'[k].snapshot)
    BY <1>3, <2>2, Zenon DEF ScoresAreOfTheirDay
  <2> QED BY <2>1, <2>2 DEF ScoresAreOfTheirDay
<1> QED BY <1>4, <1>5, <1>6

\* A run is about the day the market is at, or an earlier one.
LEMMA SnapshotsArePast ==
  ASSUME HistoryInv, NEW snapshot \in Snapshots
  PROVE  snapshot \in Int /\ snapshot <= marketDay
<1>1. marketDay \in Int
  BY DEF HistoryInv, CacheOK
<1>2. Delays \subseteq Nat
  BY HistoryAssumption
<1>3. PICK delay \in Delays : snapshot = marketDay - delay
  BY DEF Snapshots
<1> QED BY <1>1, <1>2, <1>3

\* A run of a screener, scored or not.
LEMMA ScanKeeps ==
  ASSUME HistoryInv, NEW screener \in Screeners, NEW frame \in Emissions, NEW snapshot \in Snapshots,
         NEW outcome \in {"complete", "lossy", "unscored"},
         Scan(screener, frame, snapshot, outcome)
  PROVE  HistoryInv'
<1> DEFINE scored == ScoredSafely(frame, snapshot, outcome)
           stored == ResultRows(scored, snapshot)
           status == RunStatus(frame, stored, outcome)
           run == [screener |-> screener, snapshot |-> snapshot, status |-> status,
                   rows |-> stored, emitted |-> frame, scored |-> outcome # "unscored"]
<1>1. /\ scans' = Append(scans, run)
      /\ UNCHANGED <<marketDay, quotes, measured, observations>>
  BY DEF Scan
<1>2. snapshot \in Int /\ snapshot <= marketDay
  BY SnapshotsArePast
<1>3. frame \in Seq(ToSet(frame))
  BY HistoryAssumption
<1>4. Len(frame) \in Nat /\ DOMAIN frame = 1 .. Len(frame)
  BY <1>3
<1>5. DOMAIN scored = 1 .. Len(frame)
  BY <1>4, ScoredRows
<1> HIDE DEF scored
<1>6. /\ \E R : stored \in Seq(R)
      /\ Len(stored) \in 0 .. Len(frame)
  BY <1>4, <1>5, StoredRows
<1>7. outcome # "unscored" => stored = ResultRows(ScoreCandidates(frame, snapshot), snapshot)
  BY DEF ScoredSafely, scored
<1> HIDE DEF stored
<1>8. /\ status \in {"success", "partial", "failed"}
      /\ status = "failed" => stored = <<>>
  BY <1>4, <1>6, StatusOfRun
<1> HIDE DEF status
<1>9. /\ run.screener = screener /\ run.snapshot = snapshot /\ run.status = status
      /\ run.rows = stored /\ run.emitted = frame
  OBVIOUS
<1>10. run.scored = (outcome # "unscored")
  BY Zenon
<1> HIDE DEF run
<1>11. ScanRunRow(run)
  BY <1>2, <1>8, <1>9 DEF ScanRunRow, Finalized
<1>12. run.scored =>
         run.rows = ResultRows(ScoreCandidates(run.emitted, run.snapshot), run.snapshot)
  BY <1>7, <1>9, <1>10, Zenon
<1>13. RunsOK' /\ MeasurementsOK' /\ ScoresAreOfTheirDay'
  <2>1. UNCHANGED <<marketDay, quotes, measured>>
    BY <1>1
  <2> QED BY <1>1, <1>2, <1>6, <1>9, <1>11, <1>12, <2>1, RunIsAdded DEF HistoryInv
<1>14. CacheOK' /\ ObservationsOK' /\ RegressionsAreReal'
  BY <1>1 DEF HistoryInv, CacheOK, ObservationsOK, RegressionsAreReal
<1> QED BY <1>13, <1>14 DEF HistoryInv

\* A screener that raises leaves a failed run without results.
LEMMA RaiseKeeps ==
  ASSUME HistoryInv, NEW screener \in Screeners, NEW snapshot \in Snapshots,
         ScreenerRaises(screener, snapshot)
  PROVE  HistoryInv'
<1> DEFINE run == [screener |-> screener, snapshot |-> snapshot, status |-> "failed",
                   rows |-> <<>>, emitted |-> <<>>, scored |-> FALSE]
<1>1. /\ scans' = Append(scans, run)
      /\ UNCHANGED <<marketDay, quotes, measured, observations>>
  BY DEF ScreenerRaises
<1>2. snapshot \in Int /\ snapshot <= marketDay
  BY SnapshotsArePast
<1>3. /\ run.screener = screener /\ run.snapshot = snapshot /\ run.status = "failed"
      /\ run.rows = <<>>
  OBVIOUS
<1>4. ~run.scored
  OBVIOUS
<1> HIDE DEF run
<1>5. ScanRunRow(run)
  BY <1>2, <1>3 DEF ScanRunRow, Finalized
<1>6. run.rows \in Seq({})
  BY <1>3
<1>7. RunsOK' /\ MeasurementsOK' /\ ScoresAreOfTheirDay'
  <2>1. UNCHANGED <<marketDay, quotes, measured>>
    BY <1>1
  <2> QED BY <1>1, <1>2, <1>3, <1>4, <1>5, <1>6, <2>1, RunIsAdded DEF HistoryInv
<1>8. CacheOK' /\ ObservationsOK' /\ RegressionsAreReal'
  BY <1>1 DEF HistoryInv, CacheOK, ObservationsOK, RegressionsAreReal
<1> QED BY <1>7, <1>8 DEF HistoryInv

\* A new day's candles change no score of an earlier day.
LEMMA DayKeeps ==
  ASSUME HistoryInv, NextMarketDay
  PROVE  HistoryInv'
<1>1. /\ marketDay' = marketDay + 1 /\ marketDay \in Int /\ marketDay' \in 0 .. LastMarketDay
      /\ scans' = scans /\ measured' = measured /\ observations' = observations
  BY HistoryAssumption DEF NextMarketDay, HistoryInv, CacheOK
<1>2. CacheOK'
  <2>1. PICK q \in NextQuotes :
          quotes' = [x \in Symbols |->
              IF q[x] = None THEN quotes[x]
              ELSE Append(quotes[x], [day |-> marketDay', open |-> q[x].open,
                                      close |-> q[x].close, volume |-> q[x].volume])]
    BY DEF NextMarketDay
  <2>2. ASSUME NEW s \in Symbols
        PROVE  /\ \E R : quotes'[s] \in Seq(R)
               /\ \A i \in DOMAIN quotes'[s] : quotes'[s][i].day \in Int
    <3> DEFINE bar == [day |-> marketDay', open |-> q[s].open, close |-> q[s].close,
                       volume |-> q[s].volume]
    <3>1. PICK R : quotes[s] \in Seq(R)
      BY DEF HistoryInv, CacheOK
    <3>2. \A i \in DOMAIN quotes[s] : quotes[s][i].day \in Int
      BY DEF HistoryInv, CacheOK
    <3>3. CASE q[s] = None
      BY <2>1, <3>1, <3>2, <3>3
    <3>4. CASE q[s] # None
      <4>1. quotes'[s] = Append(quotes[s], bar) /\ bar.day \in Int
        BY <1>1, <2>1, <3>4
      <4> HIDE DEF bar
      <4>2. quotes[s] \in Seq(R \cup {bar})
        BY <3>1
      <4>3. quotes'[s] \in Seq(R \cup {bar})
        BY <4>1, <4>2
      <4>4. \A i \in DOMAIN quotes'[s] :
              (i \in DOMAIN quotes[s] /\ quotes'[s][i] = quotes[s][i]) \/ quotes'[s][i] = bar
        BY <4>1, <4>2
      <4> QED BY <3>2, <4>1, <4>3, <4>4
    <3> QED BY <3>3, <3>4
  <2> QED BY <1>1, <2>2 DEF CacheOK
<1>3. RunsOK'
  BY <1>1 DEF HistoryInv, RunsOK, ScanRunRow
<1>4. MeasurementsOK' /\ ObservationsOK' /\ RegressionsAreReal'
  BY <1>1 DEF HistoryInv, MeasurementsOK, ForwardReturnRow, ObservationsOK, RegressionsAreReal
<1>5. ScoresAreOfTheirDay'
  <2>1. ASSUME NEW k \in DOMAIN scans, scans[k].scored
        PROVE  ScoreCandidates(scans[k].emitted, scans[k].snapshot)'
               = ScoreCandidates(scans[k].emitted, scans[k].snapshot)
    <3>1. PICK frame, snapshot : frame = scans[k].emitted /\ snapshot = scans[k].snapshot
      OBVIOUS
    <3>2. snapshot \in Int /\ snapshot <= marketDay
      BY <3>1 DEF HistoryInv, RunsOK, ScanRunRow
    <3>3. \A s : ReadCachedCandles(s, snapshot)' = ReadCachedCandles(s, snapshot)
      BY <3>2, LaterCandlesAreNotRead DEF HistoryInv
    <3>4. ScoreCandidates(frame, snapshot)' = ScoreCandidates(frame, snapshot)
      BY <3>3, ScoresOfWhatIsRead
    <3> QED BY <1>1, <3>1, <3>4
  <2> QED BY <1>1, <2>1 DEF HistoryInv, ScoresAreOfTheirDay
<1> QED BY <1>2, <1>3, <1>4, <1>5 DEF HistoryInv

\* What is measured of one signal.
LEMMA MeasurementIs ==
  ASSUME NEW k, NEW i, NEW h
  PROVE  LET m == Measurement(k, i, h)
         IN  /\ m.run = k /\ m.result = i /\ m.horizon = h
             /\ m.status \in {"computed", "pending", "insufficient_data"}
<1>1. ASSUME NEW symbol, NEW signal
      PROVE  ForwardReturn(symbol, signal, h).status \in {"computed", "pending", "insufficient_data"}
  BY DEF ForwardReturn, NoReturn
<1> QED BY <1>1 DEF Measurement

\* A signal is measured again only at the horizons that were not settled.
LEMMA MeasureKeeps ==
  ASSUME HistoryInv, NEW k \in DOMAIN scans, NEW i \in DOMAIN scans[k].rows, Measure(k, i)
  PROVE  HistoryInv'
<1> DEFINE pending == {m \in measured : m.run = k /\ m.result = i /\ m.status = "pending"}
           settled == {m \in measured \ pending : m.run = k /\ m.result = i}
           open == Horizons \ {m.horizon : m \in settled}
           new == {Measurement(k, i, h) : h \in open}
<1>1. /\ measured' = (measured \ pending) \cup new
      /\ UNCHANGED <<marketDay, quotes, scans, observations>>
  BY DEF Measure
<1>2. IsFiniteSet(measured')
  <2>1. IsFiniteSet(open)
    BY HistoryAssumption, FS_Difference
  <2>2. IsFiniteSet(measured \ pending)
    BY FS_Difference DEF HistoryInv, MeasurementsOK
  <2>3. IsFiniteSet(new)
    <3> HIDE DEF open
    <3> DEFINE f == [h \in open |-> Measurement(k, i, h)]
    <3>1. f \in Surjection(open, new)
      BY DEF Surjection
    <3> QED BY <2>1, <3>1, FS_Surjection
  <2> HIDE DEF new
  <2> QED BY <1>1, <2>2, <2>3, FS_Union
<1>3. \A x \in new : /\ x.run = k /\ x.result = i /\ x.horizon \in open
                     /\ x = Measurement(k, i, x.horizon)
                     /\ x.status \in {"computed", "pending", "insufficient_data"}
  BY MeasurementIs
<1>4. \A y \in measured \ pending : y.run = k /\ y.result = i => y.horizon \notin open
  OBVIOUS
<1>5. open \subseteq Horizons
  OBVIOUS
<1> HIDE DEF pending, new, open
<1>6. ASSUME NEW x \in measured', NEW y \in measured',
             x.run = y.run, x.result = y.result, x.horizon = y.horizon
      PROVE  x = y
  BY <1>1, <1>3, <1>4, <1>6 DEF HistoryInv, MeasurementsOK
<1>7. \A m \in measured' : ForwardReturnRow(m)
  BY <1>1, <1>3, <1>5 DEF HistoryInv, MeasurementsOK, ForwardReturnRow
<1>8. MeasurementsOK'
  BY <1>1, <1>2, <1>6, <1>7 DEF MeasurementsOK, ForwardReturnRow
<1>9. CacheOK' /\ RunsOK' /\ ObservationsOK' /\ RegressionsAreReal'
  BY <1>1 DEF HistoryInv, CacheOK, RunsOK, ScanRunRow, ObservationsOK, RegressionsAreReal
<1>10. ScoresAreOfTheirDay'
  <2>1. \A frame, snapshot :
          ScoreCandidates(frame, snapshot)' = ScoreCandidates(frame, snapshot)
    BY <1>1, SameScores
  <2> QED BY <1>1, <2>1 DEF HistoryInv, ScoresAreOfTheirDay
<1> QED BY <1>8, <1>9, <1>10 DEF HistoryInv

\* The history starts without a run, a measurement or an observation.
LEMMA HistoryStarts == HistoryInit => HistoryInv
<1> SUFFICES ASSUME HistoryInit
             PROVE  HistoryInv
  OBVIOUS
<1> DEFINE daysOf(s) == {q.day : q \in Range(quotes[s])}
           days == {0} \cup UNION {daysOf(s) : s \in Symbols}
<1>1. /\ quotes = FirstQuotes /\ marketDay = Max(days)
      /\ scans = <<>> /\ measured = {} /\ observations = <<>>
  BY DEF HistoryInit
<1>2. ASSUME NEW s \in Symbols
      PROVE  /\ quotes[s] \in Seq(ToSet(quotes[s]))
             /\ \A i \in DOMAIN quotes[s] : quotes[s][i].day \in 0 .. LastMarketDay
             /\ daysOf(s) \in SUBSET (0 .. LastMarketDay) /\ IsFiniteSet(daysOf(s))
  <2>1. /\ quotes[s] \in Seq(ToSet(quotes[s]))
        /\ \A i \in DOMAIN quotes[s] : quotes[s][i].day \in 0 .. LastMarketDay
    BY <1>1, HistoryAssumption
  <2>2. Len(quotes[s]) \in Nat /\ DOMAIN quotes[s] = 1 .. Len(quotes[s])
    BY <2>1
  <2>3. IsFiniteSet(DOMAIN quotes[s])
    <3>1. IsFiniteSet(1 .. Len(quotes[s]))
      BY <2>2, FS_Interval
    <3> QED BY <2>2, <3>1
  <2>4. daysOf(s) = {quotes[s][i].day : i \in DOMAIN quotes[s]}
    BY DEF Range
  <2>5. daysOf(s) \in SUBSET (0 .. LastMarketDay)
    BY <2>1, <2>4
  <2> HIDE DEF daysOf
  <2>6. IsFiniteSet(daysOf(s))
    <3> DEFINE f == [i \in DOMAIN quotes[s] |-> quotes[s][i].day]
    <3>1. f \in Surjection(DOMAIN quotes[s], daysOf(s))
      BY <2>4 DEF Surjection
    <3> QED BY <2>3, <3>1, FS_Surjection
  <2> QED BY <2>1, <2>5, <2>6
<1>3. days \in SUBSET (0 .. LastMarketDay)
  <2>1. \A s \in Symbols : daysOf(s) \in SUBSET (0 .. LastMarketDay)
    BY <1>2
  <2>2. 0 \in 0 .. LastMarketDay
    BY HistoryAssumption
  <2> HIDE DEF daysOf
  <2> QED BY <2>1, <2>2
<1>4. IsFiniteSet(days)
  <2> HIDE DEF daysOf
  <2> DEFINE all == {daysOf(s) : s \in Symbols}
             f == [s \in Symbols |-> daysOf(s)]
  <2>1. f \in Surjection(Symbols, all)
    BY DEF Surjection
  <2>2. IsFiniteSet(all)
    <3> HIDE DEF f, all
    <3> QED BY <2>1, HistoryAssumption, FS_Surjection
  <2>3. \A d \in all : IsFiniteSet(d)
    BY <1>2
  <2> HIDE DEF all
  <2>4. IsFiniteSet(UNION all)
    BY <2>2, <2>3, FS_UNION
  <2>5. IsFiniteSet({0})
    BY FS_Singleton
  <2>6. IsFiniteSet({0} \cup UNION all)
    BY <2>4, <2>5, FS_Union
  <2> QED BY <2>6 DEF all
<1>5. marketDay \in 0 .. LastMarketDay
  <2>1. days # {} /\ days \in SUBSET Int
    BY <1>3
  <2> HIDE DEF days
  <2> QED BY <1>1, <1>3, <1>4, <2>1, LargestIsOne
<1>6. CacheOK
  <2> HIDE DEF days, daysOf
  <2>1. \A s \in Symbols : /\ quotes[s] \in Seq(ToSet(quotes[s]))
                           /\ \A i \in DOMAIN quotes[s] : quotes[s][i].day \in Int
    BY <1>2
  <2> QED BY <1>5, <2>1 DEF CacheOK
<1>7. scans \in Seq({}) /\ observations \in Seq({})
  BY <1>1
<1>8. RunsOK /\ ObservationsOK
  BY <1>1, <1>7 DEF RunsOK, ObservationsOK
<1>9. MeasurementsOK
  BY <1>1, FS_EmptySet DEF MeasurementsOK
<1>10. ScoresAreOfTheirDay /\ RegressionsAreReal
  BY <1>1 DEF ScoresAreOfTheirDay, RegressionsAreReal
<1> QED BY <1>6, <1>8, <1>9, <1>10 DEF HistoryInv

\* Every step of a run, of a measurement or of a check of the universe.
LEMMA HistoryStep == HistoryInv /\ [HistoryNext \/ UniverseHealthNext]_HistoryVars => HistoryInv'
<1> SUFFICES ASSUME HistoryInv, [HistoryNext \/ UniverseHealthNext]_HistoryVars
             PROVE  HistoryInv'
  OBVIOUS
<1>1. CASE HistoryNext
  <2>1. CASE NextMarketDay
    BY <2>1, DayKeeps
  <2>2. CASE \E s \in Screeners, frame \in Emissions, snapshot \in Snapshots,
                outcome \in {"complete", "lossy", "unscored"} : Scan(s, frame, snapshot, outcome)
    BY <2>2, ScanKeeps
  <2>3. CASE \E s \in Screeners, snapshot \in Snapshots : ScreenerRaises(s, snapshot)
    BY <2>3, RaiseKeeps
  <2>4. CASE \E k \in DOMAIN scans : \E i \in DOMAIN scans[k].rows : Measure(k, i)
    BY <2>4, MeasureKeeps
  <2> QED BY <1>1, <2>1, <2>2, <2>3, <2>4, Zenon DEF HistoryNext
<1>2. ASSUME UNCHANGED <<marketDay, quotes, scans, measured>>
      PROVE  CacheOK' /\ RunsOK' /\ MeasurementsOK' /\ ScoresAreOfTheirDay'
  <2>1. CacheOK' /\ RunsOK' /\ MeasurementsOK'
    BY <1>2 DEF HistoryInv, CacheOK, RunsOK, ScanRunRow, MeasurementsOK, ForwardReturnRow
  <2>2. \A frame, snapshot :
          ScoreCandidates(frame, snapshot)' = ScoreCandidates(frame, snapshot)
    BY <1>2, SameScores
  <2> QED BY <1>2, <2>1, <2>2 DEF HistoryInv, ScoresAreOfTheirDay
<1>3. CASE UniverseHealthNext
  <2>1. PICK file \in UniverseFiles : CheckUniverseHealth(file)
    BY <1>3 DEF UniverseHealthNext
  <2>2. ObservationsOK' /\ RegressionsAreReal'
    BY <2>1, CheckKeeps DEF HistoryInv
  <2>3. UNCHANGED <<marketDay, quotes, scans, measured>>
    BY <2>1 DEF CheckUniverseHealth
  <2> QED BY <1>2, <2>2, <2>3 DEF HistoryInv
<1>4. CASE UNCHANGED HistoryVars
  <2>1. ObservationsOK' /\ RegressionsAreReal'
    BY <1>4 DEF HistoryVars, HistoryInv, ObservationsOK, RegressionsAreReal
  <2>2. UNCHANGED <<marketDay, quotes, scans, measured>>
    BY <1>4 DEF HistoryVars
  <2> QED BY <1>2, <2>1, <2>2 DEF HistoryInv
<1> QED BY <1>1, <1>3, <1>4

-----------------------------------------------------------------------------
(* A signal that several runs found.                                       *)

\* A finite set of numbers has a smallest.
LEMMA SmallestIsOne ==
  ASSUME NEW set \in SUBSET Int, IsFiniteSet(set), set # {}
  PROVE  \E i \in set : \A j \in set : i <= j
<1>1. Cardinality(set) \in Nat /\ Cardinality(set) # 0
  BY FS_CardinalityType, FS_EmptySet
<1>2. 1 \in 1 .. Cardinality(set)
  BY <1>1
<1>3. PICK i \in set : Cardinality(Lower(i, set)) = 0
  <2>1. PICK i \in set : Cardinality(Lower(i, set)) = 1 - 1
    BY <1>2, NthPlace
  <2> QED BY <2>1
<1>4. Lower(i, set) = {}
  BY <1>3, BelowIsPart, FS_EmptySet
<1> QED BY <1>4 DEF Lower

\* Runs and their results are numbered.
LEMMA PlacesAreNumbers ==
  ASSUME HistoryInv, NEW z \in measured
  PROVE  z.run \in Int /\ z.result \in Int
<1>1. z.run \in DOMAIN scans /\ z.result \in DOMAIN scans[z.run].rows
  BY DEF HistoryInv, MeasurementsOK, ForwardReturnRow
<1>2. PICK R : scans \in Seq(R)
  BY DEF HistoryInv, RunsOK
<1>3. PICK S : scans[z.run].rows \in Seq(S)
  BY <1>1 DEF HistoryInv, RunsOK
<1> QED BY <1>1, <1>2, <1>3

\* Of the measurements of a signal at a horizon, one is of the latest run and first in it.
LEMMA OneIsKept ==
  ASSUME HistoryInv, NEW records \in SUBSET measured, NEW m \in records
  PROVE  \E x \in DedupeLatestRun(records) : SameSignal(m, x)
<1> DEFINE same == {z \in records : SameSignal(m, z)}
           runs == {z.run : z \in same}
           latest == Max(runs)
           top == {z \in same : z.run = latest}
           results == {z.result : z \in top}
<1>1. \A z \in measured : z.run \in Int /\ z.result \in Int
  BY PlacesAreNumbers
<1>2. m \in same
  BY DEF SameSignal
<1>3. IsFiniteSet(same)
  <2>1. same \in SUBSET measured
    OBVIOUS
  <2> HIDE DEF same
  <2> QED BY <2>1, FS_Subset DEF HistoryInv, MeasurementsOK
<1>4. latest \in runs /\ \A r \in runs : r <= latest
  <2>1. runs \in SUBSET Int /\ runs # {}
    BY <1>1, <1>2
  <2>2. IsFiniteSet(runs)
    <3> HIDE DEF same
    <3> DEFINE f == [z \in same |-> z.run]
    <3>1. f \in Surjection(same, runs)
      BY DEF Surjection
    <3> QED BY <1>3, <3>1, FS_Surjection
  <2> HIDE DEF runs
  <2> QED BY <2>1, <2>2, LargestIsOne
<1> HIDE DEF latest
<1>5. PICK first \in results : \A r \in results : first <= r
  <2>1. results \in SUBSET Int /\ results # {}
    BY <1>1, <1>4
  <2>2. IsFiniteSet(results)
    <3>1. IsFiniteSet(top)
      <4>1. top \in SUBSET same
        OBVIOUS
      <4> HIDE DEF top, same
      <4> QED BY <1>3, <4>1, FS_Subset
    <3> HIDE DEF top
    <3> DEFINE f == [z \in top |-> z.result]
    <3>2. f \in Surjection(top, results)
      BY DEF Surjection
    <3> QED BY <3>1, <3>2, FS_Surjection
  <2> HIDE DEF results
  <2> QED BY <2>1, <2>2, SmallestIsOne
<1>6. PICK x \in top : x.result = first
  OBVIOUS
<1>7. x \in records /\ SameSignal(m, x) /\ x.run = latest
  BY <1>6
<1>8. ASSUME NEW y \in records, SameSignal(x, y)
      PROVE  y.run < x.run \/ (y.run = x.run /\ x.result <= y.result)
  <2>1. y \in same
    BY <1>7, <1>8 DEF SameSignal
  <2>2. y.run <= latest
    BY <1>4, <2>1
  <2>3. y.run = latest => first <= y.result
    BY <1>5, <2>1
  <2>4. y.run \in Int /\ x.run \in Int
    BY <1>1, <1>7
  <2> QED BY <1>6, <1>7, <2>2, <2>3, <2>4
<1> QED BY <1>7, <1>8 DEF DedupeLatestRun

\* The records that are kept and the signals are as many.
LEMMA KeptOncePerSignal ==
  ASSUME HistoryInv, NEW s, NEW h
  PROVE  Cardinality(MetricRecordsForFilters(s, h)) = Cardinality(SignalsOf(s, h))
<1> DEFINE records == {m \in MetricRecords : m.screener = s /\ m.horizon = h}
           kept == DedupeLatestRun(records)
           signals == {<<m.symbol, m.signal>> : m \in records}
           f == [x \in kept |-> <<x.symbol, x.signal>>]
<1>1. records \in SUBSET measured /\ kept \in SUBSET records
  BY DEF MetricRecords, DedupeLatestRun
<1>2. \A x \in records : x.screener = s /\ x.horizon = h
  OBVIOUS
<1>3. MetricRecordsForFilters(s, h) = kept /\ SignalsOf(s, h) = signals
  BY DEF MetricRecordsForFilters, SignalsOf
<1> HIDE DEF records
<1>4. ASSUME NEW x \in kept, NEW y \in kept, f[x] = f[y]
      PROVE  x = y
  <2>1. x.symbol = y.symbol /\ x.signal = y.signal
    BY <1>4
  <2>2. SameSignal(x, y) /\ SameSignal(y, x)
    BY <1>1, <1>2, <2>1 DEF SameSignal
  <2>3. /\ y.run < x.run \/ (y.run = x.run /\ x.result <= y.result)
        /\ x.run < y.run \/ (x.run = y.run /\ y.result <= x.result)
    BY <1>1, <2>2 DEF DedupeLatestRun
  <2>4. /\ x.run \in Int /\ x.result \in Int /\ y.run \in Int /\ y.result \in Int
    BY <1>1, PlacesAreNumbers
  <2>5. x.run = y.run /\ x.result = y.result
    BY <2>3, <2>4
  <2> QED BY <1>1, <1>2, <2>5 DEF HistoryInv, MeasurementsOK
<1>5. ASSUME NEW m \in records
      PROVE  \E x \in kept : f[x] = <<m.symbol, m.signal>>
  <2>1. PICK x \in kept : SameSignal(m, x)
    BY <1>1, OneIsKept
  <2> QED BY <2>1 DEF SameSignal
<1>6. f \in [kept -> signals]
  BY <1>1
<1> HIDE DEF f, kept
<1>7. f \in Injection(kept, signals)
  BY <1>4, <1>6 DEF Injection, IsInjective
<1>8. f \in Surjection(kept, signals)
  BY <1>5, <1>6 DEF Surjection
<1>9. IsFiniteSet(kept)
  <2>1. kept \in SUBSET measured
    BY <1>1
  <2> QED BY <2>1, FS_Subset DEF HistoryInv, MeasurementsOK
<1> HIDE DEF signals
<1>10. Cardinality(signals) = Cardinality(kept)
  BY <1>7, <1>8, <1>9, FS_Surjection
<1> QED BY <1>3, <1>10

\* A dashboard shows as many signals as it has records.
LEMMA TotalOfRecords ==
  ASSUME NEW s, NEW h
  PROVE  ValidationDashboard(s, h).row.total = Cardinality(MetricRecordsForFilters(s, h))
<1>1. ASSUME NEW records
      PROVE  DashboardOf(records).row.total = Cardinality(records)
  <2>1. DashboardOf(records).row = MetricRow(records)
    BY DEF DashboardOf
  <2>2. MetricRow(records).total = Cardinality(records)
    BY DEF MetricRow, Summary
  <2> QED BY <2>1, <2>2
<1> QED BY <1>1 DEF ValidationDashboard

\* Two scores that are compared are both final scores or both the screener's confidence.
LEMMA OfTheSameKind ==
  ASSUME NEW new, NEW old, Comparable(ResultScore(new), ResultScore(old))
  PROVE  (new.score = None) <=> (old.score = None)
<1>1. ASSUME NEW row
      PROVE  /\ row.score # None => ResultScore(row).source = "final_score"
             /\ row.score = None => ResultScore(row).source \in {"confidence", "none"}
  <2>1. CASE row.score # None
    BY <2>1 DEF ResultScore
  <2>2. CASE row.score = None /\ row.confidence # None
    BY <2>2 DEF ResultScore
  <2>3. CASE row.score = None /\ row.confidence = None
    BY <2>3 DEF ResultScore
  <2> QED BY <2>1, <2>2, <2>3
<1>2. ResultScore(new).source = ResultScore(old).source
  BY DEF Comparable
<1> QED BY <1>1, <1>2

\* A comparison is of like with like whatever the two runs are.
LEMMA LikeWithLike == ChangesCompareLikeWithLike
<1>1. ASSUME NEW k, NEW j, NEW x \in ScanComparison(k, j).improved \cup ScanComparison(k, j).degraded
      PROVE  (ResultIndex(k)[x].score = None) = (ResultIndex(j)[x].score = None)
  <2>1. Comparable(ResultScore(ResultIndex(k)[x]), ResultScore(ResultIndex(j)[x]))
    BY DEF ScanComparison
  <2> QED BY <2>1, OfTheSameKind
<1>2. ASSUME NEW s \in Screeners
      PROVE  LET latest == Latest(FinalizedRuns(s))
                 previous == Latest(FinalizedRuns(s) \ {latest})
                 c == ScanComparison(latest, previous)
             IN \A x \in c.improved \cup c.degraded :
                 (ResultIndex(latest)[x].score = None) = (ResultIndex(previous)[x].score = None)
  <2> DEFINE latest == Latest(FinalizedRuns(s))
             previous == Latest(FinalizedRuns(s) \ {latest})
  <2> HIDE DEF latest, previous
  <2>1. \A x \in ScanComparison(latest, previous).improved
                   \cup ScanComparison(latest, previous).degraded :
           (ResultIndex(latest)[x].score = None) = (ResultIndex(previous)[x].score = None)
    BY <1>1
  <2> QED BY <2>1 DEF latest, previous
<1> QED BY <1>2 DEF ChangesCompareLikeWithLike

\* What the tables and the pages show in a state with the invariant.
LEMMA HistoryKept ==
  HistoryInv => TablesOK /\ HistoryIsHonest
<1> SUFFICES ASSUME HistoryInv
             PROVE  TablesOK /\ HistoryIsHonest
  OBVIOUS
<1>1. TablesOK
  BY SnapshotIsOne DEF HistoryInv, RunsOK, MeasurementsOK, ObservationsOK, TablesOK
<1>2. SignalsCountOnce
  BY TotalOfRecords, KeptOncePerSignal DEF SignalsCountOnce
<1> QED BY <1>1, <1>2, LikeWithLike DEF HistoryInv, HistoryIsHonest

\* Every state of the history has the invariant: the stored rows of a scored run are those
\* the same candles give today, and a regression is that of the two files it was found in.
THEOREM HistoryInvariant == HistorySpec => []HistoryInv
  BY HistoryStarts, HistoryStep, PTL DEF HistorySpec

\* What storage/repository.py keeps of runs, measurements and health snapshots: a failed run
\* has no results, a measurement is of a stored result at a horizon that is asked for and
\* there is one of each, and no more unmapped names are listed than there are or may be.
THEOREM HistoryTablesHold == HistorySpec => []TablesOK
  BY HistoryInvariant, HistoryKept, PTL

\* For any screeners, frames, candles, horizons and universe files: no score has seen a
\* candle after its run's date, a comparison sets like against like, a signal counts once in
\* the dashboard however often its screener has found it, and a mapping regression is
\* reported exactly when there is one.
THEOREM HistoryStaysHonest == HistorySpec => []HistoryIsHonest
  BY HistoryInvariant, HistoryKept, PTL

-----------------------------------------------------------------------------
(* Signals: frames that continue a frame.                                  *)

IsSequence(s) == \E R : s \in Seq(R)

\* The longer one has the candles, or figures, of the other first.
Continues(longer, s) ==
    /\ IsSequence(s) /\ IsSequence(longer) /\ Len(s) <= Len(longer)
    /\ \A i \in 1 .. Len(s) : longer[i] = s[i]

\* What is computed position by position is a sequence.
LEMMA Whole ==
  ASSUME NEW n \in Nat, NEW h, h = [i \in 1 .. n |-> h[i]]
  PROVE  SubSeq(h, 1, n) = h /\ IsSequence(h) /\ Len(h) = n /\ DOMAIN h = 1 .. n
<1>1. h \in Seq({h[i] : i \in 1 .. n})
  OBVIOUS
<1>2. Len(h) = n /\ DOMAIN h = 1 .. n
  BY <1>1
<1>3. SubSeq(h, 1, n) = h
  BY <1>1, <1>2, SubSeqFull
<1> QED BY <1>1, <1>2, <1>3 DEF IsSequence

\* Positions and length of a sequence.
LEMMA Positions ==
  ASSUME NEW s, IsSequence(s)
  PROVE  Len(s) \in Nat /\ DOMAIN s = 1 .. Len(s)
  BY DEF IsSequence

\* A set of positions is finite and has a first, if it has any.
LEMMA FirstPosition ==
  ASSUME NEW n \in Nat, NEW set \in SUBSET (1 .. n)
  PROVE  /\ set \in SUBSET Int /\ IsFiniteSet(set)
         /\ set # {} => Min(set) \in set /\ \A i \in set : Min(set) <= i
<1>1. IsFiniteSet(1 .. n)
  BY FS_Interval
<1>2. IsFiniteSet(set)
  BY <1>1, FS_Subset
<1>4. set \in SUBSET Int
  OBVIOUS
<1>3. ASSUME set # {} PROVE \E x \in set : \A y \in set : x <= y
  BY <1>2, <1>3, <1>4, SmallestIsOne
<1> QED BY <1>2, <1>3, <1>4 DEF Min

\* Induction over the positions of a frame, stated for a set of them.
LEMMA PositionByPosition ==
  ASSUME NEW n \in Nat, NEW T, 0 \in T, \A k \in 0 .. n - 1 : k \in T => k + 1 \in T
  PROVE  0 .. n \subseteq T
<1> DEFINE bad == {k \in 0 .. n : k \notin T}
<1> SUFFICES ASSUME bad # {} PROVE FALSE
  OBVIOUS
<1>1. IsFiniteSet(0 .. n)
  BY FS_Interval
<1>2. IsFiniteSet(bad) /\ bad \in SUBSET Int
  BY <1>1, FS_Subset
<1>3. PICK k \in bad : \A j \in bad : k <= j
  BY <1>2, SmallestIsOne
<1>4. k \in 1 .. n
  BY <1>3
<1>5. k - 1 \in 0 .. n - 1 /\ k - 1 \in T
  BY <1>3, <1>4
<1>6. k - 1 + 1 = k
  BY <1>4
<1> QED BY <1>3, <1>5, <1>6

-----------------------------------------------------------------------------
AverageAt(s, weight, first, before, i) ==
    CASE i < first -> None
      [] i = first -> s[i]
      [] OTHER -> Add(Times(weight, s[i]), Times(Minus(Int2Frac(1), weight), before))

\* The averages of ewm are defined one after the other.
LEMMA AveragesAre ==
  ASSUME NEW s, IsSequence(s), NEW weight, NEW first \in Nat \ {0}
  PROVE  LET e == Averages(s, weight, first)
         IN  e = [i \in 1 .. Len(s) |-> AverageAt(s, weight, first, e[i - 1], i)]
<1> DEFINE PutAt(e, i) == AverageAt(s, weight, first, e[i - 1], i)
           n == Len(s)
           T == {k \in 0 .. n : \E e : e = [i \in 1 .. k |-> PutAt(e, i)]}
<1>1. n \in Nat /\ DOMAIN s = 1 .. n
  BY Positions
<1>2. 0 \in T
  <2>1. \E e : e = [i \in 1 .. 0 |-> PutAt(e, i)]
    <3> DEFINE e == [i \in 1 .. 0 |-> None]
    <3>1. e = [i \in 1 .. 0 |-> PutAt(e, i)]
      OBVIOUS
    <3> QED BY <3>1
  <2>2. 0 \in 0 .. n
    BY <1>1
  <2> HIDE DEF PutAt, n
  <2> QED BY <2>1, <2>2
<1>3. ASSUME NEW k \in 0 .. n - 1, k \in T PROVE k + 1 \in T
  <2>1. PICK e : e = [i \in 1 .. k |-> PutAt(e, i)]
    BY <1>3
  <2> DEFINE more == [i \in 1 .. k + 1 |-> IF i = k + 1 THEN PutAt(e, i) ELSE e[i]]
  <2>2. more = [i \in 1 .. k + 1 |-> PutAt(more, i)]
    <3>1. ASSUME NEW i \in 1 .. k + 1 PROVE more[i] = PutAt(more, i)
      <4>1. CASE i = 1
        <5>1. PutAt(more, i) = PutAt(e, i)
          BY <4>1 DEF AverageAt
        <5>2. i \in 1 .. k => e[i] = PutAt(e, i)
          <6> HIDE DEF PutAt
          <6> QED BY <2>1
        <5> HIDE DEF PutAt
        <5> QED BY <5>1, <5>2
      <4>2. CASE i # 1
        <5>1. i - 1 \in 1 .. k /\ i - 1 # k + 1 /\ i - 1 \in 1 .. k + 1
          BY <4>2, <1>1
        <5>2. more[i - 1] = e[i - 1]
          BY <5>1
        <5>3. PutAt(more, i) = PutAt(e, i)
          BY <5>2
        <5>4. i \in 1 .. k => e[i] = PutAt(e, i)
          <6> HIDE DEF PutAt
          <6> QED BY <2>1
        <5> HIDE DEF PutAt
        <5> QED BY <5>3, <5>4
      <4> QED BY <4>1, <4>2
    <3> HIDE DEF PutAt
    <3> QED BY <3>1
  <2>3. k + 1 \in 0 .. n
    BY <1>1
  <2> HIDE DEF more, PutAt, n
  <2> QED BY <2>2, <2>3
<1>4. n \in T
  <2> HIDE DEF T
  <2>1. 0 .. n \subseteq T
    BY <1>1, <1>2, <1>3, PositionByPosition
  <2> QED BY <1>1, <2>1
<1>5. \E e : e = [i \in 1 .. n |-> PutAt(e, i)]
  BY <1>4
<1>6. Averages(s, weight, first) = CHOOSE e : e = [i \in 1 .. n |-> PutAt(e, i)]
  BY <1>1 DEF Averages, AverageAt
<1> QED BY <1>5, <1>6

FirstKnown(s) == Min({i \in DOMAIN s : s[i] # None} \cup {Len(s) + 1})

\* Where the figures of a series begin, more of them change only if there were none.
LEMMA FirstKnownStays ==
  ASSUME NEW s, NEW longer, Continues(longer, s)
  PROVE  /\ FirstKnown(s) \in Nat \ {0} /\ FirstKnown(longer) \in Nat \ {0}
         /\ \/ FirstKnown(longer) = FirstKnown(s)
            \/ FirstKnown(s) > Len(s) /\ FirstKnown(longer) > Len(s)
<1> DEFINE n == Len(s)
           m == Len(longer)
           known == {i \in DOMAIN s : s[i] # None} \cup {n + 1}
           more == {i \in DOMAIN longer : longer[i] # None} \cup {m + 1}
<1>1. /\ n \in Nat /\ m \in Nat /\ n <= m /\ DOMAIN s = 1 .. n /\ DOMAIN longer = 1 .. m
      /\ \A i \in 1 .. n : longer[i] = s[i]
  BY Positions DEF Continues
<1> HIDE DEF n, m
<1>2. /\ known \in SUBSET (1 .. n + 1) /\ known # {} /\ n + 1 \in Nat
      /\ more \in SUBSET (1 .. m + 1) /\ more # {} /\ m + 1 \in Nat
  BY <1>1
<1>3. \A i \in 1 .. n : i \in known <=> i \in more
  BY <1>1
<1>4. n + 1 \in known /\ \A i \in more : i <= n => i \in 1 .. n
  BY <1>1
<1> HIDE DEF known, more
<1>5. /\ Min(known) \in known /\ \A i \in known : Min(known) <= i
      /\ Min(more) \in more /\ \A i \in more : Min(more) <= i
  BY <1>2, FirstPosition
<1>6. FirstKnown(s) = Min(known) /\ FirstKnown(longer) = Min(more)
  BY DEF FirstKnown, known, more, n, m
<1> DEFINE a == Min(known)
           b == Min(more)
<1>7. a \in 1 .. n + 1 /\ b \in 1 .. m + 1
  BY <1>2, <1>5
<1>8. a = b \/ (a > n /\ b > n)
  <2>1. a \in known /\ b \in more /\ (\A i \in known : a <= i) /\ (\A i \in more : b <= i)
    BY <1>5
  <2> HIDE DEF a, b
  <2>2. CASE a <= n
    <3>1. a \in 1 .. n
      BY <1>1, <1>7, <2>2
    <3>2. b <= a
      BY <3>1, <2>1, <1>3
    <3>3. b \in 1 .. n
      BY <1>1, <1>7, <2>2, <3>2
    <3>4. a <= b
      BY <3>3, <2>1, <1>3
    <3> QED BY <3>1, <3>2, <3>3, <3>4
  <2>3. CASE b <= n
    <3>1. b \in 1 .. n
      BY <1>1, <1>7, <2>3
    <3>2. a <= b
      BY <3>1, <2>1, <1>3
    <3>3. a \in 1 .. n
      BY <1>1, <1>7, <2>3, <3>2
    <3>4. b <= a
      BY <3>3, <2>1, <1>3
    <3> QED BY <3>1, <3>2, <3>3, <3>4
  <2> QED BY <1>1, <1>7, <2>2, <2>3
<1> HIDE DEF a, b
<1>9. a \in Nat \ {0} /\ b \in Nat \ {0}
  BY <1>1, <1>7
<1> QED BY <1>6, <1>8, <1>9 DEF a, b, n

\* An average depends on the figures up to its own.
LEMMA AveragesStay ==
  ASSUME NEW s, NEW longer, Continues(longer, s), NEW weight,
         NEW first \in Nat \ {0}, NEW later \in Nat \ {0},
         later = first \/ (first > Len(s) /\ later > Len(s)),
         NEW i \in 1 .. Len(s)
  PROVE  Averages(longer, weight, later)[i] = Averages(s, weight, first)[i]
<1> DEFINE n == Len(s)
           m == Len(longer)
           e == Averages(s, weight, first)
           g == Averages(longer, weight, later)
           T == {k \in 0 .. n : k = 0 \/ g[k] = e[k]}
<1>1. /\ n \in Nat /\ m \in Nat /\ n <= m /\ IsSequence(s) /\ IsSequence(longer)
      /\ \A k \in 1 .. n : longer[k] = s[k]
  BY Positions DEF Continues
<1>2. \A k \in 1 .. n : e[k] = AverageAt(s, weight, first, e[k - 1], k)
  <2>1. e = [k \in 1 .. n |-> AverageAt(s, weight, first, e[k - 1], k)]
    BY <1>1, AveragesAre
  <2> HIDE DEF e, n
  <2> QED BY <2>1
<1>3. \A k \in 1 .. n : g[k] = AverageAt(longer, weight, later, g[k - 1], k)
  <2>1. g = [k \in 1 .. m |-> AverageAt(longer, weight, later, g[k - 1], k)]
    BY <1>1, AveragesAre
  <2> HIDE DEF g, n, m
  <2> QED BY <1>1, <2>1
<1> HIDE DEF e, g, m
<1>4. ASSUME NEW k \in 0 .. n - 1, k \in T PROVE k + 1 \in T
  <2>1. k + 1 \in 1 .. n /\ k + 1 - 1 = k
    BY <1>1
  <2>2. longer[k + 1] = s[k + 1]
    BY <1>1, <2>1
  <2>3. /\ e[k + 1] = AverageAt(s, weight, first, e[k], k + 1)
        /\ g[k + 1] = AverageAt(longer, weight, later, g[k], k + 1)
    BY <1>2, <1>3, <2>1
  <2>4. CASE k + 1 < first /\ k + 1 < later
    BY <2>1, <2>3, <2>4 DEF AverageAt
  <2>5. CASE later = first /\ ~(k + 1 < first)
    <3>1. k = 0 => k + 1 = first
      BY <2>5
    <3>2. g[k] = e[k] \/ k + 1 = first
      BY <1>4, <3>1
    <3>3. AverageAt(longer, weight, later, g[k], k + 1) = AverageAt(s, weight, first, e[k], k + 1)
      BY <2>2, <2>5, <3>2 DEF AverageAt
    <3> QED BY <2>1, <2>3, <3>3
  <2> QED BY <2>1, <2>4, <2>5
<1>5. 0 \in T
  BY <1>1
<1>6. 0 .. n \subseteq T
  <2> HIDE DEF T, n
  <2> QED BY <1>1, <1>4, <1>5, PositionByPosition
<1> QED BY <1>1, <1>6 DEF e, g

\* The exponential averages of a series.
LEMMA EwmIs ==
  ASSUME NEW s, IsSequence(s), NEW weight, NEW n
  PROVE  /\ IsSequence(Ewm(s, weight, n)) /\ Len(Ewm(s, weight, n)) = Len(s)
         /\ \A i \in 1 .. Len(s) :
                Ewm(s, weight, n)[i] =
                    IF i < FirstKnown(s) + n - 1 THEN None
                    ELSE Averages(s, weight, FirstKnown(s))[i]
<1> DEFINE h == [i \in 1 .. Len(s) |-> IF i < FirstKnown(s) + n - 1 THEN None
                                      ELSE Averages(s, weight, FirstKnown(s))[i]]
<1>1. Len(s) \in Nat /\ DOMAIN s = 1 .. Len(s)
  BY Positions
<1>2. Ewm(s, weight, n) = SubSeq(h, 1, Len(s))
  BY <1>1 DEF Ewm, Series, FirstKnown
<1>3. SubSeq(h, 1, Len(s)) = h /\ IsSequence(h) /\ Len(h) = Len(s)
  BY <1>1, Whole
<1> QED BY <1>2, <1>3

\* More figures behind a series change none of its averages.
LEMMA EwmStays ==
  ASSUME NEW s, NEW longer, Continues(longer, s), NEW weight, NEW n \in Nat \ {0}
  PROVE  Continues(Ewm(longer, weight, n), Ewm(s, weight, n))
<1>1. /\ IsSequence(s) /\ IsSequence(longer) /\ Len(s) <= Len(longer)
      /\ Len(s) \in Nat /\ Len(longer) \in Nat
  BY Positions DEF Continues
<1>2. ASSUME NEW i \in 1 .. Len(s)
      PROVE  Ewm(longer, weight, n)[i] = Ewm(s, weight, n)[i]
  <2> DEFINE a == FirstKnown(s)
             b == FirstKnown(longer)
  <2>1. a \in Nat \ {0} /\ b \in Nat \ {0} /\ (b = a \/ (a > Len(s) /\ b > Len(s)))
    BY FirstKnownStays
  <2> HIDE DEF a, b
  <2>2. Averages(longer, weight, b)[i] = Averages(s, weight, a)[i]
    BY <2>1, AveragesStay
  <2>3. b = a \/ (i < b + n - 1 /\ i < a + n - 1)
    BY <1>1, <2>1
  <2>4. i \in 1 .. Len(longer)
    BY <1>1
  <2>5. Ewm(s, weight, n)[i] = IF i < a + n - 1 THEN None ELSE Averages(s, weight, a)[i]
    BY <1>1, EwmIs DEF a
  <2>6. Ewm(longer, weight, n)[i] =
            IF i < b + n - 1 THEN None ELSE Averages(longer, weight, b)[i]
    BY <1>1, <2>4, EwmIs DEF b
  <2> QED BY <2>2, <2>3, <2>5, <2>6
<1> QED BY <1>1, <1>2, EwmIs DEF Continues

Points(h, n) == h = [i \in 1 .. n |-> h[i]]
Agree(g, h, n) == \A i \in 1 .. n : g[i] = h[i]

\* Of two series computed position by position one continues the other.
LEMMA PointByPoint ==
  ASSUME NEW n \in Nat, NEW m \in Nat, n <= m,
         NEW h, Points(h, n), NEW g, Points(g, m), Agree(g, h, n)
  PROVE  /\ Continues(SubSeq(g, 1, m), SubSeq(h, 1, n))
         /\ Len(SubSeq(h, 1, n)) = n /\ Len(SubSeq(g, 1, m)) = m
         /\ SubSeq(h, 1, n) = h /\ SubSeq(g, 1, m) = g
<1>1. SubSeq(h, 1, n) = h /\ IsSequence(h) /\ Len(h) = n
  BY Whole DEF Points
<1>2. SubSeq(g, 1, m) = g /\ IsSequence(g) /\ Len(g) = m
  BY Whole DEF Points
<1> QED BY <1>1, <1>2 DEF Continues, Agree

\* The lengths and positions of a series and of one that continues it.
LEMMA ContinuesMeans ==
  ASSUME NEW s, NEW longer, Continues(longer, s)
  PROVE  /\ Len(s) \in Nat /\ Len(longer) \in Nat /\ Len(s) <= Len(longer)
         /\ IsSequence(s) /\ IsSequence(longer)
         /\ DOMAIN s = 1 .. Len(s) /\ DOMAIN longer = 1 .. Len(longer)
         /\ \A i \in 1 .. Len(s) : i \in 1 .. Len(longer) /\ longer[i] = s[i]
  BY Positions DEF Continues

\* A column of the candles.
LEMMA ColumnStays ==
  ASSUME NEW f, NEW longer, Continues(longer, f), NEW name
  PROVE  /\ Continues(Column(longer, name), Column(f, name))
         /\ Len(Column(f, name)) = Len(f) /\ Len(Column(longer, name)) = Len(longer)
         /\ Column(f, name) = [i \in 1 .. Len(f) |-> f[i][name]]
<1> DEFINE h == [i \in 1 .. Len(f) |-> f[i][name]]
           g == [i \in 1 .. Len(longer) |-> longer[i][name]]
<1>1. /\ Column(f, name) = SubSeq(h, 1, Len(f))
      /\ Column(longer, name) = SubSeq(g, 1, Len(longer))
  BY ContinuesMeans DEF Column, Series
<1>2. Agree(g, h, Len(f))
  BY ContinuesMeans DEF Agree
<1>3. Points(h, Len(f)) /\ Points(g, Len(longer))
  BY DEF Points
<1> HIDE DEF h, g
<1>4. /\ Continues(SubSeq(g, 1, Len(longer)), SubSeq(h, 1, Len(f)))
      /\ Len(SubSeq(h, 1, Len(f))) = Len(f) /\ Len(SubSeq(g, 1, Len(longer))) = Len(longer)
      /\ SubSeq(h, 1, Len(f)) = h
  BY <1>2, <1>3, ContinuesMeans, PointByPoint
<1> QED BY <1>1, <1>4 DEF h

\* The closes as fractions.
LEMMA ClosesStay ==
  ASSUME NEW f, NEW longer, Continues(longer, f)
  PROVE  /\ Continues(Closes(longer), Closes(f))
         /\ Len(Closes(f)) = Len(f) /\ Len(Closes(longer)) = Len(longer)
<1> DEFINE c == Column(f, "close")
           d == Column(longer, "close")
           h == [i \in 1 .. Len(c) |-> Int2Frac(c[i])]
           g == [i \in 1 .. Len(d) |-> Int2Frac(d[i])]
<1>1. Continues(d, c) /\ Len(c) = Len(f) /\ Len(d) = Len(longer)
  BY ColumnStays
<1> HIDE DEF c, d
<1>2. Closes(f) = SubSeq(h, 1, Len(c)) /\ Closes(longer) = SubSeq(g, 1, Len(d))
  <2>1. DOMAIN c = 1 .. Len(c) /\ DOMAIN d = 1 .. Len(d)
    BY <1>1, ContinuesMeans
  <2> QED BY <2>1 DEF Closes, AsFracs, c, d
<1>3. Agree(g, h, Len(c))
  BY <1>1, ContinuesMeans DEF Agree
<1>4. Points(h, Len(c)) /\ Points(g, Len(d))
  BY DEF Points
<1> HIDE DEF h, g
<1>5. /\ Continues(SubSeq(g, 1, Len(d)), SubSeq(h, 1, Len(c)))
      /\ Len(SubSeq(h, 1, Len(c))) = Len(c) /\ Len(SubSeq(g, 1, Len(d))) = Len(d)
  BY <1>1, <1>3, <1>4, ContinuesMeans, PointByPoint
<1> QED BY <1>1, <1>2, <1>5

\* The momentum compares with a figure before.
LEMMA MomentumStays ==
  ASSUME NEW s, NEW longer, Continues(longer, s), NEW n \in Nat
  PROVE  /\ Continues(Momentum(longer, n), Momentum(s, n))
         /\ Len(Momentum(s, n)) = Len(s) /\ Len(Momentum(longer, n)) = Len(longer)
<1> DEFINE a == [i \in 1 .. Len(s) |-> IF i > n THEN s[i - n] ELSE None]
           b == [i \in 1 .. Len(longer) |-> IF i > n THEN longer[i - n] ELSE None]
           h == [i \in 1 .. Len(s) |-> IF None \in {s[i], a[i]} THEN None ELSE Minus(s[i], a[i])]
           g == [i \in 1 .. Len(longer) |->
                    IF None \in {longer[i], b[i]} THEN None ELSE Minus(longer[i], b[i])]
<1>1. Shifted(s, n) = SubSeq(a, 1, Len(s)) /\ Shifted(longer, n) = SubSeq(b, 1, Len(longer))
  BY ContinuesMeans DEF Shifted, Series
<1>2. Agree(b, a, Len(s))
  <2> SUFFICES ASSUME NEW i \in 1 .. Len(s) PROVE b[i] = a[i]
    BY DEF Agree
  <2>1. i > n => i - n \in 1 .. Len(s)
    BY ContinuesMeans
  <2> QED BY <2>1, ContinuesMeans
<1>3. Points(a, Len(s)) /\ Points(b, Len(longer))
  BY DEF Points
<1> HIDE DEF a, b
<1>4. Shifted(s, n) = a /\ Shifted(longer, n) = b
  BY <1>1, <1>2, <1>3, ContinuesMeans, PointByPoint
<1>5. Momentum(s, n) = SubSeq(h, 1, Len(s)) /\ Momentum(longer, n) = SubSeq(g, 1, Len(longer))
  BY <1>4, ContinuesMeans DEF Momentum, Both, Series
<1>6. Agree(g, h, Len(s))
  BY <1>2, ContinuesMeans DEF Agree
<1>7. Points(h, Len(s)) /\ Points(g, Len(longer))
  BY DEF Points
<1> HIDE DEF h, g
<1> QED BY <1>5, <1>6, <1>7, ContinuesMeans, PointByPoint

\* The relative strength: two averages of what the moves gain and lose.
LEMMA RsiStays ==
  ASSUME NEW s, NEW longer, Continues(longer, s), NEW n \in Nat \ {0}
  PROVE  Continues(Rsi(longer, n), Rsi(s, n)) /\ Len(Rsi(s, n)) = Len(s)
<1> DEFINE u == Momentum(s, 1)
           v == Momentum(longer, 1)
           Gain(x) == Larger(x, Int2Frac(0))
           Loss(x) == Larger(Minus(Int2Frac(0), x), Int2Frac(0))
           Index(x, l) == IF l = Int2Frac(0) THEN None
                          ELSE Frac(100 * x[1] * l[2], x[1] * l[2] + l[1] * x[2])
           a == [i \in 1 .. Len(s) |-> IF u[i] = None THEN None ELSE Gain(u[i])]
           b == [i \in 1 .. Len(longer) |-> IF v[i] = None THEN None ELSE Gain(v[i])]
           c == [i \in 1 .. Len(s) |-> IF u[i] = None THEN None ELSE Loss(u[i])]
           d == [i \in 1 .. Len(longer) |-> IF v[i] = None THEN None ELSE Loss(v[i])]
           av == Ewm(a, Frac(1, n), n)
           bv == Ewm(b, Frac(1, n), n)
           cv == Ewm(c, Frac(1, n), n)
           dv == Ewm(d, Frac(1, n), n)
           h == [i \in 1 .. Len(s) |->
                    IF None \in {av[i], cv[i]} THEN None ELSE Index(av[i], cv[i])]
           g == [i \in 1 .. Len(longer) |->
                    IF None \in {bv[i], dv[i]} THEN None ELSE Index(bv[i], dv[i])]
<1>1. Continues(v, u) /\ Len(u) = Len(s) /\ Len(v) = Len(longer)
  BY MomentumStays
<1> HIDE DEF u, v
<1>2. Agree(b, a, Len(s)) /\ Agree(d, c, Len(s))
  BY <1>1, ContinuesMeans DEF Agree
<1>3. /\ Points(a, Len(s)) /\ Points(b, Len(longer))
      /\ Points(c, Len(s)) /\ Points(d, Len(longer))
  BY DEF Points
<1>4. /\ Rsi(s, n) = Both(Ewm(SubSeq(a, 1, Len(s)), Frac(1, n), n),
                          Ewm(SubSeq(c, 1, Len(s)), Frac(1, n), n), Index)
      /\ Rsi(longer, n) = Both(Ewm(SubSeq(b, 1, Len(longer)), Frac(1, n), n),
                               Ewm(SubSeq(d, 1, Len(longer)), Frac(1, n), n), Index)
  BY ContinuesMeans DEF Rsi, Series, u, v
<1> HIDE DEF a, b, c, d
<1>5. /\ Continues(b, a) /\ SubSeq(a, 1, Len(s)) = a /\ SubSeq(b, 1, Len(longer)) = b
      /\ Len(a) = Len(s) /\ Len(b) = Len(longer)
  <2>1. /\ Continues(SubSeq(b, 1, Len(longer)), SubSeq(a, 1, Len(s)))
        /\ SubSeq(a, 1, Len(s)) = a /\ SubSeq(b, 1, Len(longer)) = b
        /\ Len(SubSeq(a, 1, Len(s))) = Len(s) /\ Len(SubSeq(b, 1, Len(longer))) = Len(longer)
    BY <1>2, <1>3, ContinuesMeans, PointByPoint
  <2> QED BY Zenon, <2>1
<1>6. /\ Continues(d, c) /\ SubSeq(c, 1, Len(s)) = c /\ SubSeq(d, 1, Len(longer)) = d
      /\ Len(c) = Len(s) /\ Len(d) = Len(longer)
  <2>1. /\ Continues(SubSeq(d, 1, Len(longer)), SubSeq(c, 1, Len(s)))
        /\ SubSeq(c, 1, Len(s)) = c /\ SubSeq(d, 1, Len(longer)) = d
        /\ Len(SubSeq(c, 1, Len(s))) = Len(s) /\ Len(SubSeq(d, 1, Len(longer))) = Len(longer)
    BY <1>2, <1>3, ContinuesMeans, PointByPoint
  <2> QED BY Zenon, <2>1
<1>7. /\ Continues(bv, av) /\ Len(av) = Len(s) /\ Len(bv) = Len(longer)
      /\ Continues(dv, cv) /\ Len(cv) = Len(s) /\ Len(dv) = Len(longer)
  BY <1>5, <1>6, EwmStays, EwmIs, ContinuesMeans
<1>8. Rsi(s, n) = Both(av, cv, Index) /\ Rsi(longer, n) = Both(bv, dv, Index)
  BY <1>4, <1>5, <1>6
<1> HIDE DEF av, bv, cv, dv
<1>9. Rsi(s, n) = SubSeq(h, 1, Len(s)) /\ Rsi(longer, n) = SubSeq(g, 1, Len(longer))
  <2>1. DOMAIN av = 1 .. Len(s) /\ DOMAIN bv = 1 .. Len(longer)
    BY <1>7, ContinuesMeans
  <2> QED BY <1>7, <1>8, <2>1 DEF Both, Series
<1>10. Agree(g, h, Len(s))
  BY <1>7, ContinuesMeans DEF Agree
<1>11. Points(h, Len(s)) /\ Points(g, Len(longer))
  BY DEF Points
<1> HIDE DEF h, g
<1> QED BY <1>9, <1>10, <1>11, ContinuesMeans, PointByPoint

OpenAt(s, close, before, i) ==
    IF i = 1 THEN Frac(s[1].open + s[1].close, 2) ELSE Over(Add(before, close[i - 1]), 2)

\* The opens of the Heikin-Ashi candles are defined one after the other, too.
LEMMA OpensAre ==
  ASSUME NEW s, IsSequence(s), NEW close
  PROVE  LET e == HeikinOpen(s, close)
         IN  e = [i \in 1 .. Len(s) |-> OpenAt(s, close, e[i - 1], i)]
<1> DEFINE PutAt(e, i) == OpenAt(s, close, e[i - 1], i)
           n == Len(s)
           T == {k \in 0 .. n : \E e : e = [i \in 1 .. k |-> PutAt(e, i)]}
<1>1. n \in Nat /\ DOMAIN s = 1 .. n
  BY Positions
<1>2. 0 \in T
  <2>1. \E e : e = [i \in 1 .. 0 |-> PutAt(e, i)]
    <3> DEFINE e == [i \in 1 .. 0 |-> None]
    <3>1. e = [i \in 1 .. 0 |-> PutAt(e, i)]
      OBVIOUS
    <3> QED BY <3>1
  <2>2. 0 \in 0 .. n
    BY <1>1
  <2> HIDE DEF PutAt, n
  <2> QED BY <2>1, <2>2
<1>3. ASSUME NEW k \in 0 .. n - 1, k \in T PROVE k + 1 \in T
  <2>1. PICK e : e = [i \in 1 .. k |-> PutAt(e, i)]
    BY <1>3
  <2> DEFINE more == [i \in 1 .. k + 1 |-> IF i = k + 1 THEN PutAt(e, i) ELSE e[i]]
  <2>2. more = [i \in 1 .. k + 1 |-> PutAt(more, i)]
    <3>1. ASSUME NEW i \in 1 .. k + 1 PROVE more[i] = PutAt(more, i)
      <4>1. CASE i = 1
        <5>1. PutAt(more, i) = PutAt(e, i)
          BY <4>1 DEF OpenAt
        <5>2. i \in 1 .. k => e[i] = PutAt(e, i)
          <6> HIDE DEF PutAt
          <6> QED BY <2>1
        <5> HIDE DEF PutAt
        <5> QED BY <5>1, <5>2
      <4>2. CASE i # 1
        <5>1. i - 1 \in 1 .. k /\ i - 1 # k + 1 /\ i - 1 \in 1 .. k + 1
          BY <4>2, <1>1
        <5>2. more[i - 1] = e[i - 1]
          BY <5>1
        <5>3. PutAt(more, i) = PutAt(e, i)
          BY <5>2
        <5>4. i \in 1 .. k => e[i] = PutAt(e, i)
          <6> HIDE DEF PutAt
          <6> QED BY <2>1
        <5> HIDE DEF PutAt
        <5> QED BY <5>3, <5>4
      <4> QED BY <4>1, <4>2
    <3> HIDE DEF PutAt
    <3> QED BY <3>1
  <2>3. k + 1 \in 0 .. n
    BY <1>1
  <2> HIDE DEF more, PutAt, n
  <2> QED BY <2>2, <2>3
<1>4. n \in T
  <2> HIDE DEF T
  <2>1. 0 .. n \subseteq T
    BY <1>1, <1>2, <1>3, PositionByPosition
  <2> QED BY <1>1, <2>1
<1>5. \E e : e = [i \in 1 .. n |-> PutAt(e, i)]
  BY <1>4
<1>6. HeikinOpen(s, close) = CHOOSE e : e = [i \in 1 .. n |-> PutAt(e, i)]
  BY <1>1 DEF HeikinOpen, OpenAt
<1> QED BY <1>5, <1>6

BandFrom(h, width, b, i) ==
    LET middle == Over(Add(h[i].high, h[i].low), 2)
    IN  CASE width[i] = None -> None
          [] width[i] # None /\ b = None ->
                [upper |-> Add(middle, width[i]), lower |-> Minus(middle, width[i]), up |-> TRUE]
          [] OTHER -> Trailed(b, h[i].close, h[i - 1].close, Add(middle, width[i]),
                              Minus(middle, width[i]))
BandAt(h, width, before, i) == BandFrom(h, width, IF i = 1 THEN None ELSE before, i)

\* And so are the bands of the SuperTrend.
LEMMA BandsAre ==
  ASSUME NEW s, IsSequence(s), NEW width
  PROVE  LET e == TrailingBands(s, width)
         IN  e = [i \in 1 .. Len(s) |-> BandAt(s, width, e[i - 1], i)]
<1> DEFINE PutAt(e, i) == BandAt(s, width, e[i - 1], i)
           n == Len(s)
           T == {k \in 0 .. n : \E e : e = [i \in 1 .. k |-> PutAt(e, i)]}
<1>1. n \in Nat /\ DOMAIN s = 1 .. n
  BY Positions
<1>2. 0 \in T
  <2>1. \E e : e = [i \in 1 .. 0 |-> PutAt(e, i)]
    <3> DEFINE e == [i \in 1 .. 0 |-> None]
    <3>1. e = [i \in 1 .. 0 |-> PutAt(e, i)]
      OBVIOUS
    <3> QED BY <3>1
  <2>2. 0 \in 0 .. n
    BY <1>1
  <2> HIDE DEF PutAt, n
  <2> QED BY <2>1, <2>2
<1>3. ASSUME NEW k \in 0 .. n - 1, k \in T PROVE k + 1 \in T
  <2>1. PICK e : e = [i \in 1 .. k |-> PutAt(e, i)]
    BY <1>3
  <2> DEFINE more == [i \in 1 .. k + 1 |-> IF i = k + 1 THEN PutAt(e, i) ELSE e[i]]
  <2>2. more = [i \in 1 .. k + 1 |-> PutAt(more, i)]
    <3>1. ASSUME NEW i \in 1 .. k + 1 PROVE more[i] = PutAt(more, i)
      <4>1. CASE i = 1
        <5>1. PutAt(more, i) = PutAt(e, i)
          BY <4>1 DEF BandAt
        <5>2. i \in 1 .. k => e[i] = PutAt(e, i)
          <6> HIDE DEF PutAt
          <6> QED BY <2>1
        <5> HIDE DEF PutAt
        <5> QED BY <5>1, <5>2
      <4>2. CASE i # 1
        <5>1. i - 1 \in 1 .. k /\ i - 1 # k + 1 /\ i - 1 \in 1 .. k + 1
          BY <4>2, <1>1
        <5>2. more[i - 1] = e[i - 1]
          BY <5>1
        <5>3. PutAt(more, i) = PutAt(e, i)
          BY <5>2
        <5>4. i \in 1 .. k => e[i] = PutAt(e, i)
          <6> HIDE DEF PutAt
          <6> QED BY <2>1
        <5> HIDE DEF PutAt
        <5> QED BY <5>3, <5>4
      <4> QED BY <4>1, <4>2
    <3> HIDE DEF PutAt
    <3> QED BY <3>1
  <2>3. k + 1 \in 0 .. n
    BY <1>1
  <2> HIDE DEF more, PutAt, n
  <2> QED BY <2>2, <2>3
<1>4. n \in T
  <2> HIDE DEF T
  <2>1. 0 .. n \subseteq T
    BY <1>1, <1>2, <1>3, PositionByPosition
  <2> QED BY <1>1, <2>1
<1>5. \E e : e = [i \in 1 .. n |-> PutAt(e, i)]
  BY <1>4
<1>6. TrailingBands(s, width) = CHOOSE e : e = [i \in 1 .. n |-> PutAt(e, i)]
  BY <1>1 DEF TrailingBands, BandAt, BandFrom
<1> QED BY <1>5, <1>6

\* The Heikin-Ashi candles depend on the candles up to their own.
LEMMA HeikinAshiStays ==
  ASSUME NEW f, NEW longer, Continues(longer, f)
  PROVE  /\ Continues(HeikinAshi(longer), HeikinAshi(f))
         /\ Len(HeikinAshi(f)) = Len(f) /\ Len(HeikinAshi(longer)) = Len(longer)
<1> DEFINE Typical(x) == Frac(x.open + x.high + x.low + x.close, 4)
           Candle(x, open, close) ==
               [close |-> close, high |-> Larger(Int2Frac(x.high), Larger(open, close)),
                low |-> Smaller(Int2Frac(x.low), Smaller(open, close))]
           n == Len(f)
           m == Len(longer)
           a == [i \in 1 .. n |-> Typical(f[i])]
           b == [i \in 1 .. m |-> Typical(longer[i])]
           c == HeikinOpen(f, a)
           d == HeikinOpen(longer, b)
           h == [i \in 1 .. n |-> Candle(f[i], c[i], a[i])]
           g == [i \in 1 .. m |-> Candle(longer[i], d[i], b[i])]
<1>1. Agree(b, a, n)
  BY ContinuesMeans DEF Agree
<1>2. Points(a, n) /\ Points(b, m)
  BY DEF Points
<1>3. HeikinAshi(f) = SubSeq([i \in 1 .. n |-> Candle(f[i], HeikinOpen(f, SubSeq(a, 1, n))[i],
                                                      SubSeq(a, 1, n)[i])], 1, n)
  BY ContinuesMeans DEF HeikinAshi, Series
<1>4. HeikinAshi(longer) =
         SubSeq([i \in 1 .. m |-> Candle(longer[i], HeikinOpen(longer, SubSeq(b, 1, m))[i],
                                         SubSeq(b, 1, m)[i])], 1, m)
  BY ContinuesMeans DEF HeikinAshi, Series
<1> HIDE DEF a, b
<1>5. SubSeq(a, 1, n) = a /\ SubSeq(b, 1, m) = b
  BY <1>1, <1>2, ContinuesMeans, PointByPoint
<1>6. HeikinAshi(f) = SubSeq(h, 1, n) /\ HeikinAshi(longer) = SubSeq(g, 1, m)
  BY <1>3, <1>4, <1>5
<1>7. /\ n \in Nat /\ m \in Nat /\ n <= m /\ IsSequence(f) /\ IsSequence(longer)
      /\ \A i \in 1 .. n : longer[i] = f[i]
  BY ContinuesMeans
<1>8. /\ \A i \in 1 .. n : c[i] = OpenAt(f, a, c[i - 1], i)
      /\ \A i \in 1 .. m : d[i] = OpenAt(longer, b, d[i - 1], i)
  <2>1. /\ c = [i \in 1 .. n |-> OpenAt(f, a, c[i - 1], i)]
        /\ d = [i \in 1 .. m |-> OpenAt(longer, b, d[i - 1], i)]
    BY <1>7, OpensAre
  <2> HIDE DEF c, d, n, m
  <2> QED BY <2>1
<1> HIDE DEF c, d, n, m
<1> DEFINE T == {k \in 0 .. n : k = 0 \/ d[k] = c[k]}
<1>9. ASSUME NEW k \in 0 .. n - 1, k \in T PROVE k + 1 \in T
  <2>1. k + 1 \in 1 .. n /\ k + 1 \in 1 .. m /\ k + 1 - 1 = k
    BY <1>7
  <2>2. /\ c[k + 1] = OpenAt(f, a, c[k], k + 1)
        /\ d[k + 1] = OpenAt(longer, b, d[k], k + 1)
    BY <1>8, <2>1
  <2>3. CASE k = 0
    <3>1. 1 \in 1 .. n
      BY <2>1, <2>3
    <3>2. longer[1] = f[1]
      BY <1>7, <3>1
    <3>3. OpenAt(longer, b, d[k], k + 1) = OpenAt(f, a, c[k], k + 1)
      BY <2>3, <3>2 DEF OpenAt
    <3> QED BY <2>1, <2>2, <3>3
  <2>4. CASE k # 0
    <3>1. k \in 1 .. n
      BY <1>7, <2>4
    <3>2. b[k] = a[k] /\ d[k] = c[k]
      BY <1>1, <1>9, <2>4, <3>1 DEF Agree
    <3>3. OpenAt(longer, b, d[k], k + 1) = OpenAt(f, a, c[k], k + 1)
      BY <2>1, <2>4, <3>2 DEF OpenAt
    <3> QED BY <2>1, <2>2, <3>3
  <2> QED BY <2>3, <2>4
<1>10. 0 .. n \subseteq T
  <2>1. 0 \in T
    BY <1>7
  <2> HIDE DEF T
  <2> QED BY <1>7, <1>9, <2>1, PositionByPosition
<1>11. Agree(d, c, n)
  BY <1>7, <1>10 DEF Agree
<1> HIDE DEF T
<1>12. Agree(g, h, n)
  BY <1>1, <1>7, <1>11 DEF Agree
<1>13. Points(h, n) /\ Points(g, m)
  BY DEF Points
<1> HIDE DEF h, g
<1>14. /\ Continues(SubSeq(g, 1, m), SubSeq(h, 1, n))
       /\ Len(SubSeq(h, 1, n)) = n /\ Len(SubSeq(g, 1, m)) = m
  BY <1>7, <1>12, <1>13, PointByPoint
<1> QED BY <1>6, <1>14 DEF n, m

\* The true range looks one candle back.
LEMMA TrueRangeStays ==
  ASSUME NEW s, NEW longer, Continues(longer, s)
  PROVE  /\ Continues(TrueRange(longer), TrueRange(s))
         /\ Len(TrueRange(s)) = Len(s) /\ Len(TrueRange(longer)) = Len(longer)
<1> DEFINE Distance(x, y) == Minus(Larger(x, y), Smaller(x, y))
           Spread(x) == Minus(x.high, x.low)
           Wide(x, y) == Larger(Minus(x.high, x.low),
                            Larger(Distance(x.high, y.close), Distance(x.low, y.close)))
           n == Len(s)
           m == Len(longer)
           h == [i \in 1 .. n |-> IF i = 1 THEN Spread(s[i]) ELSE Wide(s[i], s[i - 1])]
           g == [i \in 1 .. m |-> IF i = 1 THEN Spread(longer[i])
                                  ELSE Wide(longer[i], longer[i - 1])]
<1>1. TrueRange(s) = SubSeq(h, 1, n) /\ TrueRange(longer) = SubSeq(g, 1, m)
  BY ContinuesMeans DEF TrueRange, Series
<1>2. /\ n \in Nat /\ m \in Nat /\ n <= m /\ \A i \in 1 .. n : longer[i] = s[i]
  BY ContinuesMeans
<1>3. Agree(g, h, n)
  <2> SUFFICES ASSUME NEW i \in 1 .. n PROVE g[i] = h[i]
    BY DEF Agree
  <2>1. i \in 1 .. m /\ longer[i] = s[i]
    BY <1>2
  <2>2. i # 1 => longer[i - 1] = s[i - 1]
    BY <1>2
  <2> HIDE DEF Spread, Wide
  <2> QED BY <2>1, <2>2
<1>4. Points(h, n) /\ Points(g, m)
  BY DEF Points
<1> HIDE DEF h, g
<1>5. /\ Continues(SubSeq(g, 1, m), SubSeq(h, 1, n))
      /\ Len(SubSeq(h, 1, n)) = n /\ Len(SubSeq(g, 1, m)) = m
  BY <1>2, <1>3, <1>4, PointByPoint
<1> QED BY <1>1, <1>5

\* The line of the SuperTrend depends on the candles and ranges up to its own.
LEMMA TrailingLineStays ==
  ASSUME NEW s, NEW longer, Continues(longer, s),
         NEW width, NEW wider, Continues(wider, width), Len(width) = Len(s)
  PROVE  /\ Continues(TrailingLine(longer, wider), TrailingLine(s, width))
         /\ Len(TrailingLine(s, width)) = Len(s)
<1> DEFINE n == Len(s)
           m == Len(longer)
           c == TrailingBands(s, width)
           d == TrailingBands(longer, wider)
           h == [i \in 1 .. n |-> LineOf(c[i])]
           g == [i \in 1 .. m |-> LineOf(d[i])]
<1>1. TrailingLine(s, width) = SubSeq(h, 1, n) /\ TrailingLine(longer, wider) = SubSeq(g, 1, m)
  BY ContinuesMeans DEF TrailingLine, Series
<1>2. /\ n \in Nat /\ m \in Nat /\ n <= m /\ IsSequence(s) /\ IsSequence(longer)
      /\ \A i \in 1 .. n : longer[i] = s[i] /\ wider[i] = width[i]
  BY ContinuesMeans
<1>3. /\ \A i \in 1 .. n : c[i] = BandAt(s, width, c[i - 1], i)
      /\ \A i \in 1 .. m : d[i] = BandAt(longer, wider, d[i - 1], i)
  <2>1. /\ c = [i \in 1 .. n |-> BandAt(s, width, c[i - 1], i)]
        /\ d = [i \in 1 .. m |-> BandAt(longer, wider, d[i - 1], i)]
    BY <1>2, BandsAre
  <2> HIDE DEF c, d, n, m
  <2> QED BY <2>1
<1> HIDE DEF c, d, n, m
<1> DEFINE T == {k \in 0 .. n : k = 0 \/ d[k] = c[k]}
<1>4. ASSUME NEW k \in 0 .. n - 1, k \in T PROVE k + 1 \in T
  <2>1. k + 1 \in 1 .. n /\ k + 1 \in 1 .. m /\ k + 1 - 1 = k
    BY <1>2
  <2>2. /\ c[k + 1] = BandAt(s, width, c[k], k + 1)
        /\ d[k + 1] = BandAt(longer, wider, d[k], k + 1)
    BY <1>3, <2>1
  <2>3. longer[k + 1] = s[k + 1] /\ wider[k + 1] = width[k + 1]
    BY <1>2, <2>1
  <2>4. CASE k = 0
    <3>1. BandFrom(longer, wider, None, k + 1) = BandFrom(s, width, None, k + 1)
      BY <2>3 DEF BandFrom
    <3>2. BandAt(longer, wider, d[k], k + 1) = BandAt(s, width, c[k], k + 1)
      BY <2>4, <3>1 DEF BandAt
    <3> QED BY <2>1, <2>2, <3>2
  <2>5. CASE k # 0
    <3>1. k \in 1 .. n
      BY <1>2, <2>5
    <3>2. longer[k] = s[k] /\ d[k] = c[k]
      BY <1>2, <1>4, <2>5, <3>1
    <3>3. BandFrom(longer, wider, c[k], k + 1) = BandFrom(s, width, c[k], k + 1)
      BY <2>1, <2>3, <3>2 DEF BandFrom
    <3>4. BandAt(longer, wider, d[k], k + 1) = BandAt(s, width, c[k], k + 1)
      BY <2>5, <3>2, <3>3 DEF BandAt
    <3> QED BY <2>1, <2>2, <3>4
  <2> QED BY <2>4, <2>5
<1>5. 0 .. n \subseteq T
  <2>1. 0 \in T
    BY <1>2
  <2> HIDE DEF T
  <2> QED BY <1>2, <1>4, <2>1, PositionByPosition
<1>6. \A i \in 1 .. n : d[i] = c[i]
  BY <1>2, <1>5
<1> HIDE DEF T
<1>7. Agree(g, h, n) /\ Points(h, n) /\ Points(g, m)
  BY <1>2, <1>6 DEF Agree, Points
<1> HIDE DEF h, g
<1>8. /\ Continues(SubSeq(g, 1, m), SubSeq(h, 1, n))
      /\ Len(SubSeq(h, 1, n)) = n
  BY <1>2, <1>7, PointByPoint
<1> QED BY <1>1, <1>8 DEF n

\* The SuperTrend never changes its past.
LEMMA SupertrendStays ==
  ASSUME NEW s, NEW longer, Continues(longer, s), NEW n \in Nat \ {0}, NEW factor
  PROVE  /\ Continues(Supertrend(longer, n, factor), Supertrend(s, n, factor))
         /\ Len(Supertrend(s, n, factor)) = Len(s)
<1> DEFINE a == Ewm(TrueRange(s), Frac(1, n), n)
           b == Ewm(TrueRange(longer), Frac(1, n), n)
           h == [i \in 1 .. Len(a) |-> IF a[i] = None THEN None ELSE Times(factor, a[i])]
           g == [i \in 1 .. Len(b) |-> IF b[i] = None THEN None ELSE Times(factor, b[i])]
<1>1. Continues(TrueRange(longer), TrueRange(s)) /\ Len(TrueRange(s)) = Len(s)
  BY TrueRangeStays
<1>2. Continues(b, a)
  BY <1>1, EwmStays
<1>3. Len(a) = Len(s)
  BY <1>1, EwmIs, ContinuesMeans
<1>4. /\ Supertrend(s, n, factor) = TrailingLine(s, Mapped(a,
              LAMBDA r : IF r = None THEN None ELSE Times(factor, r)))
      /\ Supertrend(longer, n, factor) = TrailingLine(longer, Mapped(b,
              LAMBDA r : IF r = None THEN None ELSE Times(factor, r)))
  BY DEF Supertrend
<1> HIDE DEF a, b
<1>5. /\ Supertrend(s, n, factor) = TrailingLine(s, SubSeq(h, 1, Len(a)))
      /\ Supertrend(longer, n, factor) = TrailingLine(longer, SubSeq(g, 1, Len(b)))
  <2>1. DOMAIN a = 1 .. Len(a) /\ DOMAIN b = 1 .. Len(b)
    BY <1>2, ContinuesMeans
  <2> QED BY <1>4, <2>1 DEF Mapped, Series
<1>6. Agree(g, h, Len(a)) /\ Points(h, Len(a)) /\ Points(g, Len(b))
  BY <1>2, ContinuesMeans DEF Agree, Points
<1> HIDE DEF h, g
<1>7. /\ Continues(SubSeq(g, 1, Len(b)), SubSeq(h, 1, Len(a)))
      /\ Len(SubSeq(h, 1, Len(a))) = Len(a)
  BY <1>2, <1>6, ContinuesMeans, PointByPoint
<1> DEFINE u == SubSeq(h, 1, Len(a))
           v == SubSeq(g, 1, Len(b))
<1>8. /\ Supertrend(s, n, factor) = TrailingLine(s, u)
      /\ Supertrend(longer, n, factor) = TrailingLine(longer, v)
      /\ Continues(v, u) /\ Len(u) = Len(s)
  BY <1>3, <1>5, <1>7
<1> HIDE DEF u, v
<1> QED BY <1>8, TrailingLineStays

-----------------------------------------------------------------------------
(* Pivots and what is made of them.                                        *)

\* A pivot, once its neighbours are all there, stays one; a new one is behind them.
LEMMA PivotLowsStay ==
  ASSUME NEW f, NEW longer, Continues(longer, f), NEW left \in Nat, NEW right \in Nat
  PROVE  /\ PivotLows(f, left, right) \subseteq 1 .. Len(f)
         /\ PivotLows(f, left, right) =
                {i \in PivotLows(longer, left, right) : i + right <= Len(f)}
<1> DEFINE a == Column(f, "low")
           b == Column(longer, "low")
<1>1. Continues(b, a) /\ Len(a) = Len(f) /\ Len(b) = Len(longer)
  BY ColumnStays
<1> HIDE DEF a, b
<1>2. PivotLows(f, left, right) =
        {i \in DOMAIN a : i > left /\ i + right <= Len(a)
            /\ \A j \in (i - left) .. (i + right) : j \in DOMAIN a /\ j # i => a[i] < a[j]}
  BY DEF PivotLows, Pivots, Extreme, Under, a
<1>3. PivotLows(longer, left, right) =
        {i \in DOMAIN b : i > left /\ i + right <= Len(b)
            /\ \A j \in (i - left) .. (i + right) : j \in DOMAIN b /\ j # i => b[i] < b[j]}
  BY DEF PivotLows, Pivots, Extreme, Under, b
<1>4. /\ Len(a) \in Nat /\ Len(b) \in Nat /\ Len(a) <= Len(b)
      /\ DOMAIN a = 1 .. Len(a) /\ DOMAIN b = 1 .. Len(b)
      /\ \A i \in 1 .. Len(a) : b[i] = a[i]
  BY <1>1, ContinuesMeans
<1>5. ASSUME NEW i \in 1 .. Len(a), i > left, i + right <= Len(a)
      PROVE  /\ i \in 1 .. Len(b) /\ i + right <= Len(b) /\ b[i] = a[i]
             /\ \A j \in (i - left) .. (i + right) :
                    j \in 1 .. Len(a) /\ j \in 1 .. Len(b) /\ b[j] = a[j]
  BY <1>4, <1>5
<1>6. ASSUME NEW i \in 1 .. Len(b), i + right <= Len(a) PROVE i \in 1 .. Len(a)
  BY <1>4, <1>6
<1> QED BY <1>1, <1>2, <1>3, <1>4, <1>5, <1>6

\* A divergence stays: its pivots are there, and no new pivot is before one of them.
LEMMA DivergencesStay ==
  ASSUME NEW f, NEW longer, Continues(longer, f), NEW p,
         p.left \in Nat, p.right \in Nat, p.barsBack \in Nat,
         p.rsiPeriod \in Nat \ {0}, p.momentumPeriod \in Nat \ {0}
  PROVE  KnoxvilleDivergences(f, p) \subseteq KnoxvilleDivergences(longer, p)
<1> DEFINE n == Len(f)
           r == Rsi(Closes(f), p.rsiPeriod)
           s == Rsi(Closes(longer), p.rsiPeriod)
           u == Momentum(Closes(f), p.momentumPeriod)
           v == Momentum(Closes(longer), p.momentumPeriod)
           a == Measurable(PivotLows(f, p.left, p.right), r, u)
           b == Measurable(PivotLows(longer, p.left, p.right), s, v)
           Prior(x, pivots, momentum, i) ==
               {j \in pivots : i - p.barsBack <= j /\ j < i
                   /\ x[i].low < x[j].low /\ Less(momentum[j], momentum[i])}
           Findings(x, pivots, rsi, momentum) ==
               {[at |-> i, prior |-> Max(Prior(x, pivots, momentum, i)), rsi |-> rsi[i],
                 momentum |-> momentum[i]] :
                   i \in {k \in pivots : AtMost(rsi[k], Int2Frac(p.oversold))
                                         /\ Prior(x, pivots, momentum, k) # {}}}
<1>1. KnoxvilleDivergences(f, p) = Findings(f, a, r, u)
  BY DEF KnoxvilleDivergences, Divergences
<1>2. KnoxvilleDivergences(longer, p) = Findings(longer, b, s, v)
  BY DEF KnoxvilleDivergences, Divergences
<1>3. Continues(Closes(longer), Closes(f)) /\ Len(Closes(f)) = n
  BY ClosesStay
<1>4. /\ n \in Nat /\ \A i \in 1 .. n : longer[i] = f[i]
  BY ContinuesMeans
<1>5. \A i \in 1 .. n : s[i] = r[i]
  <2>1. Continues(s, r) /\ Len(r) = n
    BY <1>3, RsiStays
  <2> HIDE DEF s, r
  <2> QED BY <2>1, ContinuesMeans
<1>6. \A i \in 1 .. n : v[i] = u[i]
  <2>1. Continues(v, u) /\ Len(u) = n
    BY <1>3, MomentumStays
  <2> HIDE DEF u, v
  <2> QED BY <2>1, ContinuesMeans
<1> HIDE DEF r, s, u, v
<1>7. /\ PivotLows(f, p.left, p.right) \subseteq 1 .. n
      /\ PivotLows(f, p.left, p.right) =
             {i \in PivotLows(longer, p.left, p.right) : i + p.right <= n}
  BY PivotLowsStay
<1>8. PivotLows(longer, p.left, p.right) \subseteq Nat
  BY PivotLowsStay, ContinuesMeans DEF PivotLows, Pivots, Column, Series
<1>9. a \subseteq 1 .. n /\ b \subseteq Nat /\ a = {i \in b : i + p.right <= n}
  BY <1>5, <1>6, <1>7, <1>8 DEF Measurable
<1> HIDE DEF a, b, n
<1>10. ASSUME NEW i \in a
       PROVE  /\ i \in b /\ s[i] = r[i] /\ v[i] = u[i]
              /\ Prior(longer, b, v, i) = Prior(f, a, u, i)
  <2>1. i \in b /\ i \in 1 .. n /\ i + p.right <= n
    BY <1>9
  <2>2. ASSUME NEW j \in b, j < i PROVE j \in a
    BY <1>9, <2>1, <2>2, <1>4
  <2>3. \A j \in a : j \in b /\ longer[j] = f[j] /\ v[j] = u[j]
    BY <1>4, <1>6, <1>9
  <2>4. longer[i] = f[i] /\ v[i] = u[i] /\ s[i] = r[i]
    BY <1>4, <1>5, <1>6, <2>1
  <2>5. \A j : j \in Prior(longer, b, v, i) <=> j \in Prior(f, a, u, i)
    BY <2>2, <2>3, <2>4
  <2> HIDE DEF Prior
  <2> QED BY <2>1, <2>4, <2>5
<1> HIDE DEF Prior
<1>11. Findings(f, a, r, u) \subseteq Findings(longer, b, s, v)
  BY <1>10
<1> QED BY <1>1, <1>2, <1>11

-----------------------------------------------------------------------------
(* Weeks and years.                                                        *)

\* A day is in a period that does not go back.
LEMMA PeriodsPass ==
  ASSUME NEW a \in Nat, NEW b \in Nat, a <= b, NEW d \in Nat \ {0}
  PROVE  a \div d \in Nat /\ a \div d <= b \div d
  OBVIOUS

\* The candles are those of days, the earlier ones first.
DaysPass(f) ==
    /\ \A i \in 1 .. Len(f) : f[i].day \in Nat
    /\ \A i, j \in 1 .. Len(f) : i < j => f[i].day < f[j].day

PeriodsOf(f, d) == {f[i].day \div d : i \in 1 .. Len(f)}

\* The periods of a frame are finitely many numbers.
LEMMA PeriodsAreFinite ==
  ASSUME NEW f, Len(f) \in Nat, DaysPass(f), NEW d \in Nat \ {0}
  PROVE  PeriodsOf(f, d) \in SUBSET Nat /\ IsFiniteSet(PeriodsOf(f, d))
<1> DEFINE h == [i \in 1 .. Len(f) |-> f[i].day \div d]
<1>1. h \in Surjection(1 .. Len(f), PeriodsOf(f, d))
  BY DEF Surjection, PeriodsOf
<1>2. IsFiniteSet(1 .. Len(f))
  BY FS_Interval
<1>3. IsFiniteSet(PeriodsOf(f, d))
  BY <1>1, <1>2, FS_Surjection
<1> QED BY <1>3, PeriodsPass DEF PeriodsOf, DaysPass

\* Numbers in their order.
LEMMA AscendingIs ==
  ASSUME NEW set \in SUBSET Int, IsFiniteSet(set)
  PROVE  /\ Ascending(set) = [k \in 1 .. Cardinality(set) |-> Ascending(set)[k]]
         /\ \A k \in 1 .. Cardinality(set) :
                /\ Ascending(set)[k] \in set
                /\ Cardinality(Lower(Ascending(set)[k], set)) = k - 1
<1> DEFINE PutAt(k) == CHOOSE i \in set : Cardinality({j \in set : j < i}) = k - 1
<1>1. Ascending(set) = [k \in 1 .. Cardinality(set) |-> [n \in set |-> n][PutAt(k)]]
  BY DEF Ascending, PickedFrom
<1>2. ASSUME NEW k \in 1 .. Cardinality(set)
      PROVE  PutAt(k) \in set /\ Cardinality(Lower(PutAt(k), set)) = k - 1
  BY NthPlace DEF Lower
<1> HIDE DEF PutAt
<1> QED BY <1>1, <1>2

\* Larger numbers come behind.
LEMMA AscendingStays ==
  ASSUME NEW set \in SUBSET Int, NEW more \in SUBSET Int, IsFiniteSet(set), IsFiniteSet(more),
         set \subseteq more, \A x \in set, y \in more \ set : x < y
  PROVE  /\ Cardinality(set) \in Nat /\ Cardinality(more) \in Nat
         /\ Cardinality(set) <= Cardinality(more)
         /\ \A k \in 1 .. Cardinality(set) : Ascending(more)[k] = Ascending(set)[k]
<1>1. /\ Cardinality(set) \in Nat /\ Cardinality(more) \in Nat
      /\ Cardinality(set) <= Cardinality(more)
  BY FS_CardinalityType, FS_Subset
<1>2. ASSUME NEW k \in 1 .. Cardinality(set) PROVE Ascending(more)[k] = Ascending(set)[k]
  <2> DEFINE x == Ascending(set)[k]
             y == Ascending(more)[k]
             rank == [i \in more |-> Cardinality(Lower(i, more))]
  <2>1. k \in 1 .. Cardinality(more)
    BY <1>1
  <2>2. x \in set /\ Cardinality(Lower(x, set)) = k - 1
    BY AscendingIs
  <2>3. y \in more /\ Cardinality(Lower(y, more)) = k - 1
    BY <2>1, AscendingIs
  <2> HIDE DEF x, y
  <2>4. Lower(x, more) = Lower(x, set)
    <3>1. \A j \in more : j < x => j \in set
      BY <2>2
    <3> QED BY <3>1 DEF Lower
  <2>5. rank[x] = rank[y] /\ x \in more
    BY <2>2, <2>3, <2>4
  <2>6. rank \in Injection(more, 0 .. Cardinality(more) - 1)
    BY NthPlace
  <2> HIDE DEF rank
  <2>7. x = y
    BY <2>3, <2>5, <2>6 DEF Injection, IsInjective
  <2> QED BY <2>7 DEF x, y
<1> QED BY <1>1, <1>2

\* An earlier place has a smaller number.
LEMMA AscendingGrows ==
  ASSUME NEW set \in SUBSET Int, IsFiniteSet(set),
         NEW k \in 1 .. Cardinality(set), NEW l \in 1 .. Cardinality(set), k < l
  PROVE  Ascending(set)[k] < Ascending(set)[l]
<1> DEFINE x == Ascending(set)[k]
           y == Ascending(set)[l]
<1>1. /\ x \in set /\ Cardinality(Lower(x, set)) = k - 1
      /\ y \in set /\ Cardinality(Lower(y, set)) = l - 1
  BY AscendingIs
<1>5. Cardinality(set) \in Nat
  BY FS_CardinalityType
<1> HIDE DEF x, y
<1>2. x # y
  BY <1>1, <1>5
<1>3. ASSUME y < x PROVE FALSE
  <2>1. Cardinality(Lower(y, set)) < Cardinality(Lower(x, set))
    BY <1>1, <1>3, FewerBelow
  <2> QED BY <1>1, <1>5, <2>1
<1>4. x < y
  BY <1>1, <1>2, <1>3
<1> QED BY <1>4 DEF x, y

PeriodBar(f, p, in) ==
    LET w == SubSeq(f, Min(in), Max(in))
    IN  [period |-> p, open |-> Head(w).open, close |-> Last(w).close,
         high |-> Max(ToSet(Column(w, "high"))), low |-> Min(ToSet(Column(w, "low")))]

DaysIn(f, d, p) == {i \in 1 .. Len(f) : f[i].day \div d = p}

\* The candles of the periods, one each.
LEMMA ResampledIs ==
  ASSUME NEW f, IsSequence(f), DaysPass(f), NEW d \in Nat \ {0}
  PROVE  LET periods == Ascending(PeriodsOf(f, d))
             n == Cardinality(PeriodsOf(f, d))
         IN  /\ n \in Nat /\ IsSequence(Resampled(f, d)) /\ Len(Resampled(f, d)) = n
             /\ \A k \in 1 .. n :
                    /\ Resampled(f, d)[k] = PeriodBar(f, periods[k], DaysIn(f, d, periods[k]))
                    /\ Resampled(f, d)[k].period = periods[k]
<1> DEFINE c == [i \in 1 .. Len(f) |-> f[i].day \div d]
           set == PeriodsOf(f, d)
           n == Cardinality(set)
           periods == Ascending(set)
           h == [k \in 1 .. n |-> PeriodBar(f, periods[k], DaysIn(f, d, periods[k]))]
<1>1. Len(f) \in Nat /\ DOMAIN f = 1 .. Len(f)
  BY Positions
<1>2. PeriodOf(f, d) = c
  <2>1. PeriodOf(f, d) = SubSeq(c, 1, Len(f))
    BY <1>1 DEF PeriodOf, Series
  <2>2. SubSeq(c, 1, Len(f)) = c
    BY <1>1, Whole
  <2> QED BY <2>1, <2>2
<1>3. ToSet(c) = set
  BY DEF ToSet, PeriodsOf
<1>4. set \in SUBSET Nat /\ IsFiniteSet(set) /\ n \in Nat
  BY <1>1, PeriodsAreFinite, FS_CardinalityType
<1>5. periods = [k \in 1 .. n |-> periods[k]]
  BY <1>4, AscendingIs
<1>6. Len(periods) = n /\ DOMAIN periods = 1 .. n
  <2> HIDE DEF periods, n
  <2> QED BY <1>4, <1>5, Whole
<1>7. \A p : {i \in DOMAIN f : c[i] = p} = DaysIn(f, d, p)
  BY <1>1 DEF DaysIn
<1>8. Resampled(f, d) = SubSeq(h, 1, n)
  <2> HIDE DEF c
  <2>1. Resampled(f, d) =
           SubSeq([k \in DOMAIN periods |->
               PeriodBar(f, periods[k], {i \in DOMAIN f : c[i] = periods[k]})], 1, Len(periods))
    BY <1>2, <1>3 DEF Resampled, Series, PeriodBar
  <2> QED BY <1>6, <1>7, <2>1
<1>9. SubSeq(h, 1, n) = h /\ IsSequence(h) /\ Len(h) = n
  <2> HIDE DEF periods, n
  <2> QED BY <1>4, Whole
<1>10. \A k \in 1 .. n : /\ h[k] = PeriodBar(f, periods[k], DaysIn(f, d, periods[k]))
                         /\ h[k].period = periods[k]
  BY DEF PeriodBar
<1> HIDE DEF h
<1> QED BY <1>4, <1>8, <1>9, <1>10

-----------------------------------------------------------------------------
(* The frame of the rows, and what is found on it.                         *)

\* What a query keeps of a series, in the order of its places.
LEMMA PickedIs ==
  ASSUME NEW series, NEW places \in SUBSET Int, IsFiniteSet(places)
  PROVE  PickedFrom(series, places) =
            [k \in 1 .. Cardinality(places) |-> series[Ascending(places)[k]]]
<1> DEFINE PutAt(k) == CHOOSE i \in places : Cardinality({j \in places : j < i}) = k - 1
<1>1. ASSUME NEW k \in 1 .. Cardinality(places) PROVE PutAt(k) \in places
  BY NthPlace DEF Lower
<1>2. Ascending(places) = [k \in 1 .. Cardinality(places) |-> [n \in places |-> n][PutAt(k)]]
  BY DEF Ascending, PickedFrom
<1>3. PickedFrom(series, places) = [k \in 1 .. Cardinality(places) |-> series[PutAt(k)]]
  BY DEF PickedFrom
<1> HIDE DEF PutAt
<1>4. \A k \in 1 .. Cardinality(places) : Ascending(places)[k] = PutAt(k)
  BY <1>1, <1>2
<1> QED BY <1>3, <1>4

AllJudged(set) == \A r \in set : r.rating \in {"BUY", "SELL"}

SignalInv == IsSequence(rows) /\ DaysPass(rows) /\ AllJudged(report)

\* The rows of a screener buy or sell.
LEMMA RowsAreJudged ==
  /\ \A screener, condition : AllJudged(BuyIf(screener, condition))
  /\ \A screener, buys, sells : AllJudged(Rated(screener, buys, sells))
  BY DEF BuyIf, Rated, Row, AllJudged

\* A scan reports such rows.
LEMMA ScanIsJudged ==
  ASSUME NEW f, Compute(f)
  PROVE  AllJudged(report')
<1>1. PICK opinion \in Opinions \cup {None} :
         report' = ChartRows(f) \cup TechnicalRows(Flags(f), opinion)
                                \cup SixtySevenRows(f, opinion)
  BY DEF Compute, Screened
<1>2. ASSUME NEW g, NEW closes, NEW bands, NEW heikin
      PROVE  AllJudged(CandleRows(g, closes, bands, heikin))
  <2>1. AllJudged(EnvelopeRows(g, bands))
    BY RowsAreJudged DEF EnvelopeRows
  <2>2. AllJudged(Week52LowRows(g))
    BY RowsAreJudged DEF Week52LowRows
  <2>3. AllJudged(GreenCandlesRows(g))
    BY RowsAreJudged DEF GreenCandlesRows
  <2>4. AllJudged(CprYearlyRows(g))
    BY RowsAreJudged DEF CprYearlyRows
  <2>5. \A divergences : AllJudged(EnvelopeKnoxvilleRows(g, bands, divergences))
    BY RowsAreJudged DEF EnvelopeKnoxvilleRows
  <2>6. \A slow, fast, o : AllJudged(StochasticSwingRows(g, slow, fast, o))
    BY RowsAreJudged DEF StochasticSwingRows
  <2>7. \A trend : AllJudged(HeikinAshiSupertrendRows(heikin, trend))
    BY RowsAreJudged DEF HeikinAshiSupertrendRows
  <2>8. \A b : AllJudged(BollingerRows(g, b))
    BY RowsAreJudged DEF BollingerRows, AllJudged
  <2> QED BY <2>1, <2>2, <2>3, <2>4, <2>5, <2>6, <2>7, <2>8 DEF CandleRows, AllJudged
<1>3. AllJudged(ChartRows(f))
  BY <1>2 DEF ChartRows
<1>4. AllJudged(TechnicalRows(Flags(f), opinion))
  BY RowsAreJudged DEF TechnicalRows
<1>5. AllJudged(SixtySevenRows(f, opinion))
  BY RowsAreJudged DEF SixtySevenRows
<1> QED BY <1>1, <1>3, <1>4, <1>5 DEF AllJudged

\* Frame g begins k candles later than f, and has the other ones of f first.
Slides(g, f, k) ==
    /\ IsSequence(f) /\ IsSequence(g)
    /\ k \in 0 .. Len(f) /\ Len(f) - k <= Len(g)
    /\ \A i \in 1 .. Len(f) - k : g[i] = f[i + k]
    /\ Len(g) # 0 => \A i \in 1 .. k : f[i].day < g[1].day

\* The lengths of two such frames, and their candles.
LEMMA SlidesMeans ==
  ASSUME NEW f, NEW g, NEW k, Slides(g, f, k)
  PROVE  /\ Len(f) \in Nat /\ Len(g) \in Nat /\ k \in Nat /\ Len(f) <= Len(g) + k
         /\ IsSequence(f) /\ IsSequence(g)
         /\ DOMAIN f = 1 .. Len(f) /\ DOMAIN g = 1 .. Len(g)
         /\ \A i \in 1 .. Len(f) : i > k => i - k \in 1 .. Len(g) /\ g[i - k] = f[i]
<1>1. Len(f) \in Nat /\ Len(g) \in Nat /\ k \in Nat /\ Len(f) - k <= Len(g)
  BY Positions DEF Slides
<1>2. ASSUME NEW i \in 1 .. Len(f), i > k PROVE i - k \in 1 .. Len(g) /\ g[i - k] = f[i]
  <2>1. i - k \in 1 .. Len(f) - k /\ i - k + k = i
    BY <1>1, <1>2
  <2> QED BY <1>1, <2>1 DEF Slides
<1> QED BY <1>1, <1>2, Positions DEF Slides

\* A candle that is not older than the first one is still there.
LEMMA StillSeen ==
  ASSUME NEW f, NEW g, NEW k, Slides(g, f, k), DaysPass(g), DaysPass(f), Len(g) # 0,
         NEW i \in 1 .. Len(f), g[1].day <= f[i].day
  PROVE  i > k
<1>1. k \in Nat /\ i \in Nat /\ 1 \in 1 .. Len(g)
  BY SlidesMeans
<1>2. g[1].day \in Nat /\ f[i].day \in Nat
  BY <1>1 DEF DaysPass
<1>3. ASSUME i <= k PROVE FALSE
  <2>1. i \in 1 .. k
    BY <1>1, <1>3
  <2> QED BY <1>2, <2>1 DEF Slides
<1> QED BY <1>1, <1>3

\* The candles' lows and highs.
LEMMA ColumnIs ==
  ASSUME NEW f, IsSequence(f), NEW name
  PROVE  /\ IsSequence(Column(f, name))
         /\ Len(Column(f, name)) = Len(f) /\ DOMAIN Column(f, name) = 1 .. Len(f)
         /\ \A i \in 1 .. Len(f) : Column(f, name)[i] = f[i][name]
<1>1. Continues(f, f)
  BY Positions DEF Continues
<1>2. Continues(Column(f, name), Column(f, name)) /\ Len(Column(f, name)) = Len(f)
      /\ Column(f, name) = [i \in 1 .. Len(f) |-> f[i][name]]
  BY <1>1, ColumnStays
<1> QED BY <1>2 DEF Continues

\* What makes a candle a pivot.
LEMMA PivotsAre ==
  ASSUME NEW f, IsSequence(f), NEW left \in Nat, NEW right \in Nat, NEW i
  PROVE  /\ i \in PivotLows(f, left, right) <=>
                /\ i \in 1 .. Len(f) /\ i > left /\ i + right <= Len(f)
                /\ \A j \in (i - left) .. (i + right) :
                      j \in 1 .. Len(f) /\ j # i => f[i].low < f[j].low
         /\ i \in PivotHighs(f, left, right) <=>
                /\ i \in 1 .. Len(f) /\ i > left /\ i + right <= Len(f)
                /\ \A j \in (i - left) .. (i + right) :
                      j \in 1 .. Len(f) /\ j # i => f[i].high > f[j].high
<1> DEFINE a == Column(f, "low")
           b == Column(f, "high")
<1>1. /\ Len(a) = Len(f) /\ DOMAIN a = 1 .. Len(f) /\ \A j \in 1 .. Len(f) : a[j] = f[j].low
      /\ Len(b) = Len(f) /\ DOMAIN b = 1 .. Len(f) /\ \A j \in 1 .. Len(f) : b[j] = f[j].high
  BY ColumnIs
<1> HIDE DEF a, b
<1>2. i \in PivotLows(f, left, right) <=>
        /\ i \in DOMAIN a /\ i > left /\ i + right <= Len(a)
        /\ \A j \in (i - left) .. (i + right) : j \in DOMAIN a /\ j # i => a[i] < a[j]
  BY DEF PivotLows, Pivots, Extreme, Under, a
<1>3. i \in PivotHighs(f, left, right) <=>
        /\ i \in DOMAIN b /\ i > left /\ i + right <= Len(b)
        /\ \A j \in (i - left) .. (i + right) : j \in DOMAIN b /\ j # i => b[i] > b[j]
  BY DEF PivotHighs, Pivots, Extreme, Above, b
<1> QED BY <1>1, <1>2, <1>3

\* A pivot whose candles are all still there stays one.
LEMMA PivotsSlide ==
  ASSUME NEW f, NEW g, NEW k, Slides(g, f, k), NEW left \in Nat, NEW right \in Nat,
         NEW i, i - left > k
  PROVE  /\ i \in PivotLows(f, left, right) => i - k \in PivotLows(g, left, right)
         /\ i \in PivotHighs(f, left, right) => i - k \in PivotHighs(g, left, right)
<1> DEFINE n == Len(f)
           m == Len(g)
<1>1. /\ n \in Nat /\ m \in Nat /\ k \in Nat /\ n <= m + k
      /\ \A j \in 1 .. n : j > k => j - k \in 1 .. m /\ g[j - k] = f[j]
      /\ IsSequence(f) /\ IsSequence(g)
  BY SlidesMeans
<1>2. ASSUME i \in 1 .. n, i + right <= n
      PROVE  /\ i - k \in 1 .. m /\ i - k > left /\ i - k + right <= m
             /\ g[i - k] = f[i]
             /\ \A j \in (i - k - left) .. (i - k + right) : j \in 1 .. m =>
                  /\ j + k \in (i - left) .. (i + right) /\ j + k \in 1 .. n
                  /\ g[j] = f[j + k]
  <2>1. i \in Nat /\ i > k
    BY <1>1, <1>2
  <2>2. i - k \in 1 .. m /\ g[i - k] = f[i] /\ i - k > left /\ i - k + right <= m
    BY <1>1, <1>2, <2>1
  <2>3. ASSUME NEW j \in (i - k - left) .. (i - k + right), j \in 1 .. m
        PROVE  /\ j + k \in (i - left) .. (i + right) /\ j + k \in 1 .. n /\ g[j] = f[j + k]
    <3>1. j + k \in (i - left) .. (i + right) /\ j + k \in 1 .. n /\ j + k > k
      BY <1>1, <1>2, <2>1, <2>3
    <3>2. j + k - k = j
      BY <1>1, <2>3
    <3> QED BY <1>1, <3>1, <3>2
  <2> QED BY <2>2, <2>3
<1> HIDE DEF n, m
<1>3. ASSUME i \in PivotLows(f, left, right) PROVE i - k \in PivotLows(g, left, right)
  <2>1. /\ i \in 1 .. n /\ i + right <= n
        /\ \A j \in (i - left) .. (i + right) :
              j \in 1 .. n /\ j # i => f[i].low < f[j].low
    BY <1>1, <1>3, PivotsAre DEF n
  <2>2. ASSUME NEW j \in (i - k - left) .. (i - k + right), j \in 1 .. m, j # i - k
        PROVE  g[i - k].low < g[j].low
    <3>1. j + k # i
      BY <1>1, <2>1, <2>2
    <3> QED BY <1>2, <2>1, <2>2, <3>1
  <2> QED BY <1>1, <1>2, <2>1, <2>2, PivotsAre DEF m
<1>4. ASSUME i \in PivotHighs(f, left, right) PROVE i - k \in PivotHighs(g, left, right)
  <2>1. /\ i \in 1 .. n /\ i + right <= n
        /\ \A j \in (i - left) .. (i + right) :
              j \in 1 .. n /\ j # i => f[i].high > f[j].high
    BY <1>1, <1>4, PivotsAre DEF n
  <2>2. ASSUME NEW j \in (i - k - left) .. (i - k + right), j \in 1 .. m, j # i - k
        PROVE  g[i - k].high > g[j].high
    <3>1. j + k # i
      BY <1>1, <2>1, <2>2
    <3> QED BY <1>2, <2>1, <2>2, <3>1
  <2> QED BY <1>1, <1>2, <2>1, <2>2, PivotsAre DEF m
<1> QED BY <1>3, <1>4

\* Positions of a frame up to n, and of one that begins k later up to m.
Shifts(a, n, b, m, k) ==
    /\ a \in SUBSET (1 .. n) /\ b \in SUBSET (1 .. m)
    /\ a = {j \in k + 1 .. n : j - k \in b}

\* The first of some positions stays the first when later ones join them.
LEMMA FirstShifts ==
  ASSUME NEW n \in Nat, NEW m \in Nat, NEW k \in Nat, NEW a, NEW b, Shifts(a, n, b, m, k), a # {}
  PROVE  b # {} /\ Min(b) = Min(a) - k /\ Min(a) \in a
<1>1. Min(a) \in a /\ \A i \in a : Min(a) <= i
  BY FirstPosition DEF Shifts
<1>2. b # {}
  BY <1>1 DEF Shifts
<1>3. Min(b) \in b /\ \A i \in b : Min(b) <= i
  BY <1>2, FirstPosition DEF Shifts
<1> DEFINE x == Min(a)
           y == Min(b)
<1>4. x \in a /\ y \in b /\ (\A i \in a : x <= i) /\ (\A i \in b : y <= i)
  BY <1>1, <1>3
<1> HIDE DEF x, y
<1>5. x \in k + 1 .. n /\ x - k \in b /\ y \in 1 .. m /\ y <= x - k
  BY <1>4 DEF Shifts
<1>6. y + k \in k + 1 .. n /\ y + k - k = y
  BY <1>5
<1>7. y + k \in a
  BY <1>4, <1>6 DEF Shifts
<1>8. y = x - k
  BY <1>4, <1>5, <1>7
<1> QED BY <1>1, <1>2, <1>8 DEF x, y

\* What a gap is: of three candles, and filled by a later one.
LEMMA GapsAre ==
  ASSUME NEW f, IsSequence(f), NEW minGap, NEW gap \in FairValueGaps(f, minGap)
  PROVE  /\ gap.at \in 2 .. Len(f) - 1
         /\ gap.filled # None => gap.filled \in gap.at + 2 .. Len(f)
<1> DEFINE Fills(i, direction, bottom, top) ==
               {j \in (i + 2) .. Len(f) :
                   IF direction = "bullish" THEN f[j].low <= bottom ELSE f[j].high >= top}
           Gap(i, direction, bottom, top) ==
               [at |-> i, direction |-> direction, bottom |-> bottom, top |-> top,
                filled |-> IF Fills(i, direction, bottom, top) = {} THEN None
                           ELSE Min(Fills(i, direction, bottom, top))]
<1>1. PICK i \in 2 .. (Len(f) - 1) :
          \/ gap = Gap(i, "bullish", f[i - 1].high, f[i + 1].low)
          \/ gap = Gap(i, "bearish", f[i + 1].high, f[i - 1].low)
  BY DEF FairValueGaps
<1>2. PICK direction, bottom, top : gap = Gap(i, direction, bottom, top)
  <2> HIDE DEF Gap
  <2> QED BY <1>1
<1>3. Len(f) \in Nat
  BY Positions
<1> DEFINE a == Fills(i, direction, bottom, top)
<1>4. gap.at = i /\ gap.filled = IF a = {} THEN None ELSE Min(a)
  BY <1>2
<1>5. a \in SUBSET (i + 2 .. Len(f)) /\ a \in SUBSET (1 .. Len(f))
  BY <1>3
<1> HIDE DEF a
<1>6. a # {} => Min(a) \in a
  BY <1>3, <1>5, FirstPosition
<1> QED BY <1>3, <1>4, <1>5, <1>6

\* A gap whose candles are all still there stays where it is, and so does its fill.
LEMMA GapsSlide ==
  ASSUME NEW f, NEW g, NEW k, Slides(g, f, k), NEW minGap,
         NEW gap \in FairValueGaps(f, minGap), gap.at - 1 > k
  PROVE  \E later \in FairValueGaps(g, minGap) :
            /\ later.at = gap.at - k /\ later.bottom = gap.bottom /\ later.top = gap.top
            /\ gap.filled # None => later.filled = gap.filled - k
<1> DEFINE Fills(x, i, direction, bottom, top) ==
               {j \in (i + 2) .. Len(x) :
                   IF direction = "bullish" THEN x[j].low <= bottom ELSE x[j].high >= top}
           Gap(x, i, direction, bottom, top) ==
               [at |-> i, direction |-> direction, bottom |-> bottom, top |-> top,
                filled |-> IF Fills(x, i, direction, bottom, top) = {} THEN None
                           ELSE Min(Fills(x, i, direction, bottom, top))]
           Between(x, i) ==
               CASE x[i + 1].low > x[i - 1].high ->
                       {Gap(x, i, "bullish", x[i - 1].high, x[i + 1].low)}
                 [] ~(x[i + 1].low > x[i - 1].high) /\ x[i + 1].high < x[i - 1].low ->
                       {Gap(x, i, "bearish", x[i + 1].high, x[i - 1].low)}
                 [] OTHER -> {}
           Wide(x) == AtMost(minGap, Frac(x.top - x.bottom, x.bottom))
<1>1. \A x : FairValueGaps(x, minGap) =
                {y \in UNION {Between(x, i) : i \in 2 .. (Len(x) - 1)} : Wide(y)}
  BY DEF FairValueGaps
<1>2. /\ Len(f) \in Nat /\ Len(g) \in Nat /\ k \in Nat /\ Len(f) <= Len(g) + k
      /\ \A i \in 1 .. Len(f) : i > k => i - k \in 1 .. Len(g) /\ g[i - k] = f[i]
  BY SlidesMeans
<1>3. PICK i \in 2 .. (Len(f) - 1) : gap \in Between(f, i)
  <2> HIDE DEF Between
  <2> QED BY <1>1
<1>4. Wide(gap)
  <2> HIDE DEF Between, Wide
  <2> QED BY <1>1
<1>0. gap.at = i
  BY <1>3
<1> DEFINE l == i - k
<1>5. /\ g[l - 1] = f[i - 1] /\ g[l + 1] = f[i + 1] /\ l \in 2 .. (Len(g) - 1) /\ l = i - k
  <2>1. i - 1 > k /\ i - 1 \in 1 .. Len(f) /\ i + 1 \in 1 .. Len(f) /\ i + 1 > k
    BY <1>0, <1>2
  <2>2. i - 1 - k = l - 1 /\ i + 1 - k = l + 1
    BY <1>2
  <2> QED BY <1>2, <2>1, <2>2
<1> HIDE DEF l
<1>6. ASSUME NEW direction, NEW bottom, NEW top, gap = Gap(f, i, direction, bottom, top),
             Gap(g, l, direction, bottom, top) \in Between(g, l)
      PROVE  \E later \in FairValueGaps(g, minGap) :
                /\ later.at = gap.at - k /\ later.bottom = gap.bottom /\ later.top = gap.top
                /\ gap.filled # None => later.filled = gap.filled - k
  <2> DEFINE later == Gap(g, l, direction, bottom, top)
             a == Fills(f, i, direction, bottom, top)
             b == Fills(g, l, direction, bottom, top)
  <2>1. later.at = gap.at - k /\ later.bottom = gap.bottom /\ later.top = gap.top
    BY <1>5, <1>6
  <2>2. Wide(later)
    <3>1. Wide(later) <=> Wide(gap)
      BY <2>1
    <3> QED BY <1>4, <3>1
  <2>3. later \in FairValueGaps(g, minGap)
    <3> HIDE DEF Between, Wide, later
    <3>1. later \in Between(g, l)
      BY <1>6 DEF later
    <3> QED BY <1>1, <1>5, <2>2, <3>1
  <2>4. gap.filled # None => later.filled = gap.filled - k
    <3>1. Shifts(a, Len(f), b, Len(g), k)
      <4>1. ASSUME NEW j \in k + 1 .. Len(f)
            PROVE  j \in (i + 2) .. Len(f) <=> j - k \in (l + 2) .. Len(g)
        BY <1>2, <1>5
      <4>2. \A j \in k + 1 .. Len(f) : g[j - k] = f[j]
        BY <1>2
      <4>3. a \in SUBSET (k + 1 .. Len(f)) /\ a \in SUBSET (1 .. Len(f)) /\ b \in SUBSET (1 .. Len(g))
        BY <1>2, <1>5
      <4>4. \A j \in k + 1 .. Len(f) : j \in a <=> j - k \in b
        BY <4>1, <4>2
      <4> HIDE DEF a, b
      <4> QED BY <4>3, <4>4 DEF Shifts
    <3>2. ASSUME a # {} PROVE b # {} /\ Min(b) = Min(a) - k
      <4>1. Len(f) \in Nat /\ Len(g) \in Nat /\ k \in Nat
        BY <1>2
      <4>2. a # {}
        BY <3>2
      <4> HIDE DEF a, b
      <4> QED BY <3>1, <4>1, <4>2, FirstShifts
    <3>3. gap.filled = IF a = {} THEN None ELSE Min(a)
      BY <1>6
    <3>4. later.filled = IF b = {} THEN None ELSE Min(b)
      OBVIOUS
    <3> HIDE DEF a, b, later
    <3> QED BY <3>2, <3>3, <3>4
  <2> HIDE DEF later
  <2> QED BY <2>1, <2>3, <2>4
<1> HIDE DEF Gap, Wide
<1>7. CASE f[i + 1].low > f[i - 1].high
  <2>1. gap = Gap(f, i, "bullish", f[i - 1].high, f[i + 1].low)
    BY <1>3, <1>7
  <2>2. Gap(g, l, "bullish", f[i - 1].high, f[i + 1].low) \in Between(g, l)
    BY <1>5, <1>7
  <2> QED BY <1>6, <2>1, <2>2
<1>8. CASE ~(f[i + 1].low > f[i - 1].high) /\ f[i + 1].high < f[i - 1].low
  <2>1. gap = Gap(f, i, "bearish", f[i + 1].high, f[i - 1].low)
    BY <1>3, <1>8
  <2>2. Gap(g, l, "bearish", f[i + 1].high, f[i - 1].low) \in Between(g, l)
    BY <1>5, <1>8
  <2> QED BY <1>6, <2>1, <2>2
<1> QED BY <1>3, <1>7, <1>8

\* What a break is: of a pivot, at a later candle.
LEMMA BreaksAre ==
  ASSUME NEW f, IsSequence(f), NEW left \in Nat, NEW right \in Nat, NEW direction,
         NEW break \in Breaks(f, left, right, direction)
  PROVE  /\ break.pivot \in left + 1 .. Len(f) /\ break.at \in break.pivot + 1 .. Len(f)
         /\ break.direction = direction
<1> DEFINE up == direction = "up"
           Swings == IF up THEN PivotHighs(f, left, right) ELSE PivotLows(f, left, right)
           Through(i) == {j \in (i + right + 1) .. Len(f) :
                              IF up THEN f[j].close > f[i].high ELSE f[j].close < f[i].low}
<1>1. PICK i \in {k \in Swings : Through(k) # {}} :
          break = [pivot |-> i, at |-> Min(Through(i)), direction |-> direction]
  BY DEF Breaks
<1>2. Len(f) \in Nat
  BY Positions
<1>3. i \in Swings /\ i \in left + 1 .. Len(f)
  BY <1>1, <1>2, PivotsAre
<1> DEFINE a == Through(i)
<1>4. a # {} /\ a \in SUBSET (i + 1 .. Len(f)) /\ a \in SUBSET (1 .. Len(f))
  BY <1>1, <1>2, <1>3
<1>5. break.pivot = i /\ break.at = Min(a) /\ break.direction = direction
  BY <1>1
<1> HIDE DEF a
<1>6. Min(a) \in a
  BY <1>2, <1>4, FirstPosition
<1> QED BY <1>3, <1>4, <1>5, <1>6

\* A break of a swing whose candles are all still there stays one, at the same candle.
LEMMA BreaksSlide ==
  ASSUME NEW f, NEW g, NEW k, Slides(g, f, k), NEW left \in Nat, NEW right \in Nat,
         NEW direction, NEW break \in Breaks(f, left, right, direction), break.pivot - left > k
  PROVE  [pivot |-> break.pivot - k, at |-> break.at - k, direction |-> direction]
             \in Breaks(g, left, right, direction)
<1> DEFINE up == direction = "up"
           Swings(x) == IF up THEN PivotHighs(x, left, right) ELSE PivotLows(x, left, right)
           Through(x, i) == {j \in (i + right + 1) .. Len(x) :
                                IF up THEN x[j].close > x[i].high ELSE x[j].close < x[i].low}
<1>1. \A x : Breaks(x, left, right, direction) =
          {[pivot |-> i, at |-> Min(Through(x, i)), direction |-> direction] :
              i \in {j \in Swings(x) : Through(x, j) # {}}}
  BY DEF Breaks
<1>2. /\ Len(f) \in Nat /\ Len(g) \in Nat /\ k \in Nat /\ Len(f) <= Len(g) + k
      /\ \A i \in 1 .. Len(f) : i > k => i - k \in 1 .. Len(g) /\ g[i - k] = f[i]
      /\ IsSequence(f)
  BY SlidesMeans
<1>3. PICK i \in {j \in Swings(f) : Through(f, j) # {}} :
          break = [pivot |-> i, at |-> Min(Through(f, i)), direction |-> direction]
  <2> HIDE DEF Swings, Through
  <2> QED BY <1>1
<1>4. break.pivot = i /\ break.at = Min(Through(f, i)) /\ i - left > k
  BY <1>3
<1>5. i \in 1 .. Len(f) /\ i - k \in Swings(g)
  BY <1>2, <1>3, <1>4, PivotsAre, PivotsSlide
<1> DEFINE a == Through(f, i)
           b == Through(g, i - k)
<1>6. a # {} /\ Shifts(a, Len(f), b, Len(g), k)
  <2>1. i > k /\ g[i - k] = f[i] /\ i \in Nat
    BY <1>2, <1>4, <1>5
  <2>2. ASSUME NEW j \in k + 1 .. Len(f) PROVE g[j - k] = f[j]
    <3>1. j \in 1 .. Len(f) /\ j > k
      BY <1>2
    <3> QED BY <1>2, <3>1
  <2>3. ASSUME NEW j \in k + 1 .. Len(f)
        PROVE  j \in (i + right + 1) .. Len(f) <=> j - k \in (i - k + right + 1) .. Len(g)
    BY <1>2, <2>1
  <2>4. \A j \in k + 1 .. Len(f) : j \in a <=> j - k \in b
    BY <2>1, <2>2, <2>3
  <2>5. a \in SUBSET (k + 1 .. Len(f)) /\ a \in SUBSET (1 .. Len(f)) /\ b \in SUBSET (1 .. Len(g))
    BY <1>2, <2>1
  <2>6. a # {}
    BY <1>3
  <2> HIDE DEF a, b
  <2> QED BY <2>4, <2>5, <2>6 DEF Shifts
<1>7. b # {} /\ Min(b) = Min(a) - k
  <2> HIDE DEF a, b
  <2> QED BY <1>2, <1>6, FirstShifts
<1> HIDE DEF Swings, Through, up
<1> QED BY <1>1, <1>4, <1>5, <1>7

\* What the detectors find on the recent candles is found later, while they are all seen.
LEMMA PatternsSlide ==
  ASSUME NEW r, NEW s, NEW k, Slides(s, r, k), DaysPass(r), DaysPass(s), Len(s) # 0,
         NEW x \in PatternFacts(r), s[1].day <= x.since
  PROVE  x \in PatternFacts(s)
<1> DEFINE Broken(f) == Breaks(f, P.left, P.right, "up") \cup Breaks(f, P.left, P.right, "down")
           GapFact(f, y) == Finding(f[y.at - 1].day, <<"gap", f[y.at].day, y.bottom, y.top>>)
           FillFact(f, y) ==
               Finding(f[y.at - 1].day, <<"filled", f[y.at].day, f[y.filled].day>>)
           BreakFact(f, b) == Finding(f[b.pivot - P.left].day,
                                      <<"break", b.direction, f[b.pivot].day, f[b.at].day>>)
           Gaps(f) == FairValueGaps(f, P.minGap)
<1>1. \A f : PatternFacts(f) =
          {GapFact(f, y) : y \in Gaps(f)}
          \cup {FillFact(f, y) : y \in {h \in Gaps(f) : h.filled # None}}
          \cup {BreakFact(f, b) : b \in Broken(f)}
  BY DEF PatternFacts
<1>2. /\ Len(r) \in Nat /\ Len(s) \in Nat /\ k \in Nat /\ Len(r) <= Len(s) + k
      /\ IsSequence(r) /\ IsSequence(s)
      /\ \A i \in 1 .. Len(r) : i > k => i - k \in 1 .. Len(s) /\ s[i - k] = r[i]
  BY SlidesMeans
<1>3. P.left \in Nat /\ P.right \in Nat /\ None \notin Nat
  BY SignalAssumption
<1>4. ASSUME NEW gap \in Gaps(r), s[1].day <= r[gap.at - 1].day
      PROVE  \E later \in Gaps(s) :
                /\ GapFact(s, later) = GapFact(r, gap)
                /\ gap.filled # None =>
                     later.filled # None /\ FillFact(s, later) = FillFact(r, gap)
  <2>1. gap.at \in 2 .. Len(r) - 1 /\ (gap.filled # None => gap.filled \in gap.at + 2 .. Len(r))
    BY <1>2, GapsAre
  <2>2. gap.at - 1 \in 1 .. Len(r) /\ gap.at \in 1 .. Len(r) /\ gap.at - 1 > k
    BY <1>2, <1>4, <2>1, StillSeen
  <2>3. PICK later \in Gaps(s) :
            /\ later.at = gap.at - k /\ later.bottom = gap.bottom /\ later.top = gap.top
            /\ gap.filled # None => later.filled = gap.filled - k
    BY <2>2, GapsSlide
  <2>4. s[later.at] = r[gap.at] /\ s[later.at - 1] = r[gap.at - 1]
    <3>1. gap.at - 1 - k = later.at - 1 /\ gap.at > k
      BY <1>2, <2>1, <2>2, <2>3
    <3> QED BY <1>2, <2>2, <2>3, <3>1
  <2>5. ASSUME gap.filled # None
        PROVE  later.filled # None /\ s[later.filled] = r[gap.filled]
    <3>1. gap.filled \in 1 .. Len(r) /\ gap.filled > k
      BY <1>2, <2>1, <2>2, <2>5
    <3>2. gap.filled - k \in 1 .. Len(s) /\ s[gap.filled - k] = r[gap.filled]
      BY <1>2, <3>1
    <3> QED BY <1>2, <1>3, <2>3, <2>5, <3>2
  <2> QED BY <2>3, <2>4, <2>5
<1>5. ASSUME NEW break \in Broken(r), s[1].day <= r[break.pivot - P.left].day
      PROVE  \E later \in Broken(s) : BreakFact(s, later) = BreakFact(r, break)
  <2>1. PICK direction \in {"up", "down"} : break \in Breaks(r, P.left, P.right, direction)
    OBVIOUS
  <2>2. /\ break.pivot \in P.left + 1 .. Len(r) /\ break.at \in break.pivot + 1 .. Len(r)
        /\ break.direction = direction
    BY <1>2, <1>3, <2>1, BreaksAre
  <2>3. /\ break.pivot - P.left \in 1 .. Len(r) /\ break.pivot - P.left > k
        /\ break.pivot \in 1 .. Len(r) /\ break.pivot > k
        /\ break.at \in 1 .. Len(r) /\ break.at > k
    <3>1. break.pivot - P.left \in 1 .. Len(r)
      BY <1>2, <1>3, <2>2
    <3>2. break.pivot - P.left > k
      BY <1>5, <3>1, StillSeen
    <3> QED BY <1>2, <1>3, <2>2, <3>1, <3>2
  <2> DEFINE later == [pivot |-> break.pivot - k, at |-> break.at - k, direction |-> direction]
  <2>4. later \in Broken(s)
    BY <1>3, <2>1, <2>3, BreaksSlide
  <2>5. /\ s[break.pivot - k] = r[break.pivot] /\ s[break.at - k] = r[break.at]
        /\ s[break.pivot - k - P.left] = r[break.pivot - P.left]
    <3>1. break.pivot - P.left - k = break.pivot - k - P.left
      BY <1>2, <1>3, <2>3
    <3> QED BY <1>2, <2>3, <3>1
  <2>6. BreakFact(s, later) = BreakFact(r, break)
    BY <2>2, <2>5
  <2> HIDE DEF later, Broken, BreakFact
  <2> QED BY <2>4, <2>6
<1>6. /\ \A f, y : GapFact(f, y).since = f[y.at - 1].day /\ FillFact(f, y).since = f[y.at - 1].day
      /\ \A f, b : BreakFact(f, b).since = f[b.pivot - P.left].day
  BY DEF Finding
<1> HIDE DEF Broken, GapFact, FillFact, BreakFact, Gaps
<1>7. CASE \E gap \in Gaps(r) : x = GapFact(r, gap)
  BY <1>1, <1>4, <1>6, <1>7
<1>8. CASE \E gap \in Gaps(r) : gap.filled # None /\ x = FillFact(r, gap)
  <2>1. PICK gap \in Gaps(r) : gap.filled # None /\ x = FillFact(r, gap)
    BY <1>8
  <2>2. PICK later \in Gaps(s) : later.filled # None /\ FillFact(s, later) = x
    BY <1>4, <1>6, <2>1
  <2> QED BY <1>1, <2>2
<1>9. CASE \E break \in Broken(r) : x = BreakFact(r, break)
  BY <1>1, <1>5, <1>6, <1>9
<1> QED BY <1>1, <1>7, <1>8, <1>9

\* The recent candles of such frames are such frames.
LEMMA RecentSlides ==
  ASSUME NEW f, NEW g, NEW k, Slides(g, f, k), DaysPass(f), DaysPass(g), NEW n \in Nat
  PROVE  /\ DaysPass(Recent(f, n)) /\ DaysPass(Recent(g, n))
         /\ Len(g) # 0 => Len(Recent(g, n)) # 0
         /\ \E l : Slides(Recent(g, n), Recent(f, n), l)
<1> DEFINE Drop(x) == IF n > 0 /\ Len(x) > n THEN Len(x) - n ELSE 0
           a == Drop(f)
           b == Drop(g)
           r == Recent(f, n)
           s == Recent(g, n)
           l == IF k + b - a <= Len(r) THEN k + b - a ELSE Len(r)
<1>1. /\ Len(f) \in Nat /\ Len(g) \in Nat /\ k \in Nat /\ Len(f) <= Len(g) + k
      /\ IsSequence(f) /\ IsSequence(g)
      /\ \A i \in 1 .. Len(f) : i > k => i - k \in 1 .. Len(g) /\ g[i - k] = f[i]
      /\ Len(g) # 0 => \A i \in 1 .. k : f[i].day < g[1].day
  BY SlidesMeans DEF Slides
<1>2. ASSUME NEW x, IsSequence(x), DaysPass(x)
      PROVE  /\ Drop(x) \in 0 .. Len(x) /\ IsSequence(Recent(x, n))
             /\ Len(Recent(x, n)) = Len(x) - Drop(x)
             /\ \A i \in 1 .. Len(x) - Drop(x) : Recent(x, n)[i] = x[i + Drop(x)]
             /\ DaysPass(Recent(x, n))
  <2>1. Len(x) \in Nat /\ Drop(x) \in 0 .. Len(x)
    BY <1>2, Positions
  <2>2. /\ IsSequence(Recent(x, n)) /\ Len(Recent(x, n)) = Len(x) - Drop(x)
        /\ \A i \in 1 .. Len(x) - Drop(x) : Recent(x, n)[i] = x[i + Drop(x)]
    <3>1. CASE n > 0 /\ Len(x) > n
      <4> DEFINE m == Len(x) - n + 1
                 S == {x[i] : i \in 1 .. Len(x)}
      <4>1. Recent(x, n) = SubSeq(x, m, Len(x)) /\ Drop(x) = Len(x) - n /\ m \in Int /\ m <= Len(x)
        BY <2>1, <3>1 DEF Recent
      <4>2. \A i \in m .. Len(x) : x[i] \in S
        BY <2>1, <3>1
      <4>4. Len(x) - m + 1 = n /\ Len(x) - Drop(x) = n
        BY <2>1, <4>1
      <4>5. \A i \in 1 .. n : m + i - 1 = i + Drop(x)
        BY <2>1, <4>1
      <4> HIDE DEF m, S, Drop
      <4>3. /\ SubSeq(x, m, Len(x)) \in Seq(S) /\ Len(SubSeq(x, m, Len(x))) = Len(x) - m + 1
            /\ \A i \in 1 .. Len(x) - m + 1 : SubSeq(x, m, Len(x))[i] = x[m + i - 1]
        BY <2>1, <4>1, <4>2, SubSeqProperties
      <4> QED BY <4>1, <4>3, <4>4, <4>5 DEF IsSequence
    <3>2. CASE ~(n > 0 /\ Len(x) > n)
      <4>1. Recent(x, n) = x /\ Drop(x) = 0
        BY <3>2 DEF Recent
      <4>2. Len(x) - 0 = Len(x) /\ \A i \in 1 .. Len(x) : i + 0 = i
        BY <2>1
      <4> HIDE DEF Drop
      <4> QED BY <1>2, <4>1, <4>2
    <3> QED BY <3>1, <3>2
  <2> HIDE DEF Drop
  <2>3. \A i \in 1 .. Len(x) - Drop(x) : i + Drop(x) \in 1 .. Len(x)
    BY <2>1
  <2>4. DaysPass(Recent(x, n))
    <3> DEFINE y == Recent(x, n)
               c == Drop(x)
    <3>1. /\ Len(y) = Len(x) - c /\ c \in Nat /\ Len(x) \in Nat
          /\ \A i \in 1 .. Len(x) - c : y[i] = x[i + c] /\ i + c \in 1 .. Len(x)
      BY <2>1, <2>2, <2>3
    <3> HIDE DEF y, c
    <3>2. \A i \in 1 .. Len(y) : y[i].day \in Nat
      BY <1>2, <3>1 DEF DaysPass
    <3>3. ASSUME NEW i \in 1 .. Len(y), NEW j \in 1 .. Len(y), i < j PROVE y[i].day < y[j].day
      <4>1. i + c < j + c
        BY <3>1, <3>3
      <4> QED BY <1>2, <3>1, <4>1 DEF DaysPass
    <3>4. DaysPass(y)
      BY <3>2, <3>3 DEF DaysPass
    <3> QED BY <3>4 DEF y
  <2> QED BY <2>1, <2>2, <2>4
<1>3. /\ a \in 0 .. Len(f) /\ IsSequence(r) /\ Len(r) = Len(f) - a /\ DaysPass(r)
      /\ \A i \in 1 .. Len(f) - a : r[i] = f[i + a]
      /\ b \in 0 .. Len(g) /\ IsSequence(s) /\ Len(s) = Len(g) - b /\ DaysPass(s)
      /\ \A i \in 1 .. Len(g) - b : s[i] = g[i + b]
  <2> HIDE DEF Drop
  <2> QED BY <1>1, <1>2
<1>4. Len(g) # 0 => Len(s) # 0
  BY <1>1, <1>3
<1>5. k + b - a \in Nat /\ Len(r) - (k + b - a) <= Len(s)
  BY <1>1, <1>3
<1>6. l \in 0 .. Len(r) /\ l <= k + b - a /\ Len(r) - l <= Len(s)
  <2> HIDE DEF a, b, r, s
  <2> QED BY <1>1, <1>3, <1>5
<1>7. ASSUME NEW i \in 1 .. Len(r) - l PROVE s[i] = r[i + l]
  <2>1. l = k + b - a /\ i \in 1 .. Len(s) /\ i + l \in 1 .. Len(r)
    <3> HIDE DEF a, b, r, s
    <3> QED BY <1>1, <1>3, <1>5, <1>6
  <2> HIDE DEF a, b, r, s, l
  <2> DEFINE j == i + l + a
  <2>2. /\ j \in 1 .. Len(f) /\ j > k /\ j - k = i + b
        /\ i \in 1 .. Len(g) - b /\ i + l \in 1 .. Len(f) - a
    BY <1>1, <1>3, <2>1
  <2>3. r[i + l] = f[j] /\ s[i] = g[i + b]
    BY <1>3, <2>2
  <2> HIDE DEF j
  <2>4. g[j - k] = f[j]
    BY <1>1, <2>2
  <2> QED BY <2>2, <2>3, <2>4
<1>8. ASSUME Len(s) # 0, NEW i \in 1 .. l PROVE r[i].day < s[1].day
  <2> HIDE DEF a, b, r, s, l
  <2>1. i \in 1 .. Len(f) - a /\ i + a \in 1 .. Len(f) /\ i + a <= k + b
    BY <1>1, <1>3, <1>6
  <2>2. r[i] = f[i + a]
    BY <1>3, <2>1
  <2>3. 1 \in 1 .. Len(g) - b /\ 1 + b \in 1 .. Len(g) /\ 1 \in 1 .. Len(g) /\ Len(g) # 0
    <3>1. Len(g) - b # 0 /\ b \in 0 .. Len(g) /\ Len(g) \in Nat
      BY <1>1, <1>3, <1>8
    <3> QED BY <3>1
  <2>4. s[1] = g[1 + b]
    BY <1>3, <2>3
  <2>5. CASE i + a <= k
    <3>1. i + a \in 1 .. k /\ f[i + a].day \in Nat /\ g[1].day \in Nat /\ g[1 + b].day \in Nat
      BY <1>1, <2>1, <2>3, <2>5 DEF DaysPass
    <3>2. g[1].day <= g[1 + b].day
      <4>1. CASE b = 0
        BY <3>1, <4>1
      <4>2. CASE b > 0
        <5>1. 1 < 1 + b
          BY <1>3, <4>2
        <5> QED BY <2>3, <3>1, <5>1 DEF DaysPass
      <4> QED BY <1>3, <4>1, <4>2
    <3>3. f[i + a].day < g[1].day
      BY <1>1, <2>3, <3>1
    <3> QED BY <2>2, <2>4, <3>1, <3>2, <3>3
  <2>6. CASE i + a > k
    <3>1. /\ i + a - k \in 1 .. Len(g) /\ g[i + a - k] = f[i + a] /\ i + a - k < 1 + b
      BY <1>1, <1>3, <2>1, <2>6
    <3> QED BY <2>2, <2>3, <2>4, <3>1 DEF DaysPass
  <2> QED BY <1>1, <1>3, <2>5, <2>6
<1>9. Slides(s, r, l)
  <2> HIDE DEF a, b, r, s, l
  <2> QED BY <1>3, <1>6, <1>7, <1>8 DEF Slides
<1> HIDE DEF l, a, b
<1> QED BY <1>3, <1>4, <1>9

\* Every number has its place among the ascending ones.
LEMMA AscendingReaches ==
  ASSUME NEW set \in SUBSET Int, IsFiniteSet(set), NEW p \in set
  PROVE  \E k \in 1 .. Cardinality(set) : Ascending(set)[k] = p
<1> DEFINE rank == [i \in set |-> Cardinality(Lower(i, set))]
           k == rank[p] + 1
           x == Ascending(set)[k]
<1>1. rank \in Injection(set, 0 .. Cardinality(set) - 1) /\ Cardinality(set) \in Nat
  BY NthPlace, FS_CardinalityType
<1>2. k \in 1 .. Cardinality(set) /\ k - 1 = rank[p]
  <2>1. rank[p] \in 0 .. Cardinality(set) - 1
    BY <1>1 DEF Injection
  <2> HIDE DEF rank
  <2> QED BY <1>1, <2>1
<1>3. x \in set /\ Cardinality(Lower(x, set)) = k - 1
  <2> HIDE DEF k
  <2> QED BY <1>2, AscendingIs
<1> HIDE DEF x, k
<1>4. rank[x] = rank[p]
  BY <1>2, <1>3
<1>5. x = p
  <2> HIDE DEF rank
  <2> QED BY <1>1, <1>3, <1>4 DEF Injection, IsInjective
<1> QED BY <1>2, <1>5 DEF x

\* A number and the next one are neighbours.
LEMMA AscendingNeighbours ==
  ASSUME NEW set \in SUBSET Int, IsFiniteSet(set), NEW p \in set, p - 1 \in set
  PROVE  \E k \in 2 .. Cardinality(set) :
            Ascending(set)[k] = p /\ Ascending(set)[k - 1] = p - 1
<1>1. PICK k \in 1 .. Cardinality(set) : Ascending(set)[k] = p
  BY AscendingReaches
<1>2. PICK l \in 1 .. Cardinality(set) : Ascending(set)[l] = p - 1
  BY AscendingReaches
<1>3. Cardinality(set) \in Nat /\ p \in Int
  BY FS_CardinalityType
<1>4. ~(k < l) /\ k # l
  <2>1. k # l
    BY <1>1, <1>2, <1>3
  <2>2. ASSUME k < l PROVE FALSE
    <3>1. Ascending(set)[k] < Ascending(set)[l]
      BY <2>2, AscendingGrows
    <3> QED BY <1>1, <1>2, <1>3, <3>1
  <2> QED BY <2>1, <2>2
<1>5. ~(l < k - 1)
  <2> SUFFICES ASSUME l < k - 1 PROVE FALSE
    OBVIOUS
  <2>1. k - 1 \in 1 .. Cardinality(set) /\ k - 1 < k
    BY <1>3
  <2>2. Ascending(set)[l] < Ascending(set)[k - 1] /\ Ascending(set)[k - 1] < Ascending(set)[k]
    BY <2>1, AscendingGrows
  <2>3. Ascending(set)[k - 1] \in Int
    BY <2>1, AscendingIs
  <2> DEFINE x == Ascending(set)[k - 1]
  <2>4. x \in Int /\ p - 1 < x /\ x < p
    BY <1>1, <1>2, <2>2, <2>3
  <2> HIDE DEF x
  <2> QED BY <1>3, <2>4
<1>6. l = k - 1 /\ k \in 2 .. Cardinality(set)
  BY <1>3, <1>4, <1>5
<1> QED BY <1>1, <1>2, <1>6

\* The candle of a period.
BarOf(f, d, p) == PeriodBar(f, p, DaysIn(f, d, p))

\* The candles of the periods are those of the periods that have a day.
LEMMA BarsAre ==
  ASSUME NEW f, IsSequence(f), DaysPass(f), NEW d \in Nat \ {0}
  PROVE  /\ ToSet(Resampled(f, d)) = {BarOf(f, d, p) : p \in PeriodsOf(f, d)}
         /\ \A p : BarOf(f, d, p).period = p
<1> DEFINE set == PeriodsOf(f, d)
           bars == Resampled(f, d)
           n == Cardinality(set)
<1>1. /\ n \in Nat /\ IsSequence(bars) /\ Len(bars) = n
      /\ \A k \in 1 .. n : bars[k] = BarOf(f, d, Ascending(set)[k])
  BY ResampledIs DEF BarOf
<1>2. set \in SUBSET Int /\ IsFiniteSet(set)
  BY Positions, PeriodsAreFinite
<1> HIDE DEF set, bars, n
<1>3. DOMAIN bars = 1 .. n
  BY <1>1, Positions
<1>4. \A k \in 1 .. n : Ascending(set)[k] \in set
  BY <1>2, AscendingIs DEF n
<1>5. \A p \in set : \E k \in 1 .. n : Ascending(set)[k] = p
  BY <1>2, AscendingReaches DEF n
<1>6. ToSet(bars) = {BarOf(f, d, p) : p \in set}
  BY <1>1, <1>3, <1>4, <1>5 DEF ToSet
<1>7. \A p : BarOf(f, d, p).period = p
  BY DEF BarOf, PeriodBar
<1> QED BY <1>6, <1>7 DEF set, bars

CprFrom(b, y) == [year |-> y, pivot |-> Frac(b.high + b.low + b.close, 3), prevHigh |-> b.high]

\* The yearly pivots are those of the years that follow a year.
LEMMA YearsAre ==
  ASSUME NEW f, IsSequence(f), DaysPass(f), YearDays \in Nat \ {0}
  PROVE  YearlyCpr(f) = {CprFrom(BarOf(f, YearDays, y - 1), y) :
                            y \in {z \in PeriodsOf(f, YearDays) : z - 1 \in PeriodsOf(f, YearDays)}}
<1> DEFINE d == YearDays
           set == PeriodsOf(f, d)
           bars == Resampled(f, d)
           n == Cardinality(set)
           up == Ascending(set)
<1>1. /\ n \in Nat /\ Len(bars) = n
      /\ \A k \in 1 .. n : bars[k] = BarOf(f, d, up[k]) /\ bars[k].period = up[k]
  BY ResampledIs DEF BarOf
<1>2. set \in SUBSET Int /\ IsFiniteSet(set)
  BY Positions, PeriodsAreFinite
<1>3. YearlyCpr(f) = {CprFrom(bars[k - 1], bars[k].period) :
          k \in {j \in 2 .. Len(bars) : bars[j - 1].period = bars[j].period - 1}}
  BY DEF YearlyCpr, CprOf, CprFrom
<1> HIDE DEF set, bars, n, d, up
<1>4. \A k \in 1 .. n : up[k] \in set
  BY <1>2, AscendingIs DEF n, up
<1>5. \A y \in set : y - 1 \in set => \E k \in 2 .. n : up[k] = y /\ up[k - 1] = y - 1
  BY <1>2, AscendingNeighbours DEF n, up
<1>6. \A k \in 2 .. n : k \in 1 .. n /\ k - 1 \in 1 .. n
  BY <1>1
<1>7. ASSUME NEW k \in 2 .. n, bars[k - 1].period = bars[k].period - 1
      PROVE  /\ up[k] \in set /\ up[k] - 1 \in set
             /\ CprFrom(bars[k - 1], bars[k].period) = CprFrom(BarOf(f, d, up[k] - 1), up[k])
  BY <1>1, <1>4, <1>6, <1>7
<1>8. ASSUME NEW y \in set, y - 1 \in set
      PROVE  \E k \in 2 .. n :
                /\ bars[k - 1].period = bars[k].period - 1
                /\ CprFrom(bars[k - 1], bars[k].period) = CprFrom(BarOf(f, d, y - 1), y)
  BY <1>1, <1>5, <1>6, <1>8
<1>9. YearlyCpr(f) = {CprFrom(BarOf(f, d, y - 1), y) : y \in {z \in set : z - 1 \in set}}
  BY <1>1, <1>3, <1>7, <1>8
<1> QED BY <1>9 DEF set, d

\* The first and the last of some positions, when all of them shift.
LEMMA EndsShift ==
  ASSUME NEW n \in Nat, NEW m \in Nat, NEW k \in Nat, NEW a, NEW b, Shifts(a, n, b, m, k),
         a # {}, \A j \in b : j + k <= n
  PROVE  /\ Min(b) = Min(a) - k /\ Max(b) = Max(a) - k
         /\ Min(a) \in k + 1 .. n /\ Max(a) \in k + 1 .. n
<1>1. b # {} /\ Min(b) = Min(a) - k /\ Min(a) \in a
  BY FirstShifts
<1>2. /\ a \in SUBSET Int /\ IsFiniteSet(a) /\ b \in SUBSET Int /\ IsFiniteSet(b)
  BY FirstPosition DEF Shifts
<1>3. /\ Max(a) \in a /\ \A i \in a : i <= Max(a)
      /\ Max(b) \in b /\ \A i \in b : i <= Max(b)
  BY <1>1, <1>2, LargestIsOne
<1> DEFINE x == Max(a)
           y == Max(b)
<1>4. x \in a /\ y \in b /\ (\A i \in a : i <= x) /\ (\A i \in b : i <= y)
  BY <1>3
<1> HIDE DEF x, y
<1>5. x \in k + 1 .. n /\ x - k \in b /\ y \in 1 .. m /\ x - k <= y
  BY <1>4 DEF Shifts
<1>6. y + k \in k + 1 .. n /\ y + k - k = y
  BY <1>4, <1>5
<1>7. y + k \in a
  BY <1>4, <1>6 DEF Shifts
<1>8. y = x - k
  BY <1>4, <1>5, <1>7
<1>9. Min(a) \in k + 1 .. n
  BY <1>1 DEF Shifts
<1> QED BY <1>1, <1>5, <1>8, <1>9 DEF x, y

Part(f, m, n) == SubSeq(f, m, n)

\* Part of a frame, when all of it is still there.
LEMMA PartSlides ==
  ASSUME NEW f, NEW g, NEW k, Slides(g, f, k), NEW m \in k + 1 .. Len(f), NEW n \in k + 1 .. Len(f)
  PROVE  Part(g, m - k, n - k) = Part(f, m, n)
<1> DEFINE S == {f[i] : i \in 1 .. Len(f)}
           s == SubSeq(f, m, n)
           t == SubSeq(g, m - k, n - k)
<1>1. /\ Len(f) \in Nat /\ k \in Nat
      /\ \A i \in 1 .. Len(f) : i > k => g[i - k] = f[i]
  BY SlidesMeans
<1>2. /\ m \in Int /\ n \in Int /\ k \in Nat /\ m - k \in Int /\ n - k \in Int
      /\ \A i \in m .. n : i \in 1 .. Len(f)
  BY <1>1
<1>3. \A i \in m .. n : f[i] \in S
  BY <1>2
<1>4. \A i \in m - k .. n - k : g[i] \in S
  <2> SUFFICES ASSUME NEW i \in m - k .. n - k PROVE g[i] \in S
    OBVIOUS
  <2> DEFINE j == i + k
  <2>1. j \in m .. n /\ j \in 1 .. Len(f) /\ j > k /\ j - k = i
    BY <1>1, <1>2
  <2> HIDE DEF j, S
  <2> QED BY <1>1, <1>3, <2>1
<1> HIDE DEF S
<1>5. /\ s \in Seq(S) /\ Len(s) = IF m <= n THEN n - m + 1 ELSE 0
      /\ \A i \in 1 .. n - m + 1 : s[i] = f[m + i - 1]
  BY <1>2, <1>3, SubSeqProperties
<1>6. /\ t \in Seq(S) /\ Len(t) = IF m - k <= n - k THEN (n - k) - (m - k) + 1 ELSE 0
      /\ \A i \in 1 .. (n - k) - (m - k) + 1 : t[i] = g[(m - k) + i - 1]
  BY <1>2, <1>4, SubSeqProperties
<1>7. (n - k) - (m - k) + 1 = n - m + 1 /\ (m - k <= n - k <=> m <= n)
  BY <1>2
<1> HIDE DEF s, t
<1>8. \A i \in 1 .. Len(s) : s[i] = t[i]
  <2> SUFFICES ASSUME NEW i \in 1 .. Len(s) PROVE s[i] = t[i]
    OBVIOUS
  <2> DEFINE j == m + i - 1
             l == (m - k) + i - 1
  <2>1. i \in 1 .. n - m + 1 /\ j \in 1 .. Len(f) /\ j > k /\ j - k = l
    BY <1>1, <1>2, <1>5
  <2>2. s[i] = f[j] /\ t[i] = g[l]
    BY <1>5, <1>6, <1>7, <2>1
  <2> HIDE DEF j, l
  <2> QED BY <1>1, <2>1, <2>2
<1>9. s = t
  BY <1>5, <1>6, <1>7, <1>8, SeqEqual
<1> QED BY <1>9 DEF s, t, Part

\* A period begins before its days, and later periods after them.
LEMMA PeriodBegins ==
  ASSUME NEW a \in Nat, NEW d \in Nat \ {0}
  PROVE  a \div d \in Nat /\ (a \div d) * d <= a
  OBVIOUS

\* A period that lies behind the first candle is still there.
LEMMA PeriodKept ==
  ASSUME NEW f, NEW g, NEW k, Slides(g, f, k), DaysPass(f), DaysPass(g), NEW d \in Nat \ {0},
         Len(g) # 0, NEW p, g[1].day <= p * d
  PROVE  /\ \A i \in DaysIn(f, d, p) : i \in k + 1 .. Len(f)
         /\ p \in PeriodsOf(f, d) => p \in PeriodsOf(g, d)
<1>1. /\ Len(f) \in Nat /\ Len(g) \in Nat /\ k \in Nat /\ 1 \in 1 .. Len(g)
      /\ \A i \in 1 .. Len(f) : i > k => i - k \in 1 .. Len(g) /\ g[i - k] = f[i]
  BY SlidesMeans
<1>2. ASSUME NEW i \in DaysIn(f, d, p) PROVE i \in 1 .. Len(f) /\ i > k
  <2>1. i \in 1 .. Len(f) /\ f[i].day \in Nat /\ f[i].day \div d = p /\ g[1].day \in Nat
    BY <1>1 DEF DaysIn, DaysPass
  <2>2. p \in Nat /\ p * d <= f[i].day
    BY <2>1, PeriodBegins
  <2>3. p * d \in Nat
    BY <2>2
  <2> DEFINE x == p * d
  <2>4. x \in Nat /\ g[1].day <= x /\ x <= f[i].day
    BY <2>2, <2>3
  <2> HIDE DEF x
  <2>5. g[1].day <= f[i].day
    BY <2>1, <2>4
  <2> QED BY <2>1, <2>5, StillSeen
<1>3. ASSUME p \in PeriodsOf(f, d) PROVE p \in PeriodsOf(g, d)
  <2>1. PICK i \in 1 .. Len(f) : p = f[i].day \div d
    BY <1>3 DEF PeriodsOf
  <2>2. i - k \in 1 .. Len(g) /\ g[i - k] = f[i]
    BY <1>1, <1>2, <2>1 DEF DaysIn
  <2> QED BY <2>1, <2>2 DEF PeriodsOf
<1> QED BY <1>1, <1>2, <1>3

\* The candle of a closed period behind the first candle stays.
LEMMA BarsSlide ==
  ASSUME NEW f, NEW g, NEW k, Slides(g, f, k), DaysPass(f), DaysPass(g), NEW d \in Nat \ {0},
         Len(g) # 0, NEW p \in PeriodsOf(f, d), NEW q \in PeriodsOf(f, d), p < q, g[1].day <= p * d
  PROVE  BarOf(g, d, p) = BarOf(f, d, p)
<1> DEFINE a == DaysIn(f, d, p)
           b == DaysIn(g, d, p)
<1>1. /\ Len(f) \in Nat /\ Len(g) \in Nat /\ k \in Nat /\ Len(f) <= Len(g) + k
      /\ \A i \in 1 .. Len(f) : i > k => i - k \in 1 .. Len(g) /\ g[i - k] = f[i]
  BY SlidesMeans
<1>2. a # {} /\ a \in SUBSET (1 .. Len(f)) /\ \A i \in a : i \in k + 1 .. Len(f)
  BY PeriodKept DEF PeriodsOf, DaysIn
<1>3. PICK l \in 1 .. Len(f) : f[l].day \div d = q
  BY DEF PeriodsOf
<1>4. p \in Nat /\ q \in Nat
  BY <1>1, PeriodsAreFinite
<1>5. l > k
  <2>1. PICK i \in a : i \in k + 1 .. Len(f)
    BY <1>2
  <2>2. i \in 1 .. Len(f) /\ f[i].day \div d = p /\ i > k
    BY <1>1, <2>1 DEF DaysIn
  <2>3. ASSUME l <= i PROVE FALSE
    <3>1. f[l].day \in Nat /\ f[i].day \in Nat /\ f[l].day <= f[i].day
      <4>1. f[l].day \in Nat /\ f[i].day \in Nat /\ (l < i => f[l].day < f[i].day)
        BY <1>3, <2>2 DEF DaysPass
      <4>2. l < i \/ l = i
        BY <1>1, <1>3, <2>2, <2>3
      <4> QED BY <4>1, <4>2
    <3>2. q <= p
      BY <1>3, <2>2, <3>1, PeriodsPass
    <3> QED BY <1>4, <3>2
  <2> QED BY <1>1, <1>3, <2>2, <2>3
<1>6. l - k \in 1 .. Len(g) /\ g[l - k] = f[l]
  BY <1>1, <1>3, <1>5
<1>7. ASSUME NEW j \in b PROVE j \in 1 .. Len(g) /\ j + k \in 1 .. Len(f) /\ j + k > k
  <2>1. j \in 1 .. Len(g) /\ g[j].day \div d = p
    BY DEF DaysIn
  <2>2. ASSUME l - k <= j PROVE FALSE
    <3>1. g[l - k].day \in Nat /\ g[j].day \in Nat /\ g[l - k].day <= g[j].day
      <4>1. g[l - k].day \in Nat /\ g[j].day \in Nat /\ (l - k < j => g[l - k].day < g[j].day)
        BY <1>6, <2>1 DEF DaysPass
      <4>2. l - k < j \/ l - k = j
        BY <1>1, <1>6, <2>1, <2>2
      <4> QED BY <4>1, <4>2
    <3>2. q <= p
      BY <1>3, <1>6, <2>1, <3>1, PeriodsPass
    <3> QED BY <1>4, <3>2
  <2> QED BY <1>1, <1>3, <1>6, <2>1, <2>2
<1>8. ASSUME NEW j \in k + 1 .. Len(f) PROVE j \in a <=> j - k \in b
  <2>1. j \in 1 .. Len(f) /\ j > k
    BY <1>1
  <2>2. j - k \in 1 .. Len(g) /\ g[j - k] = f[j]
    BY <1>1, <2>1
  <2> QED BY <2>1, <2>2 DEF DaysIn
<1>9. b \in SUBSET (1 .. Len(g)) /\ \A j \in b : j + k <= Len(f)
  BY <1>1, <1>7
<1> HIDE DEF a, b
<1>10. Shifts(a, Len(f), b, Len(g), k)
  BY <1>2, <1>8, <1>9 DEF Shifts
<1>11. /\ Min(b) = Min(a) - k /\ Max(b) = Max(a) - k
       /\ Min(a) \in k + 1 .. Len(f) /\ Max(a) \in k + 1 .. Len(f)
  BY <1>1, <1>2, <1>9, <1>10, EndsShift
<1> DEFINE m == Min(a)
           n == Max(a)
<1>12. SubSeq(g, Min(b), Max(b)) = SubSeq(f, m, n)
  <2>1. m \in k + 1 .. Len(f) /\ n \in k + 1 .. Len(f) /\ Min(b) = m - k /\ Max(b) = n - k
    BY <1>11
  <2> HIDE DEF m, n
  <2>2. Part(g, m - k, n - k) = Part(f, m, n)
    BY <2>1, PartSlides
  <2> QED BY <2>1, <2>2 DEF Part
<1> QED BY <1>12 DEF BarOf, PeriodBar, a, b

\* So do the closed weeks, and the pivots of a year with the year before it.
LEMMA PeriodsSlide ==
  ASSUME NEW f, NEW g, NEW k, Slides(g, f, k), DaysPass(f), DaysPass(g), Len(g) # 0,
         NEW x \in PeriodFacts(f), g[1].day <= x.since
  PROVE  x \in PeriodFacts(g)
<1>0. WeekDays \in Nat \ {0} /\ YearDays \in Nat \ {0}
  BY SignalAssumption
<1>1. /\ Len(f) \in Nat /\ Len(g) \in Nat /\ k \in Nat /\ IsSequence(f) /\ IsSequence(g)
      /\ \A i \in 1 .. Len(f) : i > k => i - k \in 1 .. Len(g) /\ g[i - k] = f[i]
  BY SlidesMeans
<1>2. CASE \E w \in ToSet(ResampleToWeekly(f)) :
              /\ w.period < Last(f).day \div WeekDays
              /\ x = Finding(w.period * WeekDays, <<"week", w>>)
  <2> DEFINE d == WeekDays
             q == Last(f).day \div d
  <2>1. PICK p \in PeriodsOf(f, d) :
           p < q /\ x = Finding(p * d, <<"week", BarOf(f, d, p)>>)
    BY <1>0, <1>1, <1>2, BarsAre DEF ResampleToWeekly
  <2>2. /\ p \in Nat /\ Len(f) \in 1 .. Len(f) /\ Last(f) = f[Len(f)] /\ q \in PeriodsOf(f, d)
        /\ f[Len(f)].day \in Nat /\ q \in Nat
    <3>1. p \in Nat /\ Len(f) \in 1 .. Len(f) /\ Last(f) = f[Len(f)]
      <4>1. PeriodsOf(f, d) \subseteq Nat
        BY <1>0, <1>1, PeriodsAreFinite
      <4>2. PICK i \in 1 .. Len(f) : TRUE
        BY <2>1 DEF PeriodsOf
      <4>3. Len(f) \in 1 .. Len(f)
        BY <1>1, <4>2
      <4> QED BY <2>1, <4>1, <4>3 DEF Last
    <3>2. f[Len(f)].day \in Nat /\ q \in PeriodsOf(f, d)
      BY <3>1 DEF DaysPass, PeriodsOf
    <3>3. q \in Nat
      BY <1>0, <1>1, <3>2, PeriodsAreFinite
    <3> QED BY <3>1, <3>2, <3>3
  <2>3. g[1].day <= p * d
    BY <2>1 DEF Finding
  <2>4. BarOf(g, d, p) = BarOf(f, d, p) /\ p \in PeriodsOf(g, d)
    BY <1>0, <2>1, <2>2, <2>3, BarsSlide, PeriodKept
  <2>5. p < Last(g).day \div d
    <3>1. PICK i \in 1 .. Len(f) : f[i].day \div d = p
      BY <2>1 DEF PeriodsOf
    <3>2. i \in k + 1 .. Len(f)
      BY <1>0, <2>3, <3>1, PeriodKept DEF DaysIn
    <3>3. Len(f) - k \in 1 .. Len(g) /\ g[Len(f) - k] = f[Len(f)]
      BY <1>1, <2>2, <3>2
    <3>4. Last(g) = g[Len(g)] /\ Len(g) \in 1 .. Len(g) /\ g[Len(g)].day \in Nat
      BY <1>1 DEF Last, DaysPass
    <3>5. f[Len(f)].day <= g[Len(g)].day
      <4>1. Len(f) - k < Len(g) \/ Len(f) - k = Len(g)
        BY <1>1, <3>3
      <4>2. Len(f) - k < Len(g) => g[Len(f) - k].day < g[Len(g)].day
        BY <3>3, <3>4 DEF DaysPass
      <4> QED BY <2>2, <3>3, <3>4, <4>1, <4>2
    <3>6. q <= Last(g).day \div d /\ Last(g).day \div d \in Nat
      BY <1>0, <2>2, <3>4, <3>5, PeriodsPass
    <3> QED BY <2>1, <2>2, <3>6
  <2> HIDE DEF d, q
  <2>6. \E w \in ToSet(ResampleToWeekly(g)) :
           /\ w.period < Last(g).day \div d /\ x = Finding(w.period * d, <<"week", w>>)
    <3>1. BarOf(g, d, p) \in ToSet(ResampleToWeekly(g)) /\ BarOf(g, d, p).period = p
      BY <1>0, <1>1, <2>4, BarsAre DEF ResampleToWeekly, d
    <3> QED BY <2>1, <2>4, <2>5, <3>1
  <2> QED BY <2>6 DEF PeriodFacts, d
<1>3. CASE \E r \in YearlyCpr(f) : x = Finding((r.year - 1) * YearDays, <<"year", r>>)
  <2> DEFINE d == YearDays
  <2>1. PICK r \in YearlyCpr(f) : x = Finding((r.year - 1) * d, <<"year", r>>)
    BY <1>3
  <2>2. PICK y \in PeriodsOf(f, d) :
           y - 1 \in PeriodsOf(f, d) /\ r = CprFrom(BarOf(f, d, y - 1), y)
    BY <1>0, <1>1, <2>1, YearsAre
  <2>3. r.year = y /\ y \in Nat /\ y - 1 \in Nat /\ y - 1 < y
    <3>1. r.year = y
      BY <2>2 DEF CprFrom
    <3> QED BY <1>0, <1>1, <2>2, <3>1, PeriodsAreFinite
  <2>4. g[1].day <= (y - 1) * d
    BY <2>1, <2>3 DEF Finding
  <2>5. BarOf(g, d, y - 1) = BarOf(f, d, y - 1) /\ y - 1 \in PeriodsOf(g, d)
    BY <1>0, <2>2, <2>3, <2>4, BarsSlide, PeriodKept
  <2>6. y \in PeriodsOf(g, d)
    <3>1. (y - 1) * d <= y * d /\ (y - 1) * d \in Nat /\ y * d \in Nat
      BY <1>0, <2>3
    <3>2. g[1].day \in Nat
      BY <1>1 DEF DaysPass
    <3>3. g[1].day <= y * d
      BY <2>4, <3>1, <3>2
    <3> QED BY <1>0, <2>2, <3>3, PeriodKept
  <2> HIDE DEF d
  <2>7. r \in YearlyCpr(g)
    BY <1>0, <1>1, <2>2, <2>5, <2>6, YearsAre DEF d
  <2> QED BY <2>1, <2>7 DEF PeriodFacts, d
<1> QED BY <1>2, <1>3 DEF PeriodFacts

\* The places in order, of positions that begin k later: the ones up to k are gone, the
\* others keep their order.
LEMMA AscendingSlides ==
  ASSUME NEW p \in SUBSET Int, NEW q \in SUBSET Int, IsFiniteSet(p), IsFiniteSet(q), NEW k \in Int,
         \A j \in p : j > k => j - k \in q,
         \A i \in q : i > 0,
         \A i \in q, j \in p : i + k < j => i + k \in p
  PROVE  /\ Cardinality(p) \in Nat /\ Cardinality(q) \in Nat
         /\ \E l \in 0 .. Cardinality(p) :
              /\ Cardinality(p) - l <= Cardinality(q)
              /\ \A i \in 1 .. Cardinality(p) - l :
                    Ascending(p)[i + l] > k /\ Ascending(q)[i] = Ascending(p)[i + l] - k
              /\ \A i \in 1 .. l : Ascending(p)[i] <= k
<1> DEFINE early == {j \in p : j <= k}
           late == p \ early
           l == Cardinality(early)
           n == Cardinality(p)
           m == Cardinality(q)
           down == [j \in late |-> j - k]
           rank == [i \in q |-> Cardinality(Lower(i, q))]
<1>1. early \in SUBSET p /\ p \cap early = early
  OBVIOUS
<1>2. /\ IsFiniteSet(early) /\ IsFiniteSet(late) /\ n \in Nat /\ m \in Nat /\ l \in 0 .. n
      /\ Cardinality(late) = n - l
  <2>1. IsFiniteSet(early) /\ l <= n
    BY <1>1, FS_Subset
  <2>2. IsFiniteSet(late) /\ Cardinality(late) = n - Cardinality(p \cap early)
    BY FS_Difference
  <2>3. n \in Nat /\ m \in Nat /\ l \in Nat
    BY <2>1, FS_CardinalityType
  <2>4. Cardinality(late) = n - l
    <3> HIDE DEF late, early, n
    <3> QED BY <1>1, <2>2
  <2> HIDE DEF late, early, l, n, m
  <2>5. l \in 0 .. n
    BY <2>1, <2>3
  <2> QED BY <2>1, <2>2, <2>3, <2>4, <2>5
<1>3. n - l <= m
  <2>1. down \in Injection(late, q)
    <3>1. \A j \in late : j \in Int /\ j > k /\ j - k \in q
      OBVIOUS
    <3> HIDE DEF late
    <3>2. down \in [late -> q]
      BY <3>1
    <3>3. \A i, j \in late : down[i] = down[j] => i = j
      BY <3>1
    <3> HIDE DEF down
    <3> QED BY <3>2, <3>3 DEF Injection, IsInjective
  <2> HIDE DEF late, down
  <2>2. Cardinality(late) <= m
    BY <2>1, FS_Injection
  <2> QED BY <1>2, <2>2
<1>4. ASSUME NEW i \in 1 .. n - l
      PROVE  Ascending(p)[i + l] > k /\ Ascending(q)[i] = Ascending(p)[i + l] - k
  <2> DEFINE j == i + l
             x == Ascending(p)[j]
             y == Ascending(q)[i]
             below == Lower(x, p)
             between == below \ early
             h == [z \in between |-> z - k]
  <2>1. j \in 1 .. n /\ i \in 1 .. m /\ j - 1 - l = i - 1 /\ j = i + l
    <3> HIDE DEF l, n, m
    <3> QED BY <1>2, <1>3
  <2> HIDE DEF j
  <2>2. x \in p /\ Cardinality(below) = j - 1
    BY <2>1, AscendingIs
  <2>3. y \in q /\ Cardinality(Lower(y, q)) = i - 1
    BY <2>1, AscendingIs
  <2> HIDE DEF x, y
  <2>4. IsFiniteSet(below)
    BY <2>2, BelowIsPart
  <2>5. x > k
    <3> SUFFICES ASSUME x <= k PROVE FALSE
      BY <2>2
    <3>1. below \in SUBSET (early \ {x}) /\ x \in early
      <4>1. \A z \in p : z < x => z <= k /\ z # x
        BY <2>2
      <4> QED BY <2>2, <4>1 DEF Lower
    <3> HIDE DEF below, early
    <3>2. Cardinality(early \ {x}) = Cardinality(early) - 1 /\ IsFiniteSet(early \ {x})
      BY <1>2, <3>1, FS_RemoveElement
    <3>3. Cardinality(below) <= l - 1
      BY <3>1, <3>2, FS_Subset
    <3> HIDE DEF l, n
    <3> QED BY <1>2, <2>1, <2>2, <3>3
  <2>6. below \cap early = early
    <3>1. \A z \in p : z <= k => z < x
      BY <2>2, <2>5
    <3> QED BY <3>1 DEF Lower
  <2>7. Cardinality(between) = i - 1 /\ IsFiniteSet(between)
    <3> HIDE DEF below, early
    <3>1. IsFiniteSet(between) /\ Cardinality(between) = Cardinality(below) - Cardinality(below \cap early)
      BY <2>4, FS_Difference
    <3>2. Cardinality(between) = j - 1 - l
      BY <2>2, <2>6, <3>1
    <3> QED BY <2>1, <3>1, <3>2
  <2>8. \A z \in between : z \in p /\ z \in Int /\ z > k /\ z < x /\ z - k \in q /\ z - k < x - k
    <3>1. \A z \in between : z \in p /\ z \in Int /\ z > k /\ z < x
      BY DEF Lower
    <3> HIDE DEF between
    <3> QED BY <2>2, <3>1
  <2>9. \A z \in Lower(x - k, q) : \E c \in between : c - k = z
    <3> SUFFICES ASSUME NEW z \in q, z < x - k PROVE \E c \in between : c - k = z
      BY DEF Lower
    <3>1. z \in Int /\ x \in Int /\ z + k < x /\ z > 0 /\ ~(z + k <= k)
      BY <2>2
    <3>2. z + k \in p
      BY <2>2, <3>1
    <3> DEFINE c == z + k
    <3>3. c \in between /\ c - k = z
      BY <3>1, <3>2 DEF Lower
    <3> HIDE DEF c, between
    <3> QED BY <3>3
  <2> HIDE DEF between
  <2>10. h \in Surjection(between, Lower(x - k, q)) /\ h \in Injection(between, Lower(x - k, q))
    <3>1. h \in [between -> Lower(x - k, q)]
      BY <2>8 DEF Lower
    <3>2. \A a, b \in between : h[a] = h[b] => a = b
      BY <2>8
    <3>3. \A z \in Lower(x - k, q) : \E a \in between : h[a] = z
      <4> SUFFICES ASSUME NEW z \in Lower(x - k, q) PROVE \E a \in between : h[a] = z
        OBVIOUS
      <4>1. PICK c \in between : c - k = z
        BY <2>9
      <4>2. h[c] = z
        BY <4>1
      <4> QED BY <4>1, <4>2
    <3> HIDE DEF h
    <3> QED BY <3>1, <3>2, <3>3 DEF Injection, IsInjective, Surjection
  <2> HIDE DEF h
  <2>11. Cardinality(Lower(x - k, q)) = i - 1
    BY <2>7, <2>10, FS_Surjection
  <2>12. x - k \in q
    BY <2>2, <2>5
  <2>13. rank[y] = rank[x - k]
    BY <2>3, <2>11, <2>12
  <2>14. rank \in Injection(q, 0 .. Cardinality(q) - 1)
    BY NthPlace
  <2> HIDE DEF rank
  <2>15. y = x - k
    BY <2>3, <2>12, <2>13, <2>14 DEF Injection, IsInjective
  <2> QED BY <2>5, <2>15 DEF x, y, j
<1>5. ASSUME NEW i \in 1 .. l PROVE Ascending(p)[i] <= k
  <2> DEFINE x == Ascending(p)[i]
             below == Lower(x, p)
  <2>1. i \in 1 .. n
    <3> HIDE DEF l, n
    <3> QED BY <1>2
  <2>2. x \in p /\ Cardinality(below) = i - 1
    BY <2>1, AscendingIs
  <2> HIDE DEF x
  <2>6. ASSUME x > k PROVE FALSE
    <3>1. early \in SUBSET below
      <4>1. \A z \in p : z <= k => z < x
        BY <2>2, <2>6
      <4> QED BY <4>1 DEF Lower
    <3>2. IsFiniteSet(below)
      BY <2>2, BelowIsPart
    <3> HIDE DEF below, early
    <3>3. l <= Cardinality(below)
      BY <3>1, <3>2, FS_Subset
    <3> HIDE DEF l, n
    <3> QED BY <1>2, <2>1, <2>2, <3>3
  <2>7. x <= k
    BY <2>2, <2>6
  <2> QED BY <2>7 DEF x
<1> HIDE DEF l, n, m
<1>6. \E k1 \in 0 .. n : k1 = l
  BY <1>2
<1> QED BY <1>2, <1>3, <1>4, <1>5, <1>6 DEF n, m

PricedDays(s) == {i \in DOMAIN s : s[i].close # None}

\* The candles are the rows that have a price, in their order.
LEMMA CandlesAre ==
  ASSUME NEW s, IsSequence(s), DaysPass(s)
  PROVE  LET a == PricedDays(s)
             u == Ascending(a)
         IN  /\ a \in SUBSET (1 .. Len(s)) /\ a \in SUBSET Int /\ IsFiniteSet(a)
             /\ Cardinality(a) \in Nat
             /\ IsSequence(PrepareOhlc(s)) /\ Len(PrepareOhlc(s)) = Cardinality(a)
             /\ DaysPass(PrepareOhlc(s))
             /\ \A i \in 1 .. Cardinality(a) : u[i] \in a /\ PrepareOhlc(s)[i] = s[u[i]]
<1> DEFINE a == PricedDays(s)
           n == Cardinality(a)
           u == Ascending(a)
           h == [i \in 1 .. n |-> s[u[i]]]
<1>1. Len(s) \in Nat /\ DOMAIN s = 1 .. Len(s)
  BY Positions
<1>2. a \in SUBSET (1 .. Len(s))
  BY <1>1 DEF PricedDays
<1>3. PrepareOhlc(s) = PickedFrom(s, a)
  BY DEF PrepareOhlc, PricedDays
<1> HIDE DEF a
<1>4. a \in SUBSET Int /\ IsFiniteSet(a)
  BY <1>1, <1>2, FirstPosition
<1>5. PrepareOhlc(s) = h
  BY <1>3, <1>4, PickedIs
<1>6. n \in Nat /\ \A i \in 1 .. n : u[i] \in a
  BY <1>4, AscendingIs, FS_CardinalityType
<1>7. \A i, j \in 1 .. n : i < j => u[i] < u[j]
  BY <1>4, AscendingGrows
<1> HIDE DEF u, n
<1>8. \A i \in 1 .. n : h[i] = s[u[i]]
  OBVIOUS
<1>9. Points(h, n)
  BY DEF Points
<1> HIDE DEF h
<1>10. IsSequence(h) /\ Len(h) = n
  BY <1>6, <1>9, Whole DEF Points
<1>11. DaysPass(h)
  <2>1. \A i \in 1 .. n : u[i] \in 1 .. Len(s)
    BY <1>2, <1>6
  <2>2. \A i \in 1 .. n : h[i].day \in Nat
    BY <1>8, <2>1 DEF DaysPass
  <2>3. \A i, j \in 1 .. n : i < j => h[i].day < h[j].day
    BY <1>7, <1>8, <2>1 DEF DaysPass
  <2> QED BY <1>10, <2>2, <2>3 DEF DaysPass
<1> QED BY <1>2, <1>4, <1>5, <1>6, <1>8, <1>10, <1>11 DEF n, u, a

\* Rows that slide make candles that slide.
LEMMA CandlesSlide ==
  ASSUME NEW f, NEW g, NEW k, Slides(g, f, k), DaysPass(f), DaysPass(g)
  PROVE  /\ DaysPass(PrepareOhlc(f)) /\ DaysPass(PrepareOhlc(g))
         /\ \E l : Slides(PrepareOhlc(g), PrepareOhlc(f), l)
<1> DEFINE p == PricedDays(f)
           q == PricedDays(g)
           u == Ascending(p)
           v == Ascending(q)
           n == Cardinality(p)
           m == Cardinality(q)
           a == PrepareOhlc(f)
           b == PrepareOhlc(g)
<1>1. /\ Len(f) \in Nat /\ Len(g) \in Nat /\ k \in Nat /\ Len(f) <= Len(g) + k
      /\ IsSequence(f) /\ IsSequence(g)
      /\ DOMAIN f = 1 .. Len(f) /\ DOMAIN g = 1 .. Len(g)
      /\ \A i \in 1 .. Len(f) : i > k => i - k \in 1 .. Len(g) /\ g[i - k] = f[i]
  BY SlidesMeans
<1>2. /\ p \in SUBSET (1 .. Len(f)) /\ p \in SUBSET Int /\ IsFiniteSet(p) /\ n \in Nat
      /\ IsSequence(a) /\ Len(a) = n /\ DaysPass(a)
      /\ \A i \in 1 .. n : u[i] \in p /\ a[i] = f[u[i]]
  BY <1>1, CandlesAre
<1>3. /\ q \in SUBSET (1 .. Len(g)) /\ q \in SUBSET Int /\ IsFiniteSet(q) /\ m \in Nat
      /\ IsSequence(b) /\ Len(b) = m /\ DaysPass(b)
      /\ \A i \in 1 .. m : v[i] \in q /\ b[i] = g[v[i]]
  BY <1>1, CandlesAre
<1>4. \A j \in p : j > k => j - k \in q
  BY <1>1 DEF PricedDays
<1>5. \A i \in q : i > 0
  BY <1>3
<1>6. ASSUME NEW i \in q, NEW j \in p, i + k < j PROVE i + k \in p
  <2> DEFINE x == i + k
  <2>1. x \in 1 .. Len(f) /\ x > k /\ x - k = i
    BY <1>1, <1>2, <1>3, <1>6
  <2> HIDE DEF x
  <2>2. g[i] = f[x]
    BY <1>1, <2>1
  <2>3. x \in p
    BY <1>1, <2>1, <2>2 DEF PricedDays
  <2> QED BY <2>3 DEF x
<1> HIDE DEF p, q
<1>7. PICK l \in 0 .. n :
         /\ n - l <= m
         /\ \A i \in 1 .. n - l : u[i + l] > k /\ v[i] = u[i + l] - k
         /\ \A i \in 1 .. l : u[i] <= k
  <2>1. p \in SUBSET Int /\ q \in SUBSET Int /\ IsFiniteSet(p) /\ IsFiniteSet(q) /\ k \in Int
    BY <1>1, <1>2, <1>3
  <2>2. \A i \in q, j \in p : i + k < j => i + k \in p
    BY <1>6
  <2>3. \E l \in 0 .. Cardinality(p) :
          /\ Cardinality(p) - l <= Cardinality(q)
          /\ \A i \in 1 .. Cardinality(p) - l :
                Ascending(p)[i + l] > k /\ Ascending(q)[i] = Ascending(p)[i + l] - k
          /\ \A i \in 1 .. l : Ascending(p)[i] <= k
    BY <2>1, <2>2, <1>4, <1>5, AscendingSlides
  <2> QED BY <2>3
<1> HIDE DEF u, v, n, m, a, b
<1>8. ASSUME NEW i \in 1 .. n - l PROVE b[i] = a[i + l]
  <2> DEFINE j == i + l
  <2>1. j \in 1 .. n /\ i \in 1 .. m
    BY <1>2, <1>3, <1>7
  <2>2. u[j] > k /\ v[i] = u[j] - k
    BY <1>7
  <2> HIDE DEF j
  <2>3. u[j] \in 1 .. Len(f)
    BY <1>2, <2>1
  <2>4. g[v[i]] = f[u[j]]
    BY <1>1, <2>2, <2>3
  <2>5. b[i] = a[j]
    BY <1>2, <1>3, <2>1, <2>4
  <2> QED BY <2>5 DEF j
<1>9. ASSUME Len(b) # 0, NEW i \in 1 .. l PROVE a[i].day < b[1].day
  <2>1. i \in 1 .. n /\ 1 \in 1 .. m
    BY <1>2, <1>3, <1>7, <1>9
  <2>2. a[i] = f[u[i]] /\ u[i] \in 1 .. k /\ b[1] = g[v[1]] /\ v[1] \in 1 .. Len(g)
    <3>1. a[i] = f[u[i]] /\ u[i] \in p /\ u[i] <= k
      BY <1>2, <1>7, <2>1
    <3>2. u[i] \in 1 .. Len(f)
      BY <1>2, <3>1
    <3>3. b[1] = g[v[1]] /\ v[1] \in 1 .. Len(g)
      BY <1>3, <2>1
    <3> DEFINE x == u[i]
    <3>4. x \in 1 .. k
      <4>1. x \in 1 .. Len(f) /\ x <= k
        BY <3>1, <3>2
      <4> HIDE DEF x
      <4> QED BY <1>1, <4>1
    <3> QED BY <3>1, <3>3, <3>4
  <2> DEFINE w == v[1]
  <2>3. w \in 1 .. Len(g) /\ 1 \in 1 .. Len(g) /\ Len(g) # 0
    BY <1>1, <2>2
  <2> HIDE DEF w
  <2>4. g[1].day <= g[w].day /\ g[1].day \in Nat /\ g[w].day \in Nat
    <3>1. g[1].day \in Nat /\ g[w].day \in Nat /\ (1 < w => g[1].day < g[w].day)
      BY <2>3 DEF DaysPass
    <3>2. w = 1 \/ 1 < w
      BY <1>1, <2>3
    <3> QED BY <3>1, <3>2
  <2>5. a[i].day < g[1].day /\ a[i].day \in Nat
    BY <1>2, <2>1, <2>2, <2>3 DEF Slides, DaysPass
  <2> QED BY <2>2, <2>4, <2>5 DEF w
<1>10. Slides(b, a, l)
  BY <1>2, <1>3, <1>7, <1>8, <1>9 DEF Slides
<1> QED BY <1>2, <1>3, <1>10 DEF a, b

\* A run loads rows of days in their order: the last ones of before, and a later one.
LEMMA LoadsSlide ==
  ASSUME SignalInv, SignalNext
  PROVE  SignalInv' /\ \E k : Slides(rows', rows, k)
<1>1. AllJudged(report')
  BY ScanIsJudged DEF SignalNext, Run
<1>2. CASE FirstLoad
  <2>1. IsSequence(rows') /\ DaysPass(rows')
    BY <1>2, SignalAssumption DEF FirstLoad, IsSequence, DaysPass
  <2>2. rows = <<>> /\ Len(rows) = 0 /\ IsSequence(rows)
    BY <1>2 DEF FirstLoad, SignalInv
  <2>3. Len(rows') \in Nat
    BY <2>1, Positions
  <2>4. Slides(rows', rows, 0)
    BY <2>1, <2>2, <2>3 DEF Slides
  <2> QED BY <1>1, <2>1, <2>4 DEF SignalInv
<1>3. CASE NextLoad
  <2>1. PICK shape \in Shapes, leap \in DayLeaps :
           LET runDay == Last(rows).day + leap
           IN  rows' = Since(Append(rows, [shape EXCEPT !.day = runDay]), runDay - HistoryDays)
    BY <1>3 DEF NextLoad
  <2> DEFINE runDay == Last(rows).day + leap
             row == [shape EXCEPT !.day = runDay]
             n == Len(rows)
             all == Append(rows, row)
             start == runDay - HistoryDays
             late == {i \in DOMAIN all : all[i].day >= start}
             m == Min(late)
             k == m - 1
  <2>2. PICK R : rows \in Seq(R)
    BY DEF SignalInv, IsSequence
  <2>3. n \in Nat /\ n # 0 /\ Last(rows) = rows[n]
    BY <1>3, <2>2 DEF NextLoad, Last
  <2>4. row.day = rows[n].day + leap /\ leap \in Nat \ {0} /\ row.day = runDay
    BY <2>3, SignalAssumption
  <2>5. rows[n].day \in Nat
    BY <2>3 DEF SignalInv, DaysPass
  <2>6. rows' = SubSeq(all, m, Len(all))
    BY <2>1 DEF Since
  <2> HIDE DEF row
  <2>7. /\ all \in Seq(R \cup {row}) /\ Len(all) = n + 1 /\ all[n + 1] = row
        /\ DOMAIN all = 1 .. n + 1
        /\ \A i \in 1 .. n : all[i] = rows[i]
    BY <2>2
  <2>8. row.day \in Nat /\ start \in Int /\ row.day >= start
    BY <2>3, <2>4, <2>5, SignalAssumption
  <2> HIDE DEF all, start
  <2>9. DaysPass(all)
    <3>1. \A i \in 1 .. n : rows[i].day \in Nat /\ rows[i].day <= rows[n].day
      <4> SUFFICES ASSUME NEW i \in 1 .. n PROVE rows[i].day \in Nat /\ rows[i].day <= rows[n].day
        OBVIOUS
      <4>1. rows[i].day \in Nat /\ (i < n => rows[i].day < rows[n].day)
        BY <2>3 DEF SignalInv, DaysPass
      <4>2. i < n \/ i = n
        BY <2>3
      <4> QED BY <2>5, <4>1, <4>2
    <3>2. row.day \in Nat /\ \A i \in 1 .. n : rows[i].day < row.day
      BY <2>4, <2>5, <3>1
    <3>3. \A i \in 1 .. n + 1 : i = n + 1 \/ i \in 1 .. n
      BY <2>3
    <3>4. \A i \in 1 .. n + 1 : all[i].day \in Nat
      BY <2>7, <3>1, <3>2, <3>3
    <3>5. ASSUME NEW i \in 1 .. n + 1, NEW j \in 1 .. n + 1, i < j
          PROVE  all[i].day < all[j].day
      <4>1. i \in 1 .. n
        BY <2>3, <3>5
      <4>2. CASE j = n + 1
        BY <2>7, <3>2, <4>1, <4>2
      <4>3. CASE j \in 1 .. n
        BY <2>7, <3>5, <4>1, <4>3 DEF SignalInv, DaysPass
      <4> QED BY <3>3, <4>2, <4>3
    <3> QED BY <2>7, <3>4, <3>5 DEF DaysPass
  <2>10. m \in 1 .. n + 1
    <3>1. n + 1 \in late /\ late \in SUBSET (1 .. n + 1) /\ n + 1 \in Nat
      BY <2>3, <2>7, <2>8
    <3> HIDE DEF late
    <3> QED BY <3>1, FirstPosition
  <2> HIDE DEF m
  <2>11. /\ rows' \in Seq(R \cup {row}) /\ Len(rows') = n + 1 - k
         /\ \A i \in 1 .. n + 1 - k : rows'[i] = all[i + k] /\ i + k \in 1 .. n + 1
    <3>1. \A i \in m .. n + 1 : all[i] \in R \cup {row}
      BY <2>3, <2>7, <2>10
    <3>2. /\ SubSeq(all, m, n + 1) \in Seq(R \cup {row})
          /\ Len(SubSeq(all, m, n + 1)) = IF m <= n + 1 THEN (n + 1) - m + 1 ELSE 0
          /\ \A i \in 1 .. (n + 1) - m + 1 : SubSeq(all, m, n + 1)[i] = all[m + i - 1]
      BY <2>3, <2>10, <3>1, SubSeqProperties
    <3>3. (n + 1) - m + 1 = n + 1 - k /\ m <= n + 1
      BY <2>3, <2>10
    <3>4. \A i \in 1 .. n + 1 - k : m + i - 1 = i + k /\ i + k \in 1 .. n + 1
      BY <2>3, <2>10
    <3> QED BY <2>6, <2>7, <3>2, <3>3, <3>4
  <2>12. k \in 0 .. n /\ n + 1 - k \in Nat /\ 1 \in 1 .. n + 1 - k /\ 1 + k = m
    BY <2>3, <2>10
  <2> HIDE DEF k, n
  <2>13. DaysPass(rows')
    <3>1. \A i \in 1 .. Len(rows') : rows'[i].day \in Nat
      BY <2>7, <2>9, <2>11 DEF DaysPass
    <3>2. ASSUME NEW i \in 1 .. Len(rows'), NEW j \in 1 .. Len(rows'), i < j
          PROVE  rows'[i].day < rows'[j].day
      <4>1. i + k < j + k
        BY <2>12, <3>2, <2>11
      <4> QED BY <2>7, <2>9, <2>11, <4>1 DEF DaysPass
    <3> QED BY <3>1, <3>2 DEF DaysPass
  <2>14. \A i \in 1 .. n - k : rows'[i] = rows[i + k]
    <3> SUFFICES ASSUME NEW i \in 1 .. n - k PROVE rows'[i] = rows[i + k]
      OBVIOUS
    <3>1. i \in 1 .. n + 1 - k /\ i + k \in 1 .. n
      BY <2>3, <2>12
    <3> QED BY <2>7, <2>11, <3>1
  <2>15. \A i \in 1 .. k : rows[i].day < rows'[1].day
    <3> SUFFICES ASSUME NEW i \in 1 .. k PROVE rows[i].day < rows'[1].day
      OBVIOUS
    <3>1. i \in 1 .. n /\ i \in 1 .. n + 1 /\ i < 1 + k
      BY <2>3, <2>12
    <3>2. rows'[1] = all[1 + k] /\ 1 + k \in 1 .. n + 1 /\ rows[i] = all[i]
      BY <2>7, <2>11, <2>12, <3>1
    <3> QED BY <2>7, <2>9, <3>1, <3>2 DEF DaysPass
  <2>16. Slides(rows', rows, k)
    <3>1. Len(rows) - k <= Len(rows')
      BY <2>3, <2>11, <2>12 DEF n
    <3>2. IsSequence(rows) /\ IsSequence(rows')
      BY <2>11 DEF SignalInv, IsSequence
    <3> QED BY <2>12, <2>14, <2>15, <3>1, <3>2 DEF Slides, n
  <2> QED BY <1>1, <2>11, <2>13, <2>16 DEF SignalInv, IsSequence
<1> QED BY <1>2, <1>3 DEF SignalNext, Run

\* What rests on averages stays while the first candle does.
LEMMA SeededStay ==
  ASSUME NEW f, NEW longer, Continues(longer, f)
  PROVE  SeededFacts(f) \subseteq SeededFacts(longer)
<1> DEFINE Trend(x) == Supertrend(HeikinAshi(x), P.atrPeriod, P.multiplier)
           Past(x) == {<<"trend", i, Trend(x)[i]>> : i \in DOMAIN x}
           Divergent(x) == {<<"divergence", d>> : d \in KnoxvilleDivergences(x, P)}
<1>1. \A x : SeededFacts(x) = Divergent(x) \cup Past(x)
  BY DEF SeededFacts
<1>2. Divergent(f) \subseteq Divergent(longer)
  <2>1. KnoxvilleDivergences(f, P) \subseteq KnoxvilleDivergences(longer, P)
    BY SignalAssumption, DivergencesStay
  <2> QED BY <2>1
<1>3. Past(f) \subseteq Past(longer)
  <2>1. P.atrPeriod \in Nat \ {0}
    BY SignalAssumption
  <2>2. Continues(Trend(longer), Trend(f)) /\ Len(Trend(f)) = Len(f)
    BY <2>1, HeikinAshiStays, SupertrendStays
  <2> HIDE DEF Trend
  <2>3. \A i \in DOMAIN f : i \in DOMAIN longer /\ Trend(longer)[i] = Trend(f)[i]
    BY <2>2, ContinuesMeans
  <2> QED BY <2>3
<1> HIDE DEF Divergent, Past
<1> QED BY <1>1, <1>2, <1>3

\* Frames with the same first candle continue each other.
LEMMA SameStart ==
  ASSUME NEW f, NEW g, NEW k, Slides(g, f, k), DaysPass(f), DaysPass(g),
         Len(f) # 0, Len(g) # 0, f[1] = g[1]
  PROVE  Continues(g, f)
<1>1. /\ Len(f) \in Nat /\ Len(g) \in Nat /\ k \in Nat /\ Len(f) <= Len(g) + k
      /\ IsSequence(f) /\ IsSequence(g)
      /\ \A i \in 1 .. Len(f) : i > k => i - k \in 1 .. Len(g) /\ g[i - k] = f[i]
  BY SlidesMeans
<1>2. 1 \in 1 .. Len(f) /\ f[1].day \in Nat
  BY <1>1 DEF DaysPass
<1>3. 1 > k
  BY <1>2, StillSeen
<1>4. k = 0
  BY <1>1, <1>3
<1>5. \A i \in 1 .. Len(f) : g[i] = f[i]
  BY <1>4 DEF Slides
<1> QED BY <1>1, <1>4, <1>5 DEF Continues

\* The frame of a later run has what the frame before it had and still can show.
LEMMA FindingsStay ==
  ASSUME NEW f, NEW g, NEW k, Slides(g, f, k), DaysPass(f), DaysPass(g), f # <<>>, g # <<>>,
         NEW seen, seen = Recent(g, P.lookback)
  PROVE  /\ RestingOn(seen, PatternFacts(Recent(f, P.lookback))) \subseteq PatternFacts(seen)
         /\ RestingOn(g, PeriodFacts(f)) \subseteq PeriodFacts(g)
         /\ Head(f) = Head(g) => SeededFacts(f) \subseteq SeededFacts(g)
<1>1. IsSequence(f) /\ IsSequence(g) /\ Len(f) # 0 /\ Len(g) # 0
      /\ Head(f) = f[1] /\ Head(g) = g[1]
  BY SlidesMeans DEF IsSequence
<1> DEFINE r == Recent(f, P.lookback)
<1>2. DaysPass(r) /\ DaysPass(seen) /\ Len(seen) # 0 /\ \E l : Slides(seen, r, l)
  <2>1. P.lookback \in Nat
    BY SignalAssumption
  <2> QED BY <1>1, <2>1, RecentSlides
<1> HIDE DEF r
<1>3. IsSequence(seen) /\ Head(seen) = seen[1]
  BY <1>2, SlidesMeans DEF IsSequence
<1>4. RestingOn(seen, PatternFacts(r)) \subseteq PatternFacts(seen)
  BY <1>2, <1>3, PatternsSlide DEF RestingOn
<1>5. RestingOn(g, PeriodFacts(f)) \subseteq PeriodFacts(g)
  BY <1>1, PeriodsSlide DEF RestingOn
<1>6. ASSUME Head(f) = Head(g) PROVE SeededFacts(f) \subseteq SeededFacts(g)
  <2>1. Continues(g, f)
    BY <1>1, <1>6, SameStart
  <2> QED BY <2>1, SeededStay
<1> QED BY <1>4, <1>5, <1>6 DEF r

\* However the candles come, a run each day: the rows are those of days, the earlier ones
\* first, some of them without a price, and every result buys or sells.
THEOREM SignalInvariant == SignalSpec => []SignalInv
<1>1. SignalInit => SignalInv
  BY DEF SignalInit, SignalInv, IsSequence, DaysPass, AllJudged
<1>2. SignalInv /\ [SignalNext]_SignalVars => SignalInv'
  <2>1. SignalInv /\ UNCHANGED SignalVars => SignalInv'
    BY DEF SignalInv, SignalVars
  <2> QED BY <2>1, LoadsSlide
<1> QED BY <1>1, <1>2, PTL DEF SignalSpec

\* The types of the chart screeners' rows and results (screeners/*.py).
THEOREM SignalTypeCorrect == SignalSpec => []SignalTypeOK
<1>1. SignalInv => SignalTypeOK
  BY Positions DEF SignalInv, SignalTypeOK, DaysPass, AllJudged
<1> QED BY <1>1, SignalInvariant, PTL

\* For any candles, any calendar, any length of the history loaded and any parameters of
\* the screeners: from one run to the next, while the oldest candles leave the window and
\* new ones join it, the gaps, their fills and the breaks of swings that the recent candles
\* still show, and the weeks and yearly pivots that the history still covers, are found
\* again; the divergences and the SuperTrend line are as long as the first candle of the
\* frame is the same (indicators.py, technical/patterns.py, daily_data_loader.py).
THEOREM SignalsNeverRepaint == SignalSpec => NothingRepaints
<1>1. ASSUME SignalInv, [SignalNext]_SignalVars
      PROVE  [LET f == PrepareOhlc(rows)
                  g == PrepareOhlc(rows')
                  seen == Recent(g, P.lookback)
              IN  f # <<>> /\ g # <<>> =>
                    /\ RestingOn(seen, PatternFacts(Recent(f, P.lookback)))
                          \subseteq PatternFacts(seen)
                    /\ RestingOn(g, PeriodFacts(f)) \subseteq PeriodFacts(g)
                    /\ Head(f) = Head(g) => SeededFacts(f) \subseteq SeededFacts(g)]_rows
  <2>1. CASE UNCHANGED SignalVars
    BY <2>1 DEF SignalVars
  <2>2. CASE SignalNext
    <3> DEFINE f == PrepareOhlc(rows)
               g == PrepareOhlc(rows')
               seen == Recent(g, P.lookback)
    <3>1. SignalInv' /\ \E k : Slides(rows', rows, k)
      BY <1>1, <2>2, LoadsSlide
    <3>2. DaysPass(rows) /\ DaysPass(rows')
      BY <1>1, <3>1 DEF SignalInv
    <3>3. DaysPass(f) /\ DaysPass(g) /\ \E l : Slides(g, f, l)
      BY <3>1, <3>2, CandlesSlide
    <3> HIDE DEF f, g
    <3>4. f # <<>> /\ g # <<>> =>
            /\ RestingOn(seen, PatternFacts(Recent(f, P.lookback))) \subseteq PatternFacts(seen)
            /\ RestingOn(g, PeriodFacts(f)) \subseteq PeriodFacts(g)
            /\ Head(f) = Head(g) => SeededFacts(f) \subseteq SeededFacts(g)
      BY <3>3, FindingsStay
    <3> QED BY <3>4 DEF f, g
  <2> QED BY <1>1, <2>1, <2>2
<1> QED BY <1>1, SignalInvariant, PTL DEF SignalSpec, NothingRepaints

-----------------------------------------------------------------------------
(* Sums, part by part.                                                     *)

\* Induction over the parts of a finite set, stated for a set of them.
LEMMA PartByPart ==
  ASSUME NEW S, IsFiniteSet(S), NEW Q, {} \in Q,
         \A s \in SUBSET S : s # {} /\ (\A x \in s : s \ {x} \in Q) => s \in Q
  PROVE  SUBSET S \subseteq Q
<1> DEFINE bad == {s \in SUBSET S : s \notin Q}
           sizes == {Cardinality(s) : s \in bad}
           n == Cardinality(S)
<1> SUFFICES ASSUME bad # {} PROVE FALSE
  OBVIOUS
<1>1. n \in Nat
  BY FS_CardinalityType
<1>2. \A s \in SUBSET S : IsFiniteSet(s) /\ Cardinality(s) \in Nat /\ Cardinality(s) <= n
  <2> SUFFICES ASSUME NEW s \in SUBSET S
               PROVE  IsFiniteSet(s) /\ Cardinality(s) \in Nat /\ Cardinality(s) <= n
    OBVIOUS
  <2>1. IsFiniteSet(s) /\ Cardinality(s) <= n
    BY FS_Subset
  <2> QED BY <2>1, FS_CardinalityType
<1> HIDE DEF n
<1>3. sizes \in SUBSET (0 .. n) /\ sizes # {}
  BY <1>1, <1>2
<1> HIDE DEF sizes
<1>4. PICK k \in sizes : \A j \in sizes : k <= j
  <2>1. IsFiniteSet(0 .. n)
    BY <1>1, FS_Interval
  <2>2. IsFiniteSet(sizes)
    BY <1>3, <2>1, FS_Subset
  <2>3. sizes \in SUBSET Int
    BY <1>1, <1>3
  <2> QED BY <1>3, <2>2, <2>3, SmallestIsOne
<1>5. PICK s \in bad : Cardinality(s) = k
  BY <1>4 DEF sizes
<1>6. s # {}
  BY <1>5
<1>7. ASSUME NEW x \in s PROVE s \ {x} \in Q
  <2>1. s \ {x} \in SUBSET S
    BY <1>5
  <2>2. Cardinality(s \ {x}) = k - 1
    BY <1>2, <1>5, FS_RemoveElement
  <2>3. k \in Int
    BY <1>3, <1>4
  <2>4. ~(k <= k - 1)
    BY <2>3
  <2>5. k - 1 \notin sizes
    BY <1>4, <2>4
  <2>6. s \ {x} \notin bad
    <3>1. \A y \in bad : Cardinality(y) \in sizes
      BY DEF sizes
    <3> QED BY <2>2, <2>5, <3>1
  <2> QED BY <2>1, <2>6
<1> QED BY <1>5, <1>6, <1>7

\* One step of a fold: what is picked is joined to the fold of the rest.
Folded(iter, base, h, pick, s) ==
    IF s = {} THEN base ELSE h[<<pick[s], iter[s \ {pick[s]}]>>]

IsFold(iter, S, T, base, h, pick) ==
    /\ iter \in [SUBSET S -> T]
    /\ \A s \in SUBSET S : iter[s] = Folded(iter, base, h, pick, s)

Picks(pick, S) == \A s \in SUBSET S : s # {} => pick[s] \in s

\* A fold over a finite set is defined, whatever is joined and in whatever order.
LEMMA FoldIs ==
  ASSUME NEW S, IsFiniteSet(S), NEW T, NEW base \in T, NEW h \in [S \X T -> T],
         NEW pick, Picks(pick, S)
  PROVE  \E iter : IsFold(iter, S, T, base, h, pick)
<1> DEFINE n == Cardinality(S)
           Small(k) == {s \in SUBSET S : Cardinality(s) <= k}
           Fold(iter, k) == /\ iter \in [Small(k) -> T]
                            /\ \A s \in Small(k) : iter[s] = Folded(iter, base, h, pick, s)
           K == {k \in 0 .. n : \E iter : Fold(iter, k)}
<1>1. n \in Nat
  BY FS_CardinalityType
<1>2. \A s \in SUBSET S : IsFiniteSet(s) /\ Cardinality(s) \in Nat /\ Cardinality(s) <= n
  <2> SUFFICES ASSUME NEW s \in SUBSET S
               PROVE  IsFiniteSet(s) /\ Cardinality(s) \in Nat /\ Cardinality(s) <= n
    OBVIOUS
  <2>1. IsFiniteSet(s) /\ Cardinality(s) <= n
    BY FS_Subset
  <2> QED BY <2>1, FS_CardinalityType
<1>3. ASSUME NEW s \in SUBSET S, s # {}
      PROVE  /\ pick[s] \in s /\ s \ {pick[s]} \in SUBSET S
             /\ Cardinality(s \ {pick[s]}) = Cardinality(s) - 1
  BY <1>2, <1>3, FS_RemoveElement DEF Picks
<1> HIDE DEF n
<1>4. 0 \in K
  <2> DEFINE iter == [s \in Small(0) |-> base]
  <2>1. \A s \in Small(0) : s = {}
    BY <1>2, FS_EmptySet
  <2>2. Fold(iter, 0)
    BY <2>1 DEF Folded
  <2>3. 0 \in 0 .. n
    BY <1>1
  <2> HIDE DEF Fold, iter
  <2> QED BY <2>2, <2>3
<1>5. ASSUME NEW k \in 0 .. n - 1, k \in K PROVE k + 1 \in K
  <2>1. PICK iter : Fold(iter, k)
    BY <1>5
  <2> DEFINE more == [s \in Small(k + 1) |-> Folded(iter, base, h, pick, s)]
  <2>2. k \in Nat /\ k + 1 \in 0 .. n
    BY <1>1
  <2>3. ASSUME NEW s \in Small(k + 1), s # {}
        PROVE  s \ {pick[s]} \in Small(k) /\ pick[s] \in S
    BY <1>2, <1>3, <2>2, <2>3
  <2>4. ASSUME NEW s \in Small(k) PROVE s \in Small(k + 1) /\ more[s] = iter[s]
    <3>1. s \in Small(k + 1)
      BY <1>2, <2>2
    <3>2. more[s] = Folded(iter, base, h, pick, s)
      BY <3>1
    <3> QED BY <2>1, <3>1, <3>2
  <2>5. ASSUME NEW s \in Small(k + 1)
        PROVE  more[s] \in T /\ more[s] = Folded(more, base, h, pick, s)
    <3> HIDE DEF Small
    <3>1. more[s] = Folded(iter, base, h, pick, s)
      OBVIOUS
    <3> HIDE DEF more
    <3>2. CASE s = {}
      BY <3>1, <3>2 DEF Folded
    <3>3. CASE s # {}
      <4>1. s \ {pick[s]} \in Small(k) /\ pick[s] \in S
        BY <2>3, <3>3
      <4>2. iter[s \ {pick[s]}] \in T /\ more[s \ {pick[s]}] = iter[s \ {pick[s]}]
        BY <2>1, <2>4, <4>1
      <4>3. more[s] = h[<<pick[s], iter[s \ {pick[s]}]>>]
        BY <3>1, <3>3 DEF Folded
      <4> QED BY <3>3, <4>1, <4>2, <4>3 DEF Folded
    <3> QED BY <3>2, <3>3
  <2>6. Fold(more, k + 1)
    <3> HIDE DEF Small
    <3>1. more \in [Small(k + 1) -> T]
      BY <2>5
    <3> QED BY <2>5, <3>1
  <2> HIDE DEF Fold, more
  <2> QED BY <2>2, <2>6
<1>6. n \in K
  <2> HIDE DEF K
  <2>1. 0 .. n \subseteq K
    BY <1>1, <1>4, <1>5, PositionByPosition
  <2> QED BY <1>1, <2>1
<1>7. PICK iter : Fold(iter, n)
  BY <1>6
<1>8. Small(n) = SUBSET S
  BY <1>2
<1> QED BY <1>7, <1>8 DEF IsFold

-----------------------------------------------------------------------------
(* Groups of the records.                                                  *)

OneOf(s) == CHOOSE x \in s : TRUE

\* The sums MapThenSumSet forms, of the groups in a set of labels.
SummedUp(iter, labels, f) ==
    iter = [s \in SUBSET labels |-> IF s = {} THEN 0 ELSE f[OneOf(s)] + iter[s \ {OneOf(s)}]]

\* There is such a sum.
LEMMA SumsAre ==
  ASSUME NEW labels, IsFiniteSet(labels), NEW f, \A x \in labels : f[x] \in Nat
  PROVE  \E iter : SummedUp(iter, labels, f)
<1>1. PICK h \in [labels \X Nat -> Nat] : \A x \in labels, k \in Nat : h[<<x, k>>] = f[x] + k
  <2> DEFINE g == [p \in labels \X Nat |-> f[p[1]] + p[2]]
  <2>1. g \in [labels \X Nat -> Nat] /\ \A x \in labels, k \in Nat : g[<<x, k>>] = f[x] + k
    OBVIOUS
  <2> QED BY <2>1
<1>2. \A s \in SUBSET labels : s # {} => OneOf(s) \in s
  BY DEF OneOf
<1>3. PICK pick : \A s \in SUBSET labels : pick[s] = OneOf(s)
  <2> DEFINE g == [s \in SUBSET labels |-> OneOf(s)]
  <2>1. \A s \in SUBSET labels : g[s] = OneOf(s)
    OBVIOUS
  <2> QED BY <2>1
<1>4. Picks(pick, labels)
  BY <1>2, <1>3 DEF Picks
<1>5. 0 \in Nat
  OBVIOUS
<1>6. PICK iter \in [SUBSET labels -> Nat] :
         \A s \in SUBSET labels : iter[s] = Folded(iter, 0, h, pick, s)
  <2> DEFINE T == Nat
  <2>1. IsFiniteSet(labels) /\ 0 \in T /\ h \in [labels \X T -> T]
    BY <1>1
  <2> HIDE DEF T
  <2>2. \E iter : IsFold(iter, labels, T, 0, h, pick)
    BY <1>4, <2>1, FoldIs
  <2> QED BY <2>2 DEF IsFold, T
<1>7. ASSUME NEW s \in SUBSET labels
      PROVE  iter[s] = IF s = {} THEN 0 ELSE f[OneOf(s)] + iter[s \ {OneOf(s)}]
  <2>1. CASE s = {}
    BY <1>6, <2>1 DEF Folded
  <2>2. CASE s # {}
    <3>1. OneOf(s) \in labels /\ s \ {OneOf(s)} \in SUBSET labels /\ pick[s] = OneOf(s)
      BY <1>2, <1>3, <2>2
    <3>2. iter[s \ {OneOf(s)}] \in Nat
      BY <1>6, <3>1
    <3>3. iter[s] = h[<<OneOf(s), iter[s \ {OneOf(s)}]>>]
      BY <1>6, <2>2, <3>1 DEF Folded
    <3> QED BY <1>1, <2>2, <3>1, <3>2, <3>3
  <2> QED BY <2>1, <2>2
<1>8. iter = [s \in SUBSET labels |-> IF s = {} THEN 0 ELSE f[OneOf(s)] + iter[s \ {OneOf(s)}]]
  BY <1>6, <1>7
<1> QED BY <1>8 DEF SummedUp

InGroup(records, label, x) == {m \in records : label[m] = x}
InGroups(records, label, s) == {m \in records : label[m] \in s}

\* The groups by a label add up to the records.
LEMMA GroupsAddUp ==
  ASSUME NEW records, IsFiniteSet(records), NEW labels, IsFiniteSet(labels), NEW label,
         \A m \in records : label[m] \in labels,
         NEW f, \A x \in labels : f[x] = Cardinality(InGroup(records, label, x)),
         NEW iter, SummedUp(iter, labels, f)
  PROVE  iter[labels] = Cardinality(records)
<1> DEFINE Q == {s \in SUBSET labels : iter[s] = Cardinality(InGroups(records, label, s))}
<1>1. \A s \in SUBSET labels :
         iter[s] = IF s = {} THEN 0 ELSE f[OneOf(s)] + iter[s \ {OneOf(s)}]
  BY DEF SummedUp
<1>2. {} \in Q
  <2>1. InGroups(records, label, {}) = {}
    BY DEF InGroups
  <2>2. {} \in SUBSET labels
    OBVIOUS
  <2> QED BY <1>1, <2>1, <2>2, FS_EmptySet
<1>3. ASSUME NEW s \in SUBSET labels, s # {}, \A x \in s : s \ {x} \in Q
      PROVE  s \in Q
  <2> DEFINE x == OneOf(s)
             one == InGroup(records, label, x)
             rest == InGroups(records, label, s \ {x})
  <2>1. x \in s
    BY <1>3 DEF OneOf
  <2> HIDE DEF x
  <2>2. iter[s] = f[x] + iter[s \ {x}]
    BY <1>1, <1>3 DEF x
  <2>3. f[x] = Cardinality(one) /\ iter[s \ {x}] = Cardinality(rest)
    BY <1>3, <2>1
  <2>4. one \in SUBSET records /\ rest \in SUBSET records /\ one \cap rest = {}
        /\ one \cup rest = InGroups(records, label, s)
    BY <2>1 DEF InGroup, InGroups
  <2> HIDE DEF one, rest
  <2>5. IsFiniteSet(one) /\ IsFiniteSet(rest)
    BY <2>4, FS_Subset
  <2>6. Cardinality(one \cup rest) = Cardinality(one) + Cardinality(rest) - Cardinality(one \cap rest)
    BY <2>5, FS_Union
  <2>7. Cardinality(one) \in Nat /\ Cardinality(rest) \in Nat /\ Cardinality(one \cap rest) = 0
    BY <2>4, <2>5, FS_CardinalityType, FS_EmptySet
  <2>8. iter[s] = Cardinality(InGroups(records, label, s))
    <3>1. iter[s] = Cardinality(one) + Cardinality(rest)
      BY <2>2, <2>3
    <3>2. Cardinality(one \cup rest) = Cardinality(one) + Cardinality(rest)
      BY <2>6, <2>7
    <3> QED BY <2>4, <3>1, <3>2
  <2> QED BY <2>8
<1> HIDE DEF Q
<1>4. labels \in Q
  BY <1>2, <1>3, PartByPart
<1>5. InGroups(records, label, labels) = records
  BY DEF InGroups
<1> QED BY <1>4, <1>5 DEF Q

\* What MapThenSumSet adds up is such a sum.
LEMMA SumOfIs ==
  ASSUME NEW f, IsFiniteSet(DOMAIN f), \A x \in DOMAIN f : f[x] \in Nat
  PROVE  \E iter : SummedUp(iter, DOMAIN f, f) /\ SumOf(f) = iter[DOMAIN f]
<1> DEFINE it == CHOOSE iter : SummedUp(iter, DOMAIN f, f)
<1>1. SummedUp(it, DOMAIN f, f)
  BY SumsAre
<1>2. SumOf(f) = it[DOMAIN f]
  BY DEF SumOf, MapThenSumSet, MapThenFoldSet, SummedUp, OneOf
<1> QED BY <1>1, <1>2

\* And so are the totals of the panels.
LEMMA TotalsIs ==
  ASSUME NEW f, IsFiniteSet(DOMAIN f), NEW g, \A x \in DOMAIN f : g[x] = f[x].total /\ g[x] \in Nat
  PROVE  \E iter : SummedUp(iter, DOMAIN f, g) /\ Totals(f) = iter[DOMAIN f]
<1> DEFINE Raw(iter) == iter = [s \in SUBSET DOMAIN f |->
                IF s = {} THEN 0 ELSE f[OneOf(s)].total + iter[s \ {OneOf(s)}]]
           it == CHOOSE iter : Raw(iter)
<1>1. ASSUME NEW iter PROVE Raw(iter) <=> SummedUp(iter, DOMAIN f, g)
  <2>1. \A s \in SUBSET DOMAIN f : s # {} => g[OneOf(s)] = f[OneOf(s)].total
    BY DEF OneOf
  <2>2. [s \in SUBSET DOMAIN f |-> IF s = {} THEN 0 ELSE f[OneOf(s)].total + iter[s \ {OneOf(s)}]]
        = [s \in SUBSET DOMAIN f |-> IF s = {} THEN 0 ELSE g[OneOf(s)] + iter[s \ {OneOf(s)}]]
    BY <2>1
  <2> QED BY <2>2, Zenon DEF SummedUp
<1>2. Totals(f) = it[DOMAIN f]
  BY DEF Totals, MapThenSumSet, MapThenFoldSet, OneOf
<1> HIDE DEF Raw
<1>3. \E iter : Raw(iter)
  BY <1>1, SumsAre
<1>4. SummedUp(it, DOMAIN f, g)
  BY <1>1, <1>3
<1> QED BY <1>2, <1>4

-----------------------------------------------------------------------------
(* Fractions in lowest terms.                                              *)

Divides(d, n) == \E k \in Int : n = d * k

\* What an exact division gives.
LEMMA ExactDivision ==
  ASSUME NEW g \in Nat, g > 0, NEW k \in Int
  PROVE  (g * k) \div g = k
<1> DEFINE q == (g * k) \div g
<1>1. g * k \in Int
  OBVIOUS
<1>2. q \in Int /\ g * q <= g * k /\ g * k < g * q + g
  BY <1>1
<1> HIDE DEF q
<1>3. ~(q < k)
  <2> SUFFICES ASSUME q < k PROVE FALSE
    OBVIOUS
  <2>1. g * (q + 1) <= g * k
    BY <1>2
  <2>2. g * (q + 1) = g * q + g
    BY <1>2
  <2> QED BY <1>1, <1>2, <2>1, <2>2
<1>4. ~(k < q)
  <2> SUFFICES ASSUME k < q PROVE FALSE
    OBVIOUS
  <2>1. g * (k + 1) <= g * q
    BY <1>2
  <2>2. g * (k + 1) = g * k + g
    OBVIOUS
  <2> QED BY <1>1, <1>2, <2>1, <2>2
<1>5. q = k
  BY <1>2, <1>3, <1>4
<1> QED BY <1>5 DEF q

\* A common divisor divides the remainder, and what divides it divides both.
LEMMA DividesRest ==
  ASSUME NEW a \in Nat, NEW b \in Nat, b > 0, NEW d \in Nat, Divides(d, b)
  PROVE  Divides(d, a % b) <=> Divides(d, a)
<1>1. a % b \in Nat /\ a \div b \in Nat /\ a = b * (a \div b) + (a % b)
  OBVIOUS
<1>2. PICK q \in Nat, r \in Nat : q = a \div b /\ r = a % b /\ a = b * q + r
  BY <1>1
<1>3. PICK j \in Int : b = d * j
  BY DEF Divides
<1>4. ASSUME NEW k \in Int, r = d * k PROVE a = d * (j * q + k) /\ j * q + k \in Int
  <2>1. a = d * j * q + d * k
    BY <1>2, <1>3, <1>4
  <2>2. d * j * q + d * k = d * (j * q + k)
    BY <1>2, <1>3
  <2> QED BY <1>2, <2>1, <2>2
<1>5. ASSUME NEW k \in Int, a = d * k PROVE r = d * (k - j * q) /\ k - j * q \in Int
  <2>1. r = d * k - d * j * q
    BY <1>2, <1>3, <1>5
  <2>2. d * k - d * j * q = d * (k - j * q)
    BY <1>2, <1>3
  <2> QED BY <1>2, <2>1, <2>2
<1> QED BY <1>2, <1>4, <1>5 DEF Divides

CommonDivisors(a, b) == {d \in Nat : d > 0 /\ Divides(d, a) /\ Divides(d, b)}
Greatest(a, b) == IF b = 0 THEN a
                  ELSE CHOOSE d \in CommonDivisors(a, b) : \A e \in CommonDivisors(a, b) : e <= d

\* Euclid's step keeps the greatest common divisor.
LEMMA EuclidsStep ==
  ASSUME NEW a \in Nat, NEW b \in Nat, b > 0
  PROVE  Greatest(a, b) = Greatest(b, a % b)
<1>1. a % b \in Nat
  OBVIOUS
<1>2. CASE a % b = 0
  <2>1. Divides(b, b) /\ Divides(b, a % b)
    <3>1. b = b * 1 /\ a % b = b * 0
      BY <1>2
    <3> QED BY <3>1 DEF Divides
  <2>2. b \in CommonDivisors(a, b)
    BY <2>1, DividesRest DEF CommonDivisors
  <2>3. ASSUME NEW e \in CommonDivisors(a, b) PROVE e <= b
    <3>1. PICK k \in Int : b = e * k
      BY DEF CommonDivisors, Divides
    <3>2. e \in Nat /\ e > 0
      BY DEF CommonDivisors
    <3>3. k > 0
      <4> SUFFICES ASSUME k <= 0 PROVE FALSE
        OBVIOUS
      <4>1. e * k <= 0
        BY <3>2
      <4> QED BY <3>1, <4>1
    <3>4. e * 1 <= e * k
      BY <3>2, <3>3
    <3> QED BY <3>1, <3>2, <3>4
  <2>4. \A d \in CommonDivisors(a, b) : d \in Nat
    BY DEF CommonDivisors
  <2>5. Greatest(a, b) = CHOOSE d \in CommonDivisors(a, b) : \A e \in CommonDivisors(a, b) : e <= d
    BY DEF Greatest
  <2>6. Greatest(a, b) \in CommonDivisors(a, b) /\ b <= Greatest(a, b)
    BY <2>2, <2>3, <2>5
  <2>7. Greatest(a, b) = b
    BY <2>3, <2>4, <2>6
  <2>8. Greatest(b, a % b) = b
    BY <1>2 DEF Greatest
  <2> QED BY <2>7, <2>8
<1>3. CASE a % b # 0
  <2>1. CommonDivisors(a, b) = CommonDivisors(b, a % b)
    <3>1. \A d \in Nat : Divides(d, b) => (Divides(d, a % b) <=> Divides(d, a))
      BY DividesRest
    <3> QED BY <3>1 DEF CommonDivisors
  <2> QED BY <1>3, <2>1 DEF Greatest
<1> QED BY <1>2, <1>3

\* There is such a function, so Gcd is one.
LEMMA GcdIs ==
  \A a, b \in Nat : Gcd[<<a, b>>] = IF b = 0 THEN a ELSE Gcd[<<b, a % b>>]
<1> DEFINE Euclid(f) == f = [p \in Nat \X Nat |-> IF p[2] = 0 THEN p[1] ELSE f[<<p[2], p[1] % p[2]>>]]
           g == [p \in Nat \X Nat |-> Greatest(p[1], p[2])]
<1>1. \A a, b \in Nat : g[<<a, b>>] = Greatest(a, b)
  OBVIOUS
<1>2. \A a, b \in Nat : b # 0 => a % b \in Nat
  OBVIOUS
<1>3. ASSUME NEW a \in Nat, NEW b \in Nat
      PROVE  Greatest(a, b) = IF b = 0 THEN a ELSE g[<<b, a % b>>]
  <2>1. CASE b = 0
    BY <2>1 DEF Greatest
  <2>2. CASE b # 0
    <3>1. Greatest(a, b) = Greatest(b, a % b) /\ a % b \in Nat
      BY <1>2, <2>2, EuclidsStep
    <3>2. g[<<b, a % b>>] = Greatest(b, a % b)
      BY <1>1, <3>1
    <3> QED BY <2>2, <3>1, <3>2
  <2> QED BY <2>1, <2>2
<1>4. Euclid(g)
  BY <1>3
<1> HIDE DEF g
<1>5. Euclid(CHOOSE f : Euclid(f))
  BY <1>4
<1>6. Gcd = CHOOSE f : Euclid(f)
  BY DEF Gcd
<1>7. Euclid(Gcd)
  BY <1>5, <1>6
<1> QED BY <1>7

\* What it computes divides both, and is not zero unless both are.
LEMMA GcdDivides ==
  ASSUME NEW a \in Nat, NEW b \in Nat
  PROVE  /\ Gcd[<<a, b>>] \in Nat /\ Divides(Gcd[<<a, b>>], a) /\ Divides(Gcd[<<a, b>>], b)
         /\ b > 0 => Gcd[<<a, b>>] > 0
<1> DEFINE Good(x, y) == /\ Gcd[<<x, y>>] \in Nat /\ Divides(Gcd[<<x, y>>], x) /\ Divides(Gcd[<<x, y>>], y)
                         /\ x > 0 \/ y > 0 => Gcd[<<x, y>>] > 0
           T == {n \in Nat : \A x \in Nat : \A y \in 0 .. n : Good(x, y)}
<1>1. \A x \in Nat : Good(x, 0)
  <2> SUFFICES ASSUME NEW x \in Nat PROVE Good(x, 0)
    OBVIOUS
  <2>1. Gcd[<<x, 0>>] = x
    BY GcdIs
  <2>2. x = x * 1 /\ 0 = x * 0
    OBVIOUS
  <2>3. Divides(x, x) /\ Divides(x, 0)
    BY <2>2 DEF Divides
  <2> QED BY <2>1, <2>3
<1>2. ASSUME NEW n \in Nat, n \in T PROVE n + 1 \in T
  <2>1. ASSUME NEW x \in Nat PROVE Good(x, n + 1)
    <3>1. /\ x % (n + 1) \in 0 .. n /\ Gcd[<<x, n + 1>>] = Gcd[<<n + 1, x % (n + 1)>>]
      BY GcdIs
    <3>2. Good(n + 1, x % (n + 1))
      BY <1>2, <3>1
    <3>3. Gcd[<<x, n + 1>>] \in Nat /\ Divides(Gcd[<<x, n + 1>>], n + 1) /\ Divides(Gcd[<<x, n + 1>>], x % (n + 1))
          /\ Gcd[<<x, n + 1>>] > 0
      BY <3>1, <3>2
    <3> HIDE DEF Good
    <3>4. Divides(Gcd[<<x, n + 1>>], x)
      BY <3>3, DividesRest
    <3> QED BY <3>3, <3>4 DEF Good
  <2> HIDE DEF Good
  <2>2. \A y \in 0 .. n + 1 : y \in 0 .. n \/ y = n + 1
    OBVIOUS
  <2> QED BY <1>2, <2>1, <2>2
<1>3. 0 \in T
  <2> HIDE DEF Good
  <2>1. \A y \in 0 .. 0 : y = 0
    OBVIOUS
  <2> QED BY <1>1, <2>1
<1>4. b \in T
  <2> HIDE DEF T
  <2>1. 0 .. b \subseteq T
    BY <1>2, <1>3, PositionByPosition
  <2> QED BY <2>1
<1>5. Good(a, b)
  <2> HIDE DEF Good
  <2> QED BY <1>4
<1> QED BY <1>5

\* A fraction in lowest terms is worth as much as the one it is made of.
LEMMA FracIs ==
  ASSUME NEW n \in Int, NEW d \in Nat \ {0}
  PROVE  /\ IsFraction(Frac(n, d)) /\ Frac(n, d)[1] \in Int /\ Frac(n, d)[2] \in Nat \ {0}
         /\ Frac(n, d)[1] * d = n * Frac(n, d)[2]
<1> DEFINE a == IF n < 0 THEN -n ELSE n
           g == Gcd[<<a, d>>]
<1>1. a \in Nat
  OBVIOUS
<1> HIDE DEF a
<1>2. g \in Nat /\ g > 0 /\ Divides(g, a) /\ Divides(g, d)
  BY <1>1, GcdDivides
<1>3. Frac(n, d) = <<n \div g, d \div g>>
  BY DEF Frac, a
<1> HIDE DEF g
<1>4. PICK j \in Int : d = g * j
  BY <1>2 DEF Divides
<1>5. PICK k \in Int : n = g * k
  <2>1. PICK i \in Int : a = g * i
    BY <1>2 DEF Divides
  <2>2. n = g * i \/ n = g * (-i)
    BY <1>2, <2>1 DEF a
  <2> QED BY <2>2
<1>6. n \div g = k /\ d \div g = j
  BY <1>2, <1>4, <1>5, ExactDivision
<1>7. j > 0
  <2> SUFFICES ASSUME j <= 0 PROVE FALSE
    OBVIOUS
  <2>1. g * j <= 0
    BY <1>2
  <2> QED BY <1>4, <2>1
<1>8. k * (g * j) = (g * k) * j
  BY <1>2
<1> QED BY <1>3, <1>4, <1>5, <1>6, <1>7, <1>8 DEF IsFraction

\* A positive factor on both sides may be left out.
LEMMA Cancelling ==
  ASSUME NEW a \in Int, NEW b \in Int, NEW c \in Nat \ {0}
  PROVE  (a * c <= b * c) <=> (a <= b)
<1>1. ASSUME a <= b PROVE a * c <= b * c
  <2>1. (b - a) * c >= 0
    BY <1>1
  <2>2. (b - a) * c = b * c - a * c
    OBVIOUS
  <2> QED BY <2>1, <2>2
<1>2. ASSUME b < a PROVE b * c < a * c
  <2>1. (a - b) * c > 0
    BY <1>2
  <2>2. (a - b) * c = a * c - b * c
    OBVIOUS
  <2> QED BY <2>1, <2>2
<1>3. a * c \in Int /\ b * c \in Int
  OBVIOUS
<1> QED BY <1>1, <1>2, <1>3

\* Two fractions that are worth the same compare alike.
LEMMA SameWorth ==
  ASSUME NEW n \in Int, NEW d \in Nat \ {0}, NEW p \in Int, NEW q \in Nat \ {0}, p * d = n * q,
         NEW a \in Int, NEW b \in Int
  PROVE  /\ (a * d <= n * b) <=> (a * q <= p * b)
         /\ (n * b <= a * d) <=> (p * b <= a * q)
<1>1. a * q * d = a * d * q
  OBVIOUS
<1>2. p * b * d = n * b * q
  <2>1. p * b * d = (p * d) * b
    OBVIOUS
  <2>2. n * b * q = (n * q) * b
    OBVIOUS
  <2> QED BY <2>1, <2>2
<1>3. a * q \in Int /\ p * b \in Int /\ a * d \in Int /\ n * b \in Int
  OBVIOUS
<1>4. (a * q * d <= p * b * d) <=> (a * q <= p * b)
  BY <1>3, Cancelling
<1>5. (a * d * q <= n * b * q) <=> (a * d <= n * b)
  BY <1>3, Cancelling
<1>6. (p * b * d <= a * q * d) <=> (p * b <= a * q)
  BY <1>3, Cancelling
<1>7. (n * b * q <= a * d * q) <=> (n * b <= a * d)
  BY <1>3, Cancelling
<1> QED BY <1>1, <1>2, <1>4, <1>5, <1>6, <1>7

\* The fraction x lies between k times the fraction lo and k times the fraction hi.
Within(x, k, lo, hi) ==
    /\ IsFraction(x)
    /\ (k * lo[1]) * x[2] <= x[1] * lo[2]
    /\ x[1] * hi[2] <= (k * hi[1]) * x[2]

\* The parts of a fraction.
LEMMA FractionIs ==
  ASSUME NEW x, IsFraction(x)
  PROVE  x[1] \in Int /\ x[2] \in Nat \ {0} /\ x[2] \in Int /\ x[2] > 0 /\ x = <<x[1], x[2]>>
  BY DEF IsFraction

\* So does the one in lowest terms.
LEMMA FracWithin ==
  ASSUME NEW n \in Int, NEW d \in Nat \ {0}, NEW k \in Nat, NEW lo, IsFraction(lo),
         NEW hi, IsFraction(hi),
         (k * lo[1]) * d <= n * lo[2], n * hi[2] <= (k * hi[1]) * d
  PROVE  Within(Frac(n, d), k, lo, hi)
<1> DEFINE f == Frac(n, d)
<1>1. /\ IsFraction(f) /\ f[1] \in Int /\ f[2] \in Nat \ {0} /\ f[1] * d = n * f[2]
  BY FracIs
<1> HIDE DEF f
<1>2. k * lo[1] \in Int /\ lo[2] \in Int /\ k * hi[1] \in Int /\ hi[2] \in Int
  BY FractionIs
<1>3. (k * lo[1]) * f[2] <= f[1] * lo[2]
  BY <1>1, <1>2, SameWorth
<1>4. f[1] * hi[2] <= (k * hi[1]) * f[2]
  BY <1>1, <1>2, SameWorth
<1>5. Within(f, k, lo, hi)
  BY <1>1, <1>3, <1>4 DEF Within
<1> QED BY <1>5 DEF f

\* Sums of what lies between are between the sums.
LEMMA AddWithin ==
  ASSUME NEW lo, IsFraction(lo), NEW hi, IsFraction(hi), NEW j \in Nat, NEW k \in Nat,
         NEW x, Within(x, j, lo, hi), NEW y, Within(y, k, lo, hi)
  PROVE  Within(Add(x, y), j + k, lo, hi)
<1>1. /\ x[1] \in Int /\ x[2] \in Nat \ {0} /\ y[1] \in Int /\ y[2] \in Nat \ {0}
      /\ lo[1] \in Int /\ lo[2] \in Nat \ {0} /\ hi[1] \in Int /\ hi[2] \in Nat \ {0}
  BY FractionIs DEF Within
<1>2. PICK a \in Int, b \in Nat \ {0}, c \in Int, d \in Nat \ {0},
           e \in Int, f \in Nat \ {0}, g \in Int, h \in Nat \ {0} :
         /\ a = x[1] /\ b = x[2] /\ c = y[1] /\ d = y[2]
         /\ e = lo[1] /\ f = lo[2] /\ g = hi[1] /\ h = hi[2]
  BY <1>1
<1>3. /\ (j * e) * b <= a * f /\ a * h <= (j * g) * b
      /\ (k * e) * d <= c * f /\ c * h <= (k * g) * d
  BY <1>2 DEF Within
<1>4. ASSUME NEW v \in Int, NEW w \in Int, v <= w, NEW z \in Nat PROVE v * z <= w * z
  <2>1. CASE z = 0
    BY <2>1
  <2>2. CASE z # 0
    BY <1>4, <2>2, Cancelling
  <2> QED BY <2>1, <2>2
<1>5. /\ (j * e) * b * d <= a * f * d /\ a * h * d <= (j * g) * b * d
      /\ (k * e) * d * b <= c * f * b /\ c * h * b <= (k * g) * d * b
  <2>1. /\ (j * e) * b \in Int /\ a * f \in Int /\ a * h \in Int /\ (j * g) * b \in Int
        /\ (k * e) * d \in Int /\ c * f \in Int /\ c * h \in Int /\ (k * g) * d \in Int
    OBVIOUS
  <2> QED BY <1>3, <1>4, <2>1
<1>6. /\ ((j + k) * e) * (b * d) = (j * e) * b * d + (k * e) * d * b
      /\ ((j + k) * g) * (b * d) = (j * g) * b * d + (k * g) * d * b
      /\ (a * d + c * b) * f = a * f * d + c * f * b
      /\ (a * d + c * b) * h = a * h * d + c * h * b
  OBVIOUS
<1>7. /\ ((j + k) * e) * (b * d) <= (a * d + c * b) * f
      /\ (a * d + c * b) * h <= ((j + k) * g) * (b * d)
  BY <1>5, <1>6
<1>8. a * d + c * b \in Int /\ b * d \in Nat \ {0} /\ j + k \in Nat
  <2>1. b * d > 0
    OBVIOUS
  <2> QED BY <2>1
<1>9. Add(x, y) = Frac(a * d + c * b, b * d)
  BY <1>2 DEF Add
<1> QED BY <1>2, <1>7, <1>8, <1>9, FracWithin

\* So are multiples,
LEMMA TimesWithin ==
  ASSUME NEW lo, IsFraction(lo), NEW hi, IsFraction(hi), NEW k \in Nat, NEW x, Within(x, 1, lo, hi)
  PROVE  Within(Times(x, Int2Frac(k)), k, lo, hi)
<1>1. /\ x[1] \in Int /\ x[2] \in Nat \ {0}
      /\ lo[1] \in Int /\ lo[2] \in Nat \ {0} /\ hi[1] \in Int /\ hi[2] \in Nat \ {0}
  BY FractionIs DEF Within
<1>2. PICK a \in Int, b \in Nat \ {0}, e \in Int, f \in Nat \ {0}, g \in Int, h \in Nat \ {0} :
         a = x[1] /\ b = x[2] /\ e = lo[1] /\ f = lo[2] /\ g = hi[1] /\ h = hi[2]
  BY <1>1
<1>3. e * b <= a * f /\ a * h <= g * b
  BY <1>2 DEF Within
<1>4. e * b * k <= a * f * k /\ a * h * k <= g * b * k
  <2>1. CASE k = 0
    BY <2>1
  <2>2. CASE k # 0
    <3>1. e * b \in Int /\ a * f \in Int /\ a * h \in Int /\ g * b \in Int
      OBVIOUS
    <3> QED BY <1>3, <2>2, <3>1, Cancelling
  <2> QED BY <2>1, <2>2
<1>5. /\ (k * e) * b = e * b * k /\ (k * g) * b = g * b * k
      /\ (a * k) * f = a * f * k /\ (a * k) * h = a * h * k
  OBVIOUS
<1>6. (k * e) * b <= (a * k) * f /\ (a * k) * h <= (k * g) * b
  BY <1>4, <1>5
<1>7. Times(x, Int2Frac(k)) = Frac(a * k, b)
  BY <1>2 DEF Times, Int2Frac
<1>8. a * k \in Int
  OBVIOUS
<1> QED BY <1>2, <1>6, <1>7, <1>8, FracWithin

\* and shares.
LEMMA OverWithin ==
  ASSUME NEW lo, IsFraction(lo), NEW hi, IsFraction(hi), NEW k \in Nat \ {0},
         NEW x, Within(x, k, lo, hi)
  PROVE  Within(Over(x, k), 1, lo, hi)
<1>1. /\ x[1] \in Int /\ x[2] \in Nat \ {0}
      /\ lo[1] \in Int /\ lo[2] \in Nat \ {0} /\ hi[1] \in Int /\ hi[2] \in Nat \ {0}
  BY FractionIs DEF Within
<1>2. PICK a \in Int, b \in Nat \ {0}, e \in Int, f \in Nat \ {0}, g \in Int, h \in Nat \ {0} :
         a = x[1] /\ b = x[2] /\ e = lo[1] /\ f = lo[2] /\ g = hi[1] /\ h = hi[2]
  BY <1>1
<1>3. (k * e) * b <= a * f /\ a * h <= (k * g) * b
  BY <1>2 DEF Within
<1>4. (1 * e) * (b * k) = (k * e) * b /\ (1 * g) * (b * k) = (k * g) * b
  OBVIOUS
<1>5. (1 * e) * (b * k) <= a * f /\ a * h <= (1 * g) * (b * k)
  BY <1>3, <1>4
<1>6. b * k \in Nat \ {0} /\ 1 \in Nat
  <2>1. b * k > 0
    OBVIOUS
  <2> QED BY <2>1
<1>7. Over(x, k) = Frac(a, b * k)
  BY <1>2 DEF Over
<1> QED BY <1>2, <1>5, <1>6, <1>7, FracWithin

\* Between two fractions, as the order of fractions says it.
LEMMA WithinOnce ==
  ASSUME NEW lo, IsFraction(lo), NEW hi, IsFraction(hi), NEW x, IsFraction(x)
  PROVE  Within(x, 1, lo, hi) <=> AtMost(lo, x) /\ AtMost(x, hi)
<1>1. PICK a \in Int, b \in Int, e \in Int, f \in Int, g \in Int, h \in Int :
         a = x[1] /\ b = x[2] /\ e = lo[1] /\ f = lo[2] /\ g = hi[1] /\ h = hi[2]
  BY FractionIs
<1>2. 1 * e = e /\ 1 * g = g
  OBVIOUS
<1>3. Within(x, 1, lo, hi) <=> (e * b <= a * f /\ a * h <= g * b)
  BY <1>1, <1>2 DEF Within
<1>4. (AtMost(lo, x) <=> ~(a * f < e * b)) /\ (AtMost(x, hi) <=> ~(g * b < a * h))
  BY <1>1 DEF AtMost, Less
<1>5. e * b \in Int /\ a * f \in Int /\ a * h \in Int /\ g * b \in Int
  OBVIOUS
<1> QED BY <1>3, <1>4, <1>5

\* Between 0 and 100.
LEMMA PercentageIs ==
  /\ IsFraction(Int2Frac(0)) /\ IsFraction(Int2Frac(100))
  /\ \A x : Percentage(x) <=> Within(x, 1, Int2Frac(0), Int2Frac(100))
<1>1. IsFraction(Int2Frac(0)) /\ IsFraction(Int2Frac(100))
  BY DEF IsFraction, Int2Frac
<1>2. ASSUME NEW x PROVE Within(x, 1, Int2Frac(0), Int2Frac(100)) => IsFraction(x)
  BY DEF Within
<1> QED BY <1>1, <1>2, WithinOnce DEF Percentage

\* Whole numbers are fractions.
LEMMA WholeIsFraction ==
  ASSUME NEW n \in Int
  PROVE  IsFraction(Int2Frac(n))
  BY DEF IsFraction, Int2Frac

\* Fractions are ordered,
LEMMA FractionsCompare ==
  ASSUME NEW x, IsFraction(x), NEW y, IsFraction(y)
  PROVE  /\ AtMost(x, y) \/ AtMost(y, x)
         /\ AtMost(x, x)
         /\ Less(x, y) <=> ~AtMost(y, x)
         /\ Less(x, y) => AtMost(x, y)
<1>1. PICK a \in Int, b \in Int, c \in Int, d \in Int : a = x[1] /\ b = x[2] /\ c = y[1] /\ d = y[2]
  BY FractionIs
<1>2. a * d \in Int /\ c * b \in Int /\ a * b \in Int
  OBVIOUS
<1>3. /\ Less(x, y) <=> a * d < c * b
      /\ Less(y, x) <=> c * b < a * d
      /\ Less(x, x) <=> a * b < a * b
  BY <1>1 DEF Less
<1> QED BY <1>2, <1>3 DEF AtMost

\* one after the other.
LEMMA AtMostIsTransitive ==
  ASSUME NEW x, IsFraction(x), NEW y, IsFraction(y), NEW z, IsFraction(z), AtMost(x, y), AtMost(y, z)
  PROVE  AtMost(x, z)
<1>1. PICK a \in Int, b \in Nat \ {0}, c \in Int, d \in Nat \ {0}, e \in Int, f \in Nat \ {0} :
         a = x[1] /\ b = x[2] /\ c = y[1] /\ d = y[2] /\ e = z[1] /\ f = z[2]
  BY FractionIs
<1>2. a * d \in Int /\ c * b \in Int /\ c * f \in Int /\ e * d \in Int /\ a * f \in Int /\ e * b \in Int
  OBVIOUS
<1>3. a * d <= c * b /\ c * f <= e * d
  <2>1. ~(c * b < a * d) /\ ~(e * d < c * f)
    BY <1>1 DEF AtMost, Less
  <2> QED BY <1>2, <2>1
<1>4. a * d * f <= c * b * f /\ c * f * b <= e * d * b
  BY <1>2, <1>3, Cancelling
<1>5. (a * f) * d = a * d * f /\ c * b * f = c * f * b /\ e * d * b = (e * b) * d
  OBVIOUS
<1>6. (a * f) * d <= (e * b) * d
  BY <1>4, <1>5
<1>7. a * f <= e * b
  BY <1>2, <1>6, Cancelling
<1>8. ~(e * b < a * f)
  BY <1>2, <1>7
<1> QED BY <1>1, <1>8 DEF AtMost, Less

IsLeast(x, set) == x \in set /\ \A y \in set : AtMost(x, y)
IsGreatest(x, set) == x \in set /\ \A y \in set : AtMost(y, x)

\* A finite set of fractions has a least and a greatest.
LEMMA ExtremesAre ==
  ASSUME NEW S, IsFiniteSet(S), S # {}, \A x \in S : IsFraction(x)
  PROVE  (\E x : IsLeast(x, S)) /\ (\E x : IsGreatest(x, S))
<1> DEFINE Q == {s \in SUBSET S : s # {} => (\E x : IsLeast(x, s)) /\ (\E x : IsGreatest(x, s))}
<1>1. {} \in Q
  OBVIOUS
<1>2. ASSUME NEW s \in SUBSET S, s # {}, \A x \in s : s \ {x} \in Q
      PROVE  s \in Q
  <2>1. PICK x \in s : TRUE
    BY <1>2
  <2> DEFINE rest == s \ {x}
  <2>2. rest \in Q
    BY <1>2, <2>1
  <2>3. \A y \in s : IsFraction(y)
    OBVIOUS
  <2>4. s = rest \cup {x} /\ IsFraction(x) /\ x \in s /\ rest \subseteq s
    BY <2>1, <2>3
  <2> HIDE DEF rest
  <2>5. CASE rest = {}
    <3>1. \A y \in s : y = x
      BY <2>4, <2>5
    <3>2. AtMost(x, x)
      BY <2>4, FractionsCompare
    <3>3. IsLeast(x, s) /\ IsGreatest(x, s)
      BY <2>4, <3>1, <3>2 DEF IsLeast, IsGreatest
    <3> QED BY <3>3
  <2>6. CASE rest # {}
    <3>1. PICK lo, hi : IsLeast(lo, rest) /\ IsGreatest(hi, rest)
      BY <2>2, <2>6
    <3>2. /\ lo \in s /\ hi \in s /\ IsFraction(lo) /\ IsFraction(hi)
          /\ \A y \in rest : AtMost(lo, y) /\ AtMost(y, hi) /\ IsFraction(y)
      BY <2>3, <2>4, <3>1 DEF IsLeast, IsGreatest
    <3>3. IsLeast(x, s) \/ IsLeast(lo, s)
      <4>1. CASE AtMost(x, lo)
        <5>1. \A y \in s : AtMost(x, y)
          BY <2>4, <3>2, <4>1, AtMostIsTransitive, FractionsCompare
        <5> QED BY <2>4, <5>1 DEF IsLeast
      <4>2. CASE AtMost(lo, x)
        <5>1. \A y \in s : AtMost(lo, y)
          BY <2>4, <3>2, <4>2
        <5> QED BY <3>2, <5>1 DEF IsLeast
      <4> QED BY <2>4, <3>2, <4>1, <4>2, FractionsCompare
    <3>4. IsGreatest(x, s) \/ IsGreatest(hi, s)
      <4>1. CASE AtMost(hi, x)
        <5>1. \A y \in s : AtMost(y, x)
          BY <2>4, <3>2, <4>1, AtMostIsTransitive, FractionsCompare
        <5> QED BY <2>4, <5>1 DEF IsGreatest
      <4>2. CASE AtMost(x, hi)
        <5>1. \A y \in s : AtMost(y, hi)
          BY <2>4, <3>2, <4>2
        <5> QED BY <3>2, <5>1 DEF IsGreatest
      <4> QED BY <2>4, <3>2, <4>1, <4>2, FractionsCompare
    <3> QED BY <3>3, <3>4
  <2> QED BY <2>5, <2>6
<1> HIDE DEF Q
<1>3. S \in Q
  BY <1>1, <1>2, PartByPart
<1> QED BY <1>3 DEF Q

\* A value between the lowest and the highest of a run is between 0 and 100 percent of the way.
LEMMA PercentOfTheWay ==
  ASSUME NEW low, IsFraction(low), NEW high, IsFraction(high), Less(low, high),
         NEW x, IsFraction(x), AtMost(low, x), AtMost(x, high)
  PROVE  Percentage(PercentOf(Minus(x, low), Minus(high, low)))
<1>1. PICK a \in Int, b \in Nat \ {0}, e \in Int, f \in Nat \ {0}, g \in Int, h \in Nat \ {0} :
         a = x[1] /\ b = x[2] /\ e = low[1] /\ f = low[2] /\ g = high[1] /\ h = high[2]
  BY FractionIs
<1> DEFINE n == a * f - e * b
           d == b * f
           m == g * f - e * h
           c == h * f
           up == Frac(n, d)
           all == Frac(m, c)
<1>2. n \in Int /\ d \in Nat \ {0} /\ m \in Int /\ c \in Nat \ {0}
  <2>1. b * f > 0 /\ h * f > 0
    OBVIOUS
  <2> QED BY <2>1
<1>3. Minus(x, low) = up /\ Minus(high, low) = all
  BY <1>1 DEF Minus
<1>4. 0 <= n /\ 0 < m
  <2>1. ~(a * f < e * b) /\ e * h < g * f
    BY <1>1 DEF AtMost, Less
  <2>2. a * f \in Int /\ e * b \in Int /\ g * f \in Int /\ e * h \in Int
    OBVIOUS
  <2> QED BY <2>1, <2>2
<1>5. n * c <= m * d
  <2>1. ~(g * b < a * h)
    BY <1>1 DEF AtMost, Less
  <2>2. a * h <= g * b
    BY <2>1
  <2>3. f * f \in Nat \ {0}
    <3>1. f * f > 0
      OBVIOUS
    <3> QED BY <3>1
  <2>4. (a * h) * (f * f) <= (g * b) * (f * f)
    <3>1. a * h \in Int /\ g * b \in Int
      OBVIOUS
    <3> QED BY <2>2, <2>3, <3>1, Cancelling
  <2>5. n * c = (a * h) * (f * f) - e * b * h * f /\ m * d = (g * b) * (f * f) - e * b * h * f
    OBVIOUS
  <2> QED BY <2>4, <2>5
<1> HIDE DEF n, d, m, c
<1>6. /\ IsFraction(up) /\ up[1] \in Int /\ up[2] \in Nat \ {0} /\ up[1] * d = n * up[2]
      /\ IsFraction(all) /\ all[1] \in Int /\ all[2] \in Nat \ {0} /\ all[1] * c = m * all[2]
  BY <1>2, FracIs
<1> HIDE DEF up, all
<1>7. PICK p \in Int, q \in Nat \ {0}, r \in Int, s \in Nat \ {0} :
         p = up[1] /\ q = up[2] /\ r = all[1] /\ s = all[2] /\ p * d = n * q /\ r * c = m * s
  BY <1>6
<1>8. 0 <= p
  <2>1. (0 * d <= n * 1) <=> (0 * q <= p * 1)
    BY <1>2, <1>7, SameWorth
  <2> QED BY <1>2, <1>4, <1>7, <2>1
<1>9. 0 < r
  <2>1. (m * 1 <= 0 * c) <=> (r * 1 <= 0 * s)
    BY <1>2, <1>7, SameWorth
  <2> QED BY <1>2, <1>4, <1>7, <2>1
<1>10. p * s <= r * q
  <2>0. m \in Int /\ c \in Int /\ p \in Int /\ q \in Int
    BY <1>2
  <2>1. (n * c <= m * d) <=> (p * c <= m * q)
    <3>1. \A u, v \in Int : (n * v <= u * d) <=> (p * v <= u * q)
      BY <1>2, <1>7, SameWorth
    <3> QED BY <2>0, <3>1
  <2>2. (p * c <= m * q) <=> (p * s <= r * q)
    <3>0. m \in Int /\ c \in Nat \ {0} /\ r \in Int /\ s \in Nat \ {0} /\ r * c = m * s
      BY <1>2, <1>7
    <3>1. ASSUME NEW u \in Int, NEW v \in Int
          PROVE  (u * c <= m * v) <=> (u * s <= r * v)
      BY <3>0, SameWorth
    <3> QED BY <2>0, <3>1
  <2> QED BY <1>5, <2>1, <2>2
<1>11. /\ 100 * p * s \in Int /\ q * r \in Nat \ {0}
       /\ 0 <= 100 * p * s /\ 100 * p * s <= 100 * (q * r)
  <2>1. q * r > 0 /\ 0 <= p * s
    BY <1>8, <1>9
  <2>2. p * s \in Int /\ r * q = q * r /\ 100 * p * s = 100 * (p * s) /\ q * r \in Int
    OBVIOUS
  <2> QED BY <1>10, <2>1, <2>2
<1>12. PercentOf(up, all) = Frac(100 * p * s, q * r)
  BY <1>7 DEF PercentOf
<1>13. Within(Frac(100 * p * s, q * r), 1, Int2Frac(0), Int2Frac(100))
  <2> DEFINE u == 100 * p * s
             v == q * r
  <2>1. u \in Int /\ v \in Nat \ {0} /\ 0 <= u /\ u <= 100 * v
    BY <1>11
  <2> HIDE DEF u, v
  <2>2. Int2Frac(0)[1] = 0 /\ Int2Frac(0)[2] = 1 /\ Int2Frac(100)[1] = 100 /\ Int2Frac(100)[2] = 1
    BY DEF Int2Frac
  <2>3. (1 * 0) * v <= u * 1 /\ u * 1 <= (1 * 100) * v /\ 1 \in Nat
    BY <2>1
  <2>4. Within(Frac(u, v), 1, Int2Frac(0), Int2Frac(100))
    BY <2>1, <2>2, <2>3, PercentageIs, FracWithin
  <2> QED BY <2>4 DEF u, v
<1> QED BY <1>3, <1>12, <1>13, PercentageIs

-----------------------------------------------------------------------------
(* Scores are percentages.                                                 *)

\* The values of a function of a finite domain are finitely many.
LEMMA RangeIsFinite ==
  ASSUME NEW f, IsFiniteSet(DOMAIN f)
  PROVE  IsFiniteSet(Range(f)) /\ \A x \in Range(f) : \E i \in DOMAIN f : x = f[i]
<1> DEFINE D == DOMAIN f
           g == [i \in D |-> f[i]]
<1>1. g \in Surjection(D, Range(f)) /\ IsFiniteSet(D)
  BY DEF Surjection, Range
<1> HIDE DEF D, g
<1>2. IsFiniteSet(Range(f))
  BY <1>1, FS_Surjection
<1> QED BY <1>2 DEF Range

\* A part of a score that compares the rows of a run.
LEMMA CrossSectionalIs ==
  ASSUME NEW values, IsFiniteSet(DOMAIN values),
         \A i \in DOMAIN values : values[i] # None => IsFraction(values[i])
  PROVE  \A i \in DOMAIN values :
            LET v == CrossSectional(values)[i] IN v # None => Percentage(v)
<1> DEFINE present == Range(values) \ {None}
           low  == CHOOSE x \in present : \A y \in present : AtMost(x, y)
           high == CHOOSE x \in present : \A y \in present : AtMost(y, x)
<1> SUFFICES ASSUME NEW i \in DOMAIN values, CrossSectional(values)[i] # None
             PROVE  Percentage(CrossSectional(values)[i])
  OBVIOUS
<1>1. IsFiniteSet(present) /\ \A x \in present : IsFraction(x)
  <2>1. IsFiniteSet(Range(values)) /\ \A x \in Range(values) : \E j \in DOMAIN values : x = values[j]
    BY RangeIsFinite
  <2>2. IsFiniteSet(present)
    BY <2>1, FS_Difference
  <2> QED BY <2>1, <2>2
<1>2. CrossSectional(values)[i] =
        CASE values[i] = None                        -> None
          [] values[i] # None /\ AtMost(high, low)   -> Neutral
          [] values[i] # None /\ Less(low, high)     ->
                PercentOf(Minus(values[i], low), Minus(high, low))
  BY DEF CrossSectional
<1>3. values[i] # None
  BY <1>2
<1>4. values[i] \in present
  BY <1>3 DEF Range
<1>5. IsLeast(low, present) /\ IsGreatest(high, present)
  <2> HIDE DEF present
  <2>1. (\E x : IsLeast(x, present)) /\ (\E x : IsGreatest(x, present))
    BY <1>1, <1>4, ExtremesAre
  <2> QED BY <2>1 DEF IsLeast, IsGreatest
<1> HIDE DEF present, low, high
<1>6. CASE AtMost(high, low)
  <2>1. CrossSectional(values)[i] = Int2Frac(50)
    BY <1>2, <1>3, <1>6 DEF AtMost, Neutral
  <2>2. Percentage(Int2Frac(50))
    BY DEF Percentage, IsFraction, Int2Frac, AtMost, Less
  <2> QED BY <2>1, <2>2
<1>7. CASE ~AtMost(high, low)
  <2>1. Less(low, high)
    BY <1>7 DEF AtMost
  <2>2. CrossSectional(values)[i] = PercentOf(Minus(values[i], low), Minus(high, low))
    BY <1>2, <1>3, <1>7, <2>1
  <2>3. /\ IsFraction(low) /\ IsFraction(high) /\ IsFraction(values[i])
        /\ AtMost(low, values[i]) /\ AtMost(values[i], high)
    BY <1>1, <1>4, <1>5 DEF IsLeast, IsGreatest
  <2> QED BY <2>1, <2>2, <2>3, PercentOfTheWay
<1> QED BY <1>6, <1>7

\* The weighted sums that FinalScore forms, of the parts in a set of them.
WeightedUp(iter, known, parts, i) ==
    iter = [s \in SUBSET known |->
        IF s = {} THEN Int2Frac(0)
        ELSE Add(iter[s \ {OneOf(s)}],
                 Times(parts[OneOf(s)][i], Int2Frac(PartWeights[OneOf(s)])))]

PartScoresOK(parts, i) == \A c \in Parts : parts[c][i] # None => Percentage(parts[c][i])

KnownParts(parts, i) == {c \in Parts : parts[c][i] # None /\ PartWeights[c] > 0}

\* There are four parts.
LEMMA PartsAreFinite == IsFiniteSet(Parts)
<1>1. IsFiniteSet({"technical"}) /\ IsFiniteSet({"liquidity"}) /\ IsFiniteSet({"risk"})
      /\ IsFiniteSet({"freshness"})
  BY FS_Singleton
<1>2. IsFiniteSet({"technical"} \cup {"liquidity"}) /\ IsFiniteSet({"risk"} \cup {"freshness"})
  BY <1>1, FS_Union
<1>3. IsFiniteSet(({"technical"} \cup {"liquidity"}) \cup ({"risk"} \cup {"freshness"}))
  BY <1>2, FS_Union
<1>4. Parts = ({"technical"} \cup {"liquidity"}) \cup ({"risk"} \cup {"freshness"})
  BY DEF Parts
<1> QED BY <1>3, <1>4

\* Sums and products of fractions are fractions.
LEMMA FractionsAdd ==
  ASSUME NEW x, IsFraction(x), NEW y, IsFraction(y)
  PROVE  IsFraction(Add(x, y)) /\ IsFraction(Times(x, y))
<1>1. PICK a \in Int, b \in Nat \ {0}, c \in Int, d \in Nat \ {0} :
         a = x[1] /\ b = x[2] /\ c = y[1] /\ d = y[2]
  BY FractionIs
<1>2. b * d \in Nat \ {0} /\ a * d + c * b \in Int /\ a * c \in Int
  <2>1. b * d > 0
    OBVIOUS
  <2> QED BY <2>1
<1>3. Add(x, y) = Frac(a * d + c * b, b * d) /\ Times(x, y) = Frac(a * c, b * d)
  BY <1>1 DEF Add, Times
<1> QED BY <1>2, <1>3, FracIs

\* There is such a sum.
LEMMA WeightedSumsAre ==
  ASSUME NEW parts, NEW i, PartScoresOK(parts, i)
  PROVE  \E iter : WeightedUp(iter, KnownParts(parts, i), parts, i)
<1> DEFINE known == KnownParts(parts, i)
           T == Int \X (Nat \ {0})
           One(c) == Times(parts[c][i], Int2Frac(PartWeights[c]))
<1>1. \A c \in known : IsFraction(One(c))
  <2> SUFFICES ASSUME NEW c \in known PROVE IsFraction(One(c))
    OBVIOUS
  <2>1. Percentage(parts[c][i]) /\ PartWeights[c] \in Int
    BY PartsAssumption DEF PartScoresOK, KnownParts
  <2>2. IsFraction(parts[c][i]) /\ IsFraction(Int2Frac(PartWeights[c]))
    BY <2>1, WholeIsFraction DEF Percentage
  <2> QED BY <2>2, FractionsAdd
<1>2. IsFiniteSet(known)
  BY PartsAreFinite, FS_Subset DEF KnownParts
<1> HIDE DEF known, One
<1>3. PICK h \in [known \X T -> T] : \A c \in known, x \in T : h[<<c, x>>] = Add(x, One(c))
  <2> DEFINE g == [p \in known \X T |-> Add(p[2], One(p[1]))]
  <2>1. \A c \in known, x \in T : Add(x, One(c)) \in T
    BY <1>1, FractionsAdd DEF IsFraction
  <2> HIDE DEF T
  <2>2. \A c \in known, x \in T : g[<<c, x>>] = Add(x, One(c))
    OBVIOUS
  <2>3. g \in [known \X T -> T]
    BY <2>1
  <2> QED BY <2>2, <2>3
<1>4. PICK pick : \A s \in SUBSET known : pick[s] = OneOf(s)
  <2> DEFINE g == [s \in SUBSET known |-> OneOf(s)]
  <2>1. \A s \in SUBSET known : g[s] = OneOf(s)
    OBVIOUS
  <2> QED BY <2>1
<1>5. \A s \in SUBSET known : s # {} => OneOf(s) \in s
  BY DEF OneOf
<1>6. Picks(pick, known)
  BY <1>4, <1>5 DEF Picks
<1>7. Int2Frac(0) \in T
  BY DEF Int2Frac
<1> HIDE DEF T
<1>8. PICK iter : IsFold(iter, known, T, Int2Frac(0), h, pick)
  BY <1>2, <1>3, <1>6, <1>7, FoldIs
<1>9. ASSUME NEW s \in SUBSET known
      PROVE  iter[s] = IF s = {} THEN Int2Frac(0) ELSE Add(iter[s \ {OneOf(s)}], One(OneOf(s)))
  <2>1. CASE s = {}
    BY <1>8, <2>1 DEF IsFold, Folded
  <2>2. CASE s # {}
    <3>1. OneOf(s) \in known /\ s \ {OneOf(s)} \in SUBSET known /\ pick[s] = OneOf(s)
      BY <1>4, <1>5, <2>2
    <3>2. iter[s \ {OneOf(s)}] \in T
      BY <1>8, <3>1 DEF IsFold
    <3>3. iter[s] = h[<<OneOf(s), iter[s \ {OneOf(s)}]>>]
      BY <1>8, <2>2, <3>1 DEF IsFold, Folded
    <3> QED BY <1>3, <2>2, <3>1, <3>2, <3>3
  <2> QED BY <2>1, <2>2
<1>10. iter = [s \in SUBSET known |->
                 IF s = {} THEN Int2Frac(0) ELSE Add(iter[s \ {OneOf(s)}], One(OneOf(s)))]
  BY <1>8, <1>9 DEF IsFold
<1> QED BY <1>10 DEF WeightedUp, One, known

\* A final score is the mean of the known parts, weighted.
LEMMA FinalScoreIs ==
  ASSUME NEW parts, NEW i, PartScoresOK(parts, i), FinalScore(parts, i) # None
  PROVE  Percentage(FinalScore(parts, i))
<1> DEFINE known == KnownParts(parts, i)
           Ups(iter) == WeightedUp(iter, known, parts, i)
           Sums(iter) == SummedUp(iter, known, PartWeights)
           up == CHOOSE iter : Ups(iter)
           sum == CHOOSE iter : Sums(iter)
           lo == Int2Frac(0)
           hi == Int2Frac(100)
<1>1. known # {} /\ FinalScore(parts, i) = Over(up[known], sum[known])
  BY DEF FinalScore, KnownParts, FoldSet, MapThenSumSet, MapThenFoldSet, WeightedUp, SummedUp, OneOf
<1>2. IsFiniteSet(known) /\ \A c \in known : PartWeights[c] \in Nat /\ PartWeights[c] > 0
  <2>1. \A c \in known : PartWeights[c] \in Nat /\ PartWeights[c] > 0
    BY PartsAssumption DEF KnownParts
  <2>2. known \in SUBSET Parts
    BY DEF KnownParts
  <2> HIDE DEF known
  <2> QED BY <2>1, <2>2, PartsAreFinite, FS_Subset
<1>3. Ups(up) /\ Sums(sum)
  <2>1. \E iter : Ups(iter)
    BY WeightedSumsAre
  <2>2. \E iter : Sums(iter)
    <3> HIDE DEF known
    <3> QED BY <1>2, SumsAre
  <2> HIDE DEF Ups, Sums
  <2> QED BY <2>1, <2>2
<1> HIDE DEF up, sum
<1>4. \A c \in known : Within(parts[c][i], 1, lo, hi)
  BY PercentageIs DEF KnownParts, PartScoresOK
<1> HIDE DEF known
<1>5. IsFraction(lo) /\ IsFraction(hi)
  BY PercentageIs
<1> HIDE DEF lo, hi
<1> DEFINE Good(s) == /\ sum[s] \in Nat /\ Within(up[s], sum[s], lo, hi)
                      /\ s # {} => sum[s] > 0
           Q == {s \in SUBSET known : Good(s)}
<1>6. ASSUME NEW s \in SUBSET known
      PROVE  /\ up[s] = IF s = {} THEN Int2Frac(0)
                        ELSE Add(up[s \ {OneOf(s)}],
                                 Times(parts[OneOf(s)][i], Int2Frac(PartWeights[OneOf(s)])))
             /\ sum[s] = IF s = {} THEN 0 ELSE PartWeights[OneOf(s)] + sum[s \ {OneOf(s)}]
  BY <1>3 DEF WeightedUp, SummedUp
<1>7. {} \in Q
  <2>1. up[{}] = Int2Frac(0) /\ sum[{}] = 0
    BY <1>6
  <2>2. Within(Int2Frac(0), 0, lo, hi)
    <3>1. lo[1] \in Int /\ lo[2] \in Int /\ hi[1] \in Int /\ hi[2] \in Int
      BY <1>5, FractionIs
    <3> QED BY <3>1 DEF Within, Int2Frac, IsFraction
  <2> QED BY <2>1, <2>2
<1>8. ASSUME NEW s \in SUBSET known, s # {}, \A x \in s : s \ {x} \in Q
      PROVE  s \in Q
  <2> DEFINE c == OneOf(s)
             rest == s \ {c}
             w == PartWeights[c]
  <2>1. c \in s
    BY <1>8 DEF OneOf
  <2>2. /\ up[s] = Add(up[rest], Times(parts[c][i], Int2Frac(w)))
        /\ sum[s] = w + sum[rest]
    BY <1>6, <1>8
  <2> HIDE DEF c
  <2>3. sum[rest] \in Nat /\ Within(up[rest], sum[rest], lo, hi)
    BY <1>8, <2>1
  <2> HIDE DEF rest
  <2>4. w \in Nat /\ w > 0 /\ Within(parts[c][i], 1, lo, hi)
    BY <1>2, <1>4, <2>1
  <2> HIDE DEF w
  <2>5. Within(Times(parts[c][i], Int2Frac(w)), w, lo, hi)
    BY <1>5, <2>4, TimesWithin
  <2>6. Within(up[s], sum[rest] + w, lo, hi)
    BY <1>5, <2>2, <2>3, <2>4, <2>5, AddWithin
  <2>7. sum[s] = sum[rest] + w /\ sum[s] \in Nat /\ sum[s] > 0
    BY <2>2, <2>3, <2>4
  <2> QED BY <2>6, <2>7
<1>9. known \in Q
  <2> HIDE DEF Q
  <2>1. SUBSET known \subseteq Q
    BY <1>2, <1>7, <1>8, PartByPart
  <2> QED BY <2>1
<1>10. sum[known] \in Nat \ {0} /\ Within(up[known], sum[known], lo, hi)
  BY <1>1, <1>9
<1>11. Within(Over(up[known], sum[known]), 1, lo, hi)
  BY <1>5, <1>10, OverWithin
<1> QED BY <1>1, <1>11, PercentageIs DEF lo, hi

-----------------------------------------------------------------------------
(* Orders, as sets of pairs, and the places they give.                     *)

StrictOrder(R, S) ==
    /\ \A x \in S : <<x, x>> \notin R
    /\ \A x, y, z \in S : <<x, y>> \in R /\ <<y, z>> \in R => <<x, z>> \in R
    /\ \A x, y \in S : x # y => <<x, y>> \in R \/ <<y, x>> \in R

WeakOrder(W, S) ==
    /\ \A x, y \in S : <<x, y>> \in W \/ <<y, x>> \in W
    /\ \A x, y, z \in S : <<x, y>> \in W /\ <<y, z>> \in W => <<x, z>> \in W

\* What is equal by one order is told apart by the other.
TieBroken(R, W, E, S) ==
    \A x, y \in S : <<x, y>> \in R <=> <<x, y>> \in W /\ (<<y, x>> \notin W \/ <<x, y>> \in E)

\* Ties that are broken by a strict order leave a strict order.
LEMMA TiesBroken ==
  ASSUME NEW S, NEW R, NEW W, NEW E, WeakOrder(W, S), StrictOrder(E, S), TieBroken(R, W, E, S)
  PROVE  StrictOrder(R, S)
<1>1. \A x \in S : <<x, x>> \notin R
  BY DEF WeakOrder, StrictOrder, TieBroken
<1>2. ASSUME NEW x \in S, NEW y \in S, NEW z \in S, <<x, y>> \in R, <<y, z>> \in R
      PROVE  <<x, z>> \in R
  <2>1. <<x, y>> \in W /\ <<y, z>> \in W
    BY <1>2 DEF TieBroken
  <2>2. <<x, z>> \in W
    BY <2>1 DEF WeakOrder
  <2>3. CASE <<z, x>> \notin W
    BY <2>2, <2>3 DEF TieBroken
  <2>4. CASE <<z, x>> \in W
    <3>1. <<y, x>> \in W /\ <<z, y>> \in W
      BY <2>1, <2>4 DEF WeakOrder
    <3>2. <<x, y>> \in E /\ <<y, z>> \in E
      BY <1>2, <3>1 DEF TieBroken
    <3>3. <<x, z>> \in E
      BY <3>2 DEF StrictOrder
    <3> QED BY <2>2, <3>3 DEF TieBroken
  <2> QED BY <2>3, <2>4
<1>3. ASSUME NEW x \in S, NEW y \in S, x # y
      PROVE  <<x, y>> \in R \/ <<y, x>> \in R
  <2>1. <<x, y>> \in W \/ <<y, x>> \in W
    BY DEF WeakOrder
  <2>2. <<x, y>> \in E \/ <<y, x>> \in E
    BY <1>3 DEF StrictOrder
  <2> QED BY <2>1, <2>2 DEF TieBroken
<1> QED BY <1>1, <1>2, <1>3 DEF StrictOrder

Preceding(x, R, S) == {y \in S : <<y, x>> \in R}

\* The places of a finite set are told apart by how many are before them, and there is one
\* for each number.
LEMMA PlacesAre ==
  ASSUME NEW S, IsFiniteSet(S), NEW R, StrictOrder(R, S)
  PROVE  /\ Cardinality(S) \in Nat
         /\ \A x \in S : Cardinality(Preceding(x, R, S)) \in 0 .. Cardinality(S) - 1
         /\ \A x, y \in S : <<x, y>> \in R
                              => Cardinality(Preceding(x, R, S)) < Cardinality(Preceding(y, R, S))
         /\ \A n \in 1 .. Cardinality(S) : \E x \in S : Cardinality(Preceding(x, R, S)) = n - 1
<1> DEFINE m == Cardinality(S)
           rank == [x \in S |-> Cardinality(Preceding(x, R, S))]
<1>1. m \in Nat
  BY FS_CardinalityType
<1>2. ASSUME NEW x \in S
      PROVE  IsFiniteSet(Preceding(x, R, S)) /\ Cardinality(Preceding(x, R, S)) \in 0 .. m - 1
  <2>1. Preceding(x, R, S) \in SUBSET (S \ {x})
    BY DEF Preceding, StrictOrder
  <2>2. IsFiniteSet(S \ {x}) /\ Cardinality(S \ {x}) = m - 1
    BY FS_RemoveElement
  <2>3. IsFiniteSet(Preceding(x, R, S)) /\ Cardinality(Preceding(x, R, S)) <= m - 1
    BY <2>1, <2>2, FS_Subset
  <2>4. Cardinality(Preceding(x, R, S)) \in Nat
    BY <2>3, FS_CardinalityType
  <2> QED BY <1>1, <2>3, <2>4
<1>3. ASSUME NEW x \in S, NEW y \in S, <<x, y>> \in R
      PROVE  Cardinality(Preceding(x, R, S)) < Cardinality(Preceding(y, R, S))
  <2> DEFINE a == Preceding(x, R, S)
             b == Preceding(y, R, S)
  <2>1. a \in SUBSET b /\ x \in b /\ x \notin a
    BY <1>3 DEF Preceding, StrictOrder
  <2>2. IsFiniteSet(a) /\ IsFiniteSet(b)
    BY <1>2
  <2> HIDE DEF a, b
  <2>3. /\ Cardinality(a) <= Cardinality(b) /\ Cardinality(a) # Cardinality(b)
        /\ Cardinality(a) \in Nat /\ Cardinality(b) \in Nat
    BY <2>1, <2>2, FS_Subset, FS_CardinalityType
  <2>4. Cardinality(a) < Cardinality(b)
    BY <2>3
  <2> QED BY <2>4 DEF a, b
<1>4. rank \in [S -> 0 .. m - 1]
  BY <1>2
<1>5. ASSUME NEW x \in S, NEW y \in S, x # y PROVE rank[x] # rank[y]
  <2>1. \A z \in S : rank[z] = Cardinality(Preceding(z, R, S)) /\ rank[z] \in Int
    BY <1>4
  <2>2. <<x, y>> \in R \/ <<y, x>> \in R
    BY <1>5 DEF StrictOrder
  <2>3. rank[x] < rank[y] \/ rank[y] < rank[x]
    BY <1>3, <2>1, <2>2
  <2> QED BY <2>1, <2>3
<1>6. \A x \in S : rank[x] = Cardinality(Preceding(x, R, S))
  OBVIOUS
<1> HIDE DEF rank
<1>7. rank \in Injection(S, 0 .. m - 1)
  BY <1>4, <1>5 DEF Injection, IsInjective
<1>8. IsFiniteSet(0 .. m - 1) /\ Cardinality(0 .. m - 1) = m
  BY <1>1, FS_Interval
<1>9. rank \in Surjection(S, 0 .. m - 1)
  BY <1>7, <1>8, FS_Injection
<1>10. ASSUME NEW n \in 1 .. m PROVE \E x \in S : Cardinality(Preceding(x, R, S)) = n - 1
  <2>1. n - 1 \in 0 .. m - 1
    BY <1>1
  <2>2. \E x \in S : rank[x] = n - 1
    BY <1>9, <2>1 DEF Surjection
  <2> QED BY <1>6, <2>2
<1> QED BY <1>1, <1>2, <1>3, <1>10

\* SortByFinalScore: what is better is placed before.
BetterScore(x, y) == x # None /\ (y = None \/ Less(y, x))
AheadOf(frame, i, j) ==
    \/ BetterScore(frame[i].score, frame[j].score)
    \/ i < j /\ ~BetterScore(frame[j].score, frame[i].score)

\* The rows of a sorted frame are the rows of the frame.
LEMMA SortedRows ==
  ASSUME NEW n \in Nat, NEW frame, DOMAIN frame = 1 .. n,
         \A i \in 1 .. n : frame[i].score # None => IsFraction(frame[i].score)
  PROVE  \A k \in 1 .. n : \E i \in 1 .. n : SortByFinalScore(frame)[k] = frame[i]
<1> DEFINE S == 1 .. n
           ScoreAt(i) == frame[i].score
           W == {p \in S \X S : ~BetterScore(ScoreAt(p[2]), ScoreAt(p[1]))}
           E == {p \in S \X S : p[1] < p[2]}
           R == {p \in S \X S : AheadOf(frame, p[1], p[2])}
<1>1. IsFiniteSet(S) /\ Cardinality(S) = n
  BY FS_Interval
<1>2. \A i, j \in S : /\ <<i, j>> \in W <=> ~BetterScore(ScoreAt(j), ScoreAt(i))
                      /\ <<i, j>> \in E <=> i < j
                      /\ <<i, j>> \in R <=> AheadOf(frame, i, j)
  OBVIOUS
<1>3. \A i \in S : ScoreAt(i) # None => IsFraction(ScoreAt(i))
  OBVIOUS
<1>4. StrictOrder(E, S)
  <2> HIDE DEF E
  <2> QED BY <1>2 DEF StrictOrder
<1> HIDE DEF ScoreAt, W, E, R
<1>5. \A i, j \in S : BetterScore(ScoreAt(i), ScoreAt(j)) => ~BetterScore(ScoreAt(j), ScoreAt(i))
  BY <1>3, FractionsCompare DEF BetterScore
<1>6. WeakOrder(W, S)
  <2>1. ASSUME NEW i \in S, NEW j \in S, NEW k \in S, <<i, j>> \in W, <<j, k>> \in W
        PROVE  <<i, k>> \in W
    <3>1. ~BetterScore(ScoreAt(j), ScoreAt(i)) /\ ~BetterScore(ScoreAt(k), ScoreAt(j))
      BY <1>2, <2>1
    <3>2. ~BetterScore(ScoreAt(k), ScoreAt(i))
      <4>1. CASE ScoreAt(k) = None
        BY <4>1 DEF BetterScore
      <4>2. CASE ScoreAt(k) # None
        <5>1. ScoreAt(j) # None /\ ~Less(ScoreAt(j), ScoreAt(k))
          BY <3>1, <4>2 DEF BetterScore
        <5>2. ScoreAt(i) # None /\ ~Less(ScoreAt(i), ScoreAt(j))
          BY <3>1, <5>1 DEF BetterScore
        <5>3. AtMost(ScoreAt(k), ScoreAt(j)) /\ AtMost(ScoreAt(j), ScoreAt(i))
          BY <5>1, <5>2 DEF AtMost
        <5>4. AtMost(ScoreAt(k), ScoreAt(i))
          BY <1>3, <4>2, <5>1, <5>2, <5>3, AtMostIsTransitive
        <5> QED BY <5>2, <5>4 DEF BetterScore, AtMost
      <4> QED BY <4>1, <4>2
    <3> QED BY <1>2, <3>2
  <2>2. \A i, j \in S : <<i, j>> \in W \/ <<j, i>> \in W
    BY <1>2, <1>5
  <2> QED BY <2>1, <2>2 DEF WeakOrder
<1>7. TieBroken(R, W, E, S)
  <2>1. ASSUME NEW i \in S, NEW j \in S
        PROVE  <<i, j>> \in R <=> <<i, j>> \in W /\ (<<j, i>> \notin W \/ <<i, j>> \in E)
    <3>1. AheadOf(frame, i, j) <=> \/ BetterScore(ScoreAt(i), ScoreAt(j))
                                   \/ i < j /\ ~BetterScore(ScoreAt(j), ScoreAt(i))
      BY DEF AheadOf, ScoreAt
    <3> QED BY <1>2, <1>5, <3>1
  <2> QED BY <2>1 DEF TieBroken
<1>8. StrictOrder(R, S)
  BY <1>4, <1>6, <1>7, TiesBroken
<1>9. ASSUME NEW k \in S PROVE \E i \in S : 1 + Cardinality({j \in S : AheadOf(frame, j, i)}) = k
  <2>1. PICK i \in S : Cardinality(Preceding(i, R, S)) = k - 1
    BY <1>1, <1>8, PlacesAre
  <2> DEFINE ahead == {j \in S : AheadOf(frame, j, i)}
  <2>2. Preceding(i, R, S) = ahead
    BY <1>2 DEF Preceding
  <2> HIDE DEF ahead
  <2>3. k \in Int
    OBVIOUS
  <2>4. 1 + Cardinality(ahead) = k
    BY <2>1, <2>2, <2>3
  <2> QED BY <2>4 DEF ahead
<1>10. ASSUME NEW k \in S
       PROVE  SortByFinalScore(frame)[k] =
                frame[CHOOSE i \in DOMAIN frame :
                        1 + Cardinality({j \in DOMAIN frame : AheadOf(frame, j, i)}) = k]
  BY DEF SortByFinalScore, AheadOf, BetterScore
<1>11. ASSUME NEW k \in S PROVE \E i \in S : SortByFinalScore(frame)[k] = frame[i]
  <2> DEFINE Here(i) == 1 + Cardinality({j \in S : AheadOf(frame, j, i)}) = k
  <2>1. SortByFinalScore(frame)[k] = frame[CHOOSE i \in S : Here(i)]
    BY <1>10
  <2>2. \E i \in S : Here(i)
    BY <1>9
  <2> HIDE DEF Here
  <2> QED BY <2>1, <2>2
<1> QED BY <1>11

-----------------------------------------------------------------------------
(* The parts of a score.                                                   *)

CandleLike(bar) ==
    \E q \in Cacheable : bar.open = q.open /\ bar.close = q.close /\ bar.volume = q.volume

CandleSeries(series) == IsSequence(series) /\ \A i \in DOMAIN series : CandleLike(series[i])

\* What the cache holds of candles, and the day.
CandlesOK ==
    /\ marketDay \in 0 .. LastMarketDay
    /\ \A s \in Symbols : CandleSeries(quotes[s])

\* A candle has a price it opened at, and may have a close and a volume.
LEMMA CandleValues ==
  ASSUME NEW bar, CandleLike(bar)
  PROVE  /\ bar.open \in Int
         /\ bar.close # None => bar.close \in Int /\ bar.close \in CachedCloses
         /\ bar.close # None /\ bar.volume # None => bar.close * bar.volume \in TradedAmounts
<1>1. PICK q \in Cacheable : bar.open = q.open /\ bar.close = q.close /\ bar.volume = q.volume
  BY DEF CandleLike
<1>2. q.open \in Int /\ {q.close, q.volume} \subseteq Int \cup {None}
  BY <1>1, RowsAssumption
<1> QED BY <1>1, <1>2 DEF CachedCloses, TradedAmounts

\* Some candles of a series are a series.
LEMMA PickedSeries ==
  ASSUME NEW series, CandleSeries(series), NEW places \in SUBSET DOMAIN series
  PROVE  /\ CandleSeries(PickedFrom(series, places))
         /\ \A n \in DOMAIN PickedFrom(series, places) :
                \E i \in places : PickedFrom(series, places)[n] = series[i]
<1> DEFINE picked == PickedFrom(series, places)
           m == Cardinality(places)
<1>1. Len(series) \in Nat /\ DOMAIN series = 1 .. Len(series)
  BY Positions DEF CandleSeries
<1>2. places \in SUBSET Int /\ IsFiniteSet(places) /\ m \in Nat
  <2>1. places \in SUBSET (1 .. Len(series))
    BY <1>1
  <2>2. places \in SUBSET Int /\ IsFiniteSet(places)
    BY <1>1, <2>1, FirstPosition
  <2> QED BY <2>2, FS_CardinalityType
<1>3. /\ picked = [n \in 1 .. m |-> picked[n]]
      /\ \A n \in 1 .. m : \E i \in places : picked[n] = series[i]
  BY <1>2, PickedIsThere
<1> HIDE DEF picked, m
<1>4. IsSequence(picked) /\ DOMAIN picked = 1 .. m
  BY <1>2, <1>3, Whole
<1>5. \A n \in DOMAIN picked : CandleLike(picked[n])
  BY <1>3, <1>4 DEF CandleSeries
<1>6. CandleSeries(picked) /\ \A n \in DOMAIN picked : \E i \in places : picked[n] = series[i]
  BY <1>3, <1>4, <1>5 DEF CandleSeries
<1> QED BY <1>6 DEF picked

\* The candles that are read make a series.
LEMMA ReadSeries ==
  ASSUME CandlesOK, NEW symbol, NEW snapshot
  PROVE  CandleSeries(ReadCachedCandles(symbol, snapshot))
<1>1. CASE symbol \notin SecurityIds
  <2>1. ReadCachedCandles(symbol, snapshot) = <<>>
    BY <1>1 DEF ReadCachedCandles
  <2>2. <<>> \in Seq({})
    OBVIOUS
  <2> QED BY <2>1, <2>2 DEF CandleSeries, IsSequence
<1>2. CASE symbol \in SecurityIds
  <2> DEFINE places == {i \in DOMAIN quotes[symbol] : quotes[symbol][i].day <= snapshot}
  <2>1. ReadCachedCandles(symbol, snapshot) = PickedFrom(quotes[symbol], places)
    BY <1>2 DEF ReadCachedCandles
  <2>2. CandleSeries(quotes[symbol])
    BY <1>2, HistoryAssumption DEF CandlesOK
  <2>3. places \in SUBSET DOMAIN quotes[symbol]
    OBVIOUS
  <2> HIDE DEF places
  <2> QED BY <2>1, <2>2, <2>3, PickedSeries
<1> QED BY <1>1, <1>2

\* So do those with a close.
LEMMA PricedSeries ==
  ASSUME NEW series, CandleSeries(series)
  PROVE  /\ CandleSeries(Priced(series)) /\ Len(Priced(series)) \in Nat
         /\ DOMAIN Priced(series) = 1 .. Len(Priced(series))
         /\ \A i \in DOMAIN Priced(series) : Priced(series)[i].close # None
<1> DEFINE places == {i \in DOMAIN series : series[i].close # None}
<1>1. Priced(series) = PickedFrom(series, places)
  BY DEF Priced
<1>2. places \in SUBSET DOMAIN series /\ \A i \in places : series[i].close # None
  OBVIOUS
<1> HIDE DEF places
<1>3. CandleSeries(Priced(series)) /\ \A i \in DOMAIN Priced(series) : Priced(series)[i].close # None
  BY <1>1, <1>2, PickedSeries
<1> QED BY <1>3, Positions DEF CandleSeries

\* The last candles of a series that is long enough.
LEMMA LastOnes ==
  ASSUME NEW series, IsSequence(series), NEW n \in Nat \ {0}, ~(Len(series) < n)
  PROVE  /\ DOMAIN LastOf(series, n) = 1 .. n
         /\ \A i \in 1 .. n : \E j \in DOMAIN series : LastOf(series, n)[i] = series[j]
<1>1. PICK T : series \in Seq(T)
  BY DEF IsSequence
<1> DEFINE first == Len(series) - n + 1
           last == Len(series)
<1>2. first \in 1 .. last + 1 /\ last \in 0 .. Len(series) /\ last - first + 1 = n /\ last \in Nat
      /\ DOMAIN series = 1 .. last
  BY <1>1
<1>3. /\ Len(SubSeq(series, first, last)) = n /\ DOMAIN SubSeq(series, first, last) = 1 .. n
      /\ \A i \in 1 .. n : SubSeq(series, first, last)[i] = series[first + i - 1]
  BY <1>1, <1>2
<1>4. \A i \in 1 .. n : first + i - 1 \in 1 .. last
  BY <1>2
<1> QED BY <1>2, <1>3, <1>4 DEF LastOf

\* What the rows are ranked on, where there is something.
LEMMA LiquidityIs ==
  ASSUME NEW series, CandleSeries(series), LiquidityRaw(series) # None
  PROVE  IsFraction(LiquidityRaw(series))
<1> DEFINE priced == Priced(series)
           window == LastOf(priced, LiquidityWindow)
           traded == [i \in DOMAIN window |-> window[i].close * window[i].volume]
<1>1. /\ ~(Len(priced) < LiquidityWindow)
      /\ \A i \in DOMAIN window : window[i].volume # None
      /\ ~(Turnover(traded) <= 0)
      /\ LiquidityRaw(series) = LogScale(Mean(AsFracs(traded)))
  BY DEF LiquidityRaw
<1>2. LiquidityWindow \in Nat \ {0}
  BY PartsAssumption
<1>3. /\ CandleSeries(priced) /\ \A i \in DOMAIN priced : priced[i].close # None
  BY PricedSeries
<1> HIDE DEF priced
<1>4. /\ DOMAIN window = 1 .. LiquidityWindow
      /\ \A i \in 1 .. LiquidityWindow : \E j \in DOMAIN priced : window[i] = priced[j]
  BY <1>1, <1>2, <1>3, LastOnes DEF CandleSeries
<1> HIDE DEF window
<1>5. \A i \in DOMAIN window : CandleLike(window[i]) /\ window[i].close # None
  BY <1>3, <1>4 DEF CandleSeries
<1>6. \A i \in DOMAIN window : window[i].close * window[i].volume \in TradedAmounts
  BY <1>1, <1>5, CandleValues
<1>7. traded \in [1 .. LiquidityWindow -> TradedAmounts]
  BY <1>4, <1>6
<1> HIDE DEF traded
<1> QED BY <1>1, <1>7, PartsAssumption

\* How steady a price has been.
LEMMA RiskIs ==
  ASSUME NEW series, CandleSeries(series), RiskScore(series) # None
  PROVE  Percentage(RiskScore(series))
<1> DEFINE priced == Priced(series)
           window == LastOf(priced, RiskWindow)
           closes == [i \in DOMAIN window |-> window[i].close]
<1>1. /\ ~(Len(priced) < RiskWindow)
      /\ \A i \in DOMAIN window : ~(window[i].close <= 0)
      /\ RiskScore(series) = Steadiness(closes)
  BY DEF RiskScore
<1>2. RiskWindow \in Nat \ {0}
  BY PartsAssumption
<1>3. /\ CandleSeries(priced) /\ \A i \in DOMAIN priced : priced[i].close # None
  BY PricedSeries
<1> HIDE DEF priced
<1>4. /\ DOMAIN window = 1 .. RiskWindow
      /\ \A i \in 1 .. RiskWindow : \E j \in DOMAIN priced : window[i] = priced[j]
  BY <1>1, <1>2, <1>3, LastOnes DEF CandleSeries
<1> HIDE DEF window
<1>5. \A i \in DOMAIN window : CandleLike(window[i]) /\ window[i].close # None
  BY <1>3, <1>4 DEF CandleSeries
<1>6. \A i \in DOMAIN window : window[i].close \in {c \in CachedCloses : c > 0}
  <2> SUFFICES ASSUME NEW i \in DOMAIN window PROVE window[i].close \in {c \in CachedCloses : c > 0}
    OBVIOUS
  <2>1. window[i].close \in Int /\ window[i].close \in CachedCloses
    BY <1>5, CandleValues
  <2>2. window[i].close > 0
    BY <1>1, <2>1
  <2> QED BY <2>1, <2>2
<1>7. closes \in [1 .. RiskWindow -> {c \in CachedCloses : c > 0}]
  BY <1>4, <1>6
<1> HIDE DEF closes
<1> QED BY <1>1, <1>7, PartsAssumption

\* How fresh a signal is on a day that has come.
LEMMA FreshnessIs ==
  ASSUME NEW row, EmittedRow(row), NEW snapshot \in Int, snapshot <= LastMarketDay,
         FreshnessScore(row, snapshot) # None
  PROVE  Percentage(FreshnessScore(row, snapshot))
<1>1. LastMarketDay \in Nat
  BY HistoryAssumption
<1>2. row.signal # None /\ row.signal \in Nat
  BY DEF FreshnessScore, EmittedRow
<1>3. PICK age \in 0 .. LastMarketDay : FreshnessScore(row, snapshot) = Decay(age)
  <2>1. CASE snapshot > row.signal
    BY <1>1, <1>2, <2>1 DEF FreshnessScore
  <2>2. CASE ~(snapshot > row.signal)
    BY <1>1, <1>2, <2>2 DEF FreshnessScore
  <2> QED BY <2>1, <2>2
<1> QED BY <1>3, PartsAssumption

\* What a row tells of its own chances.
LEMMA TechnicalIs ==
  ASSUME NEW row, EmittedRow(row), TechnicalRaw(row) # None
  PROVE  IsFraction(TechnicalRaw(row))
<1>1. \E n \in Int : TechnicalRaw(row) = Int2Frac(n)
  <2>1. /\ row.confidence # None => row.confidence \in Int
        /\ row.upside # None => row.upside \in Int
        /\ row.distance # None => row.distance \in Int /\ -row.distance \in Int
    BY DEF EmittedRow
  <2>2. CASE row.confidence # None
    BY <2>1, <2>2 DEF TechnicalRaw
  <2>3. CASE row.confidence = None /\ row.upside # None
    BY <2>1, <2>3 DEF TechnicalRaw
  <2>4. CASE row.confidence = None /\ row.upside = None /\ row.distance # None
    BY <2>1, <2>4 DEF TechnicalRaw
  <2>5. CASE row.confidence = None /\ row.upside = None /\ row.distance = None
    BY <2>5 DEF TechnicalRaw
  <2> QED BY <2>2, <2>3, <2>4, <2>5
<1> QED BY <1>1, WholeIsFraction

\* Every part of a row's score is a percentage, or missing.
LEMMA PartsOfAScore ==
  ASSUME CandlesOK, NEW n \in Nat, NEW frame, DOMAIN frame = 1 .. n,
         \A i \in 1 .. n : EmittedRow(frame[i]),
         NEW snapshot \in Int, snapshot <= LastMarketDay
  PROVE  \A i \in 1 .. n : PartScoresOK(ComponentFrames(frame, snapshot), i)
<1> DEFINE parts == ComponentFrames(frame, snapshot)
           tech == [i \in DOMAIN frame |-> TechnicalRaw(frame[i])]
           liquid == [i \in DOMAIN frame |-> LiquidityRaw(ReadCachedCandles(frame[i].symbol, snapshot))]
<1>1. IsFiniteSet(1 .. n)
  BY FS_Interval
<1>2. /\ DOMAIN tech = 1 .. n /\ \A i \in 1 .. n : tech[i] # None => IsFraction(tech[i])
      /\ DOMAIN liquid = 1 .. n /\ \A i \in 1 .. n : liquid[i] # None => IsFraction(liquid[i])
  BY TechnicalIs, LiquidityIs, ReadSeries
<1>3. /\ parts["technical"] = CrossSectional(tech)
      /\ parts["liquidity"] = CrossSectional(liquid)
      /\ \A i \in 1 .. n :
            /\ parts["risk"][i] = RiskScore(ReadCachedCandles(frame[i].symbol, snapshot))
            /\ parts["freshness"][i] = FreshnessScore(frame[i], snapshot)
  BY DEF ComponentFrames
<1> HIDE DEF parts, tech, liquid
<1>4. ASSUME NEW i \in 1 .. n PROVE PartScoresOK(parts, i)
  <2>1. parts["technical"][i] # None => Percentage(parts["technical"][i])
    BY <1>1, <1>2, <1>3, CrossSectionalIs
  <2>2. parts["liquidity"][i] # None => Percentage(parts["liquidity"][i])
    BY <1>1, <1>2, <1>3, CrossSectionalIs
  <2>3. parts["risk"][i] # None => Percentage(parts["risk"][i])
    BY <1>3, RiskIs, ReadSeries
  <2>4. parts["freshness"][i] # None => Percentage(parts["freshness"][i])
    BY <1>3, FreshnessIs
  <2> QED BY <2>1, <2>2, <2>3, <2>4 DEF PartScoresOK, Parts
<1> QED BY <1>4 DEF parts

-----------------------------------------------------------------------------
(* The rows that are stored.                                               *)

ScoredRow(row) ==
    /\ {"symbol", "score", "provenance"} \subseteq DOMAIN row
    /\ row.symbol \in Symbols \cup {None}
    /\ row.provenance # None =>
        /\ {"source", "rules", "indicators", "dated"} = DOMAIN row.provenance
        /\ row.provenance.rules \cup row.provenance.indicators \subseteq STRING
    /\ row.score # None => Percentage(row.score)

\* A row with its score.
LEMMA WithScoreIs ==
  ASSUME NEW row, EmittedRow(row), NEW score, score # None => Percentage(score)
  PROVE  ScoredRow(WithScore(row, score)) /\ WithScore(row, score).score = score
<1>1. {"symbol", "score", "provenance"} \subseteq DOMAIN row
  BY DEF EmittedRow
<1>2. /\ WithScore(row, score).score = score
      /\ WithScore(row, score).provenance = row.provenance
      /\ WithScore(row, score).symbol = row.symbol
      /\ DOMAIN WithScore(row, score) = DOMAIN row
  BY <1>1 DEF WithScore
<1> QED BY <1>1, <1>2 DEF ScoredRow, EmittedRow

\* The rows of a run, scored or not.
LEMMA ScoredFrames ==
  ASSUME CandlesOK, NEW n \in Nat, NEW frame, DOMAIN frame = 1 .. n,
         \A i \in 1 .. n : EmittedRow(frame[i]),
         NEW snapshot \in Int, snapshot <= LastMarketDay, NEW outcome
  PROVE  \A k \in 1 .. n : ScoredRow(ScoredSafely(frame, snapshot, outcome)[k])
<1> DEFINE parts == ComponentFrames(frame, snapshot)
           scored == [i \in DOMAIN frame |-> WithScore(frame[i], FinalScore(parts, i))]
<1>1. \A i \in 1 .. n : FinalScore(parts, i) # None => Percentage(FinalScore(parts, i))
  BY PartsOfAScore, FinalScoreIs
<1>2. ScoreCandidates(frame, snapshot) = SortByFinalScore(scored)
  BY DEF ScoreCandidates
<1> HIDE DEF parts
<1>3. /\ DOMAIN scored = 1 .. n
      /\ \A i \in 1 .. n : /\ ScoredRow(scored[i])
                           /\ scored[i].score # None => Percentage(scored[i].score)
  BY <1>1, WithScoreIs
<1> HIDE DEF scored
<1>4. \A k \in 1 .. n : \E i \in 1 .. n : SortByFinalScore(scored)[k] = scored[i]
  BY <1>3, SortedRows DEF Percentage
<1>5. \A k \in 1 .. n : ScoredRow(ScoreCandidates(frame, snapshot)[k])
  BY <1>2, <1>3, <1>4
<1>6. \A k \in 1 .. n : ScoredRow(WithNullFinalScore(frame)[k])
  BY WithScoreIs DEF WithNullFinalScore
<1> QED BY <1>5, <1>6 DEF ScoredSafely

\* A row that satisfies the contract is dated when it is stored.
LEMMA NormalizedRow ==
  ASSUME NEW row, ScoredRow(row), SatisfiesContract(row), NEW snapshot \in Int
  PROVE  /\ ScanResultRow(NormalizeScreenerRow(row, snapshot))
         /\ NormalizeScreenerRow(row, snapshot).symbol \in Symbols
<1>1. /\ {"symbol", "score", "provenance"} \subseteq DOMAIN row
      /\ {"source", "rules", "indicators", "dated"} = DOMAIN row.provenance
      /\ row.provenance.rules \cup row.provenance.indicators \subseteq STRING
  BY DEF ScoredRow, SatisfiesContract
<1>2. CASE row.provenance.dated # None
  BY <1>2 DEF NormalizeScreenerRow, ScanResultRow, ScoredRow, SatisfiesContract
<1>3. CASE row.provenance.dated = None
  <2> DEFINE new == [row EXCEPT !.provenance.dated = snapshot]
  <2>1. NormalizeScreenerRow(row, snapshot) = new
    BY <1>3 DEF NormalizeScreenerRow
  <2>2. /\ new.symbol = row.symbol /\ new.score = row.score
        /\ new.provenance = [row.provenance EXCEPT !.dated = snapshot]
    BY <1>1
  <2>3. /\ new.provenance.source = row.provenance.source
        /\ new.provenance.rules = row.provenance.rules
        /\ new.provenance.indicators = row.provenance.indicators
        /\ new.provenance.dated = snapshot
    BY <1>1, <2>2
  <2>4. snapshot # None
    BY HistoryAssumption
  <2>5. new.provenance # None
    <3>1. row.provenance.source \in SignalSources
      BY DEF SatisfiesContract
    <3>2. new.provenance = [source |-> row.provenance.source, rules |-> row.provenance.rules,
                            indicators |-> row.provenance.indicators, dated |-> snapshot]
      BY <1>1, <2>2
    <3>3. new.provenance
            \in [source : SignalSources, rules : SUBSET STRING, indicators : SUBSET STRING, dated : Int]
      BY <1>1, <3>1, <3>2
    <3> QED BY <3>3, ProvenanceAssumption
  <2> HIDE DEF new
  <2>6. ScanResultRow(new) /\ new.symbol \in Symbols
    BY <2>2, <2>3, <2>4, <2>5 DEF ScanResultRow, SatisfiesContract, ScoredRow
  <2> QED BY <2>1, <2>6
<1> QED BY <1>2, <1>3

-----------------------------------------------------------------------------
(* What the cache, the runs and the measurements hold.                     *)

StoredRowOK(row) == ScanResultRow(row) /\ row.symbol \in Symbols

\* The rows of a run are those that satisfy the contract.
LEMMA ResultRowsAre ==
  ASSUME NEW n \in Nat, NEW frame, DOMAIN frame = 1 .. n,
         \A i \in 1 .. n : ScoredRow(frame[i]), NEW snapshot \in Int
  PROVE  \A i \in DOMAIN ResultRows(frame, snapshot) : StoredRowOK(ResultRows(frame, snapshot)[i])
<1> DEFINE places == {i \in DOMAIN frame : SatisfiesContract(frame[i])}
           kept == PickedFrom(frame, places)
<1>1. places \in SUBSET Int /\ IsFiniteSet(places)
  <2>1. places \in SUBSET (1 .. n)
    OBVIOUS
  <2> HIDE DEF places
  <2> QED BY <2>1, FirstPosition
<1>2. \A i \in places : ScoredRow(frame[i]) /\ SatisfiesContract(frame[i])
  OBVIOUS
<1>3. ResultRows(frame, snapshot) = [i \in DOMAIN kept |-> NormalizeScreenerRow(kept[i], snapshot)]
  BY Zenon DEF ResultRows
<1> HIDE DEF places
<1>4. \A i \in DOMAIN kept : \E j \in places : kept[i] = frame[j]
  <2>1. /\ kept = [m \in 1 .. Cardinality(places) |-> kept[m]]
        /\ \A m \in 1 .. Cardinality(places) : \E j \in places : kept[m] = frame[j]
    BY <1>1, PickedIsThere
  <2> HIDE DEF kept
  <2>2. DOMAIN kept = 1 .. Cardinality(places)
    BY <2>1
  <2> QED BY <2>1, <2>2
<1> HIDE DEF kept
<1>5. \A i \in DOMAIN kept : StoredRowOK(NormalizeScreenerRow(kept[i], snapshot))
  BY <1>2, <1>4, NormalizedRow DEF StoredRowOK
<1> QED BY <1>3, <1>5

\* What is measured, where it can be.
LEMMA ReturnIs ==
  ASSUME CandlesOK, NEW symbol \in Symbols, NEW signal, NEW h \in Nat \ {0},
         ForwardReturn(symbol, signal, h).status = "computed"
  PROVE  IsFraction(ForwardReturn(symbol, signal, h).pct)
<1> DEFINE bars == Priced(quotes[symbol])
           later == PickedFrom(bars, {i \in DOMAIN bars : bars[i].day > signal})
           places == {i \in DOMAIN bars : bars[i].day > signal}
<1>1. CandleSeries(bars) /\ \A i \in DOMAIN bars : bars[i].close # None
  BY PricedSeries DEF CandlesOK
<1>2. /\ ~(Len(later) < h) /\ ~(later[1].open <= 0)
      /\ ForwardReturn(symbol, signal, h).pct =
            Frac(100 * (later[h].close - later[1].open), later[1].open)
  <2>1. CASE \A i \in DOMAIN bars : bars[i].day # signal
    BY <2>1 DEF ForwardReturn, NoReturn
  <2>2. CASE Len(later) < h
    BY <2>2 DEF ForwardReturn, NoReturn
  <2>3. CASE later[1].open <= 0
    BY <2>3 DEF ForwardReturn, NoReturn
  <2>4. CASE ~(\A i \in DOMAIN bars : bars[i].day # signal) /\ ~(Len(later) < h) /\ ~(later[1].open <= 0)
    BY <2>4 DEF ForwardReturn, NoReturn
  <2> QED BY <2>1, <2>2, <2>3, <2>4
<1>3. places \in SUBSET DOMAIN bars
  OBVIOUS
<1>4. CandleSeries(later) /\ \A i \in DOMAIN later : \E j \in DOMAIN bars : later[i] = bars[j]
  <2>1. later = PickedFrom(bars, places)
    OBVIOUS
  <2> HIDE DEF later, places, bars
  <2> QED BY <1>1, <1>3, <2>1, PickedSeries
<1> HIDE DEF later, bars, places
<1>5. \A i \in DOMAIN later : later[i].close # None
  BY <1>1, <1>4
<1>6. 1 \in DOMAIN later /\ h \in DOMAIN later
  <2>1. Len(later) \in Nat /\ DOMAIN later = 1 .. Len(later)
    BY <1>4, Positions DEF CandleSeries
  <2> QED BY <1>2, <2>1
<1>7. later[1].open \in Int /\ later[h].close \in Int
  BY <1>4, <1>5, <1>6, CandleValues DEF CandleSeries
<1>8. later[1].open \in Nat \ {0} /\ 100 * (later[h].close - later[1].open) \in Int
  BY <1>2, <1>7
<1> QED BY <1>2, <1>8, FracIs

\* What the cache, the runs and the measurements hold.
RunRowsOK == \A k \in DOMAIN scans : \A i \in DOMAIN scans[k].rows : StoredRowOK(scans[k].rows[i])
ReturnsOK == \A m \in measured : m.status = "computed" => IsFraction(m.pct)

ValuesOK == CandlesOK /\ RunRowsOK /\ ReturnsOK

\* A run adds rows that satisfy the contract.
LEMMA ScanValues ==
  ASSUME HistoryInv, ValuesOK, NEW screener \in Screeners, NEW frame \in Emissions,
         NEW snapshot \in Snapshots, NEW outcome, Scan(screener, frame, snapshot, outcome)
  PROVE  ValuesOK'
<1> DEFINE scored == ScoredSafely(frame, snapshot, outcome)
           stored == ResultRows(scored, snapshot)
           run == [screener |-> screener, snapshot |-> snapshot,
                   status |-> RunStatus(frame, stored, outcome), rows |-> stored,
                   emitted |-> frame, scored |-> outcome # "unscored"]
<1>1. /\ scans' = Append(scans, run)
      /\ UNCHANGED <<marketDay, quotes, measured>>
  BY DEF Scan
<1>2. snapshot \in Int /\ snapshot <= LastMarketDay
  <2>1. snapshot \in Int /\ snapshot <= marketDay
    BY SnapshotsArePast
  <2>2. marketDay \in 0 .. LastMarketDay /\ LastMarketDay \in Nat
    BY HistoryAssumption DEF ValuesOK, CandlesOK
  <2> QED BY <2>1, <2>2
<1>3. Len(frame) \in Nat /\ DOMAIN frame = 1 .. Len(frame)
  <2>1. frame \in Seq(ToSet(frame))
    BY HistoryAssumption
  <2> QED BY <2>1
<1>4. \A i \in 1 .. Len(frame) : EmittedRow(frame[i])
  BY <1>3, RowsAssumption
<1>5. DOMAIN scored = 1 .. Len(frame) /\ \A i \in 1 .. Len(frame) : ScoredRow(scored[i])
  BY <1>2, <1>3, <1>4, ScoredRows, ScoredFrames DEF ValuesOK
<1> HIDE DEF scored
<1>6. \A i \in DOMAIN stored : StoredRowOK(stored[i])
  BY <1>2, <1>3, <1>5, ResultRowsAre
<1>7. run.rows = stored
  OBVIOUS
<1> HIDE DEF run, stored
<1>8. PICK R : scans \in Seq(R)
  BY DEF HistoryInv, RunsOK
<1>9. \A k \in DOMAIN scans' : (k \in DOMAIN scans /\ scans'[k] = scans[k]) \/ scans'[k] = run
  <2>1. scans \in Seq(R \cup {run})
    BY <1>8
  <2> QED BY <1>1, <2>1
<1>10. RunRowsOK'
  <2>1. ASSUME NEW k \in DOMAIN scans', NEW i \in DOMAIN scans'[k].rows
        PROVE  StoredRowOK(scans'[k].rows[i])
    BY <1>6, <1>7, <1>9 DEF ValuesOK, RunRowsOK
  <2> QED BY <2>1 DEF RunRowsOK, StoredRowOK, ScanResultRow
<1>11. CandlesOK' /\ ReturnsOK'
  BY <1>1 DEF ValuesOK, CandlesOK, ReturnsOK
<1> QED BY <1>10, <1>11 DEF ValuesOK

\* A screener that raises adds none.
LEMMA RaiseValues ==
  ASSUME HistoryInv, ValuesOK, NEW screener, NEW snapshot, ScreenerRaises(screener, snapshot)
  PROVE  ValuesOK'
<1> DEFINE run == [screener |-> screener, snapshot |-> snapshot, status |-> "failed",
                   rows |-> <<>>, emitted |-> <<>>, scored |-> FALSE]
<1>1. /\ scans' = Append(scans, run)
      /\ UNCHANGED <<marketDay, quotes, measured>>
  BY DEF ScreenerRaises
<1>2. DOMAIN run.rows = {}
  OBVIOUS
<1> HIDE DEF run
<1>3. PICK R : scans \in Seq(R)
  BY DEF HistoryInv, RunsOK
<1>4. \A k \in DOMAIN scans' : (k \in DOMAIN scans /\ scans'[k] = scans[k]) \/ scans'[k] = run
  <2>1. scans \in Seq(R \cup {run})
    BY <1>3
  <2> QED BY <1>1, <2>1
<1>5. RunRowsOK'
  <2>1. ASSUME NEW k \in DOMAIN scans', NEW i \in DOMAIN scans'[k].rows
        PROVE  StoredRowOK(scans'[k].rows[i])
    BY <1>2, <1>4 DEF ValuesOK, RunRowsOK
  <2> QED BY <2>1 DEF RunRowsOK, StoredRowOK, ScanResultRow
<1>6. CandlesOK' /\ ReturnsOK'
  BY <1>1 DEF ValuesOK, CandlesOK, ReturnsOK
<1> QED BY <1>5, <1>6 DEF ValuesOK

\* A day adds candles.
LEMMA DayValues ==
  ASSUME HistoryInv, ValuesOK, NextMarketDay
  PROVE  ValuesOK'
<1>1. /\ marketDay' \in 0 .. LastMarketDay /\ scans' = scans /\ measured' = measured
  BY HistoryAssumption DEF NextMarketDay, ValuesOK, CandlesOK
<1>2. PICK q \in NextQuotes :
        quotes' = [x \in Symbols |->
            IF q[x] = None THEN quotes[x]
            ELSE Append(quotes[x], [day |-> marketDay', open |-> q[x].open,
                                    close |-> q[x].close, volume |-> q[x].volume])]
  BY DEF NextMarketDay
<1>3. ASSUME NEW s \in Symbols PROVE CandleSeries(quotes'[s])
  <2> DEFINE bar == [day |-> marketDay', open |-> q[s].open, close |-> q[s].close,
                     volume |-> q[s].volume]
  <2>1. CandleSeries(quotes[s])
    BY DEF ValuesOK, CandlesOK
  <2>2. CASE q[s] = None
    BY <1>2, <2>1, <2>2
  <2>3. CASE q[s] # None
    <3>1. q[s] \in Cacheable
      BY <2>3 DEF Cacheable
    <3>2. quotes'[s] = Append(quotes[s], bar) /\ CandleLike(bar)
      BY <1>2, <2>3, <3>1 DEF CandleLike
    <3> HIDE DEF bar
    <3>3. PICK R : quotes[s] \in Seq(R)
      BY <2>1 DEF CandleSeries, IsSequence
    <3>4. quotes[s] \in Seq(R \cup {bar})
      BY <3>3
    <3>5. quotes'[s] \in Seq(R \cup {bar})
      BY <3>2, <3>4
    <3>6. \A i \in DOMAIN quotes'[s] :
            (i \in DOMAIN quotes[s] /\ quotes'[s][i] = quotes[s][i]) \/ quotes'[s][i] = bar
      BY <3>2, <3>4
    <3> QED BY <2>1, <3>2, <3>5, <3>6 DEF CandleSeries, IsSequence
  <2> QED BY <2>2, <2>3
<1>4. CandlesOK'
  <2>1. \A s \in Symbols : CandleSeries(quotes[s])'
    BY <1>3 DEF CandleSeries, CandleLike, IsSequence
  <2> QED BY <1>1, <2>1 DEF CandlesOK
<1>5. RunRowsOK' /\ ReturnsOK'
  BY <1>1 DEF ValuesOK, RunRowsOK, StoredRowOK, ScanResultRow, ReturnsOK
<1> QED BY <1>4, <1>5 DEF ValuesOK

\* A measurement adds returns.
LEMMA MeasureValues ==
  ASSUME HistoryInv, ValuesOK, NEW k \in DOMAIN scans, NEW i \in DOMAIN scans[k].rows, Measure(k, i)
  PROVE  ValuesOK'
<1>1. UNCHANGED <<marketDay, quotes, scans>>
  BY DEF Measure
<1>2. \A m \in measured' : m \in measured \/ \E h \in Horizons : m = Measurement(k, i, h)
  BY DEF Measure
<1>3. ASSUME NEW h \in Horizons, Measurement(k, i, h).status = "computed"
      PROVE  IsFraction(Measurement(k, i, h).pct)
  <2> DEFINE row == scans[k].rows[i]
  <2>1. row.symbol \in Symbols /\ h \in Nat \ {0}
    BY HistoryAssumption DEF ValuesOK, RunRowsOK, StoredRowOK
  <2>2. /\ Measurement(k, i, h).status = ForwardReturn(row.symbol, row.signal, h).status
        /\ Measurement(k, i, h).pct = ForwardReturn(row.symbol, row.signal, h).pct
    BY DEF Measurement
  <2> HIDE DEF row
  <2> QED BY <1>3, <2>1, <2>2, ReturnIs DEF ValuesOK
<1>4. ReturnsOK'
  <2>1. ASSUME NEW m \in measured', m.status = "computed" PROVE IsFraction(m.pct)
    BY <1>2, <1>3, <2>1 DEF ValuesOK, ReturnsOK
  <2> QED BY <2>1 DEF ReturnsOK
<1>5. CandlesOK' /\ RunRowsOK'
  BY <1>1 DEF ValuesOK, CandlesOK, RunRowsOK, StoredRowOK, ScanResultRow
<1> QED BY <1>4, <1>5 DEF ValuesOK

\* The history starts with the candles that are cached at first.
LEMMA ValuesStart == HistoryInit => ValuesOK
<1> SUFFICES ASSUME HistoryInit PROVE ValuesOK
  OBVIOUS
<1>1. quotes = FirstQuotes /\ scans = <<>> /\ measured = {}
  BY DEF HistoryInit
<1>2. marketDay \in 0 .. LastMarketDay
  BY HistoryStarts DEF HistoryInv, CacheOK
<1>3. ASSUME NEW s \in Symbols PROVE CandleSeries(quotes[s])
  <2>1. quotes[s] \in Seq(ToSet(quotes[s]))
    BY <1>1, HistoryAssumption
  <2>2. ASSUME NEW i \in DOMAIN quotes[s] PROVE quotes[s][i] \in Cacheable
    BY <1>1 DEF Cacheable, ToSet
  <2> QED BY <2>1, <2>2 DEF CandleSeries, CandleLike, IsSequence
<1> QED BY <1>1, <1>2, <1>3 DEF ValuesOK, CandlesOK, RunRowsOK, ReturnsOK

\* Every step keeps them.
LEMMA ValuesStep ==
  HistoryInv /\ ValuesOK /\ [HistoryNext \/ UniverseHealthNext]_HistoryVars => ValuesOK'
<1> SUFFICES ASSUME HistoryInv, ValuesOK, [HistoryNext \/ UniverseHealthNext]_HistoryVars
             PROVE  ValuesOK'
  OBVIOUS
<1>1. CASE HistoryNext
  <2>1. CASE NextMarketDay
    BY <2>1, DayValues
  <2>2. CASE \E s \in Screeners, frame \in Emissions, snapshot \in Snapshots,
                outcome \in {"complete", "lossy", "unscored"} : Scan(s, frame, snapshot, outcome)
    BY <2>2, ScanValues
  <2>3. CASE \E s \in Screeners, snapshot \in Snapshots : ScreenerRaises(s, snapshot)
    BY <2>3, RaiseValues
  <2>4. CASE \E k \in DOMAIN scans : \E i \in DOMAIN scans[k].rows : Measure(k, i)
    BY <2>4, MeasureValues
  <2> QED BY <1>1, <2>1, <2>2, <2>3, <2>4, Zenon DEF HistoryNext
<1>2. CASE UNCHANGED <<marketDay, quotes, scans, measured>>
  BY <1>2 DEF ValuesOK, CandlesOK, RunRowsOK, StoredRowOK, ScanResultRow, ReturnsOK
<1>3. CASE UniverseHealthNext
  BY <1>2, <1>3 DEF UniverseHealthNext, CheckUniverseHealth
<1>4. CASE UNCHANGED HistoryVars
  BY <1>2, <1>4 DEF HistoryVars
<1> QED BY <1>1, <1>3, <1>4

-----------------------------------------------------------------------------
(* The mean of a sequence, from its last element to its first.             *)

LastIn(p) == CHOOSE i \in p : \A j \in p : i >= j

\* The sums FoldLeft forms, of the elements at a set of places.
AddedUp(iter, n, s) ==
    iter = [p \in SUBSET (1 .. n) |->
                IF p = {} THEN Int2Frac(0) ELSE Add(iter[p \ {LastIn(p)}], s[LastIn(p)])]

\* A set of places has a last one.
LEMMA LastPlace ==
  ASSUME NEW n \in Nat, NEW p \in SUBSET (1 .. n), p # {}
  PROVE  LastIn(p) \in p
<1> DEFINE K == {k \in 0 .. n : p \cap (1 .. k) = {} \/ \E i \in p : \A j \in p \cap (1 .. k) : i >= j}
<1>1. 0 \in K
  OBVIOUS
<1>2. ASSUME NEW k \in 0 .. n - 1, k \in K PROVE k + 1 \in K
  <2>1. CASE k + 1 \in p
    <3>1. \A j \in p \cap (1 .. k + 1) : k + 1 >= j
      OBVIOUS
    <3> QED BY <2>1, <3>1
  <2>2. CASE k + 1 \notin p
    <3>1. p \cap (1 .. k + 1) = p \cap (1 .. k)
      BY <2>2
    <3>2. k + 1 \in 0 .. n
      OBVIOUS
    <3> QED BY <1>2, <3>1, <3>2
  <2> QED BY <2>1, <2>2
<1> HIDE DEF K
<1>3. 0 .. n \subseteq K
  BY <1>1, <1>2, PositionByPosition
<1>4. n \in K
  BY <1>3
<1>5. p \cap (1 .. n) = p
  OBVIOUS
<1>6. \E i \in p : \A j \in p : i >= j
  BY <1>4, <1>5 DEF K
<1> QED BY <1>6 DEF LastIn

\* There is such a sum.
LEMMA AddedSumsAre ==
  ASSUME NEW n \in Nat, NEW s, \A i \in 1 .. n : IsFraction(s[i])
  PROVE  \E iter : AddedUp(iter, n, s)
<1> DEFINE S == 1 .. n
           T == Int \X (Nat \ {0})
<1>1. IsFiniteSet(S)
  BY FS_Interval
<1>2. PICK h \in [S \X T -> T] : \A i \in S, x \in T : h[<<i, x>>] = Add(x, s[i])
  <2> DEFINE g == [p \in S \X T |-> Add(p[2], s[p[1]])]
  <2>1. \A i \in S, x \in T : Add(x, s[i]) \in T
    BY FractionsAdd DEF IsFraction
  <2> HIDE DEF S, T
  <2>2. \A i \in S, x \in T : g[<<i, x>>] = Add(x, s[i])
    OBVIOUS
  <2>3. g \in [S \X T -> T]
    BY <2>1
  <2> QED BY <2>2, <2>3
<1>3. \A p \in SUBSET S : p # {} => LastIn(p) \in p
  BY LastPlace
<1>4. \A i \in S : s[i] \in T
  BY DEF IsFraction
<1>5. Int2Frac(0) \in T
  BY DEF Int2Frac
<1> HIDE DEF S, T
<1>6. PICK pick : \A p \in SUBSET S : pick[p] = LastIn(p)
  <2> DEFINE g == [p \in SUBSET S |-> LastIn(p)]
  <2>1. \A p \in SUBSET S : g[p] = LastIn(p)
    OBVIOUS
  <2> QED BY <2>1
<1>7. Picks(pick, S)
  BY <1>3, <1>6 DEF Picks
<1>8. PICK iter : IsFold(iter, S, T, Int2Frac(0), h, pick)
  BY <1>1, <1>2, <1>5, <1>7, FoldIs
<1>9. ASSUME NEW p \in SUBSET S
      PROVE  iter[p] = IF p = {} THEN Int2Frac(0) ELSE Add(iter[p \ {LastIn(p)}], s[LastIn(p)])
  <2>1. CASE p = {}
    BY <1>8, <2>1 DEF IsFold, Folded
  <2>2. CASE p # {}
    <3>1. LastIn(p) \in S /\ p \ {LastIn(p)} \in SUBSET S /\ pick[p] = LastIn(p)
      BY <1>3, <1>6, <2>2
    <3>2. iter[p \ {LastIn(p)}] \in T
      BY <1>8, <3>1 DEF IsFold
    <3>3. iter[p] = h[<<LastIn(p), iter[p \ {LastIn(p)}]>>]
      BY <1>8, <2>2, <3>1 DEF IsFold, Folded
    <3> QED BY <1>2, <2>2, <3>1, <3>2, <3>3
  <2> QED BY <2>1, <2>2
<1>10. iter = [p \in SUBSET S |->
                 IF p = {} THEN Int2Frac(0) ELSE Add(iter[p \ {LastIn(p)}], s[LastIn(p)])]
  BY <1>8, <1>9 DEF IsFold
<1> QED BY <1>10 DEF AddedUp, S

\* A mean lies where all the elements lie.
LEMMA MeanIsBetween ==
  ASSUME NEW n \in Nat \ {0}, NEW s, DOMAIN s = 1 .. n, Len(s) = n,
         NEW lo, IsFraction(lo), NEW hi, IsFraction(hi),
         \A i \in 1 .. n : Within(s[i], 1, lo, hi)
  PROVE  Within(Mean(s), 1, lo, hi)
<1> DEFINE S == 1 .. n
           sum == CHOOSE iter : AddedUp(iter, n, s)
<1>1. Mean(s) = Over(sum[S], n)
  BY DEF Mean, FoldLeft, MapThenFoldSet, Max, AddedUp, LastIn
<1>2. AddedUp(sum, n, s)
  BY AddedSumsAre DEF Within
<1> HIDE DEF sum
<1>3. IsFiniteSet(S) /\ Cardinality(S) = n
  BY FS_Interval
<1>4. \A p \in SUBSET S :
         sum[p] = IF p = {} THEN Int2Frac(0) ELSE Add(sum[p \ {LastIn(p)}], s[LastIn(p)])
  BY <1>2 DEF AddedUp
<1>5. \A p \in SUBSET S : p # {} => LastIn(p) \in p
  BY LastPlace
<1>6. \A i \in S : Within(s[i], 1, lo, hi)
  OBVIOUS
<1> HIDE DEF S
<1> DEFINE Good(p) == Cardinality(p) \in Nat /\ Within(sum[p], Cardinality(p), lo, hi)
           Q == {p \in SUBSET S : Good(p)}
<1>7. {} \in Q
  <2>1. sum[{}] = Int2Frac(0) /\ Cardinality({}) = 0
    BY <1>4, FS_EmptySet
  <2>2. Within(Int2Frac(0), 0, lo, hi)
    <3>1. lo[1] \in Int /\ lo[2] \in Int /\ hi[1] \in Int /\ hi[2] \in Int
      BY FractionIs
    <3> QED BY <3>1 DEF Within, Int2Frac, IsFraction
  <2> QED BY <2>1, <2>2
<1>8. ASSUME NEW p \in SUBSET S, p # {}, \A x \in p : p \ {x} \in Q
      PROVE  p \in Q
  <2> DEFINE i == LastIn(p)
             rest == p \ {i}
             k == Cardinality(rest)
  <2>1. i \in p /\ sum[p] = Add(sum[rest], s[i])
    BY <1>4, <1>5, <1>8
  <2> HIDE DEF i
  <2>2. k \in Nat /\ Within(sum[rest], k, lo, hi) /\ Within(s[i], 1, lo, hi)
    BY <1>6, <1>8, <2>1
  <2>3. Cardinality(p) = k + 1
    <3>1. IsFiniteSet(p)
      BY <1>3, FS_Subset
    <3>2. Cardinality(p) \in Nat /\ k = Cardinality(p) - 1
      BY <2>1, <3>1, FS_RemoveElement, FS_CardinalityType
    <3> QED BY <3>2
  <2> HIDE DEF k, rest
  <2>4. Within(sum[p], k + 1, lo, hi)
    <3>1. 1 \in Nat
      OBVIOUS
    <3> QED BY <2>1, <2>2, <3>1, AddWithin
  <2> QED BY <2>2, <2>3, <2>4
<1>9. S \in Q
  <2> HIDE DEF Q
  <2>1. SUBSET S \subseteq Q
    BY <1>3, <1>7, <1>8, PartByPart
  <2> QED BY <2>1
<1>10. Within(sum[S], n, lo, hi)
  BY <1>3, <1>9
<1>11. Within(Over(sum[S], n), 1, lo, hi)
  BY <1>10, OverWithin
<1> QED BY <1>1, <1>11

-----------------------------------------------------------------------------
(* The panels of a dashboard.                                              *)

\* The median lies where all the elements lie.
LEMMA MedianIsBetween ==
  ASSUME NEW n \in Nat \ {0}, NEW s, Len(s) = n,
         NEW lo, IsFraction(lo), NEW hi, IsFraction(hi),
         \A i \in 1 .. n : Within(s[i], 1, lo, hi)
  PROVE  Within(Median(s), 1, lo, hi)
<1>1. CASE n % 2 = 1
  <2>1. (n + 1) \div 2 \in 1 .. n
    OBVIOUS
  <2>2. Median(s) = s[(n + 1) \div 2]
    BY <1>1 DEF Median
  <2> QED BY <2>1, <2>2
<1>2. CASE n % 2 = 0
  <2> DEFINE x == s[n \div 2]
             y == s[n \div 2 + 1]
  <2>1. n \div 2 \in 1 .. n /\ n \div 2 + 1 \in 1 .. n
    BY <1>2
  <2>2. Within(x, 1, lo, hi) /\ Within(y, 1, lo, hi)
    BY <2>1
  <2>3. Median(s) = Over(Add(x, y), 2)
    BY <1>2 DEF Median
  <2> HIDE DEF x, y
  <2>4. Within(Add(x, y), 2, lo, hi)
    <3>1. 1 \in Nat /\ 1 + 1 = 2
      OBVIOUS
    <3> QED BY <2>2, <3>1, AddWithin
  <2>5. 2 \in Nat \ {0}
    OBVIOUS
  <2> QED BY <2>3, <2>4, <2>5, OverWithin
<1>3. n % 2 = 0 \/ n % 2 = 1
  OBVIOUS
<1> QED BY <1>1, <1>2, <1>3

\* What a dashboard is made of: measurements that differ in their run or in their result.
RecordsOK(records) ==
    /\ IsFiniteSet(records)
    /\ \A m \in records : m.run \in Int /\ m.result \in Int
    /\ \A m \in records : m.status = "computed" => IsFraction(m.pct)
    /\ \A x, y \in records : x.run = y.run /\ x.result = y.result => x = y

\* The returns come in order, the lowest first.
LEMMA ReturnsAre ==
  ASSUME NEW records, RecordsOK(records)
  PROVE  LET n == Cardinality(Measured(records))
             r == Returns(records)
         IN  /\ n \in Nat /\ IsSequence(r) /\ Len(r) = n /\ DOMAIN r = 1 .. n
             /\ \A i \in 1 .. n : IsFraction(r[i])
             /\ \A i, j \in 1 .. n : i < j => AtMost(r[i], r[j])
<1> DEFINE S == Measured(records)
           W == {p \in S \X S : AtMost(p[1].pct, p[2].pct)}
           E == {p \in S \X S : EarlierResult(p[1], p[2])}
           R == {p \in S \X S : LowerReturn(p[1], p[2])}
           n == Cardinality(S)
           sorted == InOrder(S)
           r == Returns(records)
<1>1. IsFiniteSet(S)
  BY FS_Subset DEF RecordsOK, Measured
<1>2. \A x \in S : IsFraction(x.pct) /\ x.run \in Int /\ x.result \in Int
  BY DEF RecordsOK, Measured
<1>3. \A x, y \in S : x.run = y.run /\ x.result = y.result => x = y
  BY DEF RecordsOK, Measured
<1>4. sorted = [k \in 1 .. n |-> CHOOSE x \in S : Cardinality({y \in S : LowerReturn(y, x)}) = k - 1]
  BY DEF InOrder
<1>5. r = [k \in DOMAIN sorted |-> sorted[k].pct]
  BY DEF Returns
<1> HIDE DEF S
<1>6. \A x, y \in S : /\ <<x, y>> \in W <=> AtMost(x.pct, y.pct)
                      /\ <<x, y>> \in E <=> EarlierResult(x, y)
                      /\ <<x, y>> \in R <=> LowerReturn(x, y)
  OBVIOUS
<1> HIDE DEF W, E, R
<1>7. StrictOrder(E, S)
  <2>1. \A x \in S : ~EarlierResult(x, x)
    BY <1>2 DEF EarlierResult
  <2>2. \A x, y, z \in S : EarlierResult(x, y) /\ EarlierResult(y, z) => EarlierResult(x, z)
    BY <1>2 DEF EarlierResult
  <2>3. \A x, y \in S : x # y => EarlierResult(x, y) \/ EarlierResult(y, x)
    BY <1>2, <1>3 DEF EarlierResult
  <2> QED BY <1>6, <2>1, <2>2, <2>3 DEF StrictOrder
<1>8. WeakOrder(W, S)
  <2>1. \A x, y \in S : AtMost(x.pct, y.pct) \/ AtMost(y.pct, x.pct)
    BY <1>2, FractionsCompare
  <2>2. \A x, y, z \in S : AtMost(x.pct, y.pct) /\ AtMost(y.pct, z.pct) => AtMost(x.pct, z.pct)
    BY <1>2, AtMostIsTransitive
  <2> QED BY <1>6, <2>1, <2>2 DEF WeakOrder
<1>9. TieBroken(R, W, E, S)
  <2>1. ASSUME NEW x \in S, NEW y \in S
        PROVE  <<x, y>> \in R <=> <<x, y>> \in W /\ (<<y, x>> \notin W \/ <<x, y>> \in E)
    <3>1. /\ Less(x.pct, y.pct) <=> ~AtMost(y.pct, x.pct)
          /\ Less(x.pct, y.pct) => AtMost(x.pct, y.pct)
      BY <1>2, FractionsCompare
    <3>2. LowerReturn(x, y) <=>
            Less(x.pct, y.pct) \/ (AtMost(x.pct, y.pct) /\ EarlierResult(x, y))
      BY DEF LowerReturn
    <3> QED BY <1>6, <3>1, <3>2
  <2> QED BY <2>1 DEF TieBroken
<1>10. StrictOrder(R, S)
  BY <1>7, <1>8, <1>9, TiesBroken
<1>11. /\ n \in Nat
       /\ \A x, y \in S : <<x, y>> \in R => Cardinality(Preceding(x, R, S)) < Cardinality(Preceding(y, R, S))
       /\ \A k \in 1 .. n : \E x \in S : Cardinality(Preceding(x, R, S)) = k - 1
  BY <1>1, <1>10, PlacesAre
<1>12. \A x \in S : {y \in S : LowerReturn(y, x)} = Preceding(x, R, S)
  BY <1>6 DEF Preceding
<1> HIDE DEF sorted, n
<1>13. ASSUME NEW k \in 1 .. n
       PROVE  sorted[k] \in S /\ Cardinality(Preceding(sorted[k], R, S)) = k - 1
  <2> DEFINE Here(x) == Cardinality({y \in S : LowerReturn(y, x)}) = k - 1
  <2>1. sorted[k] = CHOOSE x \in S : Here(x)
    BY <1>4
  <2>2. \E x \in S : Here(x)
    BY <1>11, <1>12
  <2> HIDE DEF Here
  <2>3. sorted[k] \in S /\ Here(sorted[k])
    BY <2>1, <2>2
  <2> QED BY <1>12, <2>3 DEF Here
<1>14. DOMAIN sorted = 1 .. n
  BY <1>4
<1>15. r = [k \in 1 .. n |-> r[k]] /\ \A k \in 1 .. n : r[k] = sorted[k].pct
  BY <1>5, <1>14
<1> HIDE DEF r
<1>16. IsSequence(r) /\ Len(r) = n /\ DOMAIN r = 1 .. n
  BY <1>11, <1>15, Whole
<1>17. \A k \in 1 .. n : IsFraction(r[k])
  BY <1>2, <1>13, <1>15
<1>18. ASSUME NEW i \in 1 .. n, NEW j \in 1 .. n, i < j
       PROVE  AtMost(r[i], r[j])
  <2>1. PICK x \in S, y \in S : x = sorted[i] /\ y = sorted[j]
    BY <1>13
  <2>2. Cardinality(Preceding(x, R, S)) = i - 1 /\ Cardinality(Preceding(y, R, S)) = j - 1
    BY <1>13, <2>1
  <2>3. i - 1 < j - 1 /\ i - 1 \in Int /\ j - 1 \in Int
    BY <1>11, <1>18
  <2>4. <<y, x>> \notin R /\ x # y
    BY <1>11, <2>2, <2>3
  <2>5. <<x, y>> \in R
    BY <1>10, <2>4 DEF StrictOrder
  <2>6. AtMost(x.pct, y.pct)
    BY <1>6, <1>9, <2>5 DEF TieBroken
  <2> QED BY <1>15, <2>1, <2>6
<1> QED BY <1>11, <1>16, <1>17, <1>18 DEF n, r, S

\* The totals of panels made by a label add up to the records.
LEMMA TotalsAddUp ==
  ASSUME NEW records, IsFiniteSet(records), NEW label, DOMAIN label = records,
         NEW f, DOMAIN f = {label[m] : m \in records},
         \A p \in DOMAIN f : f[p].total = Cardinality(InGroup(records, label, p))
  PROVE  Totals(f) = Cardinality(records)
<1> DEFINE labels == DOMAIN f
           g == [p \in labels |-> Cardinality(InGroup(records, label, p))]
<1>1. IsFiniteSet(labels)
  <2>1. [m \in records |-> label[m]] \in Surjection(records, labels)
    BY DEF Surjection
  <2> HIDE DEF labels
  <2> QED BY <2>1, FS_Surjection
<1>2. \A p \in labels : g[p] = f[p].total /\ g[p] = Cardinality(InGroup(records, label, p))
  OBVIOUS
<1>3. \A m \in records : label[m] \in labels
  OBVIOUS
<1> HIDE DEF g
<1>4. \A p \in labels : g[p] \in Nat
  <2>1. \A p \in labels : InGroup(records, label, p) \in SUBSET records
    BY DEF InGroup
  <2>2. \A p \in labels : IsFiniteSet(InGroup(records, label, p))
    BY <2>1, FS_Subset
  <2> QED BY <1>2, <2>2, FS_CardinalityType
<1>5. PICK iter : SummedUp(iter, labels, g) /\ Totals(f) = iter[labels]
  BY <1>1, <1>2, <1>4, TotalsIs
<1> HIDE DEF labels
<1>6. iter[labels] = Cardinality(records)
  BY <1>1, <1>2, <1>3, <1>5, GroupsAddUp
<1> QED BY <1>5, <1>6

\* The buckets add up to the measurements with a return.
LEMMA BucketsAddUp ==
  ASSUME NEW records, IsFiniteSet(records)
  PROVE  SumOf(ReturnDistribution(records)) = Cardinality(Measured(records))
<1> DEFINE S == Measured(records)
           f == ReturnDistribution(records)
           label == [m \in S |-> ReturnBucketLabel(m.pct)]
<1>1. IsFiniteSet(S)
  BY FS_Subset DEF Measured
<1>2. IsFiniteSet(BucketLabels)
  <2>1. /\ IsFiniteSet({"<= -10"}) /\ IsFiniteSet({"-10 to 0"}) /\ IsFiniteSet({"0 to 10"})
        /\ IsFiniteSet({"10 to 20"}) /\ IsFiniteSet({">= 20"})
    BY FS_Singleton
  <2>2. IsFiniteSet({"<= -10"} \cup {"-10 to 0"}) /\ IsFiniteSet({"0 to 10"} \cup {"10 to 20"})
    BY <2>1, FS_Union
  <2>3. IsFiniteSet(({"<= -10"} \cup {"-10 to 0"}) \cup ({"0 to 10"} \cup {"10 to 20"}))
    BY <2>2, FS_Union
  <2>4. IsFiniteSet((({"<= -10"} \cup {"-10 to 0"}) \cup ({"0 to 10"} \cup {"10 to 20"})) \cup {">= 20"})
    BY <2>1, <2>3, FS_Union
  <2>5. BucketLabels = (({"<= -10"} \cup {"-10 to 0"}) \cup ({"0 to 10"} \cup {"10 to 20"})) \cup {">= 20"}
    BY DEF BucketLabels
  <2> QED BY <2>4, <2>5
<1>3. \A m \in S : label[m] \in BucketLabels
  <2>1. ASSUME NEW x PROVE ReturnBucketLabel(x) \in BucketLabels
    BY Zenon DEF ReturnBucketLabel, BucketLabels
  <2> QED BY <2>1
<1>4. DOMAIN f = BucketLabels /\ \A b \in BucketLabels : f[b] = Cardinality(InGroup(S, label, b))
  <2>1. ASSUME NEW b \in BucketLabels
        PROVE  {m \in S : ReturnBucketLabel(m.pct) = b} = InGroup(S, label, b)
    BY DEF InGroup
  <2>2. ReturnDistribution(records) =
          [b \in BucketLabels |-> Cardinality({m \in S : ReturnBucketLabel(m.pct) = b})]
    BY DEF ReturnDistribution
  <2> HIDE DEF S, label
  <2> QED BY <2>1, <2>2
<1> HIDE DEF f, label
<1>5. \A b \in BucketLabels : f[b] \in Nat
  <2>1. \A b \in BucketLabels : InGroup(S, label, b) \in SUBSET S
    BY DEF InGroup
  <2> HIDE DEF S
  <2>2. \A b \in BucketLabels : IsFiniteSet(InGroup(S, label, b))
    BY <1>1, <2>1, FS_Subset
  <2> QED BY <1>4, <2>2, FS_CardinalityType
<1> HIDE DEF S
<1>6. PICK iter : SummedUp(iter, BucketLabels, f) /\ SumOf(f) = iter[BucketLabels]
  BY <1>2, <1>4, <1>5, SumOfIs
<1>7. iter[BucketLabels] = Cardinality(S)
  BY <1>1, <1>2, <1>3, <1>4, <1>6, GroupsAddUp
<1> QED BY <1>6, <1>7 DEF f, S

\* The panels of a dashboard tell the same story.
LEMMA PanelsTellTheSame ==
  ASSUME NEW records, RecordsOK(records)
  PROVE  PanelsAgree(DashboardOf(records))
<1> DEFINE r == Returns(records)
           n == Cardinality(Measured(records))
           row == MetricRow(records)
           months == SignalCountOverTime(records)
           sectors == SectorConcentration(records)
<1>1. /\ n \in Nat /\ IsSequence(r) /\ Len(r) = n /\ DOMAIN r = 1 .. n
      /\ \A i \in 1 .. n : IsFraction(r[i])
      /\ \A i, j \in 1 .. n : i < j => AtMost(r[i], r[j])
  BY ReturnsAre
<1>2. IsFiniteSet(records)
  BY DEF RecordsOK
<1>3. /\ row.total = Cardinality(records) /\ row.computed = Len(r)
      /\ row.average = Average(r) /\ row.median = Median(r)
      /\ row.best = BestSignal(r) /\ row.worst = WorstSignal(r)
  BY DEF MetricRow, Summary
<1>4. /\ DashboardOf(records).row = row
      /\ DashboardOf(records).distribution = ReturnDistribution(records)
      /\ DashboardOf(records).overTime = months
      /\ DashboardOf(records).sectors = sectors
  BY DEF DashboardOf
<1>5. Totals(months) = Cardinality(records)
  <2> DEFINE label == [m \in records |-> MonthOf(m.signal)]
  <2>1. DOMAIN months = {label[m] : m \in records}
    BY DEF SignalCountOverTime
  <2>2. ASSUME NEW p \in DOMAIN months
        PROVE  months[p].total = Cardinality(InGroup(records, label, p))
    <3> DEFINE group == {m \in records : MonthOf(m.signal) = p}
    <3>1. group = InGroup(records, label, p)
      BY DEF InGroup
    <3>2. months[p] = MetricRow(group)
      BY DEF SignalCountOverTime
    <3> HIDE DEF group, months, label
    <3>3. months[p].total = Cardinality(group)
      BY <3>2 DEF MetricRow, Summary
    <3> QED BY <3>1, <3>3
  <2>3. DOMAIN label = records
    OBVIOUS
  <2> HIDE DEF label, months
  <2> QED BY <1>2, <2>1, <2>2, <2>3, TotalsAddUp
<1>6. Totals(sectors) = Cardinality(records)
  <2> DEFINE label == [m \in records |-> SectorForRecord(m)]
  <2>1. DOMAIN sectors = {label[m] : m \in records}
    BY DEF SectorConcentration
  <2>2. ASSUME NEW p \in DOMAIN sectors
        PROVE  sectors[p].total = Cardinality(InGroup(records, label, p))
    <3> DEFINE group == {m \in records : SectorForRecord(m) = p}
    <3>1. group = InGroup(records, label, p)
      BY DEF InGroup
    <3>2. sectors[p] = MetricRow(group)
      BY DEF SectorConcentration
    <3> HIDE DEF group, sectors, label
    <3>3. sectors[p].total = Cardinality(group)
      BY <3>2 DEF MetricRow, Summary
    <3> QED BY <3>1, <3>3
  <2>3. DOMAIN label = records
    OBVIOUS
  <2> HIDE DEF label, sectors
  <2> QED BY <1>2, <2>1, <2>2, <2>3, TotalsAddUp
<1>7. SumOf(ReturnDistribution(records)) = n
  BY <1>2, BucketsAddUp
<1>8. ASSUME n > 0
      PROVE  \A x \in {row.average, row.median} : AtMost(row.worst, x) /\ AtMost(x, row.best)
  <2>1. n \in Nat \ {0} /\ 1 \in 1 .. n /\ n \in 1 .. n
    BY <1>1, <1>8
  <2> HIDE DEF n, r, row
  <2>2. r # <<>>
    BY <1>1, <2>1
  <2>3. row.average = Mean(r) /\ row.best = r[n] /\ row.worst = r[1]
    <3>1. Last(r) = r[n] /\ Head(r) = r[1]
      BY <1>1, <2>1 DEF Last, IsSequence
    <3> QED BY <1>3, <2>2, <3>1 DEF Average, BestSignal, WorstSignal
  <2>4. IsFraction(r[1]) /\ IsFraction(r[n])
    BY <1>1, <2>1
  <2>5. ASSUME NEW i \in 1 .. n PROVE Within(r[i], 1, r[1], r[n])
    <3>1. IsFraction(r[i])
      BY <1>1
    <3>2. AtMost(r[1], r[i])
      <4>1. CASE i = 1
        BY <3>1, <4>1, FractionsCompare
      <4>2. CASE i # 1
        BY <1>1, <2>1, <4>2
      <4> QED BY <4>1, <4>2
    <3>3. AtMost(r[i], r[n])
      <4>1. CASE i = n
        BY <3>1, <4>1, FractionsCompare
      <4>2. CASE i # n
        BY <1>1, <2>1, <4>2
      <4> QED BY <4>1, <4>2
    <3> QED BY <2>4, <3>1, <3>2, <3>3, WithinOnce
  <2>6. Within(Mean(r), 1, r[1], r[n])
    BY <1>1, <2>1, <2>4, <2>5, MeanIsBetween
  <2>7. Within(Median(r), 1, r[1], r[n])
    BY <1>1, <2>1, <2>4, <2>5, MedianIsBetween
  <2>8. IsFraction(Mean(r)) /\ IsFraction(Median(r))
    BY <2>6, <2>7 DEF Within
  <2>9. /\ AtMost(r[1], Mean(r)) /\ AtMost(Mean(r), r[n])
        /\ AtMost(r[1], Median(r)) /\ AtMost(Median(r), r[n])
    BY <2>4, <2>6, <2>7, <2>8, WithinOnce
  <2> QED BY <1>3, <2>3, <2>9
<1> HIDE DEF n, r, row, months, sectors
<1> QED BY <1>1, <1>3, <1>4, <1>5, <1>6, <1>7, <1>8 DEF PanelsAgree

\* The measurements a dashboard is made of.
LEMMA DashboardRecords ==
  ASSUME HistoryInv, ValuesOK, NEW s, NEW h
  PROVE  RecordsOK(MetricRecordsForFilters(s, h))
<1> DEFINE records == MetricRecordsForFilters(s, h)
<1>1. records \in SUBSET measured /\ \A m \in records : m.horizon = h
  BY DEF MetricRecordsForFilters, DedupeLatestRun, MetricRecords
<1> HIDE DEF records
<1>2. IsFiniteSet(records)
  BY <1>1, FS_Subset DEF HistoryInv, MeasurementsOK
<1>3. \A m \in records : m.run \in Int /\ m.result \in Int
  BY <1>1, PlacesAreNumbers
<1>4. \A m \in records : m.status = "computed" => IsFraction(m.pct)
  BY <1>1 DEF ValuesOK, ReturnsOK
<1>5. \A x, y \in records : x.run = y.run /\ x.result = y.result => x = y
  BY <1>1 DEF HistoryInv, MeasurementsOK
<1> QED BY <1>2, <1>3, <1>4, <1>5 DEF RecordsOK, records

\* The tables, the rows and the panels have their shape.
LEMMA HistoryTyped == HistoryInv /\ ValuesOK => HistoryTypeOK
<1> SUFFICES ASSUME HistoryInv, ValuesOK PROVE HistoryTypeOK
  OBVIOUS
<1>1. TablesOK
  BY HistoryKept
<1>2. ASSUME NEW k \in DOMAIN scans, NEW row \in Range(scans[k].rows) PROVE ScanResultRow(row)
  BY DEF ValuesOK, RunRowsOK, StoredRowOK, Range
<1>3. ASSUME NEW s \in Screeners, NEW h \in Horizons
      PROVE  \A d \in {ValidationDashboard(s, h)} : PanelsAgree(d)
  <2>1. PanelsAgree(DashboardOf(MetricRecordsForFilters(s, h)))
    BY DashboardRecords, PanelsTellTheSame
  <2>2. ValidationDashboard(s, h) = DashboardOf(MetricRecordsForFilters(s, h))
    BY DEF ValidationDashboard
  <2> QED BY <2>1, <2>2, Zenon
<1> QED BY <1>1, <1>2, <1>3, Zenon DEF HistoryTypeOK

\* For any frames, candles and windows: every stored result satisfies the contract and is
\* scored between 0 and 100 or not at all, and a computed return is a fraction
\* (scanning/result_contract.py, scoring/model.py, validation/forward_returns.py).
THEOREM StoredRowsHold == HistorySpec => []ValuesOK
<1>1. HistoryInit => HistoryInv /\ ValuesOK
  BY HistoryStarts, ValuesStart
<1>2. (HistoryInv /\ ValuesOK) /\ [HistoryNext \/ UniverseHealthNext]_HistoryVars
        => (HistoryInv /\ ValuesOK)'
  BY HistoryStep, ValuesStep
<1> QED BY <1>1, <1>2, PTL DEF HistorySpec

\* RunHistory.HistoryTypeOK, for any frames, candles, horizons, months and sectors: the
\* tables have their shape, and the panels of a dashboard tell the same story (the buckets,
\* months and sectors add up, the mean and the median lie between the worst and the best
\* return; validation/metrics.py).
THEOREM HistoryTypeCorrect == HistorySpec => []HistoryTypeOK
  BY HistoryInvariant, StoredRowsHold, HistoryTyped, PTL

-----------------------------------------------------------------------------
(* All the services together.                                              *)

\* Each service, among the others, is the service its own theorems are about.
LEMMA EachServiceIsItself ==
  Spec => /\ ScoringSpec /\ AccessSpec /\ AgentSpec /\ SignalSpec
          /\ IntakeSpec /\ CitationSpec /\ HistorySpec
<1>1. Init => /\ ScoringInit /\ AccessInit /\ AgentInit /\ SignalInit
              /\ IntakeInit /\ CitationInit /\ HistoryInit
  BY DEF Init
<1>2. ASSUME [Next]_vars
      PROVE  /\ [ScoringNext]_ScoringVars /\ [AccessNext]_AccessVars /\ [AgentNext]_AgentVars
             /\ [SignalNext]_SignalVars /\ [IntakeNext]_IntakeVars /\ [CitationNext]_CitationVars
             /\ [HistoryNext \/ UniverseHealthNext]_HistoryVars
  BY <1>2, Zenon DEF Next, vars
<1> QED BY <1>1, <1>2, PTL DEF Spec, ScoringSpec, AccessSpec, AgentSpec, SignalSpec, IntakeSpec,
                              CitationSpec, HistorySpec

\* MCServices.ServicesTypeOK: the state of each service has its shape while all of them run
\* side by side.
THEOREM ServicesTypeCorrect == Spec => []ServicesTypeOK
<1>1. ScoringTypeOK /\ AccessTypeOK /\ AgentTypeOK /\ SignalTypeOK /\ IntakeTypeOK
      /\ CitationTypeOK /\ HistoryTypeOK => ServicesTypeOK
  BY DEF ServicesTypeOK
<1> QED BY <1>1, EachServiceIsItself, ScoringTypeCorrect, AccessTypeCorrect, AgentTypeCorrect,
           SignalTypeCorrect, IntakeTypeCorrect, CitationTypeCorrect, HistoryTypeCorrect, PTL
=============================================================================
