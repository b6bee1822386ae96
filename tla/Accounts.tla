------------------------------ MODULE Accounts ------------------------------
(***************************************************************************)
(* The users table: registration, confirmation, password reset, sessions   *)
(* and administration (AuthService, UserData).  reset_password and         *)
(* set_blocked read a row in one transaction and write it in another, so   *)
(* each is two actions and the rows they have read are kept in variables;  *)
(* a request may be arbitrarily late, and several may have read the same.  *)
(* A token names its account by user name, and deletion, registration and  *)
(* the edits of administrators pass a name on to another account.          *)
(***************************************************************************)
EXTENDS Naturals, Sequences, FiniteSets

CONSTANTS Users,            \* identifiers of accounts
          Names,            \* user names
          NoName,           \* the name of a row that does not exist
          Root,             \* the administrator that the first migration creates
          Protected,        \* the accounts of protected_user_accounts
          FirstName,        \* the names of the accounts that migrations create
          Managed,          \* bound: the accounts that administrators block and edit
          Forgetful,        \* bound: the accounts that forget their password
          MaxCodes,         \* bound: reset codes sent to one account
          MaxTokens,        \* bound: different access tokens
          MaxTokenVersion   \* bound: token_version of one account

Seeded == {Root} \cup Protected

ASSUME AccountsAssumption == /\ Seeded \subseteq Users
                             /\ NoName \notin Names
                             /\ FirstName \in [Seeded -> Names]
                             /\ \A u, v \in Seeded : FirstName[u] = FirstName[v] => u = v
                             /\ Managed \subseteq Users
                             /\ Forgetful \subseteq Users
                             /\ MaxCodes \in Nat /\ MaxTokens \in Nat
                             /\ MaxTokenVersion \in Nat

VARIABLES account,     \* users, by id
          issued,      \* how many reset codes an account has been sent
          resetting,   \* <<user, code>>: a request has read the row with this code
          applied,     \* the codes that have changed the password, in order
          tokens,      \* the access tokens that have been issued
          admins,      \* accounts some request of which was authorized as ADMIN
          targets,     \* the rows that requests of set_blocked have read
          edits        \* transactions that hold LOCK TABLE users

vars == <<account, issued, resetting, applied, tokens, admins, targets, edits>>

Roles == {"USER", "ADMIN"}
AccountStatus == {"PENDING", "ACTIVE", "BLOCKED"}

\* "late": the expiry is past or NULL.  Code 0: reset_code_hash is NULL.
AccountRow == [name : Names \cup {NoName},
               status : AccountStatus \cup {"absent", "deleted"}, role : Roles,
               confirmed : BOOLEAN, version : Nat, link : {"none", "sent", "late"},
               code : Nat, codeState : {"open", "late", "used"}]

NewRow(n) == [name |-> n, status |-> "PENDING", role |-> "USER", confirmed |-> FALSE,
              version |-> 0, link |-> "sent", code |-> 0, codeState |-> "late"]
NoRow(why) == [NewRow(NoName) EXCEPT !.status = why, !.link = "none"]
SeededRow(n, role) == [NewRow(n) EXCEPT !.status = "ACTIVE", !.role = role,
                                        !.confirmed = TRUE, !.link = "none"]

Exists(u) == account[u].status \in AccountStatus
Bears(u, n) == Exists(u) /\ account[u].name = n
FreeFor(u, n) == \A v \in Users \ {u} : ~Bears(v, n)
Administrators == {u \in Users : Exists(u) /\ account[u].role = "ADMIN"}

\* Mutant: update_user_as_admin without LOCK TABLE.
NoTableLock == TRUE

\* SHARE ROW EXCLUSIVE admits readers and row locks, but no other writer of users.
TableFree == edits = {}

\* authorize finds the account u by the name in the token; t.user is history.
Accepted(t, u) == /\ Bears(u, t.name)
                  /\ account[u].role = t.role
                  /\ account[u].status \notin {"PENDING", "BLOCKED"}
                  /\ account[u].version = t.version

Init == /\ account = [u \in Users |->
                        IF u = Root THEN SeededRow(FirstName[u], "ADMIN")
                        ELSE IF u \in Protected THEN SeededRow(FirstName[u], "USER")
                        ELSE NoRow("absent")]
        /\ issued = [u \in Users |-> 0]
        /\ applied = [u \in Users |-> << >>]
        /\ resetting = {} /\ tokens = {} /\ admins = {} /\ targets = {} /\ edits = {}

-----------------------------------------------------------------------------
(* Registration and confirmation *)

\* The INSERT is refused by the unique constraint on the name.
Register(u, n) ==
    /\ TableFree
    /\ account[u].status = "absent"
    /\ FreeFor(u, n)
    /\ account' = [account EXCEPT ![u] = NewRow(n)]
    /\ UNCHANGED <<issued, resetting, applied, tokens, admins, targets, edits>>

Confirmed(r) == [r EXCEPT !.confirmed = TRUE, !.link = "late",
                          !.status = IF @ = "BLOCKED" THEN "BLOCKED" ELSE "ACTIVE"]

\* The link carries the last code, under the lock of the row.
Confirm(u) ==
    /\ TableFree
    /\ Exists(u)
    /\ ~account[u].confirmed
    /\ account[u].link = "sent"
    /\ account' = [account EXCEPT ![u] = Confirmed(@)]
    /\ UNCHANGED <<issued, resetting, applied, tokens, admins, targets, edits>>

ResendConfirmation(u) ==
    /\ TableFree
    /\ Exists(u)
    /\ ~account[u].confirmed
    /\ account' = [account EXCEPT ![u].link = "sent"]
    /\ UNCHANGED <<issued, resetting, applied, tokens, admins, targets, edits>>

LinkExpires(u) ==
    /\ account[u].link = "sent"
    /\ account' = [account EXCEPT ![u].link = "late"]
    /\ UNCHANGED <<issued, resetting, applied, tokens, admins, targets, edits>>

-----------------------------------------------------------------------------
(* Password reset *)

WithCode(r, c) == [r EXCEPT !.code = c, !.codeState = "open"]

ForgotPassword(u) ==
    /\ TableFree
    /\ Exists(u)
    /\ u \in Forgetful
    /\ issued[u] < MaxCodes
    /\ issued' = [issued EXCEPT ![u] = @ + 1]
    /\ account' = [account EXCEPT ![u] = WithCode(@, issued[u] + 1)]
    /\ UNCHANGED <<resetting, applied, tokens, admins, targets, edits>>

ResetExpires(u) ==
    /\ account[u].codeState = "open"
    /\ account' = [account EXCEPT ![u].codeState = "late"]
    /\ UNCHANGED <<issued, resetting, applied, tokens, admins, targets, edits>>

ReadReset(u) ==
    /\ Exists(u)
    /\ account[u].code # 0
    /\ account[u].codeState = "open"
    /\ resetting' = resetting \cup {<<u, account[u].code>>}
    /\ UNCHANGED <<account, issued, applied, tokens, admins, targets, edits>>

\* Mutant: the UPDATE looks for the identifier only.
MatchesId(u, c) == Exists(u)

\* The WHERE clause of the UPDATE.
Matches(u, c) ==
    /\ Exists(u)
    /\ account[u].code = c
    /\ account[u].codeState = "open"

PasswordChanged(r) == [r EXCEPT !.codeState = "used", !.version = @ + 1]

\* When the UPDATE finds no row the request is refused.
Reset(u, c) ==
    /\ TableFree
    /\ <<u, c>> \in resetting
    /\ Matches(u, c)
    /\ account[u].version < MaxTokenVersion
    /\ account' = [account EXCEPT ![u] = PasswordChanged(@)]
    /\ applied' = [applied EXCEPT ![u] = Append(@, c)]
    /\ UNCHANGED <<issued, resetting, tokens, admins, targets, edits>>

-----------------------------------------------------------------------------
(* Sessions *)

Login(u) ==
    /\ account[u].status = "ACTIVE"
    /\ Cardinality(tokens) < MaxTokens
    /\ tokens' = tokens \cup {[user |-> u, name |-> account[u].name,
                               role |-> account[u].role, version |-> account[u].version]}
    /\ UNCHANGED <<account, issued, resetting, applied, admins, targets, edits>>

Authorize(t, u) ==
    /\ Accepted(t, u)
    /\ t.role = "ADMIN"
    /\ admins' = admins \cup {u}
    /\ UNCHANGED <<account, issued, resetting, applied, tokens, targets, edits>>

-----------------------------------------------------------------------------
(* Administration *)

\* Mutant: an account may be blocked twice.
BlockableAgain(u, blocked) == Exists(u) /\ (blocked \/ account[u].status = "BLOCKED")

\* The transitions that set_blocked refuses with INVALID_STATUS_TRANSITION.
Blockable(u, blocked) == Exists(u) /\ (blocked <=> account[u].status # "BLOCKED")

\* set_blocked: required_user and the checks on the row it returns.
ReadTarget(a, u, blocked) ==
    /\ a # u
    /\ account[u].role # "ADMIN"
    /\ u \in Managed
    /\ Blockable(u, blocked)
    /\ targets' = targets \cup {[user |-> u, blocked |-> blocked,
                     status |-> account[u].status, confirmed |-> account[u].confirmed]}
    /\ UNCHANGED <<account, issued, resetting, applied, tokens, admins, edits>>

\* Mutant: unblocking always activates.
StatusActivated(t) == IF t.blocked THEN "BLOCKED" ELSE "ACTIVE"

StatusFor(t) ==
    IF t.blocked THEN "BLOCKED" ELSE IF t.confirmed THEN "ACTIVE" ELSE "PENDING"

\* Mutant: blocking keeps the version of the tokens.
StatusOnly(r, t) == [r EXCEPT !.status = StatusFor(t)]

\* token_version + int(blocked)
StatusSet(r, t) == [r EXCEPT !.status = StatusFor(t),
                             !.version = IF t.blocked THEN @ + 1 ELSE @]

\* The UPDATE compares only the status with the row that was read.
SetBlocked(t) ==
    /\ TableFree
    /\ account[t.user].status = t.status
    /\ t.blocked => account[t.user].version < MaxTokenVersion
    /\ account' = [account EXCEPT ![t.user] = StatusSet(@, t)]
    /\ UNCHANGED <<issued, resetting, applied, tokens, admins, targets, edits>>

\* update_user_as_admin up to its UPDATE.
BeginEdit(u, n, role, newEmail) ==
    /\ TableFree
    /\ Exists(u)
    /\ FreeFor(u, n)
    /\ u \in Managed
    /\ account[u].role = "ADMIN" /\ role # "ADMIN" => Cardinality(Administrators) > 1
    /\ account[u].role # "ADMIN" /\ role = "ADMIN" => account[u].status = "ACTIVE"
    /\ account[u].version < MaxTokenVersion
    /\ edits' = edits \cup {[user |-> u, name |-> n, role |-> role, newEmail |-> newEmail]}
    /\ UNCHANGED <<account, issued, resetting, applied, tokens, admins, targets>>

\* Every edit ends the sessions; a new e-mail address also discards the codes.
Edited(r, e) ==
    IF e.newEmail
    THEN [r EXCEPT !.name = e.name, !.role = e.role, !.version = @ + 1,
                   !.link = "none", !.code = 0, !.codeState = "late"]
    ELSE [r EXCEPT !.name = e.name, !.role = e.role, !.version = @ + 1]

CommitEdit(e) ==
    /\ edits' = edits \ {e}
    /\ account' = [account EXCEPT ![e.user] = Edited(@, e)]
    /\ UNCHANGED <<issued, resetting, applied, tokens, admins, targets>>

\* Orders of the account may refuse this as well.
DeleteUser(a, u) ==
    /\ TableFree
    /\ a # u
    /\ Exists(u)
    /\ account[u].role # "ADMIN"
    /\ u \notin Protected
    /\ account' = [account EXCEPT ![u] = NoRow("deleted")]
    /\ UNCHANGED <<issued, resetting, applied, tokens, admins, targets, edits>>

-----------------------------------------------------------------------------
AccountNext(u) == \/ \E n \in Names : Register(u, n)
                  \/ Confirm(u) \/ ResendConfirmation(u) \/ LinkExpires(u)
                  \/ ForgotPassword(u) \/ ResetExpires(u) \/ ReadReset(u) \/ Login(u)
                  \/ \E c \in 1 .. MaxCodes : Reset(u, c)

AdminNext == \/ \E a \in admins, u \in Users :
                    \/ \E blocked \in BOOLEAN : ReadTarget(a, u, blocked)
                    \/ \E n \in Names, role \in Roles, newEmail \in BOOLEAN :
                          BeginEdit(u, n, role, newEmail)
                    \/ DeleteUser(a, u)
             \/ \E t \in targets : SetBlocked(t)
             \/ \E e \in edits : CommitEdit(e)
             \/ \E t \in tokens, u \in Users : Authorize(t, u)

Next == AdminNext \/ \E u \in Users : AccountNext(u)

Spec == Init /\ [][Next]_vars

-----------------------------------------------------------------------------
(* Properties *)

RequestsTypeOK ==
    /\ resetting \subseteq Users \X Nat
    /\ tokens \subseteq [user : Users, name : Names, role : Roles, version : Nat]
    /\ admins \subseteq Users
    /\ targets \subseteq [user : Users, blocked : BOOLEAN, status : AccountStatus,
                          confirmed : BOOLEAN]
    /\ edits \subseteq [user : Users, name : Names, role : Roles, newEmail : BOOLEAN]
    /\ \A t \in targets : t.blocked <=> t.status # "BLOCKED"
    /\ \A e, f \in edits : e = f

RowsTypeOK ==
    /\ account \in [Users -> AccountRow]
    /\ issued \in [Users -> Nat]
    /\ applied \in [Users -> Seq(Nat)]
    /\ RequestsTypeOK

NamesOK ==
    /\ \A u \in Users : Exists(u) <=> account[u].name # NoName
    /\ \A u \in Users : Exists(u) => FreeFor(u, account[u].name)
    /\ \A e \in edits : FreeFor(e.user, e.name)

\* Rows, codes, tokens and requests have their types, requests of set_blocked
\* were checked when they read the row, one edit at a time is under way, and no
\* two accounts bear one name, with the edit or without it, so that authorize
\* finds at most one.
AccountsTypeOK == RowsTypeOK /\ NamesOK

\* Whatever administrators do to each other at the same time, one remains:
\* the count of update_user_as_admin is still right when its UPDATE runs.
AdminRemains == Administrators # {}

\* Only accounts that have confirmed their address are active or administrators,
\* although an unblocking writes a status it derived from an older row.
OnlyConfirmedAct ==
    \A u \in Users : Exists(u) /\ (account[u].status = "ACTIVE" \/ account[u].role = "ADMIN")
                     => account[u].confirmed

\* A reset code changes the password at most once, and never after a code that
\* was sent later has done so, whatever the requests that share it have read.
ResetsInOrder ==
    \A u \in Users : \A i, j \in DOMAIN applied[u] : i < j => applied[u][i] < applied[u][j]

\* A token that once no longer opens the account it was issued to never opens it
\* again: no unblocking, change of role or reset, and no name taken away and given
\* back, returns a session that block, reset, edit or deletion has ended.  (It may
\* open another account that has received the name and counts the same version.)
SessionsNeverReturn ==
    [][\A t \in tokens : ~Accepted(t, t.user) => ~Accepted(t, t.user)']_vars

\* Blocking leaves a status that fits the account: an administrator is not
\* blocked ("Administrator accounts cannot be managed by this operation"), and a
\* confirmed account does not wait for confirmation again (unblocking "restores
\* the confirmation state of a blocked account").
StatusFits ==
    \A u \in Users : /\ account[u].role = "ADMIN" => account[u].status # "BLOCKED"
                     /\ account[u].confirmed => account[u].status # "PENDING"

=============================================================================
