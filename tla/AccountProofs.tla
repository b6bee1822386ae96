---------------------------- MODULE AccountProofs ----------------------------
EXTENDS Accounts, FiniteSetTheorems, TLAPS

USE AccountsAssumption

LEMMA RowTypes ==
  /\ \A n \in Names : NewRow(n) \in AccountRow
  /\ NoRow("absent") \in AccountRow
  /\ NoRow("deleted") \in AccountRow
  /\ \A n \in Names, role \in Roles : SeededRow(n, role) \in AccountRow
<1>1. \A n \in Names \cup {NoName} : NewRow(n) \in AccountRow
  BY DEF NewRow, AccountRow, AccountStatus, Roles
<1>2. \A r \in AccountRow, s \in AccountStatus \cup {"absent", "deleted"}, role \in Roles :
         /\ [r EXCEPT !.status = s, !.link = "none"] \in AccountRow
         /\ [r EXCEPT !.status = s, !.role = role, !.confirmed = TRUE, !.link = "none"]
               \in AccountRow
  BY DEF AccountRow
<1>3. NoRow("absent") \in AccountRow /\ NoRow("deleted") \in AccountRow
  BY <1>1, <1>2, "USER" \in Roles DEF NoRow, Roles
<1>4. \A n \in Names, role \in Roles : SeededRow(n, role) \in AccountRow
  BY <1>1, <1>2 DEF SeededRow, AccountStatus
<1> QED BY <1>1, <1>3, <1>4

LEMMA UpdatedRowTypes ==
  ASSUME NEW r \in AccountRow
  PROVE  /\ Confirmed(r) \in AccountRow
         /\ \A c \in Nat : WithCode(r, c) \in AccountRow
         /\ \A l \in {"none", "sent", "late"} : [r EXCEPT !.link = l] \in AccountRow
         /\ [r EXCEPT !.codeState = "late"] \in AccountRow
         /\ PasswordChanged(r) \in AccountRow
         /\ \A t : StatusSet(r, t) \in AccountRow
         /\ \A e : e.role \in Roles /\ e.name \in Names => Edited(r, e) \in AccountRow
<1>1. Confirmed(r) \in AccountRow
  BY DEF Confirmed, AccountRow, AccountStatus
<1>2. \A c \in Nat : WithCode(r, c) \in AccountRow
  BY DEF WithCode, AccountRow
<1>6. \A l \in {"none", "sent", "late"} : [r EXCEPT !.link = l] \in AccountRow
  BY DEF AccountRow
<1>7. [r EXCEPT !.codeState = "late"] \in AccountRow
  BY DEF AccountRow
<1>0. r.version \in Nat /\ r.version + 1 \in Nat
  BY DEF AccountRow
<1>3. PasswordChanged(r) \in AccountRow
  <2>1. \A n \in Nat : [r EXCEPT !.codeState = "used", !.version = n] \in AccountRow
    BY DEF AccountRow
  <2> QED BY <1>0, <2>1 DEF PasswordChanged
<1>4. ASSUME NEW t PROVE StatusSet(r, t) \in AccountRow
  <2>1. StatusFor(t) \in AccountStatus
    BY DEF StatusFor, AccountStatus
  <2>2. \A n \in Nat, s \in AccountStatus :
          [r EXCEPT !.status = s, !.version = n] \in AccountRow
    BY DEF AccountRow
  <2>3. (IF t.blocked THEN r.version + 1 ELSE r.version) \in Nat
    BY <1>0
  <2> QED BY <2>1, <2>2, <2>3 DEF StatusSet
<1>5. ASSUME NEW e, e.role \in Roles, e.name \in Names PROVE Edited(r, e) \in AccountRow
  <2>1. \A n \in Nat : [r EXCEPT !.name = e.name, !.role = e.role, !.version = n]
                          \in AccountRow
    BY <1>5 DEF AccountRow
  <2>2. \A n \in Nat : [r EXCEPT !.name = e.name, !.role = e.role, !.version = n,
                              !.link = "none", !.code = 0, !.codeState = "late"] \in AccountRow
    BY <1>5 DEF AccountRow
  <2> QED BY <1>0, <2>1, <2>2 DEF Edited
<1> QED BY <1>1, <1>2, <1>3, <1>4, <1>5, <1>6, <1>7

LEMMA InitAccounts == Init => RowsTypeOK
<1> SUFFICES ASSUME Init PROVE RowsTypeOK
  OBVIOUS
<1>1. account \in [Users -> AccountRow]
  BY RowTypes DEF Init, Roles, Seeded
<1>2. issued \in [Users -> Nat] /\ applied \in [Users -> Seq(Nat)]
  BY DEF Init
<1> QED BY <1>1, <1>2 DEF Init, RowsTypeOK, RequestsTypeOK

LEMMA AccountType ==
  ASSUME RowsTypeOK, NamesOK, NEW u \in Users, AccountNext(u) PROVE RowsTypeOK'
<1> USE DEF RowsTypeOK
<1>1. ASSUME NEW n \in Names, Register(u, n) PROVE RowsTypeOK'
  BY <1>1, RowTypes DEF Register, RequestsTypeOK
<1>2. CASE Confirm(u)
  BY <1>2, UpdatedRowTypes DEF Confirm, RequestsTypeOK
<1>3. CASE ResendConfirmation(u)
  <2>1. account' \in [Users -> AccountRow]
    BY <1>3, UpdatedRowTypes DEF ResendConfirmation
  <2> QED BY <1>3, <2>1 DEF ResendConfirmation, RequestsTypeOK
<1>4. CASE LinkExpires(u)
  <2>1. account' \in [Users -> AccountRow]
    BY <1>4, UpdatedRowTypes DEF LinkExpires
  <2> QED BY <1>4, <2>1 DEF LinkExpires, RequestsTypeOK
<1>5. CASE ForgotPassword(u)
  <2>1. account[u] \in AccountRow /\ issued[u] + 1 \in Nat
    OBVIOUS
  <2>2. WithCode(account[u], issued[u] + 1) \in AccountRow
    BY <2>1, UpdatedRowTypes
  <2>3. issued' \in [Users -> Nat]
    BY <1>5, <2>1 DEF ForgotPassword
  <2> QED BY <1>5, <2>2, <2>3 DEF ForgotPassword, RequestsTypeOK
<1>6. CASE ResetExpires(u)
  <2>1. account' \in [Users -> AccountRow]
    BY <1>6, UpdatedRowTypes DEF ResetExpires
  <2> QED BY <1>6, <2>1 DEF ResetExpires, RequestsTypeOK
<1>7. CASE ReadReset(u)
  <2>1. account[u].code \in Nat
    BY DEF AccountRow
  <2> QED BY <1>7, <2>1 DEF ReadReset, RequestsTypeOK
<1>8. CASE Login(u)
  <2>1. /\ account[u].role \in Roles /\ account[u].version \in Nat
        /\ account[u].name \in Names
    BY <1>8 DEF AccountRow, NamesOK, Login, Exists, AccountStatus
  <2> QED BY <1>8, <2>1 DEF Login, RequestsTypeOK
<1>9. ASSUME NEW c \in 1 .. MaxCodes, Reset(u, c) PROVE RowsTypeOK'
  <2>0. account[u] \in AccountRow /\ c \in Nat
    OBVIOUS
  <2>1. PasswordChanged(account[u]) \in AccountRow
    BY <2>0, UpdatedRowTypes
  <2>2. account' \in [Users -> AccountRow]
    BY <1>9, <2>1 DEF Reset
  <2>3. applied' \in [Users -> Seq(Nat)]
    BY <1>9, <2>0 DEF Reset
  <2> QED BY <1>9, <2>2, <2>3 DEF Reset, RequestsTypeOK
<1> QED BY <1>1, <1>2, <1>3, <1>4, <1>5, <1>6, <1>7, <1>8, <1>9 DEF AccountNext

LEMMA AdminType == ASSUME RowsTypeOK, AdminNext PROVE RowsTypeOK'
<1> USE DEF RowsTypeOK
<1>1. ASSUME NEW a \in admins, NEW u \in Users, NEW blocked \in BOOLEAN,
             ReadTarget(a, u, blocked)
      PROVE  RowsTypeOK'
  <2>1. account[u].confirmed \in BOOLEAN /\ account[u].status \in AccountStatus
    BY <1>1 DEF AccountRow, ReadTarget, Blockable, Exists
  <2>2. blocked <=> account[u].status # "BLOCKED"
    BY <1>1 DEF ReadTarget, Blockable
  <2> QED BY <1>1, <2>1, <2>2 DEF ReadTarget, RequestsTypeOK
<1>2. ASSUME NEW u \in Users, NEW n \in Names, NEW role \in Roles, NEW newEmail \in BOOLEAN,
             BeginEdit(u, n, role, newEmail)
      PROVE  RowsTypeOK'
  BY <1>2 DEF BeginEdit, TableFree, RequestsTypeOK
<1>3. ASSUME NEW a \in admins, NEW u \in Users, DeleteUser(a, u) PROVE RowsTypeOK'
  BY <1>3, RowTypes DEF DeleteUser, RequestsTypeOK
<1>4. ASSUME NEW t \in targets, SetBlocked(t) PROVE RowsTypeOK'
  <2>1. t.user \in Users
    BY DEF RequestsTypeOK
  <2> QED BY <1>4, <2>1, UpdatedRowTypes DEF SetBlocked, RequestsTypeOK
<1>5. ASSUME NEW e \in edits, CommitEdit(e) PROVE RowsTypeOK'
  <2>1. e.user \in Users /\ e.role \in Roles /\ e.name \in Names
    BY DEF RequestsTypeOK
  <2> QED BY <1>5, <2>1, UpdatedRowTypes DEF CommitEdit, RequestsTypeOK
<1>6. ASSUME NEW t \in tokens, NEW u \in Users, Authorize(t, u) PROVE RowsTypeOK'
  BY <1>6 DEF Authorize, RequestsTypeOK
<1> QED BY <1>1, <1>2, <1>3, <1>4, <1>5, <1>6 DEF AdminNext

-----------------------------------------------------------------------------
(* What a request knows of a row it has read remains true of the row in the  *)
(* following sense.                                                          *)

\* A confirmed account stays so; an account that is read is never absent again.
TargetsOK == \A t \in targets :
    /\ account[t.user].status # "absent"
    /\ t.confirmed /\ Exists(t.user) => account[t.user].confirmed

\* A token that is not older than its account describes it.
TokensOK == \A t \in tokens :
    /\ account[t.user].status # "absent"
    /\ Exists(t.user) => /\ t.version <= account[t.user].version
                         /\ t.version = account[t.user].version =>
                               /\ account[t.user].status = "ACTIVE"
                               /\ account[t.user].name = t.name
                               /\ account[t.user].role = t.role

\* The checks of the edit under way still hold.
EditsOK == \A e \in edits :
    /\ Exists(e.user)
    /\ account[e.user].role = "ADMIN" /\ e.role # "ADMIN" =>
          \E v \in Administrators : v # e.user
    /\ account[e.user].role # "ADMIN" /\ e.role = "ADMIN" =>
          account[e.user].status = "ACTIVE"

\* Codes were issued, and an open code is newer than those that were applied.
CodesOK == \A u \in Users :
    /\ account[u].code <= issued[u]
    /\ \A i \in DOMAIN applied[u] :
          /\ applied[u][i] <= issued[u]
          /\ account[u].codeState = "open" => applied[u][i] < account[u].code

IInv == /\ RowsTypeOK /\ NamesOK /\ OnlyConfirmedAct /\ AdminRemains /\ ResetsInOrder
        /\ TargetsOK /\ TokensOK /\ EditsOK /\ CodesOK

-----------------------------------------------------------------------------
(* What every action does to the row it changes.                             *)

LiveStep(r, s) ==
    /\ (s.status \in AccountStatus) <=> (r.status \in AccountStatus)
    /\ (s.status = "absent") <=> (r.status = "absent")
    /\ r.confirmed => s.confirmed
    /\ s.status = "ACTIVE" \/ s.role = "ADMIN" =>
          s.confirmed \/ r.status = "ACTIVE" \/ r.role = "ADMIN"
    /\ r.version <= s.version
    /\ s.version = r.version => /\ s.name = r.name /\ s.role = r.role
                                /\ r.status = "ACTIVE" => s.status = "ACTIVE"

NoNewRowStep(r, s) ==
    \/ r.status \in AccountStatus /\ r.role # "ADMIN" /\ s = NoRow("deleted")
    \/ LiveStep(r, s) /\ s.name = r.name /\ (r.role = "ADMIN" => s.role = "ADMIN")

RowStep(r, s) == \/ r.status = "absent" /\ \E n \in Names : s = NewRow(n)
                 \/ NoNewRowStep(r, s)

LEMMA UpdatedRowSteps ==
  ASSUME NEW r \in AccountRow
  PROVE  /\ NoNewRowStep(r, r)
         /\ r.status \in AccountStatus => NoNewRowStep(r, Confirmed(r))
         /\ \A l : NoNewRowStep(r, [r EXCEPT !.link = l])
         /\ \A c : NoNewRowStep(r, WithCode(r, c))
         /\ \A c : NoNewRowStep(r, [r EXCEPT !.codeState = c])
         /\ NoNewRowStep(r, PasswordChanged(r))
<1> USE DEF NoNewRowStep, LiveStep, AccountRow
<1>1. NoNewRowStep(r, r)
  OBVIOUS
<1>2. r.status \in AccountStatus => NoNewRowStep(r, Confirmed(r))
  BY DEF Confirmed, AccountStatus
<1>3. \A l : NoNewRowStep(r, [r EXCEPT !.link = l])
  OBVIOUS
<1>4. \A c : NoNewRowStep(r, WithCode(r, c))
  BY DEF WithCode
<1>5. \A c : NoNewRowStep(r, [r EXCEPT !.codeState = c])
  OBVIOUS
<1>6. NoNewRowStep(r, PasswordChanged(r))
  BY DEF PasswordChanged
<1> QED BY <1>1, <1>2, <1>3, <1>4, <1>5, <1>6

LEMMA StatusSetStep ==
  ASSUME NEW r \in AccountRow, NEW t, t.blocked \in BOOLEAN, t.status \in AccountStatus,
         t.blocked <=> t.status # "BLOCKED", r.status = t.status, t.confirmed => r.confirmed
  PROVE  NoNewRowStep(r, StatusSet(r, t))
<1>1. CASE t.blocked
  BY <1>1 DEF StatusSet, StatusFor, NoNewRowStep, LiveStep, AccountRow, AccountStatus
<1>2. CASE ~t.blocked
  BY <1>2 DEF StatusSet, StatusFor, NoNewRowStep, LiveStep, AccountRow, AccountStatus
<1> QED BY <1>1, <1>2

LEMMA EditedStep ==
  ASSUME NEW r \in AccountRow, NEW e, e.role \in Roles, e.newEmail \in BOOLEAN,
         r.role # "ADMIN" /\ e.role = "ADMIN" => r.status = "ACTIVE"
  PROVE  LiveStep(r, Edited(r, e))
<1>1. CASE e.newEmail
  BY <1>1 DEF Edited, LiveStep, AccountRow, Roles
<1>2. CASE ~e.newEmail
  BY <1>2 DEF Edited, LiveStep, AccountRow, Roles
<1> QED BY <1>1, <1>2

\* Every action but Register and the commit of an edit makes a NoNewRowStep of one
\* account.
LEMMA ActionsAreNoNewRowSteps ==
  ASSUME RowsTypeOK, TargetsOK, Next, ~(\E e \in edits : CommitEdit(e)),
         ~(\E u \in Users, n \in Names : Register(u, n))
  PROVE  \A u \in Users : NoNewRowStep(account[u], account'[u])
<1>1. \A u \in Users : account[u] \in AccountRow /\ NoNewRowStep(account[u], account[u])
  BY UpdatedRowSteps DEF RowsTypeOK
<1> USE DEF RowsTypeOK
<1>2. ASSUME NEW u \in Users, AccountNext(u)
      PROVE  \A v \in Users : NoNewRowStep(account[v], account'[v])
  <2>2. CASE Confirm(u)
    BY <1>1, <2>2, UpdatedRowSteps DEF Confirm, Exists
  <2>3. CASE ResendConfirmation(u)
    BY <1>1, <2>3, UpdatedRowSteps DEF ResendConfirmation
  <2>4. CASE LinkExpires(u)
    BY <1>1, <2>4, UpdatedRowSteps DEF LinkExpires
  <2>5. CASE ForgotPassword(u)
    BY <1>1, <2>5, UpdatedRowSteps DEF ForgotPassword
  <2>6. CASE ResetExpires(u)
    BY <1>1, <2>6, UpdatedRowSteps DEF ResetExpires
  <2>7. CASE ReadReset(u) \/ Login(u)
    BY <1>1, <2>7 DEF ReadReset, Login
  <2>8. ASSUME NEW c \in 1 .. MaxCodes, Reset(u, c)
        PROVE  \A v \in Users : NoNewRowStep(account[v], account'[v])
    BY <1>1, <2>8, UpdatedRowSteps DEF Reset
  <2> QED BY <1>2, <2>2, <2>3, <2>4, <2>5, <2>6, <2>7, <2>8 DEF AccountNext
<1>3. ASSUME AdminNext PROVE \A v \in Users : NoNewRowStep(account[v], account'[v])
  <2>1. ASSUME NEW a \in admins, NEW u \in Users, DeleteUser(a, u)
        PROVE  \A v \in Users : NoNewRowStep(account[v], account'[v])
    BY <1>1, <2>1 DEF DeleteUser, NoNewRowStep, Exists
  <2>2. ASSUME NEW t \in targets, SetBlocked(t)
        PROVE  \A v \in Users : NoNewRowStep(account[v], account'[v])
    <3>1. /\ t.user \in Users /\ t.blocked \in BOOLEAN /\ t.status \in AccountStatus
          /\ t.blocked <=> t.status # "BLOCKED"
      BY DEF RequestsTypeOK
    <3>2. account[t.user].status = t.status /\ t.confirmed => account[t.user].confirmed
      BY <3>1, <2>2 DEF TargetsOK, SetBlocked, Exists
    <3>3. NoNewRowStep(account[t.user], StatusSet(account[t.user], t))
      BY <1>1, <2>2, <3>1, <3>2, StatusSetStep DEF SetBlocked
    <3> QED BY <1>1, <2>2, <3>1, <3>3 DEF SetBlocked
  <2>3. CASE UNCHANGED account
    BY <1>1, <2>3
  <2> QED BY <1>3, <2>1, <2>2, <2>3 DEF AdminNext, ReadTarget, BeginEdit, Authorize
<1> QED BY <1>2, <1>3 DEF Next

LEMMA ActionsAreRowSteps ==
  ASSUME RowsTypeOK, TargetsOK, Next, ~(\E e \in edits : CommitEdit(e))
  PROVE  \A u \in Users : RowStep(account[u], account'[u])
<1>1. ASSUME NEW u \in Users, NEW n \in Names, Register(u, n)
      PROVE  \A v \in Users : RowStep(account[v], account'[v])
  BY <1>1, UpdatedRowSteps DEF Register, RowStep, RowsTypeOK
<1>2. CASE ~(\E u \in Users, n \in Names : Register(u, n))
  BY <1>2, ActionsAreNoNewRowSteps DEF RowStep
<1> QED BY <1>1, <1>2

LEMMA CommitIsLiveStep ==
  ASSUME RowsTypeOK, EditsOK, NEW e \in edits, CommitEdit(e)
  PROVE  \A u \in Users : LiveStep(account[u], account'[u])
<1>1. /\ e.user \in Users /\ e.role \in Roles /\ e.newEmail \in BOOLEAN
      /\ account \in [Users -> AccountRow]
  BY DEF RowsTypeOK, RequestsTypeOK
<1>2. LiveStep(account[e.user], Edited(account[e.user], e))
  BY <1>1, EditedStep DEF EditsOK
<1>3. \A u \in Users : LiveStep(account[u], account[u])
  BY <1>1 DEF LiveStep, AccountRow
<1> QED BY <1>1, <1>2, <1>3 DEF CommitEdit

\* Hence every action makes a LiveStep of each account, or creates or deletes it.
LEMMA EveryStep ==
  ASSUME RowsTypeOK, TargetsOK, EditsOK, Next
  PROVE  \A u \in Users : \/ account[u].status = "absent" /\ \E n \in Names : account'[u] = NewRow(n)
                          \/ account[u].status \in AccountStatus /\ account'[u] = NoRow("deleted")
                          \/ LiveStep(account[u], account'[u])
<1>1. CASE \E e \in edits : CommitEdit(e)
  BY <1>1, CommitIsLiveStep
<1>2. CASE ~(\E e \in edits : CommitEdit(e))
  BY <1>2, ActionsAreRowSteps DEF RowStep, NoNewRowStep
<1> QED BY <1>1, <1>2

LEMMA ConfirmedStep ==
  ASSUME RowsTypeOK, TargetsOK, EditsOK, OnlyConfirmedAct, Next
  PROVE  OnlyConfirmedAct'
<1> SUFFICES ASSUME NEW u \in Users, Exists(u)',
                    (account[u].status = "ACTIVE" \/ account[u].role = "ADMIN")'
             PROVE  account'[u].confirmed
  BY DEF OnlyConfirmedAct
<1>1. CASE \E n \in Names : account'[u] = NewRow(n)
  BY <1>1 DEF NewRow
<1>2. CASE account'[u] = NoRow("deleted")
  BY <1>2 DEF NoRow, NewRow, Exists, AccountStatus
<1>3. CASE LiveStep(account[u], account'[u])
  BY <1>3 DEF LiveStep, OnlyConfirmedAct, Exists
<1> QED BY <1>1, <1>2, <1>3, EveryStep

LEMMA TargetsStep ==
  ASSUME RowsTypeOK, TargetsOK, EditsOK, Next
  PROVE  TargetsOK'
<1>1. ASSUME NEW t \in targets
      PROVE  /\ account'[t.user].status # "absent"
             /\ t.confirmed /\ Exists(t.user)' => account'[t.user].confirmed
  <2>1. t.user \in Users
    BY DEF RowsTypeOK, RequestsTypeOK
  <2>2. CASE account'[t.user] = NoRow("deleted")
    BY <2>2 DEF NoRow, NewRow, Exists, AccountStatus
  <2>3. CASE LiveStep(account[t.user], account'[t.user])
    BY <2>3 DEF LiveStep, TargetsOK, Exists
  <2> QED BY <2>1, <2>2, <2>3, EveryStep DEF TargetsOK
<1>2. CASE targets' = targets
  BY <1>1, <1>2 DEF TargetsOK
<1>3. ASSUME NEW a \in admins, NEW u \in Users, NEW blocked \in BOOLEAN,
             ReadTarget(a, u, blocked)
      PROVE  TargetsOK'
  BY <1>1, <1>3 DEF ReadTarget, Blockable, TargetsOK, Exists, AccountStatus
<1> QED BY <1>2, <1>3 DEF Next, AccountNext, AdminNext, Register, Confirm, ResendConfirmation,
     LinkExpires, ForgotPassword, ResetExpires, ReadReset, Login, Reset, BeginEdit,
     DeleteUser, SetBlocked, CommitEdit, Authorize

LEMMA TokensStep ==
  ASSUME RowsTypeOK, NamesOK, TargetsOK, EditsOK, TokensOK, Next
  PROVE  TokensOK'
<1>1. ASSUME NEW t \in tokens
      PROVE  /\ account'[t.user].status # "absent"
             /\ Exists(t.user)' => /\ t.version <= account'[t.user].version
                                   /\ t.version = account'[t.user].version =>
                                         /\ account'[t.user].status = "ACTIVE"
                                         /\ account'[t.user].name = t.name
                                         /\ account'[t.user].role = t.role
  <2>1. /\ t.user \in Users /\ t.version \in Nat
        /\ account[t.user].version \in Nat
    BY DEF RowsTypeOK, RequestsTypeOK, AccountRow
  <2>2. CASE account'[t.user] = NoRow("deleted")
    BY <2>2 DEF NoRow, NewRow, Exists, AccountStatus
  <2>3. CASE LiveStep(account[t.user], account'[t.user])
    <3>1. account'[t.user].version \in Nat
      BY <2>1, AccountType, AdminType DEF Next, RowsTypeOK, AccountRow
    <3> QED BY <2>1, <2>3, <3>1 DEF LiveStep, TokensOK, Exists
  <2> QED BY <2>1, <2>2, <2>3, EveryStep DEF TokensOK
<1>2. CASE tokens' = tokens
  BY <1>1, <1>2 DEF TokensOK
<1>3. ASSUME NEW u \in Users, Login(u) PROVE TokensOK'
  <2>1. account[u].version \in Nat
    BY DEF RowsTypeOK, AccountRow
  <2> QED BY <1>1, <1>3, <2>1 DEF Login, TokensOK
<1> QED BY <1>2, <1>3 DEF Next, AccountNext, AdminNext, Register, Confirm, ResendConfirmation,
     LinkExpires, ForgotPassword, ResetExpires, ReadReset, Reset, ReadTarget, BeginEdit,
     DeleteUser, SetBlocked, CommitEdit, Authorize

\* The COUNT of update_user_as_admin: more than one administrator means another one.
LEMMA AnotherAdministrator ==
  ASSUME NEW u, Cardinality(Administrators) > 1
  PROVE  \E v \in Administrators : v # u
<1> SUFFICES ASSUME \A v \in Administrators : v = u PROVE FALSE
  OBVIOUS
<1>1. Administrators = {} \/ Administrators = {u}
  OBVIOUS
<1>2. Cardinality({}) = 0 /\ Cardinality({u}) = 1
  BY FS_EmptySet, FS_Singleton
<1>3. Cardinality(Administrators) = 0 \/ Cardinality(Administrators) = 1
  BY <1>1, <1>2
<1> QED BY <1>3

LEMMA EditsStep ==
  ASSUME RowsTypeOK, EditsOK, Next PROVE EditsOK'
<1>1. CASE edits' = {}
  BY <1>1 DEF EditsOK
<1>2. ASSUME edits' = edits,
             \A u \in Users : /\ account'[u].status = account[u].status
                              /\ account'[u].role = account[u].role
      PROVE  EditsOK'
  <2>1. Administrators' = Administrators
    BY <1>2 DEF Administrators, Exists
  <2>2. \A e \in edits : e.user \in Users
    BY DEF RowsTypeOK, RequestsTypeOK
  <2> QED BY <1>2, <2>1, <2>2 DEF EditsOK, Exists
<1>3. ASSUME NEW u \in Users, NEW n \in Names, NEW role \in Roles, NEW newEmail \in BOOLEAN,
             BeginEdit(u, n, role, newEmail)
      PROVE  EditsOK'
  <2>1. /\ edits' = {[user |-> u, name |-> n, role |-> role, newEmail |-> newEmail]}
        /\ account' = account
    BY <1>3 DEF BeginEdit, TableFree
  <2>2. Administrators' = Administrators
    BY <2>1 DEF Administrators, Exists
  <2>3. account[u].role = "ADMIN" /\ role # "ADMIN" => \E v \in Administrators : v # u
    BY <1>3, AnotherAdministrator DEF BeginEdit
  <2> QED BY <1>3, <2>1, <2>2, <2>3 DEF BeginEdit, EditsOK, Exists
<1>4. ASSUME NEW u \in Users, LinkExpires(u) \/ ResetExpires(u) PROVE EditsOK'
  <2>1. account \in [Users -> AccountRow]
    BY DEF RowsTypeOK
  <2>2. \A v \in Users : /\ account'[v].status = account[v].status
                         /\ account'[v].role = account[v].role
    BY <1>4, <2>1 DEF LinkExpires, ResetExpires, AccountRow
  <2> QED BY <1>2, <1>4, <2>2 DEF LinkExpires, ResetExpires
<1>5. CASE UNCHANGED <<account, edits>>
  BY <1>2, <1>5
<1>6. ASSUME NEW e \in edits, CommitEdit(e) PROVE EditsOK'
  <2>1. edits' = {}
    BY <1>6 DEF CommitEdit, RowsTypeOK, RequestsTypeOK
  <2> QED BY <1>1, <2>1
<1>7. CASE TableFree /\ UNCHANGED edits
  BY <1>1, <1>7 DEF TableFree
<1> QED BY <1>3, <1>4, <1>5, <1>6, <1>7 DEF Next, AccountNext, AdminNext, Register, Confirm,
     ResendConfirmation, ForgotPassword, ReadReset, Login, Reset, ReadTarget, DeleteUser,
     SetBlocked, Authorize

\* Only Register and the commit of an edit give a name to an account.
LEMMA NamesKept ==
  ASSUME RowsTypeOK, TargetsOK, NamesOK, Next, edits' \subseteq edits,
         ~(\E e \in edits : CommitEdit(e)),
         ~(\E u \in Users, n \in Names : Register(u, n))
  PROVE  NamesOK'
<1>1. ASSUME NEW u \in Users
      PROVE  /\ Exists(u)' => Exists(u) /\ account'[u].name = account[u].name
             /\ ~Exists(u)' => account'[u].name = NoName
             /\ Exists(u)' => account'[u].name # NoName
  <2>1. CASE account'[u] = NoRow("deleted")
    BY <2>1 DEF NoRow, NewRow, Exists, AccountStatus
  <2>2. CASE LiveStep(account[u], account'[u]) /\ account'[u].name = account[u].name
    BY <2>2 DEF LiveStep, Exists, NamesOK
  <2> QED BY <2>1, <2>2, ActionsAreNoNewRowSteps DEF NoNewRowStep
<1>2. \A u \in Users : Exists(u)' <=> account'[u].name # NoName
  BY <1>1
<1>3. ASSUME NEW u, NEW n, FreeFor(u, n) PROVE FreeFor(u, n)'
  BY <1>1, <1>3 DEF FreeFor, Bears
<1> QED BY <1>1, <1>2, <1>3 DEF NamesOK

LEMMA RegisterNames ==
  ASSUME RowsTypeOK, NamesOK, NEW u \in Users, NEW n \in Names, Register(u, n)
  PROVE  NamesOK'
<1>1. /\ account'[u].name = n /\ Exists(u)' /\ n # NoName /\ ~Exists(u)
      /\ \A v \in Users \ {u} : account'[v] = account[v]
      /\ edits' = {} /\ FreeFor(u, n)
  BY DEF Register, TableFree, RowsTypeOK, NewRow, Exists, AccountStatus
<1>2. \A v \in Users \ {u} : Exists(v)' <=> Exists(v)
  BY <1>1 DEF Exists
<1>3. \A v \in Users : Exists(v)' <=> account'[v].name # NoName
  BY <1>1, <1>2 DEF NamesOK
<1>4. ASSUME NEW v \in Users, Exists(v)' PROVE FreeFor(v, account[v].name)'
  <2>1. CASE v = u
    BY <1>1, <1>2, <2>1 DEF FreeFor, Bears
  <2>2. CASE v # u
    BY <1>1, <1>2, <1>4, <2>2 DEF FreeFor, Bears, NamesOK
  <2> QED BY <2>1, <2>2
<1> QED BY <1>1, <1>3, <1>4 DEF NamesOK

LEMMA EditNames ==
  ASSUME RowsTypeOK, NamesOK, EditsOK, NEW e \in edits, CommitEdit(e)
  PROVE  NamesOK'
<1>0. /\ e.user \in Users /\ e.name \in Names /\ account \in [Users -> AccountRow]
      /\ Exists(e.user) /\ FreeFor(e.user, e.name) /\ e.name # NoName
  BY DEF RowsTypeOK, RequestsTypeOK, EditsOK, NamesOK
<1>1. /\ account'[e.user].name = e.name
      /\ account'[e.user].status = account[e.user].status
      /\ \A v \in Users \ {e.user} : account'[v] = account[v]
      /\ edits' = {}
  BY <1>0 DEF CommitEdit, Edited, RowsTypeOK, RequestsTypeOK, AccountRow
<1>2. \A v \in Users : Exists(v)' <=> Exists(v)
  BY <1>1 DEF Exists
<1>3. \A v \in Users : Exists(v)' <=> account'[v].name # NoName
  BY <1>0, <1>1, <1>2 DEF NamesOK
<1>4. ASSUME NEW v \in Users, Exists(v)' PROVE FreeFor(v, account[v].name)'
  <2>1. CASE v = e.user
    BY <1>0, <1>1, <1>2, <2>1 DEF FreeFor, Bears
  <2>2. CASE v # e.user
    BY <1>0, <1>1, <1>2, <1>4, <2>2 DEF FreeFor, Bears, NamesOK
  <2> QED BY <2>1, <2>2
<1> QED BY <1>1, <1>3, <1>4 DEF NamesOK

LEMMA NamesStep ==
  ASSUME RowsTypeOK, TargetsOK, EditsOK, NamesOK, Next PROVE NamesOK'
<1>1. ASSUME NEW u \in Users, NEW n \in Names, NEW role \in Roles, NEW newEmail \in BOOLEAN,
             BeginEdit(u, n, role, newEmail)
      PROVE  NamesOK'
  <2>1. /\ edits' = {[user |-> u, name |-> n, role |-> role, newEmail |-> newEmail]}
        /\ account' = account /\ FreeFor(u, n)
    BY <1>1 DEF BeginEdit, TableFree
  <2> QED BY <2>1 DEF NamesOK, FreeFor, Bears, Exists
<1>2. CASE /\ edits' \subseteq edits
           /\ ~(\E e \in edits : CommitEdit(e))
           /\ ~(\E u \in Users, n \in Names : Register(u, n))
  BY <1>2, NamesKept
<1>3. (\E u \in Users, n \in Names, role \in Roles, newEmail \in BOOLEAN :
          BeginEdit(u, n, role, newEmail)) \/ edits' \subseteq edits
  BY DEF Next, AccountNext, AdminNext, Register, Confirm, ResendConfirmation, LinkExpires,
     ForgotPassword, ResetExpires, ReadReset, Login, Reset, ReadTarget, DeleteUser, SetBlocked,
     CommitEdit, Authorize
<1> QED BY <1>1, <1>2, <1>3, RegisterNames, EditNames

LEMMA AdminStep ==
  ASSUME RowsTypeOK, TargetsOK, EditsOK, AdminRemains, Next PROVE AdminRemains'
<1>1. ASSUME NEW e \in edits, CommitEdit(e) PROVE AdminRemains'
  <2>1. /\ e.user \in Users /\ account \in [Users -> AccountRow]
        /\ account' = [account EXCEPT ![e.user] = Edited(@, e)]
    BY <1>1 DEF CommitEdit, RowsTypeOK, RequestsTypeOK
  <2>2. CASE e.role = "ADMIN"
    <3>1. Edited(account[e.user], e).role = "ADMIN"
      BY <2>1, <2>2 DEF Edited, AccountRow
    <3>2. Edited(account[e.user], e).status = account[e.user].status
      BY <2>1 DEF Edited, AccountRow
    <3>3. e.user \in Administrators'
      BY <2>1, <3>1, <3>2 DEF EditsOK, Administrators, Exists
    <3> QED BY <3>3 DEF AdminRemains
  <2>3. CASE e.role # "ADMIN"
    <3>1. PICK v \in Administrators : v # e.user
      BY <2>3 DEF EditsOK, AdminRemains, Administrators
    <3>2. v \in Administrators'
      BY <2>1, <3>1 DEF Administrators, Exists
    <3> QED BY <3>2 DEF AdminRemains
  <2> QED BY <2>2, <2>3
<1>2. CASE ~(\E e \in edits : CommitEdit(e))
  <2>1. PICK v \in Users : Exists(v) /\ account[v].role = "ADMIN"
    BY DEF AdminRemains, Administrators
  <2>2. LiveStep(account[v], account'[v]) /\ account'[v].role = "ADMIN"
    BY <1>2, <2>1, ActionsAreRowSteps DEF RowStep, NoNewRowStep, Exists, AccountStatus
  <2>3. v \in Administrators'
    BY <2>1, <2>2 DEF LiveStep, Administrators, Exists
  <2> QED BY <2>3 DEF AdminRemains
<1> QED BY <1>1, <1>2

\* No action but ForgotPassword opens a code or replaces an open one.
CodeStep(r, s) == /\ s.codeState = "open" => r.codeState = "open" /\ s.code = r.code
                  /\ s.code = r.code \/ s.code = 0

LEMMA CodeSteps ==
  ASSUME RowsTypeOK, Next
  PROVE  \/ \E u \in Users : ForgotPassword(u)
         \/ \E u \in Users, c \in 1 .. MaxCodes : Reset(u, c)
         \/ UNCHANGED <<issued, applied>> /\ \A u \in Users : CodeStep(account[u], account'[u])
<1> USE DEF CodeStep
<1>1. account \in [Users -> AccountRow] /\ \A u \in Users : CodeStep(account[u], account[u])
  BY DEF RowsTypeOK
<1>2. ASSUME NEW u \in Users, NEW n \in Names, Register(u, n)
      PROVE  UNCHANGED <<issued, applied>> /\ \A v \in Users : CodeStep(account[v], account'[v])
  BY <1>1, <1>2 DEF Register, NewRow
<1>6. ASSUME NEW u \in Users, Confirm(u)
      PROVE  UNCHANGED <<issued, applied>> /\ \A v \in Users : CodeStep(account[v], account'[v])
  BY <1>1, <1>6 DEF Confirm, Confirmed, AccountRow
<1>7. ASSUME NEW u \in Users, ResendConfirmation(u) \/ LinkExpires(u) \/ ResetExpires(u)
      PROVE  UNCHANGED <<issued, applied>> /\ \A v \in Users : CodeStep(account[v], account'[v])
  BY <1>1, <1>7 DEF ResendConfirmation, LinkExpires, ResetExpires, AccountRow
<1>8. CASE UNCHANGED <<account, issued, applied>>
  BY <1>1, <1>8
<1>3. ASSUME NEW a \in admins, NEW u \in Users, DeleteUser(a, u)
      PROVE  UNCHANGED <<issued, applied>> /\ \A v \in Users : CodeStep(account[v], account'[v])
  BY <1>1, <1>3 DEF DeleteUser, NoRow, NewRow
<1>4. ASSUME NEW t \in targets, SetBlocked(t)
      PROVE  UNCHANGED <<issued, applied>> /\ \A v \in Users : CodeStep(account[v], account'[v])
  BY <1>1, <1>4 DEF SetBlocked, StatusSet, AccountRow
<1>5. ASSUME NEW e \in edits, CommitEdit(e)
      PROVE  UNCHANGED <<issued, applied>> /\ \A v \in Users : CodeStep(account[v], account'[v])
  BY <1>1, <1>5 DEF CommitEdit, Edited, AccountRow
<1> QED BY <1>2, <1>3, <1>4, <1>5, <1>6, <1>7, <1>8 DEF Next, AccountNext, AdminNext,
     ReadReset, Login, ReadTarget, BeginEdit, Authorize

LEMMA ForgotCodes ==
  ASSUME RowsTypeOK, CodesOK, NEW u \in Users, ForgotPassword(u)
  PROVE  CodesOK'
<1>1. /\ account \in [Users -> AccountRow] /\ issued \in [Users -> Nat]
      /\ applied \in [Users -> Seq(Nat)]
  BY DEF RowsTypeOK
<1>2. /\ issued' = [issued EXCEPT ![u] = issued[u] + 1]
      /\ account'[u].code = issued[u] + 1
      /\ \A v \in Users \ {u} : account'[v] = account[v]
      /\ applied' = applied
  BY <1>1 DEF ForgotPassword, WithCode, AccountRow
<1>3. \A v \in Users : \A i \in DOMAIN applied[v] : applied[v][i] \in Nat
  BY <1>1
<1> QED BY <1>1, <1>2, <1>3 DEF CodesOK

LEMMA ResetCodes ==
  ASSUME RowsTypeOK, CodesOK, ResetsInOrder,
         NEW u \in Users, NEW c \in 1 .. MaxCodes, Reset(u, c)
  PROVE  CodesOK' /\ ResetsInOrder'
<1>1. /\ account \in [Users -> AccountRow] /\ issued \in [Users -> Nat]
      /\ applied \in [Users -> Seq(Nat)] /\ c \in Nat
  BY DEF RowsTypeOK
<1>2. /\ account'[u].code = c /\ account'[u].codeState = "used"
      /\ account[u].code = c /\ account[u].codeState = "open"
      /\ \A v \in Users \ {u} : account'[v] = account[v]
      /\ applied' = [applied EXCEPT ![u] = Append(applied[u], c)] /\ issued' = issued
  BY <1>1 DEF Reset, Matches, PasswordChanged, AccountRow
<1>3. c <= issued[u] /\ \A i \in DOMAIN applied[u] : applied[u][i] < c
  BY <1>2 DEF CodesOK
<1> DEFINE n == Len(applied[u])
<1>4. /\ n \in Nat /\ DOMAIN applied[u] = 1 .. n
      /\ DOMAIN applied'[u] = 1 .. n + 1
      /\ \A i \in 1 .. n : applied'[u][i] = applied[u][i]
      /\ applied'[u][n + 1] = c
  BY <1>1, <1>2
<1>5. \A v \in Users \ {u} : applied'[v] = applied[v]
  BY <1>1, <1>2
<1> HIDE DEF n
<1>6. CodesOK'
  <2>1. ASSUME NEW i \in DOMAIN applied'[u] PROVE applied'[u][i] <= issued[u]
    <3>1. CASE i = n + 1
      BY <1>3, <1>4, <3>1
    <3>2. CASE i \in 1 .. n
      BY <1>4, <3>2 DEF CodesOK
    <3> QED BY <1>4, <3>1, <3>2
  <2> QED BY <1>2, <1>3, <1>5, <2>1 DEF CodesOK
<1>7. ResetsInOrder'
  <2>1. ASSUME NEW i \in DOMAIN applied'[u], NEW j \in DOMAIN applied'[u], i < j
        PROVE  applied'[u][i] < applied'[u][j]
    <3>1. i \in 1 .. n
      BY <1>4, <2>1
    <3>2. CASE j = n + 1
      BY <1>3, <1>4, <3>1, <3>2
    <3>3. CASE j \in 1 .. n
      BY <1>4, <2>1, <3>1, <3>3 DEF ResetsInOrder
    <3> QED BY <1>4, <3>2, <3>3
  <2> QED BY <1>5, <2>1 DEF ResetsInOrder
<1> QED BY <1>6, <1>7

LEMMA CodesStep ==
  ASSUME RowsTypeOK, CodesOK, ResetsInOrder, Next
  PROVE  CodesOK' /\ ResetsInOrder'
<1>1. CASE \E u \in Users : ForgotPassword(u)
  BY <1>1, ForgotCodes DEF ForgotPassword, ResetsInOrder
<1>2. CASE \E u \in Users, c \in 1 .. MaxCodes : Reset(u, c)
  BY <1>2, ResetCodes
<1>3. CASE /\ UNCHANGED <<issued, applied>>
           /\ \A u \in Users : CodeStep(account[u], account'[u])
  <2>1. \A u \in Users : issued[u] \in Nat
    BY DEF RowsTypeOK
  <2> QED BY <1>3, <2>1 DEF CodeStep, CodesOK, ResetsInOrder
<1> QED BY <1>1, <1>2, <1>3, CodeSteps

-----------------------------------------------------------------------------
LEMMA InitIInv == Init => IInv
<1> SUFFICES ASSUME Init PROVE IInv
  OBVIOUS
<1>1. /\ \A u \in Users : account[u].code = 0 /\ issued[u] = 0 /\ applied[u] = << >>
      /\ targets = {} /\ tokens = {} /\ edits = {}
  BY DEF Init, SeededRow, NoRow, NewRow
<1>6. /\ \A u \in Seeded : Exists(u) /\ account[u].name = FirstName[u]
      /\ \A u \in Users \ Seeded : ~Exists(u) /\ account[u].name = NoName
  BY DEF Init, Seeded, Exists, AccountStatus, SeededRow, NoRow, NewRow
<1>7. NamesOK
  BY <1>1, <1>6 DEF NamesOK, FreeFor, Bears
<1>2. CodesOK /\ ResetsInOrder
  BY <1>1 DEF CodesOK, ResetsInOrder
<1>3. account[Root] = SeededRow(FirstName[Root], "ADMIN") /\ Root \in Users
  BY DEF Init, Seeded
<1>4. AdminRemains
  BY <1>3 DEF AdminRemains, Administrators, Exists, SeededRow, NewRow, AccountStatus
<1>5. OnlyConfirmedAct
  BY DEF Init, OnlyConfirmedAct, Exists, AccountStatus, SeededRow, NoRow, NewRow
<1> QED BY <1>1, <1>2, <1>4, <1>5, <1>7, InitAccounts DEF IInv, TargetsOK, TokensOK, EditsOK

LEMMA NextIInv == IInv /\ [Next]_vars => IInv'
<1> SUFFICES ASSUME IInv, [Next]_vars PROVE IInv'
  OBVIOUS
<1>1. CASE Next
  BY <1>1, AccountType, AdminType, NamesStep, ConfirmedStep, TargetsStep, TokensStep, EditsStep, AdminStep,
     CodesStep DEF IInv, Next
<1>2. CASE UNCHANGED vars
  BY <1>2 DEF vars, IInv, RowsTypeOK, NamesOK, FreeFor, Bears, RequestsTypeOK, OnlyConfirmedAct, AdminRemains,
     Administrators, ResetsInOrder, TargetsOK, TokensOK, EditsOK, CodesOK, Exists
<1> QED BY <1>1, <1>2

\* Every reachable state of the accounts is well-typed, LOCK TABLE keeps the edits
\* of administrators one at a time, and no two accounts ever bear one name.
THEOREM AccountsTypeInvariant == Spec => []AccountsTypeOK
<1>1. IInv => AccountsTypeOK
  BY DEF IInv, AccountsTypeOK
<1> QED BY InitIInv, NextIInv, <1>1, PTL DEF Spec

\* update_user_as_admin never takes the role from the last administrator, in
\* whatever order administrators edit, delete, block and reset each other.
THEOREM AdministratorInvariant == Spec => []AdminRemains
<1>1. IInv => AdminRemains
  BY DEF IInv
<1> QED BY InitIInv, NextIInv, <1>1, PTL DEF Spec

\* set_blocked restores ACTIVE only to confirmed accounts, although it computes
\* the status from a row that may have changed since.
THEOREM ConfirmedInvariant == Spec => []OnlyConfirmedAct
<1>1. IInv => OnlyConfirmedAct
  BY DEF IInv
<1> QED BY InitIInv, NextIInv, <1>1, PTL DEF Spec

\* The conditional UPDATE of reset_password applies every code at most once and
\* in the order in which the codes were sent.
THEOREM ResetInvariant == Spec => []ResetsInOrder
<1>1. IInv => ResetsInOrder
  BY DEF IInv
<1> QED BY InitIInv, NextIInv, <1>1, PTL DEF Spec

\* A token that its own account refuses is refused by that account for ever,
\* whoever renames, blocks or resets it and whatever name it has received back:
\* every change of name or role raises token_version.
THEOREM SessionsProperty == Spec => SessionsNeverReturn
<1>1. IInv /\ [Next]_vars =>
         [\A t \in tokens : ~Accepted(t, t.user) => ~Accepted(t, t.user)']_vars
  <2> SUFFICES ASSUME IInv, Next, NEW t \in tokens, ~Accepted(t, t.user)
               PROVE  ~Accepted(t, t.user)'
    BY DEF Accepted, Bears, Exists, vars
  <2>1. /\ t.user \in Users /\ t.version \in Nat
        /\ account[t.user].version \in Nat /\ account'[t.user].version \in Nat
    BY AccountType, AdminType DEF Next, IInv, RowsTypeOK, RequestsTypeOK, AccountRow
  <2>2. CASE account'[t.user] = NoRow("deleted")
    BY <2>2 DEF NoRow, NewRow, Accepted, Bears, Exists, AccountStatus
  <2>3. CASE LiveStep(account[t.user], account'[t.user])
    BY <2>1, <2>3 DEF IInv, TokensOK, LiveStep, Accepted, Bears, Exists
  <2> QED BY <2>1, <2>2, <2>3, EveryStep DEF IInv, TokensOK
<1> QED BY InitIInv, NextIInv, <1>1, PTL DEF Spec, SessionsNeverReturn

=============================================================================
