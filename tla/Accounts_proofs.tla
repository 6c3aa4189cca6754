-------------------------- MODULE Accounts_proofs --------------------------
(* Theorems about Accounts, for every set of login ids, browsers, phones and *)
(* editors.                                                                  *)
EXTENDS Accounts, TLAPS

-----------------------------------------------------------------------------
(* Facts about sequences. *)

LEMMA EmptyIn == ASSUME NEW S PROVE <<>> \in Seq(S)
OBVIOUS

LEMMA AppendIn ==
    ASSUME NEW S, NEW s \in Seq(S), NEW e \in S
    PROVE  /\ Append(s, e) \in Seq(S)
           /\ Len(Append(s, e)) = Len(s) + 1
           /\ DOMAIN Append(s, e) = DOMAIN s \cup {Len(s) + 1}
           /\ Append(s, e)[Len(s) + 1] = e
           /\ \A i \in DOMAIN s : Append(s, e)[i] = s[i]
OBVIOUS

LEMMA ExceptIn ==
    ASSUME NEW S, NEW s \in Seq(S), NEW i \in DOMAIN s, NEW e \in S
    PROVE  /\ [s EXCEPT ![i] = e] \in Seq(S)
           /\ Len([s EXCEPT ![i] = e]) = Len(s)
           /\ DOMAIN [s EXCEPT ![i] = e] = DOMAIN s
           /\ [s EXCEPT ![i] = e][i] = e
           /\ \A j \in DOMAIN s \ {i} : [s EXCEPT ![i] = e][j] = s[j]
OBVIOUS

LEMMA RemoveIn ==
    ASSUME NEW S, NEW s \in Seq(S), NEW i \in DOMAIN s
    PROVE  RemoveAt(s, i) \in Seq(S)
<1>1. SubSeq(s, 1, i - 1) \in Seq(S)
  OBVIOUS
<1>2. SubSeq(s, i + 1, Len(s)) \in Seq(S)
  OBVIOUS
<1>3. QED
  BY <1>1, <1>2 DEF RemoveAt

LEMMA FreshIndex ==
    ASSUME NEW S, NEW s \in Seq(S)
    PROVE  /\ DOMAIN s \subseteq Id
           /\ Len(s) + 1 \in Id
           /\ Len(s) + 1 \notin DOMAIN s
BY DEF Id

-----------------------------------------------------------------------------
(* The invariant of all accounts: the account a handler holds points to a    *)
(* role that is there.                                                       *)

Tables ==
    /\ user \in Seq(Account) /\ Len(user) <= MaxUsers
    /\ role \in Seq(Name)
    /\ \A u \in DOMAIN user : user[u].role \in DOMAIN role

HeldSound ==
    /\ edit \in [Editors -> Edit \cup {None}]
    /\ \A e \in Editors : edit[e] # None =>
          edit[e].u \in DOMAIN user /\ edit[e].row.role \in DOMAIN role

Pages ==
    /\ page \in [Browsers -> Page]
    /\ join \in [Phones -> Logins \cup {None}]

Inv == Tables /\ HeldSound /\ Pages

LEMMA NameTypes ==
    /\ \A w \in Words : Plain(w) \in Name /\ Role(w) \in Name
    /\ \A n \in Name : setAuthority(n) \in Name
BY DEF Plain, Role, setAuthority, Name

LEMMA WordsOffered == "NOTUSER" \in Words /\ Offered \subseteq Words
BY DEF Words

\* A new account, with the role it points to.
LEMMA NewUser ==
    ASSUME Inv, Len(user) < MaxUsers, NEW id \in Logins,
           NEW r \in DOMAIN role', role' \in Seq(Name),
           DOMAIN role \subseteq DOMAIN role',
           user' = Append(user, NewAccount(id, r))
    PROVE  Tables'
<1>1. r \in Id
  BY FreshIndex
<1>2. NewAccount(id, r) \in Account /\ NewAccount(id, r).role = r
  BY <1>1 DEF NewAccount, Account
<1>3. /\ user' \in Seq(Account) /\ Len(user') = Len(user) + 1
      /\ DOMAIN user' = DOMAIN user \cup {Len(user) + 1}
      /\ user'[Len(user) + 1] = NewAccount(id, r)
      /\ \A u \in DOMAIN user : user'[u] = user[u]
  BY <1>2, AppendIn DEF Inv, Tables
<1>4. \A u \in DOMAIN user' : user'[u].role \in DOMAIN role'
  BY <1>2, <1>3 DEF Inv, Tables
<1>5. Len(user') <= MaxUsers
  BY <1>3, AccountsAssumption DEF Inv, Tables
<1>6. QED
  BY <1>3, <1>4, <1>5 DEF Tables

LEMMA SignUp ==
    ASSUME Inv, NEW b \in Browsers, createUser(b)
    PROVE  Inv'
<1> DEFINE n == setAuthority(Plain("NOTUSER"))
<1>1. n \in Name
  BY NameTypes, WordsOffered
<1>2. role' = Append(role, n)
  BY DEF createUser
<1> HIDE DEF n
<1>3. role' \in Seq(Name) /\ DOMAIN role' = DOMAIN role \cup {NewRole}
  BY <1>1, <1>2, AppendIn DEF Inv, Tables, NewRole
<1>4. page[b].id \in Logins
  BY DEF Inv, Pages, Page, createUser
<1>5. Tables'
  BY <1>3, <1>4, NewUser DEF createUser
<1>6. DOMAIN user \subseteq DOMAIN user'
  BY AppendIn DEF createUser, Inv, Tables, Account, NewAccount
<1>7. HeldSound'
  BY <1>3, <1>6 DEF Inv, HeldSound, createUser
<1>8. QED
  BY <1>5, <1>7 DEF Inv, Pages, createUser

LEMMA JoinSave ==
    ASSUME Inv, NEW p \in Phones, joinSave(p)
    PROVE  Inv'
<1> DEFINE waiting == Named(Role("NOTUSER"))
<1>1. join[p] \in Logins /\ Pages'
  BY DEF Inv, Pages, joinSave
<1>2. CASE /\ Len(user) < MaxUsers
           /\ role' = Append(role, setAuthority(Role("NOTUSER")))
           /\ user' = Append(user, NewAccount(join[p], Len(role) + 1))
  <2> DEFINE n == setAuthority(Role("NOTUSER"))
  <2>1. n \in Name
    BY NameTypes, WordsOffered
  <2>2. role' = Append(role, n)
    BY <1>2
  <2> HIDE DEF n
  <2>3. role' \in Seq(Name) /\ DOMAIN role' = DOMAIN role \cup {Len(role) + 1}
    BY <2>1, <2>2, AppendIn DEF Inv, Tables
  <2>4. Tables'
    BY <1>1, <1>2, <2>3, NewUser
  <2>5. DOMAIN user \subseteq DOMAIN user'
    BY <1>2, AppendIn DEF Inv, Tables, Account, NewAccount
  <2>6. HeldSound'
    BY <2>3, <2>5 DEF Inv, HeldSound, joinSave
  <2>7. QED
    BY <1>1, <2>4, <2>6 DEF Inv
<1>3. CASE /\ Len(user) < MaxUsers
           /\ \E r \in waiting : user' = Append(user, NewAccount(join[p], r))
           /\ UNCHANGED role
  <2>1. PICK r \in waiting : user' = Append(user, NewAccount(join[p], r))
    BY <1>3
  <2>2. r \in DOMAIN role' /\ role' \in Seq(Name)
    BY <1>3 DEF Named, Inv, Tables
  <2>3. Tables'
    BY <1>1, <1>3, <2>1, <2>2, NewUser
  <2>4. DOMAIN user \subseteq DOMAIN user'
    BY <2>1, AppendIn DEF Inv, Tables, Account, NewAccount
  <2>5. HeldSound'
    BY <1>3, <2>4 DEF Inv, HeldSound, joinSave
  <2>6. QED
    BY <1>1, <2>3, <2>5 DEF Inv
<1>4. CASE UNCHANGED <<user, role>>
  BY <1>1, <1>4 DEF Inv, Tables, HeldSound, joinSave
<1>5. QED
  BY <1>2, <1>3, <1>4 DEF joinSave

\* A row of an account is written.
LEMMA WriteRow ==
    ASSUME Inv, NEW e \in Editors, edit[e] # None,
           NEW row \in Account, row.role \in DOMAIN role,
           \/ user' = user
           \/ user' = [user EXCEPT ![edit[e].u] = row],
           edit' = [edit EXCEPT ![e] = None], UNCHANGED <<role, page, join>>
    PROVE  /\ Inv'
           /\ DOMAIN user' = DOMAIN user
           /\ \A u \in DOMAIN user : user'[u] = user[u] \/ (u = edit[e].u /\ user'[u] = row)
<1>1. edit[e].u \in DOMAIN user
  BY DEF Inv, HeldSound
<1>2. /\ user' \in Seq(Account) /\ Len(user') = Len(user)
      /\ DOMAIN user' = DOMAIN user
      /\ \A u \in DOMAIN user : user'[u] = user[u] \/ (u = edit[e].u /\ user'[u] = row)
  <2>1. CASE user' = user
    BY <2>1 DEF Inv, Tables
  <2>2. CASE user' = [user EXCEPT ![edit[e].u] = row]
    BY <1>1, <2>2, ExceptIn DEF Inv, Tables
  <2>3. QED
    BY <2>1, <2>2
<1>3. Tables'
  BY <1>2 DEF Inv, Tables
<1>4. HeldSound' /\ Pages'
  BY <1>2 DEF Inv, HeldSound, Pages
<1>5. QED
  BY <1>2, <1>3, <1>4 DEF Inv

\* What an editor writes: the row it holds, or that row with another role or
\* disabled.
LEMMA EditWrites ==
    ASSUME Inv, NEW e \in Editors,
           \/ modifyInfo(e) \/ resetPassword(e) \/ removeUser(e)
           \/ acceptJoinRequest(e) \/ changeAuthorities(e, "CTT_ADMIN")
    PROVE  /\ edit[e] # None
           /\ edit' = [edit EXCEPT ![e] = None] /\ UNCHANGED <<role, page, join>>
           /\ \E row \in Account :
                 /\ row.role \in DOMAIN role
                 /\ ~app => row.role = edit[e].row.role
                 /\ row.enabled => edit[e].row.enabled
                 /\ user' = user \/ user' = [user EXCEPT ![edit[e].u] = row]
<1>1. edit[e] # None
  BY DEF modifyInfo, resetPassword, removeUser, acceptJoinRequest, changeAuthorities
<1> DEFINE held == edit[e].row
<1>2. held \in Account /\ held.role \in DOMAIN role
  BY <1>1 DEF Inv, HeldSound, Edit
<1>3. CASE modifyInfo(e) \/ resetPassword(e)
  <2>1. /\ edit' = [edit EXCEPT ![e] = None] /\ UNCHANGED <<role, page, join>>
        /\ user' = [user EXCEPT ![edit[e].u] = held]
    BY <1>3 DEF modifyInfo, resetPassword, Write, InfoRow
  <2>2. QED
    BY <1>1, <1>2, <2>1
<1>4. CASE removeUser(e)
  <2> DEFINE row == [held EXCEPT !.enabled = FALSE]
  <2>1. row \in Account /\ row.role = held.role /\ ~row.enabled
    BY <1>2 DEF Account
  <2>2. /\ edit' = [edit EXCEPT ![e] = None] /\ UNCHANGED <<role, page, join>>
        /\ user' = user \/ user' = [user EXCEPT ![edit[e].u] = row]
    BY <1>4 DEF removeUser, Flush
  <2> HIDE DEF row
  <2>3. QED
    BY <1>1, <1>2, <2>1, <2>2
<1>5. ASSUME NEW w, changeAuthorities(e, w)
      PROVE  /\ edit' = [edit EXCEPT ![e] = None] /\ UNCHANGED <<role, page, join>>
             /\ \E row \in Account :
                   /\ row.role \in DOMAIN role
                   /\ ~app => row.role = edit[e].row.role
                   /\ row.enabled => edit[e].row.enabled
                   /\ user' = user \/ user' = [user EXCEPT ![edit[e].u] = row]
  <2>1. PICK r \in Named(Role(w)) : Flush(e, [edit[e].row EXCEPT !.role = r])
    BY <1>5 DEF changeAuthorities
  <2>2. r \in DOMAIN role /\ r \in Id
    BY FreshIndex DEF Named, Inv, Tables
  <2> DEFINE row == [held EXCEPT !.role = r]
  <2>3. row \in Account /\ row.role = r /\ row.enabled = held.enabled
    BY <1>2, <2>2 DEF Account
  <2>4. /\ edit' = [edit EXCEPT ![e] = None] /\ UNCHANGED <<role, page, join>>
        /\ user' = user \/ user' = [user EXCEPT ![edit[e].u] = row]
    BY <2>1 DEF Flush
  <2> HIDE DEF row
  <2>5. app
    BY <1>5 DEF changeAuthorities
  <2>6. QED
    BY <2>2, <2>3, <2>4, <2>5
<1>6. CASE acceptJoinRequest(e) \/ changeAuthorities(e, "CTT_ADMIN")
  BY <1>1, <1>5, <1>6 DEF acceptJoinRequest
<1>7. QED
  BY <1>3, <1>4, <1>6

LEMMA EditInv ==
    ASSUME Inv, NEW e \in Editors,
           \/ modifyInfo(e) \/ resetPassword(e) \/ removeUser(e)
           \/ acceptJoinRequest(e) \/ changeAuthorities(e, "CTT_ADMIN")
    PROVE  Inv'
<1>1. /\ edit[e] # None
      /\ edit' = [edit EXCEPT ![e] = None] /\ UNCHANGED <<role, page, join>>
  BY EditWrites
<1>2. PICK row \in Account :
         /\ row.role \in DOMAIN role
         /\ user' = user \/ user' = [user EXCEPT ![edit[e].u] = row]
  BY EditWrites
<1>3. QED
  BY <1>1, <1>2, WriteRow

LEMMA ReadInv ==
    ASSUME Inv, NEW e \in Editors, NEW u \in DOMAIN user, readUser(e, u)
    PROVE  Inv'
<1>1. user[u] \in Account /\ u \in Id
  BY FreshIndex DEF Inv, Tables
<1>2. [u |-> u, row |-> user[u]] \in Edit
  BY <1>1 DEF Edit
<1>3. HeldSound'
  BY <1>2 DEF Inv, Tables, HeldSound, readUser
<1>4. QED
  BY <1>3 DEF Inv, Tables, Pages, readUser

LEMMA RenameInv ==
    ASSUME Inv, NEW u \in DOMAIN user, NEW w \in Offered, updateAuth(u, w)
    PROVE  /\ Inv' /\ DOMAIN role' = DOMAIN role /\ UNCHANGED <<user, edit>>
           /\ \A r \in DOMAIN role \ {user[u].role} : role'[r] = role[r]
<1> DEFINE n == setAuthority(Plain(w))
<1>1. n \in Name /\ user[u].role \in DOMAIN role
  BY NameTypes, WordsOffered DEF Inv, Tables
<1>2. role' = [role EXCEPT ![user[u].role] = n] /\ UNCHANGED <<user, page, join, edit>>
  BY DEF updateAuth
<1> HIDE DEF n
<1>3. /\ role' \in Seq(Name) /\ DOMAIN role' = DOMAIN role
      /\ \A r \in DOMAIN role \ {user[u].role} : role'[r] = role[r]
  BY <1>1, <1>2, ExceptIn DEF Inv, Tables
<1>4. QED
  BY <1>2, <1>3 DEF Inv, Tables, HeldSound, Pages

LEMMA PageInv ==
    ASSUME Inv, NEW b \in Browsers,
           \/ \E id \in Logins : loginIdInput(b, id)
           \/ doubleCheck(b) \/ leave(b)
           \/ \E i \in DOMAIN page[b].asks : checkId(b, i)
    PROVE  Inv' /\ UNCHANGED <<user, role, edit>>
<1>1. page[b] \in Page /\ page[b].asks \in Seq(Logins)
  BY DEF Inv, Pages, Page
<1>2. UNCHANGED <<user, role, join, edit>>
  BY DEF loginIdInput, doubleCheck, leave, checkId
<1>3. PICK new : page' = [page EXCEPT ![b] = new] /\ new \in Page
  <2>1. CASE \E id \in Logins : loginIdInput(b, id)
    <3>1. PICK id \in Logins : page' = [page EXCEPT ![b] = [page[b] EXCEPT !.id = id]]
      BY <2>1 DEF loginIdInput
    <3>2. [page[b] EXCEPT !.id = id] \in Page
      BY <1>1 DEF Page
    <3>3. QED
      BY <3>1, <3>2
  <2>2. CASE doubleCheck(b)
    <3>1. page[b].id \in Logins
      BY <1>1, <2>2 DEF Page, doubleCheck
    <3> DEFINE asks == Append(page[b].asks, page[b].id)
    <3>2. asks \in Seq(Logins)
      BY <1>1, <3>1, AppendIn
    <3>3. page' = [page EXCEPT ![b] = [page[b] EXCEPT !.asks = asks]]
      BY <2>2 DEF doubleCheck
    <3> HIDE DEF asks
    <3>4. [page[b] EXCEPT !.asks = asks] \in Page
      BY <1>1, <3>2 DEF Page
    <3>5. QED
      BY <3>3, <3>4
  <2>3. CASE leave(b)
    <3>1. page' = [page EXCEPT ![b] = EmptyPage]
      BY <2>3 DEF leave
    <3>2. EmptyPage \in Page
      BY EmptyIn DEF EmptyPage, Page
    <3>3. QED
      BY <3>1, <3>2
  <2>4. CASE \E i \in DOMAIN page[b].asks : checkId(b, i)
    <3>1. PICK i \in DOMAIN page[b].asks : checkId(b, i)
      BY <2>4
    <3> DEFINE asks == RemoveAt(page[b].asks, i)
               found == Cardinality(HasLogin(page[b].asks[i]))
               ok == IF found > 1 THEN page[b].ok ELSE found = 0
    <3>2. asks \in Seq(Logins)
      BY <1>1, RemoveIn
    <3>3. page' = [page EXCEPT ![b] = [id |-> page[b].id, asks |-> asks, ok |-> ok]]
      BY <3>1 DEF checkId
    <3>4. ok \in BOOLEAN
      BY <1>1 DEF Page
    <3> HIDE DEF asks, ok
    <3>5. [id |-> page[b].id, asks |-> asks, ok |-> ok] \in Page
      BY <1>1, <3>2, <3>4 DEF Page
    <3>6. QED
      BY <3>3, <3>5
  <2>5. QED
    BY <2>1, <2>2, <2>3, <2>4
<1>4. QED
  BY <1>2, <1>3 DEF Inv, Tables, HeldSound, Pages

LEMMA OtherInv ==
    ASSUME Inv,
           \/ \E p \in Phones, id \in Logins : joinCheck(p, id)
           \/ \E e \in Editors : rollback(e)
           \/ UNCHANGED vars
    PROVE  Inv' /\ UNCHANGED <<user, role>>
BY DEF Inv, Tables, HeldSound, Pages, joinCheck, rollback, vars

LEMMA InitInv == Init => Inv
BY EmptyIn, AccountsAssumption
   DEF Init, Inv, Tables, HeldSound, Pages, Page, EmptyPage

LEMMA NextInv == Inv /\ [Next]_vars => Inv'
<1> SUFFICES ASSUME Inv, [Next]_vars PROVE Inv'
  OBVIOUS
<1>1. CASE \E b \in Browsers : \/ \E id \in Logins : loginIdInput(b, id)
                               \/ doubleCheck(b) \/ leave(b)
                               \/ \E i \in DOMAIN page[b].asks : checkId(b, i)
  BY <1>1, PageInv
<1>2. CASE \E b \in Browsers : createUser(b)
  BY <1>2, SignUp
<1>3. CASE \E p \in Phones : joinSave(p)
  BY <1>3, JoinSave
<1>4. CASE \E e \in Editors : \E u \in DOMAIN user : readUser(e, u)
  BY <1>4, ReadInv
<1>5. CASE \E e \in Editors :
              \/ modifyInfo(e) \/ resetPassword(e) \/ removeUser(e)
              \/ acceptJoinRequest(e) \/ changeAuthorities(e, "CTT_ADMIN")
  BY <1>5, EditInv
<1>6. CASE \E u \in DOMAIN user, w \in Offered : updateAuth(u, w)
  BY <1>6, RenameInv
<1>7. CASE \/ \E p \in Phones, id \in Logins : joinCheck(p, id)
           \/ \E e \in Editors : rollback(e)
           \/ UNCHANGED vars
  BY <1>7, OtherInv
<1>8. QED
  BY <1>1, <1>2, <1>3, <1>4, <1>5, <1>6, <1>7 DEF Next, Step

LEMMA InvAlways == Spec => []Inv
BY InitInv, NextInv, PTL DEF Spec

App == app \in BOOLEAN

\* Every variable keeps its type, and no account loses its role.
THEOREM TypeCorrect == Spec => []TypeOK
<1>1. Inv /\ App => TypeOK
  BY DEF Inv, Tables, HeldSound, Pages, App, TypeOK
<1>2. Spec => []App
  <2>1. Init => App
    BY DEF Init, App
  <2>2. App /\ [Next]_vars => App'
    BY DEF App, Next, vars
  <2>3. QED
    BY <2>1, <2>2, PTL DEF Spec
<1>3. QED
  BY <1>1, <1>2, InvAlways, PTL

-----------------------------------------------------------------------------
(* Without phones, every account has a role row of its own, also the row a   *)
(* handler has read and will write.                                          *)

Apart ==
    /\ \A u, v \in DOMAIN user : user[u].role = user[v].role => u = v
    /\ \A e \in Editors : edit[e] # None => edit[e].row.role = user[edit[e].u].role

WebInv == Inv /\ (~app => Apart)

\* A step that renames no role changes the role of no account.
LEMMA SameRoles ==
    ASSUME Inv, DOMAIN role \subseteq DOMAIN role',
           \A r \in DOMAIN role : role'[r] = role[r],
           \A u \in DOMAIN user : user'[u].role = user[u].role
    PROVE  \A u \in DOMAIN user : RoleOf(u)' = RoleOf(u)
BY DEF Inv, Tables, RoleOf

LEMMA WebStep ==
    ASSUME ~app, WebInv, [Next]_vars
    PROVE  /\ Apart'
           /\ \A u, v \in DOMAIN user :
                 RoleOf(u)' # RoleOf(u) /\ RoleOf(v)' # RoleOf(v) => u = v
<1>1. CASE UNCHANGED <<user, role, edit>>
  BY <1>1 DEF WebInv, Apart, RoleOf
<1>2. CASE \E b \in Browsers : createUser(b)
  <2>1. PICK b \in Browsers : createUser(b)
    BY <1>2
  <2>2. NewRole \notin DOMAIN role /\ Len(user) + 1 \notin DOMAIN user
    BY FreshIndex DEF NewRole, WebInv, Inv, Tables
  <2> DEFINE a == NewAccount(page[b].id, NewRole)
             n == setAuthority(Plain("NOTUSER"))
  <2>3. n \in Name /\ user' = Append(user, a) /\ role' = Append(role, n) /\ edit' = edit
    BY <2>1, NameTypes, WordsOffered DEF createUser
  <2>4. page[b].id \in Logins /\ NewRole \in Id
    BY <2>1, FreshIndex DEF NewRole, WebInv, Inv, Tables, Pages, Page, createUser
  <2>5. a \in Account /\ a.role = NewRole
    BY <2>4 DEF NewAccount, Account
  <2> HIDE DEF a, n
  <2>6. /\ DOMAIN user' = DOMAIN user \cup {Len(user) + 1}
        /\ user'[Len(user) + 1] = a
        /\ \A u \in DOMAIN user : user'[u] = user[u]
    BY <2>3, <2>5, AppendIn DEF WebInv, Inv, Tables
  <2>7. DOMAIN role \subseteq DOMAIN role' /\ \A r \in DOMAIN role : role'[r] = role[r]
    BY <2>3, AppendIn DEF WebInv, Inv, Tables
  <2>8. Apart'
    BY <2>2, <2>3, <2>5, <2>6 DEF WebInv, Inv, Tables, HeldSound, Apart
  <2>9. QED
    BY <2>6, <2>7, <2>8, SameRoles DEF WebInv
<1>3. CASE \E e \in Editors : \E u \in DOMAIN user : readUser(e, u)
  <2>1. UNCHANGED <<user, role>> /\ Apart'
    BY <1>3 DEF WebInv, Inv, Tables, HeldSound, Apart, readUser
  <2>2. QED
    BY <2>1 DEF RoleOf
<1>4. CASE \E e \in Editors :
              \/ modifyInfo(e) \/ resetPassword(e) \/ removeUser(e)
              \/ acceptJoinRequest(e) \/ changeAuthorities(e, "CTT_ADMIN")
  <2>1. PICK e \in Editors :
              \/ modifyInfo(e) \/ resetPassword(e) \/ removeUser(e)
              \/ acceptJoinRequest(e) \/ changeAuthorities(e, "CTT_ADMIN")
    BY <1>4
  <2>2. /\ edit[e] # None
        /\ edit' = [edit EXCEPT ![e] = None] /\ UNCHANGED <<role, page, join>>
    BY <2>1, EditWrites DEF WebInv
  <2>3. PICK row \in Account :
           /\ row.role \in DOMAIN role
           /\ row.role = edit[e].row.role
           /\ user' = user \/ user' = [user EXCEPT ![edit[e].u] = row]
    BY <2>1, EditWrites DEF WebInv
  <2>4. /\ DOMAIN user' = DOMAIN user
        /\ \A u \in DOMAIN user : \/ user'[u] = user[u]
                                  \/ u = edit[e].u /\ user'[u] = row
    BY <2>2, <2>3, WriteRow DEF WebInv
  <2>5. \A u \in DOMAIN user : user'[u].role = user[u].role
    BY <2>2, <2>3, <2>4 DEF WebInv, Apart
  <2>6. Apart'
    BY <2>2, <2>4, <2>5 DEF WebInv, Inv, HeldSound, Apart
  <2>7. QED
    BY <2>2, <2>5, <2>6, SameRoles DEF WebInv
<1>5. CASE \E u \in DOMAIN user, w \in Offered : updateAuth(u, w)
  <2>1. PICK u \in DOMAIN user, w \in Offered : updateAuth(u, w)
    BY <1>5
  <2>2. /\ UNCHANGED <<user, edit>>
        /\ \A r \in DOMAIN role \ {user[u].role} : role'[r] = role[r]
    BY <2>1, RenameInv DEF WebInv
  <2>3. \A v \in DOMAIN user : v # u => RoleOf(v)' = RoleOf(v)
    BY <2>2 DEF WebInv, Inv, Tables, Apart, RoleOf
  <2>4. QED
    BY <2>2, <2>3 DEF WebInv, Apart
<1>6. CASE \E e \in Editors : rollback(e)
  <2>1. UNCHANGED <<user, role>> /\ Apart'
    BY <1>6 DEF WebInv, Inv, HeldSound, Apart, rollback
  <2>2. QED
    BY <2>1 DEF RoleOf
<1>7. CASE \E b \in Browsers : \/ \E id \in Logins : loginIdInput(b, id)
                               \/ doubleCheck(b) \/ leave(b)
                               \/ \E i \in DOMAIN page[b].asks : checkId(b, i)
  BY <1>1, <1>7, PageInv DEF WebInv
<1>8. QED
  <2>1. CASE \E p \in Phones : joinSave(p) \/ \E id \in Logins : joinCheck(p, id)
    BY <2>1 DEF joinSave, joinCheck
  <2>2. QED
    BY <1>1, <1>2, <1>3, <1>4, <1>5, <1>6, <1>7, <2>1 DEF Next, Step, vars

\* Without phones a request changes the role of one account at most, although
\* requests overlap and write what they read earlier.
THEOREM RolesChangeAlone == Spec => OneRoleAtATime
<1>1. Init => WebInv
  BY InitInv DEF Init, WebInv, Apart
<1>2. WebInv /\ [Next]_vars => WebInv'
  <2>1. WebInv /\ [Next]_vars => app' = app
    BY DEF Next, vars
  <2>2. QED
    BY <2>1, NextInv, WebStep DEF WebInv
<1>3. WebInv /\ [Next]_vars =>
         [~app => \A u, v \in DOMAIN user :
             RoleOf(u)' # RoleOf(u) /\ RoleOf(v)' # RoleOf(v) => u = v]_vars
  BY WebStep
<1>4. QED
  BY <1>1, <1>2, <1>3, PTL DEF Spec, OneRoleAtATime

-----------------------------------------------------------------------------
(* When requests that change an account do not overlap, none writes a row    *)
(* that is older than the table.                                             *)

HeldFresh ==
    /\ \A e, f \in Editors : edit[e] # None /\ edit[f] # None => e = f
    /\ \A e \in Editors : edit[e] # None => edit[e].row = user[edit[e].u]

KeepsRemoved == \A u \in DOMAIN user : ~user[u].enabled => ~user'[u].enabled

LEMMA OneEditorStep ==
    ASSUME ~Overlap, Inv, HeldFresh, [Next]_vars
    PROVE  HeldFresh' /\ KeepsRemoved
<1>1. CASE UNCHANGED <<user, edit>>
  BY <1>1 DEF HeldFresh, KeepsRemoved
<1>2. ASSUME DOMAIN user \subseteq DOMAIN user', edit' = edit,
             \A u \in DOMAIN user : user'[u] = user[u]
      PROVE  HeldFresh' /\ KeepsRemoved
  BY <1>2 DEF HeldFresh, KeepsRemoved, Inv, HeldSound
<1>3. ASSUME NEW a \in Account, user' = Append(user, a), edit' = edit
      PROVE  HeldFresh' /\ KeepsRemoved
  BY <1>2, <1>3, AppendIn DEF Inv, Tables
<1>4. ASSUME NEW b \in Browsers, createUser(b) PROVE HeldFresh' /\ KeepsRemoved
  <2>1. NewAccount(page[b].id, NewRole) \in Account
    BY <1>4, FreshIndex
       DEF createUser, NewAccount, Account, NewRole, Inv, Tables, Pages, Page
  <2>2. QED
    BY <1>3, <1>4, <2>1 DEF createUser
<1>5. ASSUME NEW p \in Phones, joinSave(p) PROVE HeldFresh' /\ KeepsRemoved
  <2>1. CASE user' = user
    BY <1>1, <1>5, <2>1 DEF joinSave
  <2>2. CASE \E r \in Id : user' = Append(user, NewAccount(join[p], r))
    <3>1. PICK r \in Id : user' = Append(user, NewAccount(join[p], r))
      BY <2>2
    <3>2. NewAccount(join[p], r) \in Account
      BY <1>5 DEF joinSave, NewAccount, Account, Inv, Pages
    <3>3. QED
      BY <1>3, <1>5, <3>1, <3>2 DEF joinSave
  <2>3. QED
    BY <1>5, <2>1, <2>2, FreshIndex DEF joinSave, Named, Inv, Tables
<1>6. ASSUME NEW e \in Editors, NEW u \in DOMAIN user, readUser(e, u)
      PROVE  HeldFresh' /\ KeepsRemoved
  <2>1. \A f \in Editors : edit[f] = None
    BY <1>6 DEF readUser, MayEdit
  <2>2. \A f \in Editors : edit'[f] # None => f = e /\ edit'[f] = [u |-> u, row |-> user[u]]
    BY <1>6, <2>1 DEF readUser, Inv, HeldSound
  <2>3. user' = user
    BY <1>6 DEF readUser
  <2>4. QED
    BY <2>2, <2>3 DEF HeldFresh, KeepsRemoved
<1>7. ASSUME NEW e \in Editors,
             \/ modifyInfo(e) \/ resetPassword(e) \/ removeUser(e)
             \/ acceptJoinRequest(e) \/ changeAuthorities(e, "CTT_ADMIN")
      PROVE  HeldFresh' /\ KeepsRemoved
  <2>1. edit[e] # None /\ edit' = [edit EXCEPT ![e] = None] /\ UNCHANGED <<role, page, join>>
    BY <1>7, EditWrites
  <2>2. PICK row \in Account :
           /\ row.role \in DOMAIN role
           /\ row.enabled => edit[e].row.enabled
           /\ user' = user \/ user' = [user EXCEPT ![edit[e].u] = row]
    BY <1>7, EditWrites
  <2>3. \A u \in DOMAIN user : user'[u] = user[u] \/ (u = edit[e].u /\ user'[u] = row)
    BY <2>1, <2>2, WriteRow
  <2>4. \A f \in Editors : edit'[f] = None
    BY <2>1 DEF HeldFresh, Inv, HeldSound
  <2>5. QED
    BY <2>1, <2>2, <2>3, <2>4 DEF HeldFresh, KeepsRemoved
<1>8. ASSUME NEW e \in Editors, rollback(e) PROVE HeldFresh' /\ KeepsRemoved
  BY <1>8 DEF rollback, HeldFresh, KeepsRemoved, Inv, HeldSound
<1>9. QED
  BY <1>1, <1>4, <1>5, <1>6, <1>7, <1>8
     DEF Next, Step, vars, loginIdInput, doubleCheck, checkId, leave, joinCheck, updateAuth

\* Where requests that change an account do not overlap, an account that was
\* removed stays removed: no request writes back a row from before the removal.
THEOREM RemovalIsFinal == ASSUME ~Overlap PROVE Spec => RemovedForGood
<1> DEFINE HInv == Inv /\ HeldFresh
<1>1. Init => HInv
  BY InitInv DEF Init, HeldFresh
<1>2. HInv /\ [Next]_vars => HInv'
  BY NextInv, OneEditorStep
<1>3. HInv /\ [Next]_vars =>
         [\A u \in DOMAIN user : ~user[u].enabled => ~user'[u].enabled]_vars
  BY OneEditorStep DEF KeepsRemoved
<1>4. QED
  BY <1>1, <1>2, <1>3, PTL DEF Spec, RemovedForGood
=============================================================================
