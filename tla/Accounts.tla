------------------------------ MODULE Accounts ------------------------------
(***************************************************************************)
(* Accounts and their roles: sign-up on the web (login.js, createUser) and *)
(* by phone (joinMember), acceptance and change of roles by phone          *)
(* (changeAuthorities) and on the management page (updateAuth), removal,   *)
(* and the account page.  A role is a row of its own, to which one or      *)
(* several accounts point: some handlers point an account to another row,  *)
(* one renames the row.  No login id is unique in the table, and a handler *)
(* that changes an account writes its whole row as it read it.             *)
(***************************************************************************)
EXTENDS Naturals, FiniteSets, Sequences, SequencesExt

CONSTANTS
    Logins,     \* login ids
    Browsers,   \* browsers with the sign-up page open
    Phones,     \* phones that sign up and change roles
    Editors,    \* requests that change an account
    Offered,    \* roles that the management page offers
    None,       \* no login id, no request
    Overlap,    \* TRUE: requests that change an account overlap
    MaxUsers,   \* bound: accounts
    MaxAsks     \* bound: checks of an id under way in a browser

ASSUME AccountsAssumption ==
    /\ None \notin Logins
    /\ Overlap \in BOOLEAN
    /\ MaxUsers \in Nat /\ MaxAsks \in Nat

VARIABLES
    user,   \* the accounts
    role,   \* the roles
    page,   \* per browser: the sign-up page
    join,   \* per phone: the id found to be free, before the account is saved
    edit,   \* per editor: the row that was read, and is to be written
    app     \* phones are in use beside the web

vars == <<user, role, page, join, edit, app>>

\* A role's name is a word under "ROLE_" prefixes.
Words == {"NOTUSER", "CTT_USER", "CTT_ADMIN"} \cup Offered
Name == [prefixes : Nat, word : Words]
Plain(w) == [prefixes |-> 0, word |-> w]
Role(w) == [prefixes |-> 1, word |-> w]
\* The setter adds a prefix, to a name that has one too.
setAuthority(n) == [n EXCEPT !.prefixes = @ + 1]

Id == Nat \ {0}
Account == [login : Logins, role : Id, enabled : BOOLEAN]
\* What is typed, whether sign-up is enabled, the ids asked for.
Page == [id : Logins \cup {None}, ok : BOOLEAN, asks : Seq(Logins)]
EmptyPage == [id |-> None, ok |-> FALSE, asks |-> <<>>]
Edit == [u : Id, row : Account]

Init ==
    /\ user = <<>>
    /\ role = <<>>
    /\ page = [b \in Browsers |-> EmptyPage]
    /\ join = [p \in Phones |-> None]
    /\ edit = [e \in Editors |-> None]
    /\ app \in BOOLEAN

-----------------------------------------------------------------------------
(* The sign-up page *)

\* Typing another id leaves the button as it is.
loginIdInput(b, id) ==
    /\ id # page[b].id
    /\ page' = [page EXCEPT ![b].id = id]
    /\ UNCHANGED <<user, role, join, edit>>

doubleCheck(b) ==
    /\ page[b].id # None
    /\ Len(page[b].asks) < MaxAsks
    /\ page' = [page EXCEPT ![b].asks = Append(@, page[b].id)]
    /\ UNCHANGED <<user, role, join, edit>>

HasLogin(id) == {u \in DOMAIN user : user[u].login = id}

\* A free id enables the button, a taken one disables it, and an id that
\* several accounts have is an error, which leaves it.
checkId(b, i) ==
    LET found == Cardinality(HasLogin(page[b].asks[i])) IN
    /\ page' = [page EXCEPT ![b] =
           [id |-> page[b].id, asks |-> RemoveAt(page[b].asks, i),
            ok |-> IF found > 1 THEN page[b].ok ELSE found = 0]]
    /\ UNCHANGED <<user, role, join, edit>>

\* Wrong form: the accounts of the web share a row.
NewRoleShared == 1

\* Each sign-up on the web gets a row of its own.
NewRole == Len(role) + 1

NewAccount(id, r) == [login |-> id, role |-> r, enabled |-> TRUE]

\* The page stays until the answer is there, and may be submitted again.
createUser(b) ==
    /\ page[b].ok /\ page[b].id # None
    /\ Len(user) < MaxUsers
    /\ role' = Append(role, setAuthority(Plain("NOTUSER")))
    /\ user' = Append(user, NewAccount(page[b].id, NewRole))
    /\ UNCHANGED <<page, join, edit>>

leave(b) ==
    /\ page[b] # EmptyPage
    /\ page' = [page EXCEPT ![b] = EmptyPage]
    /\ UNCHANGED <<user, role, join, edit>>

-----------------------------------------------------------------------------
(* Phones *)

Named(n) == {r \in DOMAIN role : role[r] = n}

\* joinMember looks whether the id is free, and saves the account later.
joinCheck(p, id) ==
    /\ app /\ join[p] = None
    /\ HasLogin(id) = {}
    /\ join' = [join EXCEPT ![p] = id]
    /\ UNCHANGED <<user, role, page, edit>>

\* The account points to the role of those not accepted yet; several rows of
\* that name are an error.  Where there is none, one is made, under a name of
\* two prefixes, which the next sign-up does not find.
joinSave(p) ==
    LET waiting == Named(Role("NOTUSER")) IN
    /\ app /\ join[p] # None
    /\ join' = [join EXCEPT ![p] = None]
    /\ \/ /\ waiting = {} /\ Len(user) < MaxUsers
          /\ role' = Append(role, setAuthority(Role("NOTUSER")))
          /\ user' = Append(user, NewAccount(join[p], Len(role) + 1))
       \/ /\ Len(user) < MaxUsers
          /\ \E r \in waiting : /\ waiting = {r}
                                /\ user' = Append(user, NewAccount(join[p], r))
          /\ UNCHANGED role
       \/ Cardinality(waiting) > 1 /\ UNCHANGED <<user, role>>
    /\ UNCHANGED <<page, edit>>

-----------------------------------------------------------------------------
(* Changes of an account *)

MayEdit == Overlap \/ \A e \in Editors : edit[e] = None

\* A handler reads an account.
readUser(e, u) ==
    /\ edit[e] = None /\ MayEdit
    /\ edit' = [edit EXCEPT ![e] = [u |-> u, row |-> user[u]]]
    /\ UNCHANGED <<user, role, page, join>>

\* A row that was not changed is not written.
Flush(e, row) ==
    /\ user' = IF row = edit[e].row THEN user ELSE [user EXCEPT ![edit[e].u] = row]
    /\ edit' = [edit EXCEPT ![e] = None]
    /\ UNCHANGED <<role, page, join>>

\* A row that another session read is written as it is.
Write(e, row) ==
    /\ user' = [user EXCEPT ![edit[e].u] = row]
    /\ edit' = [edit EXCEPT ![e] = None]
    /\ UNCHANGED <<role, page, join>>

\* Wrong form: the account is replaced by the form, whose account is enabled.
InfoRowOfForm(row) == [row EXCEPT !.enabled = TRUE]

\* The account page changes columns that are left out here.
InfoRow(row) == row

\* The user is found by the login id, which must not be another's too.
modifyInfo(e) ==
    /\ edit[e] # None /\ HasLogin(edit[e].row.login) = {edit[e].u}
    /\ Write(e, InfoRow(edit[e].row))

\* The password is another column: the row is written.
resetPassword(e) == edit[e] # None /\ Write(e, edit[e].row)

removeUser(e) == edit[e] # None /\ Flush(e, [edit[e].row EXCEPT !.enabled = FALSE])

\* A phone points the account to the one row of the role's name.
changeAuthorities(e, w) ==
    /\ app /\ edit[e] # None
    /\ \E r \in Named(Role(w)) :
          /\ Named(Role(w)) = {r}
          /\ Flush(e, [edit[e].row EXCEPT !.role = r])

acceptJoinRequest(e) == changeAuthorities(e, "CTT_USER")

rollback(e) ==
    /\ edit[e] # None
    /\ edit' = [edit EXCEPT ![e] = None]
    /\ UNCHANGED <<user, role, page, join>>

\* The management page renames the row the account points to.
updateAuth(u, w) ==
    /\ role' = [role EXCEPT ![user[u].role] = setAuthority(Plain(w))]
    /\ UNCHANGED <<user, page, join, edit>>

Step ==
    \/ \E b \in Browsers :
          \/ \E id \in Logins : loginIdInput(b, id)
          \/ doubleCheck(b)
          \/ \E i \in DOMAIN page[b].asks : checkId(b, i)
          \/ createUser(b)
          \/ leave(b)
    \/ \E p \in Phones : joinSave(p) \/ \E id \in Logins : joinCheck(p, id)
    \/ \E e \in Editors :
          \/ \E u \in DOMAIN user : readUser(e, u)
          \/ modifyInfo(e) \/ resetPassword(e) \/ removeUser(e)
          \/ acceptJoinRequest(e) \/ changeAuthorities(e, "CTT_ADMIN")
          \/ rollback(e)
    \/ \E u \in DOMAIN user, w \in Offered : updateAuth(u, w)

Next == Step /\ UNCHANGED app

Spec == Init /\ [][Next]_vars

-----------------------------------------------------------------------------
(* Properties *)

\* An account points to a role that is there.
TypeOK ==
    /\ user \in Seq(Account) /\ Len(user) <= MaxUsers
    /\ role \in Seq(Name)
    /\ \A u \in DOMAIN user : user[u].role \in DOMAIN role
    /\ page \in [Browsers -> Page]
    /\ join \in [Phones -> Logins \cup {None}]
    /\ edit \in [Editors -> Edit \cup {None}]
    /\ app \in BOOLEAN

RoleOf(u) == role[user[u].role]

\* Where no phone is in use a request changes the role of one account at most:
\* accepting a sign-up accepts nobody else.
OneRoleAtATime ==
    [][~app => \A u, v \in DOMAIN user :
                  RoleOf(u)' # RoleOf(u) /\ RoleOf(v)' # RoleOf(v) => u = v]_vars

\* An account that was removed stays removed.
RemovedForGood ==
    [][\A u \in DOMAIN user : ~user[u].enabled => ~user'[u].enabled]_vars

(* What the sign-up page says and the code does not keep; no run states it. *)

\* No two accounts have one login id ("an id that exists already", says the
\* sign-up page, and disables its button).
LoginsDiffer ==
    \A u, v \in DOMAIN user : user[u].login = user[v].login => u = v
=============================================================================
