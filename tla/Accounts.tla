------------------------------ MODULE Accounts ------------------------------
(***************************************************************************)
(* users.rs: the accounts and groups of a host.  Names are those that      *)
(* pass the validators; shells, homes and full names are not told apart.   *)
(***************************************************************************)
EXTENDS HostCommand, FiniteSets

CONSTANTS
    User,       \* account names, "root" among them
    Group,      \* group names
    SystemGroup \* those delete_group refuses: root, wheel, sudo, adm

ASSUME AccountsAssumption == "root" \in User /\ SystemGroup \subseteq Group

VARIABLES
    account,   \* account[u], or NoAccount
    group      \* the groups there are

accountVars  == <<account, group>>
accountsVars == <<reply, accountVars>>

\* The fields of passwd and shadow the handlers change.
Account == [password : BOOLEAN,   \* there is a password
            locked   : BOOLEAN,   \* ... behind a "!"
            expired  : BOOLEAN,   \* it must be changed at the next login
            groups   : SUBSET Group]

NoAccount == [password |-> FALSE, locked |-> TRUE, expired |-> FALSE, groups |-> {"none"}]
Exists(u) == account[u] # NoAccount

AccountsTypeOK ==
    /\ ReplyTyped
    /\ account \in [User -> Account \cup {NoAccount}]
    /\ group \subseteq Group

AccountsInit ==
    /\ reply = NoReply
    /\ account = [u \in User |->
         IF u = "root" THEN [password |-> TRUE, locked |-> FALSE, expired |-> FALSE, groups |-> {}]
         ELSE NoAccount]
    /\ group = Group

-----------------------------------------------------------------------------
(* External: what the commands do to an account, and when they refuse. *)

Useradd(gs)   == [password |-> FALSE, locked |-> TRUE, expired |-> FALSE, groups |-> gs]
Chpasswd(a)   == [a EXCEPT !.password = TRUE, !.locked = FALSE, !.expired = FALSE]
Chage(a)      == [a EXCEPT !.expired = TRUE]
\* usermod -U leaves an account without a password locked, and is content.
UsermodU(a)   == IF a.password THEN [a EXCEPT !.locked = FALSE] ELSE a

\* One command on an account: it may fail, and must when the host cannot do it.
One(op, u, possible, after, arg) ==
    /\ \E c \in Chain(IF possible THEN 1 ELSE 0) :
        /\ account' = IF c.done = 1 THEN [account EXCEPT ![u] = after] ELSE account
        /\ Answer(op, arg, c.ok /\ possible)
    /\ UNCHANGED group

-----------------------------------------------------------------------------
(* The handlers. *)

\* The account after the first n of useradd, chpasswd and chage -d 0.
Created(gs, n) ==
    <<NoAccount, Useradd(gs), Chpasswd(Useradd(gs)), Chage(Chpasswd(Useradd(gs)))>>[n + 1]

\* Mutant: the answer of chage is not looked at.
CreateUserUnforced(u, gs, setPw, force) ==
    /\ ~Exists(u) /\ gs \subseteq group
    /\ \E c \in Chain(IF ~setPw THEN 1 ELSE IF force THEN 3 ELSE 2) :
        /\ account' = [account EXCEPT ![u] = Created(gs, c.done)]
        /\ Answer("create", <<u, gs, setPw, force>>, c.ok \/ c.done >= 2)
    /\ UNCHANGED group

\* create_user and set_password_internal: useradd, then chpasswd and chage as asked.  A later
\* failure is reported, the account stays.
CreateUser(u, gs, setPw, force) ==
    /\ IF Exists(u) \/ ~(gs \subseteq group)
       THEN Refuse /\ UNCHANGED account
       ELSE \E c \in Chain(IF ~setPw THEN 1 ELSE IF force THEN 3 ELSE 2) :
                /\ account' = [account EXCEPT ![u] = Created(gs, c.done)]
                /\ Answer("create", <<u, gs, setPw, force>>, c.ok)
    /\ UNCHANGED group

\* set_password: a locked account is open again after chpasswd.
SetPassword(u, force) ==
    /\ IF ~Exists(u)
       THEN Refuse /\ UNCHANGED account
       ELSE \E c \in Chain(IF force THEN 2 ELSE 1) :
                /\ account' = [account EXCEPT ![u] = <<@, Chpasswd(@), Chage(Chpasswd(@))>>[c.done + 1]]
                /\ Answer("set_password", <<u, force>>, c.ok)
    /\ UNCHANGED group

\* modify_user: usermod -G replaces the list, and refuses it when a group of it is gone.
ModifyUser(u, gs) ==
    One("modify", u, Exists(u) /\ gs \subseteq group, [account[u] EXCEPT !.groups = gs], <<u, gs>>)

DeleteUser(u) ==
    IF u = "root" THEN Refuse /\ UNCHANGED accountVars
    ELSE One("delete", u, Exists(u), NoAccount, u)

LockUser(u) ==
    IF u = "root" THEN Refuse /\ UNCHANGED accountVars
    ELSE One("lock", u, Exists(u), [account[u] EXCEPT !.locked = TRUE], u)

UnlockUser(u) == One("unlock", u, Exists(u), UsermodU(account[u]), u)

CreateGroup(g) ==
    /\ \E c \in Chain(IF g \in group THEN 0 ELSE 1) :
        /\ group' = IF c.done = 1 THEN group \cup {g} ELSE group
        /\ Answer("create_group", g, c.ok /\ g \notin group)
    /\ UNCHANGED account

\* delete_group; groupdel takes the group's members with it.
DeleteGroup(g) ==
    /\ IF g \in SystemGroup \/ g \notin group
       THEN Refuse /\ UNCHANGED accountVars
       ELSE \E c \in Chain(1) :
                /\ group' = IF c.done = 1 THEN group \ {g} ELSE group
                /\ account' = IF c.done = 0 THEN account
                              ELSE [u \in User |-> IF Exists(u) THEN [account[u] EXCEPT !.groups = @ \ {g}]
                                                   ELSE account[u]]
                /\ Answer("delete_group", g, c.ok)

AccountsNext ==
    \/ \E u \in User :
        \/ \E gs \in SUBSET Group, setPw \in BOOLEAN, force \in BOOLEAN : CreateUser(u, gs, setPw, force)
        \/ \E gs \in SUBSET Group : ModifyUser(u, gs)
        \/ \E force \in BOOLEAN : SetPassword(u, force)
        \/ DeleteUser(u) \/ LockUser(u) \/ UnlockUser(u)
    \/ \E g \in Group : CreateGroup(g) \/ DeleteGroup(g)

-----------------------------------------------------------------------------
(* Properties. *)

\* An account change reported as done is done in all its commands: a new account has the
\* password, the groups and the forced change that were asked for, and an account given a
\* password can be used, with a change forced if asked (users.rs).
AccountOkIsDone ==
    /\ Told("accounts", "create") =>
        LET a == account[reply.arg[1]] IN
        /\ a.groups = reply.arg[2]
        /\ a.password = reply.arg[3] /\ a.locked = ~reply.arg[3]
        /\ a.expired = (reply.arg[3] /\ reply.arg[4])
    /\ Told("accounts", "set_password") =>
        LET a == account[reply.arg[1]] IN a.password /\ ~a.locked /\ a.expired = reply.arg[2]
    /\ Told("accounts", "unlock") => LET a == account[reply.arg] IN a.password => ~a.locked
=============================================================================
