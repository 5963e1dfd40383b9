----------------------------- MODULE RoleClients -----------------------------
(***************************************************************************)
(* What TelegramRuntime promises to those who use its clients: one task at *)
(* a time has the client of a role, and the client it has is neither       *)
(* closed nor exchanged until it gives it back.                            *)
(***************************************************************************)
CONSTANTS Roles, Tasks, Clients, None

VARIABLES
    user,    \* the task that has the role's client, or None
    client   \* the role's client, or None

vars == <<user, client>>

TypeOK ==
    /\ user \in [Roles -> Tasks \cup {None}]
    /\ client \in [Roles -> Clients \cup {None}]

Init ==
    /\ user = [r \in Roles |-> None]
    /\ client = [r \in Roles |-> None]

Open(r, c) ==
    /\ user[r] = None
    /\ client' = [client EXCEPT ![r] = c]
    /\ UNCHANGED user

Close(r) ==
    /\ user[r] = None
    /\ client' = [client EXCEPT ![r] = None]
    /\ UNCHANGED user

Take(r, t, c) ==
    /\ user[r] = None
    /\ user' = [user EXCEPT ![r] = t]
    /\ client' = [client EXCEPT ![r] = c]

Give(r) ==
    /\ user' = [user EXCEPT ![r] = None]
    /\ UNCHANGED client

Next ==
    \E r \in Roles :
        \/ Close(r)
        \/ Give(r)
        \/ \E c \in Clients : Open(r, c)
        \/ \E t \in Tasks, c \in Clients : Take(r, t, c)

Spec == Init /\ [][Next]_vars
=============================================================================
