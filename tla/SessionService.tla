---------------------------- MODULE SessionService ----------------------------
(***************************************************************************)
(* What the backend promises the web client about sessions, as one step    *)
(* each: a login opens a session, a logout closes it for good, and a       *)
(* refresh is granted only if, at some moment between its request and its  *)
(* answer, the session was open.                                           *)
(*                                                                         *)
(* AuthSessions implements this with its tables and the steps of its       *)
(* handlers; WebSession relies on it, and on nothing else, for the server  *)
(* it does not model.  Why a request is denied (the token has expired, the *)
(* database or the network fails) is left open.                            *)
(***************************************************************************)
CONSTANTS
    Clients,    \* requests under way at a time
    Sessions,
    None        \* no session

VARIABLES
    opened,     \* the sessions a login has opened
    closed,     \* those a logout has closed
    asked       \* the refresh under way of each client

vars == <<opened, closed, asked>>

Unasked == [state |-> "none", session |-> None]

Init == opened = {} /\ closed = {} /\ asked = [c \in Clients |-> Unasked]

Open(s) ==
    /\ s \notin opened
    /\ opened' = opened \cup {s}
    /\ UNCHANGED <<closed, asked>>

Close(s) ==
    /\ s \in opened
    /\ closed' = closed \cup {s}
    /\ UNCHANGED <<opened, asked>>

\* A client has its refresh token from the login.
Ask(c, s) ==
    /\ asked[c] = Unasked
    /\ s \in opened
    /\ asked' = [asked EXCEPT ![c] = [state |-> "sent", session |-> s]]
    /\ UNCHANGED <<opened, closed>>

Grant(c) ==
    /\ asked[c].state = "sent"
    /\ asked[c].session \in opened \ closed
    /\ asked' = [asked EXCEPT ![c].state = "granted"]
    /\ UNCHANGED <<opened, closed>>

Deny(c) ==
    /\ asked[c].state = "sent"
    /\ asked' = [asked EXCEPT ![c].state = "denied"]
    /\ UNCHANGED <<opened, closed>>

\* Answers are taken, or clients go away without one.
Done(C) ==
    /\ asked' = [c \in Clients |-> IF c \in C THEN Unasked ELSE asked[c]]
    /\ UNCHANGED <<opened, closed>>

Next ==
    \/ \E s \in Sessions : Open(s) \/ Close(s)
    \/ \E c \in Clients : Grant(c) \/ Deny(c) \/ \E s \in Sessions : Ask(c, s)
    \/ \E C \in SUBSET Clients : Done(C)

Spec == Init /\ [][Next]_vars

=============================================================================
