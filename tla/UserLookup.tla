----------------------------- MODULE UserLookup -----------------------------
(***************************************************************************)
(* The two handlers that read one user, GetUserByID and                    *)
(* GetCurrentUserByToken (users_handler.go).  Both parse the id they are   *)
(* asked for into the package variable parsedID and hand its value to the  *)
(* query, so that requests served at the same time share it with nothing   *)
(* to order their accesses: a data race.                                   *)
(*                                                                         *)
(* A pgtype.UUID is 16 bytes that no machine word holds, so a write or a   *)
(* copy of it is two steps here, one per half; an id is one value for      *)
(* either half, and a mixed pair of halves is the id of nobody.            *)
(***************************************************************************)
CONSTANTS
    Requests,   \* calls of the two handlers
    Ids,        \* well-formed ids
    Live,       \* the ids of users that are not deleted
    BadId,      \* stands for a string that is no uuid
    Nothing     \* stands for no id, no half and no answer

ASSUME LiveAssumption == Live \subseteq Ids
ASSUME NothingAssumption == BadId \notin Ids /\ Nothing \notin Ids \cup {BadId}

VARIABLES
    parsedID,   \* the package variable, its halves
    asked,      \* the id in the path (GetUserByID) or in the claims (/me)
    me,         \* the requests of GetCurrentUserByToken
    pc,         \* where each request is
    copy,       \* the id a request hands to the query
    answer,     \* the user a request is answered with, Nothing for none
    rivals      \* history: the requests served at the same time as this one

vars == <<parsedID, asked, me, pc, copy, answer, rivals>>

Halves == [hi : Ids \cup {Nothing}, lo : Ids \cup {Nothing}]

NoHalves == [hi |-> Nothing, lo |-> Nothing]

PCs == {"idle", "scan", "scanning", "read", "reading", "query", "done"}

InService(r) == pc[r] \notin {"idle", "done"}

Init ==
    /\ parsedID = NoHalves
    /\ asked = [r \in Requests |-> Nothing]
    /\ me = {}
    /\ pc = [r \in Requests |-> "idle"]
    /\ copy = [r \in Requests |-> NoHalves]
    /\ answer = [r \in Requests |-> Nothing]
    /\ rivals = [r \in Requests |-> {}]

\* A request comes in; those in service see it and it sees them.
Arrive(r, id) ==
    /\ pc[r] = "idle"
    /\ asked' = [asked EXCEPT ![r] = id]
    /\ pc' = [pc EXCEPT ![r] = "scan"]
    /\ rivals' = [q \in Requests |->
                    IF q = r THEN {x \in Requests : InService(x)}
                    ELSE IF InService(q) THEN rivals[q] \cup {r}
                    ELSE rivals[q]]
    /\ UNCHANGED <<parsedID, copy, answer>>

\* Ids of path parameters are unchecked, those of claims were put there by
\* the backend.
GetUserByID(r) == (\E id \in Ids \cup {BadId} : Arrive(r, id)) /\ UNCHANGED me

GetCurrentUserByToken(r) ==
    (\E id \in Ids : Arrive(r, id)) /\ me' = me \cup {r}

Goto(r, next) == pc' = [pc EXCEPT ![r] = next]

Finish(r, a) == Goto(r, "done") /\ answer' = [answer EXCEPT ![r] = a]

\* parsedID.Scan leaves the variable alone when the string does not parse.
ScanFailsOn(r) ==       \* mutant: 400 is written, but the handler goes on
    /\ pc[r] = "scan"
    /\ asked[r] = BadId
    /\ Goto(r, "read")
    /\ UNCHANGED <<parsedID, asked, me, copy, answer, rivals>>

ScanFails(r) ==
    /\ pc[r] = "scan"
    /\ asked[r] = BadId
    /\ Finish(r, Nothing)
    /\ UNCHANGED <<parsedID, asked, me, copy, rivals>>

ScanHigh(r) ==
    /\ pc[r] = "scan"
    /\ asked[r] # BadId
    /\ parsedID' = [parsedID EXCEPT !.hi = asked[r]]
    /\ Goto(r, "scanning")
    /\ UNCHANGED <<asked, me, copy, answer, rivals>>

ScanLow(r) ==
    /\ pc[r] = "scanning"
    /\ parsedID' = [parsedID EXCEPT !.lo = asked[r]]
    /\ Goto(r, "read")
    /\ UNCHANGED <<asked, me, copy, answer, rivals>>

ReadHigh(r) ==
    /\ pc[r] = "read"
    /\ copy' = [copy EXCEPT ![r].hi = parsedID.hi]
    /\ Goto(r, "reading")
    /\ UNCHANGED <<parsedID, asked, me, answer, rivals>>

ReadLow(r) ==
    /\ pc[r] = "reading"
    /\ copy' = [copy EXCEPT ![r].lo = parsedID.lo]
    /\ Goto(r, "query")
    /\ UNCHANGED <<parsedID, asked, me, answer, rivals>>

\* GetUserByID of auth.sql: the row WHERE id = $1 AND deleted_at IS NULL.
Found(id) == {u \in Live : id = [hi |-> u, lo |-> u]}

QueryFinds(r) ==
    /\ pc[r] = "query"
    /\ \E u \in Found(copy[r]) : Finish(r, u)
    /\ UNCHANGED <<parsedID, asked, me, copy, rivals>>

\* No row, or an error of the database.
QueryFails(r) ==
    /\ pc[r] = "query"
    /\ Finish(r, Nothing)
    /\ UNCHANGED <<parsedID, asked, me, copy, rivals>>

Finished ==
    /\ \A r \in Requests : pc[r] = "done"
    /\ UNCHANGED vars

Serve(r) ==
    \/ ScanFails(r)
    \/ ScanHigh(r)
    \/ ScanLow(r)
    \/ ReadHigh(r)
    \/ ReadLow(r)
    \/ QueryFinds(r)
    \/ QueryFails(r)

Next ==
    \/ \E r \in Requests :
         GetUserByID(r) \/ GetCurrentUserByToken(r) \/ Serve(r)
    \/ Finished

Spec == Init /\ [][Next]_vars

-----------------------------------------------------------------------------
(***************************************************************************)
(* Every variable stays in its set.                                        *)
(***************************************************************************)
TypeOK ==
    /\ parsedID \in Halves
    /\ asked \in [Requests -> Ids \cup {BadId, Nothing}]
    /\ me \in SUBSET Requests
    /\ pc \in [Requests -> PCs]
    /\ copy \in [Requests -> Halves]
    /\ answer \in [Requests -> Live \cup {Nothing}]
    /\ rivals \in [Requests -> SUBSET Requests]

(***************************************************************************)
(* A request is answered with the user it asked for or with one that a     *)
(* request served at the same time asked for: it writes the variable       *)
(* before it reads it, so nothing from before it came in is left there,    *)
(* and a torn id is nobody's.                                              *)
(***************************************************************************)
AnswerIsOwnOrRivals ==
    \A r \in Requests :
        answer[r] # Nothing =>
            \E q \in {r} \cup rivals[r] : asked[q] = answer[r]

(***************************************************************************)
(* "GET /me -- current user's own profile" (endpoints.md).                 *)
(***************************************************************************)
MeIsMe == \A r \in me : answer[r] \in {asked[r], Nothing}

=============================================================================
