------------------------------- MODULE Employees -------------------------------
(***************************************************************************)
(* The employees page over the server's tables: the rows that employees.tsx *)
(* keeps of what was saved in it (there is no list to load), its dialogs,  *)
(* and requests that other clients send to the same handlers.              *)
(*                                                                         *)
(* A request that the page waits for is from "save" or "remove"; when the  *)
(* page is left, or the connection is lost, the handler goes on, and its   *)
(* answer is nobody's.  React has rendered the disabled button before the  *)
(* next click.                                                             *)
(***************************************************************************)
EXTENDS Directory

CONSTANT Blank

VARIABLES
    form, saving, deleting, removing,   \* of RecordForm
    records,    \* the page's rows
    from,       \* slot -> who waits for its answer
    foreign     \* history: employees that another client, a lost answer, or a
                \* save and a deletion at the same time have changed

vars == <<dirVars, form, saving, deleting, removing, records, from, foreign>>
pageVars == <<form, saving, deleting, removing, records>>

Form == INSTANCE RecordForm WITH
            Fields <- {"user", "code"}, Values <- Users \cup CodeIds,
            NotOnEdit <- {"user"}, Unread <- {}, Ids <- EmpIds

ASSUME EmployeesAssumption ==
    /\ Blank \notin Users \cup CodeIds
    /\ None \notin Row \cup [id : EmpIds \cup {None}, values : Form!Filled]

AsRecord(r) == [id |-> r.id, values |-> [user |-> r.user, code |-> r.code]]

EmployeesInit ==
    /\ Init /\ Form!Init
    /\ records = {}
    /\ from = [s \in Slots |-> "other"]
    /\ foreign = {}

-----------------------------------------------------------------------------
(***************************************************************************)
(* Rows.                                                                   *)
(***************************************************************************)
UpsertAdds(emp) == records \cup {emp}   \* mutant: an edit adds a row

\* The order of the rows is not kept.
Upsert(emp) == {IF r.id = emp.id THEN emp ELSE r : r \in records} \cup {emp}

Without(id) == {r \in records : r.id # id}

-----------------------------------------------------------------------------
(***************************************************************************)
(* Clicks.                                                                 *)
(***************************************************************************)
\* A field takes values of its own kind: the selects, or a pasted UUID.
Kinds == form'.values \in [user : Users \cup {Blank}, code : CodeIds \cup {Blank}]

OnForm ==
    /\ \/ Form!OnForm /\ Kinds
       \/ \E r \in records : Form!OpenEdit(AsRecord(r)) \/ Form!AskDelete(r.id)
    /\ UNCHANGED <<dirVars, records, from, foreign>>

SaveRequest ==
    IF form.editing = None
      THEN [op |-> "create employee", user |-> form.values.user, code |-> form.values.code]
      ELSE [op |-> "update employee", id |-> form.editing, code |-> form.values.code]

Posts(s, who, m) == Receives(s, m) /\ from' = [from EXCEPT ![s] = who]

BeingSaved == IF saving = None THEN {} ELSE {saving.id} \cap EmpIds

Save(s) ==
    /\ Form!Submit
    /\ Posts(s, "save", SaveRequest)
    /\ foreign' = foreign \cup ({form.editing} \cap {removing} \cap EmpIds)
    /\ UNCHANGED records

Remove(s) ==
    /\ Form!ConfirmDelete
    /\ Posts(s, "remove", [op |-> "delete employee", id |-> deleting])
    /\ foreign' = foreign \cup (BeingSaved \cap {deleting})
    /\ UNCHANGED records

\* The page is left: what it has sent is answered to nobody.
Leave ==
    /\ Form!Remount /\ records' = {}
    /\ from' = [s \in Slots |-> "other"]
    /\ UNCHANGED <<dirVars, foreign>>

-----------------------------------------------------------------------------
(***************************************************************************)
(* Answers.                                                                *)
(***************************************************************************)
IsAnswered(s, who, pc) == from[s] = who /\ req[s] # Idle /\ req[s].pc = pc

\* The employee that an accepted request has changed.
Changed(s) ==
    IF req[s].pc # "ok" THEN {}
    ELSE IF req[s].row # None THEN {req[s].row.id} ELSE {req[s].msg.id} \cap EmpIds

Takes(s) == Answered(s) /\ from' = [from EXCEPT ![s] = "other"]

\* The answer has the row as the statement has left it, not as it is now.
Saved(s) ==
    /\ IsAnswered(s, "save", "ok")
    /\ Form!SaveSucceeds
    /\ records' = Upsert(req[s].row)
    /\ Takes(s)
    /\ UNCHANGED foreign

Removed(s) ==
    /\ IsAnswered(s, "remove", "ok")
    /\ Form!DeleteSucceeds
    /\ records' = Without(removing)
    /\ Takes(s)
    /\ UNCHANGED foreign

Refused(s) ==
    /\ \/ IsAnswered(s, "save", "refused") /\ Form!SaveFails
       \/ IsAnswered(s, "remove", "refused") /\ Form!DeleteFails
    /\ Takes(s)
    /\ UNCHANGED <<records, foreign>>

\* The connection is lost: the page sees a failure, whatever the server does.
Lost(s) ==
    /\ req[s] # Idle
    /\ \/ from[s] = "save" /\ Form!SaveFails
       \/ from[s] = "remove" /\ Form!DeleteFails
    /\ from' = [from EXCEPT ![s] = "other"]
    /\ foreign' = foreign \cup Changed(s)
    /\ UNCHANGED <<dirVars, records>>

-----------------------------------------------------------------------------
(***************************************************************************)
(* The server, and the other clients.                                      *)
(***************************************************************************)
Server(s) ==
    /\ Handles(s)
    /\ foreign' = IF from[s] = "other"
                    THEN foreign \cup {e \in EmpIds : employees'[e] # employees[e]}
                    ELSE foreign
    /\ UNCHANGED <<pageVars, from>>

Others(s) ==
    /\ \/ \E m \in Requests : Receives(s, m)
       \/ from[s] = "other" /\ Answered(s)
    /\ UNCHANGED <<pageVars, from, foreign>>

EmployeesNext ==
    \/ OnForm \/ Leave
    \/ \E s \in Slots :
         \/ Save(s) \/ Remove(s)
         \/ Saved(s) \/ Removed(s) \/ Refused(s) \/ Lost(s)
         \/ Server(s) \/ Others(s)

EmployeesSpec == EmployeesInit /\ [][EmployeesNext]_vars

-----------------------------------------------------------------------------
(***************************************************************************)
(* Every variable stays in its set, and the page waits for a request       *)
(* exactly while the request, or its answer, is there.                     *)
(***************************************************************************)
WaitsFor(who) == {s \in Slots : from[s] = who}

EmployeesTypeOK ==
    /\ TypeOK /\ Form!TypeOK
    /\ records \subseteq Row
    /\ foreign \subseteq EmpIds
    /\ from \in [Slots -> {"save", "remove", "other"}]
    /\ saving # None <=> WaitsFor("save") # {}
    /\ removing # None <=> WaitsFor("remove") # {}

(***************************************************************************)
(* A row of the page is the record that the server has, with the values    *)
(* that were saved last: unless another client has changed it, or the      *)
(* answer was lost, or it was saved and deleted at the same time.  The     *)
(* page never loads a record, so nothing puts a wrong row right.           *)
(***************************************************************************)
RowsAreTheServers ==
    \A r \in records :
        \/ r.id \in foreign \cup BeingSaved \cup {removing}
        \/ r.id \in Rows /\ employees[r.id] = [user |-> r.user, code |-> r.code]

(***************************************************************************)
(* What was typed is not lost: while a save is under way, and when it has  *)
(* failed, the form stays open until it is cancelled or the page is left.  *)
(***************************************************************************)
DraftSurvivesFailure ==
    [][form.open /\ ~form'.open
         => \/ Form!Cancel \/ Leave
            \/ \E s \in Slots : IsAnswered(s, "save", "ok")]_vars

=============================================================================
