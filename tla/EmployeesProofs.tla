----------------------------- MODULE EmployeesProofs -----------------------------
(***************************************************************************)
(* Proofs about Directory and about Employees, for any number of requests  *)
(* at a time, any users, ids, codes and records, any other clients and any *)
(* number of attempts.                                                     *)
(*                                                                         *)
(* The directory: the constraints of the tables hold whatever the handlers *)
(* have checked before, so the inductive invariant is the types and the    *)
(* three constraints themselves; a request that has been checked needs no  *)
(* assertion of its own.                                                   *)
(*                                                                         *)
(* The page: it sends the server nothing but requests that Directory       *)
(* knows, so that it implements Directory, and the rows it shows are those *)
(* of the server. The second takes an invariant over the request that the  *)
(* page waits for: until its answer is taken, the server may be ahead of   *)
(* the row by exactly that request; and a record that is created while the *)
(* page works on others is none of those.                                  *)
(***************************************************************************)
EXTENDS Employees, TLAPS

-----------------------------------------------------------------------------
\* The inductive invariant.
Inv == TypeOK /\ OneEmployeePerUser /\ CodeOfEmployeeExists /\ CodesAreUnique

\* A request in service is Handling, and has the fields of its kind.
LEMMA InService ==
    ASSUME TypeOK, NEW s \in Slots, req[s] # Idle
    PROVE  /\ req[s] \in Handling
           /\ req[s].msg.op = "create employee" =>
                req[s].msg.user \in Users /\ req[s].msg.code \in CodeIds
           /\ req[s].msg.op = "update employee" =>
                req[s].msg.id \in EmpIds /\ req[s].msg.code \in CodeIds
           /\ req[s].msg.op = "delete employee" => req[s].msg.id \in EmpIds
           /\ req[s].msg.op \in {"update code", "delete code"} =>
                req[s].msg.id \in CodeIds
<1>1. req[s] \in Handling
  BY DEF TypeOK
<1>2. req[s].msg \in Requests
  BY <1>1 DEF Handling
<1>3. CASE req[s].msg \in [op : {"create employee"}, user : Users, code : CodeIds]
  BY <1>1, <1>3
<1>4. CASE req[s].msg \in [op : {"update employee"}, id : EmpIds, code : CodeIds]
  BY <1>1, <1>4
<1>5. CASE req[s].msg \in [op : {"delete employee"}, id : EmpIds]
  BY <1>1, <1>5
<1>6. CASE req[s].msg \in [op : {"create code"}]
  BY <1>1, <1>6
<1>7. CASE req[s].msg \in [op : {"update code", "delete code"}, id : CodeIds]
  BY <1>1, <1>7
<1> QED  BY <1>2, <1>3, <1>4, <1>5, <1>6, <1>7 DEF Requests

\* A row of employees is an employee, and one that is absent or gone is not.
LEMMA RowTypes ==
    ASSUME TypeOK
    PROVE  /\ \A e \in EmpIds : employees[e] \in Employees \cup {Absent, Gone}
           /\ \A c \in CodeIds : salaryCodes[c] \in Names \cup {Absent, Gone}
           /\ \A e \in Rows : employees[e].user \in Users /\ employees[e].code \in CodeIds
           /\ Absent \notin Employees /\ Gone \notin Employees
           /\ Absent \notin Names /\ Gone \notin Names
  BY DirectoryAssumption DEF TypeOK, Rows, Employees

\* A step that moves a request and writes no table.
LEMMA NoWriteInv ==
    ASSUME Inv, UNCHANGED <<employees, salaryCodes>>, req' \in [Slots -> Handling \cup {Idle}]
    PROVE  Inv'
<1>1. TypeOK'
  BY DEF Inv, TypeOK
<1>2. Rows' = Rows /\ Codes' = Codes
  BY DEF Rows, Codes
<1>3. OneEmployeePerUser' /\ CodeOfEmployeeExists' /\ CodesAreUnique'
  BY <1>2 DEF Inv, OneEmployeePerUser, CodeOfEmployeeExists, CodesAreUnique
<1> QED  BY <1>1, <1>3 DEF Inv

\* Handlers only go on, refuse, answer or try again.
LEMMA StepType ==
    ASSUME TypeOK, NEW s \in Slots, req[s] # Idle, NEW pc \in PCs, Step(s, pc)
    PROVE  req' \in [Slots -> Handling \cup {Idle}]
<1>1. req[s] \in Handling
  BY InService
<1>2. [req[s] EXCEPT !.pc = pc] \in Handling
  BY <1>1 DEF Handling
<1> QED  BY <1>2 DEF TypeOK, Step

LEMMA RefuseInv ==
    ASSUME Inv, NEW s \in Slots, req[s] # Idle, Refuse(s)
    PROVE  Inv'
<1>1. TypeOK /\ Step(s, "refused") /\ "refused" \in PCs
  BY DEF Inv, Refuse, PCs
<1>2. req' \in [Slots -> Handling \cup {Idle}]
  BY <1>1, StepType
<1> QED  BY <1>2, NoWriteInv DEF Refuse

\* The INSERT of an employee: its user has none, and its code is there.
LEMMA CreateEmployeeInv ==
    ASSUME Inv, NEW s \in Slots, CreateEmployee(s)
    PROVE  Inv'
<1> DEFINE m == req[s].msg
<1>1. /\ TypeOK /\ req[s] # Idle
      /\ req[s] \in Handling
      /\ m.user \in Users /\ m.code \in CodeIds
  BY InService DEF Inv, CreateEmployee, At
<1>2. CASE Refuse(s)
  BY <1>1, <1>2, RefuseInv
<1>3. CASE /\ Insertable(m.user, m.code)
           /\ \E e \in EmpIds :
                /\ employees[e] = Absent
                /\ employees' = [employees EXCEPT ![e] = [user |-> m.user, code |-> m.code]]
                /\ Returns(s, e, employees'[e])
           /\ UNCHANGED salaryCodes
  <2>1. PICK e \in EmpIds :
          /\ employees[e] = Absent
          /\ employees' = [employees EXCEPT ![e] = [user |-> m.user, code |-> m.code]]
          /\ Returns(s, e, employees'[e])
    BY <1>3
  <2>2. /\ employees'[e] = [user |-> m.user, code |-> m.code]
        /\ employees'[e] \in Employees
        /\ \A d \in EmpIds \ {e} : employees'[d] = employees[d]
    BY <1>1, <2>1 DEF TypeOK, Employees
  <2>3. e \notin Rows /\ Rows' = Rows \cup {e} /\ Codes' = Codes
    BY <1>1, <1>3, <2>1, <2>2, RowTypes DEF Rows, Codes
  <2>4. TypeOK'
    <3>1. employees' \in [EmpIds -> Employees \cup {Absent, Gone}]
      BY <1>1, <2>1, <2>2 DEF TypeOK
    <3>2. [req[s] EXCEPT !.pc = "ok",
                         !.row = [id |-> e, user |-> m.user, code |-> m.code]] \in Handling
      BY <1>1 DEF Handling, Row, PCs
    <3>3. req' \in [Slots -> Handling \cup {Idle}]
      BY <1>1, <2>1, <2>2, <3>2 DEF TypeOK, Returns
    <3> QED  BY <1>1, <1>3, <3>1, <3>3 DEF TypeOK
  <2>5. OneEmployeePerUser'
    <3>1. \A d \in Rows : employees[d].user # m.user
      BY <1>3 DEF Insertable, HasEmployee
    <3> QED
      BY <2>2, <2>3, <3>1 DEF Inv, OneEmployeePerUser, Rows
  <2>6. CodeOfEmployeeExists'
    BY <1>3, <2>2, <2>3 DEF Inv, CodeOfEmployeeExists, Insertable, Rows
  <2>7. CodesAreUnique'
    BY <1>3, <2>3 DEF Inv, CodesAreUnique
  <2> QED  BY <2>4, <2>5, <2>6, <2>7 DEF Inv
<1> QED  BY <1>2, <1>3 DEF CreateEmployee

\* The UPDATE of an employee: the user stays, and the new code is there.
LEMMA UpdateEmployeeInv ==
    ASSUME Inv, NEW s \in Slots, UpdateEmployee(s)
    PROVE  Inv'
<1> DEFINE m == req[s].msg
<1>1. /\ TypeOK /\ req[s] # Idle
      /\ req[s] \in Handling
      /\ m.id \in EmpIds /\ m.code \in CodeIds
  BY InService DEF Inv, UpdateEmployee, At
<1>2. CASE Refuse(s)
  BY <1>1, <1>2, RefuseInv
<1>3. CASE /\ m.id \in Rows /\ m.code \in Codes
           /\ employees' = [employees EXCEPT ![m.id] = [@ EXCEPT !.code = m.code]]
           /\ Returns(s, m.id, employees'[m.id])
           /\ UNCHANGED salaryCodes
  <2>1. employees[m.id] \in Employees
    BY <1>3 DEF Rows
  <2>2. /\ employees'[m.id] = [user |-> employees[m.id].user, code |-> m.code]
        /\ employees'[m.id] \in Employees
        /\ \A d \in EmpIds \ {m.id} : employees'[d] = employees[d]
    BY <1>1, <1>3, <2>1 DEF TypeOK, Employees
  <2>3. Rows' = Rows /\ Codes' = Codes
    BY <1>1, <1>3, <2>1, <2>2 DEF Rows, Codes
  <2>4. TypeOK'
    <3>1. employees' \in [EmpIds -> Employees \cup {Absent, Gone}]
      BY <1>1, <1>3, <2>2 DEF TypeOK
    <3>2. [req[s] EXCEPT !.pc = "ok",
                         !.row = [id |-> m.id, user |-> employees'[m.id].user,
                                  code |-> employees'[m.id].code]] \in Handling
      BY <1>1, <2>1, <2>2 DEF Handling, Row, PCs, Employees
    <3>3. req' \in [Slots -> Handling \cup {Idle}]
      BY <1>1, <1>3, <3>2 DEF TypeOK, Returns
    <3> QED  BY <1>1, <1>3, <3>1, <3>3 DEF TypeOK
  <2>5. OneEmployeePerUser'
    BY <2>2, <2>3 DEF Inv, OneEmployeePerUser, Rows
  <2>6. CodeOfEmployeeExists'
    BY <1>3, <2>2, <2>3 DEF Inv, CodeOfEmployeeExists, Rows
  <2>7. CodesAreUnique'
    BY <1>3, <2>3 DEF Inv, CodesAreUnique
  <2> QED  BY <2>4, <2>5, <2>6, <2>7 DEF Inv
<1> QED  BY <1>2, <1>3 DEF UpdateEmployee

\* The DELETE of an employee takes a row out of every constraint.
LEMMA DeleteEmployeeInv ==
    ASSUME Inv, NEW s \in Slots, DeleteEmployee(s)
    PROVE  Inv'
<1> DEFINE id == req[s].msg.id
<1>1. TypeOK /\ req[s] # Idle /\ id \in EmpIds
  BY InService DEF Inv, DeleteEmployee, At
<1>2. CASE Refuse(s)
  BY <1>1, <1>2, RefuseInv
<1>3. CASE /\ id \in Rows
           /\ employees' = [employees EXCEPT ![id] = Gone]
           /\ Step(s, "ok")
           /\ UNCHANGED salaryCodes
  <2>1. employees'[id] = Gone /\ \A d \in EmpIds \ {id} : employees'[d] = employees[d]
    BY <1>1, <1>3 DEF TypeOK
  <2>2. Rows' = Rows \ {id} /\ Codes' = Codes
    BY <1>1, <1>3, <2>1, RowTypes DEF Rows, Codes
  <2>3. TypeOK'
    <3>1. req' \in [Slots -> Handling \cup {Idle}]
      BY <1>1, <1>3, StepType DEF PCs
    <3> QED  BY <1>1, <1>3, <3>1 DEF TypeOK
  <2>4. OneEmployeePerUser' /\ CodeOfEmployeeExists' /\ CodesAreUnique'
    BY <1>3, <2>1, <2>2
    DEF Inv, OneEmployeePerUser, CodeOfEmployeeExists, CodesAreUnique, Rows
  <2> QED  BY <2>3, <2>4 DEF Inv
<1> QED  BY <1>2, <1>3 DEF DeleteEmployee

\* The INSERT of a salary code, with a code that no other has.
LEMMA CreateSalaryCodeInv ==
    ASSUME Inv, NEW s \in Slots, CreateSalaryCode(s)
    PROVE  Inv'
<1>1. TypeOK /\ req[s] # Idle /\ req[s] \in Handling
  BY InService DEF Inv, CreateSalaryCode, At
<1>2. PICK n \in Names :
        \/ Taken(n) /\ Collides(s)
        \/ /\ ~Taken(n)
           /\ \E c \in CodeIds :
                /\ salaryCodes[c] = Absent
                /\ salaryCodes' = [salaryCodes EXCEPT ![c] = n]
           /\ Step(s, "ok")
           /\ UNCHANGED employees
  BY DEF CreateSalaryCode
<1>3. CASE Collides(s)
  <2>1. CASE Refuse(s)
    BY <1>1, <2>1, RefuseInv
  <2>2. CASE /\ req[s].attempt < Attempts
             /\ req' = [req EXCEPT ![s].attempt = @ + 1]
             /\ UNCHANGED <<employees, salaryCodes>>
    <3>1. req[s].attempt + 1 \in 1 .. Attempts
      BY <1>1, <2>2, DirectoryAssumption DEF Handling
    <3>2. [req[s] EXCEPT !.attempt = @ + 1] \in Handling
      BY <1>1, <3>1 DEF Handling
    <3>3. req' \in [Slots -> Handling \cup {Idle}]
      BY <1>1, <2>2, <3>2 DEF TypeOK
    <3> QED  BY <2>2, <3>3, NoWriteInv
  <2> QED  BY <1>3, <2>1, <2>2 DEF Collides
<1>4. CASE /\ ~Taken(n)
           /\ \E c \in CodeIds :
                /\ salaryCodes[c] = Absent
                /\ salaryCodes' = [salaryCodes EXCEPT ![c] = n]
           /\ Step(s, "ok")
           /\ UNCHANGED employees
  <2>1. PICK c \in CodeIds :
          salaryCodes[c] = Absent /\ salaryCodes' = [salaryCodes EXCEPT ![c] = n]
    BY <1>4
  <2>2. salaryCodes'[c] = n /\ \A b \in CodeIds \ {c} : salaryCodes'[b] = salaryCodes[b]
    BY <1>1, <2>1 DEF TypeOK
  <2>3. c \notin Codes /\ Codes' = Codes \cup {c} /\ Rows' = Rows
    BY <1>1, <1>4, <2>1, <2>2, RowTypes DEF Codes, Rows
  <2>4. TypeOK'
    <3>1. req' \in [Slots -> Handling \cup {Idle}]
      BY <1>1, <1>4, StepType DEF PCs
    <3> QED  BY <1>1, <1>4, <2>1, <3>1 DEF TypeOK
  <2>5. OneEmployeePerUser' /\ CodeOfEmployeeExists'
    BY <1>4, <2>3 DEF Inv, OneEmployeePerUser, CodeOfEmployeeExists
  <2>6. CodesAreUnique'
    BY <1>4, <2>2, <2>3 DEF Inv, CodesAreUnique, Taken, Codes
  <2> QED  BY <2>4, <2>5, <2>6 DEF Inv
<1> QED  BY <1>2, <1>3, <1>4

\* The DELETE of a salary code: the foreign key lets no employee keep it.
LEMMA DeleteSalaryCodeInv ==
    ASSUME Inv, NEW s \in Slots, DeleteSalaryCode(s)
    PROVE  Inv'
<1> DEFINE id == req[s].msg.id
<1>1. TypeOK /\ req[s] # Idle /\ id \in CodeIds
  BY InService DEF Inv, DeleteSalaryCode, At
<1>2. CASE Refuse(s)
  BY <1>1, <1>2, RefuseInv
<1>3. CASE /\ Deletable(id)
           /\ salaryCodes' = [salaryCodes EXCEPT ![id] = Gone]
           /\ Step(s, "ok")
           /\ UNCHANGED employees
  <2>1. salaryCodes'[id] = Gone /\ \A b \in CodeIds \ {id} : salaryCodes'[b] = salaryCodes[b]
    BY <1>1, <1>3 DEF TypeOK
  <2>2. Codes' = Codes \ {id} /\ Rows' = Rows
    BY <1>1, <1>3, <2>1, RowTypes DEF Codes, Rows
  <2>3. TypeOK'
    <3>1. req' \in [Slots -> Handling \cup {Idle}]
      BY <1>1, <1>3, StepType DEF PCs
    <3> QED  BY <1>1, <1>3, <3>1 DEF TypeOK
  <2>4. OneEmployeePerUser' /\ CodesAreUnique'
    BY <1>3, <2>1, <2>2 DEF Inv, OneEmployeePerUser, CodesAreUnique, Codes
  <2>5. CodeOfEmployeeExists'
    BY <1>3, <2>2 DEF Inv, CodeOfEmployeeExists, Deletable, References
  <2> QED  BY <2>3, <2>4, <2>5 DEF Inv
<1> QED  BY <1>2, <1>3 DEF DeleteSalaryCode

\* The steps that only check, and UpdateSalaryCode, whose columns are not here.
LEMMA CheckInv ==
    ASSUME Inv, NEW s \in Slots,
           \/ GetEmployeeByUserID(s) \/ UpdateSalaryCode(s)
           \/ CountEmployees(s) \/ StatementFails(s)
    PROVE  Inv'
<1>1. TypeOK /\ req[s] # Idle
  BY DEF Inv, GetEmployeeByUserID, UpdateSalaryCode, CountEmployees, StatementFails, At
<1>2. CASE Refuse(s)
  BY <1>1, <1>2, RefuseInv
<1>3. ASSUME NEW pc \in PCs, Step(s, pc), UNCHANGED <<employees, salaryCodes>>
      PROVE  Inv'
  <2>1. req' \in [Slots -> Handling \cup {Idle}]
    BY <1>1, <1>3, StepType
  <2> QED  BY <1>3, <2>1, NoWriteInv
<1> QED
  BY <1>2, <1>3
  DEF GetEmployeeByUserID, UpdateSalaryCode, CountEmployees, StatementFails, PCs

\* A request comes in, or its answer goes out.
LEMMA RequestInv ==
    ASSUME Inv, NEW s \in Slots,
           Answered(s) \/ \E m \in Requests : Receives(s, m)
    PROVE  Inv'
<1>1. CASE Answered(s)
  <2>1. req' \in [Slots -> Handling \cup {Idle}]
    BY <1>1 DEF Inv, TypeOK, Answered
  <2> QED  BY <1>1, <2>1, NoWriteInv DEF Answered
<1>2. ASSUME NEW m \in Requests, Receives(s, m)
      PROVE  Inv'
  <2>1. [pc |-> "start", msg |-> m, attempt |-> 1, row |-> None] \in Handling
    BY DirectoryAssumption DEF Handling, PCs
  <2>2. req' \in [Slots -> Handling \cup {Idle}]
    BY <1>2, <2>1 DEF Inv, TypeOK, Receives
  <2> QED  BY <1>2, <2>2, NoWriteInv DEF Receives
<1> QED  BY <1>1, <1>2

LEMMA HandlesInv ==
    ASSUME Inv, NEW s \in Slots, Handles(s)
    PROVE  Inv'
  BY CreateEmployeeInv, UpdateEmployeeInv, DeleteEmployeeInv, CreateSalaryCodeInv,
     DeleteSalaryCodeInv, CheckInv
  DEF Handles

LEMMA NextInv ==
    ASSUME Inv, [Next]_dirVars
    PROVE  Inv'
<1>1. CASE UNCHANGED dirVars
  <2>1. req' \in [Slots -> Handling \cup {Idle}]
    BY <1>1 DEF Inv, TypeOK, dirVars
  <2> QED  BY <1>1, <2>1, NoWriteInv DEF dirVars
<1>2. CASE Next
  BY <1>2, HandlesInv, RequestInv DEF Next
<1> QED  BY <1>1, <1>2

LEMMA InitInv ==
    ASSUME Init
    PROVE  Inv
<1>1. TypeOK
  BY DEF Init, TypeOK
<1>2. Rows = {} /\ Codes = {}
  BY <1>1, RowTypes DEF Init, Rows, Codes
<1> QED
  BY <1>1, <1>2 DEF Inv, OneEmployeePerUser, CodeOfEmployeeExists, CodesAreUnique

\* What IdentitiesAreKept asks of a step, for each table.
KeepsCodes ==
    \A c \in CodeIds :
        salaryCodes[c] # Absent => salaryCodes'[c] \in {salaryCodes[c], Gone}

KeepsUsers ==
    \A e \in EmpIds :
        employees[e] # Absent =>
            \/ employees'[e] = Gone
            \/ e \in Rows /\ employees'[e] \in Employees
                          /\ employees'[e].user = employees[e].user

\* A table that is not written keeps what it has.
LEMMA UnchangedKeeps ==
    ASSUME TypeOK
    PROVE  /\ UNCHANGED salaryCodes => KeepsCodes
           /\ UNCHANGED employees => KeepsUsers
  BY RowTypes DEF KeepsCodes, KeepsUsers, Rows

\* Each of the five statements that write a table keeps its identities.
LEMMA StepKeeps ==
    ASSUME TypeOK, [Next]_dirVars
    PROVE  KeepsCodes /\ KeepsUsers
<1> USE UnchangedKeeps
<1>1. CASE UNCHANGED <<employees, salaryCodes>>
  BY <1>1
<1>2. ASSUME NEW s \in Slots, CreateEmployee(s)
      PROVE  KeepsCodes /\ KeepsUsers
  <2>1. CASE UNCHANGED <<employees, salaryCodes>>
    BY <2>1
  <2>2. CASE \E e \in EmpIds :
               /\ employees[e] = Absent
               /\ employees' = [employees EXCEPT ![e] =
                                   [user |-> req[s].msg.user, code |-> req[s].msg.code]]
               /\ UNCHANGED salaryCodes
    BY <2>2, RowTypes DEF TypeOK, KeepsUsers, Rows
  <2> QED  BY <1>2, <2>1, <2>2 DEF CreateEmployee, Refuse
<1>3. ASSUME NEW s \in Slots, UpdateEmployee(s)
      PROVE  KeepsCodes /\ KeepsUsers
  <2> DEFINE m == req[s].msg
  <2>1. CASE UNCHANGED <<employees, salaryCodes>>
    BY <2>1
  <2>2. CASE /\ m.id \in Rows /\ m.code \in Codes
             /\ employees' = [employees EXCEPT ![m.id] = [@ EXCEPT !.code = m.code]]
             /\ UNCHANGED salaryCodes
    <3>1. m.id \in EmpIds /\ m.code \in CodeIds /\ employees[m.id] \in Employees
      BY <2>2 DEF Rows, Codes
    <3>2. /\ employees'[m.id] = [user |-> employees[m.id].user, code |-> m.code]
          /\ \A d \in EmpIds \ {m.id} : employees'[d] = employees[d]
      BY <2>2, <3>1 DEF TypeOK, Employees
    <3>3. KeepsUsers
      BY <3>1, <3>2, RowTypes DEF KeepsUsers, Rows, Employees
    <3> QED  BY <2>2, <3>3
  <2> QED  BY <1>3, <2>1, <2>2 DEF UpdateEmployee, Refuse
<1>4. ASSUME NEW s \in Slots, DeleteEmployee(s)
      PROVE  KeepsCodes /\ KeepsUsers
  <2>1. \/ UNCHANGED <<employees, salaryCodes>>
        \/ /\ employees' = [employees EXCEPT ![req[s].msg.id] = Gone]
           /\ UNCHANGED salaryCodes
    BY <1>4 DEF DeleteEmployee, Refuse
  <2> QED  BY <2>1, RowTypes DEF TypeOK, KeepsUsers, Rows
<1>5. ASSUME NEW s \in Slots, CreateSalaryCode(s)
      PROVE  KeepsCodes /\ KeepsUsers
  <2>1. \/ UNCHANGED <<employees, salaryCodes>>
        \/ \E n \in Names, c \in CodeIds :
             /\ salaryCodes[c] = Absent
             /\ salaryCodes' = [salaryCodes EXCEPT ![c] = n]
             /\ UNCHANGED employees
    BY <1>5 DEF CreateSalaryCode, Collides, Refuse
  <2> QED  BY <2>1 DEF TypeOK, KeepsCodes
<1>6. ASSUME NEW s \in Slots, DeleteSalaryCode(s)
      PROVE  KeepsCodes /\ KeepsUsers
  <2>1. \/ UNCHANGED <<employees, salaryCodes>>
        \/ /\ salaryCodes' = [salaryCodes EXCEPT ![req[s].msg.id] = Gone]
           /\ UNCHANGED employees
    BY <1>6 DEF DeleteSalaryCode, Refuse
  <2> QED  BY <2>1 DEF TypeOK, KeepsCodes
<1>7. \/ UNCHANGED <<employees, salaryCodes>>
      \/ \E s \in Slots : \/ CreateEmployee(s) \/ UpdateEmployee(s) \/ DeleteEmployee(s)
                           \/ CreateSalaryCode(s) \/ DeleteSalaryCode(s)
  BY DEF Next, Handles, Answered, Receives, StatementFails, GetEmployeeByUserID,
         UpdateSalaryCode, CountEmployees, Refuse, dirVars
<1> QED  BY <1>1, <1>2, <1>3, <1>4, <1>5, <1>6, <1>7

-----------------------------------------------------------------------------
(***************************************************************************)
(* The tables keep their constraints under the handlers, in any            *)
(* interleaving and with any statement failing.                            *)
(***************************************************************************)
THEOREM Invariance == Spec => []Inv
<1>1. Init => Inv
  BY InitInv
<1>2. Inv /\ [Next]_dirVars => Inv'
  BY NextInv
<1> QED  BY <1>1, <1>2, PTL DEF Spec

(***************************************************************************)
(* No user gets a second record, although Create_employee checks in one    *)
(* statement and inserts in another.                                       *)
(***************************************************************************)
THEOREM OneRecord == Spec => []OneEmployeePerUser
<1>1. Inv => OneEmployeePerUser
  BY DEF Inv
<1> QED  BY <1>1, Invariance, PTL

(***************************************************************************)
(* No employee is left with a salary code that was deleted, although       *)
(* DeleteSalaryCode counts in one statement and deletes in another.        *)
(***************************************************************************)
THEOREM CodesStay == Spec => []CodeOfEmployeeExists
<1>1. Inv => CodeOfEmployeeExists
  BY DEF Inv
<1> QED  BY <1>1, Invariance, PTL

(***************************************************************************)
(* No two salary codes have the same code, however often the generator     *)
(* repeats itself.                                                         *)
(***************************************************************************)
THEOREM CodesDiffer == Spec => []CodesAreUnique
<1>1. Inv => CodesAreUnique
  BY DEF Inv
<1> QED  BY <1>1, Invariance, PTL

(***************************************************************************)
(* Every variable stays in its set: of the attempts of CreateSalaryCode    *)
(* this says that it makes no more of them than it may.                    *)
(***************************************************************************)
THEOREM TypeCorrect == Spec => []TypeOK
<1>1. Inv => TypeOK
  BY DEF Inv
<1> QED  BY <1>1, Invariance, PTL

(***************************************************************************)
(* A salary code keeps its code and an employee record its user until they *)
(* are deleted, and no deleted row comes back: no UPDATE of the handlers   *)
(* writes those columns.                                                   *)
(***************************************************************************)
THEOREM IdentityKept == Spec => IdentitiesAreKept
<1>1. TypeOK /\ [Next]_dirVars => [KeepsCodes /\ KeepsUsers]_dirVars
  BY StepKeeps
<1> QED  BY <1>1, TypeCorrect, PTL DEF Spec, IdentitiesAreKept, KeepsCodes, KeepsUsers

\* A statement ends its request, or leaves it one write or one more attempt.
LEMMA HandlesForward ==
    ASSUME TypeOK, NEW s \in Slots, Handles(s)
    PROVE  /\ Remaining(s)' \in Nat /\ Remaining(s)' < Remaining(s)
           /\ \A t \in Slots \ {s} : req'[t] = req[t]
<1>1. /\ req[s] # Idle /\ req[s].pc \in {"start", "write"}
      /\ req[s] \in Handling
  <2>1. req[s] # Idle /\ req[s].pc \in {"start", "write"}
    BY DEF Handles, GetEmployeeByUserID, CreateEmployee, UpdateEmployee, DeleteEmployee,
           CreateSalaryCode, UpdateSalaryCode, CountEmployees, DeleteSalaryCode,
           StatementFails, At
  <2> QED  BY <2>1, InService
<1>2. /\ Remaining(s) \in Nat /\ Remaining(s) > 1 /\ Attempts \in Nat
      /\ req[s].attempt \in 1 .. Attempts
      /\ req[s].pc = "start" => Remaining(s) > 2 /\ Remaining(s) = 3 + Attempts - req[s].attempt
  BY <1>1, DirectoryAssumption DEF Remaining, Handling
<1>3. ASSUME NEW pc, Step(s, pc)
      PROVE  req'[s].pc = pc /\ \A t \in Slots \ {s} : req'[t] = req[t]
  BY <1>1, <1>3 DEF Step, TypeOK, Handling
<1>4. ASSUME NEW pc \in {"ok", "refused"}, req'[s].pc = pc
      PROVE  Remaining(s)' \in Nat /\ Remaining(s)' < Remaining(s)
  BY <1>2, <1>4 DEF Remaining
<1>5. ASSUME req[s].pc = "start", req'[s].pc = "write"
      PROVE  Remaining(s)' \in Nat /\ Remaining(s)' < Remaining(s)
  BY <1>2, <1>5 DEF Remaining
<1>6. CASE Refuse(s)
  BY <1>3, <1>4, <1>6 DEF Refuse
<1>7. ASSUME NEW id, NEW emp, Returns(s, id, emp)
      PROVE  /\ Remaining(s)' \in Nat /\ Remaining(s)' < Remaining(s)
             /\ \A t \in Slots \ {s} : req'[t] = req[t]
  <2>1. req'[s].pc = "ok" /\ \A t \in Slots \ {s} : req'[t] = req[t]
    BY <1>1, <1>7 DEF Returns, TypeOK, Handling
  <2> QED  BY <1>4, <2>1
<1>8. CASE GetEmployeeByUserID(s) \/ CountEmployees(s)
  BY <1>3, <1>5, <1>6, <1>8 DEF GetEmployeeByUserID, CountEmployees, At
<1>9. CASE CreateEmployee(s) \/ UpdateEmployee(s)
  BY <1>6, <1>7, <1>9 DEF CreateEmployee, UpdateEmployee
<1>10. CASE DeleteEmployee(s) \/ UpdateSalaryCode(s) \/ DeleteSalaryCode(s)
  BY <1>3, <1>4, <1>6, <1>10 DEF DeleteEmployee, UpdateSalaryCode, DeleteSalaryCode
<1>11. CASE CreateSalaryCode(s)
  <2>1. req[s].pc = "start"
    BY <1>11 DEF CreateSalaryCode, At
  <2>2. CASE Step(s, "ok")
    BY <1>3, <1>4, <2>2
  <2>3. CASE req[s].attempt < Attempts /\ req' = [req EXCEPT ![s].attempt = @ + 1]
    <3>1. /\ req'[s].pc = "start" /\ req'[s].attempt = req[s].attempt + 1
          /\ \A t \in Slots \ {s} : req'[t] = req[t]
      BY <1>1, <2>1, <2>3 DEF TypeOK, Handling
    <3> QED  BY <1>2, <2>1, <2>3, <3>1 DEF Remaining
  <2> QED  BY <1>6, <1>11, <2>2, <2>3 DEF CreateSalaryCode, Collides
<1>12. CASE StatementFails(s)
  BY <1>6, <1>12 DEF StatementFails
<1> QED  BY <1>8, <1>9, <1>10, <1>11, <1>12 DEF Handles

(***************************************************************************)
(* Every request of the API ends after finitely many statements of its     *)
(* own, whatever other requests do, and CreateSalaryCode after its         *)
(* attempts, for any number of them.                                       *)
(***************************************************************************)
THEOREM RequestsEnd == Spec => RequestsMoveForward
<1> DEFINE Forward(s) == \/ req'[s] = req[s]
                         \/ Remaining(s)' \in Nat /\ Remaining(s)' < Remaining(s)
<1>1. ASSUME TypeOK, Next, NEW s \in Slots, req[s] # Idle
      PROVE  Forward(s)
  <2>1. PICK t \in Slots : Handles(t) \/ Answered(t) \/ \E m \in Requests : Receives(t, m)
    BY <1>1 DEF Next
  <2>2. CASE Handles(t)
    BY <1>1, <2>2, HandlesForward
  <2>3. CASE Answered(t)
    <3>1. CASE s = t
      <4>1. req'[s] = Idle /\ req[s].pc \in {"ok", "refused"}
        BY <1>1, <2>3, <3>1 DEF Answered, TypeOK
      <4> QED  BY <4>1 DEF Remaining, Idle
    <3>2. CASE s # t
      BY <1>1, <2>3, <3>2 DEF Answered, TypeOK
    <3> QED  BY <3>1, <3>2
  <2>4. ASSUME NEW m \in Requests, Receives(t, m)
        PROVE  Forward(s)
    BY <1>1, <2>4 DEF Receives, TypeOK
  <2> QED  BY <2>1, <2>2, <2>3, <2>4
<1>2. TypeOK /\ [Next]_dirVars => [\A s \in Slots : req[s] # Idle => Forward(s)]_dirVars
  BY <1>1
<1> QED  BY <1>2, TypeCorrect, PTL DEF Spec, RequestsMoveForward

-----------------------------------------------------------------------------
FormTypes ==
    /\ Form!TypeOK
    /\ form.values \in [user : Users \cup {Blank}, code : CodeIds \cup {Blank}]

PageTypes ==
    /\ FormTypes
    /\ records \subseteq Row
    /\ foreign \subseteq EmpIds
    /\ from \in [Slots -> {"save", "remove", "other"}]

\* The one request that the page waits for, of either kind, and what it asks.
Waits ==
    /\ \A s, t \in Slots : from[s] = from[t] /\ from[s] # "other" => s = t
    /\ \A s \in Slots : from[s] # "other" => req[s] # Idle
    /\ saving # None <=> \E s \in Slots : from[s] = "save"
    /\ removing # None <=> \E s \in Slots : from[s] = "remove"
    /\ \A s \in Slots : from[s] = "save" =>
         \/ saving.id = None /\ req[s].msg.op = "create employee"
         \/ /\ saving.id \in EmpIds
            /\ req[s].msg.op = "update employee" /\ req[s].msg.id = saving.id
    /\ \A s \in Slots : from[s] = "remove" =>
         /\ req[s].msg.op = "delete employee" /\ req[s].msg.id = removing
         /\ req[s].row = None

\* The employees that the page has to do with.
Known(e) == (\E r \in records : r.id = e) \/ e \in {deleting, removing, form.editing}

IsOk(s, who) == from[s] = who /\ req[s].pc = "ok"

KnownExist ==
    /\ \A e \in EmpIds : Known(e) => employees[e] # Absent
    /\ \A s \in Slots : IsOk(s, "save") /\ req[s].msg.op = "create employee" =>
         ~Known(req[s].row.id)

AnswerIsRow ==
    /\ \A s \in Slots : IsOk(s, "save") =>
         LET r == req[s].row IN
           /\ r \in Row /\ employees[r.id] # Absent
           /\ req[s].msg.op = "update employee" => r.id = req[s].msg.id
           /\ r.id \in foreign \/ employees[r.id] = [user |-> r.user, code |-> r.code]
    /\ saving # None /\ removing # None /\ saving.id = removing => removing \in foreign

RowGood(r) ==
    \/ r.id \in foreign
    \/ employees[r.id] = [user |-> r.user, code |-> r.code]
    \/ \E s \in Slots : IsOk(s, "save") /\ req[s].row.id = r.id
    \/ \E s \in Slots : IsOk(s, "remove") /\ req[s].msg.id = r.id

RowsGood == \A r \in records : RowGood(r)

PageInv == Waits /\ KnownExist /\ AnswerIsRow /\ RowsGood

EInv == Inv /\ PageTypes /\ PageInv

-----------------------------------------------------------------------------
\* The form holds values of the fields' own kinds.
LEMMA FormInit ==
    ASSUME EmployeesInit
    PROVE  PageTypes
<1>1. /\ Form!NewRecord \in Form!Filled
      /\ Form!NewRecord \in [user : Users \cup {Blank}, code : CodeIds \cup {Blank}]
  BY DEF Form!NewRecord, Form!Filled
<1>2. FormTypes
  BY <1>1 DEF EmployeesInit, Form!Init, Form!Closed, FormTypes, Form!TypeOK
<1> QED  BY <1>2 DEF EmployeesInit, PageTypes

LEMMA ClosedTypes ==
    /\ Form!Closed \in [open : BOOLEAN, editing : EmpIds \cup {None},
                        values : Form!Filled, errors : SUBSET {"user", "code"}]
    /\ Form!Closed.values \in [user : Users \cup {Blank}, code : CodeIds \cup {Blank}]
    /\ Form!Closed.editing = None /\ Form!Closed.open = FALSE
<1>1. /\ Form!NewRecord \in Form!Filled
      /\ Form!NewRecord \in [user : Users \cup {Blank}, code : CodeIds \cup {Blank}]
  BY DEF Form!NewRecord, Form!Filled
<1> QED  BY <1>1 DEF Form!Closed

\* The clicks on the dialogs, and what they make known.
LEMMA OnFormTypes ==
    ASSUME PageTypes, OnForm
    PROVE  /\ PageTypes'
           /\ UNCHANGED <<dirVars, records, from, foreign, saving, removing>>
           /\ \A e \in EmpIds : Known(e)' => Known(e)
<1>1. CASE Form!OnForm /\ Kinds /\ UNCHANGED <<dirVars, records, from, foreign>>
  <2>1. CASE Form!OpenCreate \/ Form!Cancel
    <3>1. /\ form' \in [open : BOOLEAN, editing : EmpIds \cup {None},
                        values : Form!Filled, errors : SUBSET {"user", "code"}]
          /\ form'.editing = None
          /\ UNCHANGED <<saving, deleting, removing>>
      <4>1. Form!NewRecord \in Form!Filled
        BY DEF Form!NewRecord, Form!Filled
      <4>2. CASE Form!OpenCreate
        BY <4>1, <4>2 DEF Form!OpenCreate, Form!Shows
      <4>3. CASE Form!Cancel
        BY <4>3, ClosedTypes DEF Form!Cancel
      <4> QED  BY <2>1, <4>2, <4>3
    <3>2. PageTypes'
      BY <1>1, <3>1 DEF PageTypes, FormTypes, Form!TypeOK, Kinds
    <3>3. \A e \in EmpIds : Known(e)' => Known(e)
      BY <1>1, <3>1, DirectoryAssumption DEF Known
    <3> QED  BY <1>1, <3>1, <3>2, <3>3
  <2>2. CASE Form!SubmitRefused \/ \E f \in {"user", "code"},
                 v \in Users \cup CodeIds \cup {Blank} : Form!Type(f, v)
    <3>1. /\ form' \in [open : BOOLEAN, editing : EmpIds \cup {None},
                        values : Form!Filled, errors : SUBSET {"user", "code"}]
          /\ form'.editing = form.editing
          /\ UNCHANGED <<saving, deleting, removing>>
      <4>1. CASE Form!SubmitRefused
        BY <4>1
        DEF Form!SubmitRefused, Form!Missing, PageTypes, FormTypes, Form!TypeOK
      <4>2. ASSUME NEW f \in {"user", "code"}, NEW v \in Users \cup CodeIds \cup {Blank},
                   Form!Type(f, v)
            PROVE  /\ form' \in [open : BOOLEAN, editing : EmpIds \cup {None},
                                 values : Form!Filled, errors : SUBSET {"user", "code"}]
                   /\ form'.editing = form.editing
                   /\ UNCHANGED <<saving, deleting, removing>>
        <5>1. [form.values EXCEPT ![f] = v] \in Form!Filled
          BY DEF PageTypes, FormTypes, Form!TypeOK, Form!Filled
        <5> QED
          BY <4>2, <5>1 DEF Form!Type, PageTypes, FormTypes, Form!TypeOK
      <4> QED  BY <2>2, <4>1, <4>2
    <3>2. PageTypes'
      BY <1>1, <3>1 DEF PageTypes, FormTypes, Form!TypeOK, Kinds
    <3>3. \A e \in EmpIds : Known(e)' => Known(e)
      BY <1>1, <3>1 DEF Known
    <3> QED  BY <1>1, <3>1, <3>2, <3>3
  <2>3. CASE Form!DismissDelete
    <3>1. PageTypes'
      BY <1>1, <2>3 DEF Form!DismissDelete, PageTypes, FormTypes, Form!TypeOK
    <3>2. \A e \in EmpIds : Known(e)' => Known(e)
      BY <1>1, <2>3, DirectoryAssumption DEF Form!DismissDelete, Known
    <3> QED  BY <1>1, <2>3, <3>1, <3>2 DEF Form!DismissDelete
  <2> QED  BY <1>1, <2>1, <2>2, <2>3 DEF Form!OnForm
<1>2. ASSUME NEW r \in records, Form!OpenEdit(AsRecord(r)),
             UNCHANGED <<dirVars, records, from, foreign>>
      PROVE  /\ PageTypes'
             /\ UNCHANGED <<saving, removing>>
             /\ \A e \in EmpIds : Known(e)' => Known(e)
  <2>1. r.id \in EmpIds /\ r.user \in Users /\ r.code \in CodeIds
    BY DEF PageTypes, Row
  <2> DEFINE a == AsRecord(r)
             vals == [f \in {"user", "code"} |-> IF f \in {} THEN Blank ELSE a.values[f]]
  <2>2. /\ vals \in Form!Filled
        /\ vals \in [user : Users \cup {Blank}, code : CodeIds \cup {Blank}]
    BY <2>1 DEF AsRecord, Form!Filled
  <2>3. /\ form' = [open |-> TRUE, editing |-> r.id, values |-> vals, errors |-> {}]
        /\ UNCHANGED <<saving, deleting, removing>>
    BY <1>2 DEF Form!OpenEdit, Form!Shows, AsRecord
  <2>4. PageTypes'
    BY <1>2, <2>1, <2>2, <2>3 DEF PageTypes, FormTypes, Form!TypeOK
  <2> QED  BY <1>2, <2>3, <2>4 DEF Known
<1>3. ASSUME NEW r \in records, Form!AskDelete(r.id),
             UNCHANGED <<dirVars, records, from, foreign>>
      PROVE  /\ PageTypes'
             /\ UNCHANGED <<saving, removing>>
             /\ \A e \in EmpIds : Known(e)' => Known(e)
  <2>1. r.id \in EmpIds
    BY DEF PageTypes, Row
  <2>2. PageTypes'
    BY <1>3, <2>1 DEF Form!AskDelete, PageTypes, FormTypes, Form!TypeOK
  <2> QED  BY <1>3, <2>2 DEF Form!AskDelete, Known
<1> QED  BY <1>1, <1>2, <1>3 DEF OnForm

\* The rest of the page's actions keep its types.
LEMMA PageTypesInv ==
    ASSUME Inv, PageTypes, Waits, AnswerIsRow,
           \/ Leave
           \/ \E s \in Slots : \/ Save(s) \/ Remove(s) \/ Saved(s) \/ Removed(s)
                               \/ Refused(s) \/ Lost(s) \/ Server(s) \/ Others(s)
    PROVE  PageTypes'
<1> USE DEF PageTypes, FormTypes, Form!TypeOK
<1>1. CASE Leave
  BY <1>1, ClosedTypes DEF Leave, Form!Remount
<1>2. ASSUME NEW s \in Slots, Save(s) PROVE PageTypes'
  <2>1. /\ form' = [form EXCEPT !.errors = {}]
        /\ saving' = [id |-> form.editing, values |-> form.values]
        /\ UNCHANGED <<deleting, removing, records>>
        /\ from' = [from EXCEPT ![s] = "save"]
        /\ foreign' = foreign \cup ({form.editing} \cap {removing} \cap EmpIds)
    BY <1>2 DEF Save, Form!Submit, Form!Sends, Posts
  <2> QED  BY <2>1
<1>3. ASSUME NEW s \in Slots, Remove(s) PROVE PageTypes'
  <2>1. /\ removing' = deleting /\ UNCHANGED <<form, saving, deleting, records>>
        /\ from' = [from EXCEPT ![s] = "remove"]
        /\ foreign' = foreign \cup (BeingSaved \cap {deleting})
        /\ BeingSaved \subseteq EmpIds
    BY <1>3 DEF Remove, Form!ConfirmDelete, Posts, BeingSaved
  <2> QED  BY <2>1
<1>4. ASSUME NEW s \in Slots, Saved(s) PROVE PageTypes'
  <2>1. /\ form' = Form!Closed /\ saving' = None
        /\ UNCHANGED <<deleting, removing, foreign>>
        /\ from' = [from EXCEPT ![s] = "other"]
        /\ records' = Upsert(req[s].row)
    BY <1>4 DEF Saved, Form!SaveSucceeds, Takes
  <2>2. req[s].row \in Row
    BY <1>4 DEF Saved, IsAnswered, AnswerIsRow, IsOk
  <2>3. records' \subseteq Row
    BY <2>1, <2>2 DEF Upsert
  <2> QED  BY <2>1, <2>3, ClosedTypes
<1>5. ASSUME NEW s \in Slots, Removed(s) PROVE PageTypes'
  <2>1. /\ removing' = None /\ deleting' = None /\ UNCHANGED <<form, saving, foreign>>
        /\ from' = [from EXCEPT ![s] = "other"]
        /\ records' \subseteq records
    BY <1>5 DEF Removed, Form!DeleteSucceeds, Takes, Without
  <2> QED  BY <2>1
<1>6. ASSUME NEW s \in Slots, Refused(s) PROVE PageTypes'
  <2>1. /\ saving' \in {saving, None} /\ removing' \in {removing, None}
        /\ UNCHANGED <<form, deleting, records, foreign>>
        /\ from' = [from EXCEPT ![s] = "other"]
    BY <1>6 DEF Refused, Form!SaveFails, Form!DeleteFails, Takes
  <2> QED  BY <2>1
<1>7. ASSUME NEW s \in Slots, Lost(s) PROVE PageTypes'
  <2>1. /\ saving' \in {saving, None} /\ removing' \in {removing, None}
        /\ UNCHANGED <<form, deleting, records>>
        /\ from' = [from EXCEPT ![s] = "other"]
        /\ foreign' = foreign \cup Changed(s)
    BY <1>7 DEF Lost, Form!SaveFails, Form!DeleteFails
  <2>2. Changed(s) \subseteq EmpIds
    <3>1. req[s] # Idle
      BY <1>7 DEF Lost
    <3>2. req[s].row \in Row \cup {None}
      BY <3>1, InService DEF Inv, Handling
    <3> QED  BY <3>2 DEF Changed, Row
  <2> QED  BY <2>1, <2>2
<1>8. ASSUME NEW s \in Slots, Server(s) \/ Others(s) PROVE PageTypes'
  <2>1. /\ foreign' \subseteq foreign \cup EmpIds
        /\ UNCHANGED <<pageVars, from>>
    BY <1>8 DEF Server, Others
  <2> QED  BY <2>1 DEF pageVars
<1> QED  BY <1>1, <1>2, <1>3, <1>4, <1>5, <1>6, <1>7, <1>8

-----------------------------------------------------------------------------
\* What the page sends is a request of the server's.
LEMMA SaveIsRequest ==
    ASSUME PageTypes, NEW s \in Slots, Save(s)
    PROVE  SaveRequest \in Requests
<1>1. form.editing \in EmpIds \cup {None} /\ form.values.user # Blank /\ form.values.code # Blank
  <2>1. Form!Missing = {} /\ form.editing \in EmpIds \cup {None}
    BY DEF Save, Form!Submit, PageTypes, FormTypes, Form!TypeOK
  <2>2. form.values["user"] # Blank /\ form.values["code"] # Blank
    BY <2>1 DEF Form!Missing
  <2> QED  BY <2>1, <2>2
<1>2. form.values.user \in Users /\ form.values.code \in CodeIds
  BY <1>1 DEF PageTypes, FormTypes
<1>3. CASE form.editing = None
  BY <1>2, <1>3 DEF SaveRequest, Requests
<1>4. CASE form.editing \in EmpIds /\ form.editing # None
  BY <1>2, <1>4 DEF SaveRequest, Requests
<1> QED  BY <1>1, <1>3, <1>4

LEMMA RemoveIsRequest ==
    ASSUME PageTypes, NEW s \in Slots, Remove(s)
    PROVE  deleting \in EmpIds /\ [op |-> "delete employee", id |-> deleting] \in Requests
<1>1. deleting \in EmpIds
  BY DEF Remove, Form!ConfirmDelete, PageTypes, FormTypes, Form!TypeOK
<1> QED  BY <1>1 DEF Requests

\* Every step is a step of Directory, or leaves its variables alone.
LEMMA StepImplements ==
    ASSUME PageTypes, [EmployeesNext]_vars
    PROVE  [Next]_dirVars
<1>1. CASE OnForm \/ Leave \/ UNCHANGED vars
  BY <1>1 DEF OnForm, Leave, vars
<1>2. ASSUME NEW s \in Slots, Save(s) PROVE Next
  BY <1>2, SaveIsRequest DEF Save, Posts, Next
<1>3. ASSUME NEW s \in Slots, Remove(s) PROVE Next
  BY <1>3, RemoveIsRequest DEF Remove, Posts, Next
<1>4. ASSUME NEW s \in Slots, Saved(s) \/ Removed(s) \/ Refused(s) PROVE Next
  BY <1>4 DEF Saved, Removed, Refused, Takes, Next
<1>5. ASSUME NEW s \in Slots, Lost(s) PROVE UNCHANGED dirVars
  BY <1>5 DEF Lost
<1>6. ASSUME NEW s \in Slots, Server(s) \/ Others(s) PROVE Next
  BY <1>6 DEF Server, Others, Next
<1> QED  BY <1>1, <1>2, <1>3, <1>4, <1>5, <1>6 DEF EmployeesNext

-----------------------------------------------------------------------------
\* What a handler's step does to its request and to the employees.
AsEmployee(r) == [user |-> r.user, code |-> r.code]

Creates(s) ==
    /\ req[s].msg.op = "create employee"
    /\ req'[s].pc = "ok" /\ req'[s].row \in Row
    /\ employees[req'[s].row.id] = Absent
    /\ employees'[req'[s].row.id] = AsEmployee(req'[s].row)
    /\ \A e \in EmpIds \ {req'[s].row.id} : employees'[e] = employees[e]

Updates(s) ==
    /\ req[s].msg.op = "update employee"
    /\ req'[s].pc = "ok" /\ req'[s].row \in Row
    /\ req'[s].row.id = req[s].msg.id /\ req[s].msg.id \in Rows
    /\ employees'[req'[s].row.id] = AsEmployee(req'[s].row)
    /\ \A e \in EmpIds \ {req'[s].row.id} : employees'[e] = employees[e]

Deletes(s) ==
    /\ req[s].msg.op = "delete employee"
    /\ req'[s].pc = "ok" /\ req'[s].row = req[s].row
    /\ req[s].msg.id \in Rows
    /\ employees'[req[s].msg.id] = Gone
    /\ \A e \in EmpIds \ {req[s].msg.id} : employees'[e] = employees[e]

GoesOn(s) ==
    /\ UNCHANGED employees
    /\ req'[s].pc = "ok" =>
         req[s].msg.op \in {"create code", "update code", "delete code"}
    /\ req'[s].row = req[s].row

LEMMA HandlesStep ==
    ASSUME TypeOK, NEW s \in Slots, Handles(s)
    PROVE  /\ req[s] # Idle /\ req[s].pc \in {"start", "write"}
           /\ \A t \in Slots \ {s} : req'[t] = req[t]
           /\ req'[s] # Idle /\ req'[s].msg = req[s].msg
           /\ Creates(s) \/ Updates(s) \/ Deletes(s) \/ GoesOn(s)
<1>1. /\ req[s] # Idle /\ req[s].pc \in {"start", "write"}
      /\ req[s] \in Handling /\ req \in [Slots -> Handling \cup {Idle}]
  BY InService
  DEF TypeOK, Handles, GetEmployeeByUserID, CreateEmployee, UpdateEmployee, DeleteEmployee,
      CreateSalaryCode, UpdateSalaryCode, CountEmployees, DeleteSalaryCode, StatementFails, At
<1>2. ASSUME NEW pc, Step(s, pc)
      PROVE  /\ \A t \in Slots \ {s} : req'[t] = req[t]
             /\ req'[s] # Idle /\ req'[s].msg = req[s].msg
             /\ req'[s].pc = pc /\ req'[s].row = req[s].row
  BY <1>1, <1>2 DEF Step, Handling, Idle
<1>3. ASSUME Refuse(s)
      PROVE  /\ \A t \in Slots \ {s} : req'[t] = req[t]
             /\ req'[s] # Idle /\ req'[s].msg = req[s].msg
             /\ GoesOn(s)
  <2>1. Step(s, "refused") /\ UNCHANGED employees
    BY <1>3 DEF Refuse
  <2>2. /\ \A t \in Slots \ {s} : req'[t] = req[t]
        /\ req'[s] # Idle /\ req'[s].msg = req[s].msg
        /\ req'[s].pc = "refused" /\ req'[s].row = req[s].row
    BY <1>2, <2>1
  <2> QED  BY <2>1, <2>2 DEF GoesOn
<1>4. ASSUME NEW id \in EmpIds, NEW emp \in Employees, Returns(s, id, emp)
      PROVE  /\ \A t \in Slots \ {s} : req'[t] = req[t]
             /\ req'[s] # Idle /\ req'[s].msg = req[s].msg
             /\ req'[s].pc = "ok"
             /\ req'[s].row = [id |-> id, user |-> emp.user, code |-> emp.code]
             /\ req'[s].row \in Row /\ AsEmployee(req'[s].row) = emp
             /\ req'[s].row.id = id
  BY <1>1, <1>4 DEF Returns, Handling, Idle, Row, Employees, AsEmployee
<1>5. CASE GetEmployeeByUserID(s) \/ UpdateSalaryCode(s) \/ CountEmployees(s)
           \/ StatementFails(s) \/ DeleteSalaryCode(s)
  <2>1. CASE Refuse(s)
    BY <1>1, <1>3, <2>1
  <2>2. CASE \E pc \in {"write", "refused"} : Step(s, pc) /\ UNCHANGED employees
    BY <1>1, <1>2, <2>2 DEF GoesOn
  <2>3. CASE /\ req[s].msg.op \in {"update code", "delete code"}
             /\ Step(s, "ok") /\ UNCHANGED employees
    BY <1>1, <1>2, <2>3 DEF GoesOn
  <2> QED
    BY <1>5, <2>1, <2>2, <2>3
    DEF GetEmployeeByUserID, UpdateSalaryCode, CountEmployees, StatementFails,
        DeleteSalaryCode, At
<1>6. CASE CreateSalaryCode(s)
  <2>1. CASE Refuse(s)
    BY <1>1, <1>3, <2>1
  <2>2. CASE req' = [req EXCEPT ![s].attempt = @ + 1] /\ UNCHANGED employees
    <3>1. /\ \A t \in Slots \ {s} : req'[t] = req[t]
          /\ req'[s] # Idle /\ req'[s].msg = req[s].msg
          /\ req'[s].pc = req[s].pc /\ req'[s].row = req[s].row
      BY <1>1, <2>2 DEF Handling, Idle
    <3> QED  BY <1>1, <2>2, <3>1 DEF GoesOn
  <2>3. CASE Step(s, "ok") /\ UNCHANGED employees
    BY <1>1, <1>2, <1>6, <2>3 DEF GoesOn, CreateSalaryCode, At
  <2> QED  BY <1>6, <2>1, <2>2, <2>3 DEF CreateSalaryCode, Collides
<1>7. CASE CreateEmployee(s)
  <2>1. CASE Refuse(s)
    BY <1>1, <1>3, <2>1
  <2>2. ASSUME NEW e \in EmpIds, employees[e] = Absent,
               employees' = [employees EXCEPT ![e] =
                               [user |-> req[s].msg.user, code |-> req[s].msg.code]],
               Returns(s, e, employees'[e])
        PROVE  /\ \A t \in Slots \ {s} : req'[t] = req[t]
               /\ req'[s] # Idle /\ req'[s].msg = req[s].msg
               /\ Creates(s)
    <3>1. /\ req[s].msg.op = "create employee"
          /\ req[s].msg.user \in Users /\ req[s].msg.code \in CodeIds
      BY <1>7, InService DEF CreateEmployee, At
    <3>2. employees'[e] \in Employees /\ \A d \in EmpIds \ {e} : employees'[d] = employees[d]
      BY <2>2, <3>1 DEF TypeOK, Employees
    <3>3. /\ \A t \in Slots \ {s} : req'[t] = req[t]
          /\ req'[s] # Idle /\ req'[s].msg = req[s].msg
          /\ req'[s].pc = "ok" /\ req'[s].row \in Row /\ req'[s].row.id = e
          /\ AsEmployee(req'[s].row) = employees'[e]
      <4>1. PICK emp \in Employees : emp = employees'[e]
        BY <3>2
      <4>2. Returns(s, e, emp)
        BY <2>2, <4>1
      <4> QED  BY <1>4, <4>1, <4>2
    <3> QED  BY <2>2, <3>1, <3>2, <3>3 DEF Creates
  <2> QED  BY <1>1, <1>7, <2>1, <2>2 DEF CreateEmployee
<1>8. CASE UpdateEmployee(s)
  <2> DEFINE m == req[s].msg
  <2>1. CASE Refuse(s)
    BY <1>1, <1>3, <2>1
  <2>2. CASE /\ m.id \in Rows /\ m.code \in Codes
             /\ employees' = [employees EXCEPT ![m.id] = [@ EXCEPT !.code = m.code]]
             /\ Returns(s, m.id, employees'[m.id])
    <3>1. m.id \in EmpIds /\ m.code \in CodeIds /\ employees[m.id] \in Employees
      BY <2>2 DEF Rows, Codes
    <3>2. /\ employees'[m.id] \in Employees
          /\ \A d \in EmpIds \ {m.id} : employees'[d] = employees[d]
      BY <2>2, <3>1 DEF TypeOK, Employees
    <3>3. /\ \A t \in Slots \ {s} : req'[t] = req[t]
          /\ req'[s] # Idle /\ req'[s].msg = req[s].msg
          /\ req'[s].pc = "ok" /\ req'[s].row \in Row /\ req'[s].row.id = m.id
          /\ AsEmployee(req'[s].row) = employees'[m.id]
      <4>1. PICK emp \in Employees : emp = employees'[m.id]
        BY <3>2
      <4>2. Returns(s, m.id, emp)
        BY <2>2, <4>1
      <4>3. PICK e \in EmpIds : e = m.id
        BY <3>1
      <4> HIDE DEF m
      <4> QED  BY <1>4, <4>1, <4>2, <4>3
    <3>4. Updates(s)
      BY <1>8, <2>2, <3>2, <3>3 DEF Updates, UpdateEmployee, At
    <3> QED  BY <1>1, <3>3, <3>4
  <2> QED  BY <1>8, <2>1, <2>2 DEF UpdateEmployee
<1>9. CASE DeleteEmployee(s)
  <2>1. CASE Refuse(s)
    BY <1>1, <1>3, <2>1
  <2>2. CASE /\ req[s].msg.id \in Rows
             /\ employees' = [employees EXCEPT ![req[s].msg.id] = Gone]
             /\ Step(s, "ok")
    <3>1. /\ employees'[req[s].msg.id] = Gone
          /\ \A d \in EmpIds \ {req[s].msg.id} : employees'[d] = employees[d]
      BY <2>2 DEF TypeOK, Rows
    <3>2. Deletes(s)
      BY <1>2, <1>9, <2>2, <3>1 DEF Deletes, DeleteEmployee, At
    <3> QED  BY <1>1, <1>2, <2>2, <3>2
  <2> QED  BY <1>9, <2>1, <2>2 DEF DeleteEmployee
<1> QED  BY <1>5, <1>6, <1>7, <1>8, <1>9 DEF Handles
\* A row that is there once is never absent again.
LEMMA NeverAbsent ==
    ASSUME TypeOK, NEW s \in Slots, Handles(s), NEW e \in EmpIds, employees[e] # Absent
    PROVE  employees'[e] # Absent
<1>1. Creates(s) \/ Updates(s) \/ Deletes(s) \/ GoesOn(s)
  BY HandlesStep
<1>2. ASSUME NEW r \in Row PROVE AsEmployee(r) # Absent
  <2>1. AsEmployee(r) \in Employees
    BY DEF AsEmployee, Row, Employees
  <2> QED  BY <2>1, DirectoryAssumption
<1> QED  BY <1>1, <1>2, DirectoryAssumption DEF Creates, Updates, Deletes, GoesOn

-----------------------------------------------------------------------------
(***************************************************************************)
(* PageInv, action by action.                                              *)
(***************************************************************************)
LEMMA OnFormInv ==
    ASSUME EInv, OnForm
    PROVE  PageInv'
<1>1. /\ UNCHANGED <<employees, req, records, from, foreign, saving, removing>>
      /\ \A e \in EmpIds : Known(e)' => Known(e)
  BY OnFormTypes DEF EInv, dirVars
<1>2. Waits'
  BY <1>1 DEF EInv, PageInv, Waits
<1>3. AnswerIsRow'
  BY <1>1 DEF EInv, PageInv, AnswerIsRow, IsOk
<1>4. RowsGood'
  BY <1>1 DEF EInv, PageInv, RowsGood, RowGood, IsOk
<1>5. KnownExist'
  <2>1. ASSUME NEW s \in Slots, IsOk(s, "save") PROVE req[s].row.id \in EmpIds
    BY <2>1 DEF EInv, PageInv, AnswerIsRow, Row
  <2> QED  BY <1>1, <2>1 DEF EInv, PageInv, KnownExist, IsOk
<1> QED  BY <1>2, <1>3, <1>4, <1>5 DEF PageInv

LEMMA LeaveInv ==
    ASSUME EInv, Leave
    PROVE  PageInv'
<1>1. /\ form'.editing = None /\ saving' = None /\ deleting' = None /\ removing' = None
      /\ records' = {} /\ from' = [s \in Slots |-> "other"]
      /\ UNCHANGED <<employees, req>>
  BY ClosedTypes DEF Leave, Form!Remount, Form!Init, dirVars
<1>2. \A s \in Slots : from'[s] = "other"
  BY <1>1
<1>3. Waits'
  BY <1>1, <1>2 DEF Waits
<1>4. KnownExist'
  BY <1>1, <1>2, DirectoryAssumption DEF KnownExist, Known, IsOk
<1>5. AnswerIsRow' /\ RowsGood'
  BY <1>1, <1>2 DEF AnswerIsRow, IsOk, RowsGood
<1> QED  BY <1>3, <1>4, <1>5 DEF PageInv

\* A request of the page's is at its start.
LEMMA Posted ==
    ASSUME Inv, NEW s \in Slots, NEW m, Receives(s, m)
    PROVE  /\ req[s] = Idle /\ employees' = employees
           /\ req'[s] = [pc |-> "start", msg |-> m, attempt |-> 1, row |-> None]
           /\ req'[s].pc = "start" /\ req'[s].msg = m /\ req'[s].row = None
           /\ req'[s] # Idle
           /\ \A t \in Slots \ {s} : req'[t] = req[t]
<1>1. req'[s] = [pc |-> "start", msg |-> m, attempt |-> 1, row |-> None]
  BY DEF Receives, Inv, TypeOK
<1>2. req'[s].pc = "start" /\ req'[s].msg = m /\ req'[s].row = None
  BY <1>1
<1>3. req'[s] # Idle
  BY <1>2 DEF Idle
<1> QED  BY <1>1, <1>2, <1>3 DEF Receives, Inv, TypeOK

LEMMA SaveInv ==
    ASSUME EInv, NEW s \in Slots, Save(s)
    PROVE  PageInv'
<1>1. /\ form'.editing = form.editing /\ saving = None /\ saving'.id = form.editing
      /\ saving' # None
      /\ UNCHANGED <<deleting, removing, records>>
      /\ from' = [from EXCEPT ![s] = "save"]
      /\ foreign' = foreign \cup ({form.editing} \cap {removing} \cap EmpIds)
      /\ Receives(s, SaveRequest)
  <2>1. /\ form' = [form EXCEPT !.errors = {}]
        /\ saving' = [id |-> form.editing, values |-> form.values]
        /\ saving = None
    BY DEF Save, Form!Submit, Form!Sends
  <2>2. saving' # None /\ form'.editing = form.editing
    BY <2>1, EmployeesAssumption DEF EInv, PageTypes, FormTypes, Form!TypeOK
  <2> QED  BY <2>1, <2>2 DEF Save, Form!Submit, Posts
<1>2. /\ from \in [Slots -> {"save", "remove", "other"}] /\ removing \in EmpIds \cup {None}
      /\ form.editing \in EmpIds \cup {None}
  BY DEF EInv, PageTypes, FormTypes, Form!TypeOK
<1>3. from'[s] = "save" /\ \A t \in Slots \ {s} : from'[t] = from[t]
  BY <1>1, <1>2
<1>4. /\ req[s] = Idle /\ employees' = employees
      /\ req'[s].pc = "start" /\ req'[s].msg = SaveRequest
      /\ req'[s] # Idle /\ \A t \in Slots \ {s} : req'[t] = req[t]
  BY <1>1, Posted DEF EInv
<1>5. from[s] = "other" /\ \A t \in Slots : from[t] # "save"
  BY <1>1, <1>2, <1>4 DEF EInv, PageInv, Waits
<1>6. \/ form.editing = None /\ SaveRequest.op = "create employee"
      \/ /\ form.editing \in EmpIds
         /\ SaveRequest.op = "update employee" /\ SaveRequest.id = form.editing
  BY <1>2 DEF SaveRequest
<1>7. Waits'
  <2>1. \A t, u \in Slots : from'[t] = from'[u] /\ from'[t] # "other" => t = u
    <3>1. \A t, u \in Slots : from[t] = from[u] /\ from[t] # "other" => t = u
      BY DEF EInv, PageInv, Waits
    <3> QED  BY <1>3, <1>5, <3>1
  <2>2. \A t \in Slots : from'[t] # "other" => req'[t] # Idle
    BY <1>3, <1>4 DEF EInv, PageInv, Waits
  <2>3. removing' # None <=> \E t \in Slots : from'[t] = "remove"
    BY <1>1, <1>3, <1>5 DEF EInv, PageInv, Waits
  <2>4. \A t \in Slots : from'[t] = "save" =>
           \/ saving'.id = None /\ req'[t].msg.op = "create employee"
           \/ /\ saving'.id \in EmpIds
              /\ req'[t].msg.op = "update employee" /\ req'[t].msg.id = saving'.id
    BY <1>1, <1>3, <1>4, <1>5, <1>6
  <2>5. \A t \in Slots : from'[t] = "remove" =>
           /\ req'[t].msg.op = "delete employee" /\ req'[t].msg.id = removing'
           /\ req'[t].row = None
    <3>1. ASSUME NEW t \in Slots, from'[t] = "remove"
          PROVE  from[t] = "remove" /\ req'[t] = req[t]
      BY <1>3, <1>4, <3>1
    <3>2. \A t \in Slots : from[t] = "remove" =>
             /\ req[t].msg.op = "delete employee" /\ req[t].msg.id = removing
             /\ req[t].row = None
      BY DEF EInv, PageInv, Waits
    <3> QED  BY <1>1, <3>1, <3>2
  <2> QED  BY <1>1, <1>3, <2>1, <2>2, <2>3, <2>4, <2>5 DEF Waits
<1>8. \A t \in Slots : ~IsOk(t, "save")'
  BY <1>3, <1>4, <1>5 DEF IsOk
<1>9. KnownExist'
  BY <1>1, <1>4, <1>8 DEF EInv, PageInv, KnownExist, Known
<1>10. AnswerIsRow'
  BY <1>1, <1>2, <1>8, DirectoryAssumption DEF AnswerIsRow
<1>11. RowsGood'
  <2> SUFFICES ASSUME NEW r \in records PROVE RowGood(r)'
    BY <1>1 DEF RowsGood
  <2>1. RowGood(r)
    BY DEF EInv, PageInv, RowsGood
  <2>2. \A t \in Slots : IsOk(t, "save") => FALSE
    BY <1>5 DEF IsOk
  <2>3. \A t \in Slots : IsOk(t, "remove") =>
           IsOk(t, "remove")' /\ req'[t] = req[t]
    BY <1>3, <1>4, <1>5 DEF IsOk
  <2> QED  BY <1>1, <1>4, <2>1, <2>2, <2>3 DEF RowGood
<1> QED  BY <1>7, <1>9, <1>10, <1>11 DEF PageInv

LEMMA RemoveInv ==
    ASSUME EInv, NEW s \in Slots, Remove(s)
    PROVE  PageInv'
<1>1. /\ removing = None /\ removing' = deleting /\ deleting # None
      /\ UNCHANGED <<form, saving, deleting, records>>
      /\ from' = [from EXCEPT ![s] = "remove"]
      /\ foreign' = foreign \cup (BeingSaved \cap {deleting})
      /\ Receives(s, [op |-> "delete employee", id |-> deleting])
  BY DEF Remove, Form!ConfirmDelete, Posts
<1>2. from \in [Slots -> {"save", "remove", "other"}] /\ deleting \in EmpIds
  BY <1>1 DEF EInv, PageTypes, FormTypes, Form!TypeOK
<1>3. from'[s] = "remove" /\ \A t \in Slots \ {s} : from'[t] = from[t]
  BY <1>1, <1>2
<1>4. /\ req[s] = Idle /\ employees' = employees
      /\ req'[s].pc = "start" /\ req'[s].msg = [op |-> "delete employee", id |-> deleting]
      /\ req'[s].row = None
      /\ req'[s] # Idle /\ \A t \in Slots \ {s} : req'[t] = req[t]
  BY <1>1, Posted DEF EInv
<1>5. from[s] = "other" /\ \A t \in Slots : from[t] # "remove"
  <2>1. from[s] = "other"
    BY <1>4 DEF EInv, PageInv, Waits
  <2>2. ~\E t \in Slots : from[t] = "remove"
    BY <1>1 DEF EInv, PageInv, Waits
  <2> QED  BY <2>1, <2>2
<1>6. req'[s].msg.op = "delete employee" /\ req'[s].msg.id = deleting
  <2> DEFINE m == [op |-> "delete employee", id |-> deleting]
  <2>1. m.op = "delete employee" /\ m.id = deleting
    OBVIOUS
  <2>2. req'[s].msg = m
    BY <1>4
  <2> HIDE DEF m
  <2> QED  BY <2>1, <2>2
<1>7. Waits'
  <2>1. \A t, u \in Slots : from'[t] = from'[u] /\ from'[t] # "other" => t = u
    <3>1. \A t, u \in Slots : from[t] = from[u] /\ from[t] # "other" => t = u
      BY DEF EInv, PageInv, Waits
    <3> QED  BY <1>3, <1>5, <3>1
  <2>2. \A t \in Slots : from'[t] # "other" => req'[t] # Idle
    BY <1>3, <1>4 DEF EInv, PageInv, Waits
  <2>3. saving' # None <=> \E t \in Slots : from'[t] = "save"
    BY <1>1, <1>3, <1>5 DEF EInv, PageInv, Waits
  <2>4. \A t \in Slots : from'[t] = "save" =>
           \/ saving'.id = None /\ req'[t].msg.op = "create employee"
           \/ /\ saving'.id \in EmpIds
              /\ req'[t].msg.op = "update employee" /\ req'[t].msg.id = saving'.id
    <3>1. ASSUME NEW t \in Slots, from'[t] = "save"
          PROVE  from[t] = "save" /\ req'[t] = req[t]
      BY <1>3, <1>4, <3>1
    <3>2. \A t \in Slots : from[t] = "save" =>
             \/ saving.id = None /\ req[t].msg.op = "create employee"
             \/ /\ saving.id \in EmpIds
                /\ req[t].msg.op = "update employee" /\ req[t].msg.id = saving.id
      BY DEF EInv, PageInv, Waits
    <3> QED  BY <1>1, <3>1, <3>2
  <2>5. \A t \in Slots : from'[t] = "remove" =>
           /\ req'[t].msg.op = "delete employee" /\ req'[t].msg.id = removing'
           /\ req'[t].row = None
    BY <1>1, <1>3, <1>4, <1>5, <1>6
  <2> QED  BY <1>1, <1>3, <2>1, <2>2, <2>3, <2>4, <2>5 DEF Waits
<1>8. /\ \A t \in Slots : ~IsOk(t, "remove")'
      /\ \A t \in Slots : IsOk(t, "save")' => IsOk(t, "save") /\ req'[t] = req[t]
  BY <1>3, <1>4, <1>5 DEF IsOk
<1>9. KnownExist'
  <2>1. \A e \in EmpIds : Known(e)' => Known(e)
    BY <1>1 DEF Known
  <2>2. ASSUME NEW t \in Slots, IsOk(t, "save") PROVE req[t].row.id \in EmpIds
    BY <2>2 DEF EInv, PageInv, AnswerIsRow, Row
  <2> QED  BY <1>4, <1>8, <2>1, <2>2 DEF EInv, PageInv, KnownExist
<1>10. AnswerIsRow'
  BY <1>1, <1>2, <1>4, <1>8 DEF EInv, PageInv, AnswerIsRow, BeingSaved
<1>11. RowsGood'
  <2> SUFFICES ASSUME NEW r \in records PROVE RowGood(r)'
    BY <1>1 DEF RowsGood
  <2>1. RowGood(r)
    BY DEF EInv, PageInv, RowsGood
  <2>2. \A t \in Slots : IsOk(t, "remove") => FALSE
    BY <1>5 DEF IsOk
  <2>3. \A t \in Slots : IsOk(t, "save") =>
           IsOk(t, "save")' /\ req'[t] = req[t]
    BY <1>3, <1>4, <1>5 DEF IsOk
  <2> QED  BY <1>1, <1>4, <2>1, <2>2, <2>3 DEF RowGood
<1> QED  BY <1>7, <1>9, <1>10, <1>11 DEF PageInv
\* An answer, or the loss of it: the page waits for it no more.
LEMMA LetsGo ==
    ASSUME EInv, NEW s \in Slots,
           from' = [from EXCEPT ![s] = "other"],
           \A t \in Slots \ {s} : req'[t] = req[t],
           \/ from[s] = "save" /\ saving' = None /\ removing' = removing
           \/ from[s] = "remove" /\ removing' = None /\ saving' = saving
    PROVE  /\ Waits'
           /\ \A t \in Slots : IsOk(t, "save")' =>
                t # s /\ IsOk(t, "save") /\ req'[t] = req[t]
           /\ \A t \in Slots : IsOk(t, "remove")' =>
                t # s /\ IsOk(t, "remove") /\ req'[t] = req[t]
           /\ \A t \in Slots \ {s} : IsOk(t, "save") => IsOk(t, "save")'
           /\ \A t \in Slots \ {s} : IsOk(t, "remove") => IsOk(t, "remove")'
<1>1. from'[s] = "other" /\ \A t \in Slots \ {s} : from'[t] = from[t]
  BY DEF EInv, PageTypes
<1>2. Waits
  BY DEF EInv, PageInv
<1>3. \A t \in Slots : from'[t] # "other" =>
         t # s /\ from'[t] = from[t] /\ req'[t] = req[t]
  BY <1>1
<1>4. Waits'
  <2>1. \A t, u \in Slots : from'[t] = from'[u] /\ from'[t] # "other" => t = u
    <3>1. \A t, u \in Slots : from[t] = from[u] /\ from[t] # "other" => t = u
      BY <1>2 DEF Waits
    <3> QED  BY <1>3, <3>1
  <2>2. \A t \in Slots : from'[t] # "other" => req'[t] # Idle
    BY <1>2, <1>3 DEF Waits
  <2>3. saving' # None <=> \E t \in Slots : from'[t] = "save"
    BY <1>1, <1>2 DEF Waits
  <2>4. removing' # None <=> \E t \in Slots : from'[t] = "remove"
    BY <1>1, <1>2 DEF Waits
  <2>5. ASSUME NEW t \in Slots, from'[t] = "save"
        PROVE  \/ saving'.id = None /\ req'[t].msg.op = "create employee"
               \/ /\ saving'.id \in EmpIds
                  /\ req'[t].msg.op = "update employee" /\ req'[t].msg.id = saving'.id
    <3>1. t # s /\ from[t] = "save" /\ req'[t] = req[t]
      BY <1>3, <2>5
    <3>2. saving' = saving
      BY <1>2, <3>1 DEF Waits
    <3>3. \/ saving.id = None /\ req[t].msg.op = "create employee"
          \/ /\ saving.id \in EmpIds
             /\ req[t].msg.op = "update employee" /\ req[t].msg.id = saving.id
      BY <1>2, <3>1 DEF Waits
    <3> QED  BY <3>1, <3>2, <3>3
  <2>6. ASSUME NEW t \in Slots, from'[t] = "remove"
        PROVE  /\ req'[t].msg.op = "delete employee" /\ req'[t].msg.id = removing'
               /\ req'[t].row = None
    <3>1. t # s /\ from[t] = "remove" /\ req'[t] = req[t]
      BY <1>3, <2>6
    <3>2. removing' = removing
      BY <1>2, <3>1 DEF Waits
    <3>3. /\ req[t].msg.op = "delete employee" /\ req[t].msg.id = removing
          /\ req[t].row = None
      BY <1>2, <3>1 DEF Waits
    <3> QED  BY <3>1, <3>2, <3>3
  <2> QED  BY <2>1, <2>2, <2>3, <2>4, <2>5, <2>6 DEF Waits
<1> QED  BY <1>1, <1>3, <1>4 DEF IsOk

LEMMA SavedInv ==
    ASSUME EInv, NEW s \in Slots, Saved(s)
    PROVE  PageInv'
<1>1. /\ form'.editing = None /\ saving' = None
      /\ from[s] = "save" /\ req[s] # Idle /\ req[s].pc = "ok"
      /\ records' = Upsert(req[s].row)
      /\ UNCHANGED <<deleting, removing, employees, foreign>>
      /\ from' = [from EXCEPT ![s] = "other"]
      /\ \A t \in Slots \ {s} : req'[t] = req[t]
  BY ClosedTypes
  DEF Saved, IsAnswered, Form!SaveSucceeds, Takes, Answered, EInv, Inv, TypeOK
<1>2. /\ Waits'
      /\ \A t \in Slots : IsOk(t, "save")' => t # s /\ IsOk(t, "save")
      /\ \A t \in Slots : IsOk(t, "remove")' =>
           t # s /\ IsOk(t, "remove") /\ req'[t] = req[t]
      /\ \A t \in Slots \ {s} : IsOk(t, "remove") => IsOk(t, "remove")'
  BY <1>1, LetsGo
<1>3. \A t \in Slots : ~IsOk(t, "save")'
  BY <1>1, <1>2 DEF EInv, PageInv, Waits, IsOk
<1>4. /\ req[s].row \in Row /\ employees[req[s].row.id] # Absent
      /\ \/ req[s].row.id \in foreign
         \/ employees[req[s].row.id] = [user |-> req[s].row.user, code |-> req[s].row.code]
  BY <1>1 DEF EInv, PageInv, AnswerIsRow, IsOk
<1>5. KnownExist'
  <2>1. ASSUME NEW e \in EmpIds, Known(e)' PROVE employees'[e] # Absent
    <3>1. CASE Known(e)
      BY <1>1, <3>1 DEF EInv, PageInv, KnownExist
    <3>2. CASE e = req[s].row.id
      BY <1>1, <1>4, <3>2
    <3>3. Known(e) \/ e = req[s].row.id
      BY <1>1, <2>1, DirectoryAssumption DEF Known, Upsert
    <3> QED  BY <3>1, <3>2, <3>3
  <2> QED  BY <1>3, <2>1 DEF KnownExist
<1>6. AnswerIsRow'
  BY <1>1, <1>3 DEF AnswerIsRow
<1>7. RowsGood'
  <2> SUFFICES ASSUME NEW r \in records' PROVE RowGood(r)'
    BY DEF RowsGood
  <2>1. CASE r = req[s].row
    BY <1>1, <1>4, <2>1 DEF RowGood
  <2>2. CASE r \in records /\ r.id # req[s].row.id
    <3>1. RowGood(r)
      BY <2>2 DEF EInv, PageInv, RowsGood
    <3>2. CASE \E t \in Slots : IsOk(t, "save") /\ req[t].row.id = r.id
      BY <1>1, <2>2, <3>2 DEF EInv, PageInv, Waits, IsOk
    <3>3. CASE \E t \in Slots : IsOk(t, "remove") /\ req[t].msg.id = r.id
      <4>1. PICK t \in Slots : IsOk(t, "remove") /\ req[t].msg.id = r.id
        BY <3>3
      <4>2. t # s
        BY <1>1, <4>1 DEF IsOk
      <4>3. IsOk(t, "remove")' /\ req'[t].msg.id = r.id
        BY <1>1, <1>2, <4>1, <4>2
      <4> QED  BY <4>3 DEF RowGood
    <3> QED  BY <1>1, <3>1, <3>2, <3>3 DEF RowGood
  <2> QED  BY <1>1, <2>1, <2>2 DEF Upsert
<1> QED  BY <1>2, <1>5, <1>6, <1>7 DEF PageInv

LEMMA RemovedInv ==
    ASSUME EInv, NEW s \in Slots, Removed(s)
    PROVE  PageInv'
<1>1. /\ removing' = None /\ deleting' = None
      /\ from[s] = "remove" /\ req[s] # Idle /\ req[s].pc = "ok"
      /\ records' = Without(removing)
      /\ UNCHANGED <<form, saving, employees, foreign>>
      /\ from' = [from EXCEPT ![s] = "other"]
      /\ \A t \in Slots \ {s} : req'[t] = req[t]
  BY DEF Removed, IsAnswered, Form!DeleteSucceeds, Takes, Answered, EInv, Inv, TypeOK
<1>2. /\ Waits'
      /\ \A t \in Slots : IsOk(t, "save")' => IsOk(t, "save") /\ req'[t] = req[t]
      /\ \A t \in Slots \ {s} : IsOk(t, "save") => IsOk(t, "save")'
  BY <1>1, LetsGo
<1>3. \A e \in EmpIds : Known(e)' => Known(e)
  BY <1>1, DirectoryAssumption DEF Known, Without
<1>4. KnownExist'
  <2>1. ASSUME NEW t \in Slots, IsOk(t, "save") PROVE req[t].row.id \in EmpIds
    BY <2>1 DEF EInv, PageInv, AnswerIsRow, Row
  <2> QED  BY <1>1, <1>2, <1>3, <2>1 DEF EInv, PageInv, KnownExist
<1>5. AnswerIsRow'
  BY <1>1, <1>2 DEF EInv, PageInv, AnswerIsRow
<1>6. RowsGood'
  <2> SUFFICES ASSUME NEW r \in records, r.id # removing PROVE RowGood(r)'
    BY <1>1 DEF RowsGood, Without
  <2>1. RowGood(r)
    BY DEF EInv, PageInv, RowsGood
  <2>2. CASE \E t \in Slots : IsOk(t, "save") /\ req[t].row.id = r.id
    <3>1. PICK t \in Slots : IsOk(t, "save") /\ req[t].row.id = r.id
      BY <2>2
    <3>2. t # s
      BY <1>1, <3>1 DEF IsOk
    <3>3. IsOk(t, "save")' /\ req'[t].row.id = r.id
      BY <1>1, <1>2, <3>1, <3>2
    <3> QED  BY <3>3 DEF RowGood
  <2>3. CASE \E t \in Slots : IsOk(t, "remove") /\ req[t].msg.id = r.id
    BY <2>3 DEF EInv, PageInv, Waits, IsOk
  <2> QED  BY <1>1, <2>1, <2>2, <2>3 DEF RowGood
<1> QED  BY <1>2, <1>4, <1>5, <1>6 DEF PageInv

\* A refusal, or no answer: the rows stay, and an accepted request whose answer
\* is lost is another client's from now on.
LEMMA FailedInv ==
    ASSUME EInv, NEW s \in Slots,
           from' = [from EXCEPT ![s] = "other"],
           \A t \in Slots \ {s} : req'[t] = req[t],
           \/ from[s] = "save" /\ saving' = None /\ removing' = removing
           \/ from[s] = "remove" /\ removing' = None /\ saving' = saving,
           UNCHANGED <<form, deleting, records, employees>>,
           foreign \subseteq foreign',
           IsOk(s, "save") => req[s].row.id \in foreign',
           IsOk(s, "remove") => req[s].msg.id \in foreign'
    PROVE  PageInv'
<1>1. /\ Waits'
      /\ \A t \in Slots : IsOk(t, "save")' => IsOk(t, "save") /\ req'[t] = req[t]
      /\ \A t \in Slots \ {s} : IsOk(t, "save") => IsOk(t, "save")'
      /\ \A t \in Slots \ {s} : IsOk(t, "remove") => IsOk(t, "remove")'
  BY LetsGo
<1>2. \A e \in EmpIds : Known(e)' => Known(e)
  BY DirectoryAssumption DEF Known
<1>3. KnownExist'
  <2>1. ASSUME NEW t \in Slots, IsOk(t, "save") PROVE req[t].row.id \in EmpIds
    BY <2>1 DEF EInv, PageInv, AnswerIsRow, Row
  <2> QED  BY <1>1, <1>2, <2>1 DEF EInv, PageInv, KnownExist
<1>4. AnswerIsRow'
  BY <1>1 DEF EInv, PageInv, AnswerIsRow
<1>5. RowsGood'
  <2> SUFFICES ASSUME NEW r \in records PROVE RowGood(r)'
    BY DEF RowsGood
  <2>1. RowGood(r)
    BY DEF EInv, PageInv, RowsGood
  <2>2. CASE \E t \in Slots : IsOk(t, "save") /\ req[t].row.id = r.id
    <3>1. PICK t \in Slots : IsOk(t, "save") /\ req[t].row.id = r.id
      BY <2>2
    <3>2. CASE t = s
      BY <3>1, <3>2 DEF RowGood
    <3>3. CASE t # s
      <4>1. IsOk(t, "save")' /\ req'[t].row.id = r.id
        BY <1>1, <3>1, <3>3
      <4> QED  BY <4>1 DEF RowGood
    <3> QED  BY <3>2, <3>3
  <2>3. CASE \E t \in Slots : IsOk(t, "remove") /\ req[t].msg.id = r.id
    <3>1. PICK t \in Slots : IsOk(t, "remove") /\ req[t].msg.id = r.id
      BY <2>3
    <3>2. CASE t = s
      BY <3>1, <3>2 DEF RowGood
    <3>3. CASE t # s
      <4>1. IsOk(t, "remove")' /\ req'[t].msg.id = r.id
        BY <1>1, <3>1, <3>3
      <4> QED  BY <4>1 DEF RowGood
    <3> QED  BY <3>2, <3>3
  <2> QED  BY <2>1, <2>2, <2>3 DEF RowGood
<1> QED  BY <1>1, <1>3, <1>4, <1>5 DEF PageInv

LEMMA RefusedInv ==
    ASSUME EInv, NEW s \in Slots, Refused(s)
    PROVE  PageInv'
<1>1. /\ \/ from[s] = "save" /\ saving' = None /\ removing' = removing
         \/ from[s] = "remove" /\ removing' = None /\ saving' = saving
      /\ req[s].pc = "refused"
      /\ UNCHANGED <<form, deleting, records, employees, foreign>>
      /\ from' = [from EXCEPT ![s] = "other"]
      /\ \A t \in Slots \ {s} : req'[t] = req[t]
  BY DEF Refused, IsAnswered, Form!SaveFails, Form!DeleteFails, Takes, Answered,
         EInv, Inv, TypeOK
<1>2. ~IsOk(s, "save") /\ ~IsOk(s, "remove")
  BY <1>1 DEF IsOk
<1> QED  BY <1>1, <1>2, FailedInv

LEMMA LostInv ==
    ASSUME EInv, NEW s \in Slots, Lost(s)
    PROVE  PageInv'
<1>1. /\ \/ from[s] = "save" /\ saving' = None /\ removing' = removing
         \/ from[s] = "remove" /\ removing' = None /\ saving' = saving
      /\ UNCHANGED <<form, deleting, records, employees, req>>
      /\ foreign' = foreign \cup Changed(s)
      /\ from' = [from EXCEPT ![s] = "other"]
  BY DEF Lost, Form!SaveFails, Form!DeleteFails, dirVars
<1>2. IsOk(s, "save") => req[s].row.id \in Changed(s)
  <2> HAVE IsOk(s, "save")
  <2>1. req[s].row \in Row /\ req[s].pc = "ok"
    BY DEF EInv, PageInv, AnswerIsRow, IsOk
  <2>2. req[s].row # None
    BY <2>1, EmployeesAssumption
  <2> QED  BY <2>1, <2>2 DEF Changed
<1>3. IsOk(s, "remove") => req[s].msg.id \in Changed(s)
  <2> HAVE IsOk(s, "remove")
  <2>1. req[s].pc = "ok" /\ req[s].row = None /\ req[s].msg.op = "delete employee"
    BY DEF EInv, PageInv, Waits, IsOk
  <2>2. req[s].msg.id \in EmpIds
    BY <2>1, InService DEF EInv, Inv, PageInv, Waits, IsOk
  <2> QED  BY <2>1, <2>2 DEF Changed
<1>4. foreign \subseteq foreign' /\ \A t \in Slots \ {s} : req'[t] = req[t]
  BY <1>1
<1> QED  BY <1>1, <1>2, <1>3, <1>4, FailedInv

LEMMA OthersInv ==
    ASSUME EInv, NEW s \in Slots, Others(s)
    PROVE  PageInv'
<1>1. /\ UNCHANGED <<form, saving, deleting, removing, records, from, foreign, employees>>
      /\ \A t \in Slots \ {s} : req'[t] = req[t]
      /\ from[s] = "other"
  <2>1. CASE \E m \in Requests : Receives(s, m)
    <3>1. req[s] = Idle /\ employees' = employees /\ \A t \in Slots \ {s} : req'[t] = req[t]
      BY <2>1 DEF Receives, EInv, Inv, TypeOK
    <3>2. from[s] = "other"
      BY <3>1 DEF EInv, PageInv, Waits
    <3> QED  BY <3>1, <3>2 DEF Others, pageVars
  <2>2. CASE from[s] = "other" /\ Answered(s)
    BY <2>2 DEF Others, pageVars, Answered, EInv, Inv, TypeOK
  <2> QED  BY <2>1, <2>2 DEF Others
<1>2. \A t \in Slots : from[t] # "other" => req'[t] = req[t]
  BY <1>1
<1>3. Waits'
  BY <1>1, <1>2 DEF EInv, PageInv, Waits
<1>4. /\ \A t \in Slots : IsOk(t, "save")' <=> IsOk(t, "save")
      /\ \A t \in Slots : IsOk(t, "remove")' <=> IsOk(t, "remove")
      /\ \A t \in Slots : IsOk(t, "save") \/ IsOk(t, "remove") => req'[t] = req[t]
  BY <1>1, <1>2 DEF IsOk
<1>5. KnownExist'
  BY <1>1, <1>4 DEF EInv, PageInv, KnownExist, Known
<1>6. AnswerIsRow'
  BY <1>1, <1>4 DEF EInv, PageInv, AnswerIsRow
<1>7. RowsGood'
  BY <1>1, <1>4 DEF EInv, PageInv, RowsGood, RowGood
<1> QED  BY <1>3, <1>5, <1>6, <1>7 DEF PageInv
\* What the server changes is another's doing, or what the page waits for.
LEMMA ServerInv ==
    ASSUME EInv, NEW s \in Slots, Server(s)
    PROVE  PageInv'
<1>1. /\ UNCHANGED <<form, saving, deleting, removing, records, from>>
      /\ foreign \subseteq foreign'
      /\ from[s] = "other" =>
           \A e \in EmpIds : employees'[e] # employees[e] => e \in foreign'
  BY DEF Server, pageVars
<1>2. /\ req[s] # Idle /\ req[s].pc \in {"start", "write"}
      /\ \A t \in Slots \ {s} : req'[t] = req[t]
      /\ req'[s] # Idle /\ req'[s].msg = req[s].msg
      /\ Creates(s) \/ Updates(s) \/ Deletes(s) \/ GoesOn(s)
  BY HandlesStep DEF Server, EInv, Inv
<1>3. \A e \in EmpIds : employees[e] # Absent => employees'[e] # Absent
  BY NeverAbsent DEF Server, EInv, Inv
<1>4. Waits
  BY DEF EInv, PageInv
<1>5. /\ \A t \in Slots : IsOk(t, "save") \/ IsOk(t, "remove") => t # s
      /\ \A t \in Slots \ {s} : IsOk(t, "save")' <=> IsOk(t, "save")
      /\ \A t \in Slots \ {s} : IsOk(t, "remove")' <=> IsOk(t, "remove")
  BY <1>1, <1>2 DEF IsOk
<1>6. from[s] = "save" => \/ Creates(s) \/ Updates(s)
                          \/ UNCHANGED employees /\ req'[s].pc # "ok"
  BY <1>2, <1>4 DEF Waits, Deletes, GoesOn
<1>7. from[s] = "remove" => \/ Deletes(s)
                            \/ UNCHANGED employees /\ req'[s].pc # "ok"
  BY <1>2, <1>4 DEF Waits, Creates, Updates, GoesOn
<1>8. ASSUME NEW e \in EmpIds, employees'[e] # employees[e]
      PROVE  \/ e \in foreign'
             \/ IsOk(s, "save")' /\ req'[s].row.id = e
             \/ IsOk(s, "remove")' /\ req'[s].msg.id = e
  <2>1. from[s] \in {"save", "remove", "other"}
    BY DEF EInv, PageTypes
  <2>2. CASE from[s] = "save"
    BY <1>1, <1>6, <1>8, <2>2 DEF Creates, Updates, IsOk
  <2>3. CASE from[s] = "remove"
    BY <1>1, <1>2, <1>7, <1>8, <2>3 DEF Deletes, IsOk
  <2> QED  BY <1>1, <1>8, <2>1, <2>2, <2>3
<1>9. Waits'
  <2>1. \A t \in Slots : from[t] # "other" => req'[t] # Idle /\ req'[t].msg = req[t].msg
    BY <1>2, <1>4 DEF Waits
  <2>2. \A t \in Slots : from[t] = "remove" => req'[t].row = None
    BY <1>2, <1>4 DEF Waits, Creates, Updates, Deletes, GoesOn
  <2> QED  BY <1>1, <1>4, <2>1, <2>2 DEF Waits
<1>10. KnownExist'
  <2>1. \A e \in EmpIds : Known(e)' <=> Known(e)
    BY <1>1 DEF Known
  <2>2. ASSUME NEW t \in Slots, IsOk(t, "save")', req'[t].msg.op = "create employee"
        PROVE  ~Known(req[t].row.id)'
    <3>1. CASE t = s
      <4>1. Creates(s)
        BY <1>1, <1>2, <1>6, <2>2, <3>1 DEF IsOk, Updates
      <4>2. PICK e \in EmpIds : e = req'[s].row.id /\ employees[e] = Absent
        BY <4>1 DEF Creates, Row
      <4>3. ~Known(e)
        BY <4>2 DEF EInv, PageInv, KnownExist
      <4>4. ~Known(e)'
        BY <2>1, <4>3
      <4> QED  BY <3>1, <4>2, <4>4 DEF Known
    <3>2. CASE t # s
      <4>1. IsOk(t, "save") /\ req'[t] = req[t]
        BY <1>2, <1>5, <2>2, <3>2
      <4>2. ~Known(req[t].row.id) /\ req[t].row.id \in EmpIds
        BY <2>2, <4>1 DEF EInv, PageInv, KnownExist, AnswerIsRow, Row
      <4>3. PICK e \in EmpIds : e = req[t].row.id
        BY <4>2
      <4>4. ~Known(e)'
        BY <2>1, <4>2, <4>3
      <4> QED  BY <4>1, <4>3, <4>4 DEF Known
    <3> QED  BY <3>1, <3>2
  <2>3. \A e \in EmpIds : Known(e)' => employees'[e] # Absent
    <3>1. \A e \in EmpIds : Known(e) => employees[e] # Absent
      BY DEF EInv, PageInv, KnownExist
    <3> QED  BY <1>3, <2>1, <3>1
  <2> QED  BY <2>2, <2>3 DEF KnownExist
<1>11. AnswerIsRow'
  <2>1. ASSUME IsOk(s, "save")'
        PROVE  LET r == req'[s].row IN
                 /\ r \in Row /\ employees'[r.id] # Absent
                 /\ req'[s].msg.op = "update employee" => r.id = req'[s].msg.id
                 /\ r.id \in foreign' \/ employees'[r.id] = [user |-> r.user, code |-> r.code]
    <3>1. Creates(s) \/ Updates(s)
      BY <1>1, <1>6, <2>1 DEF IsOk
    <3>2. /\ req'[s].row \in Row
          /\ employees'[req'[s].row.id] = AsEmployee(req'[s].row)
          /\ req[s].msg.op = "update employee" => req'[s].row.id = req[s].msg.id
      BY <3>1 DEF Creates, Updates
    <3>3. AsEmployee(req'[s].row) \in Employees
      BY <3>2 DEF AsEmployee, Row, Employees
    <3> QED  BY <1>2, <3>2, <3>3, DirectoryAssumption DEF AsEmployee
  <2>2. ASSUME NEW t \in Slots, t # s, IsOk(t, "save")
        PROVE  LET r == req[t].row IN
                 /\ r \in Row /\ employees'[r.id] # Absent
                 /\ req[t].msg.op = "update employee" => r.id = req[t].msg.id
                 /\ r.id \in foreign' \/ employees'[r.id] = [user |-> r.user, code |-> r.code]
    <3> DEFINE r == req[t].row
    <3>1. /\ r \in Row /\ employees[r.id] # Absent /\ r.id \in EmpIds
          /\ req[t].msg.op = "update employee" => r.id = req[t].msg.id
          /\ r.id \in foreign \/ employees[r.id] = [user |-> r.user, code |-> r.code]
      BY <2>2 DEF EInv, PageInv, AnswerIsRow, Row
    <3>2. ASSUME employees'[r.id] # employees[r.id] PROVE r.id \in foreign'
      <4>1. CASE IsOk(s, "save")'
        <5>1. from[s] = "save" /\ from[t] = "save"
          BY <1>1, <2>2, <4>1 DEF IsOk
        <5>2. s = t
          BY <1>4, <5>1 DEF Waits
        <5> QED  BY <2>2, <5>2
      <4>2. CASE IsOk(s, "remove")' /\ req'[s].msg.id = r.id
        <5>1. from[s] = "remove" /\ req[s].msg.id = r.id /\ from[t] = "save"
          BY <1>1, <1>2, <2>2, <4>2 DEF IsOk
        <5>2. removing = r.id /\ saving # None /\ removing # None
          BY <1>4, <5>1 DEF Waits
        <5>3. CASE req[t].msg.op = "update employee"
          BY <1>1, <1>4, <3>1, <5>1, <5>2, <5>3 DEF Waits, EInv, PageInv, AnswerIsRow
        <5>4. CASE req[t].msg.op = "create employee"
          BY <2>2, <5>2, <5>4 DEF EInv, PageInv, KnownExist, Known
        <5> QED  BY <1>4, <5>1, <5>3, <5>4 DEF Waits
      <4> QED  BY <1>8, <3>1, <3>2, <4>1, <4>2
    <3> QED  BY <1>1, <1>3, <3>1, <3>2
  <2>3. saving' # None /\ removing' # None /\ saving'.id = removing' => removing' \in foreign'
    BY <1>1 DEF EInv, PageInv, AnswerIsRow
  <2>4. \A t \in Slots : IsOk(t, "save")' =>
           LET r == req'[t].row IN
             /\ r \in Row /\ employees'[r.id] # Absent
             /\ req'[t].msg.op = "update employee" => r.id = req'[t].msg.id
             /\ r.id \in foreign' \/ employees'[r.id] = [user |-> r.user, code |-> r.code]
    BY <1>2, <1>5, <2>1, <2>2
  <2> QED  BY <2>3, <2>4 DEF AnswerIsRow
<1>12. RowsGood'
  <2> SUFFICES ASSUME NEW r \in records PROVE RowGood(r)'
    BY <1>1 DEF RowsGood
  <2>1. RowGood(r) /\ r.id \in EmpIds
    BY DEF EInv, PageInv, PageTypes, RowsGood, Row
  <2>2. CASE r.id \in foreign
    BY <1>1, <2>2 DEF RowGood
  <2>3. CASE employees[r.id] = [user |-> r.user, code |-> r.code]
    BY <1>8, <2>1, <2>3 DEF RowGood
  <2>4. CASE \E t \in Slots : IsOk(t, "save") /\ req[t].row.id = r.id
    <3>1. PICK t \in Slots : IsOk(t, "save") /\ req[t].row.id = r.id
      BY <2>4
    <3>2. IsOk(t, "save")' /\ req'[t].row.id = r.id
      BY <1>2, <1>5, <3>1
    <3> QED  BY <3>2 DEF RowGood
  <2>5. CASE \E t \in Slots : IsOk(t, "remove") /\ req[t].msg.id = r.id
    <3>1. PICK t \in Slots : IsOk(t, "remove") /\ req[t].msg.id = r.id
      BY <2>5
    <3>2. IsOk(t, "remove")' /\ req'[t].msg.id = r.id
      BY <1>2, <1>5, <3>1
    <3> QED  BY <3>2 DEF RowGood
  <2> QED  BY <2>1, <2>2, <2>3, <2>4, <2>5 DEF RowGood
<1> QED  BY <1>9, <1>10, <1>11, <1>12 DEF PageInv
-----------------------------------------------------------------------------
\* The whole invariant.
LEMMA EInvInit ==
    ASSUME EmployeesInit
    PROVE  EInv
<1>1. Inv
  BY InitInv DEF EmployeesInit
<1>2. PageTypes
  BY FormInit
<1>3. /\ saving = None /\ deleting = None /\ removing = None /\ form.editing = None
      /\ records = {} /\ \A s \in Slots : from[s] = "other"
  BY ClosedTypes DEF EmployeesInit, Form!Init
<1>4. Waits
  BY <1>3 DEF Waits
<1>5. KnownExist /\ AnswerIsRow /\ RowsGood
  BY <1>3, DirectoryAssumption DEF KnownExist, Known, AnswerIsRow, RowsGood, IsOk
<1> QED  BY <1>1, <1>2, <1>4, <1>5 DEF EInv, PageInv

LEMMA EInvNext ==
    ASSUME EInv, [EmployeesNext]_vars
    PROVE  EInv'
<1>1. [Next]_dirVars
  BY StepImplements DEF EInv
<1>2. Inv'
  BY <1>1, NextInv DEF EInv
<1>3. CASE UNCHANGED vars
  <2>1. UNCHANGED <<form, saving, deleting, removing, records, from, foreign,
                    employees, req>>
    BY <1>3 DEF vars, dirVars
  <2>2. PageTypes'
    BY <2>1 DEF EInv, PageTypes, FormTypes, Form!TypeOK
  <2>3. Waits' /\ KnownExist' /\ AnswerIsRow' /\ RowsGood'
    BY <2>1 DEF EInv, PageInv, Waits, KnownExist, Known, AnswerIsRow, RowsGood, RowGood, IsOk
  <2> QED  BY <1>2, <2>2, <2>3 DEF EInv, PageInv
<1>4. CASE OnForm
  BY <1>2, <1>4, OnFormTypes, OnFormInv DEF EInv
<1>5. CASE Leave
  BY <1>2, <1>5, PageTypesInv, LeaveInv DEF EInv, PageInv
<1>6. ASSUME NEW s \in Slots,
             \/ Save(s) \/ Remove(s) \/ Saved(s) \/ Removed(s)
             \/ Refused(s) \/ Lost(s) \/ Server(s) \/ Others(s)
      PROVE  EInv'
  <2>1. PageTypes'
    BY <1>6, PageTypesInv DEF EInv, PageInv
  <2>2. PageInv'
    BY <1>6, SaveInv, RemoveInv, SavedInv, RemovedInv, RefusedInv, LostInv, ServerInv,
       OthersInv
  <2> QED  BY <1>2, <2>1, <2>2 DEF EInv
<1> QED  BY <1>3, <1>4, <1>5, <1>6 DEF EmployeesNext

(***************************************************************************)
(* The invariant of the page and the server together: what the page knows  *)
(* of exists, and a row is the record, unless the change is under way.     *)
(***************************************************************************)
THEOREM PageInvariance == EmployeesSpec => []EInv
<1>1. EmployeesInit => EInv
  BY EInvInit
<1>2. EInv /\ [EmployeesNext]_vars => EInv'
  BY EInvNext
<1> QED  BY <1>1, <1>2, PTL DEF EmployeesSpec

(***************************************************************************)
(* The page, its requests and the answers it loses implement Directory: it *)
(* sends nothing but requests of the API, and takes only answers that the  *)
(* handlers gave.                                                          *)
(***************************************************************************)
THEOREM Implements == EmployeesSpec => Spec
<1>1. EmployeesInit => Init
  BY DEF EmployeesInit
<1>2. EInv /\ [EmployeesNext]_vars => [Next]_dirVars
  BY StepImplements DEF EInv
<1> QED  BY <1>1, <1>2, PageInvariance, PTL DEF EmployeesSpec, Spec

(***************************************************************************)
(* Types, and the page waits for a request exactly while the request or    *)
(* its answer is there: no button stays disabled for ever.                 *)
(***************************************************************************)
THEOREM PageTypeCorrect == EmployeesSpec => []EmployeesTypeOK
<1>1. ASSUME EInv PROVE EmployeesTypeOK
  <2>1. TypeOK /\ Form!TypeOK /\ records \subseteq Row /\ foreign \subseteq EmpIds
        /\ from \in [Slots -> {"save", "remove", "other"}]
    BY <1>1 DEF EInv, Inv, PageTypes, FormTypes
  <2>2. /\ saving # None <=> WaitsFor("save") # {}
        /\ removing # None <=> WaitsFor("remove") # {}
    BY <1>1 DEF EInv, PageInv, Waits, WaitsFor
  <2> QED  BY <2>1, <2>2 DEF EmployeesTypeOK
<1> QED  BY <1>1, PageInvariance, PTL

(***************************************************************************)
(* The page never shows a record otherwise than the server has it, unless  *)
(* another client has changed it, the answer was lost, or it is being      *)
(* saved or deleted.                                                       *)
(***************************************************************************)
THEOREM RowsStayTrue == EmployeesSpec => []RowsAreTheServers
<1>1. ASSUME EInv PROVE RowsAreTheServers
  <2> SUFFICES ASSUME NEW r \in records
               PROVE  \/ r.id \in foreign \cup BeingSaved \cup {removing}
                      \/ r.id \in Rows /\ employees[r.id] = [user |-> r.user, code |-> r.code]
    BY DEF RowsAreTheServers
  <2>1. r \in Row /\ r.id \in EmpIds /\ RowGood(r)
    BY <1>1 DEF EInv, PageTypes, PageInv, RowsGood, Row
  <2>2. CASE employees[r.id] = [user |-> r.user, code |-> r.code]
    BY <2>1, <2>2 DEF Rows, Employees, Row
  <2>3. CASE \E s \in Slots : IsOk(s, "save") /\ req[s].row.id = r.id
    <3>1. PICK s \in Slots : IsOk(s, "save") /\ req[s].row.id = r.id
      BY <2>3
    <3>2. Waits /\ KnownExist /\ AnswerIsRow
      BY <1>1 DEF EInv, PageInv
    <3>3. Known(r.id)
      BY DEF Known
    <3>4. req[s].msg.op # "create employee"
      BY <3>1, <3>2, <3>3 DEF KnownExist
    <3>5. saving # None /\ saving.id = req[s].msg.id /\ req[s].msg.op = "update employee"
      BY <3>1, <3>2, <3>4 DEF Waits, IsOk
    <3>6. saving.id = r.id
      BY <3>1, <3>2, <3>5 DEF AnswerIsRow
    <3> QED  BY <2>1, <3>5, <3>6 DEF BeingSaved
  <2>4. CASE \E s \in Slots : IsOk(s, "remove") /\ req[s].msg.id = r.id
    BY <1>1, <2>4 DEF EInv, PageInv, Waits, IsOk
  <2> QED  BY <2>1, <2>2, <2>3, <2>4 DEF RowGood
<1> QED  BY <1>1, PageInvariance, PTL

\* "one employee record per user" holds whatever the page does.
THEOREM PageOneRecord == EmployeesSpec => []OneEmployeePerUser
BY Implements, OneRecord, PTL

(***************************************************************************)
(* The salary code of every employee exists, also one that the page has    *)
(* picked from a list of before, and no two codes are the same             *)
(* (salary_code_handler.go).                                               *)
(***************************************************************************)
THEOREM PageCodesStay == EmployeesSpec => [](CodeOfEmployeeExists /\ CodesAreUnique)
BY Implements, CodesStay, CodesDiffer, PTL

(***************************************************************************)
(* No request of the page keeps the handlers busy for ever.                *)
(***************************************************************************)
THEOREM PageRequestsEnd == EmployeesSpec => RequestsMoveForward
BY Implements, RequestsEnd, PTL

(***************************************************************************)
(* No step but the answer to a save, Cancel and leaving the page closes    *)
(* the form: no failure, no other dialog and no other client does.         *)
(***************************************************************************)
THEOREM DraftsSurvive == EmployeesSpec => DraftSurvivesFailure
<1> DEFINE Keeps == form.open /\ ~form'.open
                      => \/ Form!Cancel \/ Leave
                         \/ \E s \in Slots : IsAnswered(s, "save", "ok")
<1>1. ASSUME EInv, [EmployeesNext]_vars PROVE Keeps
  <2>1. CASE UNCHANGED vars
    BY <2>1 DEF vars
  <2>2. CASE Leave \/ \E s \in Slots : Saved(s)
    BY <2>2 DEF Saved
  <2>3. CASE OnForm
    <3>1. CASE Form!Cancel
      BY <3>1
    <3>2. CASE Form!OpenCreate \/ Form!DismissDelete
      BY <3>2 DEF Form!OpenCreate, Form!Shows, Form!DismissDelete
    <3>3. form \in [open : BOOLEAN, editing : EmpIds \cup {None},
                    values : Form!Filled, errors : SUBSET {"user", "code"}]
      BY <1>1 DEF EInv, PageTypes, FormTypes, Form!TypeOK
    <3>4. CASE Form!SubmitRefused
      BY <3>3, <3>4 DEF Form!SubmitRefused
    <3>5. ASSUME NEW f \in {"user", "code"}, NEW v \in Users \cup CodeIds \cup {Blank},
                 Form!Type(f, v)
          PROVE  form'.open = form.open
      BY <3>3, <3>5 DEF Form!Type
    <3>6. CASE \E r \in records : Form!OpenEdit(AsRecord(r)) \/ Form!AskDelete(r.id)
      BY <3>6 DEF Form!OpenEdit, Form!Shows, Form!AskDelete
    <3> QED  BY <2>3, <3>1, <3>2, <3>4, <3>5, <3>6 DEF OnForm, Form!OnForm
  <2>4. ASSUME NEW s \in Slots, Save(s) PROVE form'.open = form.open
    BY <1>1, <2>4 DEF Save, Form!Submit, EInv, PageTypes, FormTypes, Form!TypeOK
  <2>5. ASSUME NEW s \in Slots,
               Remove(s) \/ Removed(s) \/ Refused(s) \/ Lost(s) \/ Server(s) \/ Others(s)
        PROVE  form' = form
    BY <2>5
    DEF Remove, Removed, Refused, Lost, Server, Others, pageVars,
        Form!ConfirmDelete, Form!DeleteSucceeds, Form!DeleteFails, Form!SaveFails
  <2> QED  BY <1>1, <2>1, <2>2, <2>3, <2>4, <2>5 DEF EmployeesNext
<1>2. EInv /\ [EmployeesNext]_vars => [Keeps]_vars
  BY <1>1
<1> QED  BY <1>2, PageInvariance, PTL DEF EmployeesSpec, DraftSurvivesFailure

=============================================================================
