------------------------------- MODULE Directory -------------------------------
(***************************************************************************)
(* The tables employees and salary_codes and the handlers that write them  *)
(* (employee_handler.go, salary_code_handler.go).  A handler runs one      *)
(* statement after another, each in a transaction of its own: between the  *)
(* check and the write of CreateEmployee, between the count and the delete *)
(* of DeleteSalaryCode, and between the attempts of CreateSalaryCode other *)
(* requests come in.  A statement is atomic (external: PostgreSQL), and    *)
(* the constraints of the migration hold at its end.                       *)
(*                                                                         *)
(* Of an employee the model keeps the user and the salary code, of a       *)
(* salary code its code; the level and amount of a code and the other      *)
(* columns of an employee are written in the same statements.              *)
(***************************************************************************)
EXTENDS Integers

CONSTANTS
    Slots,          \* requests handled at a time
    Users,          \* rows of users
    EmpIds, CodeIds,        \* gen_random_uuid()
    Names,          \* what GenerateSalaryCode can return
    Attempts,       \* of CreateSalaryCode: 5 in the code
    Absent, Gone,   \* an id that is not used yet, that is deleted
    None            \* nothing

Employees == [user : Users, code : CodeIds]

ASSUME DirectoryAssumption ==
    /\ Attempts \in Nat \ {0}
    /\ Absent # Gone
    /\ {Absent, Gone} \cap (Names \cup Employees) = {}
    /\ None \notin EmpIds

VARIABLES
    employees,      \* id -> row
    salaryCodes,    \* id -> code
    req             \* slot -> the request it handles, and its answer

dirVars == <<employees, salaryCodes, req>>

-----------------------------------------------------------------------------
(***************************************************************************)
(* Requests.  A PATCH of an employee does not name the user, one of a      *)
(* salary code not the code: UpdateEmployeeRequest and                     *)
(* UpdateSalaryCodeRequest have no such field.                             *)
(***************************************************************************)
Requests ==
    [op : {"create employee"}, user : Users, code : CodeIds]
    \cup [op : {"update employee"}, id : EmpIds, code : CodeIds]
    \cup [op : {"delete employee"}, id : EmpIds]
    \cup [op : {"create code"}]
    \cup [op : {"update code", "delete code"}, id : CodeIds]

PCs == {"start", "write", "ok", "refused"}

Idle == [pc |-> "idle"]

Row == [id : EmpIds, user : Users, code : CodeIds]

\* Which attempt of CreateSalaryCode comes next; the row of the answer, as the
\* statement that wrote it returns it.
Handling ==
    [pc : PCs, msg : Requests, attempt : 1 .. Attempts, row : Row \cup {None}]

Init ==
    /\ employees = [e \in EmpIds |-> Absent]
    /\ salaryCodes = [c \in CodeIds |-> Absent]
    /\ req = [s \in Slots |-> Idle]

Receives(s, m) ==
    /\ req[s] = Idle
    /\ req' = [req EXCEPT ![s] = [pc |-> "start", msg |-> m, attempt |-> 1, row |-> None]]
    /\ UNCHANGED <<employees, salaryCodes>>

At(s, pc, op) == req[s] # Idle /\ req[s].pc = pc /\ req[s].msg.op = op

Step(s, pc) == req' = [req EXCEPT ![s].pc = pc]

Refuse(s) == Step(s, "refused") /\ UNCHANGED <<employees, salaryCodes>>

Returns(s, id, emp) ==
    req' = [req EXCEPT ![s].pc = "ok",
                       ![s].row = [id |-> id, user |-> emp.user, code |-> emp.code]]

\* The handler ends, and its answer is gone from the server.
Answered(s) ==
    /\ req[s] # Idle /\ req[s].pc \in {"ok", "refused"}
    /\ req' = [req EXCEPT ![s] = Idle]
    /\ UNCHANGED <<employees, salaryCodes>>

-----------------------------------------------------------------------------
(***************************************************************************)
(* Employees.                                                              *)
(***************************************************************************)
Rows == {e \in EmpIds : employees[e] \in Employees}
Codes == {c \in CodeIds : salaryCodes[c] \in Names}

HasEmployee(u) == \E e \in Rows : employees[e].user = u
References(c) == \E e \in Rows : employees[e].code = c

InsertableTwice(u, c) == c \in Codes    \* mutant: user_id is not UNIQUE

\* UNIQUE (user_id), and the foreign key on salary_code_id.
Insertable(u, c) == ~HasEmployee(u) /\ c \in Codes

GetEmployeeByUserID(s) ==
    /\ At(s, "start", "create employee")
    /\ IF HasEmployee(req[s].msg.user) THEN Refuse(s)
       ELSE Step(s, "write") /\ UNCHANGED <<employees, salaryCodes>>

CreateEmployee(s) ==
    /\ At(s, "write", "create employee")
    /\ LET m == req[s].msg IN
         \/ /\ ~Insertable(m.user, m.code)
            /\ Refuse(s)
         \/ /\ Insertable(m.user, m.code)
            /\ \E e \in EmpIds :
                 /\ employees[e] = Absent
                 /\ employees' = [employees EXCEPT ![e] = [user |-> m.user, code |-> m.code]]
                 /\ Returns(s, e, employees'[e])
            /\ UNCHANGED salaryCodes

UpdateEmployee(s) ==
    /\ At(s, "start", "update employee")
    /\ LET m == req[s].msg IN
         \/ /\ m.id \notin Rows \/ m.code \notin Codes
            /\ Refuse(s)
         \/ /\ m.id \in Rows /\ m.code \in Codes
            /\ employees' = [employees EXCEPT ![m.id] = [@ EXCEPT !.code = m.code]]
            /\ Returns(s, m.id, employees'[m.id])
            /\ UNCHANGED salaryCodes

DeleteEmployee(s) ==
    /\ At(s, "start", "delete employee")
    /\ LET id == req[s].msg.id IN
         IF id \notin Rows THEN Refuse(s)
         ELSE /\ employees' = [employees EXCEPT ![id] = Gone]
              /\ Step(s, "ok")
              /\ UNCHANGED salaryCodes

-----------------------------------------------------------------------------
(***************************************************************************)
(* Salary codes.                                                           *)
(***************************************************************************)
TakenNever(n) == FALSE          \* mutant: code is not UNIQUE

Taken(n) == \E c \in Codes : salaryCodes[c] = n     \* UNIQUE (code)

CollidesForEver(s) ==           \* mutant: the attempts are not counted
    /\ req' = [req EXCEPT ![s].attempt = @ + 1]
    /\ UNCHANGED <<employees, salaryCodes>>

\* A collision is tried again with another code, five times in all.
Collides(s) ==
    IF req[s].attempt < Attempts
      THEN /\ req' = [req EXCEPT ![s].attempt = @ + 1]
           /\ UNCHANGED <<employees, salaryCodes>>
      ELSE Refuse(s)

CreateSalaryCode(s) ==
    /\ At(s, "start", "create code")
    /\ \E n \in Names :
         \/ Taken(n) /\ Collides(s)
         \/ /\ ~Taken(n)
            /\ \E c \in CodeIds :
                 /\ salaryCodes[c] = Absent
                 /\ salaryCodes' = [salaryCodes EXCEPT ![c] = n]
            /\ Step(s, "ok")
            /\ UNCHANGED employees

\* The level and the amount only: "code is immutable".
UpdateSalaryCode(s) ==
    /\ At(s, "start", "update code")
    /\ Step(s, IF req[s].msg.id \in Codes THEN "ok" ELSE "refused")
    /\ UNCHANGED <<employees, salaryCodes>>

CountEmployees(s) ==
    /\ At(s, "start", "delete code")
    /\ IF References(req[s].msg.id) THEN Refuse(s)
       ELSE Step(s, "write") /\ UNCHANGED <<employees, salaryCodes>>

DeletableAny(c) == c \in Codes  \* mutant: the count is all that blocks

\* The foreign key has no ON DELETE: it blocks what the count has missed.
Deletable(c) == c \in Codes /\ ~References(c)

DeleteSalaryCode(s) ==
    /\ At(s, "write", "delete code")
    /\ LET id == req[s].msg.id IN
         IF ~Deletable(id) THEN Refuse(s)
         ELSE /\ salaryCodes' = [salaryCodes EXCEPT ![id] = Gone]
              /\ Step(s, "ok")
              /\ UNCHANGED employees

\* Any statement may fail (a lost connection, a context that has ended).
StatementFails(s) == req[s] # Idle /\ req[s].pc \in {"start", "write"} /\ Refuse(s)

Handles(s) ==
    \/ GetEmployeeByUserID(s) \/ CreateEmployee(s)
    \/ UpdateEmployee(s) \/ DeleteEmployee(s)
    \/ CreateSalaryCode(s) \/ UpdateSalaryCode(s)
    \/ CountEmployees(s) \/ DeleteSalaryCode(s)
    \/ StatementFails(s)

Next ==
    \E s \in Slots :
        \/ Handles(s) \/ Answered(s)
        \/ \E m \in Requests : Receives(s, m)

Spec == Init /\ [][Next]_dirVars

-----------------------------------------------------------------------------
(***************************************************************************)
(* Every variable stays in its set: CreateSalaryCode makes no more than    *)
(* its attempts.                                                           *)
(***************************************************************************)
TypeOK ==
    /\ employees \in [EmpIds -> Employees \cup {Absent, Gone}]
    /\ salaryCodes \in [CodeIds -> Names \cup {Absent, Gone}]
    /\ req \in [Slots -> Handling \cup {Idle}]

(***************************************************************************)
(* "one employee record per user" (employee_handler.go): also of two       *)
(* requests that both found no record.                                     *)
(***************************************************************************)
OneEmployeePerUser ==
    \A d, e \in Rows : employees[d].user = employees[e].user => d = e

(***************************************************************************)
(* Nobody is paid by a code that is gone: deleting a salary code "is       *)
(* blocked if any employee still references it" (salary-codes.tsx), also   *)
(* one who was given the code after the count.                             *)
(***************************************************************************)
CodeOfEmployeeExists == \A e \in Rows : employees[e].code \in Codes

(***************************************************************************)
(* No two salary codes have the same code: a collision is not stored.      *)
(***************************************************************************)
CodesAreUnique ==
    \A b, c \in Codes : salaryCodes[b] = salaryCodes[c] => b = c

(***************************************************************************)
(* A salary code keeps its code until it is deleted, an employee record    *)
(* its user, and neither comes back: what was paid by a code, or to an     *)
(* employee, can be told afterwards.                                       *)
(***************************************************************************)
IdentitiesAreKept ==
    [][/\ \A c \in CodeIds :
            salaryCodes[c] # Absent => salaryCodes'[c] \in {salaryCodes[c], Gone}
       /\ \A e \in EmpIds :
            employees[e] # Absent =>
                \/ employees'[e] = Gone
                \/ e \in Rows /\ employees'[e] \in Employees
                              /\ employees'[e].user = employees[e].user]_dirVars

(***************************************************************************)
(* Every statement brings a request nearer to its answer: the attempts of  *)
(* CreateSalaryCode are counted, and nothing else is tried again.          *)
(***************************************************************************)
Remaining(s) ==
    CASE req[s].pc = "idle" -> 0
      [] req[s].pc \in {"ok", "refused"} -> 1
      [] req[s].pc = "write" -> 2
      [] req[s].pc = "start" -> 3 + Attempts - req[s].attempt

RequestsMoveForward ==
    [][\A s \in Slots :
         req[s] # Idle =>
            \/ req'[s] = req[s]
            \/ Remaining(s)' \in Nat /\ Remaining(s)' < Remaining(s)]_dirVars

=============================================================================
