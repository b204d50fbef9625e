----------------------------- MODULE Invitations -----------------------------
(***************************************************************************)
(* How people get into a company: EmployeesService.create and invite,      *)
(* UsersService.createInvited, AuthService.acceptInvite and resetPassword. *)
(*                                                                         *)
(* The unique indexes of the database are the keys of the functions: users *)
(* by e-mail address, employees by code.  A call gives way to the others   *)
(* at each query; it is a slot of `calls`, whose pc names the query it     *)
(* issues next, and starts with its first query.  No transactions.         *)
(***************************************************************************)
EXTENDS Naturals, FiniteSets

CONSTANTS
  Emails,      \* e-mail addresses, lower case
  MaxCode,     \* codes are EMP-0001 .. MaxCode
  GivenCodes,  \* codes a request may ask for
  AskedRoles,  \* roles a request may ask for: any strings
  Calls,       \* slots for calls in flight
  Hires,       \* what an invitation can be on behalf of (candidates)
  None,
  MaxFailures  \* how many calls may end at a query (query error, crash)

ASSUME CodesAssumption == MaxCode \in Nat /\ GivenCodes \subseteq 1 .. MaxCode
ASSUME MaxFailuresAssumption == MaxFailures \in Nat
RoleNames == {"OWNER", "HR_ADMIN", "MANAGER", "EMPLOYEE"}

ASSUME NoneAssumption ==
  None \notin Hires \cup Emails \cup (1 .. MaxCode) /\ None \notin RoleNames

VARIABLES
  users,      \* e-mail -> user with that address
  employees,  \* code -> employee with that code
  calls,      \* slot -> call in flight
  failures,   \* calls cut short so far
  cut         \* history: addresses with an invitation that was refused half way or cut short

inviteVars == <<users, employees, calls, failures, cut>>

----------------------------------------------------------------------------

Codes == 1 .. MaxCode

User == [status : {"INVITED", "ACTIVE"}, role : RoleNames \cup {None}, token : BOOLEAN]
NoUser == [status |-> "NONE"]

\* user: the address of the user the employee is linked to, if any.
Employee == [user : Emails \cup {None}, status : {"INVITED", "ACTIVE"}]
NoEmployee == [status |-> "NONE"]

Idle == [pc |-> "idle"]
InvitePcs == {"check", "user", "role", "code", "employee", "return"}
InviteCall ==
  [op : {"invite"}, pc : InvitePcs, email : Emails, code : Codes \cup {None},
   hire : Hires \cup {None}]
CreateCall ==
  [op : {"create"}, pc : {"employee"}, email : {None}, code : Codes, hire : {None}]
AcceptCall == [op : {"accept"}, pc : {"activateUser", "activateEmployee"}, email : Emails]

Taken(code) == employees[code] # NoEmployee
EmployeesOf(email) == {code \in Codes : Taken(code) /\ employees[code].user = email}
InFlight(email) == {c \in Calls : calls[c] # Idle /\ calls[c].email = email}

Put(c, call) == calls' = [calls EXCEPT ![c] = call]
Goto(c, pc) == calls' = [calls EXCEPT ![c].pc = pc]
Return(c) == Put(c, Idle)
At(c, pc) == calls[c].pc = pc

----------------------------------------------------------------------------
(* create and invite *)

\* nextEmployeeCode counts the employees of the company.
NextCode == Cardinality({code \in Codes : Taken(code)}) + 1

CreateStart(c, code) ==
  /\ calls[c] = Idle
  /\ Put(c, [op |-> "create", pc |-> "employee", email |-> None, code |-> code, hire |-> None])
  /\ UNCHANGED <<users, employees, failures, cut>>

\* assertEmailFree is the first query of invite; the code is the one of the
\* request or None.
InviteStart(c, email, code) ==
  /\ calls[c] = Idle
  /\ users[email] = NoUser
  /\ Put(c, [op |-> "invite", pc |-> "user", email |-> email, code |-> code, hire |-> None])
  /\ UNCHANGED <<users, employees, failures, cut>>

\* The same query of an invite amid another call; EMAIL_TAKEN ends that too.
CheckEmail(c) ==
  /\ At(c, "check")
  /\ IF users[calls[c].email] = NoUser THEN Goto(c, "user") ELSE Return(c)
  /\ UNCHANGED <<users, employees, failures, cut>>

\* Seeded fault: the address is checked, but its index is not unique.
AddressFreeAlways(email) == TRUE

AddressFree(email) == users[email] = NoUser

\* A second user with the address violates the index and ends the call.
CreateUser(c) ==
  LET email == calls[c].email IN
  /\ At(c, "user")
  /\ IF AddressFree(email)
       THEN /\ users' = [users EXCEPT ![email] =
                           [status |-> "INVITED", role |-> None, token |-> TRUE]]
            /\ Goto(c, "role")
       ELSE Return(c) /\ UNCHANGED users
  /\ UNCHANGED <<employees, failures, cut>>

\* Seeded fault: assignRole stores the role, but not that the user has it.
WithRoleStored(user, role) == user

WithRole(user, role) == [user EXCEPT !.role = role]

\* invite casts the string of its request to a RoleName, unchecked, OWNER
\* included; hireCandidate sends none, which is EMPLOYEE.
RolesOf(c) == IF calls[c].hire = None THEN AskedRoles ELSE {"EMPLOYEE"}

AssignRole(c) ==
  /\ At(c, "role")
  /\ \E role \in RolesOf(c) \cap RoleNames :
       users' = [users EXCEPT ![calls[c].email] = WithRole(@, role)]
  /\ Goto(c, IF calls[c].code = None THEN "code" ELSE "employee")
  /\ UNCHANGED <<employees, failures, cut>>

\* The database has no other role: the query is refused after the user is stored.
RefuseRole(c) ==
  /\ At(c, "role")
  /\ RolesOf(c) \ RoleNames # {}
  /\ Return(c)
  /\ cut' = cut \cup {calls[c].email}
  /\ UNCHANGED <<users, employees, failures>>

CountEmployees(c) ==
  /\ At(c, "code")
  /\ NextCode \in Codes
  /\ calls' = [calls EXCEPT ![c].code = NextCode, ![c].pc = "employee"]
  /\ UNCHANGED <<users, employees, failures, cut>>

\* A code that is taken violates the index and ends the call; what invite has
\* stored of the user stays.
CreateEmployee(c) ==
  LET call == calls[c] IN
  /\ At(c, "employee")
  /\ IF Taken(call.code)
       THEN /\ Return(c)
            /\ cut' = cut \cup ({call.email} \ {None})
            /\ UNCHANGED employees
       ELSE /\ employees' = [employees EXCEPT ![call.code] =
                 [user |-> call.email, status |-> "INVITED"]]
            /\ IF call.hire = None THEN Return(c) ELSE Goto(c, "return")
            /\ UNCHANGED cut
  /\ UNCHANGED <<users, failures>>

----------------------------------------------------------------------------
(* acceptInvite, resetPassword *)

\* The token of an invitation leaves the server after the employee is stored.
Delivered(email) == EmployeesOf(email) # {}

\* acceptInvite finds the user by the token, which works once.  That it expires
\* adds nothing: an invitation may also never be accepted.
AcceptStart(c, email) ==
  /\ calls[c] = Idle
  /\ Delivered(email)
  /\ users[email].token
  /\ Put(c, [op |-> "accept", pc |-> "activateUser", email |-> email])
  /\ UNCHANGED <<users, employees, failures, cut>>

\* Seeded fault: the token is spent, but the user stays INVITED.
ActivatedLater(user) == [user EXCEPT !.token = FALSE]

Activated(user) == [user EXCEPT !.token = FALSE, !.status = "ACTIVE"]

ActivateUser(c) ==
  /\ At(c, "activateUser")
  /\ users' = [users EXCEPT ![calls[c].email] = Activated(@)]
  /\ Goto(c, "activateEmployee")
  /\ UNCHANGED <<employees, failures, cut>>

\* updateMany of the employees linked to the user and still INVITED.
ActivateEmployee(c) ==
  /\ At(c, "activateEmployee")
  /\ employees' = [code \in Codes |->
       IF code \in EmployeesOf(calls[c].email)
         THEN [employees[code] EXCEPT !.status = "ACTIVE"]
         ELSE employees[code]]
  /\ Return(c)
  /\ UNCHANGED <<users, failures, cut>>

\* forgotPassword and resetPassword ask for no status and make any user ACTIVE.
\* What they read is the user; the token of the invitation is left alone.
ResetPassword(email) ==
  /\ users[email] # NoUser
  /\ users' = [users EXCEPT ![email].status = "ACTIVE"]
  /\ UNCHANGED <<employees, calls, failures, cut>>

\* A query fails or the process dies: what the call has written stays written.
Fail(c) ==
  /\ failures < MaxFailures
  /\ failures' = failures + 1
  /\ calls[c] # Idle
  /\ cut' = cut \cup ({calls[c].email} \ {None})
  /\ Return(c)
  /\ UNCHANGED <<users, employees>>

----------------------------------------------------------------------------

InviteInit ==
  /\ users = [e \in Emails |-> NoUser]
  /\ employees = [code \in Codes |-> NoEmployee]
  /\ calls = [c \in Calls |-> Idle]
  /\ failures = 0
  /\ cut = {}

InviteNext ==
  \/ \E c \in Calls :
       \/ \E e \in Emails, code \in GivenCodes \cup {None} : InviteStart(c, e, code)
       \/ \E code \in (GivenCodes \cup {NextCode}) \cap Codes : CreateStart(c, code)
       \/ CheckEmail(c) \/ CreateUser(c) \/ AssignRole(c) \/ RefuseRole(c)
       \/ CountEmployees(c) \/ CreateEmployee(c)
       \/ \E e \in Emails : AcceptStart(c, e)
       \/ ActivateUser(c) \/ ActivateEmployee(c)
       \/ Fail(c)
  \/ \E e \in Emails : ResetPassword(e)

InviteSpec == InviteInit /\ [][InviteNext]_inviteVars

----------------------------------------------------------------------------
(* Properties *)

\* Rows have the shape of the schema.
RowsOK ==
  /\ users \in [Emails -> User \cup {NoUser}]
  /\ employees \in [Codes -> Employee \cup {NoEmployee}]
  /\ failures \in 0 .. MaxFailures
  /\ cut \subseteq Emails

\* A user has at most one employee, however invitations for one address overlap
\* and whatever became of the ones before.
OneEmployeePerUser == \A e \in Emails : Cardinality(EmployeesOf(e)) <= 1

\* An employee who came by invitation is ACTIVE only if the person can log in,
\* also when acceptInvite stops half way.
ActiveCanLogIn ==
  \A code \in Codes :
    employees[code].status = "ACTIVE" => users[employees[code].user].status = "ACTIVE"

\* Between calls an invited user has a role and an employee, unless a call about
\* the address failed half way or was refused its role or its code.
InvitedIsWhole ==
  \A e \in Emails \ cut : users[e] # NoUser /\ InFlight(e) = {} =>
    users[e].role # None /\ EmployeesOf(e) # {}

\* employees.service.ts:61: invite "creates the employee record plus an INVITED
\* user".  As long as no query fails and the process lives, and requests name
\* roles that exist, no invitation leaves the one without the other.
InviteCreatesBoth ==
  failures = 0 /\ AskedRoles \subseteq RoleNames =>
    \A e \in Emails : users[e] # NoUser /\ InFlight(e) = {} => EmployeesOf(e) # {}
=============================================================================
