------------------------------ MODULE Accounts ------------------------------
(***************************************************************************)
(* Employees, their login sessions and their permissions.  Requests run    *)
(* concurrently, each in a database transaction of its own: it loads rows  *)
(* without a lock, decides on what it loaded, and writes later.  The       *)
(* first write of an employee's row holds the lock on it until the commit; *)
(* a refresh locks the row of its session when it reads it.  Services:     *)
(* auth_service.py, employees/service.py, the authentication of            *)
(* security_deps.py, the activity middleware and the operators' scripts.   *)
(***************************************************************************)
EXTENDS Integers, Sequences, FiniteSets, TLC

CONSTANTS
    Employees, Requests,
    Staff,          \* those who hold the permissions at the start
    Deputies,       \* administrators without the permissions, at the start
    MaxActive,      \* max_active_sessions
    MaxFailures,    \* MAX_LOGIN_FAILURES
    MaxRequests,    \* bound: requests sent, scripts run, limits passed
    NewStatuses,    \* bound: the statuses an administrator sets
    Ops             \* which requests are sent in this instance

ASSUME AccountBounds ==
    /\ MaxActive \in Nat \ {0} /\ MaxFailures \in Nat \ {0} /\ MaxRequests \in Nat
ASSUME StatusesExist ==
    NewStatuses \subseteq {"PENDING_APPROVAL", "REJECTED", "ACTIVE", "LOCKED", "DISABLED"}
ASSUME StaffExists ==
    Staff \subseteq Employees /\ Deputies \subseteq Employees \ Staff /\ Staff # {}
ASSUME StaffIsFinite == IsFiniteSet(Staff \cup Deputies)

VARIABLES
    employees, \* the rows of the employees
    sessions,  \* the login sessions in the order of their creation
    tokens,    \* the access tokens handed out
    requests,  \* the requests under way
    locks,     \* who holds the lock on the row of an employee
    started,   \* requests sent so far
    raced,     \* a change was written over one its request had not seen
    blurred    \* accounts that were changed without a new auth_version

vars == <<employees, sessions, tokens, requests, locks, started, raced, blurred>>

Status == {"NONE", "PENDING_APPROVAL", "REJECTED", "ACTIVE", "LOCKED", "DISABLED"}
Role == {"ADMIN", "OTHER"}

\* manage stands for the administrative permissions, with EMPLOYEE_PERMISSION_MANAGE.
Employee == [status : Status, role : Role, manage : BOOLEAN, version : Nat,
             failures : 0 .. MaxFailures - 1, locked : BOOLEAN, must : BOOLEAN]

\* refresh: which refresh token of the session is the valid one.
LoginSession == [owner : Employees, revoked : BOOLEAN, expired : BOOLEAN,
                 idle : BOOLEAN, refresh : Nat, redeemed : Nat,
                 lock : BOOLEAN]

\* fresh: history, the status, role, permissions and password of the owner were
\* not changed since the row was read that the version is from.
Token == [session : Nat, version : Nat, fresh : BOOLEAN]

AuthOp == {"work", "logout", "logout_all", "change_password"}
AdminOp == {"status", "permissions", "role", "reset", "approve", "reject", "create",
            "revoke_session"}
Op == {"work", "login", "refresh", "signup", "change", "decide", "create"}
Pc == {"idle", "wrong", "verified", "flushed", "rotating", "signing",
       "session", "in", "loaded"}

Nobody == [status |-> "NONE", role |-> "OTHER", manage |-> FALSE, version |-> 1,
           failures |-> 0, locked |-> FALSE, must |-> TRUE]
Manager == [Nobody EXCEPT !.status = "ACTIVE", !.manage = TRUE, !.must = FALSE]
Deputy == [Nobody EXCEPT !.status = "ACTIVE", !.role = "ADMIN", !.must = FALSE]

\* who: the employee the request is for or from;  mine: that row as it was
\* loaded;  target, loaded: the row an administrator changes;  new: the row
\* to be written;  fresh: as of a token, until the request is let in or has
\* handed its token out;  missed: the accounts that were changed after the
\* request had loaded its rows.
Idle == [pc |-> "idle", op |-> "work", who |-> CHOOSE e \in Employees : TRUE,
         session |-> 0, version |-> 0, mine |-> Nobody,
         target |-> CHOOSE e \in Employees : TRUE, loaded |-> Nobody,
         new |-> Nobody, seen |-> {}, fresh |-> TRUE, missed |-> {}]

Sessions == DOMAIN sessions
Live(s) == ~sessions[s].revoked
Of(e) == {s \in Sessions : sessions[s].owner = e}
Usable(e) == {s \in Of(e) : Live(s) /\ ~sessions[s].expired}
Unlocked(S) == \A s \in S : ~sessions[s].lock

\* The unit of work writes the columns whose value differs from the loaded one.
Written(current, old, new) ==
    [f \in DOMAIN current |-> IF new[f] # old[f] THEN new[f] ELSE current[f]]

\* The INSERT of a permission fails when the row is there by now.
Insertable(current, old, new) == new.manage /\ ~old.manage => ~current.manage

Revoked(S) == [s \in Sessions |->
    IF s \in S THEN [sessions[s] EXCEPT !.revoked = TRUE] ELSE sessions[s]]

Closes(S) == Unlocked(S) /\ sessions' = Revoked(S)

Outdated(e) == {[t EXCEPT !.fresh = t.fresh /\ t.session \notin Of(e)] : t \in tokens}

\* For whom a request goes on with an auth_version it read before.
UnderWay(q, e) == q.pc \in {"verified", "flushed", "rotating", "session"} /\ q.who = e

\* The account of e changed: the requests done end, every other one that has
\* loaded rows is overtaken, and what was read of e is out of date.
Overtaken(done, e) ==
    [r \in Requests |->
        LET q == requests[r] IN
        IF r \in done THEN Idle
        ELSE [q EXCEPT
                !.missed = IF q.pc \in {"in", "loaded", "signing"} THEN @ \cup {e} ELSE @,
                !.fresh = @ /\ ~UnderWay(q, e)]]

NewSession(e) ==
    [owner |-> e, revoked |-> FALSE, expired |-> FALSE, idle |-> FALSE,
     refresh |-> 0, redeemed |-> 0, lock |-> FALSE]

\* All start logged in.
LoggedIn ==
    CHOOSE l \in [1 .. Cardinality(Staff \cup Deputies) -> Staff \cup Deputies] :
        \A i, j \in DOMAIN l : l[i] = l[j] => i = j

Init ==
    /\ employees = [e \in Employees |->
           CASE e \in Staff -> Manager
             [] e \in Deputies -> Deputy
             [] OTHER -> Nobody]
    /\ sessions = [s \in 1 .. Len(LoggedIn) |-> NewSession(LoggedIn[s])]
    /\ tokens = {[session |-> s, version |-> 1, fresh |-> TRUE] : s \in 1 .. Len(LoggedIn)}
    /\ requests = [r \in Requests |-> Idle]
    /\ locks = [e \in Employees |-> FALSE]
    /\ started = 0 /\ raced = FALSE /\ blurred = {}

Starts(r, op) ==
    /\ op \in Ops
    /\ requests[r].pc = "idle"
    /\ started < MaxRequests
    /\ started' = started + 1

Ends(r) == requests' = [requests EXCEPT ![r] = Idle]

-----------------------------------------------------------------------------
(* Login *)

Barred(e) ==
    \/ e.status \in {"NONE", "PENDING_APPROVAL", "REJECTED", "DISABLED", "LOCKED"}
    \/ e.locked

\* The row is loaded and the password compared.
LoginRead(r, e) ==
    /\ Starts(r, "login")
    /\ ~Barred(employees[e])
    /\ \E pc \in {"wrong", "verified"} :
         requests' = [requests EXCEPT ![r] =
             [Idle EXCEPT !.pc = pc, !.op = "login", !.who = e, !.mine = employees[e]]]
    /\ UNCHANGED <<employees, sessions, tokens, locks, raced, blurred>>

\* review_auto_login asks for no password and does not look at the lock.
ReviewLoginRead(r, e) ==
    /\ Starts(r, "login")
    /\ employees[e].status = "ACTIVE"
    /\ requests' = [requests EXCEPT ![r] =
           [Idle EXCEPT !.pc = "verified", !.op = "login", !.who = e, !.mine = employees[e]]]
    /\ UNCHANGED <<employees, sessions, tokens, locks, raced, blurred>>

\* Faulty: the count is not reset when the account is locked.
FailedKeepingCount(e) ==
    IF e.failures + 1 >= MaxFailures THEN [e EXCEPT !.failures = @ + 1, !.locked = TRUE]
    ELSE [e EXCEPT !.failures = @ + 1]

Failed(e) ==
    IF e.failures + 1 >= MaxFailures THEN [e EXCEPT !.failures = 0, !.locked = TRUE]
    ELSE [e EXCEPT !.failures = @ + 1]

LoginFails(r) ==
    LET q == requests[r] IN
    /\ q.pc = "wrong"
    /\ ~locks[q.who]
    /\ employees' = [employees EXCEPT ![q.who] = Written(@, q.mine, Failed(q.mine))]
    /\ Ends(r)
    /\ UNCHANGED <<sessions, tokens, locks, started, raced, blurred>>

\* Faulty: the sessions are counted before the row of the employee is locked.
LoginFlushUnlocked(r) ==
    LET q == requests[r] IN
    /\ q.pc = "verified"
    /\ requests' = [requests EXCEPT ![r].pc = "flushed", ![r].seen = Usable(q.who)]
    /\ UNCHANGED <<employees, sessions, tokens, locks, started, raced, blurred>>

\* The query for the sessions flushes last_login_at first: from here on the
\* transaction holds the lock on the employee.
LoginFlush(r) ==
    LET q == requests[r] IN
    /\ q.pc = "verified"
    /\ ~locks[q.who]
    /\ locks' = [locks EXCEPT ![q.who] = TRUE]
    /\ requests' = [requests EXCEPT ![r].pc = "flushed", ![r].seen = Usable(q.who)]
    /\ UNCHANGED <<employees, sessions, tokens, started, raced, blurred>>

\* The oldest sessions beyond the limit; expired ones are swept as well.
Excess(S) ==
    {s \in S : Cardinality({t \in S : t <= s}) <= Cardinality(S) - MaxActive + 1}

LoginCommit(r) ==
    LET q == requests[r]
        closed == Excess(q.seen) \cup {s \in Of(q.who) : sessions[s].expired}
    IN
    /\ q.pc = "flushed"
    /\ Unlocked(closed)
    /\ sessions' = Append(Revoked(closed), NewSession(q.who))
    /\ tokens' = tokens \cup
           {[session |-> Len(sessions) + 1, version |-> q.mine.version, fresh |-> q.fresh]}
    /\ employees' = [employees EXCEPT ![q.who] =
           Written(@, q.mine, [q.mine EXCEPT !.failures = 0, !.locked = FALSE])]
    /\ locks' = [locks EXCEPT ![q.who] = FALSE]
    /\ Ends(r)
    /\ UNCHANGED <<started, raced, blurred>>

-----------------------------------------------------------------------------
(* Refresh *)

\* A session that ran out, or whose owner may not work, is revoked instead.
RunOut(s) ==
    sessions[s].expired \/ sessions[s].idle
    \/ employees[sessions[s].owner].status # "ACTIVE"

Rotating(s, k) ==
    [Idle EXCEPT !.pc = "rotating", !.op = "refresh", !.who = sessions[s].owner,
                 !.session = s, !.version = k, !.mine = employees[sessions[s].owner]]

\* Faulty: SELECT without FOR UPDATE.
RefreshReadUnlocked(r, s, k) ==
    /\ Starts(r, "refresh")
    /\ sessions[s].refresh = k /\ Live(s) /\ ~RunOut(s)
    /\ requests' = [requests EXCEPT ![r] = Rotating(s, k)]
    /\ UNCHANGED <<employees, sessions, tokens, locks, raced, blurred>>

\* SELECT ... FOR UPDATE by the hash of the presented token k: a request that
\* had to wait finds the hash as the commit before it left it.
RefreshRead(r, s, k) ==
    /\ Starts(r, "refresh")
    /\ ~sessions[s].lock
    /\ sessions[s].refresh = k
    /\ Live(s)
    /\ IF RunOut(s)
       THEN sessions' = Revoked({s}) /\ UNCHANGED requests
       ELSE /\ sessions' = [sessions EXCEPT ![s].lock = TRUE]
            /\ requests' = [requests EXCEPT ![r] = Rotating(s, k)]
    /\ UNCHANGED <<employees, tokens, locks, raced, blurred>>

RefreshCommit(r) ==
    LET q == requests[r] IN
    /\ q.pc = "rotating"
    /\ sessions' = [sessions EXCEPT ![q.session].refresh = q.version + 1,
           ![q.session].redeemed = @ + 1, ![q.session].lock = FALSE]
    /\ tokens' = tokens \cup
           {[session |-> q.session, version |-> q.mine.version, fresh |-> q.fresh]}
    /\ Ends(r)
    /\ UNCHANGED <<employees, locks, started, raced, blurred>>

-----------------------------------------------------------------------------
(* Authentication (get_current_auth) *)

\* The session is read; one that ran out is revoked.
Authenticate(r, t) ==
    LET s == t.session IN
    /\ Starts(r, "work")
    /\ Live(s)
    /\ IF sessions[s].expired \/ sessions[s].idle
       THEN ~sessions[s].lock /\ sessions' = Revoked({s}) /\ UNCHANGED requests
       ELSE /\ requests' = [requests EXCEPT ![r] =
                   [Idle EXCEPT !.pc = "session", !.who = sessions[s].owner,
                       !.session = s, !.version = t.version, !.fresh = t.fresh]]
            /\ UNCHANGED sessions
    /\ UNCHANGED <<employees, tokens, locks, raced, blurred>>

\* Then the row of the employee.
Authorise(r) ==
    LET q == requests[r]
        e == employees[q.who]
    IN
    /\ q.pc = "session"
    /\ IF e.status = "ACTIVE" /\ e.version = q.version
       THEN requests' = [requests EXCEPT ![r].pc = "in", ![r].version = 0, ![r].mine = e]
       ELSE Ends(r)
    /\ UNCHANGED <<employees, sessions, tokens, locks, started, raced, blurred>>

\* Before the first change of the password there are no permissions; the role
\* of an administrator passes all the same (require_admin_or_permission).
Permitted(e, op) ==
    /\ op \in Ops
    /\ \/ op \in AuthOp
       \/ op \in AdminOp \ {"reject", "create", "revoke_session"} /\ e.role = "ADMIN"
       \/ e.manage /\ ~e.must

LetIn(r, op) == requests[r].pc = "in" /\ Permitted(requests[r].mine, op)

\* The activity middleware touches the session once the request was served.
Serve(r) ==
    LET s == requests[r].session IN
    /\ LetIn(r, "work")
    /\ Unlocked({s})
    /\ sessions' = [sessions EXCEPT ![s].idle = @ /\ ~Live(s)]
    /\ Ends(r)
    /\ UNCHANGED <<employees, tokens, locks, started, raced, blurred>>

Logout(r) ==
    /\ \/ LetIn(r, "logout") /\ Closes({requests[r].session})
       \/ LetIn(r, "logout_all") /\ Closes(Of(requests[r].who))
    /\ Ends(r)
    /\ UNCHANGED <<employees, tokens, locks, started, raced, blurred>>

-----------------------------------------------------------------------------
(* Changes of an account *)

\* The version is counted up from the row that was loaded: a request that was
\* overtaken writes a number that is taken.  If the sessions end with the
\* change, this concerns only requests that are under way.
Blurs(r, e) ==
    e \in requests[r].missed /\ \E o \in Requests : UnderWay(requests[o], e)

\* Faulty: the sessions are left alone, the version alone is to end them.
ChangeKeepingSessions(r, e, old, new) ==
    /\ ~locks[e]
    /\ Insertable(employees[e], old, new)
    /\ employees' = [employees EXCEPT ![e] = Written(@, old, new)]
    /\ tokens' = Outdated(e)
    /\ raced' = (raced \/ requests[r].missed # {})
    /\ blurred' = IF Blurs(r, e) THEN blurred \cup {e} ELSE blurred
    /\ requests' = Overtaken({r}, e)
    /\ UNCHANGED <<sessions, locks, started>>

\* The row is written and all sessions of the employee end, in one transaction.
ChangeAndRevoke(r, e, old, new) ==
    /\ ~locks[e]
    /\ Unlocked(Of(e))
    /\ Insertable(employees[e], old, new)
    /\ employees' = [employees EXCEPT ![e] = Written(@, old, new)]
    /\ sessions' = Revoked(Of(e))
    /\ tokens' = Outdated(e)
    /\ raced' = (raced \/ requests[r].missed # {})
    /\ blurred' = IF Blurs(r, e) THEN blurred \cup {e} ELSE blurred
    /\ requests' = Overtaken({r}, e)
    /\ UNCHANGED <<locks, started>>

\* The row is written and no session ends.
ChangeOnly(r) ==
    LET q == requests[r] IN
    /\ ~locks[q.target]
    /\ Insertable(employees[q.target], q.loaded, q.new)
    /\ employees' = [employees EXCEPT ![q.target] = Written(@, q.loaded, q.new)]
    /\ tokens' = Outdated(q.target)
    /\ raced' = (raced \/ q.missed # {})
    /\ blurred' = IF q.target \in q.missed THEN blurred \cup {q.target} ELSE blurred
    /\ requests' = Overtaken({r}, q.target)
    /\ UNCHANGED <<sessions, locks, started>>

ChangePassword(r) ==
    LET q == requests[r] IN
    /\ LetIn(r, "change_password")
    /\ ChangeAndRevoke(r, q.who, q.mine, [q.mine EXCEPT !.must = FALSE, !.version = @ + 1])

\* Faulty: the employee itself is counted.
HoldersAndSelf(e) ==
    {o \in Employees : employees[o].manage /\ employees[o].status = "ACTIVE"}

OtherHolders(e) ==
    {o \in Employees \ {e} : employees[o].manage /\ employees[o].status = "ACTIVE"}

\* The template of a role (role_permissions).
RoleManages(role) == role = "ADMIN"

\* What the operations make of the row they loaded.
Bumped(e) == [e EXCEPT !.version = @ + 1]
Outcomes(op, e) ==
    CASE op = "status" ->
           {IF v = "ACTIVE"
            THEN [Bumped(e) EXCEPT !.status = v, !.locked = FALSE, !.failures = 0]
            ELSE [Bumped(e) EXCEPT !.status = v] : v \in NewStatuses}
      [] op = "permissions" -> {[Bumped(e) EXCEPT !.manage = m] : m \in BOOLEAN}
      [] op = "role" -> {[Bumped(e) EXCEPT !.role = x, !.manage = RoleManages(x)] : x \in Role}
      [] op = "reset" -> {[Bumped(e) EXCEPT !.must = TRUE]}
      [] op = "approve" ->
           {[Bumped(e) EXCEPT !.status = "ACTIVE", !.role = x, !.manage = RoleManages(x)] : x \in Role}
      [] op = "reject" -> {[Bumped(e) EXCEPT !.status = "REJECTED"]}
      [] op = "create" -> {[Nobody EXCEPT !.status = "ACTIVE", !.manage = m] : m \in BOOLEAN}

\* Nobody may take the management from himself or from the last who has it.
Allowed(op, self, e, new, x) ==
    CASE op = "status" ->
           new.status # "ACTIVE" => ~self /\ (e.manage => OtherHolders(x) # {})
      [] op \in {"permissions", "role"} ->
           ~new.manage => ~self /\ (e.manage => OtherHolders(x) # {})
      [] op \in {"approve", "reject"} -> e.status = "PENDING_APPROVAL"
      [] op = "create" -> e.status = "NONE"
      [] OTHER -> TRUE

Kind(op) ==
    CASE op \in {"status", "permissions", "role", "reset"} -> "change"
      [] op \in {"approve", "reject"} -> "decide"
      [] OTHER -> "create"

\* The target is loaded (an object the session holds already is not loaded
\* again), the checks are made, and nothing is locked.
TargetRead(r, x) ==
    LET q == requests[r]
        self == x = q.who
        e == IF self THEN q.mine ELSE employees[x]
    IN
    /\ \E op \in AdminOp \ {"revoke_session"} :
         /\ LetIn(r, op)
         /\ e.status # "NONE" <=> op # "create"
         /\ \E new \in Outcomes(op, e) :
              IF Allowed(op, self, e, new, x)
              THEN requests' = [requests EXCEPT ![r] =
                       [Idle EXCEPT !.pc = "loaded", !.op = Kind(op), !.target = x,
                           !.loaded = e, !.new = new,
                           !.missed = IF self THEN q.missed ELSE {}]]
              ELSE Ends(r)
    /\ UNCHANGED <<employees, sessions, tokens, locks, started, raced, blurred>>

\* change_status, replace_permissions, replace_role, reset_password
Change(r) ==
    LET q == requests[r] IN
    /\ q.pc = "loaded" /\ q.op = "change"
    /\ ChangeAndRevoke(r, q.target, q.loaded, q.new)

\* approve_signup, reject_signup
Decide(r) ==
    /\ requests[r].pc = "loaded" /\ requests[r].op = "decide"
    /\ ChangeOnly(r)

\* The unique constraints let one of two new rows in.
Insert(r) ==
    LET q == requests[r] IN
    /\ q.pc \in {"loaded", "signing"} /\ q.loaded.status = "NONE"
    /\ IF employees[q.target].status = "NONE"
       THEN /\ employees' = [employees EXCEPT ![q.target] = q.new]
            /\ requests' = Overtaken({r}, q.target)
       ELSE UNCHANGED employees /\ Ends(r)
    /\ UNCHANGED <<sessions, tokens, locks, started, raced, blurred>>

RevokeSession(r, s) ==
    /\ LetIn(r, "revoke_session")
    /\ Closes({s})
    /\ Ends(r)
    /\ UNCHANGED <<employees, tokens, locks, started, raced, blurred>>

\* A commit that hits a permission which is there by now is rolled back.
ChangeFails(r) ==
    LET q == requests[r] IN
    /\ q.pc = "loaded" /\ q.loaded.status # "NONE"
    /\ ~Insertable(employees[q.target], q.loaded, q.new)
    /\ Ends(r)
    /\ UNCHANGED <<employees, sessions, tokens, locks, started, raced, blurred>>

-----------------------------------------------------------------------------
(* Applications *)

\* A rejected applicant may apply again, under the same row.
SignupRead(r, x) ==
    /\ Starts(r, "signup")
    /\ employees[x].status \in {"NONE", "REJECTED"}
    /\ requests' = [requests EXCEPT ![r] =
           [Idle EXCEPT !.pc = "signing", !.op = "signup", !.target = x,
               !.loaded = employees[x],
               !.new = [employees[x] EXCEPT !.status = "PENDING_APPROVAL", !.must = FALSE]]]
    /\ UNCHANGED <<employees, sessions, tokens, locks, raced, blurred>>

SignupAgain(r) ==
    /\ requests[r].pc = "signing" /\ requests[r].loaded.status # "NONE"
    /\ ChangeOnly(r)

-----------------------------------------------------------------------------
(* The operators' scripts, and time *)

Script == "script" \in Ops /\ started < MaxRequests /\ started' = started + 1

\* provision_admin: only while there is no administrator.
Provision(x) ==
    /\ Script
    /\ \A e \in Employees : employees[e].role # "ADMIN"
    /\ employees[x].status = "NONE"
    /\ employees' = [employees EXCEPT ![x] = [Deputy EXCEPT !.manage = TRUE, !.must = TRUE]]
    /\ requests' = Overtaken({}, x)
    /\ UNCHANGED <<sessions, tokens, locks, raced, blurred>>

\* The administrator may log in again, with a password that is to be changed.
Readmitted(e) ==
    [Bumped(e) EXCEPT !.must = TRUE, !.failures = 0, !.locked = FALSE,
        !.status = IF e.status = "LOCKED" THEN "ACTIVE" ELSE e.status]

\* reset_admin_password reads the row with FOR UPDATE.
ResetAdmin(x) ==
    /\ Script
    /\ ~locks[x] /\ Unlocked(Of(x))
    /\ employees[x].role = "ADMIN" /\ employees[x].status \notin {"NONE", "DISABLED"}
    /\ employees' = [employees EXCEPT ![x] = Readmitted(@)]
    /\ sessions' = Revoked(Of(x))
    /\ tokens' = Outdated(x)
    /\ requests' = Overtaken({}, x)
    /\ UNCHANGED <<locks, raced, blurred>>

\* promote_dev_super_admin leaves auth_version and the sessions as they are.
Promote(x) ==
    /\ Script
    /\ ~locks[x]
    /\ employees[x].status # "NONE"
    /\ employees' = [employees EXCEPT ![x] = [@ EXCEPT !.status = "ACTIVE",
           !.role = "ADMIN", !.manage = TRUE, !.failures = 0]]
    /\ tokens' = Outdated(x)
    /\ requests' = Overtaken({}, x)
    /\ blurred' = IF employees[x].status = "ACTIVE" THEN blurred \cup {x} ELSE blurred
    /\ UNCHANGED <<sessions, locks, raced>>

TimePasses ==
    /\ started < MaxRequests /\ started' = started + 1
    /\ \/ \E s \in Sessions : /\ Live(s) /\ ~sessions[s].lock
                              /\ \/ sessions' = [sessions EXCEPT ![s].expired = TRUE]
                                 \/ sessions' = [sessions EXCEPT ![s].idle = TRUE]
                              /\ UNCHANGED employees
       \/ \E e \in Employees : /\ employees[e].locked /\ ~locks[e]
                               /\ employees' = [employees EXCEPT ![e].locked = FALSE]
                               /\ UNCHANGED sessions
    /\ UNCHANGED <<tokens, requests, locks, raced, blurred>>

-----------------------------------------------------------------------------
Login(r) ==
    \/ \E e \in Employees : LoginRead(r, e) \/ ReviewLoginRead(r, e)
    \/ LoginFails(r) \/ LoginFlush(r) \/ LoginCommit(r)

Refresh(r) ==
    \/ \E s \in Sessions : \E k \in 0 .. sessions[s].refresh : RefreshRead(r, s, k)
    \/ RefreshCommit(r)

Authenticated(r) ==
    \/ \E t \in tokens : Authenticate(r, t)
    \/ Authorise(r) \/ Serve(r) \/ Logout(r) \/ ChangePassword(r)
    \/ \E s \in Sessions : RevokeSession(r, s)

Administration(r) ==
    \/ \E x \in Employees : TargetRead(r, x) \/ SignupRead(r, x)
    \/ Change(r) \/ Decide(r) \/ Insert(r) \/ ChangeFails(r) \/ SignupAgain(r)

Scripts == \E x \in Employees : Provision(x) \/ ResetAdmin(x) \/ Promote(x)

Next ==
    \/ \E r \in Requests : Login(r) \/ Refresh(r) \/ Authenticated(r) \/ Administration(r)
    \/ Scripts \/ TimePasses

Spec == Init /\ [][Next]_vars

\* The requests are alike.
Symmetry == Permutations(Requests)

-----------------------------------------------------------------------------
(* Properties *)

\* The rows keep their types; the failures stay below the limit.
TypeOK ==
    /\ employees \in [Employees -> Employee]
    /\ sessions \in Seq(LoginSession)
    /\ \A t \in tokens : t \in Token /\ t.session \in Sessions
    /\ \A r \in Requests :
         /\ requests[r].pc \in Pc /\ requests[r].op \in Op
         /\ requests[r].mine \in Employee /\ requests[r].loaded \in Employee
    /\ locks \in [Employees -> BOOLEAN]
    /\ started \in 0 .. MaxRequests /\ raced \in BOOLEAN /\ blurred \subseteq Employees

\* However logins overlap, an employee never has more usable sessions than
\* allowed (_enforce_concurrent_session_limit): the row lock of the login
\* makes the second one count the session of the first.
SessionLimit == \A e \in Employees : Cardinality(Usable(e)) <= MaxActive

\* A refresh token is redeemed once, however many requests present it
\* (rotation in refresh).
RefreshOnce == \A s \in Sessions : sessions[s].redeemed = sessions[s].refresh

\* A session that has ended stays so, and a refresh that was under way when
\* it ended does not bring it another token.
RevokedIsFinal ==
    [][\A s \in Sessions : sessions[s].revoked =>
          sessions'[s].revoked /\ sessions'[s].refresh = sessions[s].refresh]_vars

\* A request is let in only if the account was not changed since the row was
\* read that the version in its access token is from.  Two changes that overlap
\* write one auth_version, so it takes the end of the sessions as well as the
\* comparison (get_current_auth).  Not covered, as neither helps there: accounts
\* promoted while active, overlapping decisions about an application, and
\* requests under way while the second of two overlapping changes is written.
StaleTokenRefused ==
    [][\A r \in Requests : requests[r].pc = "session" /\ requests'[r].pc = "in" =>
          requests[r].fresh \/ requests[r].who \in blurred]_vars

\* Does not hold: the same without an exception (README).
EveryStaleTokenRefused ==
    [][\A r \in Requests : requests[r].pc = "session" /\ requests'[r].pc = "in" =>
          requests[r].fresh]_vars

\* Someone active can manage permissions, unless a change was written over
\* another one its request had not seen (_count_other_active_permission_holders).
ManagerRemains ==
    raced \/ \E e \in Employees : employees[e].manage /\ employees[e].status = "ACTIVE"
=============================================================================
