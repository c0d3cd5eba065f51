--------------------------- MODULE AccountsProofs ---------------------------
(***************************************************************************)
(* Theorems about the accounts: for any number of employees, requests,     *)
(* sessions and changes, whichever requests overlap.                       *)
(***************************************************************************)
EXTENDS Accounts, FiniteSetTheorems, SequenceTheorems, WellFoundedInduction, TLAPS

(***************************************************************************)
(* The invariants                                                          *)
(***************************************************************************)

Request == [pc : Pc, op : Op, who : Employees, session : Nat, version : Nat,
            mine : Employee, target : Employees, loaded : Employee, new : Employee,
            seen : SUBSET Nat, fresh : BOOLEAN, missed : SUBSET Employees]

RequestType(q) ==
    /\ q \in Request /\ q.seen \subseteq Sessions
    /\ q.pc \in {"rotating", "session", "in"} => q.session \in Sessions

Types ==
    /\ employees \in [Employees -> Employee]
    /\ sessions \in Seq(LoginSession)
    /\ tokens \subseteq Token
    /\ \A t \in tokens : t.session \in Sessions
    /\ requests \in [Requests -> Request]
    /\ \A r \in Requests : RequestType(requests[r])
    /\ locks \in [Employees -> BOOLEAN]
    /\ started \in 0 .. MaxRequests
    /\ raced \in BOOLEAN
    /\ blurred \subseteq Employees

\* A refresh under way holds the lock on a live session alone, and the token
\* it was sent is the valid one.
Rotates(q) ==
    q.pc = "rotating" =>
        LET s == sessions[q.session] IN s.lock /\ ~s.revoked /\ s.refresh = q.version

Rotation ==
    /\ \A r \in Requests : Rotates(requests[r])
    /\ \A p, r \in Requests :
         /\ requests[p].pc = "rotating" /\ requests[r].pc = "rotating"
         /\ requests[p].session = requests[r].session
         => p = r
    /\ RefreshOnce

\* What a token with the version v of e is worth.  The account of a fresh one is
\* active and has this version still; of another one the version has moved on,
\* unless the account is blurred.
Stamp(e, v, fresh) ==
    /\ employees[e].status # "NONE"
    /\ fresh => employees[e].status = "ACTIVE" /\ v = employees[e].version
    /\ ~fresh => e \in blurred \/ v < employees[e].version

SameStamp(d, e) == d.status = e.status /\ d.version = e.version

Version(q) == IF q.pc = "session" THEN q.version ELSE q.mine.version

\* A request that goes on with a version, from a token or for one.
Carries(q) ==
    /\ UnderWay(q, q.who) => Stamp(q.who, Version(q), q.fresh)
    /\ q.pc = "rotating" => q.who = sessions[q.session].owner

\* The row a request has loaded is up to date unless it missed a change, and the
\* one it is about to write has the next version of it.
Seen(q) ==
    /\ q.pc = "in" /\ q.who \notin q.missed => SameStamp(q.mine, employees[q.who])
    /\ q.pc \in {"loaded", "signing"} =>
          /\ q.target \notin q.missed => SameStamp(q.loaded, employees[q.target])
          /\ q.new.status # "NONE"
    /\ q.pc = "loaded" /\ q.op \in {"change", "decide"} => q.new.version = q.loaded.version + 1
    /\ q.pc = "signing" => q.new.version = q.loaded.version

\* A token that is not fresh belongs to a session that has ended, or its
\* version has moved on.
Freshness ==
    /\ \A t \in tokens :
          t.fresh \/ Live(t.session) => Stamp(sessions[t.session].owner, t.version, t.fresh)
    /\ \A r \in Requests : Carries(requests[r]) /\ Seen(requests[r])

\* A login that has counted the sessions of its employee holds the lock on the
\* row alone, and no session was added since.
Counts(q) == q.pc = "flushed" => locks[q.who] /\ Usable(q.who) \subseteq q.seen

Counting ==
    /\ \A r \in Requests : Counts(requests[r])
    /\ \A p, r \in Requests :
         /\ requests[p].pc = "flushed" /\ requests[r].pc = "flushed"
         /\ requests[p].who = requests[r].who
         => p = r
    /\ SessionLimit

Holds(e) == e.manage /\ e.status = "ACTIVE"
Alike(d, e) == d.status = e.status /\ d.manage = e.manage

\* Of a request nobody overtook, what it loaded stands, and what it is about to
\* write leaves somebody with the management.
Clean(q) ==
    q.missed = {} =>
        /\ q.pc = "in" => Alike(q.mine, employees[q.who])
        /\ q.pc \in {"loaded", "signing"} =>
              /\ Alike(q.loaded, employees[q.target])
              /\ \/ Holds(q.new) \/ ~Holds(q.loaded)
                 \/ OtherHolders(q.target) # {}

Management ==
    /\ \A r \in Requests : Clean(requests[r])
    /\ \A r \in Requests : requests[r].pc = "signing" =>
          requests[r].loaded.status \in {"NONE", "REJECTED"}
    /\ ManagerRemains

AccountsInv == Types /\ Rotation /\ Freshness /\ Counting /\ Management

(***************************************************************************)
(* Rows                                                                    *)
(***************************************************************************)

\* Zero failures are admitted.
LEMMA NoFailures == 0 \in 0 .. MaxFailures - 1
BY AccountBounds DEF AccountBounds

LEMMA NobodyType ==
    Nobody \in Employee /\ Manager \in Employee /\ Deputy \in Employee
BY NoFailures DEF Nobody, Manager, Deputy, Employee, Status, Role

LEMMA IdleType ==
    /\ Idle \in Request
    /\ Idle.pc = "idle" /\ Idle.fresh /\ Idle.missed = {} /\ Idle.seen = {}
<1>1. (CHOOSE e \in Employees : TRUE) \in Employees
  BY StaffExists DEF StaffExists
<1> QED
  BY <1>1, NobodyType DEF Idle, Request, Pc, Op

LEMMA WrittenType ==
    ASSUME NEW a \in Employee, NEW b \in Employee, NEW c \in Employee
    PROVE  /\ Written(a, b, c) \in Employee
           /\ Written(a, b, c).status = IF c.status # b.status THEN c.status ELSE a.status
           /\ Written(a, b, c).manage = IF c.manage # b.manage THEN c.manage ELSE a.manage
           /\ Written(a, b, c).version = IF c.version # b.version THEN c.version ELSE a.version
BY DEF Written, Employee

LEMMA FailedType ==
    ASSUME NEW e \in Employee
    PROVE  /\ Failed(e) \in Employee /\ Failed(e).status = e.status
           /\ Failed(e).manage = e.manage /\ Failed(e).version = e.version
           /\ [e EXCEPT !.failures = 0, !.locked = FALSE] \in Employee
<1>1. e.failures + 1 >= MaxFailures \/ e.failures + 1 \in 0 .. MaxFailures - 1
  BY AccountBounds DEF AccountBounds, Employee
<1> QED
  BY <1>1, NoFailures DEF Failed, Employee

LEMMA BumpedType ==
    ASSUME NEW e \in Employee
    PROVE  /\ Bumped(e) \in Employee /\ Bumped(e).status = e.status
           /\ Bumped(e).manage = e.manage /\ Bumped(e).version = e.version + 1
BY DEF Bumped, Employee

LEMMA ReadmittedType ==
    ASSUME NEW e \in Employee
    PROVE  /\ Readmitted(e) \in Employee
           /\ Readmitted(e).manage = e.manage /\ Readmitted(e).version = e.version + 1
           /\ Readmitted(e).status = IF e.status = "LOCKED" THEN "ACTIVE" ELSE e.status
<1>1. /\ Bumped(e) \in Employee /\ Bumped(e).manage = e.manage
      /\ Bumped(e).version = e.version + 1
  BY BumpedType
<1> QED
  BY <1>1, NoFailures DEF Readmitted, Employee, Status

LEMMA OutcomesType ==
    ASSUME NEW op \in AdminOp \ {"revoke_session"}, NEW e \in Employee,
           NEW new \in Outcomes(op, e)
    PROVE  /\ new \in Employee
           /\ op # "create" => new.version = e.version + 1
           /\ op # "create" /\ e.status # "NONE" => new.status # "NONE"
           /\ op = "create" => new.status # "NONE"
<1> DEFINE b == Bumped(e)
<1>1. b \in Employee /\ b.version = e.version + 1 /\ b.status = e.status
  BY BumpedType
<1> HIDE DEF b
<1> USE NoFailures, StatusesExist, <1>1 DEF StatusesExist, Status, Role
<1>2. CASE op = "status"
  <2>1. PICK v \in NewStatuses : new = IF v = "ACTIVE"
            THEN [b EXCEPT !.status = v, !.locked = FALSE, !.failures = 0]
            ELSE [b EXCEPT !.status = v]
    BY <1>2 DEF Outcomes, b
  <2> QED
    BY <1>2, <2>1 DEF Employee
<1>3. CASE op = "permissions"
  <2>1. PICK m \in BOOLEAN : new = [b EXCEPT !.manage = m]
    BY <1>3 DEF Outcomes, b
  <2> QED
    BY <1>3, <2>1 DEF Employee
<1>4. CASE op = "role"
  <2>1. PICK x \in Role : new = [b EXCEPT !.role = x, !.manage = RoleManages(x)]
    BY <1>4 DEF Outcomes, b
  <2> QED
    BY <1>4, <2>1 DEF Employee, RoleManages
<1>5. CASE op = "reset"
  <2>1. new = [b EXCEPT !.must = TRUE]
    BY <1>5 DEF Outcomes, b
  <2> QED
    BY <1>5, <2>1 DEF Employee
<1>6. CASE op = "approve"
  <2>1. PICK x \in Role : new = [b EXCEPT !.status = "ACTIVE", !.role = x, !.manage = RoleManages(x)]
    BY <1>6 DEF Outcomes, b
  <2> QED
    BY <1>6, <2>1 DEF Employee, RoleManages
<1>7. CASE op = "reject"
  <2>1. new = [b EXCEPT !.status = "REJECTED"]
    BY <1>7 DEF Outcomes, b
  <2> QED
    BY <1>7, <2>1 DEF Employee
<1>8. CASE op = "create"
  <2>1. PICK m \in BOOLEAN : new = [Nobody EXCEPT !.status = "ACTIVE", !.manage = m]
    BY <1>8 DEF Outcomes
  <2> QED
    BY <1>8, <2>1, NobodyType DEF Employee
<1> QED
  BY <1>2, <1>3, <1>4, <1>5, <1>6, <1>7, <1>8 DEF AdminOp
(***************************************************************************)
(* Sessions                                                                *)
(***************************************************************************)

SameSession(old, new) ==
    /\ new.owner = old.owner /\ new.refresh = old.refresh
    /\ new.redeemed = old.redeemed /\ new.lock = old.lock
    /\ old.revoked => new.revoked
    /\ old.expired => new.expired
    /\ old.lock => new.revoked = old.revoked

\* Sessions are added, run out or are revoked, except those that are locked.
SessionsKept ==
    /\ sessions' \in Seq(LoginSession)
    /\ Sessions \subseteq Sessions'
    /\ \A s \in Sessions : SameSession(sessions[s], sessions'[s])

LEMMA SessionRows ==
    ASSUME Types
    PROVE  /\ Len(sessions) \in Nat /\ Sessions = 1 .. Len(sessions)
           /\ \A s \in Sessions : sessions[s] \in LoginSession
<1>1. sessions \in Seq(LoginSession)
  BY DEF Types
<1> QED
  BY <1>1 DEF Sessions

LEMMA Overwritten ==
    ASSUME Types, NEW f, f \in [Sessions -> LoginSession]
    PROVE  f \in Seq(LoginSession) /\ DOMAIN f = Sessions
<1>1. Len(sessions) \in Nat /\ Sessions = 1 .. Len(sessions)
  BY SessionRows
<1> QED
  BY <1>1, SeqDef

LEMMA RevokedKept ==
    ASSUME Types, NEW S, \A s \in S \cap Sessions : ~sessions[s].lock,
           sessions' = Revoked(S)
    PROVE  /\ SessionsKept /\ Sessions' = Sessions
           /\ \A s \in S \cap Sessions : sessions'[s].revoked
<1>1. \A s \in Sessions : sessions[s] \in LoginSession
  BY SessionRows
<1>2. \A s \in Sessions :
        LET old == sessions[s] new == sessions'[s] IN
        /\ new \in LoginSession /\ SameSession(old, new)
        /\ s \in S => new.revoked
  BY <1>1 DEF Revoked, SameSession, LoginSession, Sessions
<1>3. sessions' \in [Sessions -> LoginSession]
  BY <1>2 DEF Revoked
<1>4. sessions' \in Seq(LoginSession) /\ DOMAIN (sessions') = Sessions
  BY <1>3, Overwritten
<1> QED
  BY <1>2, <1>4 DEF SessionsKept, Sessions

LEMMA OneSession ==
    ASSUME Types, NEW s \in Sessions, NEW new \in LoginSession,
           sessions' = [sessions EXCEPT ![s] = new]
    PROVE  /\ sessions' \in Seq(LoginSession) /\ Sessions' = Sessions
           /\ sessions'[s] = new
           /\ \A t \in Sessions \ {s} : sessions'[t] = sessions[t]
           /\ SameSession(sessions[s], new) => SessionsKept
<1>1. \A t \in Sessions : sessions[t] \in LoginSession
  BY SessionRows
<1>2. sessions' \in [Sessions -> LoginSession]
  BY <1>1 DEF Sessions
<1>3. sessions' \in Seq(LoginSession) /\ DOMAIN (sessions') = Sessions
  BY <1>2, Overwritten
<1>4. sessions'[s] = new /\ \A t \in Sessions \ {s} : sessions'[t] = sessions[t]
  BY DEF Sessions
<1>5. \A t \in Sessions : SameSession(sessions[t], sessions[t])
  BY <1>1 DEF SameSession
<1> QED
  BY <1>3, <1>4, <1>5 DEF SessionsKept, Sessions

LEMMA SessionAdded ==
    ASSUME Types, NEW S, \A s \in S : ~sessions[s].lock, NEW e \in Employees,
           sessions' = Append(Revoked(S), NewSession(e))
    PROVE  /\ SessionsKept
           /\ Len(sessions) + 1 \in Sessions' /\ Sessions' = Sessions \cup {Len(sessions) + 1}
           /\ sessions'[Len(sessions) + 1] = NewSession(e)
           /\ \A s \in S \cap Sessions : sessions'[s].revoked
<1> DEFINE n == Len(sessions)
           f == Revoked(S)
<1>1. n \in Nat /\ Sessions = 1 .. n /\ \A s \in Sessions : sessions[s] \in LoginSession
  BY SessionRows
<1>2. \A s \in Sessions :
        /\ f[s] \in LoginSession /\ SameSession(sessions[s], f[s])
        /\ s \in S => f[s].revoked
  BY <1>1 DEF Revoked, SameSession, LoginSession
<1>3. f \in Seq(LoginSession) /\ DOMAIN f = Sessions
  <2>1. f \in [Sessions -> LoginSession]
    BY <1>2 DEF Revoked
  <2> QED
    BY <2>1, Overwritten
<1>4. NewSession(e) \in LoginSession
  BY DEF NewSession, LoginSession
<1> HIDE DEF f
<1>5. Len(f) = n
  BY <1>1, <1>3
<1>6. /\ sessions' \in Seq(LoginSession) /\ Len(sessions') = n + 1
      /\ sessions'[n + 1] = NewSession(e) /\ \A s \in 1 .. n : sessions'[s] = f[s]
  BY <1>1, <1>3, <1>4, <1>5, AppendProperties DEF f
<1>7. Sessions' = 1 .. n + 1
  BY <1>6 DEF Sessions
<1> QED
  BY <1>1, <1>2, <1>6, <1>7 DEF SessionsKept
\* A refresh takes the lock on its session, and rotates the token later.
Locking(r, s, k) == RefreshRead(r, s, k) /\ ~RunOut(s)

\* A login adds a session.
Opens(e) ==
    /\ SessionsKept
    /\ Sessions' = Sessions \cup {Len(sessions) + 1}
    /\ sessions'[Len(sessions) + 1] = NewSession(e)

SessionMoves ==
    \/ SessionsKept /\ Sessions' = Sessions
    \/ \E r \in Requests : LoginCommit(r) /\ Opens(requests[r].who)
    \/ \E r \in Requests : RefreshCommit(r)
    \/ \E r \in Requests, s \in Sessions, k \in Nat : Locking(r, s, k)

LEMMA SessionsUnchanged ==
    ASSUME Types, UNCHANGED sessions
    PROVE  SessionsKept /\ Sessions' = Sessions
<1>1. \A s \in Sessions : sessions[s] \in LoginSession
  BY SessionRows
<1>2. \A s \in Sessions : SameSession(sessions[s], sessions[s])
  BY <1>1 DEF SameSession
<1> QED
  BY <1>2 DEF SessionsKept, Sessions, Types

LEMMA SessionsClosed ==
    ASSUME Types, NEW S, Closes(S)
    PROVE  SessionsKept /\ Sessions' = Sessions
BY RevokedKept DEF Closes, Unlocked

LEMMA SessionLocked ==
    ASSUME Types, NEW r, NEW s \in Sessions, NEW k, Locking(r, s, k)
    PROVE  /\ sessions' \in Seq(LoginSession) /\ Sessions' = Sessions
           /\ sessions'[s] = [sessions[s] EXCEPT !.lock = TRUE]
           /\ \A t \in Sessions \ {s} : sessions'[t] = sessions[t]
<1> DEFINE new == [sessions[s] EXCEPT !.lock = TRUE]
<1>1. sessions' = [sessions EXCEPT ![s] = new]
  BY DEF Locking, RefreshRead
<1>2. new \in LoginSession
  BY SessionRows DEF LoginSession
<1> HIDE DEF new
<1>3. /\ sessions' \in Seq(LoginSession) /\ Sessions' = Sessions /\ sessions'[s] = new
      /\ \A t \in Sessions \ {s} : sessions'[t] = sessions[t]
  BY <1>1, <1>2, OneSession
<1> QED
  BY <1>3 DEF new

LEMMA SessionRotated ==
    ASSUME Types, NEW r \in Requests, RefreshCommit(r)
    PROVE  LET s == requests[r].session IN
           /\ s \in Sessions
           /\ sessions' \in Seq(LoginSession) /\ Sessions' = Sessions
           /\ sessions'[s] = [sessions[s] EXCEPT !.refresh = requests[r].version + 1,
                  !.redeemed = sessions[s].redeemed + 1, !.lock = FALSE]
           /\ \A t \in Sessions \ {s} : sessions'[t] = sessions[t]
<1> DEFINE s == requests[r].session
           new == [sessions[s] EXCEPT !.refresh = requests[r].version + 1,
                      !.redeemed = sessions[s].redeemed + 1, !.lock = FALSE]
<1>1. s \in Sessions /\ requests[r].version \in Nat
  BY DEF Types, RequestType, Request, RefreshCommit
<1>2. sessions[s] \in LoginSession
  BY <1>1, SessionRows
<1>3. new \in LoginSession
  <2>1. requests[r].version + 1 \in Nat /\ sessions[s].redeemed + 1 \in Nat
    BY <1>1, <1>2 DEF LoginSession
  <2> HIDE DEF s
  <2> QED
    BY <1>2, <2>1 DEF LoginSession
<1>4. sessions' = [sessions EXCEPT ![s] = new]
  BY <1>1, <1>2 DEF RefreshCommit, Sessions
<1> HIDE DEF s, new
<1>5. /\ sessions' \in Seq(LoginSession) /\ Sessions' = Sessions /\ sessions'[s] = new
      /\ \A t \in Sessions \ {s} : sessions'[t] = sessions[t]
  BY <1>1, <1>3, <1>4, OneSession
<1> QED
  BY <1>1, <1>5 DEF s, new

LEMMA SessionsAged ==
    ASSUME Types, NEW s \in Sessions, NEW i, i \in BOOLEAN,
           \/ sessions' = [sessions EXCEPT ![s].expired = TRUE]
           \/ sessions' = [sessions EXCEPT ![s].idle = i]
    PROVE  SessionsKept /\ Sessions' = Sessions
<1>1. sessions[s] \in LoginSession
  BY SessionRows
<1>2. \E new \in LoginSession :
        sessions' = [sessions EXCEPT ![s] = new] /\ SameSession(sessions[s], new)
  <2>1. [sessions[s] EXCEPT !.expired = TRUE] \in LoginSession
        /\ [sessions[s] EXCEPT !.idle = i] \in LoginSession
    BY <1>1 DEF LoginSession
  <2>2. SameSession(sessions[s], [sessions[s] EXCEPT !.expired = TRUE])
        /\ SameSession(sessions[s], [sessions[s] EXCEPT !.idle = i])
    BY <1>1 DEF LoginSession, SameSession
  <2> QED
    BY <2>1, <2>2
<1> QED
  BY <1>2, OneSession

LEMMA SessionStep ==
    ASSUME Types, [Next]_vars
    PROVE  /\ sessions' \in Seq(LoginSession) /\ Sessions \subseteq Sessions'
           /\ SessionMoves
<1> SUFFICES /\ SessionMoves
             /\ SessionsKept => sessions' \in Seq(LoginSession) /\ Sessions \subseteq Sessions'
  BY SessionLocked, SessionRotated DEF SessionMoves, Opens
<1>0. SessionsKept => sessions' \in Seq(LoginSession) /\ Sessions \subseteq Sessions'
  BY DEF SessionsKept
<1>1. ASSUME UNCHANGED sessions
      PROVE  SessionMoves
  BY <1>1, SessionsUnchanged DEF SessionMoves
<1>2. ASSUME NEW r \in Requests, Login(r)
      PROVE  SessionMoves
  <2>1. CASE LoginCommit(r)
    <3>1. PICK S : Unlocked(S) /\ sessions' = Append(Revoked(S), NewSession(requests[r].who))
      BY <2>1 DEF LoginCommit
    <3>2. requests[r].who \in Employees
      BY DEF Types, Request
    <3> QED
      BY <2>1, <3>1, <3>2, SessionAdded DEF Unlocked, SessionMoves, Opens
  <2>2. CASE ~LoginCommit(r)
    BY <1>1, <1>2, <2>2 DEF Login, LoginRead, ReviewLoginRead, LoginFails, LoginFlush
  <2> QED
    BY <2>1, <2>2
<1>3. ASSUME NEW r \in Requests, Refresh(r)
      PROVE  SessionMoves
  <2>1. ASSUME NEW s \in Sessions, NEW k \in 0 .. sessions[s].refresh, RefreshRead(r, s, k)
        PROVE  SessionMoves
    <3>1. CASE RunOut(s)
      <4>1. ~sessions[s].lock /\ sessions' = Revoked({s})
        BY <2>1, <3>1 DEF RefreshRead
      <4> QED
        BY <4>1, RevokedKept DEF SessionMoves
    <3>2. CASE ~RunOut(s)
      <4>1. k \in Nat
        BY SessionRows DEF LoginSession
      <4> QED
        BY <2>1, <3>2, <4>1 DEF Locking, SessionMoves
    <3> QED
      BY <3>1, <3>2
  <2>2. CASE RefreshCommit(r)
    BY <2>2 DEF SessionMoves
  <2> QED
    BY <1>3, <2>1, <2>2 DEF Refresh
<1>4. ASSUME NEW r \in Requests, NEW e, NEW old, NEW new, ChangeAndRevoke(r, e, old, new)
      PROVE  SessionsKept /\ Sessions' = Sessions
  BY <1>4, RevokedKept DEF ChangeAndRevoke, Unlocked
<1>5. ASSUME NEW r \in Requests, Authenticated(r)
      PROVE  SessionMoves
  <2>1. ASSUME NEW t \in tokens, Authenticate(r, t)
        PROVE  SessionMoves
    <3>1. CASE UNCHANGED sessions
      BY <3>1, <1>1
    <3>2. CASE ~sessions[t.session].lock /\ sessions' = Revoked({t.session})
      BY <3>2, RevokedKept DEF SessionMoves
    <3> QED
      BY <2>1, <3>1, <3>2 DEF Authenticate
  <2>2. CASE Authorise(r)
    BY <2>2, <1>1 DEF Authorise
  <2>3. CASE Serve(r)
    <3> DEFINE s == requests[r].session
               i == sessions[s].idle /\ ~Live(s)
    <3>1. s \in Sessions
      BY <2>3 DEF Types, RequestType, Serve, LetIn
    <3>2. sessions' = [sessions EXCEPT ![s].idle = i]
      BY <2>3 DEF Serve
    <3>3. i \in BOOLEAN
      OBVIOUS
    <3> HIDE DEF s, i
    <3> QED
      BY <3>1, <3>2, <3>3, SessionsAged DEF SessionMoves
  <2>4. CASE Logout(r)
    BY <2>4, SessionsClosed DEF Logout, SessionMoves
  <2>5. CASE ChangePassword(r)
    BY <2>5, <1>4 DEF ChangePassword, SessionMoves
  <2>6. ASSUME NEW s \in Sessions, RevokeSession(r, s)
        PROVE  SessionMoves
    BY <2>6, SessionsClosed DEF RevokeSession, SessionMoves
  <2> QED
    BY <1>5, <2>1, <2>2, <2>3, <2>4, <2>5, <2>6 DEF Authenticated
<1>6. ASSUME NEW r \in Requests, Administration(r)
      PROVE  SessionMoves
  <2>1. CASE Change(r)
    BY <2>1, <1>4 DEF Change, SessionMoves
  <2>2. CASE ~Change(r)
    BY <1>1, <1>6, <2>2
       DEF Administration, TargetRead, SignupRead, Decide, Insert, ChangeFails, SignupAgain, ChangeOnly
  <2> QED
    BY <2>1, <2>2
<1>7. ASSUME Scripts
      PROVE  SessionMoves
  <2>1. ASSUME NEW x \in Employees, ResetAdmin(x)
        PROVE  SessionMoves
    BY <2>1, RevokedKept DEF ResetAdmin, Unlocked, SessionMoves
  <2> QED
    BY <1>1, <1>7, <2>1 DEF Scripts, Provision, Promote
<1>8. ASSUME TimePasses
      PROVE  SessionMoves
  <2>1. ASSUME NEW s \in Sessions,
               \/ sessions' = [sessions EXCEPT ![s].expired = TRUE]
               \/ sessions' = [sessions EXCEPT ![s].idle = TRUE]
        PROVE  SessionMoves
    BY <2>1, SessionsAged DEF SessionMoves
  <2> QED
    BY <1>1, <1>8, <2>1 DEF TimePasses
<1> QED
  BY <1>0, <1>1, <1>2, <1>3, <1>5, <1>6, <1>7, <1>8 DEF Next, vars
(***************************************************************************)
(* Requests                                                                *)
(***************************************************************************)

\* A request waits while others go on; it may be overtaken.
Follows(p, q) ==
    /\ q = [p EXCEPT !.missed = q.missed, !.fresh = q.fresh]
    /\ p.missed \subseteq q.missed

\* A request that refers to nothing, or to an employee alone, whom it has just
\* read if it is to log that employee in.
Plain(q) ==
    /\ q.pc \in {"idle", "wrong", "verified"} /\ q.seen = {}
    /\ q.pc = "verified" =>
          q.fresh /\ q.mine = employees[q.who] /\ q.mine.status = "ACTIVE"

Counted(q) == [q EXCEPT !.pc = "flushed", !.seen = Usable(q.who)]

Presents(t) == [Idle EXCEPT !.pc = "session", !.who = sessions[t.session].owner,
                    !.session = t.session, !.version = t.version, !.fresh = t.fresh]

LetThrough(q) == [q EXCEPT !.pc = "in", !.version = 0, !.mine = employees[q.who]]

Loads(r, q) ==
    /\ q.pc \in {"loaded", "signing"} /\ q.seen = {}
    /\ \E x \in Employees : TargetRead(r, x) \/ SignupRead(r, x)

\* What a step of its own does to a request.
Turns(r) ==
    LET p == requests[r]
        q == requests'[r]
    IN
    \/ Plain(q)
    \/ LoginFlush(r) /\ q = Counted(p)
    \/ \E s \in Sessions, k \in Nat : Locking(r, s, k) /\ q = Rotating(s, k)
    \/ \E t \in tokens : Authenticate(r, t) /\ q = Presents(t)
    \/ Authorise(r) /\ q = LetThrough(p)
    \/ Loads(r, q)

RequestMoves(r) == Follows(requests[r], requests'[r]) \/ Turns(r)

RequestsMove ==
    /\ requests' \in [Requests -> Request]
    /\ \A r \in Requests : RequestMoves(r)

\* Nobody is overtaken.
Calm == \A r \in Requests : requests'[r] = requests[r] \/ Turns(r)

\* Whoever holds loaded rows has been overtaken.
AllOvertaken ==
    \A r \in Requests : requests'[r].pc \in {"in", "loaded", "signing"} => requests'[r].missed # {}

\* What it is for a request that the account of e changes.
Overtakes(e) ==
    \A r \in Requests :
        LET p == requests[r]
            q == requests'[r]
        IN
        \/ q = Idle
        \/ /\ Follows(p, q)
           /\ q.fresh = (p.fresh /\ ~UnderWay(p, e))
           /\ p.pc \in {"in", "loaded", "signing"} => e \in q.missed

LEMMA OneRequest ==
    ASSUME Types, NEW r \in Requests, NEW q \in Request,
           requests' = [requests EXCEPT ![r] = q]
    PROVE  /\ requests' \in [Requests -> Request]
           /\ requests'[r] = q
           /\ Turns(r) => RequestsMove /\ Calm
           /\ Plain(q) => RequestsMove /\ Calm
<1>1. requests \in [Requests -> Request]
  BY DEF Types
<1>2. requests' \in [Requests -> Request] /\ requests'[r] = q
  BY <1>1
<1>3. ASSUME NEW o \in Requests, o # r
      PROVE  RequestMoves(o) /\ requests'[o] = requests[o]
  <2>1. requests'[o] = requests[o] /\ requests[o] \in Request
    BY <1>1, <1>3
  <2>2. Follows(requests[o], requests'[o])
    BY <2>1 DEF Follows, Request
  <2> QED
    BY <2>1, <2>2 DEF RequestMoves
<1>4. Plain(q) => Turns(r)
  BY <1>2 DEF Turns
<1> QED
  BY <1>2, <1>3, <1>4 DEF RequestsMove, RequestMoves, Calm

LEMMA RequestsUnchanged ==
    ASSUME Types, UNCHANGED requests
    PROVE  RequestsMove /\ Calm
<1>1. requests \in [Requests -> Request]
  BY DEF Types
<1>2. ASSUME NEW o \in Requests
      PROVE  RequestMoves(o)
  <2>1. requests'[o] = requests[o] /\ requests[o] \in Request
    BY <1>1
  <2>2. Follows(requests[o], requests'[o])
    BY <2>1 DEF Follows, Request
  <2> QED
    BY <2>2 DEF RequestMoves
<1> QED
  BY <1>1, <1>2 DEF RequestsMove, Calm

LEMMA RequestEnds ==
    ASSUME Types, NEW r \in Requests, Ends(r)
    PROVE  RequestsMove /\ Calm
<1>1. Idle \in Request /\ Plain(Idle)
  BY IdleType DEF Plain
<1> QED
  BY <1>1, OneRequest DEF Ends

LEMMA Overtaking ==
    ASSUME Types, NEW D, NEW e \in Employees, requests' = Overtaken(D, e)
    PROVE  RequestsMove /\ AllOvertaken /\ Overtakes(e)
<1>1. \A o \in Requests : requests[o] \in Request
  BY DEF Types
<1>2. Idle \in Request /\ Plain(Idle) /\ Idle.pc = "idle"
  BY IdleType DEF Plain
<1> HIDE DEF Idle
<1>3. ASSUME NEW o \in Requests, o \in D
      PROVE  requests'[o] = Idle
  BY <1>3 DEF Overtaken
<1>4. ASSUME NEW o \in Requests, o \notin D
      PROVE  LET p == requests[o]
                 q == requests'[o]
             IN
             /\ q \in Request /\ Follows(p, q)
             /\ q.pc = p.pc /\ q.fresh = (p.fresh /\ ~UnderWay(p, e))
             /\ q.pc \in {"in", "loaded", "signing"} => e \in q.missed
  <2> DEFINE p == requests[o]
             m == IF p.pc \in {"in", "loaded", "signing"} THEN p.missed \cup {e} ELSE p.missed
             f == p.fresh /\ ~UnderWay(p, e)
  <2>1. p \in Request /\ requests'[o] = [p EXCEPT !.missed = m, !.fresh = f]
    BY <1>1, <1>4 DEF Overtaken
  <2>2. m \in SUBSET Employees /\ p.missed \subseteq m /\ f \in BOOLEAN
    BY <2>1 DEF Request
  <2>3. p.pc \in {"in", "loaded", "signing"} => e \in m
    OBVIOUS
  <2> HIDE DEF m, f, p
  <2>4. LET q == requests'[o] IN
        /\ q \in Request /\ q.missed = m /\ q.fresh = f /\ q.pc = p.pc
        /\ q = [p EXCEPT !.missed = q.missed, !.fresh = q.fresh]
    BY <2>1, <2>2 DEF Request
  <2> QED
    BY <2>2, <2>3, <2>4 DEF Follows, f, p
<1>5. \A o \in Requests : requests'[o] \in Request /\ RequestMoves(o)
  BY <1>2, <1>3, <1>4 DEF RequestMoves, Turns
<1>6. requests' \in [Requests -> Request]
  BY <1>5 DEF Overtaken
<1>7. AllOvertaken
  BY <1>2, <1>3, <1>4 DEF AllOvertaken
<1>8. Overtakes(e)
  BY <1>3, <1>4 DEF Overtakes
<1> QED
  BY <1>5, <1>6, <1>7, <1>8 DEF RequestsMove

LEMMA ChangeOvertakes ==
    ASSUME Types, NEW r, NEW e \in Employees, NEW old, NEW new, ChangeAndRevoke(r, e, old, new)
    PROVE  RequestsMove /\ AllOvertaken /\ Overtakes(e)
<1>1. requests' = Overtaken({r}, e)
  BY DEF ChangeAndRevoke
<1> QED
  BY <1>1, Overtaking

LEMMA ChangeOnlyOvertakes ==
    ASSUME Types, NEW r \in Requests, ChangeOnly(r)
    PROVE  RequestsMove /\ AllOvertaken /\ Overtakes(requests[r].target)
<1>1. requests' = Overtaken({r}, requests[r].target) /\ requests[r].target \in Employees
  BY DEF ChangeOnly, Types, Request
<1> QED
  BY <1>1, Overtaking

LEMMA LoginRequests ==
    ASSUME Types, NEW r \in Requests, Login(r)
    PROVE  RequestsMove /\ Calm
<1>1. \A e \in Employees : employees[e] \in Employee
  BY DEF Types
<1>2. requests[r] \in Request
  BY DEF Types
<1>3. ASSUME NEW e \in Employees, NEW pc \in {"wrong", "verified"},
             employees[e].status = "ACTIVE", requests' = [requests EXCEPT ![r] =
                 [Idle EXCEPT !.pc = pc, !.op = "login", !.who = e, !.mine = employees[e]]]
      PROVE  RequestsMove /\ Calm
  <2> DEFINE q == [Idle EXCEPT !.pc = pc, !.op = "login", !.who = e, !.mine = employees[e]]
  <2>1. q \in Request /\ Plain(q)
    <3> HIDE DEF Idle
    <3> QED
      BY <1>1, <1>3, IdleType DEF Plain, Request, Pc, Op
  <2> QED
    BY <1>3, <2>1, OneRequest
<1>4. ASSUME NEW e \in Employees, LoginRead(r, e) \/ ReviewLoginRead(r, e)
      PROVE  RequestsMove /\ Calm
  <2>1. PICK pc \in {"wrong", "verified"} : requests' = [requests EXCEPT ![r] =
                 [Idle EXCEPT !.pc = pc, !.op = "login", !.who = e, !.mine = employees[e]]]
    BY <1>4 DEF LoginRead, ReviewLoginRead
  <2>2. employees[e].status = "ACTIVE"
    BY <1>1, <1>4 DEF LoginRead, ReviewLoginRead, Barred, Employee, Status
  <2> QED
    BY <1>3, <2>1, <2>2
<1>5. ASSUME LoginFlush(r)
      PROVE  RequestsMove /\ Calm
  <2>1. requests' = [requests EXCEPT ![r] = Counted(requests[r])]
    <3>1. requests \in [Requests -> Request]
      BY DEF Types
    <3> QED
      BY <1>2, <1>5, <3>1 DEF LoginFlush, Counted, Request
  <2>2. Counted(requests[r]) \in Request
    <3>1. Usable(requests[r].who) \subseteq Nat
      BY SessionRows DEF Usable, Of
    <3> QED
      BY <1>2, <3>1 DEF Counted, Request, Pc
  <2> QED
    BY <1>5, <2>1, <2>2, OneRequest DEF Turns
<1> QED
  BY <1>4, <1>5, RequestEnds DEF Login, LoginFails, LoginCommit

LEMMA RefreshRequests ==
    ASSUME Types, NEW r \in Requests, Refresh(r)
    PROVE  RequestsMove /\ Calm
<1>1. ASSUME NEW s \in Sessions, NEW k \in 0 .. sessions[s].refresh, RefreshRead(r, s, k)
      PROVE  RequestsMove /\ Calm
  <2>1. CASE RunOut(s)
    BY <1>1, <2>1, RequestsUnchanged DEF RefreshRead
  <2>2. CASE ~RunOut(s)
    <3>1. requests' = [requests EXCEPT ![r] = Rotating(s, k)]
      BY <1>1, <2>2 DEF RefreshRead
    <3>2. /\ k \in Nat /\ s \in Nat /\ sessions[s].owner \in Employees
          /\ employees[sessions[s].owner] \in Employee
      BY SessionRows DEF LoginSession, Types
    <3>3. Rotating(s, k) \in Request
      <4> HIDE DEF Idle
      <4> QED
        BY <3>2, IdleType DEF Rotating, Request, Pc, Op
    <3> QED
      BY <1>1, <2>2, <3>1, <3>2, <3>3, OneRequest DEF Turns, Locking
  <2> QED
    BY <2>1, <2>2
<1> QED
  BY <1>1, RequestEnds DEF Refresh, RefreshCommit

LEMMA AuthenticatedRequests ==
    ASSUME Types, NEW r \in Requests, Authenticated(r)
    PROVE  RequestsMove /\ (Calm \/ ChangePassword(r))
<1>1. ASSUME NEW t \in tokens, Authenticate(r, t)
      PROVE  RequestsMove /\ Calm
  <2>1. CASE UNCHANGED requests
    BY <2>1, RequestsUnchanged
  <2>2. CASE ~UNCHANGED requests
    <3>1. requests' = [requests EXCEPT ![r] = Presents(t)]
      BY <1>1, <2>2 DEF Authenticate, Presents
    <3>2. t \in Token /\ t.session \in Sessions
      BY DEF Types
    <3>3. sessions[t.session].owner \in Employees /\ t.session \in Nat
      BY <3>2, SessionRows DEF LoginSession
    <3>4. Presents(t) \in Request
      <4> HIDE DEF Idle
      <4> QED
        BY <3>2, <3>3, IdleType DEF Presents, Request, Token, Pc
    <3> QED
      BY <1>1, <3>1, <3>4, OneRequest DEF Turns
  <2> QED
    BY <2>1, <2>2
<1>2. ASSUME Authorise(r)
      PROVE  RequestsMove /\ Calm
  <2>1. CASE Ends(r)
    BY <2>1, RequestEnds
  <2>2. CASE ~Ends(r)
    <3>1. requests \in [Requests -> Request] /\ requests[r] \in Request
      BY DEF Types
    <3>2. requests' = [requests EXCEPT ![r] = LetThrough(requests[r])]
      BY <1>2, <2>2, <3>1 DEF Authorise, LetThrough, Request
    <3>3. employees[requests[r].who] \in Employee
      BY <3>1 DEF Types, Request
    <3>4. LetThrough(requests[r]) \in Request
      BY <3>1, <3>3 DEF LetThrough, Request, Pc
    <3> QED
      BY <1>2, <3>2, <3>4, OneRequest DEF Turns
  <2> QED
    BY <2>1, <2>2
<1>3. ASSUME ChangePassword(r)
      PROVE  RequestsMove
  <2>1. requests[r].who \in Employees
    BY DEF Types, Request
  <2> QED
    BY <1>3, <2>1, ChangeOvertakes DEF ChangePassword
<1> QED
  BY <1>1, <1>2, <1>3, RequestEnds DEF Authenticated, Serve, Logout, RevokeSession

\* What an administrator is about to write is the outcome of an operation.
LEMMA Reads ==
    ASSUME Types, NEW r \in Requests, NEW x \in Employees, TargetRead(r, x), ~Ends(r)
    PROVE  LET p == requests[r]
               self == x = p.who
               e == IF self THEN p.mine ELSE employees[x]
               q == requests'[r]
           IN
           /\ RequestsMove /\ Calm /\ Loads(r, q)
           /\ p.pc = "in" /\ q.pc = "loaded" /\ q.target = x /\ q.loaded = e
           /\ q.missed = IF self THEN p.missed ELSE {}
           /\ \E op \in AdminOp \ {"revoke_session"} :
                 /\ q.new \in Outcomes(op, e) /\ Allowed(op, self, e, q.new, x)
                 /\ q.op = Kind(op) /\ (e.status # "NONE" <=> op # "create")
<1> DEFINE p == requests[r]
           self == x = p.who
           e == IF self THEN p.mine ELSE employees[x]
<1>1. p \in Request /\ e \in Employee
  BY DEF Types, Request
<1>2. PICK op \in AdminOp \ {"revoke_session"} :
         /\ LetIn(r, op)
         /\ e.status # "NONE" <=> op # "create"
         /\ \E new \in Outcomes(op, e) :
              IF Allowed(op, self, e, new, x)
              THEN requests' = [requests EXCEPT ![r] =
                       [Idle EXCEPT !.pc = "loaded", !.op = Kind(op), !.target = x,
                           !.loaded = e, !.new = new, !.missed = IF self THEN p.missed ELSE {}]]
              ELSE Ends(r)
  BY DEF TargetRead
<1>3. PICK new \in Outcomes(op, e) :
              IF Allowed(op, self, e, new, x)
              THEN requests' = [requests EXCEPT ![r] =
                       [Idle EXCEPT !.pc = "loaded", !.op = Kind(op), !.target = x,
                           !.loaded = e, !.new = new, !.missed = IF self THEN p.missed ELSE {}]]
              ELSE Ends(r)
  BY <1>2
<1> DEFINE m == IF self THEN p.missed ELSE {}
           q == [Idle EXCEPT !.pc = "loaded", !.op = Kind(op), !.target = x,
                     !.loaded = e, !.new = new, !.missed = m]
<1>4. Allowed(op, self, e, new, x) /\ requests' = [requests EXCEPT ![r] = q]
  BY <1>3
<1>5. new \in Employee
  BY <1>1, <1>2, <1>3, OutcomesType
<1>6. m \in SUBSET Employees /\ Kind(op) \in Op
  BY <1>1 DEF Kind, Op, Request
<1>7. /\ q \in Request /\ q.pc = "loaded" /\ q.seen = {} /\ q.op = Kind(op)
      /\ q.target = x /\ q.loaded = e /\ q.new = new /\ q.missed = m
  <2> HIDE DEF Idle, e, self, m
  <2> QED
    BY <1>1, <1>5, <1>6, IdleType DEF Request, Pc
<1>8. p.pc = "in"
  BY <1>2 DEF LetIn
<1> HIDE DEF q
<1>9. /\ requests'[r] = q
      /\ Turns(r) => RequestsMove /\ Calm
  BY <1>4, <1>7, OneRequest
<1>10. Loads(r, q)
  BY <1>7 DEF Loads
<1>11. RequestsMove /\ Calm
  BY <1>9, <1>10 DEF Turns
<1> QED
  BY <1>2, <1>3, <1>4, <1>7, <1>8, <1>9, <1>10, <1>11

LEMMA Signs ==
    ASSUME Types, NEW r \in Requests, NEW x \in Employees, SignupRead(r, x)
    PROVE  LET q == requests'[r] IN
           /\ RequestsMove /\ Calm /\ Loads(r, q)
           /\ q.pc = "signing" /\ q.target = x /\ q.loaded = employees[x] /\ q.missed = {}
           /\ q.new.version = q.loaded.version /\ q.new.status = "PENDING_APPROVAL"
           /\ q.loaded.status \in {"NONE", "REJECTED"}
<1> DEFINE n == [employees[x] EXCEPT !.status = "PENDING_APPROVAL", !.must = FALSE]
           q == [Idle EXCEPT !.pc = "signing", !.op = "signup", !.target = x,
                    !.loaded = employees[x], !.new = n]
<1>1. employees[x] \in Employee
  BY DEF Types
<1>2. n \in Employee /\ n.version = employees[x].version /\ n.status = "PENDING_APPROVAL"
  BY <1>1 DEF Employee, Status
<1>3. requests' = [requests EXCEPT ![r] = q] /\ employees[x].status \in {"NONE", "REJECTED"}
  BY DEF SignupRead
<1>4. /\ q \in Request /\ q.pc = "signing" /\ q.target = x /\ q.loaded = employees[x]
      /\ q.missed = {} /\ q.seen = {} /\ q.new = n
  <2> HIDE DEF Idle, n
  <2> QED
    BY <1>1, <1>2, IdleType DEF Request, Pc, Op
<1> HIDE DEF q
<1>5. /\ requests'[r] = q
      /\ Turns(r) => RequestsMove /\ Calm
  BY <1>3, <1>4, OneRequest
<1>6. Loads(r, q)
  BY <1>4 DEF Loads
<1>7. RequestsMove /\ Calm
  BY <1>5, <1>6 DEF Turns
<1> QED
  BY <1>2, <1>3, <1>4, <1>5, <1>6, <1>7

LEMMA AdministrationRequests ==
    ASSUME Types, NEW r \in Requests, Administration(r)
    PROVE  RequestsMove
<1>1. ASSUME NEW x \in Employees, TargetRead(r, x)
      PROVE  RequestsMove
  BY <1>1, Reads, RequestEnds
<1>2. ASSUME NEW x \in Employees, SignupRead(r, x)
      PROVE  RequestsMove
  BY <1>2, Signs
<1>3. CASE Change(r)
  <2>1. requests[r].target \in Employees
    BY DEF Types, Request
  <2> QED
    BY <1>3, <2>1, ChangeOvertakes DEF Change
<1>4. CASE Decide(r) \/ SignupAgain(r)
  BY <1>4, ChangeOnlyOvertakes DEF Decide, SignupAgain
<1>5. CASE Insert(r) \/ ChangeFails(r)
  <2>1. requests[r].target \in Employees
    BY DEF Types, Request
  <2> QED
    BY <1>5, <2>1, Overtaking, RequestEnds DEF Insert, ChangeFails
<1> QED
  BY <1>1, <1>2, <1>3, <1>4, <1>5 DEF Administration

LEMMA RequestStep ==
    ASSUME Types, [Next]_vars
    PROVE  RequestsMove
<1>1. CASE Scripts
  BY <1>1, Overtaking DEF Scripts, Provision, ResetAdmin, Promote
<1>2. CASE TimePasses \/ UNCHANGED vars
  BY <1>2, RequestsUnchanged DEF TimePasses, vars
<1> QED
  BY <1>1, <1>2, LoginRequests, RefreshRequests, AuthenticatedRequests,
     AdministrationRequests
     DEF Next
(***************************************************************************)
(* Accounts                                                                *)
(***************************************************************************)

AccountsKept == \A e \in Employees : Alike(employees[e], employees'[e])

AccountsMove ==
    /\ employees' \in [Employees -> Employee]
    /\ AccountsKept \/ AllOvertaken

LEMMA AccountsUnchanged ==
    ASSUME Types, UNCHANGED employees
    PROVE  AccountsMove /\ AccountsKept
BY DEF Types, AccountsMove, AccountsKept, Alike

LEMMA OneEmployee ==
    ASSUME Types, NEW x \in Employees, NEW row \in Employee,
           employees' = [employees EXCEPT ![x] = row]
    PROVE  /\ employees' \in [Employees -> Employee]
           /\ employees'[x] = row /\ \A e \in Employees \ {x} : employees'[e] = employees[e]
           /\ Alike(employees[x], row) => AccountsMove /\ AccountsKept
           /\ AllOvertaken => AccountsMove
<1>1. employees \in [Employees -> Employee]
  BY DEF Types
<1>2. /\ employees' \in [Employees -> Employee] /\ employees'[x] = row
      /\ \A e \in Employees \ {x} : employees'[e] = employees[e]
  BY <1>1
<1>3. Alike(employees[x], row) => AccountsKept
  BY <1>2 DEF AccountsKept, Alike
<1> QED
  BY <1>2, <1>3 DEF AccountsMove

LEMMA RowWritten ==
    ASSUME Types, NEW x \in Employees, NEW old \in Employee, NEW new \in Employee,
           employees' = [employees EXCEPT ![x] = Written(@, old, new)]
    PROVE  /\ employees' \in [Employees -> Employee]
           /\ \A e \in Employees \ {x} : employees'[e] = employees[e]
           /\ Alike(old, new) => AccountsMove /\ AccountsKept
           /\ AllOvertaken => AccountsMove
           /\ Alike(old, employees[x]) => Alike(new, employees'[x])
<1> DEFINE row == Written(employees[x], old, new)
<1>1. employees[x] \in Employee
  BY DEF Types
<1>2. /\ row \in Employee
      /\ row.status = IF new.status # old.status THEN new.status ELSE employees[x].status
      /\ row.manage = IF new.manage # old.manage THEN new.manage ELSE employees[x].manage
  BY <1>1, WrittenType
<1>3. employees' = [employees EXCEPT ![x] = row]
  OBVIOUS
<1> HIDE DEF row
<1>4. /\ employees' \in [Employees -> Employee]
      /\ employees'[x] = row /\ \A e \in Employees \ {x} : employees'[e] = employees[e]
      /\ Alike(employees[x], row) => AccountsMove /\ AccountsKept
      /\ AllOvertaken => AccountsMove
  BY <1>2, <1>3, OneEmployee
<1>5. /\ Alike(old, new) => Alike(employees[x], row)
      /\ Alike(old, employees[x]) => Alike(new, row)
  BY <1>2 DEF Alike
<1> QED
  BY <1>4, <1>5

LEMMA ChangesAccount ==
    ASSUME Types, NEW r, NEW x \in Employees, NEW old \in Employee, NEW new \in Employee,
           ChangeAndRevoke(r, x, old, new)
    PROVE  AccountsMove
<1>1. employees' = [employees EXCEPT ![x] = Written(@, old, new)]
  BY DEF ChangeAndRevoke
<1> QED
  BY <1>1, RowWritten, ChangeOvertakes

LEMMA Password ==
    ASSUME NEW e \in Employee
    PROVE  /\ [e EXCEPT !.must = FALSE, !.version = @ + 1] \in Employee
           /\ Alike(e, [e EXCEPT !.must = FALSE, !.version = @ + 1])
           /\ [e EXCEPT !.must = FALSE, !.version = @ + 1].version = e.version + 1
<1>1. e.version + 1 \in Nat
  BY DEF Employee
<1> QED
  BY <1>1 DEF Employee, Alike

LEMMA AccountStep ==
    ASSUME Types, [Next]_vars
    PROVE  AccountsMove
<1>1. \A r \in Requests : requests[r] \in Request
  BY DEF Types
<1>2. \A e \in Employees : employees[e] \in Employee
  BY DEF Types
<1>3. ASSUME NEW r \in Requests, Login(r)
      PROVE  AccountsMove
  <2> DEFINE q == requests[r]
  <2>1. q.who \in Employees /\ q.mine \in Employee
    BY <1>1 DEF Request
  <2>2. CASE LoginFails(r)
    <3>1. employees' = [employees EXCEPT ![q.who] = Written(@, q.mine, Failed(q.mine))]
      BY <2>2 DEF LoginFails
    <3>2. Failed(q.mine) \in Employee /\ Alike(q.mine, Failed(q.mine))
      BY <2>1, FailedType DEF Alike
    <3> HIDE DEF q
    <3> QED
      BY <2>1, <3>1, <3>2, RowWritten
  <2>3. CASE LoginCommit(r)
    <3> DEFINE n == [q.mine EXCEPT !.failures = 0, !.locked = FALSE]
    <3>1. employees' = [employees EXCEPT ![q.who] = Written(@, q.mine, n)]
      BY <2>3 DEF LoginCommit
    <3>2. n \in Employee
      BY <2>1, FailedType
    <3>3. Alike(q.mine, n)
      <4> HIDE DEF q
      <4> QED
        BY <2>1 DEF Employee, Alike
    <3> HIDE DEF q, n
    <3> QED
      BY <2>1, <3>1, <3>2, <3>3, RowWritten
  <2>4. CASE ~LoginFails(r) /\ ~LoginCommit(r)
    BY <1>3, <2>4, AccountsUnchanged DEF Login, LoginRead, ReviewLoginRead, LoginFlush
  <2> QED
    BY <2>2, <2>3, <2>4
<1>4. ASSUME NEW r \in Requests, Refresh(r)
      PROVE  AccountsMove
  BY <1>4, AccountsUnchanged DEF Refresh, RefreshRead, RefreshCommit
<1>5. ASSUME NEW r \in Requests, Authenticated(r)
      PROVE  AccountsMove
  <2> DEFINE q == requests[r]
  <2>1. CASE ChangePassword(r)
    <3>1. q.who \in Employees /\ q.mine \in Employee
      BY <1>1 DEF Request
    <3>2. ChangeAndRevoke(r, q.who, q.mine, [q.mine EXCEPT !.must = FALSE, !.version = @ + 1])
      BY <2>1 DEF ChangePassword
    <3> HIDE DEF q
    <3>3. [q.mine EXCEPT !.must = FALSE, !.version = @ + 1] \in Employee
      BY <3>1, Password
    <3> QED
      BY <3>1, <3>2, <3>3, ChangesAccount
  <2>2. CASE ~ChangePassword(r)
    BY <1>5, <2>2, AccountsUnchanged
       DEF Authenticated, Authenticate, Authorise, Serve, Logout, RevokeSession
  <2> QED
    BY <2>1, <2>2
<1>6. ASSUME NEW r \in Requests, Administration(r)
      PROVE  AccountsMove
  <2> DEFINE q == requests[r]
  <2>1. q.target \in Employees /\ q.loaded \in Employee /\ q.new \in Employee
    BY <1>1 DEF Request
  <2>2. CASE Change(r)
    <3>1. ChangeAndRevoke(r, q.target, q.loaded, q.new)
      BY <2>2 DEF Change
    <3> HIDE DEF q
    <3> QED
      BY <2>1, <3>1, ChangesAccount
  <2>3. CASE Decide(r) \/ SignupAgain(r)
    <3>1. /\ employees' = [employees EXCEPT ![q.target] = Written(@, q.loaded, q.new)]
          /\ requests' = Overtaken({r}, q.target)
      BY <2>3 DEF Decide, SignupAgain, ChangeOnly
    <3> HIDE DEF q
    <3> QED
      BY <2>1, <3>1, RowWritten, Overtaking
  <2>4. CASE Insert(r)
    <3>1. CASE UNCHANGED employees
      BY <3>1, AccountsUnchanged
    <3>2. CASE ~UNCHANGED employees
      <4>1. /\ employees' = [employees EXCEPT ![q.target] = q.new]
            /\ requests' = Overtaken({r}, q.target)
        BY <2>4, <3>2 DEF Insert
      <4> HIDE DEF q
      <4> QED
        BY <2>1, <4>1, OneEmployee, Overtaking
    <3> QED
      BY <3>1, <3>2
  <2>5. CASE UNCHANGED employees
    BY <2>5, AccountsUnchanged
  <2> QED
    BY <1>6, <2>2, <2>3, <2>4, <2>5
       DEF Administration, TargetRead, SignupRead, ChangeFails
<1>7. ASSUME NEW x \in Employees, Provision(x) \/ ResetAdmin(x) \/ Promote(x)
      PROVE  AccountsMove
  <2>1. requests' = Overtaken({}, x)
    BY <1>7 DEF Provision, ResetAdmin, Promote
  <2>2. \E row \in Employee : employees' = [employees EXCEPT ![x] = row]
    <3>1. [Deputy EXCEPT !.manage = TRUE, !.must = TRUE] \in Employee
      BY NobodyType DEF Employee
    <3>2. Readmitted(employees[x]) \in Employee
      BY <1>2, ReadmittedType
    <3>3. [employees[x] EXCEPT !.status = "ACTIVE",
               !.role = "ADMIN", !.manage = TRUE, !.failures = 0] \in Employee
      BY <1>2, NoFailures DEF Employee, Status, Role
    <3> QED
      BY <1>7, <3>1, <3>2, <3>3 DEF Provision, ResetAdmin, Promote
  <2> QED
    BY <2>1, <2>2, OneEmployee, Overtaking
<1>8. ASSUME TimePasses
      PROVE  AccountsMove
  <2>1. ASSUME NEW e \in Employees, employees' = [employees EXCEPT ![e].locked = FALSE]
        PROVE  AccountsMove
    <3> DEFINE row == [employees[e] EXCEPT !.locked = FALSE]
    <3>1. row \in Employee /\ Alike(employees[e], row)
      BY <1>2 DEF Employee, Alike
    <3>2. employees' = [employees EXCEPT ![e] = row]
      BY <2>1
    <3> QED
      BY <3>1, <3>2, OneEmployee
  <2> QED
    BY <1>8, <2>1, AccountsUnchanged DEF TimePasses
<1> QED
  BY <1>3, <1>4, <1>5, <1>6, <1>7, <1>8, AccountsUnchanged DEF Next, Scripts, vars
(***************************************************************************)
(* Tokens and locks                                                        *)
(***************************************************************************)

LoginToken(r) ==
    [session |-> Len(sessions) + 1, version |-> requests[r].mine.version,
     fresh |-> requests[r].fresh]

RotatedToken(r) ==
    [session |-> requests[r].session, version |-> requests[r].mine.version,
     fresh |-> requests[r].fresh]

TokensMove ==
    \/ UNCHANGED tokens
    \/ \E r \in Requests : LoginCommit(r) /\ tokens' = tokens \cup {LoginToken(r)}
    \/ \E r \in Requests : RefreshCommit(r) /\ tokens' = tokens \cup {RotatedToken(r)}
    \/ \E e \in Employees : tokens' = Outdated(e)

LocksMove ==
    \/ UNCHANGED locks
    \/ \E r \in Requests : LoginFlush(r) /\ locks' = [locks EXCEPT ![requests[r].who] = TRUE]
    \/ \E r \in Requests : LoginCommit(r) /\ locks' = [locks EXCEPT ![requests[r].who] = FALSE]

LEMMA TokenStep ==
    ASSUME Types, [Next]_vars
    PROVE  TokensMove /\ LocksMove
<1>1. CASE UNCHANGED <<tokens, locks>>
  BY <1>1 DEF TokensMove, LocksMove
<1>2. ASSUME NEW r \in Requests, Login(r)
      PROVE  TokensMove /\ LocksMove
  <2>1. CASE LoginCommit(r)
    BY <2>1 DEF LoginCommit, LoginToken, TokensMove, LocksMove
  <2>2. CASE LoginFlush(r)
    BY <2>2 DEF LoginFlush, TokensMove, LocksMove
  <2>3. CASE UNCHANGED <<tokens, locks>>
    BY <2>3, <1>1
  <2> QED
    BY <1>2, <2>1, <2>2, <2>3 DEF Login, LoginRead, ReviewLoginRead, LoginFails
<1>3. ASSUME NEW r \in Requests, Refresh(r)
      PROVE  TokensMove /\ LocksMove
  <2>1. CASE RefreshCommit(r)
    BY <2>1 DEF RefreshCommit, RotatedToken, TokensMove, LocksMove
  <2> QED
    BY <1>1, <1>3, <2>1 DEF Refresh, RefreshRead
<1>4. ASSUME NEW r, NEW e \in Employees, NEW old, NEW new, ChangeAndRevoke(r, e, old, new)
      PROVE  TokensMove /\ LocksMove
  BY <1>4 DEF ChangeAndRevoke, TokensMove, LocksMove
<1>5. ASSUME NEW r \in Requests, Authenticated(r)
      PROVE  TokensMove /\ LocksMove
  <2>1. CASE ChangePassword(r)
    <3>1. requests[r].who \in Employees
      BY DEF Types, Request
    <3> QED
      BY <1>4, <2>1, <3>1 DEF ChangePassword
  <2> QED
    BY <1>1, <1>5, <2>1
       DEF Authenticated, Authenticate, Authorise, Serve, Logout, RevokeSession
<1>6. ASSUME NEW r \in Requests, Administration(r)
      PROVE  TokensMove /\ LocksMove
  <2>1. requests[r].target \in Employees
    BY DEF Types, Request
  <2>2. CASE Change(r)
    BY <1>4, <2>1, <2>2 DEF Change
  <2>3. CASE Decide(r) \/ SignupAgain(r)
    BY <2>1, <2>3 DEF Decide, SignupAgain, ChangeOnly, TokensMove, LocksMove
  <2> QED
    BY <1>1, <1>6, <2>2, <2>3
       DEF Administration, TargetRead, SignupRead, Insert, ChangeFails
<1>7. ASSUME NEW x \in Employees, Provision(x) \/ ResetAdmin(x) \/ Promote(x)
      PROVE  TokensMove /\ LocksMove
  BY <1>7 DEF Provision, ResetAdmin, Promote, TokensMove, LocksMove
<1>8. CASE TimePasses \/ UNCHANGED vars
  BY <1>1, <1>8 DEF TimePasses, vars
<1> QED
  BY <1>2, <1>3, <1>5, <1>6, <1>7, <1>8 DEF Next, Scripts

LEMMA BoundStep ==
    ASSUME Types, [Next]_vars
    PROVE  started' \in 0 .. MaxRequests /\ raced' \in BOOLEAN /\ blurred' \subseteq Employees
<1> DEFINE B == UNCHANGED started \/ (started < MaxRequests /\ started' = started + 1)
           R == UNCHANGED raced \/ \E r \in Requests : raced' = (raced \/ requests[r].missed # {})
           M == UNCHANGED blurred \/ \E e \in Employees : blurred' = blurred \cup {e}
<1>0. \A r \in Requests : requests[r].who \in Employees /\ requests[r].target \in Employees
  BY DEF Types, Request
<1>1. ASSUME NEW r \in Requests, Login(r) \/ Refresh(r)
      PROVE  B /\ R /\ M
  BY <1>1 DEF Login, LoginRead, ReviewLoginRead, LoginFails, LoginFlush, LoginCommit,
              Refresh, RefreshRead, RefreshCommit, Starts
<1>2. ASSUME NEW r \in Requests, Authenticated(r)
      PROVE  B /\ R /\ M
  BY <1>0, <1>2 DEF Authenticated, Authenticate, Authorise, Serve, Logout, RevokeSession,
              ChangePassword, ChangeAndRevoke, Starts
<1>3. ASSUME NEW r \in Requests, Administration(r)
      PROVE  B /\ R /\ M
  BY <1>0, <1>3 DEF Administration, TargetRead, SignupRead, Change, ChangeAndRevoke, Decide,
              Insert, ChangeFails, SignupAgain, ChangeOnly, Starts
<1>4. ASSUME Scripts \/ TimePasses \/ UNCHANGED vars
      PROVE  B /\ R /\ M
  BY <1>4 DEF Scripts, Script, Provision, ResetAdmin, Promote, TimePasses, vars
<1>5. B /\ R /\ M
  BY <1>1, <1>2, <1>3, <1>4 DEF Next
<1>6. B => started' \in 0 .. MaxRequests
  <2>1. started \in 0 .. MaxRequests /\ MaxRequests \in Nat
    BY AccountBounds DEF AccountBounds, Types
  <2> QED
    BY <2>1
<1>7. R => raced' \in BOOLEAN
  <2>1. raced \in BOOLEAN
    BY DEF Types
  <2> QED
    BY <2>1
<1>8. M => blurred' \subseteq Employees
  BY DEF Types
<1> QED
  BY <1>5, <1>6, <1>7, <1>8

LEMMA TypesStep ==
    ASSUME Types, [Next]_vars
    PROVE  Types'
<1>1. sessions' \in Seq(LoginSession) /\ Sessions \subseteq Sessions'
  BY SessionStep
<1>2. employees' \in [Employees -> Employee]
  BY AccountStep DEF AccountsMove
<1>3. RequestsMove
  BY RequestStep
<1>4. ASSUME NEW r \in Requests
      PROVE  RequestType(requests[r])'
  <2> DEFINE p == requests[r]
             q == requests'[r]
  <2>1. p \in Request /\ RequestType(p) /\ q \in Request
    BY <1>3 DEF Types, RequestsMove
  <2>2. RequestMoves(r)
    BY <1>3 DEF RequestsMove
  <2>3. /\ q.seen \subseteq Sessions
        /\ q.pc \in {"rotating", "session", "in"} => q.session \in Sessions
    <3>1. CASE Follows(p, q)
      BY <2>1, <3>1 DEF Follows, RequestType, Request
    <3>2. CASE Plain(q)
      BY <3>2 DEF Plain
    <3>3. CASE q = Counted(p)
      <4> HIDE DEF p, q
      <4> QED
        BY <2>1, <3>3 DEF Counted, Request, RequestType, Usable, Of
    <3>4. ASSUME NEW s \in Sessions, NEW k, q = Rotating(s, k)
          PROVE  q.seen = {} /\ q.session = s
      <4> HIDE DEF Idle, q
      <4> QED
        BY <3>4, IdleType DEF Rotating, Request
    <3>5. ASSUME NEW t \in tokens, q = Presents(t)
          PROVE  q.seen = {} /\ q.session = t.session
      <4> HIDE DEF Idle, q
      <4> QED
        BY <3>5, IdleType DEF Presents, Request
    <3>6. CASE Authorise(r) /\ q = LetThrough(p)
      <4>1. p.pc = "session"
        BY <3>6 DEF Authorise
      <4> HIDE DEF p, q
      <4> QED
        BY <2>1, <3>6, <4>1 DEF LetThrough, Request, RequestType
    <3>7. CASE Loads(r, q)
      BY <3>7 DEF Loads
    <3> QED
      BY <2>2, <3>1, <3>2, <3>3, <3>4, <3>5, <3>6, <3>7 DEF RequestMoves, Turns, Types
  <2> QED
    BY <1>1, <2>1, <2>3 DEF RequestType
<1>5. tokens' \subseteq Token /\ \A t \in tokens' : t.session \in Sessions'
  <2>1. CASE UNCHANGED tokens
    BY <1>1, <2>1 DEF Types
  <2>2. ASSUME NEW r \in Requests, LoginCommit(r), tokens' = tokens \cup {LoginToken(r)}
        PROVE  tokens' \subseteq Token /\ \A t \in tokens' : t.session \in Sessions'
    <3>1. PICK S : Unlocked(S) /\ sessions' = Append(Revoked(S), NewSession(requests[r].who))
      BY <2>2 DEF LoginCommit
    <3>2. requests[r].who \in Employees /\ requests[r].mine.version \in Nat
          /\ requests[r].fresh \in BOOLEAN
      BY DEF Types, Request, Employee
    <3>3. Len(sessions) + 1 \in Sessions'
      BY <3>1, <3>2, SessionAdded DEF Unlocked
    <3>4. LoginToken(r) \in Token /\ LoginToken(r).session \in Sessions'
      BY <3>2, <3>3, SessionRows DEF LoginToken, Token
    <3> QED
      BY <1>1, <2>2, <3>4 DEF Types
  <2>3. ASSUME NEW r \in Requests, RefreshCommit(r), tokens' = tokens \cup {RotatedToken(r)}
        PROVE  tokens' \subseteq Token /\ \A t \in tokens' : t.session \in Sessions'
    <3>1. requests[r].session \in Sessions /\ requests[r].session \in Nat
          /\ requests[r].mine.version \in Nat
          /\ requests[r].fresh \in BOOLEAN
      BY <2>3, SessionRotated DEF Types, Request, Employee
    <3>2. RotatedToken(r) \in Token /\ RotatedToken(r).session \in Sessions
      BY <3>1 DEF RotatedToken, Token
    <3> QED
      BY <1>1, <2>3, <3>2 DEF Types
  <2>4. ASSUME NEW e \in Employees, tokens' = Outdated(e)
        PROVE  tokens' \subseteq Token /\ \A t \in tokens' : t.session \in Sessions'
    <3>1. ASSUME NEW t \in tokens, NEW b, b \in BOOLEAN
          PROVE  [t EXCEPT !.fresh = b] \in Token /\ [t EXCEPT !.fresh = b].session \in Sessions
      <4>1. t \in Token /\ t.session \in Sessions
        BY DEF Types
      <4> QED
        BY <3>1, <4>1 DEF Token
    <3>2. ASSUME NEW u \in tokens'
          PROVE  u \in Token /\ u.session \in Sessions
      <4>1. PICK t \in tokens : u = [t EXCEPT !.fresh = t.fresh /\ t.session \notin Of(e)]
        BY <2>4 DEF Outdated
      <4>2. (t.fresh /\ t.session \notin Of(e)) \in BOOLEAN
        OBVIOUS
      <4> QED
        BY <3>1, <4>1, <4>2
    <3> QED
      BY <1>1, <3>2
  <2> QED
    BY TokenStep, <2>1, <2>2, <2>3, <2>4 DEF TokensMove
<1>6. locks' \in [Employees -> BOOLEAN]
  BY TokenStep DEF LocksMove, Types
<1>7. started' \in 0 .. MaxRequests /\ raced' \in BOOLEAN /\ blurred' \subseteq Employees
  BY BoundStep
<1>8. requests' \in [Requests -> Request]
  BY <1>3 DEF RequestsMove
<1> QED
  BY <1>1, <1>2, <1>4, <1>5, <1>6, <1>7, <1>8 DEF Types
(***************************************************************************)
(* The start                                                               *)
(***************************************************************************)

LEMMA AllLoggedIn ==
    /\ Len(LoggedIn) \in Nat
    /\ LoggedIn \in [1 .. Len(LoggedIn) -> Employees]
    /\ \A i \in 1 .. Len(LoggedIn) : LoggedIn[i] \in Staff \cup Deputies
    /\ \A i, j \in 1 .. Len(LoggedIn) : LoggedIn[i] = LoggedIn[j] => i = j
<1> DEFINE P == Staff \cup Deputies
           n == Cardinality(P)
<1>1. IsFiniteSet(P) /\ P \subseteq Employees
  BY StaffExists, StaffIsFinite DEF StaffExists, StaffIsFinite
<1>2. n \in Nat /\ ExistsBijection(1 .. n, P)
  BY <1>1, FS_CardinalityType
<1> HIDE DEF n
<1>3. PICK b \in [1 .. n -> P] : \A i, j \in 1 .. n : b[i] = b[j] => i = j
  BY <1>2 DEF ExistsBijection, Bijection, Injection, IsInjective
<1>4. LoggedIn \in [1 .. n -> P] /\ \A i, j \in 1 .. n : LoggedIn[i] = LoggedIn[j] => i = j
  <2>1. \E l \in [1 .. n -> P] : \A i, j \in DOMAIN l : l[i] = l[j] => i = j
    BY <1>3
  <2> DEFINE l == CHOOSE l \in [1 .. n -> P] : \A i, j \in DOMAIN l : l[i] = l[j] => i = j
  <2>2. l \in [1 .. n -> P] /\ \A i, j \in DOMAIN l : l[i] = l[j] => i = j
    BY <2>1
  <2>3. LoggedIn = l
    BY DEF LoggedIn, n
  <2> HIDE DEF l
  <2> QED
    BY <2>2, <2>3
<1>5. Len(LoggedIn) = n
  <2>1. LoggedIn \in Seq(P)
    BY <1>2, <1>4, SeqDef
  <2> QED
    BY <1>2, <1>4, <2>1, LenProperties
<1> QED
  BY <1>1, <1>2, <1>4, <1>5

LEMMA AtMostOne ==
    ASSUME NEW S, \A s, t \in S : s = t
    PROVE  IsFiniteSet(S) /\ Cardinality(S) <= 1
<1>1. CASE S = {}
  BY <1>1, FS_EmptySet
<1>2. ASSUME NEW s \in S
      PROVE  IsFiniteSet(S) /\ Cardinality(S) <= 1
  <2>1. S = {s}
    OBVIOUS
  <2>2. IsFiniteSet({s}) /\ Cardinality({s}) = 1
    BY FS_Singleton
  <2> QED
    BY <2>1, <2>2
<1> QED
  BY <1>1, <1>2

LEMMA AccountsStart == Init => AccountsInv
<1> SUFFICES ASSUME Init PROVE AccountsInv
  OBVIOUS
<1> DEFINE n == Len(LoggedIn)
<1>1. /\ n \in Nat /\ LoggedIn \in [1 .. n -> Employees]
      /\ \A i \in 1 .. n : LoggedIn[i] \in Staff \cup Deputies
      /\ \A i, j \in 1 .. n : LoggedIn[i] = LoggedIn[j] => i = j
  BY AllLoggedIn
<1>2. \A s \in 1 .. n : NewSession(LoggedIn[s]) \in LoginSession
  BY <1>1 DEF NewSession, LoginSession
<1>3. /\ sessions = [s \in 1 .. n |-> NewSession(LoggedIn[s])]
      /\ tokens = {[session |-> s, version |-> 1, fresh |-> TRUE] : s \in 1 .. n}
      /\ requests = [r \in Requests |-> Idle]
  BY DEF Init
<1> HIDE DEF n
<1>4. sessions \in Seq(LoginSession) /\ Sessions = 1 .. n
  BY <1>1, <1>2, <1>3, SeqDef DEF Sessions
<1>5. \A s \in Sessions :
        /\ sessions[s].owner = LoggedIn[s] /\ sessions[s].refresh = sessions[s].redeemed
  BY <1>3, <1>4 DEF NewSession
<1>6. \A r \in Requests : requests[r] = Idle
  BY <1>3
<1>7. employees \in [Employees -> Employee]
  <2>1. \A e \in Employees : employees[e] \in {Manager, Deputy, Nobody}
    BY DEF Init
  <2>2. employees \in [Employees -> {Manager, Deputy, Nobody}]
    BY <2>1 DEF Init
  <2> QED
    BY <2>2, NobodyType
<1>8. tokens \subseteq Token /\ \A t \in tokens : t.session \in Sessions /\ t.fresh
  <2>1. ASSUME NEW t \in tokens
        PROVE  t \in Token /\ t.session \in Sessions /\ t.fresh
    <3>1. PICK s \in 1 .. n : t = [session |-> s, version |-> 1, fresh |-> TRUE]
      BY <1>3
    <3>2. s \in Nat
      BY <1>1
    <3> QED
      BY <1>4, <3>1, <3>2 DEF Token
  <2> QED
    BY <2>1
<1>9. Types
  <2>1. RequestType(Idle) /\ Idle \in Request
    BY IdleType DEF RequestType
  <2>2. /\ started \in 0 .. MaxRequests /\ raced \in BOOLEAN
        /\ locks \in [Employees -> BOOLEAN] /\ blurred \subseteq Employees
    <3>1. started = 0 /\ raced = FALSE /\ blurred = {} /\ locks = [e \in Employees |-> FALSE]
      BY DEF Init
    <3>2. MaxRequests \in Nat
      BY AccountBounds DEF AccountBounds
    <3>3. locks \in [Employees -> BOOLEAN]
      BY <3>1
    <3>4. started \in 0 .. MaxRequests
      BY <3>1, <3>2
    <3> QED
      BY <3>1, <3>3, <3>4
  <2>3. requests \in [Requests -> Request]
    BY <1>3, <2>1
  <2> QED
    BY <1>4, <1>6, <1>7, <1>8, <2>1, <2>2, <2>3 DEF Types
<1>10. Rotation
  BY <1>5, <1>6, IdleType DEF Rotation, Rotates, RefreshOnce
<1>11. Freshness
  <2>1. ASSUME NEW t \in tokens
        PROVE  Stamp(sessions[t.session].owner, t.version, t.fresh)
    <3>1. PICK s \in 1 .. n : t = [session |-> s, version |-> 1, fresh |-> TRUE]
      BY <1>3
    <3>2. sessions[s].owner \in Staff \cup Deputies
      BY <1>1, <1>4, <1>5
    <3>3. employees[sessions[s].owner] \in {Manager, Deputy}
      BY <3>2, StaffExists DEF Init, StaffExists
    <3>4. employees[sessions[s].owner].status = "ACTIVE" /\ employees[sessions[s].owner].version = 1
      BY <3>3 DEF Manager, Deputy, Nobody
    <3> QED
      BY <3>1, <3>4 DEF Stamp
  <2> QED
    BY <1>6, <2>1, IdleType DEF Freshness, Carries, Seen, UnderWay
<1>12. Counting
  <2>1. ASSUME NEW e \in Employees
        PROVE  Cardinality(Usable(e)) <= MaxActive
    <3>1. \A s, t \in Usable(e) : s = t
      BY <1>1, <1>4, <1>5 DEF Usable, Of
    <3>2. IsFiniteSet(Usable(e)) /\ Cardinality(Usable(e)) <= 1
      BY <3>1, AtMostOne
    <3>3. Cardinality(Usable(e)) \in Nat
      BY <3>2, FS_CardinalityType
    <3> QED
      BY <3>2, <3>3, AccountBounds DEF AccountBounds
  <2> QED
    BY <1>6, <2>1, IdleType DEF Counting, Counts, SessionLimit
<1>13. Management
  <2>1. PICK e \in Staff : e \in Employees
    BY StaffExists DEF StaffExists
  <2>2. employees[e] = Manager
    BY <2>1, StaffExists DEF Init, StaffExists
  <2>3. employees[e].manage /\ employees[e].status = "ACTIVE"
    BY <2>2 DEF Manager, Nobody
  <2> QED
    BY <1>6, <2>1, <2>3, IdleType DEF Management, Clean, ManagerRemains
<1> QED
  BY <1>9, <1>10, <1>11, <1>12, <1>13 DEF AccountsInv
(***************************************************************************)
(* Refresh tokens                                                          *)
(***************************************************************************)

LEMMA RotatingBefore ==
    ASSUME Types, NEW r \in Requests, RequestMoves(r), requests'[r].pc = "rotating"
    PROVE  \/ /\ requests[r].pc = "rotating"
              /\ requests'[r].session = requests[r].session
              /\ requests'[r].version = requests[r].version
           \/ \E s \in Sessions, k \in Nat : Locking(r, s, k) /\ requests'[r] = Rotating(s, k)
<1> DEFINE p == requests[r]
           q == requests'[r]
<1>1. p \in Request
  BY DEF Types
<1> HIDE DEF p, q
<1>2. CASE Follows(p, q)
  BY <1>1, <1>2 DEF Follows, Request, p, q
<1>3. CASE q = Counted(p) \/ q = LetThrough(p)
  BY <1>1, <1>3 DEF Counted, LetThrough, Request, q
<1>4. ASSUME NEW t \in tokens, q = Presents(t)
      PROVE  FALSE
  BY <1>4, IdleType DEF Presents, Request, q
<1> QED
  BY <1>2, <1>3, <1>4 DEF RequestMoves, Turns, Plain, Loads, p, q

LEMMA RotationStep ==
    ASSUME Types, Rotation, [Next]_vars
    PROVE  Rotation'
<1>1. SessionMoves
  BY SessionStep
<1>2. /\ requests \in [Requests -> Request] /\ requests' \in [Requests -> Request]
      /\ \A r \in Requests : RequestMoves(r)
  BY RequestStep DEF RequestsMove, Types
<1>3. \A r \in Requests : requests[r].pc = "rotating" => requests[r].session \in Sessions
  BY DEF Types, RequestType
<1>4. \A s \in Sessions : sessions[s] \in LoginSession
  BY SessionRows
<1> DEFINE Rot(r) == requests[r].pc = "rotating"
           Was(r) == /\ requests[r].pc = "rotating"
                     /\ requests'[r].session = requests[r].session
                     /\ requests'[r].version = requests[r].version
<1>5. CASE SessionsKept
  <2>1. ASSUME NEW r \in Requests, requests'[r].pc = "rotating"
        PROVE  Was(r)
    <3>1. ASSUME NEW s \in Sessions, NEW k, Locking(r, s, k)
          PROVE  FALSE
      <4>1. sessions'[s].lock = TRUE
        BY <3>1, <1>4, SessionLocked DEF LoginSession
      <4>2. ~sessions[s].lock
        BY <3>1 DEF Locking, RefreshRead
      <4> QED
        BY <1>4, <1>5, <4>1, <4>2 DEF SessionsKept, SameSession
    <3> QED
      BY <1>2, <2>1, <3>1, RotatingBefore
  <2>2. ASSUME NEW r \in Requests
        PROVE  Rotates(requests[r])'
    <3>1. CASE requests'[r].pc = "rotating"
      <4>1. Was(r) /\ requests[r].session \in Sessions
        BY <1>3, <2>1, <3>1
      <4>2. SameSession(sessions[requests[r].session], sessions'[requests[r].session])
        BY <1>5, <4>1 DEF SessionsKept
      <4> QED
        BY <4>1, <4>2 DEF Rotation, Rotates, SameSession
    <3> QED
      BY <3>1 DEF Rotates
  <2>3. RefreshOnce'
    <3>1. ASSUME NEW s \in Sessions
          PROVE  sessions'[s].refresh = sessions'[s].redeemed
      BY <1>5 DEF SessionsKept, SameSession, Rotation, RefreshOnce
    <3>2. ASSUME NEW s \in Sessions', s \notin Sessions
          PROVE  sessions'[s].refresh = sessions'[s].redeemed
      <4>1. CASE Sessions' = Sessions
        BY <4>1, <3>2
      <4>2. CASE \E e : Opens(e)
        BY <3>2, <4>2 DEF Opens, NewSession
      <4>3. CASE \E r \in Requests : RefreshCommit(r)
        BY <4>1, <4>3, SessionRotated
      <4>4. CASE \E r \in Requests, u \in Sessions, k \in Nat : Locking(r, u, k)
        BY <4>1, <4>4, SessionLocked
      <4> QED
        BY <1>1, <4>1, <4>2, <4>3, <4>4 DEF SessionMoves
    <3> QED
      BY <3>1, <3>2 DEF RefreshOnce
  <2> QED
    BY <2>1, <2>2, <2>3 DEF Rotation
<1>6. ASSUME NEW r \in Requests, RefreshCommit(r)
      PROVE  Rotation'
  <2> DEFINE s == requests[r].session
  <2>1. /\ s \in Sessions /\ Sessions' = Sessions
        /\ sessions'[s] = [sessions[s] EXCEPT !.refresh = requests[r].version + 1,
                  !.redeemed = sessions[s].redeemed + 1, !.lock = FALSE]
        /\ \A t \in Sessions \ {s} : sessions'[t] = sessions[t]
    BY <1>6, SessionRotated
  <2>2. Rot(r) /\ requests' = [requests EXCEPT ![r] = Idle]
    BY <1>6 DEF RefreshCommit, Ends
  <2>3. sessions[s].refresh = requests[r].version
    BY <2>2 DEF Rotation, Rotates
  <2>4. \A o \in Requests : requests'[o].pc = "rotating" =>
          requests'[o] = requests[o] /\ Rot(o) /\ o # r
    BY <1>2, <2>2, IdleType
  <2>5. \A o \in Requests : requests'[o].pc = "rotating" =>
          requests[o].session \in Sessions \ {s}
    BY <1>3, <2>2, <2>4 DEF Rotation
  <2>6. \A o \in Requests : Rotates(requests[o])'
    BY <2>1, <2>4, <2>5 DEF Rotation, Rotates
  <2>7. RefreshOnce'
    <3>1. sessions'[s].refresh = sessions'[s].redeemed
      BY <1>4, <2>1, <2>3 DEF Rotation, RefreshOnce, LoginSession
    <3> QED
      BY <2>1, <3>1 DEF Rotation, RefreshOnce
  <2> QED
    BY <2>4, <2>6, <2>7 DEF Rotation
<1>7. ASSUME NEW r \in Requests, NEW s \in Sessions, NEW k \in Nat, Locking(r, s, k)
      PROVE  Rotation'
  <2>1. /\ Sessions' = Sessions
        /\ sessions'[s] = [sessions[s] EXCEPT !.lock = TRUE]
        /\ \A t \in Sessions \ {s} : sessions'[t] = sessions[t]
    BY <1>7, SessionLocked
  <2>2. /\ requests' = [requests EXCEPT ![r] = Rotating(s, k)]
        /\ ~sessions[s].lock /\ sessions[s].refresh = k /\ ~sessions[s].revoked
    BY <1>7 DEF Locking, RefreshRead, Live
  <2>3. Rotating(s, k).session = s /\ Rotating(s, k).version = k
    BY IdleType DEF Rotating, Request
  <2>4. requests'[r] = Rotating(s, k) /\ \A o \in Requests \ {r} : requests'[o] = requests[o]
    BY <1>2, <2>2
  <2>5. \A o \in Requests \ {r} : Rot(o) => requests[o].session \in Sessions \ {s}
    BY <1>3, <2>2 DEF Rotation, Rotates
  <2>6. ASSUME NEW o \in Requests
        PROVE  Rotates(requests[o])'
    <3>1. CASE o = r
      BY <1>4, <2>1, <2>2, <2>3, <2>4, <3>1 DEF Rotates, LoginSession
    <3>2. CASE o # r
      BY <2>1, <2>4, <2>5, <3>2 DEF Rotation, Rotates
    <3> QED
      BY <3>1, <3>2
  <2>7. RefreshOnce'
    BY <1>4, <2>1 DEF Rotation, RefreshOnce, LoginSession
  <2> QED
    BY <2>3, <2>4, <2>5, <2>6, <2>7 DEF Rotation
<1> QED
  BY <1>1, <1>5, <1>6, <1>7 DEF SessionMoves, Opens

\* A session that has ended is not revived, and its refresh token not rotated.
LEMMA EndedForGood ==
    ASSUME Types, Rotation, [Next]_vars, NEW s \in Sessions, sessions[s].revoked
    PROVE  sessions'[s].revoked /\ sessions'[s].refresh = sessions[s].refresh
<1>1. SessionMoves
  BY SessionStep
<1>2. sessions[s] \in LoginSession
  BY SessionRows
<1>3. CASE SessionsKept
  BY <1>3 DEF SessionsKept, SameSession
<1>4. ASSUME NEW r \in Requests, RefreshCommit(r)
      PROVE  sessions'[s] = sessions[s]
  <2>1. ~sessions[requests[r].session].revoked
    BY <1>4 DEF RefreshCommit, Rotation, Rotates
  <2> QED
    BY <1>4, <2>1, SessionRotated
<1>5. ASSUME NEW r \in Requests, NEW t \in Sessions, NEW k \in Nat, Locking(r, t, k)
      PROVE  sessions'[s] = sessions[s]
  <2>1. ~sessions[t].revoked
    BY <1>5 DEF Locking, RefreshRead, Live
  <2> QED
    BY <1>5, <2>1, SessionLocked
<1> QED
  BY <1>1, <1>3, <1>4, <1>5 DEF SessionMoves, Opens
(***************************************************************************)
(* Access tokens                                                           *)
(***************************************************************************)

StampsKept == \A e \in Employees : SameStamp(employees[e], employees'[e])

\* No account changes; a login or a refresh may hand a token out.
Quiet ==
    /\ Calm /\ StampsKept /\ UNCHANGED blurred
    /\ \/ UNCHANGED tokens
       \/ \E r \in Requests : LoginCommit(r) /\ tokens' = tokens \cup {LoginToken(r)}
       \/ \E r \in Requests : RefreshCommit(r) /\ tokens' = tokens \cup {RotatedToken(r)}

\* Nothing is left that the version of e would have to stop.
Ended(e) ==
    /\ \A s \in Of(e) : sessions'[s].revoked
    /\ \A r \in Requests : ~UnderWay(requests[r], e)

\* The account of e changes: what was read of it is out of date, and what a
\* token of it could still pass with ends, gets another version, or is blurred.
Changes(e) ==
    /\ Overtakes(e)
    /\ \A d \in Employees \ {e} : employees'[d] = employees[d]
    /\ blurred \subseteq blurred'
    /\ employees[e].status # "NONE" => employees'[e].status # "NONE" /\ tokens' = Outdated(e)
    /\ tokens' = Outdated(e) \/ UNCHANGED tokens
    /\ \/ e \in blurred'
       \/ employees'[e].version = employees[e].version + 1
       \/ employees'[e].version = employees[e].version /\ employees[e].status # "ACTIVE"
       \/ employees[e].status = "NONE"
       \/ Ended(e)

LEMMA StampWritten ==
    ASSUME Types, NEW x \in Employees, NEW old \in Employee, NEW new \in Employee,
           employees' = [employees EXCEPT ![x] = Written(@, old, new)]
    PROVE  /\ \A e \in Employees \ {x} : employees'[e] = employees[e]
           /\ SameStamp(old, new) => StampsKept
           /\ new.version = old.version => employees'[x].version = employees[x].version
           /\ new.version = old.version + 1 /\ old.version = employees[x].version
              => employees'[x].version = employees[x].version + 1
           /\ employees[x].status # "NONE" /\ (new.status = old.status \/ new.status # "NONE")
              => employees'[x].status # "NONE"
<1> DEFINE row == Written(employees[x], old, new)
<1>1. employees \in [Employees -> Employee] /\ employees[x] \in Employee
  BY DEF Types
<1>2. /\ row.status = IF new.status # old.status THEN new.status ELSE employees[x].status
      /\ row.version = IF new.version # old.version THEN new.version ELSE employees[x].version
  BY <1>1, WrittenType
<1>3. employees' = [employees EXCEPT ![x] = row]
  OBVIOUS
<1> HIDE DEF row
<1>4. employees'[x] = row /\ \A e \in Employees \ {x} : employees'[e] = employees[e]
  BY <1>1, <1>3
<1>5. SameStamp(old, new) => StampsKept
  BY <1>2, <1>4 DEF SameStamp, StampsKept
<1>6. old.version \in Nat
  BY DEF Employee
<1> QED
  BY <1>2, <1>4, <1>5, <1>6

LEMMA WritingChange ==
    ASSUME Types, NEW x \in Employees, NEW old \in Employee, NEW new \in Employee,
           employees' = [employees EXCEPT ![x] = Written(@, old, new)],
           Overtakes(x), tokens' = Outdated(x), blurred \subseteq blurred',
           new.status = old.status \/ new.status # "NONE",
           \/ x \in blurred'
           \/ old.version = employees[x].version /\ new.version = old.version + 1
           \/ new.version = old.version /\ employees[x].status # "ACTIVE"
           \/ Ended(x)
    PROVE  Changes(x)
<1>1. /\ \A e \in Employees \ {x} : employees'[e] = employees[e]
      /\ SameStamp(old, new) => StampsKept
      /\ new.version = old.version => employees'[x].version = employees[x].version
      /\ new.version = old.version + 1 /\ old.version = employees[x].version
         => employees'[x].version = employees[x].version + 1
      /\ employees[x].status # "NONE" /\ (new.status = old.status \/ new.status # "NONE")
         => employees'[x].status # "NONE"
  BY StampWritten, Zenon
<1>2. employees[x].status # "NONE" => employees'[x].status # "NONE"
  BY <1>1
<1> QED
  BY <1>1, <1>2 DEF Changes

LEMMA RevokingChange ==
    ASSUME Types, NEW r \in Requests, NEW x \in Employees,
           NEW old \in Employee, NEW new \in Employee, ChangeAndRevoke(r, x, old, new),
           x \notin requests[r].missed => old.version = employees[x].version,
           new.version = old.version + 1, new.status = old.status \/ new.status # "NONE"
    PROVE  Changes(x)
<1>1. employees' = [employees EXCEPT ![x] = Written(@, old, new)]
  BY DEF ChangeAndRevoke
<1>2. Overtakes(x) /\ tokens' = Outdated(x)
  BY ChangeOvertakes DEF ChangeAndRevoke
<1>3. blurred' = IF Blurs(r, x) THEN blurred \cup {x} ELSE blurred
  BY DEF ChangeAndRevoke
<1>4. \A s \in Of(x) : sessions'[s].revoked
  BY RevokedKept DEF ChangeAndRevoke, Unlocked, Of
<1>5. x \in requests[r].missed => x \in blurred' \/ Ended(x)
  BY <1>3, <1>4 DEF Blurs, Ended
<1> QED
  BY <1>1, <1>2, <1>3, <1>5, WritingChange

\* A change that ends no session blurs the account if its request has missed one.
LEMMA KeepingChange ==
    ASSUME Types, NEW r \in Requests, ChangeOnly(r), requests[r].new.status # "NONE",
           LET q == requests[r] IN
           q.target \notin q.missed =>
              \/ q.loaded.version = employees[q.target].version
                 /\ q.new.version = q.loaded.version + 1
              \/ q.new.version = q.loaded.version /\ employees[q.target].status # "ACTIVE"
    PROVE  requests[r].target \in Employees /\ Changes(requests[r].target)
<1> DEFINE q == requests[r]
<1>1. PICK x \in Employees : x = q.target
  BY DEF Types, Request
<1>2. PICK old \in Employee, new \in Employee : old = q.loaded /\ new = q.new
  BY DEF Types, Request
<1>3. /\ employees' = [employees EXCEPT ![x] = Written(@, old, new)]
      /\ tokens' = Outdated(x)
      /\ blurred' = IF x \in q.missed THEN blurred \cup {x} ELSE blurred
  BY <1>1, <1>2 DEF ChangeOnly
<1>4. Overtakes(x)
  BY <1>1, ChangeOnlyOvertakes
<1> QED
  BY <1>1, <1>2, <1>3, <1>4, WritingChange

LEMMA LoginIsQuiet ==
    ASSUME Types, NEW r \in Requests, Login(r)
    PROVE  Quiet
<1> DEFINE q == requests[r]
<1>1. q.who \in Employees /\ q.mine \in Employee
  BY DEF Types, Request
<1>2. Calm
  BY LoginRequests
<1>3. ASSUME UNCHANGED employees
      PROVE  StampsKept
  BY <1>3 DEF StampsKept, SameStamp
<1>4. CASE LoginFails(r)
  <2>1. employees' = [employees EXCEPT ![q.who] = Written(@, q.mine, Failed(q.mine))]
    BY <1>4 DEF LoginFails
  <2>2. Failed(q.mine) \in Employee /\ SameStamp(q.mine, Failed(q.mine))
    BY <1>1, FailedType DEF SameStamp
  <2> HIDE DEF q
  <2>3. StampsKept
    BY <1>1, <2>1, <2>2, StampWritten
  <2> QED
    BY <1>2, <1>4, <2>3 DEF Quiet, LoginFails
<1>5. CASE LoginCommit(r)
  <2> DEFINE n == [q.mine EXCEPT !.failures = 0, !.locked = FALSE]
  <2>1. employees' = [employees EXCEPT ![q.who] = Written(@, q.mine, n)]
    BY <1>5 DEF LoginCommit
  <2>2. n \in Employee
    BY <1>1, FailedType
  <2>3. SameStamp(q.mine, n)
    <3> HIDE DEF q
    <3> QED
      BY <1>1 DEF Employee, SameStamp
  <2>4. StampsKept
    <3> HIDE DEF q, n
    <3> QED
      BY <1>1, <2>1, <2>2, <2>3, StampWritten
  <2>5. tokens' = tokens \cup {LoginToken(r)} /\ UNCHANGED blurred
    BY <1>5 DEF LoginCommit, LoginToken
  <2> QED
    BY <1>2, <1>5, <2>4, <2>5 DEF Quiet
<1> QED
  BY <1>2, <1>3, <1>4, <1>5 DEF Login, LoginRead, ReviewLoginRead, LoginFlush, Quiet

\* Every step leaves the versions alone or changes one account.
LEMMA StampStep ==
    ASSUME Types, Freshness, Management, [Next]_vars
    PROVE  Quiet \/ \E e \in Employees : Changes(e)
<1>1. \A r \in Requests :
        /\ requests[r].who \in Employees /\ requests[r].mine \in Employee
        /\ requests[r].target \in Employees
        /\ requests[r].loaded \in Employee /\ requests[r].new \in Employee
  BY DEF Types, Request
<1>2. ASSUME Calm, UNCHANGED <<employees, tokens, blurred>>
      PROVE  Quiet
  BY <1>2 DEF Quiet, StampsKept, SameStamp
<1>3. ASSUME NEW r \in Requests, Refresh(r)
      PROVE  Quiet
  <2>1. Calm
    BY <1>3, RefreshRequests
  <2>2. CASE RefreshCommit(r)
    BY <2>1, <2>2 DEF RefreshCommit, RotatedToken, Quiet, StampsKept, SameStamp
  <2> QED
    BY <1>2, <1>3, <2>1, <2>2 DEF Refresh, RefreshRead
<1>4. ASSUME NEW r \in Requests, Authenticated(r)
      PROVE  Quiet \/ \E e \in Employees : Changes(e)
  <2>1. CASE ChangePassword(r)
    <3> DEFINE q == requests[r]
               new == [q.mine EXCEPT !.must = FALSE, !.version = @ + 1]
    <3>1. q.who \in Employees /\ q.mine \in Employee
      BY <1>1
    <3>2. ChangeAndRevoke(r, q.who, q.mine, new) /\ q.pc = "in"
      BY <2>1 DEF ChangePassword, LetIn
    <3>3. new \in Employee /\ new.version = q.mine.version + 1 /\ new.status = q.mine.status
      <4> HIDE DEF q
      <4> QED
        BY <3>1, Password DEF Alike
    <3>4. q.who \notin q.missed => q.mine.version = employees[q.who].version
      BY <3>2 DEF Freshness, Seen, SameStamp
    <3>5. Changes(q.who)
      <4> HIDE DEF new
      <4> QED
        BY <3>1, <3>2, <3>3, <3>4, RevokingChange
    <3> QED
      BY <3>1, <3>5
  <2>2. CASE ~ChangePassword(r)
    <3>1. Calm
      BY <1>4, <2>2, AuthenticatedRequests
    <3> QED
      BY <1>2, <1>4, <2>2, <3>1
         DEF Authenticated, Authenticate, Authorise, Serve, Logout, RevokeSession
  <2> QED
    BY <2>1, <2>2
<1>5. ASSUME NEW r \in Requests, Administration(r)
      PROVE  Quiet \/ \E e \in Employees : Changes(e)
  <2> DEFINE q == requests[r]
             x == q.target
  <2>1. x \in Employees /\ q.loaded \in Employee /\ q.new \in Employee
    BY <1>1
  <2>2. CASE Change(r)
    <3>1. ChangeAndRevoke(r, x, q.loaded, q.new) /\ q.pc = "loaded" /\ q.op = "change"
      BY <2>2 DEF Change
    <3>2. /\ q.new.version = q.loaded.version + 1 /\ q.new.status # "NONE"
          /\ x \notin q.missed => q.loaded.version = employees[x].version
      BY <3>1 DEF Freshness, Seen, SameStamp
    <3> QED
      BY <2>1, <3>1, <3>2, RevokingChange
  <2>3. CASE Decide(r) \/ SignupAgain(r)
    <3>1. ChangeOnly(r) /\ q.new.status # "NONE"
      BY <2>3 DEF Decide, SignupAgain, Freshness, Seen
    <3>2. ASSUME x \notin q.missed, Decide(r)
          PROVE  q.loaded.version = employees[x].version /\ q.new.version = q.loaded.version + 1
      BY <3>2 DEF Decide, Freshness, Seen, SameStamp
    <3>3. ASSUME x \notin q.missed, SignupAgain(r)
          PROVE  q.new.version = q.loaded.version /\ employees[x].status # "ACTIVE"
      BY <3>3 DEF SignupAgain, Freshness, Seen, SameStamp, Management
    <3> QED
      BY <2>3, <3>1, <3>2, <3>3, KeepingChange
  <2>4. CASE Insert(r)
    <3>1. CASE UNCHANGED employees /\ Ends(r)
      BY <1>2, <2>4, <3>1, RequestEnds DEF Insert
    <3>2. CASE ~(UNCHANGED employees /\ Ends(r))
      <4>1. /\ employees' = [employees EXCEPT ![x] = q.new] /\ employees[x].status = "NONE"
            /\ requests' = Overtaken({r}, x) /\ UNCHANGED <<tokens, blurred>>
        BY <2>4, <3>2 DEF Insert
      <4>2. \A d \in Employees \ {x} : employees'[d] = employees[d]
        <5> HIDE DEF q, x
        <5> QED
          BY <2>1, <4>1, OneEmployee
      <4> QED
        BY <2>1, <4>1, <4>2, Overtaking DEF Changes
    <3> QED
      BY <3>1, <3>2
  <2>5. ASSUME NEW y \in Employees, TargetRead(r, y) \/ SignupRead(r, y)
        PROVE  Quiet
    <3>1. Calm
      BY <2>5, Reads, Signs, RequestEnds
    <3> QED
      BY <1>2, <2>5, <3>1 DEF TargetRead, SignupRead
  <2>6. CASE ChangeFails(r)
    BY <1>2, <2>6, RequestEnds DEF ChangeFails
  <2> QED
    BY <1>5, <2>2, <2>3, <2>4, <2>5, <2>6 DEF Administration
<1>6. ASSUME NEW x \in Employees, Provision(x) \/ ResetAdmin(x) \/ Promote(x)
      PROVE  Changes(x)
  <2>1. Overtakes(x)
    BY <1>6, Overtaking DEF Provision, ResetAdmin, Promote
  <2>2. employees \in [Employees -> Employee] /\ employees[x] \in Employee
    BY DEF Types
  <2>3. \A d \in Employees \ {x} : employees'[d] = employees[d]
    BY <1>6, <2>2 DEF Provision, ResetAdmin, Promote
  <2>4. CASE Provision(x)
    BY <2>1, <2>3, <2>4 DEF Provision, Changes
  <2>5. CASE ResetAdmin(x)
    <3>1. employees'[x] = Readmitted(employees[x]) /\ tokens' = Outdated(x) /\ UNCHANGED blurred
      BY <2>2, <2>5 DEF ResetAdmin
    <3>2. /\ employees'[x].version = employees[x].version + 1
          /\ employees[x].status # "NONE" => employees'[x].status # "NONE"
      BY <2>2, <3>1, ReadmittedType
    <3> QED
      BY <2>1, <2>3, <3>1, <3>2 DEF Changes
  <2>6. CASE Promote(x)
    <3>1. /\ employees'[x] = [employees[x] EXCEPT !.status = "ACTIVE",
                 !.role = "ADMIN", !.manage = TRUE, !.failures = 0]
          /\ tokens' = Outdated(x)
          /\ blurred' = IF employees[x].status = "ACTIVE" THEN blurred \cup {x} ELSE blurred
      BY <2>2, <2>6 DEF Promote
    <3>2. employees'[x].status = "ACTIVE" /\ employees'[x].version = employees[x].version
      BY <2>2, <3>1 DEF Employee
    <3> QED
      BY <2>1, <2>3, <3>1, <3>2 DEF Changes
  <2> QED
    BY <1>6, <2>4, <2>5, <2>6
<1>7. CASE TimePasses
  <2>1. Calm
    BY <1>7, RequestsUnchanged DEF TimePasses
  <2>2. ASSUME NEW e \in Employees, employees' = [employees EXCEPT ![e].locked = FALSE]
        PROVE  StampsKept
    <3>1. employees \in [Employees -> Employee]
      BY DEF Types
    <3> QED
      BY <2>2, <3>1 DEF Employee, StampsKept, SameStamp
  <2> QED
    BY <1>2, <1>7, <2>1, <2>2 DEF TimePasses, Quiet
<1>8. CASE UNCHANGED vars
  BY <1>2, <1>8, RequestsUnchanged DEF vars
<1> QED
  BY <1>3, <1>4, <1>5, <1>6, <1>7, <1>8, LoginIsQuiet DEF Next, Scripts

LEMMA OwnersKept ==
    ASSUME Types, Rotation, [Next]_vars, NEW s \in Sessions
    PROVE  sessions'[s].owner = sessions[s].owner /\ (sessions[s].revoked => sessions'[s].revoked)
<1>1. SessionMoves
  BY SessionStep
<1>2. sessions[s] \in LoginSession
  BY SessionRows
<1>3. CASE SessionsKept
  BY <1>3 DEF SessionsKept, SameSession
<1>4. ASSUME NEW r \in Requests, RefreshCommit(r)
      PROVE  sessions'[s].owner = sessions[s].owner
  <2> DEFINE t == requests[r].session
  <2>1. /\ sessions'[t] = [sessions[t] EXCEPT !.refresh = requests[r].version + 1,
                  !.redeemed = sessions[t].redeemed + 1, !.lock = FALSE]
        /\ \A u \in Sessions \ {t} : sessions'[u] = sessions[u]
    BY <1>4, SessionRotated
  <2> HIDE DEF t
  <2> QED
    BY <1>2, <2>1 DEF LoginSession
<1>5. ASSUME NEW r \in Requests, NEW t \in Sessions, NEW k \in Nat, Locking(r, t, k)
      PROVE  sessions'[s].owner = sessions[s].owner
  <2>1. /\ sessions'[t] = [sessions[t] EXCEPT !.lock = TRUE]
        /\ \A u \in Sessions \ {t} : sessions'[u] = sessions[u]
    BY <1>5, SessionLocked
  <2> QED
    BY <1>2, <2>1 DEF LoginSession
<1> QED
  BY <1>1, <1>3, <1>4, <1>5, EndedForGood DEF SessionMoves, Opens

\* The same after the step.
StampNext(e, v, fresh) ==
    /\ employees'[e].status # "NONE"
    /\ fresh => employees'[e].status = "ACTIVE" /\ v = employees'[e].version
    /\ ~fresh => e \in blurred' \/ v < employees'[e].version

LEMMA FreshNext ==
    ASSUME \A t \in tokens' : t.fresh \/ ~sessions'[t.session].revoked =>
               StampNext(sessions'[t.session].owner, t.version, t.fresh),
           \A r \in Requests :
               LET q == requests'[r] IN
               /\ UnderWay(q, q.who) => StampNext(q.who, Version(q), q.fresh)
               /\ q.pc = "rotating" => q.who = sessions'[q.session].owner
               /\ Seen(requests[r])'
    PROVE  Freshness'
<1>1. \A r \in Requests : Carries(requests[r])'
  BY DEF Carries, StampNext, Stamp, UnderWay, Version
<1>2. \A t \in tokens' :
        t.fresh \/ ~sessions'[t.session].revoked => Stamp(sessions[t.session].owner, t.version, t.fresh)'
  BY DEF StampNext, Stamp
<1> QED
  BY <1>1, <1>2 DEF Freshness, Live

LEMMA SessionsOwned ==
    ASSUME Types, Rotation, [Next]_vars
    PROVE  \A s \in Sessions : /\ sessions[s].owner \in Employees
                               /\ sessions'[s].owner = sessions[s].owner
                               /\ sessions[s].revoked => sessions'[s].revoked
BY OwnersKept, SessionRows DEF LoginSession

\* Of a request that was let in or that has loaded a row, what it has loaded is
\* up to date.
LEMMA SeenNext ==
    ASSUME Types, Freshness, NEW r \in Requests, Turns(r), StampsKept
    PROVE  Seen(requests[r])'
<1> DEFINE p == requests[r]
           q == requests'[r]
<1>1. p \in Request /\ \A e \in Employees : employees[e] \in Employee
  BY DEF Types
<1>2. q.pc \notin {"in", "loaded", "signing"} => Seen(requests[r])'
  BY DEF Seen
<1>3. ASSUME NEW x \in Employees, TargetRead(r, x), Loads(r, q)
      PROVE  Seen(requests[r])'
  <2> DEFINE self == x = p.who
             e == IF self THEN p.mine ELSE employees[x]
  <2>1. ~Ends(r)
    <3>1. requests \in [Requests -> Request]
      BY DEF Types
    <3> QED
      BY <1>3, <3>1, IdleType DEF Ends, Loads
  <2>2. /\ p.pc = "in" /\ q.pc = "loaded" /\ q.target = x /\ q.loaded = e
        /\ q.missed = IF self THEN p.missed ELSE {}
    BY <1>3, <2>1, Reads
  <2>3. PICK op \in AdminOp \ {"revoke_session"} :
          /\ q.new \in Outcomes(op, e) /\ q.op = Kind(op) /\ (e.status # "NONE" <=> op # "create")
    BY <1>3, <2>1, Reads
  <2>4. e \in Employee
    BY <1>1 DEF Request
  <2>5. /\ op # "create" => q.new.version = e.version + 1
        /\ q.new.status # "NONE"
    <3> HIDE DEF e, q
    <3> QED
      BY <2>3, <2>4, OutcomesType
  <2>6. op = "create" => q.op = "create"
    BY <2>3 DEF Kind
  <2>7. q.target \notin q.missed => SameStamp(e, employees[x])
    <3>1. CASE self
      BY <2>2, <3>1 DEF Freshness, Seen
    <3>2. CASE ~self
      BY <3>2 DEF SameStamp
    <3> QED
      BY <3>1, <3>2
  <2>8. q.target \notin q.missed => SameStamp(q.loaded, employees'[q.target])
    BY <2>2, <2>7 DEF StampsKept, SameStamp
  <2> HIDE DEF e, q
  <2> QED
    BY <2>2, <2>5, <2>6, <2>8 DEF Seen, q
<1>4. ASSUME NEW x \in Employees, SignupRead(r, x)
      PROVE  Seen(requests[r])'
  <2>1. /\ q.pc = "signing" /\ q.target = x /\ q.loaded = employees[x]
        /\ q.new.version = q.loaded.version /\ q.new.status = "PENDING_APPROVAL"
    BY <1>4, Signs
  <2>2. SameStamp(employees[x], employees'[x])
    BY DEF StampsKept
  <2> QED
    BY <2>1, <2>2 DEF Seen
<1>5. CASE Authorise(r) /\ q = LetThrough(p)
  <2>1. q.pc = "in" /\ q.who \in Employees /\ q.mine = employees[q.who]
    BY <1>1, <1>5 DEF LetThrough, Request
  <2>2. SameStamp(employees[q.who], employees'[q.who])
    BY <2>1 DEF StampsKept
  <2> QED
    BY <2>1, <2>2 DEF Seen
<1>6. CASE Plain(q)
  BY <1>2, <1>6 DEF Plain
<1>7. CASE q = Counted(p)
  <2>1. q.pc = "flushed"
    BY <1>1, <1>7 DEF Counted, Request
  <2> QED
    BY <1>2, <2>1
<1>8. ASSUME NEW s, NEW k, q = Rotating(s, k)
      PROVE  q.pc = "rotating"
  BY <1>8, IdleType DEF Rotating, Request
<1>9. ASSUME NEW t, q = Presents(t)
      PROVE  q.pc = "session"
  BY <1>9, IdleType DEF Presents, Request
<1> HIDE DEF q
<1> QED
  BY <1>2, <1>3, <1>4, <1>5, <1>6, <1>7, <1>8, <1>9 DEF Turns, Loads, q

\* While nothing changes, tokens are handed out with the version of a request
\* under way, and requests take the one of their token or of the row.
LEMMA QuietIsFresh ==
    ASSUME Types, Rotation, Freshness, Management, [Next]_vars, Quiet
    PROVE  Freshness'
<1>1. \A e \in Employees : \A v, f : Stamp(e, v, f) => StampNext(e, v, f)
  BY DEF Quiet, StampsKept, SameStamp, Stamp, StampNext
<1>2. \A s \in Sessions : /\ sessions[s].owner \in Employees
                          /\ sessions'[s].owner = sessions[s].owner
                          /\ sessions[s].revoked => sessions'[s].revoked
  BY SessionsOwned
<1>3. \A r \in Requests :
        /\ requests[r] \in Request /\ requests[r].who \in Employees
        /\ Carries(requests[r]) /\ Seen(requests[r])
  BY DEF Types, Freshness, Request
<1> DEFINE Worth(t) == t.fresh \/ ~sessions'[t.session].revoked
                       => StampNext(sessions'[t.session].owner, t.version, t.fresh)
<1>4. ASSUME NEW t \in tokens
      PROVE  Worth(t)
  <2>1. t.session \in Sessions
    BY DEF Types
  <2> QED
    BY <1>1, <1>2, <2>1 DEF Freshness, Live
<1>5. ASSUME NEW r \in Requests, LoginCommit(r)
      PROVE  Worth(LoginToken(r))
  <2> DEFINE q == requests[r]
             n == Len(sessions) + 1
  <2>1. StampNext(q.who, q.mine.version, q.fresh)
    BY <1>1, <1>3, <1>5 DEF LoginCommit, Carries, UnderWay, Version
  <2>2. sessions'[n].owner = q.who
    <3>1. PICK S : Unlocked(S) /\ sessions' = Append(Revoked(S), NewSession(q.who))
      BY <1>5 DEF LoginCommit
    <3>2. sessions'[n] = NewSession(q.who)
      BY <1>3, <3>1, SessionAdded DEF Unlocked
    <3> QED
      BY <3>2 DEF NewSession
  <2> QED
    BY <2>1, <2>2 DEF LoginToken
<1>6. ASSUME NEW r \in Requests, RefreshCommit(r)
      PROVE  Worth(RotatedToken(r))
  <2> DEFINE q == requests[r]
  <2>1. q.pc = "rotating" /\ q.session \in Sessions
    BY <1>6 DEF RefreshCommit, Types, RequestType
  <2>2. StampNext(q.who, q.mine.version, q.fresh) /\ q.who = sessions'[q.session].owner
    BY <1>1, <1>2, <1>3, <2>1 DEF Carries, UnderWay, Version
  <2> QED
    BY <2>2 DEF RotatedToken
<1>7. \A t \in tokens' : Worth(t)
  BY <1>4, <1>5, <1>6 DEF Quiet
<1>8. ASSUME NEW r \in Requests, requests'[r] = requests[r]
      PROVE  LET q == requests'[r] IN
             /\ UnderWay(q, q.who) => StampNext(q.who, Version(q), q.fresh)
             /\ q.pc = "rotating" => q.who = sessions'[q.session].owner
             /\ Seen(requests[r])'
  <2> DEFINE q == requests[r]
  <2>1. q.pc = "rotating" => q.session \in Sessions
    BY DEF Types, RequestType
  <2>2. q.who \in Employees /\ q.target \in Employees
    BY <1>3 DEF Request
  <2>3. Seen(requests[r])'
    BY <1>3, <1>8, <2>2 DEF Seen, Quiet, StampsKept, SameStamp
  <2> QED
    BY <1>1, <1>2, <1>3, <1>8, <2>1, <2>2, <2>3 DEF Carries
<1>9. ASSUME NEW r \in Requests, Turns(r)
      PROVE  LET q == requests'[r] IN
             /\ UnderWay(q, q.who) => StampNext(q.who, Version(q), q.fresh)
             /\ q.pc = "rotating" => q.who = sessions'[q.session].owner
  <2> DEFINE p == requests[r]
             q == requests'[r]
             Goal == /\ UnderWay(q, q.who) => StampNext(q.who, Version(q), q.fresh)
                     /\ q.pc = "rotating" => q.who = sessions'[q.session].owner
  <2>0. p \in Request /\ q \in Request
    BY <1>3, RequestStep DEF RequestsMove
  <2>1. CASE Plain(q)
    <3>1. q.who \in Employees
      BY <2>0 DEF Request
    <3>2. q.pc = "verified" => Stamp(q.who, q.mine.version, q.fresh)
      BY <2>1 DEF Plain, Stamp
    <3> QED
      BY <1>1, <2>1, <3>1, <3>2 DEF Plain, UnderWay, Version
  <2>2. ASSUME LoginFlush(r), q = Counted(p)
        PROVE  Goal
    <3>1. /\ q.pc = "flushed" /\ q.who = p.who /\ q.mine = p.mine /\ q.fresh = p.fresh
          /\ p.pc = "verified"
      <4>1. p.pc = "verified"
        BY <2>2 DEF LoginFlush
      <4> HIDE DEF p, q
      <4> QED
        BY <2>0, <2>2, <4>1 DEF Counted, Request
    <3>2. Stamp(p.who, p.mine.version, p.fresh)
      <4>1. UnderWay(p, p.who) /\ Version(p) = p.mine.version
        BY <3>1 DEF UnderWay, Version
      <4> QED
        BY <1>3, <4>1 DEF Carries
    <3>3. StampNext(p.who, p.mine.version, p.fresh)
      BY <1>1, <1>3, <3>2
    <3>4. Version(q) = p.mine.version
      BY <3>1 DEF Version
    <3> QED
      BY <3>1, <3>3, <3>4
  <2>3. ASSUME NEW s \in Sessions, NEW k \in Nat, Locking(r, s, k), q = Rotating(s, k)
        PROVE  Goal
    <3>1. /\ q.pc = "rotating" /\ q.who = sessions[s].owner /\ q.session = s /\ q.fresh
          /\ q.mine = employees[sessions[s].owner]
      <4> HIDE DEF Idle, q
      <4> QED
        BY <2>3, IdleType DEF Rotating, Request
    <3>2. Stamp(sessions[s].owner, employees[sessions[s].owner].version, TRUE)
      BY <2>3 DEF Locking, RunOut, Stamp
    <3> QED
      BY <1>1, <1>2, <3>1, <3>2 DEF Version
  <2>4. ASSUME NEW t \in tokens, Authenticate(r, t), q = Presents(t)
        PROVE  Goal
    <3>1. /\ q.pc = "session" /\ q.who = sessions[t.session].owner
          /\ q.version = t.version /\ q.fresh = t.fresh
      <4> HIDE DEF Idle, q
      <4> QED
        BY <2>4, IdleType DEF Presents, Request
    <3>2. t.session \in Sessions /\ Live(t.session)
      BY <2>4 DEF Types, Authenticate
    <3> QED
      BY <1>1, <1>2, <3>1, <3>2 DEF Version, Freshness
  <2>5. CASE q = LetThrough(p)
    BY <1>3, <2>5 DEF LetThrough, Request, UnderWay
  <2>6. CASE Loads(r, q)
    BY <2>6 DEF Loads, UnderWay
  <2> HIDE DEF q
  <2> QED
    BY <1>9, <2>1, <2>2, <2>3, <2>4, <2>5, <2>6 DEF Turns, q
<1>10. ASSUME NEW r \in Requests, Turns(r)
       PROVE  Seen(requests[r])'
  BY <1>10, SeenNext DEF Quiet
<1> QED
  BY <1>7, <1>8, <1>9, <1>10, FreshNext DEF Quiet, Calm

\* What the change leaves of a token or a request: of another account it is what
\* it was, of this one it is not fresh any more, and either the version has moved
\* on or it has ended.
LEMMA StampChange ==
    ASSUME Types, NEW e \in Employees, Changes(e), NEW d \in Employees, NEW v \in Nat,
           NEW f, NEW g, Stamp(d, v, f), d # e => f = g, d = e => ~g
    PROVE  StampNext(d, v, g) \/ (d = e /\ Ended(e))
<1>1. CASE d # e
  BY <1>1 DEF Changes, Stamp, StampNext
<1>2. CASE d = e
  <2>1. ~g /\ employees'[e].status # "NONE" /\ (e \in blurred => e \in blurred')
    BY <1>2 DEF Changes, Stamp
  <2>2. CASE e \in blurred'
    BY <1>2, <2>1, <2>2 DEF StampNext
  <2>3. CASE e \notin blurred'
    <3>1. /\ employees[e].version \in Nat
          /\ f => v = employees[e].version /\ employees[e].status = "ACTIVE"
          /\ ~f => v < employees[e].version
      BY <1>2, <2>1, <2>3 DEF Types, Employee, Stamp
    <3>2. CASE employees'[e].version = employees[e].version + 1
      BY <1>2, <2>1, <3>1, <3>2 DEF StampNext
    <3>3. CASE employees'[e].version = employees[e].version /\ employees[e].status # "ACTIVE"
      BY <1>2, <2>1, <3>1, <3>3 DEF StampNext
    <3>4. employees[e].status # "NONE"
      BY <1>2 DEF Stamp
    <3> QED
      BY <1>2, <2>3, <3>2, <3>3, <3>4 DEF Changes
  <2> QED
    BY <2>2, <2>3
<1> QED
  BY <1>1, <1>2

LEMMA ChangeIsFresh ==
    ASSUME Types, Rotation, Freshness, [Next]_vars, NEW e \in Employees, Changes(e)
    PROVE  Freshness'
<1>1. \A s \in Sessions : /\ sessions[s].owner \in Employees
                          /\ sessions'[s].owner = sessions[s].owner
                          /\ sessions[s].revoked => sessions'[s].revoked
  BY SessionsOwned
<1>2. \A t \in tokens : t \in Token /\ t.session \in Sessions
  BY DEF Types
<1>3. \A d \in Employees : (\E v, f : Stamp(d, v, f)) => employees[d].status # "NONE"
  BY DEF Stamp
<1>4. ASSUME NEW u \in tokens', u.fresh \/ ~sessions'[u.session].revoked
      PROVE  StampNext(sessions'[u.session].owner, u.version, u.fresh)
  <2>1. PICK t \in tokens : /\ u.session = t.session /\ u.version = t.version
                            /\ t.session \notin Of(e) => u.fresh = t.fresh
                            /\ tokens' = Outdated(e) /\ t.session \in Of(e) => ~u.fresh
                            /\ u.fresh => t.fresh
    <3>1. CASE tokens' = Outdated(e)
      <4>1. PICK t \in tokens : u = [t EXCEPT !.fresh = t.fresh /\ t.session \notin Of(e)]
        BY <3>1 DEF Outdated
      <4>2. /\ u.session = t.session /\ u.version = t.version
            /\ u.fresh = (t.fresh /\ t.session \notin Of(e))
        BY <1>2, <4>1 DEF Token
      <4> QED
        BY <1>2, <4>2 DEF Token
    <3>2. CASE tokens' # Outdated(e)
      BY <3>2 DEF Changes
    <3> QED
      BY <3>1, <3>2
  <2>2. PICK s \in Sessions : s = t.session
    BY <1>2
  <2>3. PICK d \in Employees : d = sessions[s].owner
    BY <1>1
  <2>4. sessions'[s].owner = d /\ (s \in Of(e) <=> d = e)
    BY <1>1, <2>2, <2>3 DEF Of
  <2>5. t.fresh \/ ~sessions[s].revoked
    BY <1>1, <1>4, <2>1, <2>2
  <2>6. Stamp(d, t.version, t.fresh)
    BY <2>2, <2>3, <2>5 DEF Freshness, Live
  <2>7. d = e => ~u.fresh
    BY <2>1, <2>2, <2>4, <2>6 DEF Changes, Stamp
  <2>8. StampNext(d, u.version, u.fresh) \/ (d = e /\ Ended(e))
    <3>1. t.version \in Nat /\ (d # e => t.fresh = u.fresh)
      BY <1>2, <2>1, <2>2, <2>4 DEF Token
    <3> QED
      BY <2>1, <2>6, <2>7, <3>1, StampChange
  <2>9. ~(d = e /\ Ended(e))
    BY <1>4, <2>1, <2>2, <2>4, <2>7 DEF Ended
  <2> QED
    BY <2>1, <2>2, <2>4, <2>8, <2>9
<1>5. ASSUME NEW r \in Requests
      PROVE  LET q == requests'[r] IN
             /\ UnderWay(q, q.who) => StampNext(q.who, Version(q), q.fresh)
             /\ q.pc = "rotating" => q.who = sessions'[q.session].owner
             /\ Seen(requests[r])'
  <2> DEFINE p == requests[r]
             q == requests'[r]
  <2>1. p \in Request /\ Carries(p) /\ Seen(p)
    BY DEF Types, Freshness
  <2>2. CASE q = Idle
    BY <2>2, IdleType DEF UnderWay, Seen
  <2>3. CASE /\ Follows(p, q) /\ q.fresh = (p.fresh /\ ~UnderWay(p, e))
             /\ p.pc \in {"in", "loaded", "signing"} => e \in q.missed
    <3>1. /\ q.pc = p.pc /\ q.op = p.op /\ q.who = p.who /\ q.session = p.session
          /\ q.version = p.version /\ q.mine = p.mine /\ q.target = p.target
          /\ q.loaded = p.loaded /\ q.new = p.new /\ p.missed \subseteq q.missed
      <4> HIDE DEF p, q
      <4> QED
        BY <2>1, <2>3 DEF Follows, Request
    <3>2. PICK d \in Employees, w \in Employees : d = p.who /\ w = p.target
      BY <2>1 DEF Request
    <3>3. UnderWay(q, d) => StampNext(d, Version(q), q.fresh)
      <4> SUFFICES ASSUME UnderWay(q, d)
                   PROVE  StampNext(d, Version(q), q.fresh)
        OBVIOUS
      <4>1. UnderWay(p, d) /\ Version(q) = Version(p)
        BY <3>1, <3>2 DEF UnderWay, Version
      <4>2. Version(p) \in Nat
        BY <2>1 DEF Version, Request, Employee
      <4>3. Stamp(d, Version(p), p.fresh)
        BY <2>1, <3>2, <4>1 DEF Carries
      <4>4. (d = e => ~q.fresh) /\ (d # e => p.fresh = q.fresh)
        BY <2>1, <2>3, <3>2, <4>1 DEF UnderWay, Request
      <4>5. ~(d = e /\ Ended(e))
        BY <4>1 DEF Ended
      <4> QED
        BY <4>1, <4>2, <4>3, <4>4, <4>5, StampChange
    <3>4. q.pc = "rotating" => q.who = sessions'[q.session].owner
      BY <1>1, <2>1, <3>1 DEF Carries, Types, RequestType
    <3>5. \A x \in Employees : x # e => employees'[x] = employees[x]
      BY DEF Changes
    <3>6. q.pc = "in" /\ d \notin q.missed => SameStamp(q.mine, employees'[d])
      BY <2>1, <2>3, <3>1, <3>2, <3>5 DEF Seen
    <3>7. q.pc \in {"loaded", "signing"} /\ w \notin q.missed => SameStamp(q.loaded, employees'[w])
      BY <2>1, <2>3, <3>1, <3>2, <3>5 DEF Seen
    <3>8. Seen(requests[r])'
      BY <2>1, <3>1, <3>2, <3>6, <3>7 DEF Seen
    <3> QED
      BY <3>1, <3>2, <3>3, <3>4, <3>8
  <2> QED
    BY <2>2, <2>3 DEF Changes, Overtakes
<1> QED
  BY <1>4, <1>5, FreshNext

LEMMA FreshnessStep ==
    ASSUME Types, Rotation, Freshness, Management, [Next]_vars
    PROVE  Freshness'
BY StampStep, QuietIsFresh, ChangeIsFresh

\* A request that is let in has the version the account has now, so its token is
\* fresh unless the account is blurred.
LEMMA LetInFresh ==
    ASSUME Types, Freshness, [Next]_vars, NEW r \in Requests,
           requests[r].pc = "session", requests'[r].pc = "in"
    PROVE  requests[r].fresh \/ requests[r].who \in blurred
<1> DEFINE p == requests[r]
           q == requests'[r]
<1>1. p \in Request /\ RequestMoves(r)
  BY RequestStep DEF Types, RequestsMove
<1>2. ~Follows(p, q)
  <2> HIDE DEF p, q
  <2> QED
    BY <1>1 DEF Follows, Request, p, q
<1>3. q # Counted(p)
  <2> HIDE DEF p, q
  <2> QED
    BY <1>1 DEF Counted, Request, q
<1>4. \A s, k : q # Rotating(s, k)
  BY IdleType DEF Rotating, Request
<1>5. \A t : q # Presents(t)
  BY IdleType DEF Presents, Request
<1>6. Authorise(r)
  BY <1>1, <1>2, <1>3, <1>4, <1>5 DEF RequestMoves, Turns, Plain, Loads
<1>7. employees[p.who].version = p.version
  <2>1. ~Ends(r)
    BY IdleType DEF Ends, Types
  <2> QED
    BY <1>6, <2>1 DEF Authorise
<1>8. Stamp(p.who, p.version, p.fresh)
  BY DEF Freshness, Carries, UnderWay, Version
<1>9. p.version \in Nat /\ p.fresh \in BOOLEAN
  BY <1>1 DEF Request
<1> HIDE DEF p
<1> QED
  BY <1>7, <1>8, <1>9 DEF Stamp, p

(***************************************************************************)
(* The limit of the sessions                                               *)
(***************************************************************************)

LEMMA LeastOf ==
    ASSUME NEW S, S \subseteq Nat, S # {}
    PROVE  \E m \in S : \A k \in S : m <= k
<1> DEFINE R == OpToRel(<, Nat)
<1>1. PICK m \in S : \A k \in S : <<k, m>> \notin R
  <2>1. IsWellFoundedOn(R, Nat)
    BY NatLessThanWellFounded
  <2> HIDE DEF R
  <2> QED
    BY <2>1, WFMin
<1>2. \A k \in S : ~(k < m)
  BY <1>1 DEF OpToRel
<1> QED
  BY <1>2

\* Without the excess there is room for one more session.
LEMMA ExcessLeavesRoom ==
    ASSUME NEW S, S \subseteq Nat, IsFiniteSet(S)
    PROVE  /\ IsFiniteSet(S \ Excess(S))
           /\ Cardinality(S \ Excess(S)) <= MaxActive - 1
<1> DEFINE K == S \ Excess(S)
           n == Cardinality(S)
           Upto(m) == {t \in S : t <= m}
<1>1. MaxActive \in Nat \ {0}
  BY AccountBounds DEF AccountBounds
<1>2. n \in Nat /\ IsFiniteSet(K)
  BY FS_CardinalityType, FS_Difference
<1>3. CASE K = {}
  BY <1>1, <1>3, FS_EmptySet
<1>4. CASE K # {}
  <2>1. K \subseteq Nat /\ K \subseteq S
    OBVIOUS
  <2>2. PICK m \in K : \A k \in K : m <= k
    <3> HIDE DEF K
    <3> QED
      BY <1>4, <2>1, LeastOf
  <2> DEFINE U == Upto(m)
             c == Cardinality(U)
  <2>3. IsFiniteSet(U) /\ c \in Nat
    <3>1. U \in SUBSET S
      OBVIOUS
    <3>2. IsFiniteSet(U)
      BY <3>1, FS_Subset
    <3> QED
      BY <3>2, FS_CardinalityType
  <2>4. c > n - MaxActive + 1
    <3>1. m \in S /\ m \notin Excess(S)
      OBVIOUS
    <3>2. ~(c <= n - MaxActive + 1)
      BY <3>1 DEF Excess
    <3> QED
      BY <1>1, <1>2, <2>3, <3>2
  <2>5. IsFiniteSet(S \ U) /\ Cardinality(S \ U) = n - c
    <3>1. S \cap U = U
      OBVIOUS
    <3> HIDE DEF U
    <3> QED
      BY <3>1, FS_Difference
  <2>6. K \subseteq (S \ U) \cup {m}
    BY <2>1, <2>2
  <2>7. /\ IsFiniteSet((S \ U) \cup {m})
        /\ Cardinality((S \ U) \cup {m}) <= n - c + 1
    <3> DEFINE D == S \ U
    <3>1. IsFiniteSet(D) /\ Cardinality(D) = n - c
      BY <2>5
    <3> HIDE DEF D, c, n
    <3>2. /\ IsFiniteSet(D \cup {m})
          /\ Cardinality(D \cup {m}) = IF m \in D THEN Cardinality(D) ELSE Cardinality(D) + 1
      BY <3>1, FS_AddElement
    <3>3. Cardinality(D \cup {m}) <= n - c + 1
      BY <1>2, <2>3, <3>1, <3>2
    <3> QED
      BY <3>2, <3>3 DEF D
  <2>8. Cardinality(K) <= Cardinality((S \ U) \cup {m})
    <3> HIDE DEF K, U
    <3> QED
      BY <2>6, <2>7, FS_Subset
  <2>9. Cardinality(K) \in Nat /\ Cardinality((S \ U) \cup {m}) \in Nat
    <3> HIDE DEF K, U
    <3> QED
      BY <1>2, <2>7, FS_CardinalityType
  <2> HIDE DEF K, U, c, n
  <2> QED
    BY <1>1, <1>2, <2>3, <2>4, <2>7, <2>8, <2>9 DEF K
<1> QED
  BY <1>2, <1>3, <1>4
LEMMA UsableIsFinite ==
    ASSUME Types, NEW e
    PROVE  IsFiniteSet(Usable(e)) /\ Usable(e) \subseteq Sessions /\ IsFiniteSet(Sessions)
<1>1. Len(sessions) \in Nat /\ Sessions = 1 .. Len(sessions)
  BY SessionRows
<1>2. IsFiniteSet(Sessions)
  BY <1>1, FS_Interval
<1>3. Usable(e) \in SUBSET Sessions
  BY DEF Usable, Of
<1> QED
  BY <1>2, <1>3, FS_Subset

LEMMA UsableKept ==
    ASSUME Types, SessionsKept, NEW e, NEW s \in Usable(e)', s \in Sessions
    PROVE  s \in Usable(e) /\ ~sessions'[s].revoked
BY DEF Usable, Of, Live, SessionsKept, SameSession

\* Only a login adds to the sessions somebody can use.
LEMMA UsableShrinks ==
    ASSUME Types, Rotation, [Next]_vars, \A r \in Requests : ~LoginCommit(r), NEW e
    PROVE  Usable(e)' \subseteq Usable(e)
<1>1. SessionMoves
  BY SessionStep
<1>2. CASE SessionsKept /\ Sessions' = Sessions
  BY <1>2, UsableKept DEF Usable, Of
<1>3. ASSUME NEW s \in Sessions, Sessions' = Sessions,
             sessions'[s].owner = sessions[s].owner, sessions'[s].expired = sessions[s].expired,
             sessions'[s].revoked = sessions[s].revoked,
             \A t \in Sessions \ {s} : sessions'[t] = sessions[t]
      PROVE  Usable(e)' \subseteq Usable(e)
  BY <1>3 DEF Usable, Of, Live
<1>4. \A s \in Sessions : sessions[s] \in LoginSession
  BY SessionRows
<1>5. ASSUME NEW r \in Requests, RefreshCommit(r)
      PROVE  Usable(e)' \subseteq Usable(e)
  <2> DEFINE s == requests[r].session
  <2>1. /\ s \in Sessions /\ Sessions' = Sessions
        /\ sessions'[s] = [sessions[s] EXCEPT !.refresh = requests[r].version + 1,
                  !.redeemed = sessions[s].redeemed + 1, !.lock = FALSE]
        /\ \A t \in Sessions \ {s} : sessions'[t] = sessions[t]
    BY <1>5, SessionRotated
  <2>2. /\ sessions'[s].owner = sessions[s].owner
        /\ sessions'[s].expired = sessions[s].expired
        /\ sessions'[s].revoked = sessions[s].revoked
    BY <1>4, <2>1 DEF LoginSession
  <2> HIDE DEF s
  <2> QED
    BY <1>3, <2>1, <2>2
<1>6. ASSUME NEW r \in Requests, NEW s \in Sessions, NEW k \in Nat, Locking(r, s, k)
      PROVE  Usable(e)' \subseteq Usable(e)
  <2>1. /\ Sessions' = Sessions
        /\ sessions'[s] = [sessions[s] EXCEPT !.lock = TRUE]
        /\ \A t \in Sessions \ {s} : sessions'[t] = sessions[t]
    BY <1>6, SessionLocked
  <2> QED
    BY <1>3, <1>4, <2>1 DEF LoginSession
<1> QED
  BY <1>1, <1>2, <1>5, <1>6 DEF SessionMoves

LEMMA CountedBefore ==
    ASSUME Types, NEW r \in Requests, RequestMoves(r), requests'[r].pc = "flushed"
    PROVE  \/ /\ requests[r].pc = "flushed"
              /\ requests'[r].who = requests[r].who
              /\ requests'[r].seen = requests[r].seen
           \/ LoginFlush(r) /\ requests'[r] = Counted(requests[r])
<1> DEFINE p == requests[r]
           q == requests'[r]
<1>1. p \in Request
  BY DEF Types
<1> HIDE DEF p, q
<1>2. CASE Follows(p, q)
  BY <1>1, <1>2 DEF Follows, Request, p, q
<1>3. CASE q = LetThrough(p)
  BY <1>1, <1>3 DEF LetThrough, Request, q
<1>4. ASSUME NEW t \in tokens, q = Presents(t)
      PROVE  FALSE
  BY <1>4, IdleType DEF Presents, Request, q
<1>5. ASSUME NEW s, NEW k, q = Rotating(s, k)
      PROVE  FALSE
  BY <1>5, IdleType DEF Rotating, Request, q
<1> QED
  BY <1>2, <1>3, <1>4, <1>5 DEF RequestMoves, Turns, Plain, Loads, p, q

LEMMA LimitKept ==
    ASSUME Types, SessionLimit, NEW e \in Employees, Usable(e)' \subseteq Usable(e)
    PROVE  Cardinality(Usable(e)') <= MaxActive
<1> DEFINE U == Usable(e)
           V == Usable(e)'
<1>1. IsFiniteSet(U) /\ V \in SUBSET U
  BY UsableIsFinite
<1>2. Cardinality(U) <= MaxActive /\ MaxActive \in Nat
  BY AccountBounds DEF SessionLimit, AccountBounds
<1> HIDE DEF U, V
<1>3. IsFiniteSet(V) /\ Cardinality(V) <= Cardinality(U)
  BY <1>1, FS_Subset
<1>4. Cardinality(U) \in Nat /\ Cardinality(V) \in Nat
  BY <1>1, <1>3, FS_CardinalityType
<1> QED
  BY <1>2, <1>3, <1>4 DEF V

LEMMA CountsNext ==
    ASSUME NEW o, NEW e, requests'[o].who = e, locks'[e], Usable(e)' \subseteq requests'[o].seen
    PROVE  Counts(requests[o])'
BY DEF Counts, Usable, Of, Live

LEMMA CountingStep ==
    ASSUME Types, Rotation, Counting, [Next]_vars
    PROVE  Counting'
<1>1. SessionMoves
  BY SessionStep
<1>2. /\ requests \in [Requests -> Request] /\ requests' \in [Requests -> Request]
      /\ \A r \in Requests : RequestMoves(r)
  BY RequestStep DEF RequestsMove, Types
<1>3. LocksMove
  BY TokenStep
<1>4. locks \in [Employees -> BOOLEAN] /\ \A r \in Requests : requests[r].who \in Employees
  BY DEF Types, Request
<1> DEFINE Was(r) == /\ requests[r].pc = "flushed"
                     /\ requests'[r].who = requests[r].who
                     /\ requests'[r].seen = requests[r].seen
<1>5. ASSUME NEW r \in Requests, LoginCommit(r)
      PROVE  Counting'
  <2>0. PICK w \in Employees : w = requests[r].who
    BY <1>4
  <2> DEFINE seen == requests[r].seen
             n == Len(sessions) + 1
  <2>1. /\ requests[r].pc = "flushed" /\ requests' = [requests EXCEPT ![r] = Idle]
        /\ locks' = [locks EXCEPT ![w] = FALSE]
    BY <1>5, <2>0 DEF LoginCommit, Ends
  <2>2. PICK closed : /\ Excess(seen) \subseteq closed /\ Unlocked(closed)
                      /\ sessions' = Append(Revoked(closed), NewSession(w))
    BY <1>5, <2>0 DEF LoginCommit
  <2>3. /\ SessionsKept
        /\ n \in Sessions' /\ Sessions' = Sessions \cup {n}
        /\ sessions'[n] = NewSession(w)
        /\ \A s \in closed \cap Sessions : sessions'[s].revoked
    BY <1>4, <2>2, SessionAdded DEF Unlocked
  <2>4. Usable(w) \subseteq seen /\ seen \subseteq Sessions
    BY <2>0, <2>1 DEF Counting, Counts, Types, RequestType
  <2>5. \A o \in Requests : requests'[o].pc = "flushed" =>
          /\ o # r /\ requests'[o] = requests[o] /\ requests[o].who # w
    BY <1>2, <2>0, <2>1, IdleType DEF Counting
  <2>6. ASSUME NEW e \in Employees, e # w
        PROVE  Usable(e)' \subseteq Usable(e)
    <3>1. ASSUME NEW s \in Usable(e)'
          PROVE  s \in Sessions
      BY <2>3, <2>6, <3>1 DEF Usable, Of, NewSession
    <3> QED
      BY <2>3, <3>1, UsableKept
  <2>7. Usable(w)' \subseteq (seen \ Excess(seen)) \cup {n}
    <3>1. ASSUME NEW s \in Usable(w)', s # n
          PROVE  s \in seen /\ s \notin Excess(seen)
      <4>1. s \in Sessions
        BY <2>3, <3>1 DEF Usable, Of
      <4>2. s \in Usable(w) /\ ~sessions'[s].revoked
        BY <2>3, <4>1, UsableKept
      <4> QED
        BY <2>2, <2>3, <2>4, <4>1, <4>2
    <3> QED
      BY <3>1
  <2>8. Cardinality(Usable(w)') <= MaxActive
    <3> DEFINE K == seen \ Excess(seen)
               V == Usable(w)'
    <3>1. seen \subseteq Nat /\ IsFiniteSet(seen)
      <4>1. IsFiniteSet(Sessions) /\ seen \in SUBSET Sessions
        BY <2>4, UsableIsFinite
      <4> QED
        BY <4>1, FS_Subset, SessionRows
    <3>2. IsFiniteSet(K) /\ Cardinality(K) <= MaxActive - 1
      BY <3>1, ExcessLeavesRoom
    <3>3. V \in SUBSET (K \cup {n})
      BY <2>7
    <3>4. MaxActive \in Nat
      BY AccountBounds DEF AccountBounds
    <3> HIDE DEF K, V, n
    <3>5. /\ IsFiniteSet(K \cup {n})
          /\ Cardinality(K \cup {n}) = IF n \in K THEN Cardinality(K) ELSE Cardinality(K) + 1
      BY <3>2, FS_AddElement
    <3>6. IsFiniteSet(V) /\ Cardinality(V) <= Cardinality(K \cup {n})
      BY <3>3, <3>5, FS_Subset
    <3>7. Cardinality(K) \in Nat /\ Cardinality(V) \in Nat /\ Cardinality(K \cup {n}) \in Nat
      BY <3>2, <3>5, <3>6, FS_CardinalityType
    <3>8. Cardinality(V) <= MaxActive
      BY <3>2, <3>4, <3>5, <3>6, <3>7
    <3> QED
      BY <3>8 DEF V
  <2>9. SessionLimit'
    <3>1. \A e \in Employees : e # w => Cardinality(Usable(e)') <= MaxActive
      BY <2>6, LimitKept DEF Counting
    <3> QED
      BY <2>8, <3>1 DEF SessionLimit
  <2>10. ASSUME NEW o \in Requests
         PROVE  Counts(requests[o])'
    <3> SUFFICES ASSUME requests'[o].pc = "flushed"
                 PROVE  Counts(requests[o])'
      BY DEF Counts
    <3>1. requests'[o] = requests[o] /\ requests[o].who # w
      BY <2>5
    <3>2. PICK e \in Employees : e = requests[o].who
      BY <1>4
    <3>3. locks[e] /\ Usable(e) \subseteq requests[o].seen
      BY <3>1, <3>2 DEF Counting, Counts
    <3>4. Usable(e)' \subseteq Usable(e) /\ locks'[e]
      BY <1>4, <2>1, <2>6, <3>1, <3>2, <3>3
    <3> QED
      BY <3>1, <3>2, <3>3, <3>4, CountsNext
  <2> QED
    BY <2>5, <2>9, <2>10 DEF Counting
<1>6. CASE \A r \in Requests : ~LoginCommit(r)
  <2>1. \A e : Usable(e)' \subseteq Usable(e)
    BY <1>6, UsableShrinks
  <2>2. SessionLimit'
    BY <2>1, LimitKept DEF Counting, SessionLimit
  <2>3. ASSUME NEW r \in Requests, LoginFlush(r)
        PROVE  Counting'
    <3>0. PICK w \in Employees : w = requests[r].who
      BY <1>4
    <3>1. /\ requests' = [requests EXCEPT ![r].pc = "flushed", ![r].seen = Usable(w)]
          /\ ~locks[w] /\ locks' = [locks EXCEPT ![w] = TRUE] /\ UNCHANGED sessions
      BY <2>3, <3>0 DEF LoginFlush
    <3>2. requests[r] \in Request
      BY DEF Types
    <3>3. /\ requests'[r].pc = "flushed" /\ requests'[r].who = w /\ requests'[r].seen = Usable(w)
          /\ \A o \in Requests \ {r} : requests'[o] = requests[o]
      BY <1>2, <3>0, <3>1, <3>2 DEF Request
    <3>4. \A o \in Requests \ {r} : requests'[o].pc = "flushed" =>
            locks[requests[o].who] /\ requests[o].who # w
            /\ Usable(requests[o].who) \subseteq requests[o].seen
      BY <3>1, <3>3 DEF Counting, Counts
    <3>5. \A e : Usable(e)' = Usable(e)
      BY <3>1 DEF Usable, Of, Live, Sessions
    <3>6. ASSUME NEW o \in Requests, requests'[o].pc = "flushed"
          PROVE  Counts(requests[o])'
      <4>1. CASE o = r
        <5>1. locks'[w] /\ Usable(w)' = Usable(w)
          BY <1>4, <3>1, <3>5
        <5> QED
          BY <3>3, <4>1, <5>1, CountsNext
      <4>2. CASE o # r
        <5>1. PICK e \in Employees : e = requests[o].who
          BY <1>4
        <5>2. requests'[o] = requests[o] /\ locks[e] /\ Usable(e) \subseteq requests[o].seen
          BY <3>3, <3>4, <3>6, <4>2, <5>1
        <5>3. locks'[e] /\ Usable(e)' = Usable(e)
          BY <1>4, <3>1, <3>5, <5>2
        <5> QED
          BY <5>1, <5>2, <5>3, CountsNext
      <4> QED
        BY <4>1, <4>2
    <3>7. \A o \in Requests : Counts(requests[o])'
      BY <3>6 DEF Counts
    <3> QED
      BY <2>2, <3>3, <3>4, <3>7 DEF Counting
  <2>4. ASSUME \A r \in Requests : ~LoginFlush(r)
        PROVE  Counting'
    <3>1. UNCHANGED locks
      BY <1>3, <1>6, <2>4 DEF LocksMove
    <3>2. \A o \in Requests : requests'[o].pc = "flushed" => Was(o)
      BY <1>2, <2>4, CountedBefore
    <3>3. ASSUME NEW o \in Requests
          PROVE  Counts(requests[o])'
      <4> SUFFICES ASSUME requests'[o].pc = "flushed"
                   PROVE  Counts(requests[o])'
        BY DEF Counts
      <4>1. Was(o)
        BY <3>2
      <4>2. PICK e \in Employees : e = requests[o].who
        BY <1>4
      <4>3. locks[e] /\ Usable(e) \subseteq requests[o].seen
        BY <4>1, <4>2 DEF Counting, Counts
      <4>4. Usable(e)' \subseteq Usable(e)
        BY <2>1
      <4> QED
        BY <3>1, <4>1, <4>2, <4>3, <4>4, CountsNext
    <3> QED
      BY <2>2, <3>2, <3>3 DEF Counting
  <2> QED
    BY <2>3, <2>4
<1> QED
  BY <1>5, <1>6
(***************************************************************************)
(* The management                                                          *)
(***************************************************************************)

LEMMA OthersKept ==
    ASSUME AccountsKept, NEW x
    PROVE  OtherHolders(x)' = OtherHolders(x)
BY DEF AccountsKept, Alike, OtherHolders

\* What the checks admit leaves somebody with the management.
LEMMA AllowedLeavesHolder ==
    ASSUME NEW op \in AdminOp \ {"revoke_session"}, NEW self, NEW e \in Employee,
           NEW new \in Outcomes(op, e), NEW x, Allowed(op, self, e, new, x)
    PROVE  Holds(new) \/ ~Holds(e) \/ OtherHolders(x) # {}
<1> DEFINE b == Bumped(e)
<1>1. b \in Employee /\ b.status = e.status /\ b.manage = e.manage
  BY BumpedType
<1> HIDE DEF b
<1>2. CASE op = "status"
  <2>1. PICK v \in NewStatuses : new = IF v = "ACTIVE"
            THEN [b EXCEPT !.status = v, !.locked = FALSE, !.failures = 0]
            ELSE [b EXCEPT !.status = v]
    BY <1>2 DEF Outcomes, b
  <2>2. new.manage = e.manage
    BY <1>1, <2>1 DEF Employee
  <2> QED
    BY <1>2, <2>2 DEF Allowed, Holds
<1>3. CASE op = "permissions"
  <2>1. PICK m \in BOOLEAN : new = [b EXCEPT !.manage = m]
    BY <1>3 DEF Outcomes, b
  <2>2. new.status = e.status
    BY <1>1, <2>1 DEF Employee
  <2> QED
    BY <1>3, <2>2 DEF Allowed, Holds
<1>4. CASE op = "role"
  <2>1. PICK y \in Role : new = [b EXCEPT !.role = y, !.manage = RoleManages(y)]
    BY <1>4 DEF Outcomes, b
  <2>2. new.status = e.status
    BY <1>1, <2>1 DEF Employee
  <2> QED
    BY <1>4, <2>2 DEF Allowed, Holds
<1>5. CASE op = "reset"
  <2>1. new = [b EXCEPT !.must = TRUE]
    BY <1>5 DEF Outcomes, b
  <2> QED
    BY <1>1, <2>1 DEF Employee, Holds
<1>6. CASE op \in {"approve", "reject", "create"}
  BY <1>6 DEF Allowed, Holds
<1> QED
  BY <1>2, <1>3, <1>4, <1>5, <1>6 DEF AdminOp

LEMMA LoadedIsClean ==
    ASSUME Types, Management, NEW r \in Requests, Loads(r, requests'[r])
    PROVE  /\ Clean(requests[r])'
           /\ requests'[r].pc = "signing" => requests'[r].loaded.status \in {"NONE", "REJECTED"}
<1> DEFINE p == requests[r]
           q == requests'[r]
<1>1. p \in Request /\ \A e \in Employees : employees[e] \in Employee
  BY DEF Types, Request
<1>2. ASSUME NEW x \in Employees, NEW e \in Employee, q.target = x, q.loaded = e,
             q.pc \in {"loaded", "signing"}, UNCHANGED employees,
             q.missed = {} => Alike(e, employees[x]),
             Holds(q.new) \/ ~Holds(e) \/ OtherHolders(x) # {}
      PROVE  Clean(requests[r])'
  BY <1>2 DEF Clean, OtherHolders
<1>3. ASSUME NEW x \in Employees, TargetRead(r, x)
      PROVE  Clean(requests[r])' /\ q.pc = "loaded"
  <2> DEFINE self == x = p.who
             e == IF self THEN p.mine ELSE employees[x]
  <2>1. ~Ends(r)
    <3>1. requests \in [Requests -> Request]
      BY DEF Types
    <3> QED
      BY <3>1, IdleType DEF Ends, Loads
  <2>2. /\ p.pc = "in" /\ q.pc = "loaded" /\ q.target = x /\ q.loaded = e
        /\ q.missed = IF self THEN p.missed ELSE {}
        /\ \E op \in AdminOp \ {"revoke_session"} :
              q.new \in Outcomes(op, e) /\ Allowed(op, self, e, q.new, x)
    BY <1>3, <2>1, Reads
  <2>3. e \in Employee
    BY <1>1 DEF Request
  <2>4. Holds(q.new) \/ ~Holds(e) \/ OtherHolders(x) # {}
    <3> HIDE DEF e, self, q
    <3> QED
      BY <2>2, <2>3, AllowedLeavesHolder
  <2>5. q.missed = {} => Alike(e, employees[x])
    <3>1. CASE self
      BY <2>2, <3>1 DEF Management, Clean
    <3>2. CASE ~self
      BY <3>2 DEF Alike
    <3> QED
      BY <3>1, <3>2
  <2>6. UNCHANGED employees
    BY <1>3 DEF TargetRead
  <2> HIDE DEF e, q
  <2> QED
    BY <1>2, <2>2, <2>3, <2>4, <2>5, <2>6 DEF q
<1>4. ASSUME NEW x \in Employees, SignupRead(r, x)
      PROVE  Clean(requests[r])' /\ q.loaded.status \in {"NONE", "REJECTED"}
  <2>1. /\ q.pc = "signing" /\ q.target = x /\ q.loaded = employees[x]
        /\ q.loaded.status \in {"NONE", "REJECTED"}
    BY <1>4, Signs
  <2>2. ~Holds(employees[x]) /\ Alike(employees[x], employees[x]) /\ UNCHANGED employees
    BY <1>4, <2>1 DEF Holds, Alike, SignupRead
  <2> QED
    BY <1>1, <1>2, <2>1, <2>2
<1> QED
  BY <1>3, <1>4 DEF Loads

LEMMA CleanStep ==
    ASSUME Types, Management, [Next]_vars, NEW r \in Requests
    PROVE  /\ Clean(requests[r])'
           /\ requests'[r].pc = "signing" => requests'[r].loaded.status \in {"NONE", "REJECTED"}
<1> DEFINE p == requests[r]
           q == requests'[r]
           Loaded == {"in", "loaded", "signing"}
<1>1. p \in Request /\ RequestMoves(r) /\ AccountsMove
  BY RequestStep, AccountStep DEF Types, RequestsMove
<1>2. q.pc \notin Loaded => Clean(requests[r])'
  BY DEF Clean
<1>3. CASE Follows(p, q)
  <2>1. /\ q.pc = p.pc /\ q.mine = p.mine /\ q.who = p.who /\ q.target = p.target
        /\ q.loaded = p.loaded /\ q.new = p.new /\ p.missed \subseteq q.missed
        /\ p.who \in Employees /\ p.target \in Employees
    <3> HIDE DEF p, q
    <3> QED
      BY <1>1, <1>3 DEF Follows, Request
  <2>2. Clean(p) /\ (p.pc = "signing" => p.loaded.status \in {"NONE", "REJECTED"})
    BY DEF Management
  <2>3. CASE AccountsKept
    <3>1. PICK t \in Employees : t = p.target
      BY <2>1
    <3>2. OtherHolders(t)' = OtherHolders(t)
      BY <2>3, OthersKept
    <3>3. q.missed = {} =>
            /\ q.pc = "in" => Alike(q.mine, employees'[q.who])
            /\ q.pc \in {"loaded", "signing"} =>
                 /\ Alike(q.loaded, employees'[t])
                 /\ Holds(q.new) \/ ~Holds(q.loaded) \/ OtherHolders(t)' # {}
      BY <2>1, <2>2, <2>3, <3>1, <3>2 DEF Clean, AccountsKept, Alike
    <3>4. q.target = t
      BY <2>1, <3>1
    <3>5. Clean(requests[r])'
      BY <3>3, <3>4 DEF Clean, OtherHolders
    <3> QED
      BY <2>1, <2>2, <3>5
  <2>4. CASE AllOvertaken
    <3>1. Clean(requests[r])'
      BY <2>4 DEF AllOvertaken, Clean
    <3> QED
      BY <2>1, <2>2, <3>1
  <2> QED
    BY <1>1, <2>3, <2>4 DEF AccountsMove
<1>4. CASE Loads(r, q)
  BY <1>4, LoadedIsClean
<1>5. CASE Authorise(r) /\ q = LetThrough(p)
  <2>1. UNCHANGED employees
    BY <1>5 DEF Authorise
  <2>2. q.pc = "in" /\ q.mine = employees[q.who]
    BY <1>1, <1>5 DEF LetThrough, Request
  <2> QED
    BY <2>1, <2>2 DEF Clean, Alike
<1>6. CASE Plain(q)
  BY <1>2, <1>6 DEF Plain
<1>7. CASE q = Counted(p)
  <2>1. q.pc = "flushed"
    BY <1>1, <1>7 DEF Counted, Request
  <2> QED
    BY <1>2, <2>1
<1>8. ASSUME NEW s, NEW k, q = Rotating(s, k)
      PROVE  q.pc = "rotating"
  BY <1>8, IdleType DEF Rotating, Request
<1>9. ASSUME NEW t, q = Presents(t)
      PROVE  q.pc = "session"
  BY <1>9, IdleType DEF Presents, Request
<1> HIDE DEF q
<1> QED
  BY <1>1, <1>2, <1>3, <1>4, <1>5, <1>6, <1>7, <1>8, <1>9 DEF RequestMoves, Turns, q
\* A row is written over what its request had seen.
LEMMA WrittenLeavesHolder ==
    ASSUME Types, NEW x \in Employees, NEW old \in Employee, NEW new \in Employee,
           employees' = [employees EXCEPT ![x] = Written(@, old, new)],
           Alike(old, employees[x]),
           Holds(new) \/ ~Holds(old) \/ OtherHolders(x) # {},
           \E e \in Employees : Holds(employees[e])
    PROVE  \E e \in Employees : Holds(employees'[e])
<1>1. /\ \A e \in Employees \ {x} : employees'[e] = employees[e]
      /\ Alike(new, employees'[x])
  BY RowWritten
<1>2. CASE Holds(new)
  BY <1>1, <1>2 DEF Alike, Holds
<1>3. CASE ~Holds(old)
  BY <1>1, <1>3 DEF Alike, Holds
<1>4. CASE OtherHolders(x) # {}
  BY <1>1, <1>4 DEF OtherHolders, Holds
<1> QED
  BY <1>2, <1>3, <1>4

\* A row that held nothing is replaced, or one that holds it is written.
LEMMA ReplacedLeavesHolder ==
    ASSUME Types, NEW x \in Employees, NEW row \in Employee,
           employees' = [employees EXCEPT ![x] = row],
           Holds(employees[x]) => Holds(row),
           \E e \in Employees : Holds(employees[e])
    PROVE  \E e \in Employees : Holds(employees'[e])
BY OneEmployee

LEMMA RacedOnce ==
    ASSUME Types, [Next]_vars, raced
    PROVE  raced'
<1>1. ASSUME NEW r \in Requests, Login(r) \/ Refresh(r)
      PROVE  raced'
  BY <1>1 DEF Login, LoginRead, ReviewLoginRead, LoginFails, LoginFlush, LoginCommit,
              Refresh, RefreshRead, RefreshCommit
<1>2. ASSUME NEW r \in Requests, Authenticated(r)
      PROVE  raced'
  BY <1>2 DEF Authenticated, Authenticate, Authorise, Serve, Logout, RevokeSession,
              ChangePassword, ChangeAndRevoke
<1>3. ASSUME NEW r \in Requests, Administration(r)
      PROVE  raced'
  BY <1>3 DEF Administration, TargetRead, SignupRead, Change, ChangeAndRevoke, Decide,
              Insert, ChangeFails, SignupAgain, ChangeOnly
<1>4. CASE Scripts \/ TimePasses \/ UNCHANGED vars
  BY <1>4 DEF Scripts, Provision, ResetAdmin, Promote, TimePasses, vars
<1> QED
  BY <1>1, <1>2, <1>3, <1>4 DEF Next

LEMMA ManagerStep ==
    ASSUME Types, Management, [Next]_vars
    PROVE  ManagerRemains'
<1> DEFINE Someone == \E e \in Employees : Holds(employees[e])
           SomeoneNext == \E e \in Employees : Holds(employees'[e])
<1> SUFFICES ASSUME ~raced'
             PROVE  SomeoneNext
  BY DEF ManagerRemains, Holds
<1>1. Someone
  BY RacedOnce DEF Management, ManagerRemains, Holds
<1>2. ASSUME AccountsKept
      PROVE  SomeoneNext
  BY <1>1, <1>2 DEF AccountsKept, Alike, Holds
<1>3. \A r \in Requests : requests[r] \in Request /\ Clean(requests[r])
  BY DEF Types, Management
<1>4. ASSUME NEW r \in Requests, Login(r) \/ Refresh(r)
      PROVE  AccountsKept
  <2> DEFINE q == requests[r]
  <2>1. q.who \in Employees /\ q.mine \in Employee
    BY <1>3 DEF Request
  <2>2. CASE LoginFails(r)
    <3>1. employees' = [employees EXCEPT ![q.who] = Written(@, q.mine, Failed(q.mine))]
      BY <2>2 DEF LoginFails
    <3>2. Failed(q.mine) \in Employee /\ Alike(q.mine, Failed(q.mine))
      BY <2>1, FailedType DEF Alike
    <3> HIDE DEF q
    <3> QED
      BY <2>1, <3>1, <3>2, RowWritten
  <2>3. CASE LoginCommit(r)
    <3> DEFINE n == [q.mine EXCEPT !.failures = 0, !.locked = FALSE]
    <3>1. employees' = [employees EXCEPT ![q.who] = Written(@, q.mine, n)]
      BY <2>3 DEF LoginCommit
    <3>2. n \in Employee
      BY <2>1, FailedType
    <3>3. Alike(q.mine, n)
      <4> HIDE DEF q
      <4> QED
        BY <2>1 DEF Employee, Alike
    <3> HIDE DEF q, n
    <3> QED
      BY <2>1, <3>1, <3>2, <3>3, RowWritten
  <2>4. CASE UNCHANGED employees
    BY <2>4, AccountsUnchanged
  <2> QED
    BY <1>4, <2>2, <2>3, <2>4 DEF Login, LoginRead, ReviewLoginRead, LoginFlush,
       Refresh, RefreshRead, RefreshCommit
<1>5. ASSUME NEW r \in Requests, Authenticated(r)
      PROVE  SomeoneNext
  <2> DEFINE q == requests[r]
             n == [q.mine EXCEPT !.must = FALSE, !.version = @ + 1]
  <2>1. CASE ChangePassword(r)
    <3>1. q.who \in Employees /\ q.mine \in Employee
      BY <1>3 DEF Request
    <3>2. ChangeAndRevoke(r, q.who, q.mine, n)
      BY <2>1 DEF ChangePassword
    <3>3. n \in Employee /\ Alike(q.mine, n)
      <4> HIDE DEF q
      <4> QED
        BY <3>1, Password
    <3>4. employees' = [employees EXCEPT ![q.who] = Written(@, q.mine, n)]
      BY <3>2 DEF ChangeAndRevoke
    <3> HIDE DEF q, n
    <3> QED
      BY <1>2, <3>1, <3>3, <3>4, RowWritten
  <2>2. CASE UNCHANGED employees
    BY <1>2, <2>2, AccountsUnchanged
  <2> QED
    BY <1>5, <2>1, <2>2
       DEF Authenticated, Authenticate, Authorise, Serve, Logout, RevokeSession
<1>6. ASSUME NEW r \in Requests, Administration(r)
      PROVE  SomeoneNext
  <2> DEFINE q == requests[r]
  <2>1. q.target \in Employees /\ q.loaded \in Employee /\ q.new \in Employee
    BY <1>3 DEF Request
  <2>2. CASE Change(r) \/ Decide(r) \/ SignupAgain(r)
    <3>1. /\ q.pc \in {"loaded", "signing"}
          /\ employees' = [employees EXCEPT ![q.target] = Written(@, q.loaded, q.new)]
          /\ raced' = (raced \/ q.missed # {})
      BY <2>2 DEF Change, ChangeAndRevoke, ChangeOnly, Decide, SignupAgain
    <3>2. q.missed = {}
      BY <3>1
    <3>3. /\ Alike(q.loaded, employees[q.target])
          /\ Holds(q.new) \/ ~Holds(q.loaded) \/ OtherHolders(q.target) # {}
      BY <1>3, <3>1, <3>2 DEF Clean
    <3> HIDE DEF q
    <3> QED
      BY <1>1, <2>1, <3>1, <3>3, WrittenLeavesHolder
  <2>3. CASE Insert(r) /\ ~UNCHANGED employees
    <3>1. /\ employees' = [employees EXCEPT ![q.target] = q.new]
          /\ employees[q.target].status = "NONE"
      BY <2>3 DEF Insert
    <3>2. ~Holds(employees[q.target])
      BY <3>1 DEF Holds
    <3> HIDE DEF q
    <3> QED
      BY <1>1, <2>1, <3>1, <3>2, ReplacedLeavesHolder
  <2>4. CASE UNCHANGED employees
    BY <1>2, <2>4, AccountsUnchanged
  <2> QED
    BY <1>6, <2>2, <2>3, <2>4
       DEF Administration, TargetRead, SignupRead, ChangeFails
<1>7. ASSUME NEW x \in Employees, Provision(x) \/ ResetAdmin(x) \/ Promote(x)
      PROVE  SomeoneNext
  <2>1. employees[x] \in Employee
    BY DEF Types
  <2>2. CASE Provision(x)
    <3> DEFINE row == [Deputy EXCEPT !.manage = TRUE, !.must = TRUE]
    <3>1. row \in Employee
      BY NobodyType DEF Employee
    <3>2. employees' = [employees EXCEPT ![x] = row] /\ ~Holds(employees[x])
      BY <2>2 DEF Provision, Holds
    <3> HIDE DEF row
    <3> QED
      BY <1>1, <3>1, <3>2, ReplacedLeavesHolder
  <2>3. CASE ResetAdmin(x)
    <3> DEFINE row == Readmitted(employees[x])
    <3>1. /\ row \in Employee /\ row.manage = employees[x].manage
          /\ row.status = IF employees[x].status = "LOCKED" THEN "ACTIVE" ELSE employees[x].status
      BY <2>1, ReadmittedType
    <3>2. employees' = [employees EXCEPT ![x] = row]
      BY <2>3 DEF ResetAdmin
    <3> HIDE DEF row
    <3>3. Holds(employees[x]) => Holds(row)
      BY <3>1 DEF Holds
    <3> QED
      BY <1>1, <3>1, <3>2, <3>3, ReplacedLeavesHolder
  <2>4. CASE Promote(x)
    <3> DEFINE row == [employees[x] EXCEPT !.status = "ACTIVE",
               !.role = "ADMIN", !.manage = TRUE, !.failures = 0]
    <3>1. row \in Employee /\ Holds(row)
      BY <2>1, NoFailures DEF Employee, Status, Role, Holds
    <3>2. employees' = [employees EXCEPT ![x] = row]
      BY <2>4 DEF Promote
    <3> HIDE DEF row
    <3> QED
      BY <1>1, <3>1, <3>2, ReplacedLeavesHolder
  <2> QED
    BY <1>7, <2>2, <2>3, <2>4
<1>8. ASSUME TimePasses
      PROVE  AccountsKept
  <2>1. ASSUME NEW e \in Employees, employees' = [employees EXCEPT ![e].locked = FALSE]
        PROVE  AccountsKept
    <3> DEFINE row == [employees[e] EXCEPT !.locked = FALSE]
    <3>1. employees[e] \in Employee
      BY DEF Types
    <3>2. row \in Employee /\ Alike(employees[e], row)
      BY <3>1 DEF Employee, Alike
    <3>3. employees' = [employees EXCEPT ![e] = row]
      BY <2>1
    <3> QED
      BY <3>2, <3>3, OneEmployee
  <2> QED
    BY <1>8, <2>1, AccountsUnchanged DEF TimePasses
<1>9. CASE UNCHANGED vars
  BY <1>2, <1>9, AccountsUnchanged DEF vars
<1> QED
  BY <1>2, <1>4, <1>5, <1>6, <1>7, <1>8, <1>9 DEF Next, Scripts

(***************************************************************************)
(* Theorems                                                                *)
(***************************************************************************)

\* The invariant of the accounts: the refreshes, the logins and the changes
\* under way, whichever overlap.
THEOREM AccountsInvariant == Spec => []AccountsInv
<1>1. Init => AccountsInv
  BY AccountsStart
<1>2. AccountsInv /\ [Next]_vars => AccountsInv'
  <2> SUFFICES ASSUME AccountsInv, [Next]_vars
               PROVE  AccountsInv'
    OBVIOUS
  <2>1. Types'
    BY TypesStep DEF AccountsInv
  <2>2. Rotation'
    BY RotationStep DEF AccountsInv
  <2>3. Freshness'
    BY FreshnessStep DEF AccountsInv
  <2>4. Counting'
    BY CountingStep DEF AccountsInv
  <2>5. Management'
    BY CleanStep, ManagerStep DEF AccountsInv, Management
  <2> QED
    BY <2>1, <2>2, <2>3, <2>4, <2>5 DEF AccountsInv
<1> QED
  BY <1>1, <1>2, PTL DEF Spec

\* The rows keep their types; the failed logins counted stay below the limit.
THEOREM AccountsTypeCorrect == Spec => []TypeOK
<1>1. AccountsInv => TypeOK
  BY DEF AccountsInv, Types, TypeOK, Request
<1> QED
  BY <1>1, AccountsInvariant, PTL

\* However logins overlap, with each other and with everything that revokes
\* sessions, nobody gets more sessions than allowed: the lock on the row of the
\* employee makes the second login count the session of the first.
THEOREM SessionsAreLimited == Spec => []SessionLimit
<1>1. AccountsInv => SessionLimit
  BY DEF AccountsInv, Counting
<1> QED
  BY <1>1, AccountsInvariant, PTL

\* A refresh token is redeemed once, however many requests present it: the
\* second finds the hash that the first has rotated.
THEOREM RefreshTokensWorkOnce == Spec => []RefreshOnce
<1>1. AccountsInv => RefreshOnce
  BY DEF AccountsInv, Rotation
<1> QED
  BY <1>1, AccountsInvariant, PTL

\* A session that was ended, by whomever, is over: it is not revived, and no
\* refresh that was under way brings it another token.
THEOREM EndedSessionsStayEnded == Spec => RevokedIsFinal
<1>1. AccountsInv /\ [Next]_vars =>
        [\A s \in Sessions : sessions[s].revoked =>
            sessions'[s].revoked /\ sessions'[s].refresh = sessions[s].refresh]_vars
  BY EndedForGood DEF AccountsInv
<1> QED
  BY <1>1, AccountsInvariant, PTL DEF Spec, RevokedIsFinal

\* No request is let in with an access token from before a change of the account,
\* even when two changes wrote the same version of it, because their sessions end;
\* except for the changes that blur the account, whose version stays what it was
\* while a session or a request that carries it goes on (Promote, ChangeOnly, Blurs).
THEOREM OldTokensAreRefused == Spec => StaleTokenRefused
<1>1. AccountsInv /\ [Next]_vars =>
        [\A r \in Requests : requests[r].pc = "session" /\ requests'[r].pc = "in" =>
            requests[r].fresh \/ requests[r].who \in blurred]_vars
  BY LetInFresh DEF AccountsInv
<1> QED
  BY <1>1, AccountsInvariant, PTL DEF Spec, StaleTokenRefused

\* The checks of the administration never take the management from the last
\* who has it, except by a write over a change its request had not seen.
THEOREM ManagementRemains == Spec => []ManagerRemains
<1>1. AccountsInv => ManagerRemains
  BY DEF AccountsInv, Management
<1> QED
  BY <1>1, AccountsInvariant, PTL
=============================================================================
