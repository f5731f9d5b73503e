------------------------------- MODULE Accounts -------------------------------
(***************************************************************************)
(* Accounts, sessions and API tokens (app/auth.py, app/users.py,           *)
(* app/api_tokens.py, app/admin_recovery.py).  A handler reads the rows it *)
(* needs, decides, and writes in one transaction at its end; nothing       *)
(* locks the rows in between.  Synchronous handlers run in threads; login, *)
(* activation and re-enrolment run on the event loop, one after the other. *)
(* setup and the server-local password recovery begin their transaction    *)
(* before they read.  An UPDATE names a row by its id and sets the columns *)
(* that the handler has changed; SQLAlchemy raises when the row is gone.   *)
(*                                                                         *)
(* Passwords, codes and times are abstract: an attempt is right or wrong,  *)
(* a code is there or not, and a session may end at any time.              *)
(***************************************************************************)
EXTENDS Integers, FiniteSets

CONSTANTS Users,          \* ids of rows of "users"
          Threads,        \* threads that serve requests
          Loop,           \* the event loop
          MaxSessions,    \* auth_max_sessions_per_user
          MaxTokens,      \* auth_max_api_tokens_per_user
          MaxRequests     \* bound: requests

ASSUME AccountsAssumption == /\ Users \subseteq Nat \ {0} /\ Users # {}
                             /\ IsFiniteSet(Users)
                             /\ IsFiniteSet(Threads) /\ Threads # {}
                             /\ Loop \notin Threads
                             /\ MaxSessions \in Nat \ {0}
                             /\ MaxTokens \in Nat \ {0}
                             /\ MaxRequests \in Nat

\* A row of "users".  secret is the key of its one-time codes; activation and
\* reset are codes that have not expired.
Roles == {"admin", "member"}
User == [exists: BOOLEAN, role: Roles, active: BOOLEAN, secret: BOOLEAN,
         totp_enabled: BOOLEAN, activation: BOOLEAN, reset: BOOLEAN]
NoUser == [exists |-> FALSE, role |-> "member", active |-> FALSE,
           secret |-> FALSE, totp_enabled |-> FALSE,
           activation |-> FALSE, reset |-> FALSE]
New(role) == [NoUser EXCEPT !.exists = TRUE, !.role = role]
Enrolled(role) == [New(role) EXCEPT !.active = TRUE, !.secret = TRUE,
                                    !.totp_enabled = TRUE]

Enrolment == {"mfa_setup", "activation", "mfa_reenroll"}
Levels == Enrolment \cup {"password", "full"}
Ids == 1..MaxRequests
Session == [id: Ids, user: Users, level: Levels, live: BOOLEAN]

AnyUser == CHOOSE u \in Users : TRUE
NoSession == [id |-> 0, user |-> AnyUser, level |-> "full", live |-> FALSE]

Actors == Threads \cup {Loop}
Administration == {"update", "reissue-activation", "reissue-2fa", "remove"}
SigningIn == {"login", "activate", "reenroll"}
\* A request that the middleware has admitted has the user whose session or
\* token came with it; a handler that has read its rows has the user it will
\* write, the columns, and the active administrators that it has counted.
Ops == Administration \cup SigningIn \cup
           {"idle", "session", "bearer", "verify", "token"}
\* The requests that act for the account they came with.
Owners == SigningIn \cup {"session", "verify", "token"}
Credentials == {"session", "token"}

VARIABLES users,      \* [Users -> User]
          sessions,   \* the rows of "auth_sessions"
          tokens,     \* [Users -> Nat], API tokens that are not revoked
          request,    \* what each actor is doing
          requests    \* requests so far

\* What the rows do not say: whose a request or a credential was, when the id
\* of an account has been given to another since.
VARIABLES late,       \* actors with a request of an earlier account
          overtaken,  \* ids given out with such a request under way
          inherited   \* [Users -> SUBSET Credentials], what an account may
                      \* hold of an earlier one

past == <<late, overtaken, inherited>>
vars == <<users, sessions, tokens, request, requests, late, overtaken,
          inherited>>

\* What a handler will write to each column of a row: one value, or nothing.
Writes == [role: SUBSET Roles, active: SUBSET BOOLEAN,
           secret: SUBSET BOOLEAN, totp_enabled: SUBSET BOOLEAN,
           activation: SUBSET BOOLEAN, reset: SUBSET BOOLEAN]
Nothing == [role |-> {}, active |-> {}, secret |-> {}, totp_enabled |-> {},
            activation |-> {}, reset |-> {}]

\* counts: the count of ensure_not_last_admin is still to come.
Idle == [op |-> "idle", user |-> AnyUser, writes |-> Nothing, admins |-> {},
         session |-> NoSession, counts |-> FALSE]

\* Types; no two rows of a table have one id.
TypeOK == /\ users \in [Users -> User]
          /\ sessions \subseteq Session
          /\ \A s, r \in sessions : s.id = r.id => s = r
          /\ tokens \in [Users -> Nat]
          /\ DOMAIN request = Actors
          /\ \A a \in Actors :
                /\ request[a].op \in Ops /\ request[a].user \in Users
                /\ request[a].writes \in Writes
                /\ request[a].admins \subseteq Users
                /\ request[a].session \in Session \cup {NoSession}
                /\ request[a].counts \in BOOLEAN
          /\ requests \in 0..MaxRequests
          /\ late \subseteq Actors /\ overtaken \subseteq Users
          /\ inherited \in [Users -> SUBSET Credentials]

\* A new installation, or one with enrolled users that have API tokens.
Init == /\ users \in [Users -> {NoUser, Enrolled("admin"),
                                Enrolled("member")}]
        /\ sessions = {}
        /\ tokens \in [Users -> {0, 1}]
        /\ \A u \in Users : tokens[u] = 1 <=> users[u].exists
        /\ request = [a \in Actors |-> Idle]
        /\ requests = 0
        /\ late = {} /\ overtaken = {}
        /\ inherited = [u \in Users |-> {}]

Active(u) == users[u].exists /\ users[u].active
ActiveAdmins == {u \in Users : Active(u) /\ users[u].role = "admin"}
SessionsOf(u) == {s \in sessions : s.user = u}

\* SQLite gives a new row the id after the greatest in the table.
IsNextId(i, ids) == /\ \A j \in ids : j < i
                    /\ i = 1 \/ i - 1 \in ids
NextId(ids) == CHOOSE i \in Ids : IsNextId(i, ids)

\* The ids of given go to new accounts: whoever acts for such an id, once the
\* step is done, acts for the account that had it before.
Follow(given) ==
    /\ late' = {a \in Actors : /\ request'[a].op \in Owners
                               /\ a \in late \/ request'[a].user \in given}
    /\ overtaken' = (overtaken \ given) \cup
                        (given \cap {request'[a].user : a \in late'})

\* A handler has read its rows, and will write.
Reads(a, r) == /\ request' = [request EXCEPT ![a] = r]
               /\ Follow({})
               /\ UNCHANGED <<users, sessions, tokens, inherited>>

Arrives == requests < MaxRequests /\ requests' = requests + 1

\* The columns in which the row, as it is read, will be changed.
Changed(old, new) == IF new = old THEN {} ELSE {new}
Changes(old, new) ==
    [role |-> Changed(old.role, new.role),
     active |-> Changed(old.active, new.active),
     secret |-> Changed(old.secret, new.secret),
     totp_enabled |-> Changed(old.totp_enabled, new.totp_enabled),
     activation |-> Changed(old.activation, new.activation),
     reset |-> Changed(old.reset, new.reset)]

Ask(op, u, row) == [Idle EXCEPT !.op = op, !.user = u, !.admins = ActiveAdmins,
                                !.writes = Changes(users[u], row)]

Ends(a) == request' = [request EXCEPT ![a] = Idle]
Done(a) == Ends(a) /\ Follow({})

\* A credential that the request of a gives, if the account is not the one
\* that asked for it.
Brought(a, credential) == IF a \in late THEN {credential} ELSE {}

\* The UPDATE names those columns, whatever the row now holds in the others.
Written(w, old) == IF w = {} THEN old ELSE CHOOSE v \in w : TRUE
Updated(r) ==
    [users EXCEPT ![r.user] =
        [exists |-> @.exists,
         role |-> Written(r.writes.role, @.role),
         active |-> Written(r.writes.active, @.active),
         secret |-> Written(r.writes.secret, @.secret),
         totp_enabled |-> Written(r.writes.totp_enabled, @.totp_enabled),
         activation |-> Written(r.writes.activation, @.activation),
         reset |-> Written(r.writes.reset, @.reset)]]

\* get_session, get_api_token.
Authenticates(u, method) ==
    /\ Active(u) /\ users[u].totp_enabled
    /\ IF method = "session"
       THEN \E s \in SessionsOf(u) : s.live /\ s.level = "full"
       ELSE tokens[u] > 0

\* The middleware reads the user; the handler runs in a thread, later.
Admit(a, u, method) ==
    /\ request[a] = Idle
    /\ Authenticates(u, method)
    /\ Arrives
    /\ Reads(a, [Idle EXCEPT !.op = method, !.user = u,
                             !.admins = ActiveAdmins \cap {u}])

Admitted(a) == request[a].op \in {"session", "bearer"}
\* require_roles("admin"): the role that the middleware has read.
AdmittedAdmin(a) == Admitted(a) /\ request[a].admins # {}

(***************************************************************************)
(* Sessions.                                                               *)
(***************************************************************************)
Retained == MaxSessions - 1

\* create_session, in one transaction with what is written before it: ended
\* sessions go, and all but the newest that may stay.
WithSession(rows, u, level) ==
    LET mine == {s \in rows : s.user = u /\ s.live}
        kept == {s \in mine :
                    Cardinality({r \in mine : r.id > s.id}) < Retained}
        rest == {s \in rows : s.user # u} \cup kept
    IN rest \cup {[id |-> NextId({s.id : s \in rest}),
                   user |-> u, level |-> level, live |-> TRUE]}

Ended(s) == [id |-> s.id, user |-> s.user, level |-> s.level, live |-> FALSE]

\* A session ends: it expires, it is idle too long, its browser changes, it
\* fails five times, or its user signs out.
SessionEnds(s) == /\ s.live
                  /\ sessions' = (sessions \ {s}) \cup {Ended(s)}
                  /\ UNCHANGED <<users, tokens, request, requests, past>>

\* mutant
RevokeSessions(u) == /\ sessions' = sessions \ SessionsOf(u)
                     /\ inherited' = [inherited EXCEPT ![u] = @ \ {"session"}]
                     /\ UNCHANGED tokens

\* revoke_credentials.
Revoke(u) == /\ sessions' = sessions \ SessionsOf(u)
             /\ tokens' = [tokens EXCEPT ![u] = 0]
             /\ inherited' = [inherited EXCEPT ![u] = {}]

(***************************************************************************)
(* Administration of users, in threads.                                    *)
(***************************************************************************)
\* mutant
TakesActive(u, role, active) == u \in ActiveAdmins /\ ~active

\* ensure_not_last_admin counts only before such a change.
TakesAdmin(u, role, active) == /\ u \in ActiveAdmins
                               /\ role # "admin" \/ ~active

\* What the rows rs and the tokens ts hold for the account that gets the id u.
Left(u, rs, ts) == {c \in Credentials :
                       \/ c = "session" /\ \E s \in rs : s.user = u
                       \/ c = "token" /\ ts[u] > 0}

\* create_user.
CreateUser(a, u, role) ==
    /\ AdmittedAdmin(a)
    /\ IsNextId(u, {v \in Users : users[v].exists})
    /\ users' = [users EXCEPT ![u] = [New(role) EXCEPT !.activation = TRUE]]
    /\ Ends(a) /\ Follow({u})
    /\ inherited' = [inherited EXCEPT ![u] = Left(u, sessions, tokens)]
    /\ UNCHANGED <<sessions, tokens, requests>>

\* The administrator a acts on the account u.
Administers(a, u) == AdmittedAdmin(a) /\ users[u].exists /\ UNCHANGED requests

UpdateReads(a, u, role, active) ==
    /\ Administers(a, u)
    /\ u = request[a].user => role = "admin" /\ active
    /\ active => users[u].totp_enabled
    /\ LET row == [users[u] EXCEPT !.role = role, !.active = active]
       IN Reads(a, [Ask("update", u, row)
                       EXCEPT !.counts = TakesAdmin(u, role, active)])

\* A new code differs from the old one.
ReissueActivationReads(a, u) ==
    /\ Administers(a, u) /\ u # request[a].user
    /\ LET row == [users[u] EXCEPT !.active = FALSE, !.secret = FALSE,
                                   !.totp_enabled = FALSE]
       IN Reads(a, [Ask("reissue-activation", u, row)
                       EXCEPT !.writes.activation = {TRUE},
                              !.counts = TakesAdmin(u, users[u].role, FALSE)])

Reissue2faReads(a, u) ==
    /\ Administers(a, u) /\ u # request[a].user
    /\ users[u].active /\ users[u].totp_enabled
    /\ Reads(a, [Ask("reissue-2fa", u, users[u])
                    EXCEPT !.writes.reset = {TRUE}])

RemoveReads(a, u) ==
    /\ Administers(a, u) /\ u # request[a].user
    /\ Reads(a, [Ask("remove", u, users[u])
                    EXCEPT !.counts = TakesAdmin(u, users[u].role, FALSE)])

\* The count of ensure_not_last_admin, a query after that of the row.
AdminCounts(a) ==
    /\ request[a].counts
    /\ UNCHANGED requests
    /\ IF Cardinality(ActiveAdmins) <= 1
       THEN Done(a) /\ UNCHANGED <<users, sessions, tokens, inherited>>
       ELSE Reads(a, [request[a] EXCEPT !.counts = FALSE,
                                        !.admins = ActiveAdmins])

\* Only an update that takes nothing leaves the credentials.
Keeps(r) == /\ r.op = "update"
            /\ r.writes.role = {} /\ r.writes.active # {FALSE}

\* The transaction of one of them; the UPDATE of a row that is gone raises.
AdminWrites(a) ==
    LET r == request[a]
    IN /\ r.op \in Administration /\ ~r.counts
       /\ Done(a) /\ UNCHANGED requests
       /\ IF users[r.user].exists
          THEN /\ users' = IF r.op = "remove"
                           THEN [users EXCEPT ![r.user] = NoUser]
                           ELSE Updated(r)
               /\ IF Keeps(r) THEN UNCHANGED <<sessions, tokens, inherited>>
                              ELSE Revoke(r.user)
          ELSE UNCHANGED <<users, sessions, tokens, inherited>>

(***************************************************************************)
(* Signing in.  login, activate and reenroll_2fa do not yield between      *)
(* their reads and their commit, but threads run beside them.              *)
(***************************************************************************)
\* A wrong password is counted, and may lock the account for a while; with a
\* right one the login is read here and written below.
Starts(op, u, row) ==
    request[Loop] = Idle /\ Arrives /\ Reads(Loop, Ask(op, u, row))

LoginReads(u) == Active(u) /\ Starts("login", u, users[u])

ActivateReads(u) ==
    /\ users[u].exists /\ ~users[u].active /\ users[u].activation
    /\ Starts("activate", u, [users[u] EXCEPT !.secret = TRUE,
                         !.totp_enabled = FALSE, !.activation = FALSE])

ReenrollReads(u) ==
    /\ Active(u) /\ users[u].reset
    /\ Starts("reenroll", u, [users[u] EXCEPT !.totp_enabled = FALSE,
                                               !.reset = FALSE])

LevelFor(op) == CASE op = "login" -> "password"
                  [] op = "activate" -> "activation"
                  [] op = "reenroll" -> "mfa_reenroll"

LoopWrites ==
    LET r == request[Loop]
        rows == IF r.op = "login" THEN sessions
                ELSE sessions \ SessionsOf(r.user)
    IN /\ r.op \in SigningIn
       /\ Done(Loop) /\ UNCHANGED requests
       /\ IF users[r.user].exists
          THEN /\ users' = Updated(r)
               /\ sessions' = WithSession(rows, r.user, LevelFor(r.op))
               /\ tokens' = IF r.op = "login" THEN tokens
                            ELSE [tokens EXCEPT ![r.user] = 0]
               /\ inherited' = [inherited EXCEPT ![r.user] =
                                    (IF r.op = "login" THEN @ ELSE {})
                                        \cup Brought(Loop, "session")]
          ELSE UNCHANGED <<users, sessions, tokens, inherited>>

\* totp_verify, with a right code: an enrolment is completed, and the session
\* of the challenge replaced by a full one.  Its UPDATE raises when the
\* session's row, or the user's, is gone.
VerifyReads(a, s) ==
    /\ request[a] = Idle /\ Arrives
    /\ s.live /\ s.level # "full"
    /\ users[s.user].exists /\ users[s.user].secret
    /\ LET on == s.level \in Enrolment
           row == [users[s.user] EXCEPT !.active = @ \/ on,
                                        !.totp_enabled = @ \/ on]
       IN Reads(a, [Ask("verify", s.user, row) EXCEPT !.session = s])

VerifyWrites(a) ==
    LET r == request[a]
        row == {s \in sessions : s.id = r.session.id}
        ended == (sessions \ row) \cup {Ended(s) : s \in row}
    IN /\ r.op = "verify"
       /\ Done(a) /\ UNCHANGED <<tokens, requests>>
       /\ IF users[r.user].exists /\ row # {}
          THEN /\ users' = Updated(r)
               /\ sessions' = WithSession(ended, r.user, "full")
               /\ inherited' = [inherited EXCEPT ![r.user] =
                                    @ \cup Brought(a, "session")]
          ELSE UNCHANGED <<users, sessions, inherited>>

NotConfigured == \A u \in Users : ~Active(u)

\* setup, within one transaction from its check to its commit.
Setup(u) ==
    /\ NotConfigured
    /\ IsNextId(u, {v \in Users : Active(v)})
    /\ Arrives
    /\ users' = [v \in Users |->
                    IF v = u THEN [New("admin") EXCEPT !.secret = TRUE]
                    ELSE IF Active(v) THEN users[v] ELSE NoUser]
    /\ tokens' = [v \in Users |-> IF Active(v) THEN tokens[v] ELSE 0]
    /\ LET kept == {s \in sessions : Active(s.user)}
       IN /\ sessions' = WithSession(kept, u, "mfa_setup")
          /\ inherited' = [v \in Users |-> Left(v, kept, tokens')]
    /\ UNCHANGED request /\ Follow({u})

\* reset_admin_password, from the server's console, in one transaction.
RecoverAdmin(u) ==
    /\ u \in ActiveAdmins /\ users[u].totp_enabled
    /\ Arrives
    /\ users' = [users EXCEPT ![u].activation = FALSE, ![u].reset = FALSE]
    /\ Revoke(u)
    /\ UNCHANGED <<request, late, overtaken>>

(***************************************************************************)
(* API tokens.                                                             *)
(***************************************************************************)
\* mutant
TokensAtMost == MaxTokens + 1

TokensAdmitted == MaxTokens

TokenReads(a) == LET u == request[a].user
                 IN /\ request[a].op = "session"
                    /\ tokens[u] < TokensAdmitted
                    /\ Reads(a, Ask("token", u, users[u]))
                    /\ UNCHANGED requests

TokenWrites(a) ==
    LET u == request[a].user
    IN /\ request[a].op = "token"
       /\ Done(a)
       /\ IF users[u].exists
          THEN /\ tokens' = [tokens EXCEPT ![u] = @ + 1]
               /\ inherited' = [inherited EXCEPT ![u] =
                                    @ \cup Brought(a, "token")]
          ELSE UNCHANGED <<tokens, inherited>>
       /\ UNCHANGED <<users, sessions, requests>>

\* mutant
TokenEndsTwice(u) == /\ tokens' = [tokens EXCEPT ![u] = @ - 1]
                     /\ UNCHANGED <<users, sessions, request, requests, past>>

\* A token is revoked by its owner, or expires.
TokenEnds(u) == /\ tokens[u] > 0
                /\ tokens' = [tokens EXCEPT ![u] = @ - 1]
                /\ UNCHANGED <<users, sessions, request, requests, past>>

Next == \/ \E s \in sessions : SessionEnds(s)
        \/ \E a \in Threads :
              \/ \E u \in Users :
                    \/ Admit(a, u, "session") \/ Admit(a, u, "bearer")
                    \/ \E role \in Roles : CreateUser(a, u, role)
                    \/ \E role \in Roles, active \in BOOLEAN :
                          UpdateReads(a, u, role, active)
                    \/ ReissueActivationReads(a, u)
                    \/ Reissue2faReads(a, u)
                    \/ RemoveReads(a, u)
              \/ AdminCounts(a)
              \/ AdminWrites(a)
              \/ \E s \in sessions : VerifyReads(a, s)
              \/ VerifyWrites(a)
              \/ TokenReads(a)
              \/ TokenWrites(a)
        \/ LoopWrites
        \/ \E u \in Users : \/ LoginReads(u) \/ ActivateReads(u)
                            \/ ReenrollReads(u)
                            \/ Setup(u) \/ RecoverAdmin(u) \/ TokenEnds(u)

Spec == Init /\ [][Next]_vars

(***************************************************************************)
(* Properties.                                                             *)
(***************************************************************************)
\* create_api_token counts before its transaction, so that requests that count
\* together pass the limit; but by no more than one for every other thread.
TokensNearCap ==
    \A u \in Users :
        tokens[u] + Cardinality({a \in Threads : /\ request[a].op = "token"
                                                 /\ request[a].user = u})
            <= MaxTokens + Cardinality(Threads) - 1

\* The last active administrator goes only with a request that counted the
\* active administrators before another one took one of them: a request
\* whose count is still right never takes the last (ensure_not_last_admin).
OnlyStaleCountsTakeLastAdmin ==
    [][ActiveAdmins # {} /\ ActiveAdmins' = {} =>
          \E a \in Threads : /\ request[a].op \in Administration
                             /\ request'[a].op = "idle"
                             /\ request[a].admins # ActiveAdmins]_vars

\* An account holds no session and no API token of an account that had its
\* id before, unless a request of that account was still under way when the id
\* was given out (remove_user, setup, and the requests that race with them).
NothingInherited == \A u \in Users : inherited[u] # {} => u \in overtaken

\* Finding (README, section 6): README.md:205 says that the removal of an
\* account prevents its old tokens from retaining access.  A token that was
\* asked for before the removal may be inserted once the id has gone to another
\* account, and opens that account.
OldTokensEnd ==
    \A u \in Users : "token" \in inherited[u] => ~Authenticates(u, "bearer")
===============================================================================
