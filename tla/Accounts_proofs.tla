---------------------------- MODULE Accounts_proofs ----------------------------
(***************************************************************************)
(* Proofs about accounts and API tokens, for any users, threads and        *)
(* limits: an account holds nothing of an earlier one with its id unless a *)
(* request of that one was under way, the limit of tokens is passed by no  *)
(* more than the requests that count together, only a request with an      *)
(* outdated count takes the last active administrator, and every row keeps *)
(* its type, a session its own id.                                         *)
(***************************************************************************)
EXTENDS Accounts, FiniteSetTheorems, WellFoundedInduction, TLAPS

\* What the proofs need of the types: no bound on ids, and of a session only
\* that it is a record with these fields.
RequestTyped(r) == /\ r.op \in Ops /\ r.user \in Users
                   /\ r.writes \in Writes /\ r.admins \in SUBSET Users
                   /\ r.counts \in BOOLEAN
                   /\ r.counts => r.op \in Administration
                   /\ {"admins", "counts"} \subseteq DOMAIN r

Shaped(s) == /\ s = [id |-> s.id, user |-> s.user, level |-> s.level,
                     live |-> s.live]
             /\ s.user \in Users

Typed == /\ users \in [Users -> User]
         /\ tokens \in [Users -> Nat]
         /\ DOMAIN request = Actors
         /\ \A a \in Actors : RequestTyped(request[a])
         /\ \A s \in sessions : Shaped(s)

(***************************************************************************)
(* The records that handlers build are typed.                              *)
(***************************************************************************)
LEMMA IdleTyped == RequestTyped(Idle)
<1>1. AnyUser \in Users
  BY AccountsAssumption DEF AnyUser
<1>2. QED
  BY <1>1 DEF RequestTyped, Idle, Ops, Nothing, Writes

LEMMA ChangesTyped ==
    ASSUME NEW old \in User, NEW new \in User
    PROVE  Changes(old, new) \in Writes
  BY DEF User, Changes, Changed, Writes

LEMMA ModestChanges ==
    ASSUME NEW old \in User, NEW new \in User, new.role = old.role,
           new.active = old.active \/ new.active = TRUE
    PROVE  /\ Changes(old, new).role = {}
           /\ FALSE \notin Changes(old, new).active
  BY DEF Changes, Changed, User

LEMMA NewCodeTyped ==
    ASSUME NEW w \in Writes
    PROVE  /\ [w EXCEPT !.activation = {TRUE}] \in Writes
           /\ [w EXCEPT !.reset = {TRUE}] \in Writes
  BY DEF Writes

LEMMA AskTyped ==
    ASSUME Typed, NEW op \in Ops, NEW u \in Users, NEW row \in User
    PROVE  /\ RequestTyped(Ask(op, u, row))
           /\ Ask(op, u, row).op = op /\ Ask(op, u, row).user = u
           /\ Ask(op, u, row).admins = ActiveAdmins
           /\ Ask(op, u, row).writes = Changes(users[u], row)
           /\ Ask(op, u, row).session = NoSession
           /\ ~Ask(op, u, row).counts
<1>1. Changes(users[u], row) \in Writes
  BY ChangesTyped DEF Typed
<1>2. ActiveAdmins \in SUBSET Users
  BY DEF ActiveAdmins
<1>3. QED
  BY <1>1, <1>2 DEF RequestTyped, Ask, Idle

LEMMA WrittenType ==
    ASSUME NEW T, NEW w \in SUBSET T, NEW old \in T
    PROVE  Written(w, old) \in T
  BY DEF Written

LEMMA UpdatedTyped ==
    ASSUME Typed, NEW r, RequestTyped(r)
    PROVE  /\ Updated(r) \in [Users -> User]
           /\ \A u \in Users : Updated(r)[u].exists = users[u].exists
           /\ \A u \in Users \ {r.user} : Updated(r)[u] = users[u]
           /\ r.writes.role = {} => Updated(r)[r.user].role = users[r.user].role
           /\ r.writes.active = {} =>
                Updated(r)[r.user].active = users[r.user].active
<1> DEFINE old == users[r.user]
           row == [exists |-> old.exists,
                   role |-> Written(r.writes.role, old.role),
                   active |-> Written(r.writes.active, old.active),
                   secret |-> Written(r.writes.secret, old.secret),
                   totp_enabled |->
                       Written(r.writes.totp_enabled, old.totp_enabled),
                   activation |-> Written(r.writes.activation, old.activation),
                   reset |-> Written(r.writes.reset, old.reset)]
<1>1. old \in User /\ r.user \in Users /\ r.writes \in Writes
  BY DEF Typed, RequestTyped
<1>2. /\ row.role \in Roles
      /\ row.active \in BOOLEAN /\ row.secret \in BOOLEAN
      /\ row.totp_enabled \in BOOLEAN /\ row.activation \in BOOLEAN
      /\ row.reset \in BOOLEAN /\ row.exists \in BOOLEAN
  BY <1>1, WrittenType DEF User, Writes
<1>3. row \in User
  BY <1>2 DEF User
<1>4. Updated(r) = [users EXCEPT ![r.user] = row]
  BY DEF Updated
<1>5. /\ r.writes.role = {} => row.role = old.role
      /\ r.writes.active = {} => row.active = old.active
      /\ row.exists = old.exists
  BY DEF Written
<1> HIDE DEF row, old
<1>6. old = users[r.user]
  BY DEF old
<1>7. QED
  BY <1>1, <1>3, <1>4, <1>5, <1>6 DEF Typed

(***************************************************************************)
(* What a step of an actor may do to the requests.                         *)
(***************************************************************************)
LEMMA OneRequestTyped ==
    ASSUME Typed, NEW a \in Actors, NEW r, RequestTyped(r),
           request' = [request EXCEPT ![a] = r]
    PROVE  /\ DOMAIN request' = Actors
           /\ \A b \in Actors : RequestTyped(request'[b])
           /\ request'[a] = r
           /\ \A b \in Actors \ {a} : request'[b] = request[b]
  BY DEF Typed

LEMMA EndedShaped ==
    ASSUME NEW s, Shaped(s)
    PROVE  Shaped(Ended(s)) /\ Ended(s).user = s.user
  BY DEF Shaped, Ended

LEMMA WithSessionShaped ==
    ASSUME NEW rows, \A s \in rows : Shaped(s), NEW u \in Users, NEW level
    PROVE  /\ \A s \in WithSession(rows, u, level) : Shaped(s)
           /\ \A s \in WithSession(rows, u, level) :
                s.user = u \/ \E q \in rows : q.user = s.user
  BY DEF WithSession, Shaped

\* The four requests that administer a user, as they are read.
Administering(a) ==
    \E u \in Users :
        \/ \E role \in Roles, active \in BOOLEAN : UpdateReads(a, u, role, active)
        \/ ReissueActivationReads(a, u)
        \/ Reissue2faReads(a, u)
        \/ RemoveReads(a, u)

\* What a request will write keeps an administrator, when it is the only one
\* that the request has counted; signing in takes nobody's role.
Counted(r) ==
    /\ r.op \in Administration /\ ~r.counts
       /\ r.user \in r.admins /\ Cardinality(r.admins) <= 1
          => r.op # "remove" /\ r.writes.role = {} /\ r.writes.active = {}
    /\ r.op \in SigningIn \cup {"verify"}
          => r.writes.role = {} /\ FALSE \notin r.writes.active

(***************************************************************************)
(* A request to administer counts the active administrators as it reads.   *)
(***************************************************************************)
LEMMA AdministeringReads ==
    ASSUME Typed, NEW a \in Threads, Administering(a)
    PROVE  \E r : /\ RequestTyped(r) /\ Counted(r)
                  /\ r.op \in Administration /\ r.session = NoSession
                  /\ Reads(a, r)
<1>1. PICK u \in Users :
        \/ \E role \in Roles, active \in BOOLEAN : UpdateReads(a, u, role, active)
        \/ ReissueActivationReads(a, u)
        \/ Reissue2faReads(a, u)
        \/ RemoveReads(a, u)
  BY DEF Administering
<1>2. users[u] \in User
  BY DEF Typed
<1>3. ASSUME NEW role \in Roles, NEW active \in BOOLEAN,
             UpdateReads(a, u, role, active)
      PROVE  \E r : /\ RequestTyped(r) /\ Counted(r)
                    /\ r.op \in Administration /\ r.session = NoSession
                    /\ Reads(a, r)
  <2> DEFINE row == [users[u] EXCEPT !.role = role, !.active = active]
             q == Ask("update", u, row)
             r == [q EXCEPT !.counts = TakesAdmin(u, role, active)]
  <2>1. row \in User /\ row.role = role /\ row.active = active
    BY <1>2 DEF User
  <2>11. /\ RequestTyped(q) /\ q.op = "update" /\ q.user = u
         /\ q.admins = ActiveAdmins /\ q.writes = Changes(users[u], row)
         /\ q.session = NoSession
    <3>1. "update" \in Ops
      BY DEF Ops, Administration
    <3> HIDE DEF row
    <3>2. QED
      BY <2>1, <3>1, AskTyped
  <2>12. /\ r.op = q.op /\ r.user = q.user /\ r.admins = q.admins
         /\ r.writes = q.writes /\ r.session = q.session
         /\ r.counts = TakesAdmin(u, role, active)
         /\ DOMAIN r = DOMAIN q
    BY DEF Ask, Idle
  <2>3. Reads(a, r)
    BY <1>3 DEF UpdateReads
  <2> HIDE DEF q, r
  <2>2. /\ RequestTyped(r) /\ r.op = "update" /\ r.user = u
        /\ r.admins = ActiveAdmins /\ r.writes = Changes(users[u], row)
    BY <2>11, <2>12 DEF RequestTyped, TakesAdmin, Administration
  <2>4. u \in ActiveAdmins => users[u].role = "admin" /\ users[u].active
    BY DEF ActiveAdmins, Active
  <2>5. users[u].role = role => r.writes.role = {}
    BY <2>1, <2>2 DEF Changes, Changed
  <2>6. users[u].active = active => r.writes.active = {}
    BY <2>1, <2>2 DEF Changes, Changed
  <2>7. users[u].active \in BOOLEAN
    BY <1>2 DEF User
  <2>8. u \in ActiveAdmins /\ ~r.counts
           => r.writes.role = {} /\ r.writes.active = {}
    BY <2>12, <2>4, <2>5, <2>6, <2>7 DEF TakesAdmin
  <2>9. Counted(r)
    BY <2>2, <2>8 DEF Counted, Administration, SigningIn
  <2>10. QED
    BY <2>2, <2>3, <2>9, <2>11, <2>12 DEF Administration
<1>4. ASSUME ReissueActivationReads(a, u)
      PROVE  \E r : /\ RequestTyped(r) /\ Counted(r)
                    /\ r.op \in Administration /\ r.session = NoSession
                    /\ Reads(a, r)
  <2> DEFINE row == [users[u] EXCEPT !.active = FALSE, !.secret = FALSE,
                                     !.totp_enabled = FALSE]
             q == Ask("reissue-activation", u, row)
             r == [q EXCEPT !.writes.activation = {TRUE},
                            !.counts = TakesAdmin(u, users[u].role, FALSE)]
  <2>1. row \in User
    BY <1>2 DEF User
  <2>2. /\ RequestTyped(q) /\ q.op = "reissue-activation" /\ q.user = u
        /\ q.admins = ActiveAdmins /\ q.session = NoSession
    BY <2>1, AskTyped DEF Ops, Administration
  <2>3. /\ r.op = q.op /\ r.user = q.user /\ r.admins = q.admins
        /\ r.session = q.session
        /\ r.writes = [q.writes EXCEPT !.activation = {TRUE}]
        /\ r.counts = TakesAdmin(u, users[u].role, FALSE)
        /\ DOMAIN r = DOMAIN q
    BY DEF Ask, Idle
  <2>5. Reads(a, r)
    BY <1>4 DEF ReissueActivationReads
  <2> HIDE DEF r, q
  <2>4. r.writes \in Writes
    BY <2>2, <2>3, NewCodeTyped DEF RequestTyped
  <2>6. RequestTyped(r)
    BY <2>2, <2>3, <2>4 DEF RequestTyped, TakesAdmin, Administration
  <2>7. Counted(r)
    BY <2>2, <2>3 DEF Counted, TakesAdmin, Administration, SigningIn
  <2>8. QED
    BY <2>2, <2>3, <2>5, <2>6, <2>7 DEF Administration
<1>5. ASSUME Reissue2faReads(a, u)
      PROVE  \E r : /\ RequestTyped(r) /\ Counted(r)
                    /\ r.op \in Administration /\ r.session = NoSession
                    /\ Reads(a, r)
  <2> DEFINE q == Ask("reissue-2fa", u, users[u])
             r == [q EXCEPT !.writes.reset = {TRUE}]
  <2>1. /\ RequestTyped(q) /\ q.op = "reissue-2fa" /\ q.user = u
        /\ q.admins = ActiveAdmins /\ q.writes = Changes(users[u], users[u])
        /\ q.session = NoSession /\ ~q.counts
    BY <1>2, AskTyped DEF Ops, Administration
  <2>2. /\ r.op = q.op /\ r.user = q.user /\ r.admins = q.admins
        /\ r.session = q.session
        /\ r.writes = [q.writes EXCEPT !.reset = {TRUE}]
        /\ r.counts = q.counts /\ DOMAIN r = DOMAIN q
    BY DEF Ask, Idle
  <2>4. r.writes.role = {} /\ r.writes.active = {}
    BY <2>1, <2>2 DEF Changes, Changed
  <2>5. Reads(a, r)
    BY <1>5 DEF Reissue2faReads
  <2> HIDE DEF r, q
  <2>3. r.writes \in Writes
    BY <2>1, <2>2, NewCodeTyped DEF RequestTyped
  <2>6. RequestTyped(r)
    BY <2>1, <2>2, <2>3 DEF RequestTyped
  <2>7. Counted(r)
    BY <2>1, <2>2, <2>4 DEF Counted, Administration, SigningIn
  <2>8. QED
    BY <2>1, <2>2, <2>5, <2>6, <2>7 DEF Administration
<1>6. ASSUME RemoveReads(a, u)
      PROVE  \E r : /\ RequestTyped(r) /\ Counted(r)
                    /\ r.op \in Administration /\ r.session = NoSession
                    /\ Reads(a, r)
  <2> DEFINE q == Ask("remove", u, users[u])
             r == [q EXCEPT !.counts = TakesAdmin(u, users[u].role, FALSE)]
  <2>4. /\ RequestTyped(q) /\ q.op = "remove" /\ q.user = u
        /\ q.admins = ActiveAdmins /\ q.session = NoSession
    BY <1>2, AskTyped DEF Ops, Administration
  <2>5. /\ r.op = q.op /\ r.user = q.user /\ r.admins = q.admins
        /\ r.writes = q.writes /\ r.session = q.session
        /\ r.counts = TakesAdmin(u, users[u].role, FALSE)
        /\ DOMAIN r = DOMAIN q
    BY DEF Ask, Idle
  <2>2. Reads(a, r)
    BY <1>6 DEF RemoveReads
  <2> HIDE DEF q, r
  <2>1. /\ RequestTyped(r) /\ r.op = "remove" /\ r.session = NoSession
        /\ r.user = u /\ r.admins = ActiveAdmins
    BY <2>4, <2>5 DEF RequestTyped, TakesAdmin, Administration
  <2>3. Counted(r)
    BY <2>1, <2>5 DEF Counted, TakesAdmin, Administration, SigningIn
  <2>6. QED
    BY <2>1, <2>2, <2>3 DEF Administration
<1>7. QED
  BY <1>1, <1>3, <1>4, <1>5, <1>6

(***************************************************************************)
(* The inductive invariant.                                                *)
(***************************************************************************)
\* An id that is free holds nothing for the account that it will be given to.
NothingLeft ==
    \A u \in Users : ~users[u].exists => SessionsOf(u) = {} /\ tokens[u] = 0

AccountsInvariant == /\ Typed
                     /\ \A a \in Actors : Counted(request[a])
                     /\ TokensNearCap
                     /\ NothingLeft

Pending(u) == {a \in Threads : request[a].op = "token" /\ request[a].user = u}

LEMMA ThreadsFinite ==
    /\ IsFiniteSet(Threads)
    /\ Cardinality(Threads) \in Nat /\ Cardinality(Threads) >= 1
<1>1. IsFiniteSet(Threads) /\ Threads # {}
  BY AccountsAssumption
<1>2. QED
  BY <1>1, FS_CardinalityType, FS_EmptySet

LEMMA PendingFinite ==
    ASSUME NEW u
    PROVE  /\ IsFiniteSet(Pending(u))
           /\ Cardinality(Pending(u)) \in Nat
           /\ Cardinality(Pending(u)) <= Cardinality(Threads)
<1>1. Pending(u) \subseteq Threads
  BY DEF Pending
<1>2. QED
  BY <1>1, ThreadsFinite, FS_Subset, FS_CardinalityType

(***************************************************************************)
(* A step that gives no token, and begins or ends anything but a request   *)
(* for one, keeps the invariant when it leaves nothing behind.             *)
(***************************************************************************)
LEMMA Keeping ==
    ASSUME AccountsInvariant, NEW a \in Actors, NEW r,
           RequestTyped(r), Counted(r), r.op # "token",
           \/ request' = [request EXCEPT ![a] = r]
           \/ request' = request,
           users' \in [Users -> User], tokens' \in [Users -> Nat],
           \A u \in Users : tokens'[u] <= tokens[u],
           \A s \in sessions' : Shaped(s),
           NothingLeft'
    PROVE  AccountsInvariant'
<1> USE DEF AccountsInvariant
<1>1. /\ DOMAIN request' = Actors
      /\ \A b \in Actors : RequestTyped(request'[b])
      /\ \A b \in Actors : request'[b] = request[b] \/ (b = a /\ request'[b] = r)
  <2>1. CASE request' = [request EXCEPT ![a] = r]
    BY <2>1, OneRequestTyped
  <2>2. CASE request' = request
    BY <2>2 DEF Typed
  <2>3. QED
    BY <2>1, <2>2
<1>2. Typed'
  BY <1>1 DEF AccountsInvariant, Typed, RequestTyped, Shaped
<1>3. \A b \in Actors : Counted(request'[b])
  BY <1>1 DEF AccountsInvariant, Actors
<1>4. (\A b \in Actors : Counted(request[b]))'
  BY <1>3 DEF Counted, Administration, SigningIn
<1>5. ASSUME NEW u \in Users
      PROVE  tokens'[u] + Cardinality(Pending(u)')
                 <= MaxTokens + Cardinality(Threads) - 1
  <2>1. Pending(u)' \subseteq Pending(u)
    BY <1>1 DEF Pending, Actors
  <2>2. /\ Cardinality(Pending(u)') <= Cardinality(Pending(u))
        /\ Cardinality(Pending(u)') \in Nat /\ Cardinality(Pending(u)) \in Nat
    BY <2>1, PendingFinite, FS_Subset, FS_CardinalityType
  <2>3. tokens[u] + Cardinality(Pending(u))
            <= MaxTokens + Cardinality(Threads) - 1
    BY DEF AccountsInvariant, TokensNearCap, Pending
  <2>4. tokens'[u] \in Nat /\ tokens[u] \in Nat /\ tokens'[u] <= tokens[u]
    BY DEF AccountsInvariant, Typed
  <2>5. MaxTokens \in Nat /\ Cardinality(Threads) \in Nat
    BY AccountsAssumption, ThreadsFinite
  <2>6. QED
    BY <2>2, <2>3, <2>4, <2>5
<1>6. TokensNearCap'
  BY <1>5 DEF TokensNearCap, Pending
<1>7. QED
  BY <1>2, <1>4, <1>6 DEF AccountsInvariant

LEMMA ReadsKeeps ==
    ASSUME AccountsInvariant, NEW a \in Actors, NEW r,
           RequestTyped(r), Counted(r), r.op # "token",
           Reads(a, r)
    PROVE  AccountsInvariant'
<1>1. /\ users' = users /\ sessions' = sessions /\ tokens' = tokens
      /\ request' = [request EXCEPT ![a] = r]
  BY DEF Reads
<1>2. NothingLeft'
  BY <1>1 DEF AccountsInvariant, NothingLeft, SessionsOf
<1>3. \A u \in Users : tokens'[u] <= tokens[u]
  BY <1>1 DEF AccountsInvariant, Typed
<1>4. QED
  BY <1>1, <1>2, <1>3, Keeping DEF AccountsInvariant, Typed

LEMMA IdleCounted == Counted(Idle) /\ RequestTyped(Idle) /\ Idle.op # "token"
  BY IdleTyped DEF Counted, Idle, Administration, SigningIn

\* The count of ensure_not_last_admin ends the request, or finds two.
LEMMA AdminCountsEither ==
    ASSUME AccountsInvariant, NEW a \in Threads, AdminCounts(a)
    PROVE  \/ Ends(a) /\ UNCHANGED <<users, sessions, tokens, inherited>>
           \/ \E r : /\ RequestTyped(r) /\ Counted(r)
                    /\ r.op \in Administration
                    /\ r.session = request[a].session
                    /\ Reads(a, r)
<1>1. CASE Cardinality(ActiveAdmins) <= 1
  BY <1>1 DEF AdminCounts, Done
<1>2. CASE ~(Cardinality(ActiveAdmins) <= 1)
  <2> DEFINE q == request[a]
             r == [q EXCEPT !.counts = FALSE, !.admins = ActiveAdmins]
  <2>1. RequestTyped(q) /\ q.counts
    BY DEF AdminCounts, AccountsInvariant, Typed, Actors
  <2>2. Reads(a, r)
    BY <1>2 DEF AdminCounts
  <2>3. q.op \in Administration
    BY <2>1 DEF RequestTyped
  <2>4. /\ r.op = q.op /\ r.user = q.user /\ r.writes = q.writes
        /\ r.session = q.session /\ r.counts = FALSE
        /\ r.admins = ActiveAdmins /\ DOMAIN r = DOMAIN q
    BY <2>1 DEF RequestTyped
  <2>5. ActiveAdmins \in SUBSET Users
    BY DEF ActiveAdmins
  <2> HIDE DEF r
  <2>6. RequestTyped(r)
    BY <2>1, <2>4, <2>5 DEF RequestTyped
  <2>7. Counted(r)
    BY <1>2, <2>3, <2>4 DEF Counted, Administration, SigningIn
  <2> QED
    BY <2>2, <2>3, <2>4, <2>6, <2>7
<1> QED
  BY <1>1, <1>2

(***************************************************************************)
(* A handler that has written is done.                                     *)
(***************************************************************************)
LEMMA DoneKeeps ==
    ASSUME AccountsInvariant, NEW a \in Actors, Ends(a) \/ request' = request,
           users' \in [Users -> User], tokens' \in [Users -> Nat],
           \A u \in Users : tokens'[u] <= tokens[u],
           \A s \in sessions' : Shaped(s),
           \A u \in Users : ~users'[u].exists =>
               tokens'[u] = 0 /\ \A s \in sessions' : s.user # u
    PROVE  AccountsInvariant'
<1>1. NothingLeft'
  BY DEF NothingLeft, SessionsOf
<1>2. QED
  BY <1>1, IdleCounted, Keeping DEF Ends

(***************************************************************************)
(* What the invariant says of an account that is not there.                *)
(***************************************************************************)
LEMMA NothingThere ==
    ASSUME AccountsInvariant
    PROVE  /\ \A u \in Users : ~users[u].exists =>
                 tokens[u] = 0 /\ \A s \in sessions : s.user # u
           /\ \A s \in sessions : Shaped(s)
           /\ users \in [Users -> User] /\ tokens \in [Users -> Nat]
           /\ \A a \in Actors : RequestTyped(request[a])
           /\ \A u \in Users : tokens[u] <= tokens[u]
  BY DEF AccountsInvariant, NothingLeft, SessionsOf, Typed

(***************************************************************************)
(* The steps that write, one lemma for each.                               *)
(***************************************************************************)
LEMMA SessionEndsKeeps ==
    ASSUME AccountsInvariant, NEW s \in sessions, SessionEnds(s)
    PROVE  AccountsInvariant'
<1> DEFINE ended == Ended(s)
<1>1. /\ sessions' = (sessions \ {s}) \cup {ended}
      /\ users' = users /\ tokens' = tokens /\ request' = request
  BY DEF SessionEnds
<1>3. Shaped(ended) /\ ended.user = s.user
  BY EndedShaped, NothingThere
<1> HIDE DEF ended
<1>4. \A q \in sessions' : Shaped(q) /\ \E p \in sessions : p.user = q.user
  BY <1>1, <1>3, NothingThere
<1>5. Loop \in Actors
  BY DEF Actors
<1>6. QED
  BY <1>1, <1>4, <1>5, DoneKeeps, NothingThere

LEMMA CreateUserKeeps ==
    ASSUME AccountsInvariant, NEW a \in Threads, NEW u \in Users,
           NEW role \in Roles, CreateUser(a, u, role)
    PROVE  AccountsInvariant'
<1> DEFINE row == [New(role) EXCEPT !.activation = TRUE]
<1>1. row \in User /\ row.exists = TRUE
  BY DEF New, NoUser, User, Roles
<1>2. /\ users' = [users EXCEPT ![u] = row]
      /\ sessions' = sessions /\ tokens' = tokens /\ Ends(a)
  BY DEF CreateUser
<1> HIDE DEF row
<1>3. /\ users' \in [Users -> User]
      /\ \A v \in Users : ~users'[v].exists => ~users[v].exists
  BY <1>1, <1>2, NothingThere
<1>4. QED
  BY <1>2, <1>3, DoneKeeps, NothingThere DEF Actors

LEMMA AdminCountsKeeps ==
    ASSUME AccountsInvariant, NEW a \in Threads, AdminCounts(a)
    PROVE  AccountsInvariant'
<1>1. a \in Actors
  BY DEF Actors
<1>2. CASE Ends(a) /\ UNCHANGED <<users, sessions, tokens>>
  BY <1>1, <1>2, DoneKeeps, NothingThere
<1>3. ASSUME NEW r, RequestTyped(r), Counted(r), r.op \in Administration,
             Reads(a, r)
      PROVE  AccountsInvariant'
  <2>1. r.op # "token"
    BY <1>3 DEF Administration
  <2> QED
    BY <1>1, <1>3, <2>1, ReadsKeeps
<1> QED
  BY <1>2, <1>3, AdminCountsEither

LEMMA NoUserType == NoUser \in User /\ NoUser.exists = FALSE
  BY DEF NoUser, User, Roles

LEMMA AdminWritesKeeps ==
    ASSUME AccountsInvariant, NEW a \in Threads, AdminWrites(a)
    PROVE  AccountsInvariant'
<1> DEFINE r == request[a]
<1>1. /\ RequestTyped(r) /\ a \in Actors /\ Ends(a)
  BY NothingThere DEF AdminWrites, Actors, Done
<1>2. CASE ~users[r.user].exists
  <2>1. users' = users /\ sessions' = sessions /\ tokens' = tokens
    BY <1>2 DEF AdminWrites
  <2>2. QED
    BY <1>1, <2>1, DoneKeeps, NothingThere
<1>3. CASE users[r.user].exists
  <2>1. \/ sessions' = sessions /\ tokens' = tokens /\ r.op # "remove"
        \/ Revoke(r.user)
    BY <1>3 DEF AdminWrites, Keeps
  <2>2. /\ tokens' \in [Users -> Nat]
        /\ \A u \in Users : tokens'[u] <= tokens[u]
        /\ sessions' \subseteq sessions
    BY <2>1, NothingThere DEF Revoke
  <2>3. \A u \in Users : ~users[u].exists =>
            tokens'[u] = 0 /\ \A s \in sessions' : s.user # u
    BY <2>1, <2>2, NothingThere DEF Revoke
  <2>4. CASE r.op = "remove"
    <3>1. users' = [users EXCEPT ![r.user] = NoUser] /\ Revoke(r.user)
      BY <1>3, <2>1, <2>4 DEF AdminWrites
    <3>2. /\ users' \in [Users -> User]
          /\ \A u \in Users \ {r.user} : users'[u] = users[u]
      BY <3>1, NoUserType, NothingThere
    <3>3. tokens'[r.user] = 0 /\ \A s \in sessions' : s.user # r.user
      BY <1>1, <3>1, NothingThere DEF Revoke, SessionsOf, RequestTyped
    <3>4. \A u \in Users : ~users'[u].exists =>
              tokens'[u] = 0 /\ \A s \in sessions' : s.user # u
      BY <2>3, <3>2, <3>3
    <3>5. QED
      BY <1>1, <2>2, <3>2, <3>4, DoneKeeps, NothingThere
  <2>5. CASE r.op # "remove"
    <3>1. users' = Updated(r)
      BY <1>3, <2>5 DEF AdminWrites
    <3>2. /\ users' \in [Users -> User]
          /\ \A u \in Users : users'[u].exists = users[u].exists
      BY <1>1, <3>1, UpdatedTyped DEF AccountsInvariant
    <3>3. QED
      BY <1>1, <2>2, <2>3, <3>2, DoneKeeps, NothingThere
  <2>6. QED
    BY <2>4, <2>5
<1>4. QED
  BY <1>2, <1>3

(***************************************************************************)
(* A session that is created belongs to an account that is there.          *)
(***************************************************************************)
LEMMA SignInKeeps ==
    ASSUME AccountsInvariant, NEW a \in Actors, NEW rows, NEW level,
           \A s \in rows : Shaped(s) /\ \E q \in sessions : q.user = s.user,
           users[request[a].user].exists, Ends(a),
           users' = Updated(request[a]),
           sessions' = WithSession(rows, request[a].user, level),
           tokens' \in [Users -> Nat],
           \A u \in Users : tokens'[u] <= tokens[u]
    PROVE  AccountsInvariant'
<1> DEFINE r == request[a]
<1>1. RequestTyped(r)
  BY NothingThere
<1>2. /\ users' \in [Users -> User]
      /\ \A u \in Users : users'[u].exists = users[u].exists
  BY <1>1, UpdatedTyped DEF AccountsInvariant
<1>3. \A s \in sessions' :
          Shaped(s) /\ (s.user = r.user \/ \E q \in sessions : q.user = s.user)
  BY <1>1, WithSessionShaped DEF RequestTyped
<1>4. ASSUME NEW u \in Users, ~users'[u].exists
      PROVE  tokens'[u] = 0 /\ \A s \in sessions' : s.user # u
  <2>1. ~users[u].exists /\ u # r.user
    BY <1>2, <1>4
  <2>2. tokens[u] = 0 /\ \A q \in sessions : q.user # u
    BY <2>1, NothingThere
  <2>3. tokens'[u] = 0
    BY <2>2
  <2>4. QED
    BY <1>3, <2>1, <2>2, <2>3
<1>5. QED
  BY <1>2, <1>3, <1>4, DoneKeeps

LEMMA LoopWritesKeeps ==
    ASSUME AccountsInvariant, LoopWrites
    PROVE  AccountsInvariant'
<1> DEFINE r == request[Loop]
           rows == IF r.op = "login" THEN sessions
                   ELSE sessions \ SessionsOf(r.user)
<1>1. Loop \in Actors /\ Ends(Loop) /\ RequestTyped(r)
  BY NothingThere DEF LoopWrites, Actors, Done
<1>2. CASE users[r.user].exists
  <2>1. /\ users' = Updated(r)
        /\ sessions' = WithSession(rows, r.user, LevelFor(r.op))
        /\ \/ tokens' = tokens
           \/ tokens' = [tokens EXCEPT ![r.user] = 0]
    BY <1>2 DEF LoopWrites
  <2>2. /\ tokens' \in [Users -> Nat]
        /\ \A u \in Users : tokens'[u] <= tokens[u]
    BY <2>1, NothingThere
  <2>3. \A s \in rows : Shaped(s) /\ \E q \in sessions : q.user = s.user
    BY NothingThere
  <2> HIDE DEF rows
  <2>4. QED
    BY <1>1, <1>2, <2>1, <2>2, <2>3, SignInKeeps
<1>3. CASE ~users[r.user].exists
  <2>1. users' = users /\ sessions' = sessions /\ tokens' = tokens
    BY <1>3 DEF LoopWrites
  <2>2. QED
    BY <1>1, <2>1, DoneKeeps, NothingThere
<1>4. QED
  BY <1>2, <1>3

LEMMA VerifyWritesKeeps ==
    ASSUME AccountsInvariant, NEW a \in Threads, VerifyWrites(a)
    PROVE  AccountsInvariant'
<1> DEFINE r == request[a]
           row == {s \in sessions : s.id = r.session.id}
           ended == (sessions \ row) \cup {Ended(s) : s \in row}
<1>1. a \in Actors /\ Ends(a) /\ RequestTyped(r) /\ tokens' = tokens
  BY NothingThere DEF VerifyWrites, Actors, Done
<1>2. CASE users[r.user].exists /\ row # {}
  <2>1. /\ users' = Updated(r)
        /\ sessions' = WithSession(ended, r.user, "full")
    BY <1>2 DEF VerifyWrites
  <2>3. \A s \in ended : Shaped(s) /\ \E q \in sessions : q.user = s.user
    BY EndedShaped, NothingThere
  <2> HIDE DEF ended
  <2>4. QED
    BY <1>1, <1>2, <2>1, <2>3, SignInKeeps, NothingThere
<1>3. CASE ~(users[r.user].exists /\ row # {})
  <2>1. users' = users /\ sessions' = sessions
    BY <1>3 DEF VerifyWrites
  <2>2. QED
    BY <1>1, <2>1, DoneKeeps, NothingThere
<1>4. QED
  BY <1>2, <1>3

LEMMA SetupKeeps ==
    ASSUME AccountsInvariant, NEW u \in Users, Setup(u)
    PROVE  AccountsInvariant'
<1> DEFINE row == [New("admin") EXCEPT !.secret = TRUE]
           rows == {s \in sessions : Active(s.user)}
<1>1. row \in User /\ row.exists = TRUE
  BY DEF New, NoUser, User, Roles
<1>2. /\ users' = [v \in Users |-> IF v = u THEN row
                                   ELSE IF Active(v) THEN users[v] ELSE NoUser]
      /\ sessions' = WithSession(rows, u, "mfa_setup")
      /\ tokens' = [v \in Users |-> IF Active(v) THEN tokens[v] ELSE 0]
      /\ request' = request
  BY DEF Setup
<1>3. /\ \A s \in sessions' :
            Shaped(s) /\ (s.user = u \/ \E q \in rows : q.user = s.user)
  <2>1. \A s \in rows : Shaped(s)
    BY NothingThere
  <2> HIDE DEF rows
  <2>2. QED
    BY <1>2, <2>1, WithSessionShaped
<1> HIDE DEF row
<1>4. users' \in [Users -> User]
  BY <1>1, <1>2, NoUserType, NothingThere
<1>5. tokens' \in [Users -> Nat] /\ \A v \in Users : tokens'[v] <= tokens[v]
  BY <1>2, NothingThere
<1>6. ASSUME NEW v \in Users, ~users'[v].exists
      PROVE  tokens'[v] = 0 /\ \A s \in sessions' : s.user # v
  <2>1. v # u
    BY <1>1, <1>2, <1>6
  <2>2. ~Active(v)
    BY <1>2, <1>6, <2>1 DEF Active
  <2>3. QED
    BY <1>2, <1>3, <2>1, <2>2
<1>7. Loop \in Actors
  BY DEF Actors
<1>8. QED
  BY <1>2, <1>3, <1>4, <1>5, <1>6, <1>7, DoneKeeps

LEMMA RecoverAdminKeeps ==
    ASSUME AccountsInvariant, NEW u \in Users, RecoverAdmin(u)
    PROVE  AccountsInvariant'
<1>1. /\ users' = [users EXCEPT ![u].activation = FALSE, ![u].reset = FALSE]
      /\ Revoke(u) /\ request' = request
  BY DEF RecoverAdmin
<1>2. /\ users' \in [Users -> User]
      /\ \A v \in Users : users'[v].exists = users[v].exists
  <2> DEFINE row == [users[u] EXCEPT !.activation = FALSE, !.reset = FALSE]
  <2>1. row \in User /\ row.exists = users[u].exists
    BY NothingThere DEF User
  <2>2. users' = [users EXCEPT ![u] = row]
    BY <1>1
  <2> HIDE DEF row
  <2>3. QED
    BY <2>1, <2>2, NothingThere
<1>3. /\ tokens' \in [Users -> Nat] /\ sessions' \subseteq sessions
      /\ \A v \in Users : tokens'[v] <= tokens[v]
  BY <1>1, NothingThere DEF Revoke
<1>4. Loop \in Actors
  BY DEF Actors
<1>5. \A v \in Users : ~users'[v].exists =>
          tokens'[v] = 0 /\ \A s \in sessions' : s.user # v
  BY <1>1, <1>2, <1>3, NothingThere DEF Revoke
<1>6. QED
  BY <1>1, <1>2, <1>3, <1>4, <1>5, DoneKeeps, NothingThere

LEMMA TokenEndsKeeps ==
    ASSUME AccountsInvariant, NEW u \in Users, TokenEnds(u)
    PROVE  AccountsInvariant'
<1>1. /\ tokens' = [tokens EXCEPT ![u] = @ - 1] /\ tokens[u] > 0
      /\ users' = users /\ sessions' = sessions /\ request' = request
  BY DEF TokenEnds
<1>2. /\ tokens' \in [Users -> Nat]
      /\ \A v \in Users : tokens'[v] <= tokens[v]
  BY <1>1, NothingThere
<1>3. \A v \in Users : ~users'[v].exists =>
          tokens'[v] = 0 /\ \A s \in sessions' : s.user # v
  BY <1>1, <1>2, NothingThere
<1>4. Loop \in Actors
  BY DEF Actors
<1>5. QED
  BY <1>1, <1>2, <1>3, <1>4, DoneKeeps, NothingThere

(***************************************************************************)
(* Requests for a token.  The count admits one below the limit; everyone   *)
(* who waits to insert is one of the threads.                              *)
(***************************************************************************)
LEMMA TokenReadsKeeps ==
    ASSUME AccountsInvariant, NEW a \in Threads, TokenReads(a)
    PROVE  AccountsInvariant'
<1> DEFINE u == request[a].user
           r == Ask("token", u, users[u])
<1>1. a \in Actors /\ u \in Users /\ users[u] \in User
  BY NothingThere DEF Actors, RequestTyped
<1>2. RequestTyped(r) /\ r.op = "token" /\ r.user = u
  <2>1. Typed /\ "token" \in Ops
    BY DEF AccountsInvariant, Ops
  <2> HIDE DEF u
  <2> QED
    BY <1>1, <2>1, AskTyped
<1>3. /\ users' = users /\ sessions' = sessions /\ tokens' = tokens
      /\ request' = [request EXCEPT ![a] = r]
      /\ tokens[u] < MaxTokens
  BY DEF TokenReads, Reads, TokensAdmitted
<1> HIDE DEF r, u
<1>4. /\ DOMAIN request' = Actors
      /\ \A b \in Actors : RequestTyped(request'[b])
      /\ request'[a] = r
      /\ \A b \in Actors \ {a} : request'[b] = request[b]
  BY <1>1, <1>2, <1>3, OneRequestTyped DEF AccountsInvariant
<1>5. Typed'
  BY <1>3, <1>4 DEF AccountsInvariant, Typed, RequestTyped, Shaped
<1>6. Counted(r)
  BY <1>2 DEF Counted, Administration, SigningIn
<1>7. (\A b \in Actors : Counted(request[b]))'
  BY <1>4, <1>6 DEF AccountsInvariant, Counted, Actors
<1>8. NothingLeft'
  BY <1>3 DEF AccountsInvariant, NothingLeft, SessionsOf
<1>9. ASSUME NEW v \in Users
      PROVE  tokens'[v] + Cardinality(Pending(v)')
                 <= MaxTokens + Cardinality(Threads) - 1
  <2>1. MaxTokens \in Nat /\ Cardinality(Threads) \in Nat /\ tokens[v] \in Nat
    BY AccountsAssumption, ThreadsFinite, NothingThere
  <2>2. CASE v = u
    <3>1. Pending(v)' \subseteq Threads
      BY DEF Pending
    <3>2. /\ Cardinality(Pending(v)') \in Nat
          /\ Cardinality(Pending(v)') <= Cardinality(Threads)
      BY <3>1, ThreadsFinite, FS_Subset, FS_CardinalityType
    <3>3. QED
      BY <1>3, <2>1, <2>2, <3>2
  <2>3. CASE v # u
    <3>1. Pending(v)' \subseteq Pending(v)
      BY <1>2, <1>4, <2>3 DEF Pending, Actors
    <3>2. /\ Cardinality(Pending(v)') <= Cardinality(Pending(v))
          /\ Cardinality(Pending(v)') \in Nat /\ Cardinality(Pending(v)) \in Nat
      BY <3>1, PendingFinite, FS_Subset, FS_CardinalityType
    <3>3. tokens[v] + Cardinality(Pending(v))
              <= MaxTokens + Cardinality(Threads) - 1
      BY DEF AccountsInvariant, TokensNearCap, Pending
    <3>4. QED
      BY <1>3, <2>1, <3>2, <3>3
  <2>4. QED
    BY <2>2, <2>3
<1>10. TokensNearCap'
  BY <1>9 DEF TokensNearCap, Pending
<1>11. QED
  BY <1>5, <1>7, <1>8, <1>10 DEF AccountsInvariant

LEMMA TokenWritesKeeps ==
    ASSUME AccountsInvariant, NEW a \in Threads, TokenWrites(a)
    PROVE  AccountsInvariant'
<1> DEFINE u == request[a].user
<1>1. /\ a \in Actors /\ u \in Users /\ request[a].op = "token"
      /\ users' = users /\ sessions' = sessions /\ Ends(a)
  BY NothingThere DEF Actors, RequestTyped, TokenWrites, Done
<1>2. CASE ~users[u].exists
  <2>1. tokens' = tokens
    BY <1>2 DEF TokenWrites
  <2>2. QED
    BY <1>1, <2>1, DoneKeeps, NothingThere
<1>3. CASE users[u].exists
  <2>1. tokens' = [tokens EXCEPT ![u] = @ + 1]
    BY <1>3 DEF TokenWrites
  <2> HIDE DEF u
  <2>2. tokens' \in [Users -> Nat]
    BY <1>1, <2>1, NothingThere
  <2>3. request' = [request EXCEPT ![a] = Idle]
    BY <1>1 DEF Ends
  <2>4. /\ DOMAIN request' = Actors
        /\ \A b \in Actors : RequestTyped(request'[b])
        /\ request'[a] = Idle
        /\ \A b \in Actors \ {a} : request'[b] = request[b]
    BY <1>1, <2>3, IdleTyped, OneRequestTyped DEF AccountsInvariant
  <2>5. Typed'
    BY <1>1, <2>2, <2>4 DEF AccountsInvariant, Typed, RequestTyped, Shaped
  <2>6. (\A b \in Actors : Counted(request[b]))'
    BY <2>4, IdleCounted DEF AccountsInvariant, Counted, Actors
  <2>7. NothingLeft'
    BY <1>1, <1>3, <2>1, NothingThere DEF NothingLeft, SessionsOf, u
  <2>8. ASSUME NEW v \in Users
        PROVE  tokens'[v] + Cardinality(Pending(v)')
                   <= MaxTokens + Cardinality(Threads) - 1
    <3>1. /\ MaxTokens \in Nat /\ Cardinality(Threads) \in Nat
          /\ tokens[v] \in Nat /\ Cardinality(Pending(v)) \in Nat
          /\ IsFiniteSet(Pending(v))
      BY AccountsAssumption, ThreadsFinite, NothingThere, PendingFinite
    <3>2. tokens[v] + Cardinality(Pending(v))
              <= MaxTokens + Cardinality(Threads) - 1
      BY DEF AccountsInvariant, TokensNearCap, Pending
    <3>3. Pending(v)' = Pending(v) \ {a}
      BY <2>4, IdleCounted DEF Pending, Actors
    <3>4. /\ a \in Pending(v) <=> v = u
          /\ tokens'[v] = IF v = u THEN tokens[v] + 1 ELSE tokens[v]
      BY <1>1, <2>1, NothingThere DEF Pending, u
    <3>5. Cardinality(Pending(v)') = IF v = u THEN Cardinality(Pending(v)) - 1
                                     ELSE Cardinality(Pending(v))
      BY <3>1, <3>3, <3>4, FS_RemoveElement
    <3>6. QED
      BY <3>1, <3>2, <3>4, <3>5
  <2>9. TokensNearCap'
    BY <2>8 DEF TokensNearCap, Pending
  <2>10. QED
    BY <2>5, <2>6, <2>7, <2>9 DEF AccountsInvariant
<1>4. QED
  BY <1>2, <1>3

(***************************************************************************)
(* The requests that only read.                                            *)
(***************************************************************************)
LEMMA AdmitKeeps ==
    ASSUME AccountsInvariant, NEW a \in Threads, NEW u \in Users,
           NEW method \in {"session", "bearer"}, Admit(a, u, method)
    PROVE  AccountsInvariant'
<1> DEFINE r == [Idle EXCEPT !.op = method, !.user = u,
                             !.admins = ActiveAdmins \cap {u}]
<1>1. Reads(a, r) /\ a \in Actors
  BY DEF Admit, Actors
<1>2. r.op = method /\ r.user = u /\ r.writes = Nothing
      /\ r.admins \in SUBSET Users
      /\ r.counts = FALSE /\ {"admins", "counts"} \subseteq DOMAIN r
  BY DEF Idle, ActiveAdmins
<1> HIDE DEF r
<1>3. r.counts \in BOOLEAN /\ ~r.counts
  BY <1>2
<1>4. /\ r.op \in Ops /\ r.op # "token"
      /\ r.op \notin Administration \cup SigningIn \cup {"verify"}
  BY <1>2 DEF Ops, Administration, SigningIn
<1>5. Nothing \in Writes
  BY DEF Nothing, Writes
<1>6. RequestTyped(r)
  BY <1>2, <1>3, <1>4, <1>5 DEF RequestTyped
<1>7. Counted(r)
  BY <1>4 DEF Counted
<1> QED
  BY <1>1, <1>4, <1>6, <1>7, ReadsKeeps

LEMMA VerifyReadsKeeps ==
    ASSUME AccountsInvariant, NEW a \in Threads, NEW s \in sessions,
           VerifyReads(a, s)
    PROVE  AccountsInvariant'
<1>1. s.user \in Users
  BY NothingThere DEF Shaped
<1> DEFINE on == s.level \in Enrolment
           row == [users[s.user] EXCEPT !.active = @ \/ on,
                                        !.totp_enabled = @ \/ on]
           q == Ask("verify", s.user, row)
           r == [q EXCEPT !.session = s]
<1>2. users[s.user] \in User
  BY <1>1, NothingThere
<1>3. row \in User
  BY <1>2 DEF User
<1>4. RequestTyped(q) /\ q.op = "verify"
  <2> HIDE DEF row
  <2>1. QED
    BY <1>1, <1>3, AskTyped DEF AccountsInvariant, Ops
<1>5. Reads(a, r)
  BY DEF VerifyReads
<1>9. q.writes.role = {} /\ FALSE \notin q.writes.active
  <2>1. q.writes = Changes(users[s.user], row)
    <3> HIDE DEF row
    <3>1. QED
      BY <1>1, <1>3, AskTyped DEF AccountsInvariant, Ops
  <2>2. /\ row.role = users[s.user].role
        /\ row.active = users[s.user].active \/ row.active = TRUE
    BY <1>2 DEF User
  <2> HIDE DEF q, row
  <2>3. QED
    BY <1>2, <1>3, <2>1, <2>2, ModestChanges
<1>6. /\ r.op = q.op /\ r.user = q.user /\ r.admins = q.admins
      /\ r.writes = q.writes /\ r.counts = q.counts
      /\ DOMAIN r = DOMAIN q
  <2> HIDE DEF row
  <2>1. QED
    BY DEF Ask, Idle
<1> HIDE DEF r, q
<1>7. RequestTyped(r) /\ Counted(r) /\ r.op # "token"
  BY <1>4, <1>6, <1>9 DEF RequestTyped, Counted, Administration, SigningIn
<1>8. QED
  BY <1>5, <1>7, ReadsKeeps DEF Actors

LEMMA StartsKeeps ==
    ASSUME AccountsInvariant, NEW u \in Users, NEW op \in SigningIn,
           NEW row \in User, Starts(op, u, row),
           row.role = users[u].role, row.active = users[u].active
    PROVE  AccountsInvariant'
<1>1. /\ RequestTyped(Ask(op, u, row)) /\ Ask(op, u, row).op = op
      /\ Ask(op, u, row).writes = Changes(users[u], row)
  BY AskTyped DEF AccountsInvariant, Ops
<1>5. Counted(Ask(op, u, row))
  BY <1>1 DEF Counted, Administration, SigningIn, Changes, Changed
<1>2. Reads(Loop, Ask(op, u, row))
  BY DEF Starts
<1>3. Loop \in Actors
  BY DEF Actors
<1>4. QED
  BY <1>1, <1>2, <1>3, <1>5, ReadsKeeps DEF SigningIn

LEMMA SigningInKeeps ==
    ASSUME AccountsInvariant, NEW u \in Users,
           LoginReads(u) \/ ActivateReads(u) \/ ReenrollReads(u)
    PROVE  AccountsInvariant'
<1>1. users[u] \in User
  BY NothingThere
<1>2. CASE LoginReads(u)
  BY <1>1, <1>2, StartsKeeps DEF LoginReads, SigningIn
<1>3. CASE ActivateReads(u)
  <2> DEFINE row == [users[u] EXCEPT !.secret = TRUE,
                         !.totp_enabled = FALSE, !.activation = FALSE]
  <2>1. /\ row \in User
        /\ row.role = users[u].role /\ row.active = users[u].active
    BY <1>1 DEF User
  <2>2. Starts("activate", u, row)
    BY <1>3 DEF ActivateReads
  <2> HIDE DEF row
  <2>3. QED
    BY <2>1, <2>2, StartsKeeps DEF SigningIn
<1>4. CASE ReenrollReads(u)
  <2> DEFINE row == [users[u] EXCEPT !.totp_enabled = FALSE,
                                     !.reset = FALSE]
  <2>1. /\ row \in User
        /\ row.role = users[u].role /\ row.active = users[u].active
    BY <1>1 DEF User
  <2>2. Starts("reenroll", u, row)
    BY <1>4 DEF ReenrollReads
  <2> HIDE DEF row
  <2>3. QED
    BY <2>1, <2>2, StartsKeeps DEF SigningIn
<1>5. QED
  BY <1>2, <1>3, <1>4

(***************************************************************************)
(* Every step keeps the invariant.                                         *)
(***************************************************************************)
LEMMA AccountsStep ==
    ASSUME AccountsInvariant, [Next]_vars
    PROVE  AccountsInvariant'
<1>1. ASSUME NEW a \in Threads, NEW u \in Users,
             \/ Admit(a, u, "session") \/ Admit(a, u, "bearer")
             \/ \E role \in Roles : CreateUser(a, u, role)
      PROVE  AccountsInvariant'
  BY <1>1, AdmitKeeps, CreateUserKeeps
<1>2. ASSUME NEW a \in Threads, Administering(a)
      PROVE  AccountsInvariant'
  <2>1. Typed /\ a \in Actors
    BY DEF AccountsInvariant, Actors
  <2>2. PICK r : /\ RequestTyped(r) /\ Counted(r)
                 /\ r.op \in Administration /\ Reads(a, r)
    BY <1>2, <2>1, AdministeringReads
  <2>3. r.op # "token"
    BY <2>2 DEF Administration
  <2>4. QED
    BY <2>1, <2>2, <2>3, ReadsKeeps
<1>3. ASSUME NEW a \in Threads,
             \/ AdminCounts(a) \/ AdminWrites(a) \/ VerifyWrites(a)
             \/ \E s \in sessions : VerifyReads(a, s)
             \/ TokenReads(a) \/ TokenWrites(a)
      PROVE  AccountsInvariant'
  BY <1>3, AdminCountsKeeps, AdminWritesKeeps, VerifyWritesKeeps, VerifyReadsKeeps,
     TokenReadsKeeps, TokenWritesKeeps
<1>4. ASSUME NEW u \in Users,
             \/ LoginReads(u) \/ ActivateReads(u) \/ ReenrollReads(u)
             \/ Setup(u) \/ RecoverAdmin(u) \/ TokenEnds(u)
      PROVE  AccountsInvariant'
  BY <1>4, SigningInKeeps, SetupKeeps, RecoverAdminKeeps, TokenEndsKeeps
<1>5. CASE UNCHANGED vars
  <2>1. /\ users' = users /\ sessions' = sessions /\ tokens' = tokens
        /\ request' = request
    BY <1>5 DEF vars
  <2>2. Loop \in Actors
    BY DEF Actors
  <2>3. QED
    BY <2>1, <2>2, DoneKeeps, NothingThere
<1>6. QED
  BY <1>1, <1>2, <1>3, <1>4, <1>5, SessionEndsKeeps, LoopWritesKeeps
     DEF Next, Administering

LEMMA AccountsStart ==
    ASSUME Init
    PROVE  AccountsInvariant
<1>1. Enrolled("admin") \in User /\ Enrolled("member") \in User
  BY DEF Enrolled, New, NoUser, User, Roles
<1>2. /\ users \in [Users -> User]
      /\ tokens \in [Users -> Nat] /\ \A u \in Users : tokens[u] <= 1
      /\ \A u \in Users : tokens[u] = 1 <=> users[u].exists
      /\ \A u \in Users : tokens[u] \in {0, 1}
  BY <1>1, NoUserType DEF Init
<1>3. /\ sessions = {} /\ DOMAIN request = Actors
      /\ \A a \in Actors : request[a] = Idle
  BY DEF Init
<1>4. Typed
  BY <1>2, <1>3, IdleTyped DEF Typed
<1>5. \A a \in Actors : Counted(request[a])
  BY <1>3, IdleCounted
<1>6. ASSUME NEW u \in Users
      PROVE  tokens[u] + Cardinality(Pending(u))
                 <= MaxTokens + Cardinality(Threads) - 1
  <2>1. Pending(u) = {}
    BY <1>3 DEF Pending, Idle, Actors
  <2>2. Cardinality(Pending(u)) = 0
    BY <2>1, FS_EmptySet
  <2>3. MaxTokens \in Nat /\ MaxTokens >= 1
    BY AccountsAssumption
  <2>4. QED
    BY <1>2, <2>2, <2>3, ThreadsFinite
<1>7. TokensNearCap
  BY <1>6 DEF TokensNearCap, Pending
<1>8. NothingLeft
  BY <1>2, <1>3 DEF NothingLeft, SessionsOf
<1>9. QED
  BY <1>4, <1>5, <1>7, <1>8 DEF AccountsInvariant

THEOREM AccountsInductive == Spec => []AccountsInvariant
<1>1. Init => AccountsInvariant
  BY AccountsStart
<1>2. AccountsInvariant /\ [Next]_vars => AccountsInvariant'
  BY AccountsStep
<1>3. QED
  BY <1>1, <1>2, PTL DEF Spec

(***************************************************************************)
(* For any limit and any number of threads that serve requests, a user has *)
(* no more tokens than the limit and one for every other thread            *)
(* (create_api_token counts before it inserts).                            *)
(***************************************************************************)
THEOREM TokensStayNearCap == Spec => []TokensNearCap
<1>1. AccountsInvariant => TokensNearCap
  BY DEF AccountsInvariant
<1>2. QED
  BY <1>1, AccountsInductive, PTL

(***************************************************************************)
(* Whose the requests under way are.  A request of an earlier account of   *)
(* its id is one that was overtaken; nothing else gives an account what is *)
(* not its own, because an id that is given out holds nothing.             *)
(***************************************************************************)
PastInvariant ==
    /\ late \in SUBSET Actors /\ overtaken \in SUBSET Users
    /\ inherited \in [Users -> SUBSET Credentials]
    /\ \A a \in late : request[a].op \in Owners /\ request[a].user \in overtaken
    /\ NothingInherited

LEMMA IdleOwnsNothing == Idle.op \notin Owners
  BY DEF Idle, Owners, SigningIn

LEMMA PastStays ==
    ASSUME PastInvariant, UNCHANGED <<request, late, overtaken>>,
           inherited' \in [Users -> SUBSET Credentials],
           \A u \in Users : inherited'[u] \subseteq inherited[u]
    PROVE  PastInvariant'
  BY DEF PastInvariant, NothingInherited, Actors, Owners, SigningIn

\* The request of a becomes r, which is for the same account if it was late.
LEMMA FollowKeeps ==
    ASSUME Typed, PastInvariant, NEW a \in Actors, NEW r,
           request' = [request EXCEPT ![a] = r],
           a \in late /\ r.op \in Owners => r.user = request[a].user,
           Follow({}), inherited' \in [Users -> SUBSET Credentials],
           \A u \in Users : inherited'[u] # {} =>
               inherited[u] # {} \/ (a \in late /\ u = request[a].user)
    PROVE  PastInvariant'
<1>1. /\ late' = {b \in Actors : request'[b].op \in Owners /\ b \in late}
      /\ overtaken' = overtaken
  BY DEF Follow
<1>2. ASSUME NEW b \in late'
      PROVE  b \in late /\ request'[b].op \in Owners
             /\ request'[b].user \in overtaken'
  <2>1. b \in late /\ b \in Actors /\ request'[b].op \in Owners
    BY <1>1, <1>2
  <2>2. request[b].user \in overtaken
    BY <2>1 DEF PastInvariant
  <2>3. request'[b].user = request[b].user
    BY <2>1 DEF Typed
  <2> QED
    BY <1>1, <2>1, <2>2, <2>3
<1>3. NothingInherited'
  BY <1>1 DEF PastInvariant, NothingInherited
<1>4. late' \in SUBSET Actors /\ overtaken' \in SUBSET Users
  BY <1>1 DEF PastInvariant
<1> QED
  BY <1>2, <1>3, <1>4 DEF PastInvariant, Actors, Owners, SigningIn

LEMMA PastReads ==
    ASSUME Typed, PastInvariant, NEW a \in Actors, NEW r, Reads(a, r),
           a \in late /\ r.op \in Owners => r.user = request[a].user
    PROVE  PastInvariant'
<1>1. inherited' = inherited
  BY DEF Reads
<1> QED
  BY <1>1, FollowKeeps DEF Reads, PastInvariant

LEMMA PastDone ==
    ASSUME Typed, PastInvariant, NEW a \in Actors, Done(a),
           inherited' \in [Users -> SUBSET Credentials],
           \A u \in Users : inherited'[u] # {} =>
               inherited[u] # {} \/ (a \in late /\ u = request[a].user)
    PROVE  PastInvariant'
  BY IdleOwnsNothing, FollowKeeps DEF Done, Ends

\* An id is given out that holds nothing.
LEMMA PastGiven ==
    ASSUME Typed, PastInvariant, NEW a \in Actors, NEW u \in Users,
           Ends(a) \/ request' = request, Follow({u}),
           inherited' \in [Users -> SUBSET Credentials], inherited'[u] = {},
           \A v \in Users : inherited'[v] \subseteq inherited[v]
    PROVE  PastInvariant'
<1>1. /\ late' = {b \in Actors : /\ request'[b].op \in Owners
                                 /\ b \in late \/ request'[b].user = u}
      /\ overtaken' = (overtaken \ {u}) \cup
                          ({u} \cap {request'[b].user : b \in late'})
  BY DEF Follow
<1>2. ASSUME NEW b \in late'
      PROVE  b \in Actors /\ request'[b].op \in Owners
             /\ request'[b].user \in overtaken'
  <2>1. b \in Actors /\ request'[b].op \in Owners
    BY <1>1, <1>2
  <2>2. CASE request'[b].user = u
    BY <1>1, <1>2, <2>1, <2>2
  <2>3. CASE request'[b].user # u
    <3>1. b \in late
      BY <1>1, <1>2, <2>3
    <3>2. request'[b] = request[b]
      BY <2>1, IdleOwnsNothing DEF Typed, Ends
    <3>3. request[b].user \in overtaken
      BY <3>1 DEF PastInvariant
    <3> QED
      BY <1>1, <2>1, <2>3, <3>2, <3>3
  <2> QED
    BY <2>2, <2>3
<1>3. NothingInherited'
  BY <1>1 DEF PastInvariant, NothingInherited
<1>4. late' \in SUBSET Actors /\ overtaken' \in SUBSET Users
  BY <1>1 DEF PastInvariant
<1> QED
  BY <1>2, <1>3, <1>4 DEF PastInvariant, Actors, Owners, SigningIn

LEMMA IdleIsNotLate ==
    ASSUME PastInvariant, NEW a, request[a] = Idle
    PROVE  a \notin late
  BY IdleOwnsNothing DEF PastInvariant

LEMMA PastHandsOut ==
    ASSUME AccountsInvariant, PastInvariant, NEW u \in Users,
           \/ \E a \in Threads, role \in Roles : CreateUser(a, u, role)
           \/ Setup(u)
    PROVE  PastInvariant'
<1>1. ASSUME NEW a \in Threads, NEW role \in Roles, CreateUser(a, u, role)
      PROVE  PastInvariant'
  <2>1. ~users[u].exists
    BY <1>1, AccountsAssumption DEF CreateUser, IsNextId
  <2>2. Left(u, sessions, tokens) = {}
    BY <2>1, NothingThere DEF Left
  <2>3. inherited' = [inherited EXCEPT ![u] = {}]
    BY <1>1, <2>2 DEF CreateUser
  <2>4. /\ inherited' \in [Users -> SUBSET Credentials] /\ inherited'[u] = {}
        /\ \A v \in Users : inherited'[v] \subseteq inherited[v]
    BY <2>3 DEF PastInvariant
  <2>5. Ends(a) /\ Follow({u}) /\ a \in Actors
    BY <1>1 DEF CreateUser, Actors
  <2> QED
    BY <2>4, <2>5, PastGiven DEF AccountsInvariant
<1>2. CASE Setup(u)
  <2> DEFINE kept == {s \in sessions : Active(s.user)}
  <2>1. \A v \in Users : ~Active(v)
    BY <1>2 DEF Setup, NotConfigured
  <2>2. kept = {}
    BY <2>1, NothingThere DEF Shaped
  <2>3. /\ tokens' = [v \in Users |-> IF Active(v) THEN tokens[v] ELSE 0]
        /\ inherited' = [v \in Users |-> Left(v, kept, tokens')]
        /\ request' = request /\ Follow({u})
    BY <1>2 DEF Setup
  <2> HIDE DEF kept
  <2>4. \A v \in Users : tokens'[v] = 0
    BY <2>1, <2>3
  <2>5. \A v \in Users : Left(v, kept, tokens') = {}
    BY <2>2, <2>4 DEF Left
  <2>6. /\ inherited' \in [Users -> SUBSET Credentials]
        /\ \A v \in Users : inherited'[v] = {}
    BY <2>3, <2>5
  <2>7. Loop \in Actors
    BY DEF Actors
  <2> QED
    BY <2>3, <2>6, <2>7, PastGiven DEF AccountsInvariant
<1> QED
  BY <1>1, <1>2

LEMMA PastWrites ==
    ASSUME AccountsInvariant, PastInvariant,
           \/ \E a \in Threads : \/ AdminWrites(a) \/ VerifyWrites(a)
                                \/ TokenWrites(a)
           \/ LoopWrites
    PROVE  PastInvariant'
<1>1. PICK a \in Actors :
        \/ a \in Threads /\ (AdminWrites(a) \/ VerifyWrites(a) \/ TokenWrites(a))
        \/ a = Loop /\ LoopWrites
  BY DEF Actors
<1> DEFINE u == request[a].user
<1>2. u \in Users
  BY DEF AccountsInvariant, Typed, RequestTyped
<1>3. inherited \in [Users -> SUBSET Credentials]
  BY DEF PastInvariant
<1>4. Done(a)
  BY <1>1 DEF AdminWrites, VerifyWrites, TokenWrites, LoopWrites
<1>5. \/ inherited' = inherited
      \/ inherited' = [inherited EXCEPT ![u] = {}]
      \/ inherited' = [inherited EXCEPT ![u] = @ \cup Brought(a, "session")]
      \/ inherited' = [inherited EXCEPT ![u] = {} \cup Brought(a, "session")]
      \/ inherited' = [inherited EXCEPT ![u] = @ \cup Brought(a, "token")]
  <2>1. CASE AdminWrites(a)
    BY <2>1 DEF AdminWrites, Revoke
  <2>2. CASE VerifyWrites(a)
    BY <2>2 DEF VerifyWrites
  <2>3. CASE TokenWrites(a)
    BY <2>3 DEF TokenWrites
  <2>4. CASE a = Loop /\ LoopWrites
    BY <2>4 DEF LoopWrites
  <2> QED
    BY <1>1, <2>1, <2>2, <2>3, <2>4
<1>6. /\ Brought(a, "session") \in SUBSET Credentials
      /\ Brought(a, "token") \in SUBSET Credentials
      /\ a \notin late => Brought(a, "session") = {} /\ Brought(a, "token") = {}
  BY DEF Brought, Credentials
<1> HIDE DEF u
<1>7. /\ inherited' \in [Users -> SUBSET Credentials]
      /\ \A v \in Users : inherited'[v] # {} =>
             inherited[v] # {} \/ (a \in late /\ v = u)
  BY <1>2, <1>3, <1>5, <1>6
<1> QED
  BY <1>4, <1>7, PastDone DEF AccountsInvariant, u

LEMMA PastReaders ==
    ASSUME AccountsInvariant, PastInvariant,
           \/ \E a \in Threads : Administering(a) \/ AdminCounts(a)
                                \/ TokenReads(a)
           \/ \E a \in Threads, u \in Users :
                  Admit(a, u, "session") \/ Admit(a, u, "bearer")
           \/ \E a \in Threads, s \in sessions : VerifyReads(a, s)
           \/ \E u \in Users : \/ LoginReads(u) \/ ActivateReads(u)
                              \/ ReenrollReads(u)
    PROVE  PastInvariant'
<1> Typed
  BY DEF AccountsInvariant
<1>1. ASSUME NEW a \in Threads, NEW r, r.op \in Administration, Reads(a, r)
      PROVE  PastInvariant'
  <2>1. r.op \notin Owners
    BY <1>1 DEF Administration, Owners, SigningIn
  <2> QED
    BY <1>1, <2>1, PastReads DEF Actors
<1>2. ASSUME NEW a \in Threads, Administering(a)
      PROVE  PastInvariant'
  BY <1>1, <1>2, AdministeringReads
<1>3. ASSUME NEW a \in Threads, AdminCounts(a)
      PROVE  PastInvariant'
  <2>1. CASE Cardinality(ActiveAdmins) <= 1
    <3>1. Done(a) /\ inherited' = inherited
      BY <1>3, <2>1 DEF AdminCounts
    <3> QED
      BY <3>1, PastDone DEF PastInvariant, Actors
  <2>2. CASE ~(Cardinality(ActiveAdmins) <= 1)
    <3> DEFINE r == [request[a] EXCEPT !.counts = FALSE,
                                       !.admins = ActiveAdmins]
    <3>1. Reads(a, r)
      BY <1>3, <2>2 DEF AdminCounts
    <3>2. RequestTyped(request[a]) /\ request[a].counts
      BY <1>3 DEF AdminCounts, Typed, Actors
    <3>3. r.op = request[a].op
      BY <3>2 DEF RequestTyped
    <3>4. r.op \in Administration
      BY <3>2, <3>3 DEF RequestTyped
    <3> QED
      BY <1>1, <3>1, <3>4
  <2> QED
    BY <2>1, <2>2
<1>4. ASSUME NEW a \in Threads, TokenReads(a)
      PROVE  PastInvariant'
  <2> DEFINE r == Ask("token", request[a].user, users[request[a].user])
  <2>1. Reads(a, r)
    BY <1>4 DEF TokenReads
  <2>2. r.user = request[a].user
    BY DEF Ask, Idle
  <2> HIDE DEF r
  <2> QED
    BY <2>1, <2>2, PastReads DEF Actors
<1>5. ASSUME NEW a \in Actors, NEW r, request[a] = Idle, Reads(a, r)
      PROVE  PastInvariant'
  BY <1>5, IdleIsNotLate, PastReads
<1>6. ASSUME NEW a \in Threads, NEW u \in Users,
             Admit(a, u, "session") \/ Admit(a, u, "bearer")
      PROVE  PastInvariant'
  BY <1>5, <1>6 DEF Admit, Actors
<1>7. ASSUME NEW a \in Threads, NEW s \in sessions, VerifyReads(a, s)
      PROVE  PastInvariant'
  BY <1>5, <1>7 DEF VerifyReads, Actors
<1>8. ASSUME NEW u \in Users,
             LoginReads(u) \/ ActivateReads(u) \/ ReenrollReads(u)
      PROVE  PastInvariant'
  BY <1>5, <1>8 DEF LoginReads, ActivateReads, ReenrollReads, Starts, Actors
<1> QED
  BY <1>2, <1>3, <1>4, <1>6, <1>7, <1>8

LEMMA PastStep ==
    ASSUME AccountsInvariant, PastInvariant, [Next]_vars
    PROVE  PastInvariant'
<1>1. CASE UNCHANGED vars
  BY <1>1, PastStays DEF vars, PastInvariant
<1>2. ASSUME \/ \E s \in sessions : SessionEnds(s)
             \/ \E u \in Users : TokenEnds(u)
      PROVE  PastInvariant'
  BY <1>2, PastStays DEF SessionEnds, TokenEnds, past, PastInvariant
<1>3. ASSUME NEW u \in Users, RecoverAdmin(u)
      PROVE  PastInvariant'
  <2>1. /\ inherited' = [inherited EXCEPT ![u] = {}]
        /\ UNCHANGED <<request, late, overtaken>>
    BY <1>3 DEF RecoverAdmin, Revoke
  <2>2. /\ inherited' \in [Users -> SUBSET Credentials]
        /\ \A v \in Users : inherited'[v] \subseteq inherited[v]
    BY <2>1 DEF PastInvariant
  <2> QED
    BY <2>1, <2>2, PastStays
<1> QED
  BY <1>1, <1>2, <1>3, PastHandsOut, PastWrites, PastReaders
     DEF Next, Administering

LEMMA PastStart ==
    ASSUME Init
    PROVE  PastInvariant
  BY DEF Init, PastInvariant, NothingInherited

(***************************************************************************)
(* An account holds nothing of an account that had its id before: removal, *)
(* by an administrator or by a new setup, takes all sessions and tokens,   *)
(* and a request that another account began gives none, unless it was      *)
(* already under way when the id was given out.                            *)
(***************************************************************************)
THEOREM NothingIsInherited == Spec => []NothingInherited
<1>1. Init => PastInvariant
  BY PastStart
<1>2. AccountsInvariant /\ PastInvariant /\ [Next]_vars => PastInvariant'
  BY PastStep
<1>3. PastInvariant => NothingInherited
  BY DEF PastInvariant
<1> QED
  BY <1>1, <1>2, <1>3, AccountsInductive, PTL DEF Spec

(***************************************************************************)
(* The steps that leave every active administrator one.                    *)
(***************************************************************************)
LEMMA AdminsStay ==
    ASSUME users' = users
    PROVE  ActiveAdmins' = ActiveAdmins
  BY DEF ActiveAdmins, Active

LEMMA SigningInLeavesAdmins ==
    ASSUME AccountsInvariant, NEW a \in Actors,
           request[a].op \in SigningIn \cup {"verify"},
           users' = users \/ users' = Updated(request[a])
    PROVE  ActiveAdmins \subseteq ActiveAdmins'
<1>1. CASE users' = users
  BY <1>1, AdminsStay
<1>2. CASE users' = Updated(request[a])
  <2> DEFINE r == request[a]
  <2>1. RequestTyped(r) /\ Counted(r)
    BY DEF AccountsInvariant, Typed
  <2>2. r.writes.role = {} /\ r.writes.active \in SUBSET {TRUE}
    BY <2>1 DEF Counted, RequestTyped, Writes
  <2>3. /\ \A u \in Users : users'[u].exists = users[u].exists
        /\ \A u \in Users : users'[u].role = users[u].role
    BY <1>2, <2>1, <2>2, UpdatedTyped DEF AccountsInvariant
  <2>4. /\ r.user \in Users
        /\ users'[r.user].active = Written(r.writes.active, users[r.user].active)
    BY <1>2, <2>1 DEF Updated, RequestTyped, AccountsInvariant, Typed
  <2>5. r.writes.active = {} \/ users'[r.user].active = TRUE
    BY <2>2, <2>4 DEF Written
  <2>6. \A u \in Users : users[u].active => users'[u].active
    BY <1>2, <2>1, <2>5, UpdatedTyped DEF AccountsInvariant
  <2>7. QED
    BY <2>3, <2>6 DEF ActiveAdmins, Active
<1>3. QED
  BY <1>1, <1>2

LEMMA CreateUserLeavesAdmins ==
    ASSUME AccountsInvariant, NEW a \in Threads, NEW u \in Users,
           NEW role \in Roles, CreateUser(a, u, role)
    PROVE  ActiveAdmins \subseteq ActiveAdmins'
<1>1. ~users[u].exists
  BY AccountsAssumption DEF CreateUser, IsNextId
<1>2. \A v \in Users \ {u} : users'[v] = users[v]
  BY NothingThere DEF CreateUser
<1>3. QED
  BY <1>1, <1>2 DEF ActiveAdmins, Active

(***************************************************************************)
(* The last active administrator is never taken by a request whose count   *)
(* is still right: if all go in one step, it is a request to administer    *)
(* that counted others (ensure_not_last_admin).                            *)
(***************************************************************************)
LEMMA LastAdminStep ==
    ASSUME AccountsInvariant, Next, ActiveAdmins # {}, ActiveAdmins' = {}
    PROVE  \E a \in Threads : /\ request[a].op \in Administration
                              /\ request'[a].op = "idle"
                              /\ request[a].admins # ActiveAdmins
<1>1. ~(ActiveAdmins \subseteq ActiveAdmins')
  OBVIOUS
<1>2. users' # users
  BY <1>1, AdminsStay
<1>3. ASSUME NEW a \in Threads, AdminWrites(a)
      PROVE  /\ request[a].op \in Administration
             /\ request'[a].op = "idle"
             /\ request[a].admins # ActiveAdmins
  <2> DEFINE r == request[a]
  <2>1. /\ r.op \in Administration /\ RequestTyped(r) /\ Counted(r)
        /\ a \in Actors /\ DOMAIN request = Actors
        /\ request' = [request EXCEPT ![a] = Idle]
    BY <1>3 DEF AdminWrites, AccountsInvariant, Typed, Actors, Ends, Done
  <2>2. request'[a].op = "idle"
    BY <2>1 DEF Idle
  <2>3. ASSUME r.admins = ActiveAdmins
        PROVE  FALSE
    <3>1. \A u \in Users \ {r.user} : users'[u] = users[u]
      BY <1>3, <2>1, UpdatedTyped, NothingThere
         DEF AdminWrites, AccountsInvariant
    <3>2. ActiveAdmins \subseteq {r.user}
      BY <3>1 DEF ActiveAdmins, Active
    <3>3. ActiveAdmins = {r.user}
      BY <3>2
    <3>4. Cardinality(r.admins) <= 1 /\ r.user \in r.admins
      <4> HIDE DEF r
      <4>1. Cardinality({r.user}) = 1
        BY FS_Singleton
      <4>2. QED
        BY <2>3, <3>3, <4>1
    <3>5. r.op # "remove" /\ r.writes.role = {} /\ r.writes.active = {}
      <4>1. ~r.counts
        BY <1>3 DEF AdminWrites
      <4> QED
        BY <2>1, <3>4, <4>1 DEF Counted
    <3>6. users' = Updated(r)
      BY <1>2, <1>3, <3>5 DEF AdminWrites
    <3>7. /\ users'[r.user].exists = users[r.user].exists
          /\ users'[r.user].role = users[r.user].role
          /\ users'[r.user].active = users[r.user].active
      BY <2>1, <3>5, <3>6, UpdatedTyped DEF AccountsInvariant, RequestTyped
    <3>8. QED
      BY <3>3, <3>7 DEF ActiveAdmins, Active
  <2>4. QED
    BY <2>1, <2>2, <2>3
<1>4. ASSUME NEW a \in Threads, VerifyWrites(a)
      PROVE  FALSE
  BY <1>1, <1>4, SigningInLeavesAdmins DEF VerifyWrites, Actors, Done
<1>5. ASSUME LoopWrites
      PROVE  FALSE
  BY <1>1, <1>5, SigningInLeavesAdmins DEF LoopWrites, Actors, Done
<1>6. ASSUME NEW u \in Users, Setup(u)
      PROVE  FALSE
  BY <1>6 DEF Setup, NotConfigured, ActiveAdmins
<1>7. ASSUME NEW u \in Users, RecoverAdmin(u)
      PROVE  FALSE
  <2>1. users' = [users EXCEPT ![u].activation = FALSE, ![u].reset = FALSE]
    BY <1>7 DEF RecoverAdmin
  <2>2. \A v \in Users : /\ users'[v].exists = users[v].exists
                         /\ users'[v].role = users[v].role
                         /\ users'[v].active = users[v].active
    BY <2>1, NothingThere DEF User
  <2>3. QED
    BY <1>1, <2>2 DEF ActiveAdmins, Active
<1>8. ASSUME NEW a \in Threads, NEW u \in Users, NEW role \in Roles,
             CreateUser(a, u, role)
      PROVE  FALSE
  BY <1>1, <1>8, CreateUserLeavesAdmins
<1>9. QED
  <2>1. ASSUME NEW a \in Threads, NEW u \in Users
        PROVE  /\ ~Admit(a, u, "session") /\ ~Admit(a, u, "bearer")
               /\ \A role \in Roles, active \in BOOLEAN :
                    ~UpdateReads(a, u, role, active)
               /\ ~ReissueActivationReads(a, u) /\ ~Reissue2faReads(a, u)
               /\ ~RemoveReads(a, u)
    BY <1>2 DEF Admit, UpdateReads, ReissueActivationReads, Reissue2faReads,
                RemoveReads, Reads
  <2>2. ASSUME NEW a \in Threads
        PROVE  /\ \A s \in sessions : ~VerifyReads(a, s)
               /\ ~TokenReads(a) /\ ~TokenWrites(a) /\ ~AdminCounts(a)
    BY <1>2 DEF VerifyReads, TokenReads, TokenWrites, AdminCounts, Reads
  <2>3. ASSUME NEW u \in Users
        PROVE  /\ ~LoginReads(u) /\ ~ActivateReads(u) /\ ~ReenrollReads(u)
               /\ ~TokenEnds(u)
    BY <1>2 DEF LoginReads, ActivateReads, ReenrollReads, Starts, Reads,
                TokenEnds
  <2>4. \A s \in sessions : ~SessionEnds(s)
    BY <1>2 DEF SessionEnds
  <2>5. QED
    BY <1>3, <1>4, <1>5, <1>6, <1>7, <1>8, <2>1, <2>2, <2>3, <2>4 DEF Next

THEOREM LastAdminNeedsStaleCount == Spec => OnlyStaleCountsTakeLastAdmin
<1>1. AccountsInvariant /\ [Next]_vars =>
        [ActiveAdmins # {} /\ ActiveAdmins' = {} =>
            \E a \in Threads : /\ request[a].op \in Administration
                               /\ request'[a].op = "idle"
                               /\ request[a].admins # ActiveAdmins]_vars
  BY LastAdminStep
<1>2. QED
  BY <1>1, AccountsInductive, PTL DEF Spec, OnlyStaleCountsTakeLastAdmin

(***************************************************************************)
(* Rows of "auth_sessions".  Their ids are given by the greatest id in the *)
(* table, which deletions lower; that no two rows get one id, and that ids *)
(* do not outrun the requests, needs the requests that have yet to insert  *)
(* a row to be counted with the rows.                                      *)
(***************************************************************************)
\* The requests that will begin a session when they write.
Creating == SigningIn \cup {"verify"}
Creators == {a \in Actors : request[a].op \in Creating}

SessionsFit ==
    /\ sessions \subseteq Session
    /\ \A s, q \in sessions : s.id = q.id => s = q
    /\ \A s \in sessions : s.id + Cardinality(Creators) <= requests
    /\ Cardinality(Creators) <= requests
    /\ requests \in 0..MaxRequests
    /\ \A a \in Actors : request[a].session \in Session \cup {NoSession}

\* Rows that a request may leave: typed, distinct, and none with an id that
\* no row of the table has.
Fit(rows) == /\ rows \subseteq Session
             /\ \A s, q \in rows : s.id = q.id => s = q
             /\ \A s \in rows : \E q \in sessions : q.id = s.id

LEMMA CreatorsFinite ==
    /\ IsFiniteSet(Creators) /\ IsFiniteSet(Creators')
    /\ Cardinality(Creators) \in Nat /\ Cardinality(Creators') \in Nat
<1>1. IsFiniteSet(Actors)
  <2>1. IsFiniteSet(Threads)
    BY AccountsAssumption
  <2>2. QED
    BY <2>1, FS_AddElement DEF Actors
<1>2. Creators \subseteq Actors /\ Creators' \subseteq Actors
  BY DEF Creators, Actors
<1>3. QED
  BY <1>1, <1>2, FS_Subset, FS_CardinalityType

LEMMA OpIsTyped ==
    \A a : Idle.op = "idle" /\ "idle" \notin Creating /\ Idle.session = NoSession
  BY DEF Idle, Creating, SigningIn

\* Requests that begin or end no session.
LEMMA CreatorsStay ==
    ASSUME Typed, NEW a \in Actors, NEW r, r.op \notin Creating,
           request' = [request EXCEPT ![a] = r] \/ request' = request
    PROVE  Cardinality(Creators') <= Cardinality(Creators)
<1>1. Creators' \subseteq Creators
  BY DEF Typed, Creators, Actors
<1>2. QED
  BY <1>1, CreatorsFinite, FS_Subset

LEMMA CreatorBegins ==
    ASSUME Typed, NEW a \in Actors, NEW r, request' = [request EXCEPT ![a] = r]
    PROVE  Cardinality(Creators') <= Cardinality(Creators) + 1
<1>1. Creators' \subseteq Creators \cup {a}
  BY DEF Typed, Creators, Actors
<1>2. /\ IsFiniteSet(Creators \cup {a})
      /\ Cardinality(Creators \cup {a}) \in Nat
      /\ Cardinality(Creators \cup {a}) <= Cardinality(Creators) + 1
  <2>1. IsFiniteSet(Creators \cup {a})
    BY CreatorsFinite, FS_AddElement
  <2>2. \/ Cardinality(Creators \cup {a}) = Cardinality(Creators)
        \/ Cardinality(Creators \cup {a}) = Cardinality(Creators) + 1
    BY CreatorsFinite, FS_AddElement
  <2>3. QED
    BY <2>1, <2>2, CreatorsFinite, FS_CardinalityType
<1>3. Cardinality(Creators') <= Cardinality(Creators \cup {a})
  BY <1>1, <1>2, FS_Subset
<1>4. QED
  BY <1>2, <1>3, CreatorsFinite

LEMMA CreatorEnds ==
    ASSUME Typed, NEW a \in Actors, request[a].op \in Creating, Ends(a)
    PROVE  Cardinality(Creators') <= Cardinality(Creators) - 1
<1>1. Creators' \subseteq Creators \ {a} /\ a \in Creators
  BY OpIsTyped DEF Typed, Creators, Actors, Ends
<1>2. /\ IsFiniteSet(Creators \ {a})
      /\ Cardinality(Creators \ {a}) = Cardinality(Creators) - 1
  BY <1>1, CreatorsFinite, FS_RemoveElement
<1>3. QED
  BY <1>1, <1>2, FS_Subset

(***************************************************************************)
(* The id of a new row.                                                    *)
(***************************************************************************)
\* SQLite's choice exists, and is one that no row has: the least of the ids
\* above all those of the table.
LEMMA NextIdIsFree ==
    ASSUME NEW m \in Nat, m < MaxRequests, NEW S \in SUBSET (1..m)
    PROVE  /\ NextId(S) \in 1..(m + 1)
           /\ \A j \in S : j < NextId(S)
<1> DEFINE T == {i \in 1..(m + 1) : \A j \in S : j < i}
<1>1. T \in SUBSET Nat /\ m + 1 \in T
  OBVIOUS
<1>2. PICK i \in T : \A k \in T : ~(<<k, i>> \in OpToRel(<, Nat))
  <2> HIDE DEF T
  <2>1. QED
    BY <1>1, NatLessThanWellFounded, WFMin
<1>3. \A k \in T : ~(k < i)
  BY <1>1, <1>2 DEF OpToRel
<1>4. i \in 1..(m + 1) /\ \A j \in S : j < i
  OBVIOUS
<1>5. i # 1 => i - 1 \in S
  <2>1. SUFFICES ASSUME i # 1
                 PROVE  i - 1 \in S
    OBVIOUS
  <2>2. i - 1 \in 1..(m + 1) /\ i - 1 < i
    BY <1>4, <2>1
  <2>3. i - 1 \notin T
    <3> HIDE DEF T
    <3>1. QED
      BY <1>3, <2>2
  <2>4. PICK j \in S : ~(j < i - 1)
    BY <2>2, <2>3
  <2>5. j = i - 1
    BY <1>4, <2>4
  <2>6. QED
    BY <2>5
<1> HIDE DEF T
<1>6. i \in Ids /\ IsNextId(i, S)
  BY <1>4, <1>5, AccountsAssumption DEF Ids, IsNextId
<1>7. NextId(S) \in Ids /\ IsNextId(NextId(S), S)
  BY <1>6 DEF NextId
<1>8. QED
  BY <1>7, AccountsAssumption DEF IsNextId, Ids

\* create_session leaves distinct rows, the new one next to those that stay.
LEMMA WithSessionFits ==
    ASSUME NEW m \in Nat, m < MaxRequests, \A s \in sessions : s.id <= m,
           NEW rows, Fit(rows), NEW u \in Users, NEW level \in Levels
    PROVE  /\ WithSession(rows, u, level) \subseteq Session
           /\ \A s, q \in WithSession(rows, u, level) : s.id = q.id => s = q
           /\ \A s \in WithSession(rows, u, level) : s.id <= m + 1
<1> DEFINE mine == {s \in rows : s.user = u /\ s.live}
           kept == {s \in mine :
                       Cardinality({q \in mine : q.id > s.id}) < Retained}
           rest == {s \in rows : s.user # u} \cup kept
           S == {s.id : s \in rest}
           new == [id |-> NextId(S), user |-> u, level |-> level, live |-> TRUE]
<1>1. WithSession(rows, u, level) = rest \cup {new}
  BY DEF WithSession
<1>2. rest \subseteq rows
  OBVIOUS
<1>3. \A s \in rows : s \in Session /\ s.id \in 1..m
  <2>1. \A s \in rows : s \in Session /\ s.id \in Ids /\ s.id <= m
    BY DEF Fit, Session
  <2>2. QED
    BY <2>1, AccountsAssumption DEF Ids
<1> HIDE DEF rest
<1>4. S \in SUBSET (1..m)
  BY <1>2, <1>3
<1>5. NextId(S) \in 1..(m + 1) /\ \A s \in rest : s.id < NextId(S)
  <2>1. \A s \in rest : s.id \in S
    OBVIOUS
  <2> HIDE DEF S
  <2>2. QED
    BY <1>4, <2>1, NextIdIsFree
<1>6. new \in Session /\ new.id = NextId(S)
  <2> HIDE DEF S
  <2>1. NextId(S) \in Ids
    BY <1>5, AccountsAssumption DEF Ids
  <2>2. QED
    BY <2>1 DEF Session
<1> HIDE DEF new, S
<1>7. \A s \in rest : s.id # new.id /\ s.id <= m + 1
  BY <1>2, <1>3, <1>5, <1>6
<1>8. QED
  BY <1>1, <1>2, <1>3, <1>5, <1>6, <1>7 DEF Fit

(***************************************************************************)
(* Rows that a step leaves.                                                *)
(***************************************************************************)
LEMMA FewerFit ==
    ASSUME SessionsFit, NEW rows, rows \subseteq sessions
    PROVE  Fit(rows)
  BY DEF SessionsFit, Fit

LEMMA EndedFit ==
    ASSUME SessionsFit, NEW S \in SUBSET sessions
    PROVE  Fit((sessions \ S) \cup {Ended(s) : s \in S})
<1> DEFINE rows == (sessions \ S) \cup {Ended(s) : s \in S}
<1>1. \A s \in sessions : s \in Session
  BY DEF SessionsFit
<1>2. \A s \in sessions : Ended(s) \in Session /\ Ended(s).id = s.id
  BY <1>1 DEF Ended, Session
<1>3. \A s \in rows : \/ s \in sessions /\ s \notin S
                      \/ \E q \in S : s = Ended(q)
  OBVIOUS
<1> HIDE DEF rows
<1>4. \A s \in rows : s \in Session /\ \E q \in sessions : q.id = s.id
  BY <1>1, <1>2, <1>3
<1>5. ASSUME NEW s \in rows, NEW q \in rows, s.id = q.id
      PROVE  s = q
  <2>1. \A x, y \in sessions : x.id = y.id => x = y
    BY DEF SessionsFit
  <2>2. CASE s \in sessions /\ s \notin S
    <3>1. ASSUME NEW p \in S, q = Ended(p)
          PROVE  FALSE
      BY <1>2, <1>5, <2>1, <2>2, <3>1
    <3>2. QED
      BY <1>3, <1>5, <2>1, <2>2, <3>1
  <2>3. CASE \E p \in S : s = Ended(p)
    <3>1. PICK p \in S : s = Ended(p)
      BY <2>3
    <3>2. CASE q \in sessions /\ q \notin S
      BY <1>2, <1>5, <2>1, <3>1, <3>2
    <3>3. CASE \E o \in S : q = Ended(o)
      <4>1. PICK o \in S : q = Ended(o)
        BY <3>3
      <4>2. o = p
        BY <1>2, <1>5, <2>1, <3>1, <4>1
      <4>3. QED
        BY <3>1, <4>1, <4>2
    <3>4. QED
      BY <1>3, <3>2, <3>3
  <2>4. QED
    BY <1>3, <2>2, <2>3
<1>6. Fit(rows)
  BY <1>4, <1>5 DEF Fit
<1>7. QED
  BY <1>6 DEF rows

(***************************************************************************)
(* The kinds of step.  a is the actor whose request changes, to r.         *)
(***************************************************************************)
\* No session is begun, now or later; one more request may have come.
LEMMA NoCreationFits ==
    ASSUME AccountsInvariant, SessionsFit, NEW a \in Actors, NEW r,
           r.op \notin Creating, r.session \in Session \cup {NoSession},
           request' = [request EXCEPT ![a] = r] \/ request' = request,
           Fit(sessions'), UNCHANGED requests \/ Arrives
    PROVE  SessionsFit'
<1> DEFINE c == Cardinality(Creators)
           d == Cardinality(Creators')
<1>1. c \in Nat /\ d \in Nat /\ d <= c
  BY CreatorsFinite, CreatorsStay DEF AccountsInvariant
<1>2. /\ requests' \in 0..MaxRequests /\ requests \in Nat
      /\ requests <= requests' /\ c <= requests
  BY AccountsAssumption DEF SessionsFit, Arrives
<1>3. \A s \in sessions' : s.id \in Nat
  BY DEF Fit, Session, Ids
<1>4. \A s \in sessions' : s.id + c <= requests
  BY DEF Fit, SessionsFit
<1>5. \A b \in Actors : request'[b].session \in Session \cup {NoSession}
  BY DEF SessionsFit, AccountsInvariant, Typed
<1> HIDE DEF c, d
<1>6. d <= requests' /\ \A s \in sessions' : s.id + d <= requests'
  BY <1>1, <1>2, <1>3, <1>4
<1>7. QED
  BY <1>2, <1>5, <1>6 DEF SessionsFit, Fit, c, d, Creators

\* A request has read what it needs to begin a session.
LEMMA CreationReadFits ==
    ASSUME AccountsInvariant, SessionsFit, NEW a \in Actors, NEW r,
           r.session \in Session \cup {NoSession},
           request' = [request EXCEPT ![a] = r],
           sessions' = sessions, Arrives
    PROVE  SessionsFit'
<1> DEFINE c == Cardinality(Creators)
           d == Cardinality(Creators')
<1>1. c \in Nat /\ d \in Nat /\ d <= c + 1
  BY CreatorsFinite, CreatorBegins DEF AccountsInvariant
<1>2. /\ requests' \in 0..MaxRequests /\ requests \in Nat
      /\ requests' = requests + 1 /\ c <= requests
  BY AccountsAssumption DEF SessionsFit, Arrives
<1>3. \A s \in sessions : s.id \in Nat
  BY DEF SessionsFit, Session, Ids
<1>4. \A s \in sessions : s.id + c <= requests
  BY DEF SessionsFit
<1>5. \A b \in Actors : request'[b].session \in Session \cup {NoSession}
  BY DEF SessionsFit, AccountsInvariant, Typed
<1> HIDE DEF c, d
<1>6. d <= requests' /\ \A s \in sessions : s.id + d <= requests'
  BY <1>1, <1>2, <1>3, <1>4
<1>7. QED
  BY <1>2, <1>5, <1>6 DEF SessionsFit, c, d, Creators

\* A session is begun, by a request that was counted or that comes now.
Accounted == \/ /\ \E a \in Actors : request[a].op \in Creating /\ Ends(a)
                /\ UNCHANGED requests
             \/ request' = request /\ Arrives

LEMMA CreationFits ==
    ASSUME AccountsInvariant, SessionsFit, NEW rows, Fit(rows),
           NEW u \in Users, NEW level \in Levels,
           sessions' = WithSession(rows, u, level),
           Accounted
    PROVE  SessionsFit'
<1> DEFINE c == Cardinality(Creators)
           d == Cardinality(Creators')
<1>1. c \in Nat /\ d \in Nat
  BY CreatorsFinite
<1>11. /\ requests \in Nat /\ requests' \in Nat /\ requests' <= MaxRequests
       /\ c <= requests
  BY AccountsAssumption DEF SessionsFit, Accounted, Arrives
<1>12. PICK n \in Nat : n = requests'
  BY <1>11
<1>2. n <= MaxRequests /\ c <= requests /\ requests - c <= n - 1 - d
  <2>2. CASE request' = request /\ Arrives
    <3>1. d = c
      BY <2>2 DEF Creators
    <3>2. n = requests + 1
      BY <1>12, <2>2 DEF Arrives
    <3> HIDE DEF c, d
    <3>3. QED
      BY <1>1, <1>11, <1>12, <3>1, <3>2
  <2>3. ASSUME NEW a \in Actors, request[a].op \in Creating, Ends(a),
               requests' = requests
        PROVE  requests - c <= n - 1 - d
    <3>1. d <= c - 1
      BY <2>3, CreatorEnds DEF AccountsInvariant
    <3>2. n = requests
      BY <1>12, <2>3
    <3> HIDE DEF c, d
    <3>3. QED
      BY <1>1, <1>11, <3>1, <3>2
  <2>4. QED
    BY <1>11, <1>12, <2>2, <2>3 DEF Accounted
<1>3. \A s \in sessions : s.id \in Nat /\ s.id + c <= requests
  BY DEF SessionsFit, Session, Ids
<1>4. \A b \in Actors : request'[b].session \in Session \cup {NoSession}
  BY OpIsTyped DEF SessionsFit, AccountsInvariant, Typed, Ends, Accounted
<1> HIDE DEF c, d
<1>5. PICK m \in Nat : /\ m + 1 + d = n /\ m < MaxRequests
                     /\ \A i \in Nat : i + c <= requests => i <= m
  <2>1. requests \in Nat
    BY <1>11
  <2>2. MaxRequests \in Nat
    BY AccountsAssumption
  <2>3. n - 1 - d \in Nat
    BY <1>1, <1>2, <2>1
  <2>4. PICK m \in Nat : m = n - 1 - d
    BY <2>3
  <2>5. m + 1 + d = n /\ m < MaxRequests
    BY <1>1, <1>2, <2>2, <2>4
  <2>6. \A i \in Nat : i + c <= requests => i <= m
    BY <1>1, <1>2, <2>1, <2>4
  <2>7. QED
    BY <2>5, <2>6
<1>6. \A s \in sessions : s.id <= m
  BY <1>3, <1>5
<1>7. /\ sessions' \subseteq Session
      /\ \A s, q \in sessions' : s.id = q.id => s = q
      /\ \A s \in sessions' : s.id <= m + 1
  BY <1>5, <1>6, WithSessionFits
<1>8. \A s \in sessions' : s.id + d <= n
  <2>1. \A s \in sessions' : s.id \in Nat
    BY <1>7 DEF Session, Ids
  <2>2. QED
    BY <1>1, <1>5, <1>7, <2>1
<1>9. d <= n /\ n \in 0..MaxRequests
  BY <1>1, <1>2, <1>5, AccountsAssumption
<1>10. QED
  BY <1>4, <1>7, <1>8, <1>9, <1>12 DEF SessionsFit, d, Creators

(***************************************************************************)
(* Every step keeps the rows fit, one lemma for each kind of handler.      *)
(***************************************************************************)
LEMMA WriterFits ==
    ASSUME AccountsInvariant, SessionsFit, NEW a \in Actors,
           Ends(a) \/ request' = request, sessions' \subseteq sessions,
           UNCHANGED requests \/ Arrives
    PROVE  SessionsFit'
  BY NoCreationFits, FewerFit, OpIsTyped DEF Ends

LEMMA ReaderFits ==
    ASSUME AccountsInvariant, SessionsFit, NEW a \in Actors, NEW r, Reads(a, r),
           r.op \notin Creating, r.session = NoSession,
           UNCHANGED requests \/ Arrives
    PROVE  SessionsFit'
  BY NoCreationFits, FewerFit DEF Reads

LEMMA AdminFits ==
    ASSUME AccountsInvariant, SessionsFit, NEW a \in Threads, NEW u \in Users,
           \/ Admit(a, u, "session") \/ Admit(a, u, "bearer")
           \/ \E role \in Roles : CreateUser(a, u, role)
    PROVE  SessionsFit'
<1>1. a \in Actors
  BY DEF Actors
<1>2. ASSUME NEW method \in {"session", "bearer"}, Admit(a, u, method)
      PROVE  SessionsFit'
  <2> DEFINE r == [Idle EXCEPT !.op = method, !.user = u,
                               !.admins = ActiveAdmins \cap {u}]
  <2>1. Reads(a, r) /\ Arrives
    BY <1>2 DEF Admit
  <2>2. r.op = method /\ r.session = NoSession
    BY DEF Idle
  <2> HIDE DEF r
  <2>3. r.op \notin Creating
    BY <2>2 DEF Creating, SigningIn
  <2>4. QED
    BY <1>1, <2>1, <2>2, <2>3, ReaderFits
<1>3. ASSUME NEW role \in Roles, CreateUser(a, u, role)
      PROVE  SessionsFit'
  BY <1>1, <1>3, WriterFits DEF CreateUser
<1>4. QED
  BY <1>2, <1>3

LEMMA AdministrationFits ==
    ASSUME AccountsInvariant, SessionsFit, NEW a \in Threads,
           Administering(a) \/ AdminCounts(a) \/ AdminWrites(a)
    PROVE  SessionsFit'
<1>1. a \in Actors
  BY DEF Actors
<1>2. CASE Administering(a)
  <2>1. PICK r : /\ r.op \in Administration /\ r.session = NoSession
                 /\ Reads(a, r)
    BY <1>2, AdministeringReads DEF AccountsInvariant
  <2>2. r.op \notin Creating
    BY <2>1 DEF Administration, Creating, SigningIn
  <2>3. UNCHANGED requests
    BY <1>2 DEF Administering, UpdateReads, ReissueActivationReads,
       Reissue2faReads, RemoveReads, Administers
  <2>4. QED
    BY <1>1, <2>1, <2>2, <2>3, ReaderFits
<1>4. CASE AdminCounts(a)
  <2>1. UNCHANGED requests
    BY <1>4 DEF AdminCounts
  <2>2. CASE Ends(a) /\ UNCHANGED <<users, sessions, tokens>>
    BY <1>1, <2>1, <2>2, WriterFits
  <2>3. ASSUME NEW r, r.op \in Administration,
               r.session = request[a].session, Reads(a, r)
        PROVE  SessionsFit'
    <3>1. r.op \notin Creating
      BY <2>3 DEF Administration, Creating, SigningIn
    <3>2. r.session \in Session \cup {NoSession}
      BY <1>1, <2>3 DEF SessionsFit
    <3> QED
      BY <1>1, <2>1, <2>3, <3>1, <3>2, NoCreationFits, FewerFit DEF Reads
  <2> QED
    BY <1>4, <2>2, <2>3, AdminCountsEither
<1>3. CASE AdminWrites(a)
  <2>1. Ends(a) /\ sessions' \subseteq sessions /\ UNCHANGED requests
    BY <1>3 DEF AdminWrites, Revoke, Done
  <2>2. QED
    BY <1>1, <2>1, WriterFits
<1> QED
  BY <1>2, <1>3, <1>4

LEMMA TokenFits ==
    ASSUME AccountsInvariant, SessionsFit, NEW a \in Threads,
           TokenReads(a) \/ TokenWrites(a)
    PROVE  SessionsFit'
<1>1. a \in Actors
  BY DEF Actors
<1>2. CASE TokenReads(a)
  <2> DEFINE r == Ask("token", request[a].user, users[request[a].user])
  <2>1. Reads(a, r) /\ UNCHANGED requests
    BY <1>2 DEF TokenReads
  <2>2. r.op = "token" /\ r.session = NoSession
    BY DEF Ask, Idle
  <2> HIDE DEF r
  <2>3. r.op \notin Creating
    BY <2>2 DEF Creating, SigningIn
  <2>4. QED
    BY <1>1, <2>1, <2>2, <2>3, ReaderFits
<1>3. CASE TokenWrites(a)
  BY <1>1, <1>3, WriterFits DEF TokenWrites, Done
<1>4. QED
  BY <1>2, <1>3

LEMMA SignInReadFits ==
    ASSUME AccountsInvariant, SessionsFit, NEW u \in Users,
           LoginReads(u) \/ ActivateReads(u) \/ ReenrollReads(u)
    PROVE  SessionsFit'
<1>1. PICK op, row : Starts(op, u, row)
  BY DEF LoginReads, ActivateReads, ReenrollReads
<1> DEFINE r == Ask(op, u, row)
<1>2. Arrives /\ Reads(Loop, r)
  BY <1>1 DEF Starts
<1>3. r.session = NoSession
  BY DEF Ask, Idle
<1>4. Loop \in Actors
  BY DEF Actors
<1> HIDE DEF r
<1>5. QED
  BY <1>2, <1>3, <1>4, CreationReadFits DEF Reads

LEMMA VerifyFits ==
    ASSUME AccountsInvariant, SessionsFit, NEW a \in Threads,
           \/ \E s \in sessions : VerifyReads(a, s)
           \/ VerifyWrites(a)
    PROVE  SessionsFit'
<1>1. a \in Actors
  BY DEF Actors
<1>2. ASSUME NEW s \in sessions, VerifyReads(a, s)
      PROVE  SessionsFit'
  <2>1. PICK row : Reads(a, [Ask("verify", s.user, row) EXCEPT !.session = s])
    BY <1>2 DEF VerifyReads
  <2> DEFINE r == [Ask("verify", s.user, row) EXCEPT !.session = s]
  <2>2. Reads(a, r) /\ Arrives
    BY <1>2, <2>1 DEF VerifyReads
  <2>3. r.session \in Session
    BY DEF Ask, Idle, SessionsFit
  <2> HIDE DEF r
  <2>4. QED
    BY <1>1, <2>2, <2>3, CreationReadFits DEF Reads
<1>3. CASE VerifyWrites(a)
  <2> DEFINE r == request[a]
             row == {s \in sessions : s.id = r.session.id}
             ended == (sessions \ row) \cup {Ended(s) : s \in row}
  <2>1. /\ r.op = "verify" /\ Ends(a) /\ UNCHANGED requests
        /\ \/ sessions' = sessions
           \/ sessions' = WithSession(ended, r.user, "full")
    BY <1>3 DEF VerifyWrites, Done
  <2>2. Fit(ended)
    <3>1. row \in SUBSET sessions
      OBVIOUS
    <3> HIDE DEF row
    <3>2. QED
      BY <3>1, EndedFit
  <2>3. r.user \in Users
    BY <1>1 DEF AccountsInvariant, Typed, RequestTyped
  <2>4. "full" \in Levels
    BY DEF Levels
  <2> HIDE DEF ended
  <2>5. Accounted
    BY <1>1, <2>1 DEF Accounted, Creating
  <2>6. QED
    BY <1>1, <2>1, <2>2, <2>3, <2>4, <2>5, CreationFits, WriterFits
<1>4. QED
  BY <1>2, <1>3

LEMMA LoopFits ==
    ASSUME AccountsInvariant, SessionsFit, LoopWrites
    PROVE  SessionsFit'
<1> DEFINE r == request[Loop]
           rows == IF r.op = "login" THEN sessions
                   ELSE sessions \ SessionsOf(r.user)
<1>1. /\ Loop \in Actors /\ r.op \in SigningIn /\ Ends(Loop)
      /\ UNCHANGED requests
      /\ \/ sessions' = sessions
         \/ sessions' = WithSession(rows, r.user, LevelFor(r.op))
  BY DEF LoopWrites, Actors, Done
<1>2. Fit(rows)
  <2>1. rows \subseteq sessions
    OBVIOUS
  <2> HIDE DEF rows
  <2>2. QED
    BY <2>1, FewerFit
<1>3. r.user \in Users
  BY <1>1 DEF AccountsInvariant, Typed, RequestTyped
<1>4. LevelFor(r.op) \in Levels
  BY <1>1 DEF SigningIn, LevelFor, Levels, Enrolment
<1> HIDE DEF rows
<1>5. Accounted
  BY <1>1 DEF Accounted, Creating
<1>6. QED
  BY <1>1, <1>2, <1>3, <1>4, <1>5, CreationFits, WriterFits

LEMMA OthersFit ==
    ASSUME AccountsInvariant, SessionsFit, NEW u \in Users,
           Setup(u) \/ RecoverAdmin(u) \/ TokenEnds(u)
    PROVE  SessionsFit'
<1>1. Loop \in Actors
  BY DEF Actors
<1>2. CASE Setup(u)
  <2> DEFINE rows == {s \in sessions : Active(s.user)}
  <2>1. /\ sessions' = WithSession(rows, u, "mfa_setup")
        /\ request' = request /\ Arrives
    BY <1>2 DEF Setup
  <2>2. Fit(rows)
    <3>1. rows \subseteq sessions
      OBVIOUS
    <3> HIDE DEF rows
    <3>2. QED
      BY <3>1, FewerFit
  <2>3. "mfa_setup" \in Levels /\ Accounted
    BY <2>1 DEF Levels, Enrolment, Accounted
  <2> HIDE DEF rows
  <2>4. QED
    BY <2>1, <2>2, <2>3, CreationFits
<1>3. CASE RecoverAdmin(u)
  BY <1>1, <1>3, WriterFits DEF RecoverAdmin, Revoke
<1>4. CASE TokenEnds(u)
  BY <1>1, <1>4, WriterFits DEF TokenEnds
<1>5. QED
  BY <1>2, <1>3, <1>4

LEMMA SessionEndsFits ==
    ASSUME AccountsInvariant, SessionsFit, NEW s \in sessions, SessionEnds(s)
    PROVE  SessionsFit'
<1>1. /\ sessions' = (sessions \ {s}) \cup {Ended(s)}
      /\ request' = request /\ UNCHANGED requests
  BY DEF SessionEnds
<1>2. {Ended(s)} = {Ended(q) : q \in {s}}
  OBVIOUS
<1>3. Fit(sessions')
  BY <1>1, <1>2, EndedFit
<1>4. Loop \in Actors
  BY DEF Actors
<1>5. QED
  BY <1>1, <1>3, <1>4, OpIsTyped, NoCreationFits

LEMMA SessionsStep ==
    ASSUME AccountsInvariant, SessionsFit, [Next]_vars
    PROVE  SessionsFit'
<1>1. CASE UNCHANGED vars
  <2>1. request' = request /\ sessions' = sessions /\ requests' = requests
    BY <1>1 DEF vars
  <2>2. Loop \in Actors
    BY DEF Actors
  <2>3. QED
    BY <2>1, <2>2, WriterFits
<1>2. CASE Next
  BY <1>2, AdminFits, AdministrationFits, TokenFits, SignInReadFits,
     VerifyFits, LoopFits, OthersFit, SessionEndsFits DEF Next, Administering
<1>3. QED
  BY <1>1, <1>2

LEMMA SessionsStart ==
    ASSUME Init
    PROVE  SessionsFit
<1>1. sessions = {} /\ requests = 0 /\ \A a \in Actors : request[a] = Idle
  BY DEF Init
<1>2. Creators = {}
  BY <1>1, OpIsTyped DEF Creators
<1>3. Cardinality(Creators) = 0
  BY <1>2, FS_EmptySet
<1>4. QED
  BY <1>1, <1>3, OpIsTyped, AccountsAssumption DEF SessionsFit

\* No two rows of "auth_sessions" ever have one id, and no id is greater than
\* the number of requests.
THEOREM SessionsInductive ==
    Spec => [](AccountsInvariant /\ SessionsFit /\ PastInvariant)
<1>1. AccountsInvariant /\ SessionsFit /\ PastInvariant /\ [Next]_vars
         => (AccountsInvariant /\ SessionsFit /\ PastInvariant)'
  BY AccountsStep, SessionsStep, PastStep
<1>2. Init => AccountsInvariant /\ SessionsFit /\ PastInvariant
  BY AccountsStart, SessionsStart, PastStart
<1>3. QED
  BY <1>1, <1>2, PTL DEF Spec

\* The rows of users, sessions and tokens, and what every handler has read, are
\* what their types say; a session's id is its own.
THEOREM AccountTypes == Spec => []TypeOK
<1>1. AccountsInvariant /\ SessionsFit /\ PastInvariant => TypeOK
  BY DEF AccountsInvariant, SessionsFit, PastInvariant, Typed, RequestTyped,
         TypeOK
<1>2. QED
  BY <1>1, SessionsInductive, PTL
===============================================================================
