------------------------------- MODULE Access -------------------------------
(***************************************************************************)
(* Who may use the server: the first account, sign-ups, sessions of the    *)
(* browser and of devices, the admin's elevation, ingest tokens, and the   *)
(* throttle on wrong passwords (the auth package and the routes under      *)
(* /api/auth, /api/mobile/auth and /api/settings/ingest-token).            *)
(*                                                                         *)
(* A request that verifies a password takes long, so it is several steps   *)
(* here: what it read at its start may have changed when it ends.  The     *)
(* database gives no protection in between, as reads do not lock it, and   *)
(* an update writes only the columns whose value differs from what was     *)
(* read.  Requests of one step end with the commit of what they read.      *)
(*                                                                         *)
(* A token stands for its hash; all requests come from one address.        *)
(***************************************************************************)
EXTENDS Integers, Sequences, FiniteSets, FiniteSetsExt, SequencesExt, Functions

CONSTANTS
  Client,               \* requests under way at once
  Name,                 \* user names that people type
  Device,
  MaxFailures, Window, Lockout, MaxKeys,      \* AUTH_THROTTLE_*, at least one failure
  SessionAge, DeviceAge, ElevationTTL,        \* in the model's unit of time
  MaxToken, MaxTime,    \* BOUNDS
  Null

ASSUME AccessAssumption ==
  /\ MaxFailures \in Nat \ {0} /\ Window \in Nat /\ Lockout \in Nat /\ MaxKeys \in Nat \ {0}
  /\ SessionAge \in Nat \ {0} /\ DeviceAge \in Nat \ {0} /\ ElevationTTL \in Nat \ {0}
  /\ MaxToken \in Nat /\ MaxTime \in Nat
  /\ IsFiniteSet(Client)

Token == 1..MaxToken
UserId == Nat \ {0}
Purpose == {"web-login", "mobile-login", "web-admin-elevation", "mobile-admin-elevation"}
Key == Purpose \X Name

VARIABLES
  now,
  users,     \* id -> name, admin
  web,       \* token -> the browser session it opened
  mobile,    \* <<user, device>> -> that device's session
  ingest,    \* user -> token
  issued,    \* tokens handed out so far
  failures,  \* _AUTH_FAILURES: key -> times of wrong passwords
  requests,  \* Client -> the request under way, or Null
  proved,    \* what has happened: user -> when the password was last right, if lately
  tries      \* what has happened: key -> wrong passwords that still count

vars == <<now, users, web, mobile, ingest, issued, failures, requests, proved, tries>>
sessions == <<web, mobile, ingest, issued>>
throttle == <<failures, tries>>

Time == Nat
Row == [user : UserId, token : Token, expires : Time, revoked : BOOLEAN,
        elevated : Time \cup {Null}]

\* What a request under way has read.
Request ==
       [kind : {"setup"}, name : Name, device : Device \cup {Null}]
  \cup [kind : {"login"}, key : Key, device : Device \cup {Null}]
  \cup [kind : {"elevation"}, key : {"web-admin-elevation"} \X Name, session : Token, at : Time]
  \cup [kind : {"elevation"}, key : {"mobile-admin-elevation"} \X Name,
        session : UserId \X Device, at : Time]
  \cup [kind : {"device"}, session : UserId \X Device, read : Row \cup {Null}]

ASSUME NullAssumption == Null \notin Nat \cup Device \cup Row \cup Request

TypeOK ==
  /\ now \in Time /\ issued \in 0..MaxToken
  /\ users \in [DOMAIN users -> [name : Name, admin : BOOLEAN]] /\ DOMAIN users \subseteq UserId
  /\ web \in [DOMAIN web -> Row] /\ mobile \in [DOMAIN mobile -> Row]
  /\ DOMAIN ingest \subseteq DOMAIN users
  /\ \A t \in DOMAIN web : web[t].user \in DOMAIN users
  /\ \A d \in DOMAIN mobile : d \in (DOMAIN users) \X Device /\ mobile[d].user = d[1]
  /\ DOMAIN failures \subseteq Key /\ failures \in [DOMAIN failures -> Seq(Time)]

-----------------------------------------------------------------------------
Put(table, key, row) == [k \in DOMAIN table \cup {key} |-> IF k = key THEN row ELSE table[k]]
Without(table, keys) == Restrict(table, DOMAIN table \ keys)
Get(table, key, default) == IF key \in DOMAIN table THEN table[key] ELSE default

\* lookup_auth_session and lookup_mobile_auth_session: the rows a token still opens.
Live(row) == ~row.revoked /\ row.expires > now
LiveDevices == {d \in DOMAIN mobile : Live(mobile[d])}
LiveBrowsers == {t \in DOMAIN web : Live(web[t])}

\* is_elevated
Elevated(row) == Live(row) /\ row.elevated # Null /\ row.elevated > now

\* The row of a new session.
NewRow(user, age) == [user |-> user, token |-> issued + 1, expires |-> now + age,
                      revoked |-> FALSE, elevated |-> Null]

\* The user a password is verified for.
Taken(name) == \E u \in DOMAIN users : users[u].name = name
UserNamed(name) == {u \in DOMAIN users : users[u].name = name}
BootstrapRequired == users = <<>>

Init ==
  /\ now = 0 /\ issued = 0
  /\ users = <<>> /\ web = <<>> /\ mobile = <<>> /\ ingest = <<>>
  /\ failures = <<>> /\ tries = <<>>
  /\ requests = [c \in Client |-> Null]
  /\ proved = <<>>

\* Times are appended as they pass: those from a time on are the end of the list.
Since(f, time) == SubSeq(f, Max({0} \cup {i \in DOMAIN f : f[i] < time}) + 1, Len(f))

\* The wrong passwords that the promise on them is about.
Counting(f, time) == Since(f, time - Min({Window, Lockout}) + 1)

\* BOUND on the clock.  Sessions, elevations and failures run out by themselves.
Tick ==
  /\ now < MaxTime /\ now' = now + 1
  /\ tries' = [k \in {k \in DOMAIN tries : Counting(tries[k], now + 1) # <<>>} |->
                 Counting(tries[k], now + 1)]
  /\ proved' = [u \in DOMAIN proved |-> Max({proved[u], now + 1 - ElevationTTL})]
  /\ UNCHANGED <<users, sessions, failures, requests>>

-----------------------------------------------------------------------------
\* The throttle.  Failures that are still in the window:
Recent(f) == Since(f, now - Window)

\* _check_auth_throttle.
Refused(f) == Len(f) >= MaxFailures /\ Last(f) + Lockout > now
Kept(f) == IF Refused(f) \/ Len(f) < MaxFailures THEN f ELSE <<>>

\* The keys _record_auth_failure drops when there are too many: those without a recent
\* failure, then those that failed longest ago.
Stale(F) == {k \in DOMAIN F : \A i \in DOMAIN F[k] : F[k][i] < now - Window}
Evicted(F) ==
  IF Cardinality(DOMAIN F) <= MaxKeys THEN {{}}
  ELSE LET rest == DOMAIN F \ Stale(F)
           excess == Cardinality(rest) - MaxKeys
           oldest(S) == \A k \in S, l \in rest \ S : Max(Range(F[k])) <= Max(Range(F[l]))
       IN IF excess <= 0 THEN {Stale(F)}
          ELSE {Stale(F) \cup S : S \in {S \in kSubset(excess, rest) : oldest(S)}}

\* A wrong password: _record_auth_failure.
Counted(table, key) == Put(table, key, Append(Recent(Get(table, key, <<>>)), now))
Record(key) ==
  \E gone \in Evicted(Counted(failures, key)) :
    /\ failures' = Without(Counted(failures, key), gone)
    /\ tries' = Without(Put(tries, key, Append(Get(tries, key, <<>>), now)), gone)

\* The right one: _clear_auth_failures.
Clear(key) == failures' = Without(failures, {key}) /\ tries' = Without(tries, {key})

-----------------------------------------------------------------------------
Idle(c) == requests[c] = Null
Ends(c) == requests' = [requests EXCEPT ![c] = Null]

\* Accounts.  Setup looks for users, hashes the password, and inserts the user with id 1:
\* a setup that comes second breaks the primary key.
BeginSetup(c, name, device) ==
  /\ Idle(c) /\ BootstrapRequired
  /\ requests' = [requests EXCEPT ![c] = [kind |-> "setup", name |-> name, device |-> device]]
  /\ UNCHANGED <<now, users, sessions, throttle, proved>>

\* The id the row gets, and the sessions of a new account.
FirstId == 1
Joins(id, name, admin, device) ==
  /\ issued < MaxToken  \* BOUND
  /\ users' = Put(users, id, [name |-> name, admin |-> admin])
  /\ proved' = Put(proved, id, now)
  /\ \/ device = Null /\ web' = Put(web, issued + 1, NewRow(id, SessionAge))
                      /\ UNCHANGED mobile
     \/ device # Null /\ mobile' = Put(mobile, <<id, device>>, NewRow(id, DeviceAge))
                      /\ UNCHANGED web
  /\ issued' = issued + 1

EndSetup(c) ==
  /\ ~Idle(c) /\ requests[c].kind = "setup" /\ Ends(c)
  /\ IF FirstId \in DOMAIN users \/ Taken(requests[c].name)
     THEN UNCHANGED <<users, web, mobile, issued, proved>>
     ELSE Joins(FirstId, requests[c].name, TRUE, requests[c].device)
  /\ UNCHANGED <<now, ingest, throttle>>

\* A sign-up, of which only the device's signs in as well.
SignUp(name, device) ==
  LET id == Max(DOMAIN users) + 1
  IN /\ ~BootstrapRequired /\ ~Taken(name)
     /\ IF device # Null THEN Joins(id, name, FALSE, device)
        ELSE /\ users' = Put(users, id, [name |-> name, admin |-> FALSE])
             /\ UNCHANGED <<web, mobile, issued, proved>>
     /\ UNCHANGED <<now, ingest, throttle, requests>>

-----------------------------------------------------------------------------
\* A sign-in or an elevation starts with the throttle.  The request keeps what it read:
\* the session to elevate, or nothing yet.
Throttled(c, key, request) ==
  LET f == Recent(Get(failures, key, <<>>))
  IN /\ Idle(c)
     /\ failures' = Put(failures, key, Kept(f))
     /\ requests' = [requests EXCEPT ![c] = IF Refused(f) THEN Null ELSE request]
     /\ UNCHANGED <<now, users, sessions, proved, tries>>

BeginLogin(c, purpose, name, device) ==
  /\ ~BootstrapRequired
  /\ Throttled(c, <<purpose, name>>,
               [kind |-> "login", key |-> <<purpose, name>>, device |-> device])

BeginElevation(c, purpose, table, id) ==
  /\ Live(table[id]) /\ users[table[id].user].admin
  /\ LET key == <<purpose, users[table[id].user].name>>
     IN Throttled(c, key, [kind |-> "elevation", key |-> key, session |-> id, at |-> now])

\* The password is wrong, or nobody has the name.
Fail(c) ==
  /\ ~Idle(c) /\ requests[c].kind \in {"login", "elevation"}
  /\ Record(requests[c].key)
  /\ Ends(c)
  /\ UNCHANGED <<now, users, sessions, proved>>

\* The password is right.
Proves(c, user) ==
  /\ Clear(requests[c].key)
  /\ proved' = Put(proved, user, now)

LoginWeb(c) ==
  /\ ~Idle(c) /\ requests[c].kind = "login" /\ requests[c].device = Null
  /\ \E user \in UserNamed(requests[c].key[2]) :
       /\ Proves(c, user)
       /\ issued < MaxToken  \* BOUND
       /\ issued' = issued + 1
       /\ web' = Put(web, issued + 1, NewRow(user, SessionAge))
  /\ Ends(c)
  /\ UNCHANGED <<now, users, mobile, ingest>>

\* issue_mobile_auth_session reads the row of the device ...
ReadDevice(c) ==
  /\ ~Idle(c) /\ requests[c].kind = "login" /\ requests[c].device # Null
  /\ \E user \in UserNamed(requests[c].key[2]) :
       /\ Proves(c, user)
       /\ LET id == <<user, requests[c].device>>
          IN requests' = [requests EXCEPT ![c] =
               [kind |-> "device", session |-> id, read |-> Get(mobile, id, Null)]]
  /\ UNCHANGED <<now, users, sessions>>

\* ... and writes the columns that differ.  Mutant: the row keeps its token.
Reissued_SameToken(row, read) == [row EXCEPT !.expires = now + DeviceAge, !.revoked = FALSE]
Reissued(row, read) ==
  [NewRow(row.user, DeviceAge) EXCEPT
     !.revoked = IF read.revoked THEN FALSE ELSE row.revoked,
     !.elevated = IF read.elevated # Null THEN Null ELSE row.elevated]

\* An insert that comes second breaks the unique key of user and device.
WriteDevice(c) ==
  /\ ~Idle(c) /\ requests[c].kind = "device"
  /\ LET id == requests[c].session
         read == requests[c].read
     IN IF read = Null /\ id \in DOMAIN mobile THEN UNCHANGED <<mobile, issued>>
        ELSE /\ issued < MaxToken  \* BOUND
             /\ issued' = issued + 1
             /\ mobile' = Put(mobile, id, IF read = Null THEN NewRow(id[1], DeviceAge)
                                          ELSE Reissued(mobile[id], read))
  /\ Ends(c)
  /\ UNCHANGED <<now, users, web, ingest, throttle, proved>>

\* The session that was read is elevated from the time the request began, whatever became
\* of it in between.  Mutant: from when the session would run out.
ElevatedUntil_Longer(row, at) == row.expires + ElevationTTL
ElevatedUntil(row, at) == at + ElevationTTL
Elevate(c) ==
  /\ ~Idle(c) /\ requests[c].kind = "elevation"
  /\ LET id == requests[c].session
         until(row) == ElevatedUntil(row, requests[c].at)
     IN \/ /\ requests[c].key[1] = "web-admin-elevation" /\ Proves(c, web[id].user)
           /\ web' = [web EXCEPT ![id].elevated = until(web[id])] /\ UNCHANGED mobile
        \/ /\ requests[c].key[1] = "mobile-admin-elevation" /\ Proves(c, mobile[id].user)
           /\ mobile' = [mobile EXCEPT ![id].elevated = until(mobile[id])] /\ UNCHANGED web
  /\ Ends(c)
  /\ UNCHANGED <<now, users, ingest, issued>>

\* Signing out closes the session; a device may also close another one of its user.
LogoutWeb(t) ==
  /\ t \in LiveBrowsers
  /\ web' = [web EXCEPT ![t].revoked = TRUE]
  /\ UNCHANGED <<now, users, mobile, ingest, issued, throttle, requests, proved>>

RevokeDevice(by, id) ==
  /\ by \in LiveDevices /\ id \in DOMAIN mobile /\ id[1] = by[1]
  /\ mobile' = [mobile EXCEPT ![id].revoked = TRUE]
  /\ UNCHANGED <<now, users, web, ingest, issued, throttle, requests, proved>>

\* A user's one ingest token is replaced or deleted.
RotateIngest(user) ==
  /\ \E t \in LiveBrowsers : web[t].user = user
  /\ issued < MaxToken  \* BOUND
  /\ issued' = issued + 1
  /\ ingest' = Put(ingest, user, issued + 1)
  /\ UNCHANGED <<now, users, web, mobile, throttle, requests, proved>>

DeleteIngest(user) ==
  /\ user \in DOMAIN ingest /\ \E t \in LiveBrowsers : web[t].user = user
  /\ ingest' = Without(ingest, {user})
  /\ UNCHANGED <<now, users, web, mobile, issued, throttle, requests, proved>>

Next ==
  \/ Tick
  \/ \E c \in Client :
       \/ \E name \in Name, device \in Device \cup {Null} :
            \/ BeginSetup(c, name, device)
            \/ BeginLogin(c, IF device = Null THEN "web-login" ELSE "mobile-login", name, device)
       \/ \E t \in DOMAIN web : BeginElevation(c, "web-admin-elevation", web, t)
       \/ \E d \in DOMAIN mobile : BeginElevation(c, "mobile-admin-elevation", mobile, d)
       \/ EndSetup(c) \/ Fail(c) \/ LoginWeb(c) \/ ReadDevice(c) \/ WriteDevice(c) \/ Elevate(c)
  \/ \E name \in Name, device \in Device \cup {Null} : SignUp(name, device)
  \/ \E t \in DOMAIN web : LogoutWeb(t)
  \/ \E by, id \in DOMAIN mobile : RevokeDevice(by, id)
  \/ \E user \in DOMAIN users : RotateIngest(user) \/ DeleteIngest(user)

Spec == Init /\ [][Next]_vars

-----------------------------------------------------------------------------
\* Two people who set up a new server at once do not both become its administrator.
OneAdmin == Cardinality({u \in DOMAIN users : users[u].admin}) <= 1

\* The tokens that open something, wherever they are kept.
OpenTokens == LiveBrowsers \cup {mobile[d].token : d \in LiveDevices} \cup Range(ingest)

\* A token is never accepted again once it was signed out, replaced by a new sign-in of
\* the device or a rotation, deleted, or too old, and no two of them come alive at once.
Lives == INSTANCE TokenLife WITH issued <- 1..issued, open <- OpenTokens
ImplementsTokenLife == Lives!Spec

\* One token opens one thing: two sessions never share one.
TokensDiffer ==
  /\ Cardinality(OpenTokens)
       = Cardinality(LiveBrowsers) + Cardinality(LiveDevices) + Cardinality(DOMAIN ingest)

\* Whatever order sign-ins, sign-outs and elevations commit in, a session that counts as
\* elevated is the administrator's, and a password was right less than the time of an
\* elevation ago.
ElevationIsProved ==
  \A row \in Range(web) \cup Range(mobile) :
    Elevated(row) => /\ users[row.user].admin
                     /\ proved[row.user] + ElevationTTL > now

\* However requests overlap, wrong passwords in a row for a name are too few to search:
\* at most one more than allowed for each other request that was under way.
FailuresBounded ==
  \A key \in DOMAIN tries :
    Len(Counting(tries[key], now)) <= MaxFailures - 1 + Cardinality(Client)

\* The memory that remembers them is limited too, but for requests under way.
ThrottleBounded == Cardinality(DOMAIN failures) <= MaxKeys + Cardinality(Client)

\* Whoever signs in, signs up or elevates at once, and in whatever order it commits: one
\* administrator, one owner for a token, elevations that were proved, a throttle that holds.
SignInHolds ==
  TypeOK /\ OneAdmin /\ TokensDiffer /\ ElevationIsProved /\ FailuresBounded /\ ThrottleBounded
=============================================================================
