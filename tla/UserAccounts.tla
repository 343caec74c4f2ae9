----------------------------- MODULE UserAccounts -----------------------------
(***************************************************************************)
(* The users and mobile tokens of auth-node-service: UserService and       *)
(* MobileTokenService under requests that interleave at every await, and   *)
(* the seeding of the first administrator at every start.                  *)
(*                                                                         *)
(* TypeORM's save writes every column in which the entity differs from the *)
(* row as it is by then, and inserts the row if it is gone, so a save puts *)
(* back the whole row a request read.  The legacy identity of app_config,  *)
(* names, notes, permissions and allowed sessions are left out, and the    *)
(* role "collector" is like "reseller".  The legacy identity always passes *)
(* JwtAuthGuard, so the guard excludes no request from the model.          *)
(***************************************************************************)
EXTENDS Integers, FiniteSets

CONSTANTS
  Usernames,
  SeedName,         \* the username that is seeded ("mikhmon")
  Passwords,
  SeedPassword,
  MaxTime,          \* bound: milliseconds at which a user may be created
  MaxRequests,      \* bound: requests, each handled once
  MaxRestarts       \* bound: restarts of the service

ASSUME NamesAssumption ==
  /\ SeedName \in Usernames
  /\ SeedPassword \in Passwords
ASSUME BoundsAssumption ==
  /\ MaxTime \in Nat \ {0}
  /\ MaxRequests \in Nat
  /\ MaxRestarts \in Nat

Times == 1 .. MaxTime
Requests == 1 .. MaxRequests

VARIABLES
  users,      \* the table of users, by id; an id is the time of its creation
  tokens,     \* mobile_user_tokens
  expired,    \* the tokens whose thirty days are over
  now,        \* the clock, in milliseconds since the first start
  req,        \* the requests in progress
  raced,      \* history: users whose tokens two requests replaced at once
  restarts

vars == <<users, tokens, expired, now, req, raced, restarts>>

Row == [name : Usernames, password : Passwords,
        role : {"admin", "reseller"}, active : BOOLEAN]
NoRow == [name |-> SeedName, password |-> SeedPassword,
          role |-> "none", active |-> FALSE]
Seed == [name |-> SeedName, password |-> SeedPassword,
         role |-> "admin", active |-> TRUE]

\* A token is known by the login that generated it.
Token == [login : Requests, user : Times]

\* What a request saves is fixed when it has read: entity.  It is overtaken
\* once another request has written to the table it is about to write to.
NoToken == [login |-> 0, user |-> 0]
Request == [kind : {"none", "create", "update", "login", "mobileLogin",
                    "delete", "verify"},
            pc : {"new", "count", "save", "delete", "revokeOld", "issue",
                  "touch", "done"},
            user : Times \cup {0},
            entity : Row \cup {NoRow},
            token : Token \cup {NoToken},
            overtaken : BOOLEAN]
NewRequest == [kind |-> "none", pc |-> "new", user |-> 0, entity |-> NoRow,
               token |-> NoToken, overtaken |-> FALSE]
Done == [NewRequest EXCEPT !.pc = "done"]

TypeOK ==
  /\ users \in [Times -> Row \cup {NoRow}]
  /\ tokens \subseteq Token
  /\ expired \subseteq Token
  /\ now \in 2 .. MaxTime + 1
  /\ req \in [Requests -> Request]
  /\ raced \subseteq Times
  /\ restarts \in 0 .. MaxRestarts

Init ==
  /\ users = [t \in Times |-> IF t = 1 THEN Seed ELSE NoRow]
  /\ tokens = {}
  /\ expired = {}
  /\ now = 2
  /\ req = [r \in Requests |-> NewRequest]
  /\ raced = {}
  /\ restarts = 0

-----------------------------------------------------------------------------
(* Queries and writes *)

Exists(u) == users[u] # NoRow
IsActiveAdmin(row) == row.role = "admin" /\ row.active
ActiveAdmins == {u \in Times : IsActiveAdmin(users[u])}
Named(n) == {u \in Times : Exists(u) /\ users[u].name = n}
TokensOf(u) == {t \in tokens : t.user = u}

Arrives(r) == req[r].pc = "new" /\ \A q \in Requests : q < r => req[q].pc # "new"
At(r, pc) == req[r].pc = pc
End(r) == req' = [req EXCEPT ![r] = Done]

\* Request r goes on as next; those that wait at pcs have been overtaken.
Writes(r, next, pcs) ==
  req' = [q \in Requests |->
            IF q = r THEN next
            ELSE IF req[q].pc \in pcs THEN [req[q] EXCEPT !.overtaken = TRUE]
            ELSE req[q]]

\* The users table is written between the first read of these and their write.
UserWriters == {"count", "save", "delete"}

\* Replaces or inserts the row of an id, unless the unique index on the
\* username refuses it.
Saved(u, row) ==
  IF Named(row.name) \subseteq {u} THEN [users EXCEPT ![u] = row] ELSE users

\* Mutant: a deleted user is only marked.
Marked(u) == [users EXCEPT ![u].role = "none", ![u].active = FALSE]

Removed(u) == [users EXCEPT ![u] = NoRow]

KeepTokens == UNCHANGED <<tokens, expired, raced>>
KeepClock == UNCHANGED <<now, restarts>>

-----------------------------------------------------------------------------
(* UserService *)

\* assertKeepsAtLeastOneActiveAdmin has something to count.
DropsAdmin(old, new) == IsActiveAdmin(old) /\ ~IsActiveAdmin(new)

\* The request has read user u and will leave it as row.
Loaded(r, kind, u, row) ==
  req' = [req EXCEPT ![r] =
            [NewRequest EXCEPT
               !.kind = kind, !.user = u, !.entity = row,
               !.pc = IF DropsAdmin(users[u], row) THEN "count"
                      ELSE IF kind = "delete" THEN "delete" ELSE "save"]]

\* create: the id is drawn before the password is hashed.
Create(r, n, role, p) ==
  /\ Arrives(r)
  /\ now \in Times
  /\ IF Named(n) # {} THEN End(r)
     ELSE Loaded(r, "create", now,
                 [name |-> n, password |-> p, role |-> role, active |-> TRUE])
  /\ UNCHANGED users /\ KeepTokens /\ KeepClock

Update(r, u, role, active) ==
  /\ Arrives(r)
  /\ IF ~Exists(u) THEN End(r)
     ELSE Loaded(r, "update", u,
                 [users[u] EXCEPT !.role = role, !.active = active])
  /\ UNCHANGED users /\ KeepTokens /\ KeepClock

ToggleActive(r, u) ==
  /\ Arrives(r)
  /\ IF ~Exists(u) THEN End(r)
     ELSE Loaded(r, "update", u, [users[u] EXCEPT !.active = ~@])
  /\ UNCHANGED users /\ KeepTokens /\ KeepClock

ResetPassword(r, u, p) ==
  /\ Arrives(r)
  /\ IF ~Exists(u) THEN End(r)
     ELSE Loaded(r, "update", u, [users[u] EXCEPT !.password = p])
  /\ UNCHANGED users /\ KeepTokens /\ KeepClock

ChangePassword(r, u, old, p) ==
  /\ Arrives(r)
  /\ IF ~Exists(u) \/ users[u].password # old THEN End(r)
     ELSE Loaded(r, "update", u, [users[u] EXCEPT !.password = p])
  /\ UNCHANGED users /\ KeepTokens /\ KeepClock

Delete(r, u) ==
  /\ Arrives(r)
  /\ IF ~Exists(u) THEN End(r)
     ELSE Loaded(r, "delete", u, NoRow)
  /\ UNCHANGED users /\ KeepTokens /\ KeepClock

\* validate, for the panel (a JWT) or the mobile application (a token).
Login(r, kind, n, p) ==
  /\ Arrives(r)
  /\ LET found == {u \in Named(n) : users[u].active /\ users[u].password = p}
     IN  IF found = {} THEN End(r)
         ELSE \E u \in found : Loaded(r, kind, u, users[u])
  /\ UNCHANGED users /\ KeepTokens /\ KeepClock

\* Mutant: the user counts himself.
AllActiveAdmins(u) == ActiveAdmins

OtherActiveAdmins(u) == ActiveAdmins \ {u}

Count(r) ==
  /\ At(r, "count")
  /\ IF OtherActiveAdmins(req[r].user) = {} THEN End(r)
     ELSE req' = [req EXCEPT ![r].pc = IF req[r].kind = "delete"
                                       THEN "delete" ELSE "save"]
  /\ UNCHANGED users /\ KeepTokens /\ KeepClock

\* Hashing the password of a new user takes longer than a millisecond.
Save(r) ==
  /\ At(r, "save")
  /\ req[r].kind = "create" => now > req[r].user
  /\ users' = Saved(req[r].user, req[r].entity)
  /\ LET accepted == users'[req[r].user] = req[r].entity
     IN  Writes(r, IF req[r].kind = "mobileLogin" /\ accepted
                   THEN [req[r] EXCEPT !.pc = "revokeOld"] ELSE Done,
                UserWriters)
  /\ KeepTokens /\ KeepClock

DeleteRow(r) ==
  /\ At(r, "delete")
  /\ users' = Removed(req[r].user)
  /\ Writes(r, Done, UserWriters)
  /\ KeepTokens /\ KeepClock

-----------------------------------------------------------------------------
(* MobileTokenService *)

\* Mutant: only expired tokens are removed.
WithoutExpired(u) == tokens \ (TokensOf(u) \cap expired)

WithoutOld(u) == tokens \ TokensOf(u)

\* generate deletes the user's tokens, then inserts the new one.
RevokeOld(r) ==
  /\ At(r, "revokeOld")
  /\ tokens' = WithoutOld(req[r].user)
  /\ raced' = raced \ {req[r].user}
  /\ req' = [req EXCEPT ![r].pc = "issue", ![r].overtaken = FALSE]
  /\ UNCHANGED <<users, expired>> /\ KeepClock

Issue(r) ==
  /\ At(r, "issue")
  /\ tokens' = tokens \cup {[login |-> r, user |-> req[r].user]}
  /\ raced' = IF req[r].overtaken THEN raced \cup {req[r].user} ELSE raced
  /\ Writes(r, Done, {"issue"})
  /\ UNCHANGED <<users, expired>> /\ KeepClock

\* verify rejects an unknown or expired token and notes the use of another.
Verify(r, t) ==
  /\ Arrives(r)
  /\ IF t \notin tokens \/ t \in expired THEN End(r)
     ELSE req' = [req EXCEPT ![r] = [NewRequest EXCEPT !.kind = "verify",
                                       !.pc = "touch", !.user = t.user,
                                       !.token = t]]
  /\ UNCHANGED users /\ KeepTokens /\ KeepClock

\* The save inserts a token that has been revoked since the request read it.
Touch(r) ==
  /\ At(r, "touch")
  /\ LET t == req[r].token
     IN  /\ tokens' = tokens \cup {t}
         /\ raced' = IF t \in tokens THEN raced ELSE raced \cup {t.user}
         /\ IF t \in tokens THEN End(r) ELSE Writes(r, Done, {"issue"})
  /\ UNCHANGED <<users, expired>> /\ KeepClock

Logout(r, t) ==
  /\ Arrives(r)
  /\ End(r)
  /\ tokens' = tokens \ {t}
  /\ UNCHANGED <<users, expired, raced>> /\ KeepClock

-----------------------------------------------------------------------------

Tick ==
  /\ now \in Times
  /\ now' = now + 1
  /\ UNCHANGED <<users, tokens, expired, req, raced, restarts>>

Expire(t) ==
  /\ t \in tokens \ expired
  /\ expired' = expired \cup {t}
  /\ UNCHANGED <<users, tokens, now, req, raced, restarts>>

\* The requests in progress are lost; SeedService adds the administrator
\* again if no user has his name.
Restart ==
  /\ restarts < MaxRestarts
  /\ restarts' = restarts + 1
  /\ req' = [r \in Requests |-> IF req[r].pc = "new" THEN req[r] ELSE Done]
  /\ IF Named(SeedName) # {} THEN UNCHANGED <<users, now>>
     ELSE /\ now \in Times
          /\ users' = [users EXCEPT ![now] = Seed]
          /\ now' = now + 1
  /\ UNCHANGED <<tokens, expired, raced>>

RequestStep(r) ==
  \/ \E n \in Usernames, role \in {"admin", "reseller"}, p \in Passwords :
       Create(r, n, role, p)
  \/ \E u \in Times, role \in {"admin", "reseller"}, active \in BOOLEAN :
       Update(r, u, role, active)
  \/ \E u \in Times : ToggleActive(r, u)
  \/ \E u \in Times, p \in Passwords : ResetPassword(r, u, p)
  \/ \E u \in Times, old, p \in Passwords : ChangePassword(r, u, old, p)
  \/ \E u \in Times : Delete(r, u)
  \/ \E kind \in {"login", "mobileLogin"}, n \in Usernames, p \in Passwords :
       Login(r, kind, n, p)
  \/ \E t \in Token : Verify(r, t) \/ Logout(r, t)
  \/ Count(r) \/ Save(r) \/ DeleteRow(r)
  \/ RevokeOld(r) \/ Issue(r) \/ Touch(r)

Next ==
  \/ \E r \in Requests : RequestStep(r)
  \/ \E t \in Token : Expire(t)
  \/ Tick
  \/ Restart

Spec == Init /\ [][Next]_vars

-----------------------------------------------------------------------------
(* Properties *)

HasActiveAdmin == ActiveAdmins # {}

\* The system loses its last active administrator only by a request that
\* another request has overtaken since it read: changes that do not overlap
\* keep one, whatever they are and however the service restarts.
LastAdminLeavesByRace ==
  [][HasActiveAdmin =>
       HasActiveAdmin' \/ \E r \in Requests : req[r].overtaken /\ req'[r] # req[r]]_vars

\* A login leaves the user with one mobile token, unless another login or a
\* verification came between the deletion of the old ones and its insertion.
OneTokenPerUser ==
  \A u \in Times \ raced : Cardinality(TokensOf(u)) <= 1
=============================================================================
