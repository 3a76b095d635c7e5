---------------------------- MODULE RefreshTokens ----------------------------
(***************************************************************************)
(* Logins, refreshes, logouts and account administration, as they meet in  *)
(* the tables users, refresh_tokens and revoked_tokens (auth.go,           *)
(* auth_refresh.go, store_refresh_tokens.go, store_revocation.go,          *)
(* user_handlers.go).                                                      *)
(*                                                                         *)
(* Each request is a small machine that stops between two calls to the     *)
(* store; a call is one transaction of the database and one step here.     *)
(* Between two calls anything may happen: another request, an              *)
(* administrator, the pruner, a store error, a client that hangs up, a     *)
(* crash of the server (Abort).                                            *)
(*                                                                         *)
(* A token identifier stands for a refresh token and for the access token  *)
(* (its jti) that was handed out with it.                                  *)
(***************************************************************************)
CONSTANTS User, Token, Request, None

ASSUME NoneIsFresh == None \notin User \cup Token

VARIABLES
    users,      \* the rows of table users
    active,     \* users.active
    row,        \* the row of refresh_tokens, see RowState
    owner,      \* refresh_tokens.user_id
    expired,    \* the tokens whose expires_at has passed
    revoked,    \* table revoked_tokens: the jti of these tokens
    req,        \* the requests in flight
    held,       \* the tokens some client received (or stole)
    (* history, read by no action *)
    session,    \* session[t]: the login that t descends from
    ended,      \* the sessions a completed revocation has ended
    loggedOut   \* the access tokens whose logout was answered 204

tables  == <<users, active, row, owner, expired, revoked>>
history == <<session, ended, loggedOut>>
vars    == <<tables, req, held, history>>

\* "free": not minted yet; "gone": the row was deleted.
RowState == {"free", "unused", "used", "gone"}

PC == {"idle", "loginInsert", "getUser", "rotate", "revokeReplay",
       "revokeLoser", "logoutDelete", "logoutRevoke"}

RequestState == [pc : PC, user : User \cup {None}, tok : Token \cup {None}]

Idle == [pc |-> "idle", user |-> None, tok |-> None]

TypeOK ==
    /\ users \subseteq User
    /\ active \in [User -> BOOLEAN]
    /\ row \in [Token -> RowState]
    /\ owner \in [Token -> User \cup {None}]
    /\ expired \subseteq Token
    /\ revoked \subseteq Token
    /\ req \in [Request -> RequestState]
    /\ held \subseteq Token
    /\ session \in [Token -> Token \cup {None}]
    /\ ended \subseteq Token
    /\ loggedOut \subseteq Token

Init ==
    /\ users = User
    /\ active = [u \in User |-> TRUE]
    /\ row = [t \in Token |-> "free"]
    /\ owner = [t \in Token |-> None]
    /\ expired = {}
    /\ revoked = {}
    /\ req = [r \in Request |-> Idle]
    /\ held = {}
    /\ session = [t \in Token |-> None]
    /\ ended = {}
    /\ loggedOut = {}

-----------------------------------------------------------------------------
(* The statements of db/query.sql the transactions are made of.            *)

Stored(t) == row[t] \in {"unused", "used"}

\* GetRefreshTokenByHash followed by the tests of the handler.
Spent(t)      == row[t] = "used"
Acceptable(t) == row[t] = "unused" /\ t \notin expired

CanLogIn(u) == u \in users /\ active[u]

\* (Mutants: the UPDATE without "AND used_at IS NULL", and an UPDATE whose
\* affected rows nobody counts.)
ConsumableTwice(t)     == Stored(t)
ConsumableUncounted(t) == row[t] # "free"

\* MarkRefreshTokenUsed affects one row: the WHERE clause asks for an unused one.
Consumable(t) == row[t] = "unused"

\* DeleteRefreshTokensForUser: the table after the DELETE.
RowsWithout(u) ==
    [t \in Token |-> IF owner[t] = u /\ Stored(t) THEN "gone" ELSE row[t]]

\* The sessions user u has ever opened.
SessionsOf(u) == {session[t] : t \in {x \in Token : owner[x] = u}}

Answer(r) == req' = [req EXCEPT ![r] = Idle]

Proceed(r, pc) == req' = [req EXCEPT ![r].pc = pc]

\* The reply with the new token may be lost on its way.
Deliver(t) == held' \in {held, held \cup {t}}

-----------------------------------------------------------------------------
(* POST /api/v1/auth/login: handleLogin.                                   *)

\* GetUserByEmail, the password matches the hash that was read, the user is
\* active.  Every other outcome is a 401 that leaves nothing behind.
LoginRead(r, u) ==
    /\ req[r] = Idle
    /\ CanLogIn(u)
    /\ req' = [req EXCEPT ![r] = [Idle EXCEPT !.pc = "loginInsert", !.user = u]]
    /\ UNCHANGED <<tables, held, history>>

\* issueRefreshToken: a plain INSERT.  It takes no user lock and reads nothing
\* again; only the foreign key insists that the user still exists.
LoginInsert(r, t) ==
    /\ req[r].pc = "loginInsert"
    /\ req[r].user \in users
    /\ row[t] = "free"
    /\ row' = [row EXCEPT ![t] = "unused"]
    /\ owner' = [owner EXCEPT ![t] = req[r].user]
    /\ session' = [session EXCEPT ![t] = t]
    /\ Deliver(t)
    /\ Answer(r)
    /\ UNCHANGED <<users, active, expired, revoked, ended, loggedOut>>

-----------------------------------------------------------------------------
(* POST /api/v1/auth/refresh: handleRefreshToken.                          *)

\* GetRefreshToken finds a token that was consumed before: a replay.
RefreshReadSpent(r, t) ==
    /\ req[r] = Idle
    /\ t \in held
    /\ Spent(t)
    /\ req' = [req EXCEPT ![r] =
                 [Idle EXCEPT !.pc = "revokeReplay", !.user = owner[t], !.tok = t]]
    /\ UNCHANGED <<tables, held, history>>

\* GetRefreshToken finds a usable token.  Unknown and expired tokens get a 401.
RefreshReadUsable(r, t) ==
    /\ req[r] = Idle
    /\ t \in held
    /\ Acceptable(t)
    /\ req' = [req EXCEPT ![r] =
                 [Idle EXCEPT !.pc = "getUser", !.user = owner[t], !.tok = t]]
    /\ UNCHANGED <<tables, held, history>>

RefreshGetUser(r) ==
    /\ req[r].pc = "getUser"
    /\ IF CanLogIn(req[r].user) THEN Proceed(r, "rotate") ELSE Answer(r)
    /\ UNCHANGED <<tables, held, history>>

\* (Mutant: the replacement is stored and the presented token stays usable.)
RotateKeepsOld(r, t) ==
    LET old == req[r].tok IN
    /\ req[r].pc = "rotate"
    /\ req[r].user \in users
    /\ Consumable(old)
    /\ row[t] = "free"
    /\ row' = [row EXCEPT ![t] = "unused"]
    /\ owner' = [owner EXCEPT ![t] = req[r].user]
    /\ session' = [session EXCEPT ![t] = session[old]]
    /\ Deliver(t)
    /\ Answer(r)
    /\ UNCHANGED <<users, active, expired, revoked, ended, loggedOut>>

\* RotateRefreshToken commits: the presented token is consumed and its
\* replacement stored.  A commit whose acknowledgement is lost, and a JWT that
\* cannot be signed, leave the client without the replacement.
RefreshRotate(r, t) ==
    LET old == req[r].tok IN
    /\ req[r].pc = "rotate"
    /\ req[r].user \in users
    /\ Consumable(old)
    /\ row[t] = "free"
    /\ row' = [row EXCEPT ![old] = "used", ![t] = "unused"]
    /\ owner' = [owner EXCEPT ![t] = req[r].user]
    /\ session' = [session EXCEPT ![t] = session[old]]
    /\ Deliver(t)
    /\ Answer(r)
    /\ UNCHANGED <<users, active, expired, revoked, ended, loggedOut>>

\* RotateRefreshToken reports false: no user to lock, or no row to consume.
RefreshLoses(r) ==
    /\ req[r].pc = "rotate"
    /\ req[r].user \notin users \/ ~Consumable(req[r].tok)
    /\ Proceed(r, "revokeLoser")
    /\ UNCHANGED <<tables, held, history>>

\* DeleteRefreshTokensForUser, then the 401 that tells the client to log in.
RefreshRevoke(r) ==
    /\ req[r].pc \in {"revokeReplay", "revokeLoser"}
    /\ row' = RowsWithout(req[r].user)
    /\ ended' = ended \cup SessionsOf(req[r].user)
    /\ Answer(r)
    /\ UNCHANGED <<users, active, owner, expired, revoked, held, session,
                   loggedOut>>

-----------------------------------------------------------------------------
(* POST /api/v1/auth/logout: requireAuth, then handleLogout.               *)

\* checkRevoked lets an access token pass that is not on the blocklist.
LogoutStart(r, t) ==
    /\ req[r] = Idle
    /\ t \in held
    /\ t \notin revoked
    /\ req' = [req EXCEPT ![r] =
                 [Idle EXCEPT !.pc = "logoutDelete", !.user = owner[t], !.tok = t]]
    /\ UNCHANGED <<tables, held, history>>

\* (Mutant: a failed DELETE is logged and the logout goes on.)
LogoutDeleteBestEffort(r) ==
    /\ req[r].pc = "logoutDelete"
    /\ row' \in {row, RowsWithout(req[r].user)}
    /\ Proceed(r, "logoutRevoke")
    /\ UNCHANGED <<users, active, owner, expired, revoked, held, history>>

LogoutDelete(r) ==
    /\ req[r].pc = "logoutDelete"
    /\ row' = RowsWithout(req[r].user)
    /\ Proceed(r, "logoutRevoke")
    /\ UNCHANGED <<users, active, owner, expired, revoked, held, history>>

\* RevokeToken; revoked_tokens.user_id refers to users, so a deleted account
\* gets a 500 here (Abort).
LogoutRevoke(r) ==
    /\ req[r].pc = "logoutRevoke"
    /\ req[r].user \in users
    /\ revoked' = revoked \cup {req[r].tok}
    /\ loggedOut' = loggedOut \cup {req[r].tok}
    /\ ended' = ended \cup {session[req[r].tok]}
    /\ Answer(r)
    /\ UNCHANGED <<users, active, row, owner, expired, held, session>>

\* A store call fails, the client goes away or the server stops: the request
\* ends where it is, and no transaction of it stays open.
Abort(r) ==
    /\ req[r] # Idle
    /\ Answer(r)
    /\ UNCHANGED <<tables, held, history>>

-----------------------------------------------------------------------------
(* Account administration, each one transaction.                           *)

RevokeAll(u) ==
    /\ row' = RowsWithout(u)
    /\ ended' = ended \cup SessionsOf(u)

\* SetUserPasswordAndRevokeSessions.
SetPassword(u) ==
    /\ u \in users
    /\ RevokeAll(u)
    /\ UNCHANGED <<users, active, owner, expired, revoked, req, held, session,
                   loggedOut>>

\* (Mutant: the flag is cleared and the tokens are left to expire.)
DeactivateKeepsTokens(u) ==
    /\ u \in users
    /\ active' = [active EXCEPT ![u] = FALSE]
    /\ UNCHANGED <<users, row, owner, expired, revoked, req, held, history>>

\* SetUserActiveAndRevokeSessions with active = false.
Deactivate(u) ==
    /\ u \in users
    /\ active' = [active EXCEPT ![u] = FALSE]
    /\ RevokeAll(u)
    /\ UNCHANGED <<users, owner, expired, revoked, req, held, session, loggedOut>>

\* SetUserActiveAndRevokeSessions with active = true.
Activate(u) ==
    /\ u \in users
    /\ active' = [active EXCEPT ![u] = TRUE]
    /\ UNCHANGED <<users, row, owner, expired, revoked, req, held, history>>

\* DELETE FROM users: refresh_tokens cascades, revoked_tokens keeps its rows.
DeleteUser(u) ==
    /\ u \in users
    /\ users' = users \ {u}
    /\ row' = RowsWithout(u)
    /\ ended' = ended \cup SessionsOf(u)
    /\ UNCHANGED <<active, owner, expired, revoked, req, held, session,
                   loggedOut>>

-----------------------------------------------------------------------------
(* Time: expires_at passes, and RefreshTokenPruner sweeps.                 *)

Expire(t) ==
    /\ Stored(t)
    /\ t \notin expired
    /\ expired' = expired \cup {t}
    /\ UNCHANGED <<users, active, row, owner, revoked, req, held, history>>

\* PruneExpiredRefreshTokens: one DELETE, used rows and unused rows alike.
Prune ==
    /\ \E t \in expired : Stored(t)
    /\ row' = [t \in Token |->
                 IF t \in expired /\ Stored(t) THEN "gone" ELSE row[t]]
    /\ UNCHANGED <<users, active, owner, expired, revoked, req, held, history>>

-----------------------------------------------------------------------------
Next ==
    \/ \E r \in Request :
         \/ \E u \in User : LoginRead(r, u)
         \/ \E t \in Token : \/ LoginInsert(r, t)
                             \/ RefreshReadSpent(r, t)
                             \/ RefreshReadUsable(r, t)
                             \/ RefreshRotate(r, t)
                             \/ LogoutStart(r, t)
         \/ RefreshGetUser(r)
         \/ RefreshLoses(r)
         \/ RefreshRevoke(r)
         \/ LogoutDelete(r)
         \/ LogoutRevoke(r)
         \/ Abort(r)
    \/ \E u \in User : SetPassword(u) \/ Deactivate(u) \/ Activate(u) \/ DeleteUser(u)
    \/ \E t \in Token : Expire(t)
    \/ Prune

Spec == Init /\ [][Next]_vars

-----------------------------------------------------------------------------
(* Properties.                                                             *)

\* However many requests present the same token, and whatever commits between
\* their steps, a session never has two tokens that can both be exchanged
\* (MarkRefreshTokenUsed is a compare-and-set).
OneLiveTokenPerSession ==
    \A t1, t2 \in Token :
        row[t1] = "unused" /\ row[t2] = "unused" /\ session[t1] = session[t2]
            => t1 = t2

\* Once a replay or a lost race was answered, a password changed, a user
\* deactivated or deleted, or a logout answered 204, no rotation that was in
\* flight leaves a token of those sessions behind, then or later.
EndedSessionsStayEnded ==
    \A t \in Token : Stored(t) => session[t] \notin ended

\* handleRefreshToken reads users.active one call before it rotates, and still
\* no token of an inactive or deleted account is ever exchanged: the deactivation
\* that comes between takes the token away.
RenewalOnlyWhileActive ==
    [][\A t \in Token :
          row[t] = "unused" /\ row'[t] = "used" => CanLogIn(owner[t])]_vars

\* A revoked access token has no refresh token left that could be traded for a
\* new one (handleLogout deletes first and revokes second), and a logout that
\* was answered 204 keeps its entry on the blocklist, even when the account is
\* deleted later.
LogoutIsFinal ==
    /\ loggedOut \subseteq revoked
    /\ \A t \in revoked, x \in Token : Stored(x) => session[x] # session[t]

-----------------------------------------------------------------------------
(* The subsystem implements Sessions: the credential that renews s is the   *)
(* unused row that descends from the login s, if there is one.              *)

LiveToken(s) == {t \in Token : row[t] = "unused" /\ session[t] = s}

Current ==
    [s \in Token |-> IF LiveToken(s) = {} THEN None
                                          ELSE CHOOSE t \in LiveToken(s) : TRUE]

Abstract == INSTANCE Sessions WITH
    issued <- {t \in Token : row[t] # "free"}, current <- Current

\* Logins open a session, a rotation renews it with a fresh token, and every
\* other step closes sessions or leaves them alone.
ImplementsSessions == Abstract!Spec
=============================================================================
