---------------------------- MODULE AdminAccounts ----------------------------
(***************************************************************************)
(* Who administers the server.  The admin pages look before they demote or  *)
(* deactivate an administrator (admin_page_handlers.go), the JSON API does  *)
(* not (user_handlers.go), and a server that is started with a bootstrap    *)
(* account makes it if it finds no administrator (bootstrap.go).  A page    *)
(* request is three store calls long: the account, the count, the change.   *)
(*                                                                          *)
(* An administrator signs in for a token that says so until it expires or   *)
(* is logged out; nothing else ends it (admin_session.go).  Of an account   *)
(* only what decides who may act is kept; its e-mail is its name here, so   *)
(* Bootstrap is the account of the bootstrap address, whoever made it.      *)
(***************************************************************************)
EXTENDS FiniteSets, Naturals

CONSTANTS User, Bootstrap, Request, Instance,
          Absent   \* no such row

ASSUME BootstrapIsUser == Bootstrap \in User

VARIABLES users,    \* the table: user -> [role, active], or Absent
          signedIn, \* the accounts with a session token that is still good
          login,    \* the accounts whose password has been checked, no token yet
          page,     \* request -> the page request under way
          boot,     \* instance -> its start: "off", "counted", "up", "failed"
          guarded   \* history: no change was made blindly so far

accountVars == <<users, signedIn, login, page, boot, guarded>>

Account == [role : {"admin", "driver"}, active : BOOLEAN]

ASSUME AbsentIsNoAccount == Absent \notin Account

IsAdmin(u) == users[u] # Absent /\ users[u].role = "admin"
ActiveAdmins == {u \in User : IsAdmin(u) /\ users[u].active}
CanLogIn(u) == u \in ActiveAdmins

NoPage == [pc |-> "idle"]

AccountInit ==
    /\ users = [u \in User |-> Absent]
    /\ signedIn = {} /\ login = {}
    /\ page = [r \in Request |-> NoPage]
    /\ boot = [i \in Instance |-> "off"]
    /\ guarded = TRUE

\* A change of the table makes stale what every page request has read.
Overtake(pages) == [r \in Request |-> IF pages[r] = NoPage THEN NoPage
                                     ELSE [pages[r] EXCEPT !.stale = TRUE]]

Serving == \E i \in Instance : boot[i] = "up"
AnAdminActs == Serving /\ signedIn # {}

-----------------------------------------------------------------------------
(* Sessions of the admin pages.                                             *)

\* loginSubmit reads the account, and checks its password.
CheckPassword(u) ==
    /\ Serving /\ CanLogIn(u) /\ login' = login \cup {u}
    /\ UNCHANGED <<users, signedIn, page, boot, guarded>>

IssueToken(u) ==
    /\ u \in login
    /\ login' = login \ {u} /\ signedIn' = signedIn \cup {u}
    /\ UNCHANGED <<users, page, boot, guarded>>

\* Logged out, or expired.
EndSession(u) ==
    /\ u \in signedIn /\ signedIn' = signedIn \ {u}
    /\ UNCHANGED <<users, login, page, boot, guarded>>

-----------------------------------------------------------------------------
(* Demoting and deactivating on the pages.                                  *)

Changed(u, kind) ==
    [users EXCEPT ![u] = CASE kind = "demote" -> [@ EXCEPT !.role = "driver"]
                           [] kind = "deactivate" -> [@ EXCEPT !.active = FALSE]
                           [] kind = "promote" -> [@ EXCEPT !.role = "admin"]
                           [] kind = "activate" -> [@ EXCEPT !.active = TRUE]]

\* GetUser: an account that does not exist is answered 404, but activating one
\* does not look.  Only taking an active administrator away needs a count.
ReadUser(r, u, kind) ==
    /\ AnAdminActs /\ page[r] = NoPage
    /\ users[u] # Absent \/ kind = "activate"
    /\ page' = [page EXCEPT ![r] =
                  [pc |-> IF kind \in {"demote", "deactivate"} /\ u \in ActiveAdmins
                          THEN "count" ELSE "write",
                   user |-> u, kind |-> kind, stale |-> FALSE]]
    /\ UNCHANGED <<users, signedIn, login, boot, guarded>>

\* (Mutant: CountUsersByRole, which counts the inactive ones as well.)
EnoughEver == Cardinality({u \in User : IsAdmin(u)}) > 1

\* CountActiveUsersByRole.
Enough == Cardinality(ActiveAdmins) > 1

CountAdmins(r) ==
    /\ page[r].pc = "count"
    /\ page' = [page EXCEPT ![r] = IF Enough THEN [@ EXCEPT !.pc = "write"] ELSE NoPage]
    /\ UNCHANGED <<users, signedIn, login, boot, guarded>>

WriteUser(r) ==
    /\ page[r].pc = "write"
    /\ LET p == page[r]
           found == users[p.user] # Absent
       IN /\ users' = IF found THEN Changed(p.user, p.kind) ELSE users
          /\ page' = IF users' = users THEN [page EXCEPT ![r] = NoPage]
                     ELSE Overtake([page EXCEPT ![r] = NoPage])
          /\ guarded' = (guarded /\ ~(p.stale /\ p.kind \in {"demote", "deactivate"}))
    /\ UNCHANGED <<signedIn, login, boot>>

\* Any of the calls fails: 500.
PageFails(r) ==
    /\ page[r] # NoPage /\ page' = [page EXCEPT ![r] = NoPage]
    /\ UNCHANGED <<users, signedIn, login, boot, guarded>>

\* The pages and the API make accounts alike; an address that is taken is refused.
CreateUser(u, role) ==
    /\ AnAdminActs /\ users[u] = Absent
    /\ users' = [users EXCEPT ![u] = [role |-> role, active |-> TRUE]]
    /\ page' = Overtake(page)
    /\ UNCHANGED <<signedIn, login, boot, guarded>>

\* handleUpdateUser and handleDeleteUser of the API.
ApiUpdateRole(u, kind) ==
    /\ AnAdminActs /\ users[u] # Absent /\ kind \in {"demote", "promote"}
    /\ users' = Changed(u, kind) /\ users' # users
    /\ page' = Overtake(page)
    /\ guarded' = (guarded /\ ~(kind = "demote" /\ u \in ActiveAdmins))
    /\ UNCHANGED <<signedIn, login, boot>>

ApiDeleteUser(u) ==
    /\ AnAdminActs /\ users[u] # Absent
    /\ users' = [users EXCEPT ![u] = Absent]
    /\ page' = Overtake(page)
    /\ guarded' = (guarded /\ u \notin ActiveAdmins)
    /\ UNCHANGED <<signedIn, login, boot>>

-----------------------------------------------------------------------------
(* bootstrapAdmin, of one or of several instances at once.                  *)

CountForBootstrap(i) ==
    /\ boot[i] = "off"
    /\ boot' = [boot EXCEPT ![i] = IF \E u \in User : IsAdmin(u) THEN "up" ELSE "counted"]
    /\ UNCHANGED <<users, signedIn, login, page, guarded>>

\* An address that is taken is taken for another instance's work.
BootstrapAdmin(i) ==
    /\ boot[i] = "counted"
    /\ users' = IF users[Bootstrap] # Absent THEN users
                ELSE [users EXCEPT ![Bootstrap] = [role |-> "admin", active |-> TRUE]]
    /\ boot' = [boot EXCEPT ![i] = "up"]
    /\ page' = IF users' = users THEN page ELSE Overtake(page)
    /\ UNCHANGED <<signedIn, login, guarded>>

BootstrapFails(i) ==
    /\ boot[i] \in {"off", "counted"} /\ boot' = [boot EXCEPT ![i] = "failed"]
    /\ UNCHANGED <<users, signedIn, login, page, guarded>>

\* The instance stops, and its page requests with it (all of them may be its).
StopInstance(i) ==
    /\ boot[i] # "off" /\ boot' = [boot EXCEPT ![i] = "off"]
    /\ page' = [r \in Request |-> NoPage] /\ login' = {}
    /\ UNCHANGED <<users, signedIn, guarded>>

AccountNext ==
    \/ \E u \in User :
         \/ CheckPassword(u) \/ IssueToken(u) \/ EndSession(u) \/ ApiDeleteUser(u)
         \/ \E role \in {"admin", "driver"} : CreateUser(u, role)
         \/ \E kind \in {"demote", "promote"} : ApiUpdateRole(u, kind)
    \/ \E r \in Request :
         \/ \E u \in User, kind \in {"demote", "deactivate", "promote", "activate"} : ReadUser(r, u, kind)
         \/ CountAdmins(r) \/ WriteUser(r) \/ PageFails(r)
    \/ \E i \in Instance :
         CountForBootstrap(i) \/ BootstrapAdmin(i) \/ BootstrapFails(i) \/ StopInstance(i)

-----------------------------------------------------------------------------
\* Once there is an administrator, there stays one who can sign in, as long as
\* the API takes none away and no page request changes an account after another
\* change has overtaken what it read.  (Both do happen: the comment at the guard
\* accepts the second, and the API has no guard.)
AnAdminRemains ==
    guarded /\ (\E u \in User : users[u] # Absent) => ActiveAdmins # {}
=============================================================================
