------------------------ MODULE RefreshTokensProofs ------------------------
(***************************************************************************)
(* Proofs about RefreshTokens for any numbers of users, tokens and         *)
(* requests.                                                               *)
(***************************************************************************)
EXTENDS RefreshTokens, TLAPS

-----------------------------------------------------------------------------
(* The inductive invariant.                                                *)

\* A minted token has an owner and descends from a minted token, a free one
\* occurs nowhere, and the rows of a deleted user are gone with it.
RowsOK ==
    \A t \in Token :
        /\ row[t] = "free" => /\ owner[t] = None
                              /\ session[t] = None
                              /\ t \notin held /\ t \notin revoked /\ t \notin ended
        /\ row[t] # "free" => /\ owner[t] \in User
                              /\ session[t] \in Token
                              /\ row[session[t]] # "free"
                              /\ owner[session[t]] = owner[t]
        /\ Stored(t) => owner[t] \in users

\* A request that carries a token carries a minted one and its owner's name.
RequestsOK ==
    \A r \in Request :
        /\ req[r].pc = "idle" => req[r] = Idle
        /\ req[r].pc = "loginInsert" => req[r].user \in User
        /\ req[r].pc \notin {"idle", "loginInsert"} =>
              /\ req[r].tok \in Token
              /\ row[req[r].tok] # "free"
              /\ req[r].user = owner[req[r].tok]

\* A request that read "active" and still finds its token was not overtaken
\* by a deactivation.
RotationsOK ==
    \A r \in Request :
        req[r].pc = "rotate" /\ row[req[r].tok] = "unused" => CanLogIn(req[r].user)

\* Between the two halves of a logout the session is already dead.
LogoutsOK ==
    \A r \in Request, x \in Token :
        req[r].pc = "logoutRevoke" /\ Stored(x) => session[x] # session[req[r].tok]

IInv ==
    /\ TypeOK
    /\ RowsOK
    /\ RequestsOK
    /\ RotationsOK
    /\ LogoutsOK
    /\ OneLiveTokenPerSession
    /\ EndedSessionsStayEnded
    /\ LogoutIsFinal

-----------------------------------------------------------------------------
(* Facts about the statements.                                             *)

\* After DeleteRefreshTokensForUser(u) exactly the rows of the other users
\* are left, as they were.
LEMMA RowsWithoutFacts ==
    ASSUME TypeOK, NEW u
    PROVE  /\ RowsWithout(u) \in [Token -> RowState]
           /\ \A t \in Token :
                 /\ RowsWithout(u)[t] = "free" <=> row[t] = "free"
                 /\ RowsWithout(u)[t] \in {"unused", "used"} <=> Stored(t) /\ owner[t] # u
                 /\ RowsWithout(u)[t] \in {"unused", "used"} => RowsWithout(u)[t] = row[t]
  BY DEF TypeOK, RowsWithout, RowState, Stored

-----------------------------------------------------------------------------
(* Every action preserves the invariant.                                   *)

\* A login that was read changes no row; the request carries no token yet.
LEMMA LoginReadInv ==
    ASSUME IInv, NEW r \in Request, NEW u \in User, LoginRead(r, u)
    PROVE  IInv'
  <1> USE DEF IInv, LoginRead, tables, history, Idle
  <1>1. TypeOK'
    BY NoneIsFresh DEF TypeOK, RequestState, PC, RowState, Stored, RowsOK,
       RequestsOK
  <1>2. RequestsOK'
    BY NoneIsFresh DEF TypeOK, RequestState, PC, Stored, RowsOK, RequestsOK
  <1>3. /\ RowsOK'
        /\ OneLiveTokenPerSession'
        /\ EndedSessionsStayEnded'
        /\ LogoutIsFinal'
    BY NoneIsFresh DEF TypeOK, RequestState, RowState, Stored, RowsOK,
       RequestsOK, LogoutsOK, OneLiveTokenPerSession, EndedSessionsStayEnded,
       LogoutIsFinal
  <1>4. RotationsOK' /\ LogoutsOK'
    BY NoneIsFresh DEF TypeOK, RequestState, Stored, CanLogIn, RowsOK,
       RequestsOK, RotationsOK, LogoutsOK
  <1> QED  BY <1>1, <1>2, <1>3, <1>4

\* The fresh token opens a session of its own, so no session gains a second one.
LEMMA LoginInsertInv ==
    ASSUME IInv, NEW r \in Request, NEW t \in Token, LoginInsert(r, t)
    PROVE  IInv'
  <1> USE DEF IInv, LoginInsert, tables, history, Deliver, Answer, Idle
  <1>1. TypeOK'
    BY NoneIsFresh DEF TypeOK, RequestState, PC, RowState, Stored, RowsOK,
       RequestsOK
  <1>2. RowsOK'
    BY NoneIsFresh DEF TypeOK, RequestState, RowState, Stored, RowsOK,
       RequestsOK
  <1>3. RequestsOK'
    BY NoneIsFresh DEF TypeOK, RequestState, PC, Stored, RowsOK, RequestsOK
  <1>4. RotationsOK'
    BY NoneIsFresh DEF TypeOK, RequestState, Stored, CanLogIn, RowsOK,
       RequestsOK, RotationsOK
  <1>5. LogoutsOK'
    BY NoneIsFresh DEF TypeOK, RequestState, Stored, RowsOK, RequestsOK,
       LogoutsOK
  <1>6. /\ OneLiveTokenPerSession'
        /\ EndedSessionsStayEnded'
        /\ LogoutIsFinal'
    BY NoneIsFresh DEF TypeOK, RequestState, Stored, RowsOK, RequestsOK,
       LogoutsOK, OneLiveTokenPerSession, EndedSessionsStayEnded,
       LogoutIsFinal
  <1> QED  BY <1>1, <1>2, <1>3, <1>4, <1>5, <1>6

\* Reading a row only fills the request, with a minted token and its owner.
LEMMA RefreshReadSpentInv ==
    ASSUME IInv, NEW r \in Request, NEW t \in Token, RefreshReadSpent(r, t)
    PROVE  IInv'
  <1> USE DEF IInv, RefreshReadSpent, tables, history, Idle, Spent
  <1>1. TypeOK'
    BY NoneIsFresh DEF TypeOK, RequestState, PC, RowState, Stored, RowsOK,
       RequestsOK
  <1>2. RequestsOK'
    BY NoneIsFresh DEF TypeOK, RequestState, PC, Stored, RowsOK, RequestsOK
  <1>3. /\ RowsOK'
        /\ OneLiveTokenPerSession'
        /\ EndedSessionsStayEnded'
        /\ LogoutIsFinal'
    BY NoneIsFresh DEF TypeOK, RequestState, RowState, Stored, RowsOK,
       RequestsOK, LogoutsOK, OneLiveTokenPerSession, EndedSessionsStayEnded,
       LogoutIsFinal
  <1>4. RotationsOK' /\ LogoutsOK'
    BY NoneIsFresh DEF TypeOK, RequestState, Stored, CanLogIn, RowsOK,
       RequestsOK, RotationsOK, LogoutsOK
  <1> QED  BY <1>1, <1>2, <1>3, <1>4

\* The same for a usable token.
LEMMA RefreshReadUsableInv ==
    ASSUME IInv, NEW r \in Request, NEW t \in Token, RefreshReadUsable(r, t)
    PROVE  IInv'
  <1> USE DEF IInv, RefreshReadUsable, tables, history, Idle, Acceptable
  <1>1. TypeOK'
    BY NoneIsFresh DEF TypeOK, RequestState, PC, RowState, Stored, RowsOK,
       RequestsOK
  <1>2. RequestsOK'
    BY NoneIsFresh DEF TypeOK, RequestState, PC, Stored, RowsOK, RequestsOK
  <1>3. /\ RowsOK'
        /\ OneLiveTokenPerSession'
        /\ EndedSessionsStayEnded'
        /\ LogoutIsFinal'
    BY NoneIsFresh DEF TypeOK, RequestState, RowState, Stored, RowsOK,
       RequestsOK, LogoutsOK, OneLiveTokenPerSession, EndedSessionsStayEnded,
       LogoutIsFinal
  <1>4. RotationsOK' /\ LogoutsOK'
    BY NoneIsFresh DEF TypeOK, RequestState, Stored, CanLogIn, RowsOK,
       RequestsOK, RotationsOK, LogoutsOK
  <1> QED  BY <1>1, <1>2, <1>3, <1>4

\* The request learns here that the account is active, which RotationsOK keeps.
LEMMA RefreshGetUserInv ==
    ASSUME IInv, NEW r \in Request, RefreshGetUser(r)
    PROVE  IInv'
  <1> USE DEF IInv, RefreshGetUser, tables, history, Proceed, Answer, Idle
  <1>1. TypeOK'
    <2>1. Idle \in RequestState /\ [req[r] EXCEPT !.pc = "rotate"] \in RequestState
      BY DEF TypeOK, RequestState, PC
    <2>2. req' \in [Request -> RequestState]
      BY <2>1 DEF TypeOK
    <2> QED  BY <2>2 DEF TypeOK
  <1>2. RequestsOK'
    <2>3. [req[r] EXCEPT !.pc = "rotate"] \in RequestState
      BY DEF TypeOK, RequestState, PC
    <2>1. CASE CanLogIn(req[r].user)
      BY <2>1, <2>3, NoneIsFresh DEF TypeOK, RequestState, PC, Stored, RowsOK,
         RequestsOK
    <2>2. CASE ~CanLogIn(req[r].user)
      BY <2>2, NoneIsFresh DEF TypeOK, RequestState, PC, Stored, RowsOK,
         RequestsOK
    <2> QED  BY <2>1, <2>2
  <1>3. /\ RowsOK'
        /\ OneLiveTokenPerSession'
        /\ EndedSessionsStayEnded'
        /\ LogoutIsFinal'
    BY NoneIsFresh DEF TypeOK, RequestState, RowState, Stored, RowsOK,
       RequestsOK, LogoutsOK, OneLiveTokenPerSession, EndedSessionsStayEnded,
       LogoutIsFinal
  <1>4. RotationsOK' /\ LogoutsOK'
    BY NoneIsFresh DEF TypeOK, RequestState, Stored, CanLogIn, RowsOK,
       RequestsOK, RotationsOK, LogoutsOK
  <1> QED  BY <1>1, <1>2, <1>3, <1>4

\* The compare-and-set takes the old token out before the new one joins its session.
LEMMA RefreshRotateInv ==
    ASSUME IInv, NEW r \in Request, NEW t \in Token, RefreshRotate(r, t)
    PROVE  IInv'
  <1> USE DEF IInv, RefreshRotate, tables, history, Deliver, Answer, Idle,
             Consumable
  <1>1. TypeOK'
    BY NoneIsFresh DEF TypeOK, RequestState, PC, RowState, Stored, RowsOK,
       RequestsOK
  <1>2. RowsOK'
    BY NoneIsFresh DEF TypeOK, RequestState, RowState, Stored, RowsOK,
       RequestsOK
  <1>3. RequestsOK'
    BY NoneIsFresh DEF TypeOK, RequestState, PC, Stored, RowsOK, RequestsOK
  <1>4. RotationsOK'
    BY NoneIsFresh DEF TypeOK, RequestState, Stored, CanLogIn, RowsOK,
       RequestsOK, RotationsOK
  <1>5. LogoutsOK'
    BY NoneIsFresh DEF TypeOK, RequestState, Stored, RowsOK, RequestsOK,
       LogoutsOK
  <1>6. OneLiveTokenPerSession'
    BY NoneIsFresh DEF TypeOK, RequestState, Stored, RowsOK, RequestsOK,
       OneLiveTokenPerSession
  <1>7. EndedSessionsStayEnded'
    BY NoneIsFresh DEF TypeOK, RequestState, Stored, RowsOK, RequestsOK,
       EndedSessionsStayEnded
  <1>8. LogoutIsFinal'
    BY NoneIsFresh DEF TypeOK, RequestState, Stored, RowsOK, RequestsOK,
       LogoutIsFinal
  <1> QED  BY <1>1, <1>2, <1>3, <1>4, <1>5, <1>6, <1>7, <1>8

\* A lost race changes only where the request stands.
LEMMA RefreshLosesInv ==
    ASSUME IInv, NEW r \in Request, RefreshLoses(r)
    PROVE  IInv'
  <1> USE DEF IInv, RefreshLoses, tables, history, Proceed, Consumable
  <1>1. TypeOK'
    BY NoneIsFresh DEF TypeOK, RequestState, PC, RowState, Stored, RowsOK,
       RequestsOK
  <1>2. RequestsOK'
    BY NoneIsFresh DEF TypeOK, RequestState, PC, Stored, RowsOK, RequestsOK
  <1>3. /\ RowsOK'
        /\ OneLiveTokenPerSession'
        /\ EndedSessionsStayEnded'
        /\ LogoutIsFinal'
    BY NoneIsFresh DEF TypeOK, RequestState, RowState, Stored, RowsOK,
       RequestsOK, LogoutsOK, OneLiveTokenPerSession, EndedSessionsStayEnded,
       LogoutIsFinal
  <1>4. RotationsOK' /\ LogoutsOK'
    BY NoneIsFresh DEF TypeOK, RequestState, Stored, CanLogIn, RowsOK,
       RequestsOK, RotationsOK, LogoutsOK
  <1> QED  BY <1>1, <1>2, <1>3, <1>4

\* Every row of the owner goes, hence every row of the sessions that end.
LEMMA RefreshRevokeInv ==
    ASSUME IInv, NEW r \in Request, RefreshRevoke(r)
    PROVE  IInv'
  <1> USE DEF IInv, RefreshRevoke, tables, history, SessionsOf, Answer, Idle
  <1>1. TypeOK'
    BY NoneIsFresh, RowsWithoutFacts DEF TypeOK, RequestState, PC, RowState,
       Stored, RowsOK, RequestsOK
  <1>2. RowsOK'
    BY NoneIsFresh, RowsWithoutFacts DEF TypeOK, RequestState, RowState,
       Stored, RowsOK, RequestsOK
  <1>3. RequestsOK'
    BY NoneIsFresh, RowsWithoutFacts DEF TypeOK, RequestState, PC, Stored,
       RowsOK, RequestsOK
  <1>4. RotationsOK'
    BY NoneIsFresh, RowsWithoutFacts DEF TypeOK, RequestState, Stored,
       CanLogIn, RowsOK, RequestsOK, RotationsOK
  <1>5. LogoutsOK'
    BY NoneIsFresh, RowsWithoutFacts DEF TypeOK, RequestState, Stored, RowsOK,
       RequestsOK, LogoutsOK
  <1>6. /\ OneLiveTokenPerSession'
        /\ EndedSessionsStayEnded'
        /\ LogoutIsFinal'
    BY NoneIsFresh, RowsWithoutFacts DEF TypeOK, RequestState, Stored, RowsOK,
       RequestsOK, LogoutsOK, OneLiveTokenPerSession, EndedSessionsStayEnded,
       LogoutIsFinal
  <1> QED  BY <1>1, <1>2, <1>3, <1>4, <1>5, <1>6

\* The access token names a minted token and its owner.
LEMMA LogoutStartInv ==
    ASSUME IInv, NEW r \in Request, NEW t \in Token, LogoutStart(r, t)
    PROVE  IInv'
  <1> USE DEF IInv, LogoutStart, tables, history, Idle
  <1>1. TypeOK'
    BY NoneIsFresh DEF TypeOK, RequestState, PC, RowState, Stored, RowsOK,
       RequestsOK
  <1>2. RequestsOK'
    BY NoneIsFresh DEF TypeOK, RequestState, PC, Stored, RowsOK, RequestsOK
  <1>3. /\ RowsOK'
        /\ OneLiveTokenPerSession'
        /\ EndedSessionsStayEnded'
        /\ LogoutIsFinal'
    BY NoneIsFresh DEF TypeOK, RequestState, RowState, Stored, RowsOK,
       RequestsOK, LogoutsOK, OneLiveTokenPerSession, EndedSessionsStayEnded,
       LogoutIsFinal
  <1>4. RotationsOK' /\ LogoutsOK'
    BY NoneIsFresh DEF TypeOK, RequestState, Stored, CanLogIn, RowsOK,
       RequestsOK, RotationsOK, LogoutsOK
  <1> QED  BY <1>1, <1>2, <1>3, <1>4

\* The session is dead from here on, which LogoutsOK records.
LEMMA LogoutDeleteInv ==
    ASSUME IInv, NEW r \in Request, LogoutDelete(r)
    PROVE  IInv'
  <1> USE DEF IInv, LogoutDelete, tables, history, Proceed
  <1>1. TypeOK'
    BY NoneIsFresh, RowsWithoutFacts DEF TypeOK, RequestState, PC, RowState,
       Stored, RowsOK, RequestsOK
  <1>2. RowsOK'
    BY NoneIsFresh, RowsWithoutFacts DEF TypeOK, RequestState, RowState,
       Stored, RowsOK, RequestsOK
  <1>3. RequestsOK'
    BY NoneIsFresh, RowsWithoutFacts DEF TypeOK, RequestState, PC, Stored,
       RowsOK, RequestsOK
  <1>4. RotationsOK'
    BY NoneIsFresh, RowsWithoutFacts DEF TypeOK, RequestState, Stored,
       CanLogIn, RowsOK, RequestsOK, RotationsOK
  <1>5. LogoutsOK'
    BY NoneIsFresh, RowsWithoutFacts DEF TypeOK, RequestState, Stored, RowsOK,
       RequestsOK, LogoutsOK
  <1>6. /\ OneLiveTokenPerSession'
        /\ EndedSessionsStayEnded'
        /\ LogoutIsFinal'
    BY NoneIsFresh, RowsWithoutFacts DEF TypeOK, RequestState, Stored, RowsOK,
       RequestsOK, LogoutsOK, OneLiveTokenPerSession, EndedSessionsStayEnded,
       LogoutIsFinal
  <1> QED  BY <1>1, <1>2, <1>3, <1>4, <1>5, <1>6

\* The session that is declared ended lost its rows one step earlier.
LEMMA LogoutRevokeInv ==
    ASSUME IInv, NEW r \in Request, LogoutRevoke(r)
    PROVE  IInv'
  <1> USE DEF IInv, LogoutRevoke, tables, history, Answer, Idle
  <1>1. TypeOK'
    BY NoneIsFresh DEF TypeOK, RequestState, PC, RowState, Stored, RowsOK,
       RequestsOK
  <1>2. RowsOK'
    BY NoneIsFresh DEF TypeOK, RequestState, RowState, Stored, RowsOK,
       RequestsOK
  <1>3. RequestsOK'
    BY NoneIsFresh DEF TypeOK, RequestState, PC, Stored, RowsOK, RequestsOK
  <1>4. RotationsOK'
    BY NoneIsFresh DEF TypeOK, RequestState, Stored, CanLogIn, RowsOK,
       RequestsOK, RotationsOK
  <1>5. LogoutsOK'
    BY NoneIsFresh DEF TypeOK, RequestState, Stored, RowsOK, RequestsOK,
       LogoutsOK
  <1>6. /\ OneLiveTokenPerSession'
        /\ EndedSessionsStayEnded'
        /\ LogoutIsFinal'
    BY NoneIsFresh DEF TypeOK, RequestState, Stored, RowsOK, RequestsOK,
       LogoutsOK, OneLiveTokenPerSession, EndedSessionsStayEnded,
       LogoutIsFinal
  <1> QED  BY <1>1, <1>2, <1>3, <1>4, <1>5, <1>6

\* A request that goes away leaves the tables as they are.
LEMMA AbortInv ==
    ASSUME IInv, NEW r \in Request, Abort(r)
    PROVE  IInv'
  <1> USE DEF IInv, Abort, tables, history, Answer, Idle
  <1>1. TypeOK'
    BY NoneIsFresh DEF TypeOK, RequestState, PC, RowState, Stored, RowsOK,
       RequestsOK
  <1>2. RequestsOK'
    BY NoneIsFresh DEF TypeOK, RequestState, PC, Stored, RowsOK, RequestsOK
  <1>3. /\ RowsOK'
        /\ OneLiveTokenPerSession'
        /\ EndedSessionsStayEnded'
        /\ LogoutIsFinal'
    BY NoneIsFresh DEF TypeOK, RequestState, RowState, Stored, RowsOK,
       RequestsOK, LogoutsOK, OneLiveTokenPerSession, EndedSessionsStayEnded,
       LogoutIsFinal
  <1>4. RotationsOK' /\ LogoutsOK'
    BY NoneIsFresh DEF TypeOK, RequestState, Stored, CanLogIn, RowsOK,
       RequestsOK, RotationsOK, LogoutsOK
  <1> QED  BY <1>1, <1>2, <1>3, <1>4

\* All sessions of the user end and all their rows go, in one transaction.
LEMMA SetPasswordInv ==
    ASSUME IInv, NEW u \in User, SetPassword(u)
    PROVE  IInv'
  <1> USE DEF IInv, SetPassword, tables, history, RevokeAll, SessionsOf
  <1>1. TypeOK'
    BY NoneIsFresh, RowsWithoutFacts DEF TypeOK, RequestState, PC, RowState,
       Stored, RowsOK, RequestsOK
  <1>2. RowsOK'
    BY NoneIsFresh, RowsWithoutFacts DEF TypeOK, RequestState, RowState,
       Stored, RowsOK, RequestsOK
  <1>3. RequestsOK'
    BY NoneIsFresh, RowsWithoutFacts DEF TypeOK, RequestState, PC, Stored,
       RowsOK, RequestsOK
  <1>4. RotationsOK'
    BY NoneIsFresh, RowsWithoutFacts DEF TypeOK, RequestState, Stored,
       CanLogIn, RowsOK, RequestsOK, RotationsOK
  <1>5. LogoutsOK'
    BY NoneIsFresh, RowsWithoutFacts DEF TypeOK, RequestState, Stored, RowsOK,
       RequestsOK, LogoutsOK
  <1>6. /\ OneLiveTokenPerSession'
        /\ EndedSessionsStayEnded'
        /\ LogoutIsFinal'
    BY NoneIsFresh, RowsWithoutFacts DEF TypeOK, RequestState, Stored, RowsOK,
       RequestsOK, LogoutsOK, OneLiveTokenPerSession, EndedSessionsStayEnded,
       LogoutIsFinal
  <1> QED  BY <1>1, <1>2, <1>3, <1>4, <1>5, <1>6

\* The rows go with the flag, so no rotation in flight finds its token.
LEMMA DeactivateInv ==
    ASSUME IInv, NEW u \in User, Deactivate(u)
    PROVE  IInv'
  <1> USE DEF IInv, Deactivate, tables, history, RevokeAll, SessionsOf
  <1>1. TypeOK'
    BY NoneIsFresh, RowsWithoutFacts DEF TypeOK, RequestState, PC, RowState,
       Stored, RowsOK, RequestsOK
  <1>2. RowsOK'
    BY NoneIsFresh, RowsWithoutFacts DEF TypeOK, RequestState, RowState,
       Stored, RowsOK, RequestsOK
  <1>3. RequestsOK'
    BY NoneIsFresh, RowsWithoutFacts DEF TypeOK, RequestState, PC, Stored,
       RowsOK, RequestsOK
  <1>4. RotationsOK'
    BY NoneIsFresh, RowsWithoutFacts DEF TypeOK, RequestState, Stored,
       CanLogIn, RowsOK, RequestsOK, RotationsOK
  <1>5. LogoutsOK'
    BY NoneIsFresh, RowsWithoutFacts DEF TypeOK, RequestState, Stored, RowsOK,
       RequestsOK, LogoutsOK
  <1>6. /\ OneLiveTokenPerSession'
        /\ EndedSessionsStayEnded'
        /\ LogoutIsFinal'
    BY NoneIsFresh, RowsWithoutFacts DEF TypeOK, RequestState, Stored, RowsOK,
       RequestsOK, LogoutsOK, OneLiveTokenPerSession, EndedSessionsStayEnded,
       LogoutIsFinal
  <1> QED  BY <1>1, <1>2, <1>3, <1>4, <1>5, <1>6

\* An account that becomes active again has its rows as they were.
LEMMA ActivateInv ==
    ASSUME IInv, NEW u \in User, Activate(u)
    PROVE  IInv'
  <1> USE DEF IInv, Activate, tables, history
  <1>1. /\ TypeOK'
        /\ RowsOK'
        /\ RequestsOK'
        /\ LogoutsOK'
        /\ OneLiveTokenPerSession'
        /\ EndedSessionsStayEnded'
        /\ LogoutIsFinal'
    BY NoneIsFresh DEF TypeOK, RequestState, PC, RowState, Stored, RowsOK,
       RequestsOK, LogoutsOK, OneLiveTokenPerSession, EndedSessionsStayEnded,
       LogoutIsFinal
  <1>2. RotationsOK'
    BY NoneIsFresh DEF TypeOK, RequestState, Stored, CanLogIn, RowsOK,
       RequestsOK, RotationsOK
  <1> QED  BY <1>1, <1>2

\* The cascade takes the rows of a user who is no longer there to own them.
LEMMA DeleteUserInv ==
    ASSUME IInv, NEW u \in User, DeleteUser(u)
    PROVE  IInv'
  <1> USE DEF IInv, DeleteUser, tables, history, SessionsOf
  <1>1. TypeOK'
    BY NoneIsFresh, RowsWithoutFacts DEF TypeOK, RequestState, PC, RowState,
       Stored, RowsOK, RequestsOK
  <1>2. RowsOK'
    BY NoneIsFresh, RowsWithoutFacts DEF TypeOK, RequestState, RowState,
       Stored, RowsOK, RequestsOK
  <1>3. RequestsOK'
    BY NoneIsFresh, RowsWithoutFacts DEF TypeOK, RequestState, PC, Stored,
       RowsOK, RequestsOK
  <1>4. RotationsOK'
    BY NoneIsFresh, RowsWithoutFacts DEF TypeOK, RequestState, Stored,
       CanLogIn, RowsOK, RequestsOK, RotationsOK
  <1>5. LogoutsOK'
    BY NoneIsFresh, RowsWithoutFacts DEF TypeOK, RequestState, Stored, RowsOK,
       RequestsOK, LogoutsOK
  <1>6. /\ OneLiveTokenPerSession'
        /\ EndedSessionsStayEnded'
        /\ LogoutIsFinal'
    BY NoneIsFresh, RowsWithoutFacts DEF TypeOK, RequestState, Stored, RowsOK,
       RequestsOK, LogoutsOK, OneLiveTokenPerSession, EndedSessionsStayEnded,
       LogoutIsFinal
  <1> QED  BY <1>1, <1>2, <1>3, <1>4, <1>5, <1>6

\* Time changes no row.
LEMMA ExpireInv ==
    ASSUME IInv, NEW t \in Token, Expire(t)
    PROVE  IInv'
  <1> USE DEF IInv, Expire, tables, history
  <1>1. /\ TypeOK'
        /\ RowsOK'
        /\ RequestsOK'
        /\ RotationsOK'
        /\ LogoutsOK'
        /\ OneLiveTokenPerSession'
        /\ EndedSessionsStayEnded'
        /\ LogoutIsFinal'
    BY NoneIsFresh DEF TypeOK, RequestState, PC, RowState, Stored, CanLogIn,
       RowsOK, RequestsOK, RotationsOK, LogoutsOK, OneLiveTokenPerSession,
       EndedSessionsStayEnded, LogoutIsFinal
  <1> QED  BY <1>1

\* Deleted rows break nothing that is said of stored ones.
LEMMA PruneInv ==
    ASSUME IInv, Prune
    PROVE  IInv'
  <1> USE DEF IInv, Prune, tables, history
  <1>1. TypeOK' /\ RowsOK'
    BY NoneIsFresh DEF TypeOK, RequestState, PC, RowState, Stored, RowsOK,
       RequestsOK
  <1>2. RequestsOK' /\ RotationsOK' /\ LogoutsOK'
    BY NoneIsFresh DEF TypeOK, RequestState, PC, Stored, CanLogIn, RowsOK,
       RequestsOK, RotationsOK, LogoutsOK
  <1>3. /\ OneLiveTokenPerSession'
        /\ EndedSessionsStayEnded'
        /\ LogoutIsFinal'
    BY NoneIsFresh DEF TypeOK, RequestState, Stored, RowsOK, RequestsOK,
       LogoutsOK, OneLiveTokenPerSession, EndedSessionsStayEnded,
       LogoutIsFinal
  <1> QED  BY <1>1, <1>2, <1>3
-----------------------------------------------------------------------------
(* The theorems.                                                           *)

\* Nothing is minted and no request runs: the invariant holds at the start.
LEMMA InitInv == Init => IInv
  BY NoneIsFresh
     DEF Init, IInv, TypeOK, RowsOK, RequestsOK, RotationsOK, LogoutsOK,
         OneLiveTokenPerSession, EndedSessionsStayEnded, LogoutIsFinal,
         Stored, RowState, RequestState, PC, Idle

\* Every step keeps it.
LEMMA NextInv == IInv /\ [Next]_vars => IInv'
  <1> SUFFICES ASSUME IInv, [Next]_vars PROVE IInv'
    OBVIOUS
  <1>1. CASE UNCHANGED vars
    BY <1>1 DEF vars, tables, history, IInv, TypeOK, RowsOK, RequestsOK,
       RotationsOK, LogoutsOK, OneLiveTokenPerSession, EndedSessionsStayEnded,
       LogoutIsFinal, Stored, CanLogIn
  <1>2. ASSUME NEW r \in Request, NEW u \in User, LoginRead(r, u) PROVE IInv'
    BY <1>2, LoginReadInv
  <1>3. ASSUME NEW r \in Request, NEW t \in Token,
               \/ LoginInsert(r, t) \/ RefreshReadSpent(r, t)
               \/ RefreshReadUsable(r, t) \/ RefreshRotate(r, t)
               \/ LogoutStart(r, t)
        PROVE  IInv'
    BY <1>3, LoginInsertInv, RefreshReadSpentInv, RefreshReadUsableInv,
       RefreshRotateInv, LogoutStartInv
  <1>4. ASSUME NEW r \in Request,
               \/ RefreshGetUser(r) \/ RefreshLoses(r) \/ RefreshRevoke(r)
               \/ LogoutDelete(r) \/ LogoutRevoke(r) \/ Abort(r)
        PROVE  IInv'
    BY <1>4, RefreshGetUserInv, RefreshLosesInv, RefreshRevokeInv,
       LogoutDeleteInv, LogoutRevokeInv, AbortInv
  <1>5. ASSUME NEW u \in User,
               SetPassword(u) \/ Deactivate(u) \/ Activate(u) \/ DeleteUser(u)
        PROVE  IInv'
    BY <1>5, SetPasswordInv, DeactivateInv, ActivateInv, DeleteUserInv
  <1>6. ASSUME NEW t \in Token, Expire(t) PROVE IInv'
    BY <1>6, ExpireInv
  <1>7. CASE Prune
    BY <1>7, PruneInv
  <1> QED  BY <1>1, <1>2, <1>3, <1>4, <1>5, <1>6, <1>7 DEF Next

\* The strengthened invariant holds of every reachable state.
THEOREM Invariance == Spec => []IInv
  BY InitInv, NextInv, PTL DEF Spec

\* Tables, requests and history keep their types.
THEOREM TypeCorrect == Spec => []TypeOK
  <1>1. IInv => TypeOK
    BY DEF IInv
  <1> QED  BY <1>1, Invariance, PTL

\* No interleaving of refreshes, logins, logouts and administration gives a
\* session two tokens that can both be exchanged.
THEOREM OneLiveToken == Spec => []OneLiveTokenPerSession
  <1>1. IInv => OneLiveTokenPerSession
    BY DEF IInv
  <1> QED  BY <1>1, Invariance, PTL

\* A session that a replay, a password change, a deactivation, a deletion or a
\* completed logout ended has no row left and never gets one again.
THEOREM EndedForGood == Spec => []EndedSessionsStayEnded
  <1>1. IInv => EndedSessionsStayEnded
    BY DEF IInv
  <1> QED  BY <1>1, Invariance, PTL

\* A revoked access token has no refresh token behind it, and a logout that was
\* answered 204 stays on the blocklist.
THEOREM LogoutFinal == Spec => []LogoutIsFinal
  <1>1. IInv => LogoutIsFinal
    BY DEF IInv
  <1> QED  BY <1>1, Invariance, PTL

-----------------------------------------------------------------------------
(* The action property.  Only a rotation consumes a token, and RotationsOK  *)
(* says what the rotating request still knows about the account.            *)

\* A token that becomes used was rotated by some request.
LEMMA OnlyRotationConsumes ==
    ASSUME IInv, Next, NEW t \in Token, row[t] = "unused", row'[t] = "used"
    PROVE  \E r \in Request, n \in Token : RefreshRotate(r, n) /\ t = req[r].tok
  <1> USE DEF IInv, TypeOK, tables, history
  <1>1. ASSUME NEW r \in Request, NEW n \in Token, RefreshRotate(r, n)
        PROVE  t = req[r].tok
    BY <1>1 DEF RefreshRotate
  <1>2. ASSUME NEW r \in Request, NEW n \in Token, LoginInsert(r, n) PROVE FALSE
    BY <1>2 DEF LoginInsert
  <1>3. ASSUME NEW u, row' = RowsWithout(u) PROVE FALSE
    BY <1>3 DEF RowsWithout
  <1>4. ASSUME row' = row PROVE FALSE
    BY <1>4
  <1>5. CASE Prune
    BY <1>5 DEF Prune
  <1> QED
    BY <1>1, <1>2, <1>3, <1>4, <1>5
       DEF Next, LoginRead, RefreshReadSpent, RefreshReadUsable, RefreshGetUser,
           RefreshLoses, RefreshRevoke, LogoutStart, LogoutDelete, LogoutRevoke,
           Abort, SetPassword, Deactivate, Activate, DeleteUser, RevokeAll, Expire

\* No refresh token of an inactive or deleted account is ever exchanged, though
\* the handler checks the account one call before it rotates.
THEOREM RenewalNeedsActiveUser == Spec => RenewalOnlyWhileActive
  <1>1. ASSUME IInv, [Next]_vars, NEW t \in Token,
               row[t] = "unused", row'[t] = "used"
        PROVE  CanLogIn(owner[t])
    <2>1. CASE UNCHANGED vars
      BY <1>1, <2>1 DEF vars, tables
    <2>2. CASE Next
      <3>1. PICK r \in Request, n \in Token : RefreshRotate(r, n) /\ t = req[r].tok
        BY <1>1, <2>2, OnlyRotationConsumes
      <3> QED  BY <1>1, <3>1 DEF IInv, RequestsOK, RotationsOK, RefreshRotate
    <2> QED  BY <1>1, <2>1, <2>2
  <1>2. IInv /\ [Next]_vars =>
          [\A t \in Token :
              row[t] = "unused" /\ row'[t] = "used" => CanLogIn(owner[t])]_vars
    BY <1>1
  <1> QED  BY <1>2, Invariance, PTL DEF Spec, RenewalOnlyWhileActive

-----------------------------------------------------------------------------
(* The refinement: RefreshTokens implements Sessions.                      *)

\* The refinement mapping is well behaved: Current names the unused token of
\* a session, where there is one.
CurrentOK ==
    /\ Current \in [Token -> Token \cup {None}]
    /\ \A s \in Token : LiveToken(s) = {} => Current[s] = None
    /\ \A t \in Token : row[t] = "unused" => Current[session[t]] = t

\* It is so wherever the invariant holds, because the unused token of a session
\* is unique.
LEMMA CurrentIsUnique == IInv => CurrentOK
  <1> SUFFICES ASSUME IInv PROVE CurrentOK
    OBVIOUS
  <1>1. ASSUME NEW s \in Token, LiveToken(s) # {}
        PROVE  Current[s] \in LiveToken(s)
    BY <1>1 DEF Current
  <1>2. ASSUME NEW s \in Token, LiveToken(s) = {} PROVE Current[s] = None
    BY <1>2 DEF Current
  <1>3. Current \in [Token -> Token \cup {None}]
    BY DEF Current, LiveToken
  <1>4. ASSUME NEW t \in Token, row[t] = "unused"
        PROVE  Current[session[t]] = t
    <2>1. session[t] \in Token
      BY <1>4 DEF IInv, RowsOK
    <2>2. t \in LiveToken(session[t])
      BY <1>4 DEF LiveToken
    <2>3. Current[session[t]] \in LiveToken(session[t])
      BY <2>1, <2>2, <1>1
    <2> QED  BY <1>4, <2>3 DEF LiveToken, IInv, OneLiveTokenPerSession
  <1> QED  BY <1>2, <1>3, <1>4 DEF CurrentOK

\* Steps that mint no token and let none become exchangeable close sessions.
LEMMA OtherStepsClose ==
    ASSUME CurrentOK, CurrentOK', UNCHANGED session,
           \A t \in Token : row'[t] = "free" <=> row[t] = "free",
           \A t \in Token : row'[t] = "unused" => row[t] = "unused",
           \A t \in Token : row[t] = "unused" => session[t] \in Token
    PROVE  [Abstract!Next]_(Abstract!vars)
  <1> DEFINE S == {s \in Token : LiveToken(s)' = {}}
  <1>1. ASSUME NEW s \in Token, s \notin S
        PROVE  Current'[s] = Current[s]
    <2>1. PICK t \in Token : row'[t] = "unused" /\ session'[t] = s
      BY <1>1 DEF LiveToken
    <2> QED  BY <2>1 DEF CurrentOK
  <1>2. ASSUME NEW s \in Token, s \in S PROVE Current'[s] = None
    BY <1>2 DEF CurrentOK
  <1>3. Current' = [s \in Token |-> IF s \in S THEN None ELSE Current[s]]
    BY <1>1, <1>2 DEF CurrentOK
  <1>4. {t \in Token : row[t] # "free"}' = {t \in Token : row[t] # "free"}
    OBVIOUS
  <1>5. Abstract!Close(S)
    BY <1>3, <1>4 DEF Abstract!Close
  <1>6. S \in SUBSET Token
    OBVIOUS
  <1> QED  BY <1>5, <1>6 DEF Abstract!Next

\* A login opens a session that is named after its token.
LEMMA LoginOpens ==
    ASSUME IInv, CurrentOK, CurrentOK',
           NEW r \in Request, NEW t \in Token, LoginInsert(r, t)
    PROVE  Abstract!Open(t)
  <1> USE DEF LoginInsert
  <1>1. \A x \in Token : x # t => row'[x] = row[x] /\ session'[x] = session[x]
    BY DEF IInv, TypeOK
  <1>2. row[t] = "free" /\ row'[t] = "unused" /\ session'[t] = t
    BY DEF IInv, TypeOK
  <1>3. \A x \in Token : row[x] = "unused" => session[x] \in Token \ {t}
    BY <1>2 DEF IInv, RowsOK
  <1>4. ASSUME NEW s \in Token, s # t PROVE Current'[s] = Current[s]
    <2>1. LiveToken(s)' = LiveToken(s)
      BY <1>1, <1>2, <1>4 DEF LiveToken
    <2>2. CASE LiveToken(s) = {}
      BY <2>1, <2>2 DEF CurrentOK
    <2>3. ASSUME NEW x \in LiveToken(s) PROVE Current'[s] = Current[s]
      BY <2>1, <2>3 DEF CurrentOK, LiveToken
    <2> QED  BY <2>2, <2>3
  <1>5. Current' = [Current EXCEPT ![t] = t]
    BY <1>2, <1>4 DEF CurrentOK
  <1>6. {x \in Token : row[x] # "free"}' = {x \in Token : row[x] # "free"} \cup {t}
    BY <1>1, <1>2
  <1> QED  BY <1>2, <1>5, <1>6 DEF Abstract!Open

\* A rotation renews the session of the token it consumes.
LEMMA RotationRenews ==
    ASSUME IInv, CurrentOK, CurrentOK',
           NEW r \in Request, NEW t \in Token, RefreshRotate(r, t)
    PROVE  /\ session[req[r].tok] \in Token
           /\ Abstract!Renew(session[req[r].tok], t)
  <1> DEFINE old == req[r].tok
             s0  == session[old]
  <1> USE DEF RefreshRotate, Consumable
  <1>1. /\ old \in Token /\ row[old] = "unused" /\ row[t] = "free"
        /\ s0 \in Token
    BY DEF IInv, RequestsOK, RowsOK
  <1>2. /\ \A x \in Token : x \notin {t, old} => row'[x] = row[x]
        /\ \A x \in Token : x # t => session'[x] = session[x]
        /\ row'[old] = "used" /\ row'[t] = "unused" /\ session'[t] = s0
    BY <1>1 DEF IInv, TypeOK
  <1>3. Current[s0] = old /\ old # None
    BY <1>1, NoneIsFresh DEF CurrentOK
  <1>4. Current'[s0] = t
    BY <1>2 DEF CurrentOK
  <1>5. ASSUME NEW s \in Token, s # s0 PROVE Current'[s] = Current[s]
    <2>1. LiveToken(s)' = LiveToken(s)
      BY <1>1, <1>2, <1>5 DEF LiveToken
    <2>2. CASE LiveToken(s) = {}
      BY <2>1, <2>2 DEF CurrentOK
    <2>3. ASSUME NEW x \in LiveToken(s) PROVE Current'[s] = Current[s]
      <3>1. row[x] = "unused" /\ session[x] = s /\ x \in Token
        BY <2>3 DEF LiveToken
      <3>2. row'[x] = "unused" /\ session'[x] = s
        BY <2>1, <2>3 DEF LiveToken
      <3>3. Current[s] = x
        BY <3>1 DEF CurrentOK
      <3>4. Current'[s] = x
        BY <3>1, <3>2 DEF CurrentOK
      <3> QED  BY <3>3, <3>4
    <2> QED  BY <2>2, <2>3
  <1>6. Current' = [Current EXCEPT ![s0] = t]
    BY <1>1, <1>4, <1>5 DEF CurrentOK
  <1>7. {x \in Token : row[x] # "free"}' = {x \in Token : row[x] # "free"} \cup {t}
    BY <1>1, <1>2
  <1> QED  BY <1>1, <1>3, <1>6, <1>7 DEF Abstract!Renew

\* Every other step leaves the sessions of the tokens alone, mints nothing and
\* makes no token exchangeable.
LEMMA OtherSteps ==
    ASSUME IInv, [Next]_vars,
           ~ \E r \in Request, t \in Token : LoginInsert(r, t) \/ RefreshRotate(r, t)
    PROVE  /\ UNCHANGED session
           /\ \A t \in Token : /\ row'[t] = "free" <=> row[t] = "free"
                               /\ row'[t] = "unused" => row[t] = "unused"
  <1> USE DEF tables, history
  <1>1. ASSUME UNCHANGED session,
               \/ UNCHANGED row
               \/ \E u : row' = RowsWithout(u)
        PROVE  /\ UNCHANGED session
               /\ \A t \in Token : /\ row'[t] = "free" <=> row[t] = "free"
                                   /\ row'[t] = "unused" => row[t] = "unused"
    BY <1>1, RowsWithoutFacts DEF IInv
  <1>2. CASE Prune
    BY <1>2 DEF Prune, Stored, IInv, TypeOK, RowState
  <1>3. CASE UNCHANGED vars
    BY <1>3 DEF vars
  <1>4. CASE Next /\ ~Prune
    BY <1>1, <1>4
       DEF Next, LoginRead, RefreshReadSpent, RefreshReadUsable, RefreshGetUser,
           RefreshLoses, RefreshRevoke, LogoutStart, LogoutDelete, LogoutRevoke,
           Abort, SetPassword, Deactivate, Activate, DeleteUser, RevokeAll, Expire
  <1> QED  BY <1>2, <1>3, <1>4

\* The subsystem implements Sessions: a session is renewed by exactly one
\* credential, each renewal replaces it by a fresh one, and no step of any
\* handler, administrator or sweep opens a closed session again.
THEOREM Refinement == Spec => ImplementsSessions
  <1>1. Init => Abstract!Init
    <2> SUFFICES ASSUME Init PROVE Abstract!Init
      OBVIOUS
    <2>1. \A s \in Token : LiveToken(s) = {}
      BY DEF Init, LiveToken
    <2>2. Current = [s \in Token |-> None]
      BY <2>1 DEF Current
    <2> QED  BY <2>2 DEF Init, Abstract!Init
  <1>2. IInv /\ IInv' /\ CurrentOK /\ CurrentOK' /\ [Next]_vars
           => [Abstract!Next]_(Abstract!vars)
    <2> SUFFICES ASSUME IInv, IInv', CurrentOK, CurrentOK', [Next]_vars
                 PROVE  [Abstract!Next]_(Abstract!vars)
      OBVIOUS
    <2>1. ASSUME NEW r \in Request, NEW t \in Token, LoginInsert(r, t)
          PROVE  Abstract!Next
      BY <2>1, LoginOpens DEF Abstract!Next
    <2>2. ASSUME NEW r \in Request, NEW t \in Token, RefreshRotate(r, t)
          PROVE  Abstract!Next
      BY <2>2, RotationRenews DEF Abstract!Next
    <2>3. CASE ~ \E r \in Request, t \in Token : LoginInsert(r, t) \/ RefreshRotate(r, t)
      BY <2>3, OtherSteps, OtherStepsClose DEF IInv, RowsOK
    <2> QED  BY <2>1, <2>2, <2>3
  <1> QED
    BY <1>1, <1>2, CurrentIsUnique, Invariance, PTL
       DEF Spec, ImplementsSessions, Abstract!Spec
=============================================================================
