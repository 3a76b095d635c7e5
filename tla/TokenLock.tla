----------------------------- MODULE TokenLock -----------------------------
(***************************************************************************)
(* The transactions on one user's refresh tokens (store_refresh_tokens.go,  *)
(* db/query.sql), statement by statement, under PostgreSQL's READ COMMITTED *)
(* and its row locks.  RotateRefreshToken and every revocation begin with   *)
(* LockUser, SELECT ... FOR UPDATE; a login and the pruner do not.          *)
(*                                                                         *)
(* Of the database this assumes: a statement sees the rows committed before *)
(* it began; it locks the rows it changes one by one, waits for a row that  *)
(* another transaction changed, and then looks at that row again; the       *)
(* foreign-key check of an INSERT takes the user's row FOR KEY SHARE; locks *)
(* are held to the end of the transaction; an abort undoes it.              *)
(***************************************************************************)
EXTENDS Naturals, Sequences

CONSTANTS Token, Old, Txn, None

ASSUME LockAssumption == Old \subseteq Token /\ None \notin Token \cup Txn

VARIABLES
    exists, row,   \* committed: the user's row, and the rows of refresh_tokens
    userLock,      \* [Txn -> mode] held on the user's row
    rowLock,       \* [Token -> Txn or None]
    tx             \* the open transactions

vars == <<exists, row, userLock, rowLock, tx>>

Mode == {"none", "keyShare", "update"}

Kind == {"rotate", "revoke", "login", "deleteUser", "prune"}

\* (Mutant: rotation leaves the user's row alone.)
ScriptWithoutLock(kind) ==
    CASE kind = "rotate"     -> <<"mark", "insert", "commit">>
      [] kind = "revoke"     -> <<"lock", "scan", "delete", "commit">>
      [] kind = "login"      -> <<"insert", "commit">>
      [] kind = "deleteUser" -> <<"lock", "scan", "delete", "commit">>
      [] kind = "prune"      -> <<"scan", "delete", "commit">>

\* (Mutant: a revocation deletes without taking the lock.)
ScriptUnlockedRevoke(kind) ==
    CASE kind = "rotate"     -> <<"lock", "mark", "insert", "commit">>
      [] kind = "revoke"     -> <<"scan", "delete", "commit">>
      [] kind = "login"      -> <<"insert", "commit">>
      [] kind = "deleteUser" -> <<"lock", "scan", "delete", "commit">>
      [] kind = "prune"      -> <<"scan", "delete", "commit">>

\* The statements of a transaction.  "revoke" is DeleteRefreshTokensForUser and
\* the two SetUser...AndRevokeSessions, whose UPDATE of the locked user row adds
\* no lock; "deleteUser" locks the row by deleting it, and cascades.
Script(kind) ==
    CASE kind = "rotate"     -> <<"lock", "mark", "insert", "commit">>
      [] kind = "revoke"     -> <<"lock", "scan", "delete", "commit">>
      [] kind = "login"      -> <<"insert", "commit">>
      [] kind = "deleteUser" -> <<"lock", "scan", "delete", "commit">>
      [] kind = "prune"      -> <<"scan", "delete", "commit">>

\* todo: the rows a DELETE still has to lock; want: the one it is locking;
\* wrote: the rows changed so far, invisible to others.
NoTx == [script |-> <<>>, kind |-> "none", old |-> None, new |-> None,
         todo |-> {}, want |-> None, used |-> {}, made |-> {}, gone |-> {}]

Open(x) == tx[x].kind # "none"
At(x, s) == Open(x) /\ Head(tx[x].script) = s

TypeOK ==
    /\ exists \in BOOLEAN
    /\ row \in [Token -> {"free", "unused", "used", "gone"}]
    /\ userLock \in [Txn -> Mode]
    /\ rowLock \in [Token -> Txn \cup {None}]
    /\ \A x \in Txn :
         /\ tx[x].kind \in Kind \cup {"none"}
         /\ {tx[x].old, tx[x].new, tx[x].want} \subseteq Token \cup {None}
         /\ tx[x].todo \cup tx[x].used \cup tx[x].made \cup tx[x].gone \subseteq Token
         /\ ~Open(x) => userLock[x] = "none" /\ \A t \in Token : rowLock[t] # x

Stored(t) == row[t] \in {"unused", "used"}

Init ==
    /\ exists = TRUE
    /\ \E used \in SUBSET Old :
         row = [t \in Token |-> IF t \in used THEN "used"
                                ELSE IF t \in Old THEN "unused" ELSE "free"]
    /\ userLock = [x \in Txn |-> "none"]
    /\ rowLock = [t \in Token |-> None]
    /\ tx = [x \in Txn |-> NoTx]

-----------------------------------------------------------------------------
(* Locks.                                                                  *)

\* FOR UPDATE excludes every other lock on the row, FOR KEY SHARE only that.
Conflict(m, n) == m # "none" /\ n # "none" /\ "update" \in {m, n}

\* The transactions that keep x from locking the user's row in mode m.
UserBlockers(x, m) == {y \in Txn \ {x} : Conflict(m, userLock[y])}

RowBlockers(x, t) == {y \in Txn \ {x} : rowLock[t] = y}

\* x stops waiting for its statement and goes on to the next one.
Done(x, t) == tx' = [tx EXCEPT ![x] = [t EXCEPT !.script = Tail(@)]]

\* Rollback, also the deferred one of an early return.
Rollback(x) ==
    /\ tx' = [tx EXCEPT ![x] = NoTx]
    /\ userLock' = [userLock EXCEPT ![x] = "none"]
    /\ rowLock' = [t \in Token |-> IF rowLock[t] = x THEN None ELSE rowLock[t]]

-----------------------------------------------------------------------------
(* Statements.                                                             *)

Reserved == {tx[x].new : x \in Txn}

\* A handler opens a transaction.  What it read before may be out of date: old
\* is any row that was ever there, stored or not.
Begin(x, kind, old, new) ==
    /\ ~Open(x)
    /\ kind = "rotate" => old # None /\ row[old] # "free"
    /\ kind # "rotate" => old = None
    /\ kind \in {"rotate", "login"} =>
         new \notin Reserved \cup {None} /\ row[new] = "free"
    /\ kind \notin {"rotate", "login"} => new = None
    /\ tx' = [tx EXCEPT ![x] = [NoTx EXCEPT !.kind = kind, !.script = Script(kind),
                                            !.old = old, !.new = new]]
    /\ UNCHANGED <<exists, row, userLock, rowLock>>

\* LockUser, or the DELETE of the user's row.
LockUser(x) ==
    /\ At(x, "lock")
    /\ exists
    /\ UserBlockers(x, "update") = {}
    /\ userLock' = [userLock EXCEPT ![x] = "update"]
    /\ Done(x, tx[x])
    /\ UNCHANGED <<exists, row, rowLock>>

\* No row to lock: the user is gone.  MarkRefreshTokenUsed affects no row: the
\* token was used or deleted.  The handler returns and rolls back.
NothingToDo(x) ==
    /\ \/ At(x, "lock") /\ ~exists
       \/ /\ At(x, "mark") /\ row[tx[x].old] # "unused"
          /\ RowBlockers(x, tx[x].old) = {}
    /\ Rollback(x)
    /\ UNCHANGED <<exists, row>>

MarkRefreshTokenUsed(x) ==
    LET old == tx[x].old IN
    /\ At(x, "mark")
    /\ row[old] = "unused"
    /\ RowBlockers(x, old) = {}
    /\ rowLock' = [rowLock EXCEPT ![old] = x]
    /\ Done(x, [tx[x] EXCEPT !.used = {old}])
    /\ UNCHANGED <<exists, row, userLock>>

\* CreateRefreshToken, with its foreign-key check.
CreateRefreshToken(x) ==
    /\ At(x, "insert")
    /\ exists
    /\ UserBlockers(x, "keyShare") = {}
    /\ userLock' = [userLock EXCEPT ![x] = IF @ = "none" THEN "keyShare" ELSE @]
    /\ Done(x, [tx[x] EXCEPT !.made = {tx[x].new}])
    /\ UNCHANGED <<exists, row, rowLock>>

\* A DELETE begins: it will change the rows it sees now.
Scan(x) ==
    /\ At(x, "scan")
    /\ Done(x, [tx[x] EXCEPT !.todo =
          {t \in IF tx[x].kind = "prune" THEN Old ELSE Token : Stored(t)}])
    /\ UNCHANGED <<exists, row, userLock, rowLock>>

\* It turns to one of them ...
WantRow(x, t) ==
    /\ At(x, "delete")
    /\ tx[x].want = None /\ t \in tx[x].todo
    /\ tx' = [tx EXCEPT ![x].want = t]
    /\ UNCHANGED <<exists, row, userLock, rowLock>>

\* ... and deletes it, unless somebody else did while it waited.
DeleteRow(x) ==
    LET t == tx[x].want IN
    /\ At(x, "delete")
    /\ t # None
    /\ RowBlockers(x, t) = {}
    /\ IF Stored(t)
       THEN /\ rowLock' = [rowLock EXCEPT ![t] = x]
            /\ tx' = [tx EXCEPT ![x].want = None, ![x].todo = @ \ {t},
                                ![x].gone = @ \cup {t}]
       ELSE /\ tx' = [tx EXCEPT ![x].want = None, ![x].todo = @ \ {t}]
            /\ UNCHANGED rowLock
    /\ UNCHANGED <<exists, row, userLock>>

DeleteDone(x) ==
    /\ At(x, "delete")
    /\ tx[x].todo = {}
    /\ Done(x, tx[x])
    /\ UNCHANGED <<exists, row, userLock, rowLock>>

Commit(x) ==
    /\ At(x, "commit")
    /\ exists' = (exists /\ tx[x].kind # "deleteUser")
    /\ row' = [t \in Token |-> IF t \in tx[x].gone THEN "gone"
                               ELSE IF t \in tx[x].used THEN "used"
                               ELSE IF t \in tx[x].made THEN "unused" ELSE row[t]]
    /\ Rollback(x)

\* A statement fails (also the foreign-key check of a deleted user), the client
\* goes away, the server stops, or the database breaks a deadlock.
Abort(x) ==
    /\ Open(x)
    /\ Rollback(x)
    /\ UNCHANGED <<exists, row>>

Next ==
    \E x \in Txn :
      \/ \E kind \in Kind, old \in Token \cup {None}, new \in (Token \ Old) \cup {None} :
           Begin(x, kind, old, new)
      \/ LockUser(x) \/ NothingToDo(x) \/ MarkRefreshTokenUsed(x)
      \/ CreateRefreshToken(x) \/ Scan(x)
      \/ \E t \in Token : WantRow(x, t)
      \/ DeleteRow(x) \/ DeleteDone(x) \/ Commit(x) \/ Abort(x)

Spec == Init /\ [][Next]_vars

-----------------------------------------------------------------------------
(* Properties.                                                             *)

Table == INSTANCE TokenTable

\* Every transaction takes effect at once, at its commit: a revocation deletes
\* what a rotation or a login committed before it, though the row did not exist
\* when the revocation was asked for, and of two rotations of one token exactly
\* one succeeds.
ImplementsTable == Table!Spec

\* Who keeps x from making its next step.
WaitsFor(x) ==
    CASE At(x, "lock")   -> UserBlockers(x, "update")
      [] At(x, "mark")   -> RowBlockers(x, tx[x].old)
      [] At(x, "insert") -> UserBlockers(x, "keyShare")
      [] At(x, "delete") /\ tx[x].want # None -> RowBlockers(x, tx[x].want)
      [] OTHER -> {}

\* What RotateRefreshToken's comment says of taking the user lock first: it is
\* "also what stops the two deadlocking".  No rotations, revocations, logins and
\* deletions of the user wait for each other in a circle.  (The pruner, which
\* takes no user lock, is not part of the claim.)
NoDeadlock ==
    \A S \in SUBSET {x \in Txn : Open(x) /\ tx[x].kind # "prune"} :
        S # {} => \E x \in S : WaitsFor(x) \cap S = {}
=============================================================================
