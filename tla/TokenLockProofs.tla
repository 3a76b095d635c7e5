--------------------------- MODULE TokenLockProofs ---------------------------
(***************************************************************************)
(* The transactions of TokenLock, for any number of them and of tokens:     *)
(* they implement TokenTable, in which each happens at once, and those that *)
(* take the user's row first never wait for each other in a circle.         *)
(*                                                                          *)
(* LockInv says what a transaction holds and has written at each of its     *)
(* statements.  Both theorems follow from it: what it has locked nobody     *)
(* else changes, and what it has seen under the lock of the user's row      *)
(* stays all there is.                                                      *)
(***************************************************************************)
EXTENDS TokenLock, TLAPS

\* What is left of a script, named for the next statement: of a rotation or a
\* login, and of a deletion.
ToLock   == <<"lock", "mark", "insert", "commit">>
ToMark   == <<"mark", "insert", "commit">>
ToInsert == <<"insert", "commit">>
ToCommit == <<"commit">>
DelLock  == <<"lock", "scan", "delete", "commit">>
DelScan  == <<"scan", "delete", "commit">>
DelRows  == <<"delete", "commit">>

Creating == {"rotate", "login"}
Deleting == {"revoke", "deleteUser", "prune"}

Left(kind) ==
    CASE kind = "rotate" -> {ToLock, ToMark, ToInsert, ToCommit}
      [] kind = "login"  -> {ToInsert, ToCommit}
      [] kind = "revoke" -> {DelLock, DelScan, DelRows, ToCommit}
      [] kind = "deleteUser" -> {DelLock, DelScan, DelRows, ToCommit}
      [] kind = "prune"  -> {DelScan, DelRows, ToCommit}
      [] kind = "none"   -> {<<>>}

Scripts == {<<>>, ToLock, ToMark, ToInsert, ToCommit, DelLock, DelScan, DelRows}

TxRecord ==
    [script : Scripts, kind : Kind \cup {"none"},
     old : Token \cup {None}, new : Token \cup {None}, want : Token \cup {None},
     todo : SUBSET Token, used : SUBSET Token, made : SUBSET Token, gone : SUBSET Token]

LockTyped ==
    /\ exists \in BOOLEAN
    /\ row \in [Token -> {"free", "unused", "used", "gone"}]
    /\ userLock \in [Txn -> Mode]
    /\ rowLock \in [Token -> Txn \cup {None}]
    /\ tx \in [Txn -> TxRecord]

\* The lock on the user's row that a transaction has by then.
Held(t) ==
    IF t.kind = "login" /\ t.script = ToCommit THEN "keyShare"
    ELSE IF t.kind \in {"rotate", "revoke", "deleteUser"} /\ t.script \notin {ToLock, DelLock}
         THEN "update" ELSE "none"

Scope(kind) == IF kind = "prune" THEN Old ELSE Token

\* What transaction x has read, written and locked so far.
CreatesOK(x) ==
    LET t == tx[x] IN
    /\ t.used = IF t.kind = "rotate" /\ t.script \in {ToInsert, ToCommit} THEN {t.old} ELSE {}
    /\ t.made = IF t.kind \in Creating /\ t.script = ToCommit THEN {t.new} ELSE {}
    /\ t.kind = "rotate" => t.old \in Token /\ row[t.old] # "free"
    /\ t.kind \in Creating => t.new \in Token \ Old /\ row[t.new] = "free"
    /\ t.kind \notin Creating => t.new = None
    /\ \A r \in t.used : row[r] = "unused" /\ rowLock[r] = x

DeletesOK(x) ==
    LET t == tx[x] IN
    /\ t.gone # {} => t.kind \in Deleting /\ t.script \in {DelRows, ToCommit}
    /\ \A r \in t.gone : Stored(r) /\ rowLock[r] = x /\ r \in Scope(t.kind)
    /\ t.todo \subseteq Scope(t.kind)
    /\ t.todo # {} => t.script = DelRows
    /\ t.want # None => t.want \in t.todo
    /\ t.script = DelRows =>
          \A r \in Scope(t.kind) : Stored(r) => r \in t.todo \cup t.gone
    /\ t.script = ToCommit /\ t.kind \in Deleting =>
          \A r \in Scope(t.kind) : Stored(r) => r \in t.gone

TxOK(x) ==
    /\ tx[x].script \in Left(tx[x].kind)
    /\ userLock[x] = Held(tx[x])
    /\ userLock[x] # "none" => exists
    /\ CreatesOK(x)
    /\ DeletesOK(x)

\* No two hold conflicting locks, or will insert the same token; a row is locked
\* by who changed it.
Exclusive ==
    \A x, y \in Txn : x # y =>
        /\ ~Conflict(userLock[x], userLock[y])
        /\ tx[x].new # None => tx[x].new # tx[y].new

RowsLocked ==
    \A r \in Token, x \in Txn : rowLock[r] = x => r \in tx[x].used \cup tx[x].gone

LockInv ==
    /\ LockTyped
    /\ \A x \in Txn : TxOK(x)
    /\ Exclusive
    /\ RowsLocked

-----------------------------------------------------------------------------
(* Values.                                                                  *)

LEMMA HeadsOfScripts ==
    /\ Head(ToLock) = "lock" /\ Head(ToMark) = "mark" /\ Head(ToInsert) = "insert"
    /\ Head(ToCommit) = "commit"
    /\ Head(DelLock) = "lock" /\ Head(DelScan) = "scan" /\ Head(DelRows) = "delete"
BY DEF ToLock, ToMark, ToInsert, ToCommit, DelLock, DelScan, DelRows

LEMMA TailsOfScripts ==
    /\ Tail(ToLock) = ToMark /\ Tail(ToMark) = ToInsert /\ Tail(ToInsert) = ToCommit
    /\ Tail(DelLock) = DelScan /\ Tail(DelScan) = DelRows /\ Tail(DelRows) = ToCommit
BY DEF ToLock, ToMark, ToInsert, ToCommit, DelLock, DelScan, DelRows

LEMMA ScriptsDiffer ==
    /\ ToLock # DelLock
    /\ <<>> \notin {ToLock, ToMark, ToInsert, ToCommit, DelLock, DelScan, DelRows}
BY DEF ToLock, ToMark, ToInsert, ToCommit, DelLock, DelScan, DelRows

LEMMA WholeScripts ==
    /\ Script("rotate") = ToLock /\ Script("login") = ToInsert
    /\ Script("revoke") = DelLock /\ Script("deleteUser") = DelLock
    /\ Script("prune") = DelScan
BY DEF Script, ToLock, ToInsert, DelLock, DelScan

LEMMA LeftIs ==
    /\ Left("rotate") = {ToLock, ToMark, ToInsert, ToCommit}
    /\ Left("login") = {ToInsert, ToCommit}
    /\ Left("revoke") = {DelLock, DelScan, DelRows, ToCommit}
    /\ Left("deleteUser") = {DelLock, DelScan, DelRows, ToCommit}
    /\ Left("prune") = {DelScan, DelRows, ToCommit}
    /\ Left("none") = {<<>>}
BY DEF Left

LEMMA NoTxIs ==
    /\ NoTx \in TxRecord /\ NoTx.kind = "none" /\ NoTx.script = <<>>
    /\ NoTx.old = None /\ NoTx.new = None /\ NoTx.want = None
    /\ NoTx.todo = {} /\ NoTx.used = {} /\ NoTx.made = {} /\ NoTx.gone = {}
BY DEF NoTx, TxRecord, Scripts

\* Which statement comes next says how far the transaction is.
LEMMA Stages ==
    ASSUME NEW x \in Txn, LockTyped, TxOK(x)
    PROVE  /\ At(x, "lock") =>
                 \/ tx[x].kind = "rotate" /\ tx[x].script = ToLock
                 \/ tx[x].kind \in {"revoke", "deleteUser"} /\ tx[x].script = DelLock
           /\ At(x, "mark") => tx[x].kind = "rotate" /\ tx[x].script = ToMark
           /\ At(x, "insert") => tx[x].kind \in Creating /\ tx[x].script = ToInsert
           /\ At(x, "scan") => tx[x].kind \in Deleting /\ tx[x].script = DelScan
           /\ At(x, "delete") => tx[x].kind \in Deleting /\ tx[x].script = DelRows
           /\ At(x, "commit") => tx[x].kind \in Kind /\ tx[x].script = ToCommit
<1> DEFINE k == tx[x].kind
           s == tx[x].script
<1>1. k \in Kind \cup {"none"} /\ s \in Left(k)
  BY DEF LockTyped, TxRecord, TxOK
<1>2. CASE k = "rotate"
  BY <1>1, <1>2, LeftIs, HeadsOfScripts DEF At, Open, Creating, Deleting, Kind
<1>3. CASE k = "login"
  BY <1>1, <1>3, LeftIs, HeadsOfScripts DEF At, Open, Creating, Deleting, Kind
<1>4. CASE k \in {"revoke", "deleteUser"}
  BY <1>1, <1>4, LeftIs, HeadsOfScripts DEF At, Open, Creating, Deleting, Kind
<1>5. CASE k = "prune"
  BY <1>1, <1>5, LeftIs, HeadsOfScripts DEF At, Open, Creating, Deleting, Kind
<1>6. CASE k = "none"
  BY <1>6 DEF At, Open
<1> QED BY <1>1, <1>2, <1>3, <1>4, <1>5, <1>6 DEF Kind

\* The stages are told apart.
LEMMA StagesDiffer ==
    /\ ToLock # ToMark /\ ToLock # ToInsert /\ ToLock # ToCommit /\ ToLock # DelScan
    /\ ToLock # DelRows /\ ToMark # ToInsert /\ ToMark # ToCommit /\ ToMark # DelLock
    /\ ToMark # DelScan /\ ToMark # DelRows /\ ToInsert # ToCommit /\ ToInsert # DelLock
    /\ ToInsert # DelScan /\ ToInsert # DelRows /\ ToCommit # DelLock
    /\ ToCommit # DelScan /\ ToCommit # DelRows /\ DelLock # DelScan
    /\ DelLock # DelRows /\ DelScan # DelRows /\ ToLock # DelLock
    /\ <<>> \notin {ToLock, ToMark, ToInsert, ToCommit, DelLock, DelScan, DelRows}
BY HeadsOfScripts, ScriptsDiffer

-----------------------------------------------------------------------------
(* A statement that does not commit changes what its transaction holds, and *)
(* nothing that another one relies on.                                      *)

OnlyTx(x) ==
    /\ \A y \in Txn : y # x => tx'[y] = tx[y] /\ userLock'[y] = userLock[y]
    /\ \A r \in Token : \/ rowLock'[r] = rowLock[r]
                        \/ rowLock[r] \in {x, None} /\ rowLock'[r] \in {x, None}

LEMMA OneStatement ==
    ASSUME LockInv, NEW x \in Txn, UNCHANGED <<exists, row>>, LockTyped', OnlyTx(x),
           TxOK(x)',
           \A y \in Txn : y # x => /\ ~Conflict(userLock'[x], userLock[y])
                                   /\ tx'[x].new # None => tx[y].new # tx'[x].new,
           \A r \in Token : rowLock'[r] = x => r \in tx'[x].used \cup tx'[x].gone
    PROVE  LockInv'
<1>1. ASSUME NEW y \in Txn, y # x PROVE TxOK(y)'
  <2>1. /\ TxOK(y) /\ tx'[y] = tx[y] /\ userLock'[y] = userLock[y] /\ y # None
        /\ tx[y] \in TxRecord
    BY <1>1, LockAssumption DEF LockInv, LockTyped, OnlyTx
  <2>2. \A r \in Token : rowLock[r] = y => rowLock'[r] = y
    BY <1>1, <2>1 DEF OnlyTx
  <2>3. tx[y].used \subseteq Token /\ tx[y].gone \subseteq Token
    BY <2>1 DEF TxRecord
  <2>4. CreatesOK(y)'
    BY <2>1, <2>2, <2>3 DEF TxOK, CreatesOK
  <2>5. DeletesOK(y)'
    BY <2>1, <2>2, <2>3 DEF TxOK, DeletesOK, Stored
  <2> QED BY <2>1, <2>4, <2>5 DEF TxOK
<1>2. Exclusive'
  <2> SUFFICES ASSUME NEW y \in Txn, NEW z \in Txn, y # z
               PROVE  /\ ~Conflict(userLock'[y], userLock'[z])
                      /\ tx'[y].new # None => tx'[y].new # tx'[z].new
    BY DEF Exclusive, Conflict
  <2>1. CASE y # x /\ z # x
    BY <2>1 DEF LockInv, Exclusive, OnlyTx
  <2>2. CASE y = x
    BY <2>2 DEF OnlyTx
  <2>3. CASE z = x
    BY <2>3 DEF OnlyTx, Conflict
  <2> QED BY <2>1, <2>2, <2>3
<1>3. RowsLocked'
  <2> SUFFICES ASSUME NEW r \in Token, NEW y \in Txn, y # x, rowLock'[r] = y
               PROVE  r \in tx[y].used \cup tx[y].gone
    BY DEF RowsLocked, OnlyTx
  <2>1. y # None
    BY LockAssumption
  <2> QED BY <2>1 DEF OnlyTx, LockInv, RowsLocked
<1> QED BY <1>1, <1>2, <1>3 DEF LockInv

\* At the end of a transaction its locks are let go of.
LEMMA RolledBack ==
    ASSUME LockInv, NEW x \in Txn, Rollback(x)
    PROVE  /\ tx' \in [Txn -> TxRecord] /\ tx'[x] = NoTx
           /\ userLock' \in [Txn -> Mode] /\ userLock'[x] = "none"
           /\ rowLock' \in [Token -> Txn \cup {None}]
           /\ \A y \in Txn : y # x => tx'[y] = tx[y] /\ userLock'[y] = userLock[y]
           /\ \A r \in Token : rowLock'[r] = IF rowLock[r] = x THEN None ELSE rowLock[r]
           /\ OnlyTx(x)
           /\ TxOK(x)'
<1>1. /\ tx \in [Txn -> TxRecord] /\ userLock \in [Txn -> Mode]
      /\ rowLock \in [Token -> Txn \cup {None}]
  BY DEF LockInv, LockTyped
<1>2. tx' \in [Txn -> TxRecord] /\ tx'[x] = NoTx
  BY <1>1, NoTxIs DEF Rollback
<1>3. userLock' \in [Txn -> Mode] /\ userLock'[x] = "none"
  BY <1>1 DEF Rollback, Mode
<1>4. rowLock' \in [Token -> Txn \cup {None}]
  BY <1>1 DEF Rollback
<1>5. \A y \in Txn : y # x => tx'[y] = tx[y] /\ userLock'[y] = userLock[y]
  BY <1>1 DEF Rollback
<1>6. \A r \in Token : rowLock'[r] = IF rowLock[r] = x THEN None ELSE rowLock[r]
  BY DEF Rollback
<1>7. OnlyTx(x)
  BY <1>5, <1>6 DEF OnlyTx
<1>8. TxOK(x)'
  <2>1. CreatesOK(x)'
    BY <1>2, NoTxIs DEF CreatesOK, Creating
  <2>2. DeletesOK(x)'
    BY <1>2, NoTxIs, StagesDiffer DEF DeletesOK, Deleting
  <2>3. tx'[x].script \in Left(tx'[x].kind) /\ Held(tx'[x]) = "none"
    BY <1>2, NoTxIs, LeftIs DEF Held
  <2> QED BY <1>3, <2>1, <2>2, <2>3 DEF TxOK
<1> QED BY <1>2, <1>3, <1>4, <1>5, <1>6, <1>7, <1>8

LEMMA RollbackInv ==
    ASSUME LockInv, NEW x \in Txn, Rollback(x), UNCHANGED <<exists, row>>
    PROVE  LockInv'
<1>1. LockTyped'
  BY RolledBack DEF LockInv, LockTyped
<1>2. \A r \in Token : rowLock'[r] # x
  BY RolledBack, LockAssumption
<1>3. \A y \in Txn : y # x => /\ ~Conflict(userLock'[x], userLock[y])
                              /\ tx'[x].new # None => tx[y].new # tx'[x].new
  BY RolledBack, NoTxIs DEF Conflict
<1> QED BY <1>1, <1>2, <1>3, RolledBack, OneStatement

-----------------------------------------------------------------------------
(* The statements, one by one.                                              *)

\* What a statement that goes on to the next one leaves in the record.
LEMMA NextStatement ==
    ASSUME LockInv, NEW x \in Txn, NEW t \in TxRecord, Tail(t.script) \in Scripts,
           Done(x, t)
    PROVE  /\ tx' \in [Txn -> TxRecord]
           /\ tx'[x] = [t EXCEPT !.script = Tail(t.script)]
           /\ tx'[x].script = Tail(t.script) /\ tx'[x].kind = t.kind
           /\ tx'[x].old = t.old /\ tx'[x].new = t.new /\ tx'[x].want = t.want
           /\ tx'[x].todo = t.todo /\ tx'[x].used = t.used
           /\ tx'[x].made = t.made /\ tx'[x].gone = t.gone
           /\ \A y \in Txn : y # x => tx'[y] = tx[y]
<1>1. PICK u : u = [t EXCEPT !.script = Tail(t.script)]
  OBVIOUS
<1>2. u \in TxRecord
  BY <1>1 DEF TxRecord
<1>3. /\ u.script = Tail(t.script) /\ u.kind = t.kind
      /\ u.old = t.old /\ u.new = t.new /\ u.want = t.want
      /\ u.todo = t.todo /\ u.used = t.used /\ u.made = t.made /\ u.gone = t.gone
  BY <1>1 DEF TxRecord
<1>4. tx \in [Txn -> TxRecord] /\ tx' = [tx EXCEPT ![x] = u]
  BY <1>1 DEF Done, LockInv, LockTyped
<1>5. tx' \in [Txn -> TxRecord] /\ tx'[x] = u /\ \A y \in Txn : y # x => tx'[y] = tx[y]
  BY <1>2, <1>4
<1> QED BY <1>1, <1>3, <1>5

LEMMA LockUserInv ==
    ASSUME LockInv, NEW x \in Txn, LockUser(x)
    PROVE  LockInv'
<1> DEFINE t == tx[x]
<1>1. /\ LockTyped /\ TxOK(x) /\ t \in TxRecord
      /\ \/ t.kind = "rotate" /\ t.script = ToLock /\ Tail(t.script) = ToMark
         \/ t.kind \in {"revoke", "deleteUser"} /\ t.script = DelLock
            /\ Tail(t.script) = DelScan
  BY Stages, TailsOfScripts DEF LockInv, LockTyped, LockUser
<1>2. Tail(t.script) \in Scripts
  BY <1>1 DEF Scripts
<1>3. /\ tx' \in [Txn -> TxRecord]
      /\ tx'[x].script = Tail(t.script) /\ tx'[x].kind = t.kind
      /\ tx'[x].old = t.old /\ tx'[x].new = t.new /\ tx'[x].want = t.want
      /\ tx'[x].todo = t.todo /\ tx'[x].used = t.used
      /\ tx'[x].made = t.made /\ tx'[x].gone = t.gone
      /\ \A y \in Txn : y # x => tx'[y] = tx[y]
  BY <1>1, <1>2, NextStatement DEF LockUser
<1>4. /\ userLock' \in [Txn -> Mode] /\ userLock'[x] = "update"
      /\ \A y \in Txn : y # x => userLock'[y] = userLock[y] /\ userLock[y] = "none"
  BY <1>1 DEF LockUser, LockTyped, UserBlockers, Conflict, Mode
<1>5. LockTyped' /\ OnlyTx(x)
  BY <1>1, <1>3, <1>4 DEF LockTyped, OnlyTx, LockUser
<1>6. TxOK(x)'
  <2>1. tx'[x].script \in Left(tx'[x].kind) /\ Held(tx'[x]) = "update" /\ exists'
    BY <1>1, <1>3, LeftIs, StagesDiffer DEF Held, LockUser
  <2>2. CreatesOK(x)'
    BY <1>1, <1>3, StagesDiffer DEF TxOK, CreatesOK, LockUser, Creating
  <2>3. DeletesOK(x)'
    BY <1>1, <1>3, StagesDiffer DEF TxOK, DeletesOK, LockUser, Deleting
  <2> QED BY <1>4, <2>1, <2>2, <2>3 DEF TxOK
<1>7. \A y \in Txn : y # x => /\ ~Conflict(userLock'[x], userLock[y])
                              /\ tx'[x].new # None => tx[y].new # tx'[x].new
  BY <1>3, <1>4 DEF Conflict, LockInv, Exclusive
<1>8. \A r \in Token : rowLock'[r] = x => r \in tx'[x].used \cup tx'[x].gone
  BY <1>3 DEF LockUser, LockInv, RowsLocked
<1>9. UNCHANGED <<exists, row>>
  BY DEF LockUser
<1> QED BY <1>5, <1>6, <1>7, <1>8, <1>9, OneStatement

LEMMA MarkInv ==
    ASSUME LockInv, NEW x \in Txn, MarkRefreshTokenUsed(x)
    PROVE  LockInv'
<1> DEFINE old == tx[x].old
<1> PICK t : t = [tx[x] EXCEPT !.used = {old}]
  OBVIOUS
<1>1. /\ LockTyped /\ TxOK(x) /\ tx[x] \in TxRecord
      /\ tx[x].kind = "rotate" /\ tx[x].script = ToMark /\ old \in Token
      /\ tx[x].old \in Token
      /\ row[old] = "unused" /\ \A y \in Txn : y # x => rowLock[old] # y
  BY Stages DEF LockInv, LockTyped, MarkRefreshTokenUsed, TxOK, CreatesOK, RowBlockers
<1>2. /\ t \in TxRecord /\ t.script = ToMark /\ t.kind = "rotate"
      /\ t.old = old /\ t.new = tx[x].new /\ t.want = tx[x].want
      /\ t.todo = tx[x].todo /\ t.used = {old}
      /\ t.made = tx[x].made /\ t.gone = tx[x].gone
  BY <1>1 DEF TxRecord
<1>3. Tail(t.script) = ToInsert /\ ToInsert \in Scripts /\ Done(x, t)
  BY <1>2, TailsOfScripts DEF Scripts, MarkRefreshTokenUsed
<1>4. /\ tx' \in [Txn -> TxRecord]
      /\ tx'[x].script = ToInsert /\ tx'[x].kind = "rotate"
      /\ tx'[x].old = old /\ tx'[x].new = tx[x].new /\ tx'[x].want = tx[x].want
      /\ tx'[x].todo = tx[x].todo /\ tx'[x].used = {old}
      /\ tx'[x].made = tx[x].made /\ tx'[x].gone = tx[x].gone
      /\ \A y \in Txn : y # x => tx'[y] = tx[y]
  BY <1>2, <1>3, NextStatement
<1>5. /\ rowLock' \in [Token -> Txn \cup {None}] /\ rowLock'[old] = x
      /\ \A r \in Token : r # old => rowLock'[r] = rowLock[r]
      /\ rowLock[old] \in {x, None}
  BY <1>1 DEF MarkRefreshTokenUsed, LockTyped
<1>6. UNCHANGED <<exists, row, userLock>>
  BY DEF MarkRefreshTokenUsed
<1>7. LockTyped' /\ OnlyTx(x)
  BY <1>1, <1>4, <1>5, <1>6 DEF LockTyped, OnlyTx
<1>8. TxOK(x)'
  <2>1. /\ tx'[x].script \in Left(tx'[x].kind)
        /\ Held(tx'[x]) = "update" /\ Held(tx[x]) = "update"
    BY <1>1, <1>4, LeftIs, StagesDiffer DEF Held
  <2>2. CreatesOK(x)'
    BY <1>1, <1>4, <1>5, <1>6, StagesDiffer DEF TxOK, CreatesOK, Creating
  <2>3. DeletesOK(x)'
    BY <1>1, <1>4, <1>6, StagesDiffer DEF TxOK, DeletesOK, Deleting
  <2> QED BY <1>1, <1>6, <2>1, <2>2, <2>3 DEF TxOK
<1>9. \A y \in Txn : y # x => /\ ~Conflict(userLock'[x], userLock[y])
                              /\ tx'[x].new # None => tx[y].new # tx'[x].new
  BY <1>4, <1>6 DEF LockInv, Exclusive
<1>10. \A r \in Token : rowLock'[r] = x => r \in tx'[x].used \cup tx'[x].gone
  <2>1. tx[x].used = {}
    BY <1>1, StagesDiffer DEF TxOK, CreatesOK
  <2> QED BY <1>4, <1>5, <2>1 DEF LockInv, RowsLocked
<1> QED BY <1>6, <1>7, <1>8, <1>9, <1>10, OneStatement

LEMMA CreateInv ==
    ASSUME LockInv, NEW x \in Txn, CreateRefreshToken(x)
    PROVE  LockInv'
<1> DEFINE new == tx[x].new
<1> PICK t : t = [tx[x] EXCEPT !.made = {new}]
  OBVIOUS
<1>1. /\ LockTyped /\ TxOK(x) /\ tx[x] \in TxRecord /\ exists
      /\ tx[x].kind \in Creating /\ tx[x].script = ToInsert
      /\ new \in Token \ Old /\ new \in Token /\ row[new] = "free"
  BY Stages DEF LockInv, LockTyped, CreateRefreshToken, TxOK, CreatesOK
<1>2. /\ t \in TxRecord /\ t.script = ToInsert /\ t.kind = tx[x].kind
      /\ t.old = tx[x].old /\ t.new = new /\ t.want = tx[x].want
      /\ t.todo = tx[x].todo /\ t.used = tx[x].used
      /\ t.made = {new} /\ t.gone = tx[x].gone
  BY <1>1 DEF TxRecord
<1>3. Tail(t.script) = ToCommit /\ ToCommit \in Scripts /\ Done(x, t)
  BY <1>2, TailsOfScripts DEF Scripts, CreateRefreshToken
<1>4. /\ tx' \in [Txn -> TxRecord]
      /\ tx'[x].script = ToCommit /\ tx'[x].kind = tx[x].kind
      /\ tx'[x].old = tx[x].old /\ tx'[x].new = new /\ tx'[x].want = tx[x].want
      /\ tx'[x].todo = tx[x].todo /\ tx'[x].used = tx[x].used
      /\ tx'[x].made = {new} /\ tx'[x].gone = tx[x].gone
      /\ \A y \in Txn : y # x => tx'[y] = tx[y]
  BY <1>2, <1>3, NextStatement
<1>5. /\ userLock' \in [Txn -> Mode]
      /\ userLock'[x] = IF userLock[x] = "none" THEN "keyShare" ELSE userLock[x]
      /\ \A y \in Txn : y # x => userLock'[y] = userLock[y] /\ userLock[y] # "update"
  <2>1. \A y \in Txn : y # x => ~Conflict("keyShare", userLock[y])
    BY DEF CreateRefreshToken, UserBlockers
  <2> QED BY <1>1, <2>1 DEF CreateRefreshToken, LockTyped, Mode, Conflict
<1>6. UNCHANGED <<exists, row, rowLock>>
  BY DEF CreateRefreshToken
<1>7. LockTyped' /\ OnlyTx(x)
  BY <1>1, <1>4, <1>5, <1>6 DEF LockTyped, OnlyTx
<1>8. tx[x].kind \in {"rotate", "login"} /\ tx'[x].kind \in {"rotate", "login"}
  BY <1>1, <1>4 DEF Creating
<1>9. /\ Held(tx[x]) = IF tx[x].kind = "rotate" THEN "update" ELSE "none"
      /\ Held(tx'[x]) = IF tx[x].kind = "rotate" THEN "update" ELSE "keyShare"
  BY <1>1, <1>4, <1>8, StagesDiffer DEF Held
<1>10. TxOK(x)'
  <2>1. tx'[x].script \in Left(tx'[x].kind) /\ userLock'[x] = Held(tx'[x])
    BY <1>1, <1>4, <1>5, <1>8, <1>9, LeftIs DEF TxOK
  <2>2. CreatesOK(x)'
    BY <1>1, <1>4, <1>6, <1>8, StagesDiffer DEF TxOK, CreatesOK, Creating
  <2>3. DeletesOK(x)'
    BY <1>1, <1>4, <1>6, <1>8, StagesDiffer DEF TxOK, DeletesOK, Deleting
  <2> QED BY <1>1, <1>6, <2>1, <2>2, <2>3 DEF TxOK
<1>11. \A y \in Txn : y # x => /\ ~Conflict(userLock'[x], userLock[y])
                               /\ tx'[x].new # None => tx[y].new # tx'[x].new
  BY <1>1, <1>4, <1>5 DEF LockInv, Exclusive, Conflict
<1>12. \A r \in Token : rowLock'[r] = x => r \in tx'[x].used \cup tx'[x].gone
  BY <1>4, <1>6 DEF LockInv, RowsLocked
<1> QED BY <1>6, <1>7, <1>10, <1>11, <1>12, OneStatement

LEMMA ScanInv ==
    ASSUME LockInv, NEW x \in Txn, Scan(x)
    PROVE  LockInv'
<1> DEFINE Seen == {r \in Scope(tx[x].kind) : Stored(r)}
<1> PICK t : t = [tx[x] EXCEPT !.todo = Seen]
  OBVIOUS
<1>1. /\ LockTyped /\ TxOK(x) /\ tx[x] \in TxRecord
      /\ tx[x].kind \in Deleting /\ tx[x].script = DelScan
      /\ tx[x].want = None /\ tx[x].gone = {}
  <2>1. LockTyped /\ TxOK(x) /\ tx[x].kind \in Deleting /\ tx[x].script = DelScan
    BY Stages DEF LockInv, Scan
  <2> QED BY <2>1, StagesDiffer DEF TxOK, DeletesOK, LockTyped
<1>2. Seen \in SUBSET Token /\ Seen \subseteq Token
  BY LockAssumption DEF Scope
<1>3. /\ t \in TxRecord /\ t.script = DelScan /\ t.kind = tx[x].kind
      /\ t.old = tx[x].old /\ t.new = tx[x].new /\ t.want = None
      /\ t.todo = Seen /\ t.used = tx[x].used
      /\ t.made = tx[x].made /\ t.gone = {}
  BY <1>1, <1>2 DEF TxRecord
<1>4. Tail(t.script) = DelRows /\ DelRows \in Scripts /\ Done(x, t)
  BY <1>3, TailsOfScripts DEF Scripts, Scan, Scope
<1>5. /\ tx' \in [Txn -> TxRecord]
      /\ tx'[x].script = DelRows /\ tx'[x].kind = tx[x].kind
      /\ tx'[x].old = tx[x].old /\ tx'[x].new = tx[x].new /\ tx'[x].want = None
      /\ tx'[x].todo = Seen /\ tx'[x].used = tx[x].used
      /\ tx'[x].made = tx[x].made /\ tx'[x].gone = {}
      /\ \A y \in Txn : y # x => tx'[y] = tx[y]
  BY <1>3, <1>4, NextStatement
<1>6. UNCHANGED <<exists, row, userLock, rowLock>>
  BY DEF Scan
<1>7. LockTyped' /\ OnlyTx(x)
  BY <1>1, <1>5, <1>6 DEF LockTyped, OnlyTx
<1>8. TxOK(x)'
  <2>1. tx'[x].script \in Left(tx'[x].kind) /\ Held(tx'[x]) = Held(tx[x])
    BY <1>1, <1>5, LeftIs, StagesDiffer DEF Held, Deleting
  <2>2. CreatesOK(x)'
    BY <1>1, <1>5, <1>6, StagesDiffer DEF TxOK, CreatesOK, Creating, Deleting
  <2>3. \A r \in Scope(tx'[x].kind) : Stored(r)' => r \in Seen
    BY <1>5, <1>6 DEF Stored
  <2>4. DeletesOK(x)'
    BY <1>1, <1>5, <1>6, <2>3, StagesDiffer DEF DeletesOK
  <2> QED BY <1>1, <1>6, <2>1, <2>2, <2>4 DEF TxOK
<1>9. \A y \in Txn : y # x => /\ ~Conflict(userLock'[x], userLock[y])
                              /\ tx'[x].new # None => tx[y].new # tx'[x].new
  BY <1>5, <1>6 DEF LockInv, Exclusive
<1>10. \A r \in Token : rowLock'[r] = x => r \in tx'[x].used \cup tx'[x].gone
  BY <1>1, <1>5, <1>6 DEF LockInv, RowsLocked
<1> QED BY <1>6, <1>7, <1>8, <1>9, <1>10, OneStatement

LEMMA DeleteDoneInv ==
    ASSUME LockInv, NEW x \in Txn, DeleteDone(x)
    PROVE  LockInv'
<1>1. /\ LockTyped /\ TxOK(x) /\ tx[x] \in TxRecord
      /\ tx[x].kind \in Deleting /\ tx[x].script = DelRows /\ tx[x].todo = {}
  BY Stages DEF LockInv, LockTyped, DeleteDone
<1>2. Tail(tx[x].script) = ToCommit /\ ToCommit \in Scripts /\ Done(x, tx[x])
  BY <1>1, TailsOfScripts DEF Scripts, DeleteDone
<1>3. /\ tx' \in [Txn -> TxRecord]
      /\ tx'[x].script = ToCommit /\ tx'[x].kind = tx[x].kind
      /\ tx'[x].old = tx[x].old /\ tx'[x].new = tx[x].new /\ tx'[x].want = tx[x].want
      /\ tx'[x].todo = {} /\ tx'[x].used = tx[x].used
      /\ tx'[x].made = tx[x].made /\ tx'[x].gone = tx[x].gone
      /\ \A y \in Txn : y # x => tx'[y] = tx[y]
  BY <1>1, <1>2, NextStatement
<1>4. UNCHANGED <<exists, row, userLock, rowLock>>
  BY DEF DeleteDone
<1>5. LockTyped' /\ OnlyTx(x)
  BY <1>1, <1>3, <1>4 DEF LockTyped, OnlyTx
<1>6. TxOK(x)'
  <2>1. tx'[x].script \in Left(tx'[x].kind) /\ Held(tx'[x]) = Held(tx[x])
    BY <1>1, <1>3, LeftIs, StagesDiffer DEF Held, Deleting
  <2>2. CreatesOK(x)'
    BY <1>1, <1>3, <1>4, StagesDiffer DEF TxOK, CreatesOK, Creating, Deleting
  <2>3. DeletesOK(x)'
    BY <1>1, <1>3, <1>4, StagesDiffer DEF TxOK, DeletesOK, Stored
  <2> QED BY <1>1, <1>4, <2>1, <2>2, <2>3 DEF TxOK
<1>7. \A y \in Txn : y # x => /\ ~Conflict(userLock'[x], userLock[y])
                              /\ tx'[x].new # None => tx[y].new # tx'[x].new
  BY <1>3, <1>4 DEF LockInv, Exclusive
<1>8. \A r \in Token : rowLock'[r] = x => r \in tx'[x].used \cup tx'[x].gone
  BY <1>3, <1>4 DEF LockInv, RowsLocked
<1> QED BY <1>4, <1>5, <1>6, <1>7, <1>8, OneStatement

LEMMA WantRowInv ==
    ASSUME LockInv, NEW x \in Txn, NEW r \in Token, WantRow(x, r)
    PROVE  LockInv'
<1> PICK t : t = [tx[x] EXCEPT !.want = r]
  OBVIOUS
<1>1. /\ LockTyped /\ TxOK(x) /\ tx[x] \in TxRecord
      /\ tx[x].kind \in Deleting /\ tx[x].script = DelRows /\ r \in tx[x].todo
  BY Stages DEF LockInv, LockTyped, WantRow
<1>2. /\ t \in TxRecord /\ t.script = DelRows /\ t.kind = tx[x].kind
      /\ t.old = tx[x].old /\ t.new = tx[x].new /\ t.want = r
      /\ t.todo = tx[x].todo /\ t.used = tx[x].used
      /\ t.made = tx[x].made /\ t.gone = tx[x].gone
  BY <1>1 DEF TxRecord
<1>3. tx' = [tx EXCEPT ![x] = t]
  BY DEF WantRow
<1>4. /\ tx' \in [Txn -> TxRecord] /\ tx'[x] = t
      /\ \A y \in Txn : y # x => tx'[y] = tx[y]
  BY <1>1, <1>2, <1>3 DEF LockTyped
<1>5. UNCHANGED <<exists, row, userLock, rowLock>>
  BY DEF WantRow
<1>6. LockTyped' /\ OnlyTx(x)
  BY <1>1, <1>4, <1>5 DEF LockTyped, OnlyTx
<1>7. TxOK(x)'
  <2>1. tx'[x].script \in Left(tx'[x].kind) /\ Held(tx'[x]) = Held(tx[x])
    BY <1>1, <1>2, <1>4, LeftIs, StagesDiffer DEF Held, Deleting
  <2>2. CreatesOK(x)'
    BY <1>1, <1>2, <1>4, <1>5, StagesDiffer DEF TxOK, CreatesOK, Creating, Deleting
  <2>3. DeletesOK(x)'
    BY <1>1, <1>2, <1>4, <1>5, StagesDiffer DEF TxOK, DeletesOK, Stored
  <2> QED BY <1>1, <1>5, <2>1, <2>2, <2>3 DEF TxOK
<1>8. \A y \in Txn : y # x => /\ ~Conflict(userLock'[x], userLock[y])
                              /\ tx'[x].new # None => tx[y].new # tx'[x].new
  BY <1>2, <1>4, <1>5 DEF LockInv, Exclusive
<1>9. \A q \in Token : rowLock'[q] = x => q \in tx'[x].used \cup tx'[x].gone
  BY <1>2, <1>4, <1>5 DEF LockInv, RowsLocked
<1> QED BY <1>5, <1>6, <1>7, <1>8, <1>9, OneStatement

LEMMA DeleteRowInv ==
    ASSUME LockInv, NEW x \in Txn, DeleteRow(x)
    PROVE  LockInv'
<1> PICK r : r = tx[x].want
  OBVIOUS
<1> PICK Deleted \in SUBSET {r} : Deleted = IF Stored(r) THEN {r} ELSE {}
  OBVIOUS
<1> PICK t : t = [tx[x] EXCEPT !.want = None, !.todo = tx[x].todo \ {r},
                              !.gone = tx[x].gone \cup Deleted]
  OBVIOUS
<1>1. /\ LockTyped /\ TxOK(x) /\ tx[x] \in TxRecord
      /\ tx[x].kind \in Deleting /\ tx[x].script = DelRows /\ r \in tx[x].todo
      /\ r \in Scope(tx[x].kind) /\ r \in Token
      /\ rowLock[r] \in {x, None}
  <2>1. LockTyped /\ TxOK(x) /\ tx[x].kind \in Deleting /\ tx[x].script = DelRows
    BY Stages DEF LockInv, DeleteRow
  <2>2. r \in tx[x].todo /\ r \in Scope(tx[x].kind)
    BY <2>1 DEF TxOK, DeletesOK, DeleteRow
  <2>3. tx[x] \in TxRecord /\ r \in Token
    BY <2>1, <2>2, LockAssumption DEF LockTyped, Scope
  <2>4. rowLock[r] \in {x, None}
    BY <2>1, <2>3 DEF DeleteRow, RowBlockers, LockTyped
  <2> QED BY <2>1, <2>2, <2>3, <2>4
<1>2. Deleted \subseteq Token /\ Deleted \subseteq {r}
  BY <1>1
<1>3. /\ t \in TxRecord /\ t.script = DelRows /\ t.kind = tx[x].kind
      /\ t.old = tx[x].old /\ t.new = tx[x].new /\ t.want = None
      /\ t.todo = tx[x].todo \ {r} /\ t.used = tx[x].used
      /\ t.made = tx[x].made /\ t.gone = tx[x].gone \cup Deleted
  BY <1>1, <1>2 DEF TxRecord
<1>4. tx' = [tx EXCEPT ![x] = t]
  <2>1. CASE Stored(r)
    <3>1. tx' = [tx EXCEPT ![x].want = None, ![x].todo = @ \ {r}, ![x].gone = @ \cup {r}]
      BY <2>1 DEF DeleteRow
    <3>2. Deleted = {r}
      BY <2>1
    <3> QED BY <1>1, <3>1, <3>2 DEF LockTyped
  <2>2. CASE ~Stored(r)
    <3>1. tx' = [tx EXCEPT ![x].want = None, ![x].todo = @ \ {r}]
      BY <2>2 DEF DeleteRow
    <3>2. t = [tx[x] EXCEPT !.want = None, !.todo = tx[x].todo \ {r}]
      BY <2>2, <1>1 DEF TxRecord
    <3> QED BY <1>1, <3>1, <3>2 DEF LockTyped
  <2> QED BY <2>1, <2>2
<1>5. /\ tx' \in [Txn -> TxRecord] /\ tx'[x] = t
      /\ \A y \in Txn : y # x => tx'[y] = tx[y]
  BY <1>1, <1>3, <1>4 DEF LockTyped
<1>6. /\ rowLock' \in [Token -> Txn \cup {None}]
      /\ \A q \in Token : rowLock'[q] = IF q \in Deleted THEN x ELSE rowLock[q]
  BY <1>1 DEF DeleteRow, LockTyped
<1>7. UNCHANGED <<exists, row, userLock>>
  BY DEF DeleteRow
<1>8. LockTyped' /\ OnlyTx(x)
  BY <1>1, <1>2, <1>5, <1>6, <1>7 DEF LockTyped, OnlyTx
<1>9. TxOK(x)'
  <2>1. tx'[x].script \in Left(tx'[x].kind) /\ Held(tx'[x]) = Held(tx[x])
    BY <1>1, <1>3, <1>5, LeftIs, StagesDiffer DEF Held, Deleting
  <2>2. CreatesOK(x)'
    BY <1>1, <1>3, <1>5, <1>6, <1>7, StagesDiffer
    DEF TxOK, CreatesOK, Creating, Deleting
  <2>3. \A q \in Deleted : Stored(q)
    BY <1>2
  <2>4. DeletesOK(x)'
    <3>1. \A q \in t.gone :
            Stored(q)' /\ rowLock'[q] = x /\ q \in Scope(t.kind)
      <4>1. \A q \in tx[x].gone : Stored(q) /\ rowLock[q] = x /\ q \in Scope(tx[x].kind)
        BY <1>1 DEF TxOK, DeletesOK
      <4>2. \A q \in t.gone : Stored(q) /\ q \in Scope(t.kind)
        BY <1>1, <1>2, <1>3, <2>3, <4>1
      <4>3. t.gone \subseteq Token
        BY <1>3 DEF TxRecord
      <4>4. \A q \in t.gone : rowLock'[q] = x
        BY <1>3, <1>6, <4>1, <4>3
      <4> QED BY <1>7, <4>2, <4>4 DEF Stored
    <3>2. t.todo \subseteq Scope(t.kind)
      BY <1>1, <1>3 DEF TxOK, DeletesOK
    <3>3. \A q \in Scope(t.kind) : Stored(q) => q \in tx[x].todo \cup tx[x].gone
      BY <1>1, <1>3 DEF TxOK, DeletesOK
    <3>4. \A q \in Scope(t.kind) : Stored(q)' => q \in t.todo \cup t.gone
      BY <1>3, <1>7, <3>3 DEF Stored
    <3>5. t.kind \in Deleting /\ t.script # ToCommit
      BY <1>1, <1>3, StagesDiffer
    <3> QED BY <1>3, <1>5, <3>1, <3>2, <3>4, <3>5 DEF DeletesOK
  <2> QED BY <1>1, <1>7, <2>1, <2>2, <2>4 DEF TxOK
<1>10. \A y \in Txn : y # x => /\ ~Conflict(userLock'[x], userLock[y])
                               /\ tx'[x].new # None => tx[y].new # tx'[x].new
  BY <1>3, <1>5, <1>7 DEF LockInv, Exclusive
<1>11. \A q \in Token : rowLock'[q] = x => q \in tx'[x].used \cup tx'[x].gone
  BY <1>3, <1>5, <1>6 DEF LockInv, RowsLocked
<1> QED BY <1>7, <1>8, <1>9, <1>10, <1>11, OneStatement

LEMMA BeginInv ==
    ASSUME LockInv, NEW x \in Txn, NEW kind \in Kind, NEW old \in Token \cup {None},
           NEW new \in (Token \ Old) \cup {None}, Begin(x, kind, old, new)
    PROVE  LockInv'
<1> PICK t : t = [NoTx EXCEPT !.kind = kind, !.script = Script(kind),
                              !.old = old, !.new = new]
  OBVIOUS
<1>1. LockTyped /\ TxOK(x) /\ tx[x].kind = "none" /\ tx[x] \in TxRecord
  BY DEF LockInv, LockTyped, Begin, Open
<1>2. Script(kind) \in Left(kind) /\ Script(kind) \in {ToLock, ToInsert, DelLock, DelScan}
  BY WholeScripts, LeftIs DEF Kind
<1>3. /\ t \in TxRecord /\ t.script = Script(kind) /\ t.kind = kind
      /\ t.old = old /\ t.new = new /\ t.want = None
      /\ t.todo = {} /\ t.used = {} /\ t.made = {} /\ t.gone = {}
  BY <1>2, NoTxIs DEF TxRecord, Scripts
<1>4. /\ tx' \in [Txn -> TxRecord] /\ tx'[x] = t
      /\ \A y \in Txn : y # x => tx'[y] = tx[y]
  BY <1>1, <1>3 DEF Begin, LockTyped
<1>5. UNCHANGED <<exists, row, userLock, rowLock>>
  BY DEF Begin
<1>6. LockTyped' /\ OnlyTx(x)
  BY <1>1, <1>4, <1>5 DEF LockTyped, OnlyTx
<1>7. tx[x].script = <<>> /\ userLock[x] = "none" /\ tx[x].used = {} /\ tx[x].gone = {}
  <2>1. tx[x].script = <<>>
    BY <1>1, LeftIs DEF TxOK
  <2> QED BY <1>1, <2>1, StagesDiffer DEF TxOK, CreatesOK, DeletesOK, Held
<1>8. TxOK(x)'
  <2>1. Held(t) = "none"
    BY <1>3, WholeScripts, StagesDiffer DEF Held, Kind
  <2>2. /\ kind = "rotate" => old \in Token /\ row[old] # "free"
        /\ kind \in Creating => new \in Token \ Old /\ row[new] = "free"
        /\ kind \notin Creating => new = None
    BY DEF Begin, Creating
  <2>3. CreatesOK(x)'
    BY <1>2, <1>3, <1>4, <1>5, <2>2, StagesDiffer, WholeScripts
    DEF CreatesOK, Creating, Kind
  <2>4. DeletesOK(x)'
    BY <1>2, <1>3, <1>4, <1>5, StagesDiffer DEF DeletesOK
  <2> QED BY <1>2, <1>3, <1>4, <1>5, <1>7, <2>1, <2>3, <2>4 DEF TxOK
<1>9. \A y \in Txn : y # x => /\ ~Conflict(userLock'[x], userLock[y])
                              /\ tx'[x].new # None => tx[y].new # tx'[x].new
  <2>1. new # None => new \notin Reserved
    BY DEF Begin
  <2> QED BY <1>3, <1>4, <1>5, <1>7, <2>1 DEF Conflict, Reserved
<1>10. \A r \in Token : rowLock'[r] = x => r \in tx'[x].used \cup tx'[x].gone
  BY <1>5, <1>7 DEF LockInv, RowsLocked
<1> QED BY <1>5, <1>6, <1>8, <1>9, <1>10, OneStatement

-----------------------------------------------------------------------------
(* A commit, the one step after which others see another database.          *)

\* What x is about to commit.
LEMMA AtCommit ==
    ASSUME LockInv, NEW x \in Txn, At(x, "commit")
    PROVE  /\ tx[x].kind \in Kind /\ tx[x].script = ToCommit
           /\ tx[x].used = IF tx[x].kind = "rotate" THEN {tx[x].old} ELSE {}
           /\ tx[x].made = IF tx[x].kind \in Creating THEN {tx[x].new} ELSE {}
           /\ tx[x].kind = "rotate" => tx[x].old \in Token
           /\ tx[x].kind \in Creating => tx[x].new \in Token \ Old /\ row[tx[x].new] = "free"
           /\ \A r \in tx[x].used : row[r] = "unused" /\ rowLock[r] = x
           /\ tx[x].kind \notin Deleting => tx[x].gone = {}
           /\ tx[x].kind \in Deleting =>
                tx[x].gone = {r \in Scope(tx[x].kind) : Stored(r)}
           /\ \A r \in tx[x].gone : Stored(r) /\ rowLock[r] = x
           /\ userLock[x] = IF tx[x].kind = "login" THEN "keyShare"
                            ELSE IF tx[x].kind = "prune" THEN "none" ELSE "update"
           /\ tx[x].kind # "prune" => exists
<1>1. LockTyped /\ TxOK(x) /\ tx[x].kind \in Kind /\ tx[x].script = ToCommit
  BY Stages DEF LockInv
<1>2. CreatesOK(x) /\ DeletesOK(x)
  BY <1>1 DEF TxOK
<1>3. userLock[x] = IF tx[x].kind = "login" THEN "keyShare"
                    ELSE IF tx[x].kind = "prune" THEN "none" ELSE "update"
  BY <1>1, StagesDiffer DEF TxOK, Held, Kind
<1>4. tx[x].kind # "prune" => exists
  BY <1>1, <1>3 DEF TxOK
<1>5. /\ tx[x].used = IF tx[x].kind = "rotate" THEN {tx[x].old} ELSE {}
      /\ tx[x].made = IF tx[x].kind \in Creating THEN {tx[x].new} ELSE {}
      /\ tx[x].kind = "rotate" => tx[x].old \in Token
      /\ tx[x].kind \in Creating => tx[x].new \in Token \ Old /\ row[tx[x].new] = "free"
      /\ \A r \in tx[x].used : row[r] = "unused" /\ rowLock[r] = x
  BY <1>1, <1>2 DEF CreatesOK
<1>6. /\ tx[x].kind \notin Deleting => tx[x].gone = {}
      /\ \A r \in tx[x].gone : Stored(r) /\ rowLock[r] = x /\ r \in Scope(tx[x].kind)
      /\ tx[x].kind \in Deleting =>
           \A r \in Scope(tx[x].kind) : Stored(r) => r \in tx[x].gone
  BY <1>1, <1>2 DEF DeletesOK
<1>7. tx[x].kind \in Deleting => tx[x].gone = {r \in Scope(tx[x].kind) : Stored(r)}
  BY <1>6
<1> QED BY <1>1, <1>3, <1>4, <1>5, <1>6, <1>7

LEMMA CommitInv ==
    ASSUME LockInv, NEW x \in Txn, Commit(x)
    PROVE  LockInv'
<1> DEFINE t == tx[x]
<1>1. /\ At(x, "commit") /\ Rollback(x)
      /\ exists' = (exists /\ t.kind # "deleteUser")
      /\ \A r \in Token :
           row'[r] = IF r \in t.gone THEN "gone" ELSE IF r \in t.used THEN "used"
                     ELSE IF r \in t.made THEN "unused" ELSE row[r]
  BY DEF Commit
<1>2. row' \in [Token -> {"free", "unused", "used", "gone"}]
  BY DEF Commit, LockInv, LockTyped
<1>9. /\ \A r \in t.made : /\ r = t.new /\ r \in Token /\ r \notin Old /\ row[r] = "free"
                           /\ t.kind \in Creating
      /\ \A r \in t.used : row[r] = "unused" /\ rowLock[r] = x
      /\ \A r \in t.gone : Stored(r) /\ rowLock[r] = x
      /\ t.kind \in Creating => userLock[x] # "none"
  <2>1. /\ t.made = IF t.kind \in Creating THEN {t.new} ELSE {}
        /\ t.kind \in Creating => t.new \in Token \ Old /\ row[t.new] = "free"
        /\ \A r \in t.used : row[r] = "unused" /\ rowLock[r] = x
        /\ \A r \in t.gone : Stored(r) /\ rowLock[r] = x
    BY <1>1, AtCommit
  <2>2. t.kind \in Creating => userLock[x] # "none"
    BY <1>1, AtCommit DEF Creating
  <2>3. ASSUME NEW r \in t.made
        PROVE  /\ r = t.new /\ r \in Token /\ r \notin Old /\ row[r] = "free"
               /\ t.kind \in Creating
    <3>1. t.kind \in Creating
      BY <2>1
    <3> QED BY <2>1, <3>1
  <2> QED BY <2>1, <2>2, <2>3
<1>3. exists' \in BOOLEAN /\ (exists' => exists)
  BY <1>1 DEF LockInv, LockTyped
<1>4. LockTyped'
  BY <1>2, <1>3, <1>1, RolledBack DEF LockTyped
<1>5. ASSUME NEW y \in Txn, y # x PROVE TxOK(y)'
  <2>1. /\ TxOK(y) /\ tx'[y] = tx[y] /\ userLock'[y] = userLock[y] /\ tx[y] \in TxRecord
        /\ CreatesOK(y) /\ DeletesOK(y) /\ y # None
        /\ ~Conflict(userLock[x], userLock[y])
        /\ tx[x].new # None => tx[x].new # tx[y].new
    BY <1>1, <1>5, RolledBack, LockAssumption DEF LockInv, LockTyped, TxOK, Exclusive
  <2>2. \A r \in Token : rowLock[r] = y => rowLock'[r] = y
    BY <1>1, <1>5, RolledBack
  <2>3. tx[y].used \subseteq Token /\ tx[y].gone \subseteq Token
    BY <2>1 DEF TxRecord
  <2>4. userLock[y] # "none" => exists'
    BY <1>1, <2>1, AtCommit DEF TxOK, Conflict
  <2>5. \A r \in Token : rowLock[r] = y /\ row[r] # "free" => row'[r] = row[r]
    BY <1>1, <1>9, <1>5
  <2>6. \A r \in Token : row[r] # "free" => row'[r] # "free"
    BY <1>1
  <2>7. \A r \in Token : row[r] = "free" /\ r = tx[y].new => row'[r] = "free"
    <3>1. \A r \in t.made : t.new # None
      BY <1>9, LockAssumption
    <3> QED BY <1>1, <1>9, <2>1, <3>1 DEF Stored
  <2>8. CreatesOK(y)'
    BY <2>1, <2>2, <2>3, <2>5, <2>6, <2>7 DEF CreatesOK
  <2>9. ASSUME tx[y].kind \in Deleting, tx[y].script \in {DelRows, ToCommit},
               NEW r \in Scope(tx[y].kind), Stored(r)'
        PROVE  Stored(r)
    <3>1. r \in Token
      BY LockAssumption DEF Scope
    <3>2. Stored(r) \/ r \in t.made
      BY <1>1, <1>9, <2>9, <3>1 DEF Stored
    <3>3. ASSUME r \in t.made PROVE FALSE
      <4>1. t.kind \in Creating /\ r \notin Old /\ userLock[x] # "none"
        BY <1>9, <3>3
      <4>2. tx[y].kind # "prune"
        BY <4>1 DEF Scope
      <4>3. userLock[y] = "update"
        BY <2>1, <2>9, <4>2, StagesDiffer DEF TxOK, Held, Deleting
      <4> QED BY <2>1, <4>1, <4>3 DEF Conflict
    <3> QED BY <3>2, <3>3
  <2>10. \A r \in tx[y].gone : Stored(r)' /\ rowLock'[r] = y
    BY <2>1, <2>2, <2>3, <2>5 DEF DeletesOK, Stored
  <2>11. DeletesOK(y)'
    <3>1. tx[y].script = DelRows => tx[y].kind \in Deleting
      BY <2>1, LeftIs, StagesDiffer DEF TxOK, TxRecord, Deleting, Kind
    <3> QED BY <2>1, <2>9, <2>10, <3>1 DEF DeletesOK
  <2> QED BY <2>1, <2>4, <2>8, <2>11 DEF TxOK
<1>6. TxOK(x)'
  BY <1>1, RolledBack
<1>7. Exclusive'
  BY <1>1, RolledBack, NoTxIs DEF LockInv, Exclusive, Conflict
<1>8. RowsLocked'
  <2> SUFFICES ASSUME NEW r \in Token, NEW y \in Txn, rowLock'[r] = y
               PROVE  r \in tx'[y].used \cup tx'[y].gone
    BY DEF RowsLocked
  <2>1. y # None /\ y # x /\ rowLock[r] = y
    BY <1>1, RolledBack, LockAssumption
  <2> QED BY <1>1, <2>1, RolledBack DEF LockInv, RowsLocked
<1> QED BY <1>4, <1>5, <1>6, <1>7, <1>8 DEF LockInv

-----------------------------------------------------------------------------
(* The invariant, and what follows from it.                                 *)

LEMMA LockInit == Init => LockInv
<1> SUFFICES ASSUME Init PROVE LockInv
  OBVIOUS
<1>1. LockTyped
  BY NoTxIs DEF Init, LockTyped, Mode
<1>2. \A x \in Txn : tx[x] = NoTx /\ userLock[x] = "none"
  BY DEF Init
<1>3. ASSUME NEW x \in Txn PROVE TxOK(x)
  <2>1. CreatesOK(x)
    BY <1>2, NoTxIs DEF CreatesOK, Creating
  <2>2. DeletesOK(x)
    BY <1>2, NoTxIs, StagesDiffer DEF DeletesOK, Deleting
  <2> QED BY <1>2, <2>1, <2>2, NoTxIs, LeftIs DEF TxOK, Held
<1>4. Exclusive
  BY <1>2, NoTxIs DEF Exclusive, Conflict
<1>5. RowsLocked
  BY LockAssumption DEF Init, RowsLocked
<1> QED BY <1>1, <1>3, <1>4, <1>5 DEF LockInv

LEMMA LockStep == LockInv /\ [Next]_vars => LockInv'
<1> SUFFICES ASSUME LockInv, [Next]_vars PROVE LockInv'
  OBVIOUS
<1>1. ASSUME NEW x \in Txn, NEW kind \in Kind, NEW old \in Token \cup {None},
             NEW new \in (Token \ Old) \cup {None}, Begin(x, kind, old, new)
      PROVE  LockInv'
  BY <1>1, BeginInv
<1>2. ASSUME NEW x \in Txn, LockUser(x) PROVE LockInv'
  BY <1>2, LockUserInv
<1>3. ASSUME NEW x \in Txn, NothingToDo(x) PROVE LockInv'
  BY <1>3, RollbackInv DEF NothingToDo
<1>4. ASSUME NEW x \in Txn, MarkRefreshTokenUsed(x) PROVE LockInv'
  BY <1>4, MarkInv
<1>5. ASSUME NEW x \in Txn, CreateRefreshToken(x) PROVE LockInv'
  BY <1>5, CreateInv
<1>6. ASSUME NEW x \in Txn, Scan(x) PROVE LockInv'
  BY <1>6, ScanInv
<1>7. ASSUME NEW x \in Txn, NEW r \in Token, WantRow(x, r) PROVE LockInv'
  BY <1>7, WantRowInv
<1>8. ASSUME NEW x \in Txn, DeleteRow(x) PROVE LockInv'
  BY <1>8, DeleteRowInv
<1>9. ASSUME NEW x \in Txn, DeleteDone(x) PROVE LockInv'
  BY <1>9, DeleteDoneInv
<1>10. ASSUME NEW x \in Txn, Commit(x) PROVE LockInv'
  BY <1>10, CommitInv
<1>11. ASSUME NEW x \in Txn, Abort(x) PROVE LockInv'
  BY <1>11, RollbackInv DEF Abort
<1>12. CASE UNCHANGED vars
  <2>1. UNCHANGED <<exists, row, userLock, rowLock, tx>>
    BY <1>12 DEF vars
  <2>2. LockTyped' /\ Exclusive' /\ RowsLocked'
    BY <2>1 DEF LockInv, LockTyped, Exclusive, RowsLocked
  <2>3. ASSUME NEW x \in Txn PROVE TxOK(x)'
    <3>1. TxOK(x) /\ tx'[x] = tx[x]
      BY <2>1 DEF LockInv
    <3>2. CreatesOK(x)'
      BY <2>1, <3>1 DEF TxOK, CreatesOK
    <3>3. DeletesOK(x)'
      BY <2>1, <3>1 DEF TxOK, DeletesOK, Stored
    <3> QED BY <2>1, <3>1, <3>2, <3>3 DEF TxOK
  <2> QED BY <2>2, <2>3 DEF LockInv
<1> QED BY <1>1, <1>2, <1>3, <1>4, <1>5, <1>6, <1>7, <1>8, <1>9, <1>10, <1>11, <1>12
        DEF Next

\* Every transaction holds what it has locked and nothing more, has written what
\* its statements so far write, and sees under its locks what it saw before.
THEOREM LockInvariant == Spec => []LockInv
<1>1. Init => LockInv
  BY LockInit
<1>2. LockInv /\ [Next]_vars => LockInv'
  BY LockStep
<1> QED BY <1>1, <1>2, PTL DEF Spec

\* The state keeps its types, and a transaction that is over holds no lock.
THEOREM LockTypeCorrect == Spec => []TypeOK
<1>1. LockInv => TypeOK
  <2> SUFFICES ASSUME LockInv PROVE TypeOK
    OBVIOUS
  <2>1. LockTyped
    BY DEF LockInv
  <2>2. ASSUME NEW x \in Txn
        PROVE  /\ tx[x].kind \in Kind \cup {"none"}
               /\ {tx[x].old, tx[x].new, tx[x].want} \subseteq Token \cup {None}
               /\ tx[x].todo \cup tx[x].used \cup tx[x].made \cup tx[x].gone \subseteq Token
    <3>1. tx[x] \in TxRecord
      BY <2>1 DEF LockTyped
    <3> QED BY <3>1 DEF TxRecord
  <2>3. ASSUME NEW x \in Txn, ~Open(x)
        PROVE  userLock[x] = "none" /\ \A r \in Token : rowLock[r] # x
    <3>1. TxOK(x) /\ tx[x].kind = "none" /\ tx[x].script = <<>>
      BY <2>3, LeftIs DEF LockInv, TxOK, Open
    <3>2. tx[x].used = {} /\ tx[x].gone = {}
      BY <3>1, StagesDiffer DEF TxOK, CreatesOK, DeletesOK
    <3>3. userLock[x] = "none"
      BY <3>1 DEF TxOK, Held
    <3> QED BY <3>2, <3>3 DEF LockInv, RowsLocked
  <2> QED BY <2>1, <2>2, <2>3 DEF TypeOK, LockTyped
<1> QED BY <1>1, LockInvariant, PTL

\* Whoever keeps x waiting, the pruner aside, has a lock on the user's row, and
\* the strong one once x has its own.
LEMMA Waits ==
    ASSUME LockInv, NEW x \in Txn, NEW y \in Txn, y \in WaitsFor(x), Open(y),
           tx[y].kind # "prune"
    PROVE  /\ y # x /\ ~At(x, "commit") /\ userLock[y] # "none"
           /\ userLock[x] = "update" => userLock[y] = "update"
<1>1. /\ LockTyped /\ TxOK(x) /\ TxOK(y) /\ tx[x] \in TxRecord /\ tx[y] \in TxRecord
      /\ CreatesOK(x) /\ CreatesOK(y) /\ DeletesOK(y)
  BY DEF LockInv, LockTyped, TxOK
<1>2. ASSUME NEW r \in Token, y \in RowBlockers(x, r)
      PROVE  y # x /\ userLock[y] = "update"
  <2>1. y # x /\ rowLock[r] = y
    BY <1>2 DEF RowBlockers
  <2>2. r \in tx[y].used \cup tx[y].gone
    BY <2>1 DEF LockInv, RowsLocked
  <2>3. CASE r \in tx[y].used
    <3>1. tx[y].kind = "rotate" /\ tx[y].script \in {ToInsert, ToCommit}
      BY <1>1, <2>3 DEF CreatesOK
    <3> QED BY <1>1, <2>1, <3>1, StagesDiffer DEF TxOK, Held
  <2>4. CASE r \in tx[y].gone
    <3>1. tx[y].kind \in {"revoke", "deleteUser"} /\ tx[y].script \in {DelRows, ToCommit}
      BY <1>1, <2>4 DEF DeletesOK, Deleting
    <3> QED BY <1>1, <2>1, <3>1, StagesDiffer DEF TxOK, Held
  <2> QED BY <2>2, <2>3, <2>4
<1>3. \A m \in Mode : y \in UserBlockers(x, m) =>
        y # x /\ userLock[y] # "none" /\ (m # "update" => userLock[y] = "update")
  BY <1>1 DEF UserBlockers, Conflict, LockTyped, Mode
<1>4. \/ At(x, "lock") /\ y \in UserBlockers(x, "update")
      \/ At(x, "mark") /\ y \in RowBlockers(x, tx[x].old)
      \/ At(x, "insert") /\ y \in UserBlockers(x, "keyShare")
      \/ At(x, "delete") /\ tx[x].want # None /\ y \in RowBlockers(x, tx[x].want)
  BY DEF WaitsFor
<1>5. ~At(x, "commit")
  BY <1>4 DEF At
<1>6. CASE At(x, "lock") /\ y \in UserBlockers(x, "update")
  <2>1. userLock[x] # "update"
    BY <1>1, <1>6, Stages DEF TxOK, Held
  <2> QED BY <1>3, <1>5, <1>6, <2>1 DEF Mode
<1>7. CASE At(x, "mark") /\ y \in RowBlockers(x, tx[x].old)
  <2>1. tx[x].old \in Token
    BY <1>1, <1>7, Stages DEF CreatesOK
  <2> QED BY <1>2, <1>5, <1>7, <2>1
<1>8. CASE At(x, "insert") /\ y \in UserBlockers(x, "keyShare")
  BY <1>3, <1>5, <1>8 DEF Mode
<1>9. CASE At(x, "delete") /\ tx[x].want # None /\ y \in RowBlockers(x, tx[x].want)
  <2>1. tx[x].want \in Token
    BY <1>1, <1>9 DEF TxRecord
  <2> QED BY <1>2, <1>5, <1>9, <2>1
<1> QED BY <1>4, <1>6, <1>7, <1>8, <1>9

\* Rotations, revocations, logins and deletions of one user never wait for each
\* other in a circle: if one of them has the user's row FOR UPDATE nothing keeps
\* it waiting, and a login that has it FOR KEY SHARE only has its commit left.
THEOREM RotationsDoNotDeadlock == Spec => []NoDeadlock
<1>1. LockInv => NoDeadlock
  <2> SUFFICES ASSUME LockInv,
                      NEW S \in SUBSET {x \in Txn : Open(x) /\ tx[x].kind # "prune"},
                      S # {}
               PROVE  \E x \in S : WaitsFor(x) \cap S = {}
    BY DEF NoDeadlock
  <2>1. \A x \in S : x \in Txn /\ Open(x) /\ tx[x].kind # "prune"
    OBVIOUS
  <2>2. \A x, y \in S : y \in WaitsFor(x) =>
          /\ y # x /\ ~At(x, "commit") /\ userLock[y] # "none"
          /\ userLock[x] = "update" => userLock[y] = "update"
    BY <2>1, Waits
  <2>3. \A x \in S : userLock[x] \in Mode
    BY <2>1 DEF LockInv, LockTyped
  <2>4. CASE \E x \in S : userLock[x] = "update"
    <3>1. PICK x \in S : userLock[x] = "update"
      BY <2>4
    <3>2. \A y \in S : y # x => userLock[y] = "none"
      BY <2>1, <2>3, <3>1 DEF LockInv, Exclusive, Conflict, Mode
    <3> QED BY <2>2, <3>1, <3>2
  <2>5. CASE \E x \in S : userLock[x] = "keyShare"
    <3>1. PICK x \in S : userLock[x] = "keyShare"
      BY <2>5
    <3>2. TxOK(x) /\ Open(x)
      BY <2>1 DEF LockInv
    <3>3. tx[x].script = ToCommit
      BY <3>1, <3>2 DEF TxOK, Held
    <3>4. At(x, "commit")
      BY <3>2, <3>3, HeadsOfScripts DEF At
    <3> QED BY <2>2, <3>4
  <2>6. CASE \A x \in S : userLock[x] = "none"
    BY <2>2, <2>6
  <2> QED BY <2>3, <2>4, <2>5, <2>6 DEF Mode
<1> QED BY <1>1, LockInvariant, PTL

-----------------------------------------------------------------------------
(* The table of refresh tokens, seen from outside the transactions.         *)

LEMMA CommitIsOneStep ==
    ASSUME LockInv, NEW x \in Txn, Commit(x)
    PROVE  Table!Next
<1> DEFINE t == tx[x]
<1>1. /\ At(x, "commit")
      /\ exists' = (exists /\ t.kind # "deleteUser")
      /\ row' = [r \in Token |-> IF r \in t.gone THEN "gone"
                                 ELSE IF r \in t.used THEN "used"
                                 ELSE IF r \in t.made THEN "unused" ELSE row[r]]
  BY DEF Commit
<1>2. /\ row \in [Token -> {"free", "unused", "used", "gone"}] /\ exists \in BOOLEAN
      /\ t.kind \in Kind
  BY <1>1, AtCommit DEF LockInv, LockTyped
<1>3. CASE t.kind = "rotate"
  <2>1. /\ t.used = {t.old} /\ t.made = {t.new} /\ t.gone = {}
        /\ t.old \in Token /\ t.new \in Token /\ exists
        /\ row[t.old] = "unused" /\ row[t.new] = "free"
    <3>1. /\ t.used = {t.old} /\ t.gone = {} /\ t.old \in Token /\ exists
          /\ \A r \in t.used : row[r] = "unused"
      BY <1>1, <1>3, AtCommit DEF Deleting
    <3>2. t.made = {t.new} /\ t.new \in Token \ Old /\ row[t.new] = "free"
      BY <1>1, <1>3, AtCommit DEF Creating
    <3> QED BY <3>1, <3>2
  <2>2. row' = [row EXCEPT ![t.old] = "used", ![t.new] = "unused"]
    BY <1>1, <1>2, <2>1
  <2>3. Table!Rotate(t.old, t.new)
    BY <1>1, <1>3, <2>1, <2>2 DEF Table!Rotate
  <2> QED BY <2>1, <2>3 DEF Table!Next
<1>4. CASE t.kind = "login"
  <2>1. /\ t.used = {} /\ t.made = {t.new} /\ t.gone = {}
        /\ t.new \in Token /\ exists /\ row[t.new] = "free"
    BY <1>1, <1>4, AtCommit DEF Creating, Deleting
  <2>2. row' = [row EXCEPT ![t.new] = "unused"]
    BY <1>1, <1>2, <2>1
  <2>3. Table!Create(t.new)
    BY <1>1, <1>4, <2>1, <2>2 DEF Table!Create
  <2> QED BY <2>1, <2>3 DEF Table!Next
<1>5. ASSUME t.kind \in Deleting
      PROVE  row' = [r \in Token |-> IF r \in Scope(t.kind) /\ Stored(r) THEN "gone"
                                     ELSE row[r]]
  <2>1. t.used = {} /\ t.made = {} /\ t.gone = {r \in Scope(t.kind) : Stored(r)}
    BY <1>1, <1>5, AtCommit DEF Creating, Deleting
  <2> QED BY <1>1, <2>1
<1>6. CASE t.kind = "revoke"
  <2>1. row' = Table!Without(Token)
    BY <1>5, <1>6 DEF Deleting, Scope, Table!Without, Stored, Table!Stored
  <2> QED BY <1>1, <1>2, <1>6, <2>1 DEF Table!Revoke, Table!Next
<1>7. CASE t.kind = "deleteUser"
  <2>1. row' = Table!Without(Token)
    BY <1>5, <1>7 DEF Deleting, Scope, Table!Without, Stored, Table!Stored
  <2>2. exists
    BY <1>1, <1>7, AtCommit
  <2> QED BY <1>1, <1>7, <2>1, <2>2 DEF Table!DeleteUser, Table!Next
<1>8. CASE t.kind = "prune"
  <2>1. row' = Table!Without(Old)
    BY <1>5, <1>8 DEF Deleting, Scope, Table!Without, Stored, Table!Stored
  <2> QED BY <1>1, <1>2, <1>8, <2>1 DEF Table!Prune, Table!Next
<1> QED BY <1>2, <1>3, <1>4, <1>6, <1>7, <1>8 DEF Kind

\* Statement by statement, the transactions do what TokenTable, and with it
\* RefreshTokens, takes them to do at once: a commit is one of its steps, and
\* no other statement shows.
THEOREM TransactionsAreAtomic == Spec => ImplementsTable
<1>1. Init => Table!Init
  BY DEF Init, Table!Init
<1>2. LockInv /\ [Next]_vars => [Table!Next]_(Table!vars)
  <2> SUFFICES ASSUME LockInv, [Next]_vars
               PROVE  Table!Next \/ UNCHANGED <<exists, row>>
    BY DEF Table!vars
  <2>1. CASE \E x \in Txn : Commit(x)
    BY <2>1, CommitIsOneStep
  <2>2. CASE UNCHANGED vars
    BY <2>2 DEF vars
  <2>3. CASE Next /\ ~\E x \in Txn : Commit(x)
    BY <2>3 DEF Next, Begin, LockUser, NothingToDo, MarkRefreshTokenUsed,
                CreateRefreshToken, Scan, WantRow, DeleteRow, DeleteDone, Abort
  <2> QED BY <2>1, <2>2, <2>3
<1> QED BY <1>1, <1>2, LockInvariant, PTL DEF Spec, ImplementsTable, Table!Spec
=============================================================================
