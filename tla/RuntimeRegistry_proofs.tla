----------------------- MODULE RuntimeRegistry_proofs -----------------------
(***************************************************************************)
(* For any set of processes, takeovers and mishaps: the table              *)
(* agent_runtimes stays well typed, its status agrees with its shutdown    *)
(* mark, and no two transactions replace the same runtime.                 *)
(***************************************************************************)
EXTENDS RuntimeRegistry, TLAPS

USE RegistryAssumption

\* A row that was never inserted carries nothing, and a transaction sees a
\* shutdown mark only in a row that exists.
Unregistered ==
    \A r \in Runtimes : ~rows[r].known =>
        /\ rows[r] = NoRow
        /\ ~txn[r].condemned
        /\ \A x \in Runtimes : r \notin txn[x].marks

IInv == TypeOK /\ StatusAgrees /\ OneReplacer /\ Unregistered

----------------------------------------------------------------------------
LEMMA NoTxnType == NoTxn \in Txns
BY DEF NoTxn, Txns

LEMMA NoRowType == NoRow \in Rows
BY DEF NoRow, Rows

\* Every field of a transaction may be set to a value of its type.
LEMMA TxnUpdates ==
    ASSUME NEW t \in Txns
    PROVE  /\ [t EXCEPT !.awaited = FALSE] \in Txns
           /\ \A s \in {"replace", "self"} : [t EXCEPT !.stage = s] \in Txns
           /\ \A m \in SUBSET Runtimes : [t EXCEPT !.stage = "self", !.marks = m] \in Txns
           /\ \A c \in BOOLEAN : [t EXCEPT !.stage = "upsert", !.condemned = c] \in Txns
BY DEF Txns

LEMMA RowUpdates ==
    ASSUME NEW w \in Rows
    PROVE  /\ [w EXCEPT !.fresh = FALSE] \in Rows
           /\ [w EXCEPT !.fresh = TRUE] \in Rows
           /\ [w EXCEPT !.status = "shutdown", !.requested = TRUE] \in Rows
BY DEF Rows

LEMMA RowMark ==
    ASSUME NEW w \in Rows
    PROVE  LET m == [w EXCEPT !.status = "shutdown", !.requested = TRUE]
           IN  m.requested = TRUE /\ m.status = "shutdown" /\ m.known = w.known
BY DEF Rows

LEMMA InitInv == Init => IInv
<1> SUFFICES ASSUME Init PROVE IInv
  OBVIOUS
<1>1. TypeOK
  <2>1. txn \in [Runtimes -> Txns] /\ rows \in [Runtimes -> Rows]
    BY NoTxnType, NoRowType DEF Init
  <2>2. \A r \in Runtimes : ~txn[r].awaited
    BY DEF Init, NoTxn
  <2>3. QED
    BY <2>1, <2>2 DEF Init, TypeOK
<1>2. StatusAgrees
  BY DEF Init, StatusAgrees, NoRow
<1>3. OneReplacer /\ Unregistered
  BY DEF Init, OneReplacer, Unregistered, NoTxn, NoRow
<1>4. QED
  BY <1>1, <1>2, <1>3 DEF IInv

\* Ending a transaction: its marks go, its runtime learns the answer.
LEMMA FinishKeeps ==
    ASSUME TypeOK, OneReplacer, NEW r \in Runtimes,
           NEW answer \in {"continue", "reject", "shutdown", "error"}, Finish(r, answer)
    PROVE  /\ agent' \in [Runtimes ->
                {"new", "sleep", "hello", "ready", "append", "stopped", "crashed"}]
           /\ txn' \in [Runtimes -> Txns]
           /\ txn'[r] = NoTxn
           /\ \A x \in Runtimes \ {r} : txn'[x] = txn[x] /\ agent'[x] = agent[x]
           /\ OneReplacer'
           /\ \A x \in Runtimes : txn'[x].awaited => agent'[x] \in {"hello", "append"}
<1>1. /\ txn' \in [Runtimes -> Txns] /\ txn'[r] = NoTxn
      /\ \A x \in Runtimes \ {r} : txn'[x] = txn[x]
  BY NoTxnType DEF Finish, TypeOK
<1>2. Answered(agent[r], answer) \in
          {"new", "sleep", "hello", "ready", "append", "stopped", "crashed"}
  BY DEF Answered
<1>3. agent' \in [Runtimes ->
          {"new", "sleep", "hello", "ready", "append", "stopped", "crashed"}]
  BY <1>2 DEF Finish, TypeOK
<1>4. \A x \in Runtimes \ {r} : agent'[x] = agent[x]
  BY DEF Finish, TypeOK
<1>5. OneReplacer'
  BY <1>1 DEF OneReplacer, NoTxn
<1>6. \A x \in Runtimes : txn'[x].awaited => agent'[x] \in {"hello", "append"}
  BY <1>1, <1>4 DEF TypeOK, NoTxn
<1>7. QED
  BY <1>1, <1>3, <1>4, <1>5, <1>6

LEMMA Counted == ASSUME TypeOK, Mishap PROVE mishaps' \in 0..MaxMishaps
BY DEF TypeOK, Mishap

----------------------------------------------------------------------------
LEMMA InvStep == IInv /\ [Next]_vars => IInv'
<1> SUFFICES ASSUME IInv, [Next]_vars PROVE IInv'
  OBVIOUS
<1> USE DEF IInv
<1>a. ASSUME NEW r \in Runtimes, Start(r) \/ Rest(r) PROVE IInv'
  <2>1. /\ agent' = [agent EXCEPT ![r] = "sleep"]
        /\ agent[r] \in {"new", "ready"}
        /\ UNCHANGED <<txn, rows, mishaps>>
    BY <1>a DEF Start, Rest
  <2>2. TypeOK'
    BY <2>1 DEF TypeOK
  <2>3. QED
    BY <2>1, <2>2 DEF StatusAgrees, OneReplacer, Unregistered
<1>b. ASSUME NEW r \in Runtimes, Hello(r) \/ Append(r) PROVE IInv'
  <2>1. ASSUME NEW from, NEW to \in {"hello", "append"}, NEW takeover \in BOOLEAN,
               Call(r, from, to, takeover)
        PROVE  IInv'
    <3> DEFINE new == [NoTxn EXCEPT !.stage = "select", !.takeover = takeover,
                                    !.awaited = TRUE]
    <3>1. /\ agent' = [agent EXCEPT ![r] = to]
          /\ txn' = [txn EXCEPT ![r] = new]
          /\ UNCHANGED <<rows, mishaps>>
      BY <2>1 DEF Call
    <3>2. new \in Txns /\ new.marks = {} /\ ~new.condemned
      BY DEF NoTxn, Txns
    <3> HIDE DEF new
    <3>3. /\ txn' \in [Runtimes -> Txns]
          /\ txn'[r].marks = {} /\ ~txn'[r].condemned
          /\ \A x \in Runtimes \ {r} : txn'[x] = txn[x]
      BY <3>1, <3>2 DEF TypeOK
    <3>4. TypeOK'
      BY <3>1, <3>3 DEF TypeOK
    <3>5. OneReplacer' /\ Unregistered'
      BY <3>1, <3>3 DEF OneReplacer, Unregistered
    <3>6. QED
      BY <3>1, <3>4, <3>5 DEF StatusAgrees
  <2>2. CASE Hello(r)
    <3>1. (r \in Takeovers) \in BOOLEAN
      OBVIOUS
    <3>2. QED
      BY <2>1, <2>2, <3>1 DEF Hello
  <2>3. CASE Append(r)
    BY <2>1, <2>3 DEF Append
  <2>4. QED
    BY <1>b, <2>2, <2>3
<1>c. ASSUME NEW r \in Runtimes, GiveUp(r) \/ Crash(r) PROVE IInv'
  <2>1. PICK to \in {"sleep", "ready", "crashed"} :
           /\ agent' = [agent EXCEPT ![r] = to]
           /\ txn' = [txn EXCEPT ![r].awaited = FALSE]
           /\ mishaps' \in 0..MaxMishaps
           /\ UNCHANGED rows
    BY <1>c, Counted DEF GiveUp, Crash
  <2>2. [txn[r] EXCEPT !.awaited = FALSE] \in Txns
    BY TxnUpdates DEF TypeOK
  <2>3. /\ txn' \in [Runtimes -> Txns]
        /\ \A x \in Runtimes : txn'[x].marks = txn[x].marks
        /\ \A x \in Runtimes : txn'[x].condemned = txn[x].condemned
        /\ \A x \in Runtimes : txn'[x].awaited => x # r /\ txn[x].awaited
    BY <2>1, <2>2 DEF TypeOK, Txns
  <2>4. TypeOK'
    BY <2>1, <2>3 DEF TypeOK
  <2>5. QED
    BY <2>1, <2>3, <2>4 DEF StatusAgrees, OneReplacer, Unregistered
<1>d. ASSUME NEW r \in Runtimes, Age(r) PROVE IInv'
  <2>1. /\ rows[r].fresh /\ rows' = [rows EXCEPT ![r].fresh = FALSE]
        /\ mishaps' \in 0..MaxMishaps
        /\ UNCHANGED <<agent, txn>>
    BY <1>d, Counted DEF Age, TypeOK
  <2>2. [rows[r] EXCEPT !.fresh = FALSE] \in Rows
    BY RowUpdates DEF TypeOK
  <2>3. rows' \in [Runtimes -> Rows]
    BY <2>1, <2>2 DEF TypeOK
  <2>4. TypeOK'
    BY <2>1, <2>3 DEF TypeOK
  <2>5. \A x \in Runtimes : /\ rows'[x].requested = rows[x].requested
                            /\ rows'[x].status = rows[x].status
                            /\ rows'[x].known = rows[x].known
                            /\ rows'[x] = rows[x] \/ rows[x].fresh
    BY <2>1 DEF TypeOK, Rows
  <2>6. StatusAgrees'
    BY <2>5 DEF StatusAgrees
  <2>7. \A x \in Runtimes : rows[x].fresh => rows[x] # NoRow
    BY DEF NoRow
  <2>8. Unregistered'
    BY <2>1, <2>5, <2>7 DEF Unregistered
  <2>9. QED
    BY <2>1, <2>4, <2>6, <2>8 DEF OneReplacer
<1>e. ASSUME NEW r \in Runtimes, SelectActive(r) PROVE IInv'
  <2>1. UNCHANGED <<rows, mishaps>>
    BY <1>e DEF SelectActive
  <2>2. CASE Finish(r, "reject")
    <3>1. TypeOK' /\ OneReplacer'
      BY <2>1, <2>2, FinishKeeps DEF TypeOK
    <3>2. \A x \in Runtimes : txn'[x] = NoTxn \/ txn'[x] = txn[x]
      BY <2>2, FinishKeeps
    <3>3. QED
      BY <2>1, <3>1, <3>2 DEF StatusAgrees, Unregistered, NoTxn
  <2>3. CASE ~Finish(r, "reject")
    <3>1. PICK stage \in {"replace", "self"} :
             txn' = [txn EXCEPT ![r].stage = stage] /\ UNCHANGED agent
      BY <1>e, <2>3 DEF SelectActive
    <3>2. [txn[r] EXCEPT !.stage = stage] \in Txns
      BY DEF TypeOK, Txns
    <3>3. /\ txn' \in [Runtimes -> Txns]
          /\ \A x \in Runtimes : /\ txn'[x].marks = txn[x].marks
                                 /\ txn'[x].condemned = txn[x].condemned
                                 /\ txn'[x].awaited = txn[x].awaited
      BY <3>1, <3>2 DEF TypeOK, Txns
    <3>4. TypeOK'
      BY <2>1, <3>1, <3>3 DEF TypeOK
    <3>5. QED
      BY <2>1, <3>3, <3>4 DEF StatusAgrees, OneReplacer, Unregistered
  <2>4. QED
    BY <2>2, <2>3
<1>f. ASSUME NEW r \in Runtimes, Replace(r) PROVE IInv'
  <2> DEFINE others == {o \in Runtimes \ {r} : Open(o)}
  <2>1. /\ \A o \in others : ~Locked(o, r)
        /\ txn' = [txn EXCEPT ![r].stage = "self", ![r].marks = others]
        /\ UNCHANGED <<agent, rows, mishaps>>
    BY <1>f DEF Replace
  <2>2. \A o \in others : o \in Runtimes /\ rows[o].known
    BY DEF Open
  <2> HIDE DEF others
  <2>3. /\ txn' \in [Runtimes -> Txns]
        /\ txn'[r].marks = others
        /\ \A x \in Runtimes \ {r} : txn'[x] = txn[x]
        /\ \A x \in Runtimes : /\ txn'[x].condemned = txn[x].condemned
                               /\ txn'[x].awaited = txn[x].awaited
    <3>1. others \in SUBSET Runtimes /\ txn[r] \in Txns
      BY <2>2 DEF TypeOK
    <3>2. [txn[r] EXCEPT !.stage = "self", !.marks = others] \in Txns
      BY <3>1, TxnUpdates
    <3>3. txn' = [txn EXCEPT ![r] = [txn[r] EXCEPT !.stage = "self", !.marks = others]]
      BY <2>1 DEF TypeOK
    <3>4. QED
      BY <3>1, <3>2, <3>3 DEF TypeOK, Txns
  <2>4. TypeOK'
    BY <2>1, <2>3 DEF TypeOK
  <2>5. OneReplacer'
    BY <2>1, <2>3 DEF OneReplacer, Locked
  <2>6. Unregistered'
    BY <2>1, <2>2, <2>3 DEF Unregistered
  <2>7. QED
    BY <2>1, <2>4, <2>5, <2>6 DEF StatusAgrees
<1>g. ASSUME NEW r \in Runtimes, SelectSelf(r) PROVE IInv'
  <2>1. /\ txn' = [txn EXCEPT ![r].stage = "upsert", ![r].condemned = rows[r].requested]
        /\ UNCHANGED <<agent, rows, mishaps>>
    BY <1>g DEF SelectSelf, ReadsShutdown
  <2>2. rows[r].requested \in BOOLEAN
    BY DEF TypeOK, Rows
  <2>3. /\ txn' \in [Runtimes -> Txns]
        /\ \A x \in Runtimes : /\ txn'[x].marks = txn[x].marks
                               /\ txn'[x].awaited = txn[x].awaited
        /\ \A x \in Runtimes : x # r => txn'[x].condemned = txn[x].condemned
        /\ txn'[r].condemned = rows[r].requested
    <3> DEFINE new == [txn[r] EXCEPT !.stage = "upsert", !.condemned = rows[r].requested]
    <3>1. txn[r] \in Txns
      BY DEF TypeOK
    <3>2. /\ new \in Txns /\ new.marks = txn[r].marks /\ new.awaited = txn[r].awaited
          /\ new.condemned = rows[r].requested
      BY <2>2, <3>1, TxnUpdates DEF Txns
    <3>3. txn' = [txn EXCEPT ![r] = new]
      BY <2>1 DEF TypeOK
    <3> HIDE DEF new
    <3>4. QED
      BY <3>2, <3>3 DEF TypeOK
  <2>4. TypeOK'
    BY <2>1, <2>3 DEF TypeOK
  <2>5. ~rows[r].known => ~txn'[r].condemned
    BY <2>3 DEF Unregistered, NoRow
  <2>6. Unregistered'
    BY <2>1, <2>3, <2>5 DEF Unregistered
  <2>7. QED
    BY <2>1, <2>3, <2>4, <2>6 DEF StatusAgrees, OneReplacer
<1>h. ASSUME NEW r \in Runtimes, Commit(r) PROVE IInv'
  <2> DEFINE answer == IF txn[r].condemned THEN "shutdown" ELSE "continue"
             marked(o) == [rows[o] EXCEPT !.status = "shutdown", !.requested = TRUE]
  <2>1. Finish(r, answer) /\ UNCHANGED mishaps
    BY <1>h DEF Commit
  <2>2. /\ rows' = [o \in Runtimes |->
              CASE o = r -> Upsert(rows[r], txn[r].condemned)
                [] o \in txn[r].marks -> marked(o)
                [] OTHER -> rows[o]]
    BY <1>h DEF Commit
  <2>3. answer \in {"continue", "reject", "shutdown", "error"}
    OBVIOUS
  <2> HIDE DEF answer
  <2>4. \A x \in Runtimes : txn'[x] = NoTxn \/ txn'[x] = txn[x]
    BY <2>1, <2>3, FinishKeeps
  <2>5. txn[r].condemned \in BOOLEAN
    BY DEF TypeOK, Txns
  <2>6. /\ Upsert(rows[r], txn[r].condemned) \in Rows
        /\ Upsert(rows[r], txn[r].condemned).known
        /\ Upsert(rows[r], txn[r].condemned).requested <=>
               Upsert(rows[r], txn[r].condemned).status = "shutdown"
    <3>1. CASE rows[r].known
      <4>1. Upsert(rows[r], txn[r].condemned) = [rows[r] EXCEPT !.fresh = TRUE]
        BY <3>1 DEF Upsert
      <4>2. rows[r] \in Rows
        BY DEF TypeOK
      <4>3. [rows[r] EXCEPT !.fresh = TRUE] \in Rows
        BY <4>2, RowUpdates
      <4>4. LET w == [rows[r] EXCEPT !.fresh = TRUE]
            IN  /\ w.known = rows[r].known /\ w.requested = rows[r].requested
                /\ w.status = rows[r].status
        BY <4>2 DEF Rows
      <4>5. QED
        BY <3>1, <4>1, <4>3, <4>4 DEF StatusAgrees
    <3>2. CASE ~rows[r].known
      <4>1. rows[r] = NoRow /\ ~txn[r].condemned
        BY <3>2 DEF Unregistered
      <4>2. Upsert(rows[r], txn[r].condemned) =
                [known |-> TRUE, status |-> "active", requested |-> FALSE, fresh |-> TRUE]
        <5>1. Upsert(rows[r], txn[r].condemned) =
                  [NoRow EXCEPT !.known = TRUE, !.fresh = TRUE, !.status = "active"]
          BY <3>2, <4>1 DEF Upsert, Revive
        <5>2. QED
          BY <5>1 DEF NoRow
      <4>3. QED
        BY <4>2 DEF Rows
    <3>3. QED
      BY <3>1, <3>2
  <2>7. \A o \in Runtimes : /\ marked(o) \in Rows /\ marked(o).requested
                            /\ marked(o).status = "shutdown"
                            /\ marked(o).known = rows[o].known
    <3>1. \A o \in Runtimes : rows[o] \in Rows
      BY DEF TypeOK
    <3>2. \A o \in Runtimes : marked(o) \in Rows
      BY <3>1, RowUpdates
    <3>3. QED
      BY <3>1, <3>2, RowMark
  <2> HIDE DEF marked
  <2>8. \A o \in Runtimes : \/ o = r /\ rows'[o] = Upsert(rows[r], txn[r].condemned)
                            \/ o \in txn[r].marks /\ rows'[o] = marked(o)
                            \/ rows'[o] = rows[o]
    BY <2>2
  <2>9. rows' \in [Runtimes -> Rows]
    <3>1. \A o \in Runtimes : rows'[o] \in Rows
      BY <2>6, <2>7, <2>8 DEF TypeOK
    <3>2. QED
      BY <2>2, <3>1
  <2>10. TypeOK' /\ OneReplacer'
    BY <2>1, <2>3, <2>9, FinishKeeps DEF TypeOK
  <2>11. StatusAgrees'
    BY <2>6, <2>7, <2>8 DEF StatusAgrees
  <2>12. Unregistered'
    <3>1. SUFFICES ASSUME NEW o \in Runtimes, ~rows'[o].known
                   PROVE  /\ rows'[o] = NoRow /\ ~txn'[o].condemned
                          /\ \A x \in Runtimes : o \notin txn'[x].marks
      BY DEF Unregistered
    <3>2. rows'[o] = rows[o] \/ (o \in txn[r].marks /\ ~rows[o].known)
      BY <2>6, <2>7, <2>8, <3>1
    <3>3. rows'[o] = rows[o]
      BY <3>2 DEF Unregistered
    <3>4. QED
      BY <2>4, <3>1, <3>3 DEF Unregistered, NoTxn
  <2>13. QED
    BY <2>10, <2>11, <2>12
<1>i. ASSUME NEW r \in Runtimes, Abort(r) PROVE IInv'
  <2>1. Finish(r, "error") /\ UNCHANGED <<rows, mishaps>>
    BY <1>i DEF Abort
  <2>2. TypeOK' /\ OneReplacer'
    BY <2>1, FinishKeeps DEF TypeOK
  <2>3. \A x \in Runtimes : txn'[x] = NoTxn \/ txn'[x] = txn[x]
    BY <2>1, FinishKeeps
  <2>4. QED
    BY <2>1, <2>2, <2>3 DEF StatusAgrees, Unregistered, NoTxn
<1>j. ASSUME NEW r \in Runtimes, AdminShutdown(r) PROVE IInv'
  <2>1. /\ rows[r].known /\ mishaps' \in 0..MaxMishaps
        /\ rows' = [rows EXCEPT ![r].status = "shutdown", ![r].requested = TRUE]
        /\ UNCHANGED <<agent, txn>>
    BY <1>j, Counted DEF AdminShutdown
  <2>2. [rows[r] EXCEPT !.status = "shutdown", !.requested = TRUE] \in Rows
    BY RowUpdates DEF TypeOK
  <2>3. /\ rows' \in [Runtimes -> Rows]
        /\ rows'[r].requested /\ rows'[r].status = "shutdown" /\ rows'[r].known
        /\ \A x \in Runtimes \ {r} : rows'[x] = rows[x]
    BY <2>1, <2>2 DEF TypeOK, Rows
  <2>4. TypeOK'
    BY <2>1, <2>3 DEF TypeOK
  <2>5. QED
    BY <2>1, <2>3, <2>4 DEF StatusAgrees, OneReplacer, Unregistered
<1>k. CASE UNCHANGED vars
  BY <1>k DEF vars, TypeOK, StatusAgrees, OneReplacer, Unregistered
<1>l. QED
  BY <1>a, <1>b, <1>c, <1>d, <1>e, <1>f, <1>g, <1>h, <1>i, <1>j, <1>k DEF Next, Server

LEMMA Invariance == Spec => []IInv
BY InitInv, InvStep, PTL DEF Spec

\* A runtime asked to shut down (by a takeover or by the HTTP endpoint) never
\* counts as active again, whatever registrations are under way at that moment.
THEOREM ShutdownStays == Spec => []StatusAgrees
<1>1. IInv => StatusAgrees
  BY DEF IInv
<1>2. QED
  BY <1>1, Invariance, PTL

\* Row locks keep concurrent takeovers apart: a runtime has one replacer.
THEOREM TakeoversApart == Spec => []OneReplacer
<1>1. IInv => OneReplacer
  BY DEF IInv
<1>2. QED
  BY <1>1, Invariance, PTL

=============================================================================
