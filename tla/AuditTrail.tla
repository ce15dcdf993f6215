------------------------------ MODULE AuditTrail ------------------------------
(***************************************************************************)
(* The Prisma extensions audit and softDelete under concurrent requests,   *)
(* and the connection pool they share (apps/api/src/prisma).               *)
(*                                                                         *)
(* A request runs writes on audited rows, each alone or all in one         *)
(* interactive transaction.  Around every write the extension reads the    *)
(* old row and inserts the audit row through the raw client: on another    *)
(* connection, so outside the transaction of the write.  A transaction     *)
(* holds one connection until it ends, and each audited write in it needs  *)
(* a second one; PrismaService limits the pool.                            *)
(*                                                                         *)
(* A version of a row is named by the write that made it: <<request,       *)
(* position>>.  Left out: columns, the user of the audit row, reads, the   *)
(* writes nobody audits (updateMany, deleteMany, createMany, raw SQL).     *)
(***************************************************************************)
EXTENDS Integers, Sequences, FiniteSets

CONSTANTS Req,      \* requests
          Row,      \* audited rows
          SoftRow,  \* those whose model has deleted_at
          Pool,     \* connection_limit
          Script,   \* what each request may ask: [tx, ops], ops a sequence of Op
          Seeded,   \* rows there from the start
          Absent,   \* no such row
          Seed      \* the version of a row from before

Op == [kind : {"CREATE", "UPDATE", "DELETE", "SOFT"}, row : Row]

\* SOFT is the delete of a model with deleted_at; no service of the api calls
\* it inside a transaction.
ASSUME ScriptAssumption ==
    \A s \in UNION {Script[r] : r \in Req} :
        /\ s.tx \in BOOLEAN
        /\ s.ops \in Seq(Op) /\ s.ops # <<>>
        /\ \A i \in DOMAIN s.ops :
              /\ s.ops[i].kind = "SOFT" => ~s.tx /\ s.ops[i].row \in SoftRow
              /\ s.ops[i].kind = "DELETE" => s.ops[i].row \notin SoftRow
ASSUME PoolAssumption == Pool \in Nat \ {0}

VARIABLES rows,     \* committed rows: [v |-> version, gone |-> deleted_at set]
          audit,    \* rows of audit_log
          req,      \* requests: [pc, script, at, old, seen, open, mine]; seen is
                    \* history: the commits on the row when old was read
          commits,  \* history: by row, how many commits wrote it
          trace     \* history, read by no action: what each write replaced, and
                    \* the commits on its row when old was read and when it ran
vars == <<rows, audit, req, commits, trace>>

Version == {Absent, Seed} \cup (Req \X Nat)
NoRow == [v |-> Absent, gone |-> FALSE]
None == <<>>
With(f, x, v) == [y \in DOMAIN f \cup {x} |-> IF y = x THEN v ELSE f[y]]

OpOf(r) == req[r].script.ops[req[r].at]
Me(r) == <<r, req[r].at>>
IsTx(r) == req[r].pc # "new" /\ req[r].script.tx
Ended(r) == req[r].pc \in {"done", "failed"}
Committed(w) == w \in DOMAIN trace /\ trace[w].committed
Audited(w) == \E e \in audit : e.write = w

\* What r reads on the connection of its transaction.
View(r, x) == IF x \in DOMAIN req[r].mine THEN req[r].mine[x] ELSE rows[x]
Alive(row) == row.v # Absent /\ ~row.gone

-----------------------------------------------------------------------------
(* The pool *)

\* An open transaction keeps its connection; a single statement keeps one
\* while it waits for a row lock.  Every other statement is over at once.
Holding == {r \in Req : req[r].open \/ req[r].pc = "exec"}
Free == Pool - Cardinality(Holding)

NeedsConnection(r) ==
    \/ req[r].pc \in {"begin", "old", "audit"}
    \/ req[r].pc = "query" /\ ~IsTx(r)

LockedByOther(r, x) == \E u \in Req \ {r} : x \in DOMAIN req[u].mine

Goto(r, p) == req' = [req EXCEPT ![r].pc = p]

\* A request ends; what its transaction wrote and did not commit is undone.
Fail(r) ==
    req' = [req EXCEPT ![r].pc = "failed", ![r].open = FALSE, ![r].mine = None]

\* Where the extension enters for the write at position i.
Entry(script, i) == IF script.ops[i].kind = "CREATE" THEN "query" ELSE "old"

-----------------------------------------------------------------------------
(* A request *)

Begin(r) ==
    /\ req[r].pc = "new"
    /\ \E s \in Script[r] :
          req' = [req EXCEPT ![r].script = s, ![r].at = 1,
                             ![r].pc = IF s.tx THEN "begin" ELSE Entry(s, 1)]
    /\ UNCHANGED <<rows, audit, commits, trace>>

\* $transaction takes its connection.
Open(r) ==
    /\ req[r].pc = "begin" /\ Free > 0
    /\ req' = [req EXCEPT ![r].open = TRUE, ![r].pc = Entry(req[r].script, 1)]
    /\ UNCHANGED <<rows, audit, commits, trace>>

ReadOldOf(r, row) ==
    /\ req[r].pc = "old" /\ Free > 0
    /\ req' = [req EXCEPT ![r].old = row, ![r].pc = "query",
                          ![r].seen = commits[OpOf(r).row]]
    /\ UNCHANGED <<rows, audit, commits, trace>>

ReadOldInside(r) == ReadOldOf(r, View(r, OpOf(r).row))          \* faulty
\* findUnique (findFirst of a living row for a soft delete) on the raw client:
\* the committed row, whatever the transaction has already written.
ReadOld(r) == ReadOldOf(r, rows[OpOf(r).row])

\* A single statement takes its connection.
Take(r) ==
    /\ req[r].pc = "query" /\ ~IsTx(r) /\ Free > 0
    /\ Goto(r, "exec")
    /\ UNCHANGED <<rows, audit, commits, trace>>

\* The row the write leaves behind; only the soft delete sets deleted_at.
Written(r) ==
    LET op == OpOf(r)
    IN  CASE op.kind = "DELETE" -> NoRow
          [] op.kind = "SOFT" -> [v |-> Me(r), gone |-> TRUE]
          [] OTHER -> [v |-> Me(r), gone |-> View(r, op.row).gone]

\* An insert finds no row, the other writes find theirs (P2002, P2025).
Applies(r) == OpOf(r).kind = "CREATE" <=> View(r, OpOf(r).row).v = Absent

UnauditedSoft(r) == OpOf(r).kind = "SOFT"                      \* faulty
\* The soft delete of a row that was not alive is a plain update.
Unaudited(r) == OpOf(r).kind = "SOFT" /\ ~Alive(req[r].old)

\* Where a request is after its write is over.
NextPc(r) ==
    IF req[r].at < Len(req[r].script.ops)
    THEN Entry(req[r].script, req[r].at + 1)
    ELSE IF IsTx(r) THEN "commit" ELSE "done"
Advanced(r) ==
    [req[r] EXCEPT !.pc = NextPc(r), !.old = NoRow, !.seen = 0,
                   !.at = IF @ < Len(req[r].script.ops) THEN @ + 1 ELSE @]

\* own: the transaction had written the row before.
Noted(r, c) ==
    LET x == OpOf(r).row
    IN  With(trace, Me(r), [prev |-> View(r, x).v, committed |-> c,
                            own |-> x \in DOMAIN req[r].mine,
                            seen |-> req[r].seen, nth |-> commits[x]])

\* The statement itself: on the transaction's connection it waits for the row
\* lock and keeps it; alone it commits.
QueryTo(r, pc) ==
    LET x == OpOf(r).row
    IN  /\ req[r].pc \in {"query", "exec"}
        /\ Applies(r) /\ ~LockedByOther(r, x)
        /\ \/ /\ req[r].pc = "query" /\ IsTx(r) /\ req[r].open
              /\ req' = [req EXCEPT ![r].pc = pc,
                                    ![r].mine = With(@, x, Written(r))]
              /\ trace' = Noted(r, FALSE)
              /\ UNCHANGED <<rows, commits>>
           \/ /\ req[r].pc = "exec"
              /\ rows' = [rows EXCEPT ![x] = Written(r)]
              /\ commits' = [commits EXCEPT ![x] = @ + 1]
              /\ trace' = Noted(r, TRUE)
              /\ req' = IF Unaudited(r) THEN [req EXCEPT ![r] = Advanced(r)]
                        ELSE [req EXCEPT ![r].pc = pc]
        /\ UNCHANGED audit
QueryTolerant(r) ==                                            \* faulty
    \/ QueryTo(r, "audit")
    \/ /\ req[r].pc = "exec" /\ ~LockedByOther(r, OpOf(r).row) /\ ~Applies(r)
       /\ Goto(r, "audit")
       /\ UNCHANGED <<rows, audit, commits, trace>>
Query(r) == QueryTo(r, "audit")

\* The insert into audit_log, on a connection of its own.
ActionOf(op) == CASE op.kind = "CREATE" -> "INSERT"
                  [] op.kind = "UPDATE" -> "UPDATE"
                  [] OTHER -> "DELETE"
EntryOf(r) ==
    [write |-> Me(r), row |-> OpOf(r).row, action |-> ActionOf(OpOf(r)),
     old |-> req[r].old]
WriteAudit(r) ==
    /\ req[r].pc = "audit" /\ Free > 0
    /\ audit' = audit \cup {EntryOf(r)}
    /\ req' = [req EXCEPT ![r] = Advanced(r)]
    /\ UNCHANGED <<rows, commits, trace>>

Commit(r) ==
    /\ req[r].pc = "commit" /\ req[r].open
    /\ rows' = [x \in Row |-> View(r, x)]
    /\ commits' = [x \in Row |-> IF x \in DOMAIN req[r].mine THEN commits[x] + 1
                                                             ELSE commits[x]]
    /\ trace' = [w \in DOMAIN trace |->
                    IF w[1] = r THEN [trace[w] EXCEPT !.committed = TRUE]
                    ELSE trace[w]]
    /\ req' = [req EXCEPT ![r].pc = "done", ![r].open = FALSE, ![r].mine = None]
    /\ UNCHANGED audit

-----------------------------------------------------------------------------
(* How requests fail *)

\* The write finds no row, or one that should not be there; or its
\* transaction is no longer open (P2028).
Broken(r) ==
    /\ \/ /\ req[r].pc = "exec" \/ (req[r].pc = "query" /\ req[r].open)
          /\ ~LockedByOther(r, OpOf(r).row) /\ ~Applies(r)
       \/ IsTx(r) /\ ~req[r].open /\ req[r].pc \in {"query", "commit"}
    /\ Fail(r)
    /\ UNCHANGED <<rows, audit, commits, trace>>

\* P2024: no connection came free in time.
PoolTimeout(r) ==
    /\ NeedsConnection(r) /\ Free = 0
    /\ Fail(r)
    /\ UNCHANGED <<rows, audit, commits, trace>>

TxExpireUnlessWaiting(r) ==                                    \* faulty
    /\ req[r].open
    /\ ~(req[r].pc = "query" /\ LockedByOther(r, OpOf(r).row))
    /\ req' = [req EXCEPT ![r].open = FALSE, ![r].mine = None]
    /\ UNCHANGED <<rows, audit, commits, trace>>
\* The interactive transaction is too old, or PostgreSQL chose it to break a
\* deadlock: it is rolled back and its connection goes back, while the code
\* of the request runs on until its next statement.
TxExpire(r) ==
    /\ req[r].open
    /\ req' = [req EXCEPT ![r].open = FALSE, ![r].mine = None]
    /\ UNCHANGED <<rows, audit, commits, trace>>

\* The process dies: every open request with it.
Crash ==
    /\ \E r \in Req : req[r].pc \notin {"new", "done", "failed"}
    /\ req' = [r \in Req |->
                  IF req[r].pc \in {"new", "done", "failed"} THEN req[r]
                  ELSE [req[r] EXCEPT !.pc = "failed", !.open = FALSE,
                                      !.mine = None]]
    /\ UNCHANGED <<rows, audit, commits, trace>>

-----------------------------------------------------------------------------
Init ==
    /\ rows = [x \in Row |->
                  IF x \in Seeded THEN [v |-> Seed, gone |-> FALSE] ELSE NoRow]
    /\ audit = {}
    /\ req = [r \in Req |-> [pc |-> "new", script |-> None, at |-> 0,
                             old |-> NoRow, seen |-> 0, open |-> FALSE,
                             mine |-> None]]
    /\ commits = [x \in Row |-> 0]
    /\ trace = None

Step(r) ==
    \/ Open(r) \/ ReadOld(r) \/ Take(r) \/ Query(r) \/ WriteAudit(r)
    \/ Commit(r) \/ Broken(r) \/ PoolTimeout(r)

Next == Crash \/ \E r \in Req : Begin(r) \/ Step(r) \/ TxExpire(r)

Spec == Init /\ [][Next]_vars

\* Statements that can run do, and the timeouts of Prisma come.
LiveSpec == Spec /\ \A r \in Req : WF_vars(Step(r)) /\ WF_vars(TxExpire(r))

-----------------------------------------------------------------------------
(* Properties *)

\* What a write of the trace was asked to do.
Change(w) == req[w[1]].script.ops[w[2]]
Of(kind, x) == [kind |-> kind, row |-> x]

\* The first n commits on a row have soft-deleted it; a later one created it.
DeletedWithin(x, n) ==
    \E v \in DOMAIN trace :
        Committed(v) /\ Change(v) = Of("SOFT", x) /\ trace[v].nth < n
CreatedAfter(x, n) ==
    \E v \in DOMAIN trace :
        Committed(v) /\ Change(v) = Of("CREATE", x) /\ trace[v].nth >= n

\* A change a transaction committed has its audit row: a failed insert there
\* undoes the transaction.  A single write is committed before its audit row,
\* and lacks one only while its request is at it or when the request failed
\* there; or, for a soft delete, when an earlier one had deleted the row before
\* the extension read it, or the row was created only after that.
ChangesAudited ==
    \A w \in DOMAIN trace :
        Committed(w) =>
            \/ Audited(w)
            \/ /\ ~IsTx(w[1])
               /\ \/ req[w[1]].at = w[2] /\ req[w[1]].pc \in {"audit", "failed"}
                  \/ /\ Change(w).kind = "SOFT"
                     /\ \/ DeletedWithin(Change(w).row, trace[w].seen)
                        \/ CreatedAfter(Change(w).row, trace[w].seen)

\* An audit row of a change that is not in the table comes from a transaction
\* that is not over or did not succeed; nothing else leaves one behind.
PhantomOnlyFromTransaction ==
    \A e \in audit :
        Committed(e.write) \/ (IsTx(e.write[1]) /\ req[e.write[1]].pc # "done")

\* The old values of an audit row are those of the row the write replaced,
\* unless the transaction had itself written the row before or somebody
\* committed on the row after they were read and before the write; and they
\* were committed even then.
OldValuesTrue ==
    \A e \in audit :
        LET t == trace[e.write]
        IN  /\ e.action # "INSERT" /\ ~t.own /\ t.seen = t.nth => e.old.v = t.prev
            /\ e.old.v \in {Absent, Seed} \/ Committed(e.old.v)

\* Every request ends, even when all hold a connection of the pool and wait
\* for a second one, or for a row lock of one who does.
EveryRequestEnds == \A r \in Req : req[r].pc # "new" ~> Ended(r)
=============================================================================
