-------------------------- MODULE AuditTrail_proofs --------------------------
(* What the audit rows say of the tables, proved for any number of requests *)
(* and rows, transactions of any length and any size of the pool.           *)
EXTENDS AuditTrail, SequenceTheorems, TLAPS

RowVersion == [v : Version, gone : BOOLEAN]
Pc == {"new", "begin", "old", "query", "exec", "audit", "commit", "done", "failed"}
Request == [pc : Pc, script : {None} \cup UNION {Script[r] : r \in Req}, at : Nat,
            old : RowVersion, seen : Nat, open : BOOLEAN,
            mine : UNION {[X -> RowVersion] : X \in SUBSET Row}]
Note == [prev : Version, committed : BOOLEAN, own : BOOLEAN, seen : Nat, nth : Nat]

ShapeInv ==
    /\ rows \in [Row -> RowVersion]
    /\ req \in [Req -> Request]
    /\ commits \in [Row -> Nat]
    /\ trace \in [DOMAIN trace -> Note]
    /\ DOMAIN trace \subseteq Req \X Nat

\* A version that was committed, or was there before.
Known(v) == v \in {Absent, Seed} \/ Committed(v)

PlaceOf(r) ==
    /\ req[r].pc # "new" =>
          req[r].script \in Script[r] /\ req[r].at \in 1..Len(req[r].script.ops)
    /\ req[r].pc \in {"begin", "commit"} => req[r].script.tx
    /\ req[r].pc = "begin" => req[r].at = 1
    /\ req[r].pc = "exec" => ~req[r].script.tx
    /\ req[r].open => req[r].script.tx /\ req[r].pc \notin {"new", "done", "failed"}
    /\ ~req[r].open => DOMAIN req[r].mine = {}

\* What the old row a request read has to do with the row its write replaced.
Matches(kind, old, note) ==
    kind # "CREATE" /\ ~note.own /\ note.seen = note.nth => old.v = note.prev

\* A soft delete of a row somebody had deleted, or created late.
Excused(w) ==
    /\ Change(w).kind = "SOFT"
    /\ \/ DeletedWithin(Change(w).row, trace[w].seen)
       \/ CreatedAfter(Change(w).row, trace[w].seen)

\* The writes of a request up to where it is: those of a transaction commit
\* together, and each but the last has its audit row.
TraceOf(r) ==
    /\ \A i \in Nat :
          <<r, i>> \in DOMAIN trace =>
              /\ req[r].pc # "new" /\ i <= req[r].at
              /\ i = req[r].at => req[r].pc \in {"audit", "commit", "done", "failed"}
              /\ \/ Audited(<<r, i>>)
                 \/ i = req[r].at /\ req[r].pc \in {"audit", "failed"}
                 \/ ~req[r].script.tx /\ Excused(<<r, i>>)
              /\ ~req[r].script.tx => trace[<<r, i>>].committed
              /\ req[r].script.tx => (trace[<<r, i>>].committed <=> req[r].pc = "done")
    /\ req[r].pc = "audit" =>
          Me(r) \in DOMAIN trace /\ Matches(OpOf(r).kind, req[r].old, trace[Me(r)])

\* What a request has read was committed; what it has written is its own.
MineOf(r) ==
    /\ Known(req[r].old.v)
    /\ \A x \in DOMAIN req[r].mine :
          \/ req[r].mine[x].v = Absent
          \/ \E i \in Nat : req[r].mine[x].v = <<r, i>> /\ <<r, i>> \in DOMAIN trace

\* The old row read is the committed one until somebody commits on the row; a
\* dead one was soft-deleted before, and one that was not there is not there
\* still or was created since.
SeenOf(r) ==
    req[r].pc \in {"query", "exec"} /\ OpOf(r).kind # "CREATE" =>
        LET x == OpOf(r).row
        IN  /\ req[r].seen <= commits[x]
            /\ req[r].seen = commits[x] => req[r].old = rows[x]
            /\ req[r].old.gone => DeletedWithin(x, req[r].seen)
            /\ req[r].old.v = Absent =>
                  rows[x].v = Absent \/ CreatedAfter(x, req[r].seen)

\* The rows of a transaction are locked; a row it leaves where none was is one
\* it created, and only a soft delete that was committed makes one dead.
Creates(r, i, x) ==
    /\ <<r, i>> \in DOMAIN trace /\ Change(<<r, i>>) = Of("CREATE", x)
    /\ trace[<<r, i>>].nth = commits[x]
OwnOf(r) ==
    \A x \in DOMAIN req[r].mine :
        /\ \A u \in Req \ {r} : x \notin DOMAIN req[u].mine
        /\ req[r].mine[x].gone => DeletedWithin(x, commits[x])
        /\ req[r].mine[x].v # Absent /\ rows[x].v = Absent =>
              \E i \in Nat : Creates(r, i, x)

RowInv(x) == Known(rows[x].v) /\ (rows[x].gone => DeletedWithin(x, commits[x]))

EntryInv(e) ==
    /\ e.write \in DOMAIN trace
    /\ e.action # "INSERT" /\ ~trace[e.write].own
       /\ trace[e.write].seen = trace[e.write].nth =>
           e.old.v = trace[e.write].prev
    /\ Known(e.old.v)

AuditInv ==
    /\ ShapeInv
    /\ \A r \in Req : PlaceOf(r) /\ TraceOf(r) /\ MineOf(r) /\ SeenOf(r) /\ OwnOf(r)
    /\ \A x \in Row : RowInv(x)
    /\ \A e \in audit : EntryInv(e)

-----------------------------------------------------------------------------
LEMMA ScriptTyped ==
  ASSUME NEW r \in Req, NEW s \in Script[r]
  PROVE  /\ s \in UNION {Script[u] : u \in Req}
         /\ s.tx \in BOOLEAN /\ Len(s.ops) \in Nat \ {0}
         /\ \A i \in 1..Len(s.ops) :
               /\ s.ops[i].row \in Row /\ s.ops[i].kind \in {"CREATE", "UPDATE", "DELETE", "SOFT"}
               /\ s.ops[i] = Of(s.ops[i].kind, s.ops[i].row)
               /\ s.ops[i].kind = "SOFT" => ~s.tx
  <1>1. s \in UNION {Script[u] : u \in Req}
    OBVIOUS
  <1>2. s.tx \in BOOLEAN /\ s.ops \in Seq(Op) /\ s.ops # <<>>
    BY <1>1, ScriptAssumption
  <1>3. Len(s.ops) \in Nat \ {0}
    BY <1>2, EmptySeq, LenProperties
  <1>4. \A i \in 1..Len(s.ops) : s.ops[i] \in Op
    BY <1>2, ElementOfSeq
  <1>5. \A i \in 1..Len(s.ops) : s.ops[i].kind = "SOFT" => ~s.tx
    BY <1>1, <1>2, ScriptAssumption, LenProperties
  <1> QED
    BY <1>1, <1>2, <1>3, <1>4, <1>5 DEF Op, Of

LEMMA NoneTyped == None \in UNION {[X -> RowVersion] : X \in SUBSET Row} /\ DOMAIN None = {}
  <1>1. DOMAIN None = {}
    BY DEF None
  <1>2. None \in [{} -> RowVersion]
    BY DEF None
  <1> QED
    BY <1>1, <1>2

LEMMA AuditInit == Init => AuditInv
  <1> SUFFICES ASSUME Init PROVE AuditInv
    OBVIOUS
  <1>1. NoRow \in RowVersion /\ NoRow.v = Absent
    BY DEF NoRow, RowVersion, Version
  <1>2. /\ rows \in [Row -> RowVersion] /\ commits \in [Row -> Nat]
        /\ \A x \in Row : rows[x].v \in {Absent, Seed} /\ ~rows[x].gone
    BY <1>1 DEF Init, RowVersion, Version, NoRow
  <1>3. DOMAIN trace = {} /\ trace \in [DOMAIN trace -> Note]
    BY DEF Init, None
  <1>4. req \in [Req -> Request]
    BY <1>1, NoneTyped DEF Init, Request, Pc
  <1>5. ShapeInv
    BY <1>2, <1>3, <1>4 DEF ShapeInv
  <1>6. \A r \in Req : PlaceOf(r) /\ TraceOf(r) /\ MineOf(r) /\ SeenOf(r) /\ OwnOf(r)
    BY <1>1, <1>3, NoneTyped DEF Init, PlaceOf, TraceOf, MineOf, SeenOf, OwnOf, Known
  <1>7. \A x \in Row : RowInv(x)
    BY <1>2 DEF Known, RowInv
  <1> QED
    BY <1>5, <1>6, <1>7 DEF Init, AuditInv

-----------------------------------------------------------------------------
(* What a step keeps *)

\* The history of a write is kept; only committed may become true.
Grows ==
    \A w \in DOMAIN trace :
        /\ w \in DOMAIN trace'
        /\ trace'[w].prev = trace[w].prev /\ trace'[w].own = trace[w].own
        /\ trace'[w].seen = trace[w].seen /\ trace'[w].nth = trace[w].nth
        /\ trace[w].committed => trace'[w].committed

\* What was asked of the writes of the trace is kept.
Settled == \A w \in DOMAIN trace : Change(w)' = Change(w)

\* What the history says goes on being so.
LEMMA Lasting ==
  ASSUME Grows, Settled
  PROVE  /\ \A v : Known(v) => Known(v)'
         /\ \A x, n : DeletedWithin(x, n) => DeletedWithin(x, n)'
         /\ \A x, n : CreatedAfter(x, n) => CreatedAfter(x, n)'
         /\ \A w \in DOMAIN trace : Excused(w) => Excused(w)'
  <1>1. ASSUME NEW w, Committed(w)
        PROVE  Committed(w)' /\ w \in DOMAIN trace /\ Change(w)' = Change(w)
               /\ trace'[w].nth = trace[w].nth
    BY <1>1 DEF Committed, Grows, Settled
  <1>2. ASSUME NEW v, Known(v) PROVE Known(v)'
    BY <1>1, <1>2 DEF Known
  <1>3. ASSUME NEW x, NEW n, DeletedWithin(x, n) PROVE DeletedWithin(x, n)'
    <2>1. PICK v \in DOMAIN trace :
             Committed(v) /\ Change(v) = Of("SOFT", x) /\ trace[v].nth < n
      BY <1>3 DEF DeletedWithin
    <2>2. Committed(v)' /\ Change(v)' = Of("SOFT", x) /\ trace'[v].nth < n
      BY <1>1, <2>1
    <2>3. v \in DOMAIN trace'
      BY <2>1 DEF Grows
    <2> QED
      BY <2>2, <2>3 DEF DeletedWithin, Of
  <1>4. ASSUME NEW x, NEW n, CreatedAfter(x, n) PROVE CreatedAfter(x, n)'
    <2>1. PICK v \in DOMAIN trace :
             Committed(v) /\ Change(v) = Of("CREATE", x) /\ trace[v].nth >= n
      BY <1>4 DEF CreatedAfter
    <2>2. Committed(v)' /\ Change(v)' = Of("CREATE", x) /\ trace'[v].nth >= n
      BY <1>1, <2>1
    <2>3. v \in DOMAIN trace'
      BY <2>1 DEF Grows
    <2> QED
      BY <2>2, <2>3 DEF CreatedAfter, Of
  <1>5. ASSUME NEW w \in DOMAIN trace, Excused(w) PROVE Excused(w)'
    <2>1. Change(w)' = Change(w) /\ trace'[w].seen = trace[w].seen
      BY DEF Grows, Settled
    <2>2. \/ DeletedWithin(Change(w).row, trace[w].seen)'
          \/ CreatedAfter(Change(w).row, trace[w].seen)'
      BY <1>3, <1>4, <1>5, <2>1 DEF Excused
    <2> QED
      BY <1>5, <2>1, <2>2 DEF Excused
  <1> QED
    BY <1>2, <1>3, <1>4, <1>5

\* r moves to q; of the other requests the trace says what it said.
OnlyBy(r, q) ==
    /\ req' = [req EXCEPT ![r] = q]
    /\ audit \subseteq audit'
    /\ \A w \in Req \X Nat :
          w[1] # r => /\ w \in DOMAIN trace' <=> w \in DOMAIN trace
                      /\ w \in DOMAIN trace => trace'[w] = trace[w]

\* r commits on the rows nobody else has locked, or leaves them.
Touches(r, x) ==
    \/ rows'[x] = rows[x] /\ commits'[x] = commits[x]
    \/ /\ \A u \in Req \ {r} : x \notin DOMAIN req[u].mine
       /\ \E n \in Nat :
              /\ commits[x] = n /\ commits'[x] = n + 1
              /\ rows[x].v = Absent /\ rows'[x].v # Absent => CreatedAfter(x, n)'

LEMMA GrowStep ==
  ASSUME AuditInv, NEW r \in Req, NEW q \in Request, OnlyBy(r, q), Grows, Settled,
         rows' \in [Row -> RowVersion], commits' \in [Row -> Nat],
         trace' \in [DOMAIN trace' -> Note], DOMAIN trace' \subseteq Req \X Nat,
         \A x \in Row : Touches(r, x),
         \A x \in DOMAIN q.mine : \A u \in Req \ {r} : x \notin DOMAIN req[u].mine,
         PlaceOf(r)', TraceOf(r)', MineOf(r)', SeenOf(r)', OwnOf(r)',
         (\A x \in Row : RowInv(x))', \A e \in audit' \ audit : EntryInv(e)'
  PROVE  AuditInv'
  <1>1. /\ req \in [Req -> Request] /\ req'[r] = q
        /\ \A u \in Req \ {r} : req'[u] = req[u]
    BY DEF AuditInv, ShapeInv, OnlyBy
  <1>2. ShapeInv /\ ShapeInv'
    BY <1>1 DEF AuditInv, ShapeInv, OnlyBy
  <1>3. /\ \A v : Known(v) => Known(v)'
        /\ \A x, n : DeletedWithin(x, n) => DeletedWithin(x, n)'
        /\ \A x, n : CreatedAfter(x, n) => CreatedAfter(x, n)'
        /\ \A w \in DOMAIN trace : Excused(w) => Excused(w)'
    BY Lasting
  <1>4. ASSUME NEW u \in Req
        PROVE  PlaceOf(u)' /\ TraceOf(u)' /\ MineOf(u)' /\ SeenOf(u)' /\ OwnOf(u)'
    <2>1. CASE u = r
      BY <2>1
    <2>2. CASE u # r
      <3>1. /\ req'[u] = req[u] /\ audit \subseteq audit' /\ req[u] \in Request
            /\ PlaceOf(u) /\ TraceOf(u) /\ MineOf(u) /\ SeenOf(u) /\ OwnOf(u)
        BY <1>1, <2>2 DEF AuditInv, OnlyBy
      <3>2. \A i \in Nat : /\ <<u, i>> \in DOMAIN trace' <=> <<u, i>> \in DOMAIN trace
                           /\ <<u, i>> \in DOMAIN trace => trace'[<<u, i>>] = trace[<<u, i>>]
        BY <2>2 DEF OnlyBy
      <3>3. PlaceOf(u)'
        BY <3>1 DEF PlaceOf
      <3>4. Me(u)' = Me(u) /\ OpOf(u)' = OpOf(u)
        BY <3>1 DEF Me, OpOf
      <3>5. req[u].pc = "audit" => Me(u) \in DOMAIN trace' /\ trace'[Me(u)] = trace[Me(u)]
        <4>1. req[u].at \in Nat
          BY <1>1 DEF Request
        <4> QED
          BY <3>1, <3>2, <4>1 DEF TraceOf, Me
      <3>6. TraceOf(u)'
        BY <1>3, <3>1, <3>2, <3>4, <3>5 DEF TraceOf, Audited
      <3>7. MineOf(u)'
        BY <1>3, <3>1, <3>2 DEF MineOf
      <3>8. SeenOf(u)'
        <4> SUFFICES ASSUME NEW x, NEW m, x = OpOf(u).row, m = req[u].seen,
                            req[u].pc \in {"query", "exec"}, OpOf(u).kind # "CREATE"
                     PROVE  /\ m <= commits'[x]
                            /\ m = commits'[x] => req[u].old = rows'[x]
                            /\ req[u].old.gone => DeletedWithin(x, m)'
                            /\ req[u].old.v = Absent =>
                                  rows'[x].v = Absent \/ CreatedAfter(x, m)'
          BY <3>1, <3>4 DEF SeenOf
        <4>1. x \in Row
          BY <3>1, ScriptTyped DEF PlaceOf, OpOf
        <4>2. /\ m <= commits[x]
              /\ m = commits[x] => req[u].old = rows[x]
              /\ req[u].old.gone => DeletedWithin(x, m)
              /\ req[u].old.v = Absent => rows[x].v = Absent \/ CreatedAfter(x, m)
          BY <3>1 DEF SeenOf
        <4>3. m \in Nat /\ commits[x] \in Nat /\ Touches(r, x)
          BY <1>2, <3>1, <4>1 DEF Request, ShapeInv
        <4>4. /\ req[u].old.gone => DeletedWithin(x, m)'
              /\ CreatedAfter(x, m) => CreatedAfter(x, m)'
          BY <1>3, <4>2
        <4>5. CASE rows'[x] = rows[x] /\ commits'[x] = commits[x]
          BY <4>2, <4>4, <4>5
        <4>6. ASSUME NEW n \in Nat, commits[x] = n, commits'[x] = n + 1,
                     rows[x].v = Absent /\ rows'[x].v # Absent => CreatedAfter(x, n)'
              PROVE  /\ m <= commits'[x] /\ m # commits'[x]
                     /\ req[u].old.v = Absent =>
                           rows'[x].v = Absent \/ CreatedAfter(x, m)'
          <5>1. m <= n /\ m <= commits'[x] /\ m # commits'[x]
            BY <4>2, <4>3, <4>6
          <5>2. \A v \in DOMAIN trace' : trace'[v].nth \in Nat
            BY <1>2 DEF ShapeInv, Note
          <5>3. ASSUME CreatedAfter(x, n)' PROVE CreatedAfter(x, m)'
            <6>1. PICK v \in DOMAIN trace' :
                     Committed(v)' /\ Change(v)' = Of("CREATE", x) /\ trace'[v].nth >= n
              BY <5>3 DEF CreatedAfter, Of
            <6>2. trace'[v].nth >= m
              BY <4>3, <5>1, <5>2, <6>1
            <6> QED
              BY <6>1, <6>2 DEF CreatedAfter, Of
          <5> QED
            BY <4>2, <4>4, <4>6, <5>1, <5>3
        <4> QED
          BY <4>3, <4>4, <4>5, <4>6 DEF Touches
      <3>9. OwnOf(u)'
        <4> SUFFICES ASSUME NEW x \in DOMAIN req[u].mine
                     PROVE  /\ \A v \in Req \ {u} : x \notin DOMAIN req'[v].mine
                            /\ req[u].mine[x].gone => DeletedWithin(x, commits[x])'
                            /\ req[u].mine[x].v # Absent /\ rows'[x].v = Absent =>
                                  \E i \in Nat : Creates(u, i, x)'
          BY <3>1 DEF OwnOf
        <4>1. /\ \A v \in Req \ {u} : x \notin DOMAIN req[v].mine
              /\ req[u].mine[x].gone => DeletedWithin(x, commits[x])
              /\ req[u].mine[x].v # Absent /\ rows[x].v = Absent =>
                    \E i \in Nat : Creates(u, i, x)
          BY <3>1 DEF OwnOf
        <4>2. x \in Row
          <5>1. PICK X \in SUBSET Row : req[u].mine \in [X -> RowVersion]
            BY <3>1 DEF Request
          <5> QED
            BY <5>1
        <4>3. rows'[x] = rows[x] /\ commits'[x] = commits[x]
          BY <2>2, <4>2 DEF Touches
        <4>4. \A v \in Req \ {u} : x \notin DOMAIN req'[v].mine
          <5>1. x \notin DOMAIN q.mine
            BY <2>2
          <5> QED
            BY <1>1, <4>1, <5>1
        <4>5. \A i \in Nat : Creates(u, i, x) => Creates(u, i, x)'
          BY <3>2, <4>3 DEF Creates, Settled, Of
        <4> QED
          BY <1>3, <4>1, <4>3, <4>4, <4>5
      <3> QED
        BY <3>3, <3>6, <3>7, <3>8, <3>9
    <2> QED
      BY <2>1, <2>2
  <1>5. ASSUME NEW e \in audit' PROVE EntryInv(e)'
    <2>1. CASE e \in audit
      <3>1. EntryInv(e)
        BY <2>1 DEF AuditInv
      <3> QED
        BY <1>3, <3>1 DEF EntryInv, Grows
    <2> QED
      BY <2>1
  <1> QED
    BY <1>2, <1>4, <1>5 DEF AuditInv

-----------------------------------------------------------------------------
(* Steps that move one request and write nothing *)

LEMMA LocalStep ==
  ASSUME AuditInv, NEW r \in Req, NEW q \in Request, req' = [req EXCEPT ![r] = q],
         UNCHANGED <<rows, audit, commits, trace>>,
         q.script = req[r].script \/ req[r].pc = "new",
         PlaceOf(r)', TraceOf(r)', SeenOf(r)', Known(q.old.v),
         q.mine \in {req[r].mine, None}
  PROVE  AuditInv'
  <1>1. /\ req \in [Req -> Request] /\ req'[r] = q
        /\ \A u \in Req \ {r} : req'[u] = req[u]
        /\ DOMAIN trace \subseteq Req \X Nat
    BY DEF AuditInv, ShapeInv
  <1>2. OnlyBy(r, q) /\ Grows
    BY DEF OnlyBy, Grows
  <1>3. Settled
    <2> SUFFICES ASSUME NEW w \in DOMAIN trace PROVE Change(w)' = Change(w)
      BY DEF Settled
    <2>1. PICK u \in Req, i \in Nat : w = <<u, i>>
      BY <1>1
    <2>2. w[1] = u /\ req[u].pc # "new"
      BY <2>1 DEF AuditInv, TraceOf
    <2>3. req'[u].script = req[u].script
      BY <1>1, <2>2
    <2> QED
      BY <2>2, <2>3 DEF Change
  <1>4. /\ \A v : Known(v) => Known(v)'
        /\ \A x, n : DeletedWithin(x, n) => DeletedWithin(x, n)'
    BY <1>2, <1>3, Lasting
  <1>5. MineOf(r) /\ OwnOf(r)
    BY DEF AuditInv
  <1>6. MineOf(r)'
    BY <1>1, <1>4, <1>5, NoneTyped DEF MineOf
  <1>7. \A x \in DOMAIN q.mine : x \in DOMAIN req[r].mine /\ q.mine = req[r].mine
    BY NoneTyped
  <1>8. \A x \in DOMAIN q.mine : \A u \in Req \ {r} : x \notin DOMAIN req[u].mine
    BY <1>5, <1>7 DEF OwnOf
  <1>12. \A u \in Req \ {r} : req'[u].mine = req[u].mine
    BY <1>1
  <1>9. OwnOf(r)'
    <2>1. \A i \in Nat : \A x \in DOMAIN q.mine : Creates(r, i, x) => Creates(r, i, x)'
      BY <1>3 DEF Creates, Settled, Of
    <2>2. \A x \in DOMAIN q.mine : DeletedWithin(x, commits[x]) => DeletedWithin(x, commits[x])'
      BY <1>4
    <2> QED
      BY <1>1, <1>5, <1>7, <1>8, <1>12, <2>1, <2>2 DEF OwnOf
  <1>10. (\A x \in Row : RowInv(x))'
    BY <1>4 DEF AuditInv, RowInv
  <1>11. \A x \in Row : Touches(r, x)
    BY DEF Touches
  <1> QED
    BY <1>2, <1>3, <1>6, <1>8, <1>9, <1>10, <1>11, GrowStep DEF AuditInv, ShapeInv

\* Of these, the ones that keep to the same write, or fail.
LEMMA OnwardStep ==
  ASSUME AuditInv, NEW r \in Req, NEW q \in Request, req' = [req EXCEPT ![r] = q],
         UNCHANGED <<rows, audit, commits, trace>>,
         req[r].pc \notin {"new", "done", "failed"}, q.pc \notin {"new", "done"},
         \/ q.pc \in {req[r].pc, "failed"}
         \/ {req[r].pc, q.pc} \cap {"audit", "commit", "begin"} \subseteq {"begin"},
         q.pc = "begin" => req[r].pc = "begin",
         q.pc = "exec" => ~req[r].script.tx,
         q.script = req[r].script, q.at = req[r].at,
         q.pc = "audit" => q.old = req[r].old,
         Known(q.old.v), q.mine \in {req[r].mine, None},
         q.pc = "failed" => ~q.open, q.open => req[r].open \/ req[r].pc = "begin",
         ~q.open => q.mine = None \/ ~req[r].open,
         \/ q.pc \notin {"query", "exec"} \/ SeenOf(r)'
         \/ req[r].pc \in {"query", "exec"} /\ q.old = req[r].old /\ q.seen = req[r].seen
  PROVE  AuditInv'
  <1>1. /\ req'[r] = q /\ PlaceOf(r) /\ TraceOf(r) /\ SeenOf(r)
        /\ DOMAIN trace \subseteq Req \X Nat /\ req \in [Req -> Request]
    BY DEF AuditInv, ShapeInv
  <1>2. PlaceOf(r)'
    BY <1>1, NoneTyped DEF PlaceOf
  <1>3. /\ OpOf(r)' = OpOf(r) /\ Me(r)' = Me(r)
        /\ Grows /\ Settled
    <2>1. Grows
      BY DEF Grows
    <2>2. \A u \in Req : req'[u].script = req[u].script
      BY <1>1
    <2>3. Settled
      BY <1>1, <2>2 DEF Settled, Change
    <2> QED
      BY <1>1, <2>1, <2>3 DEF OpOf, Me
  <1>4. /\ \A x, n : DeletedWithin(x, n) => DeletedWithin(x, n)'
        /\ \A x, n : CreatedAfter(x, n) => CreatedAfter(x, n)'
        /\ \A w \in DOMAIN trace : Excused(w) => Excused(w)'
    BY <1>3, Lasting
  <1>5. TraceOf(r)'
    BY <1>1, <1>3, <1>4 DEF TraceOf, Audited
  <1>6. SeenOf(r)'
    <2>1. CASE q.pc \notin {"query", "exec"}
      BY <1>1, <2>1 DEF SeenOf
    <2>2. CASE /\ req[r].pc \in {"query", "exec"}
               /\ q.old = req[r].old /\ q.seen = req[r].seen
      BY <1>1, <1>3, <1>4, <2>2 DEF SeenOf
    <2> QED
      BY <2>1, <2>2
  <1> QED
    BY <1>2, <1>5, <1>6, LocalStep

LEMMA BeginStep ==
  ASSUME AuditInv, NEW r \in Req, Begin(r)
  PROVE  AuditInv'
  <1>1. PICK s \in Script[r] :
           req' = [req EXCEPT ![r].script = s, ![r].at = 1,
                              ![r].pc = IF s.tx THEN "begin" ELSE Entry(s, 1)]
    BY DEF Begin
  <1> DEFINE pc == IF s.tx THEN "begin" ELSE Entry(s, 1)
             q == [req[r] EXCEPT !.script = s, !.at = 1, !.pc = pc]
  <1>2. /\ req[r].pc = "new" /\ UNCHANGED <<rows, audit, commits, trace>>
        /\ req' = [req EXCEPT ![r] = q]
    BY <1>1 DEF Begin
  <1>3. /\ req \in [Req -> Request] /\ req[r] \in Request /\ PlaceOf(r) /\ TraceOf(r)
        /\ MineOf(r)
    BY DEF AuditInv, ShapeInv
  <1>4. pc \in {"begin", "old", "query"} /\ (pc = "begin" => s.tx)
    BY DEF Entry
  <1>s. /\ s \in UNION {Script[u] : u \in Req} /\ Len(s.ops) \in Nat \ {0}
    BY ScriptTyped
  <1> HIDE DEF pc
  <1>5. /\ q \in Request /\ q.pc = pc /\ q.script = s /\ q.at = 1
        /\ q.old = req[r].old /\ q.open = req[r].open /\ q.mine = req[r].mine
    BY <1>3, <1>4, <1>s DEF Request, Pc
  <1>e. pc = "query" => s.ops[1].kind = "CREATE"
    BY DEF Entry, pc
  <1> HIDE DEF q
  <1>6. req'[r] = q
    BY <1>2, <1>3
  <1>7. PlaceOf(r)'
    BY <1>2, <1>3, <1>4, <1>5, <1>6, <1>s DEF PlaceOf
  <1>8. TraceOf(r)'
    <2>1. \A i \in Nat : <<r, i>> \notin DOMAIN trace
      BY <1>2, <1>3 DEF TraceOf
    <2>2. req'[r].pc # "audit" /\ trace' = trace
      BY <1>2, <1>4, <1>5, <1>6
    <2> QED
      BY <2>1, <2>2 DEF TraceOf
  <1>9. SeenOf(r)'
    <2>1. OpOf(r)' = s.ops[1] /\ req'[r].pc = pc
      BY <1>5, <1>6 DEF OpOf
    <2> QED
      BY <1>4, <1>e, <2>1 DEF SeenOf
  <1> QED
    BY <1>2, <1>3, <1>5, <1>7, <1>8, <1>9, LocalStep DEF MineOf

LEMMA OpenStep ==
  ASSUME AuditInv, NEW r \in Req, Open(r)
  PROVE  AuditInv'
  <1> DEFINE pc == Entry(req[r].script, 1)
             q == [req[r] EXCEPT !.open = TRUE, !.pc = pc]
  <1>1. /\ req[r].pc = "begin" /\ UNCHANGED <<rows, audit, commits, trace>>
        /\ req' = [req EXCEPT ![r] = q]
    BY DEF Open
  <1>2. /\ req \in [Req -> Request] /\ req[r] \in Request /\ PlaceOf(r) /\ MineOf(r)
        /\ pc \in {"old", "query"}
        /\ pc = "query" => req[r].script.ops[1].kind = "CREATE"
    BY DEF AuditInv, ShapeInv, Entry
  <1> HIDE DEF pc
  <1>3. /\ q \in Request /\ q.pc = pc /\ q.script = req[r].script /\ q.at = req[r].at
        /\ q.old = req[r].old /\ q.mine = req[r].mine /\ q.open
    BY <1>2 DEF Request, Pc
  <1> HIDE DEF q
  <1>4. SeenOf(r)' \/ q.pc \notin {"query", "exec"}
    <2>1. req'[r] = q /\ req[r].at = 1
      BY <1>1, <1>2 DEF PlaceOf
    <2>2. OpOf(r)' = req[r].script.ops[1]
      BY <1>3, <2>1 DEF OpOf
    <2> QED
      BY <1>2, <1>3, <2>1, <2>2 DEF SeenOf
  <1> QED
    BY <1>1, <1>2, <1>3, <1>4, OnwardStep DEF MineOf

LEMMA ReadOldStep ==
  ASSUME AuditInv, NEW r \in Req, ReadOld(r)
  PROVE  AuditInv'
  <1> DEFINE row == rows[OpOf(r).row]
             seen == commits[OpOf(r).row]
             q == [req[r] EXCEPT !.old = row, !.pc = "query", !.seen = seen]
  <1>1. /\ req[r].pc = "old" /\ UNCHANGED <<rows, audit, commits, trace>>
        /\ req' = [req EXCEPT ![r] = q]
    BY DEF ReadOld, ReadOldOf
  <1>2. /\ req \in [Req -> Request] /\ req[r] \in Request /\ PlaceOf(r) /\ MineOf(r)
        /\ rows \in [Row -> RowVersion] /\ commits \in [Row -> Nat]
    BY DEF AuditInv, ShapeInv
  <1>3. OpOf(r).row \in Row
    BY <1>1, <1>2, ScriptTyped DEF PlaceOf, OpOf
  <1>4. /\ row \in RowVersion /\ Known(row.v) /\ seen \in Nat
        /\ row.gone => DeletedWithin(OpOf(r).row, seen)
    BY <1>2, <1>3 DEF AuditInv, RowInv
  <1> HIDE DEF row, seen
  <1>5. /\ q \in Request /\ q.pc = "query" /\ q.script = req[r].script /\ q.at = req[r].at
        /\ q.old = row /\ q.mine = req[r].mine /\ q.open = req[r].open /\ q.seen = seen
    BY <1>2, <1>4 DEF Request, Pc
  <1> HIDE DEF q
  <1>6. SeenOf(r)'
    <2>1. req'[r] = q /\ OpOf(r)' = OpOf(r)
      BY <1>1, <1>2, <1>5 DEF OpOf
    <2>2. row = rows[OpOf(r).row] /\ seen = commits[OpOf(r).row]
      BY DEF row, seen
    <2> SUFFICES ASSUME NEW x, x = OpOf(r).row, NEW n, n = seen
                 PROVE  /\ n <= commits'[x] /\ row = rows'[x]
                        /\ row.gone => DeletedWithin(x, n)'
                        /\ row.v = Absent => rows'[x].v = Absent
      BY <1>5, <2>1 DEF SeenOf
    <2>3. DeletedWithin(x, n) => DeletedWithin(x, n)'
      <3>1. \A u \in Req : req'[u].script = req[u].script
        BY <1>1, <1>2, <1>5
      <3>2. Grows /\ Settled
        BY <1>1, <3>1 DEF Grows, Settled, Change, AuditInv, ShapeInv
      <3> QED
        BY <3>2, Lasting
    <2> QED
      BY <1>1, <1>4, <2>2, <2>3
  <1> QED
    BY <1>1, <1>4, <1>5, <1>6, OnwardStep

LEMMA TakeStep ==
  ASSUME AuditInv, NEW r \in Req, Take(r)
  PROVE  AuditInv'
  <1> DEFINE q == [req[r] EXCEPT !.pc = "exec"]
  <1>1. /\ req[r].pc = "query" /\ ~req[r].script.tx /\ UNCHANGED <<rows, audit, commits, trace>>
        /\ req' = [req EXCEPT ![r] = q]
    BY DEF Take, Goto, IsTx
  <1>2. /\ req \in [Req -> Request] /\ req[r] \in Request /\ MineOf(r)
    BY DEF AuditInv, ShapeInv
  <1>3. /\ q \in Request /\ q.pc = "exec" /\ q.script = req[r].script /\ q.at = req[r].at
        /\ q.old = req[r].old /\ q.mine = req[r].mine /\ q.open = req[r].open
        /\ q.seen = req[r].seen
    BY <1>2 DEF Request, Pc
  <1> HIDE DEF q
  <1> QED
    BY <1>1, <1>2, <1>3, OnwardStep DEF MineOf

LEMMA FailStep ==
  ASSUME AuditInv, NEW r \in Req, Fail(r), UNCHANGED <<rows, audit, commits, trace>>,
         req[r].pc \notin {"new", "done", "failed"}
  PROVE  AuditInv'
  <1> DEFINE q == [req[r] EXCEPT !.pc = "failed", !.open = FALSE, !.mine = None]
  <1>1. req' = [req EXCEPT ![r] = q]
    BY DEF Fail
  <1>2. /\ req \in [Req -> Request] /\ req[r] \in Request /\ MineOf(r)
    BY DEF AuditInv, ShapeInv
  <1>3. /\ q \in Request /\ q.pc = "failed" /\ q.script = req[r].script
        /\ q.at = req[r].at /\ q.old = req[r].old /\ q.mine = None /\ ~q.open
    BY <1>2, NoneTyped DEF Request, Pc
  <1> HIDE DEF q
  <1> QED
    BY <1>1, <1>2, <1>3, OnwardStep DEF MineOf

LEMMA TxExpireStep ==
  ASSUME AuditInv, NEW r \in Req, TxExpire(r)
  PROVE  AuditInv'
  <1> DEFINE q == [req[r] EXCEPT !.open = FALSE, !.mine = None]
  <1>1. /\ req[r].open /\ req' = [req EXCEPT ![r] = q] /\ UNCHANGED <<rows, audit, commits, trace>>
    BY DEF TxExpire
  <1>2. /\ req \in [Req -> Request] /\ req[r] \in Request /\ MineOf(r) /\ PlaceOf(r)
    BY DEF AuditInv, ShapeInv
  <1>3. /\ q \in Request /\ q.pc = req[r].pc /\ q.script = req[r].script
        /\ q.at = req[r].at /\ q.old = req[r].old /\ q.mine = None /\ ~q.open
        /\ q.seen = req[r].seen
    BY <1>2, NoneTyped DEF Request
  <1>4. req[r].pc \notin {"new", "done", "failed"}
    BY <1>1, <1>2 DEF PlaceOf
  <1> HIDE DEF q
  <1>5. q.pc = "exec" => ~req[r].script.tx
    BY <1>2, <1>3 DEF PlaceOf
  <1> QED
    BY <1>1, <1>2, <1>3, <1>4, <1>5, OnwardStep DEF MineOf

-----------------------------------------------------------------------------
(* Steps that add to the trace or to the audit rows *)

LEMMA WithTyped ==
  ASSUME NEW S, NEW f, f \in [DOMAIN f -> S], NEW x, NEW v \in S
  PROVE  /\ With(f, x, v) \in [DOMAIN f \cup {x} -> S]
         /\ With(f, x, v)[x] = v
         /\ \A y \in DOMAIN f \ {x} : With(f, x, v)[y] = f[y]
  BY DEF With

\* What a request that has begun sees and writes.
LEMMA SeenTyped ==
  ASSUME AuditInv, NEW r \in Req, req[r].pc # "new"
  PROVE  /\ req[r] \in Request /\ Me(r) \in Req \X Nat /\ Me(r) = <<r, req[r].at>>
         /\ req[r].at \in 1..Len(req[r].script.ops) /\ req[r].at \in Nat
         /\ req[r].script \in Script[r] /\ req[r].script.tx \in BOOLEAN
         /\ Len(req[r].script.ops) \in Nat
         /\ OpOf(r).row \in Row /\ OpOf(r).kind \in {"CREATE", "UPDATE", "DELETE", "SOFT"}
         /\ OpOf(r) = Of(OpOf(r).kind, OpOf(r).row) /\ Change(Me(r)) = OpOf(r)
         /\ OpOf(r).kind = "SOFT" => ~req[r].script.tx
         /\ commits[OpOf(r).row] \in Nat
         /\ req[r].mine \in [DOMAIN req[r].mine -> RowVersion]
         /\ DOMAIN req[r].mine \subseteq Row
         /\ \A x \in Row : View(r, x) \in RowVersion
         /\ Written(r) \in RowVersion /\ Written(r).v \in {Absent, Me(r)}
  <1>1. /\ req[r] \in Request /\ PlaceOf(r) /\ rows \in [Row -> RowVersion]
        /\ commits \in [Row -> Nat]
    BY DEF AuditInv, ShapeInv
  <1>2. /\ req[r].script \in Script[r] /\ req[r].at \in 1..Len(req[r].script.ops)
        /\ req[r].at \in Nat
    BY <1>1 DEF PlaceOf, Request
  <1>3. /\ req[r].script.tx \in BOOLEAN /\ Len(req[r].script.ops) \in Nat
        /\ OpOf(r).row \in Row /\ OpOf(r).kind \in {"CREATE", "UPDATE", "DELETE", "SOFT"}
        /\ OpOf(r) = Of(OpOf(r).kind, OpOf(r).row)
        /\ OpOf(r).kind = "SOFT" => ~req[r].script.tx
        /\ commits[OpOf(r).row] \in Nat
    <2> DEFINE s == req[r].script
               op == s.ops[req[r].at]
    <2>1. /\ s.tx \in BOOLEAN /\ Len(s.ops) \in Nat
          /\ op.row \in Row /\ op.kind \in {"CREATE", "UPDATE", "DELETE", "SOFT"}
          /\ op = Of(op.kind, op.row) /\ (op.kind = "SOFT" => ~s.tx)
      BY <1>2, ScriptTyped
    <2>2. OpOf(r) = op
      BY DEF OpOf
    <2> HIDE DEF op
    <2> QED
      BY <1>1, <2>1, <2>2
  <1>4. Me(r) \in Req \X Nat /\ Me(r) = <<r, req[r].at>> /\ Change(Me(r)) = OpOf(r)
    BY <1>2 DEF Me, Change, OpOf
  <1>5. /\ req[r].mine \in [DOMAIN req[r].mine -> RowVersion]
        /\ DOMAIN req[r].mine \subseteq Row
    <2>1. PICK X \in SUBSET Row : req[r].mine \in [X -> RowVersion]
      BY <1>1 DEF Request
    <2> QED
      BY <2>1
  <1>6. \A x \in Row : View(r, x) \in RowVersion
    BY <1>1, <1>5 DEF View
  <1>7. Written(r) \in RowVersion /\ Written(r).v \in {Absent, Me(r)}
    <2>1. Absent \in Version /\ Me(r) \in Version
      BY <1>4 DEF Version
    <2>2. View(r, OpOf(r).row).gone \in BOOLEAN
      BY <1>3, <1>6 DEF RowVersion
    <2> QED
      BY <1>3, <2>1, <2>2 DEF Written, NoRow, RowVersion
  <1> QED
    BY <1>1, <1>2, <1>3, <1>4, <1>5, <1>6, <1>7

LEMMA NoteStep ==
  ASSUME AuditInv, NEW r \in Req, NEW c \in BOOLEAN, trace' = Noted(r, c),
         req[r].pc \in {"query", "exec"}
  PROVE  /\ trace' \in [DOMAIN trace' -> Note]
         /\ DOMAIN trace' = DOMAIN trace \cup {Me(r)}
         /\ Me(r) \notin DOMAIN trace /\ Grows
         /\ \A w \in DOMAIN trace : trace'[w] = trace[w]
         /\ trace'[Me(r)].committed = c
         /\ trace'[Me(r)].seen = req[r].seen /\ trace'[Me(r)].nth = commits[OpOf(r).row]
         /\ Matches(OpOf(r).kind, req[r].old, trace'[Me(r)])
         /\ \A i \in Nat \ {req[r].at} :
               <<r, i>> \in DOMAIN trace' =>
                  <<r, i>> \in DOMAIN trace /\ trace'[<<r, i>>] = trace[<<r, i>>]
         /\ \A w \in Req \X Nat :
               w[1] # r => /\ w \in DOMAIN trace' <=> w \in DOMAIN trace
                           /\ w \in DOMAIN trace => trace'[w] = trace[w]
  <1> DEFINE x == OpOf(r).row
             note == [prev |-> View(r, x).v, committed |-> c,
                      own |-> x \in DOMAIN req[r].mine,
                      seen |-> req[r].seen, nth |-> commits[x]]
  <1>1. trace' = With(trace, Me(r), note)
    BY DEF Noted
  <1>2. /\ x \in Row /\ View(r, x) \in RowVersion /\ Me(r) = <<r, req[r].at>>
        /\ req[r].at \in Nat /\ commits[x] \in Nat /\ req[r] \in Request
    BY SeenTyped
  <1>3. note \in Note
    BY <1>2 DEF Note, RowVersion, Request
  <1>4. Me(r) \notin DOMAIN trace
    BY <1>2 DEF AuditInv, TraceOf
  <1>5. Matches(OpOf(r).kind, req[r].old, note)
    BY DEF Matches, View, AuditInv, SeenOf
  <1>6. note.committed = c /\ note.seen = req[r].seen /\ note.nth = commits[x]
    OBVIOUS
  <1> HIDE DEF note
  <1>7. trace \in [DOMAIN trace -> Note]
    BY DEF AuditInv, ShapeInv
  <1>8. /\ trace' \in [DOMAIN trace \cup {Me(r)} -> Note]
        /\ trace'[Me(r)] = note
        /\ \A w \in DOMAIN trace \ {Me(r)} : trace'[w] = trace[w]
    <2>1. /\ With(trace, Me(r), note) \in [DOMAIN trace \cup {Me(r)} -> Note]
          /\ With(trace, Me(r), note)[Me(r)] = note
          /\ \A w \in DOMAIN trace \ {Me(r)} : With(trace, Me(r), note)[w] = trace[w]
      BY <1>3, <1>7 DEF With
    <2> QED
      BY <1>1, <2>1
  <1>9. \A w \in DOMAIN trace : w \in DOMAIN trace' /\ trace'[w] = trace[w]
    BY <1>4, <1>8
  <1>10. Grows
    BY <1>9 DEF Grows
  <1>12. ASSUME NEW i \in Nat \ {req[r].at}, <<r, i>> \in DOMAIN trace'
         PROVE  <<r, i>> \in DOMAIN trace
    <2>1. <<r, i>> # Me(r)
      BY <1>2
    <2> QED
      BY <1>8, <1>12, <2>1
  <1>13. ASSUME NEW w \in Req \X Nat, w[1] # r, w \in DOMAIN trace' PROVE w \in DOMAIN trace
    <2>1. w # Me(r)
      BY <1>2, <1>13
    <2> QED
      BY <1>8, <1>13, <2>1
  <1> QED
    BY <1>4, <1>5, <1>6, <1>8, <1>9, <1>10, <1>12, <1>13

\* A step that keeps to the script of the request settles what was asked.
LEMMA SameScripts ==
  ASSUME AuditInv, NEW r \in Req, NEW q, req' = [req EXCEPT ![r] = q],
         q.script = req[r].script
  PROVE  Settled
  <1>1. req \in [Req -> Request] /\ DOMAIN trace \subseteq Req \X Nat
    BY DEF AuditInv, ShapeInv
  <1>2. \A u \in Req : req'[u].script = req[u].script
    BY <1>1
  <1> QED
    BY <1>1, <1>2 DEF Settled, Change

LEMMA AdvancedTyped ==
  ASSUME AuditInv, NEW r \in Req, req[r].pc \notin {"new", "done", "failed"}
  PROVE  /\ Advanced(r) \in Request
         /\ Advanced(r).script = req[r].script /\ Advanced(r).old.v = Absent
         /\ Advanced(r).open = req[r].open /\ Advanced(r).mine = req[r].mine
         /\ Advanced(r).at \in 1..Len(req[r].script.ops) /\ Advanced(r).at >= req[r].at
         /\ Advanced(r).pc \in {"old", "query", "commit", "done"}
         /\ Advanced(r).at = req[r].at => Advanced(r).pc \in {"commit", "done"}
         /\ Advanced(r).pc = "query" => req[r].script.ops[Advanced(r).at].kind = "CREATE"
         /\ Advanced(r).pc = "commit" <=> (Advanced(r).pc \in {"commit", "done"} /\ req[r].script.tx)
  <1> DEFINE n == Len(req[r].script.ops)
             at == IF req[r].at < n THEN req[r].at + 1 ELSE req[r].at
             pc == NextPc(r)
  <1>1. /\ req[r] \in Request /\ req[r].at \in 1..n /\ n \in Nat /\ req[r].at \in Nat
        /\ req[r].script.tx \in BOOLEAN
    BY SeenTyped
  <1>2. Advanced(r) = [req[r] EXCEPT !.pc = pc, !.old = NoRow, !.seen = 0, !.at = at]
    BY DEF Advanced
  <1>3. at \in 1..n /\ at \in Nat /\ at >= req[r].at
    BY <1>1
  <1>4. /\ pc \in {"old", "query", "commit", "done"}
        /\ at = req[r].at => pc \in {"commit", "done"}
        /\ pc = "commit" <=> (pc \in {"commit", "done"} /\ req[r].script.tx)
        /\ pc = "query" => req[r].script.ops[at].kind = "CREATE"
    BY <1>1 DEF NextPc, Entry, IsTx
  <1>5. NoRow \in RowVersion /\ NoRow.v = Absent
    BY DEF NoRow, RowVersion, Version
  <1> HIDE DEF at, pc
  <1>6. [req[r] EXCEPT !.pc = pc, !.old = NoRow, !.seen = 0, !.at = at] \in Request
    BY <1>1, <1>3, <1>4, <1>5 DEF Request, Pc
  <1>7. /\ Advanced(r).pc = pc /\ Advanced(r).old = NoRow /\ Advanced(r).at = at
        /\ Advanced(r).script = req[r].script
        /\ Advanced(r).open = req[r].open /\ Advanced(r).mine = req[r].mine
    BY <1>1, <1>2 DEF Request
  <1> QED
    BY <1>2, <1>3, <1>4, <1>5, <1>6, <1>7

LEMMA WriteAuditStep ==
  ASSUME AuditInv, NEW r \in Req, WriteAudit(r)
  PROVE  AuditInv'
  <1> DEFINE q == Advanced(r)
  <1>1. /\ req[r].pc = "audit" /\ req' = [req EXCEPT ![r] = q] /\ UNCHANGED <<rows, commits, trace>>
        /\ audit' = audit \cup {EntryOf(r)}
    BY DEF WriteAudit
  <1>2. /\ req \in [Req -> Request] /\ PlaceOf(r) /\ TraceOf(r) /\ MineOf(r) /\ OwnOf(r)
    BY DEF AuditInv, ShapeInv
  <1>3. /\ Me(r) = <<r, req[r].at>> /\ req[r].at \in Nat /\ req[r].script \in Script[r]
        /\ req[r].script.tx \in BOOLEAN
        /\ OpOf(r).kind \in {"CREATE", "UPDATE", "DELETE", "SOFT"}
    BY <1>1, SeenTyped
  <1>4. /\ q \in Request /\ q.script = req[r].script /\ q.old.v = Absent
        /\ q.open = req[r].open /\ q.mine = req[r].mine
        /\ q.at \in 1..Len(req[r].script.ops) /\ q.at \in Nat /\ q.at >= req[r].at
        /\ q.pc \in {"old", "query", "commit", "done"}
        /\ q.at = req[r].at => q.pc \in {"commit", "done"}
        /\ q.pc = "commit" <=> (q.pc \in {"commit", "done"} /\ req[r].script.tx)
        /\ q.pc = "query" => q.script.ops[q.at].kind = "CREATE"
    BY <1>1, AdvancedTyped DEF Request
  <1> HIDE DEF q
  <1>5. OnlyBy(r, q) /\ Grows
    BY <1>1 DEF OnlyBy, Grows
  <1>s. Settled
    BY <1>1, <1>4, SameScripts
  <1>k. /\ \A v : Known(v) => Known(v)'
        /\ \A x, n : DeletedWithin(x, n) => DeletedWithin(x, n)'
        /\ \A w \in DOMAIN trace : Excused(w) => Excused(w)'
    BY <1>5, <1>s, Lasting
  <1>6. req'[r] = q
    BY <1>1, <1>2
  <1>7. PlaceOf(r)'
    BY <1>2, <1>3, <1>4, <1>6 DEF PlaceOf
  <1>8. TraceOf(r)'
    <2>1. ASSUME NEW i \in Nat, <<r, i>> \in DOMAIN trace
          PROVE  /\ i <= q.at /\ (i = q.at => q.pc \in {"commit", "done"})
                 /\ Audited(<<r, i>>)' \/ (~q.script.tx /\ Excused(<<r, i>>)')
                 /\ ~q.script.tx => trace[<<r, i>>].committed
                 /\ q.script.tx => ~trace[<<r, i>>].committed
      <3>1. i <= req[r].at
        BY <1>2, <2>1 DEF TraceOf
      <3>2. Audited(<<r, i>>)' \/ (~q.script.tx /\ Excused(<<r, i>>)')
        <4>1. CASE i = req[r].at
          <5>1. EntryOf(r) \in audit' /\ EntryOf(r).write = <<r, i>>
            BY <1>1, <1>3, <4>1 DEF EntryOf
          <5> QED
            BY <5>1 DEF Audited
        <4>2. CASE i # req[r].at
          <5>1. Audited(<<r, i>>) \/ (~req[r].script.tx /\ Excused(<<r, i>>))
            BY <1>2, <2>1, <4>2 DEF TraceOf
          <5>2. Excused(<<r, i>>) => Excused(<<r, i>>)'
            BY <1>k, <2>1
          <5>3. Audited(<<r, i>>) => Audited(<<r, i>>)'
            BY <1>1 DEF Audited
          <5> QED
            BY <1>4, <5>1, <5>2, <5>3
        <4> QED
          BY <4>1, <4>2
      <3>3. /\ ~q.script.tx => trace[<<r, i>>].committed
            /\ q.script.tx => ~trace[<<r, i>>].committed
        BY <1>1, <1>2, <1>4, <2>1 DEF TraceOf
      <3>4. i <= q.at /\ (i = q.at => q.at = req[r].at)
        BY <1>3, <1>4, <3>1
      <3> QED
        BY <1>4, <3>2, <3>3, <3>4
    <2> QED
      BY <1>1, <1>4, <1>6, <2>1 DEF TraceOf
  <1>9. MineOf(r)'
    BY <1>1, <1>2, <1>4, <1>6 DEF MineOf, Known
  <1>o. OwnOf(r)' /\ \A x \in DOMAIN q.mine : \A u \in Req \ {r} : x \notin DOMAIN req[u].mine
    <2>1. \A i \in Nat : \A x \in DOMAIN q.mine : Creates(r, i, x) => Creates(r, i, x)'
      BY <1>1, <1>s DEF Creates, Settled, Of
    <2>2. \A x \in DOMAIN q.mine : DeletedWithin(x, commits[x]) => DeletedWithin(x, commits[x])'
      BY <1>1, <1>k
    <2>3. \A u \in Req \ {r} : req'[u] = req[u]
      BY <1>1, <1>2
    <2> QED
      BY <1>1, <1>2, <1>4, <1>6, <2>1, <2>2, <2>3 DEF OwnOf
  <1>e. SeenOf(r)'
    <2>1. OpOf(r)' = q.script.ops[q.at]
      BY <1>6 DEF OpOf
    <2> QED
      BY <1>4, <1>6, <2>1 DEF SeenOf
  <1>10. ASSUME NEW e \in audit' \ audit PROVE EntryInv(e)'
    <2>1. /\ Me(r) \in DOMAIN trace /\ Matches(OpOf(r).kind, req[r].old, trace[Me(r)])
          /\ Known(req[r].old.v)
      BY <1>1, <1>2 DEF TraceOf, MineOf
    <2>2. e = EntryOf(r)
      BY <1>1
    <2>3. /\ e.write = Me(r) /\ e.old = req[r].old
          /\ e.action # "INSERT" => OpOf(r).kind # "CREATE"
      BY <1>3, <2>2 DEF EntryOf, ActionOf
    <2>4. EntryInv(e)
      BY <2>1, <2>3 DEF EntryInv, Matches
    <2> QED
      BY <1>1, <2>4 DEF EntryInv, Known, Committed
  <1>11. (\A x \in Row : RowInv(x))' /\ \A x \in Row : Touches(r, x)
    BY <1>1, <1>k DEF AuditInv, RowInv, Touches
  <1> QED
    BY <1>1, <1>4, <1>5, <1>s, <1>7, <1>8, <1>9, <1>o, <1>e, <1>10, <1>11, GrowStep
    DEF AuditInv, ShapeInv

\* What a write notes, named by the row, the position and the kind of change.
Wrote(r, c, q, x, i, k) ==
    /\ x \in Row /\ i \in Nat /\ i \in 1..Len(req[r].script.ops)
    /\ k \in {"CREATE", "UPDATE", "DELETE", "SOFT"} /\ Me(r) = <<r, i>>
    /\ <<r, i>> \notin DOMAIN trace
    /\ DOMAIN trace' = DOMAIN trace \cup {<<r, i>>}
    /\ trace' \in [DOMAIN trace' -> Note] /\ DOMAIN trace' \subseteq Req \X Nat
    /\ \A w \in DOMAIN trace : trace'[w] = trace[w]
    /\ (trace'[<<r, i>>].committed <=> c) /\ trace'[<<r, i>>].seen = req[r].seen
    /\ trace'[<<r, i>>].nth = commits[x]
    /\ Matches(k, req[r].old, trace'[<<r, i>>])
    /\ Change(<<r, i>>)' = Of(k, x) /\ (Committed(<<r, i>>)' <=> c)
    /\ \A u, n : /\ Of(k, x) = Of("SOFT", u) <=> k = "SOFT" /\ x = u
                 /\ Of(k, x) = Of("CREATE", u) <=> k = "CREATE" /\ x = u
    /\ OnlyBy(r, q) /\ Grows /\ Settled
    /\ \A v : Known(v) => Known(v)'
    /\ \A y, n : DeletedWithin(y, n) => DeletedWithin(y, n)'
    /\ \A y, n : CreatedAfter(y, n) => CreatedAfter(y, n)'
    /\ \A w \in DOMAIN trace : Excused(w) => Excused(w)'

LEMMA WriteStep ==
  ASSUME AuditInv, NEW r \in Req, NEW c \in BOOLEAN, trace' = Noted(r, c),
         req[r].pc \in {"query", "exec"}, NEW q, req' = [req EXCEPT ![r] = q],
         q.script = req[r].script, audit' = audit, NEW x, x = OpOf(r).row,
         NEW i, i = req[r].at, NEW k, k = OpOf(r).kind
  PROVE  Wrote(r, c, q, x, i, k)
  <1>1. /\ x \in Row /\ i \in Nat /\ i \in 1..Len(req[r].script.ops)
        /\ k \in {"CREATE", "UPDATE", "DELETE", "SOFT"}
        /\ Me(r) = <<r, i>> /\ OpOf(r) = Of(k, x)
    BY SeenTyped
  <1>2. /\ <<r, i>> \notin DOMAIN trace
        /\ DOMAIN trace' = DOMAIN trace \cup {<<r, i>>}
        /\ trace' \in [DOMAIN trace' -> Note]
        /\ \A w \in DOMAIN trace : trace'[w] = trace[w]
        /\ trace'[<<r, i>>].committed = c /\ trace'[<<r, i>>].seen = req[r].seen
        /\ trace'[<<r, i>>].nth = commits[x]
        /\ Matches(k, req[r].old, trace'[<<r, i>>]) /\ Grows
    BY <1>1, NoteStep
  <1>3. req \in [Req -> Request] /\ DOMAIN trace \subseteq Req \X Nat
    BY DEF AuditInv, ShapeInv
  <1>4. DOMAIN trace' \subseteq Req \X Nat
    BY <1>1, <1>2, <1>3
  <1>5. req'[r] = q /\ OpOf(r) = req[r].script.ops[i]
    BY <1>3 DEF OpOf
  <1>6. Change(<<r, i>>)' = Of(k, x)
    BY <1>1, <1>5 DEF Change
  <1>7. Committed(<<r, i>>)' = c
    BY <1>2 DEF Committed
  <1>8. OnlyBy(r, q)
    BY NoteStep DEF OnlyBy
  <1>9. Settled
    BY SameScripts
  <1>10. \A u, n : /\ Of(k, x) = Of("SOFT", u) <=> k = "SOFT" /\ x = u
                   /\ Of(k, x) = Of("CREATE", u) <=> k = "CREATE" /\ x = u
    BY DEF Of
  <1>11. /\ \A v : Known(v) => Known(v)'
         /\ \A y, n : DeletedWithin(y, n) => DeletedWithin(y, n)'
         /\ \A y, n : CreatedAfter(y, n) => CreatedAfter(y, n)'
         /\ \A w \in DOMAIN trace : Excused(w) => Excused(w)'
    BY <1>2, <1>9, Lasting
  <1> QED
    BY <1>1, <1>2, <1>4, <1>6, <1>7, <1>8, <1>9, <1>10, <1>11 DEF Wrote

\* A write of a transaction.
LEMMA QueryInTxStep ==
  ASSUME AuditInv, NEW r \in Req, req[r].pc = "query", IsTx(r), req[r].open,
         req' = [req EXCEPT ![r].pc = "audit",
                            ![r].mine = With(@, OpOf(r).row, Written(r))],
         trace' = Noted(r, FALSE), UNCHANGED <<rows, commits, audit>>,
         Applies(r), ~LockedByOther(r, OpOf(r).row)
  PROVE  AuditInv'
  <1> SUFFICES ASSUME NEW x, x = OpOf(r).row, NEW i, i = req[r].at,
                      NEW k, k = OpOf(r).kind
               PROVE  AuditInv'
    OBVIOUS
  <1> DEFINE mine == With(req[r].mine, x, Written(r))
             q == [req[r] EXCEPT !.pc = "audit", !.mine = mine]
  <1>1. req' = [req EXCEPT ![r] = q] /\ req[r].script.tx
    BY DEF IsTx
  <1>2. /\ req \in [Req -> Request] /\ PlaceOf(r) /\ TraceOf(r) /\ MineOf(r) /\ OwnOf(r)
        /\ rows \in [Row -> RowVersion] /\ commits \in [Row -> Nat] /\ req[r] \in Request
    BY DEF AuditInv, ShapeInv
  <1>3. /\ req[r].mine \in [DOMAIN req[r].mine -> RowVersion]
        /\ DOMAIN req[r].mine \subseteq Row /\ x \in Row /\ Me(r) = <<r, i>>
        /\ Written(r) \in RowVersion /\ Written(r).v \in {Absent, <<r, i>>}
        /\ k \in {"CREATE", "UPDATE", "DELETE"}
    BY <1>1, SeenTyped
  <1>l. \A u \in Req \ {r} : x \notin DOMAIN req[u].mine
    BY DEF LockedByOther
  <1>w. /\ Written(r).gone => View(r, x).gone
        /\ View(r, x).v = Absent /\ Written(r).v # Absent => k = "CREATE"
    BY <1>3 DEF Written, Applies, NoRow
  <1>5. /\ mine \in [DOMAIN req[r].mine \cup {x} -> RowVersion] /\ mine[x] = Written(r)
        /\ \A y \in DOMAIN req[r].mine \ {x} : mine[y] = req[r].mine[y]
    BY <1>3 DEF With
  <1> HIDE DEF mine
  <1>6. mine \in UNION {[X -> RowVersion] : X \in SUBSET Row}
    BY <1>3, <1>5
  <1>7. /\ q \in Request /\ q.pc = "audit" /\ q.script = req[r].script /\ q.at = i
        /\ q.old = req[r].old /\ q.mine = mine /\ q.open
    BY <1>2, <1>6 DEF Request, Pc
  <1> HIDE DEF q
  <1>8. req'[r] = q
    BY <1>1, <1>2
  <1>9. Me(r)' = <<r, i>> /\ OpOf(r)' = OpOf(r)
    BY <1>7, <1>8 DEF Me, OpOf
  <1>q. Wrote(r, FALSE, q, x, i, k)
    BY <1>1, <1>7, WriteStep
  <1>4. /\ i \in Nat /\ <<r, i>> \notin DOMAIN trace
        /\ DOMAIN trace' = DOMAIN trace \cup {<<r, i>>}
        /\ trace' \in [DOMAIN trace' -> Note] /\ DOMAIN trace' \subseteq Req \X Nat
        /\ \A w \in DOMAIN trace : trace'[w] = trace[w]
        /\ ~trace'[<<r, i>>].committed /\ trace'[<<r, i>>].nth = commits[x]
        /\ Matches(k, req[r].old, trace'[<<r, i>>])
        /\ Change(<<r, i>>)' = Of(k, x) /\ OnlyBy(r, q) /\ Grows /\ Settled
        /\ \A v : Known(v) => Known(v)'
        /\ \A y, n : DeletedWithin(y, n) => DeletedWithin(y, n)'
    BY <1>q DEF Wrote
  <1>11. PlaceOf(r)' /\ SeenOf(r)'
    BY <1>1, <1>2, <1>7, <1>8 DEF PlaceOf, SeenOf
  <1>12. TraceOf(r)'
    <2>1. ASSUME NEW j \in Nat, <<r, j>> \in DOMAIN trace'
          PROVE  /\ j <= i /\ (Audited(<<r, j>>)' \/ j = i)
                 /\ ~trace'[<<r, j>>].committed
      <3>1. CASE j = i
        <4>1. ~trace'[<<r, i>>].committed
          BY <1>4
        <4>2. j <= i
          BY <2>1, <3>1
        <4> QED
          BY <3>1, <4>1, <4>2
      <3>2. CASE j # i
        <4>1. <<r, j>> \in DOMAIN trace /\ trace'[<<r, j>>] = trace[<<r, j>>]
          BY <1>4, <2>1, <3>2
        <4> QED
          BY <1>1, <1>2, <3>2, <4>1 DEF TraceOf, Audited
      <3> QED
        BY <3>1, <3>2
    <2>2. /\ OpOf(r)'.kind = k /\ Me(r)' \in DOMAIN trace'
          /\ Matches(k, q.old, trace'[Me(r)'])
      BY <1>4, <1>7, <1>9
    <2>3. req'[r].pc = "audit" /\ req'[r].at = i /\ req'[r].script.tx /\ req'[r].old = q.old
      BY <1>1, <1>7, <1>8
    <2> QED
      BY <2>1, <2>2, <2>3 DEF TraceOf
  <1>13. MineOf(r)'
    <2>1. ASSUME NEW v, v = req[r].old.v PROVE Known(v)'
      BY <1>2, <1>4, <2>1 DEF MineOf
    <2>2. ASSUME NEW y \in DOMAIN mine
          PROVE  \/ mine[y].v = Absent
                 \/ \E j \in Nat : mine[y].v = <<r, j>> /\ <<r, j>> \in DOMAIN trace'
      <3>1. CASE y = x
        BY <1>3, <1>4, <1>5, <3>1
      <3>2. CASE y # x
        <4>1. y \in DOMAIN req[r].mine /\ mine[y] = req[r].mine[y]
          BY <1>5, <3>2
        <4> QED
          BY <1>2, <1>4, <4>1 DEF MineOf
      <3> QED
        BY <3>1, <3>2
    <2> QED
      BY <1>7, <1>8, <2>1, <2>2 DEF MineOf
  <1>o. OwnOf(r)' /\ \A y \in DOMAIN mine : \A u \in Req \ {r} : y \notin DOMAIN req[u].mine
    <2> DEFINE Own(y, row, n) == /\ row.gone => DeletedWithin(y, n)'
                                 /\ row.v # Absent /\ rows[y].v = Absent =>
                                       \E j \in Nat : Creates(r, j, y)'
    <2>1. \A u \in Req \ {r} : req'[u] = req[u]
      BY <1>1, <1>2
    <2>2. ASSUME NEW y \in DOMAIN req[r].mine, NEW n, n = commits[y]
          PROVE  /\ \A u \in Req \ {r} : y \notin DOMAIN req[u].mine
                 /\ Own(y, req[r].mine[y], n)
      <3>1. /\ \A u \in Req \ {r} : y \notin DOMAIN req[u].mine
            /\ req[r].mine[y].gone => DeletedWithin(y, n)
            /\ req[r].mine[y].v # Absent /\ rows[y].v = Absent =>
                  \E j \in Nat : Creates(r, j, y)
        BY <1>2, <2>2 DEF OwnOf
      <3>2. DeletedWithin(y, n) => DeletedWithin(y, n)'
        BY <1>4
      <3>3. \A j \in Nat : Creates(r, j, y) => Creates(r, j, y)'
        BY <1>4 DEF Creates, Settled, Of
      <3> QED
        BY <3>1, <3>2, <3>3
    <2>3. ASSUME NEW n, n = commits[x] PROVE Own(x, mine[x], n)
      <3>1. k = "CREATE" => Creates(r, i, x)'
        BY <1>4 DEF Creates, Of
      <3>2. Own(x, View(r, x), n)
        <4>1. CASE x \in DOMAIN req[r].mine
          <5>1. View(r, x) = req[r].mine[x]
            BY <4>1 DEF View
          <5>2. Own(x, req[r].mine[x], n)
            BY <2>2, <2>3, <4>1
          <5> HIDE DEF Own
          <5> QED
            BY <5>1, <5>2
        <4>2. CASE x \notin DOMAIN req[r].mine
          <5>1. View(r, x) = rows[x]
            BY <4>2 DEF View
          <5>2. rows[x].gone => DeletedWithin(x, n)
            BY <1>3, <2>3 DEF AuditInv, RowInv
          <5>3. rows[x].gone => DeletedWithin(x, n)'
            BY <1>4, <5>2
          <5> QED
            BY <5>1, <5>3
        <4> QED
          BY <4>1, <4>2
      <3>3. /\ mine[x].gone => View(r, x).gone
            /\ mine[x].v # Absent => View(r, x).v # Absent \/ k = "CREATE"
        BY <1>5, <1>w
      <3> QED
        BY <1>4, <3>1, <3>2, <3>3
    <2>4. ASSUME NEW y \in DOMAIN mine, NEW n, n = commits[y]
          PROVE  /\ \A u \in Req \ {r} : y \notin DOMAIN req[u].mine
                 /\ Own(y, mine[y], n)
      <3> HIDE DEF Own
      <3>1. CASE y = x
        BY <1>l, <2>3, <2>4, <3>1
      <3>2. CASE y # x
        <4>1. y \in DOMAIN req[r].mine /\ mine[y] = req[r].mine[y]
          BY <1>5, <3>2
        <4> QED
          BY <2>2, <2>4, <4>1
      <3> QED
        BY <3>1, <3>2
    <2>5. OwnOf(r)'
      <3> SUFFICES ASSUME NEW y \in DOMAIN mine, NEW n, n = commits[y]
                   PROVE  /\ \A u \in Req \ {r} : y \notin DOMAIN req'[u].mine
                          /\ Own(y, mine[y], n)
        BY <1>7, <1>8 DEF OwnOf
      <3> HIDE DEF Own
      <3> QED
        BY <2>1, <2>4
    <2> HIDE DEF Own
    <2> QED
      BY <2>4, <2>5
  <1>14. (\A y \in Row : RowInv(y))' /\ \A y \in Row : Touches(r, y)
    <2>1. ASSUME NEW y \in Row, NEW n, n = commits[y]
          PROVE  Known(rows[y].v)' /\ (rows[y].gone => DeletedWithin(y, n)')
      <3>1. Known(rows[y].v) /\ (rows[y].gone => DeletedWithin(y, n))
        BY <2>1 DEF AuditInv, RowInv
      <3>2. ASSUME NEW v, v = rows[y].v PROVE Known(v)'
        BY <1>4, <3>1, <3>2
      <3> QED
        BY <1>4, <3>1, <3>2
    <2> QED
      BY <2>1 DEF RowInv, Touches
  <1> QED
    BY <1>2, <1>4, <1>7, <1>11, <1>12, <1>13, <1>o, <1>14, GrowStep

\* A write on its own, which commits.
LEMMA QueryAloneStep ==
  ASSUME AuditInv, NEW r \in Req, req[r].pc = "exec",
         rows' = [rows EXCEPT ![OpOf(r).row] = Written(r)],
         commits' = [commits EXCEPT ![OpOf(r).row] = @ + 1],
         Applies(r), ~LockedByOther(r, OpOf(r).row),
         trace' = Noted(r, TRUE), UNCHANGED audit,
         req' = IF Unaudited(r) THEN [req EXCEPT ![r] = Advanced(r)]
                ELSE [req EXCEPT ![r].pc = "audit"]
  PROVE  AuditInv'
  <1> SUFFICES ASSUME NEW x, x = OpOf(r).row, NEW i, i = req[r].at,
                      NEW k, k = OpOf(r).kind, NEW n, n = commits[x],
                      NEW s, s = req[r].seen
               PROVE  AuditInv'
    OBVIOUS
  <1> DEFINE q == IF Unaudited(r) THEN Advanced(r) ELSE [req[r] EXCEPT !.pc = "audit"]
  <1>1. /\ req \in [Req -> Request] /\ PlaceOf(r) /\ TraceOf(r) /\ MineOf(r)
        /\ rows \in [Row -> RowVersion] /\ ~req[r].script.tx /\ SeenOf(r)
        /\ DOMAIN req[r].mine = {} /\ commits \in [Row -> Nat] /\ req[r] \in Request
    BY DEF AuditInv, ShapeInv, PlaceOf
  <1>2. req' = [req EXCEPT ![r] = q]
    OBVIOUS
  <1>3. /\ x \in Row /\ Me(r) = <<r, i>> /\ i \in Nat /\ n \in Nat
        /\ Written(r) \in RowVersion /\ Written(r).v \in {Absent, <<r, i>>}
        /\ i \in 1..Len(req[r].script.ops) /\ Len(req[r].script.ops) \in Nat
        /\ k \in {"CREATE", "UPDATE", "DELETE", "SOFT"}
    BY SeenTyped
  <1>l. \A u \in Req \ {r} : x \notin DOMAIN req[u].mine
    BY DEF LockedByOther
  <1>w. /\ Written(r).gone => rows[x].gone \/ k = "SOFT"
        /\ rows[x].v = Absent <=> k = "CREATE"
    BY <1>1, <1>3 DEF Written, Applies, View, NoRow
  <1>5. /\ q \in Request /\ q.script = req[r].script /\ q.mine = req[r].mine
        /\ q.open = req[r].open /\ q.at \in 1..Len(req[r].script.ops) /\ q.at \in Nat
        /\ q.at >= i /\ (q.old.v = Absent \/ q.old = req[r].old)
        /\ q.pc \in {"audit", "old", "query", "done"}
        /\ q.pc = "query" => q.script.ops[q.at].kind = "CREATE"
    <2>1. CASE Unaudited(r)
      BY <1>1, <2>1, AdvancedTyped DEF Request
    <2>2. CASE ~Unaudited(r)
      <3>1. q = [req[r] EXCEPT !.pc = "audit"]
        BY <2>2
      <3> HIDE DEF q
      <3>2. /\ q \in Request /\ q.pc = "audit" /\ q.at = req[r].at
            /\ q.script = req[r].script /\ q.mine = req[r].mine
            /\ q.open = req[r].open /\ q.old = req[r].old
        BY <1>1, <3>1 DEF Request, Pc
      <3>3. i >= i
        BY <1>3
      <3> QED
        BY <1>3, <3>2, <3>3
    <2> QED
      BY <2>1, <2>2
  <1>6. \/ q.pc = "audit" /\ q.at = i /\ q.old = req[r].old
        \/ /\ q.pc # "audit" /\ Unaudited(r)
           /\ q.at = i => q.pc = "done"
    <2>1. CASE Unaudited(r)
      BY <1>1, <2>1, AdvancedTyped
    <2>2. CASE ~Unaudited(r)
      BY <1>1, <2>2 DEF Request
    <2> QED
      BY <2>1, <2>2
  <1> HIDE DEF q
  <1>7. req'[r] = q
    BY <1>1, <1>2
  <1>q. Wrote(r, TRUE, q, x, i, k)
    BY <1>2, <1>5, WriteStep
  <1>4. /\ <<r, i>> \notin DOMAIN trace
        /\ DOMAIN trace' = DOMAIN trace \cup {<<r, i>>}
        /\ trace' \in [DOMAIN trace' -> Note] /\ DOMAIN trace' \subseteq Req \X Nat
        /\ \A w \in DOMAIN trace : trace'[w] = trace[w]
        /\ trace'[<<r, i>>].committed /\ trace'[<<r, i>>].seen = s
        /\ trace'[<<r, i>>].nth = n /\ Matches(k, req[r].old, trace'[<<r, i>>])
    BY <1>q DEF Wrote
  <1>c. /\ Change(<<r, i>>)' = Of(k, x) /\ Committed(<<r, i>>)'
        /\ OnlyBy(r, q) /\ Grows /\ Settled
    BY <1>q DEF Wrote
  <1>k. /\ \A v : Known(v) => Known(v)'
        /\ \A y, m : DeletedWithin(y, m) => DeletedWithin(y, m)'
        /\ \A y, m : CreatedAfter(y, m) => CreatedAfter(y, m)'
        /\ \A w \in DOMAIN trace : Excused(w) => Excused(w)'
    BY <1>q DEF Wrote
  <1>9. PlaceOf(r)' /\ SeenOf(r)' /\ OwnOf(r)'
    <2>1. PlaceOf(r)' /\ OwnOf(r)'
      BY <1>1, <1>5, <1>7 DEF PlaceOf, OwnOf
    <2>2. OpOf(r)' = q.script.ops[q.at]
      BY <1>7 DEF OpOf
    <2> QED
      BY <1>5, <1>7, <2>1, <2>2 DEF SeenOf
  <1>u. Unaudited(r) => Excused(<<r, i>>)'
    <2> SUFFICES ASSUME Unaudited(r) PROVE Excused(<<r, i>>)'
      OBVIOUS
    <2>1. k = "SOFT" /\ (req[r].old.v = Absent \/ req[r].old.gone)
      BY DEF Unaudited, Alive
    <2>2. DeletedWithin(x, s) \/ CreatedAfter(x, s)
      BY <1>1, <1>w, <2>1 DEF SeenOf
    <2>3. DeletedWithin(x, s)' \/ CreatedAfter(x, s)'
      BY <1>k, <2>2
    <2>4. Change(<<r, i>>)'.kind = "SOFT" /\ Change(<<r, i>>)'.row = x
      BY <1>c, <2>1 DEF Of
    <2> QED
      BY <1>4, <2>3, <2>4 DEF Excused
  <1>10. TraceOf(r)'
    <2>1. ASSUME NEW j \in Nat, <<r, j>> \in DOMAIN trace'
          PROVE  /\ j <= q.at /\ (j = q.at => q.pc \in {"audit", "done"})
                 /\ \/ Audited(<<r, j>>)' \/ (j = q.at /\ q.pc = "audit")
                    \/ Excused(<<r, j>>)'
                 /\ trace'[<<r, j>>].committed
      <3>1. CASE j = i
        <4>1. trace'[<<r, j>>].committed /\ j <= q.at
          BY <1>3, <1>4, <1>5, <3>1
        <4>2. Unaudited(r) => Excused(<<r, j>>)'
          BY <1>u, <3>1
        <4> QED
          BY <1>6, <3>1, <4>1, <4>2
      <3>2. CASE j # i
        <4>1. <<r, j>> \in DOMAIN trace /\ trace'[<<r, j>>] = trace[<<r, j>>]
          BY <1>4, <2>1, <3>2
        <4>2. j <= i /\ j < q.at
          BY <1>1, <1>3, <1>5, <3>2, <4>1 DEF TraceOf
        <4>3. Audited(<<r, j>>)' \/ Excused(<<r, j>>)'
          <5>1. Audited(<<r, j>>) \/ Excused(<<r, j>>)
            BY <1>1, <3>2, <4>1 DEF TraceOf
          <5>2. Excused(<<r, j>>) => Excused(<<r, j>>)'
            BY <1>k, <4>1
          <5>3. Audited(<<r, j>>) => Audited(<<r, j>>)'
            BY DEF Audited
          <5> QED
            BY <5>1, <5>2, <5>3
        <4>4. trace'[<<r, j>>].committed
          BY <1>1, <4>1 DEF TraceOf
        <4>5. j <= q.at /\ j # q.at
          BY <1>5, <4>2
        <4> QED
          BY <4>3, <4>4, <4>5
      <3> QED
        BY <3>1, <3>2
    <2>2. q.pc = "audit" => /\ Me(r)' = <<r, i>> /\ OpOf(r)' = OpOf(r)
                            /\ q.old = req[r].old
      BY <1>5, <1>6, <1>7 DEF Me, OpOf
    <2>3. q.pc = "audit" => /\ OpOf(r)'.kind = k /\ Me(r)' \in DOMAIN trace'
                            /\ Matches(k, q.old, trace'[Me(r)'])
      BY <1>4, <2>2
    <2>4. /\ req'[r].pc = q.pc /\ req'[r].at = q.at /\ ~req'[r].script.tx
          /\ req'[r].old = q.old /\ q.pc # "new"
      BY <1>1, <1>5, <1>7
    <2> QED
      BY <2>1, <2>3, <2>4 DEF TraceOf
  <1>11. MineOf(r)'
    <2>1. ASSUME NEW v, v = q.old.v PROVE Known(v)'
      <3>1. Known(v)
        BY <1>1, <1>5, <2>1 DEF MineOf, Known
      <3> QED
        BY <1>k, <3>1
    <2> QED
      BY <1>1, <1>5, <1>7, <2>1 DEF MineOf
  <1>12. /\ rows' \in [Row -> RowVersion] /\ rows'[x] = Written(r)
         /\ commits' \in [Row -> Nat] /\ commits'[x] = n + 1
         /\ \A y \in Row \ {x} : rows'[y] = rows[y] /\ commits'[y] = commits[y]
    BY <1>1, <1>3
  <1>13. (\A y \in Row : RowInv(y))'
    <2> SUFFICES ASSUME NEW y \in Row, NEW m, m = commits'[y]
                 PROVE  Known(rows[y].v)' /\ (rows'[y].gone => DeletedWithin(y, m)')
      BY DEF RowInv
    <2>1. CASE y = x
      <3>1. Known(rows[y].v)'
        BY <1>3, <1>c, <1>12, <2>1 DEF Known
      <3>2. m = n + 1 /\ m \in Nat
        BY <1>3, <1>12, <2>1
      <3>3. CASE k = "SOFT"
        <4>1. n < m
          BY <1>3, <3>2
        <4>2. <<r, i>> \in DOMAIN trace' /\ trace'[<<r, i>>].nth < m
          BY <1>4, <4>1
        <4>3. Change(<<r, i>>)' = Of("SOFT", y) /\ Committed(<<r, i>>)'
          BY <1>c, <2>1, <3>3
        <4>4. DeletedWithin(y, m)'
          BY <4>2, <4>3 DEF DeletedWithin, Of
        <4> QED
          BY <3>1, <4>4
      <3>4. CASE k # "SOFT"
        <4>1. rows'[y].gone => DeletedWithin(x, n)
          BY <1>3, <1>12, <1>w, <2>1, <3>4 DEF AuditInv, RowInv
        <4>2. ASSUME DeletedWithin(x, n) PROVE DeletedWithin(y, m)'
          <5>1. DeletedWithin(x, n)'
            BY <1>k, <4>2
          <5>2. PICK v \in DOMAIN trace' :
                   Committed(v)' /\ Change(v)' = Of("SOFT", x) /\ trace'[v].nth < n
            BY <5>1 DEF DeletedWithin, Of
          <5>3. trace'[v].nth \in Nat
            BY <1>4 DEF Note
          <5>4. trace'[v].nth < m
            <6>1. ASSUME NEW h \in Nat, h < n PROVE h < m
              BY <1>3, <3>2, <6>1
            <6>2. trace'[v].nth < n
              BY <5>2
            <6> QED
              BY <5>3, <6>1, <6>2
          <5> QED
            BY <2>1, <5>2, <5>4 DEF DeletedWithin, Of
        <4> QED
          BY <3>1, <4>1, <4>2
      <3> QED
        BY <3>3, <3>4
    <2>2. CASE y # x
      <3>1. RowInv(y) /\ rows'[y] = rows[y] /\ m = commits[y]
        BY <1>12, <2>2 DEF AuditInv
      <3>2. Known(rows[y].v) /\ (rows[y].gone => DeletedWithin(y, m))
        BY <3>1 DEF RowInv
      <3>3. ASSUME NEW v, v = rows[y].v PROVE Known(v)'
        BY <1>k, <3>2, <3>3
      <3> QED
        BY <1>k, <3>1, <3>2, <3>3
    <2> QED
      BY <2>1, <2>2
  <1>14. \A y \in Row : Touches(r, y)
    <2> SUFFICES ASSUME NEW y \in Row PROVE Touches(r, y)
      OBVIOUS
    <2>1. CASE y = x
      <3> SUFFICES ASSUME rows[x].v = Absent PROVE CreatedAfter(x, n)'
        BY <1>3, <1>12, <1>l, <2>1 DEF Touches
      <3>1. n >= n
        BY <1>3
      <3>2. <<r, i>> \in DOMAIN trace' /\ trace'[<<r, i>>].nth >= n
        BY <1>4, <3>1
      <3>3. Change(<<r, i>>)' = Of("CREATE", x) /\ Committed(<<r, i>>)'
        BY <1>c, <1>w
      <3> QED
        BY <3>2, <3>3 DEF CreatedAfter, Of
    <2>2. CASE y # x
      BY <1>12, <2>2 DEF Touches
    <2> QED
      BY <2>1, <2>2
  <1>15. \A y \in DOMAIN q.mine : \A u \in Req \ {r} : y \notin DOMAIN req[u].mine
    BY <1>1, <1>5
  <1> QED
    BY <1>4, <1>c, <1>5, <1>9, <1>10, <1>11, <1>12, <1>13, <1>14, <1>15, GrowStep

LEMMA QueryStep ==
  ASSUME AuditInv, NEW r \in Req, Query(r)
  PROVE  AuditInv'
  <1>1. UNCHANGED audit /\ Applies(r) /\ ~LockedByOther(r, OpOf(r).row)
    BY DEF Query, QueryTo
  <1>2. CASE /\ req[r].pc = "query" /\ IsTx(r) /\ req[r].open
             /\ req' = [req EXCEPT ![r].pc = "audit",
                                   ![r].mine = With(@, OpOf(r).row, Written(r))]
             /\ trace' = Noted(r, FALSE)
             /\ UNCHANGED <<rows, commits>>
    BY <1>1, <1>2, QueryInTxStep
  <1>3. CASE /\ req[r].pc = "exec"
             /\ rows' = [rows EXCEPT ![OpOf(r).row] = Written(r)]
             /\ commits' = [commits EXCEPT ![OpOf(r).row] = @ + 1]
             /\ trace' = Noted(r, TRUE)
             /\ req' = IF Unaudited(r) THEN [req EXCEPT ![r] = Advanced(r)]
                       ELSE [req EXCEPT ![r].pc = "audit"]
    BY <1>1, <1>3, QueryAloneStep
  <1> QED
    BY <1>2, <1>3 DEF Query, QueryTo

LEMMA CommitStep ==
  ASSUME AuditInv, NEW r \in Req, Commit(r)
  PROVE  AuditInv'
  <1> DEFINE q == [req[r] EXCEPT !.pc = "done", !.open = FALSE, !.mine = None]
  <1>1. /\ req[r].pc = "commit" /\ req' = [req EXCEPT ![r] = q] /\ UNCHANGED audit
        /\ rows' = [x \in Row |-> View(r, x)]
        /\ commits' = [x \in Row |-> IF x \in DOMAIN req[r].mine THEN commits[x] + 1
                                                                 ELSE commits[x]]
        /\ trace' = [w \in DOMAIN trace |->
                        IF w[1] = r THEN [trace[w] EXCEPT !.committed = TRUE] ELSE trace[w]]
    BY DEF Commit
  <1>2. /\ req \in [Req -> Request] /\ rows \in [Row -> RowVersion]
        /\ commits \in [Row -> Nat] /\ OwnOf(r)
        /\ PlaceOf(r) /\ TraceOf(r) /\ MineOf(r) /\ req[r].script.tx
        /\ trace \in [DOMAIN trace -> Note] /\ DOMAIN trace \subseteq Req \X Nat
    BY <1>1 DEF AuditInv, ShapeInv, PlaceOf
  <1>3. /\ q \in Request /\ q.pc = "done" /\ q.script = req[r].script /\ q.at = req[r].at
        /\ q.old = req[r].old /\ q.mine = None /\ ~q.open
    BY <1>2, NoneTyped DEF Request, Pc
  <1> HIDE DEF q
  <1>4. req'[r] = q
    BY <1>1, <1>2
  <1>5. /\ DOMAIN trace' = DOMAIN trace /\ trace' \in [DOMAIN trace' -> Note] /\ Grows
        /\ DOMAIN trace' \subseteq Req \X Nat
        /\ \A w \in DOMAIN trace : /\ w[1] = r => trace'[w].committed
                                   /\ w[1] # r => trace'[w] = trace[w]
    BY <1>1, <1>2 DEF Note, Grows
  <1>6. OnlyBy(r, q) /\ Settled
    <2>1. OnlyBy(r, q)
      BY <1>1, <1>5 DEF OnlyBy
    <2> QED
      BY <1>1, <1>3, <2>1, SameScripts
  <1>7. /\ \A v : Known(v) => Known(v)'
        /\ \A y, n : DeletedWithin(y, n) => DeletedWithin(y, n)'
    BY <1>5, <1>6, Lasting
  <1>8. PlaceOf(r)' /\ SeenOf(r)' /\ OwnOf(r)'
    BY <1>1, <1>2, <1>3, <1>4, NoneTyped DEF PlaceOf, SeenOf, OwnOf
  <1>9. TraceOf(r)'
    <2>1. ASSUME NEW i \in Nat, <<r, i>> \in DOMAIN trace'
          PROVE  /\ i <= q.at /\ trace'[<<r, i>>].committed
                 /\ Audited(<<r, i>>)'
      <3>1. <<r, i>> \in DOMAIN trace
        BY <1>5, <2>1
      <3>2. trace'[<<r, i>>].committed
        BY <1>5, <3>1
      <3> QED
        BY <1>1, <1>2, <1>3, <3>1, <3>2 DEF TraceOf, Audited
    <2> QED
      BY <1>2, <1>3, <1>4, <2>1 DEF TraceOf
  <1>10. MineOf(r)'
    <2>1. ASSUME NEW v, v = q.old.v PROVE Known(v)'
      BY <1>2, <1>3, <1>7, <2>1 DEF MineOf
    <2> QED
      BY <1>3, <1>4, <2>1, NoneTyped DEF MineOf
  <1>11. rows' \in [Row -> RowVersion] /\ commits' \in [Row -> Nat]
    BY <1>1, <1>2, SeenTyped
  \* A row the transaction leaves alone, and one it wrote.
  <1>12. ASSUME NEW x \in Row, x \notin DOMAIN req[r].mine
         PROVE  rows'[x] = rows[x] /\ commits'[x] = commits[x]
    BY <1>1, <1>12 DEF View
  <1>13. ASSUME NEW x \in Row, x \in DOMAIN req[r].mine
         PROVE  rows'[x] = req[r].mine[x] /\ commits'[x] = commits[x] + 1
    BY <1>1, <1>13 DEF View
  <1>14. ASSUME NEW x \in Row PROVE RowInv(x)'
    <2> SUFFICES ASSUME NEW m, m = commits'[x]
                 PROVE  Known(rows[x].v)' /\ (rows'[x].gone => DeletedWithin(x, m)')
      BY DEF RowInv
    <2>1. CASE x \in DOMAIN req[r].mine
      <3>1. ASSUME NEW v, v = rows'[x].v PROVE Known(v)'
        <4>1. \/ v = Absent
              \/ \E i \in Nat : v = <<r, i>> /\ <<r, i>> \in DOMAIN trace
          BY <1>2, <1>13, <2>1, <3>1 DEF MineOf
        <4>2. ASSUME NEW i \in Nat, <<r, i>> \in DOMAIN trace
              PROVE  <<r, i>> \in DOMAIN trace' /\ trace'[<<r, i>>].committed
          BY <1>5, <4>2
        <4> QED
          BY <4>1, <4>2 DEF Known, Committed
      <3>2. ASSUME rows'[x].gone PROVE DeletedWithin(x, m)'
        <4> SUFFICES ASSUME NEW n, n = commits[x] PROVE DeletedWithin(x, m)'
          OBVIOUS
        <4>1. n \in Nat /\ m = n + 1
          BY <1>2, <1>13, <2>1
        <4>2. DeletedWithin(x, n)
          BY <1>2, <1>13, <2>1, <3>2 DEF OwnOf
        <4>3. DeletedWithin(x, n)'
          BY <1>7, <4>2
        <4>4. PICK v \in DOMAIN trace' :
                 Committed(v)' /\ Change(v)' = Of("SOFT", x) /\ trace'[v].nth < n
          BY <4>3 DEF DeletedWithin, Of
        <4>5. ASSUME NEW h \in Nat, h < n PROVE h < m
          BY <4>1, <4>5
        <4>6. trace'[v].nth \in Nat
          BY <1>5 DEF Note
        <4>7. trace'[v].nth < m
          BY <4>4, <4>5, <4>6
        <4> QED
          BY <4>4, <4>7 DEF DeletedWithin, Of
      <3> QED
        BY <3>1, <3>2
    <2>2. CASE x \notin DOMAIN req[r].mine
      <3>1. RowInv(x) /\ rows'[x] = rows[x] /\ m = commits[x]
        BY <1>12, <2>2 DEF AuditInv
      <3>2. Known(rows[x].v) /\ (rows[x].gone => DeletedWithin(x, m))
        BY <3>1 DEF RowInv
      <3>3. ASSUME NEW v, v = rows[x].v PROVE Known(v)'
        BY <1>7, <3>2, <3>3
      <3> QED
        BY <1>7, <3>1, <3>2, <3>3
    <2> QED
      BY <2>1, <2>2
  <1>15. ASSUME NEW x \in Row PROVE Touches(r, x)
    <2>1. CASE x \in DOMAIN req[r].mine
      <3> SUFFICES ASSUME NEW n, n = commits[x], rows[x].v = Absent, rows'[x].v # Absent
                   PROVE  CreatedAfter(x, n)'
        <4>1. \A u \in Req \ {r} : x \notin DOMAIN req[u].mine
          BY <1>2, <2>1 DEF OwnOf
        <4>2. commits[x] \in Nat /\ commits'[x] = commits[x] + 1
          BY <1>2, <1>13, <2>1
        <4> QED
          BY <4>1, <4>2 DEF Touches
      <3>1. PICK i \in Nat : Creates(r, i, x)
        BY <1>2, <1>13, <2>1 DEF OwnOf
      <3>2. /\ <<r, i>> \in DOMAIN trace /\ Change(<<r, i>>) = Of("CREATE", x)
            /\ trace[<<r, i>>].nth = n
        BY <3>1 DEF Creates
      <3>3. n >= n
        BY <1>2
      <3>4. <<r, i>> \in DOMAIN trace' /\ trace'[<<r, i>>].nth >= n
        BY <1>5, <3>2, <3>3 DEF Grows
      <3>5. Change(<<r, i>>)' = Of("CREATE", x)
        BY <1>6, <3>2 DEF Settled
      <3>6. Committed(<<r, i>>)'
        BY <1>5, <3>2 DEF Committed
      <3> QED
        BY <3>4, <3>5, <3>6 DEF CreatedAfter, Of
    <2>2. CASE x \notin DOMAIN req[r].mine
      BY <1>12, <2>2 DEF Touches
    <2> QED
      BY <2>1, <2>2
  <1>16. \A x \in DOMAIN q.mine : \A u \in Req \ {r} : x \notin DOMAIN req[u].mine
    BY <1>3, NoneTyped
  <1> QED
    BY <1>1, <1>3, <1>5, <1>6, <1>8, <1>9, <1>10, <1>11, <1>14, <1>15, <1>16, GrowStep

LEMMA CrashStep ==
  ASSUME AuditInv, Crash
  PROVE  AuditInv'
  <1>1. /\ req \in [Req -> Request] /\ UNCHANGED <<rows, audit, commits, trace>>
        /\ req' = [r \in Req |->
                      IF req[r].pc \in {"new", "done", "failed"} THEN req[r]
                      ELSE [req[r] EXCEPT !.pc = "failed", !.open = FALSE, !.mine = None]]
    BY DEF AuditInv, ShapeInv, Crash
  <1>2. ASSUME NEW r \in Req
        PROVE  /\ req'[r] \in Request /\ req'[r].script = req[r].script
               /\ req'[r].at = req[r].at /\ req'[r].old = req[r].old
               /\ \/ req'[r] = req[r] /\ req[r].pc \in {"new", "done", "failed"}
                  \/ /\ req'[r].pc = "failed" /\ req'[r].mine = None /\ ~req'[r].open
                     /\ req[r].pc \notin {"new", "done", "failed"}
    <2>1. req[r] \in Request
      BY <1>1
    <2>2. CASE req[r].pc \in {"new", "done", "failed"}
      BY <1>1, <2>1, <2>2
    <2>3. CASE req[r].pc \notin {"new", "done", "failed"}
      <3> DEFINE q == [req[r] EXCEPT !.pc = "failed", !.open = FALSE, !.mine = None]
      <3>1. req'[r] = q
        BY <1>1, <2>3
      <3>2. /\ q \in Request /\ q.pc = "failed" /\ q.script = req[r].script
            /\ q.at = req[r].at /\ q.old = req[r].old /\ q.mine = None /\ ~q.open
        BY <2>1, NoneTyped DEF Request, Pc
      <3> HIDE DEF q
      <3> QED
        BY <2>3, <3>1, <3>2
    <2> QED
      BY <2>2, <2>3
  <1>3. Grows /\ Settled
    <2>1. Settled
      <3>1. \A r \in Req : req'[r].script = req[r].script
        BY <1>2
      <3> QED
        BY <1>1, <3>1 DEF Settled, Change, AuditInv, ShapeInv
    <2> QED
      BY <1>1, <2>1 DEF Grows
  <1>4. /\ \A v : Known(v) => Known(v)'
        /\ \A y, n : DeletedWithin(y, n) => DeletedWithin(y, n)'
        /\ \A w \in DOMAIN trace : Excused(w) => Excused(w)'
    BY <1>3, Lasting
  <1>5. ASSUME NEW r \in Req
        PROVE  PlaceOf(r)' /\ TraceOf(r)' /\ MineOf(r)' /\ SeenOf(r)' /\ OwnOf(r)'
    <2>1. PlaceOf(r) /\ TraceOf(r) /\ MineOf(r) /\ OwnOf(r)
      BY DEF AuditInv
    <2>2. PlaceOf(r)' /\ SeenOf(r)'
      BY <1>2, <2>1, NoneTyped DEF PlaceOf, SeenOf
    <2>3. TraceOf(r)'
      BY <1>1, <1>2, <1>4, <2>1 DEF TraceOf, Audited
    <2>4. MineOf(r)'
      <3>1. ASSUME NEW v, v = req[r].old.v PROVE Known(v)'
        BY <1>4, <2>1, <3>1 DEF MineOf
      <3> QED
        BY <1>1, <1>2, <2>1, <3>1, NoneTyped DEF MineOf
    <2>5. OwnOf(r)'
      <3> SUFFICES ASSUME NEW x \in DOMAIN req'[r].mine, NEW n, n = commits[x]
                   PROVE  /\ \A u \in Req \ {r} : x \notin DOMAIN req'[u].mine
                          /\ req'[r].mine[x].gone => DeletedWithin(x, n)'
                          /\ req'[r].mine[x].v # Absent /\ rows[x].v = Absent =>
                                \E i \in Nat : Creates(r, i, x)'
        BY <1>1 DEF OwnOf
      <3>1. req'[r].mine = req[r].mine
        BY <1>2, NoneTyped
      <3>2. /\ \A u \in Req \ {r} : x \notin DOMAIN req[u].mine
            /\ req[r].mine[x].gone => DeletedWithin(x, n)
            /\ req[r].mine[x].v # Absent /\ rows[x].v = Absent =>
                  \E i \in Nat : Creates(r, i, x)
        BY <2>1, <3>1 DEF OwnOf
      <3>3. \A u \in Req \ {r} : x \notin DOMAIN req'[u].mine
        BY <1>2, <3>2, NoneTyped
      <3>4. \A i \in Nat : Creates(r, i, x) => Creates(r, i, x)'
        BY <1>1, <1>3 DEF Creates, Settled, Of
      <3> QED
        BY <1>4, <3>1, <3>2, <3>3, <3>4
    <2> QED
      BY <2>2, <2>3, <2>4, <2>5
  <1>6. ShapeInv'
    BY <1>1, <1>2 DEF AuditInv, ShapeInv
  <1>7. ASSUME NEW x \in Row PROVE RowInv(x)'
    BY <1>1, <1>4 DEF AuditInv, RowInv
  <1>8. ASSUME NEW e \in audit PROVE EntryInv(e)'
    BY <1>1, <1>4 DEF AuditInv, EntryInv
  <1> QED
    BY <1>1, <1>5, <1>6, <1>7, <1>8 DEF AuditInv

\* A step that changes nothing changes nothing that is said of the state.
LEMMA AuditStutter == AuditInv /\ UNCHANGED vars => AuditInv'
  <1> SUFFICES ASSUME AuditInv, UNCHANGED vars PROVE AuditInv'
    OBVIOUS
  <1>1. UNCHANGED <<rows, audit, req, commits, trace>>
    BY DEF vars
  <1>2. ShapeInv'
    BY <1>1 DEF AuditInv, ShapeInv
  <1>3. Grows /\ Settled
    BY <1>1 DEF Grows, Settled, Change
  <1>4. /\ \A v : Known(v) => Known(v)'
        /\ \A y, n : DeletedWithin(y, n) => DeletedWithin(y, n)'
        /\ \A y, n : CreatedAfter(y, n) => CreatedAfter(y, n)'
        /\ \A w \in DOMAIN trace : Excused(w) => Excused(w)'
    BY <1>3, Lasting
  <1>5. ASSUME NEW r \in Req
        PROVE  PlaceOf(r)' /\ TraceOf(r)' /\ MineOf(r)' /\ SeenOf(r)' /\ OwnOf(r)'
    <2>1. PlaceOf(r) /\ TraceOf(r) /\ MineOf(r) /\ SeenOf(r) /\ OwnOf(r)
      BY DEF AuditInv
    <2>2. PlaceOf(r)'
      BY <1>1, <2>1 DEF PlaceOf
    <2>3. TraceOf(r)'
      BY <1>1, <1>4, <2>1 DEF TraceOf, Audited, Me, OpOf
    <2>4. MineOf(r)'
      BY <1>1, <1>4, <2>1 DEF MineOf
    <2>5. SeenOf(r)'
      BY <1>1, <1>4, <2>1 DEF SeenOf, OpOf
    <2>6. OwnOf(r)'
      <3>1. \A i, x : Creates(r, i, x) => Creates(r, i, x)'
        BY <1>1, <1>3 DEF Creates, Settled, Of
      <3> QED
        BY <1>1, <1>4, <2>1, <3>1 DEF OwnOf
    <2> QED
      BY <2>2, <2>3, <2>4, <2>5, <2>6
  <1>6. ASSUME NEW x \in Row PROVE RowInv(x)'
    BY <1>1, <1>4 DEF AuditInv, RowInv
  <1>7. ASSUME NEW e \in audit PROVE EntryInv(e)'
    BY <1>1, <1>4 DEF AuditInv, EntryInv
  <1> QED
    BY <1>1, <1>2, <1>5, <1>6, <1>7 DEF AuditInv

LEMMA AuditStep == AuditInv /\ [Next]_vars => AuditInv'
  <1> SUFFICES ASSUME AuditInv, [Next]_vars PROVE AuditInv'
    OBVIOUS
  <1>1. CASE UNCHANGED vars
    BY <1>1, AuditStutter
  <1>2. CASE Crash
    BY <1>2, CrashStep
  <1>3. ASSUME NEW r \in Req, Begin(r) \/ Step(r) \/ TxExpire(r) PROVE AuditInv'
    <2>1. CASE Begin(r)
      BY <2>1, BeginStep
    <2>2. CASE Open(r)
      BY <2>2, OpenStep
    <2>3. CASE ReadOld(r)
      BY <2>3, ReadOldStep
    <2>4. CASE Take(r)
      BY <2>4, TakeStep
    <2>5. CASE Query(r)
      BY <2>5, QueryStep
    <2>6. CASE WriteAudit(r)
      BY <2>6, WriteAuditStep
    <2>7. CASE Commit(r)
      BY <2>7, CommitStep
    <2>8. CASE Broken(r)
      <3>1. req[r].pc \notin {"new", "done", "failed"} /\ Fail(r) /\ UNCHANGED <<rows, audit, commits, trace>>
        BY <2>8 DEF Broken
      <3> QED
        BY <3>1, FailStep
    <2>9. CASE PoolTimeout(r)
      <3>1. req[r].pc \notin {"new", "done", "failed"} /\ Fail(r) /\ UNCHANGED <<rows, audit, commits, trace>>
        BY <2>9 DEF PoolTimeout, NeedsConnection
      <3> QED
        BY <3>1, FailStep
    <2>10. CASE TxExpire(r)
      BY <2>10, TxExpireStep
    <2> QED
      BY <1>3, <2>1, <2>2, <2>3, <2>4, <2>5, <2>6, <2>7, <2>8, <2>9, <2>10 DEF Step
  <1> QED
    BY <1>1, <1>2, <1>3 DEF Next

-----------------------------------------------------------------------------
(* The theorems *)

\* What the audit rows, the trace and the requests of the extension have to do
\* with each other at every step (audit.extension.ts).
THEOREM AuditInvariant == Spec => []AuditInv
  <1> QED
    BY AuditInit, AuditStep, PTL DEF Spec

\* Every committed change has its audit row, except a single write whose
\* request is at the insert or failed there, and a soft delete of a row that an
\* earlier one had deleted before the extension read it, or that was created
\* only after that (audit.extension.ts, auditWrite after the query;
\* soft-delete.extension.ts, findFirst of a living row).
THEOREM ChangesHaveAuditRows == Spec => []ChangesAudited
  <1>1. ASSUME AuditInv PROVE ChangesAudited
    <2> SUFFICES ASSUME NEW w \in DOMAIN trace, Committed(w)
                 PROVE  \/ Audited(w)
                        \/ /\ ~IsTx(w[1])
                           /\ \/ /\ req[w[1]].at = w[2]
                                 /\ req[w[1]].pc \in {"audit", "failed"}
                              \/ Excused(w)
      BY DEF ChangesAudited, Excused
    <2>1. PICK r \in Req, i \in Nat : w = <<r, i>>
      BY <1>1 DEF AuditInv, ShapeInv
    <2>2. TraceOf(r) /\ w[1] = r /\ w[2] = i
      BY <1>1, <2>1 DEF AuditInv
    <2>3. /\ \/ Audited(w)
             \/ i = req[r].at /\ req[r].pc \in {"audit", "failed"}
             \/ ~req[r].script.tx /\ Excused(w)
          /\ req[r].script.tx => req[r].pc = "done"
      BY <2>1, <2>2 DEF TraceOf, Committed
    <2> QED
      BY <2>2, <2>3 DEF IsTx
  <1> QED
    BY <1>1, AuditInvariant, PTL

\* An audit row without its change comes only from a transaction that is not
\* over or did not succeed (audit.extension.ts: the raw client writes outside it).
THEOREM PhantomsAreOfTransactions == Spec => []PhantomOnlyFromTransaction
  <1>1. ASSUME AuditInv PROVE PhantomOnlyFromTransaction
    <2> SUFFICES ASSUME NEW e \in audit
                 PROVE  Committed(e.write)
                        \/ (IsTx(e.write[1]) /\ req[e.write[1]].pc # "done")
      BY DEF PhantomOnlyFromTransaction
    <2>1. e.write \in DOMAIN trace
      BY <1>1 DEF AuditInv, EntryInv
    <2>2. PICK r \in Req, i \in Nat : e.write = <<r, i>>
      BY <1>1, <2>1 DEF AuditInv, ShapeInv
    <2>3. /\ req[r].pc # "new" /\ (~req[r].script.tx => trace[e.write].committed)
          /\ req[r].script.tx => (trace[e.write].committed <=> req[r].pc = "done")
      BY <1>1, <2>1, <2>2 DEF AuditInv, TraceOf
    <2>4. req[r].script.tx \in BOOLEAN /\ e.write[1] = r
      BY <1>1, <2>2, <2>3, SeenTyped
    <2> QED
      BY <2>1, <2>3, <2>4 DEF Committed, IsTx
  <1> QED
    BY <1>1, AuditInvariant, PTL

\* The old values of an audit row are committed ones, and those the write
\* replaced unless its own transaction had written the row or somebody committed
\* on it after they were read and before the write (audit.extension.ts,
\* findUnique on the raw client before the query).
THEOREM OldValuesAreTrue == Spec => []OldValuesTrue
  <1>1. ASSUME AuditInv PROVE OldValuesTrue
    BY <1>1 DEF AuditInv, EntryInv, Known, OldValuesTrue
  <1> QED
    BY <1>1, AuditInvariant, PTL
=============================================================================
